---------------------------- MODULE CleanEntries ----------------------------
(* How improve cleans the entries of unified.json, how improve-entries     *)
(* cleans the rows of the table, with a copy of the same code that is not  *)
(* quite the same, and what load makes of an entry                         *)
(* (load-pipeline.service.ts).                                             *)
EXTENDS MergeEntries

CONSTANT JsonNull

(* Without text: no translation and no note. *)
HasText(m) == ~IsBlank(m.translation) \/ m.note

(* Of the meanings with one translation the first stays. *)
FirstOfEach(meanings) ==
    FoldLeft(LAMBDA sofar, m :
                 IF /\ ~IsBlank(m.translation)
                    /\ \E x \in Range(sofar) : Trim(x.translation) = Trim(m.translation)
                 THEN sofar ELSE Append(sofar, m),
             <<>>, meanings)

IsBroken(p) == \/ IsBlank(p.ru) \/ IsBlank(p.nah)
               \/ Lower(Trim(p.nah)) = Lower(Trim(p.ru))
IsWhole(p) == ~IsBlank(p.ru) /\ ~IsBlank(p.nah)
IsExample(p) == ~IsBroken(p)

(* Seeded bug: a list that becomes empty stays. *)
EmptyStays(s) == s

NoneIfEmpty(s) == IF s = <<>> THEN None ELSE s
Kept(s, Test(_)) == IF s = None THEN None ELSE NoneIfEmpty(Filter(s, Test))

----------------------------------------------------------------------------
(* improve, on one entry.                                                  *)

(* Seeded bug: examples with equal sides stay, in this copy of the code. *)
CleanMeaningWhole(m) == [m EXCEPT !.examples = Kept(@, IsWhole), !.translation = Slice(@)]

CleanMeaning(m) == [m EXCEPT !.examples = Kept(@, IsExample), !.translation = Slice(@)]

IsCitation(c) == ~IsBlank(c)
CleanCitations(cs) ==
    LET kept == Kept(cs, IsCitation) IN IF kept = None THEN None ELSE Each(Slice, kept)

CleanEntry(e) ==
    [e EXCEPT
        !.word = CleanWord(@),
        !.meanings = Each(CleanMeaning, FirstOfEach(Filter(@, HasText))),
        !.info["styleLabel"] = NormalizeStyle(@),
        !.phraseology = Kept(@, IsWhole),
        !.citations = CleanCitations(@)]

----------------------------------------------------------------------------
(* improve-entries, on one row. A list that becomes empty is the null of   *)
(* JSON, not NULL; a meaning without examples is not cut; and citations    *)
(* that are only cut, none of them removed, are not written.               *)

RowMeaning(m) ==
    LET examples == Filter(m.examples, IsExample)
    IN  IF m.examples = None THEN m
        ELSE [m EXCEPT !.translation = Slice(@),
                       !.examples = IF examples = @ THEN @ ELSE NoneIfEmpty(examples)]

RowList(s, kept) ==
    IF s \in {None, JsonNull} \/ kept = s THEN s ELSE IF kept = <<>> THEN JsonNull ELSE kept
Filtered(s, Test(_)) == IF s \in {None, JsonNull} THEN s ELSE Filter(s, Test)

(* Seeded bug: the normal form is not made again for a cleaned word. *)
ImproveRowOldNorm(r) ==
    [r EXCEPT !.entry.word = CleanWord(@),
              !.entry.meanings = Each(RowMeaning, FirstOfEach(Filter(@, HasText)))]

ImproveRow(r) ==
    LET word == CleanWord(r.entry.word)
        whole == Filtered(r.entry.phraseology, IsWhole)
        real == Filtered(r.entry.citations, IsCitation)
    IN  [r EXCEPT
            !.norm = IF word = r.entry.word THEN @ ELSE NormalizeWord(word),
            !.entry.word = word,
            !.entry.meanings = Each(RowMeaning, FirstOfEach(Filter(@, HasText))),
            !.entry.info["styleLabel"] = NormalizeStyle(@),
            !.entry.phraseology = RowList(@, whole),
            !.entry.citations = IF real = @ THEN @ ELSE RowList(@, Each(Slice, real))]

----------------------------------------------------------------------------
(* load.                                                                   *)

(* Seeded bug: a noun is refused with its class, too. *)
AcceptableNoNouns(e) ==
    /\ e.word # ""
    /\ e.meanings # <<>>
    /\ e.info["partOfSpeech"] # "suS."

Acceptable(e) ==
    /\ e.word # ""
    /\ e.meanings # <<>>
    /\ ~(e.info["nounClass"] = None /\ e.info["partOfSpeech"] = "suS.")

RowId(e) == <<e.word, e.homonym>>

(* Of the acceptable entries with one word and homonym the first is        *)
(* loaded, whatever their classes; which is first depends on the           *)
(* collation.                                                              *)
Loadable(rows) ==
    LET good == {u \in rows : Acceptable(u.entry)}
    IN  {kept \in SUBSET good :
            /\ {RowId(u.entry) : u \in kept} = {RowId(u.entry) : u \in good}
            /\ \A u, v \in kept : u # v => RowId(u.entry) # RowId(v.entry)}

Row(u) ==
    [entry |-> [u.entry EXCEPT !.info["entryType"] = IF @ = None THEN "standard" ELSE @],
     norm |-> NormalizeWord(u.entry.word),
     cefr |-> EstimateCefr(u),
     sources |-> u.sources]

=============================================================================
