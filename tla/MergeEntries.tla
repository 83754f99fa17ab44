---------------------------- MODULE MergeEntries ----------------------------
(* Entries, and how two entries of one word become one (merge-utils.ts).   *)
(*                                                                         *)
(* A text is a record of what the code tells apart: its body ("" if there  *)
(* is nothing but space), capitals, space around it, and its length: mid   *)
(* is what stands beyond 50 characters, far what stands beyond the limit   *)
(* improve cuts texts of its kind to ("" if nothing does).                 *)
EXTENDS WordForms, SequencesExt

Text(body) == [body |-> body, upper |-> FALSE, pad |-> FALSE, mid |-> "", far |-> ""]
IsBlank(t) == t.body = ""
Trim(t) == [t EXCEPT !.pad = FALSE]
Lower(t) == [t EXCEPT !.upper = FALSE]
Head50(t) == [t EXCEPT !.mid = "", !.far = ""]
Slice(t) == [t EXCEPT !.far = ""]

Phrase(nah, ru) == [nah |-> nah, ru |-> ru]

(* examples, phraseology and citations are None where the field is absent. *)
Meaning(translation) == [translation |-> translation, note |-> FALSE, examples |-> None]

(* The fields of an entry that are one value or absent. *)
Scalar == {"wordAccented", "partOfSpeech", "partOfSpeechNah", "nounClass", "nounClassPlural",
           "latinName", "styleLabel", "domain", "entryType"}
NoScalars == [f \in Scalar |-> None]

ParsedEntry(word) ==
    [word |-> word, homonym |-> 0, info |-> NoScalars, grammar |-> None,
     meanings |-> <<>>, phraseology |-> None, citations |-> None]

Items(s) == IF s = None THEN {} ELSE Range(s)
Each(F(_), s) == [i \in DOMAIN s |-> F(s[i])]
Those(s, keep) ==
    FoldLeft(LAMBDA sofar, x : IF x \in keep THEN Append(sofar, x) ELSE sofar, <<>>, s)
Filter(s, Test(_)) == Those(s, {x \in Range(s) : Test(x)})

----------------------------------------------------------------------------
(* if (!target.f && source.f) target.f = source.f, for every field f. *)
FirstWins(target, source) ==
    [f \in DOMAIN target |-> IF target[f] # None THEN target[f] ELSE source[f]]

MergeGrammar(target, source) ==
    IF source = None THEN target
    ELSE IF target = None THEN source
    ELSE FirstWins(target, source)

(* The items of source with a key that no earlier item has go to the end.  *)
AppendNew(Key(_), target, source) ==
    FoldLeft(LAMBDA sofar, x : IF \E y \in Range(sofar) : Key(y) = Key(x) THEN sofar
                               ELSE Append(sofar, x),
             target, source)

PhraseKey(p) == Lower(p.nah)
CitationKey(c) == Lower(Head50(c))
MeaningKey(m) == Lower(Trim(m.translation))

(* An absent list is copied, with the duplicates it has. *)
MergeLists(Key(_), target, source) ==
    IF source = None \/ source = <<>> THEN target
    ELSE IF target = None THEN source
    ELSE AppendNew(Key, target, source)

(* Seeded bug: the examples of a meaning that is already there are lost. *)
AddMeaningOnly(meanings, m) ==
    IF IsBlank(m.translation) \/ \E x \in Range(meanings) : MeaningKey(x) = MeaningKey(m)
    THEN meanings ELSE Append(meanings, m)

(* A meaning that is already there gives its examples to the first that    *)
(* has its translation; one without translation is dropped.                *)
AddMeaning(meanings, m) ==
    LET same == {i \in DOMAIN meanings : MeaningKey(meanings[i]) = MeaningKey(m)}
    IN  IF IsBlank(m.translation) THEN meanings
        ELSE IF same = {} THEN Append(meanings, m)
        ELSE [meanings EXCEPT ![Min(same)].examples = MergeLists(PhraseKey, @, m.examples)]

MergeMeanings(target, source) == FoldLeft(AddMeaning, target, source)

MergeInto(target, source) ==
    [target EXCEPT
        !.info = FirstWins(@, source.info),
        !.grammar = MergeGrammar(@, source.grammar),
        !.meanings = MergeMeanings(@, source.meanings),
        !.phraseology = MergeLists(PhraseKey, @, source.phraseology),
        !.citations = MergeLists(CitationKey, @, source.citations)]

----------------------------------------------------------------------------
(* The rows of unified.json: entries with the dictionaries they come from. *)

EntryKey(e) == <<NormalizeWord(e.word), e.homonym, e.info["nounClass"]>>

NoKey == <<"", 0, None>>

Unified(e, sources) == [entry |-> e, sources |-> sources]

(* One entry of the dictionary d, in the loop of unifyStep. *)
AddEntry(d, neologisms, merged, parsed) ==
    LET e == IF neologisms THEN [parsed EXCEPT !.info["entryType"] = "neologism"] ELSE parsed
        same == {u \in merged : EntryKey(u.entry) = EntryKey(e)}
    IN  IF EntryKey(e) = NoKey THEN merged
        ELSE IF same = {} THEN merged \cup {Unified(e, {d})}
        ELSE (merged \ same) \cup
             {Unified(MergeInto(u.entry, e), u.sources \cup {d}) : u \in same}

MergeDictionary(d, neologisms, merged, entries) ==
    FoldLeft(LAMBDA sofar, e : AddEntry(d, neologisms, sofar, e), merged, entries)

(* loadUnifiedMap: of rows that have one key, only the last stays; which   *)
(* that is depends on the collation that sorted them.                      *)
OnePerKey(rows) ==
    {kept \in SUBSET rows :
        /\ {EntryKey(u.entry) : u \in kept} = {EntryKey(u.entry) : u \in rows}
        /\ \A u, v \in kept : u # v => EntryKey(u.entry) # EntryKey(v.entry)}

----------------------------------------------------------------------------
(* Labels and levels.                                                      *)

(* normalizeStyleLabel: the abbreviations of a mark become one. A sample   *)
(* of the tables of marks and domains, labels of one mark.                 *)
StandardMark == [prost |-> "Prost", ust |-> "Ustar", ustar |-> "Ustar", arxaiC |-> "Ustar",
                 starin |-> "Starin", star |-> "Starin", neol |-> "Neol", gub |-> "Grub",
                 grub |-> "Grub", kniZn |-> "KniZn"]
StyleMark(part) == IF part \in DOMAIN StandardMark THEN StandardMark[part] ELSE part
NormalizeStyle(label) == IF label = None THEN None ELSE StyleMark(label)

(* Levels A1 to C2 are 1 to 6. *)
DomainLevel == [sport |-> 4, computer |-> 4, law |-> 5, math |-> 5, anatomy |-> 5, geology |-> 5]
StyleLevel == [Prost |-> 2, KniZn |-> 4, Grub |-> 3, Ustar |-> 5, ust |-> 5, Starin |-> 6]
LevelIn(levels, label) == IF label \in DOMAIN levels THEN {levels[label]} ELSE {}

EstimateCefr(u) ==
    LET info == u.entry.info
        known == Cardinality(u.sources)
        base == IF known >= 6 THEN 1 ELSE IF known >= 4 THEN 2 ELSE IF known >= 2 THEN 3 ELSE 4
    IN  IF info["entryType"] = "neologism" THEN 5
        ELSE Max({base} \cup LevelIn(DomainLevel, info["domain"])
                        \cup LevelIn(StyleLevel, info["styleLabel"])
                        \cup (IF info["partOfSpeech"] \in {"priC.", "deepriC.", "masd."}
                              THEN {3} ELSE {}))

=============================================================================
