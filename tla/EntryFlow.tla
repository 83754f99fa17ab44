----------------------------- MODULE EntryFlow -----------------------------
(* The life of the entries: articles are parsed, dictionaries merged one   *)
(* after the other into unified.json, improve cleans it, load fills the    *)
(* table with it, improve-entries cleans rows of the table, and readers    *)
(* and reports query it. Operations do not overlap here: how they          *)
(* interleave and fail is what UnifyPipeline and EntryStore are about, and *)
(* they know nothing of the content of an entry.                           *)
EXTENDS QualityReports, Parsers

CONSTANTS
    Library,        \* the possible sets of original dictionaries
    MaxIds          \* how many rows one improve-entries takes

ASSUME IdsAreTaken == MaxIds \in Nat

ASSUME NullIsApart == Null \notin BOOLEAN /\ Null \notin 0 .. 4
ASSUME NoneIsNoType == None \notin 1 .. 4

----------------------------------------------------------------------------
(* What the values of an entry look like. A list of examples, phrases or   *)
(* citations may be there and empty: in an entry written by hand, and of   *)
(* sub-entries that are all blank.                                         *)
IsList(s) == Len(s) \in Nat /\ s = [i \in 1 .. Len(s) |-> s[i]]
MaybeList(s) == s = None \/ IsList(s)

IsText(t) ==
    t = [body |-> t.body, upper |-> t.upper, pad |-> t.pad, mid |-> t.mid, far |-> t.far]

IsMeaning(m) ==
    /\ m = [translation |-> m.translation, note |-> m.note, examples |-> m.examples]
    /\ IsText(m.translation)
    /\ MaybeList(m.examples)

(* The forms of a word, and its type of declension if one is stored. *)
IsGrammar(g) ==
    /\ g = [f \in GrammarSlot |-> g[f]]
    /\ g["declensionType"] = None \/ g["declensionType"] \in 1 .. 4

IsEntry(e) ==
    /\ e = [word |-> e.word, homonym |-> e.homonym, info |-> e.info, grammar |-> e.grammar,
            meanings |-> e.meanings, phraseology |-> e.phraseology, citations |-> e.citations]
    /\ e.info = [f \in Scalar |-> e.info[f]]
    /\ e.grammar = None \/ IsGrammar(e.grammar)
    /\ IsList(e.meanings) /\ \A m \in Range(e.meanings) : IsMeaning(m)

HasLists(e) ==
    /\ MaybeList(e.phraseology) /\ MaybeList(e.citations)
    /\ \A c \in Items(e.citations) : IsText(c)

(* No list of e is there and empty. *)
NoEmptyList(e) ==
    /\ e.phraseology # <<>> /\ e.citations # <<>>
    /\ \A m \in Range(e.meanings) : m.examples # <<>>

IsParsed(entries) ==
    IsList(entries) /\ \A e \in Range(entries) : IsEntry(e) /\ HasLists(e)

IsUnified(u) ==
    u = Unified(u.entry, u.sources) /\ IsEntry(u.entry) /\ HasLists(u.entry)

(* Only rows have the null of JSON for a list. *)
IsRow(r) ==
    /\ r = [entry |-> r.entry, norm |-> r.norm, cefr |-> r.cefr, sources |-> r.sources]
    /\ IsEntry(r.entry) /\ r.cefr \in 1 .. 6
    /\ \A s \in {r.entry.phraseology, r.entry.citations} : s = JsonNull \/ MaybeList(s)

(* Originals are of the dictionaries whose parsers are here, and           *)
(* cleanOriginal makes of one another there may be.                        *)
ASSUME LibraryIsClosed ==
    \A r \in Library :
        /\ DOMAIN r \subseteq Slug
        /\ \A d \in DOMAIN r : [r EXCEPT ![d] = DeduplicateAndSort(@)] \in Library

(* In the markup of an article there are texts and lists, where its parser *)
(* looks for them; what was written by hand is an entry.                   *)
IsKarasaevSegment(s) ==
    /\ s = [tags |-> s.tags, refs |-> s.refs, deriv |-> s.deriv, gloss |-> s.gloss, pairs |-> s.pairs]
    /\ IsText(s.gloss) /\ IsList(s.pairs) /\ (s.deriv = None \/ IsText(s.deriv))
IsKarasaev(t) ==
    /\ t = [tags |-> t.tags, numbered |-> t.numbered, segments |-> t.segments, phrases |-> t.phrases]
    /\ IsList(t.phrases) /\ IsList(t.segments) /\ (t.numbered \/ t.segments # <<>>)
    /\ \A s \in Range(t.segments) : IsKarasaevSegment(s)
IsUmarhadjiev(t) ==
    IsList(t.segments) /\ \A s \in Range(t.segments) :
        IsText(s.gloss) /\ IsList(s.pairs) /\ \A p \in Range(s.pairs) : IsText(p.ru)

IsMarkup(d, x) ==
    CASE d = "karasaev-maciev-ru-nah" -> IsKarasaev(x.text)
      [] d = "umarhadjiev-ahmatukaev" -> IsUmarhadjiev(x.text)
      [] d = "abdurashidov" -> /\ x.more.translation = None \/ IsText(x.more.translation)
                               /\ IsList(x.more.subs)
      [] d \in {"nah-ru-computer", "ismailov-nah-ru"} -> IsText(x.text.gloss) /\ IsList(x.text.pairs)
      [] d \in {"daukaev-ru-nah", "nah-ru-anatomy", "ru-nah-anatomy"} -> IsText(x.text.gloss)
      [] d = "ismailov-ru-nah" -> IsList(x.text) /\ \A m \in Range(x.text) : IsText(m.gloss)
      [] d = "aslahanov-ru-nah" -> IsText(x.text.lemma)
      [] d \in {"collected", "neologisms"} ->
             IF x.entry = None THEN IsText(x.text) ELSE IsEntry(x.entry) /\ HasLists(x.entry)

ASSUME LibraryIsWritten ==
    \A r \in Library : \A d \in DOMAIN r :
        IsList(r[d]) /\ \A x \in Range(r[d]) : IsMarkup(d, x)

IsmailovSlugs == {"ismailov-nah-ru", "ismailov-ru-nah"}

(* The words of the parsed entries, before and after they are cleaned.     *)
LibraryWords ==
    UNION {UNION {{e.word : e \in Range(ParseDictionary(d, r[d]))} : d \in DOMAIN r} :
               r \in Library}
AllWords == LibraryWords \cup {CleanWord(w) : w \in LibraryWords}

(* A word in the writing with the capital palochka. *)
InCapitals(w) == MapChars(LAMBDA c : IF c = "1" THEN "I" ELSE c, w)

(* What the functions on words do with every word there is. *)
ASSUME WordsAreWritten ==
    /\ NormalizeWord("") = ""
    /\ \A w \in AllWords :
           /\ CleanWord(CleanWord(w)) = CleanWord(w)
           /\ NormalizeWord(InCapitals(w)) = NormalizeWord(w)
           /\ HasPart(NormalizeWord(w), NormalizeWord(w))

(* In letters that normalisation keeps, with a stem of more than one.      *)
PlainWord(w) ==
    /\ Chars(w) \cap {"j", "Y", "H", "1", "I", "~", "^", "E", "U", "A"} = {}
    /\ Len(GuessObliqueStem(w)) > 1

(* The ends of an instrumental by which DetectType tells the types. *)
TypeEndings == {"Cunca", "Cu'nca", "CuHnca", "ica", "nca", "rca"}

(* What joining an ending to a stem does, with every stem there is. *)
ASSUME StemsAreWritten ==
    \A w \in AllWords : LET s == GuessObliqueStem(w) IN
        /\ s # None /\ Len(s) \in Nat
        /\ \A e \in Endings :
               /\ s \o e # None /\ Len(e) \in Nat /\ Len(s \o e) = Len(s) + Len(e)
               /\ EndsWith(s \o e, e) /\ Drop(s \o e, Len(e)) = s
               /\ PlainWord(w) => MapChars(LowerChar, s \o e) = s \o e
               /\ \A f \in TypeEndings :
                      EndsWith(s \o e, f) <=>
                          EndsWith(e, f) \/ (EndsWith(f, e) /\ EndsWith(s, Drop(f, Len(e))))
        /\ \A end \in {"Cun", "Cu'n", "CuHn"} : EndsWith(s, end) => EndsWith(s, "n")
        /\ s # w => w = s \o Char(w, Len(w)) /\ Char(w, Len(w)) \in Chars(w)
        /\ PlainWord(w) => NormalizeWord(w) = w

(* Which ends of an instrumental end like another, and what is before it. *)
ASSUME EndingsAreSpelt ==
    LET EndOf(e) == {f \in TypeEndings : EndsWith(e, f)}
        Longer(e) == {f \in TypeEndings : EndsWith(f, e)}
    IN  /\ EndOf("ca") = {} /\ EndOf("nca") = {"nca"} /\ EndOf("ica") = {"ica"}
        /\ EndOf("Cu'nca") = {"nca", "Cu'nca"}
        /\ Longer("nca") = {"Cunca", "Cu'nca", "CuHnca", "nca"} /\ Longer("ica") = {"ica"}
        /\ Len("ca") = 2 /\ Len("nca") = 3
        /\ {<<f, Drop(f, 2)>> : f \in TypeEndings} =
               {<<"Cunca", "Cun">>, <<"Cu'nca", "Cu'n">>, <<"CuHnca", "CuHn">>,
                <<"ica", "i">>, <<"nca", "n">>, <<"rca", "r">>}
        /\ Drop("Cunca", 3) = "Cu" /\ Drop("Cu'nca", 3) = "Cu'" /\ Drop("CuHnca", 3) = "CuH"

VARIABLES
    raw,        \* dictionaries: the articles of each original there is
    parsed,     \* dictionaries/parsed: the entries of each, None before parse
    unified,    \* dictionaries/unified.json, a set: collation is left out
    table,      \* "UnifiedEntry": the rows by the word they were loaded for
    merged,     \* history: the entries merged so far, of each dictionary
    improved,   \* history: unified.json since improve: "never", "last", "before"
    fresh       \* history: nothing was done since the table was loaded

vars == <<raw, parsed, unified, table, merged, improved, fresh>>

Dict == DOMAIN raw
NeologismSlugs == {"neologisms"}
Sources == UNION {u.sources : u \in unified}

----------------------------------------------------------------------------
CleanOriginal(d) ==
    /\ raw' = [raw EXCEPT ![d] = DeduplicateAndSort(@)]
    /\ UNCHANGED <<parsed, unified, table, merged, improved, fresh>>

Parse(d) ==
    /\ parsed' = [parsed EXCEPT ![d] = ParseDictionary(d, raw[d])]
    /\ UNCHANGED <<raw, unified, table, merged, improved, fresh>>

UnifyStep(d) ==
    /\ parsed[d] # None
    /\ d \notin Sources
    /\ \E kept \in OnePerKey(unified) :
           unified' = MergeDictionary(d, d \in NeologismSlugs, kept, parsed[d])
    /\ merged' = [x \in DOMAIN merged \cup {d} |-> IF x = d THEN parsed[d] ELSE merged[x]]
    /\ improved' = IF improved = "never" THEN "never" ELSE "before"
    /\ fresh' = FALSE
    /\ UNCHANGED <<raw, parsed, table>>

(* Rows that improve makes equal in everything count as one here. *)
Improve ==
    /\ merged # <<>>
    /\ unified' = {Unified(CleanEntry(u.entry), u.sources) : u \in unified}
    /\ improved' = "last"
    /\ fresh' = FALSE
    /\ UNCHANGED <<raw, parsed, table, merged>>

Load ==
    /\ merged # <<>>
    /\ \E kept \in Loadable(unified) :
           table' = [id \in {RowId(u.entry) : u \in kept} |->
                        Row(CHOOSE u \in kept : RowId(u.entry) = id)]
    /\ fresh' = TRUE
    /\ UNCHANGED <<raw, parsed, unified, merged, improved>>

ImproveEntries(ids) ==
    /\ Cardinality(ids) <= MaxIds
    /\ table' = [id \in DOMAIN table |-> IF id \in ids THEN ImproveRow(table[id]) ELSE table[id]]
    /\ fresh' = FALSE
    /\ UNCHANGED <<raw, parsed, unified, merged, improved>>

Next ==
    \/ \E d \in Dict : CleanOriginal(d) \/ Parse(d) \/ UnifyStep(d)
    \/ Improve
    \/ Load
    \/ \E ids \in SUBSET DOMAIN table \ {{}} : ImproveEntries(ids)

Init ==
    /\ raw \in Library
    /\ parsed = [d \in DOMAIN raw |-> None]
    /\ unified = {}
    /\ table = <<>>
    /\ merged = <<>>
    /\ improved = "never"
    /\ fresh = FALSE

Spec == Init /\ [][Next]_vars

----------------------------------------------------------------------------
(* Properties.                                                             *)

Entries == {u.entry : u \in unified}
Rows == {table[id] : id \in DOMAIN table}

(* unified.json and the table hold entries, of dictionaries that were      *)
(* merged; after improve no list in unified.json is there and empty, as    *)
(* some are that the parsers leave.                                        *)
TypeOK ==
    /\ Sources \subseteq DOMAIN merged /\ DOMAIN merged \subseteq Dict
    /\ \A u \in unified : IsUnified(u) /\ (improved = "last" => NoEmptyList(u.entry))
    /\ \A r \in Rows : IsRow(r)

Translations(e) == {MeaningKey(m) : m \in {x \in Range(e.meanings) : ~IsBlank(x.translation)}}
Examples(e, key) ==
    UNION {{PhraseKey(p) : p \in Items(m.examples)} :
               m \in {x \in Range(e.meanings) : MeaningKey(x) = key}}

(* Everything part says is said by whole: every translation and each of    *)
(* its examples, every phrase and citation, every field and form.          *)
Includes(whole, part) ==
    /\ Translations(part) \subseteq Translations(whole)
    /\ \A key \in Translations(part) : Examples(part, key) \subseteq Examples(whole, key)
    /\ \A p \in Items(part.phraseology) :
           \E q \in Items(whole.phraseology) : PhraseKey(q) = PhraseKey(p)
    /\ \A c \in Items(part.citations) :
           \E q \in Items(whole.citations) : CitationKey(q) = CitationKey(c)
    /\ \A f \in Scalar : part.info[f] # None => whole.info[f] # None
    /\ part.grammar # None =>
           /\ whole.grammar # None
           /\ \A g \in GrammarSlot : part.grammar[g] # None => whole.grammar[g] # None

(* Until improve runs, nothing a merged dictionary says of a word is lost, *)
(* whatever the order of the dictionaries; only an entry whose word is     *)
(* nothing once it is normalised is left out.                              *)
NothingLost ==
    improved = "never" =>
        \A d \in DOMAIN merged : \A e \in Range(merged[d]) :
            EntryKey(e) # NoKey =>
                \E u \in unified : /\ EntryKey(u.entry) = EntryKey(e)
                                   /\ d \in u.sources
                                   /\ Includes(u.entry, e)

(* No two meanings with a translation have the same one. *)
NoneRepeated(meanings) ==
    \A i, j \in DOMAIN meanings :
        i # j /\ ~IsBlank(meanings[i].translation) =>
            Trim(meanings[i].translation) # Trim(meanings[j].translation)

(* Both copies of the cleaning code agree: a row that is loaded from a     *)
(* cleaned entry has nothing left for improve-entries to change, unless    *)
(* translations became equal when they were cut.                           *)
CleaningSettles ==
    improved = "last" =>
        \A u \in unified : NoneRepeated(u.entry.meanings) => ImproveRow(Row(u)) = Row(u)

(* A word that has a translation and a class in a dictionary can be looked *)
(* up once the dictionary is merged and the table loaded, whatever was     *)
(* merged into it and however the others write it; and its translations    *)
(* are there if no other class of the word competes for its row.           *)
WordsReachTheTable ==
    fresh /\ improved = "never" =>
        \A d \in DOMAIN merged : \A e \in Range(merged[d]) :
            Translations(e) # {} /\ NormalizeWord(e.word) # "" /\ e.info["nounClass"] # None =>
                \E id \in Lookup(table, e.word) :
                    /\ id[2] = e.homonym
                    /\ Cardinality({u \in unified : RowId(u.entry) = id}) = 1 =>
                           Translations(e) \subseteq Translations(table[id].entry)

HandWritten == {"collected", "neologisms", "abdurashidov"}

(* What entries tell of a word and class: its translations, the examples   *)
(* of each, which fields it has and whether it has grammar.                *)
SenseFacts(m) ==
    {<<"translation", m.translation>>}
    \cup {<<"example", m.translation, p>> : p \in Items(m.examples)}
Facts(e) ==
    {<<"field", f>> : f \in {x \in Scalar : e.info[x] # None}}
    \cup {<<"grammar">> : g \in {e.grammar} \ {None}}
    \cup UNION {SenseFacts(m) : m \in Range(e.meanings)}
FactsOf(e) == {<<e.word, e.info["nounClass"], x>> : x \in Facts(e)}
Told(entries) == UNION {FactsOf(e) : e \in Range(entries)}

SameParsed(d, before, after) ==
    IF d \in IsmailovSlugs THEN Told(after) = Told(before) ELSE Range(after) = Range(before)

(* Cleaning the original of a dictionary changes nothing but the order of  *)
(* the entries parsed from it: the two copies of the deduplication agree.  *)
(* Where the parser puts articles together, what comes first also decides  *)
(* the order of the examples and which value of a field stays, but what is *)
(* told of each word stays the same. Not so for originals without the      *)
(* field translate, which are not deduplicated when they are parsed.       *)
CleanOriginalIsSafe ==
    [][raw' # raw => \A d \in Dict \ HandWritten :
           SameParsed(d, ParseDictionary(d, raw[d]), ParseDictionary(d, raw'[d]))]_vars

(* Every row is found by its word, in both writings of the palochka: by    *)
(* lookup always, by search unless it takes the query for Russian; so also *)
(* after the word was cleaned.                                             *)
RowsAreFound ==
    \A id \in DOMAIN table :
        LET w == table[id].entry.word
        IN  \A q \in {w, InCapitals(w)} :
                /\ id \in Lookup(table, q)
                /\ DetectLanguage(q) # "ru" => id \in Search(table, q).data

ProblemType == {"no-meanings", "no-class", "no-pos", "no-examples"}

TotalOf(counts) == MapThenSumSet(LAMBDA x : counts[x], DOMAIN counts)

(* Levels, parts of speech and their buckets add up to the number of rows, *)
(* up to those without part of speech.                                     *)
CountsAddUp ==
    LET stats == QualityStats(table)
        buckets == EntriesStats(table)
    IN  /\ TotalOf(Levels(table)) = stats.total
        /\ TotalOf(PosDistribution(table)) + stats.noPartOfSpeech = stats.total
        /\ TotalOf([b \in DOMAIN buckets \ {"total"} |-> buckets[b]]) + stats.noPartOfSpeech
               = buckets["total"]

(* The problems that are counted are those that are listed. *)
ProblemsAgree ==
    LET stats == QualityStats(table)
        Listed(p) == FindProblems(table, p)
    IN  /\ Listed("all") = UNION {Listed(p) : p \in ProblemType}
        /\ stats.problemsUnique = Cardinality({id \in DOMAIN table : Problems(table[id]) # {}})
        /\ stats.noMeanings = Cardinality(Listed("no-meanings"))
        /\ stats.nounsWithoutClass = Cardinality(Listed("no-class"))
        /\ stats.noPartOfSpeech = Cardinality(Listed("no-pos"))
        /\ stats.noExamples = Cardinality(Listed("no-examples"))

(* The rows of a source are each counted once, but for those whose number  *)
(* of problems is Null, and these have some.                               *)
SourceAddsUp(s) ==
    LET row == BySource(table, s)
        unknown == {id \in ListEntries(table, [source |-> s]) : ProblemsCount(table[id]) = Null}
    IN  /\ row.total = SourceCount(table, s)
        /\ row.ok + row.warn + row.err + Cardinality(unknown) = row.total
        /\ \A id \in unknown : Problems(table[id]) # {}

(* The reports agree with each other: counts with listings, problems with  *)
(* their list, levels, parts of speech and their buckets with the total,   *)
(* up to the rows without part of speech, and the counts by source up to   *)
(* the rows whose number of problems is Null.                              *)
ReportsAgree == CountsAddUp /\ ProblemsAgree /\ \A s \in Dict : SourceAddsUp(s)

RowGrammar(r) == IF r.entry.grammar = None THEN NoGrammar ELSE r.entry.grammar

(* g with all the forms of a paradigm stored in it. *)
Stored(forms, g) ==
    [s \in GrammarSlot |->
        IF s \in Case THEN forms.singular[s]
        ELSE IF forms.plural # None /\ \E c \in Case : PluralOf[c] = s
        THEN forms.plural[CHOOSE c \in Case : PluralOf[c] = s]
        ELSE g[s]]

(* An editor who stores the forms the site shows changes nothing of what   *)
(* it shows.                                                               *)
FormsSettle ==
    \A r \in Rows :
        LET g == RowGrammar(r)
            w == r.entry.word
            forms == Declension(w, g)
            again == Declension(w, Stored(forms, g))
        IN  /\ again.singular = forms.singular
            /\ again.plural = forms.plural
            /\ ShowsConjugation(Field(r, "partOfSpeech"), g) =>
                   Conjugation(w, Stored(forms, g)) = Conjugation(w, g)

(* A form the rules of declension make of a word in the table leads back   *)
(* to that word when it is lemmatised, if the word is written in letters   *)
(* that normalisation keeps and its stem is not given and not one letter.  *)
WordFoundAgain(r) ==
    LET g == RowGrammar(r)
        w == r.entry.word
    IN  PlainWord(w) /\ g["obliqueStem"] = None =>
            \A c \in Case : g[c] = None =>
                r.norm \in Lemmas(Declension(w, g).singular[c], {x.norm : x \in Rows})

(* The type of declension is found again from the forms of a word, if its  *)
(* stem does not end like an ending of another type.                       *)
TypeFoundAgain(w) ==
    ~Ends(GuessObliqueStem(w), {"n", "r", "i", "Cu", "Cu'", "CuH"}) =>
        \A t \in 1 .. 4 :
            LET typed == [NoGrammar EXCEPT !["declensionType"] = t]
            IN  DetectType(Stored(Declension(w, typed), NoGrammar)) = t

(* What the rules make of a word is read back: lemmatize finds the word,   *)
(* and DetectType the type, whose endings they know apart from the rules.  *)
FormsLeadBack == \A r \in Rows : WordFoundAgain(r) /\ TypeFoundAgain(r.entry.word)

(* dictionary.service.ts:454 of the browse mode of phrases: it answers     *)
(* with the entries that have at least one.                                *)
PhrasesBrowsable ==
    /\ ~BrowsePhrases(table).fails
    /\ BrowsePhrases(table).data = {id \in DOMAIN table : Items(table[id].entry.phraseology) # {}}

=============================================================================
