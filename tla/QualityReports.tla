--------------------------- MODULE QualityReports ---------------------------
(* What the site and the admin panel read from the table of entries:       *)
(* listings, statistics, quality reports, searches. table is a function    *)
(* from ids to rows; a report is an operator on it. A condition of SQL is  *)
(* TRUE, FALSE or Null, and a row is selected when it is TRUE.             *)
EXTENDS CleanEntries

CONSTANT Null

Field(r, f) == r.entry.info[f]
Where(table, Cond(_)) == {id \in DOMAIN table : Cond(table[id]) = TRUE}

Is(value, other) == IF None \in {value, other} THEN Null ELSE value = other
And(p, q) ==
    IF FALSE \in {p, q} THEN FALSE ELSE IF Null \in {p, q} THEN Null ELSE TRUE
AsInt(p) == IF p = Null THEN Null ELSE IF p THEN 1 ELSE 0
Plus(a, b) == IF Null \in {a, b} THEN Null ELSE a + b

----------------------------------------------------------------------------
(* The four problems of an entry.                                          *)

NoMeanings(r) == r.entry.meanings = <<>>
NoPos(r) == Field(r, "partOfSpeech") = None
NoClass(r) == And(Field(r, "nounClass") = None, Is(Field(r, "partOfSpeech"), "suS."))
NoExamples(r) == \A m \in Range(r.entry.meanings) : m.examples = None

Problem(r) == {p \in {<<"no-meanings", NoMeanings(r)>>, <<"no-pos", NoPos(r)>>,
                      <<"no-class", NoClass(r)>>, <<"no-examples", NoExamples(r)>>} :
                   p[2] = TRUE}
Problems(r) == {p[1] : p \in Problem(r)}

AnyProblem(r) == NoMeanings(r) \/ NoPos(r) \/ NoClass(r) = TRUE \/ NoExamples(r)

(* Seeded bug: entries without examples are not in the list of all problems. *)
ProblemFilterWithoutExamples(type, r) ==
    CASE type = "no-meanings" -> NoMeanings(r)
      [] type = "no-class" -> NoClass(r)
      [] type = "no-pos" -> NoPos(r)
      [] type = "no-examples" -> NoExamples(r)
      [] OTHER -> NoMeanings(r) \/ NoPos(r) \/ NoClass(r) = TRUE

(* buildProblemsFilter, without the text of the word. *)
ProblemFilter(type, r) ==
    CASE type = "no-meanings" -> NoMeanings(r)
      [] type = "no-class" -> NoClass(r)
      [] type = "no-pos" -> NoPos(r)
      [] type = "no-examples" -> NoExamples(r)
      [] OTHER -> AnyProblem(r)

FindProblems(table, type) == Where(table, LAMBDA r : ProblemFilter(type, r))

QualityStats(table) ==
    LET Count(Cond(_)) == Cardinality(Where(table, Cond))
        unique == Count(AnyProblem)
    IN  [total |-> Cardinality(DOMAIN table),
         noMeanings |-> Count(NoMeanings),
         nounsWithoutClass |-> Count(NoClass),
         noPartOfSpeech |-> Count(NoPos),
         noExamples |-> Count(NoExamples),
         neologisms |-> Count(LAMBDA r : Field(r, "entryType") = "neologism"),
         problemsUnique |-> unique,
         cleanEntries |-> Cardinality(DOMAIN table) - unique]

(* The number of problems, Null where one of them is. *)
ProblemsCount(r) ==
    Plus(AsInt(NoMeanings(r)), Plus(AsInt(NoPos(r)), Plus(AsInt(NoClass(r)), AsInt(NoExamples(r)))))

BySource(table, s) ==
    LET of == {id \in DOMAIN table : s \in table[id].sources}
        Count(ns) == Cardinality({id \in of : ProblemsCount(table[id]) \in ns})
    IN  [total |-> Cardinality(of), ok |-> Count({0}), warn |-> Count({1}), err |-> Count(2 .. 4)]

----------------------------------------------------------------------------
(* Counts and listings of the admin panel.                                 *)

(* The buckets of a part of speech, by what it contains. *)
PosBucket == [noun |-> {"suS."}, verb |-> {"gl."}, adj |-> {"pril."}, adv |-> {"nareC."}]
EntriesStats(table) ==
    LET In(b) == {id \in DOMAIN table : Field(table[id], "partOfSpeech") \in PosBucket[b]}
    IN  [b \in DOMAIN PosBucket \cup {"other", "total"} |->
            IF b = "total" THEN Cardinality(DOMAIN table)
            ELSE IF b = "other"
            THEN Cardinality(Where(table, LAMBDA r : ~NoPos(r))
                             \ UNION {In(x) : x \in DOMAIN PosBucket})
            ELSE Cardinality(In(b))]

(* listEntries and exportEntries: a filter is a function from some of the  *)
(* four to values.                                                         *)
Matches(filter, r) ==
    /\ "pos" \in DOMAIN filter => Field(r, "partOfSpeech") = filter["pos"]
    /\ "nounClass" \in DOMAIN filter => Field(r, "nounClass") = filter["nounClass"]
    /\ "source" \in DOMAIN filter => filter["source"] \in r.sources
    /\ "cefr" \in DOMAIN filter => r.cefr = filter["cefr"]

ListEntries(table, filter) == Where(table, LAMBDA r : Matches(filter, r))

----------------------------------------------------------------------------
(* What readers see.                                                       *)

(* stats and sources: how many rows have each level, part of speech and    *)
(* source.                                                                 *)
Levels(table) == [l \in 1 .. 6 |-> Cardinality(Where(table, LAMBDA r : r.cefr = l))]
PosDistribution(table) ==
    LET known == {Field(table[id], "partOfSpeech") : id \in DOMAIN table} \ {None}
    IN  [p \in known |-> Cardinality(Where(table, LAMBDA r : Is(Field(r, "partOfSpeech"), p)))]
SourceCount(table, s) == Cardinality({id \in DOMAIN table : s \in table[id].sources})

(* phraseologySearch without a query reads every row; PostgreSQL raises an *)
(* error for the length of a list that is the null of JSON.                *)
BrowsePhrases(table) ==
    LET fails == \E id \in DOMAIN table : table[id].entry.phraseology = JsonNull
    IN  [fails |-> fails,
         data |-> IF fails THEN {}
                  ELSE {id \in DOMAIN table : Items(table[id].entry.phraseology) # {}}]

(* search, without filters; q is a word or the body of a translation. *)
ByWord(r, q) == HasPart(r.norm, NormalizeWord(q))
ByTranslation(r, q) == \E m \in Range(r.entry.meanings) : m.translation.body = q
Search(table, q) ==
    LET lang == DetectLanguage(q)
        hits == Where(table, LAMBDA r : \/ lang # "ru" /\ ByWord(r, q)
                                        \/ lang # "nah" /\ ByTranslation(r, q))
    IN  [lang |-> lang,
         data |-> hits,
         lemmaHint |-> IF hits = {} /\ lang # "ru"
                       THEN Lemmas(q, {table[id].norm : id \in DOMAIN table}) ELSE None]

Lookup(table, w) == Where(table, LAMBDA r : r.norm = NormalizeWord(w))

=============================================================================
