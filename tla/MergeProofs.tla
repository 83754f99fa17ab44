----------------------------- MODULE MergeProofs -----------------------------
(* What merging and cleaning make of entries: mergeInto keeps what both    *)
(* entries say, a dictionary that is merged is covered row by row, what    *)
(* improve has cleaned leaves improve-entries nothing to do. First what    *)
(* each loop returns, then each operator of MergeEntries and CleanEntries. *)
EXTENDS ParserProofs

----------------------------------------------------------------------------
(* Loops. *)

(* The loops of the merging and cleaning code, as folds whose step is a    *)
(* named operator: the loop of mergeMeanings,                              *)
AddMeaningIn(c, sofar, x) == AddMeaning(sofar, x)
Meanings == INSTANCE FoldLemmas WITH Op <- AddMeaningIn

(* the loop over the entries of a dictionary, *)
AddEntryIn(c, sofar, x) == AddEntry(c[1], c[2], sofar, x)
Adding == INSTANCE FoldLemmas WITH Op <- AddEntryIn

(* the loop that drops repeated translations, *)
FirstIn(c, sofar, m) ==
    IF /\ ~IsBlank(m.translation)
       /\ \E x \in Range(sofar) : Trim(x.translation) = Trim(m.translation)
    THEN sofar ELSE Append(sofar, m)
Firsts == INSTANCE FoldLemmas WITH Op <- FirstIn

(* and those that append the phrases and the citations that are new. *)
NewPhraseIn(c, sofar, x) ==
    IF \E y \in Range(sofar) : PhraseKey(y) = PhraseKey(x) THEN sofar
    ELSE Append(sofar, x)
Phrases == INSTANCE FoldLemmas WITH Op <- NewPhraseIn

NewCitationIn(c, sofar, x) ==
    IF \E y \in Range(sofar) : CitationKey(y) = CitationKey(x) THEN sofar
    ELSE Append(sofar, x)
Citations == INSTANCE FoldLemmas WITH Op <- NewCitationIn

(* The deduplication of translations is the fold of FirstIn. *)
LEMMA FirstOfEachIsFold ==
    \A s : FirstOfEach(s) = Firsts!FoldFrom({}, <<>>, s)
BY DEF FirstOfEach, FirstIn, Firsts!FoldFrom, FoldLeft, Firsts!FoldLeft,
       MapThenFoldSet, Firsts!MapThenFoldSet, Max, Firsts!Max

(* It returns a list of elements that were there. *)
LEMMA FirstOfEachIsList ==
    ASSUME NEW s, IsList(s)
    PROVE  IsList(FirstOfEach(s)) /\ Range(FirstOfEach(s)) \subseteq Range(s)
<1>1. Len(s) \in Nat /\ DOMAIN s = 1 .. Len(s)
    BY ListIsSeq
<1>2. PICK r : /\ Firsts!IsRun(r, {}, <<>>, s, Len(s))
               /\ Firsts!FoldFrom({}, <<>>, s) = r[Len(s)]
    BY <1>1, Firsts!FoldRuns
<1> DEFINE T == {i \in 0 .. Len(s) : IsList(r[i]) /\ Range(r[i]) \subseteq Range(s)}
<1>3. 0 \in T
    BY <1>1, <1>2, EmptyIsList DEF Firsts!IsRun
<1>4. ASSUME NEW i \in 1 .. Len(s), i - 1 \in T PROVE i \in T
  <2>1. s[i] \in Range(s)
      BY <1>1 DEF Range
  <2>2. r[i] = r[i - 1] \/ r[i] = Append(r[i - 1], s[i])
      BY <1>2 DEF Firsts!IsRun, FirstIn
  <2>3. IsList(r[i - 1]) /\ Range(r[i - 1]) \subseteq Range(s)
      BY <1>4
  <2>4. IsList(r[i]) /\ Range(r[i]) \subseteq Range(s)
    <3>1. CASE r[i] = r[i - 1]
        BY <2>3, <3>1
    <3>2. CASE r[i] = Append(r[i - 1], s[i])
      <4>1. IsList(r[i]) /\ Range(r[i]) = Range(r[i - 1]) \cup {s[i]}
          BY <2>3, <3>2, AppendIsList
      <4> QED BY <2>1, <2>3, <4>1
    <3> QED BY <2>2, <3>1, <3>2
  <2> QED BY <1>1, <2>4
<1>5. Len(s) \in T
  <2> HIDE DEF T
  <2>1. \A i \in 0 .. Len(s) : i \in T
      BY <1>1, <1>3, <1>4, Firsts!UpTo
  <2> QED BY <1>1, <2>1
<1> QED BY <1>2, <1>5, FirstOfEachIsFold

(* A list without a repeated translation is returned as it is. *)
LEMMA FirstOfEachAll ==
    ASSUME NEW s, IsList(s), NoneRepeated(s)
    PROVE  FirstOfEach(s) = s
<1>1. Len(s) \in Nat /\ DOMAIN s = 1 .. Len(s)
    BY ListIsSeq
<1>2. PICK r : /\ Firsts!IsRun(r, {}, <<>>, s, Len(s))
               /\ Firsts!FoldFrom({}, <<>>, s) = r[Len(s)]
    BY <1>1, Firsts!FoldRuns
<1> DEFINE T == {i \in 0 .. Len(s) :
                    /\ IsList(r[i]) /\ Len(r[i]) = i
                    /\ \A j \in 1 .. i : r[i][j] = s[j]}
<1>3. 0 \in T
    BY <1>1, <1>2, EmptyIsList DEF Firsts!IsRun
<1>4. ASSUME NEW i \in 1 .. Len(s), i - 1 \in T PROVE i \in T
  <2>1. /\ IsList(r[i - 1]) /\ Len(r[i - 1]) = i - 1
        /\ \A j \in 1 .. i - 1 : r[i - 1][j] = s[j]
      BY <1>4
  <2>2. ~(/\ ~IsBlank(s[i].translation)
          /\ \E x \in Range(r[i - 1]) : Trim(x.translation) = Trim(s[i].translation))
    <3> SUFFICES ASSUME ~IsBlank(s[i].translation), NEW x \in Range(r[i - 1]),
                        Trim(x.translation) = Trim(s[i].translation)
                 PROVE  FALSE
        OBVIOUS
    <3>1. DOMAIN r[i - 1] = 1 .. i - 1
        BY <2>1, ListIsSeq
    <3>2. PICK j \in 1 .. i - 1 : x = s[j]
        BY <2>1, <3>1 DEF Range
    <3>3. i \in DOMAIN s /\ j \in DOMAIN s /\ i # j
        BY <1>1
    <3> QED BY <3>2, <3>3 DEF NoneRepeated
  <2>3. r[i] = Append(r[i - 1], s[i])
      BY <1>2, <2>2 DEF Firsts!IsRun, FirstIn
  <2>4. /\ IsList(r[i]) /\ Len(r[i]) = (i - 1) + 1
        /\ \A j \in 1 .. i - 1 : r[i][j] = r[i - 1][j]
        /\ r[i][(i - 1) + 1] = s[i]
      BY <2>1, <2>3, AppendIsList
  <2>5. ASSUME NEW j \in 1 .. i PROVE r[i][j] = s[j]
    <3>1. j \in 1 .. i - 1 \/ (j = i /\ i = (i - 1) + 1)
        OBVIOUS
    <3> QED BY <2>1, <2>4, <3>1
  <2> QED BY <1>1, <2>4, <2>5
<1>5. Len(s) \in T
  <2> HIDE DEF T
  <2>1. \A i \in 0 .. Len(s) : i \in T
      BY <1>1, <1>3, <1>4, Firsts!UpTo
  <2> QED BY <1>1, <2>1
<1>6. r[Len(s)] = s
    BY <1>5, SameLists
<1> QED BY <1>2, <1>6, FirstOfEachIsFold

(* t with the phrases of s that are new. *)
PhrasesWith(t, s) == AppendNew(PhraseKey, t, s)

(* Appending new phrases loses none and invents none. *)
LEMMA NewPhrases ==
    ASSUME NEW t, NEW s, IsList(t), IsList(s)
    PROVE  /\ IsList(PhrasesWith(t, s)) /\ Len(t) <= Len(PhrasesWith(t, s))
           /\ Range(t) \subseteq Range(PhrasesWith(t, s))
           /\ Range(PhrasesWith(t, s)) \subseteq Range(t) \cup Range(s)
           /\ \A x \in Range(s) : \E y \in Range(PhrasesWith(t, s)) : PhraseKey(y) = PhraseKey(x)
<1> DEFINE k == [x \in Range(t) \cup Range(s) |-> PhraseKey(x)]
           all == PhrasesWith(t, s)
<1>1. Len(s) \in Nat /\ DOMAIN s = 1 .. Len(s)
    BY ListIsSeq
<1>2. all = Phrases!FoldFrom({}, t, s)
    BY DEF PhrasesWith, AppendNew, Phrases!FoldFrom, FoldLeft, Phrases!FoldLeft,
           MapThenFoldSet, Phrases!MapThenFoldSet, NewPhraseIn, Max, Phrases!Max
<1>3. PICK r : Phrases!IsRun(r, {}, t, s, Len(s)) /\ all = r[Len(s)]
    BY <1>1, <1>2, Phrases!FoldRuns
<1> HIDE DEF all
<1> DEFINE T == {i \in 0 .. Len(s) : IsList(r[i]) /\ Range(r[i]) \subseteq Range(t) \cup Range(s)}
<1>4. r[0] = t
    BY <1>3 DEF Phrases!IsRun
<1>5. \A i \in 1 .. Len(s) : s[i] \in Range(s)
    BY <1>1 DEF Range
<1>6. ASSUME NEW i \in 1 .. Len(s)
      PROVE  r[i] = IF \E y \in Range(r[i - 1]) : PhraseKey(y) = PhraseKey(s[i])
                    THEN r[i - 1] ELSE Append(r[i - 1], s[i])
    BY <1>3 DEF Phrases!IsRun, NewPhraseIn
<1>7. \A i \in 0 .. Len(s) : i \in T
  <2>1. 0 \in T
      BY <1>1, <1>4
  <2>2. ASSUME NEW i \in 1 .. Len(s), i - 1 \in T PROVE i \in T
    <3>1. IsList(r[i - 1]) /\ Range(r[i - 1]) \subseteq Range(t) \cup Range(s)
        BY <2>2
    <3>2. CASE r[i] = r[i - 1]
        BY <3>1, <3>2, <1>1
    <3>3. CASE r[i] = Append(r[i - 1], s[i])
      <4>1. IsList(r[i]) /\ Range(r[i]) = Range(r[i - 1]) \cup {s[i]}
          BY <3>1, <3>3, AppendIsList
      <4> QED BY <1>1, <1>5, <3>1, <4>1
    <3> QED BY <1>6, <3>2, <3>3
  <2> HIDE DEF T
  <2> QED BY <1>1, <2>1, <2>2, Keeping!UpTo
<1>8. ASSUME NEW i \in 1 .. Len(s)
      PROVE  r[i] = IF \E y \in Range(r[i - 1]) : k[y] = k[s[i]] THEN r[i - 1]
                    ELSE Append(r[i - 1], s[i])
  <2>1. i - 1 \in 0 .. Len(s)
      BY <1>1
  <2>2. Range(r[i - 1]) \subseteq Range(t) \cup Range(s)
      BY <1>7, <2>1
  <2>3. \A y \in Range(r[i - 1]) : k[y] = PhraseKey(y)
      BY <2>2
  <2>4. k[s[i]] = PhraseKey(s[i])
      BY <1>5
  <2> HIDE DEF k
  <2> QED BY <1>6, <2>3, <2>4
<1>9. /\ IsList(all) /\ Len(t) <= Len(all)
      /\ Range(t) \subseteq Range(all)
      /\ Range(all) \subseteq Range(t) \cup Range(s)
      /\ \A x \in Range(s) : \E y \in Range(all) : k[y] = k[x]
  <2> HIDE DEF k
  <2>1. AppendsNew(r, k, t, s)
      BY <1>4, <1>8 DEF AppendsNew
  <2>2. /\ IsList(r[Len(s)]) /\ Len(t) <= Len(r[Len(s)])
        /\ Range(t) \subseteq Range(r[Len(s)])
        /\ Range(r[Len(s)]) \subseteq Range(t) \cup Range(s)
        /\ \A x \in Range(s) : \E y \in Range(r[Len(s)]) : k[y] = k[x]
      BY <2>1, AppendRun
  <2> QED BY <1>3, <2>2
<1>10. \A x \in Range(t) \cup Range(s) : k[x] = PhraseKey(x)
    OBVIOUS
<1>11. \A x \in Range(s) : \E y \in Range(all) : PhraseKey(y) = PhraseKey(x)
  <2> HIDE DEF k
  <2> QED BY <1>9, <1>10
<1> QED BY <1>9, <1>11 DEF all

(* t with the citations of s that are new. *)
CitationsWith(t, s) == AppendNew(CitationKey, t, s)

(* Appending new citations loses none and invents none. *)
LEMMA NewCitations ==
    ASSUME NEW t, NEW s, IsList(t), IsList(s)
    PROVE  /\ IsList(CitationsWith(t, s)) /\ Len(t) <= Len(CitationsWith(t, s))
           /\ Range(t) \subseteq Range(CitationsWith(t, s))
           /\ Range(CitationsWith(t, s)) \subseteq Range(t) \cup Range(s)
           /\ \A x \in Range(s) :
                  \E y \in Range(CitationsWith(t, s)) : CitationKey(y) = CitationKey(x)
<1> DEFINE k == [x \in Range(t) \cup Range(s) |-> CitationKey(x)]
           all == CitationsWith(t, s)
<1>1. Len(s) \in Nat /\ DOMAIN s = 1 .. Len(s)
    BY ListIsSeq
<1>2. all = Citations!FoldFrom({}, t, s)
    BY DEF CitationsWith, AppendNew, Citations!FoldFrom, FoldLeft, Citations!FoldLeft,
           MapThenFoldSet, Citations!MapThenFoldSet, NewCitationIn, Max, Citations!Max
<1>3. PICK r : Citations!IsRun(r, {}, t, s, Len(s)) /\ all = r[Len(s)]
    BY <1>1, <1>2, Citations!FoldRuns
<1> HIDE DEF all
<1> DEFINE T == {i \in 0 .. Len(s) : IsList(r[i]) /\ Range(r[i]) \subseteq Range(t) \cup Range(s)}
<1>4. r[0] = t
    BY <1>3 DEF Citations!IsRun
<1>5. \A i \in 1 .. Len(s) : s[i] \in Range(s)
    BY <1>1 DEF Range
<1>6. ASSUME NEW i \in 1 .. Len(s)
      PROVE  r[i] = IF \E y \in Range(r[i - 1]) : CitationKey(y) = CitationKey(s[i])
                    THEN r[i - 1] ELSE Append(r[i - 1], s[i])
    BY <1>3 DEF Citations!IsRun, NewCitationIn
<1>7. \A i \in 0 .. Len(s) : i \in T
  <2>1. 0 \in T
      BY <1>1, <1>4
  <2>2. ASSUME NEW i \in 1 .. Len(s), i - 1 \in T PROVE i \in T
    <3>1. IsList(r[i - 1]) /\ Range(r[i - 1]) \subseteq Range(t) \cup Range(s)
        BY <2>2
    <3>2. CASE r[i] = r[i - 1]
        BY <3>1, <3>2, <1>1
    <3>3. CASE r[i] = Append(r[i - 1], s[i])
      <4>1. IsList(r[i]) /\ Range(r[i]) = Range(r[i - 1]) \cup {s[i]}
          BY <3>1, <3>3, AppendIsList
      <4> QED BY <1>1, <1>5, <3>1, <4>1
    <3> QED BY <1>6, <3>2, <3>3
  <2> HIDE DEF T
  <2> QED BY <1>1, <2>1, <2>2, Keeping!UpTo
<1>8. ASSUME NEW i \in 1 .. Len(s)
      PROVE  r[i] = IF \E y \in Range(r[i - 1]) : k[y] = k[s[i]] THEN r[i - 1]
                    ELSE Append(r[i - 1], s[i])
  <2>1. i - 1 \in 0 .. Len(s)
      BY <1>1
  <2>2. Range(r[i - 1]) \subseteq Range(t) \cup Range(s)
      BY <1>7, <2>1
  <2>3. \A y \in Range(r[i - 1]) : k[y] = CitationKey(y)
      BY <2>2
  <2>4. k[s[i]] = CitationKey(s[i])
      BY <1>5
  <2> HIDE DEF k
  <2> QED BY <1>6, <2>3, <2>4
<1>9. /\ IsList(all) /\ Len(t) <= Len(all)
      /\ Range(t) \subseteq Range(all)
      /\ Range(all) \subseteq Range(t) \cup Range(s)
      /\ \A x \in Range(s) : \E y \in Range(all) : k[y] = k[x]
  <2> HIDE DEF k
  <2>1. AppendsNew(r, k, t, s)
      BY <1>4, <1>8 DEF AppendsNew
  <2>2. /\ IsList(r[Len(s)]) /\ Len(t) <= Len(r[Len(s)])
        /\ Range(t) \subseteq Range(r[Len(s)])
        /\ Range(r[Len(s)]) \subseteq Range(t) \cup Range(s)
        /\ \A x \in Range(s) : \E y \in Range(r[Len(s)]) : k[y] = k[x]
      BY <2>1, AppendRun
  <2> QED BY <1>3, <2>2
<1>10. \A x \in Range(t) \cup Range(s) : k[x] = CitationKey(x)
    OBVIOUS
<1>11. \A x \in Range(s) : \E y \in Range(all) : CitationKey(y) = CitationKey(x)
  <2> HIDE DEF k
  <2> QED BY <1>9, <1>10
<1> QED BY <1>9, <1>11 DEF all

(* What mergePhrases makes of two lists, either of which may be absent. *)
MergedPhraseList(t, s) == MergeLists(PhraseKey, t, s)

(* It keeps every phrase of both, and is absent or a list. *)
LEMMA MergedPhrases ==
    ASSUME NoneIsApart, NEW t, NEW s, MaybeList(t), MaybeList(s)
    PROVE  /\ MaybeList(MergedPhraseList(t, s))
           /\ Items(t) \subseteq Items(MergedPhraseList(t, s))
           /\ \A x \in Items(s) :
                  \E y \in Items(MergedPhraseList(t, s)) : PhraseKey(y) = PhraseKey(x)
           /\ Items(MergedPhraseList(t, s)) \subseteq Items(t) \cup Items(s)
<1> DEFINE all == MergedPhraseList(t, s)
<1>1. CASE s = None \/ s = <<>>
  <2>1. all = t /\ Items(s) = {}
      BY <1>1, EmptyIsList DEF MergedPhraseList, MergeLists, Items
  <2> QED BY <2>1
<1>2. CASE s # None /\ s # <<>> /\ t = None
  <2>1. IsList(s) /\ s # <<>>
      BY <1>2 DEF MaybeList
  <2>2. all = s /\ Items(t) = {}
      BY <1>2, <2>1 DEF MergedPhraseList, MergeLists, Items
  <2> QED BY <2>2
<1>3. CASE s # None /\ s # <<>> /\ t # None
  <2>1. IsList(s) /\ s # <<>> /\ IsList(t)
      BY <1>3 DEF MaybeList
  <2>2. all = PhrasesWith(t, s)
      BY <1>3, <2>1 DEF MergedPhraseList, MergeLists, PhrasesWith
  <2>3. /\ IsList(all) /\ Len(t) <= Len(all)
        /\ Range(t) \subseteq Range(all)
        /\ Range(all) \subseteq Range(t) \cup Range(s)
        /\ \A x \in Range(s) : \E y \in Range(all) : PhraseKey(y) = PhraseKey(x)
      BY <2>1, <2>2, NewPhrases
  <2> HIDE DEF all
  <2>4. Items(t) = Range(t) /\ Items(s) = Range(s) /\ Items(all) = Range(all)
      BY <2>1, <2>3, ItemsOfList
  <2>5. MaybeList(all)
      BY <2>3 DEF MaybeList
  <2> QED BY <2>3, <2>4, <2>5 DEF all
<1> QED BY <1>1, <1>2, <1>3

(* What the merging of citations makes of two lists. *)
MergedCitationList(t, s) == MergeLists(CitationKey, t, s)

(* It keeps every citation of both, and is absent or a list. *)
LEMMA MergedCitations ==
    ASSUME NoneIsApart, NEW t, NEW s, MaybeList(t), MaybeList(s)
    PROVE  /\ MaybeList(MergedCitationList(t, s))
           /\ Items(t) \subseteq Items(MergedCitationList(t, s))
           /\ \A x \in Items(s) :
                  \E y \in Items(MergedCitationList(t, s)) : CitationKey(y) = CitationKey(x)
           /\ Items(MergedCitationList(t, s)) \subseteq Items(t) \cup Items(s)
<1> DEFINE all == MergedCitationList(t, s)
<1>1. CASE s = None \/ s = <<>>
  <2>1. all = t /\ Items(s) = {}
      BY <1>1, EmptyIsList DEF MergedCitationList, MergeLists, Items
  <2> QED BY <2>1
<1>2. CASE s # None /\ s # <<>> /\ t = None
  <2>1. IsList(s) /\ s # <<>>
      BY <1>2 DEF MaybeList
  <2>2. all = s /\ Items(t) = {}
      BY <1>2, <2>1 DEF MergedCitationList, MergeLists, Items
  <2> QED BY <2>2
<1>3. CASE s # None /\ s # <<>> /\ t # None
  <2>1. IsList(s) /\ s # <<>> /\ IsList(t)
      BY <1>3 DEF MaybeList
  <2>2. all = CitationsWith(t, s)
      BY <1>3, <2>1 DEF MergedCitationList, MergeLists, CitationsWith
  <2>3. /\ IsList(all) /\ Len(t) <= Len(all)
        /\ Range(t) \subseteq Range(all)
        /\ Range(all) \subseteq Range(t) \cup Range(s)
        /\ \A x \in Range(s) : \E y \in Range(all) : CitationKey(y) = CitationKey(x)
      BY <2>1, <2>2, NewCitations
  <2> HIDE DEF all
  <2>4. Items(t) = Range(t) /\ Items(s) = Range(s) /\ Items(all) = Range(all)
      BY <2>1, <2>3, ItemsOfList
  <2>5. MaybeList(all)
      BY <2>3 DEF MaybeList
  <2> QED BY <2>3, <2>4, <2>5 DEF all
<1> QED BY <1>1, <1>2, <1>3

----------------------------------------------------------------------------
(* Merging meanings. *)

(* The examples of a meaning, by key. *)
PhraseKeys(m) == {PhraseKey(p) : p \in Items(m.examples)}

(* A list of meanings grows: those there were stay where they are, with    *)
(* their translation and at least their examples.                          *)
Grows(more, ms) ==
    /\ Len(ms) <= Len(more)
    /\ \A i \in 1 .. Len(ms) : /\ more[i].translation = ms[i].translation
                               /\ PhraseKeys(ms[i]) \subseteq PhraseKeys(more[i])

(* A list of meanings has m, unless m is blank: one with its key and at    *)
(* least its examples.                                                     *)
Has(ms, m) ==
    IsBlank(m.translation) \/
    \E i \in 1 .. Len(ms) : /\ MeaningKey(ms[i]) = MeaningKey(m)
                            /\ PhraseKeys(m) \subseteq PhraseKeys(ms[i])

(* Growing goes on. *)
LEMMA GrowsOn ==
    ASSUME NEW a, NEW b, NEW c, IsList(a), IsList(b), IsList(c),
           Grows(b, a), Grows(c, b)
    PROVE  Grows(c, a)
<1>1. Len(a) \in Nat /\ Len(b) \in Nat /\ Len(c) \in Nat
    BY ListIsSeq
<1>2. Len(a) <= Len(c)
    BY <1>1 DEF Grows
<1>3. ASSUME NEW i \in 1 .. Len(a)
      PROVE  /\ c[i].translation = a[i].translation
             /\ PhraseKeys(a[i]) \subseteq PhraseKeys(c[i])
  <2>1. i \in 1 .. Len(b)
      BY <1>1 DEF Grows
  <2>2. /\ b[i].translation = a[i].translation
        /\ PhraseKeys(a[i]) \subseteq PhraseKeys(b[i])
      BY DEF Grows
  <2>3. /\ c[i].translation = b[i].translation
        /\ PhraseKeys(b[i]) \subseteq PhraseKeys(c[i])
      BY <2>1 DEF Grows
  <2> QED BY <2>2, <2>3
<1> QED BY <1>2, <1>3 DEF Grows

(* A list grows into itself. *)
LEMMA GrowsSame ==
    ASSUME NEW a, IsList(a)
    PROVE  Grows(a, a)
BY ListIsSeq DEF Grows

(* A list that grows still has what it had. *)
LEMMA HasStill ==
    ASSUME NEW a, NEW b, NEW m, IsList(a), IsList(b), Grows(b, a), Has(a, m)
    PROVE  Has(b, m)
<1>1. Len(a) \in Nat /\ Len(b) \in Nat
    BY ListIsSeq
<1>2. CASE IsBlank(m.translation)
    BY <1>2 DEF Has
<1>3. CASE ~IsBlank(m.translation)
  <2>1. PICK i \in 1 .. Len(a) : /\ MeaningKey(a[i]) = MeaningKey(m)
                                 /\ PhraseKeys(m) \subseteq PhraseKeys(a[i])
      BY <1>3 DEF Has
  <2>2. i \in 1 .. Len(b) /\ b[i].translation = a[i].translation
        /\ PhraseKeys(a[i]) \subseteq PhraseKeys(b[i])
      BY <1>1 DEF Grows
  <2>3. MeaningKey(b[i]) = MeaningKey(m)
      BY <2>1, <2>2 DEF MeaningKey
  <2> QED BY <2>1, <2>2, <2>3 DEF Has
<1> QED BY <1>2, <1>3

(* A list of meanings. *)
IsMeanings(ms) == IsList(ms) /\ \A m \in Range(ms) : IsMeaning(m)

(* Adding a meaning, with its examples to the one with its key, makes      *)
(* the list grow, and then it has the meaning.                             *)
LEMMA AddMeaningGrows ==
    ASSUME NoneIsApart, NEW ms, NEW m, IsMeanings(ms), IsMeaning(m)
    PROVE  /\ IsMeanings(AddMeaning(ms, m))
           /\ Grows(AddMeaning(ms, m), ms)
           /\ Has(AddMeaning(ms, m), m)
<1> DEFINE same == {i \in DOMAIN ms : MeaningKey(ms[i]) = MeaningKey(m)}
           more == AddMeaning(ms, m)
<1>1. IsList(ms) /\ Len(ms) \in Nat /\ DOMAIN ms = 1 .. Len(ms)
    BY ListIsSeq DEF IsMeanings
<1>2. CASE IsBlank(m.translation)
  <2>1. more = ms
      BY <1>2 DEF AddMeaning
  <2>2. Has(ms, m)
      BY <1>2 DEF Has
  <2> QED BY <1>1, <2>1, <2>2, GrowsSame
<1>3. CASE ~IsBlank(m.translation) /\ same = {}
  <2>1. more = Append(ms, m)
      BY <1>3 DEF AddMeaning
  <2>2. /\ IsList(more)
        /\ Len(more) = Len(ms) + 1
        /\ \A i \in 1 .. Len(ms) : more[i] = ms[i]
        /\ more[Len(ms) + 1] = m
        /\ Range(more) = Range(ms) \cup {m}
      BY <1>1, <2>1, AppendIsList
  <2> HIDE DEF more, same
  <2>3. IsMeanings(more)
      BY <2>2 DEF IsMeanings
  <2>4. Grows(more, ms)
      BY <1>1, <2>2 DEF Grows
  <2>5. Len(ms) + 1 \in 1 .. Len(more)
      BY <1>1, <2>2
  <2>6. Has(more, m)
      BY <2>2, <2>5 DEF Has
  <2> QED BY <2>3, <2>4, <2>6 DEF more
<1>4. CASE ~IsBlank(m.translation) /\ same # {}
  <2> DEFINE k == Min(same)
             all == MergedPhraseList(ms[k].examples, m.examples)
  <2>1. k \in same
    <3>1. same \in SUBSET Nat
        BY <1>1
    <3> HIDE DEF same
    <3> QED BY <1>4, <3>1, MinOf
  <2>2. k \in 1 .. Len(ms) /\ MeaningKey(ms[k]) = MeaningKey(m) /\ ms[k] \in Range(ms)
      BY <1>1, <2>1 DEF Range
  <2>3. more = [ms EXCEPT ![k] = [ms[k] EXCEPT !.examples = all]]
      BY <1>4 DEF AddMeaning, MergedPhraseList
  <2> HIDE DEF more, k, same
  <2>4. IsMeaning(ms[k])
      BY <2>2, <1>1 DEF IsMeanings
  <2>5. /\ MaybeList(all)
        /\ Items(ms[k].examples) \subseteq Items(all)
        /\ \A x \in Items(m.examples) :
               \E y \in Items(all) : PhraseKey(y) = PhraseKey(x)
    <3>1. MaybeList(ms[k].examples) /\ MaybeList(m.examples)
        BY <2>4 DEF IsMeaning
    <3> QED BY <3>1, MergedPhrases
  <2> HIDE DEF all
  <2>6. [ms[k] EXCEPT !.examples = all] =
            [translation |-> ms[k].translation, note |-> ms[k].note, examples |-> all]
      BY <2>4 DEF IsMeaning
  <2>7. /\ IsList(more) /\ Len(more) = Len(ms)
        /\ \A i \in 1 .. Len(ms) : i # k => more[i] = ms[i]
        /\ more[k] = [translation |-> ms[k].translation, note |-> ms[k].note,
                      examples |-> all]
    <3>1. more = [i \in 1 .. Len(ms) |-> IF i = k THEN [ms[k] EXCEPT !.examples = all]
                                         ELSE ms[i]]
        BY <1>1, <2>3
    <3>2. more = [i \in 1 .. Len(ms) |-> more[i]]
        BY <3>1
    <3>3. IsList(more) /\ Len(more) = Len(ms)
        BY <1>1, <3>2, FunctionIsList
    <3>4. \A i \in 1 .. Len(ms) : more[i] = IF i = k THEN [ms[k] EXCEPT !.examples = all]
                                            ELSE ms[i]
        BY <3>1
    <3> QED BY <2>2, <2>6, <3>3, <3>4
  <2>8. IsMeaning(more[k])
      BY <2>4, <2>5, <2>7 DEF IsMeaning
  <2>9. IsMeanings(more)
    <3>1. DOMAIN more = 1 .. Len(ms)
        BY <2>7, ListIsSeq
    <3>2. \A i \in 1 .. Len(ms) : IsMeaning(more[i])
        BY <1>1, <2>7, <2>8 DEF IsMeanings, Range
    <3> QED BY <2>7, <3>1, <3>2 DEF IsMeanings, Range
  <2>10. PhraseKeys(ms[k]) \subseteq PhraseKeys(more[k])
      BY <2>5, <2>7 DEF PhraseKeys
  <2>11. PhraseKeys(m) \subseteq PhraseKeys(more[k])
      BY <2>5, <2>7 DEF PhraseKeys
  <2>12. more[k].translation = ms[k].translation
      BY <2>7
  <2>13. Grows(more, ms)
      BY <1>1, <2>7, <2>10, <2>12 DEF Grows
  <2>14. MeaningKey(more[k]) = MeaningKey(m)
      BY <2>2, <2>12 DEF MeaningKey
  <2>15. Has(more, m)
      BY <2>2, <2>7, <2>11, <2>14 DEF Has
  <2> QED BY <2>9, <2>13, <2>15 DEF more
<1> QED BY <1>2, <1>3, <1>4

(* mergeMeanings: the list of the target grows and has all meanings of     *)
(* the source.                                                             *)
LEMMA MergeMeaningsGrows ==
    ASSUME NoneIsApart, NEW t, NEW s, IsMeanings(t), IsMeanings(s)
    PROVE  /\ IsMeanings(MergeMeanings(t, s))
           /\ Grows(MergeMeanings(t, s), t)
           /\ \A m \in Range(s) : Has(MergeMeanings(t, s), m)
<1>1. /\ IsList(s) /\ Len(s) \in Nat /\ DOMAIN s = 1 .. Len(s)
      /\ IsList(t)
    BY ListIsSeq DEF IsMeanings
<1>2. MergeMeanings(t, s) = Meanings!FoldFrom({}, t, s)
    BY DEF MergeMeanings, Meanings!FoldFrom, FoldLeft, Meanings!FoldLeft,
           MapThenFoldSet, Meanings!MapThenFoldSet, AddMeaningIn, Max, Meanings!Max
<1>3. PICK r : Meanings!IsRun(r, {}, t, s, Len(s)) /\ MergeMeanings(t, s) = r[Len(s)]
    BY <1>1, <1>2, Meanings!FoldRuns
<1> DEFINE T == {i \in 0 .. Len(s) : /\ IsMeanings(r[i])
                                     /\ Grows(r[i], t)
                                     /\ \A j \in 1 .. i : Has(r[i], s[j])}
<1>4. 0 \in T
  <2>1. r[0] = t
      BY <1>3 DEF Meanings!IsRun
  <2> QED BY <1>1, <2>1, GrowsSame
<1>5. ASSUME NEW i \in 1 .. Len(s), i - 1 \in T PROVE i \in T
  <2>1. r[i] = AddMeaning(r[i - 1], s[i])
      BY <1>3 DEF Meanings!IsRun, AddMeaningIn
  <2>2. /\ IsMeanings(r[i - 1]) /\ Grows(r[i - 1], t)
        /\ \A j \in 1 .. i - 1 : Has(r[i - 1], s[j])
      BY <1>5
  <2>3. IsMeaning(s[i])
      BY <1>1 DEF IsMeanings, Range
  <2>4. IsMeanings(r[i]) /\ Grows(r[i], r[i - 1]) /\ Has(r[i], s[i])
      BY <2>1, <2>2, <2>3, AddMeaningGrows
  <2>5. IsList(r[i]) /\ IsList(r[i - 1])
      BY <2>2, <2>4 DEF IsMeanings
  <2>6. Grows(r[i], t)
      BY <1>1, <2>2, <2>4, <2>5, GrowsOn
  <2>7. \A j \in 1 .. i - 1 : Has(r[i], s[j])
      BY <2>2, <2>4, <2>5, HasStill
  <2>8. \A j \in 1 .. i : j \in 1 .. i - 1 \/ j = i
      OBVIOUS
  <2> QED BY <1>1, <2>4, <2>6, <2>7, <2>8
<1>6. Len(s) \in T
  <2> HIDE DEF T
  <2>1. \A i \in 0 .. Len(s) : i \in T
      BY <1>1, <1>4, <1>5, Meanings!UpTo
  <2> QED BY <1>1, <2>1
<1>7. \A m \in Range(s) : \E j \in 1 .. Len(s) : m = s[j]
    BY <1>1 DEF Range
<1> QED BY <1>3, <1>6, <1>7

(* Meanings with one key are both blank or neither is. *)
LEMMA KeyBlank ==
    ASSUME NEW m, NEW n, IsMeaning(m), IsMeaning(n), MeaningKey(m) = MeaningKey(n)
    PROVE  IsBlank(m.translation) <=> IsBlank(n.translation)
<1>1. ASSUME NEW t, IsText(t) PROVE Lower(Trim(t)).body = t.body
    BY <1>1 DEF IsText, Lower, Trim
<1>2. IsText(m.translation) /\ IsText(n.translation)
    BY DEF IsMeaning
<1>3. m.translation.body = n.translation.body
    BY <1>1, <1>2 DEF MeaningKey
<1> QED BY <1>3 DEF IsBlank

----------------------------------------------------------------------------
(* Merging two entries. *)

(* Every entry says what it says. *)
LEMMA IncludesItself ==
    ASSUME NEW e
    PROVE  Includes(e, e)
BY DEF Includes

(* What is said by an entry is said by those that include it. *)
LEMMA IncludesOn ==
    ASSUME NEW a, NEW b, NEW c, Includes(b, a), Includes(c, b)
    PROVE  Includes(c, a)
<1>1. /\ Translations(a) \subseteq Translations(c)
      /\ \A key \in Translations(a) : Examples(a, key) \subseteq Examples(c, key)
    BY DEF Includes
<1>2. \A p \in Items(a.phraseology) :
          \E q \in Items(c.phraseology) : PhraseKey(q) = PhraseKey(p)
    BY DEF Includes
<1>3. \A p \in Items(a.citations) :
          \E q \in Items(c.citations) : CitationKey(q) = CitationKey(p)
    BY DEF Includes
<1>4. \A f \in Scalar : a.info[f] # None => c.info[f] # None
    BY DEF Includes
<1>5. a.grammar # None =>
          /\ c.grammar # None
          /\ \A g \in GrammarSlot : a.grammar[g] # None => c.grammar[g] # None
    BY DEF Includes
<1> QED BY <1>1, <1>2, <1>3, <1>4, <1>5 DEF Includes

(* An entry whose meanings have grown says all it said. *)
LEMMA GrownSaysAll ==
    ASSUME NEW a, NEW b, IsEntry(a), IsEntry(b), Grows(b.meanings, a.meanings)
    PROVE  /\ Translations(a) \subseteq Translations(b)
           /\ \A key \in Translations(a) : Examples(a, key) \subseteq Examples(b, key)
<1>1. ASSUME NEW m \in Range(a.meanings)
      PROVE  \E n \in Range(b.meanings) : /\ n.translation = m.translation
                                          /\ PhraseKeys(m) \subseteq PhraseKeys(n)
  <2>1. IsList(a.meanings) /\ IsList(b.meanings)
      BY DEF IsEntry
  <2>2. /\ DOMAIN a.meanings = 1 .. Len(a.meanings) /\ Len(a.meanings) \in Nat
        /\ DOMAIN b.meanings = 1 .. Len(b.meanings) /\ Len(b.meanings) \in Nat
      BY <2>1, ListIsSeq
  <2>3. PICK i \in 1 .. Len(a.meanings) : m = a.meanings[i]
      BY <2>2 DEF Range
  <2>4. i \in 1 .. Len(b.meanings)
      BY <2>2 DEF Grows
  <2>5. b.meanings[i] \in Range(b.meanings)
      BY <2>2, <2>4 DEF Range
  <2> QED BY <2>3, <2>5 DEF Grows
<1>2. \A m, n : n.translation = m.translation =>
          MeaningKey(n) = MeaningKey(m) /\ (IsBlank(n.translation) <=> IsBlank(m.translation))
    BY DEF MeaningKey
<1>3. Translations(a) \subseteq Translations(b)
    BY <1>1, <1>2 DEF Translations
<1>4. ASSUME NEW key \in Translations(a) PROVE Examples(a, key) \subseteq Examples(b, key)
    BY <1>1, <1>2 DEF Examples, PhraseKeys
<1> QED BY <1>3, <1>4

(* An entry that has all meanings of another says all it says. *)
LEMMA HadSaysAll ==
    ASSUME NEW a, NEW b, IsEntry(a), IsEntry(b), \A m \in Range(a.meanings) : Has(b.meanings, m)
    PROVE  /\ Translations(a) \subseteq Translations(b)
           /\ \A key \in Translations(a) : Examples(a, key) \subseteq Examples(b, key)
<1>1. \A m \in Range(a.meanings) \cup Range(b.meanings) : IsMeaning(m)
    BY DEF IsEntry
<1>2. DOMAIN b.meanings = 1 .. Len(b.meanings)
    BY ListIsSeq DEF IsEntry
<1>3. ASSUME NEW m \in Range(a.meanings), ~IsBlank(m.translation)
      PROVE  \E n \in Range(b.meanings) : /\ MeaningKey(n) = MeaningKey(m)
                                          /\ ~IsBlank(n.translation)
                                          /\ PhraseKeys(m) \subseteq PhraseKeys(n)
  <2>1. PICK i \in 1 .. Len(b.meanings) : /\ MeaningKey(b.meanings[i]) = MeaningKey(m)
                                          /\ PhraseKeys(m) \subseteq PhraseKeys(b.meanings[i])
      BY <1>3 DEF Has
  <2>2. b.meanings[i] \in Range(b.meanings)
      BY <1>2 DEF Range
  <2>3. ~IsBlank(b.meanings[i].translation)
      BY <1>1, <1>3, <2>1, <2>2, KeyBlank
  <2> QED BY <2>1, <2>2, <2>3
<1>4. Translations(a) \subseteq Translations(b)
    BY <1>3 DEF Translations
<1>5. ASSUME NEW key \in Translations(a) PROVE Examples(a, key) \subseteq Examples(b, key)
  <2>1. ASSUME NEW m \in Range(a.meanings), MeaningKey(m) = key PROVE ~IsBlank(m.translation)
    <3>1. PICK n \in Range(a.meanings) : ~IsBlank(n.translation) /\ MeaningKey(n) = key
        BY DEF Translations
    <3> QED BY <1>1, <2>1, <3>1, KeyBlank
  <2> QED BY <1>3, <2>1 DEF Examples, PhraseKeys
<1> QED BY <1>4, <1>5

(* mergeInto: what is made of two entries of a key is an entry of that     *)
(* key that says what both say.                                            *)
LEMMA MergeIntoKeeps ==
    ASSUME NoneIsApart, NEW t, NEW s, IsEntry(t), IsEntry(s), HasLists(t), HasLists(s),
           EntryKey(t) = EntryKey(s)
    PROVE  /\ IsEntry(MergeInto(t, s)) /\ HasLists(MergeInto(t, s))
           /\ EntryKey(MergeInto(t, s)) = EntryKey(t)
           /\ Includes(MergeInto(t, s), t) /\ Includes(MergeInto(t, s), s)
<1> DEFINE w == MergeInto(t, s)
           info == FirstWins(t.info, s.info)
           grammar == MergeGrammar(t.grammar, s.grammar)
           meanings == MergeMeanings(t.meanings, s.meanings)
           phrases == MergedPhraseList(t.phraseology, s.phraseology)
           citations == MergedCitationList(t.citations, s.citations)
<1>1. w = [word |-> t.word, homonym |-> t.homonym, info |-> info, grammar |-> grammar,
           meanings |-> meanings, phraseology |-> phrases, citations |-> citations]
  <2>1. w = [t EXCEPT !.info = info, !.grammar = grammar, !.meanings = meanings,
                      !.phraseology = phrases, !.citations = citations]
      BY DEF MergeInto, MergedPhraseList, MergedCitationList
  <2>2. t = [word |-> t.word, homonym |-> t.homonym, info |-> t.info, grammar |-> t.grammar,
             meanings |-> t.meanings, phraseology |-> t.phraseology, citations |-> t.citations]
      BY DEF IsEntry
  <2> HIDE DEF w, info, grammar, meanings, phrases, citations
  <2> QED BY <2>1, <2>2
<1>2. /\ w.word = t.word /\ w.homonym = t.homonym /\ w.info = info /\ w.grammar = grammar
      /\ w.meanings = meanings /\ w.phraseology = phrases /\ w.citations = citations
    BY <1>1
<1>3. /\ info = [f \in Scalar |-> info[f]]
      /\ \A f \in Scalar : /\ t.info[f] # None => info[f] # None
                           /\ s.info[f] # None => info[f] # None
                           /\ t.info[f] = s.info[f] => info[f] = t.info[f]
    BY FirstWinsHas DEF IsEntry
<1>4. /\ grammar = None \/ IsGrammar(grammar)
      /\ t.grammar # None => grammar # None
      /\ s.grammar # None => grammar # None
      /\ t.grammar # None =>
             \A g \in GrammarSlot : t.grammar[g] # None => grammar[g] # None
      /\ s.grammar # None =>
             \A g \in GrammarSlot : s.grammar[g] # None => grammar[g] # None
  <2>1. /\ t.grammar = None \/ IsGrammar(t.grammar)
        /\ s.grammar = None \/ IsGrammar(s.grammar)
      BY DEF IsEntry
  <2>2. CASE s.grammar = None
      BY <2>1, <2>2 DEF MergeGrammar
  <2>3. CASE s.grammar # None /\ t.grammar = None
      BY <2>1, <2>3 DEF MergeGrammar
  <2>4. CASE s.grammar # None /\ t.grammar # None
    <3>1. grammar = FirstWins(t.grammar, s.grammar)
        BY <2>4 DEF MergeGrammar
    <3>2. /\ grammar = [g \in GrammarSlot |-> grammar[g]]
          /\ \A g \in GrammarSlot : /\ t.grammar[g] # None => grammar[g] # None
                                    /\ s.grammar[g] # None => grammar[g] # None
        BY <2>1, <2>4, <3>1, FirstWinsHas DEF IsGrammar
    <3>3. grammar # None
        BY <3>2 DEF NoneIsApart
    <3>4. IsGrammar(grammar)
      <4>1. "declensionType" \in GrammarSlot
          BY DEF GrammarSlot
      <4>2. DOMAIN t.grammar = GrammarSlot
          BY <2>1, <2>4 DEF IsGrammar
      <4>3. grammar["declensionType"] \in {t.grammar["declensionType"],
                                           s.grammar["declensionType"]}
          BY <3>1, <4>1, <4>2 DEF FirstWins
      <4> HIDE DEF grammar
      <4> QED BY <2>1, <2>4, <3>2, <4>3 DEF IsGrammar
    <3> QED BY <3>2, <3>3, <3>4
  <2> QED BY <2>2, <2>3, <2>4
<1>5. /\ IsMeanings(meanings) /\ Grows(meanings, t.meanings)
      /\ \A m \in Range(s.meanings) : Has(meanings, m)
  <2>1. IsMeanings(t.meanings) /\ IsMeanings(s.meanings)
      BY DEF IsEntry, IsMeanings
  <2> QED BY <2>1, MergeMeaningsGrows
<1>6. /\ MaybeList(phrases)
      /\ Items(t.phraseology) \subseteq Items(phrases)
      /\ \A x \in Items(s.phraseology) : \E y \in Items(phrases) : PhraseKey(y) = PhraseKey(x)
    BY MergedPhrases DEF HasLists
<1>7. /\ MaybeList(citations)
      /\ Items(t.citations) \subseteq Items(citations)
      /\ \A x \in Items(s.citations) :
             \E y \in Items(citations) : CitationKey(y) = CitationKey(x)
      /\ Items(citations) \subseteq Items(t.citations) \cup Items(s.citations)
    BY MergedCitations DEF HasLists
<1> HIDE DEF w, info, grammar, meanings, phrases, citations
<1>8. IsEntry(w)
    BY <1>1, <1>2, <1>3, <1>4, <1>5 DEF IsEntry, IsMeanings
<1>9. HasLists(w)
    BY <1>2, <1>6, <1>7 DEF HasLists
<1>10. EntryKey(w) = EntryKey(t)
  <2>1. "nounClass" \in Scalar /\ t.info["nounClass"] = s.info["nounClass"]
      BY DEF Scalar, EntryKey
  <2> QED BY <1>2, <1>3, <2>1 DEF EntryKey
<1>11. Includes(w, t)
  <2>1. /\ Translations(t) \subseteq Translations(w)
        /\ \A key \in Translations(t) : Examples(t, key) \subseteq Examples(w, key)
      BY <1>2, <1>5, <1>8, GrownSaysAll
  <2> QED BY <1>2, <1>3, <1>4, <1>6, <1>7, <2>1 DEF Includes
<1>12. Includes(w, s)
  <2>1. /\ Translations(s) \subseteq Translations(w)
        /\ \A key \in Translations(s) : Examples(s, key) \subseteq Examples(w, key)
      BY <1>2, <1>5, <1>8, HadSaysAll
  <2> QED BY <1>2, <1>3, <1>4, <1>6, <1>7, <2>1 DEF Includes
<1> QED BY <1>8, <1>9, <1>10, <1>11, <1>12 DEF w

----------------------------------------------------------------------------
(* Merging a dictionary. *)

(* Rows of unified.json. *)
AreRows(rows) == \A u \in rows : IsUnified(u)

(* Their sources are in S, their words in W. *)
IsFrom(rows, S, W) == \A u \in rows : u.sources \subseteq S /\ u.entry.word \in W

(* No two rows have the same key. *)
OneEach(rows) ==
    \A u, v \in rows : EntryKey(u.entry) = EntryKey(v.entry) => u = v

(* v is what became of u: it has its key, its sources, and says all it     *)
(* said.                                                                   *)
Continues(v, u) ==
    /\ EntryKey(v.entry) = EntryKey(u.entry)
    /\ u.sources \subseteq v.sources
    /\ Includes(v.entry, u.entry)

(* Every old row continues. *)
Keeps(new, old) == \A u \in old : \E v \in new : Continues(v, u)

(* There is a row of d that says what e says. *)
Covers(rows, d, e) ==
    EntryKey(e) # NoKey =>
        \E u \in rows : /\ EntryKey(u.entry) = EntryKey(e)
                        /\ d \in u.sources
                        /\ Includes(u.entry, e)

(* A file that stays the same keeps every row. *)
LEMMA KeepsItself ==
    ASSUME NEW rows
    PROVE  Keeps(rows, rows)
BY IncludesItself DEF Keeps, Continues

(* Keeping goes on. *)
LEMMA KeepsOn ==
    ASSUME NEW a, NEW b, NEW c, Keeps(b, a), Keeps(c, b)
    PROVE  Keeps(c, a)
<1> SUFFICES ASSUME NEW u \in a PROVE \E w \in c : Continues(w, u)
    BY DEF Keeps
<1>1. PICK v \in b : Continues(v, u)
    BY DEF Keeps
<1>2. PICK w \in c : Continues(w, v)
    BY DEF Keeps
<1>3. Includes(w.entry, u.entry)
    BY <1>1, <1>2, IncludesOn DEF Continues
<1> QED BY <1>1, <1>2, <1>3 DEF Continues

(* What was said in a file is said in one that keeps its rows. *)
LEMMA CoversStill ==
    ASSUME NEW a, NEW b, NEW d, NEW e, Keeps(b, a), Covers(a, d, e)
    PROVE  Covers(b, d, e)
<1> SUFFICES ASSUME EntryKey(e) # NoKey
             PROVE  \E v \in b : /\ EntryKey(v.entry) = EntryKey(e)
                                 /\ d \in v.sources
                                 /\ Includes(v.entry, e)
    BY DEF Covers
<1>1. PICK u \in a : /\ EntryKey(u.entry) = EntryKey(e)
                     /\ d \in u.sources
                     /\ Includes(u.entry, e)
    BY DEF Covers
<1>2. PICK v \in b : Continues(v, u)
    BY DEF Keeps
<1>3. Includes(v.entry, e)
    BY <1>1, <1>2, IncludesOn DEF Continues
<1> QED BY <1>1, <1>2, <1>3 DEF Continues

(* What must hold after entries of d were merged into rows. *)
Extended(more, rows, d, entries, S, W) ==
    /\ AreRows(more) /\ OneEach(more) /\ IsFiniteSet(more)
    /\ Keeps(more, rows)
    /\ \A e \in entries : Covers(more, d, e)
    /\ IsFrom(more, S, W)

(* An entry of a dictionary of neologisms is tagged as one. *)
Tagged(neologisms, p) ==
    IF neologisms THEN [p EXCEPT !.info["entryType"] = "neologism"] ELSE p

(* Tagging changes neither the key nor what is said. *)
LEMMA TaggedKeeps ==
    ASSUME NoneIsApart, NEW neologisms, NEW p, IsEntry(p), HasLists(p)
    PROVE  /\ IsEntry(Tagged(neologisms, p)) /\ HasLists(Tagged(neologisms, p))
           /\ EntryKey(Tagged(neologisms, p)) = EntryKey(p)
           /\ Includes(Tagged(neologisms, p), p)
<1>1. CASE ~neologisms
    BY <1>1, IncludesItself DEF Tagged
<1>2. CASE neologisms
  <2> DEFINE e == Tagged(neologisms, p)
             info == [p.info EXCEPT !["entryType"] = "neologism"]
  <2>1. p = [word |-> p.word, homonym |-> p.homonym, info |-> p.info, grammar |-> p.grammar,
             meanings |-> p.meanings, phraseology |-> p.phraseology, citations |-> p.citations]
      BY DEF IsEntry
  <2>2. e = [word |-> p.word, homonym |-> p.homonym, info |-> info, grammar |-> p.grammar,
             meanings |-> p.meanings, phraseology |-> p.phraseology, citations |-> p.citations]
      BY <1>2, <2>1 DEF Tagged
  <2>3. p.info = [f \in Scalar |-> p.info[f]]
      BY DEF IsEntry
  <2>4. /\ info = [f \in Scalar |-> info[f]]
        /\ \A f \in Scalar : p.info[f] # None => info[f] # None
        /\ info["nounClass"] = p.info["nounClass"]
    <3>1. "neologism" # None
        BY DEF NoneIsApart
    <3> QED BY <2>3, <3>1 DEF Scalar
  <2>5. /\ e.word = p.word /\ e.homonym = p.homonym /\ e.info = info /\ e.grammar = p.grammar
        /\ e.meanings = p.meanings /\ e.phraseology = p.phraseology /\ e.citations = p.citations
      BY <2>2
  <2> HIDE DEF e, info
  <2>6. IsEntry(e)
      BY <2>2, <2>4, <2>5 DEF IsEntry
  <2>7. HasLists(e) /\ EntryKey(e) = EntryKey(p)
      BY <2>4, <2>5 DEF HasLists, EntryKey
  <2>8. Includes(e, p)
      BY <2>4, <2>5 DEF Includes, Translations, Examples
  <2> QED BY <2>6, <2>7, <2>8 DEF e
<1> QED BY <1>1, <1>2

(* Merging one entry: into the row of its key, as a new row, or not at     *)
(* all if its key is empty. Every other row stays.                         *)
LEMMA AddEntryKeeps ==
    ASSUME NoneIsApart, NEW d, NEW neologisms, NEW rows, NEW p,
           AreRows(rows), OneEach(rows), IsFiniteSet(rows), IsEntry(p), HasLists(p),
           NEW S, NEW W, IsFrom(rows, S, W), d \in S, p.word \in W
    PROVE  Extended(AddEntry(d, neologisms, rows, p), rows, d, {p}, S, W)
<1> DEFINE e == Tagged(neologisms, p)
           same == {u \in rows : EntryKey(u.entry) = EntryKey(e)}
           more == AddEntry(d, neologisms, rows, p)
<1>1. more = IF EntryKey(e) = NoKey THEN rows
             ELSE IF same = {} THEN rows \cup {Unified(e, {d})}
             ELSE (rows \ same) \cup
                  {Unified(MergeInto(u.entry, e), u.sources \cup {d}) : u \in same}
    BY DEF AddEntry, Tagged
<1>2. /\ IsEntry(e) /\ HasLists(e) /\ EntryKey(e) = EntryKey(p) /\ Includes(e, p)
    BY TaggedKeeps
<1>6. e.word = p.word
    BY DEF e, Tagged, IsEntry
<1> HIDE DEF e, more
<1>3. CASE EntryKey(e) = NoKey
  <2>1. more = rows
      BY <1>1, <1>3
  <2> QED BY <1>2, <1>3, <2>1, KeepsItself DEF Covers, Extended, more
<1>4. CASE EntryKey(e) # NoKey /\ same = {}
  <2> DEFINE n == Unified(e, {d})
  <2>1. more = rows \cup {n}
      BY <1>1, <1>4
  <2>2. n = Unified(n.entry, n.sources) /\ n.entry = e /\ n.sources = {d}
      BY DEF Unified
  <2> HIDE DEF n
  <2>3. AreRows(more)
      BY <1>2, <2>1, <2>2 DEF AreRows, IsUnified
  <2>4. OneEach(more)
      BY <1>4, <2>1, <2>2 DEF OneEach
  <2>5. IsFiniteSet(more)
      BY <2>1, FS_AddElement
  <2>6. Keeps(more, rows)
      BY <2>1, KeepsItself DEF Keeps
  <2>7. Covers(more, d, p)
      BY <1>2, <2>1, <2>2 DEF Covers
  <2>8. IsFrom(more, S, W)
      BY <1>6, <2>1, <2>2 DEF IsFrom
  <2> QED BY <2>3, <2>4, <2>5, <2>6, <2>7, <2>8 DEF more, Extended
<1>5. CASE EntryKey(e) # NoKey /\ same # {}
  <2>1. PICK u \in rows : EntryKey(u.entry) = EntryKey(e)
      BY <1>5
  <2>2. same = {u}
      BY <2>1 DEF OneEach
  <2> DEFINE n == Unified(MergeInto(u.entry, e), u.sources \cup {d})
  <2>3. more = (rows \ {u}) \cup {n}
      BY <1>1, <1>5, <2>2
  <2>4. /\ n = Unified(n.entry, n.sources)
        /\ n.entry = MergeInto(u.entry, e)
        /\ n.sources = u.sources \cup {d}
      BY DEF Unified
  <2>5. IsEntry(u.entry) /\ HasLists(u.entry)
      BY <2>1 DEF AreRows, IsUnified
  <2> HIDE DEF n
  <2>6. /\ IsEntry(n.entry) /\ HasLists(n.entry)
        /\ EntryKey(n.entry) = EntryKey(u.entry)
        /\ Includes(n.entry, u.entry) /\ Includes(n.entry, e)
      BY <1>2, <2>1, <2>4, <2>5, MergeIntoKeeps
  <2>7. AreRows(more)
      BY <2>3, <2>4, <2>6 DEF AreRows, IsUnified
  <2>8. OneEach(more)
      BY <2>1, <2>3, <2>6 DEF OneEach
  <2>9. IsFiniteSet(more)
    <3>1. IsFiniteSet(rows \ {u})
        BY FS_Subset
    <3> QED BY <2>3, <3>1, FS_AddElement
  <2>10. Keeps(more, rows)
    <3>1. Continues(n, u)
        BY <2>4, <2>6 DEF Continues
    <3>2. \A v \in rows : v # u => Continues(v, v)
        BY IncludesItself DEF Continues
    <3> QED BY <2>3, <3>1, <3>2 DEF Keeps
  <2>11. Covers(more, d, p)
    <3>1. Includes(n.entry, p)
        BY <1>2, <2>6, IncludesOn
    <3> QED BY <1>2, <2>1, <2>3, <2>4, <2>6, <3>1 DEF Covers
  <2>12. IsFrom(more, S, W)
    <3>1. n.entry.word = u.entry.word
        BY <2>4, <2>5 DEF MergeInto, IsEntry
    <3> QED BY <2>1, <2>3, <2>4, <3>1 DEF IsFrom
  <2> QED BY <2>7, <2>8, <2>9, <2>10, <2>11, <2>12 DEF more, Extended
<1> QED BY <1>3, <1>4, <1>5

(* Merging a dictionary, entry by entry: no row is lost, there is still    *)
(* one for each key, and every entry is covered, also by an entry that     *)
(* was merged before others changed its row.                               *)
LEMMA MergeDictionaryExtends ==
    ASSUME NoneIsApart, NEW d, NEW neologisms, NEW rows, NEW entries,
           AreRows(rows), OneEach(rows), IsFiniteSet(rows), IsParsed(entries),
           NEW S, NEW W, IsFrom(rows, S, W), d \in S,
           \A e \in Range(entries) : e.word \in W
    PROVE  Extended(MergeDictionary(d, neologisms, rows, entries), rows, d, Range(entries), S, W)
<1>1. /\ Len(entries) \in Nat /\ DOMAIN entries = 1 .. Len(entries)
      /\ \A e \in Range(entries) : IsEntry(e) /\ HasLists(e)
    BY ListIsSeq DEF IsParsed
<1>2. MergeDictionary(d, neologisms, rows, entries) =
          Adding!FoldFrom(<<d, neologisms>>, rows, entries)
    BY DEF MergeDictionary, Adding!FoldFrom, FoldLeft, Adding!FoldLeft,
           MapThenFoldSet, Adding!MapThenFoldSet, AddEntryIn, Max, Adding!Max
<1>3. PICK r : /\ Adding!IsRun(r, <<d, neologisms>>, rows, entries, Len(entries))
               /\ MergeDictionary(d, neologisms, rows, entries) = r[Len(entries)]
    BY <1>1, <1>2, Adding!FoldRuns
<1> DEFINE T == {i \in 0 .. Len(entries) :
                    Extended(r[i], rows, d, {entries[j] : j \in 1 .. i}, S, W)}
<1>4. 0 \in T
  <2>1. r[0] = rows
      BY <1>3 DEF Adding!IsRun
  <2> QED BY <1>1, <2>1, KeepsItself DEF Extended
<1>5. ASSUME NEW i \in 1 .. Len(entries), i - 1 \in T PROVE i \in T
  <2>1. r[i] = AddEntry(d, neologisms, r[i - 1], entries[i])
      BY <1>3 DEF Adding!IsRun, AddEntryIn
  <2>2. Extended(r[i - 1], rows, d, {entries[j] : j \in 1 .. i - 1}, S, W)
      BY <1>5
  <2>3. IsEntry(entries[i]) /\ HasLists(entries[i]) /\ entries[i].word \in W
      BY <1>1 DEF Range
  <2>4. Extended(r[i], r[i - 1], d, {entries[i]}, S, W)
    <3>1. /\ AreRows(r[i - 1]) /\ OneEach(r[i - 1]) /\ IsFiniteSet(r[i - 1])
          /\ IsFrom(r[i - 1], S, W)
        BY <2>2 DEF Extended
    <3> QED BY <2>1, <2>3, <3>1, AddEntryKeeps
  <2>5. Keeps(r[i], rows)
      BY <2>2, <2>4, KeepsOn DEF Extended
  <2>6. ASSUME NEW j \in 1 .. i PROVE Covers(r[i], d, entries[j])
    <3>1. CASE j = i
        BY <2>4, <3>1 DEF Extended
    <3>2. CASE j # i
      <4>1. j \in 1 .. i - 1
          BY <1>1, <3>2
      <4>2. Covers(r[i - 1], d, entries[j]) /\ Keeps(r[i], r[i - 1])
          BY <2>2, <2>4, <4>1 DEF Extended
      <4> QED BY <4>2, CoversStill
    <3> QED BY <3>1, <3>2
  <2>7. Extended(r[i], rows, d, {entries[j] : j \in 1 .. i}, S, W)
      BY <2>4, <2>5, <2>6 DEF Extended
  <2> QED BY <1>1, <2>7
<1>6. Len(entries) \in T
  <2> HIDE DEF T
  <2>1. \A i \in 0 .. Len(entries) : i \in T
      BY <1>1, <1>4, <1>5, Adding!UpTo
  <2> QED BY <1>1, <2>1
<1>7. Range(entries) = {entries[j] : j \in 1 .. Len(entries)}
    BY <1>1 DEF Range
<1> QED BY <1>3, <1>6, <1>7

----------------------------------------------------------------------------
(* Cleaning. *)

(* Cutting a text settles at once and makes none blank. *)
LEMMA SliceText ==
    ASSUME NEW t, IsText(t)
    PROVE  /\ IsText(Slice(t))
           /\ Slice(Slice(t)) = Slice(t)
           /\ IsBlank(Slice(t)) <=> IsBlank(t)
<1>1. ASSUME NEW x, IsText(x)
      PROVE  Slice(x) = [body |-> x.body, upper |-> x.upper, pad |-> x.pad, mid |-> x.mid,
                         far |-> ""]
  <2>1. \A b, u, p, m, f, g :
            [[body |-> b, upper |-> u, pad |-> p, mid |-> m, far |-> f] EXCEPT !.far = g] =
                [body |-> b, upper |-> u, pad |-> p, mid |-> m, far |-> g]
      OBVIOUS
  <2>2. x = [body |-> x.body, upper |-> x.upper, pad |-> x.pad, mid |-> x.mid, far |-> x.far]
      BY <1>1 DEF IsText
  <2>3. Slice(x) = [[body |-> x.body, upper |-> x.upper, pad |-> x.pad, mid |-> x.mid,
                     far |-> x.far] EXCEPT !.far = ""]
      BY <2>2, Zenon DEF Slice
  <2> QED BY <2>1, <2>3, Zenon
<1> DEFINE s == Slice(t)
<1>2. s = [body |-> t.body, upper |-> t.upper, pad |-> t.pad, mid |-> t.mid, far |-> ""]
    BY <1>1
<1> HIDE DEF s
<1>3. IsText(s)
    BY <1>2 DEF IsText
<1>4. Slice(s) = s
  <2>1. Slice(s) = [body |-> s.body, upper |-> s.upper, pad |-> s.pad, mid |-> s.mid,
                    far |-> ""]
      BY <1>1, <1>3
  <2>2. /\ s.body = t.body /\ s.upper = t.upper /\ s.pad = t.pad /\ s.mid = t.mid
      BY <1>2
  <2> QED BY <1>2, <2>1, <2>2
<1>5. IsBlank(s) <=> IsBlank(t)
    BY <1>2 DEF IsBlank
<1> QED BY <1>3, <1>4, <1>5 DEF s

(* None is not the empty list. *)
LEMMA NoneIsNoList ==
    ASSUME NoneIsApart
    PROVE  None # <<>>
BY EmptyIsList DEF NoneIsApart

(* What is kept of phrases are whole ones, and at least one; *)
LEMMA KeptWhole ==
    ASSUME NoneIsApart, NEW s, MaybeList(s)
    PROVE  /\ MaybeList(Kept(s, IsWhole)) /\ Kept(s, IsWhole) # <<>>
           /\ \A x \in Items(Kept(s, IsWhole)) : IsWhole(x)
<1> DEFINE keep == {x \in Range(s) : IsWhole(x)}
<1>1. Kept(s, IsWhole) = IF s = None THEN None ELSE NoneIfEmpty(Those(s, keep))
    BY DEF Kept, Filter
<1>2. CASE s = None
    BY <1>1, <1>2, NoneIsNoList DEF MaybeList, Items
<1>3. CASE s # None
  <2>1. IsList(s)
      BY <1>3 DEF MaybeList
  <2>2. IsList(Those(s, keep)) /\ Range(Those(s, keep)) = Range(s) \cap keep
      BY <2>1, ThoseIsList
  <2>3. \A x \in keep : IsWhole(x)
      OBVIOUS
  <2> DEFINE some == Those(s, keep)
  <2> HIDE DEF keep, some
  <2>4. CASE some = <<>>
      BY <1>1, <1>3, <2>4, NoneIsNoList DEF NoneIfEmpty, MaybeList, Items, some
  <2>5. CASE some # <<>>
    <3>1. Kept(s, IsWhole) = some
        BY <1>1, <1>3, <2>5 DEF NoneIfEmpty, some
    <3>2. IsList(some) /\ Range(some) \subseteq keep
        BY <2>2 DEF some
    <3>3. Items(some) = Range(some)
        BY <3>2, ItemsOfList
    <3> QED BY <2>3, <2>5, <3>1, <3>2, <3>3 DEF MaybeList
  <2> QED BY <2>4, <2>5
<1> QED BY <1>2, <1>3

(* what is kept of examples are examples, *)
LEMMA KeptExamples ==
    ASSUME NoneIsApart, NEW s, MaybeList(s)
    PROVE  /\ MaybeList(Kept(s, IsExample)) /\ Kept(s, IsExample) # <<>>
           /\ \A x \in Items(Kept(s, IsExample)) : IsExample(x)
<1> DEFINE keep == {x \in Range(s) : IsExample(x)}
<1>1. Kept(s, IsExample) = IF s = None THEN None ELSE NoneIfEmpty(Those(s, keep))
    BY DEF Kept, Filter
<1>2. CASE s = None
    BY <1>1, <1>2, NoneIsNoList DEF MaybeList, Items
<1>3. CASE s # None
  <2>1. IsList(s)
      BY <1>3 DEF MaybeList
  <2>2. IsList(Those(s, keep)) /\ Range(Those(s, keep)) = Range(s) \cap keep
      BY <2>1, ThoseIsList
  <2>3. \A x \in keep : IsExample(x)
      OBVIOUS
  <2> DEFINE some == Those(s, keep)
  <2> HIDE DEF keep, some
  <2>4. CASE some = <<>>
      BY <1>1, <1>3, <2>4, NoneIsNoList DEF NoneIfEmpty, MaybeList, Items, some
  <2>5. CASE some # <<>>
    <3>1. Kept(s, IsExample) = some
        BY <1>1, <1>3, <2>5 DEF NoneIfEmpty, some
    <3>2. IsList(some) /\ Range(some) \subseteq keep
        BY <2>2 DEF some
    <3>3. Items(some) = Range(some)
        BY <3>2, ItemsOfList
    <3> QED BY <2>3, <2>5, <3>1, <3>2, <3>3 DEF MaybeList
  <2> QED BY <2>4, <2>5
<1> QED BY <1>2, <1>3

(* and what is kept of citations are citations. *)
LEMMA KeptCitations ==
    ASSUME NoneIsApart, NEW s, MaybeList(s)
    PROVE  /\ MaybeList(Kept(s, IsCitation)) /\ Kept(s, IsCitation) # <<>>
           /\ \A x \in Items(Kept(s, IsCitation)) : IsCitation(x) /\ x \in Items(s)
<1> DEFINE keep == {x \in Range(s) : IsCitation(x)}
<1>1. Kept(s, IsCitation) = IF s = None THEN None ELSE NoneIfEmpty(Those(s, keep))
    BY DEF Kept, Filter
<1>2. CASE s = None
    BY <1>1, <1>2, NoneIsNoList DEF MaybeList, Items
<1>3. CASE s # None
  <2>1. IsList(s)
      BY <1>3 DEF MaybeList
  <2>2. IsList(Those(s, keep)) /\ Range(Those(s, keep)) = Range(s) \cap keep
      BY <2>1, ThoseIsList
  <2>3. \A x \in keep : IsCitation(x) /\ x \in Items(s)
      BY <2>1, ItemsOfList
  <2> DEFINE some == Those(s, keep)
  <2> HIDE DEF keep, some
  <2>4. CASE some = <<>>
      BY <1>1, <1>3, <2>4, NoneIsNoList DEF NoneIfEmpty, MaybeList, Items, some
  <2>5. CASE some # <<>>
    <3>1. Kept(s, IsCitation) = some
        BY <1>1, <1>3, <2>5 DEF NoneIfEmpty, some
    <3>2. IsList(some) /\ Range(some) \subseteq keep
        BY <2>2 DEF some
    <3>3. Items(some) = Range(some)
        BY <3>2, ItemsOfList
    <3> QED BY <2>3, <2>5, <3>1, <3>2, <3>3 DEF MaybeList
  <2> QED BY <2>4, <2>5
<1> QED BY <1>2, <1>3

(* A cleaned meaning is one that improve-entries leaves alone, and it      *)
(* does not become empty by being cleaned.                                 *)
LEMMA CleanMeaningSettles ==
    ASSUME NoneIsApart, NEW m, IsMeaning(m)
    PROVE  /\ IsMeaning(CleanMeaning(m))
           /\ RowMeaning(CleanMeaning(m)) = CleanMeaning(m)
           /\ HasText(m) => HasText(CleanMeaning(m))
           /\ CleanMeaning(m).examples # <<>>
<1> DEFINE c == CleanMeaning(m)
           kept == Kept(m.examples, IsExample)
<1>1. c = [translation |-> Slice(m.translation), note |-> m.note, examples |-> kept]
  <2>1. c = [m EXCEPT !.examples = kept, !.translation = Slice(@)]
      BY DEF CleanMeaning
  <2> HIDE DEF kept, c
  <2> QED BY <2>1 DEF IsMeaning
<1>2. /\ MaybeList(kept) /\ kept # <<>>
      /\ \A x \in Items(kept) : IsExample(x)
    BY KeptExamples DEF IsMeaning
<1>3. /\ IsText(Slice(m.translation))
      /\ Slice(Slice(m.translation)) = Slice(m.translation)
      /\ IsBlank(Slice(m.translation)) <=> IsBlank(m.translation)
    BY SliceText DEF IsMeaning
<1> HIDE DEF kept, c
<1>4. IsMeaning(c)
    BY <1>1, <1>2, <1>3 DEF IsMeaning
<1>5. RowMeaning(c) = c
  <2>1. CASE kept = None
      BY <1>1, <2>1 DEF RowMeaning
  <2>2. CASE kept # None
    <3>1. IsList(kept)
        BY <1>2, <2>2 DEF MaybeList
    <3>2. {x \in Range(kept) : IsExample(x)} = Range(kept)
        BY <1>2, <3>1, ItemsOfList
    <3>3. Filter(kept, IsExample) = kept
        BY <3>1, <3>2, ThoseAll DEF Filter
    <3>4. c.examples = kept /\ c.translation = Slice(m.translation)
        BY <1>1
    <3>5. RowMeaning(c) = [c EXCEPT !.translation = Slice(@),
                                    !.examples = kept]
        BY <2>2, <3>3, <3>4 DEF RowMeaning
    <3> QED BY <1>1, <1>3, <3>5
  <2> QED BY <2>1, <2>2
<1>6. HasText(m) => HasText(c)
    BY <1>1, <1>3 DEF HasText
<1>7. c.examples # <<>>
    BY <1>1, <1>2
<1> QED BY <1>4, <1>5, <1>6, <1>7 DEF c

(* improve-entries makes a meaning of a meaning. *)
LEMMA RowMeaningIsMeaning ==
    ASSUME NEW m, IsMeaning(m)
    PROVE  IsMeaning(RowMeaning(m))
<1>1. CASE m.examples = None
    BY <1>1 DEF RowMeaning
<1>2. CASE m.examples # None
  <2> DEFINE keep == {x \in Range(m.examples) : IsExample(x)}
             some == Those(m.examples, keep)
             all == IF some = m.examples THEN m.examples ELSE NoneIfEmpty(some)
  <2>1. RowMeaning(m) = [m EXCEPT !.translation = Slice(@), !.examples = all]
      BY <1>2 DEF RowMeaning, Filter
  <2>2. IsList(m.examples)
      BY <1>2 DEF IsMeaning, MaybeList
  <2>3. IsList(some)
      BY <2>2, ThoseIsList
  <2>4. MaybeList(all)
      BY <2>2, <2>3 DEF MaybeList, NoneIfEmpty
  <2>5. IsText(Slice(m.translation))
      BY SliceText DEF IsMeaning
  <2> HIDE DEF all
  <2>6. RowMeaning(m) = [translation |-> Slice(m.translation), note |-> m.note, examples |-> all]
      BY <2>1 DEF IsMeaning
  <2> QED BY <2>4, <2>5, <2>6 DEF IsMeaning
<1> QED BY <1>1, <1>2

(* Cleaned citations are texts that are not blank. *)
LEMMA CitationsCleaned ==
    ASSUME NoneIsApart, NEW cs, MaybeList(cs), \A c \in Items(cs) : IsText(c)
    PROVE  /\ MaybeList(CleanCitations(cs)) /\ CleanCitations(cs) # <<>>
           /\ \A c \in Items(CleanCitations(cs)) : IsText(c) /\ IsCitation(c)
<1> DEFINE kept == Kept(cs, IsCitation)
<1>1. /\ MaybeList(kept) /\ kept # <<>>
      /\ \A x \in Items(kept) : IsCitation(x) /\ x \in Items(cs)
    BY KeptCitations
<1>2. CASE kept = None
    BY <1>2, NoneIsNoList DEF CleanCitations, MaybeList, Items
<1>3. CASE kept # None
  <2> DEFINE cut == [i \in DOMAIN kept |-> Slice(kept[i])]
  <2>1. CleanCitations(cs) = cut
      BY <1>3 DEF CleanCitations, Each
  <2> HIDE DEF kept
  <2>2. IsList(kept) /\ kept # <<>>
      BY <1>1, <1>3 DEF MaybeList
  <2>3. DOMAIN kept = 1 .. Len(kept) /\ Len(kept) \in Nat /\ kept \in Seq(Range(kept))
      BY <2>2, ListIsSeq
  <2>4. Len(kept) # 0
      BY <2>2, <2>3
  <2>5. IsList(cut) /\ Len(cut) = Len(kept)
      BY <2>3, FunctionIsList
  <2>6. cut # <<>>
      BY <2>3, <2>4, <2>5
  <2>7. \A i \in 1 .. Len(kept) : IsText(kept[i]) /\ IsCitation(kept[i])
    <3>1. Items(kept) = Range(kept)
        BY <2>2, ItemsOfList
    <3> QED BY <1>1, <2>3, <3>1 DEF Range
  <2>8. \A i \in 1 .. Len(kept) : IsText(cut[i]) /\ IsCitation(cut[i])
      BY <2>3, <2>7, SliceText DEF IsCitation
  <2>9. Items(cut) = Range(cut) /\ DOMAIN cut = 1 .. Len(kept)
      BY <2>3, <2>5, ItemsOfList
  <2>10. \A c \in Items(cut) : IsText(c) /\ IsCitation(c)
    <3> HIDE DEF cut
    <3> QED BY <2>8, <2>9 DEF Range
  <2> HIDE DEF cut
  <2> QED BY <2>1, <2>5, <2>6, <2>10 DEF MaybeList
<1> QED BY <1>2, <1>3

(* A style label that was normalised is normal. *)
LEMMA StyleSettles ==
    ASSUME NEW label
    PROVE  NormalizeStyle(NormalizeStyle(label)) = NormalizeStyle(label)
<1>1. \A x \in DOMAIN StandardMark : StandardMark[x] \notin DOMAIN StandardMark
    BY DEF StandardMark
<1> QED BY <1>1 DEF NormalizeStyle, StyleMark

(* An entry in which there is nothing left to clean. *)
IsClean(e) ==
    /\ NoEmptyList(e)
    /\ CleanWord(e.word) = e.word
    /\ \A m \in Range(e.meanings) : HasText(m) /\ RowMeaning(m) = m
    /\ NormalizeStyle(e.info["styleLabel"]) = e.info["styleLabel"]
    /\ \A p \in Items(e.phraseology) : IsWhole(p)
    /\ \A c \in Items(e.citations) : IsCitation(c)

(* improve makes such an entry, whatever it is given. *)
LEMMA CleanEntryIsClean ==
    ASSUME NoneIsApart, NEW e, IsEntry(e), HasLists(e), e.word \in AllWords
    PROVE  /\ IsEntry(CleanEntry(e)) /\ HasLists(CleanEntry(e))
           /\ IsClean(CleanEntry(e))
           /\ CleanEntry(e).word \in AllWords
<1> DEFINE c == CleanEntry(e)
           keep == {m \in Range(e.meanings) : HasText(m)}
           first == FirstOfEach(Those(e.meanings, keep))
           meanings == [i \in DOMAIN first |-> CleanMeaning(first[i])]
           info == [e.info EXCEPT !["styleLabel"] = NormalizeStyle(@)]
           phrases == Kept(e.phraseology, IsWhole)
           citations == CleanCitations(e.citations)
           word == CleanWord(e.word)
<1>1. c = [word |-> word, homonym |-> e.homonym, info |-> info, grammar |-> e.grammar,
           meanings |-> meanings, phraseology |-> phrases, citations |-> citations]
  <2>1. c = [e EXCEPT !.word = word, !.meanings = meanings,
                      !.info["styleLabel"] = NormalizeStyle(@),
                      !.phraseology = phrases, !.citations = citations]
      BY DEF CleanEntry, Each, Filter
  <2>2. e = [word |-> e.word, homonym |-> e.homonym, info |-> e.info, grammar |-> e.grammar,
             meanings |-> e.meanings, phraseology |-> e.phraseology, citations |-> e.citations]
      BY DEF IsEntry
  <2> HIDE DEF c, word, meanings, phrases, citations
  <2> QED BY <2>1, <2>2
<1>2. /\ info = [f \in Scalar |-> info[f]]
      /\ NormalizeStyle(info["styleLabel"]) = info["styleLabel"]
  <2>1. e.info = [f \in Scalar |-> e.info[f]] /\ "styleLabel" \in Scalar
      BY DEF IsEntry, Scalar
  <2>2. info["styleLabel"] = NormalizeStyle(e.info["styleLabel"])
      BY <2>1
  <2> QED BY <2>1, <2>2, StyleSettles
<1>3. IsList(e.meanings) /\ \A m \in Range(e.meanings) : IsMeaning(m)
    BY DEF IsEntry
<1>4. IsList(first) /\ Range(first) \subseteq keep
    BY <1>3, ThoseIsList, FirstOfEachIsList
<1>5. \A m \in keep : IsMeaning(m) /\ HasText(m)
    BY <1>3
<1> HIDE DEF keep, first
<1>6. DOMAIN first = 1 .. Len(first) /\ Len(first) \in Nat
    BY <1>4, ListIsSeq
<1>7. IsList(meanings) /\ Len(meanings) = Len(first) /\ DOMAIN meanings = 1 .. Len(first)
    BY <1>6, FunctionIsList
<1>8. ASSUME NEW m \in Range(meanings)
      PROVE  IsMeaning(m) /\ RowMeaning(m) = m /\ HasText(m) /\ m.examples # <<>>
  <2>1. PICK i \in 1 .. Len(first) : m = CleanMeaning(first[i])
      BY <1>6, <1>7 DEF Range
  <2>2. IsMeaning(first[i]) /\ HasText(first[i])
      BY <1>4, <1>5, <1>6 DEF Range
  <2> QED BY <2>1, <2>2, CleanMeaningSettles
<1>9. /\ MaybeList(phrases) /\ phrases # <<>>
      /\ \A x \in Items(phrases) : IsWhole(x)
    BY KeptWhole DEF HasLists
<1>10. /\ MaybeList(citations) /\ citations # <<>>
       /\ \A x \in Items(citations) : IsText(x) /\ IsCitation(x)
    BY CitationsCleaned DEF HasLists
<1>11. word \in AllWords /\ CleanWord(word) = word
    BY WordsAreWritten DEF AllWords
<1>12. e.grammar = None \/ IsGrammar(e.grammar)
    BY DEF IsEntry
<1> HIDE DEF c, meanings, info, phrases, citations, word
<1>13. /\ c.word = word /\ c.info = info /\ c.grammar = e.grammar /\ c.homonym = e.homonym
       /\ c.meanings = meanings /\ c.phraseology = phrases /\ c.citations = citations
    BY <1>1
<1>14. IsEntry(c)
    BY <1>1, <1>2, <1>7, <1>8, <1>12, <1>13 DEF IsEntry
<1>15. HasLists(c)
    BY <1>9, <1>10, <1>13 DEF HasLists
<1>16. IsClean(c)
    BY <1>2, <1>8, <1>9, <1>10, <1>11, <1>13 DEF IsClean, NoEmptyList
<1> QED BY <1>11, <1>13, <1>14, <1>15, <1>16 DEF c

(* load makes a row of it that has its word, its homonym and its           *)
(* meanings.                                                               *)
LEMMA RowIsRow ==
    ASSUME NoneIsApart, NEW u, IsUnified(u)
    PROVE  /\ IsRow(Row(u))
           /\ Row(u).entry.word = u.entry.word /\ Row(u).entry.homonym = u.entry.homonym
           /\ Row(u).entry.meanings = u.entry.meanings
           /\ Row(u).norm = NormalizeWord(u.entry.word)
<1> DEFINE e == u.entry
           info == [e.info EXCEPT !["entryType"] = IF @ = None THEN "standard" ELSE @]
           f == Row(u).entry
<1>1. f = [e EXCEPT !.info = info]
    BY DEF Row, IsUnified, IsEntry
<1>2. e = [word |-> e.word, homonym |-> e.homonym, info |-> e.info, grammar |-> e.grammar,
           meanings |-> e.meanings, phraseology |-> e.phraseology, citations |-> e.citations]
    BY DEF IsUnified, IsEntry
<1>3. info = [g \in Scalar |-> info[g]]
    BY DEF IsUnified, IsEntry, Scalar
<1>4. IsEntry(e) /\ HasLists(e)
    BY DEF IsUnified
<1> HIDE DEF info, f, e
<1>5. f = [word |-> e.word, homonym |-> e.homonym, info |-> info, grammar |-> e.grammar,
           meanings |-> e.meanings, phraseology |-> e.phraseology, citations |-> e.citations]
    BY <1>1, <1>2
<1>6. /\ f.word = e.word /\ f.homonym = e.homonym /\ f.info = info /\ f.grammar = e.grammar
      /\ f.meanings = e.meanings /\ f.phraseology = e.phraseology /\ f.citations = e.citations
    BY <1>5
<1>7. IsEntry(f)
    BY <1>3, <1>4, <1>5, <1>6 DEF IsEntry
<1>8. EstimateCefr(u) \in 1 .. 6
  <2> DEFINE known == Cardinality(u.sources)
             base == IF known >= 6 THEN 1 ELSE IF known >= 4 THEN 2
                     ELSE IF known >= 2 THEN 3 ELSE 4
             levels == {base} \cup LevelIn(DomainLevel, u.entry.info["domain"])
                         \cup LevelIn(StyleLevel, u.entry.info["styleLabel"])
                         \cup (IF u.entry.info["partOfSpeech"] \in {"priC.", "deepriC.", "masd."}
                               THEN {3} ELSE {})
  <2>1. base \in 1 .. 6
      OBVIOUS
  <2>2. \A l : LevelIn(DomainLevel, l) \subseteq 1 .. 6
      BY DEF LevelIn, DomainLevel
  <2>3. \A l : LevelIn(StyleLevel, l) \subseteq 1 .. 6
      BY DEF LevelIn, StyleLevel
  <2> HIDE DEF base
  <2>4. levels \in SUBSET (1 .. 6) /\ levels # {}
      BY <2>1, <2>2, <2>3
  <2>5. EstimateCefr(u) = IF u.entry.info["entryType"] = "neologism" THEN 5 ELSE Max(levels)
      BY DEF EstimateCefr, base
  <2> HIDE DEF levels
  <2>6. Max(levels) \in levels
      BY <2>4, Keeping!MaxOf DEF Max, Keeping!Max
  <2>7. Max(levels) \in 1 .. 6
    <3>1. levels \subseteq 1 .. 6
        BY <2>4
    <3> QED BY <2>6, <3>1, Zenon
  <2>8. 5 \in 1 .. 6
      OBVIOUS
  <2> QED BY <2>5, <2>7, <2>8, Zenon
<1>9. Row(u) = [entry |-> f, norm |-> NormalizeWord(e.word), cefr |-> EstimateCefr(u),
                sources |-> u.sources]
    BY DEF Row, f, e
<1>10. IsRow(Row(u))
  <2>1. MaybeList(f.phraseology) /\ MaybeList(f.citations)
      BY <1>4, <1>6 DEF HasLists
  <2> QED BY <1>7, <1>8, <1>9, <2>1 DEF IsRow
<1> QED BY <1>6, <1>9, <1>10 DEF f, e

----------------------------------------------------------------------------
(* Cleaning rows. *)

(* The lists improve-entries makes, *)
ImprovedMeanings(e) ==
    LET first == FirstOfEach(Those(e.meanings, {m \in Range(e.meanings) : HasText(m)}))
    IN  [i \in DOMAIN first |-> RowMeaning(first[i])]

(* of the phrases that are whole, *)
WholePhrases(e) ==
    IF e.phraseology \in {None, JsonNull} THEN e.phraseology
    ELSE Those(e.phraseology, {x \in Range(e.phraseology) : IsWhole(x)})

(* of the citations that are not blank, *)
RealCitations(e) ==
    IF e.citations \in {None, JsonNull} THEN e.citations
    ELSE Those(e.citations, {x \in Range(e.citations) : IsCitation(x)})

(* which are cut only if one was dropped; *)
ImprovedCitations(e) ==
    LET real == RealCitations(e)
    IN  IF real = e.citations THEN e.citations
        ELSE RowList(e.citations, [i \in DOMAIN real |-> Slice(real[i])])

(* and the entry it makes, field by field. *)
ImprovedEntry(e) ==
    [word |-> CleanWord(e.word), homonym |-> e.homonym,
     info |-> [e.info EXCEPT !["styleLabel"] = NormalizeStyle(@)],
     grammar |-> e.grammar,
     meanings |-> ImprovedMeanings(e),
     phraseology |-> RowList(e.phraseology, WholePhrases(e)),
     citations |-> ImprovedCitations(e)]

(* improve-entries writes back what changed, one field at a time: in the   *)
(* end that is the improved entry, its normalised word and nothing else.   *)
LEMMA ImproveRowIs ==
    ASSUME NEW r, IsRow(r)
    PROVE  ImproveRow(r) =
               [entry |-> ImprovedEntry(r.entry),
                norm |-> IF CleanWord(r.entry.word) = r.entry.word THEN r.norm
                         ELSE NormalizeWord(CleanWord(r.entry.word)),
                cefr |-> r.cefr, sources |-> r.sources]
<1> DEFINE e == r.entry
           word == CleanWord(e.word)
           norm == IF word = e.word THEN r.norm ELSE NormalizeWord(word)
           meanings == ImprovedMeanings(e)
           phrases == RowList(e.phraseology, WholePhrases(e))
           citations == ImprovedCitations(e)
           info == [e.info EXCEPT !["styleLabel"] = NormalizeStyle(@)]
<1>1. ImproveRow(r) =
          [r EXCEPT !.norm = norm, !.entry.word = word, !.entry.meanings = meanings,
                    !.entry.info["styleLabel"] = NormalizeStyle(@),
                    !.entry.phraseology = phrases, !.entry.citations = citations]
  <2>1. r = [entry |-> r.entry, norm |-> r.norm, cefr |-> r.cefr, sources |-> r.sources]
      BY DEF IsRow
  <2>2. e = [word |-> e.word, homonym |-> e.homonym, info |-> e.info, grammar |-> e.grammar,
             meanings |-> e.meanings, phraseology |-> e.phraseology, citations |-> e.citations]
      BY DEF IsRow, IsEntry
  <2> QED BY <2>1, <2>2 DEF ImproveRow, ImprovedMeanings, WholePhrases, RealCitations,
                            ImprovedCitations, Each, Filter, Filtered
<1>2. r = [entry |-> e, norm |-> r.norm, cefr |-> r.cefr, sources |-> r.sources]
    BY DEF IsRow
<1>3. e = [word |-> e.word, homonym |-> e.homonym, info |-> e.info, grammar |-> e.grammar,
           meanings |-> e.meanings, phraseology |-> e.phraseology, citations |-> e.citations]
    BY DEF IsRow, IsEntry
<1>4. ImprovedEntry(e) = [word |-> word, homonym |-> e.homonym, info |-> info,
                          grammar |-> e.grammar, meanings |-> meanings,
                          phraseology |-> phrases, citations |-> citations]
    BY DEF ImprovedEntry
<1> DEFINE q == ImproveRow(r)
<1> HIDE DEF norm, word, meanings, phrases, citations, e
<1>5. q.norm = norm /\ q.cefr = r.cefr /\ q.sources = r.sources
      /\ q = [entry |-> q.entry, norm |-> q.norm, cefr |-> q.cefr, sources |-> q.sources]
  <2> HIDE DEF q, info
  <2> QED BY <1>1, <1>2, <1>3 DEF q
<1>6. q.entry = [word |-> word, homonym |-> e.homonym, info |-> info, grammar |-> e.grammar,
                 meanings |-> meanings, phraseology |-> phrases, citations |-> citations]
  <2>1. q = [r EXCEPT !.norm = norm, !.entry.word = word, !.entry.meanings = meanings,
                      !.entry.info["styleLabel"] = NormalizeStyle(@),
                      !.entry.phraseology = phrases, !.entry.citations = citations]
      BY <1>1 DEF q
  <2>2. r.entry = e
      BY DEF e
  <2> HIDE DEF q
  <2> QED BY <1>2, <1>3, <2>1, ZenonT(60) DEF e
<1> QED BY <1>4, <1>5, <1>6 DEF q, e, word, norm

(* The improved meanings are meanings. *)
LEMMA MeaningsImproved ==
    ASSUME NEW e, IsEntry(e)
    PROVE  IsMeanings(ImprovedMeanings(e))
<1> DEFINE keep == {m \in Range(e.meanings) : HasText(m)}
           first == FirstOfEach(Those(e.meanings, keep))
           meanings == [i \in DOMAIN first |-> RowMeaning(first[i])]
<1>1. IsList(e.meanings) /\ \A m \in Range(e.meanings) : IsMeaning(m)
    BY DEF IsEntry
<1>2. IsList(first) /\ Range(first) \subseteq keep
    BY <1>1, ThoseIsList, FirstOfEachIsList
<1>3. ImprovedMeanings(e) = meanings
    BY DEF ImprovedMeanings
<1>4. \A m \in keep : IsMeaning(m)
    BY <1>1
<1> HIDE DEF keep, first
<1>5. DOMAIN first = 1 .. Len(first) /\ Len(first) \in Nat
    BY <1>2, ListIsSeq
<1>6. IsList(meanings) /\ Len(meanings) = Len(first) /\ DOMAIN meanings = 1 .. Len(first)
    BY <1>5, FunctionIsList
<1>7. \A i \in 1 .. Len(first) : IsMeaning(meanings[i])
  <2> TAKE i \in 1 .. Len(first)
  <2>1. IsMeaning(first[i])
      BY <1>2, <1>4, <1>5 DEF Range
  <2>2. meanings[i] = RowMeaning(first[i])
      BY <1>5
  <2> QED BY <2>1, <2>2, RowMeaningIsMeaning
<1> HIDE DEF meanings
<1> QED BY <1>3, <1>6, <1>7 DEF IsMeanings, Range

(* A list that is written back is none, null or a list. *)
LEMMA ListImproved ==
    ASSUME NEW s, NEW kept, s = JsonNull \/ MaybeList(s), kept = s \/ IsList(kept)
    PROVE  RowList(s, kept) = JsonNull \/ MaybeList(RowList(s, kept))
BY DEF RowList, MaybeList

(* So it is with citations, *)
LEMMA CitationsImproved ==
    ASSUME NEW e, e.citations = JsonNull \/ MaybeList(e.citations)
    PROVE  ImprovedCitations(e) = JsonNull \/ MaybeList(ImprovedCitations(e))
<1> DEFINE cs == e.citations
           keep == {x \in Range(cs) : IsCitation(x)}
           real == RealCitations(e)
           cut == [i \in DOMAIN real |-> Slice(real[i])]
<1>1. ImprovedCitations(e) = IF real = cs THEN cs ELSE RowList(cs, cut)
    BY DEF ImprovedCitations
<1>2. CASE cs \in {None, JsonNull}
  <2>1. real = cs
      BY <1>2 DEF RealCitations
  <2> QED BY <1>1, <2>1
<1>3. CASE cs \notin {None, JsonNull}
  <2>1. real = Those(cs, keep)
      BY <1>3 DEF RealCitations
  <2>2. IsList(cs)
      BY <1>3 DEF MaybeList
  <2>3. IsList(real)
      BY <2>1, <2>2, ThoseIsList
  <2> HIDE DEF real
  <2>4. DOMAIN real = 1 .. Len(real) /\ Len(real) \in Nat
      BY <2>3, ListIsSeq
  <2>5. IsList(cut)
      BY <2>4, FunctionIsList
  <2> HIDE DEF cut, cs
  <2>6. RowList(cs, cut) = JsonNull \/ MaybeList(RowList(cs, cut))
      BY <2>5, ListImproved DEF cs
  <2> QED BY <1>1, <2>6 DEF cs
<1> QED BY <1>2, <1>3

(* and with phrases. *)
LEMMA PhrasesImproved ==
    ASSUME NEW e, e.phraseology = JsonNull \/ MaybeList(e.phraseology)
    PROVE  LET phrases == RowList(e.phraseology, WholePhrases(e))
           IN  phrases = JsonNull \/ MaybeList(phrases)
<1> DEFINE s == e.phraseology
<1>1. CASE s \in {None, JsonNull}
    BY <1>1, ListImproved DEF WholePhrases
<1>2. CASE s \notin {None, JsonNull}
  <2>1. IsList(s)
      BY <1>2 DEF MaybeList
  <2>2. IsList(WholePhrases(e))
      BY <1>2, <2>1, ThoseIsList DEF WholePhrases
  <2> QED BY <2>2, ListImproved
<1> QED BY <1>1, <1>2

(* improve-entries makes a row of a row, whose norm is that of its word    *)
(* again.                                                                  *)
LEMMA ImprovedRowIsRow ==
    ASSUME NEW r, IsRow(r), r.entry.word \in AllWords, r.norm = NormalizeWord(r.entry.word)
    PROVE  /\ IsRow(ImproveRow(r))
           /\ ImproveRow(r).entry.word \in AllWords
           /\ ImproveRow(r).norm = NormalizeWord(ImproveRow(r).entry.word)
<1> DEFINE e == r.entry
           f == ImprovedEntry(e)
           norm == IF CleanWord(e.word) = e.word THEN r.norm ELSE NormalizeWord(CleanWord(e.word))
           info == [e.info EXCEPT !["styleLabel"] = NormalizeStyle(@)]
<1>1. ImproveRow(r) = [entry |-> f, norm |-> norm, cefr |-> r.cefr, sources |-> r.sources]
    BY ImproveRowIs
<1>2. f = [word |-> CleanWord(e.word), homonym |-> e.homonym, info |-> info,
           grammar |-> e.grammar, meanings |-> ImprovedMeanings(e),
           phraseology |-> RowList(e.phraseology, WholePhrases(e)),
           citations |-> ImprovedCitations(e)]
    BY DEF ImprovedEntry
<1>3. norm = NormalizeWord(CleanWord(e.word))
    OBVIOUS
<1>4. CleanWord(e.word) \in AllWords
    BY WordsAreWritten DEF AllWords
<1>5. /\ IsEntry(e) /\ r.cefr \in 1 .. 6
      /\ e.phraseology = JsonNull \/ MaybeList(e.phraseology)
      /\ e.citations = JsonNull \/ MaybeList(e.citations)
    BY DEF IsRow
<1>6. info = [g \in Scalar |-> info[g]]
    BY <1>5 DEF IsEntry
<1>7. IsMeanings(ImprovedMeanings(e))
    BY <1>5, MeaningsImproved
<1> HIDE DEF norm, info, e
<1>8. IsEntry(f)
    BY <1>2, <1>5, <1>6, <1>7 DEF IsEntry, IsMeanings
<1>9. f.phraseology = JsonNull \/ MaybeList(f.phraseology)
    BY <1>2, <1>5, PhrasesImproved
<1>10. f.citations = JsonNull \/ MaybeList(f.citations)
    BY <1>2, <1>5, CitationsImproved
<1>11. IsRow(ImproveRow(r))
  <2> HIDE DEF f
  <2> QED BY <1>1, <1>5, <1>8, <1>9, <1>10 DEF IsRow
<1>12. f.word = CleanWord(e.word)
    BY <1>2
<1> QED BY <1>1, <1>3, <1>4, <1>11, <1>12

(* improve-entries leaves the row of a cleaned entry alone: the two        *)
(* copies of the cleaning code agree.                                      *)
LEMMA CleanSettles ==
    ASSUME NoneIsApart, NEW u, IsUnified(u), IsClean(u.entry), NoneRepeated(u.entry.meanings)
    PROVE  ImproveRow(Row(u)) = Row(u)
<1> DEFINE r == Row(u)
           e == r.entry
<1>1. IsRow(r)
    BY RowIsRow
<1>2. /\ e.word = u.entry.word /\ e.meanings = u.entry.meanings
      /\ e.phraseology = u.entry.phraseology /\ e.citations = u.entry.citations
      /\ e.info["styleLabel"] = u.entry.info["styleLabel"]
  <2>1. u.entry.info = [g \in Scalar |-> u.entry.info[g]] /\ "styleLabel" \in Scalar
      BY DEF IsUnified, IsEntry, Scalar
  <2>2. e = [u.entry EXCEPT !.info["entryType"] = IF @ = None THEN "standard" ELSE @]
      BY DEF Row
  <2>3. u.entry = [word |-> u.entry.word, homonym |-> u.entry.homonym, info |-> u.entry.info,
                   grammar |-> u.entry.grammar, meanings |-> u.entry.meanings,
                   phraseology |-> u.entry.phraseology, citations |-> u.entry.citations]
      BY DEF IsUnified, IsEntry
  <2> HIDE DEF e
  <2> QED BY <2>1, <2>2, <2>3
<1>3. /\ CleanWord(e.word) = e.word
      /\ \A m \in Range(e.meanings) : HasText(m) /\ RowMeaning(m) = m
      /\ NormalizeStyle(e.info["styleLabel"]) = e.info["styleLabel"]
      /\ \A p \in Items(e.phraseology) : IsWhole(p)
      /\ \A c \in Items(e.citations) : IsCitation(c)
      /\ NoneRepeated(e.meanings)
    BY <1>2 DEF IsClean
<1>4. /\ IsEntry(e) /\ MaybeList(e.phraseology) /\ MaybeList(e.citations)
    BY <1>1, <1>2 DEF IsRow, IsUnified, HasLists
<1> HIDE DEF e, r
<1>5. ImprovedMeanings(e) = e.meanings
  <2>1. IsList(e.meanings)
      BY <1>4 DEF IsEntry
  <2>2. {m \in Range(e.meanings) : HasText(m)} = Range(e.meanings)
      BY <1>3
  <2>3. FirstOfEach(Those(e.meanings, Range(e.meanings))) = e.meanings
      BY <1>3, <2>1, ThoseAll, FirstOfEachAll
  <2>4. ImprovedMeanings(e) = [i \in DOMAIN e.meanings |-> RowMeaning(e.meanings[i])]
      BY <2>2, <2>3 DEF ImprovedMeanings
  <2>5. \A i \in DOMAIN e.meanings : RowMeaning(e.meanings[i]) = e.meanings[i]
      BY <1>3 DEF Range
  <2>6. e.meanings = [i \in DOMAIN e.meanings |-> e.meanings[i]]
      BY <2>1, ListIsSeq DEF IsList
  <2> QED BY <2>4, <2>5, <2>6
<1>6. RowList(e.phraseology, WholePhrases(e)) = e.phraseology
  <2>1. CASE e.phraseology \in {None, JsonNull}
      BY <2>1 DEF RowList
  <2>2. CASE e.phraseology \notin {None, JsonNull}
    <3>1. IsList(e.phraseology)
        BY <1>4, <2>2 DEF MaybeList
    <3>2. {x \in Range(e.phraseology) : IsWhole(x)} = Range(e.phraseology)
        BY <1>3, <3>1, ItemsOfList
    <3>3. WholePhrases(e) = e.phraseology
        BY <2>2, <3>1, <3>2, ThoseAll DEF WholePhrases
    <3> QED BY <3>3 DEF RowList
  <2> QED BY <2>1, <2>2
<1>7. ImprovedCitations(e) = e.citations
  <2>1. CASE e.citations \in {None, JsonNull}
      BY <2>1 DEF ImprovedCitations, RealCitations
  <2>2. CASE e.citations \notin {None, JsonNull}
    <3>1. IsList(e.citations)
        BY <1>4, <2>2 DEF MaybeList
    <3>2. {x \in Range(e.citations) : IsCitation(x)} = Range(e.citations)
        BY <1>3, <3>1, ItemsOfList
    <3>3. RealCitations(e) = e.citations
        BY <2>2, <3>1, <3>2, ThoseAll DEF RealCitations
    <3> QED BY <3>3 DEF ImprovedCitations
  <2> QED BY <2>1, <2>2
<1>8. [e.info EXCEPT !["styleLabel"] = NormalizeStyle(@)] = e.info
  <2>1. e.info = [g \in Scalar |-> e.info[g]]
      BY <1>4 DEF IsEntry
  <2> QED BY <1>3, <2>1
<1>9. ImprovedEntry(e) = e
    BY <1>3, <1>4, <1>5, <1>6, <1>7, <1>8 DEF ImprovedEntry, IsEntry
<1>10. ImproveRow(r) = [entry |-> e, norm |-> r.norm, cefr |-> r.cefr, sources |-> r.sources]
    BY <1>1, <1>3, <1>9, ImproveRowIs DEF e
<1>11. r = [entry |-> e, norm |-> r.norm, cefr |-> r.cefr, sources |-> r.sources]
    BY <1>1 DEF IsRow, e
<1> QED BY <1>10, <1>11 DEF r

=============================================================================
