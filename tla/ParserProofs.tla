----------------------------- MODULE ParserProofs -----------------------------
(* That the parsers make entries of articles, and that cleaning an         *)
(* original changes nothing of what is parsed from it. First what the      *)
(* loops on lists return, then the articles of each dictionary.            *)
EXTENDS EntryFlow, TLAPS, FiniteSetTheorems

----------------------------------------------------------------------------
(* Lists. *)

(* Array.filter is a fold whose step is a named operator. *)
KeepIn(keep, sofar, x) == IF x \in keep THEN Append(sofar, x) ELSE sofar
Keeping == INSTANCE FoldLemmas WITH Op <- KeepIn

(* Every list is a sequence of its elements. *)
LEMMA ListIsSeq ==
    ASSUME NEW s, IsList(s)
    PROVE  s \in Seq(Range(s)) /\ DOMAIN s = 1 .. Len(s) /\ Len(s) \in Nat
BY DEF IsList, Range

(* Every sequence is a list. *)
LEMMA SeqIsList ==
    ASSUME NEW S, NEW s \in Seq(S)
    PROVE  IsList(s) /\ Range(s) \subseteq S
BY DEF IsList, Range

(* The empty sequence is a list of nothing. *)
LEMMA EmptyIsList == IsList(<<>>) /\ Range(<<>>) = {}
BY DEF IsList, Range

(* Append makes a list of a list, longer by x. *)
LEMMA AppendIsList ==
    ASSUME NEW s, NEW x, IsList(s)
    PROVE  /\ IsList(Append(s, x))
           /\ Len(Append(s, x)) = Len(s) + 1
           /\ \A i \in 1 .. Len(s) : Append(s, x)[i] = s[i]
           /\ Append(s, x)[Len(s) + 1] = x
           /\ Range(Append(s, x)) = Range(s) \cup {x}
           /\ Append(s, x) # <<>>
<1> DEFINE S == Range(s) \cup {x}
<1>1. s \in Seq(S) /\ x \in S /\ DOMAIN s = 1 .. Len(s) /\ Len(s) \in Nat
    BY ListIsSeq
<1>2. Append(s, x) \in Seq(S)
    BY <1>1
<1>3. Len(Append(s, x)) = Len(s) + 1
    BY <1>1
<1>4. \A i \in 1 .. Len(s) : Append(s, x)[i] = s[i]
    BY <1>1
<1>5. Append(s, x)[Len(s) + 1] = x
    BY <1>1
<1>6. DOMAIN Append(s, x) = 1 .. Len(s) + 1
    BY <1>1, <1>2, <1>3
<1>7. Range(Append(s, x)) = Range(s) \cup {x}
  <2> HIDE DEF S
  <2>1. \A i \in 1 .. Len(s) + 1 : i \in 1 .. Len(s) \/ i = Len(s) + 1
      BY <1>1
  <2>2. \A i \in 1 .. Len(s) : i \in 1 .. Len(s) + 1
      BY <1>1
  <2>3. Len(s) + 1 \in 1 .. Len(s) + 1
      BY <1>1
  <2> QED BY <1>1, <1>4, <1>5, <1>6, <2>1, <2>2, <2>3 DEF Range
<1>8. Append(s, x) # <<>>
    BY <1>1, <1>3
<1> QED BY <1>1, <1>2, <1>3, <1>4, <1>5, <1>7, <1>8, SeqIsList

(* A function on 1 .. n is a list. *)
LEMMA FunctionIsList ==
    ASSUME NEW n \in Nat, NEW f, f = [i \in 1 .. n |-> f[i]]
    PROVE  IsList(f) /\ Len(f) = n
<1>1. f \in [1 .. n -> {f[i] : i \in 1 .. n}]
    OBVIOUS
<1>2. f \in Seq({f[i] : i \in 1 .. n}) /\ Len(f) = n
    BY <1>1
<1> QED BY <1>2, SeqIsList

(* Array.filter is the fold of KeepIn. *)
LEMMA ThoseIsFold ==
    \A s, keep : Those(s, keep) = Keeping!FoldFrom(keep, <<>>, s)
BY DEF Those, KeepIn, Keeping!FoldFrom, FoldLeft, Keeping!FoldLeft,
       MapThenFoldSet, Keeping!MapThenFoldSet, Max, Keeping!Max

(* It returns a list of the elements that pass, and of no others. *)
LEMMA ThoseIsList ==
    ASSUME NEW s, NEW keep, IsList(s)
    PROVE  /\ IsList(Those(s, keep))
           /\ Range(Those(s, keep)) = Range(s) \cap keep
<1>1. Len(s) \in Nat /\ DOMAIN s = 1 .. Len(s)
    BY ListIsSeq
<1>2. PICK r : /\ Keeping!IsRun(r, keep, <<>>, s, Len(s))
               /\ Keeping!FoldFrom(keep, <<>>, s) = r[Len(s)]
    BY <1>1, Keeping!FoldRuns
<1> DEFINE T == {i \in 0 .. Len(s) :
                    /\ IsList(r[i])
                    /\ Range(r[i]) = {s[j] : j \in 1 .. i} \cap keep}
<1>3. 0 \in T
    BY <1>1, <1>2, EmptyIsList DEF Keeping!IsRun
<1>4. ASSUME NEW i \in 1 .. Len(s), i - 1 \in T PROVE i \in T
  <2>1. r[i] = KeepIn(keep, r[i - 1], s[i])
      BY <1>2 DEF Keeping!IsRun
  <2>2. {s[j] : j \in 1 .. i} = {s[j] : j \in 1 .. i - 1} \cup {s[i]}
    <3>1. 1 .. i = (1 .. i - 1) \cup {i}
        BY <1>1
    <3> QED BY <3>1
  <2>3. IsList(r[i - 1]) /\ Range(r[i - 1]) = {s[j] : j \in 1 .. i - 1} \cap keep
      BY <1>4
  <2>4. CASE s[i] \in keep
    <3>1. r[i] = Append(r[i - 1], s[i])
        BY <2>1, <2>4 DEF KeepIn
    <3>2. IsList(r[i]) /\ Range(r[i]) = Range(r[i - 1]) \cup {s[i]}
        BY <2>3, <3>1, AppendIsList
    <3> QED BY <1>1, <2>2, <2>3, <2>4, <3>2
  <2>5. CASE s[i] \notin keep
    <3>1. r[i] = r[i - 1]
        BY <2>1, <2>5 DEF KeepIn
    <3> QED BY <1>1, <2>2, <2>3, <2>5, <3>1
  <2> QED BY <2>4, <2>5
<1>5. Len(s) \in T
  <2> HIDE DEF T
  <2>1. \A i \in 0 .. Len(s) : i \in T
      BY <1>1, <1>3, <1>4, Keeping!UpTo
  <2> QED BY <1>1, <2>1
<1>6. Range(s) = {s[j] : j \in 1 .. Len(s)}
    BY <1>1 DEF Range
<1> QED BY <1>2, <1>5, <1>6, ThoseIsFold

(* Lists that are equal everywhere are equal. *)
LEMMA SameLists ==
    ASSUME NEW s, NEW t, IsList(s), IsList(t), Len(s) = Len(t),
           \A i \in 1 .. Len(s) : s[i] = t[i]
    PROVE  s = t
BY DEF IsList

(* A list whose elements all pass is returned as it is. *)
LEMMA ThoseAll ==
    ASSUME NEW s, NEW keep, IsList(s), Range(s) \subseteq keep
    PROVE  Those(s, keep) = s
<1>1. Len(s) \in Nat /\ DOMAIN s = 1 .. Len(s)
    BY ListIsSeq
<1>2. PICK r : /\ Keeping!IsRun(r, keep, <<>>, s, Len(s))
               /\ Keeping!FoldFrom(keep, <<>>, s) = r[Len(s)]
    BY <1>1, Keeping!FoldRuns
<1> DEFINE T == {i \in 0 .. Len(s) :
                    /\ IsList(r[i]) /\ Len(r[i]) = i
                    /\ \A j \in 1 .. i : r[i][j] = s[j]}
<1>3. 0 \in T
    BY <1>1, <1>2, EmptyIsList DEF Keeping!IsRun
<1>4. ASSUME NEW i \in 1 .. Len(s), i - 1 \in T PROVE i \in T
  <2>1. s[i] \in keep
      BY <1>1 DEF Range
  <2>2. r[i] = Append(r[i - 1], s[i])
      BY <1>2, <2>1 DEF Keeping!IsRun, KeepIn
  <2>3. /\ IsList(r[i - 1]) /\ Len(r[i - 1]) = i - 1
        /\ \A j \in 1 .. i - 1 : r[i - 1][j] = s[j]
      BY <1>4
  <2>4. /\ IsList(r[i]) /\ Len(r[i]) = (i - 1) + 1
        /\ \A j \in 1 .. i - 1 : r[i][j] = r[i - 1][j]
        /\ r[i][(i - 1) + 1] = s[i]
      BY <2>2, <2>3, AppendIsList
  <2>5. ASSUME NEW j \in 1 .. i PROVE r[i][j] = s[j]
    <3>1. j \in 1 .. i - 1 \/ (j = i /\ i = (i - 1) + 1)
        OBVIOUS
    <3> QED BY <2>3, <2>4, <3>1
  <2> QED BY <1>1, <2>4, <2>5
<1>5. Len(s) \in T
  <2> HIDE DEF T
  <2>1. \A i \in 0 .. Len(s) : i \in T
      BY <1>1, <1>3, <1>4, Keeping!UpTo
  <2> QED BY <1>1, <2>1
<1>6. r[Len(s)] = s
    BY <1>5, SameLists
<1> QED BY <1>2, <1>6, ThoseIsFold

(* The minimum of a set of natural numbers is one of its elements. *)
LEMMA MinOf ==
    ASSUME NEW S \in SUBSET Nat, S # {}
    PROVE  Min(S) \in S
<1>1. \E n \in S : \A m \in S : n <= m
    BY Keeping!LeastNat
<1> QED BY <1>1 DEF Min

(* A list behind a list is a list of what both have. *)
LEMMA ConcatIsList ==
    ASSUME NEW s, NEW t, IsList(s), IsList(t)
    PROVE  IsList(s \o t) /\ Range(s \o t) = Range(s) \cup Range(t)
<1> DEFINE S == Range(s) \cup Range(t)
<1>1. /\ s \in Seq(Range(s)) /\ DOMAIN s = 1 .. Len(s) /\ Len(s) \in Nat
      /\ t \in Seq(Range(t)) /\ DOMAIN t = 1 .. Len(t) /\ Len(t) \in Nat
    BY ListIsSeq
<1>2. s \in Seq(S) /\ t \in Seq(S)
    BY <1>1
<1> HIDE DEF S
<1>3. s \o t \in Seq(S) /\ Len(s \o t) = Len(s) + Len(t)
    BY <1>2
<1>4. IsList(s \o t) /\ Range(s \o t) \subseteq S
    BY <1>3, SeqIsList
<1>5. DOMAIN (s \o t) = 1 .. Len(s) + Len(t)
    BY <1>3
<1>6. \A i \in 1 .. Len(s) : (s \o t)[i] = s[i]
    BY <1>1, <1>2
<1>7. ASSUME NEW j \in 1 .. Len(t) PROVE (s \o t)[Len(s) + j] = t[j]
  <2>1. Len(s) + j \in 1 .. Len(s) + Len(t) /\ ~(Len(s) + j <= Len(s))
      BY <1>1
  <2>2. (Len(s) + j) - Len(s) = j
      BY <1>1
  <2> QED BY <1>1, <1>2, <2>1, <2>2
<1>8. Range(s) \subseteq Range(s \o t)
  <2>1. \A i \in 1 .. Len(s) : i \in 1 .. Len(s) + Len(t)
      BY <1>1
  <2> QED BY <1>1, <1>5, <1>6, <2>1 DEF Range
<1>9. Range(t) \subseteq Range(s \o t)
  <2>1. \A j \in 1 .. Len(t) : Len(s) + j \in 1 .. Len(s) + Len(t)
      BY <1>1
  <2> QED BY <1>1, <1>5, <1>7, <2>1 DEF Range
<1> QED BY <1>4, <1>8, <1>9 DEF S

(* One value is a list. *)
LEMMA OneIsList ==
    ASSUME NEW x
    PROVE  IsList(<<x>>) /\ Range(<<x>>) = {x} /\ Head(<<x>>) = x
<1>1. <<x>> \in Seq({x}) /\ Len(<<x>>) = 1 /\ <<x>>[1] = x /\ Head(<<x>>) = x
    OBVIOUS
<1>2. IsList(<<x>>)
    BY <1>1, SeqIsList
<1>3. Range(<<x>>) = {x}
    BY DEF Range
<1> QED BY <1>1, <1>2, <1>3

----------------------------------------------------------------------------
(* Appending what is new. *)

(* r is a run that appends to t the elements of s whose key k is new. *)
AppendsNew(r, k, t, s) ==
    /\ r[0] = t
    /\ \A i \in 1 .. Len(s) :
           r[i] = IF \E y \in Range(r[i - 1]) : k[y] = k[s[i]] THEN r[i - 1]
                  ELSE Append(r[i - 1], s[i])

(* Such a run keeps what there was in t, adds only elements of s, and      *)
(* ends with an element for every key of s.                                *)
LEMMA AppendRun ==
    ASSUME NEW t, NEW s, NEW k, NEW r, IsList(t), IsList(s), AppendsNew(r, k, t, s)
    PROVE  /\ IsList(r[Len(s)]) /\ Len(t) <= Len(r[Len(s)])
           /\ Range(t) \subseteq Range(r[Len(s)])
           /\ Range(r[Len(s)]) \subseteq Range(t) \cup Range(s)
           /\ \A x \in Range(s) : \E y \in Range(r[Len(s)]) : k[y] = k[x]
<1>1. Len(s) \in Nat /\ DOMAIN s = 1 .. Len(s) /\ Len(t) \in Nat
    BY ListIsSeq
<1> DEFINE T == {i \in 0 .. Len(s) :
                    /\ IsList(r[i]) /\ Len(t) <= Len(r[i])
                    /\ Range(t) \subseteq Range(r[i])
                    /\ Range(r[i]) \subseteq Range(t) \cup Range(s)
                    /\ \A j \in 1 .. i : \E y \in Range(r[i]) : k[y] = k[s[j]]}
<1>2. 0 \in T
    BY <1>1 DEF AppendsNew
<1>3. ASSUME NEW i \in 1 .. Len(s), i - 1 \in T PROVE i \in T
  <2>1. /\ IsList(r[i - 1]) /\ Len(t) <= Len(r[i - 1])
        /\ Range(t) \subseteq Range(r[i - 1])
        /\ Range(r[i - 1]) \subseteq Range(t) \cup Range(s)
        /\ \A j \in 1 .. i - 1 : \E y \in Range(r[i - 1]) : k[y] = k[s[j]]
      BY <1>3
  <2>2. s[i] \in Range(s)
      BY <1>1 DEF Range
  <2>3. \A j \in 1 .. i : j \in 1 .. i - 1 \/ j = i
      OBVIOUS
  <2>4. CASE \E y \in Range(r[i - 1]) : k[y] = k[s[i]]
    <3>1. r[i] = r[i - 1]
        BY <2>4 DEF AppendsNew
    <3> QED BY <1>1, <2>1, <2>3, <2>4, <3>1
  <2>5. CASE ~\E y \in Range(r[i - 1]) : k[y] = k[s[i]]
    <3>1. r[i] = Append(r[i - 1], s[i])
        BY <2>5 DEF AppendsNew
    <3>2. /\ IsList(r[i]) /\ Len(r[i]) = Len(r[i - 1]) + 1
          /\ Range(r[i]) = Range(r[i - 1]) \cup {s[i]}
        BY <2>1, <3>1, AppendIsList
    <3>3. Len(r[i - 1]) \in Nat
        BY <2>1, ListIsSeq
    <3>4. Len(t) <= Len(r[i])
        BY <1>1, <2>1, <3>2, <3>3
    <3>5. \A j \in 1 .. i : \E y \in Range(r[i]) : k[y] = k[s[j]]
        BY <2>1, <2>3, <3>2
    <3> QED BY <1>1, <2>1, <2>2, <3>2, <3>4, <3>5
  <2> QED BY <2>4, <2>5
<1>4. Len(s) \in T
  <2> HIDE DEF T
  <2>1. \A i \in 0 .. Len(s) : i \in T
      BY <1>1, <1>2, <1>3, Keeping!UpTo
  <2> QED BY <1>1, <2>1
<1>5. \A x \in Range(s) : \E j \in 1 .. Len(s) : x = s[j]
    BY <1>1 DEF Range
<1> QED BY <1>4, <1>5

----------------------------------------------------------------------------
(* Absent fields. *)

(* None, the value of a field that is absent, is not a list, not a         *)
(* record of forms, and none of the words it is compared with or           *)
(* replaced by. No value TLC can give it makes it evaluate the first       *)
(* two; they are hypotheses of the theorems.                               *)
NoneIsApart ==
    /\ ~IsList(None)
    /\ None # [g \in GrammarSlot |-> None[g]]
    /\ None \notin {"neologism", "suS.", "gl.", "pril.", "nareC."}

(* The items of a list are its elements: it is not None. *)
LEMMA ItemsOfList ==
    ASSUME NoneIsApart, NEW s, IsList(s)
    PROVE  Items(s) = Range(s)
BY DEF NoneIsApart, Items

(* The items of a list that may be absent. *)
LEMMA ItemsOfLists ==
    ASSUME NoneIsApart, NEW s, MaybeList(s)
    PROVE  /\ s = None => Items(s) = {}
           /\ s # None => IsList(s) /\ Items(s) = Range(s)
BY DEF Items, MaybeList

(* Where both have a field the first wins, and where either has one the    *)
(* result has it.                                                          *)
LEMMA FirstWinsHas ==
    ASSUME NEW S, NEW a, NEW b, a = [f \in S |-> a[f]]
    PROVE  /\ FirstWins(a, b) = [f \in S |-> FirstWins(a, b)[f]]
           /\ \A f \in S : /\ a[f] # None => FirstWins(a, b)[f] # None
                           /\ b[f] # None => FirstWins(a, b)[f] # None
                           /\ a[f] = b[f] => FirstWins(a, b)[f] = a[f]
<1>1. DOMAIN a = S
    OBVIOUS
<1> QED BY <1>1 DEF FirstWins

----------------------------------------------------------------------------
(* Cleaning and sorting an original. *)

(* Sorting inserts one article after the other. *)
InsertIn(c, sofar, x) == InsertById(sofar, x)
Inserting == INSTANCE FoldLemmas WITH Op <- InsertIn

(* What sorting makes of a list. *)
InsertAll(s) == FoldLeft(InsertById, <<>>, s)

(* Inserting an article adds it and loses none. *)
LEMMA InsertByIdRange ==
    ASSUME NEW s, NEW x, IsList(s)
    PROVE  IsList(InsertById(s, x)) /\ Range(InsertById(s, x)) = Range(s) \cup {x}
<1> DEFINE low == {y \in Range(s) : y.id <= x.id}
           high == {y \in Range(s) : ~(y.id <= x.id)}
<1>1. InsertById(s, x) = Append(Those(s, low), x) \o Those(s, high)
    BY DEF InsertById, Filter
<1>2. (Range(s) \cap low) \cup (Range(s) \cap high) = Range(s)
    OBVIOUS
<1> HIDE DEF low, high
<1>3. /\ IsList(Those(s, low)) /\ Range(Those(s, low)) = Range(s) \cap low
      /\ IsList(Those(s, high)) /\ Range(Those(s, high)) = Range(s) \cap high
    BY ThoseIsList
<1>4. /\ IsList(Append(Those(s, low), x))
      /\ Range(Append(Those(s, low), x)) = Range(Those(s, low)) \cup {x}
    BY <1>3, AppendIsList
<1>5. /\ IsList(InsertById(s, x))
      /\ Range(InsertById(s, x)) = Range(Append(Those(s, low), x)) \cup Range(Those(s, high))
    BY <1>1, <1>3, <1>4, ConcatIsList
<1> QED BY <1>2, <1>3, <1>4, <1>5

(* Sorting loses nothing and adds nothing. *)
LEMMA InsertAllRange ==
    ASSUME NEW s, IsList(s)
    PROVE  IsList(InsertAll(s)) /\ Range(InsertAll(s)) = Range(s)
<1>1. Len(s) \in Nat /\ DOMAIN s = 1 .. Len(s)
    BY ListIsSeq
<1>2. InsertAll(s) = Inserting!FoldFrom({}, <<>>, s)
    BY DEF InsertAll, Inserting!FoldFrom, FoldLeft, Inserting!FoldLeft,
           MapThenFoldSet, Inserting!MapThenFoldSet, InsertIn, Max, Inserting!Max
<1>3. PICK r : Inserting!IsRun(r, {}, <<>>, s, Len(s)) /\ InsertAll(s) = r[Len(s)]
    BY <1>1, <1>2, Inserting!FoldRuns
<1> DEFINE T == {i \in 0 .. Len(s) : IsList(r[i]) /\ Range(r[i]) = {s[j] : j \in 1 .. i}}
<1>4. 0 \in T
    BY <1>1, <1>3, EmptyIsList DEF Inserting!IsRun
<1>5. ASSUME NEW i \in 1 .. Len(s), i - 1 \in T PROVE i \in T
  <2>1. r[i] = InsertById(r[i - 1], s[i])
      BY <1>3 DEF Inserting!IsRun, InsertIn
  <2>2. {s[j] : j \in 1 .. i} = {s[j] : j \in 1 .. i - 1} \cup {s[i]}
    <3>1. 1 .. i = (1 .. i - 1) \cup {i}
        BY <1>1
    <3> QED BY <3>1
  <2>3. IsList(r[i - 1]) /\ Range(r[i - 1]) = {s[j] : j \in 1 .. i - 1}
      BY <1>5
  <2>4. IsList(r[i]) /\ Range(r[i]) = Range(r[i - 1]) \cup {s[i]}
      BY <2>1, <2>3, InsertByIdRange
  <2> QED BY <1>1, <2>2, <2>3, <2>4
<1>6. Len(s) \in T
  <2> HIDE DEF T
  <2>1. \A i \in 0 .. Len(s) : i \in T
      BY <1>1, <1>4, <1>5, Keeping!UpTo
  <2> QED BY <1>1, <2>1
<1>7. Range(s) = {s[j] : j \in 1 .. Len(s)}
    BY <1>1 DEF Range
<1> QED BY <1>3, <1>6, <1>7

(* dedup keeps an article if no earlier one has its key. *)
NewArticleIn(c, sofar, x) ==
    IF \E y \in Range(sofar) : ArticleKey(y) = ArticleKey(x) THEN sofar
    ELSE Append(sofar, x)
Articles == INSTANCE FoldLemmas WITH Op <- NewArticleIn

(* No two articles have the same key. *)
OneArticleEach(S) == \A x, y \in S : ArticleKey(x) = ArticleKey(y) => x = y

(* t has one article for each key of the first i articles of s. *)
FirstsOf(t, s, i) ==
    /\ IsList(t) /\ Range(t) \subseteq Range(s) /\ OneArticleEach(Range(t))
    /\ \A j \in 1 .. i : \E y \in Range(t) : ArticleKey(y) = ArticleKey(s[j])

(* dedup keeps one article of every key. *)
LEMMA DedupKeeps ==
    ASSUME NEW s, IsList(s)
    PROVE  /\ IsList(Dedup(s)) /\ Range(Dedup(s)) \subseteq Range(s)
           /\ OneArticleEach(Range(Dedup(s)))
           /\ \A x \in Range(s) : \E y \in Range(Dedup(s)) : ArticleKey(y) = ArticleKey(x)
<1>1. Len(s) \in Nat /\ DOMAIN s = 1 .. Len(s)
    BY ListIsSeq
<1>2. Dedup(s) = Articles!FoldFrom({}, <<>>, s)
    BY DEF Dedup, AppendNew, Articles!FoldFrom, FoldLeft, Articles!FoldLeft,
           MapThenFoldSet, Articles!MapThenFoldSet, NewArticleIn, Max, Articles!Max
<1>3. PICK r : Articles!IsRun(r, {}, <<>>, s, Len(s)) /\ Dedup(s) = r[Len(s)]
    BY <1>1, <1>2, Articles!FoldRuns
<1> DEFINE T == {i \in 0 .. Len(s) : FirstsOf(r[i], s, i)}
<1>4. 0 \in T
  <2>1. r[0] = <<>>
      BY <1>3 DEF Articles!IsRun
  <2> QED BY <1>1, <2>1, EmptyIsList DEF OneArticleEach, FirstsOf
<1>5. ASSUME NEW i \in 1 .. Len(s), i - 1 \in T PROVE i \in T
  <2>1. /\ IsList(r[i - 1]) /\ Range(r[i - 1]) \subseteq Range(s)
        /\ OneArticleEach(Range(r[i - 1]))
        /\ \A j \in 1 .. i - 1 : \E y \in Range(r[i - 1]) : ArticleKey(y) = ArticleKey(s[j])
      BY <1>5 DEF FirstsOf
  <2>2. s[i] \in Range(s)
      BY <1>1 DEF Range
  <2>3. \A j \in 1 .. i : j \in 1 .. i - 1 \/ j = i
      OBVIOUS
  <2>4. CASE \E y \in Range(r[i - 1]) : ArticleKey(y) = ArticleKey(s[i])
    <3>1. r[i] = r[i - 1]
        BY <1>3, <2>4 DEF Articles!IsRun, NewArticleIn
    <3>2. FirstsOf(r[i], s, i)
        BY <2>1, <2>3, <2>4, <3>1 DEF FirstsOf
    <3> QED BY <1>1, <3>2
  <2>5. CASE ~\E y \in Range(r[i - 1]) : ArticleKey(y) = ArticleKey(s[i])
    <3>1. r[i] = Append(r[i - 1], s[i])
        BY <1>3, <2>5 DEF Articles!IsRun, NewArticleIn
    <3>2. IsList(r[i]) /\ Range(r[i]) = Range(r[i - 1]) \cup {s[i]}
        BY <2>1, <3>1, AppendIsList
    <3>3. OneArticleEach(Range(r[i]))
        BY <2>1, <2>5, <3>2 DEF OneArticleEach
    <3>4. \A j \in 1 .. i : \E y \in Range(r[i]) : ArticleKey(y) = ArticleKey(s[j])
        BY <2>1, <2>3, <3>2
    <3>5. Range(r[i]) \subseteq Range(s)
        BY <2>1, <2>2, <3>2
    <3>6. FirstsOf(r[i], s, i)
        BY <3>2, <3>3, <3>4, <3>5 DEF FirstsOf
    <3> QED BY <1>1, <3>6
  <2> QED BY <2>4, <2>5
<1>6. Len(s) \in T
  <2> HIDE DEF T
  <2>1. \A i \in 0 .. Len(s) : i \in T
      BY <1>1, <1>4, <1>5, Keeping!UpTo
  <2> QED BY <1>1, <2>1
<1>7. \A x \in Range(s) : \E j \in 1 .. Len(s) : x = s[j]
    BY <1>1 DEF Range
<1> QED BY <1>3, <1>6, <1>7 DEF FirstsOf

(* What dedup keeps of a cleaned original is what it keeps of the          *)
(* original: cleaning keeps one article of each key, and parsing finds     *)
(* no other to drop.                                                       *)
LEMMA CleanedHasSame ==
    ASSUME NEW s, IsList(s)
    PROVE  /\ IsList(DeduplicateAndSort(s)) /\ Range(DeduplicateAndSort(s)) \subseteq Range(s)
           /\ Range(Dedup(DeduplicateAndSort(s))) = Range(Dedup(s))
<1> DEFINE c == DeduplicateAndSort(s)
<1>1. c = InsertAll(Dedup(s))
    BY DEF DeduplicateAndSort, InsertAll
<1>2. /\ IsList(Dedup(s)) /\ Range(Dedup(s)) \subseteq Range(s)
      /\ OneArticleEach(Range(Dedup(s)))
    BY DedupKeeps
<1> HIDE DEF c
<1>3. IsList(c) /\ Range(c) = Range(Dedup(s))
    BY <1>1, <1>2, InsertAllRange
<1>4. /\ Range(Dedup(c)) \subseteq Range(c)
      /\ \A x \in Range(c) : \E y \in Range(Dedup(c)) : ArticleKey(y) = ArticleKey(x)
    BY <1>3, DedupKeeps
<1>5. Range(c) \subseteq Range(Dedup(c))
    BY <1>2, <1>3, <1>4 DEF OneArticleEach
<1> QED BY <1>2, <1>3, <1>4, <1>5 DEF c

----------------------------------------------------------------------------
(* Articles one by one. *)

(* The entries of a list, without the articles that have none. *)
Knowns(all) == Filter(all, Known)

(* All of them, and nothing else. *)
LEMMA KnownsAre ==
    ASSUME NEW s, IsList(s)
    PROVE  IsList(Knowns(s)) /\ Range(Knowns(s)) = Range(s) \ {None}
<1> DEFINE keep == {x \in Range(s) : x # None}
<1>1. Knowns(s) = Those(s, keep)
    BY DEF Knowns, Filter, Known
<1>2. Range(s) \cap keep = Range(s) \ {None}
    OBVIOUS
<1> HIDE DEF keep
<1> QED BY <1>1, <1>2, ThoseIsList

(* The entry of an article, in the dictionaries whose articles are         *)
(* parsed one by one.                                                      *)
ArticleEntry(d, x) ==
    CASE d = "karasaev-maciev-ru-nah" -> KarasaevArticle(x)
      [] d = "daukaev-ru-nah" -> DaukaevArticle(x)
      [] d = "umarhadjiev-ahmatukaev" -> UmarhadjievArticle(x)
      [] d \in {"nah-ru-anatomy", "ru-nah-anatomy"} -> AnatomyArticle(x)
      [] d = "nah-ru-computer" -> ComputerArticle(x)
      [] d = "aslahanov-ru-nah" -> AslahanovArticle(x)

(* Their parsers take the entries of the articles dedup keeps. *)
LEMMA ParsedOneByOne ==
    ASSUME NEW d \in Slug \ (HandWritten \cup IsmailovSlugs), NEW raws
    PROVE  LET D == Dedup(raws)
           IN  ParseDictionary(d, raws) = Knowns([i \in DOMAIN D |-> ArticleEntry(d, D[i])])
<1> DEFINE D == Dedup(raws)
           all == [i \in DOMAIN D |-> ArticleEntry(d, D[i])]
<1> SUFFICES ParseDictionary(d, raws) = Knowns(all)
    OBVIOUS
<1>1. CASE d = "karasaev-maciev-ru-nah"
  <2>1. ParseDictionary(d, raws) = ParseKarasaev(raws)
      BY <1>1 DEF ParseDictionary
  <2>2. \A x : ArticleEntry(d, x) = KarasaevArticle(x)
      BY <1>1 DEF ArticleEntry
  <2> QED BY <2>1, <2>2 DEF ParseKarasaev, ParseEach, Knowns
<1>2. CASE d = "daukaev-ru-nah"
  <2>1. ParseDictionary(d, raws) = ParseDaukaev(raws)
      BY <1>2 DEF ParseDictionary
  <2>2. \A x : ArticleEntry(d, x) = DaukaevArticle(x)
      BY <1>2 DEF ArticleEntry
  <2> QED BY <2>1, <2>2 DEF ParseDaukaev, ParseEach, Knowns
<1>3. CASE d = "umarhadjiev-ahmatukaev"
  <2>1. ParseDictionary(d, raws) = ParseUmarhadjiev(raws)
      BY <1>3 DEF ParseDictionary
  <2>2. \A x : ArticleEntry(d, x) = UmarhadjievArticle(x)
      BY <1>3 DEF ArticleEntry
  <2> QED BY <2>1, <2>2 DEF ParseUmarhadjiev, ParseEach, Knowns
<1>4. CASE d \in {"nah-ru-anatomy", "ru-nah-anatomy"}
  <2>1. ParseDictionary(d, raws) = ParseAnatomy(raws)
      BY <1>4 DEF ParseDictionary
  <2>2. \A x : ArticleEntry(d, x) = AnatomyArticle(x)
      BY <1>4 DEF ArticleEntry
  <2> QED BY <2>1, <2>2 DEF ParseAnatomy, ParseEach, Knowns
<1>5. CASE d = "nah-ru-computer"
  <2>1. ParseDictionary(d, raws) = ParseComputer(raws)
      BY <1>5 DEF ParseDictionary
  <2>2. \A x : ArticleEntry(d, x) = ComputerArticle(x)
      BY <1>5 DEF ArticleEntry
  <2> QED BY <2>1, <2>2 DEF ParseComputer, ParseEach, Knowns
<1>6. CASE d = "aslahanov-ru-nah"
  <2>1. ParseDictionary(d, raws) = ParseAslahanov(raws)
      BY <1>6 DEF ParseDictionary
  <2>2. \A x : ArticleEntry(d, x) = AslahanovArticle(x)
      BY <1>6 DEF ArticleEntry
  <2> QED BY <2>1, <2>2 DEF ParseAslahanov, ParseEach, Knowns
<1> QED BY <1>1, <1>2, <1>3, <1>4, <1>5, <1>6 DEF Slug, HandWritten, IsmailovSlugs

(* So they parse the same entries from originals of which dedup keeps      *)
(* the same.                                                               *)
LEMMA SameEntries ==
    ASSUME NEW d \in Slug \ (HandWritten \cup IsmailovSlugs), NEW a, NEW b, IsList(a), IsList(b),
           Range(Dedup(a)) = Range(Dedup(b))
    PROVE  Range(ParseDictionary(d, a)) = Range(ParseDictionary(d, b))
<1>1. ASSUME NEW raws, IsList(raws)
      PROVE  Range(ParseDictionary(d, raws)) =
                 {ArticleEntry(d, x) : x \in Range(Dedup(raws))} \ {None}
  <2> DEFINE D == Dedup(raws)
             all == [i \in DOMAIN D |-> ArticleEntry(d, D[i])]
  <2>1. ParseDictionary(d, raws) = Knowns(all)
      BY ParsedOneByOne
  <2>2. IsList(D) /\ DOMAIN D = 1 .. Len(D) /\ Len(D) \in Nat
      BY <1>1, DedupKeeps, ListIsSeq
  <2> HIDE DEF D
  <2>3. IsList(all)
    <3>1. all = [i \in 1 .. Len(D) |-> all[i]]
        BY <2>2
    <3> QED BY <2>2, <3>1, FunctionIsList
  <2>4. Range(all) = {ArticleEntry(d, x) : x \in Range(D)}
      BY DEF Range
  <2> HIDE DEF all
  <2> QED BY <2>1, <2>3, <2>4, KnownsAre DEF D
<1> QED BY <1>1

----------------------------------------------------------------------------
(* Texts, meanings and entries. *)

(* A text stays one when its body is replaced or it is made plain. *)
LEMMA PlainText ==
    ASSUME NEW t, NEW body, IsText(t)
    PROVE  /\ IsText(Plain(t)) /\ IsText(Trim(t))
           /\ IsText([t EXCEPT !.body = body]) /\ IsText([t EXCEPT !.body = body, !.pad = FALSE])
<1>1. ASSUME NEW u, IsText(u), NEW b
      PROVE  IsText([u EXCEPT !.body = b]) /\ IsText([u EXCEPT !.pad = b])
    BY <1>1 DEF IsText
<1> DEFINE stripped == [t EXCEPT !.body = StripStressMarks(t.body)]
           other == [t EXCEPT !.body = body]
<1>2. /\ Plain(t) = [stripped EXCEPT !.pad = FALSE] /\ Trim(t) = [t EXCEPT !.pad = FALSE]
      /\ [t EXCEPT !.body = body, !.pad = FALSE] = [other EXCEPT !.pad = FALSE]
    BY DEF Plain, Trim
<1>3. IsText(stripped) /\ IsText(other)
    BY <1>1
<1> HIDE DEF stripped
<1>4. IsText([stripped EXCEPT !.pad = FALSE])
    BY <1>1, <1>3
<1> HIDE DEF other
<1>5. IsText([other EXCEPT !.pad = FALSE]) /\ IsText([t EXCEPT !.pad = FALSE])
    BY <1>1, <1>3
<1> QED BY <1>2, <1>3, <1>4, <1>5 DEF other

(* A list that is there is not empty, if k is 1: the parsers of HandWritten *)
(* leave empty ones, the others do not.                                    *)
Full(k, s) == k = 1 => (s = None \/ s # <<>>)

(* Nothing is asked if k is 0. *)
LEMMA EmptyOrFull == \A s : Full(0, s)
BY DEF Full

(* A meaning as a parser makes it. *)
IsMeaningOf(k, m) == IsMeaning(m) /\ Full(k, m.examples)

(* A text with examples, or without, is a meaning. *)
LEMMA MeaningWithIsMeaning ==
    ASSUME NEW t, NEW note, NEW examples, IsText(t), IsList(examples)
    PROVE  IsMeaningOf(1, MeaningWith(t, note, examples)) /\ IsMeaningOf(1, Meaning(t))
<1>1. /\ MaybeList(SomeOrNone(examples)) /\ Full(1, SomeOrNone(examples))
      /\ MaybeList(None) /\ Full(1, None)
    BY DEF MaybeList, SomeOrNone, Full
<1>2. MeaningWith(t, note, examples) =
          [translation |-> t, note |-> note, examples |-> SomeOrNone(examples)]
  <2> DEFINE m == Meaning(t)
             given == SomeOrNone(examples)
             noted == [m EXCEPT !.note = note]
  <2>1. m = [translation |-> t, note |-> FALSE, examples |-> None]
      BY DEF Meaning
  <2>2. MeaningWith(t, note, examples) = [noted EXCEPT !.examples = given]
      BY DEF MeaningWith
  <2> HIDE DEF m, given
  <2>3. noted = [translation |-> t, note |-> note, examples |-> None]
      BY <2>1
  <2> HIDE DEF noted
  <2>4. [noted EXCEPT !.examples = given] =
            [translation |-> t, note |-> note, examples |-> given]
      BY <2>3
  <2> QED BY <2>2, <2>4 DEF given
<1>3. Meaning(t) = [translation |-> t, note |-> FALSE, examples |-> None]
    BY DEF Meaning
<1> QED BY <1>1, <1>2, <1>3 DEF IsMeaningOf, IsMeaning

(* A list of meanings. *)
IsMeaningsOf(k, ms) == IsList(ms) /\ \A m \in Range(ms) : IsMeaningOf(k, m)

(* A function from the indices of a list to meanings is a list of these. *)
LEMMA EachIsMeaning ==
    ASSUME NEW k, NEW s, IsList(s), NEW f, f = [i \in DOMAIN s |-> f[i]],
           \A i \in DOMAIN s : IsMeaningOf(k, f[i])
    PROVE  IsMeaningsOf(k, f)
<1>1. Len(s) \in Nat /\ DOMAIN s = 1 .. Len(s)
    BY ListIsSeq
<1>2. IsList(f)
    BY <1>1, FunctionIsList
<1> QED BY <1>2 DEF IsMeaningsOf, Range

(* One meaning is a list of meanings. *)
LEMMA OneMeaning ==
    ASSUME NEW k, NEW m, IsMeaningOf(k, m)
    PROVE  IsMeaningsOf(k, <<m>>)
BY OneIsList DEF IsMeaningsOf

(* An entry as a parser makes it, *)
IsParsedEntry(k, e) ==
    /\ IsEntry(e) /\ HasLists(e)
    /\ Full(k, e.phraseology) /\ Full(k, e.citations)
    /\ \A m \in Range(e.meanings) : Full(k, m.examples)

(* and a list of these. *)
IsParsedBy(k, entries) == IsList(entries) /\ \A e \in Range(entries) : IsParsedEntry(k, e)

(* newEntry makes one: every field is there, or None. *)
LEMMA NewEntryIsParsed ==
    ASSUME NEW k, NEW word, NEW fields, NEW meanings, IsMeaningsOf(k, meanings)
    PROVE  /\ IsParsedEntry(k, NewEntry(word, fields, meanings))
           /\ NewEntry(word, fields, meanings).meanings = meanings
<1> DEFINE e == NewEntry(word, fields, meanings)
           p == ParsedEntry(word)
           info == [f \in Scalar |-> IF f \in DOMAIN fields THEN fields[f] ELSE None]
<1>1. info = [f \in Scalar |-> info[f]]
    OBVIOUS
<1>2. e = [p EXCEPT !.info = info, !.meanings = meanings]
    BY DEF NewEntry
<1>3. p = [word |-> word, homonym |-> 0, info |-> NoScalars, grammar |-> None,
           meanings |-> <<>>, phraseology |-> None, citations |-> None]
    BY DEF ParsedEntry
<1> HIDE DEF e, p, info
<1>4. e = [word |-> word, homonym |-> 0, info |-> info, grammar |-> None,
           meanings |-> meanings, phraseology |-> None, citations |-> None]
    BY <1>2, <1>3
<1>5. IsEntry(e)
    BY <1>1, <1>4 DEF IsEntry, IsMeaningsOf, IsMeaningOf
<1>6. HasLists(e)
    BY <1>4 DEF HasLists, MaybeList, Items
<1>7. /\ Full(k, e.phraseology) /\ Full(k, e.citations)
      /\ \A m \in Range(e.meanings) : Full(k, m.examples)
    BY <1>4 DEF Full, IsMeaningsOf, IsMeaningOf
<1> QED BY <1>4, <1>5, <1>6, <1>7 DEF IsParsedEntry, e

(* One with one meaning. *)
LEMMA OfOneMeaning ==
    ASSUME NEW k, NEW word, NEW fields, NEW m, IsMeaningOf(k, m)
    PROVE  IsParsedEntry(k, NewEntry(word, fields, <<m>>))
BY OneMeaning, NewEntryIsParsed

(* It stays one when it is given forms, *)
LEMMA WithFormsIsParsed ==
    ASSUME NEW k, NEW e, NEW g, IsParsedEntry(k, e), g = None \/ IsGrammar(g)
    PROVE  /\ IsParsedEntry(k, WithForms(e, g))
           /\ WithForms(e, g).meanings = e.meanings
<1> DEFINE w == WithForms(e, g)
<1>1. e = [word |-> e.word, homonym |-> e.homonym, info |-> e.info, grammar |-> e.grammar,
           meanings |-> e.meanings, phraseology |-> e.phraseology, citations |-> e.citations]
    BY DEF IsParsedEntry, IsEntry
<1>2. w = [word |-> e.word, homonym |-> e.homonym, info |-> e.info, grammar |-> g,
           meanings |-> e.meanings, phraseology |-> e.phraseology, citations |-> e.citations]
    BY <1>1 DEF WithForms
<1> HIDE DEF w
<1>3. IsEntry(w)
    BY <1>2 DEF IsParsedEntry, IsEntry
<1>4. HasLists(w)
    BY <1>2 DEF IsParsedEntry, HasLists
<1> QED BY <1>2, <1>3, <1>4 DEF IsParsedEntry, w

(* a number and phrases, *)
LEMMA WithPhrasesIsParsed ==
    ASSUME NEW k, NEW e, NEW n, NEW s, IsParsedEntry(k, e), MaybeList(s), Full(k, s)
    PROVE  IsParsedEntry(k, WithPhrases(e, n, s))
<1> DEFINE w == WithPhrases(e, n, s)
<1>1. e = [word |-> e.word, homonym |-> e.homonym, info |-> e.info, grammar |-> e.grammar,
           meanings |-> e.meanings, phraseology |-> e.phraseology, citations |-> e.citations]
    BY DEF IsParsedEntry, IsEntry
<1>2. w = [word |-> e.word, homonym |-> n, info |-> e.info, grammar |-> e.grammar,
           meanings |-> e.meanings, phraseology |-> s, citations |-> e.citations]
  <2> DEFINE numbered == [e EXCEPT !.homonym = n]
  <2>1. numbered = [word |-> e.word, homonym |-> n, info |-> e.info, grammar |-> e.grammar,
                    meanings |-> e.meanings, phraseology |-> e.phraseology,
                    citations |-> e.citations]
      BY <1>1
  <2>2. w = [numbered EXCEPT !.phraseology = s]
      BY DEF WithPhrases
  <2> HIDE DEF numbered, w
  <2> QED BY <2>1, <2>2
<1> HIDE DEF w
<1>3. IsEntry(w)
    BY <1>2 DEF IsParsedEntry, IsEntry
<1>4. HasLists(w)
    BY <1>2 DEF IsParsedEntry, HasLists
<1>5. /\ Full(k, w.phraseology) /\ Full(k, w.citations)
      /\ \A m \in Range(w.meanings) : Full(k, m.examples)
    BY <1>2 DEF IsParsedEntry
<1> QED BY <1>3, <1>4, <1>5 DEF IsParsedEntry, w

(* or another value of a field. *)
LEMMA WithField ==
    ASSUME NEW k, NEW e, NEW f \in Scalar, NEW v, IsParsedEntry(k, e)
    PROVE  IsParsedEntry(k, [e EXCEPT !.info[f] = v])
<1> DEFINE info == [e.info EXCEPT ![f] = v]
           w == [e EXCEPT !.info = info]
<1>1. e = [word |-> e.word, homonym |-> e.homonym, info |-> e.info, grammar |-> e.grammar,
           meanings |-> e.meanings, phraseology |-> e.phraseology, citations |-> e.citations]
    BY DEF IsParsedEntry, IsEntry
<1>2. [e EXCEPT !.info[f] = v] = w
    OBVIOUS
<1>3. info = [x \in Scalar |-> info[x]]
  <2>1. e.info = [x \in Scalar |-> e.info[x]]
      BY DEF IsParsedEntry, IsEntry
  <2> QED BY <2>1
<1> HIDE DEF info
<1>4. w = [word |-> e.word, homonym |-> e.homonym, info |-> info, grammar |-> e.grammar,
           meanings |-> e.meanings, phraseology |-> e.phraseology, citations |-> e.citations]
    BY <1>1
<1> HIDE DEF w
<1>5. IsEntry(w)
    BY <1>3, <1>4 DEF IsParsedEntry, IsEntry
<1>6. HasLists(w)
    BY <1>4 DEF IsParsedEntry, HasLists
<1> QED BY <1>2, <1>5, <1>6 DEF IsParsedEntry

(* The forms parsers find are forms of a grammar, without its type, *)
LEMMA GrammarOfIsGrammar ==
    ASSUME NEW plural, NEW forms
    PROVE  IsGrammar(GrammarOf(plural, forms))
<1> DEFINE g == GrammarOf(plural, forms)
<1>1. "declensionType" \in GrammarSlot
    BY DEF GrammarSlot
<1>2. "declensionType" \notin DOMAIN ObliqueForms(forms)
    BY DEF ObliqueForms, Range
<1>3. g = [s \in GrammarSlot |-> g[s]]
    BY DEF GrammarOf
<1>4. g["declensionType"] = None
    BY <1>1, <1>2 DEF GrammarOf
<1> HIDE DEF g
<1> QED BY <1>3, <1>4 DEF IsGrammar, g

(* and so is a plural alone, if there is one. *)
LEMMA PluralOnlyIsGrammar ==
    ASSUME NEW plural
    PROVE  PluralOnly(plural) = None \/ IsGrammar(PluralOnly(plural))
<1> DEFINE g == [NoGrammar EXCEPT !["plural"] = plural]
<1>1. "declensionType" \in GrammarSlot /\ NoGrammar = [s \in GrammarSlot |-> None]
    BY DEF GrammarSlot, NoGrammar
<1>2. g = [s \in GrammarSlot |-> g[s]] /\ g["declensionType"] = None
    BY <1>1
<1> HIDE DEF g
<1>3. IsGrammar(g)
    BY <1>2 DEF IsGrammar
<1> QED BY <1>3 DEF PluralOnly, g

----------------------------------------------------------------------------
(* The article of each dictionary.                                         *)

(* appendNew by the Chechen side of an example, *)
NewSideIn(c, sofar, x) ==
    IF \E y \in Range(sofar) : NahSide(y) = NahSide(x) THEN sofar ELSE Append(sofar, x)
Sides == INSTANCE FoldLemmas WITH Op <- NewSideIn

(* and the loop that collects the examples of all segments. *)
PairsIn(c, sofar, x) == sofar \o x.pairs
Pairs == INSTANCE FoldLemmas WITH Op <- PairsIn

(* Examples with new sides make a list longer. *)
LEMMA SidesAreList ==
    ASSUME NEW t, NEW s, IsList(t), IsList(s)
    PROVE  IsList(AppendNew(NahSide, t, s))
<1> DEFINE all == AppendNew(NahSide, t, s)
<1>1. Len(s) \in Nat /\ DOMAIN s = 1 .. Len(s)
    BY ListIsSeq
<1>2. all = Sides!FoldFrom({}, t, s)
    BY DEF AppendNew, Sides!FoldFrom, FoldLeft, Sides!FoldLeft,
           MapThenFoldSet, Sides!MapThenFoldSet, NewSideIn, Max, Sides!Max
<1> HIDE DEF all
<1>3. PICK r : Sides!IsRun(r, {}, t, s, Len(s)) /\ all = r[Len(s)]
    BY <1>1, <1>2, Sides!FoldRuns
<1> DEFINE T == {i \in 0 .. Len(s) : IsList(r[i])}
<1>4. 0 \in T
    BY <1>1, <1>3 DEF Sides!IsRun
<1>5. ASSUME NEW i \in 1 .. Len(s), i - 1 \in T PROVE i \in T
  <2>1. r[i] = r[i - 1] \/ r[i] = Append(r[i - 1], s[i])
      BY <1>3 DEF Sides!IsRun, NewSideIn
  <2>2. IsList(r[i - 1])
      BY <1>5
  <2>3. IsList(Append(r[i - 1], s[i]))
      BY <2>2, AppendIsList
  <2>4. IsList(r[i])
      BY <2>1, <2>2, <2>3
  <2> QED BY <1>1, <2>4
<1>6. Len(s) \in T
  <2> HIDE DEF T
  <2>1. \A i \in 0 .. Len(s) : i \in T
      BY <1>1, <1>4, <1>5, Keeping!UpTo
  <2> QED BY <1>1, <2>1
<1> QED BY <1>3, <1>6 DEF all

(* The examples with a dash are a list. *)
LEMMA DashExamplesAreList ==
    ASSUME NEW pairs, IsList(pairs)
    PROVE  IsList(ExtractDashExamples(pairs))
<1>1. PICK keep, in, out :
          LET full == Those(pairs, keep)
              first == Those(full, in)
              second == Those(full, out)
          IN  ExtractDashExamples(pairs) =
                  AppendNew(NahSide,
                            [i \in DOMAIN first |-> Phrase(first[i].nah, first[i].ru)],
                            [i \in DOMAIN second |-> Phrase(second[i].nah, second[i].ru)])
    BY DEF ExtractDashExamples, Filter, Each
<1> DEFINE full == Those(pairs, keep)
           first == Those(full, in)
           second == Those(full, out)
           a == [i \in DOMAIN first |-> Phrase(first[i].nah, first[i].ru)]
           b == [i \in DOMAIN second |-> Phrase(second[i].nah, second[i].ru)]
<1>2. ExtractDashExamples(pairs) = AppendNew(NahSide, a, b)
    BY <1>1
<1>3. IsList(full)
    BY ThoseIsList
<1> HIDE DEF full
<1>4. IsList(first) /\ IsList(second)
    BY <1>3, ThoseIsList
<1> HIDE DEF first, second
<1>5. IsList(a) /\ IsList(b)
  <2>1. ASSUME NEW s, IsList(s) PROVE IsList([i \in DOMAIN s |-> Phrase(s[i].nah, s[i].ru)])
      BY <2>1, ListIsSeq, FunctionIsList
  <2> QED BY <1>4, <2>1
<1> HIDE DEF a, b
<1> QED BY <1>2, <1>5, SidesAreList

(* Computer terms: an article is an entry, *)
LEMMA ComputerIsParsed ==
    ASSUME NEW x, IsText(x.text.gloss), IsList(x.text.pairs), ComputerArticle(x) # None
    PROVE  IsParsedEntry(1, ComputerArticle(x))
<1> DEFINE found == ExtractDashExamples(x.text.pairs)
           turned == [i \in DOMAIN found |-> Phrase(found[i].ru, found[i].nah)]
<1>1. PICK word, fields, examples :
          /\ ComputerArticle(x) =
                 NewEntry(word, fields, <<MeaningWith(Plain(x.text.gloss), FALSE, examples)>>)
          /\ examples \in {found, turned}
    BY ZenonT(60) DEF ComputerArticle, Each
<1>2. IsList(found)
    BY DashExamplesAreList
<1> HIDE DEF found
<1>3. IsList(turned)
    BY <1>2, ListIsSeq, FunctionIsList
<1> HIDE DEF turned
<1>4. IsMeaningOf(1, MeaningWith(Plain(x.text.gloss), FALSE, examples))
    BY <1>1, <1>2, <1>3, PlainText, MeaningWithIsMeaning
<1> QED BY <1>1, <1>4, OfOneMeaning

(* terms of anatomy, *)
LEMMA AnatomyIsParsed ==
    ASSUME NEW x, IsText(x.text.gloss), AnatomyArticle(x) # None
    PROVE  IsParsedEntry(1, AnatomyArticle(x))
<1>1. PICK word, fields, body :
          AnatomyArticle(x) =
              NewEntry(word, fields,
                       <<MeaningWith([x.text.gloss EXCEPT !.body = body, !.pad = FALSE],
                                     x.text.note, <<>>)>>)
    BY DEF AnatomyArticle
<1> DEFINE t == [x.text.gloss EXCEPT !.body = body, !.pad = FALSE]
<1>2. IsText(t)
    BY PlainText
<1> HIDE DEF t
<1>3. IsMeaningOf(1, MeaningWith(t, x.text.note, <<>>))
    BY <1>2, EmptyIsList, MeaningWithIsMeaning
<1> QED BY <1>1, <1>3, OfOneMeaning, SMTT(30) DEF t

(* and of geology, *)
LEMMA DaukaevIsParsed ==
    ASSUME NEW x, IsText(x.text.gloss), DaukaevArticle(x) # None
    PROVE  IsParsedEntry(1, DaukaevArticle(x))
<1>1. PICK word, fields, body, note :
          DaukaevArticle(x) =
              NewEntry(word, fields,
                       <<MeaningWith(Plain([x.text.gloss EXCEPT !.body = body]), note, <<>>)>>)
    BY DEF DaukaevArticle
<1> DEFINE t == Plain([x.text.gloss EXCEPT !.body = body])
<1>2. IsText(t)
    BY PlainText
<1> HIDE DEF t
<1>3. IsMeaningOf(1, MeaningWith(t, note, <<>>))
    BY <1>2, EmptyIsList, MeaningWithIsMeaning
<1> QED BY <1>1, <1>3, OfOneMeaning DEF t

(* terms of sport, *)
LEMMA AslahanovIsParsed ==
    ASSUME NEW x, IsText(x.text.lemma), AslahanovArticle(x) # None
    PROVE  IsParsedEntry(1, AslahanovArticle(x))
<1> DEFINE t == AslahanovTranslation(x.text)
           g == AslahanovGrammar(x.text)
<1>1. PICK word, fields :
          AslahanovArticle(x) = WithForms(NewEntry(word, fields, <<Meaning(t)>>), g)
    BY DEF AslahanovArticle
<1>2. IsText(t)
  <2>1. IsText(Text(""))
      BY DEF IsText, Text
  <2>2. PICK body : t \in {Plain(x.text.lemma), Text(""), Plain([x.text.lemma EXCEPT !.body = body])}
      BY DEF AslahanovTranslation
  <2>3. IsText([x.text.lemma EXCEPT !.body = body])
      BY PlainText
  <2>4. IsText(Plain([x.text.lemma EXCEPT !.body = body])) /\ IsText(Plain(x.text.lemma))
      BY <2>3, PlainText
  <2> QED BY <2>1, <2>2, <2>4
<1>3. g = None \/ IsGrammar(g)
    BY GrammarOfIsGrammar DEF AslahanovGrammar
<1> HIDE DEF t, g
<1>4. IsMeaningOf(1, Meaning(t))
    BY <1>2, EmptyIsList, MeaningWithIsMeaning
<1>5. IsParsedEntry(1, NewEntry(word, fields, <<Meaning(t)>>))
    BY <1>4, OfOneMeaning
<1> QED BY <1>1, <1>3, <1>5, WithFormsIsParsed

(* A meaning of law is one, but its list of examples may be there and      *)
(* empty.                                                                  *)
LEMMA LawMeaningIsMeaning ==
    ASSUME NEW t, NEW note, NEW subs, NEW examples, IsText(t), IsList(examples)
    PROVE  IsMeaningOf(0, LawMeaning(t, note, subs, examples))
<1> DEFINE m == Meaning(t)
           given == IF subs = <<>> THEN None ELSE examples
           noted == [m EXCEPT !.note = note]
<1>1. m = [translation |-> t, note |-> FALSE, examples |-> None]
    BY DEF Meaning
<1>2. LawMeaning(t, note, subs, examples) = [noted EXCEPT !.examples = given]
    BY DEF LawMeaning
<1>3. MaybeList(given)
    BY DEF MaybeList
<1> HIDE DEF m, given
<1>4. noted = [translation |-> t, note |-> note, examples |-> None]
    BY <1>1
<1> HIDE DEF noted
<1>5. [noted EXCEPT !.examples = given] = [translation |-> t, note |-> note, examples |-> given]
    BY <1>4
<1> QED BY <1>2, <1>3, <1>5, EmptyOrFull DEF IsMeaningOf, IsMeaning

(* terms of law from Chechen *)
LEMMA LawCeRuIsParsed ==
    ASSUME NEW x, x.more.translation = None \/ IsText(x.more.translation), IsList(x.more.subs),
           CeRuArticle(x) # None
    PROVE  IsParsedEntry(0, CeRuArticle(x))
<1> DEFINE t == x.more.translation
           g == CeRuGrammar(x.more)
           subs == SubEntries(x.more.subs)
           m(n) == LawMeaning(n, x.more.wordNote, x.more.subs, subs)
<1>1. PICK word, fields, body, meanings :
          /\ CeRuArticle(x) = WithForms(NewEntry(word, fields, meanings), g)
          /\ \/ t = None /\ meanings = <<>>
             \/ t # None /\ (meanings = <<m(t)>> \/ meanings = <<m([t EXCEPT !.body = body])>>)
    BY DEF CeRuArticle
<1>2. g = None \/ IsGrammar(g)
    BY GrammarOfIsGrammar DEF CeRuGrammar
<1>3. IsList(subs)
    BY ThoseIsList DEF SubEntries, Filter
<1> HIDE DEF g, subs
<1>4. IsMeaningsOf(0, meanings)
  <2>1. CASE t = None
      BY <1>1, <2>1, EmptyIsList DEF IsMeaningsOf
  <2>2. CASE t # None
    <3> DEFINE noted == [t EXCEPT !.body = body]
    <3>1. IsText(t) /\ IsText(noted)
        BY <2>2, PlainText
    <3>2. meanings = <<m(t)>> \/ meanings = <<m(noted)>>
        BY <1>1, <2>2
    <3> HIDE DEF t, noted
    <3> QED BY <1>3, <3>1, <3>2, LawMeaningIsMeaning, OneMeaning
  <2> QED BY <2>1, <2>2
<1> QED BY <1>1, <1>2, <1>4, NewEntryIsParsed, WithFormsIsParsed

(* and from Russian, *)
LEMMA LawRuCeIsParsed ==
    ASSUME NEW x, IsList(x.more.subs), RuCeArticle(x) # None
    PROVE  IsParsedEntry(0, RuCeArticle(x))
<1> DEFINE subs == SubEntries(x.more.subs)
           turned == [i \in DOMAIN subs |-> Phrase(subs[i].ru, subs[i].nah)]
           m(note) == LawMeaning(Text(x.word), note, x.more.subs, turned)
<1>1. PICK word, fields, note : RuCeArticle(x) = NewEntry(word, fields, <<m(note)>>)
    BY DEF RuCeArticle, Each
<1>2. IsList(subs)
    BY ThoseIsList DEF SubEntries, Filter
<1> HIDE DEF subs
<1>3. IsList(turned)
    BY <1>2, ListIsSeq, FunctionIsList
<1>4. IsText(Text(x.word))
    BY DEF IsText, Text
<1> HIDE DEF turned
<1>5. IsMeaningOf(0, m(note))
    BY <1>3, <1>4, LawMeaningIsMeaning
<1> QED BY <1>1, <1>5, OfOneMeaning

(* and words that were collected, written by hand or not. *)
LEMMA CollectedIsParsed ==
    ASSUME NEW x, IF x.entry = None THEN IsText(x.text) ELSE IsEntry(x.entry) /\ HasLists(x.entry)
    PROVE  /\ CollectedArticle(x) # None => IsParsedEntry(0, CollectedArticle(x))
           /\ NeologismArticle(x) # None => IsParsedEntry(0, NeologismArticle(x))
<1> DEFINE e == CollectedArticle(x)
<1>1. ASSUME e # None PROVE IsParsedEntry(0, e)
  <2>1. CASE x.entry # None
    <3>1. e = x.entry
        BY <1>1, <2>1 DEF CollectedArticle
    <3>2. IsEntry(e) /\ HasLists(e)
        BY <2>1, <3>1
    <3> QED BY <3>2, EmptyOrFull DEF IsParsedEntry
  <2>2. CASE x.entry = None
    <3>1. e = NewEntry(x.word, <<>>, <<Meaning(Trim(x.text))>>)
        BY <1>1, <2>2 DEF CollectedArticle
    <3>2. IsMeaningOf(0, Meaning(Trim(x.text)))
        BY <2>2, PlainText, EmptyIsList, MeaningWithIsMeaning, EmptyOrFull DEF IsMeaningOf
    <3> QED BY <3>1, <3>2, OfOneMeaning
  <2> QED BY <2>1, <2>2
<1>2. NeologismArticle(x) # None =>
          e # None /\ \E v : NeologismArticle(x) = [e EXCEPT !.info["styleLabel"] = v]
    BY DEF NeologismArticle
<1> HIDE DEF e
<1>3. "styleLabel" \in Scalar
    BY DEF Scalar
<1>4. ASSUME NEW v, e # None
      PROVE  IsParsedEntry(0, [e EXCEPT !.info["styleLabel"] = v])
    BY <1>1, <1>3, <1>4, WithField
<1> QED BY <1>1, <1>2, <1>4 DEF e

(* All pairs of the segments of a text, one after the other. *)
PairsOf(segments) == FoldLeft(LAMBDA sofar, x : sofar \o x.pairs, <<>>, segments)

(* They are a list of pairs with a translation. *)
LEMMA PairsAreList ==
    ASSUME NEW s, IsList(s),
           \A x \in Range(s) : IsList(x.pairs) /\ \A p \in Range(x.pairs) : IsText(p.ru)
    PROVE  IsList(PairsOf(s)) /\ \A p \in Range(PairsOf(s)) : IsText(p.ru)
<1>1. Len(s) \in Nat /\ DOMAIN s = 1 .. Len(s)
    BY ListIsSeq
<1>2. PairsOf(s) = Pairs!FoldFrom({}, <<>>, s)
    BY DEF PairsOf, Pairs!FoldFrom, FoldLeft, Pairs!FoldLeft,
           MapThenFoldSet, Pairs!MapThenFoldSet, PairsIn, Max, Pairs!Max
<1>3. PICK r : Pairs!IsRun(r, {}, <<>>, s, Len(s)) /\ PairsOf(s) = r[Len(s)]
    BY <1>1, <1>2, Pairs!FoldRuns
<1> DEFINE T == {i \in 0 .. Len(s) : IsList(r[i]) /\ \A p \in Range(r[i]) : IsText(p.ru)}
<1>4. 0 \in T
    BY <1>1, <1>3, EmptyIsList DEF Pairs!IsRun
<1>5. ASSUME NEW i \in 1 .. Len(s), i - 1 \in T PROVE i \in T
  <2>1. r[i] = r[i - 1] \o s[i].pairs
      BY <1>3 DEF Pairs!IsRun, PairsIn
  <2>2. IsList(s[i].pairs) /\ \A p \in Range(s[i].pairs) : IsText(p.ru)
      BY <1>1 DEF Range
  <2>3. IsList(r[i - 1]) /\ \A p \in Range(r[i - 1]) : IsText(p.ru)
      BY <1>5
  <2>4. IsList(r[i]) /\ Range(r[i]) = Range(r[i - 1]) \cup Range(s[i].pairs)
      BY <2>1, <2>2, <2>3, ConcatIsList
  <2> QED BY <1>1, <2>2, <2>3, <2>4
<1>6. Len(s) \in T
  <2> HIDE DEF T
  <2>1. \A i \in 0 .. Len(s) : i \in T
      BY <1>1, <1>4, <1>5, Keeping!UpTo
  <2> QED BY <1>1, <2>1
<1> QED BY <1>3, <1>6

(* The meanings of a term of mathematics. *)
LEMMA UmarhadjievMeaningsAre ==
    ASSUME NEW t, IsUmarhadjiev(t)
    PROVE  IsMeaningsOf(1, UmarhadjievMeanings(t))
<1> DEFINE examples == ExtractExamples(PairsOf(t.segments))
<1>1. IsList(t.segments) /\ \A s \in Range(t.segments) :
          IsText(s.gloss) /\ IsList(s.pairs) /\ \A p \in Range(s.pairs) : IsText(p.ru)
    BY DEF IsUmarhadjiev
<1>2. IsList(examples) /\ \A p \in Range(examples) : IsText(p.ru)
  <2>1. IsList(PairsOf(t.segments)) /\ \A p \in Range(PairsOf(t.segments)) : IsText(p.ru)
      BY <1>1, PairsAreList
  <2> QED BY <2>1, ThoseIsList DEF ExtractExamples, Filter
<1>3. PICK keep :
          LET glossed == Those(t.segments, keep)
          IN  UmarhadjievMeanings(t) \in
                  {[i \in DOMAIN glossed |->
                       MeaningWith(Plain(glossed[i].gloss), FALSE, ExtractExamples(glossed[i].pairs))],
                   << MeaningWith(Text("1"), FALSE, examples) >>,
                   [i \in DOMAIN examples |->
                       MeaningWith(examples[i].ru, FALSE, << examples[i] >>)]}
    BY DEF UmarhadjievMeanings, Filter, Each, PairsOf
<1> DEFINE glossed == Those(t.segments, keep)
           a == [i \in DOMAIN glossed |->
                    MeaningWith(Plain(glossed[i].gloss), FALSE, ExtractExamples(glossed[i].pairs))]
           c == [i \in DOMAIN examples |->
                    MeaningWith(examples[i].ru, FALSE, << examples[i] >>)]
<1>4. IsMeaningsOf(1, a)
  <2>1. IsList(glossed) /\ Range(glossed) \subseteq Range(t.segments)
      BY <1>1, ThoseIsList
  <2> HIDE DEF glossed
  <2>2. ASSUME NEW i \in DOMAIN glossed PROVE IsMeaningOf(1, a[i])
    <3>1. glossed[i] \in Range(t.segments)
        BY <2>1 DEF Range
    <3>2. IsText(Plain(glossed[i].gloss))
        BY <1>1, <3>1, PlainText
    <3>3. IsList(ExtractExamples(glossed[i].pairs))
        BY <1>1, <3>1, ThoseIsList DEF ExtractExamples, Filter
    <3> QED BY <3>2, <3>3, MeaningWithIsMeaning
  <2> QED BY <2>1, <2>2, EachIsMeaning
<1>5. IsMeaningsOf(1, << MeaningWith(Text("1"), FALSE, examples) >>)
  <2>1. IsText(Text("1"))
      BY DEF IsText, Text
  <2> HIDE DEF examples
  <2> QED BY <1>2, <2>1, MeaningWithIsMeaning, OneMeaning
<1>6. IsMeaningsOf(1, c)
  <2> HIDE DEF examples
  <2>1. ASSUME NEW i \in DOMAIN examples PROVE IsMeaningOf(1, c[i])
    <3>1. IsText(examples[i].ru) /\ IsList(<< examples[i] >>)
        BY <1>2, OneIsList DEF Range
    <3> QED BY <3>1, MeaningWithIsMeaning
  <2> QED BY <1>2, <2>1, EachIsMeaning
<1>7. UmarhadjievMeanings(t) \in {a, << MeaningWith(Text("1"), FALSE, examples) >>, c}
    BY <1>3
<1> HIDE DEF a, c, examples
<1> QED BY <1>4, <1>5, <1>6, <1>7

(* Terms of mathematics, *)
LEMMA UmarhadjievIsParsed ==
    ASSUME NEW x, IsUmarhadjiev(x.text), UmarhadjievArticle(x) # None
    PROVE  IsParsedEntry(1, UmarhadjievArticle(x))
<1> DEFINE g == IF x.text.grammar = None THEN None
                ELSE GrammarOf(x.text.grammar.plural, x.text.grammar.forms)
           m == MeaningWith(Text(x.text.ref), TRUE, <<>>)
<1>1. PICK word, fields, meanings :
          /\ UmarhadjievArticle(x) = WithForms(NewEntry(word, fields, meanings), g)
          /\ meanings = << m >> \/ meanings = UmarhadjievMeanings(x.text)
    BY DEF UmarhadjievArticle
<1>2. g = None \/ IsGrammar(g)
    BY GrammarOfIsGrammar
<1>3. IsMeaningOf(1, m)
  <2>1. IsText(Text(x.text.ref))
      BY DEF IsText, Text
  <2> QED BY <2>1, EmptyIsList, MeaningWithIsMeaning
<1> HIDE DEF g, m
<1>4. IsMeaningsOf(1, meanings)
    BY <1>1, <1>3, OneMeaning, UmarhadjievMeaningsAre
<1> QED BY <1>1, <1>2, <1>4, NewEntryIsParsed, WithFormsIsParsed

(* A segment of an article of Karasaev and Maciev is a meaning. *)
LEMMA SegmentIsMeaning ==
    ASSUME NEW s, IsKarasaevSegment(s)
    PROVE  IsMeaningOf(1, SegmentMeaning(s))
<1> DEFINE examples == ExtractRuNahExamples(s.pairs)
<1>1. IsText(s.gloss) /\ IsList(s.pairs) /\ (s.deriv = None \/ IsText(s.deriv))
    BY DEF IsKarasaevSegment
<1>2. IsList(examples)
    BY <1>1, ThoseIsList DEF ExtractRuNahExamples, Filter
<1>3. \/ s.deriv # None /\ SegmentMeaning(s) = Meaning(s.deriv)
      \/ \E t, note : /\ SegmentMeaning(s) = MeaningWith(t, note, examples)
                      /\ t = Plain(s.gloss) \/ \E body : t = Text(body)
    BY DEF SegmentMeaning
<1> HIDE DEF examples
<1>4. CASE s.deriv # None /\ SegmentMeaning(s) = Meaning(s.deriv)
    BY <1>1, <1>2, <1>4, MeaningWithIsMeaning
<1>5. ASSUME NEW t, NEW note, SegmentMeaning(s) = MeaningWith(t, note, examples),
             t = Plain(s.gloss) \/ \E body : t = Text(body)
      PROVE  IsMeaningOf(1, SegmentMeaning(s))
  <2>1. \A body : IsText(Text(body))
      BY DEF IsText, Text
  <2>2. IsText(t)
      BY <1>1, <1>5, <2>1, PlainText
  <2> QED BY <1>2, <1>5, <2>2, MeaningWithIsMeaning
<1> QED BY <1>3, <1>4, <1>5

(* It stays one with other tags. *)
LEMMA RetaggedSegment ==
    ASSUME NEW s, NEW tags, IsKarasaevSegment(s)
    PROVE  IsKarasaevSegment([s EXCEPT !.tags = tags])
<1> DEFINE w == [s EXCEPT !.tags = tags]
<1>1. s = [tags |-> s.tags, refs |-> s.refs, deriv |-> s.deriv, gloss |-> s.gloss, pairs |-> s.pairs]
    BY DEF IsKarasaevSegment
<1>2. w = [tags |-> tags, refs |-> s.refs, deriv |-> s.deriv, gloss |-> s.gloss, pairs |-> s.pairs]
    BY <1>1
<1> HIDE DEF w
<1> QED BY <1>2 DEF IsKarasaevSegment, w

(* The segments of an article are its meanings, *)
LEMMA ParsedMeanings ==
    ASSUME NEW t, NEW tags, IsKarasaev(t)
    PROVE  IsMeaningsOf(1, ParseMeanings(t, tags))
<1> DEFINE tagged == [Head(t.segments) EXCEPT !.tags = tags \o @]
<1>1. /\ IsList(t.segments) /\ \A s \in Range(t.segments) : IsKarasaevSegment(s)
      /\ t.numbered \/ t.segments # <<>>
    BY DEF IsKarasaev
<1> DEFINE segments == IF t.numbered THEN Filter(t.segments, HoldsText) ELSE << tagged >>
           all == [i \in DOMAIN segments |-> SegmentMeaning(segments[i])]
<1>2. ParseMeanings(t, tags) = << Meaning(Text("1)")) >> \/ ParseMeanings(t, tags) = all
  <2>1. ParseMeanings(t, tags) = IF segments = <<>> THEN << Meaning(Text("1)")) >> ELSE all
      BY Zenon DEF ParseMeanings, Each
  <2> HIDE DEF segments, all
  <2> QED BY <2>1
<1>3. IsList(segments) /\ \A s \in Range(segments) : IsKarasaevSegment(s)
  <2>1. CASE t.numbered
      BY <1>1, <2>1, ThoseIsList DEF Filter
  <2>2. CASE ~t.numbered
    <3> DEFINE s == Head(t.segments)
    <3>1. s \in Range(t.segments)
      <4>1. /\ DOMAIN t.segments = 1 .. Len(t.segments) /\ Len(t.segments) \in Nat
            /\ t.segments \in Seq(Range(t.segments))
          BY <1>1, ListIsSeq
      <4>2. Len(t.segments) # 0
          BY <1>1, <2>2, <4>1
      <4>3. 1 \in DOMAIN t.segments /\ s = t.segments[1]
          BY <4>1, <4>2
      <4> QED BY <4>3 DEF Range
    <3>2. IsKarasaevSegment(s)
        BY <1>1, <3>1
    <3>3. IsKarasaevSegment(tagged)
        BY <3>2, RetaggedSegment
    <3> HIDE DEF tagged
    <3> QED BY <2>2, <3>3, OneIsList
  <2> QED BY <2>1, <2>2
<1> HIDE DEF segments
<1>4. IsMeaningsOf(1, all)
  <2>1. ASSUME NEW i \in DOMAIN segments PROVE IsMeaningOf(1, all[i])
    <3>1. IsKarasaevSegment(segments[i])
        BY <1>3 DEF Range
    <3> QED BY <3>1, SegmentIsMeaning
  <2> QED BY <1>3, <2>1, EachIsMeaning
<1>5. IsMeaningsOf(1, << Meaning(Text("1)")) >>)
  <2>1. IsText(Text("1)"))
      BY DEF IsText, Text
  <2> QED BY <2>1, EmptyIsList, MeaningWithIsMeaning, OneMeaning
<1> HIDE DEF all
<1> QED BY <1>2, <1>4, <1>5

(* also when the first tag was removed. *)
LEMMA DroppedTag ==
    ASSUME NEW t, IsKarasaev(t)
    PROVE  IsKarasaev(DropFirstTag(t))
<1> DEFINE tagged == {i \in DOMAIN t.segments : t.segments[i].tags # <<>>}
           k == Min(tagged)
           segments == [t.segments EXCEPT ![k].tags = Tail(t.segments[k].tags)]
<1>1. t = [tags |-> t.tags, numbered |-> t.numbered, segments |-> t.segments, phrases |-> t.phrases]
    BY DEF IsKarasaev
<1>2. /\ IsList(t.segments) /\ \A s \in Range(t.segments) : IsKarasaevSegment(s)
      /\ Len(t.segments) \in Nat /\ DOMAIN t.segments = 1 .. Len(t.segments)
    BY ListIsSeq DEF IsKarasaev
<1>3. CASE t.tags # <<>>
  <2>1. DropFirstTag(t) = [t EXCEPT !.tags = Tail(t.tags)]
      BY <1>3 DEF DropFirstTag
  <2> QED BY <1>1, <2>1 DEF IsKarasaev
<1>4. CASE t.tags = <<>> /\ tagged = {}
    BY <1>4 DEF DropFirstTag
<1>5. CASE t.tags = <<>> /\ tagged # {}
  <2>1. DropFirstTag(t) = [t EXCEPT !.segments = segments]
      BY <1>5 DEF DropFirstTag
  <2>2. k \in 1 .. Len(t.segments)
    <3>1. tagged \in SUBSET Nat
        BY <1>2
    <3>2. k \in tagged
      <4> HIDE DEF tagged
      <4> QED BY <1>5, <3>1, MinOf
    <3> QED BY <1>2, <3>2
  <2> DEFINE old == t.segments[k]
             new == [old EXCEPT !.tags = Tail(old.tags)]
  <2>3. segments = [i \in 1 .. Len(t.segments) |-> IF i = k THEN new ELSE t.segments[i]]
      BY <1>2
  <2> HIDE DEF k, tagged
  <2>4. IsKarasaevSegment(new)
    <3>1. IsKarasaevSegment(old)
        BY <1>2, <2>2 DEF Range
    <3> QED BY <3>1, RetaggedSegment
  <2> HIDE DEF new, old, segments
  <2>5. /\ IsList(segments) /\ Len(segments) = Len(t.segments)
        /\ DOMAIN segments = 1 .. Len(t.segments)
        /\ \A i \in 1 .. Len(t.segments) : segments[i] = new \/ segments[i] = t.segments[i]
    <3>1. segments = [i \in 1 .. Len(t.segments) |-> segments[i]]
        BY <2>3
    <3>2. IsList(segments) /\ Len(segments) = Len(t.segments)
        BY <1>2, <3>1, FunctionIsList
    <3> QED BY <2>3, <3>2
  <2>6. \A s \in Range(segments) : IsKarasaevSegment(s)
      BY <1>2, <2>4, <2>5 DEF Range
  <2>7. segments # <<>>
    <3>1. Len(segments) # 0
        BY <1>2, <2>2, <2>5
    <3> QED BY <3>1
  <2>8. IsList(t.phrases)
      BY DEF IsKarasaev
  <2>9. [t EXCEPT !.segments = segments] =
            [tags |-> t.tags, numbered |-> t.numbered, segments |-> segments, phrases |-> t.phrases]
      BY <1>1
  <2> QED BY <2>1, <2>5, <2>6, <2>7, <2>8, <2>9 DEF IsKarasaev
<1> QED BY <1>3, <1>4, <1>5

(* and their articles are entries. *)
LEMMA KarasaevIsParsed ==
    ASSUME NEW x, IsKarasaev(x.text), KarasaevArticle(x) # None
    PROVE  IsParsedEntry(1, KarasaevArticle(x))
<1> DEFINE phrases == SomeOrNone(ExtractRuNahExamples(x.text.phrases))
<1>1. PICK word, fields, t, tags, number :
          /\ t = x.text \/ t = DropFirstTag(x.text)
          /\ KarasaevArticle(x) =
                 WithPhrases(NewEntry(word, fields, ParseMeanings(t, tags)), number, phrases)
    BY ZenonT(60) DEF KarasaevArticle
<1>2. MaybeList(phrases) /\ Full(1, phrases)
  <2>1. IsList(ExtractRuNahExamples(x.text.phrases))
      BY ThoseIsList DEF ExtractRuNahExamples, Filter, IsKarasaev
  <2> QED BY <2>1 DEF MaybeList, SomeOrNone, Full
<1> HIDE DEF phrases
<1>3. IsMeaningsOf(1, ParseMeanings(t, tags))
    BY <1>1, DroppedTag, ParsedMeanings
<1> DEFINE e == NewEntry(word, fields, ParseMeanings(t, tags))
<1>4. IsParsedEntry(1, e)
    BY <1>3, NewEntryIsParsed
<1> HIDE DEF e
<1>5. IsParsedEntry(1, WithPhrases(e, number, phrases))
    BY <1>2, <1>4, WithPhrasesIsParsed
<1> QED BY <1>1, <1>5 DEF e

----------------------------------------------------------------------------
(* Senses put together. *)

(* An entry of one meaning, as the parsers of Ismailov put together. *)
IsSense(e) ==
    IsParsedEntry(1, e) /\ e.meanings = << Head(e.meanings) >> /\ IsMeaningOf(1, Head(e.meanings))

(* What these parsers make of a sense is such an entry. *)
LEMMA IsmailovEntryIsSense ==
    ASSUME NEW word, NEW class, NEW grammar, NEW m, IsMeaningOf(1, m),
           grammar = None \/ IsGrammar(grammar)
    PROVE  IsSense(IsmailovEntry(word, class, grammar, m))
<1> DEFINE fields == [nounClass |-> class.sing, nounClassPlural |-> class.plur]
           e == NewEntry(word, fields, <<m>>)
           w == WithForms(e, grammar)
<1>1. IsmailovEntry(word, class, grammar, m) = w
    BY DEF IsmailovEntry
<1> HIDE DEF fields
<1>2. IsParsedEntry(1, e) /\ e.meanings = <<m>>
    BY OneMeaning, NewEntryIsParsed
<1> HIDE DEF e
<1>3. IsParsedEntry(1, w) /\ w.meanings = <<m>>
    BY <1>2, WithFormsIsParsed
<1> HIDE DEF w
<1> QED BY <1>1, <1>3, OneIsList DEF IsSense

(* From Chechen, an article is one sense, *)
LEMMA CeRuIsSense ==
    ASSUME NEW x, IsText(x.text.gloss), IsList(x.text.pairs), IsmailovCeRuArticle(x) # None
    PROVE  IsSense(IsmailovCeRuArticle(x))
<1>1. PICK word, class, plural, body, keep :
          LET translation == Plain([x.text.gloss EXCEPT !.body = body])
          IN  IsmailovCeRuArticle(x) =
                  IsmailovEntry(word, class, PluralOnly(plural),
                                MeaningWith(translation, FALSE, Those(x.text.pairs, keep)))
    BY DEF IsmailovCeRuArticle, Filter
<1> DEFINE translation == Plain([x.text.gloss EXCEPT !.body = body])
<1>2. IsText(translation)
    BY PlainText
<1>3. IsList(Those(x.text.pairs, keep))
    BY ThoseIsList
<1> HIDE DEF translation
<1>4. IsMeaningOf(1, MeaningWith(translation, FALSE, Those(x.text.pairs, keep)))
    BY <1>2, <1>3, MeaningWithIsMeaning
<1> QED BY <1>1, <1>4, PluralOnlyIsGrammar, IsmailovEntryIsSense DEF translation

(* and from Russian, each of its meanings. *)
LEMMA RuCeIsSense ==
    ASSUME NEW word, NEW m, IsText(m.gloss), IsmailovRuCeEntry(word, m) # None
    PROVE  IsSense(IsmailovRuCeEntry(word, m))
<1>1. PICK w, class, grammar :
          /\ IsmailovRuCeEntry(word, m) = IsmailovEntry(w, class, grammar, Meaning(Plain(m.gloss)))
          /\ grammar = None \/ \E plural : grammar = PluralOnly(plural)
    BY DEF IsmailovRuCeEntry
<1>2. IsText(Plain(m.gloss))
    BY PlainText
<1>3. IsMeaningOf(1, Meaning(Plain(m.gloss)))
    BY <1>2, EmptyIsList, MeaningWithIsMeaning
<1> QED BY <1>1, <1>3, PluralOnlyIsGrammar, IsmailovEntryIsSense

(* What meanings tell. *)
AllFacts(meanings) == UNION {SenseFacts(m) : m \in Range(meanings)}

(* A meaning that is added, or gives its examples to one that is there,    *)
(* tells what it told, and what was told before stays.                     *)
LEMMA AddSenseTells ==
    ASSUME NoneIsApart, NEW ms, NEW m, IsMeaningsOf(1, ms), IsMeaningOf(1, m)
    PROVE  /\ IsMeaningsOf(1, AddSense(ms, m))
           /\ AllFacts(AddSense(ms, m)) = AllFacts(ms) \cup SenseFacts(m)
<1> DEFINE same == {i \in DOMAIN ms : ms[i].translation = m.translation}
           more == AddSense(ms, m)
           k == Min(same)
<1>1. IsList(ms) /\ Len(ms) \in Nat /\ DOMAIN ms = 1 .. Len(ms)
    BY ListIsSeq DEF IsMeaningsOf
<1>2. CASE IsBlank(m.translation) \/ same = {}
  <2>1. more = Append(ms, m)
      BY <1>2 DEF AddSense
  <2> HIDE DEF more, same
  <2>2. IsList(more) /\ Range(more) = Range(ms) \cup {m}
      BY <1>1, <2>1, AppendIsList
  <2>3. IsMeaningsOf(1, more)
      BY <2>2 DEF IsMeaningsOf
  <2>4. AllFacts(more) = AllFacts(ms) \cup SenseFacts(m)
      BY <2>2 DEF AllFacts
  <2> QED BY <2>3, <2>4 DEF more
<1>3. ASSUME ~(IsBlank(m.translation) \/ same = {})
      PROVE  k \in 1 .. Len(ms) /\ ms[k].translation = m.translation /\ ms[k] \in Range(ms)
  <2>1. same \in SUBSET Nat
      BY <1>1
  <2>2. k \in same
    <3> HIDE DEF same
    <3> QED BY <1>3, <2>1, MinOf
  <2> QED BY <1>1, <2>2 DEF Range
<1>4. CASE ~(IsBlank(m.translation) \/ same = {}) /\ m.examples = None
  <2>1. more = ms
      BY <1>4 DEF AddSense
  <2>2. Items(m.examples) = {}
      BY <1>4 DEF Items
  <2>3. SenseFacts(m) \subseteq SenseFacts(ms[k])
    <3>1. ms[k].translation = m.translation
        BY <1>3, <1>4
    <3> HIDE DEF k
    <3> QED BY <2>2, <3>1 DEF SenseFacts
  <2>4. SenseFacts(ms[k]) \subseteq AllFacts(ms)
    <3>1. ms[k] \in Range(ms)
        BY <1>3, <1>4
    <3> HIDE DEF k
    <3> QED BY <3>1 DEF AllFacts
  <2> QED BY <2>1, <2>3, <2>4
<1>5. CASE ~(IsBlank(m.translation) \/ same = {}) /\ m.examples # None
  <2> DEFINE old == ms[k].examples
             all == IF old = None THEN m.examples ELSE old \o m.examples
  <2>1. k \in 1 .. Len(ms) /\ ms[k].translation = m.translation /\ ms[k] \in Range(ms)
      BY <1>3, <1>5
  <2>2. more = [ms EXCEPT ![k] = [ms[k] EXCEPT !.examples = all]]
      BY <1>5 DEF AddSense
  <2> HIDE DEF more, k, same
  <2>3. IsMeaningOf(1, ms[k])
      BY <2>1, <1>1 DEF IsMeaningsOf
  <2>4. MaybeList(all) /\ Full(1, all) /\ Items(all) = Items(old) \cup Items(m.examples)
    <3>1. /\ MaybeList(old) /\ IsList(m.examples) /\ m.examples # <<>>
          /\ Items(m.examples) = Range(m.examples)
        BY <1>5, <2>3, ItemsOfLists DEF IsMeaningOf, IsMeaning, Full
    <3>2. CASE old = None
        BY <3>1, <3>2 DEF MaybeList, Items, Full
    <3>3. CASE old # None
      <4>1. IsList(old) /\ Items(old) = Range(old)
          BY <3>1, <3>3, ItemsOfLists
      <4>2. all = old \o m.examples
          BY <3>3
      <4> HIDE DEF all, old
      <4>3. IsList(all) /\ Range(all) = Range(old) \cup Range(m.examples)
          BY <3>1, <4>1, <4>2, ConcatIsList
      <4>4. all # <<>>
        <5>1. Range(m.examples) # {}
          <6>1. Len(m.examples) \in Nat /\ DOMAIN m.examples = 1 .. Len(m.examples)
                /\ m.examples \in Seq(Range(m.examples))
              BY <3>1, ListIsSeq
          <6>2. Len(m.examples) # 0
              BY <3>1, <6>1
          <6>3. 1 \in DOMAIN m.examples
              BY <6>1, <6>2
          <6> QED BY <6>3 DEF Range
        <5> QED BY <4>3, <5>1, EmptyIsList
      <4>5. MaybeList(all) /\ Full(1, all)
          BY <4>3, <4>4 DEF MaybeList, Full
      <4>6. Items(all) = Range(all)
          BY <4>3, ItemsOfList
      <4> QED BY <3>1, <4>1, <4>3, <4>5, <4>6
    <3> QED BY <3>2, <3>3
  <2> HIDE DEF all, old
  <2>5. [ms[k] EXCEPT !.examples = all] =
            [translation |-> ms[k].translation, note |-> ms[k].note, examples |-> all]
      BY <2>3 DEF IsMeaningOf, IsMeaning
  <2>6. /\ IsList(more) /\ Len(more) = Len(ms) /\ DOMAIN more = 1 .. Len(ms)
        /\ \A i \in 1 .. Len(ms) : i # k => more[i] = ms[i]
        /\ more[k] = [translation |-> ms[k].translation, note |-> ms[k].note,
                      examples |-> all]
    <3>1. more = [i \in 1 .. Len(ms) |-> IF i = k THEN [ms[k] EXCEPT !.examples = all]
                                         ELSE ms[i]]
        BY <1>1, <2>2
    <3>2. more = [i \in 1 .. Len(ms) |-> more[i]]
        BY <3>1
    <3>3. IsList(more) /\ Len(more) = Len(ms)
        BY <1>1, <3>2, FunctionIsList
    <3>4. \A i \in 1 .. Len(ms) : more[i] = IF i = k THEN [ms[k] EXCEPT !.examples = all]
                                            ELSE ms[i]
        BY <3>1
    <3>5. DOMAIN more = 1 .. Len(ms)
        BY <3>1
    <3> QED BY <2>1, <2>5, <3>3, <3>4, <3>5
  <2>7. IsMeaningOf(1, more[k])
      BY <2>3, <2>4, <2>6 DEF IsMeaningOf, IsMeaning
  <2>8. IsMeaningsOf(1, more)
    <3>1. \A i \in 1 .. Len(ms) : IsMeaningOf(1, more[i])
        BY <1>1, <2>6, <2>7 DEF IsMeaningsOf, Range
    <3> QED BY <2>6, <3>1 DEF IsMeaningsOf, Range
  <2>9. SenseFacts(more[k]) = SenseFacts(ms[k]) \cup SenseFacts(m)
    <3>1. more[k].translation = m.translation /\ more[k].examples = all
        BY <2>1, <2>6
    <3>2. Items(more[k].examples) = Items(ms[k].examples) \cup Items(m.examples)
        BY <2>4, <3>1 DEF old
    <3> QED BY <2>1, <3>1, <3>2 DEF SenseFacts
  <2>10. AllFacts(more) = AllFacts(ms) \cup SenseFacts(m)
    <3>1. AllFacts(ms) = UNION {SenseFacts(ms[i]) : i \in 1 .. Len(ms)}
        BY <1>1 DEF AllFacts, Range
    <3>2. AllFacts(more) = UNION {SenseFacts(more[i]) : i \in 1 .. Len(ms)}
        BY <2>6 DEF AllFacts, Range
    <3>3. \A i \in 1 .. Len(ms) : i # k => SenseFacts(more[i]) = SenseFacts(ms[i])
        BY <2>6
    <3> QED BY <2>1, <2>9, <3>1, <3>2, <3>3
  <2> QED BY <2>8, <2>10 DEF more
<1> QED BY <1>2, <1>4, <1>5

(* The loop over the senses, which puts together those of a word and       *)
(* class,                                                                  *)
AddByClassIn(c, sofar, x) == AddByClass(sofar, x)
ByClass == INSTANCE FoldLemmas WITH Op <- AddByClassIn

(* What adding to an entry changes of it. *)
LEMMA AddedEntryIs ==
    ASSUME NEW t, NEW e, IsEntry(t)
    PROVE  AddToEntry(t, e) =
               [word |-> t.word, homonym |-> t.homonym, info |-> FirstWins(t.info, e.info),
                grammar |-> IF t.grammar = None THEN e.grammar ELSE t.grammar,
                meanings |-> AddSense(t.meanings, Head(e.meanings)),
                phraseology |-> t.phraseology, citations |-> t.citations]
<1> DEFINE w == AddToEntry(t, e)
           info == FirstWins(t.info, e.info)
           grammar == IF t.grammar = None THEN e.grammar ELSE t.grammar
           meanings == AddSense(t.meanings, Head(e.meanings))
<1>1. w = [t EXCEPT !.info = info, !.grammar = grammar, !.meanings = meanings]
    BY DEF AddToEntry
<1>2. t = [word |-> t.word, homonym |-> t.homonym, info |-> t.info, grammar |-> t.grammar,
           meanings |-> t.meanings, phraseology |-> t.phraseology, citations |-> t.citations]
    BY DEF IsEntry
<1> HIDE DEF w, info, grammar, meanings
<1>3. w = [word |-> t.word, homonym |-> t.homonym, info |-> info, grammar |-> grammar,
           meanings |-> meanings, phraseology |-> t.phraseology, citations |-> t.citations]
    BY <1>1, <1>2
<1> QED BY <1>3 DEF w, info, grammar, meanings

(* What fields tell, *)
FieldFacts(info) == {<<"field", f>> : f \in {x \in Scalar : info[x] # None}}

(* and what the grammar does. *)
GrammarFacts(grammar) == {<<"grammar">> : g \in {grammar} \ {None}}

(* The parts of what an entry tells. *)
LEMMA FactsAre ==
    ASSUME NEW e
    PROVE  Facts(e) = (FieldFacts(e.info) \cup GrammarFacts(e.grammar)) \cup AllFacts(e.meanings)
BY DEF Facts, FieldFacts, GrammarFacts, AllFacts

(* An entry to which another of its word and class is added tells what     *)
(* both told.                                                              *)
LEMMA BothTell ==
    ASSUME NoneIsApart, NEW t, NEW e, IsParsedEntry(1, t), IsEntry(e), IsSense(e),
           t.word = e.word, t.info["nounClass"] = e.info["nounClass"]
    PROVE  /\ IsParsedEntry(1, AddToEntry(t, e))
           /\ FactsOf(AddToEntry(t, e)) = FactsOf(t) \cup FactsOf(e)
<1> DEFINE w == AddToEntry(t, e)
           info == FirstWins(t.info, e.info)
           grammar == IF t.grammar = None THEN e.grammar ELSE t.grammar
           meanings == AddSense(t.meanings, Head(e.meanings))
<1>0. IsEntry(t) /\ HasLists(t)
    BY DEF IsParsedEntry
<1>1. w = [word |-> t.word, homonym |-> t.homonym, info |-> info, grammar |-> grammar,
           meanings |-> meanings, phraseology |-> t.phraseology, citations |-> t.citations]
    BY <1>0, AddedEntryIs
<1>2. /\ info = [f \in Scalar |-> info[f]]
      /\ \A f \in Scalar : /\ t.info[f] # None => info[f] # None
                           /\ e.info[f] # None => info[f] # None
                           /\ t.info[f] = e.info[f] => info[f] = t.info[f]
    BY <1>0, FirstWinsHas DEF IsEntry
<1>3. FieldFacts(info) = FieldFacts(t.info) \cup FieldFacts(e.info)
  <2>1. \A f \in Scalar : info[f] # None <=> t.info[f] # None \/ e.info[f] # None
    <3>1. t.info = [f \in Scalar |-> t.info[f]]
        BY <1>0 DEF IsEntry
    <3>2. \A f \in Scalar : info[f] = t.info[f] \/ info[f] = e.info[f]
        BY <3>1 DEF FirstWins
    <3> HIDE DEF info
    <3> QED BY <1>2, <3>2
  <2> HIDE DEF info
  <2> QED BY <2>1 DEF FieldFacts
<1>4. GrammarFacts(grammar) = GrammarFacts(t.grammar) \cup GrammarFacts(e.grammar)
    BY DEF GrammarFacts
<1>5. IsMeaningsOf(1, t.meanings) /\ IsMeaningOf(1, Head(e.meanings))
    BY <1>0 DEF IsEntry, IsParsedEntry, IsMeaningsOf, IsMeaningOf, IsSense
<1>6. AllFacts(e.meanings) = SenseFacts(Head(e.meanings))
  <2> DEFINE m == Head(e.meanings)
  <2>1. e.meanings = <<m>>
      BY DEF IsSense
  <2> HIDE DEF m
  <2>2. Range(e.meanings) = {m}
      BY <2>1, OneIsList
  <2>3. AllFacts(e.meanings) = SenseFacts(m)
      BY <2>2 DEF AllFacts
  <2> QED BY <2>3 DEF m
<1>7. /\ IsMeaningsOf(1, meanings)
      /\ AllFacts(meanings) = AllFacts(t.meanings) \cup AllFacts(e.meanings)
    BY <1>5, <1>6, AddSenseTells
<1>8. grammar = None \/ IsGrammar(grammar)
    BY <1>0 DEF IsEntry
<1> HIDE DEF w, info, grammar, meanings
<1>9. IsParsedEntry(1, w)
  <2>1. IsEntry(w)
      BY <1>1, <1>2, <1>7, <1>8 DEF IsEntry, IsMeaningsOf, IsMeaningOf
  <2>2. HasLists(w)
      BY <1>0, <1>1 DEF HasLists
  <2>3. /\ Full(1, w.phraseology) /\ Full(1, w.citations)
        /\ \A m \in Range(w.meanings) : Full(1, m.examples)
      BY <1>1, <1>7 DEF IsParsedEntry, IsMeaningsOf, IsMeaningOf
  <2> QED BY <2>1, <2>2, <2>3 DEF IsParsedEntry
<1>10. w.info["nounClass"] = e.info["nounClass"] /\ w.word = e.word
  <2>1. "nounClass" \in Scalar
      BY DEF Scalar
  <2> QED BY <1>1, <1>2, <2>1
<1>11. Facts(w) = Facts(t) \cup Facts(e)
  <2>1. Facts(w) = (FieldFacts(info) \cup GrammarFacts(grammar)) \cup AllFacts(meanings)
    <3>1. w.info = info /\ w.grammar = grammar /\ w.meanings = meanings
        BY <1>1
    <3> QED BY <3>1, FactsAre
  <2>2. Facts(t) = (FieldFacts(t.info) \cup GrammarFacts(t.grammar)) \cup AllFacts(t.meanings)
      BY FactsAre
  <2>3. Facts(e) = (FieldFacts(e.info) \cup GrammarFacts(e.grammar)) \cup AllFacts(e.meanings)
      BY FactsAre
  <2> QED BY <1>3, <1>4, <1>7, <2>1, <2>2, <2>3
<1>12. FactsOf(w) = FactsOf(t) \cup FactsOf(e)
    BY <1>10, <1>11 DEF FactsOf
<1> QED BY <1>9, <1>12 DEF w

(* So the entries tell what they told and what e tells. *)
LEMMA AddByClassTells ==
    ASSUME NoneIsApart, NEW entries, NEW e, IsParsedBy(1, entries), IsSense(e)
    PROVE  /\ IsParsedBy(1, AddByClass(entries, e))
           /\ Told(AddByClass(entries, e)) = Told(entries) \cup FactsOf(e)
<1> DEFINE same == {i \in DOMAIN entries : /\ entries[i].word = e.word
                                           /\ entries[i].info["nounClass"] = e.info["nounClass"]}
           k == Min(same)
           more == AddByClass(entries, e)
<1>1. IsList(entries) /\ Len(entries) \in Nat /\ DOMAIN entries = 1 .. Len(entries) 
      /\ IsParsedEntry(1, e)
    BY ListIsSeq DEF IsParsedBy, IsSense
<1>2. CASE same = {}
  <2>1. more = Append(entries, e)
      BY <1>2 DEF AddByClass
  <2> HIDE DEF more, same
  <2>2. IsList(more) /\ Range(more) = Range(entries) \cup {e}
      BY <1>1, <2>1, AppendIsList
  <2>3. IsParsedBy(1, more)
      BY <1>1, <2>2 DEF IsParsedBy
  <2>4. Told(more) = Told(entries) \cup FactsOf(e)
      BY <2>2 DEF Told
  <2> QED BY <2>3, <2>4 DEF more
<1>3. CASE same # {}
  <2> DEFINE t == entries[k]
             w == AddToEntry(t, e)
  <2>1. k \in same
    <3>1. same \in SUBSET Nat
        BY <1>1, SMTT(30)
    <3> HIDE DEF same
    <3> QED BY <1>3, <3>1, MinOf
  <2>2. /\ k \in 1 .. Len(entries) /\ t \in Range(entries)
        /\ t.word = e.word /\ t.info["nounClass"] = e.info["nounClass"]
      BY <1>1, <2>1 DEF Range
  <2>3. more = [entries EXCEPT ![k] = w]
      BY <1>3 DEF AddByClass
  <2>4. IsParsedEntry(1, t)
    <3> HIDE DEF t
    <3> QED BY <2>2 DEF IsParsedBy
  <2>5. IsParsedEntry(1, w) /\ FactsOf(w) = FactsOf(t) \cup FactsOf(e)
    <3> HIDE DEF t, k, same
    <3> QED BY <1>1, <2>2, <2>4, BothTell DEF IsParsedEntry
  <2> HIDE DEF more, w, same, k
  <2>6. /\ IsList(more) /\ DOMAIN more = 1 .. Len(entries)
        /\ \A i \in 1 .. Len(entries) : more[i] = IF i = k THEN w ELSE entries[i]
    <3>1. more = [i \in 1 .. Len(entries) |-> IF i = k THEN w ELSE entries[i]]
        BY <1>1, <2>3
    <3>2. more = [i \in 1 .. Len(entries) |-> more[i]]
        BY <3>1
    <3>3. IsList(more)
        BY <1>1, <3>2, FunctionIsList
    <3> QED BY <3>1, <3>3
  <2>7. IsParsedBy(1, more)
      BY <1>1, <2>5, <2>6 DEF IsParsedBy, Range
  <2>8. Told(more) = Told(entries) \cup FactsOf(e)
    <3>1. Told(entries) = UNION {FactsOf(entries[i]) : i \in 1 .. Len(entries)}
        BY <1>1 DEF Told, Range
    <3>2. Told(more) = UNION {FactsOf(more[i]) : i \in 1 .. Len(entries)}
        BY <2>6 DEF Told, Range
    <3>3. \A i \in 1 .. Len(entries) : i # k => FactsOf(more[i]) = FactsOf(entries[i])
        BY <2>6
    <3>4. FactsOf(more[k]) = FactsOf(entries[k]) \cup FactsOf(e)
        BY <2>2, <2>5, <2>6
    <3> QED BY <2>2, <3>1, <3>2, <3>3, <3>4
  <2> QED BY <2>7, <2>8 DEF more
<1> QED BY <1>2, <1>3

(* What entryMap makes of entries. *)
Combined(base, entries) == FoldLeft(AddByClass, base, entries)

(* It tells what they told, whatever their order. *)
LEMMA CombinedTells ==
    ASSUME NoneIsApart, NEW base, NEW s, IsParsedBy(1, base), IsList(s),
           \A e \in Range(s) : IsSense(e)
    PROVE  /\ IsParsedBy(1, Combined(base, s))
           /\ Told(Combined(base, s)) = Told(base) \cup Told(s)
<1>1. Len(s) \in Nat /\ DOMAIN s = 1 .. Len(s)
    BY ListIsSeq
<1>2. Combined(base, s) = ByClass!FoldFrom({}, base, s)
    BY DEF Combined, ByClass!FoldFrom, FoldLeft, ByClass!FoldLeft,
           MapThenFoldSet, ByClass!MapThenFoldSet, AddByClassIn, Max, ByClass!Max
<1>3. PICK r : ByClass!IsRun(r, {}, base, s, Len(s)) /\ Combined(base, s) = r[Len(s)]
    BY <1>1, <1>2, ByClass!FoldRuns
<1> DEFINE T == {i \in 0 .. Len(s) :
                    /\ IsParsedBy(1, r[i])
                    /\ Told(r[i]) = Told(base) \cup UNION {FactsOf(s[j]) : j \in 1 .. i}}
<1>4. 0 \in T
  <2>1. r[0] = base
      BY <1>3 DEF ByClass!IsRun
  <2>2. {FactsOf(s[j]) : j \in 1 .. 0} = {}
      OBVIOUS
  <2>3. Told(base) = Told(base) \cup UNION {FactsOf(s[j]) : j \in 1 .. 0}
      BY <2>2
  <2> QED BY <1>1, <2>1, <2>3
<1>5. ASSUME NEW i \in 1 .. Len(s), i - 1 \in T PROVE i \in T
  <2>1. r[i] = AddByClass(r[i - 1], s[i])
      BY <1>3 DEF ByClass!IsRun, AddByClassIn
  <2>2. UNION {FactsOf(s[j]) : j \in 1 .. i} =
            (UNION {FactsOf(s[j]) : j \in 1 .. i - 1}) \cup FactsOf(s[i])
    <3>1. 1 .. i = (1 .. i - 1) \cup {i}
        BY <1>1
    <3> QED BY <3>1
  <2>3. /\ IsParsedBy(1, r[i - 1])
        /\ Told(r[i - 1]) = Told(base) \cup UNION {FactsOf(s[j]) : j \in 1 .. i - 1}
      BY <1>5
  <2>4. IsSense(s[i])
      BY <1>1 DEF Range
  <2>5. IsParsedBy(1, r[i]) /\ Told(r[i]) = Told(r[i - 1]) \cup FactsOf(s[i])
      BY <2>1, <2>3, <2>4, AddByClassTells
  <2>6. Told(r[i]) = Told(base) \cup UNION {FactsOf(s[j]) : j \in 1 .. i}
      BY <2>2, <2>3, <2>5
  <2> QED BY <1>1, <2>5, <2>6
<1>6. Len(s) \in T
  <2> HIDE DEF T
  <2>1. \A i \in 0 .. Len(s) : i \in T
      BY <1>1, <1>4, <1>5, Keeping!UpTo
  <2> QED BY <1>1, <2>1
<1>7. Told(s) = UNION {FactsOf(s[j]) : j \in 1 .. Len(s)}
    BY <1>1 DEF Told, Range
<1> QED BY <1>3, <1>6, <1>7

(* The senses of an article from Russian. *)
SensesOf(x) == ParseEach(LAMBDA m : IsmailovRuCeEntry(x.word, m), x.text)

(* The loop over articles, around the one over their senses. *)
SensesIn(c, sofar, x) == Combined(sofar, SensesOf(x))
Senses == INSTANCE FoldLemmas WITH Op <- SensesIn

(* Articles from Russian, and from Chechen, as the library has them. *)
AreRuCe(s) ==
    \A x \in Range(s) : IsList(x.text) /\ \A m \in Range(x.text) : IsText(m.gloss)

(* Those from Chechen. *)
AreCeRu(s) == \A x \in Range(s) : IsText(x.text.gloss) /\ IsList(x.text.pairs)

(* The senses of an article are entries of one meaning. *)
LEMMA SensesAre ==
    ASSUME NEW x, IsList(x.text), \A m \in Range(x.text) : IsText(m.gloss)
    PROVE  IsList(SensesOf(x)) /\ \A e \in Range(SensesOf(x)) : IsSense(e)
<1> DEFINE t == x.text
           all == [i \in DOMAIN t |-> IsmailovRuCeEntry(x.word, t[i])]
<1>1. SensesOf(x) = Knowns(all)
    BY DEF SensesOf, ParseEach, Knowns
<1>2. DOMAIN t = 1 .. Len(t) /\ Len(t) \in Nat
    BY ListIsSeq
<1>3. IsList(all)
  <2>1. all = [i \in 1 .. Len(t) |-> all[i]]
      BY <1>2
  <2> HIDE DEF all
  <2> QED BY <1>2, <2>1, FunctionIsList
<1>4. ASSUME NEW e \in Range(all), e # None PROVE IsSense(e)
  <2>1. PICK i \in DOMAIN t : e = IsmailovRuCeEntry(x.word, t[i])
      BY DEF Range
  <2>2. IsText(t[i].gloss)
      BY <2>1 DEF Range
  <2> QED BY <1>4, <2>1, <2>2, RuCeIsSense
<1> HIDE DEF all
<1> QED BY <1>1, <1>3, <1>4, KnownsAre

(* From Russian, what is parsed tells what the senses of the articles      *)
(* tell,                                                                   *)
LEMMA RuCeTells ==
    ASSUME NoneIsApart, NEW s, IsList(s), AreRuCe(s)
    PROVE  LET all == FoldLeft(LAMBDA sofar, x : FoldLeft(AddByClass, sofar, SensesOf(x)), <<>>, s)
           IN  IsParsedBy(1, all) /\ Told(all) = UNION {Told(SensesOf(x)) : x \in Range(s)}
<1> DEFINE all == FoldLeft(LAMBDA sofar, x : FoldLeft(AddByClass, sofar, SensesOf(x)), <<>>, s)
<1>1. Len(s) \in Nat /\ DOMAIN s = 1 .. Len(s)
    BY ListIsSeq
<1>2. all = Senses!FoldFrom({}, <<>>, s)
  <2>1. all = FoldLeft(LAMBDA sofar, x : SensesIn({}, sofar, x), <<>>, s)
      BY DEF SensesIn, Combined
  <2> HIDE DEF all
  <2> QED BY <2>1 DEF Senses!FoldFrom, FoldLeft, Senses!FoldLeft,
           MapThenFoldSet, Senses!MapThenFoldSet, Max, Senses!Max
<1> HIDE DEF all
<1>3. PICK r : Senses!IsRun(r, {}, <<>>, s, Len(s)) /\ all = r[Len(s)]
    BY <1>1, <1>2, Senses!FoldRuns
<1> DEFINE T == {i \in 0 .. Len(s) :
                    /\ IsParsedBy(1, r[i])
                    /\ Told(r[i]) = UNION {Told(SensesOf(s[j])) : j \in 1 .. i}}
<1>4. 0 \in T
  <2>1. r[0] = <<>>
      BY <1>3 DEF Senses!IsRun
  <2>2. {Told(SensesOf(s[j])) : j \in 1 .. 0} = {}
      OBVIOUS
  <2>3. Told(<<>>) = {} /\ IsParsedBy(1, <<>>)
      BY EmptyIsList DEF Told, IsParsedBy
  <2>4. Told(r[0]) = UNION {Told(SensesOf(s[j])) : j \in 1 .. 0}
      BY <2>1, <2>2, <2>3
  <2> QED BY <1>1, <2>1, <2>3, <2>4
<1>5. ASSUME NEW i \in 1 .. Len(s), i - 1 \in T PROVE i \in T
  <2>1. r[i] = Combined(r[i - 1], SensesOf(s[i]))
      BY <1>3 DEF Senses!IsRun, SensesIn
  <2>2. UNION {Told(SensesOf(s[j])) : j \in 1 .. i} =
            (UNION {Told(SensesOf(s[j])) : j \in 1 .. i - 1}) \cup Told(SensesOf(s[i]))
    <3>1. 1 .. i = (1 .. i - 1) \cup {i}
        BY <1>1
    <3> QED BY <3>1
  <2>3. /\ IsParsedBy(1, r[i - 1])
        /\ Told(r[i - 1]) = UNION {Told(SensesOf(s[j])) : j \in 1 .. i - 1}
      BY <1>5
  <2>4. s[i] \in Range(s)
      BY <1>1 DEF Range
  <2>5. IsList(SensesOf(s[i])) /\ \A e \in Range(SensesOf(s[i])) : IsSense(e)
      BY <2>4, SensesAre DEF AreRuCe
  <2>6. IsParsedBy(1, r[i]) /\ Told(r[i]) = Told(r[i - 1]) \cup Told(SensesOf(s[i]))
      BY <2>1, <2>3, <2>5, CombinedTells
  <2>7. Told(r[i]) = UNION {Told(SensesOf(s[j])) : j \in 1 .. i}
      BY <2>2, <2>3, <2>6
  <2> QED BY <1>1, <2>6, <2>7
<1>6. Len(s) \in T
  <2> HIDE DEF T
  <2>1. \A i \in 0 .. Len(s) : i \in T
      BY <1>1, <1>4, <1>5, Keeping!UpTo
  <2> QED BY <1>1, <2>1
<1>7. UNION {Told(SensesOf(x)) : x \in Range(s)} =
          UNION {Told(SensesOf(s[j])) : j \in 1 .. Len(s)}
    BY <1>1 DEF Range
<1> QED BY <1>3, <1>6, <1>7 DEF all

(* and from Chechen, what the articles tell. *)
LEMMA CeRuTells ==
    ASSUME NoneIsApart, NEW s, IsList(s), AreCeRu(s)
    PROVE  LET all == Combined(<<>>, ParseEach(IsmailovCeRuArticle, s))
           IN  /\ IsParsedBy(1, all)
               /\ Told(all) =
                      UNION {FactsOf(e) : e \in {IsmailovCeRuArticle(x) : x \in Range(s)} \ {None}}
<1> DEFINE all == [i \in DOMAIN s |-> IsmailovCeRuArticle(s[i])]
<1>1. ParseEach(IsmailovCeRuArticle, s) = Knowns(all)
    BY DEF ParseEach, Knowns
<1>2. DOMAIN s = 1 .. Len(s) /\ Len(s) \in Nat
    BY ListIsSeq
<1>3. IsList(all)
  <2>1. all = [i \in 1 .. Len(s) |-> all[i]]
      BY <1>2
  <2> HIDE DEF all
  <2> QED BY <1>2, <2>1, FunctionIsList
<1>4. Range(all) = {IsmailovCeRuArticle(x) : x \in Range(s)}
    BY DEF Range
<1>5. ASSUME NEW e \in Range(all), e # None PROVE IsSense(e)
  <2>1. PICK x \in Range(s) : e = IsmailovCeRuArticle(x)
      BY <1>4
  <2> QED BY <1>5, <2>1, CeRuIsSense DEF AreCeRu
<1> HIDE DEF all
<1>6. IsList(Knowns(all)) /\ Range(Knowns(all)) = Range(all) \ {None}
    BY <1>3, KnownsAre
<1>7. IsParsedBy(1, <<>>) /\ Told(<<>>) = {}
    BY EmptyIsList DEF IsParsedBy, Told
<1>8. /\ IsParsedBy(1, Combined(<<>>, Knowns(all)))
      /\ Told(Combined(<<>>, Knowns(all))) = Told(Knowns(all))
  <2>1. \A e \in Range(Knowns(all)) : IsSense(e)
      BY <1>5, <1>6
  <2>2. /\ IsParsedBy(1, Combined(<<>>, Knowns(all)))
        /\ Told(Combined(<<>>, Knowns(all))) = Told(<<>>) \cup Told(Knowns(all))
      BY <1>6, <1>7, <2>1, CombinedTells
  <2> QED BY <1>7, <2>2
<1>9. Told(Knowns(all)) = UNION {FactsOf(e) : e \in Range(all) \ {None}}
    BY <1>6 DEF Told
<1> QED BY <1>1, <1>4, <1>8, <1>9

(* So the same is told of originals of which dedup keeps the same. *)
LEMMA SameTold ==
    ASSUME NoneIsApart, NEW d \in IsmailovSlugs, NEW a, NEW b, IsList(a), IsList(b),
           Range(b) \subseteq Range(a), Range(Dedup(a)) = Range(Dedup(b)),
           d = "ismailov-nah-ru" => AreCeRu(a), d = "ismailov-ru-nah" => AreRuCe(a)
    PROVE  Told(ParseDictionary(d, a)) = Told(ParseDictionary(d, b))
<1>1. ASSUME NEW s, IsList(s), Range(s) \subseteq Range(a)
      PROVE  /\ IsList(Dedup(s))
             /\ d = "ismailov-nah-ru" => AreCeRu(Dedup(s))
             /\ d = "ismailov-ru-nah" => AreRuCe(Dedup(s))
  <2>1. IsList(Dedup(s)) /\ Range(Dedup(s)) \subseteq Range(a)
      BY <1>1, DedupKeeps
  <2> QED BY <2>1 DEF AreCeRu, AreRuCe
<1>2. CASE d = "ismailov-nah-ru"
  <2>1. ASSUME NEW s
        PROVE  ParseDictionary(d, s) = Combined(<<>>, ParseEach(IsmailovCeRuArticle, Dedup(s)))
    <3>1. ParseDictionary(d, s) = ParseIsmailovCeRu(s)
        BY <1>2 DEF ParseDictionary
    <3> QED BY <3>1 DEF ParseIsmailovCeRu, Combined
  <2> QED BY <1>1, <1>2, <2>1, CeRuTells
<1>3. CASE d = "ismailov-ru-nah"
  <2>1. ASSUME NEW s
        PROVE  ParseDictionary(d, s) =
                   FoldLeft(LAMBDA sofar, x : FoldLeft(AddByClass, sofar, SensesOf(x)),
                            <<>>, Dedup(s))
    <3>1. ParseDictionary(d, s) = ParseIsmailovRuCe(s)
        BY <1>3 DEF ParseDictionary
    <3> QED BY <3>1 DEF ParseIsmailovRuCe, SensesOf
  <2> QED BY <1>1, <1>3, <2>1, RuCeTells
<1> QED BY <1>2, <1>3 DEF IsmailovSlugs

----------------------------------------------------------------------------
(* The parsers make entries. *)

(* The article of the dictionaries that are not deduplicated. *)
WholeArticle(d, x) ==
    CASE d = "abdurashidov" -> AbdurashidovArticle(x)
      [] d = "collected" -> CollectedArticle(x)
      [] d = "neologisms" -> NeologismArticle(x)

(* Their parsers take the entries of all articles. *)
LEMMA ParsedAsTheyAre ==
    ASSUME NEW d \in HandWritten, NEW raws
    PROVE  ParseDictionary(d, raws) =
               Knowns([i \in DOMAIN raws |-> WholeArticle(d, raws[i])])
<1>1. CASE d = "abdurashidov"
  <2>1. ParseDictionary(d, raws) = ParseAbdurashidov(raws)
      BY <1>1 DEF ParseDictionary
  <2>2. \A x : WholeArticle(d, x) = AbdurashidovArticle(x)
      BY <1>1 DEF WholeArticle
  <2> QED BY <2>1, <2>2 DEF ParseAbdurashidov, ParseEach, Knowns
<1>2. CASE d = "collected"
  <2>1. ParseDictionary(d, raws) = ParseCollected(raws)
      BY <1>2 DEF ParseDictionary
  <2>2. \A x : WholeArticle(d, x) = CollectedArticle(x)
      BY <1>2 DEF WholeArticle
  <2> QED BY <2>1, <2>2 DEF ParseCollected, ParseEach, Knowns
<1>3. CASE d = "neologisms"
  <2>1. ParseDictionary(d, raws) = ParseNeologisms(raws)
      BY <1>3 DEF ParseDictionary
  <2>2. \A x : WholeArticle(d, x) = NeologismArticle(x)
      BY <1>3 DEF WholeArticle
  <2> QED BY <2>1, <2>2 DEF ParseNeologisms, ParseEach, Knowns
<1> QED BY <1>1, <1>2, <1>3 DEF HandWritten

(* The article of a dictionary whose articles are parsed one by one is an  *)
(* entry, if it has one at all,                                            *)
LEMMA ArticleIsParsed ==
    ASSUME NEW d \in Slug \ (HandWritten \cup IsmailovSlugs), NEW x, IsMarkup(d, x),
           ArticleEntry(d, x) # None
    PROVE  IsParsedEntry(1, ArticleEntry(d, x))
<1>1. CASE d = "karasaev-maciev-ru-nah"
    BY <1>1, KarasaevIsParsed DEF IsMarkup, ArticleEntry
<1>2. CASE d = "daukaev-ru-nah"
    BY <1>2, DaukaevIsParsed DEF IsMarkup, ArticleEntry
<1>3. CASE d = "umarhadjiev-ahmatukaev"
    BY <1>3, UmarhadjievIsParsed DEF IsMarkup, ArticleEntry
<1>4. CASE d \in {"nah-ru-anatomy", "ru-nah-anatomy"}
    BY <1>4, AnatomyIsParsed DEF IsMarkup, ArticleEntry
<1>5. CASE d = "nah-ru-computer"
    BY <1>5, ComputerIsParsed DEF IsMarkup, ArticleEntry
<1>6. CASE d = "aslahanov-ru-nah"
    BY <1>6, AslahanovIsParsed DEF IsMarkup, ArticleEntry
<1> QED BY <1>1, <1>2, <1>3, <1>4, <1>5, <1>6 DEF Slug, HandWritten, IsmailovSlugs

(* and so is that of the others. *)
LEMMA WholeIsParsed ==
    ASSUME NEW d \in HandWritten, NEW x, IsMarkup(d, x), WholeArticle(d, x) # None
    PROVE  IsParsedEntry(0, WholeArticle(d, x))
<1>1. CASE d = "abdurashidov"
    BY <1>1, LawCeRuIsParsed, LawRuCeIsParsed DEF IsMarkup, WholeArticle, AbdurashidovArticle
<1>2. CASE d = "collected"
    BY <1>2, CollectedIsParsed DEF IsMarkup, WholeArticle
<1>3. CASE d = "neologisms"
    BY <1>3, CollectedIsParsed DEF IsMarkup, WholeArticle
<1> QED BY <1>1, <1>2, <1>3 DEF HandWritten

(* The entries of articles are what parsing promises. *)
LEMMA EntriesAreParsed ==
    ASSUME NEW k, NEW s, IsList(s), NEW all, all = [i \in DOMAIN s |-> all[i]],
           \A i \in DOMAIN s : all[i] # None => IsParsedEntry(k, all[i])
    PROVE  IsParsedBy(k, Knowns(all))
<1>1. DOMAIN s = 1 .. Len(s) /\ Len(s) \in Nat
    BY ListIsSeq
<1>2. IsList(all) /\ DOMAIN all = DOMAIN s
  <2>1. all = [i \in 1 .. Len(s) |-> all[i]]
      BY <1>1
  <2> QED BY <1>1, <2>1, FunctionIsList
<1>3. IsList(Knowns(all)) /\ Range(Knowns(all)) = Range(all) \ {None}
    BY <1>2, KnownsAre
<1>4. \A e \in Range(all) \ {None} : IsParsedEntry(k, e)
    BY <1>2 DEF Range
<1> QED BY <1>3, <1>4 DEF IsParsedBy

(* Whatever articles a dictionary has, if their markup is what its parser  *)
(* looks for, what is parsed is a list of entries: every field is there or *)
(* absent, and every meaning has a text. No list of examples, phrases or   *)
(* citations is there and empty, but for the dictionaries of HandWritten.  *)
THEOREM ParsersMakeEntries ==
    ASSUME NoneIsApart, NEW d \in Slug, NEW raws, IsList(raws),
           \A x \in Range(raws) : IsMarkup(d, x)
    PROVE  /\ IsParsed(ParseDictionary(d, raws))
           /\ d \notin HandWritten =>
                  \A e \in Range(ParseDictionary(d, raws)) : NoEmptyList(e)
<1>1. /\ IsList(Dedup(raws)) /\ Range(Dedup(raws)) \subseteq Range(raws)
      /\ \A i \in DOMAIN Dedup(raws) : IsMarkup(d, Dedup(raws)[i])
    BY DedupKeeps DEF Range
<1>2. ASSUME d \in HandWritten
      PROVE  IsParsedBy(0, ParseDictionary(d, raws))
  <2> DEFINE all == [i \in DOMAIN raws |-> WholeArticle(d, raws[i])]
  <2>1. ParseDictionary(d, raws) = Knowns(all)
      BY <1>2, ParsedAsTheyAre
  <2>2. ASSUME NEW i \in DOMAIN raws, all[i] # None PROVE IsParsedEntry(0, all[i])
    <3>1. all[i] = WholeArticle(d, raws[i]) /\ IsMarkup(d, raws[i])
        BY DEF Range
    <3> HIDE DEF all
    <3> QED BY <1>2, <2>2, <3>1, WholeIsParsed
  <2>3. all = [i \in DOMAIN raws |-> all[i]]
      OBVIOUS
  <2> HIDE DEF all
  <2> QED BY <2>1, <2>2, <2>3, EntriesAreParsed
<1>3. ASSUME d \notin HandWritten \cup IsmailovSlugs
      PROVE  IsParsedBy(1, ParseDictionary(d, raws))
  <2> DEFINE D == Dedup(raws)
             all == [i \in DOMAIN D |-> ArticleEntry(d, D[i])]
  <2>1. ParseDictionary(d, raws) = Knowns(all)
      BY <1>3, ParsedOneByOne
  <2>2. ASSUME NEW i \in DOMAIN D, all[i] # None PROVE IsParsedEntry(1, all[i])
    <3>1. all[i] = ArticleEntry(d, D[i]) /\ IsMarkup(d, D[i])
        BY <1>1
    <3> HIDE DEF all, D
    <3> QED BY <1>3, <2>2, <3>1, ArticleIsParsed
  <2>3. IsList(D) /\ all = [i \in DOMAIN D |-> all[i]]
      BY <1>1
  <2> HIDE DEF all, D
  <2> QED BY <2>1, <2>2, <2>3, EntriesAreParsed
<1>4. ASSUME d = "ismailov-nah-ru"
      PROVE  IsParsedBy(1, ParseDictionary(d, raws))
  <2>1. ParseDictionary(d, raws) = Combined(<<>>, ParseEach(IsmailovCeRuArticle, Dedup(raws)))
    <3>1. ParseDictionary(d, raws) = ParseIsmailovCeRu(raws)
        BY <1>4 DEF ParseDictionary
    <3> QED BY <3>1 DEF ParseIsmailovCeRu, Combined
  <2>2. AreCeRu(Dedup(raws))
    <3>1. \A x \in Range(raws) : IsText(x.text.gloss) /\ IsList(x.text.pairs)
        BY <1>4 DEF IsMarkup
    <3> QED BY <1>1, <3>1 DEF AreCeRu
  <2> QED BY <1>1, <2>1, <2>2, CeRuTells
<1>5. ASSUME d = "ismailov-ru-nah"
      PROVE  IsParsedBy(1, ParseDictionary(d, raws))
  <2>1. ParseDictionary(d, raws) =
            FoldLeft(LAMBDA sofar, x : FoldLeft(AddByClass, sofar, SensesOf(x)),
                     <<>>, Dedup(raws))
    <3>1. ParseDictionary(d, raws) = ParseIsmailovRuCe(raws)
        BY <1>5 DEF ParseDictionary
    <3> QED BY <3>1 DEF ParseIsmailovRuCe, SensesOf
  <2>2. AreRuCe(Dedup(raws))
    <3>1. \A x \in Range(raws) : IsList(x.text) /\ \A m \in Range(x.text) : IsText(m.gloss)
        BY <1>5 DEF IsMarkup
    <3> QED BY <1>1, <3>1 DEF AreRuCe
  <2> QED BY <1>1, <2>1, <2>2, RuCeTells
<1>6. \A k, entries : IsParsedBy(k, entries) => IsParsed(entries)
    BY DEF IsParsedBy, IsParsedEntry, IsParsed
<1>7. \A entries : IsParsedBy(1, entries) => \A e \in Range(entries) : NoEmptyList(e)
  <2>1. None # <<>>
      BY EmptyIsList DEF NoneIsApart
  <2> QED BY <2>1 DEF IsParsedBy, IsParsedEntry, Full, NoEmptyList
<1>8. d \notin HandWritten => IsParsedBy(1, ParseDictionary(d, raws))
    BY <1>3, <1>4, <1>5 DEF IsmailovSlugs
<1> QED BY <1>2, <1>6, <1>7, <1>8

==============================================================================
