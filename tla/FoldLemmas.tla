----------------------------- MODULE FoldLemmas -----------------------------
(* What folds compute, for every list. The library defines FoldLeft by a   *)
(* CHOOSE of a function on sets of indices; here it is shown to be the end *)
(* of a run that goes through the list element by element. A module that   *)
(* proves something of a loop instantiates Op with the body of that loop.  *)
EXTENDS SequencesExt, TLAPS, WellFoundedInduction

CONSTANT Op(_, _, _)

(* The fold from the left of s, begun with base: Op takes a parameter c,   *)
(* what there is so far, and the next element.                             *)
FoldFrom(c, base, s) == FoldLeft(LAMBDA sofar, x : Op(c, sofar, x), base, s)

(* A set of natural numbers that is not empty has a least element. *)
LEMMA LeastNat ==
    ASSUME NEW T \in SUBSET Nat, T # {}
    PROVE  \E n \in T : \A m \in T : n <= m
<1> DEFINE R == {ss \in Nat \X Nat : ss[1] < ss[2]}
<1>1. IsWellFoundedOn(R, Nat)
    BY NatLessThanWellFounded DEF OpToRel
<1>2. PICK n \in T : \A m \in T : ~(<<m, n>> \in R)
  <2> HIDE DEF R
  <2> QED BY <1>1, WFMin
<1>3. ASSUME NEW m \in T PROVE n <= m
  <2>1. m \in Nat /\ n \in Nat
      OBVIOUS
  <2>2. CASE m < n
    <3>1. <<m, n>> \in Nat \X Nat
        BY <2>1
    <3> QED BY <1>2, <2>2, <3>1
  <2> QED BY <2>1, <2>2
<1> QED BY <1>3

(* Induction over the natural numbers, for a set instead of a predicate. *)
LEMMA SetInduction ==
    ASSUME NEW T, 0 \in T, \A n \in Nat : n \in T => n + 1 \in T
    PROVE  Nat \subseteq T
<1> SUFFICES ASSUME Nat \ T # {} PROVE FALSE
    OBVIOUS
<1>1. PICK n \in Nat \ T : \A m \in Nat \ T : n <= m
    BY LeastNat
<1> QED BY <1>1

(* FoldLeft is defined by a function g on the sets of indices of s, that   *)
(* takes the greatest index of a set last.                                 *)
IsIter(g, c, base, s, k) ==
    g = [t \in SUBSET (1 .. k) |->
            IF t = {} THEN base ELSE Op(c, g[t \ {Max(t)}], s[Max(t)])]

(* FoldLeft is the value of the one that CHOOSE takes, at the set of all   *)
(* indices.                                                                *)
LEMMA FoldIsIter ==
    \A c, base, s, k : DOMAIN s = 1 .. k =>
       FoldFrom(c, base, s) = (CHOOSE g : IsIter(g, c, base, s, k))[1 .. k]
BY DEF FoldFrom, FoldLeft, MapThenFoldSet, IsIter

(* The maximum of a set of indices is its greatest element. *)
LEMMA MaxOf ==
    ASSUME NEW k \in Nat, NEW t \in SUBSET (1 .. k), t # {}
    PROVE  Max(t) \in t /\ \A y \in t : y <= Max(t)
<1> DEFINE T == {k - x : x \in t}
<1>1. T \in SUBSET Nat /\ T # {}
  <2>1. \A x \in t : x \in 1 .. k /\ k - x \in Nat
      OBVIOUS
  <2> QED BY <2>1
<1>2. PICK n \in T : \A m \in T : n <= m
    BY <1>1, LeastNat
<1>3. PICK x \in t : n = k - x
    BY <1>2
<1>4. \A y \in t : x >= y
  <2> TAKE y \in t
  <2>1. k - x <= k - y
      BY <1>2, <1>3
  <2> QED BY <2>1
<1>5. Max(t) \in t /\ \A y \in t : Max(t) >= y
    BY <1>4 DEF Max
<1> QED BY <1>5

(* The greatest of the indices up to k + 1 is k + 1. *)
LEMMA MaxOfInterval ==
    ASSUME NEW k \in Nat
    PROVE  Max(1 .. k + 1) = k + 1
<1>1. Max(1 .. k + 1) \in 1 .. k + 1 /\ \A y \in 1 .. k + 1 : y <= Max(1 .. k + 1)
    BY MaxOf, k + 1 \in Nat, 1 .. k + 1 # {}
<1> QED BY <1>1

(* There is such a function for every length, by induction over it. *)
LEMMA IterExists ==
    ASSUME NEW c, NEW base, NEW s
    PROVE  \A k \in Nat : \E g : IsIter(g, c, base, s, k)
<1> DEFINE T == {k \in Nat : \E g : IsIter(g, c, base, s, k)}
<1>1. 0 \in T
  <2> DEFINE g == [t \in SUBSET (1 .. 0) |-> base]
  <2>1. SUBSET (1 .. 0) = {{}}
      OBVIOUS
  <2>2. IsIter(g, c, base, s, 0)
      BY <2>1 DEF IsIter
  <2> QED BY <2>2
<1>2. ASSUME NEW k \in Nat, k \in T PROVE k + 1 \in T
  <2>1. PICK g : IsIter(g, c, base, s, k)
      BY <1>2
  <2> DEFINE h == [t \in SUBSET (1 .. k + 1) |->
                      IF k + 1 \in t THEN Op(c, g[t \ {k + 1}], s[k + 1])
                      ELSE g[t]]
             Body(t) == IF t = {} THEN base
                        ELSE Op(c, h[t \ {Max(t)}], s[Max(t)])
  <2>2. ASSUME NEW t \in SUBSET (1 .. k + 1) PROVE h[t] = Body(t)
    <3>1. CASE k + 1 \in t
      <4>1. Max(t) \in t /\ \A y \in t : y <= Max(t)
          BY <3>1, MaxOf, k + 1 \in Nat
      <4>2. Max(t) = k + 1
        <5>1. Max(t) \in 1 .. k + 1 /\ k + 1 <= Max(t)
            BY <3>1, <4>1
        <5> QED BY <5>1
      <4>3. t \ {k + 1} \in SUBSET (1 .. k + 1) /\ k + 1 \notin t \ {k + 1}
          OBVIOUS
      <4>4. h[t \ {k + 1}] = g[t \ {k + 1}]
          BY <4>3
      <4> QED BY <3>1, <4>2, <4>4
    <3>2. CASE k + 1 \notin t
      <4>1. t \in SUBSET (1 .. k)
          BY <3>2
      <4>2. h[t] = g[t]
          BY <3>2
      <4>3. CASE t = {}
          BY <4>1, <4>2, <4>3, <2>1 DEF IsIter
      <4>4. CASE t # {}
        <5>1. t \ {Max(t)} \in SUBSET (1 .. k + 1) /\ k + 1 \notin t \ {Max(t)}
            BY <3>2
        <5>2. h[t \ {Max(t)}] = g[t \ {Max(t)}]
            BY <5>1
        <5>3. g[t] = Op(c, g[t \ {Max(t)}], s[Max(t)])
            BY <4>1, <4>4, <2>1 DEF IsIter
        <5> QED BY <4>2, <4>4, <5>2, <5>3
      <4> QED BY <4>3, <4>4
    <3> QED BY <3>1, <3>2
  <2>3. h = [t \in SUBSET (1 .. k + 1) |-> Body(t)]
    <3> HIDE DEF Body
    <3> QED BY <2>2
  <2>4. IsIter(h, c, base, s, k + 1)
    <3> HIDE DEF h
    <3> QED BY <2>3 DEF IsIter
  <2> QED BY <2>4
<1> QED BY <1>1, <1>2, SetInduction

(* r is a run of the loop that the fold is: what there is before it, and   *)
(* after each of the first n elements.                                     *)
IsRun(r, c, base, s, n) ==
    /\ r[0] = base
    /\ \A i \in 1 .. n : r[i] = Op(c, r[i - 1], s[i])

(* Every fold over a list is the end of a run, one element after the       *)
(* other in the order of the list: loops of the code are proved about by   *)
(* what holds after each element of a run.                                 *)
LEMMA FoldRuns ==
    \A c, base, s : \A n \in Nat : DOMAIN s = 1 .. n =>
        \E r : IsRun(r, c, base, s, n) /\ FoldFrom(c, base, s) = r[n]
<1> SUFFICES ASSUME NEW c, NEW base, NEW s, NEW n \in Nat, DOMAIN s = 1 .. n
             PROVE  \E r : IsRun(r, c, base, s, n) /\ FoldFrom(c, base, s) = r[n]
    OBVIOUS
<1> DEFINE g == CHOOSE g : IsIter(g, c, base, s, n)
           r == [i \in 0 .. n |-> g[1 .. i]]
<1>1. IsIter(g, c, base, s, n)
    BY IterExists
<1>2. FoldFrom(c, base, s) = g[1 .. n]
    BY FoldIsIter
<1> HIDE DEF g
<1>3. r[0] = base
  <2>1. 1 .. 0 = {} /\ 1 .. 0 \in SUBSET (1 .. n)
      OBVIOUS
  <2>2. g[1 .. 0] = base
      BY <1>1, <2>1 DEF IsIter
  <2> QED BY <2>2
<1>4. ASSUME NEW i \in 1 .. n PROVE r[i] = Op(c, r[i - 1], s[i])
  <2>1. i - 1 \in Nat /\ i = (i - 1) + 1 /\ i - 1 \in 0 .. n /\ i \in 0 .. n
      OBVIOUS
  <2>2. Max(1 .. i) = i
      BY <2>1, MaxOfInterval
  <2>3. 1 .. i \in SUBSET (1 .. n) /\ 1 .. i # {}
      OBVIOUS
  <2>4. (1 .. i) \ {i} = 1 .. i - 1
      OBVIOUS
  <2>5. g[1 .. i] = Op(c, g[(1 .. i) \ {i}], s[i])
      BY <1>1, <2>2, <2>3 DEF IsIter
  <2> QED BY <2>1, <2>4, <2>5
<1>5. FoldFrom(c, base, s) = r[n]
    BY <1>2
<1>6. IsRun(r, c, base, s, n)
  <2> HIDE DEF r
  <2> QED BY <1>3, <1>4 DEF IsRun
<1> QED BY <1>5, <1>6

----------------------------------------------------------------------------
(* Induction along a run. *)

(* What holds before a loop, and after an element if it did before it,     *)
(* holds all along.                                                        *)
LEMMA UpTo ==
    ASSUME NEW n \in Nat, NEW T, 0 \in T,
           \A i \in 1 .. n : i - 1 \in T => i \in T
    PROVE  \A i \in 0 .. n : i \in T
<1> DEFINE U == {i \in Nat : i <= n => i \in T}
<1>1. 0 \in U
    OBVIOUS
<1>2. ASSUME NEW i \in Nat, i \in U PROVE i + 1 \in U
  <2>1. CASE i + 1 <= n
    <3>1. i \in T /\ i + 1 \in 1 .. n /\ (i + 1) - 1 = i
        BY <1>2, <2>1
    <3> QED BY <3>1
  <2>2. CASE ~(i + 1 <= n)
      BY <2>2
  <2> QED BY <2>1, <2>2
<1>3. Nat \subseteq U
  <2> HIDE DEF U
  <2> QED BY <1>1, <1>2, SetInduction
<1> QED BY <1>3

=============================================================================
