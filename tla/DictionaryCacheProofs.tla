------------------------ MODULE DictionaryCacheProofs ------------------------
(***************************************************************************)
(* Theorems about DictionaryCache, for every set of keys, readers and      *)
(* writers and every TTL.                                                  *)
(*                                                                         *)
(* The invariant bounds what an answer has been wrong for and what it has  *)
(* left to live together (Aging), and finds for every stale answer that is *)
(* not excused an invalidation that will still come by (Pursued).          *)
(***************************************************************************)
EXTENDS DictionaryCache, TLAPS

(* An answer ages one tick while it loses one of its life; a read has been *)
(* wrong no longer than it has been at it.                                 *)
Aging ==
    /\ \A k \in Key : cache[k] # None => cache[k].age + cache[k].left <= Lifetime(k) + MaxRead
    /\ \A r \in Reader : reading[r].age <= reading[r].busy

(* The keys an invalidation has not seen yet hold every stale answer that  *)
(* is not excused.                                                         *)
Pursued ==
    \A k \in Key : cache[k] # None /\ ~cache[k].fresh /\ ~cache[k].excused =>
        \E w \in Writer : scan[w] # None /\ k \in scan[w]

Inv == TypeOK /\ Aging /\ Pursued

LEMMA Numbers ==
    /\ TTL \in Nat \ {0} /\ MinTTL \in Nat \ {0} /\ Day \in Nat \ {0} /\ MaxRead \in Nat
    /\ TTL <= Day /\ MinTTL <= Day
    /\ MaxAge \in Nat /\ MaxAge = Day + MaxRead
BY TimeAssumption DEF MaxAge

(* What is stored lives at least a tick, and no longer than its key may.   *)
LEMMA TtlBounds ==
    ASSUME untilMidnight \in 1 .. Day, NEW k \in Key
    PROVE  TtlOf(k) \in Nat \ {0} /\ TtlOf(k) <= Lifetime(k) /\ Lifetime(k) \in Nat
BY Numbers DEF TtlOf, Lifetime

LEMMA OlderRows ==
    /\ \A a \in Cached : Older(a) \in Cached /\ Older(a).age <= a.age + 1 /\ Older(a).left = a.left
                         /\ Older(a).fresh = a.fresh /\ Older(a).excused = a.excused
    /\ \A a \in Read : Older(a) \in Read /\ Older(a).age <= a.age + 1 /\ Older(a).busy = a.busy
                       /\ Older(a).key = a.key
<1>1. ASSUME NEW a \in Cached
      PROVE  Older(a) \in Cached /\ Older(a).age <= a.age + 1 /\ Older(a).left = a.left
             /\ Older(a).fresh = a.fresh /\ Older(a).excused = a.excused
  BY <1>1, Numbers DEF Cached, Older, Ages
<1>2. ASSUME NEW a \in Read
      PROVE  Older(a) \in Read /\ Older(a).age <= a.age + 1 /\ Older(a).busy = a.busy
             /\ Older(a).key = a.key
  BY <1>2, Numbers DEF Read, Older, Ages
<1> QED
  BY <1>1, <1>2

LEMMA NoReadIsRead == NoRead \in Read /\ NoRead.age <= NoRead.busy
BY Numbers DEF NoRead, Read, Ages

LEMMA InitInv == Init => Inv
<1> SUFFICES ASSUME Init PROVE Inv
  OBVIOUS
<1>1. TypeOK
  BY NoReadIsRead DEF Init, TypeOK
<1>2. Aging
  BY NoReadIsRead DEF Init, Aging
<1>3. Pursued
  BY DEF Init, Pursued
<1> QED
  BY <1>1, <1>2, <1>3 DEF Inv

----------------------------------------------------------------------------
(* Steps that write neither the cache nor the scans.                       *)

LEMMA OnlyReading ==
    ASSUME Inv, UNCHANGED <<cache, untilMidnight, scan>>, NEW r \in Reader, NEW read \in Read,
           reading' = [reading EXCEPT ![r] = read], read.age <= read.busy
    PROVE  Inv'
<1>1. TypeOK'
  BY DEF Inv, TypeOK
<1>2. Aging'
  BY DEF Inv, TypeOK, Aging
<1>3. Pursued'
  BY DEF Inv, Pursued
<1> QED
  BY <1>1, <1>2, <1>3 DEF Inv

LEMMA ReceiveKeeps ==
    ASSUME Inv, NEW r \in Reader, NEW k \in Key, Receive(r, k)
    PROVE  Inv'
<1> DEFINE read == [NoRead EXCEPT !.stage = "get", !.key = k]
<1>1. read \in Read /\ read.age <= read.busy
  BY NoReadIsRead DEF Read
<1> HIDE DEF read
<1> QED
  BY <1>1, OnlyReading DEF Receive, read

LEMMA ReadStepKeeps ==
    ASSUME Inv, NEW r \in Reader, Hit(r) \/ Query(r) \/ Answered(r) \/ SetFails(r)
    PROVE  Inv'
<1>0. reading[r] \in Read /\ reading[r].age <= reading[r].busy
  BY DEF Inv, TypeOK, Aging
<1>1. CASE reading' = [reading EXCEPT ![r] = NoRead]
  <2>1. UNCHANGED <<cache, untilMidnight, scan>>
    BY DEF Hit, Query, Answered, SetFails
  <2> QED
    BY <1>1, <2>1, NoReadIsRead, OnlyReading
<1>2. CASE Query(r) /\ reading' = [reading EXCEPT ![r].stage = "query", ![r].fresh = TRUE]
  <2> DEFINE read == [reading[r] EXCEPT !.stage = "query", !.fresh = TRUE]
  <2>1. read \in Read /\ read.age <= read.busy
    BY <1>0 DEF Read
  <2>2. reading' = [reading EXCEPT ![r] = read]
    BY <1>2 DEF Inv, TypeOK
  <2> HIDE DEF read
  <2> QED
    BY <1>2, <2>1, <2>2, OnlyReading DEF Query
<1>3. CASE Answered(r)
  <2> DEFINE read == [reading[r] EXCEPT !.stage = "set"]
  <2>1. read \in Read /\ read.age <= read.busy
    BY <1>0 DEF Read
  <2>2. reading' = [reading EXCEPT ![r] = read]
    BY <1>3 DEF Answered
  <2> HIDE DEF read
  <2> QED
    BY <1>3, <2>1, <2>2, OnlyReading DEF Answered
<1> QED
  BY <1>1, <1>2, <1>3 DEF Hit, Query, SetFails

(* SET: the answer has been wrong no longer than the read took. *)
LEMMA SetKeeps ==
    ASSUME Inv, NEW r \in Reader, SetCache(r)
    PROVE  Inv'
<1>0. /\ reading[r] \in Read /\ reading[r].age <= reading[r].busy
      /\ cache \in [Key -> Cached \cup {None}]
      /\ untilMidnight \in 1 .. Day
  BY DEF Inv, TypeOK, Aging
<1>1. ASSUME NEW k \in Key
      PROVE  LET a == [fresh |-> reading[r].fresh, age |-> reading[r].age,
                       left |-> TtlOf(k), excused |-> ~reading[r].fresh]
             IN  a \in Cached /\ a.age + a.left <= Lifetime(k) + MaxRead
  BY <1>0, TtlBounds, Numbers DEF Cached, Read, Ages
<1>2. \A k \in Key :
          \/ cache'[k] = cache[k]
          \/ /\ cache'[k] \in Cached /\ cache'[k].age + cache'[k].left <= Lifetime(k) + MaxRead
             /\ cache'[k].excused = ~cache'[k].fresh
  BY <1>1 DEF SetCache
<1>3. TypeOK'
  <2>1. cache' \in [Key -> Cached \cup {None}]
    BY <1>0, <1>1 DEF SetCache
  <2> QED
    BY <2>1, NoReadIsRead DEF SetCache, Inv, TypeOK
<1>4. Aging'
  BY <1>2, NoReadIsRead DEF SetCache, Inv, TypeOK, Aging
<1>5. Pursued'
  BY <1>0, <1>2 DEF SetCache, Inv, Pursued, Cached
<1> QED
  BY <1>3, <1>4, <1>5 DEF Inv

----------------------------------------------------------------------------
(* Writes and invalidations.                                               *)

LEMMA SupersedeKeeps ==
    ASSUME TypeOK, Aging, NEW changed \in SUBSET Key, NEW excuse \in BOOLEAN,
           Supersede(changed, excuse)
    PROVE  /\ cache' \in [Key -> Cached \cup {None}]
           /\ reading' \in [Reader -> Read]
           /\ Aging'
           /\ \A k \in Key : /\ cache'[k] = None <=> cache[k] = None
                             /\ cache'[k] # None =>
                                    \/ cache'[k].fresh = cache[k].fresh
                                       /\ cache'[k].excused = cache[k].excused
                                    \/ excuse => cache'[k].excused
<1>0. /\ cache \in [Key -> Cached \cup {None}] /\ None \notin Cached
      /\ reading \in [Reader -> Read]
  BY NoneAssumption DEF TypeOK
<1>1. ASSUME NEW a \in Cached
      PROVE  LET b == [Superseded(a) EXCEPT !.excused = @ \/ excuse]
             IN  /\ b \in Cached /\ b.age = a.age /\ b.left = a.left
                 /\ excuse => b.excused
  BY DEF Superseded, Cached
<1>2. ASSUME NEW a \in Read
      PROVE  Superseded(a) \in Read /\ Superseded(a).age = a.age /\ Superseded(a).busy = a.busy
  BY DEF Superseded, Read
<1>3. \A k \in Key :
          \/ cache'[k] = cache[k]
          \/ /\ cache[k] \in Cached /\ cache'[k] \in Cached
             /\ cache'[k].age = cache[k].age /\ cache'[k].left = cache[k].left
             /\ excuse => cache'[k].excused
  BY <1>0, <1>1 DEF Supersede
<1>4. \A r \in Reader :
          /\ reading'[r] \in Read
          /\ reading'[r].age = reading[r].age /\ reading'[r].busy = reading[r].busy
  BY <1>0, <1>2 DEF Supersede
<1>5. cache' \in [Key -> Cached \cup {None}]
  BY <1>0, <1>1 DEF Supersede
<1>6. reading' \in [Reader -> Read]
  BY <1>0, <1>2 DEF Supersede
<1>7. Aging'
  BY <1>0, <1>3, <1>4 DEF Aging, Lifetime
<1> QED
  BY <1>0, <1>3, <1>5, <1>6, <1>7

LEMMA WriteKeeps ==
    ASSUME Inv, NEW w \in Writer, NEW changed \in SUBSET Key, Write(w, changed)
    PROVE  Inv'
<1>1. /\ cache' \in [Key -> Cached \cup {None}] /\ reading' \in [Reader -> Read] /\ Aging'
  BY SupersedeKeeps DEF Inv, Write
<1>2. scan' \in [Writer -> (SUBSET Key) \cup {None}] /\ scan'[w] = Key /\ Key # None
  BY NoneAssumption DEF Inv, TypeOK, Write
<1>3. TypeOK'
  BY <1>1, <1>2 DEF Inv, TypeOK, Write
<1>4. Pursued'
  BY <1>2 DEF Pursued
<1> QED
  BY <1>1, <1>3, <1>4 DEF Inv

LEMMA WriteUnannouncedKeeps ==
    ASSUME Inv, NEW changed \in SUBSET Key, WriteUnannounced(changed)
    PROVE  Inv'
<1>1. /\ cache' \in [Key -> Cached \cup {None}] /\ reading' \in [Reader -> Read] /\ Aging'
      /\ \A k \in Key : /\ cache'[k] = None <=> cache[k] = None
                        /\ cache'[k] # None =>
                               \/ cache'[k].fresh = cache[k].fresh
                                  /\ cache'[k].excused = cache[k].excused
                               \/ cache'[k].excused
  BY SupersedeKeeps DEF Inv, WriteUnannounced
<1>2. TypeOK'
  BY <1>1 DEF Inv, TypeOK, WriteUnannounced
<1>3. Pursued'
  BY <1>1 DEF Inv, Pursued, WriteUnannounced
<1> QED
  BY <1>1, <1>2, <1>3 DEF Inv

LEMMA ScanKeeps ==
    ASSUME Inv, NEW w \in Writer, Scan(w)
    PROVE  Inv'
<1>0. /\ cache \in [Key -> Cached \cup {None}]
      /\ scan \in [Writer -> (SUBSET Key) \cup {None}]
  BY DEF Inv, TypeOK
<1>1. PICK page \in SUBSET Key :
          /\ scan[w] # None /\ page \subseteq scan[w]
          /\ scan' = [scan EXCEPT ![w] = IF page = scan[w] THEN None ELSE @ \ page]
          /\ cache' = [k \in Key |-> IF k \in page THEN None ELSE cache[k]]
          /\ UNCHANGED <<untilMidnight, reading>>
  BY DEF Scan
<1>2. \A k \in Key : cache'[k] # None => cache'[k] = cache[k] /\ k \notin page
  BY <1>1
<1>3. scan[w] \in SUBSET Key
  <2>1. scan[w] # None
    BY <1>1
  <2> QED
    BY <1>0, <2>1
<1>4. page # scan[w] => scan'[w] = scan[w] \ page /\ scan'[w] # None
  BY <1>0, <1>1, <1>3, NoneAssumption
<1>5. TypeOK'
  <2>1. cache' \in [Key -> Cached \cup {None}]
    BY <1>0, <1>1
  <2>2. scan[w] \ page \in SUBSET Key
    BY <1>3
  <2>3. scan' \in [Writer -> (SUBSET Key) \cup {None}]
    BY <1>0, <1>1, <2>2
  <2> QED
    BY <1>1, <2>1, <2>3 DEF Inv, TypeOK
<1>6. Aging'
  BY <1>1, <1>2 DEF Inv, Aging, Lifetime
<1>7. Pursued'
  <2> SUFFICES ASSUME NEW k \in Key, cache'[k] # None, ~cache'[k].fresh, ~cache'[k].excused
               PROVE  \E v \in Writer : scan'[v] # None /\ k \in scan'[v]
    BY DEF Pursued
  <2>1. PICK v \in Writer : scan[v] # None /\ k \in scan[v]
    BY <1>2 DEF Inv, Pursued
  <2>2. k \notin page
    BY <1>2
  <2>3. CASE v = w
    BY <1>4, <2>1, <2>2, <2>3
  <2>4. CASE v # w
    BY <1>0, <1>1, <2>1, <2>4
  <2> QED
    BY <2>3, <2>4
<1> QED
  BY <1>5, <1>6, <1>7 DEF Inv

LEMMA ScanFailsKeeps ==
    ASSUME Inv, NEW w \in Writer, ScanFails(w)
    PROVE  Inv'
<1>0. /\ cache \in [Key -> Cached \cup {None}]
      /\ scan \in [Writer -> (SUBSET Key) \cup {None}]
  BY DEF Inv, TypeOK
<1>1. ASSUME NEW a \in Cached
      PROVE  LET b == [a EXCEPT !.excused = TRUE]
             IN  b \in Cached /\ b.age = a.age /\ b.left = a.left /\ b.excused
  BY DEF Cached
<1>2. \A k \in Key :
          \/ cache'[k] = None
          \/ /\ cache[k] \in Cached /\ cache'[k] \in Cached
             /\ cache'[k].age = cache[k].age /\ cache'[k].left = cache[k].left
             /\ cache'[k].excused
  BY <1>0, <1>1 DEF ScanFails
<1>3. cache' \in [Key -> Cached \cup {None}]
  BY <1>0, <1>1 DEF ScanFails
<1>4. TypeOK'
  <2>1. scan' \in [Writer -> (SUBSET Key) \cup {None}]
    BY <1>0 DEF ScanFails
  <2> QED
    BY <1>3, <2>1 DEF ScanFails, Inv, TypeOK
<1>5. Aging'
  BY <1>2, NoneAssumption DEF ScanFails, Inv, Aging, Lifetime
<1>6. Pursued'
  BY <1>2 DEF Pursued
<1> QED
  BY <1>4, <1>5, <1>6 DEF Inv

----------------------------------------------------------------------------
(* Time.                                                                   *)

LEMMA TickKeeps ==
    ASSUME Inv, Tick
    PROVE  Inv'
<1>0. /\ cache \in [Key -> Cached \cup {None}] /\ None \notin Cached
      /\ reading \in [Reader -> Read]
      /\ untilMidnight \in 1 .. Day
  BY NoneAssumption DEF Inv, TypeOK
<1>1. ASSUME NEW a \in Cached, a.left # 1
      PROVE  LET b == [Older(a) EXCEPT !.left = @ - 1]
             IN  /\ b \in Cached /\ b.age + b.left <= a.age + a.left
                 /\ b.fresh = a.fresh /\ b.excused = a.excused
  <2>1. PICK o \in Cached : /\ o = Older(a) /\ o.age <= a.age + 1 /\ o.left = a.left
                            /\ o.fresh = a.fresh /\ o.excused = a.excused
    BY OlderRows
  <2>2. a.left \in Nat /\ a.age \in Nat /\ o.age \in Nat /\ a.left >= 2
    BY <1>1, Numbers DEF Cached, Ages
  <2>3. LET b == [o EXCEPT !.left = @ - 1]
        IN  /\ b \in Cached /\ b.age = o.age /\ b.left = o.left - 1
            /\ b.fresh = o.fresh /\ b.excused = o.excused
    BY <2>1, <2>2 DEF Cached
  <2> QED
    BY <2>1, <2>2, <2>3
<1>2. \A k \in Key :
          \/ cache'[k] = None
          \/ /\ cache[k] \in Cached /\ cache'[k] \in Cached
             /\ cache'[k].age + cache'[k].left <= cache[k].age + cache[k].left
             /\ cache'[k].fresh = cache[k].fresh /\ cache'[k].excused = cache[k].excused
  BY <1>0, <1>1 DEF Tick, Expire
<1>3. cache' \in [Key -> Cached \cup {None}]
  BY <1>2 DEF Tick
<1>4. ASSUME NEW r \in Reader
      PROVE  reading'[r] \in Read /\ reading'[r].age <= reading'[r].busy
  <2>1. CASE reading[r].stage = "idle"
    BY <1>0, <2>1 DEF Tick, Inv, Aging
  <2>2. CASE reading[r].stage # "idle"
    <3>1. PICK o \in Read : /\ o = Older(reading[r]) /\ o.age <= reading[r].age + 1
                            /\ o.busy = reading[r].busy /\ o.key = reading[r].key
      BY <1>0, OlderRows
    <3> DEFINE m == untilMidnight = 1
               b == [o EXCEPT !.busy = @ + 1, !.key = IF m /\ @ = WordOfDay THEN None ELSE @]
    <3>2. reading'[r] = b
      BY <2>2, <3>1 DEF Tick
    <3>3. o.busy < MaxRead /\ reading[r].age <= reading[r].busy
      BY <2>2, <3>1 DEF Tick, Inv, Aging
    <3>4. b \in Read /\ b.busy = o.busy + 1 /\ b.age = o.age
      <4>1. o.busy + 1 \in 0 .. MaxRead
        BY <3>3, Numbers DEF Read
      <4>2. (IF m /\ o.key = WordOfDay THEN None ELSE o.key) \in Key \cup {None}
        BY DEF Read
      <4> QED
        BY <4>1, <4>2 DEF Read
    <3>5. o.age \in Nat /\ o.busy \in Nat /\ reading[r].age \in Nat
      BY <1>0, Numbers DEF Read, Ages
    <3> HIDE DEF b
    <3> QED
      BY <3>1, <3>2, <3>3, <3>4, <3>5
  <2> QED
    BY <2>1, <2>2
<1>5. reading' \in [Reader -> Read]
  BY <1>4 DEF Tick
<1>6. untilMidnight' \in 1 .. Day
  <2>1. untilMidnight' = IF untilMidnight = 1 THEN Day ELSE untilMidnight - 1
    BY DEF Tick
  <2> QED
    BY <1>0, <2>1, Numbers
<1>7. TypeOK'
  BY <1>3, <1>5, <1>6 DEF Tick, Inv, TypeOK
<1>8. Aging'
  <2>1. ASSUME NEW k \in Key, cache'[k] # None
        PROVE  cache'[k].age + cache'[k].left <= Lifetime(k) + MaxRead
    <3>1. /\ cache[k] \in Cached /\ cache'[k] \in Cached
          /\ cache'[k].age + cache'[k].left <= cache[k].age + cache[k].left
          /\ cache[k].age + cache[k].left <= Lifetime(k) + MaxRead
      BY <1>0, <1>2, <2>1 DEF Inv, Aging
    <3>2. Lifetime(k) \in Nat
      BY <1>0, TtlBounds
    <3> QED
      BY <3>1, <3>2, Numbers DEF Cached, Ages
  <2> QED
    BY <1>4, <2>1 DEF Aging, Lifetime
<1>9. Pursued'
  BY <1>0, <1>2 DEF Tick, Inv, Pursued
<1> QED
  BY <1>7, <1>8, <1>9 DEF Inv

LEMMA NextInv == Inv /\ [Next]_vars => Inv'
<1> SUFFICES ASSUME Inv, [Next]_vars PROVE Inv'
  OBVIOUS
<1>1. CASE UNCHANGED vars
  BY <1>1 DEF vars, Inv, TypeOK, Aging, Pursued
<1>2. CASE AnyWrite
  BY <1>2, WriteKeeps, WriteUnannouncedKeeps DEF AnyWrite
<1>3. CASE \E w \in Writer : Scan(w) \/ ScanFails(w)
  BY <1>3, ScanKeeps, ScanFailsKeeps
<1>4. CASE \E r \in Reader : ReaderStep(r)
  BY <1>4, ReadStepKeeps, SetKeeps DEF ReaderStep
<1>5. CASE \E r \in Reader, k \in Key : Receive(r, k)
  BY <1>5, ReceiveKeeps
<1> QED
  BY <1>1, <1>2, <1>3, <1>4, <1>5, TickKeeps DEF Next

----------------------------------------------------------------------------
(* The theorems.                                                           *)

(* The inductive invariant. *)
THEOREM InvHolds == Spec => []Inv
BY InitInv, NextInv, PTL DEF Spec

(* Every variable holds a value of its kind; nothing is stored without a   *)
(* time to live (TtlOf: Math.max(ttl, 60)).                                *)
THEOREM TypeCorrect == Spec => []TypeOK
<1>1. Inv => TypeOK
  BY DEF Inv
<1> QED
  BY <1>1, InvHolds, PTL

(* What the cache serves has been wrong for less than the TTL of its key   *)
(* and the time a read takes, for every TTL, day and number of readers and *)
(* writers (getCache, setCache, invalidateCache and what bypasses them).   *)
THEOREM StalenessIsBounded == Spec => []BoundedStaleness
<1>1. Inv => BoundedStaleness
  <2> SUFFICES ASSUME Inv, NEW k \in Key, cache[k] # None
               PROVE  cache[k].age < Lifetime(k) + MaxRead
    BY DEF BoundedStaleness
  <2>1. cache[k] \in Cached /\ cache[k].age + cache[k].left <= Lifetime(k) + MaxRead
    BY DEF Inv, TypeOK, Aging
  <2>2. Lifetime(k) \in Nat
    BY Numbers DEF Lifetime
  <2> QED
    BY <2>1, <2>2, Numbers DEF Cached, Ages
<1> QED
  BY <1>1, InvHolds, PTL

(* With no invalidation under way, only a read that was overtaken, a       *)
(* writer that does not invalidate, or a failure of Redis has left a stale *)
(* answer: invalidateCache itself misses none.                             *)
THEOREM StaleIsExcused == Spec => []StaleOnlyIfExcused
<1>1. Inv => StaleOnlyIfExcused
  BY DEF Inv, Pursued, StaleOnlyIfExcused
<1> QED
  BY <1>1, InvHolds, PTL
=============================================================================
