--------------------------- MODULE DictionaryCache --------------------------
(***************************************************************************)
(* The Redis cache in front of the dictionary: DictionaryService reads     *)
(* through it under the keys dict:*, some writers of UnifiedEntry scan and *)
(* delete those keys, and the others leave them to expire.                 *)
(*                                                                         *)
(* An answer is known by what the properties ask of it: whether it is      *)
(* still what the table says, and if not, for how long.  Time passes in    *)
(* Ticks.  A read that needs several queries counts from the first.        *)
(***************************************************************************)
EXTENDS Integers, FiniteSets

CONSTANTS
    Page,           \* cache keys of search, lookup, sources, stats, ...
    WordOfDay,      \* the key dict:wotd:<today>
    Reader,         \* reads that may be in flight
    Writer,         \* writers that may be in flight
    TTL,            \* CACHE_TTL, in ticks
    MinTTL,         \* the least TTL of the word of the day (60 s)
    Day,            \* ticks in a day
    MaxRead,        \* bound: ticks a read may take from its first query
    None            \* no cached answer

Key == Page \cup {WordOfDay}

ASSUME KeyAssumption == WordOfDay \notin Page
ASSUME TimeAssumption ==
    /\ TTL \in Nat \ {0} /\ MinTTL \in Nat \ {0} /\ Day \in Nat \ {0}
    /\ MaxRead \in Nat
    /\ TTL <= Day /\ MinTTL <= Day

VARIABLES
    cache,          \* cache[k]: the answer stored under k, or None
    untilMidnight,  \* ticks left of this (UTC) day
    reading,        \* reading[r]: the read of r
    scan            \* scan[w]: keys the invalidation of w has not seen yet

vars == <<cache, untilMidnight, reading, scan>>

----------------------------------------------------------------------------
(* An answer: it is fresh, or was superseded age ticks ago.  excused says  *)
(* that a stale answer is one the code does not try to remove.             *)
MaxAge == Day + MaxRead     \* bound: the age counts no further
Ages == 0 .. MaxAge
Cached == [fresh : BOOLEAN, age : Ages, left : Nat \ {0}, excused : BOOLEAN]

ASSUME NoneAssumption ==
    /\ None \notin Key \cup Cached
    /\ \A keys \in SUBSET Key : keys # None

(* A read: its key, whether the table has been asked, and for how long it  *)
(* has been at it.  key = None at rest, or when its day is over.           *)
Read == [stage : {"idle", "get", "query", "set"}, key : Key \cup {None},
         fresh : BOOLEAN, age : Ages, busy : 0 .. MaxRead]
NoRead == [stage |-> "idle", key |-> None, fresh |-> TRUE, age |-> 0, busy |-> 0]

Superseded(a) == [a EXCEPT !.fresh = FALSE]
Older(a) == [a EXCEPT !.age = IF a.fresh \/ @ = MaxAge THEN @ ELSE @ + 1]

(* Seeded bug: the TTL of the word of the day may be zero. *)
TtlOfRaw(k) == IF k = WordOfDay THEN untilMidnight - 1 ELSE TTL

(* Math.max(ttl, 60): the word of the day lives until midnight.            *)
TtlOf(k) ==
    IF k # WordOfDay THEN TTL
    ELSE IF untilMidnight - 1 >= MinTTL THEN untilMidnight - 1 ELSE MinTTL

----------------------------------------------------------------------------
(* Reads.                                                                  *)

Receive(r, k) ==
    /\ reading[r].stage = "idle"
    /\ reading' = [reading EXCEPT ![r] = [NoRead EXCEPT !.stage = "get", !.key = k]]
    /\ UNCHANGED <<cache, untilMidnight, scan>>

(* Seeded bug: a hit prolongs the life of the answer. *)
HitProlongs(r) ==
    /\ reading[r].stage = "get"
    /\ reading[r].key # None
    /\ cache[reading[r].key] # None
    /\ reading' = [reading EXCEPT ![r] = NoRead]
    /\ cache' = [cache EXCEPT ![reading[r].key].left = TtlOf(reading[r].key)]
    /\ UNCHANGED <<untilMidnight, scan>>

(* getCache: a hit is the answer, and the read is over. *)
Hit(r) ==
    /\ reading[r].stage = "get"
    /\ reading[r].key # None
    /\ cache[reading[r].key] # None
    /\ reading' = [reading EXCEPT ![r] = NoRead]
    /\ UNCHANGED <<cache, untilMidnight, scan>>

(* A miss, or a failure of Redis: ask the table.  There may be nothing to  *)
(* answer with (an empty table has no word of the day): nothing is stored. *)
Query(r) ==
    /\ reading[r].stage = "get"
    /\ \/ reading' = [reading EXCEPT ![r].stage = "query", ![r].fresh = TRUE]
       \/ reading[r].key = WordOfDay /\ reading' = [reading EXCEPT ![r] = NoRead]
    /\ UNCHANGED <<cache, untilMidnight, scan>>

(* The queries after the first (stats, the word of the day, phraseology).  *)
Answered(r) ==
    /\ reading[r].stage = "query"
    /\ reading' = [reading EXCEPT ![r].stage = "set"]
    /\ UNCHANGED <<cache, untilMidnight, scan>>

(* setCache: SET key value EX ttl.  A failure is not an error.             *)
SetCache(r) ==
    LET read == reading[r]
    IN  /\ read.stage = "set"
        /\ reading' = [reading EXCEPT ![r] = NoRead]
        /\ cache' = [k \in Key |->
               IF k = read.key
               THEN [fresh |-> read.fresh, age |-> read.age,
                     left |-> TtlOf(k), excused |-> ~read.fresh]
               ELSE cache[k]]
        /\ UNCHANGED <<untilMidnight, scan>>

SetFails(r) ==
    /\ reading[r].stage = "set"
    /\ reading' = [reading EXCEPT ![r] = NoRead]
    /\ UNCHANGED <<cache, untilMidnight, scan>>

----------------------------------------------------------------------------
(* Writes.                                                                 *)

(* A write changes what some keys should answer.                           *)
Supersede(changed, excuse) ==
    /\ cache' = [k \in Key |->
           IF cache[k] = None \/ k \notin changed THEN cache[k]
           ELSE [Superseded(cache[k]) EXCEPT !.excused = @ \/ excuse]]
    /\ reading' = [r \in Reader |->
           IF reading[r].stage \in {"query", "set"} /\ reading[r].key \in changed
           THEN Superseded(reading[r]) ELSE reading[r]]

(* updateEntry, deleteEntry, bulkUpdate, revertEntryLog: write, then       *)
(* invalidate.                                                             *)
Write(w, changed) ==
    /\ scan[w] = None
    /\ Supersede(changed, FALSE)
    /\ scan' = [scan EXCEPT ![w] = Key]
    /\ UNCHANGED untilMidnight

(* load, improveEntries, review, bulkDeleteEntries: nothing is deleted.    *)
WriteUnannounced(changed) ==
    /\ Supersede(changed, TRUE)
    /\ UNCHANGED <<untilMidnight, scan>>

(* Seeded bug: invalidateCache stops after its first page. *)
ScanFirstPage(w) == \E page \in SUBSET Key :
    /\ scan[w] # None
    /\ page # {}
    /\ scan' = [scan EXCEPT ![w] = None]
    /\ cache' = [k \in Key |-> IF k \in page THEN None ELSE cache[k]]
    /\ UNCHANGED <<untilMidnight, reading>>

(* One turn of invalidateCache: SCAN returns some keys, DEL deletes them.  *)
(* A key that is stored behind the cursor is not seen.                     *)
Scan(w) == \E page \in SUBSET Key :
    /\ scan[w] # None
    /\ page \subseteq scan[w]
    /\ page # {}
    /\ scan' = [scan EXCEPT ![w] = IF page = scan[w] THEN None ELSE @ \ page]
    /\ cache' = [k \in Key |-> IF k \in page THEN None ELSE cache[k]]
    /\ UNCHANGED <<untilMidnight, reading>>

(* Redis fails: the invalidation gives up, and the write still succeeds.   *)
ScanFails(w) ==
    /\ scan[w] # None
    /\ scan' = [scan EXCEPT ![w] = None]
    /\ cache' = [k \in Key |->
           IF cache[k] = None THEN None ELSE [cache[k] EXCEPT !.excused = TRUE]]
    /\ UNCHANGED <<untilMidnight, reading>>

----------------------------------------------------------------------------
(* Time.                                                                   *)

(* Redis drops an answer whose TTL is over.                                *)
Expire(a) == IF a = None \/ a.left = 1 THEN None ELSE [Older(a) EXCEPT !.left = @ - 1]

(* At midnight the word of the day gets a new key, and the read in flight  *)
(* for the old one no longer matters to anyone.                            *)
Tick ==
    LET midnight == untilMidnight = 1
    IN  /\ \A r \in Reader : reading[r].stage # "idle" => reading[r].busy < MaxRead
        /\ untilMidnight' = IF midnight THEN Day ELSE untilMidnight - 1
        /\ cache' = [k \in Key |-> IF midnight /\ k = WordOfDay THEN None ELSE Expire(cache[k])]
        /\ reading' = [r \in Reader |->
               IF reading[r].stage = "idle" THEN reading[r]
               ELSE [Older(reading[r]) EXCEPT
                         !.busy = @ + 1,
                         !.key = IF midnight /\ @ = WordOfDay THEN None ELSE @]]
        /\ UNCHANGED scan

ReaderStep(r) == Hit(r) \/ Query(r) \/ Answered(r) \/ SetCache(r) \/ SetFails(r)

AnyWrite ==
    \/ \E w \in Writer, changed \in SUBSET Key : Write(w, changed)
    \/ \E changed \in SUBSET Key : WriteUnannounced(changed)

Next ==
    \/ \E r \in Reader, k \in Key : Receive(r, k)
    \/ \E r \in Reader : ReaderStep(r)
    \/ AnyWrite
    \/ \E w \in Writer : Scan(w) \/ ScanFails(w)
    \/ Tick

Init ==
    /\ cache = [k \in Key |-> None]
    /\ untilMidnight \in 1 .. Day
    /\ reading = [r \in Reader |-> NoRead]
    /\ scan = [w \in Writer |-> None]

Spec == Init /\ [][Next]_vars
FairSpec == Spec /\ WF_vars(Tick) /\ \A r \in Reader : WF_vars(ReaderStep(r))

----------------------------------------------------------------------------
(* Properties.                                                             *)

(* Every variable holds a value of its kind; no answer is stored without a *)
(* time to live.                                                           *)
TypeOK ==
    /\ cache \in [Key -> Cached \cup {None}]
    /\ untilMidnight \in 1 .. Day
    /\ reading \in [Reader -> Read]
    /\ scan \in [Writer -> (SUBSET Key) \cup {None}]

Lifetime(k) == IF k = WordOfDay THEN Day ELSE TTL

(* No read is answered with what has been wrong for longer than the TTL of *)
(* its key and the time one read takes: a read that filled the cache after *)
(* the invalidation, a failed invalidation and the writers that do not     *)
(* invalidate included.                                                    *)
BoundedStaleness ==
    \A k \in Key : cache[k] # None /\ ~cache[k].fresh =>
        cache[k].age < Lifetime(k) + MaxRead

(* With no invalidation in flight, a stale answer is in the cache only if  *)
(* a read stored it that was overtaken by the write, or the write did not  *)
(* invalidate, or Redis failed.                                            *)
StaleOnlyIfExcused ==
    (\A w \in Writer : scan[w] = None) =>
        \A k \in Key : cache[k] # None /\ ~cache[k].fresh => cache[k].excused

(* Once nobody writes any more, the cache ends up with right answers only. *)
EventuallyFresh ==
    <>[][~AnyWrite]_vars => <>[](\A k \in Key : cache[k] # None => cache[k].fresh)

=============================================================================
