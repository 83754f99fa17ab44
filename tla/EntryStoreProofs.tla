--------------------------- MODULE EntryStoreProofs ---------------------------
(***************************************************************************)
(* Theorems about EntryStore, for every table, file and patch and any      *)
(* number of calls in flight, users and suggestions.                       *)
(*                                                                         *)
(* The invariant says what the local variables of a call in flight still   *)
(* mean when the rows they were read from have changed: the rows a         *)
(* transaction holds are there and nobody else's (Locks), the values an    *)
(* audit record will name were really held (Honest), the suggestion a      *)
(* review has read is the one it decides, or is gone (Suggested).          *)
(***************************************************************************)
EXTENDS EntryStore, FiniteSetTheorems, TLAPS

Of(f) == IF f = "word" THEN Word ELSE Meaning

(* What a call knows at its stage. *)
Knows(stage, loc) ==
    /\ stage \in {"update", "delete", "revert", "revertLog", "suggest", "review", "toggle"} =>
           loc.entry \in Entry
    /\ stage \in {"suggest", "review"} =>
           loc.suggestion \in Suggestion /\ loc.value \in Of(loc.field)
    /\ stage = "suggest" => loc.old.word \in Word /\ loc.old.meanings \in Meaning
    /\ stage \in {"suggest", "toggle"} => loc.user \in User
    /\ stage \notin {"bulk", "loadCommit"} => loc.locked = {}
    /\ \A i \in DOMAIN loc.rows : loc.rows[i].norm = Norm[loc.rows[i].word]

Informed == \A c \in Request : Knows(pc[c], local[c])

(* The ids in use are those the sequence has given. *)
Numbered == \A e \in Rows(table) : e < nextId

Recorded == Holds(table) \subseteq held

(* A transaction holds rows that are there, and nobody else holds them. *)
Locks ==
    /\ \A c \in Request : local[c].locked \subseteq Rows(table)
    /\ \A c, d \in Request : c # d => local[c].locked \cap local[d].locked = {}

(* Each value the patch names is one the field of e has held. *)
Real(e, patch) == \A f \in Field : patch[f] # Unset => <<e, f, patch[f]>> \in held

Honest(stage, loc) ==
    /\ stage \in {"update", "suggest", "revert", "revertLog"} => Real(loc.entry, loc.old)
    /\ stage \in {"revert", "revertLog"} => Real(loc.entry, loc.dto)

Honesty == \A c \in Request : Honest(pc[c], local[c])

(* The suggestion a review decides is the one it has read; the id a new    *)
(* suggestion takes is nobody else's.                                      *)
Matches(c) ==
    /\ pc[c] = "review" /\ suggestions[local[c].suggestion] # Nothing =>
           /\ suggestions[local[c].suggestion].entry = local[c].entry
           /\ suggestions[local[c].suggestion].field = local[c].field
           /\ suggestions[local[c].suggestion].new = local[c].value
    /\ pc[c] = "suggest" =>
           /\ suggestions[local[c].suggestion] = Nothing
           /\ \A d \in Request \ {c} :
                  pc[d] \in {"suggest", "review"} => local[d].suggestion # local[c].suggestion

Suggested ==
    /\ \A s \in Suggestion : suggestions[s] # Nothing => suggestions[s].new \in Of(suggestions[s].field)
    /\ \A c \in Request : Matches(c)

TypeInv == TypeOK /\ Informed /\ Numbered /\ Recorded

----------------------------------------------------------------------------
(* Values.                                                                 *)

LEMMA Patching ==
    ASSUME NEW row \in Row, NEW p \in Patch
    PROVE  Patched(row, p) \in Row
BY SentinelAssumption DEF Row, Patch, Patched, Given

LEMMA BuildTyped ==
    ASSUME NEW dto \in Dto
    PROVE  /\ BuildUpdateData(dto) \in Patch
           /\ BuildUpdateData(dto).word = dto.word
           /\ BuildUpdateData(dto).meanings = dto.meanings
           /\ dto.word # Unset => BuildUpdateData(dto).norm = Norm[dto.word]
           /\ dto.word = Unset => BuildUpdateData(dto).norm = Unset
BY NormAssumption DEF Dto, Patch, BuildUpdateData

LEMMA ImprovementTyped ==
    ASSUME NEW row \in Row
    PROVE  /\ Improvement(row) \in Patch
           /\ Improvement(row).word # Unset => Improvement(row).norm = Norm[Improvement(row).word]
           /\ Improvement(row).word = Unset => Improvement(row).norm = Unset
BY NormAssumption, SentinelAssumption DEF Row, Patch, Improvement, Value

LEMMA FieldPatchTyped ==
    ASSUME NEW f \in Field, NEW v \in Of(f)
    PROVE  /\ FieldPatch(f, v) \in Patch
           /\ FieldPatch(f, v).norm = Unset
           /\ f = "word" => FieldPatch(f, v).word = v
           /\ f = "meanings" => FieldPatch(f, v).meanings = v /\ FieldPatch(f, v).word = Unset
BY DEF Field, Of, FieldPatch, Patch

LEMMA OldTyped ==
    ASSUME NEW row \in Row, NEW dto \in Dto
    PROVE  OldOf(row, dto) \in Dto /\ NoDto \in Dto
BY DEF Row, Dto, OldOf, NoDto

LEMMA FilesTyped ==
    ASSUME NEW f \in Files
    PROVE  /\ DbEntries(f) \in Seq(Row)
           /\ Len(DbEntries(f)) \in Nat
           /\ \A i \in DOMAIN DbEntries(f) : DbEntries(f)[i].norm = Norm[DbEntries(f)[i].word]
<1>1. DbEntries(f) \in Seq(Row)
  BY FileAssumption
<1>2. \A i \in DOMAIN DbEntries(f) : DbEntries(f)[i].norm = Norm[DbEntries(f)[i].word]
  BY DEF DbEntries
<1> QED
  BY <1>1, <1>2

LEMMA EntryIsNumber == Entry \subseteq Nat /\ MaxId \in Nat
BY BoundAssumption DEF Entry

LEMMA TableFromTyped ==
    ASSUME NEW rs \in Seq(Row), NEW first \in Nat \ {0}
    PROVE  /\ TableFrom(rs, first) \in [Entry -> Row \cup {Nothing}]
           /\ \A e \in Entry : TableFrom(rs, first)[e] # Nothing =>
                  /\ e >= first /\ e < first + Len(rs)
                  /\ \E i \in DOMAIN rs : TableFrom(rs, first)[e] = rs[i]
<1>1. ASSUME NEW e \in Entry, e >= first, e < first + Len(rs)
      PROVE  e - first + 1 \in DOMAIN rs /\ rs[e - first + 1] \in Row
  <2>1. e \in Nat /\ Len(rs) \in Nat /\ DOMAIN rs = 1 .. Len(rs)
    BY EntryIsNumber
  <2>2. e - first + 1 \in 1 .. Len(rs)
    BY <1>1, <2>1
  <2> QED
    BY <2>1, <2>2
<1> QED
  BY <1>1 DEF TableFrom

LEMMA NoLocalIsLocal ==
    /\ NoLocal \in Local
    /\ NoLocal.locked = {} /\ NoLocal.rows = <<>>
<1>1. <<>> \in Seq(Entry) /\ <<>> \in Seq(Row)
  OBVIOUS
<1>2. [e \in Entry |-> Nothing] \in [Entry -> Row \cup {Nothing}]
  OBVIOUS
<1> QED
  BY <1>1, <1>2 DEF NoLocal, Local, Field, NoDto, Dto

(* What the state holds of one call. *)
LEMMA CallTyped ==
    ASSUME TypeInv, NEW c \in Request
    PROVE  /\ pc[c] \in Stages /\ local[c] \in Local
           /\ Knows(pc[c], local[c])
BY DEF TypeInv, TypeOK, Informed

----------------------------------------------------------------------------
(* What a statement does to the table.                                     *)

(* The rows that are there after a step, and what was held. *)
TableStep ==
    /\ table' \in [Entry -> Row \cup {Nothing}]
    /\ nextId' \in 1 .. (MaxId + 1) /\ firstId' \in 1 .. (MaxId + 1)
    /\ held' \subseteq Entry \X Field \X Value
    /\ nextId <= nextId'
    /\ held \subseteq held'
    /\ Holds(table') \subseteq held'
    /\ \A e \in Rows(table') : e < nextId'
    /\ \A e \in Entry : e < nextId /\ table[e] = Nothing => table'[e] = Nothing

LEMMA TableFacts ==
    ASSUME TypeInv
    PROVE  /\ table \in [Entry -> Row \cup {Nothing}]
           /\ nextId \in 1 .. (MaxId + 1) /\ firstId \in 1 .. (MaxId + 1)
           /\ nextId \in Nat \ {0} /\ Entry \subseteq Nat
           /\ held \subseteq Entry \X Field \X Value
           /\ Holds(table) \subseteq held
           /\ \A e \in Rows(table) : e < nextId /\ table[e] \in Row
           /\ \A r \in Row : r # Nothing
           /\ Rows(table) \subseteq Entry
BY RowAssumption, EntryIsNumber DEF TypeInv, TypeOK, Numbered, Recorded, Rows

LEMMA HoldsTyped ==
    ASSUME NEW t \in [Entry -> Row \cup {Nothing}]
    PROVE  Holds(t) \subseteq Entry \X Field \X Value
<1>1. ASSUME NEW e \in Rows(t), NEW f \in Field
      PROVE  <<e, f, t[e][f]>> \in Entry \X Field \X Value
  BY <1>1 DEF Rows, Row, Field, Value
<1> QED
  BY <1>1 DEF Holds

LEMMA KeepStep ==
    ASSUME TypeInv, UNCHANGED <<table, nextId, history>>
    PROVE  TableStep /\ Rows(table') = Rows(table)
<1>0. nextId \in Nat
  BY TableFacts
<1> QED
  BY <1>0, TableFacts DEF history, TableStep, Rows

LEMMA WriteStep ==
    ASSUME TypeInv, NEW ids \in SUBSET Rows(table), NEW p, \A e \in ids : p[e] \in Patch,
           SetRows(ids, p)
    PROVE  /\ TableStep
           /\ Rows(table') = Rows(table)
           /\ \A e \in ids : table'[e] = Patched(table[e], p[e])
<1>0. table \in [Entry -> Row \cup {Nothing}] /\ (\A e \in Rows(table) : table[e] \in Row)
      /\ Rows(table) \subseteq Entry /\ \A r \in Row : r # Nothing
  BY TableFacts
<1>1. \A e \in ids : table'[e] = Patched(table[e], p[e]) /\ table'[e] \in Row
  BY <1>0, Patching DEF SetRows
<1>2. \A e \in Entry \ ids : table'[e] = table[e]
  BY DEF SetRows
<1>3. table' \in [Entry -> Row \cup {Nothing}]
  <2>1. table' = [e \in Entry |-> IF e \in ids THEN Patched(table[e], p[e]) ELSE table[e]]
    BY DEF SetRows
  <2> QED
    BY <1>0, <1>1, <1>2, <2>1
<1>4. Rows(table') = Rows(table)
  BY <1>0, <1>1, <1>2 DEF Rows
<1>5. held' = held \cup Holds(table') /\ UNCHANGED <<nextId, firstId>>
  BY DEF SetRows
<1>6. Holds(table') \subseteq Entry \X Field \X Value
  BY <1>3, HoldsTyped
<1>7. nextId <= nextId' /\ \A e \in Rows(table') : e < nextId'
  BY <1>4, <1>5, TableFacts
<1>8. \A e \in Entry : table[e] = Nothing => table'[e] = Nothing
  BY <1>0, <1>4 DEF Rows
<1> QED
  BY <1>1, <1>3, <1>4, <1>5, <1>6, <1>7, <1>8, TableFacts DEF TableStep

LEMMA DeleteStep ==
    ASSUME TypeInv, NEW ids, DeleteRows(ids)
    PROVE  /\ TableStep
           /\ Rows(table') = Rows(table) \ ids
           /\ KeepOnly(Rows(table'))
<1>0. table \in [Entry -> Row \cup {Nothing}] /\ Rows(table) \subseteq Entry /\ nextId \in Nat
  BY TableFacts
<1>1. table' = [e \in Entry |-> IF e \in ids THEN Nothing ELSE table[e]]
      /\ UNCHANGED <<nextId, firstId, held>>
  BY DEF DeleteRows, history
<1>2. Rows(table') = Rows(table) \ ids
  BY <1>1 DEF Rows
<1>3. table' \in [Entry -> Row \cup {Nothing}]
  BY <1>0, <1>1
<1>4. Holds(table') \subseteq Holds(table)
  BY <1>1, <1>2 DEF Holds, Rows
<1>5. nextId <= nextId' /\ \A e \in Rows(table') : e < nextId'
  BY <1>0, <1>1, <1>2, TableFacts
<1>6. KeepOnly(Rows(table'))
  BY <1>2 DEF DeleteRows
<1> QED
  BY <1>1, <1>2, <1>3, <1>4, <1>5, <1>6, TableFacts DEF TableStep

LEMMA LoadStep ==
    ASSUME TypeInv, NEW c \in Request, LoadCommit(c)
    PROVE  /\ TableStep
           /\ \A e \in Entry : e < nextId => table'[e] =
                  IF e \in local[c].locked THEN Nothing ELSE table[e]
           /\ \A e \in Entry : e >= nextId /\ table'[e] # Nothing =>
                  \E i \in DOMAIN local[c].rows : table'[e] = local[c].rows[i]
<1> DEFINE rs == local[c].rows
           new == TableFrom(rs, nextId)
<1>0. /\ table \in [Entry -> Row \cup {Nothing}] /\ Rows(table) \subseteq Entry
      /\ nextId \in Nat \ {0} /\ Entry \subseteq Nat
      /\ rs \in Seq(Row) /\ Len(rs) \in Nat
  <2>1. rs \in Seq(Row)
    BY CallTyped DEF Local
  <2> QED
    BY <2>1, TableFacts
<1>1. /\ new \in [Entry -> Row \cup {Nothing}]
      /\ \A e \in Entry : new[e] # Nothing =>
             /\ e >= nextId /\ e < nextId + Len(rs)
             /\ \E i \in DOMAIN rs : new[e] = rs[i]
  BY <1>0, TableFromTyped
<1> HIDE DEF new
<1>2. /\ nextId + Len(rs) <= MaxId + 1
      /\ table' = [e \in Entry |-> IF e >= nextId THEN new[e]
                                   ELSE IF e \in local[c].locked THEN Nothing ELSE table[e]]
      /\ nextId' = nextId + Len(rs) /\ firstId' = nextId
      /\ held' = held \cup Holds(table')
  BY DEF LoadCommit, new
<1>3. table' \in [Entry -> Row \cup {Nothing}]
  BY <1>0, <1>1, <1>2
<1>4. Holds(table') \subseteq Entry \X Field \X Value
  BY <1>3, HoldsTyped
<1>5. nextId' \in 1 .. (MaxId + 1) /\ firstId' \in 1 .. (MaxId + 1) /\ nextId <= nextId'
  BY <1>0, <1>2, EntryIsNumber
<1>6. \A e \in Entry : e < nextId => table'[e] = IF e \in local[c].locked THEN Nothing ELSE table[e]
  BY <1>0, <1>2
<1>7. \A e \in Entry : e >= nextId => table'[e] = new[e]
  BY <1>2
<1>8. ASSUME NEW e \in Rows(table') PROVE e < nextId'
  <2>1. e \in Entry /\ table'[e] # Nothing /\ e \in Nat
    BY <1>0 DEF Rows
  <2>2. CASE e < nextId
    BY <1>0, <1>2, <2>1, <2>2
  <2>3. CASE e >= nextId
    BY <1>1, <1>2, <1>7, <2>1, <2>3
  <2> QED
    BY <1>0, <2>1, <2>2, <2>3
<1> QED
  BY <1>1, <1>2, <1>3, <1>4, <1>5, <1>6, <1>7, <1>8, TableFacts DEF TableStep

----------------------------------------------------------------------------
(* Which calls write what.                                                 *)

(* A call that begins writes nothing. *)
LEMMA BeginWritesNothing ==
    ASSUME NEW c \in Request, Begin(c)
    PROVE  UNCHANGED <<table, nextId, users, references, unlogged, lastLoad, history>>
BY DEF Begin, StartUpdate, StartDelete, StartBulkDelete, StartBulk, StartRevert, StartSuggest,
       StartReview, StartToggle, StartImprove, StartLoad, Start

(* The word and its normal form are written together. *)
Normal(p) ==
    /\ p.word # Unset => p.norm = Norm[p.word]
    /\ p.word = Unset => p.norm = Unset

WritesRows == \E ids \in SUBSET Rows(table) : \E p :
    /\ \A e \in ids : p[e] \in Patch /\ Normal(p[e])
    /\ WriteRows(ids, p)
    /\ UNCHANGED suggestions

Applies(c) ==
    /\ Review(c)
    /\ suggestions[local[c].suggestion] # Nothing
    /\ local[c].flag
    /\ local[c].entry \in Rows(table)
    /\ FieldPatch(local[c].field, local[c].value) \in Patch
    /\ SetRows({local[c].entry},
               [d \in {local[c].entry} |-> FieldPatch(local[c].field, local[c].value)])

KeepsRows == UNCHANGED <<table, nextId, history>>

Removes(c) ==
    \/ Delete(c) /\ DeleteRows({local[c].entry})
    \/ BulkDelete(c)
    \/ LoadCommit(c)

ChangesRows(c) == Applies(c) \/ Removes(c)

LEMMA UpdateWrites ==
    ASSUME TypeInv, NEW c \in Request, Update(c)
    PROVE  WritesRows \/ KeepsRows
<1> DEFINE e == local[c].entry
           q == BuildUpdateData(local[c].dto)
<1>1. CASE table[e] = Nothing
  BY <1>1 DEF Update, KeepTable, WriteRows, KeepsRows
<1>2. CASE table[e] # Nothing
  <2>1. e \in Rows(table)
    BY <1>2, CallTyped DEF Update, Knows, Rows
  <2>2. q \in Patch /\ Normal(q)
    BY CallTyped, BuildTyped DEF Local, Normal
  <2>3. WriteRows({e}, [d \in {e} |-> q]) /\ UNCHANGED suggestions
    BY <1>2 DEF Update, references
  <2> HIDE DEF e, q
  <2> QED
    BY <2>1, <2>2, <2>3 DEF WritesRows
<1> QED
  BY <1>1, <1>2

LEMMA RevertWrites ==
    ASSUME TypeInv, NEW c \in Request, Revert(c)
    PROVE  WritesRows \/ KeepsRows
<1> DEFINE e == local[c].entry
           q == BuildUpdateData(local[c].dto)
<1>1. CASE table[e] = Nothing
  BY <1>1 DEF Revert, KeepTable, KeepsRows
<1>2. CASE table[e] # Nothing
  <2>1. e \in Rows(table)
    BY <1>2, CallTyped DEF Revert, Knows, Rows
  <2>2. q \in Patch /\ Normal(q)
    BY CallTyped, BuildTyped DEF Local, Normal
  <2>3. WriteRows({e}, [d \in {e} |-> q]) /\ UNCHANGED suggestions
    BY <1>2 DEF Revert, references
  <2> HIDE DEF e, q
  <2> QED
    BY <2>1, <2>2, <2>3 DEF WritesRows
<1> QED
  BY <1>1, <1>2

LEMMA BulkWrites ==
    ASSUME TypeInv, Locks, NEW c \in Request, BulkCommit(c)
    PROVE  WritesRows
<1> DEFINE ids == local[c].locked
           q == BuildUpdateData(local[c].dto)
           p == [e \in ids |-> q]
<1>1. ids \in SUBSET Rows(table)
  BY DEF Locks
<1>2. q \in Patch /\ Normal(q)
  BY CallTyped, BuildTyped DEF Local, Normal
<1>3. \A e \in ids : p[e] \in Patch /\ Normal(p[e])
  BY <1>2
<1>4. WriteRows(ids, p) /\ UNCHANGED suggestions
  BY DEF BulkCommit, references
<1> HIDE DEF ids, p
<1> QED
  BY <1>1, <1>3, <1>4 DEF WritesRows

LEMMA ImproveWrites ==
    ASSUME TypeInv, NEW c \in Request, ImproveOne(c)
    PROVE  WritesRows \/ KeepsRows
<1> DEFINE loc == local[c]
           e == Head(loc.todo)
           q == IF loc.read[e] = Nothing THEN NoPatch ELSE Improvement(loc.read[e])
<1>0. loc \in Local /\ loc.todo # <<>>
  BY CallTyped DEF ImproveOne
<1>1. e \in Entry
  BY <1>0 DEF Local
<1>2. CASE KeepTable
  BY <1>2 DEF KeepTable, KeepsRows
<1>3. CASE q # NoPatch /\ table[e] # Nothing /\ WriteRows({e}, [d \in {e} |-> q])
  <2>1. e \in Rows(table)
    BY <1>1, <1>3 DEF Rows
  <2>2. loc.read[e] \in Row
    BY <1>0, <1>1, <1>3 DEF Local
  <2>3. q = Improvement(loc.read[e])
    BY <2>2, RowAssumption
  <2>4. q \in Patch /\ Normal(q)
    BY <2>2, <2>3, ImprovementTyped DEF Normal
  <2>5. UNCHANGED suggestions
    BY DEF ImproveOne, references
  <2> HIDE DEF e, q
  <2> QED
    BY <1>3, <2>1, <2>4, <2>5 DEF WritesRows
<1> QED
  BY <1>2, <1>3 DEF ImproveOne

LEMMA ReviewWrites ==
    ASSUME TypeInv, NoOrphans, Suggested, NEW c \in Request, Review(c)
    PROVE  Applies(c) \/ KeepsRows
<1> DEFINE loc == local[c]
           s == loc.suggestion
<1>1. CASE suggestions[s] = Nothing \/ ~loc.flag
  BY <1>1 DEF Review, KeepTable, KeepsRows
<1>2. CASE suggestions[s] # Nothing /\ loc.flag
  <2>1. pc[c] = "review"
    BY DEF Review
  <2>2. s \in Suggestion /\ loc.value \in Of(loc.field) /\ loc.field \in Field
    BY <2>1, CallTyped DEF Knows, Local
  <2>3. suggestions[s].entry = loc.entry
    BY <1>2, <2>1 DEF Suggested, Matches
  <2>4. loc.entry \in Rows(table)
    BY <1>2, <2>2, <2>3 DEF NoOrphans
  <2>5. FieldPatch(loc.field, loc.value) \in Patch
    BY <2>2, FieldPatchTyped
  <2>6. SetRows({loc.entry}, [d \in {loc.entry} |-> FieldPatch(loc.field, loc.value)])
    BY <1>2 DEF Review
  <2> QED
    BY <1>2, <2>4, <2>5, <2>6 DEF Applies
<1> QED
  BY <1>1, <1>2

LEMMA TableCases ==
    ASSUME TypeInv, Locks, NoOrphans, Suggested, [Next]_vars
    PROVE  \/ KeepsRows
           \/ WritesRows
           \/ \E c \in Request : ChangesRows(c)
<1>1. ASSUME UNCHANGED vars \/ ClearAll \/ DeleteUser \/ StoreAudit PROVE KeepsRows
  BY <1>1 DEF vars, ClearAll, DeleteUser, StoreAudit, KeepTable, KeepsRows
<1>2. ASSUME NEW c \in Request, Begin(c) PROVE KeepsRows
  BY <1>2, BeginWritesNothing DEF KeepsRows
<1>3. ASSUME NEW c \in Request, LoadFails(c) \/ Fail(c) PROVE KeepsRows
  BY <1>3 DEF LoadFails, Fail, KeepTable, KeepsRows
<1>4. ASSUME NEW c \in Request, Delete(c)
      PROVE  KeepsRows \/ ChangesRows(c)
  BY <1>4 DEF ChangesRows, Removes, Delete, KeepTable, KeepsRows
<1>5. ASSUME NEW c \in Request,
             \/ BulkItem(c) \/ LogRevert(c) \/ Suggest(c) \/ Toggle(c)
             \/ EndImprove(c) \/ LoadDelete(c) \/ RecordError(c) \/ RecordLoad(c)
      PROVE  KeepsRows
  BY <1>5 DEF BulkItem, LogRevert, Suggest, Toggle, EndImprove, LoadDelete, RecordError, RecordLoad,
              RecordRun, KeepTable, KeepsRows
<1>6. ASSUME NEW c \in Request, Update(c) \/ Revert(c) \/ BulkCommit(c) \/ ImproveOne(c) \/ Review(c)
      PROVE  KeepsRows \/ WritesRows \/ ChangesRows(c)
  BY <1>6, UpdateWrites, RevertWrites, BulkWrites, ImproveWrites, ReviewWrites DEF ChangesRows
<1>7. ASSUME NEW c \in Request, Step(c)
      PROVE  KeepsRows \/ WritesRows \/ ChangesRows(c)
  BY <1>4, <1>5, <1>6, <1>7 DEF Step, ChangesRows, Removes
<1>8. \/ UNCHANGED vars \/ ClearAll \/ DeleteUser \/ StoreAudit
      \/ \E c \in Request : Begin(c) \/ LoadFails(c) \/ Fail(c)
      \/ \E c \in Request : Step(c)
  BY DEF Next
<1>9. CASE \E c \in Request : Step(c)
  <2>1. PICK c \in Request : Step(c)
    BY <1>9
  <2> QED
    BY <1>7, <2>1
<1> QED
  BY <1>1, <1>2, <1>3, <1>8, <1>9

(* Every step leaves a table; ids that are gone do not come back, and what *)
(* a row holds was held.                                                   *)
LEMMA TableStays ==
    ASSUME TypeInv, Locks, NoOrphans, Suggested, [Next]_vars
    PROVE  TableStep
<1>1. CASE KeepsRows
  BY <1>1, KeepStep DEF KeepsRows
<1>2. CASE WritesRows
  <2>1. PICK ids, p : /\ ids \in SUBSET Rows(table)
                      /\ \A e \in ids : p[e] \in Patch
                      /\ WriteRows(ids, p)
    BY <1>2 DEF WritesRows
  <2> QED
    BY <2>1, WriteStep DEF WriteRows
<1>3. ASSUME NEW c \in Request, Applies(c) PROVE TableStep
  <2> DEFINE ids == {local[c].entry}
             p == [d \in ids |-> FieldPatch(local[c].field, local[c].value)]
  <2>1. ids \in SUBSET Rows(table) /\ (\A e \in ids : p[e] \in Patch) /\ SetRows(ids, p)
    BY <1>3 DEF Applies
  <2> HIDE DEF ids, p
  <2> QED
    BY <2>1, WriteStep
<1>4. ASSUME NEW c \in Request, Removes(c) PROVE TableStep
  BY <1>4, DeleteStep, LoadStep DEF Removes, BulkDelete
<1> QED
  BY <1>1, <1>2, <1>3, <1>4, TableCases DEF ChangesRows

(* Unless a call removes rows, the rows stay. *)
LEMMA RowsStay ==
    ASSUME TypeInv, Locks, NoOrphans, Suggested, [Next]_vars
    PROVE  (\E c \in Request : Removes(c)) \/ Rows(table') = Rows(table)
<1>1. CASE KeepsRows
  BY <1>1, KeepStep DEF KeepsRows
<1>2. CASE WritesRows
  <2>1. PICK ids, p : /\ ids \in SUBSET Rows(table)
                      /\ \A e \in ids : p[e] \in Patch
                      /\ WriteRows(ids, p)
    BY <1>2 DEF WritesRows
  <2> QED
    BY <2>1, WriteStep DEF WriteRows
<1>3. ASSUME NEW c \in Request, Applies(c) PROVE Rows(table') = Rows(table)
  <2> DEFINE ids == {local[c].entry}
             p == [d \in ids |-> FieldPatch(local[c].field, local[c].value)]
  <2>1. ids \in SUBSET Rows(table) /\ (\A e \in ids : p[e] \in Patch) /\ SetRows(ids, p)
    BY <1>3 DEF Applies
  <2> HIDE DEF ids, p
  <2> QED
    BY <2>1, WriteStep
<1> QED
  BY <1>1, <1>2, <1>3, TableCases DEF ChangesRows

----------------------------------------------------------------------------
(* How calls go on.                                                        *)

(* A call that begins knows what it needs, holds no row, and what it has   *)
(* read has been held.                                                     *)
Begun(c) == \E stage \in Stages, loc \in Local :
    /\ pc[c] = "idle"
    /\ Goto(c, stage, loc)
    /\ Knows(stage, loc)
    /\ loc.locked = {}
    /\ Honest(stage, loc)
    /\ stage \notin {"idle", "revertLog", "loadCommit", "loadIndex", "loadError"}
    /\ started' \in 0 .. MaxRequests

(* A call that goes on keeps what it knows. *)
Onward(c) == \E stage \in Stages, loc \in Local :
    /\ Goto(c, stage, loc)
    /\ Knows(stage, loc)
    /\ loc.entry = local[c].entry /\ loc.old = local[c].old /\ loc.dto = local[c].dto
    /\ \/ stage = "revertLog" /\ pc[c] = "revert"
       \/ stage = "bulk" /\ pc[c] = "bulk"
       \/ stage = "improve" /\ pc[c] = "improve"
       \/ stage \in {"loadCommit", "loadIndex", "loadError"}
          /\ pc[c] \in {"loadDelete", "loadCommit", "loadIndex"}
    /\ UNCHANGED started

(* Fields a call fills in. *)
LEMMA Filled ==
    ASSUME NEW loc \in Local
    PROVE  /\ \A ids \in SUBSET Entry : [loc EXCEPT !.locked = ids] \in Local
           /\ loc.todo # <<>> => [loc EXCEPT !.todo = Tail(@)] \in Local
           /\ loc.todo # <<>> => Head(loc.todo) \in Entry
<1>1. ASSUME NEW ids \in SUBSET Entry PROVE [loc EXCEPT !.locked = ids] \in Local
  BY DEF Local
<1>2. ASSUME loc.todo # <<>>
      PROVE  [loc EXCEPT !.todo = Tail(@)] \in Local /\ Head(loc.todo) \in Entry
  <2>1. loc.todo \in Seq(Entry)
    BY DEF Local
  <2>2. Tail(loc.todo) \in Seq(Entry) /\ Head(loc.todo) \in Entry
    BY <1>2, <2>1
  <2> QED
    BY <2>2 DEF Local
<1> QED
  BY <1>1, <1>2

LEMMA StartCounts ==
    ASSUME TypeInv, NEW c, NEW op, NEW stage, NEW loc, Start(c, op, stage, loc)
    PROVE  /\ started' \in 0 .. MaxRequests
           /\ pc[c] = "idle" /\ Goto(c, stage, loc)
BY BoundAssumption DEF TypeInv, TypeOK, Start

LEMMA Reality ==
    ASSUME TypeInv, NEW e \in Rows(table)
    PROVE  /\ <<e, "word", table[e].word>> \in held
           /\ <<e, "meanings", table[e].meanings>> \in held
           /\ table[e] \in Row /\ e \in Entry
<1>1. Holds(table) \subseteq held /\ table[e] \in Row /\ e \in Entry
  BY TableFacts
<1>2. "word" \in Field /\ "meanings" \in Field
  BY DEF Field
<1>3. <<e, "word", table[e]["word"]>> \in Holds(table)
  BY <1>2 DEF Holds
<1>4. <<e, "meanings", table[e]["meanings"]>> \in Holds(table)
  BY <1>2 DEF Holds
<1> QED
  BY <1>1, <1>3, <1>4

LEMMA UpdateBegins ==
    ASSUME TypeInv, NEW c \in Request, StartUpdate(c)
    PROVE  Begun(c)
<1>1. PICK e \in Rows(table), dto \in Edits :
        Start(c, "update", "update",
              [NoLocal EXCEPT !.entry = e, !.dto = dto, !.old = OldOf(table[e], dto)])
  BY DEF StartUpdate
<1> DEFINE loc == [NoLocal EXCEPT !.entry = e, !.dto = dto, !.old = OldOf(table[e], dto)]
<1>2. e \in Entry /\ table[e] \in Row /\ dto \in Dto
  BY InputAssumption, Reality
<1>3. OldOf(table[e], dto) \in Dto
  BY <1>2, OldTyped
<1>4. loc \in Local /\ loc.entry = e /\ loc.old = OldOf(table[e], dto) /\ loc.locked = {}
      /\ loc.rows = <<>>
  BY <1>2, <1>3, NoLocalIsLocal DEF Local
<1>5. Real(e, OldOf(table[e], dto))
  <2>1. <<e, "word", table[e].word>> \in held /\ <<e, "meanings", table[e].meanings>> \in held
    BY Reality
  <2>2. /\ OldOf(table[e], dto)["word"] \in {Unset, table[e].word}
        /\ OldOf(table[e], dto)["meanings"] \in {Unset, table[e].meanings}
    BY DEF OldOf
  <2> QED
    BY <2>1, <2>2 DEF Real, Field
<1> HIDE DEF loc
<1>6. Knows("update", loc) /\ Honest("update", loc)
  BY <1>2, <1>4, <1>5 DEF Knows, Honest
<1>7. pc[c] = "idle" /\ Goto(c, "update", loc) /\ started' \in 0 .. MaxRequests
  BY <1>1, StartCounts DEF loc
<1> QED
  BY <1>4, <1>6, <1>7 DEF Begun, Stages

LEMMA RevertBegins ==
    ASSUME TypeInv, AuditOfRealValues, NEW c \in Request, StartRevert(c)
    PROVE  Begun(c)
<1>1. PICK r \in editLog :
        /\ r.entry # Nothing
        /\ Start(c, "revert", "revert",
                 [NoLocal EXCEPT !.entry = r.entry, !.dto = r.old, !.old = r.new])
  BY DEF StartRevert
<1> DEFINE loc == [NoLocal EXCEPT !.entry = r.entry, !.dto = r.old, !.old = r.new]
<1>2. r.entry \in Entry /\ r.old \in Dto /\ r.new \in Dto
  BY <1>1 DEF TypeInv, TypeOK, Audit
<1>3. loc \in Local /\ loc.entry = r.entry /\ loc.old = r.new /\ loc.dto = r.old
      /\ loc.locked = {} /\ loc.rows = <<>>
  BY <1>2, NoLocalIsLocal DEF Local
<1>4. Real(r.entry, r.old) /\ Real(r.entry, r.new)
  BY DEF AuditOfRealValues, Real
<1> HIDE DEF loc
<1>5. Knows("revert", loc) /\ Honest("revert", loc)
  BY <1>2, <1>3, <1>4 DEF Knows, Honest
<1>6. pc[c] = "idle" /\ Goto(c, "revert", loc) /\ started' \in 0 .. MaxRequests
  BY <1>1, StartCounts DEF loc
<1> QED
  BY <1>3, <1>5, <1>6 DEF Begun, Stages

LEMMA SuggestBegins ==
    ASSUME TypeInv, NEW c \in Request, StartSuggest(c)
    PROVE  Begun(c)
<1>1. PICK s \in Suggestion, u \in users, e \in Rows(table), f \in Field, v \in Proposed :
        /\ v \in Of(f)
        /\ Start(c, "suggest", "suggest",
             [NoLocal EXCEPT !.suggestion = s, !.user = u, !.entry = e, !.field = f, !.value = v,
                             !.old = [word |-> table[e].word, meanings |-> table[e].meanings]])
  BY DEF StartSuggest, Of
<1>0. u \in User
  BY DEF TypeInv, TypeOK
<1> DEFINE was == [word |-> table[e].word, meanings |-> table[e].meanings]
           loc == [NoLocal EXCEPT !.suggestion = s, !.user = u, !.entry = e, !.field = f, !.value = v, !.old = was]
<1>2. e \in Entry /\ table[e] \in Row /\ v \in Value
  BY InputAssumption, Reality
<1>3. was \in Dto /\ was.word \in Word /\ was.meanings \in Meaning
  BY <1>2 DEF Dto, Row
<1>4. Real(e, was)
  <2>1. <<e, "word", table[e].word>> \in held /\ <<e, "meanings", table[e].meanings>> \in held
    BY Reality
  <2>2. was["word"] = table[e].word /\ was["meanings"] = table[e].meanings
    OBVIOUS
  <2> QED
    BY <2>1, <2>2 DEF Real, Field
<1> HIDE DEF was
<1>5. /\ loc \in Local /\ loc.entry = e /\ loc.old = was /\ loc.suggestion = s /\ loc.field = f
      /\ loc.value = v /\ loc.user = u /\ loc.locked = {} /\ loc.rows = <<>>
  BY <1>0, <1>2, <1>3, NoLocalIsLocal DEF Local
<1> HIDE DEF loc
<1>6. Knows("suggest", loc) /\ Honest("suggest", loc)
  BY <1>0, <1>1, <1>2, <1>3, <1>4, <1>5 DEF Knows, Honest
<1>7. pc[c] = "idle" /\ Goto(c, "suggest", loc) /\ started' \in 0 .. MaxRequests
  BY <1>1, StartCounts DEF loc, was
<1> QED
  BY <1>5, <1>6, <1>7 DEF Begun, Stages

LEMMA ReviewBegins ==
    ASSUME TypeInv, Suggested, NEW c \in Request, StartReview(c)
    PROVE  Begun(c)
<1>1. PICK s \in Suggestion, approve \in BOOLEAN :
        /\ suggestions[s] # Nothing
        /\ Start(c, "review", "review",
             [NoLocal EXCEPT !.suggestion = s, !.flag = approve, !.entry = suggestions[s].entry,
                             !.field = suggestions[s].field, !.value = suggestions[s].new])
  BY DEF StartReview
<1> DEFINE row == suggestions[s]
           loc == [NoLocal EXCEPT !.suggestion = s, !.flag = approve, !.entry = row.entry,
                                  !.field = row.field, !.value = row.new]
<1>2. row \in SuggestionRow /\ row.new \in Of(row.field)
  BY <1>1 DEF TypeInv, TypeOK, Suggested
<1>3. row.entry \in Entry /\ row.field \in Field /\ row.new \in Value
  BY <1>2 DEF SuggestionRow
<1> HIDE DEF row
<1>4. /\ loc \in Local /\ loc.entry = row.entry /\ loc.suggestion = s /\ loc.field = row.field
      /\ loc.value = row.new /\ loc.locked = {} /\ loc.rows = <<>>
  BY <1>3, NoLocalIsLocal DEF Local
<1> HIDE DEF loc
<1>5. Knows("review", loc) /\ Honest("review", loc)
  BY <1>2, <1>3, <1>4 DEF Knows, Honest
<1>6. pc[c] = "idle" /\ Goto(c, "review", loc) /\ started' \in 0 .. MaxRequests
  BY <1>1, StartCounts DEF loc, row
<1> QED
  BY <1>4, <1>5, <1>6 DEF Begun, Stages

LEMMA RowCallBegins ==
    ASSUME TypeInv, NEW c \in Request, StartDelete(c) \/ StartToggle(c)
    PROVE  Begun(c)
<1>1. CASE StartDelete(c)
  <2>1. PICK e \in Rows(table) : Start(c, "delete", "delete", [NoLocal EXCEPT !.entry = e])
    BY <1>1 DEF StartDelete
  <2> DEFINE loc == [NoLocal EXCEPT !.entry = e]
  <2>2. e \in Entry
    BY Reality
  <2>3. loc \in Local /\ loc.entry = e /\ loc.locked = {} /\ loc.rows = <<>>
    BY <2>2, NoLocalIsLocal DEF Local
  <2> HIDE DEF loc
  <2>4. Knows("delete", loc) /\ Honest("delete", loc)
    BY <2>2, <2>3 DEF Knows, Honest
  <2>5. pc[c] = "idle" /\ Goto(c, "delete", loc) /\ started' \in 0 .. MaxRequests
    BY <2>1, StartCounts DEF loc
  <2> QED
    BY <2>3, <2>4, <2>5 DEF Begun, Stages
<1>2. CASE StartToggle(c)
  <2>1. PICK u \in users, e \in Rows(table) :
          Start(c, "toggle", "toggle",
                [NoLocal EXCEPT !.user = u, !.entry = e, !.flag = <<u, e>> \in favorites])
    BY <1>2 DEF StartToggle
  <2> DEFINE marked == <<u, e>> \in favorites
             loc == [NoLocal EXCEPT !.user = u, !.entry = e, !.flag = marked]
  <2>2. e \in Entry /\ u \in User
    BY Reality DEF TypeInv, TypeOK
  <2>6. marked \in BOOLEAN
    OBVIOUS
  <2> HIDE DEF marked
  <2>3. loc \in Local /\ loc.entry = e /\ loc.user = u /\ loc.locked = {} /\ loc.rows = <<>>
    BY <2>2, <2>6, NoLocalIsLocal DEF Local
  <2> HIDE DEF loc
  <2>4. Knows("toggle", loc) /\ Honest("toggle", loc)
    BY <2>2, <2>3 DEF Knows, Honest
  <2>5. pc[c] = "idle" /\ Goto(c, "toggle", loc) /\ started' \in 0 .. MaxRequests
    BY <2>1, StartCounts DEF loc, marked
  <2> QED
    BY <2>3, <2>4, <2>5 DEF Begun, Stages
<1> QED
  BY <1>1, <1>2

LEMMA BulkCallBegins ==
    ASSUME TypeInv, NEW c \in Request, StartBulkDelete(c) \/ StartBulk(c)
    PROVE  Begun(c)
<1>0. Rows(table) \subseteq Entry
  BY TableFacts
<1>1. CASE StartBulkDelete(c)
  <2>1. PICK ids \in SUBSET Rows(table) :
          Start(c, "bulkDelete", "bulkDelete", [NoLocal EXCEPT !.targets = ids])
    BY <1>1 DEF StartBulkDelete
  <2> DEFINE loc == [NoLocal EXCEPT !.targets = ids]
  <2>2. loc \in Local /\ loc.locked = {} /\ loc.rows = <<>>
    BY <1>0, NoLocalIsLocal DEF Local
  <2> HIDE DEF loc
  <2>3. Knows("bulkDelete", loc) /\ Honest("bulkDelete", loc)
    BY <2>2 DEF Knows, Honest
  <2>4. pc[c] = "idle" /\ Goto(c, "bulkDelete", loc) /\ started' \in 0 .. MaxRequests
    BY <2>1, StartCounts DEF loc
  <2> QED
    BY <2>2, <2>3, <2>4 DEF Begun, Stages
<1>2. CASE StartBulk(c)
  <2>1. PICK ids \in Batches, dto \in Edits :
          Start(c, "bulk", "bulk", [NoLocal EXCEPT !.todo = ids, !.targets = Rows(table), !.dto = dto])
    BY <1>2 DEF StartBulk
  <2> DEFINE loc == [NoLocal EXCEPT !.todo = ids, !.targets = Rows(table), !.dto = dto]
  <2>2. ids \in Seq(Entry) /\ dto \in Dto
    BY InputAssumption
  <2> HIDE DEF loc
  <2>3. loc \in Local /\ loc.locked = {} /\ loc.rows = <<>>
    BY <1>0, <2>2, NoLocalIsLocal DEF Local, loc
  <2> HIDE DEF loc
  <2>4. Knows("bulk", loc) /\ Honest("bulk", loc)
    BY <2>3 DEF Knows, Honest
  <2>5. pc[c] = "idle" /\ Goto(c, "bulk", loc) /\ started' \in 0 .. MaxRequests
    BY <2>1, StartCounts DEF loc
  <2> QED
    BY <2>3, <2>4, <2>5 DEF Begun, Stages
<1> QED
  BY <1>1, <1>2

LEMMA PipelineBegins ==
    ASSUME TypeInv, NEW c \in Request, StartImprove(c) \/ StartLoad(c)
    PROVE  Begun(c)
<1>0. table \in [Entry -> Row \cup {Nothing}]
  BY TableFacts
<1>1. CASE StartImprove(c)
  <2>1. PICK ids \in Batches :
          Start(c, "improve", "improve", [NoLocal EXCEPT !.todo = ids, !.read = table])
    BY <1>1 DEF StartImprove
  <2> DEFINE loc == [NoLocal EXCEPT !.todo = ids, !.read = table]
  <2>2. ids \in Seq(Entry)
    BY InputAssumption
  <2>3. loc \in Local /\ loc.locked = {} /\ loc.rows = <<>>
    BY <1>0, <2>2, NoLocalIsLocal DEF Local
  <2> HIDE DEF loc
  <2>4. Knows("improve", loc) /\ Honest("improve", loc)
    BY <2>3 DEF Knows, Honest
  <2>5. pc[c] = "idle" /\ Goto(c, "improve", loc) /\ started' \in 0 .. MaxRequests
    BY <2>1, StartCounts DEF loc
  <2> QED
    BY <2>3, <2>4, <2>5 DEF Begun, Stages
<1>2. CASE StartLoad(c)
  <2>1. PICK f \in Files :
          Start(c, "load", "loadDelete", [NoLocal EXCEPT !.rows = DbEntries(f), !.read = table])
    BY <1>2 DEF StartLoad
  <2> DEFINE rs == DbEntries(f)
             loc == [NoLocal EXCEPT !.rows = rs, !.read = table]
  <2>2. rs \in Seq(Row) /\ \A i \in DOMAIN rs : rs[i].norm = Norm[rs[i].word]
    BY FilesTyped
  <2> HIDE DEF rs
  <2>3. loc \in Local /\ loc.locked = {} /\ loc.rows = rs
    BY <1>0, <2>2, NoLocalIsLocal DEF Local
  <2> HIDE DEF loc
  <2>4. Knows("loadDelete", loc) /\ Honest("loadDelete", loc)
    BY <2>2, <2>3 DEF Knows, Honest
  <2>5. pc[c] = "idle" /\ Goto(c, "loadDelete", loc) /\ started' \in 0 .. MaxRequests
    BY <2>1, StartCounts DEF loc, rs
  <2> QED
    BY <2>3, <2>4, <2>5 DEF Begun, Stages
<1> QED
  BY <1>1, <1>2

LEMMA CallsBegin ==
    ASSUME TypeInv, Suggested, AuditOfRealValues, NEW c \in Request, Begin(c)
    PROVE  Begun(c)
BY UpdateBegins, RevertBegins, SuggestBegins, ReviewBegins, RowCallBegins, BulkCallBegins,
   PipelineBegins DEF Begin

LEMMA RevertGoesOn ==
    ASSUME TypeInv, NEW c \in Request, Revert(c)
    PROVE  Return(c) \/ Onward(c)
<1>1. local[c] \in Local /\ Knows("revert", local[c])
  BY CallTyped DEF Revert
<1>2. Knows("revertLog", local[c])
  BY <1>1 DEF Knows
<1> QED
  BY <1>1, <1>2 DEF Revert, Move, Onward, Stages

LEMMA BulkGoesOn ==
    ASSUME TypeInv, NEW c \in Request, BulkItem(c)
    PROVE  Return(c) \/ Onward(c)
<1> DEFINE loc == local[c]
           e == Head(loc.todo)
           done == [loc EXCEPT !.todo = Tail(@)]
           more == [done EXCEPT !.locked = @ \cup {e}]
<1>0. pc[c] = "bulk" /\ loc.todo # <<>> /\ loc \in Local /\ Knows("bulk", loc)
  BY CallTyped DEF BulkItem
<1>1. e \in Entry /\ done \in Local
  BY <1>0, Filled
<1>2. more \in Local
  <2> HIDE DEF done, e
  <2>1. done.locked \cup {e} \in SUBSET Entry
    BY <1>1 DEF Local
  <2> QED
    BY <1>1, <2>1, Filled
<1>3. /\ done.entry = loc.entry /\ done.old = loc.old /\ done.dto = loc.dto /\ done.rows = loc.rows
      /\ more.entry = loc.entry /\ more.old = loc.old /\ more.dto = loc.dto /\ more.rows = loc.rows
  BY <1>0 DEF Local
<1>4. \/ Return(c) \/ Move(c, "bulk", done) \/ Move(c, "bulk", more)
  BY DEF BulkItem
<1> HIDE DEF done, more
<1>5. Knows("bulk", done) /\ Knows("bulk", more)
  BY <1>0, <1>3 DEF Knows
<1> QED
  BY <1>0, <1>1, <1>2, <1>3, <1>4, <1>5 DEF Move, Onward, Stages

LEMMA ImproveGoesOn ==
    ASSUME TypeInv, NEW c \in Request, ImproveOne(c)
    PROVE  Return(c) \/ Onward(c)
<1> DEFINE loc == local[c]
           rest == [loc EXCEPT !.todo = Tail(@)]
<1>0. pc[c] = "improve" /\ loc.todo # <<>> /\ loc \in Local /\ Knows("improve", loc)
  BY CallTyped DEF ImproveOne
<1>1. rest \in Local
  BY <1>0, Filled
<1>2. /\ rest.entry = loc.entry /\ rest.old = loc.old /\ rest.dto = loc.dto /\ rest.rows = loc.rows
      /\ rest.locked = loc.locked
  BY <1>0 DEF Local
<1>3. Return(c) \/ Move(c, "improve", rest)
  BY DEF ImproveOne
<1> HIDE DEF rest
<1>4. Knows("improve", rest)
  BY <1>0, <1>2 DEF Knows
<1> QED
  BY <1>0, <1>1, <1>2, <1>3, <1>4 DEF Move, Onward, Stages

LEMMA LoadGoesOn ==
    ASSUME TypeInv, NEW c \in Request, LoadDelete(c) \/ LoadCommit(c) \/ LoadFails(c)
    PROVE  Onward(c)
<1> DEFINE loc == local[c]
           taken == [loc EXCEPT !.locked = Rows(table)]
           none == [loc EXCEPT !.locked = {}]
<1>0. loc \in Local /\ Knows(pc[c], loc) /\ Rows(table) \subseteq Entry
  BY CallTyped, TableFacts
<1>1. taken \in Local /\ none \in Local
  BY <1>0, Filled
<1>2. /\ taken.entry = loc.entry /\ taken.old = loc.old /\ taken.dto = loc.dto /\ taken.rows = loc.rows
      /\ none.entry = loc.entry /\ none.old = loc.old /\ none.dto = loc.dto /\ none.rows = loc.rows
      /\ none.locked = {}
  BY <1>0 DEF Local
<1>3. /\ pc[c] \in {"loadDelete", "loadCommit", "loadIndex"}
      /\ Move(c, "loadCommit", taken) \/ Move(c, "loadIndex", none) \/ Move(c, "loadError", none)
  BY DEF LoadDelete, LoadCommit, LoadFails
<1> HIDE DEF taken, none
<1>4. Knows("loadCommit", taken) /\ Knows("loadIndex", none) /\ Knows("loadError", none)
  BY <1>0, <1>2 DEF Knows
<1> QED
  BY <1>1, <1>2, <1>3, <1>4 DEF Move, Onward, Stages

Advance(c) == Begun(c) \/ Return(c) \/ Onward(c)

Acts(c) == Begin(c) \/ Step(c) \/ LoadFails(c) \/ Fail(c)

LEMMA NextCases ==
    ASSUME [Next]_vars
    PROVE  \/ UNCHANGED vars \/ ClearAll \/ DeleteUser \/ StoreAudit
           \/ \E c \in Request : Acts(c)
BY DEF Next, Acts

LEMMA CallsProceed ==
    ASSUME TypeInv, NEW c \in Request, Step(c) \/ LoadFails(c) \/ Fail(c)
    PROVE  Return(c) \/ Onward(c)
<1>1. CASE LoadFails(c) \/ Fail(c)
  BY <1>1, LoadGoesOn DEF Fail
<1>2. ASSUME \/ Update(c) \/ Delete(c) \/ BulkDelete(c) \/ BulkCommit(c) \/ LogRevert(c)
             \/ Suggest(c) \/ Review(c) \/ Toggle(c) \/ EndImprove(c)
             \/ RecordError(c) \/ RecordLoad(c)
      PROVE  Return(c)
  BY <1>2 DEF Update, Delete, BulkDelete, BulkCommit, LogRevert, Suggest, Review, Toggle, EndImprove,
              RecordError, RecordLoad
<1>3. CASE Step(c)
  BY <1>2, <1>3, RevertGoesOn, BulkGoesOn, ImproveGoesOn, LoadGoesOn DEF Step
<1> QED
  BY <1>1, <1>3

LEMMA CallsGoOn ==
    ASSUME TypeInv, Suggested, AuditOfRealValues, NEW c \in Request, Acts(c)
    PROVE  Advance(c)
BY CallsBegin, CallsProceed DEF Acts, Advance

LEMMA GotoTyped ==
    ASSUME TypeInv, NEW c \in Request, NEW stage \in Stages, NEW loc \in Local,
           Knows(stage, loc), Goto(c, stage, loc)
    PROVE  /\ pc' \in [Request -> Stages] /\ local' \in [Request -> Local]
           /\ pc'[c] = stage /\ local'[c] = loc
           /\ \A d \in Request \ {c} : pc'[d] = pc[d] /\ local'[d] = local[d]
           /\ Informed'
<1>1. pc \in [Request -> Stages] /\ local \in [Request -> Local]
  BY DEF TypeInv, TypeOK
<1>2. /\ pc' \in [Request -> Stages] /\ local' \in [Request -> Local]
      /\ pc'[c] = stage /\ local'[c] = loc
      /\ \A d \in Request \ {c} : pc'[d] = pc[d] /\ local'[d] = local[d]
  BY <1>1 DEF Goto
<1>3. ASSUME NEW d \in Request PROVE Knows(pc'[d], local'[d])
  BY <1>2, CallTyped
<1> QED
  BY <1>2, <1>3 DEF Informed

LEMMA NoLocalKnows == Knows("idle", NoLocal) /\ Honest("idle", NoLocal) /\ "idle" \in Stages
BY NoLocalIsLocal DEF Knows, Honest, Stages

(* One call changes at a time. *)
LEMMA Others ==
    ASSUME TypeInv, NEW c \in Request, Advance(c)
    PROVE  \A d \in Request \ {c} : pc'[d] = pc[d] /\ local'[d] = local[d]
<1>1. CASE Begun(c)
  BY <1>1, GotoTyped DEF Begun
<1>2. CASE Return(c)
  BY <1>2, GotoTyped, NoLocalKnows, NoLocalIsLocal DEF Return, Move
<1>3. CASE Onward(c)
  BY <1>3, GotoTyped DEF Onward
<1> QED
  BY <1>1, <1>2, <1>3 DEF Advance

LEMMA Returned ==
    ASSUME TypeInv, NEW c \in Request, Return(c)
    PROVE  /\ pc'[c] = "idle" /\ local'[c] = NoLocal /\ local'[c].locked = {}
           /\ \A d \in Request \ {c} : pc'[d] = pc[d] /\ local'[d] = local[d]
BY GotoTyped, NoLocalKnows, NoLocalIsLocal DEF Return, Move

LEMMA CallsTyped ==
    ASSUME TypeInv, Suggested, AuditOfRealValues, [Next]_vars
    PROVE  /\ pc' \in [Request -> Stages] /\ local' \in [Request -> Local]
           /\ started' \in 0 .. MaxRequests
           /\ Informed'
<1>0. started \in 0 .. MaxRequests /\ pc \in [Request -> Stages] /\ local \in [Request -> Local]
  BY DEF TypeInv, TypeOK
<1>1. ASSUME UNCHANGED vars \/ ClearAll \/ DeleteUser \/ StoreAudit
      PROVE  /\ pc' \in [Request -> Stages] /\ local' \in [Request -> Local]
             /\ started' \in 0 .. MaxRequests
             /\ Informed'
  <2>1. UNCHANGED <<pc, local>> /\ started' \in 0 .. MaxRequests
    BY <1>0, <1>1, BoundAssumption DEF vars, requests, ClearAll, DeleteUser, StoreAudit
  <2> QED
    BY <1>0, <2>1, CallTyped DEF Informed
<1>2. ASSUME NEW c \in Request, Begun(c)
      PROVE  /\ pc' \in [Request -> Stages] /\ local' \in [Request -> Local]
             /\ started' \in 0 .. MaxRequests
             /\ Informed'
  BY <1>2, GotoTyped DEF Begun
<1>3. ASSUME NEW c \in Request, Return(c)
      PROVE  /\ pc' \in [Request -> Stages] /\ local' \in [Request -> Local]
             /\ started' \in 0 .. MaxRequests
             /\ Informed'
  BY <1>0, <1>3, GotoTyped, NoLocalKnows, NoLocalIsLocal DEF Return, Move
<1>4. ASSUME NEW c \in Request, Onward(c)
      PROVE  /\ pc' \in [Request -> Stages] /\ local' \in [Request -> Local]
             /\ started' \in 0 .. MaxRequests
             /\ Informed'
  BY <1>0, <1>4, GotoTyped DEF Onward
<1> QED
  BY <1>1, <1>2, <1>3, <1>4, NextCases, CallsGoOn DEF Advance

----------------------------------------------------------------------------
(* The rows transactions hold.                                             *)

(* A call that takes rows takes rows that are there and are free. *)
Takes(c) ==
    /\ local'[c].locked \subseteq Rows(table)
    /\ \A e \in local'[c].locked \ local[c].locked : Free(c, e)

LEMMA BulkTakes ==
    ASSUME TypeInv, Locks, NEW c \in Request, BulkItem(c)
    PROVE  Takes(c)
<1> DEFINE loc == local[c]
           e == Head(loc.todo)
           done == [loc EXCEPT !.todo = Tail(@)]
           more == [done EXCEPT !.locked = @ \cup {e}]
<1>0. pc[c] = "bulk" /\ loc.todo # <<>> /\ loc \in Local /\ loc.locked \subseteq Rows(table)
  BY CallTyped DEF BulkItem, Locks
<1>1. e \in Entry
  BY <1>0, Filled
<1>2. done.locked = loc.locked /\ more.locked = loc.locked \cup {e}
  BY <1>0 DEF Local
<1>3. local \in [Request -> Local]
  BY DEF TypeInv, TypeOK
<1>4. \/ Return(c)
      \/ local'[c] = done
      \/ local'[c] = more /\ Free(c, e) /\ table[e] # Nothing
  BY <1>3 DEF BulkItem, Move, Goto
<1> HIDE DEF done, more
<1>5. CASE Return(c)
  BY <1>5, Returned DEF Takes
<1>6. CASE local'[c] = done
  BY <1>0, <1>2, <1>6 DEF Takes
<1>7. CASE local'[c] = more /\ Free(c, e) /\ table[e] # Nothing
  <2>1. e \in Rows(table)
    BY <1>1, <1>7 DEF Rows
  <2> HIDE DEF e
  <2> QED
    BY <1>0, <1>2, <1>7, <2>1 DEF Takes
<1> QED
  BY <1>4, <1>5, <1>6, <1>7

LEMMA LoadTakes ==
    ASSUME TypeInv, NEW c \in Request, LoadDelete(c)
    PROVE  Takes(c)
<1>1. local[c] \in Local /\ local \in [Request -> Local]
  BY DEF TypeInv, TypeOK
<1>2. local'[c] = [local[c] EXCEPT !.locked = Rows(table)]
  BY <1>1 DEF LoadDelete, Move, Goto
<1>3. local'[c].locked = Rows(table)
  BY <1>1, <1>2 DEF Local
<1> QED
  BY <1>3 DEF LoadDelete, Takes

LEMMA OthersTakeNone ==
    ASSUME TypeInv, Suggested, AuditOfRealValues, NEW c \in Request, Acts(c)
    PROVE  BulkItem(c) \/ LoadDelete(c) \/ local'[c].locked = {}
<1>0. local[c] \in Local /\ local \in [Request -> Local]
  BY DEF TypeInv, TypeOK
<1>1. CASE Return(c)
  BY <1>1, Returned
<1>2. CASE Begin(c)
  <2>1. Begun(c)
    BY <1>2, CallsBegin
  <2> QED
    BY <2>1, GotoTyped DEF Begun
<1>3. CASE LoadCommit(c) \/ LoadFails(c)
  <2>1. local'[c] = [local[c] EXCEPT !.locked = {}]
    BY <1>0, <1>3 DEF LoadCommit, LoadFails, Move, Goto
  <2> QED
    BY <1>0, <2>1 DEF Local
<1>4. CASE Revert(c) \/ ImproveOne(c)
  <2>1. Return(c) \/ Onward(c)
    BY <1>4, RevertGoesOn, ImproveGoesOn
  <2>2. pc[c] \in {"revert", "improve"}
    BY <1>4 DEF Revert, ImproveOne
  <2>3. CASE Onward(c)
    <3>1. PICK stage \in Stages, loc \in Local :
            Goto(c, stage, loc) /\ Knows(stage, loc) /\ stage \in {"revertLog", "improve"}
      BY <2>2, <2>3 DEF Onward
    <3> QED
      BY <3>1, GotoTyped DEF Knows
  <2> QED
    BY <1>1, <2>1, <2>3
<1>5. ASSUME \/ Update(c) \/ Delete(c) \/ BulkDelete(c) \/ BulkCommit(c) \/ LogRevert(c)
             \/ Suggest(c) \/ Review(c) \/ Toggle(c) \/ EndImprove(c)
             \/ RecordError(c) \/ RecordLoad(c) \/ Fail(c)
      PROVE  Return(c)
  BY <1>5 DEF Update, Delete, BulkDelete, BulkCommit, LogRevert, Suggest, Review, Toggle, EndImprove,
              RecordError, RecordLoad, Fail
<1> QED
  BY <1>1, <1>2, <1>3, <1>4, <1>5 DEF Acts, Step

LEMMA LocksTaken ==
    ASSUME TypeInv, Locks, Suggested, AuditOfRealValues, NEW c \in Request, Acts(c)
    PROVE  Takes(c)
<1>1. CASE local'[c].locked = {}
  BY <1>1 DEF Takes
<1> QED
  BY <1>1, OthersTakeNone, BulkTakes, LoadTakes

(* A call removes only rows no other transaction holds. *)
LEMMA RemovedWereFree ==
    ASSUME TypeInv, Locks, NEW c \in Request, Removes(c)
    PROVE  /\ Acts(c) /\ local'[c].locked = {}
           /\ \A d \in Request \ {c} : local[d].locked \subseteq Rows(table')
<1>0. Rows(table) \subseteq Entry /\ \A d \in Request : local[d].locked \subseteq Rows(table)
  BY TableFacts DEF Locks
<1>1. CASE Delete(c) /\ DeleteRows({local[c].entry})
  <2>1. Return(c) /\ Free(c, local[c].entry) /\ Acts(c)
    BY <1>1 DEF Delete, Acts, Step
  <2>2. Rows(table') = Rows(table) \ {local[c].entry}
    BY <1>1, DeleteStep
  <2> QED
    BY <1>0, <2>1, <2>2, Returned DEF Free
<1>2. CASE BulkDelete(c)
  <2>1. Return(c) /\ (\A e \in local[c].targets : Free(c, e)) /\ Acts(c)
    BY <1>2 DEF BulkDelete, Acts, Step
  <2>2. Rows(table') = Rows(table) \ local[c].targets
    BY <1>2, DeleteStep DEF BulkDelete
  <2> QED
    BY <1>0, <2>1, <2>2, Returned DEF Free
<1>3. CASE LoadCommit(c)
  <2>0. local[c] \in Local /\ local \in [Request -> Local]
    BY DEF TypeInv, TypeOK
  <2>1. local'[c] = [local[c] EXCEPT !.locked = {}] /\ Acts(c)
    BY <1>3, <2>0 DEF LoadCommit, Move, Goto, Acts, Step
  <2>2. local'[c].locked = {}
    BY <2>0, <2>1 DEF Local
  <2>3. ASSUME NEW d \in Request \ {c}, NEW e \in local[d].locked PROVE e \in Rows(table')
    <3>1. e \in Rows(table) /\ e \notin local[c].locked /\ e < nextId
      BY <1>0, TableFacts DEF Locks
    <3>2. table'[e] = table[e]
      BY <1>0, <1>3, <3>1, LoadStep
    <3> QED
      BY <3>1, <3>2 DEF Rows
  <2> QED
    BY <2>1, <2>2, <2>3
<1> QED
  BY <1>1, <1>2, <1>3 DEF Removes

LEMMA LocksKept ==
    ASSUME TypeInv, Locks, NoOrphans, Suggested, AuditOfRealValues, [Next]_vars
    PROVE  Locks'
<1>0. /\ \A c \in Request : local[c].locked \subseteq Rows(table)
      /\ \A c, d \in Request : c # d => local[c].locked \cap local[d].locked = {}
  BY DEF Locks
<1>1. ASSUME UNCHANGED vars \/ ClearAll \/ DeleteUser \/ StoreAudit PROVE Locks'
  <2>1. UNCHANGED <<table, local>>
    BY <1>1 DEF vars, requests, ClearAll, DeleteUser, StoreAudit, KeepTable
  <2> QED
    BY <2>1 DEF Locks, Rows
<1>2. ASSUME NEW c \in Request, Acts(c)
      PROVE  \A d, b \in Request : d # b => local'[d].locked \cap local'[b].locked = {}
  <2>1. \A d \in Request \ {c} : local'[d] = local[d]
    BY <1>2, CallsGoOn, Others
  <2>2. \A d \in Request \ {c} : local'[c].locked \cap local[d].locked = {}
    BY <1>0, <1>2, LocksTaken DEF Takes, Free
  <2> QED
    BY <1>0, <2>1, <2>2
<1>3. ASSUME NEW c \in Request, Removes(c) PROVE Locks'
  <2>1. Acts(c)
    BY <1>3, RemovedWereFree
  <2>2. \A d \in Request \ {c} : local'[d] = local[d]
    BY <2>1, CallsGoOn, Others
  <2>3. \A d \in Request : local'[d].locked \subseteq Rows(table')
    BY <1>3, <2>2, RemovedWereFree
  <2> QED
    BY <1>2, <2>1, <2>3 DEF Locks
<1>4. ASSUME NEW c \in Request, Acts(c), Rows(table') = Rows(table) PROVE Locks'
  <2>1. \A d \in Request \ {c} : local'[d] = local[d]
    BY <1>4, CallsGoOn, Others
  <2>2. \A d \in Request : local'[d].locked \subseteq Rows(table')
    BY <1>0, <1>4, <2>1, LocksTaken DEF Takes
  <2> QED
    BY <1>2, <1>4, <2>2 DEF Locks
<1> QED
  BY <1>1, <1>3, <1>4, NextCases, RowsStay

----------------------------------------------------------------------------
(* The rows that refer to entries.                                         *)

ReferencesTyped ==
    /\ favorites \subseteq User \X Entry
    /\ suggestions \in [Suggestion -> SuggestionRow \cup {Nothing}]
    /\ editLog \subseteq Audit
    /\ unlogged \subseteq Audit

LEMMA ReferenceFacts ==
    ASSUME TypeInv
    PROVE  /\ ReferencesTyped
           /\ \A s \in Suggestion : suggestions[s] # Nothing => suggestions[s] \in SuggestionRow
           /\ \A r \in SuggestionRow : r # Nothing
BY RowAssumption DEF TypeInv, TypeOK, ReferencesTyped

(* What the cascades leave. *)
Cascaded ==
    /\ favorites' \subseteq favorites /\ \A f \in favorites' : f[2] \in Rows(table')
    /\ editLog' \subseteq editLog /\ \A r \in editLog' : r.entry \in Rows(table') \cup {Nothing}
    /\ suggestions' \in [Suggestion -> SuggestionRow \cup {Nothing}]
    /\ \A s \in Suggestion : suggestions'[s] # Nothing =>
           suggestions'[s] = suggestions[s] /\ suggestions[s].entry \in Rows(table')

LEMMA Cascades ==
    ASSUME TypeInv, NoOrphans, NEW c \in Request, Removes(c)
    PROVE  Cascaded
<1>1. \E kept \in SUBSET Rows(table') : Rows(table') \cap Rows(table) \subseteq kept /\ KeepOnly(kept)
  <2>1. CASE (Delete(c) /\ DeleteRows({local[c].entry})) \/ BulkDelete(c)
    <3>1. KeepOnly(Rows(table'))
      BY <2>1, DeleteStep DEF BulkDelete
    <3> QED
      BY <3>1
  <2>2. CASE LoadCommit(c)
    <3> DEFINE kept == Rows(table) \ local[c].locked
    <3>0. Rows(table) \subseteq Entry /\ \A e \in Rows(table) : e < nextId
      BY TableFacts
    <3>1. \A e \in Rows(table) : table'[e] = IF e \in local[c].locked THEN Nothing ELSE table[e]
      BY <2>2, <3>0, LoadStep
    <3>2. kept \subseteq Rows(table') /\ Rows(table') \cap Rows(table) \subseteq kept
      BY <3>0, <3>1 DEF Rows
    <3>3. KeepOnly(kept)
      BY <2>2 DEF LoadCommit
    <3> QED
      BY <3>2, <3>3
  <2> QED
    BY <2>1, <2>2 DEF Removes
<1>2. PICK kept \in SUBSET Rows(table') : /\ Rows(table') \cap Rows(table) \subseteq kept
                                          /\ KeepOnly(kept)
  BY <1>1
<1>3. favorites' \subseteq favorites /\ \A f \in favorites' : f[2] \in Rows(table')
  BY <1>2 DEF KeepOnly
<1>4. editLog' \subseteq editLog /\ \A r \in editLog' : r.entry \in Rows(table') \cup {Nothing}
  BY <1>2 DEF KeepOnly
<1>5. suggestions \in [Suggestion -> SuggestionRow \cup {Nothing}]
  BY DEF TypeInv, TypeOK
<1>6. suggestions' = [s \in Suggestion |->
           IF suggestions[s] # Nothing /\ suggestions[s].entry \notin kept
           THEN Nothing ELSE suggestions[s]]
  BY <1>2 DEF KeepOnly
<1>7. suggestions' \in [Suggestion -> SuggestionRow \cup {Nothing}]
  BY <1>5, <1>6
<1>8. \A s \in Suggestion : suggestions'[s] # Nothing =>
           suggestions'[s] = suggestions[s] /\ suggestions[s].entry \in Rows(table')
  BY <1>2, <1>6
<1> QED
  BY <1>3, <1>4, <1>7, <1>8 DEF Cascaded

(* Users leave only by DeleteUser. *)
LEMMA UsersStay ==
    ASSUME [Next]_vars
    PROVE  users' = users \/ DeleteUser
<1>1. ASSUME UNCHANGED vars \/ ClearAll \/ StoreAudit PROVE users' = users
  BY <1>1 DEF vars, ClearAll, StoreAudit, KeepTable
<1>2. ASSUME NEW c \in Request, Begin(c) PROVE users' = users
  BY <1>2, BeginWritesNothing
<1>3. ASSUME NEW c \in Request,
             \/ Update(c) \/ Delete(c) \/ BulkDelete(c) \/ BulkItem(c) \/ BulkCommit(c)
             \/ Revert(c) \/ LogRevert(c) \/ Suggest(c) \/ Review(c) \/ Toggle(c)
      PROVE  users' = users
  BY <1>3 DEF Update, Delete, BulkDelete, BulkItem, BulkCommit, Revert, LogRevert, Suggest, Review,
              Toggle, KeepTable, WriteRows, SetRows, DeleteRows
<1>4. ASSUME NEW c \in Request,
             \/ ImproveOne(c) \/ EndImprove(c) \/ LoadDelete(c) \/ LoadCommit(c)
             \/ RecordError(c) \/ RecordLoad(c) \/ LoadFails(c) \/ Fail(c)
      PROVE  users' = users
  BY <1>4 DEF ImproveOne, EndImprove, LoadDelete, LoadCommit, RecordError, RecordLoad, RecordRun,
              LoadFails, Fail, KeepTable, WriteRows, SetRows
<1>5. ASSUME NEW c \in Request, Acts(c) PROVE users' = users
  BY <1>2, <1>3, <1>4, <1>5 DEF Acts, Step
<1> QED
  BY <1>1, <1>5, NextCases

(* A user that is deleted takes favorites and suggestions along. *)
LEMMA UserGoes ==
    ASSUME TypeInv, NoOrphans, DeleteUser
    PROVE  /\ users' \subseteq users
           /\ favorites' \subseteq favorites /\ \A f \in favorites' : f[1] \in users'
           /\ suggestions' \in [Suggestion -> SuggestionRow \cup {Nothing}]
           /\ \A s \in Suggestion : suggestions'[s] # Nothing =>
                  suggestions'[s] = suggestions[s] /\ suggestions[s].user \in users'
           /\ UNCHANGED <<table, nextId, history, editLog, unlogged>>
<1>1. PICK u \in users :
        /\ users' = users \ {u}
        /\ favorites' = {f \in favorites : f[1] # u}
        /\ suggestions' = [s \in Suggestion |->
               IF suggestions[s] # Nothing /\ suggestions[s].user = u
               THEN Nothing ELSE suggestions[s]]
        /\ UNCHANGED <<table, nextId, history, editLog, unlogged>>
  BY DEF DeleteUser
<1>2. suggestions \in [Suggestion -> SuggestionRow \cup {Nothing}]
  BY DEF TypeInv, TypeOK
<1>3. suggestions' \in [Suggestion -> SuggestionRow \cup {Nothing}]
  BY <1>1, <1>2
<1>4. \A s \in Suggestion : suggestions'[s] # Nothing =>
          suggestions'[s] = suggestions[s] /\ suggestions[s].user \in users'
  BY <1>1 DEF NoOrphans
<1>5. favorites' \subseteq favorites /\ \A f \in favorites' : f[1] \in users'
  BY <1>1 DEF NoOrphans
<1> QED
  BY <1>1, <1>3, <1>4, <1>5

Refers(c) == Toggle(c) \/ LogRevert(c) \/ Suggest(c) \/ Review(c)

LEMMA ReferenceCases ==
    ASSUME [Next]_vars
    PROVE  \/ UNCHANGED references
           \/ ClearAll \/ DeleteUser \/ StoreAudit
           \/ \E c \in Request : Refers(c) \/ Removes(c)
<1>1. ASSUME NEW c \in Request, Begin(c) PROVE UNCHANGED references
  BY <1>1, BeginWritesNothing
<1>2. ASSUME NEW c \in Request,
             \/ Update(c) \/ BulkItem(c) \/ BulkCommit(c) \/ Revert(c) \/ ImproveOne(c)
             \/ EndImprove(c) \/ LoadDelete(c) \/ RecordError(c) \/ RecordLoad(c)
             \/ LoadFails(c) \/ Fail(c)
      PROVE  UNCHANGED references
  BY <1>2 DEF Update, BulkItem, BulkCommit, Revert, ImproveOne, EndImprove, LoadDelete, RecordError,
              RecordLoad, RecordRun, LoadFails, Fail
<1>3. ASSUME NEW c \in Request, Delete(c) PROVE UNCHANGED references \/ Removes(c)
  BY <1>3 DEF Delete, Removes
<1>4. ASSUME NEW c \in Request, Acts(c)
      PROVE  UNCHANGED references \/ Refers(c) \/ Removes(c)
  BY <1>1, <1>2, <1>3, <1>4 DEF Acts, Step, Refers, Removes
<1>5. ASSUME UNCHANGED vars PROVE UNCHANGED references
  BY <1>5 DEF vars
<1> QED
  BY <1>4, <1>5, NextCases

UpdateRecord(c) ==
    [entry |-> local[c].entry, action |-> "update", old |-> local[c].old, new |-> local[c].dto]

(* An audit record nobody waits for is of an update that was made, or of a *)
(* whole operation.                                                        *)
LEMMA RecordsLater ==
    ASSUME [Next]_vars
    PROVE  \/ unlogged' \subseteq unlogged
           \/ \E a \in {"delete", "bulk", "pipeline"} : unlogged' = unlogged \cup {AuditOf(a)}
           \/ \E c \in Request : /\ Update(c) /\ table[local[c].entry] # Nothing
                                 /\ unlogged' = unlogged \cup {UpdateRecord(c)}
<1>1. ASSUME UNCHANGED vars \/ ClearAll \/ DeleteUser \/ StoreAudit PROVE unlogged' \subseteq unlogged
  BY <1>1 DEF vars, ClearAll, DeleteUser, StoreAudit
<1>2. ASSUME NEW c \in Request, Begin(c) PROVE UNCHANGED unlogged
  BY <1>2, BeginWritesNothing
<1>3. ASSUME NEW c \in Request,
             \/ BulkDelete(c) \/ BulkItem(c) \/ Revert(c) \/ LogRevert(c) \/ Suggest(c) \/ Review(c)
             \/ Toggle(c) \/ ImproveOne(c) \/ LoadDelete(c) \/ LoadCommit(c) \/ RecordError(c)
             \/ LoadFails(c) \/ Fail(c)
      PROVE  UNCHANGED unlogged
  BY <1>3 DEF BulkDelete, BulkItem, Revert, LogRevert, Suggest, Review, Toggle, ImproveOne, LoadDelete,
              LoadCommit, RecordError, LoadFails, Fail
<1>4. ASSUME NEW c \in Request, Delete(c) \/ BulkCommit(c) \/ EndImprove(c) \/ RecordLoad(c)
      PROVE  \/ UNCHANGED unlogged
             \/ \E a \in {"delete", "bulk", "pipeline"} : unlogged' = unlogged \cup {AuditOf(a)}
  BY <1>4 DEF Delete, BulkCommit, EndImprove, RecordLoad, LogLater
<1>5. ASSUME NEW c \in Request, Update(c)
      PROVE  \/ UNCHANGED unlogged
             \/ table[local[c].entry] # Nothing /\ unlogged' = unlogged \cup {UpdateRecord(c)}
  BY <1>5 DEF Update, LogLater, UpdateRecord
<1>6. ASSUME NEW c \in Request, Acts(c)
      PROVE  \/ UNCHANGED unlogged
             \/ \E a \in {"delete", "bulk", "pipeline"} : unlogged' = unlogged \cup {AuditOf(a)}
             \/ /\ Update(c) /\ table[local[c].entry] # Nothing
                /\ unlogged' = unlogged \cup {UpdateRecord(c)}
  BY <1>2, <1>3, <1>4, <1>5, <1>6 DEF Acts, Step
<1> QED
  BY <1>1, <1>6, NextCases

LEMMA AuditTyped ==
    ASSUME TypeInv
    PROVE  /\ \A a \in {"delete", "bulk", "pipeline"} : AuditOf(a) \in Audit
           /\ \A c \in Request : local[c].entry \in Entry => UpdateRecord(c) \in Audit
           /\ \A c \in Request : local[c].entry \in Entry =>
                  [entry |-> local[c].entry, action |-> "revert",
                   old |-> local[c].old, new |-> local[c].dto] \in Audit
<1>1. \A c \in Request : local[c].old \in Dto /\ local[c].dto \in Dto
  BY DEF TypeInv, TypeOK, Local
<1>2. NoDto \in Dto
  BY DEF NoDto, Dto
<1> QED
  BY <1>1, <1>2 DEF AuditOf, UpdateRecord, Audit

LEMMA UnloggedTyped ==
    ASSUME TypeInv, [Next]_vars
    PROVE  unlogged' \subseteq Audit
<1>1. ASSUME NEW c \in Request, Update(c) PROVE local[c].entry \in Entry
  BY <1>1, CallTyped DEF Update, Knows
<1>2. unlogged \subseteq Audit
  BY DEF TypeInv, TypeOK
<1> QED
  BY <1>1, <1>2, RecordsLater, AuditTyped

(* What a step does to the suggestions. *)
SuggestionFate ==
    /\ suggestions' \in [Suggestion -> SuggestionRow \cup {Nothing}]
    /\ \A s \in Suggestion : suggestions'[s] # Nothing =>
           /\ suggestions'[s].entry \in Rows(table')
           /\ suggestions'[s].user \in users'
           /\ \/ /\ suggestions[s] # Nothing
                 /\ suggestions'[s].entry = suggestions[s].entry
                 /\ suggestions'[s].field = suggestions[s].field
                 /\ suggestions'[s].old = suggestions[s].old
                 /\ suggestions'[s].new = suggestions[s].new
                 /\ \/ suggestions'[s].status = suggestions[s].status
                    \/ suggestions'[s].status = "REJECTED"
                    \/ /\ suggestions'[s].status = "APPROVED"
                       /\ \E c \in Request : Applies(c) /\ s = local[c].suggestion
              \/ \E c \in Request : /\ Suggest(c) /\ s = local[c].suggestion
                                    /\ suggestions'[s] =
                                         [entry |-> local[c].entry, user |-> local[c].user,
                                          field |-> local[c].field,
                                          old |-> local[c].old[local[c].field],
                                          new |-> local[c].value, status |-> "PENDING"]

LEMMA SuggestionsKept ==
    ASSUME TypeInv, NoOrphans, UNCHANGED <<suggestions, users>>, Rows(table') = Rows(table)
    PROVE  SuggestionFate
BY ReferenceFacts DEF ReferencesTyped, NoOrphans, SuggestionFate

LEMMA SuggestionsCascade ==
    ASSUME TypeInv, NoOrphans, Cascaded, UNCHANGED users
    PROVE  SuggestionFate
BY DEF Cascaded, SuggestionFate, NoOrphans

LEMMA SuggestionsLeave ==
    ASSUME TypeInv, NoOrphans, DeleteUser
    PROVE  SuggestionFate
<1>1. Rows(table') = Rows(table)
  BY UserGoes DEF Rows
<1> QED
  BY <1>1, UserGoes DEF SuggestionFate, NoOrphans

LEMMA SuggestionMade ==
    ASSUME TypeInv, NoOrphans, Suggested, NEW c \in Request, Suggest(c),
           Rows(table') = Rows(table), UNCHANGED users
    PROVE  SuggestionFate
<1> DEFINE loc == local[c]
           s == loc.suggestion
           row == [entry |-> loc.entry, user |-> loc.user, field |-> loc.field,
                   old |-> loc.old[loc.field], new |-> loc.value, status |-> "PENDING"]
<1>1. CASE UNCHANGED suggestions
  BY <1>1, SuggestionsKept
<1>2. CASE /\ table[loc.entry] # Nothing /\ loc.user \in users
           /\ suggestions' = [suggestions EXCEPT ![s] = row]
  <2>1. /\ loc.entry \in Entry /\ s \in Suggestion /\ loc.value \in Of(loc.field)
        /\ loc.field \in Field /\ loc.user \in User
        /\ loc.old.word \in Word /\ loc.old.meanings \in Meaning
    BY CallTyped DEF Suggest, Knows, Local
  <2>2. loc.old[loc.field] \in Value /\ loc.value \in Value
    BY <2>1 DEF Field, Value, Of
  <2>3. row \in SuggestionRow /\ row.entry = loc.entry /\ row.user = loc.user
    BY <2>1, <2>2 DEF SuggestionRow
  <2>4. loc.entry \in Rows(table')
    BY <1>2, <2>1 DEF Rows
  <2>5. suggestions[s] = Nothing
    BY DEF Suggest, Suggested, Matches
  <2>6. row # Nothing
    BY <2>3, ReferenceFacts
  <2> HIDE DEF row
  <2>7. suggestions \in [Suggestion -> SuggestionRow \cup {Nothing}]
    BY ReferenceFacts DEF ReferencesTyped
  <2>8. suggestions'[s] = row /\ \A t \in Suggestion \ {s} : suggestions'[t] = suggestions[t]
    BY <1>2, <2>1, <2>7
  <2>9. suggestions' \in [Suggestion -> SuggestionRow \cup {Nothing}]
    BY <1>2, <2>3, <2>7
  <2> QED
    BY <1>2, <2>3, <2>4, <2>5, <2>8, <2>9 DEF SuggestionFate, NoOrphans, row
<1> QED
  BY <1>1, <1>2 DEF Suggest

LEMMA SuggestionReviewed ==
    ASSUME TypeInv, NoOrphans, Suggested, NEW c \in Request, Review(c),
           Rows(table') = Rows(table), UNCHANGED users
    PROVE  SuggestionFate
<1> DEFINE s == local[c].suggestion
<1>1. CASE UNCHANGED suggestions
  BY <1>1, SuggestionsKept
<1>2. ASSUME NEW st \in {"APPROVED", "REJECTED"}, suggestions[s] # Nothing,
             suggestions' = Decided(s, st), st = "APPROVED" => Applies(c)
      PROVE  SuggestionFate
  <2>1. s \in Suggestion
    BY CallTyped DEF Review, Knows
  <2>2. /\ suggestions \in [Suggestion -> SuggestionRow \cup {Nothing}]
        /\ suggestions[s] \in SuggestionRow
    BY <1>2, <2>1, ReferenceFacts DEF ReferencesTyped
  <2> DEFINE row == [suggestions[s] EXCEPT !.status = st]
  <2>3. /\ row \in SuggestionRow /\ row.entry = suggestions[s].entry /\ row.field = suggestions[s].field
        /\ row.user = suggestions[s].user /\ row.old = suggestions[s].old /\ row.new = suggestions[s].new /\ row.status = st
    BY <2>2 DEF SuggestionRow
  <2>4. suggestions' = [suggestions EXCEPT ![s] = row]
    BY <1>2, <2>1, <2>2 DEF Decided
  <2>5. row # Nothing
    BY <2>3, ReferenceFacts
  <2> HIDE DEF row
  <2>6. suggestions'[s] = row /\ \A t \in Suggestion \ {s} : suggestions'[t] = suggestions[t]
    BY <2>1, <2>2, <2>4
  <2>7. suggestions' \in [Suggestion -> SuggestionRow \cup {Nothing}]
    BY <2>2, <2>3, <2>4
  <2>8. suggestions[s].entry \in Rows(table') /\ suggestions[s].user \in users'
    BY <1>2, <2>1 DEF NoOrphans
  <2> QED
    BY <1>2, <2>3, <2>5, <2>6, <2>7, <2>8 DEF SuggestionFate, NoOrphans
<1>3. CASE suggestions[s] # Nothing /\ ~local[c].flag
  BY <1>2, <1>3 DEF Review
<1>4. CASE suggestions[s] # Nothing /\ local[c].flag
  <2>1. local[c].entry \in Rows(table) /\ FieldPatch(local[c].field, local[c].value) \in Patch
    <3>1. /\ pc[c] = "review" /\ s \in Suggestion
          /\ local[c].value \in Of(local[c].field) /\ local[c].field \in Field
      BY CallTyped DEF Review, Knows, Local
    <3>2. suggestions[s].entry = local[c].entry
      BY <1>4, <3>1 DEF Suggested, Matches
    <3> QED
      BY <1>4, <3>1, <3>2, FieldPatchTyped DEF NoOrphans
  <2>2. Applies(c) /\ suggestions' = Decided(s, "APPROVED")
    BY <1>4, <2>1 DEF Review, Applies
  <2> QED
    BY <1>2, <1>4, <2>2
<1>5. CASE suggestions[s] = Nothing
  BY <1>1, <1>5 DEF Review
<1> QED
  BY <1>3, <1>4, <1>5

LEMMA SuggestionsGo ==
    ASSUME TypeInv, Locks, NoOrphans, Suggested, [Next]_vars
    PROVE  SuggestionFate
<1>1. CASE DeleteUser
  BY <1>1, SuggestionsLeave
<1>2. ASSUME NEW c \in Request, Removes(c), UNCHANGED users PROVE SuggestionFate
  BY <1>2, Cascades, SuggestionsCascade
<1>3. CASE Rows(table') = Rows(table) /\ UNCHANGED users /\ ~DeleteUser
  <2>1. ASSUME \/ UNCHANGED references \/ ClearAll \/ StoreAudit
               \/ \E c \in Request : Toggle(c) \/ LogRevert(c)
        PROVE  UNCHANGED suggestions
    BY <2>1 DEF references, ClearAll, StoreAudit, Toggle, LogRevert
  <2> QED
    BY <1>2, <1>3, <2>1, SuggestionsKept, SuggestionMade, SuggestionReviewed, ReferenceCases DEF Refers
<1> QED
  BY <1>1, <1>2, <1>3, RowsStay, UsersStay

LEMMA FavoritesStay ==
    ASSUME TypeInv, Locks, NoOrphans, Suggested, [Next]_vars
    PROVE  /\ favorites' \subseteq User \X Entry
           /\ \A f \in favorites' : f[1] \in users' /\ f[2] \in Rows(table')
<1>0. favorites \subseteq User \X Entry /\ \A f \in favorites : f[1] \in users /\ f[2] \in Rows(table)
  BY DEF TypeInv, TypeOK, NoOrphans
<1> DEFINE Stay == /\ favorites' \subseteq User \X Entry
                   /\ \A f \in favorites' : f[1] \in users' /\ f[2] \in Rows(table')
<1>1. CASE DeleteUser
  <2>1. Rows(table') = Rows(table)
    BY <1>1, UserGoes DEF Rows
  <2> QED
    BY <1>0, <1>1, <2>1, UserGoes
<1>2. ASSUME NEW c \in Request, Removes(c), UNCHANGED users PROVE Stay
  BY <1>0, <1>2, Cascades DEF Cascaded
<1>3. CASE Rows(table') = Rows(table) /\ UNCHANGED users /\ ~DeleteUser
  <2>1. CASE favorites' \subseteq favorites
    BY <1>0, <1>3, <2>1
  <2>2. ASSUME NEW c \in Request, Toggle(c) PROVE Stay
    <3> DEFINE loc == local[c]
               f == <<loc.user, loc.entry>>
    <3>1. loc.user \in User /\ loc.entry \in Entry
      BY <2>2, CallTyped DEF Toggle, Knows
    <3>2. favorites' \subseteq
              favorites \cup {g \in {f} : table[loc.entry] # Nothing /\ loc.user \in users}
      BY <2>2 DEF Toggle
    <3>3. \A g \in favorites' :
              g \in favorites \/ (g = f /\ loc.entry \in Rows(table) /\ loc.user \in users)
      BY <3>1, <3>2 DEF Rows
    <3> QED
      BY <1>0, <1>3, <3>1, <3>3
  <2>3. ASSUME \/ UNCHANGED references \/ ClearAll \/ StoreAudit
               \/ \E c \in Request : LogRevert(c) \/ Suggest(c) \/ Review(c)
        PROVE  favorites' \subseteq favorites
    BY <2>3 DEF references, ClearAll, StoreAudit, LogRevert, Suggest, Review
  <2> QED
    BY <1>2, <1>3, <2>1, <2>2, <2>3, ReferenceCases DEF Refers
<1> QED
  BY <1>1, <1>2, <1>3, RowsStay, UsersStay

RevertRecord(c) ==
    [entry |-> local[c].entry, action |-> "revert", old |-> local[c].old, new |-> local[c].dto]

(* A new row of the edit log was waiting, or is of a revert. *)
LEMMA LogGrows ==
    ASSUME TypeInv, Locks, NoOrphans, Suggested, [Next]_vars
    PROVE  \A r \in editLog' :
             /\ r.entry \in Rows(table') \cup {Nothing}
             /\ \/ r \in editLog \cup unlogged
                \/ \E c \in Request : LogRevert(c) /\ r = RevertRecord(c)
<1>0. \A r \in editLog : r.entry \in Rows(table) \cup {Nothing}
  BY DEF NoOrphans
<1> DEFINE Grown == \A r \in editLog' :
             /\ r.entry \in Rows(table') \cup {Nothing}
             /\ \/ r \in editLog \cup unlogged
                \/ \E c \in Request : LogRevert(c) /\ r = RevertRecord(c)
<1>1. ASSUME NEW c \in Request, Removes(c) PROVE Grown
  BY <1>1, Cascades DEF Cascaded
<1>2. CASE Rows(table') = Rows(table)
  <2>1. ASSUME UNCHANGED editLog PROVE Grown
    BY <1>0, <1>2, <2>1
  <2>2. ASSUME StoreAudit PROVE Grown
    BY <1>0, <1>2, <2>2 DEF StoreAudit
  <2>3. ASSUME NEW c \in Request, LogRevert(c) PROVE Grown
    <3>1. local[c].entry \in Entry
      BY <2>3, CallTyped DEF LogRevert, Knows
    <3>2. editLog' = editLog \cup {r \in {RevertRecord(c)} : table[local[c].entry] # Nothing}
      BY <2>3 DEF LogRevert, RevertRecord
    <3>3. RevertRecord(c).entry = local[c].entry
      BY DEF RevertRecord
    <3>4. \A r \in editLog' : r \in editLog \/ (r = RevertRecord(c) /\ r.entry \in Rows(table))
      BY <3>1, <3>2, <3>3 DEF Rows
    <3> QED
      BY <1>0, <1>2, <2>3, <3>4
  <2>4. ASSUME \/ UNCHANGED references \/ ClearAll \/ DeleteUser
               \/ \E c \in Request : Toggle(c) \/ Suggest(c) \/ Review(c)
        PROVE  UNCHANGED editLog
    BY <2>4 DEF references, ClearAll, DeleteUser, Toggle, Suggest, Review
  <2> QED
    BY <1>1, <2>1, <2>2, <2>3, <2>4, ReferenceCases DEF Refers
<1> QED
  BY <1>1, <1>2, RowsStay

LEMMA NothingOrphaned ==
    ASSUME TypeInv, Locks, NoOrphans, Suggested, [Next]_vars
    PROVE  NoOrphans'
BY FavoritesStay, LogGrows, SuggestionsGo DEF NoOrphans, SuggestionFate

LEMMA LogTyped ==
    ASSUME TypeInv, Locks, NoOrphans, Suggested, [Next]_vars
    PROVE  editLog' \subseteq Audit
<1>1. ASSUME NEW c \in Request, LogRevert(c) PROVE RevertRecord(c) \in Audit
  <2>1. local[c].entry \in Entry
    BY <1>1, CallTyped DEF LogRevert, Knows
  <2> QED
    BY <2>1, AuditTyped DEF RevertRecord
<1>2. editLog \cup unlogged \subseteq Audit
  BY DEF TypeInv, TypeOK
<1> QED
  BY <1>1, <1>2, LogGrows

LEMMA LoadsTyped ==
    ASSUME TypeInv, [Next]_vars
    PROVE  lastLoad' \in LoadRun \cup {Nothing}
<1>0. lastLoad \in LoadRun \cup {Nothing}
  BY DEF TypeInv, TypeOK
<1>1. ASSUME UNCHANGED lastLoad PROVE lastLoad' \in LoadRun \cup {Nothing}
  BY <1>0, <1>1
<1>2. ASSUME NEW c \in Request, RecordError(c) \/ RecordLoad(c)
      PROVE  lastLoad' \in LoadRun \cup {Nothing}
  <2>1. Len(local[c].rows) \in Nat
    BY CallTyped DEF Local
  <2> QED
    BY <1>2, <2>1 DEF RecordError, RecordLoad, RecordRun, LoadRun
<1>3. ASSUME UNCHANGED vars \/ ClearAll \/ DeleteUser \/ StoreAudit PROVE UNCHANGED lastLoad
  BY <1>3 DEF vars, ClearAll, DeleteUser, StoreAudit, KeepTable
<1>4. ASSUME NEW c \in Request, Begin(c) PROVE UNCHANGED lastLoad
  BY <1>4, BeginWritesNothing
<1>5. ASSUME NEW c \in Request,
             \/ Update(c) \/ Delete(c) \/ BulkDelete(c) \/ BulkItem(c) \/ BulkCommit(c)
             \/ Revert(c) \/ LogRevert(c) \/ Suggest(c) \/ Review(c) \/ Toggle(c)
      PROVE  UNCHANGED lastLoad
  BY <1>5 DEF Update, Delete, BulkDelete, BulkItem, BulkCommit, Revert, LogRevert, Suggest, Review,
              Toggle, KeepTable, WriteRows, SetRows, DeleteRows
<1>6. ASSUME NEW c \in Request,
             \/ ImproveOne(c) \/ EndImprove(c) \/ LoadDelete(c) \/ LoadCommit(c)
             \/ LoadFails(c) \/ Fail(c)
      PROVE  UNCHANGED lastLoad
  BY <1>6 DEF ImproveOne, EndImprove, LoadDelete, LoadCommit, LoadFails, Fail, KeepTable, WriteRows, SetRows
<1>7. ASSUME NEW c \in Request, Acts(c)
      PROVE  UNCHANGED lastLoad \/ RecordError(c) \/ RecordLoad(c)
  BY <1>4, <1>5, <1>6, <1>7 DEF Acts, Step
<1> QED
  BY <1>1, <1>2, <1>3, <1>7, NextCases

(* The rows a review wrote last: what a step does to them. *)
ReviewedStep ==
    /\ reviewed' \subseteq Entry
    /\ \/ KeepsRows
       \/ \E ids \in SUBSET Rows(table) : \E p :
              /\ \A e \in ids : p[e] \in Patch /\ Normal(p[e])
              /\ WriteRows(ids, p)
       \/ \E c \in Request : Applies(c)
       \/ \E c \in Request : Removes(c) /\ UNCHANGED reviewed

LEMMA ReviewsFollowed ==
    ASSUME TypeInv, Locks, NoOrphans, Suggested, [Next]_vars
    PROVE  ReviewedStep
<1>0. reviewed \subseteq Entry
  BY DEF TypeInv, TypeOK
<1>1. CASE KeepsRows
  BY <1>0, <1>1 DEF KeepsRows, history, ReviewedStep
<1>2. CASE WritesRows
  BY <1>0, <1>2 DEF WritesRows, WriteRows, ReviewedStep
<1>3. ASSUME NEW c \in Request, Applies(c) PROVE ReviewedStep
  <2>1. local[c].entry \in Entry
    BY <1>3, CallTyped DEF Applies, Review, Knows
  <2>2. reviewed' = IF local[c].field = "word" THEN reviewed \cup {local[c].entry} ELSE reviewed
    BY <1>3 DEF Applies, Review
  <2> QED
    BY <1>0, <1>3, <2>1, <2>2 DEF ReviewedStep
<1>4. ASSUME NEW c \in Request, Removes(c) PROVE ReviewedStep
  <2>1. UNCHANGED reviewed
    BY <1>4 DEF Removes, BulkDelete, DeleteRows, LoadCommit, history
  <2> QED
    BY <1>0, <1>4, <2>1 DEF ReviewedStep
<1> QED
  BY <1>1, <1>2, <1>3, <1>4, TableCases DEF ChangesRows

LEMMA TypeKept ==
    ASSUME TypeInv, Locks, NoOrphans, Suggested, AuditOfRealValues, [Next]_vars
    PROVE  TypeInv'
<1>1. TableStep
  BY TableStays
<1>2. /\ pc' \in [Request -> Stages] /\ local' \in [Request -> Local]
      /\ started' \in 0 .. MaxRequests
      /\ Informed'
  BY CallsTyped
<1>3. favorites' \subseteq User \X Entry /\ editLog' \subseteq Audit /\ unlogged' \subseteq Audit
      /\ lastLoad' \in LoadRun \cup {Nothing}
  BY FavoritesStay, LogTyped, UnloggedTyped, LoadsTyped
<1>4. suggestions' \in [Suggestion -> SuggestionRow \cup {Nothing}]
  BY SuggestionsGo DEF SuggestionFate
<1>7. users' \subseteq User /\ reviewed' \subseteq Entry
  <2>1. users \subseteq User
    BY DEF TypeInv, TypeOK
  <2> QED
    BY <2>1, UsersStay, UserGoes, ReviewsFollowed DEF ReviewedStep
<1>5. TypeOK'
  BY <1>1, <1>2, <1>3, <1>4, <1>7 DEF TypeOK, TableStep
<1>6. Numbered' /\ Recorded'
  BY <1>1 DEF TableStep, Numbered, Recorded
<1> QED
  BY <1>2, <1>5, <1>6 DEF TypeInv

----------------------------------------------------------------------------
(* Suggestions and the calls that know them.                               *)

Knowing == {"suggest", "review"}

(* A call that begins to suggest takes an id nobody knows; one that begins *)
(* to review knows what it has read.                                       *)
LEMMA BeginKnows ==
    ASSUME TypeInv, Suggested, NEW c \in Request, Begin(c)
    PROVE  /\ pc'[c] = "review" /\ suggestions[local'[c].suggestion] # Nothing =>
                  /\ suggestions[local'[c].suggestion].entry = local'[c].entry
                  /\ suggestions[local'[c].suggestion].field = local'[c].field
                  /\ suggestions[local'[c].suggestion].new = local'[c].value
           /\ pc'[c] = "suggest" => Unused(local'[c].suggestion)
           /\ pc'[c] \in Knowing => \A d \in Request \ {c} :
                  pc[d] = "suggest" => local[d].suggestion # local'[c].suggestion
<1>0. pc \in [Request -> Stages] /\ local \in [Request -> Local]
  BY DEF TypeInv, TypeOK
<1>1. CASE StartReview(c)
  <2>1. PICK s \in Suggestion, approve \in BOOLEAN :
          /\ suggestions[s] # Nothing
          /\ Start(c, "review", "review",
               [NoLocal EXCEPT !.suggestion = s, !.flag = approve, !.entry = suggestions[s].entry,
                               !.field = suggestions[s].field, !.value = suggestions[s].new])
    BY <1>1 DEF StartReview
  <2> DEFINE loc == [NoLocal EXCEPT !.suggestion = s, !.flag = approve, !.entry = suggestions[s].entry,
                                    !.field = suggestions[s].field, !.value = suggestions[s].new]
  <2>2. pc'[c] = "review" /\ local'[c] = loc
    BY <1>0, <2>1 DEF Start, Goto
  <2>3. loc.suggestion = s /\ loc.entry = suggestions[s].entry /\ loc.field = suggestions[s].field
        /\ loc.value = suggestions[s].new
    BY DEF NoLocal
  <2>4. \A d \in Request : pc[d] = "suggest" => local[d].suggestion # s
    BY <2>1 DEF Suggested, Matches
  <2> HIDE DEF loc
  <2> QED
    BY <2>2, <2>3, <2>4 DEF Knowing
<1>2. CASE StartSuggest(c)
  <2>1. PICK s \in Suggestion, u \in users, e \in Rows(table), f \in Field, v \in Proposed :
          /\ Unused(s)
          /\ Start(c, "suggest", "suggest",
               [NoLocal EXCEPT !.suggestion = s, !.user = u, !.entry = e, !.field = f, !.value = v,
                               !.old = [word |-> table[e].word, meanings |-> table[e].meanings]])
    BY <1>2 DEF StartSuggest
  <2> DEFINE loc == [NoLocal EXCEPT !.suggestion = s, !.user = u, !.entry = e, !.field = f, !.value = v,
                               !.old = [word |-> table[e].word, meanings |-> table[e].meanings]]
  <2>2. pc'[c] = "suggest" /\ local'[c] = loc
    BY <1>0, <2>1 DEF Start, Goto
  <2>3. loc.suggestion = s
    BY DEF NoLocal
  <2> HIDE DEF loc
  <2> QED
    BY <2>1, <2>2, <2>3 DEF Knowing, Unused
<1>3. CASE \/ StartUpdate(c) \/ StartDelete(c) \/ StartBulkDelete(c) \/ StartBulk(c)
           \/ StartRevert(c) \/ StartToggle(c) \/ StartImprove(c) \/ StartLoad(c)
  <2>1. pc'[c] \notin Knowing
    BY <1>0, <1>3 DEF StartUpdate, StartDelete, StartBulkDelete, StartBulk, StartRevert, StartToggle,
                      StartImprove, StartLoad, Start, Goto, Knowing
  <2> QED
    BY <2>1 DEF Knowing
<1> QED
  BY <1>1, <1>2, <1>3 DEF Begin

LEMMA SuggestedKept ==
    ASSUME TypeInv, Locks, NoOrphans, Suggested, AuditOfRealValues, [Next]_vars
    PROVE  Suggested'
<1>0. SuggestionFate
  BY SuggestionsGo
<1>1. \A s \in Suggestion : suggestions'[s] # Nothing => suggestions'[s].new \in Of(suggestions'[s].field)
  <2>1. ASSUME NEW c \in Request, Suggest(c) PROVE local[c].value \in Of(local[c].field)
    BY <2>1, CallTyped DEF Suggest, Knows
  <2> QED
    BY <1>0, <2>1 DEF SuggestionFate, Suggested
(* A call that knew a suggestion knows it still, whatever others do to it. *)
<1>2. ASSUME NEW d \in Request, pc[d] \in Knowing, pc'[d] = pc[d], local'[d] = local[d]
      PROVE  LET s == local[d].suggestion
             IN  /\ pc[d] = "review" /\ suggestions'[s] # Nothing =>
                        /\ suggestions'[s].entry = local[d].entry
                        /\ suggestions'[s].field = local[d].field
                        /\ suggestions'[s].new = local[d].value
                 /\ pc[d] = "suggest" => suggestions'[s] = Nothing
  <2> DEFINE s == local[d].suggestion
  <2>1. s \in Suggestion
    BY <1>2, CallTyped DEF Knowing, Knows
  <2>2. \A c \in Request : Suggest(c) => local[c].suggestion # s
    <3>1. Suggest(d) => pc'[d] = "idle"
      BY Returned DEF Suggest
    <3> QED
      BY <1>2, <3>1 DEF Suggested, Matches, Knowing, Suggest
  <2>3. suggestions'[s] # Nothing =>
           /\ suggestions[s] # Nothing
           /\ suggestions'[s].entry = suggestions[s].entry
           /\ suggestions'[s].field = suggestions[s].field
           /\ suggestions'[s].new = suggestions[s].new
    BY <1>0, <2>1, <2>2 DEF SuggestionFate
  <2> QED
    BY <1>2, <2>3 DEF Suggested, Matches
<1>3. ASSUME UNCHANGED vars \/ ClearAll \/ DeleteUser \/ StoreAudit PROVE \A d \in Request : Matches(d)'
  <2>1. UNCHANGED <<pc, local>>
    BY <1>3 DEF vars, requests, ClearAll, DeleteUser, StoreAudit
  <2> QED
    BY <1>2, <2>1 DEF Matches, Knowing, Suggested
<1>4. ASSUME NEW c \in Request, Begin(c) PROVE \A d \in Request : Matches(d)'
  <2>1. UNCHANGED suggestions
    BY <1>4, BeginWritesNothing DEF references
  <2>2. Acts(c)
    BY <1>4 DEF Acts
  <2>3. \A d \in Request \ {c} : pc'[d] = pc[d] /\ local'[d] = local[d]
    BY <2>2, CallsGoOn, Others
  <2>4. /\ pc'[c] = "review" /\ suggestions[local'[c].suggestion] # Nothing =>
               /\ suggestions[local'[c].suggestion].entry = local'[c].entry
               /\ suggestions[local'[c].suggestion].field = local'[c].field
               /\ suggestions[local'[c].suggestion].new = local'[c].value
        /\ pc'[c] = "suggest" => Unused(local'[c].suggestion)
        /\ pc'[c] \in Knowing => \A d \in Request \ {c} :
               pc[d] = "suggest" => local[d].suggestion # local'[c].suggestion
    BY <1>4, BeginKnows
  <2>5. Matches(c)'
    BY <2>1, <2>3, <2>4 DEF Matches, Unused
  <2>6. ASSUME NEW d \in Request \ {c} PROVE Matches(d)'
    BY <2>1, <2>3, <2>4, <2>6 DEF Matches, Suggested, Knowing
  <2> QED
    BY <2>5, <2>6
<1>5. ASSUME NEW c \in Request, Step(c) \/ LoadFails(c) \/ Fail(c)
      PROVE  \A d \in Request : Matches(d)'
  <2>1. pc'[c] \notin Knowing
    <3>1. CASE Return(c)
      BY <3>1, Returned DEF Knowing
    <3>2. CASE Onward(c)
      BY <3>2, GotoTyped DEF Onward, Knowing
    <3> QED
      BY <1>5, <3>1, <3>2, CallsProceed
  <2>2. \A d \in Request \ {c} : pc'[d] = pc[d] /\ local'[d] = local[d]
    BY <1>5, CallsGoOn, Others DEF Acts
  <2>3. ASSUME NEW d \in Request \ {c}, pc[d] \in Knowing PROVE Matches(d)'
    BY <1>2, <2>1, <2>2, <2>3 DEF Matches, Suggested, Knowing
  <2> QED
    BY <2>1, <2>2, <2>3 DEF Matches, Knowing
<1> QED
  BY <1>1, <1>3, <1>4, <1>5, NextCases DEF Suggested, Acts

----------------------------------------------------------------------------
(* The values audit records and suggestions name.                          *)

LEMMA HonestStays ==
    ASSUME TypeInv, held \subseteq held', NEW stage, NEW loc, Honest(stage, loc)
    PROVE  /\ stage \in {"update", "suggest", "revert", "revertLog"} =>
                  \A f \in Field : loc.old[f] # Unset => <<loc.entry, f, loc.old[f]>> \in held'
           /\ stage \in {"revert", "revertLog"} =>
                  \A f \in Field : loc.dto[f] # Unset => <<loc.entry, f, loc.dto[f]>> \in held'
BY DEF Honest, Real

LEMMA HonestyKept ==
    ASSUME TypeInv, Locks, NoOrphans, Suggested, Honesty, AuditOfRealValues, [Next]_vars
    PROVE  Honesty'
<1>0. held \subseteq held'
  BY TableStays DEF TableStep
<1>1. ASSUME UNCHANGED vars \/ ClearAll \/ DeleteUser \/ StoreAudit PROVE Honesty'
  <2>1. UNCHANGED <<pc, local>>
    BY <1>1 DEF vars, requests, ClearAll, DeleteUser, StoreAudit
  <2> QED
    BY <1>0, <2>1, HonestStays DEF Honesty, Honest, Real
<1>2. ASSUME NEW c \in Request, Acts(c) PROVE Honesty'
  <2>1. \A d \in Request \ {c} : pc'[d] = pc[d] /\ local'[d] = local[d]
    BY <1>2, CallsGoOn, Others
  <2>2. Honest(pc'[c], local'[c])
    <3>1. CASE Begun(c)
      BY <3>1, GotoTyped DEF Begun
    <3>2. CASE Return(c)
      BY <3>2, Returned, NoLocalKnows
    <3>3. CASE Onward(c)
      <4>1. PICK stage \in Stages, loc \in Local :
              /\ Goto(c, stage, loc) /\ Knows(stage, loc)
              /\ loc.entry = local[c].entry /\ loc.old = local[c].old /\ loc.dto = local[c].dto
              /\ \/ stage = "revertLog" /\ pc[c] = "revert"
                 \/ stage \notin {"update", "suggest", "revert", "revertLog"}
        BY <3>3 DEF Onward
      <4>2. pc'[c] = stage /\ local'[c] = loc
        BY <4>1, GotoTyped
      <4> QED
        BY <4>1, <4>2 DEF Honesty, Honest
    <3> QED
      BY <1>2, <3>1, <3>2, <3>3, CallsGoOn DEF Advance
  <2>3. \A d \in Request : Honest(pc'[d], local'[d])
    BY <2>1, <2>2 DEF Honesty
  <2> QED
    BY <1>0, <2>3, HonestStays DEF Honesty, Honest, Real
<1> QED
  BY <1>1, <1>2, NextCases

(* An update that is made has held each value it names. *)
LEMMA UpdateHolds ==
    ASSUME TypeInv, NEW c \in Request, Update(c), table[local[c].entry] # Nothing
    PROVE  \A f \in Field : local[c].dto[f] # Unset => <<local[c].entry, f, local[c].dto[f]>> \in held'
<1> DEFINE e == local[c].entry
           q == BuildUpdateData(local[c].dto)
           p == [d \in {e} |-> q]
<1>1. e \in Rows(table)
  BY CallTyped DEF Update, Knows, Rows
<1>2. q \in Patch /\ q.word = local[c].dto.word /\ q.meanings = local[c].dto.meanings
  BY CallTyped, BuildTyped DEF Local
<1>3. {e} \in SUBSET Rows(table) /\ (\A d \in {e} : p[d] \in Patch) /\ SetRows({e}, p)
  BY <1>1, <1>2 DEF Update, WriteRows
<1>4. p[e] = q
  OBVIOUS
<1> HIDE DEF p, q
<1>5. /\ TableStep /\ Rows(table') = Rows(table)
      /\ table'[e] = Patched(table[e], q)
  BY <1>3, <1>4, WriteStep
<1>6. /\ q.word # Unset => table'[e]["word"] = q.word
      /\ q.meanings # Unset => table'[e]["meanings"] = q.meanings
  BY <1>5 DEF Patched, Given
<1>7. \A f \in Field : <<e, f, table'[e][f]>> \in held'
  BY <1>1, <1>5 DEF TableStep, Holds
<1> QED
  BY <1>2, <1>6, <1>7 DEF Field

LEMMA AuditKept ==
    ASSUME TypeInv, Locks, NoOrphans, Suggested, Honesty, AuditOfRealValues, [Next]_vars
    PROVE  AuditOfRealValues'
<1> DEFINE Sound(r) == \A f \in Field :
               /\ r.old[f] # Unset => <<r.entry, f, r.old[f]>> \in held'
               /\ r.new[f] # Unset => <<r.entry, f, r.new[f]>> \in held'
<1>0. held \subseteq held'
  BY TableStays DEF TableStep
<1>1. \A r \in editLog \cup unlogged : Sound(r)
  BY <1>0 DEF AuditOfRealValues
<1>2. ASSUME NEW a PROVE Sound(AuditOf(a))
  BY DEF AuditOf, NoDto, Field
<1>3. ASSUME NEW c \in Request, Update(c), table[local[c].entry] # Nothing PROVE Sound(UpdateRecord(c))
  <2>1. Honest("update", local[c])
    BY <1>3 DEF Honesty, Update
  <2>2. \A f \in Field : local[c].old[f] # Unset => <<local[c].entry, f, local[c].old[f]>> \in held'
    BY <1>0, <2>1, HonestStays
  <2> QED
    BY <1>3, <2>2, UpdateHolds DEF UpdateRecord
<1>4. ASSUME NEW c \in Request, LogRevert(c) PROVE Sound(RevertRecord(c))
  <2>1. Honest("revertLog", local[c])
    BY <1>4 DEF Honesty, LogRevert
  <2> QED
    BY <1>0, <2>1, HonestStays DEF RevertRecord
<1> HIDE DEF Sound
<1>5. \A r \in editLog' : Sound(r)
  BY <1>1, <1>4, LogGrows
<1>6. \A r \in unlogged' : Sound(r)
  BY <1>1, <1>2, <1>3, RecordsLater
<1>7. ASSUME NEW s \in Suggestion, suggestions'[s] # Nothing
      PROVE  <<suggestions'[s].entry, suggestions'[s].field, suggestions'[s].old>> \in held'
  <2>1. ASSUME NEW c \in Request, Suggest(c)
        PROVE  <<local[c].entry, local[c].field, local[c].old[local[c].field]>> \in held'
    <3>1. /\ local[c].field \in Field
          /\ local[c].old.word \in Word /\ local[c].old.meanings \in Meaning
      BY <2>1, CallTyped DEF Suggest, Knows, Local
    <3>2. local[c].old[local[c].field] # Unset
      BY <3>1, SentinelAssumption DEF Field, Value
    <3>3. Honest("suggest", local[c])
      BY <2>1 DEF Honesty, Suggest
    <3> QED
      BY <1>0, <3>1, <3>2, <3>3, HonestStays
  <2>2. CASE /\ suggestions[s] # Nothing
             /\ suggestions'[s].entry = suggestions[s].entry
             /\ suggestions'[s].field = suggestions[s].field
             /\ suggestions'[s].old = suggestions[s].old
    BY <1>0, <2>2 DEF AuditOfRealValues
  <2>3. ASSUME NEW c \in Request, Suggest(c),
               suggestions'[s] = [entry |-> local[c].entry, user |-> local[c].user, field |-> local[c].field,
                                  old |-> local[c].old[local[c].field],
                                  new |-> local[c].value, status |-> "PENDING"]
        PROVE  <<suggestions'[s].entry, suggestions'[s].field, suggestions'[s].old>> \in held'
    BY <2>1, <2>3
  <2> QED
    BY <1>7, <2>2, <2>3, SuggestionsGo DEF SuggestionFate
<1> QED
  BY <1>5, <1>6, <1>7 DEF AuditOfRealValues, Sound

LEMMA AppliedHolds ==
    ASSUME TypeInv, NEW c \in Request, Applies(c)
    PROVE  /\ <<local[c].entry, local[c].field, local[c].value>> \in held'
           /\ \A e \in Rows(table) : e # local[c].entry => table'[e] = table[e]
           /\ local[c].field = "meanings" =>
                  /\ table'[local[c].entry].norm = table[local[c].entry].norm
                  /\ table'[local[c].entry].word = table[local[c].entry].word
<1> DEFINE loc == local[c]
           e == loc.entry
           q == FieldPatch(loc.field, loc.value)
           p == [d \in {e} |-> q]
<1>1. loc.field \in Field /\ loc.value \in Of(loc.field)
  BY CallTyped DEF Applies, Review, Knows, Local
<1>2. e \in Rows(table) /\ q \in Patch /\ SetRows({e}, p)
  BY DEF Applies
<1>3. /\ q.norm = Unset
      /\ loc.field = "word" => q.word = loc.value
      /\ loc.field = "meanings" => q.meanings = loc.value /\ q.word = Unset
  BY <1>1, FieldPatchTyped
<1>4. p[e] = q /\ \A d \in {e} : p[d] \in Patch
  BY <1>2
<1>5. \A d \in Rows(table) : d # e => table'[d] = table[d]
  <2>1. Rows(table) \subseteq Entry
    BY TableFacts
  <2> QED
    BY <1>2, <2>1 DEF SetRows
<1> HIDE DEF p, q, e
<1>6. TableStep /\ Rows(table') = Rows(table) /\ table'[e] = Patched(table[e], q)
  BY <1>2, <1>4, WriteStep
<1>7. loc.value # Unset
  BY <1>1, SentinelAssumption DEF Of, Field, Value
<1>8. table'[e][loc.field] = loc.value
  BY <1>1, <1>3, <1>6, <1>7 DEF Field, Patched, Given
<1>9. <<e, loc.field, table'[e][loc.field]>> \in held'
  BY <1>1, <1>2, <1>6 DEF TableStep, Holds
<1>10. loc.field = "meanings" => table'[e].norm = table[e].norm /\ table'[e].word = table[e].word
  BY <1>3, <1>6 DEF Patched, Given
<1> QED
  BY <1>5, <1>8, <1>9, <1>10 DEF e

LEMMA ApprovedKept ==
    ASSUME TypeInv, Locks, NoOrphans, Suggested, ApprovedApplied, [Next]_vars
    PROVE  ApprovedApplied'
<1>0. held \subseteq held'
  BY TableStays DEF TableStep
<1>1. ASSUME NEW s \in Suggestion, suggestions'[s] # Nothing, suggestions'[s].status = "APPROVED"
      PROVE  <<suggestions'[s].entry, suggestions'[s].field, suggestions'[s].new>> \in held'
  <2>1. /\ suggestions[s] # Nothing
        /\ suggestions'[s].entry = suggestions[s].entry
        /\ suggestions'[s].field = suggestions[s].field
        /\ suggestions'[s].new = suggestions[s].new
        /\ \/ suggestions[s].status = "APPROVED"
           \/ \E c \in Request : Applies(c) /\ s = local[c].suggestion
    <3>1. SuggestionFate
      BY SuggestionsGo
    <3>2. ASSUME NEW c \in Request,
                 suggestions'[s] = [entry |-> local[c].entry, user |-> local[c].user, field |-> local[c].field,
                                    old |-> local[c].old[local[c].field],
                                    new |-> local[c].value, status |-> "PENDING"]
          PROVE  FALSE
      BY <1>1, <3>2
    <3> QED
      BY <1>1, <3>1, <3>2 DEF SuggestionFate
  <2>2. CASE suggestions[s].status = "APPROVED"
    BY <1>0, <2>1, <2>2 DEF ApprovedApplied
  <2>3. ASSUME NEW c \in Request, Applies(c), s = local[c].suggestion
        PROVE  <<suggestions'[s].entry, suggestions'[s].field, suggestions'[s].new>> \in held'
    <3>1. /\ suggestions[s].entry = local[c].entry
          /\ suggestions[s].field = local[c].field
          /\ suggestions[s].new = local[c].value
      BY <2>1, <2>3 DEF Suggested, Matches, Applies, Review
    <3> QED
      BY <2>1, <2>3, <3>1, AppliedHolds
  <2> QED
    BY <2>1, <2>2, <2>3
<1> QED
  BY <1>1 DEF ApprovedApplied

----------------------------------------------------------------------------
(* wordNormalized.                                                         *)

LEMMA NormKept ==
    ASSUME TypeInv, Locks, NoOrphans, Suggested, NormDivergesOnlyByReview, [Next]_vars
    PROVE  NormDivergesOnlyByReview'
<1>0. ReviewedStep
  BY ReviewsFollowed
<1>1. /\ table \in [Entry -> Row \cup {Nothing}] /\ Rows(table) \subseteq Entry
      /\ \A e \in Rows(table) : table[e] \in Row
  BY TableFacts
<1>2. ASSUME NEW e \in Rows(table'), e \in Rows(table), e \in reviewed => e \in reviewed',
             table'[e].norm = table[e].norm, table'[e].word = table[e].word
      PROVE  table'[e].norm # Norm[table'[e].word] => e \in reviewed'
  BY <1>2 DEF NormDivergesOnlyByReview
<1>3. CASE KeepsRows
  <2>1. Rows(table') = Rows(table) /\ UNCHANGED <<table, reviewed>>
    BY <1>3, KeepStep DEF KeepsRows, history
  <2> QED
    BY <1>2, <2>1 DEF NormDivergesOnlyByReview
<1>4. ASSUME NEW ids \in SUBSET Rows(table), NEW p,
             \A e \in ids : p[e] \in Patch /\ Normal(p[e]),
             WriteRows(ids, p)
      PROVE  NormDivergesOnlyByReview'
  <2>1. SetRows(ids, p) /\ reviewed' = reviewed \ {e \in ids : p[e].word # Unset}
    BY <1>4 DEF WriteRows
  <2>2. Rows(table') = Rows(table) /\ \A e \in ids : table'[e] = Patched(table[e], p[e])
    BY <1>4, <2>1, WriteStep
  <2>3. \A e \in Entry \ ids : table'[e] = table[e]
    BY <2>1 DEF SetRows
  <2>4. ASSUME NEW e \in ids, p[e].word # Unset PROVE table'[e].norm = Norm[table'[e].word]
    <3>1. p[e].norm = Norm[p[e].word] /\ p[e].word \in Word
      BY <1>4, <2>4 DEF Normal, Patch
    <3>2. Norm[p[e].word] # Unset
      BY <3>1, NormAssumption, SentinelAssumption
    <3>3. Patched(table[e], p[e]).norm = p[e].norm /\ Patched(table[e], p[e]).word = p[e].word
      BY <2>4, <3>1, <3>2 DEF Patched, Given
    <3> QED
      BY <2>2, <3>1, <3>3
  <2>5. ASSUME NEW e \in ids, p[e].word = Unset
        PROVE  /\ table'[e].norm = table[e].norm /\ table'[e].word = table[e].word
               /\ e \in reviewed => e \in reviewed'
    <3>1. p[e].norm = Unset
      BY <1>4, <2>5 DEF Normal
    <3>2. Patched(table[e], p[e]).norm = table[e].norm /\ Patched(table[e], p[e]).word = table[e].word
      BY <2>5, <3>1 DEF Patched, Given
    <3> QED
      BY <2>1, <2>2, <2>5, <3>2
  <2>6. \A e \in Entry \ ids : e \in reviewed => e \in reviewed'
    BY <2>1
  <2>7. \A e \in Rows(table') : table'[e].norm # Norm[table'[e].word] => e \in reviewed'
    BY <1>1, <1>2, <2>2, <2>3, <2>4, <2>5, <2>6
  <2> QED
    BY <2>7 DEF NormDivergesOnlyByReview
<1>5. ASSUME NEW c \in Request, Applies(c) PROVE NormDivergesOnlyByReview'
  <2> DEFINE e == local[c].entry
             p == [d \in {e} |-> FieldPatch(local[c].field, local[c].value)]
  <2>1. /\ e \in Rows(table) /\ local[c].field \in Field
        /\ reviewed' = IF local[c].field = "word" THEN reviewed \cup {e} ELSE reviewed
    BY <1>5, CallTyped DEF Applies, Review, Local
  <2>2. {e} \in SUBSET Rows(table) /\ (\A d \in {e} : p[d] \in Patch) /\ SetRows({e}, p)
    BY <1>5 DEF Applies
  <2> HIDE DEF p
  <2>3. Rows(table') = Rows(table)
    BY <2>2, WriteStep
  <2>4. \A d \in Rows(table) : d # e => table'[d] = table[d]
    BY <1>5, AppliedHolds
  <2>5. local[c].field = "meanings" =>
            table'[e].norm = table[e].norm /\ table'[e].word = table[e].word
    BY <1>5, AppliedHolds
  <2>6. local[c].field = "word" => e \in reviewed'
    BY <2>1
  <2>7. \A d \in Rows(table') : d \in reviewed => d \in reviewed'
    BY <2>1
  <2> HIDE DEF e
  <2>8. \A d \in Rows(table') : table'[d].norm # Norm[table'[d].word] => d \in reviewed'
    BY <1>2, <2>1, <2>3, <2>4, <2>5, <2>6, <2>7 DEF Field
  <2> QED
    BY <2>8 DEF NormDivergesOnlyByReview
<1>6. ASSUME NEW c \in Request, Removes(c), UNCHANGED reviewed PROVE NormDivergesOnlyByReview'
  <2>1. CASE (Delete(c) /\ DeleteRows({local[c].entry})) \/ BulkDelete(c)
    <3>1. \A e \in Entry : table'[e] = Nothing \/ table'[e] = table[e]
      BY <2>1 DEF BulkDelete, DeleteRows
    <3>2. \A e \in Rows(table') : e \in Rows(table) /\ table'[e] = table[e]
      BY <3>1 DEF Rows
    <3> QED
      BY <1>2, <1>6, <3>2 DEF NormDivergesOnlyByReview
  <2>2. CASE LoadCommit(c)
    <3>1. \A e \in Entry : e < nextId => table'[e] = Nothing \/ table'[e] = table[e]
      BY <2>2, LoadStep
    <3>2. \A e \in Rows(table') : e < nextId => e \in Rows(table) /\ table'[e] = table[e]
      BY <3>1 DEF Rows
    <3>3. ASSUME NEW e \in Rows(table'), e >= nextId PROVE table'[e].norm = Norm[table'[e].word]
      <4>1. \E i \in DOMAIN local[c].rows : table'[e] = local[c].rows[i]
        BY <2>2, <3>3, LoadStep DEF Rows
      <4> QED
        BY <4>1, CallTyped DEF Knows
    <3>4. nextId \in Nat /\ \A e \in Rows(table') : e \in Nat
      BY TableFacts DEF Rows
    <3> QED
      BY <1>2, <1>6, <3>2, <3>3, <3>4 DEF NormDivergesOnlyByReview
  <2> QED
    BY <1>6, <2>1, <2>2 DEF Removes
<1> QED
  BY <1>0, <1>3, <1>4, <1>5, <1>6 DEF ReviewedStep

----------------------------------------------------------------------------
(* One process that runs pipeline operations.                              *)

Alone ==
    /\ \A c, d \in Request : InPipeline(c) /\ InPipeline(d) => c = d
    /\ \A c \in Request : pc[c] = "loadCommit" => Rows(table) \subseteq local[c].locked

OneRunner == Runner = 1 => Alone /\ OneLoadInTable

LEMMA NobodyRuns ==
    ASSUME Runner = 1, PipelineFree
    PROVE  \A c \in Request : ~InPipeline(c)
<1> DEFINE S == {c \in Request : InPipeline(c)}
<1>1. IsFiniteSet(S)
  BY RequestAssumption, FS_Subset
<1>2. Cardinality(S) \in Nat /\ Cardinality(S) < 1
  BY <1>1, FS_CardinalityType DEF PipelineFree
<1>3. Cardinality(S) = 0
  BY <1>2
<1>4. S = {}
  BY <1>1, <1>3, FS_EmptySet
<1> QED
  BY <1>4

LEMMA PipelineEntered ==
    ASSUME TypeInv, Suggested, AuditOfRealValues, NEW c \in Request, Acts(c)
    PROVE  InPipeline(c)' => InPipeline(c) \/ PipelineFree
<1>0. pc \in [Request -> Stages]
  BY DEF TypeInv, TypeOK
<1>1. CASE Begin(c)
  <2>1. \/ StartImprove(c) \/ StartLoad(c)
        \/ pc'[c] \in {"update", "delete", "bulkDelete", "bulk", "revert", "suggest", "review", "toggle"}
    BY <1>0, <1>1 DEF Begin, StartUpdate, StartDelete, StartBulkDelete, StartBulk, StartRevert,
                      StartSuggest, StartReview, StartToggle, Start, Goto
  <2> QED
    BY <2>1 DEF StartImprove, StartLoad, InPipeline
<1>2. CASE Return(c)
  BY <1>2, Returned DEF InPipeline
<1>3. CASE Onward(c)
  BY <1>3, GotoTyped DEF Onward, InPipeline
<1> QED
  BY <1>1, <1>2, <1>3, CallsProceed DEF Acts

LEMMA CommitFollowsDelete ==
    ASSUME TypeInv, Suggested, AuditOfRealValues, NEW c \in Request, Acts(c), pc'[c] = "loadCommit"
    PROVE  LoadDelete(c)
<1>0. pc \in [Request -> Stages]
  BY DEF TypeInv, TypeOK
<1>1. CASE Begin(c)
  BY <1>1, CallsBegin, GotoTyped DEF Begun
<1>2. CASE Return(c)
  BY <1>2, Returned
<1>3. CASE Revert(c) \/ BulkItem(c) \/ ImproveOne(c) \/ LoadCommit(c) \/ LoadFails(c)
  <2>1. Return(c) \/ pc'[c] \in {"revertLog", "bulk", "improve", "loadIndex", "loadError"}
    BY <1>0, <1>3 DEF Revert, BulkItem, ImproveOne, LoadCommit, LoadFails, Move, Goto
  <2> QED
    BY <1>2, <2>1
<1>4. ASSUME \/ Update(c) \/ Delete(c) \/ BulkDelete(c) \/ BulkCommit(c) \/ LogRevert(c)
             \/ Suggest(c) \/ Review(c) \/ Toggle(c) \/ EndImprove(c)
             \/ RecordError(c) \/ RecordLoad(c) \/ Fail(c)
      PROVE  Return(c)
  BY <1>4 DEF Update, Delete, BulkDelete, BulkCommit, LogRevert, Suggest, Review, Toggle, EndImprove,
              RecordError, RecordLoad, Fail
<1> QED
  BY <1>1, <1>2, <1>3, <1>4 DEF Acts, Step

(* Only the commit of a load adds rows or moves firstId. *)
LEMMA RowsShrink ==
    ASSUME TypeInv, Locks, NoOrphans, Suggested, [Next]_vars
    PROVE  \/ \E c \in Request : LoadCommit(c)
           \/ Rows(table') \subseteq Rows(table) /\ UNCHANGED firstId
<1>1. CASE KeepsRows
  BY <1>1, KeepStep DEF KeepsRows, history
<1>2. CASE WritesRows
  <2>1. PICK ids, p : /\ ids \in SUBSET Rows(table)
                      /\ \A e \in ids : p[e] \in Patch
                      /\ WriteRows(ids, p)
    BY <1>2 DEF WritesRows
  <2>2. UNCHANGED firstId
    BY <2>1 DEF WriteRows, SetRows
  <2> QED
    BY <2>1, <2>2, WriteStep DEF WriteRows
<1>3. ASSUME NEW c \in Request, Applies(c) PROVE Rows(table') \subseteq Rows(table) /\ UNCHANGED firstId
  <2> DEFINE ids == {local[c].entry}
             p == [d \in ids |-> FieldPatch(local[c].field, local[c].value)]
  <2>1. ids \in SUBSET Rows(table) /\ (\A d \in ids : p[d] \in Patch) /\ SetRows(ids, p)
    BY <1>3 DEF Applies
  <2> HIDE DEF ids, p
  <2>2. UNCHANGED firstId
    BY <2>1 DEF SetRows
  <2> QED
    BY <2>1, <2>2, WriteStep
<1>4. ASSUME NEW c \in Request, DeleteRows({local[c].entry}) \/ BulkDelete(c)
      PROVE  Rows(table') \subseteq Rows(table) /\ UNCHANGED firstId
  BY <1>4, DeleteStep DEF BulkDelete, DeleteRows, history
<1> QED
  BY <1>1, <1>2, <1>3, <1>4, TableCases DEF ChangesRows, Removes

LEMMA OneRunnerKept ==
    ASSUME TypeInv, Locks, NoOrphans, Suggested, AuditOfRealValues, OneRunner, [Next]_vars
    PROVE  OneRunner'
<1> SUFFICES ASSUME Runner = 1 PROVE Alone' /\ OneLoadInTable'
  BY DEF OneRunner
<1>0. Alone /\ OneLoadInTable
  BY DEF OneRunner
<1>1. ASSUME UNCHANGED vars \/ ClearAll \/ DeleteUser \/ StoreAudit PROVE Alone' /\ OneLoadInTable'
  <2>1. UNCHANGED <<table, firstId, pc, local>>
    BY <1>1 DEF vars, requests, history, ClearAll, DeleteUser, StoreAudit, KeepTable
  <2> QED
    BY <1>0, <2>1 DEF Alone, OneLoadInTable, InPipeline, Rows
<1>2. ASSUME NEW c \in Request, Acts(c)
      PROVE  /\ \A d, b \in Request : InPipeline(d)' /\ InPipeline(b)' => d = b
             /\ \A d \in Request \ {c} : InPipeline(d)' => InPipeline(d)
             /\ \A d \in Request \ {c} : pc'[d] = pc[d] /\ local'[d] = local[d]
  <2>1. \A d \in Request \ {c} : pc'[d] = pc[d] /\ local'[d] = local[d]
    BY <1>2, CallsGoOn, Others
  <2>2. \A d \in Request \ {c} : InPipeline(d)' => InPipeline(d)
    BY <2>1 DEF InPipeline
  <2>3. CASE InPipeline(c)' => InPipeline(c)
    BY <1>0, <2>1, <2>2, <2>3 DEF Alone
  <2>4. CASE PipelineFree
    <3>1. \A d \in Request : ~InPipeline(d)
      BY <2>4, NobodyRuns
    <3> QED
      BY <2>1, <2>2, <3>1
  <2> QED
    BY <1>2, <2>3, <2>4, PipelineEntered
<1>3. ASSUME NEW c \in Request, LoadCommit(c) PROVE Alone' /\ OneLoadInTable'
  <2>1. Acts(c) /\ pc[c] = "loadCommit" /\ firstId' = nextId
    BY <1>3 DEF Acts, Step, LoadCommit
  <2>2. \A e \in Rows(table) : e \in local[c].locked
    BY <1>0, <2>1 DEF Alone
  <2>3. ASSUME NEW e \in Rows(table') PROVE e >= firstId'
    <3>1. e \in Entry /\ table'[e] # Nothing /\ nextId \in Nat /\ e \in Nat
      BY TableFacts DEF Rows
    <3>2. CASE e < nextId
      BY <1>3, <2>2, <3>1, <3>2, LoadStep DEF Rows
    <3> QED
      BY <2>1, <3>1, <3>2
  <2>4. ASSUME NEW d \in Request PROVE pc'[d] # "loadCommit"
    <3>1. pc'[c] = "loadIndex"
      <4>1. pc \in [Request -> Stages]
        BY DEF TypeInv, TypeOK
      <4> QED
        BY <1>3, <4>1 DEF LoadCommit, Move, Goto
    <3>2. ASSUME d # c, pc'[d] = "loadCommit" PROVE FALSE
      BY <1>0, <1>2, <2>1, <3>2 DEF Alone, InPipeline
    <3> QED
      BY <3>1, <3>2
  <2> QED
    BY <1>2, <2>1, <2>3, <2>4 DEF Alone, OneLoadInTable
<1>4. ASSUME NEW c \in Request, Acts(c), Rows(table') \subseteq Rows(table), UNCHANGED firstId
      PROVE  Alone' /\ OneLoadInTable'
  <2>1. OneLoadInTable'
    BY <1>0, <1>4 DEF OneLoadInTable
  <2>2. ASSUME NEW d \in Request, pc'[d] = "loadCommit" PROVE Rows(table') \subseteq local'[d].locked
    <3>1. CASE d # c
      BY <1>0, <1>2, <1>4, <2>2, <3>1 DEF Alone
    <3>2. CASE d = c
      <4>1. LoadDelete(c)
        BY <1>4, <2>2, <3>2, CommitFollowsDelete
      <4>2. local[c] \in Local /\ local \in [Request -> Local]
        BY DEF TypeInv, TypeOK
      <4>3. local'[c] = [local[c] EXCEPT !.locked = Rows(table)]
        BY <4>1, <4>2 DEF LoadDelete, Move, Goto
      <4>4. local'[c].locked = Rows(table)
        BY <4>2, <4>3 DEF Local
      <4> QED
        BY <1>4, <3>2, <4>4
    <3> QED
      BY <3>1, <3>2
  <2> QED
    BY <1>2, <1>4, <2>1, <2>2 DEF Alone
<1> QED
  BY <1>1, <1>3, <1>4, NextCases, RowsShrink

----------------------------------------------------------------------------
(* The invariant.                                                          *)

Inv ==
    /\ TypeInv
    /\ Locks
    /\ NoOrphans
    /\ Suggested
    /\ Honesty
    /\ AuditOfRealValues
    /\ ApprovedApplied
    /\ NormDivergesOnlyByReview
    /\ OneRunner

LEMMA InitHolds == Init => Inv
<1> SUFFICES ASSUME Init PROVE Inv
  OBVIOUS
<1>1. PICK f \in Files : /\ table = TableFrom(DbEntries(f), 1)
                         /\ nextId = Len(DbEntries(f)) + 1
                         /\ Len(DbEntries(f)) <= MaxId
  BY DEF Init
<1> DEFINE rs == DbEntries(f)
<1>2. /\ rs \in Seq(Row) /\ Len(rs) \in Nat
      /\ \A i \in DOMAIN rs : rs[i].norm = Norm[rs[i].word]
  BY FilesTyped
<1> HIDE DEF rs
<1>3. /\ table \in [Entry -> Row \cup {Nothing}]
      /\ \A e \in Entry : table[e] # Nothing =>
             /\ e >= 1 /\ e < 1 + Len(rs)
             /\ \E i \in DOMAIN rs : table[e] = rs[i]
  BY <1>1, <1>2, TableFromTyped DEF rs
<1>4. nextId = Len(rs) + 1 /\ Len(rs) <= MaxId /\ MaxId \in Nat
  BY <1>1, BoundAssumption DEF rs
<1>5. /\ users = User /\ reviewed = {}
      /\ favorites = {} /\ suggestions = [s \in Suggestion |-> Nothing]
      /\ editLog = {} /\ unlogged = {} /\ lastLoad = Nothing
      /\ pc = [c \in Request |-> "idle"] /\ local = [c \in Request |-> NoLocal]
      /\ started = 0 /\ firstId = 1 /\ held = Holds(table)
  BY DEF Init
<1>6. TypeOK
  <2>1. nextId \in 1 .. (MaxId + 1) /\ firstId \in 1 .. (MaxId + 1)
    BY <1>2, <1>4, <1>5
  <2>2. started \in 0 .. MaxRequests /\ held \subseteq Entry \X Field \X Value
    BY <1>3, <1>5, BoundAssumption, HoldsTyped
  <2> QED
    BY <1>3, <1>5, <2>1, <2>2, NoLocalIsLocal DEF TypeOK, Stages
<1>7. Informed /\ Honesty /\ Locks
  BY <1>5, NoLocalKnows, NoLocalIsLocal DEF Informed, Honesty, Locks
<1>8. Numbered /\ Recorded
  BY <1>2, <1>3, <1>4, <1>5 DEF Numbered, Recorded, Rows
<1>9. NoOrphans /\ Suggested /\ AuditOfRealValues /\ ApprovedApplied
  BY <1>5 DEF NoOrphans, Suggested, Matches, AuditOfRealValues, ApprovedApplied
<1>10. NormDivergesOnlyByReview
  BY <1>2, <1>3 DEF NormDivergesOnlyByReview, Rows
<1>11. OneRunner
  BY <1>3, <1>5 DEF OneRunner, Alone, InPipeline, OneLoadInTable, Rows
<1> QED
  BY <1>6, <1>7, <1>8, <1>9, <1>10, <1>11 DEF Inv, TypeInv

LEMMA StepHolds == Inv /\ [Next]_vars => Inv'
<1> SUFFICES ASSUME Inv, [Next]_vars PROVE Inv'
  OBVIOUS
<1>1. /\ TypeInv /\ Locks /\ NoOrphans /\ Suggested /\ Honesty /\ AuditOfRealValues
      /\ ApprovedApplied /\ NormDivergesOnlyByReview /\ OneRunner
  BY DEF Inv
<1>2. TypeInv' /\ Locks' /\ NoOrphans' /\ Suggested'
  BY <1>1, TypeKept, LocksKept, NothingOrphaned, SuggestedKept
<1>3. Honesty' /\ AuditOfRealValues' /\ ApprovedApplied'
  BY <1>1, HonestyKept, AuditKept, ApprovedKept
<1>4. NormDivergesOnlyByReview' /\ OneRunner'
  BY <1>1, NormKept, OneRunnerKept
<1> QED
  BY <1>2, <1>3, <1>4 DEF Inv

(* The conjunction of the properties of the table and of what the calls in *)
(* flight know holds in every state.                                       *)
THEOREM InvHolds == Spec => []Inv
BY InitHolds, StepHolds, PTL DEF Spec

(* Every variable holds a value of its kind. *)
THEOREM TypeCorrect == Spec => []TypeOK
<1>1. Inv => TypeOK
  BY DEF Inv, TypeInv
<1> QED
  BY <1>1, InvHolds, PTL

(* No favorite, suggestion or audit record refers to an entry that is not  *)
(* there, no favorite or suggestion to a user that is not there, whichever *)
(* handlers delete and load meanwhile.                                     *)
THEOREM NothingIsOrphaned == Spec => []NoOrphans
<1>1. Inv => NoOrphans
  BY DEF Inv
<1> QED
  BY <1>1, InvHolds, PTL

(* wordNormalized differs from the normal form of word only in a row whose *)
(* word was last written by the review of a suggestion, whatever became of *)
(* the suggestion.                                                         *)
THEOREM NormsFollowWords == Spec => []NormDivergesOnlyByReview
<1>1. Inv => NormDivergesOnlyByReview
  BY DEF Inv
<1> QED
  BY <1>1, InvHolds, PTL

(* Audit records and suggestions name only values their entries have held. *)
THEOREM AuditsAreReal == Spec => []AuditOfRealValues
<1>1. Inv => AuditOfRealValues
  BY DEF Inv
<1> QED
  BY <1>1, InvHolds, PTL

(* An approved suggestion was applied. *)
THEOREM ApprovalsApply == Spec => []ApprovedApplied
<1>1. Inv => ApprovedApplied
  BY DEF Inv
<1> QED
  BY <1>1, InvHolds, PTL

(* If one process runs the pipeline operations, as runOp lets it, the      *)
(* table holds the rows of one load only.                                  *)
THEOREM OneLoadAtATime == Spec => [](Runner = 1 => OneLoadInTable)
<1>1. Inv => (Runner = 1 => OneLoadInTable)
  BY DEF Inv, OneRunner
<1> QED
  BY <1>1, InvHolds, PTL

(* No call in flight brings a deleted row back. *)
THEOREM GoneStaysGone == Spec => DeletedStaysDeleted
<1>1. ASSUME Inv, [Next]_vars
      PROVE  [\A e \in Entry : e < nextId /\ table[e] = Nothing => table'[e] = Nothing]_vars
  BY <1>1, TableStays DEF Inv, TableStep
<1> QED
  BY <1>1, InvHolds, PTL DEF Spec, DeletedStaysDeleted
=============================================================================
