----------------------------- MODULE EntryStore -----------------------------
(***************************************************************************)
(* The table UnifiedEntry and the rows that refer to it (favorites,        *)
(* suggestions, edit logs), under every handler that writes them: the      *)
(* editors of DictionaryService and AdminService, SuggestionsService,      *)
(* FavoritesService, load and improve-entries of the pipeline, and the two *)
(* handlers that delete a user, whose favorites and suggestions go too.    *)
(*                                                                         *)
(* A Request is one call in flight; a step is what it does between two     *)
(* awaits.  PostgreSQL runs at READ COMMITTED: a statement sees what is    *)
(* committed when it starts, a transaction holds the rows it has written   *)
(* until it ends, and a statement that writes a held row waits.            *)
(*                                                                         *)
(* Of the columns the properties need three: word, wordNormalized (norm)   *)
(* and meanings, which stands for the other editable columns.              *)
(***************************************************************************)
EXTENDS Integers, Sequences, FiniteSets

CONSTANTS
    Request,        \* calls that may be in flight
    Runner,         \* how many processes run pipeline operations (runOp locks one)
    User,           \* users with favorites and suggestions
    Suggestion,     \* ids of suggestions
    Word, Form,     \* values of word and wordNormalized
    Meaning,        \* values of meanings
    Norm,           \* Norm[w]: normalizeWord(w)
    Cleaned,        \* Cleaned[v]: what improve-entries makes of a word or meanings
    Files,          \* contents of unified.json a load may find
    Edits,          \* patches clients send
    Proposed,       \* values users suggest
    Batches,        \* the lists of ids of bulk edits and improve-entries
    Operations,     \* the operations requests may start
    MaxId,          \* bound: ids the table's sequence may reach
    MaxRequests,    \* bound: requests ever started
    Unset, Nothing  \* an absent value of a patch; an absent row or reference

OperationKinds == {"update", "delete", "bulkDelete", "bulk", "revert", "suggest",
                   "review", "toggle", "clear", "deleteUser", "improve", "load"}

Entry == 1 .. MaxId
Field == {"word", "meanings"}
Value == Word \cup Meaning

ASSUME RequestAssumption == IsFiniteSet(Request)
ASSUME SentinelAssumption ==
    /\ Nothing \notin Entry \cup Suggestion \cup Value
    /\ Unset \notin Value \cup Form
ASSUME NormAssumption ==
    /\ Norm \in [Word -> Form]
    /\ Cleaned \in [Value -> Value]
    /\ \A w \in Word : Cleaned[w] \in Word
    /\ \A m \in Meaning : Cleaned[m] \in Meaning
ASSUME BoundAssumption ==
    MaxId \in Nat /\ MaxRequests \in Nat /\ Runner \in Nat
ASSUME OperationAssumption == Operations \subseteq OperationKinds

VARIABLES
    table,          \* table[e]: the row of UnifiedEntry with id e, or Nothing
    nextId,         \* the next id of its sequence
    users,          \* the users there are
    favorites,      \* rows <<user, entry>> of UserFavorite
    suggestions,    \* suggestions[s]: a row of Suggestion, or Nothing
    editLog,        \* rows of EntryEditLog
    unlogged,       \* audit records whose create() nobody awaits
    lastLoad,       \* the newest row of LoadRun, or Nothing
    pc, local,      \* where each request stands, and its local variables
    started,        \* requests started so far
    firstId,        \* history: the first id the last load gave
    held,           \* history: <<e, f, v>> when field f of row e ever held v
    reviewed        \* history: ids whose word was last written by a review

references == <<favorites, suggestions, editLog>>
requests == <<pc, local, started>>
history == <<firstId, held, reviewed>>
vars == <<table, nextId, users, references, unlogged, lastLoad, requests, history>>

----------------------------------------------------------------------------
(* Rows and patches.                                                       *)

Row == [word : Word, norm : Form, meanings : Meaning]

(* UpdateEntryDto: the fields a client sends. *)
Dto == [word : Word \cup {Unset}, meanings : Meaning \cup {Unset}]
NoDto == [word |-> Unset, meanings |-> Unset]

ASSUME InputAssumption ==
    Edits \subseteq Dto /\ Proposed \subseteq Value /\ Batches \subseteq Seq(Entry)

(* The data of a Prisma update. *)
Patch == [word : Word \cup {Unset}, norm : Form \cup {Unset}, meanings : Meaning \cup {Unset}]
NoPatch == [word |-> Unset, norm |-> Unset, meanings |-> Unset]

Rows(t) == {e \in Entry : t[e] # Nothing}

(* Seeded bug: wordNormalized is not derived again. *)
BuildUpdateDataKept(dto) ==
    [word |-> dto.word, norm |-> Unset, meanings |-> dto.meanings]

BuildUpdateData(dto) ==
    [word |-> dto.word,
     norm |-> IF dto.word = Unset THEN Unset ELSE Norm[dto.word],
     meanings |-> dto.meanings]

Given(new, old) == IF new = Unset THEN old ELSE new

Patched(row, p) == [word |-> Given(p.word, row.word),
                    norm |-> Given(p.norm, row.norm),
                    meanings |-> Given(p.meanings, row.meanings)]

(* The old values updateEntry logs: those of the fields the dto names. *)
OldOf(row, dto) ==
    [word |-> IF dto.word = Unset THEN Unset ELSE row.word,
     meanings |-> IF dto.meanings = Unset THEN Unset ELSE row.meanings]

(* What improve-entries writes for a row it has read: the word only if     *)
(* cleaning changes it, the meanings if anything has changed by then.      *)
Improvement(row) ==
    LET newWord == Cleaned[row.word] # row.word
        changed == newWord \/ Cleaned[row.meanings] # row.meanings
    IN  [word |-> IF newWord THEN Cleaned[row.word] ELSE Unset,
         norm |-> IF newWord THEN Norm[Cleaned[row.word]] ELSE Unset,
         meanings |-> IF changed THEN Cleaned[row.meanings] ELSE Unset]

(* An entry of unified.json; Nothing stands for a blank word or no meanings. *)
FileEntry == [word : Word \cup {Nothing}, homonym : Nat, meanings : Meaning \cup {Nothing},
              classlessNoun : BOOLEAN]

Complete(entry) ==
    /\ entry.word # Nothing
    /\ entry.meanings # Nothing
    /\ ~entry.classlessNoun

(* The validation loop of load: of the complete entries with one word and  *)
(* homonym index only the first is taken.                                  *)
Accepted(file, i) ==
    /\ Complete(file[i])
    /\ \A j \in 1 .. (i - 1) :
           Complete(file[j]) => <<file[j].word, file[j].homonym>> # <<file[i].word, file[i].homonym>>

Kept(file) == SelectSeq([i \in DOMAIN file |-> i], LAMBDA i : Accepted(file, i))

(* dbEntries: the homonym index is not among the columns load writes. *)
DbEntries(file) ==
    [k \in DOMAIN Kept(file) |->
        LET entry == file[Kept(file)[k]]
        IN  [word |-> entry.word, norm |-> Norm[entry.word], meanings |-> entry.meanings]]

ASSUME FileAssumption == \A f \in Files :
    /\ f \in Seq(FileEntry)
    /\ DbEntries(f) \in Seq(Row)

(* A table that holds rows under the ids from first on, and nothing else. *)
TableFrom(rows, first) ==
    [e \in Entry |-> IF e >= first /\ e < first + Len(rows) THEN rows[e - first + 1] ELSE Nothing]

----------------------------------------------------------------------------
(* The rows that refer to entries.                                         *)

(* A row of EntryEditLog.  changes is the pair old and new; records of     *)
(* whole operations (delete, bulk, pipeline) refer to no entry.            *)
Audit == [entry : Entry \cup {Nothing}, action : {"update", "delete", "bulk", "revert", "pipeline"},
          old : Dto, new : Dto]

AuditOf(action) == [entry |-> Nothing, action |-> action, old |-> NoDto, new |-> NoDto]

SuggestionRow == [entry : Entry, user : User, field : Field, old : Value, new : Value,
                  status : {"PENDING", "APPROVED", "REJECTED"}]

LoadRun == [status : {"ok", "error"}, loaded : Nat]

ASSUME RowAssumption == Nothing \notin Row \cup SuggestionRow \cup LoadRun

----------------------------------------------------------------------------
(* The state of a request.                                                 *)

Stages == {"idle", "update", "delete", "bulkDelete", "bulk", "revert", "revertLog", "suggest",
           "review", "toggle", "improve", "loadDelete", "loadCommit", "loadIndex", "loadError"}

Local == [entry : Entry \cup {Nothing}, suggestion : Suggestion \cup {Nothing},
          field : Field, value : Value \cup {Nothing}, flag : BOOLEAN, user : User \cup {Nothing},
          todo : Seq(Entry),        \* ids still to be written
          targets : SUBSET Entry,   \* ids that were found
          locked : SUBSET Entry,    \* rows its transaction holds
          dto : Dto, old : Dto,     \* the patch asked for; the values it replaces
          read : [Entry -> Row \cup {Nothing}],     \* the table as it was read
          rows : Seq(Row)]          \* dbEntries

NoLocal == [entry |-> Nothing, suggestion |-> Nothing, field |-> "word", value |-> Nothing,
            flag |-> FALSE, user |-> Nothing, todo |-> <<>>, targets |-> {}, locked |-> {}, dto |-> NoDto,
            old |-> NoDto, read |-> [e \in Entry |-> Nothing], rows |-> <<>>]

(* No other transaction has written e; no other transaction has deleted e  *)
(* (an insert that refers to e waits only for the latter).                 *)
Free(c, e) == \A d \in Request \ {c} : e \notin local[d].locked
Undeleted(e) == \A d \in Request : pc[d] = "loadCommit" => e \notin local[d].locked

(* runOp: a process runs one of load and improve-entries at a time. *)
InPipeline(c) == pc[c] \in {"improve", "loadDelete", "loadCommit", "loadIndex", "loadError"}
PipelineFree == Cardinality({c \in Request : InPipeline(c)}) < Runner

Goto(c, stage, loc) ==
    /\ pc' = [pc EXCEPT ![c] = stage]
    /\ local' = [local EXCEPT ![c] = loc]

Start(c, op, stage, loc) ==
    /\ pc[c] = "idle"
    /\ op \in Operations
    /\ started < MaxRequests
    /\ started' = started + 1
    /\ Goto(c, stage, loc)
    /\ UNCHANGED <<table, nextId, users, references, unlogged, lastLoad, history>>

(* A request at a stage goes on to another, or returns (or throws). *)
Move(c, to, loc) == Goto(c, to, loc) /\ UNCHANGED started
Return(c) == Move(c, "idle", NoLocal)

(* Seeded bug: the schema cascades to favorites and edit logs only. *)
KeepOnlyBut(kept) ==
    /\ favorites' = {f \in favorites : f[2] \in kept}
    /\ editLog' = {r \in editLog : r.entry \in kept \cup {Nothing}}
    /\ UNCHANGED suggestions

(* onDelete: Cascade of the three tables that refer to UnifiedEntry.  (The *)
(* cascade of a user is part of DeleteUser.)                               *)
KeepOnly(kept) ==
    /\ favorites' = {f \in favorites : f[2] \in kept}
    /\ editLog' = {r \in editLog : r.entry \in kept \cup {Nothing}}
    /\ suggestions' = [s \in Suggestion |->
           IF suggestions[s] # Nothing /\ suggestions[s].entry \notin kept
           THEN Nothing ELSE suggestions[s]]

Holds(t) == {<<e, f, t[e][f]>> : e \in Rows(t), f \in Field}

(* One statement writes some rows; no id appears. *)
SetRows(ids, p) ==
    /\ table' = [e \in Entry |-> IF e \in ids THEN Patched(table[e], p[e]) ELSE table[e]]
    /\ held' = held \cup Holds(table')
    /\ UNCHANGED <<nextId, users, firstId, lastLoad>>

(* One that is no review: the rows whose word it gives are not a review's. *)
WriteRows(ids, p) ==
    /\ SetRows(ids, p)
    /\ reviewed' = reviewed \ {e \in ids : p[e].word # Unset}

DeleteRows(ids) ==
    /\ table' = [e \in Entry |-> IF e \in ids THEN Nothing ELSE table[e]]
    /\ KeepOnly(Rows(table) \ ids)
    /\ UNCHANGED <<nextId, users, lastLoad, history>>

KeepTable == UNCHANGED <<table, nextId, users, lastLoad, history>>

(* void create().catch(): nobody waits for it. *)
LogLater(record) == unlogged' = unlogged \cup {record}

----------------------------------------------------------------------------
(* updateEntry, deleteEntry, bulkUpdate, bulkDeleteEntries.                *)

StartUpdate(c) == \E e \in Rows(table), dto \in Edits :
    Start(c, "update", "update",
          [NoLocal EXCEPT !.entry = e, !.dto = dto, !.old = OldOf(table[e], dto)])

(* Seeded bug: the audit record does not wait for the update. *)
UpdateLogsFirst(c) ==
    LET loc == local[c]
        e == loc.entry
    IN  /\ pc[c] = "update"
        /\ Free(c, e)
        /\ Return(c)
        /\ UNCHANGED references
        /\ LogLater([entry |-> e, action |-> "update", old |-> loc.old, new |-> loc.dto])
        /\ IF table[e] = Nothing THEN KeepTable
           ELSE WriteRows({e}, [d \in {e} |-> BuildUpdateData(loc.dto)])

(* Seeded bug: an update of a missing row brings it back. *)
UpdateUpserts(c) ==
    LET loc == local[c]
        e == loc.entry
        p == BuildUpdateData(loc.dto)
    IN  /\ pc[c] = "update"
        /\ Free(c, e)
        /\ Return(c)
        /\ IF table[e] = Nothing /\ p.word # Unset /\ p.meanings # Unset
           THEN /\ table' = [table EXCEPT ![e] = p]
                /\ UNCHANGED <<nextId, users, lastLoad, references, unlogged, firstId, held, reviewed>>
           ELSE KeepTable /\ UNCHANGED <<references, unlogged>>

(* A row that is gone by now throws (P2025), and nothing is logged. *)
Update(c) ==
    LET loc == local[c]
        e == loc.entry
    IN  /\ pc[c] = "update"
        /\ Free(c, e)
        /\ Return(c)
        /\ UNCHANGED references
        /\ \/ /\ table[e] = Nothing
              /\ KeepTable
              /\ UNCHANGED unlogged
           \/ /\ table[e] # Nothing
              /\ WriteRows({e}, [d \in {e} |-> BuildUpdateData(loc.dto)])
              /\ LogLater([entry |-> e, action |-> "update", old |-> loc.old, new |-> loc.dto])

StartDelete(c) == \E e \in Rows(table) :
    Start(c, "delete", "delete", [NoLocal EXCEPT !.entry = e])

Delete(c) ==
    LET e == local[c].entry
    IN  /\ pc[c] = "delete"
        /\ Free(c, e)
        /\ Return(c)
        /\ \/ /\ table[e] = Nothing
              /\ KeepTable
              /\ UNCHANGED <<references, unlogged>>
           \/ /\ table[e] # Nothing
              /\ DeleteRows({e})
              /\ LogLater(AuditOf("delete"))

StartBulkDelete(c) == \E ids \in SUBSET Rows(table) :
    /\ ids # {}
    /\ Start(c, "bulkDelete", "bulkDelete", [NoLocal EXCEPT !.targets = ids])

(* deleteMany takes the rows that are still there; nothing is logged. *)
BulkDelete(c) ==
    LET ids == local[c].targets
    IN  /\ pc[c] = "bulkDelete"
        /\ \A e \in ids : Free(c, e)
        /\ Return(c)
        /\ DeleteRows(ids)
        /\ UNCHANGED unlogged

(* The transaction of bulkUpdate: the ids that exist are read once, then   *)
(* written one by one in the order asked for.                              *)
StartBulk(c) == \E ids \in Batches, dto \in Edits :
    Start(c, "bulk", "bulk",
          [NoLocal EXCEPT !.todo = ids, !.targets = Rows(table), !.dto = dto])

(* One item: an id that was not found is skipped, one that is gone by now  *)
(* rolls the transaction back.                                             *)
BulkItem(c) ==
    LET loc == local[c]
        e == Head(loc.todo)
        done == [loc EXCEPT !.todo = Tail(@)]
    IN  /\ pc[c] = "bulk"
        /\ loc.todo # <<>>
        /\ \/ e \notin loc.targets /\ Move(c, "bulk", done)
           \/ /\ e \in loc.targets
              /\ Free(c, e)
              /\ \/ table[e] = Nothing /\ Return(c)
                 \/ table[e] # Nothing /\ Move(c, "bulk", [done EXCEPT !.locked = @ \cup {e}])
        /\ KeepTable
        /\ UNCHANGED <<references, unlogged>>

BulkCommit(c) ==
    LET loc == local[c]
    IN  /\ pc[c] = "bulk"
        /\ loc.todo = <<>>
        /\ Return(c)
        /\ WriteRows(loc.locked, [e \in loc.locked |-> BuildUpdateData(loc.dto)])
        /\ UNCHANGED references
        /\ IF loc.locked = {} THEN UNCHANGED unlogged ELSE LogLater(AuditOf("bulk"))

(* An audit record nobody waited for is stored, or refused because its     *)
(* entry is gone, or lost.                                                 *)
StoreAudit == \E r \in unlogged :
    /\ unlogged' = unlogged \ {r}
    /\ \/ /\ r.entry \in Rows(table) \cup {Nothing}
          /\ Undeleted(r.entry)
          /\ editLog' = editLog \cup {r}
       \/ UNCHANGED editLog
    /\ KeepTable
    /\ UNCHANGED <<favorites, suggestions, requests>>

----------------------------------------------------------------------------
(* revertEntryLog: no transaction around its two writes.                   *)

StartRevert(c) == \E r \in editLog :
    /\ r.entry # Nothing
    /\ r.action = "update"
    /\ r.old # NoDto
    /\ Start(c, "revert", "revert",
             [NoLocal EXCEPT !.entry = r.entry, !.dto = r.old, !.old = r.new])

Revert(c) ==
    LET loc == local[c]
        e == loc.entry
    IN  /\ pc[c] = "revert"
        /\ Free(c, e)
        /\ UNCHANGED <<references, unlogged>>
        /\ \/ table[e] = Nothing /\ Return(c) /\ KeepTable
           \/ /\ table[e] # Nothing
              /\ Move(c, "revertLog", loc)
              /\ WriteRows({e}, [d \in {e} |-> BuildUpdateData(loc.dto)])

LogRevert(c) ==
    LET loc == local[c]
    IN  /\ pc[c] = "revertLog"
        /\ Undeleted(loc.entry)
        /\ Return(c)
        /\ KeepTable
        /\ editLog' = editLog \cup
               {r \in {[entry |-> loc.entry, action |-> "revert", old |-> loc.old, new |-> loc.dto]} :
                    table[loc.entry] # Nothing}
        /\ UNCHANGED <<favorites, suggestions, unlogged>>

----------------------------------------------------------------------------
(* SuggestionsService.                                                     *)

(* A bound: a request takes its id, of the few there are, when it starts;  *)
(* an id is given again only when no call knows the row it named.          *)
Unused(s) ==
    /\ suggestions[s] = Nothing
    /\ \A d \in Request : pc[d] \in {"suggest", "review"} => local[d].suggestion # s

StartSuggest(c) == \E s \in Suggestion, u \in users, e \in Rows(table), f \in Field, v \in Proposed :
    /\ v \in IF f = "word" THEN Word ELSE Meaning
    /\ Unused(s)
    /\ Start(c, "suggest", "suggest",
             [NoLocal EXCEPT !.suggestion = s, !.user = u, !.entry = e, !.field = f, !.value = v,
                             !.old = [word |-> table[e].word, meanings |-> table[e].meanings]])

(* An entry or an author that is gone throws (P2003). *)
Suggest(c) ==
    LET loc == local[c]
    IN  /\ pc[c] = "suggest"
        /\ Undeleted(loc.entry)
        /\ Return(c)
        /\ \/ (table[loc.entry] = Nothing \/ loc.user \notin users) /\ UNCHANGED suggestions
           \/ /\ table[loc.entry] # Nothing
              /\ loc.user \in users
              /\ suggestions' = [suggestions EXCEPT ![loc.suggestion] =
                     [entry |-> loc.entry, user |-> loc.user, field |-> loc.field,
                      old |-> loc.old[loc.field], new |-> loc.value, status |-> "PENDING"]]
        /\ KeepTable
        /\ UNCHANGED <<favorites, editLog, unlogged>>

(* review reads the suggestion outside its transaction. *)
StartReview(c) == \E s \in Suggestion, approve \in BOOLEAN :
    /\ suggestions[s] # Nothing
    /\ suggestions[s].status = "PENDING"
    /\ Start(c, "review", "review",
             [NoLocal EXCEPT !.suggestion = s, !.flag = approve, !.entry = suggestions[s].entry,
                             !.field = suggestions[s].field, !.value = suggestions[s].new])

Decided(s, status) == [suggestions EXCEPT ![s] = [@ EXCEPT !.status = status]]

(* Seeded bug: the value goes to another column. *)
FieldPatchMisplaced(f, v) == [word |-> Unset, norm |-> v, meanings |-> Unset]

(* data: { [suggestion.field]: parsedValue } *)
FieldPatch(f, v) == [word |-> IF f = "word" THEN v ELSE Unset,
                     norm |-> Unset,
                     meanings |-> IF f = "meanings" THEN v ELSE Unset]

(* Seeded bug: the two updates are not one transaction. *)
ReviewSplit(c) ==
    LET loc == local[c]
        s == loc.suggestion
    IN  /\ pc[c] = "review"
        /\ Free(c, loc.entry)
        /\ Return(c)
        /\ UNCHANGED <<favorites, editLog, unlogged>>
        /\ KeepTable
        /\ IF suggestions[s] = Nothing THEN UNCHANGED suggestions
           ELSE suggestions' = Decided(s, IF loc.flag THEN "APPROVED" ELSE "REJECTED")

(* The transaction.  A suggestion that is gone, with its entry or with its *)
(* author, throws (P2025) and undoes it.                                   *)
Review(c) ==
    LET loc == local[c]
        s == loc.suggestion
    IN  /\ pc[c] = "review"
        /\ Free(c, loc.entry)
        /\ Return(c)
        /\ UNCHANGED <<favorites, editLog, unlogged>>
        /\ \/ suggestions[s] = Nothing /\ KeepTable /\ UNCHANGED suggestions
           \/ /\ suggestions[s] # Nothing
              /\ ~loc.flag
              /\ suggestions' = Decided(s, "REJECTED")
              /\ KeepTable
           \/ /\ suggestions[s] # Nothing
              /\ loc.flag
              /\ suggestions' = Decided(s, "APPROVED")
              /\ SetRows({loc.entry}, [d \in {loc.entry} |-> FieldPatch(loc.field, loc.value)])
              /\ reviewed' = IF loc.field = "word" THEN reviewed \cup {loc.entry} ELSE reviewed

----------------------------------------------------------------------------
(* FavoritesService.                                                       *)

StartToggle(c) == \E u \in users, e \in Rows(table) :
    Start(c, "toggle", "toggle",
          [NoLocal EXCEPT !.user = u, !.entry = e, !.flag = <<u, e>> \in favorites])

(* A row that is missing or there already throws (P2025, P2002), as does a *)
(* favorite of an entry or a user that is gone (P2003).                    *)
Toggle(c) ==
    LET loc == local[c]
        f == <<loc.user, loc.entry>>
    IN  /\ pc[c] = "toggle"
        /\ Undeleted(loc.entry)
        /\ Return(c)
        /\ favorites' = IF loc.flag THEN favorites \ {f}
                        ELSE favorites \cup {g \in {f} : table[loc.entry] # Nothing /\ loc.user \in users}
        /\ KeepTable
        /\ UNCHANGED <<suggestions, editLog, unlogged>>

ClearAll == \E u \in users :
    /\ "clear" \in Operations
    /\ started < MaxRequests
    /\ started' = started + 1
    /\ favorites' = {f \in favorites : f[1] # u}
    /\ KeepTable
    /\ UNCHANGED <<suggestions, editLog, unlogged, pc, local>>

----------------------------------------------------------------------------
(* AdminService.deleteUser and UserService.deleteAccount: one statement,   *)
(* with onDelete: Cascade of UserFavorite.user and of Suggestion.user,     *)
(* whatever the suggestion's status.  The reviewer of a suggestion and the *)
(* user of an edit log are only set to null.                               *)

DeleteUser == \E u \in users :
    /\ "deleteUser" \in Operations
    /\ started < MaxRequests
    /\ started' = started + 1
    /\ users' = users \ {u}
    /\ favorites' = {f \in favorites : f[1] # u}
    /\ suggestions' = [s \in Suggestion |->
           IF suggestions[s] # Nothing /\ suggestions[s].user = u THEN Nothing ELSE suggestions[s]]
    /\ UNCHANGED <<table, nextId, lastLoad, history, editLog, unlogged, pc, local>>

----------------------------------------------------------------------------
(* improveEntries, run by runOp: rows are read once and written one by one *)

StartImprove(c) == \E ids \in Batches :
    /\ PipelineFree
    /\ Start(c, "improve", "improve", [NoLocal EXCEPT !.todo = ids, !.read = table])

(* Seeded bug: a row that needs no cleaning is not passed over. *)
ImproveOneStuck(c) ==
    LET loc == local[c]
        e == Head(loc.todo)
    IN  /\ pc[c] = "improve"
        /\ loc.todo # <<>>
        /\ loc.read[e] # Nothing
        /\ Improvement(loc.read[e]) # NoPatch
        /\ table[e] # Nothing
        /\ Free(c, e)
        /\ Move(c, "improve", [loc EXCEPT !.todo = Tail(@)])
        /\ WriteRows({e}, [d \in {e} |-> Improvement(loc.read[e])])
        /\ UNCHANGED <<references, unlogged>>

(* A row that was not found, or needs no cleaning, is passed over; one     *)
(* that is gone by now throws and ends the loop.                           *)
ImproveOne(c) ==
    LET loc == local[c]
        e == Head(loc.todo)
        p == IF loc.read[e] = Nothing THEN NoPatch ELSE Improvement(loc.read[e])
        rest == [loc EXCEPT !.todo = Tail(@)]
    IN  /\ pc[c] = "improve"
        /\ loc.todo # <<>>
        /\ UNCHANGED <<references, unlogged>>
        /\ \/ p = NoPatch /\ Move(c, "improve", rest) /\ KeepTable
           \/ /\ p # NoPatch
              /\ Free(c, e)
              /\ \/ table[e] = Nothing /\ Return(c) /\ KeepTable
                 \/ /\ table[e] # Nothing
                    /\ Move(c, "improve", rest)
                    /\ WriteRows({e}, [d \in {e} |-> p])

EndImprove(c) ==
    /\ pc[c] = "improve"
    /\ local[c].todo = <<>>
    /\ Return(c)
    /\ LogLater(AuditOf("pipeline"))
    /\ KeepTable
    /\ UNCHANGED references

----------------------------------------------------------------------------
(* load: validation, one transaction, statements after it, LoadRun.        *)

StartLoad(c) == \E f \in Files :
    /\ f # <<>>
    /\ PipelineFree
    /\ Start(c, "load", "loadDelete", [NoLocal EXCEPT !.rows = DbEntries(f), !.read = table])

(* Seeded bug: only the rows that are not loaded again are deleted. *)
LoadDeleteDiffering(c) ==
    LET kept == {e \in Rows(table) : table[e] \in {local[c].rows[i] : i \in DOMAIN local[c].rows}}
    IN  /\ pc[c] = "loadDelete"
        /\ \A e \in Rows(table) : Free(c, e)
        /\ Move(c, "loadCommit", [local[c] EXCEPT !.locked = Rows(table) \ kept])
        /\ KeepTable
        /\ UNCHANGED <<references, unlogged>>

(* deleteMany: it sees the rows that are committed when it starts. *)
LoadDelete(c) ==
    /\ pc[c] = "loadDelete"
    /\ \A e \in Rows(table) : Free(c, e)
    /\ Move(c, "loadCommit", [local[c] EXCEPT !.locked = Rows(table)])
    /\ KeepTable
    /\ UNCHANGED <<references, unlogged>>

(* createMany of every chunk, and the commit. *)
LoadCommit(c) ==
    LET loc == local[c]
        new == TableFrom(loc.rows, nextId)
    IN  /\ pc[c] = "loadCommit"
        /\ nextId + Len(loc.rows) <= MaxId + 1
        /\ Move(c, "loadIndex", [loc EXCEPT !.locked = {}])
        /\ table' = [e \in Entry |-> IF e >= nextId THEN new[e]
                                     ELSE IF e \in loc.locked THEN Nothing ELSE table[e]]
        /\ KeepOnly(Rows(table) \ loc.locked)
        /\ nextId' = nextId + Len(loc.rows)
        /\ firstId' = nextId
        /\ held' = held \cup Holds(table')
        /\ UNCHANGED <<users, lastLoad, unlogged, reviewed>>

(* The extension before the transaction, the transaction, or an index      *)
(* statement after it fails.                                               *)
LoadFails(c) ==
    /\ pc[c] \in {"loadDelete", "loadCommit", "loadIndex"}
    /\ Move(c, "loadError", [local[c] EXCEPT !.locked = {}])
    /\ KeepTable
    /\ UNCHANGED <<references, unlogged>>

RecordRun(run) ==
    /\ lastLoad' = run
    /\ UNCHANGED <<table, nextId, users, history, references>>

RecordError(c) ==
    /\ pc[c] = "loadError"
    /\ Return(c)
    /\ RecordRun([status |-> "error", loaded |-> 0])
    /\ UNCHANGED unlogged

RecordLoad(c) ==
    /\ pc[c] = "loadIndex"
    /\ Return(c)
    /\ RecordRun([status |-> "ok", loaded |-> Len(local[c].rows)])
    /\ LogLater(AuditOf("pipeline"))

----------------------------------------------------------------------------
(* A statement of a request fails: its transaction, if it has one, is      *)
(* undone, and the request throws.                                         *)
Fail(c) ==
    /\ pc[c] \notin {"idle", "loadDelete", "loadCommit"}
    /\ Return(c)
    /\ KeepTable
    /\ UNCHANGED <<references, unlogged>>

(* A transaction that is still open after its timeout (Prisma's 5 s, 120 s *)
(* for load), or the victim PostgreSQL picks of a deadlock, is undone.     *)
TimeOut(c) ==
    \/ pc[c] = "bulk" /\ Fail(c)
    \/ pc[c] \in {"loadDelete", "loadCommit"} /\ LoadFails(c)

Begin(c) ==
    \/ StartUpdate(c) \/ StartDelete(c) \/ StartBulkDelete(c) \/ StartBulk(c)
    \/ StartRevert(c) \/ StartSuggest(c) \/ StartReview(c) \/ StartToggle(c)
    \/ StartImprove(c) \/ StartLoad(c)

Step(c) ==
    \/ Update(c) \/ Delete(c) \/ BulkDelete(c) \/ BulkItem(c) \/ BulkCommit(c)
    \/ Revert(c) \/ LogRevert(c) \/ Suggest(c) \/ Review(c) \/ Toggle(c)
    \/ ImproveOne(c) \/ EndImprove(c)
    \/ LoadDelete(c) \/ LoadCommit(c) \/ RecordError(c) \/ RecordLoad(c)

Next ==
    \/ \E c \in Request : Begin(c) \/ Step(c) \/ LoadFails(c) \/ Fail(c)
    \/ ClearAll
    \/ DeleteUser
    \/ StoreAudit

(* A table as a load left it. *)
Init ==
    /\ \E f \in Files :
           /\ table = TableFrom(DbEntries(f), 1)
           /\ nextId = Len(DbEntries(f)) + 1
           /\ Len(DbEntries(f)) <= MaxId
    /\ users = User
    /\ favorites = {}
    /\ suggestions = [s \in Suggestion |-> Nothing]
    /\ editLog = {}
    /\ unlogged = {}
    /\ lastLoad = Nothing
    /\ pc = [c \in Request |-> "idle"]
    /\ local = [c \in Request |-> NoLocal]
    /\ started = 0
    /\ firstId = 1
    /\ held = Holds(table)
    /\ reviewed = {}

Spec == Init /\ [][Next]_vars
FairSpec == Spec /\ \A c \in Request : WF_vars(Step(c)) /\ WF_vars(TimeOut(c))

----------------------------------------------------------------------------
(* Properties.                                                             *)

(* Every variable holds a value of its kind. *)
TypeOK ==
    /\ table \in [Entry -> Row \cup {Nothing}]
    /\ nextId \in 1 .. (MaxId + 1)
    /\ users \subseteq User
    /\ favorites \subseteq User \X Entry
    /\ suggestions \in [Suggestion -> SuggestionRow \cup {Nothing}]
    /\ editLog \subseteq Audit
    /\ unlogged \subseteq Audit
    /\ lastLoad \in LoadRun \cup {Nothing}
    /\ pc \in [Request -> Stages]
    /\ local \in [Request -> Local]
    /\ started \in 0 .. MaxRequests
    /\ firstId \in 1 .. (MaxId + 1)
    /\ held \subseteq Entry \X Field \X Value
    /\ reviewed \subseteq Entry

(* No favorite, suggestion or audit record outlives its entry, and no      *)
(* favorite or suggestion its user: what the cascades of the schema and    *)
(* the foreign keys of late inserts must give, whichever of delete, bulk   *)
(* delete, load and the deletion of a user came in between.                *)
NoOrphans ==
    /\ \A f \in favorites : f[1] \in users /\ f[2] \in Rows(table)
    /\ \A s \in Suggestion : suggestions[s] # Nothing =>
           suggestions[s].user \in users /\ suggestions[s].entry \in Rows(table)
    /\ \A r \in editLog : r.entry \in Rows(table) \cup {Nothing}

(* wordNormalized is the normal form of word in every row, except in a row *)
(* whose word was last written by the review that approved a suggestion:   *)
(* edits, bulk edits, reverts, improve-entries and load derive it, in      *)
(* whatever order they interleave, and each of them mends the row again.   *)
(* The suggestion itself need not be there any more: it goes with its      *)
(* author, and the row stays as the review left it.                        *)
NormDivergesOnlyByReview ==
    \A e \in Rows(table) : table[e].norm # Norm[table[e].word] => e \in reviewed

(* Every value an audit record or a suggestion names, old or new, is one   *)
(* the field has really had: the record of an update that failed, or of an *)
(* entry that was gone, is never written, and a revert restores history.   *)
AuditOfRealValues ==
    /\ \A r \in editLog \cup unlogged, f \in Field :
           /\ r.old[f] # Unset => <<r.entry, f, r.old[f]>> \in held
           /\ r.new[f] # Unset => <<r.entry, f, r.new[f]>> \in held
    /\ \A s \in Suggestion : suggestions[s] # Nothing =>
           <<suggestions[s].entry, suggestions[s].field, suggestions[s].old>> \in held

(* A suggestion that is approved has been applied, whoever else reviewed   *)
(* it or edited the entry meanwhile.                                       *)
ApprovedApplied ==
    \A s \in Suggestion :
        suggestions[s] # Nothing /\ suggestions[s].status = "APPROVED" =>
            <<suggestions[s].entry, suggestions[s].field, suggestions[s].new>> \in held

(* The table never mixes the rows of two loads. *)
OneLoadInTable == \A e \in Rows(table) : e >= firstId

(* An id that is gone never comes back: no late update, bulk item, revert, *)
(* review or improvement recreates the row.                                *)
DeletedStaysDeleted ==
    [][\A e \in Entry : e < nextId /\ table[e] = Nothing => table'[e] = Nothing]_vars

(* Every request ends: no wait for a row another transaction holds is      *)
(* for ever, two bulk updates that wait for each other included.           *)
RequestsEnd == \A c \in Request : pc[c] # "idle" ~> pc[c] = "idle"

(* API.md:958 of load: if an error occurs, the old data stay untouched.    *)
(* Checked where load is the only operation.                               *)
OldDataKept == \A c \in Request : pc[c] = "loadError" => table = local[c].read

=============================================================================
