--------------------------- MODULE UnifyPipeline ---------------------------
(***************************************************************************)
(* The file pipeline of src/merge: MergeService.runOp and the operations   *)
(* it runs on dictionaries/parsed/<slug>.json, dictionaries/unified.json,  *)
(* dictionaries/unified/step_NN_<slug>.json and merge_log.json: parse,     *)
(* unify-step, rollback, reset and improve.                                *)
(*                                                                         *)
(* A Caller is one request in flight (an admin HTTP request, or the one    *)
(* command of a CLI run); Home gives the OS process it runs in.  Each      *)
(* process has its own MergeService, so its own _isRunning, and all share  *)
(* the files.  A step is what the code does between two awaits.            *)
(*                                                                         *)
(* fs.writeFile and fs.copyFile truncate their target and then fill it:    *)
(* two steps, between which the file is Torn, and no Torn file parses.     *)
(***************************************************************************)
EXTENDS Integers, Sequences, FiniteSets, Functions

CONSTANTS
    Caller,         \* requests that may be in flight
    Process,        \* OS processes: the server, and CLI runs
    Home,           \* Home[c]: the process of caller c
    Slug,           \* the dictionaries of DICTIONARIES
    Word,           \* entry keys (normalised word, homonym index, noun class)
    Clean,          \* Clean[w]: the key of w once improve has cleaned the word
    ParserOutput,   \* sets of keys a parser may return for a raw file
    InitialParsed,  \* the parsed files there may be at the start
    Operations,     \* the operations callers may start
    MaxLog,         \* bound: steps the merge log may reach
    Faults,         \* the faults of a run, a subset of FaultKinds
    Absent, Torn    \* contents of a file that is missing, or half written

FaultKinds == {"abort", "crash", "unlink"}
OperationKinds == {"parse", "unify", "rollback", "reset", "improve"}

ASSUME CallerAssumption == Home \in [Caller -> Process]
ASSUME SlugAssumption == Slug # {}
ASSUME WordAssumption ==
    /\ Clean \in [Word -> Word]
    /\ ParserOutput \subseteq SUBSET Word
    /\ InitialParsed \subseteq [Slug -> ParserOutput \cup {Absent, Torn}]
ASSUME BoundAssumption == MaxLog \in Nat
ASSUME OperationAssumption == Operations \subseteq OperationKinds
ASSUME FaultAssumption == Faults \subseteq FaultKinds

VARIABLES
    running,    \* running[p]: _isRunning of the MergeService in process p
    pc,         \* pc[c]: the await at which the operation of c stands
    local,      \* local[c]: its local variables
    parsed,     \* parsed[s]: dictionaries/parsed/<s>.json, as a set of keys
    unified,    \* dictionaries/unified.json, as a set of rows
    snapshot,   \* snapshot[n, s]: dictionaries/unified/step_<n>_<s>.json
    backup,     \* the newest backup_before_rollback_<ts>.json
    log         \* merge_log.json

files == <<parsed, unified, snapshot, backup, log>>
vars == <<running, pc, local, files>>

----------------------------------------------------------------------------
(* Contents of the files.                                                  *)

(* An entry of unified.json: its key, and its sources in merging order     *)
(* (mergeInto only fills what is missing, so the first source wins).       *)
Row == [word : Word, sources : Seq(Slug)]

(* An entry of merge_log.json.  The counts the code logs (newWords,        *)
(* enrichedWords, totalUnifiedEntries) are abstracted by the rows counted. *)
LogEntry == [slug : Slug, rows : SUBSET Row]

(* A file that can be read and parsed. *)
Readable(file) == file \notin {Absent, Torn}

(* readMergeLog: any failure reads as an empty log. *)
MergeLog == IF Readable(log) THEN log ELSE <<>>

(* The rows loadUnifiedMap starts from: any failure reads as no entry. *)
RowsIn(file) == IF Readable(file) THEN file ELSE {}

SourcesOf(rows) == UNION {Range(r.sources) : r \in rows}
Keys(rows) == {r.word : r \in rows}

(* The Map loadUnifiedMap builds: merged.set keeps one row for each key.   *)
(* Which of two rows with one key comes last in the file is left open.     *)
OneRowPerKey(rows) ==
    {kept \in SUBSET rows :
        /\ Keys(kept) = Keys(rows)
        /\ \A r, q \in kept : r.word = q.word => r = q}

(* Seeded bug: the wrong name is added. *)
AddSourceWrongName(row, s) ==
    IF s \in Range(row.sources)
    THEN row
    ELSE [row EXCEPT !.sources = Append(@, row.word)]

AddSource(row, s) ==
    IF s \in Range(row.sources)
    THEN row
    ELSE [row EXCEPT !.sources = Append(@, s)]

(* The loop of unifyStep: enrich the rows whose key the dictionary has,    *)
(* and add a row for each of its other keys.                               *)
Merge(rows, s, words) ==
    {IF r.word \in words THEN AddSource(r, s) ELSE r : r \in rows}
    \cup {[word |-> w, sources |-> <<s>>] : w \in words \ Keys(rows)}

(* improve cleans the word of each entry (NFC, zero-width characters,      *)
(* trim) and keeps all the entries; two of them may get the same key.      *)
CleanRows(rows) == {[r EXCEPT !.word = Clean[r.word]] : r \in rows}

----------------------------------------------------------------------------
(* The state of an operation.                                              *)

Local == [slug : Slug,              \* the dictionary of a unify-step
          todo : SUBSET Slug,       \* dictionaries a parse still has to do
          step : Int,               \* the target of a rollback
          words : SUBSET Word,      \* newEntries
          existing : SUBSET Slug,   \* existingSources
          rows : SUBSET Row,        \* merged, or the entries improve writes
          log : Seq(LogEntry)]      \* the log the operation will write

NoLocal == [slug |-> CHOOSE s \in Slug : TRUE, todo |-> {}, step |-> 0,
            words |-> {}, existing |-> {}, rows |-> {}, log |-> <<>>]

PC == {"idle", "parse", "parseWrite",
       "readParsed", "readUnified", "readLog", "save", "saveWrite",
       "snap", "snapWrite", "logOpen", "logWrite",
       "rollback", "backup", "restore", "restoreWrite",
       "unlink", "rmdir",
       "improve", "improveOpen", "improveWrite", "improveRun"}

Init ==
    /\ running = [p \in Process |-> FALSE]
    /\ pc = [c \in Caller |-> "idle"]
    /\ local = [c \in Caller |-> NoLocal]
    /\ parsed \in InitialParsed
    /\ unified = Absent
    /\ snapshot = [f \in (1..MaxLog) \X Slug |-> Absent]
    /\ backup = Absent
    /\ log = Absent

(* Seeded bug: runOp without its busy check. *)
EnterBusy(c, operation, first, arguments) ==
    /\ operation \in Operations
    /\ pc[c] = "idle"
    /\ running' = [running EXCEPT ![Home[c]] = TRUE]
    /\ pc' = [pc EXCEPT ![c] = first]
    /\ local' = [local EXCEPT ![c] = arguments]
    /\ UNCHANGED files

(* runOp up to its first await: the busy check and the set of _isRunning   *)
(* are one step of the event loop.  A busy pipeline refuses the call and   *)
(* changes nothing.                                                        *)
Enter(c, operation, first, arguments) ==
    /\ operation \in Operations
    /\ pc[c] = "idle"
    /\ ~running[Home[c]]
    /\ running' = [running EXCEPT ![Home[c]] = TRUE]
    /\ pc' = [pc EXCEPT ![c] = first]
    /\ local' = [local EXCEPT ![c] = arguments]
    /\ UNCHANGED files

(* Seeded bug: runOp without its finally. *)
LeaveLocked(c) ==
    /\ pc' = [pc EXCEPT ![c] = "idle"]
    /\ local' = [local EXCEPT ![c] = NoLocal]
    /\ UNCHANGED running

(* The end of runOp, by return or by throw: finally clears _isRunning. *)
Leave(c) ==
    /\ running' = [running EXCEPT ![Home[c]] = FALSE]
    /\ pc' = [pc EXCEPT ![c] = "idle"]
    /\ local' = [local EXCEPT ![c] = NoLocal]

(* Go on to the next await, with the local variables given. *)
Continue(c, next, locals) ==
    /\ pc' = [pc EXCEPT ![c] = next]
    /\ local' = [local EXCEPT ![c] = locals]
    /\ UNCHANGED running

Throw(c) == Leave(c) /\ UNCHANGED files

----------------------------------------------------------------------------
(* parse: read the raw dictionary, parse it, write parsed/<slug>.json;     *)
(* parse:all does so for each dictionary in turn.                          *)

StartParse(c, slugs) ==
    Enter(c, "parse", "parse", [NoLocal EXCEPT !.todo = slugs])

(* The raw file is missing or is not JSON: parseOne throws. *)
ParseFails(c) ==
    /\ pc[c] = "parse"
    /\ Throw(c)

ParseOne(c, s, words) ==
    /\ pc[c] = "parse"
    /\ s \in local[c].todo
    /\ parsed' = [parsed EXCEPT ![s] = Torn]
    /\ Continue(c, "parseWrite",
                [local[c] EXCEPT !.slug = s, !.words = words,
                                 !.todo = @ \ {s}])
    /\ UNCHANGED <<unified, snapshot, backup, log>>

WriteParsed(c) ==
    /\ pc[c] = "parseWrite"
    /\ parsed' = [parsed EXCEPT ![local[c].slug] = local[c].words]
    /\ IF local[c].todo = {}
       THEN Leave(c)
       ELSE Continue(c, "parse", local[c])
    /\ UNCHANGED <<unified, snapshot, backup, log>>

----------------------------------------------------------------------------
(* unify-step.                                                             *)

StartUnify(c, s) ==
    /\ Len(MergeLog) < MaxLog
    /\ Enter(c, "unify", "readParsed", [NoLocal EXCEPT !.slug = s])

ReadParsed(c) ==
    /\ pc[c] = "readParsed"
    /\ LET file == parsed[local[c].slug]
       IN IF Readable(file)
          THEN Continue(c, "readUnified", [local[c] EXCEPT !.words = file])
          ELSE Leave(c)
    /\ UNCHANGED files

(* Seeded bug: existingSources only of the rows that are kept. *)
ReadUnifiedKept(c) ==
    /\ pc[c] = "readUnified"
    /\ \E kept \in OneRowPerKey(RowsIn(unified)) :
          Continue(c, "readLog",
                   [local[c] EXCEPT !.rows = kept,
                                    !.existing = SourcesOf(kept)])
    /\ UNCHANGED files

(* loadUnifiedMap: existingSources has the sources of every row of the     *)
(* file, merged only those of the rows it keeps.                           *)
ReadUnified(c) ==
    /\ pc[c] = "readUnified"
    /\ \E kept \in OneRowPerKey(RowsIn(unified)) :
          Continue(c, "readLog",
                   [local[c] EXCEPT !.rows = kept,
                                    !.existing = SourcesOf(RowsIn(unified))])
    /\ UNCHANGED files

(* Seeded bug: no duplicate check. *)
ReadLogUnchecked(c) ==
    /\ pc[c] = "readLog"
    /\ Len(MergeLog) < MaxLog
    /\ LET s == local[c].slug
           merged == Merge(local[c].rows, s, local[c].words)
       IN Continue(c, "save",
             [local[c] EXCEPT
                !.rows = merged,
                !.log = Append(MergeLog, [slug |-> s, rows |-> merged])])
    /\ UNCHANGED files

(* Seeded bug: the entry is pushed onto an empty log. *)
ReadLogForgotten(c) ==
    /\ pc[c] = "readLog"
    /\ LET s == local[c].slug
           merged == Merge(local[c].rows, s, local[c].words)
       IN IF s \in local[c].existing
          THEN Leave(c)
          ELSE Continue(c, "save",
                 [local[c] EXCEPT !.rows = merged,
                                  !.log = <<[slug |-> s, rows |-> merged]>>])
    /\ UNCHANGED files

(* readMergeLog, the duplicate check and the merging loop.  The new log    *)
(* entry is computed here: nothing it holds changes before it is pushed.   *)
ReadLog(c) ==
    /\ pc[c] = "readLog"
    /\ Len(MergeLog) < MaxLog
    /\ LET s == local[c].slug
           merged == Merge(local[c].rows, s, local[c].words)
       IN IF s \in local[c].existing
          THEN Leave(c)
          ELSE Continue(c, "save",
                 [local[c] EXCEPT
                    !.rows = merged,
                    !.log = Append(MergeLog, [slug |-> s, rows |-> merged])])
    /\ UNCHANGED files

(* Seeded bug: saveUnifiedMap is not awaited. *)
SaveNotAwaited(c) ==
    /\ pc[c] = "save"
    /\ unified' = Torn
    /\ Continue(c, "snap", local[c])
    /\ UNCHANGED <<parsed, snapshot, backup, log>>

(* saveUnifiedMap: writeFile truncates unified.json, then fills it. *)
Save(c) ==
    /\ pc[c] = "save"
    /\ unified' = Torn
    /\ Continue(c, "saveWrite", local[c])
    /\ UNCHANGED <<parsed, snapshot, backup, log>>

SaveWrite(c) ==
    /\ pc[c] = "saveWrite"
    /\ unified' = local[c].rows
    /\ Continue(c, "snap", local[c])
    /\ UNCHANGED <<parsed, snapshot, backup, log>>

(* The snapshot of the step the operation logs last. *)
SnapshotFile(entries) == <<Len(entries), entries[Len(entries)].slug>>

(* copyFile(unified.json, step_NN_<slug>.json): a missing source throws    *)
(* before the target is touched, else the target is truncated and filled   *)
(* with what the source then holds.                                        *)
Snap(c) ==
    /\ pc[c] = "snap"
    /\ IF unified = Absent
       THEN Throw(c)
       ELSE /\ snapshot' = [snapshot EXCEPT ![SnapshotFile(local[c].log)] = Torn]
            /\ Continue(c, "snapWrite", local[c])
            /\ UNCHANGED <<parsed, unified, backup, log>>

SnapWrite(c) ==
    /\ pc[c] = "snapWrite"
    /\ snapshot' = [snapshot EXCEPT ![SnapshotFile(local[c].log)] =
                        IF unified = Absent THEN Torn ELSE unified]
    /\ Continue(c, "logOpen", local[c])
    /\ UNCHANGED <<parsed, unified, backup, log>>

(* writeMergeLog, the last await of unify-step and of rollback. *)
OpenLog(c) ==
    /\ pc[c] = "logOpen"
    /\ log' = Torn
    /\ Continue(c, "logWrite", local[c])
    /\ UNCHANGED <<parsed, unified, snapshot, backup>>

WriteLog(c) ==
    /\ pc[c] = "logWrite"
    /\ log' = local[c].log
    /\ Leave(c)
    /\ UNCHANGED <<parsed, unified, snapshot, backup>>

----------------------------------------------------------------------------
(* rollback.                                                               *)

StartRollback(c, n) ==
    Enter(c, "rollback", "rollback", [NoLocal EXCEPT !.step = n])

(* readMergeLog and the bounds check; from here on only the entries that   *)
(* remain are used.                                                        *)
ReadRollbackLog(c) ==
    /\ pc[c] = "rollback"
    /\ IF local[c].step \notin 0..Len(MergeLog)
       THEN Leave(c)
       ELSE Continue(c, "backup",
               [local[c] EXCEPT !.log = SubSeq(MergeLog, 1, local[c].step)])
    /\ UNCHANGED files

(* Seeded bug: no backup is made. *)
BackupSkipped(c) ==
    /\ pc[c] = "backup"
    /\ Continue(c, "restore", local[c])
    /\ UNCHANGED files

(* The backup of unified.json is best effort: a missing source, or a       *)
(* failing copy, is ignored.                                               *)
Backup(c) ==
    /\ pc[c] = "backup"
    /\ \/ backup' = IF unified = Absent THEN backup ELSE unified
       \/ "abort" \in Faults /\ backup' \in {backup, Torn}
    /\ Continue(c, "restore", local[c])
    /\ UNCHANGED <<parsed, unified, snapshot, log>>

(* Seeded bug: a missing snapshot is ignored, and the log trimmed. *)
RestoreUnchecked(c) ==
    /\ pc[c] = "restore"
    /\ UNCHANGED <<parsed, snapshot, backup, log>>
    /\ IF local[c].step = 0
       THEN unified' = Absent /\ Continue(c, "logOpen", local[c])
       ELSE IF snapshot[SnapshotFile(local[c].log)] = Absent
       THEN Continue(c, "logOpen", local[c]) /\ UNCHANGED unified
       ELSE unified' = Torn /\ Continue(c, "restoreWrite", local[c])

(* Step 0 deletes unified.json (an error is ignored); another step starts  *)
(* copying its snapshot, or throws if that file is missing.                *)
Restore(c) ==
    /\ pc[c] = "restore"
    /\ UNCHANGED <<parsed, snapshot, backup, log>>
    /\ IF local[c].step = 0
       THEN /\ \/ unified' = Absent
               \/ "unlink" \in Faults /\ unified' = unified
            /\ Continue(c, "logOpen", local[c])
       ELSE IF snapshot[SnapshotFile(local[c].log)] = Absent
       THEN Leave(c) /\ UNCHANGED unified
       ELSE /\ unified' = Torn
            /\ Continue(c, "restoreWrite", local[c])

RestoreWrite(c) ==
    /\ pc[c] = "restoreWrite"
    /\ LET file == snapshot[SnapshotFile(local[c].log)]
       IN unified' = IF file = Absent THEN Torn ELSE file
    /\ Continue(c, "logOpen", local[c])
    /\ UNCHANGED <<parsed, snapshot, backup, log>>

----------------------------------------------------------------------------
(* reset: delete unified.json, then the directory of snapshots, backups    *)
(* and log.  The statistics read before are not state.                     *)

StartReset(c) == Enter(c, "reset", "unlink", NoLocal)

(* Seeded bug: reset leaves unified.json where it is. *)
UnlinkSkipped(c) ==
    /\ pc[c] = "unlink"
    /\ Continue(c, "rmdir", local[c])
    /\ UNCHANGED files

Unlink(c) ==
    /\ pc[c] = "unlink"
    /\ \/ unified' = Absent
       \/ "unlink" \in Faults /\ unified' = unified
    /\ Continue(c, "rmdir", local[c])
    /\ UNCHANGED <<parsed, snapshot, backup, log>>

(* fs.rm recursive deletes the files one by one, in no order to rely on. *)
RemoveFile(c) ==
    /\ pc[c] = "rmdir"
    /\ \/ /\ log # Absent /\ log' = Absent
          /\ UNCHANGED <<snapshot, backup>>
       \/ /\ backup # Absent /\ backup' = Absent
          /\ UNCHANGED <<snapshot, log>>
       \/ /\ \E f \in DOMAIN snapshot :
                /\ snapshot[f] # Absent
                /\ snapshot' = [snapshot EXCEPT ![f] = Absent]
          /\ UNCHANGED <<backup, log>>
    /\ UNCHANGED <<running, pc, local, parsed, unified>>

(* The directory is empty, or fs.rm has failed and the error is ignored. *)
EndReset(c) ==
    /\ pc[c] = "rmdir"
    /\ \/ /\ log = Absent /\ backup = Absent
          /\ \A f \in DOMAIN snapshot : snapshot[f] = Absent
       \/ "unlink" \in Faults
    /\ Throw(c)

----------------------------------------------------------------------------
(* improve: read unified.json, clean its entries, write it back, record    *)
(* the run in the database.                                                *)

StartImprove(c) == Enter(c, "improve", "improve", NoLocal)

Improve(c) ==
    /\ pc[c] = "improve"
    /\ IF Readable(unified)
       THEN Continue(c, "improveOpen",
                     [local[c] EXCEPT !.rows = CleanRows(unified)])
       ELSE Leave(c)
    /\ UNCHANGED files

OpenImproved(c) ==
    /\ pc[c] = "improveOpen"
    /\ unified' = Torn
    /\ Continue(c, "improveWrite", local[c])
    /\ UNCHANGED <<parsed, snapshot, backup, log>>

WriteImproved(c) ==
    /\ pc[c] = "improveWrite"
    /\ unified' = local[c].rows
    /\ Continue(c, "improveRun", local[c])
    /\ UNCHANGED <<parsed, snapshot, backup, log>>

(* improveRun.create returns, or throws: the files are the same. *)
RecordImprove(c) ==
    /\ pc[c] = "improveRun"
    /\ Throw(c)

----------------------------------------------------------------------------
(* Faults.                                                                 *)

(* A write or a copy fails part way (no space, say): the operation throws  *)
(* and leaves the files as they are.                                       *)
Abort(c) ==
    /\ "abort" \in Faults
    /\ pc[c] # "idle"
    /\ Throw(c)

(* The process dies with all that is in flight in it; a new one starts. *)
Crash(p) ==
    /\ "crash" \in Faults
    /\ running[p]
    /\ running' = [running EXCEPT ![p] = FALSE]
    /\ pc' = [c \in Caller |-> IF Home[c] = p THEN "idle" ELSE pc[c]]
    /\ local' = [c \in Caller |-> IF Home[c] = p THEN NoLocal ELSE local[c]]
    /\ UNCHANGED files

----------------------------------------------------------------------------

Start(c) ==
    \/ \E s \in Slug : StartParse(c, {s}) \/ StartUnify(c, s)
    \/ StartParse(c, Slug)
    \/ \E n \in -1..MaxLog : StartRollback(c, n)
    \/ StartReset(c)
    \/ StartImprove(c)

Step(c) ==
    \/ ParseFails(c) \/ WriteParsed(c)
    \/ \E s \in Slug, words \in ParserOutput : ParseOne(c, s, words)
    \/ ReadParsed(c) \/ ReadUnified(c) \/ ReadLog(c)
    \/ Save(c) \/ SaveWrite(c) \/ Snap(c) \/ SnapWrite(c)
    \/ OpenLog(c) \/ WriteLog(c)
    \/ ReadRollbackLog(c) \/ Backup(c) \/ Restore(c) \/ RestoreWrite(c)
    \/ Unlink(c) \/ RemoveFile(c) \/ EndReset(c)
    \/ Improve(c) \/ OpenImproved(c) \/ WriteImproved(c) \/ RecordImprove(c)

Next ==
    \/ \E c \in Caller : Start(c) \/ Step(c) \/ Abort(c)
    \/ \E p \in Process : Crash(p)

Spec == Init /\ [][Next]_vars

(* Awaited file and database calls settle, so an operation that has begun  *)
(* goes on; nobody has to start one, and no fault has to happen.           *)
FairSpec == Spec /\ \A c \in Caller : WF_vars(Step(c))
----------------------------------------------------------------------------
(* Properties.                                                             *)

(* Every variable holds a value of its kind. *)
TypeOK ==
    /\ running \in [Process -> BOOLEAN]
    /\ pc \in [Caller -> PC]
    /\ local \in [Caller -> Local]
    /\ parsed \in [Slug -> (SUBSET Word) \cup {Absent, Torn}]
    /\ unified \in (SUBSET Row) \cup {Absent, Torn}
    /\ snapshot \in [(1..MaxLog) \X Slug -> (SUBSET Row) \cup {Absent, Torn}]
    /\ backup \in (SUBSET Row) \cup {Absent, Torn}
    /\ log \in Seq(LogEntry) \cup {Absent, Torn}

AtRest == \A c \in Caller : pc[c] = "idle"

(* The rows of unified.json as the last entry of a log recorded them. *)
LastRows(entries) ==
    IF entries = <<>> THEN {} ELSE entries[Len(entries)].rows

(* runOp runs one operation of a process at a time. *)
OneAtATime ==
    \A c, d \in Caller :
        Home[c] = Home[d] /\ c # d => pc[c] = "idle" \/ pc[d] = "idle"

(* The snapshot of a step the log lists is what unified.json held at the   *)
(* end of that step, or is missing: never torn, never another version's.   *)
(* So a rollback (unify-pipeline.service.ts:191) restores the right data   *)
(* or refuses, whatever was killed or failed before.                       *)
SnapshotsIntact ==
    Readable(log) =>
        \A i \in 1..Len(log) :
            snapshot[<<i, log[i].slug>>] \in {log[i].rows, Absent}

(* With no fault, between operations unified.json is what its last logged  *)
(* step wrote, at most cleaned by improve since, and no file is torn.      *)
UnifiedFollowsLog ==
    AtRest =>
        /\ Torn \notin {unified, log, backup}
        /\ RowsIn(unified) \in
              {LastRows(MergeLog), CleanRows(LastRows(MergeLog))}

(* With no fault, a dictionary found in unified.json is one of the log, so *)
(* getUnifiedLog and status do not offer it again.                         *)
EverySourceLogged ==
    AtRest => SourcesOf(RowsIn(unified)) \subseteq
                 {MergeLog[i].slug : i \in DOMAIN MergeLog}

(* No dictionary is logged twice: unify-step refuses one already added     *)
(* (API.md:832).                                                           *)
NoDictionaryTwice ==
    \A i, j \in DOMAIN MergeLog :
        i # j => MergeLog[i].slug # MergeLog[j].slug

(* A unify-step or a rollback that writes its log leaves unified.json as   *)
(* the last entry of that log recorded it, whatever crash or failed write  *)
(* it found the files in.                                                  *)
CompletedLogMatchesUnified ==
    [][ Readable(log') /\ log' # log /\ log' # <<>>
            => unified' = LastRows(log') ]_vars

(* With no fault, rollback overwrites or deletes unified.json only once    *)
(* what it held is in the backup it reports.                               *)
RollbackKeepsBackup ==
    [][ \A c \in Caller :
            pc[c] = "restore" /\ unified' # unified => backup = unified ]_vars

(* An operation that has begun ends, by return or by throw, and frees the  *)
(* pipeline for the next one.                                              *)
PipelineFreed == \A p \in Process : running[p] ~> ~running[p]
----------------------------------------------------------------------------
(* Strengthenings: what makes TypeOK and SnapshotsIntact inductive.        *)

(* No log is longer than the bound, so each of its steps names a file. *)
LogsBounded ==
    /\ Readable(log) => Len(log) <= MaxLog
    /\ \A c \in Caller : Len(local[c].log) <= MaxLog

(* What an operation knows of the log it is about to write. *)
LocalLogs ==
    \A c \in Caller :
        /\ pc[c] \in {"save", "saveWrite", "snap", "snapWrite", "restoreWrite"}
              => local[c].log # <<>>
        /\ pc[c] \in {"backup", "restore"}
              => Len(local[c].log) = local[c].step

TypeInv == TypeOK /\ LogsBounded /\ LocalLogs

(* An operation in flight holds the lock of its process. *)
LockHeld ==
    /\ \A c \in Caller : pc[c] # "idle" => running[Home[c]]
    /\ OneAtATime

(* The snapshots of the first n entries are intact, or missing. *)
IntactUpTo(n, entries) ==
    \A i \in 1..n :
        snapshot[<<i, entries[i].slug>>] \in {entries[i].rows, Absent}

(* A unify-step about to write a snapshot: that of a step the log does not *)
(* list yet, after steps whose snapshots are intact.                       *)
UnifyPending ==
    \A c \in Caller :
        pc[c] \in {"save", "saveWrite", "snap", "snapWrite"} =>
            /\ LastRows(local[c].log) = local[c].rows
            /\ Len(MergeLog) < Len(local[c].log)
            /\ IntactUpTo(Len(local[c].log) - 1, local[c].log)

(* Once written, unified.json stays as it is until it is copied. *)
SavedRows ==
    \A c \in Caller :
        /\ pc[c] \in {"snap", "snapWrite"} => unified = local[c].rows
        /\ pc[c] = "snapWrite" => unified # Absent

(* The log an operation writes, or restores from, lists intact snapshots. *)
LogPendingIntact ==
    \A c \in Caller :
        pc[c] \in {"backup", "restore", "restoreWrite", "logOpen", "logWrite"}
            => IntactUpTo(Len(local[c].log), local[c].log)

(* The snapshot being restored exists; when the log is written,            *)
(* unified.json is what its last entry recorded.                           *)
RestoredRows ==
    \A c \in Caller :
        /\ pc[c] = "restoreWrite"
              => snapshot[SnapshotFile(local[c].log)] # Absent
        /\ pc[c] \in {"logOpen", "logWrite"} /\ local[c].log # <<>>
              => unified = LastRows(local[c].log)

SnapshotInv ==
    /\ SnapshotsIntact
    /\ UnifyPending
    /\ SavedRows
    /\ LogPendingIntact
    /\ RestoredRows
=============================================================================
