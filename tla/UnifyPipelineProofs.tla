------------------------ MODULE UnifyPipelineProofs ------------------------
(***************************************************************************)
(* Theorems about UnifyPipeline, for every set of callers, dictionaries    *)
(* and words and every parser. First what holds under every set of faults; *)
(* then, when nothing fails, that the log knows every source of            *)
(* unified.json, that rollback destroys nothing the backup does not hold,  *)
(* and that the pipeline implements MergeHistory, the writes of an         *)
(* operation looking like the one step of the abstract history.            *)
(***************************************************************************)
EXTENDS UnifyPipelineRefinement, TLAPS

(* The operators on rows stay within rows, and those on files within what  *)
(* files hold.                                                             *)
LEMMA NoLocalIsLocal == NoLocal \in Local
BY SlugAssumption DEF NoLocal, Local

LEMMA SourcesAreSlugs ==
    ASSUME NEW rows \in SUBSET Row
    PROVE  SourcesOf(rows) \in SUBSET Slug
BY DEF SourcesOf, Row, Range

LEMMA KeptAreRows ==
    ASSUME NEW rows \in SUBSET Row, NEW kept \in OneRowPerKey(rows)
    PROVE  kept \in SUBSET Row
BY DEF OneRowPerKey

LEMMA CleanRowsAreRows ==
    ASSUME NEW rows \in SUBSET Row
    PROVE  CleanRows(rows) \in SUBSET Row
BY WordAssumption DEF CleanRows, Row

LEMMA AddSourceIsRow ==
    ASSUME NEW r \in Row, NEW s \in Slug
    PROVE  AddSource(r, s) \in Row
<1>1. r = [word |-> r.word, sources |-> r.sources]
      /\ r.word \in Word /\ r.sources \in Seq(Slug)
  BY DEF Row
<1>2. Append(r.sources, s) \in Seq(Slug)
  BY <1>1
<1>3. [r EXCEPT !.sources = Append(@, s)] \in Row
  BY <1>1, <1>2 DEF Row
<1> QED
  BY <1>3 DEF AddSource

LEMMA MergedAreRows ==
    ASSUME NEW rows \in SUBSET Row, NEW s \in Slug, NEW words \in SUBSET Word
    PROVE  Merge(rows, s, words) \in SUBSET Row
<1>1. \A w \in words : [word |-> w, sources |-> <<s>>] \in Row
  BY DEF Row
<1> QED
  BY <1>1, AddSourceIsRow DEF Merge

LEMMA FileTypes ==
    ASSUME TypeOK
    PROVE  /\ MergeLog \in Seq(LogEntry)
           /\ RowsIn(unified) \in SUBSET Row
BY DEF TypeOK, MergeLog, RowsIn, Readable

----------------------------------------------------------------------------
(* Type correctness.  TypeOK alone is not inductive: RestoreWrite reads    *)
(* the snapshot its log names last, so that log must be neither empty nor  *)
(* longer than the bound.                                                  *)

(* The two halves of TypeInv: where operations stand, and the files. *)
ControlTyped ==
    /\ running \in [Process -> BOOLEAN]
    /\ pc \in [Caller -> PC]
    /\ local \in [Caller -> Local]
    /\ \A c \in Caller : Len(local[c].log) <= MaxLog
    /\ LocalLogs

FilesTyped ==
    /\ parsed \in [Slug -> (SUBSET Word) \cup {Absent, Torn}]
    /\ unified \in (SUBSET Row) \cup {Absent, Torn}
    /\ snapshot \in [(1..MaxLog) \X Slug -> (SUBSET Row) \cup {Absent, Torn}]
    /\ backup \in (SUBSET Row) \cup {Absent, Torn}
    /\ log \in Seq(LogEntry) \cup {Absent, Torn}
    /\ Readable(log) => Len(log) <= MaxLog

LEMMA TypeInvHalves ==
    /\ TypeInv <=> ControlTyped /\ FilesTyped
    /\ TypeInv' <=> ControlTyped' /\ FilesTyped'
BY DEF TypeInv, TypeOK, LogsBounded, ControlTyped, FilesTyped

LEMMA UnchangedFilesTyped ==
    ASSUME TypeInv, UNCHANGED files
    PROVE  FilesTyped'
BY TypeInvHalves DEF FilesTyped, files, Readable

(* What Continue, Leave and Enter do to the part of the state they change. *)
LEMMA ContinueTyped ==
    ASSUME TypeInv, NEW c \in Caller, NEW next \in PC, NEW locals \in Local,
           Len(locals.log) <= MaxLog,
           next \in {"save", "saveWrite", "snap", "snapWrite", "restoreWrite"}
               => locals.log # <<>>,
           next \in {"backup", "restore"} => Len(locals.log) = locals.step,
           Continue(c, next, locals)
    PROVE  ControlTyped'
BY DEF TypeInv, TypeOK, LogsBounded, LocalLogs, ControlTyped, Continue

LEMMA LeaveTyped ==
    ASSUME TypeInv, NEW c \in Caller, Leave(c)
    PROVE  ControlTyped'
<1>1. NoLocal \in Local /\ NoLocal.log = <<>> /\ "idle" \in PC
  BY NoLocalIsLocal DEF NoLocal, PC
<1>2. Len(NoLocal.log) <= MaxLog
  BY <1>1, BoundAssumption
<1>3. /\ running' \in [Process -> BOOLEAN]
      /\ pc' \in [Caller -> PC]
      /\ local' \in [Caller -> Local]
  BY <1>1, CallerAssumption DEF TypeInv, TypeOK, Leave
<1>4. \A d \in Caller : Len(local'[d].log) <= MaxLog
  BY <1>1, <1>2 DEF TypeInv, TypeOK, LogsBounded, Leave
<1>5. LocalLogs'
  BY <1>1 DEF TypeInv, TypeOK, LocalLogs, Leave
<1> QED
  BY <1>3, <1>4, <1>5 DEF ControlTyped

LEMMA EnterTyped ==
    ASSUME TypeInv, NEW c \in Caller, NEW operation, NEW first \in PC,
           NEW arguments \in Local, arguments.log = <<>>,
           first \in {"idle", "parse", "readParsed", "rollback", "unlink",
                      "improve"},
           Enter(c, operation, first, arguments)
    PROVE  TypeInv'
<1>1. Len(arguments.log) <= MaxLog
  BY BoundAssumption
<1>2. ControlTyped'
  BY <1>1, CallerAssumption
  DEF TypeInv, TypeOK, LogsBounded, LocalLogs, ControlTyped, Enter
<1> QED
  BY <1>2, UnchangedFilesTyped, TypeInvHalves DEF Enter

LEMMA ThrowTyped ==
    ASSUME TypeInv, NEW c \in Caller, Throw(c)
    PROVE  TypeInv'
BY LeaveTyped, UnchangedFilesTyped, TypeInvHalves DEF Throw

(* The types of the values a step reads. *)
LEMMA LocalTyped ==
    ASSUME TypeInv, NEW c \in Caller
    PROVE  /\ local[c] \in Local
           /\ local[c].slug \in Slug
           /\ local[c].todo \in SUBSET Slug
           /\ local[c].step \in Int
           /\ local[c].words \in SUBSET Word
           /\ local[c].existing \in SUBSET Slug
           /\ local[c].rows \in SUBSET Row
           /\ local[c].log \in Seq(LogEntry)
           /\ Len(local[c].log) \in 0..MaxLog
           /\ pc[c] \in PC
BY BoundAssumption DEF TypeInv, TypeOK, LogsBounded, Local

(* What LocalLogs says of one operation. *)
LEMMA LocalLogsOf ==
    ASSUME TypeInv, NEW c \in Caller
    PROVE  /\ pc[c] \in {"save", "saveWrite", "snap", "snapWrite", "restoreWrite"}
                 => local[c].log # <<>>
           /\ pc[c] \in {"backup", "restore"}
                 => Len(local[c].log) = local[c].step
BY DEF TypeInv, LocalLogs

LEMMA MergeLogTyped ==
    ASSUME TypeInv
    PROVE  /\ MergeLog \in Seq(LogEntry)
           /\ Len(MergeLog) \in 0..MaxLog
BY BoundAssumption DEF TypeInv, TypeOK, LogsBounded, MergeLog, Readable

(* The file of the last step of a non-empty log is one of the snapshots. *)
LEMMA SnapshotFileTyped ==
    ASSUME NEW entries \in Seq(LogEntry), entries # <<>>,
           Len(entries) <= MaxLog
    PROVE  /\ Len(entries) \in 1..MaxLog
           /\ entries[Len(entries)] \in LogEntry
           /\ SnapshotFile(entries) \in (1..MaxLog) \X Slug
<1>1. Len(entries) \in 1..MaxLog
  BY BoundAssumption
<1>2. entries[Len(entries)] \in LogEntry
  BY <1>1
<1> QED
  BY <1>1, <1>2 DEF SnapshotFile, LogEntry

(* One lemma for each operation. *)
LEMMA StartTyped ==
    ASSUME TypeInv, NEW c \in Caller, Start(c)
    PROVE  TypeInv'
<1> USE NoLocalIsLocal DEF NoLocal
<1>1. ASSUME NEW slugs \in SUBSET Slug, StartParse(c, slugs)
      PROVE  TypeInv'
  <2>1. [NoLocal EXCEPT !.todo = slugs] \in Local
    BY DEF Local
  <2> QED
    BY <1>1, <2>1, EnterTyped DEF StartParse, PC
<1>2. ASSUME NEW s \in Slug, StartUnify(c, s)
      PROVE  TypeInv'
  <2>1. [NoLocal EXCEPT !.slug = s] \in Local
    BY DEF Local
  <2> QED
    BY <1>2, <2>1, EnterTyped DEF StartUnify, PC
<1>3. ASSUME NEW n \in -1..MaxLog, StartRollback(c, n)
      PROVE  TypeInv'
  <2>1. n \in Int
    BY BoundAssumption
  <2>2. [NoLocal EXCEPT !.step = n] \in Local
    BY <2>1 DEF Local
  <2> QED
    BY <1>3, <2>2, EnterTyped DEF StartRollback, PC
<1>4. StartReset(c) => TypeInv'
  BY EnterTyped DEF StartReset, PC
<1>5. StartImprove(c) => TypeInv'
  BY EnterTyped DEF StartImprove, PC
<1> QED
  BY <1>1, <1>2, <1>3, <1>4, <1>5 DEF Start

LEMMA ParseTyped ==
    ASSUME TypeInv, NEW c \in Caller,
           \/ ParseFails(c) \/ WriteParsed(c)
           \/ \E s \in Slug, words \in ParserOutput : ParseOne(c, s, words)
    PROVE  TypeInv'
<1>1. CASE ParseFails(c)
  BY <1>1, ThrowTyped DEF ParseFails
<1>2. ASSUME NEW s \in Slug, NEW words \in ParserOutput, ParseOne(c, s, words)
      PROVE  TypeInv'
  <2> DEFINE locals == [local[c] EXCEPT !.slug = s, !.words = words,
                                        !.todo = @ \ {s}]
  <2>1. locals \in Local /\ locals.log = local[c].log
    BY LocalTyped, WordAssumption DEF Local
  <2>2. Continue(c, "parseWrite", locals)
    BY <1>2 DEF ParseOne
  <2>3. ControlTyped'
    <3> HIDE DEF locals
    <3> QED
      BY <2>1, <2>2, ContinueTyped, LocalTyped DEF PC
  <2>4. FilesTyped'
    BY <1>2, TypeInvHalves DEF ParseOne, FilesTyped, Readable
  <2> QED
    BY <2>3, <2>4, TypeInvHalves
<1>3. CASE WriteParsed(c)
  <2>1. \/ Leave(c)
        \/ Continue(c, "parse", local[c])
    BY <1>3 DEF WriteParsed
  <2>2. ControlTyped'
    BY <2>1, LeaveTyped, ContinueTyped, LocalTyped DEF PC
  <2>3. FilesTyped'
    BY <1>3, LocalTyped, TypeInvHalves DEF WriteParsed, FilesTyped, Readable
  <2> QED
    BY <2>2, <2>3, TypeInvHalves
<1> QED
  BY <1>1, <1>2, <1>3

LEMMA UnifyTyped ==
    ASSUME TypeInv, NEW c \in Caller,
           \/ ReadParsed(c) \/ ReadUnified(c) \/ ReadLog(c)
           \/ Save(c) \/ SaveWrite(c) \/ Snap(c) \/ SnapWrite(c)
           \/ OpenLog(c) \/ WriteLog(c)
    PROVE  TypeInv'
<1> USE TypeInvHalves
<1>1. CASE ReadParsed(c)
  <2>1. ControlTyped'
    <3>1. CASE Readable(parsed[local[c].slug])
      <4> DEFINE locals ==
             [local[c] EXCEPT !.words = parsed[local[c].slug]]
      <4>1. locals \in Local /\ locals.log = local[c].log
        BY <3>1, LocalTyped DEF FilesTyped, Local, Readable
      <4>2. Continue(c, "readUnified", locals)
        BY <1>1, <3>1 DEF ReadParsed
      <4> HIDE DEF locals
      <4> QED
        BY <4>1, <4>2, ContinueTyped, LocalTyped DEF PC
    <3>2. CASE ~Readable(parsed[local[c].slug])
      BY <1>1, <3>2, LeaveTyped DEF ReadParsed
    <3> QED
      BY <3>1, <3>2
  <2> QED
    BY <1>1, <2>1, UnchangedFilesTyped DEF ReadParsed
<1>2. CASE ReadUnified(c)
  <2> DEFINE locals(kept) ==
         [local[c] EXCEPT !.rows = kept,
                          !.existing = SourcesOf(RowsIn(unified))]
  <2>1. PICK kept \in OneRowPerKey(RowsIn(unified)) :
           Continue(c, "readLog", locals(kept))
    BY <1>2 DEF ReadUnified
  <2>2. RowsIn(unified) \in SUBSET Row
    BY FileTypes DEF TypeInv
  <2>3. locals(kept) \in Local /\ locals(kept).log = local[c].log
    BY <2>2, LocalTyped, KeptAreRows, SourcesAreSlugs DEF Local
  <2>4. ControlTyped'
    <3> HIDE DEF locals
    <3> QED
      BY <2>1, <2>3, ContinueTyped, LocalTyped DEF PC
  <2> QED
    BY <1>2, <2>4, UnchangedFilesTyped DEF ReadUnified
<1>3. CASE ReadLog(c)
  <2> DEFINE merged == Merge(local[c].rows, local[c].slug, local[c].words)
             entry == [slug |-> local[c].slug, rows |-> merged]
             locals == [local[c] EXCEPT !.rows = merged,
                                        !.log = Append(MergeLog, entry)]
  <2>1. merged \in SUBSET Row /\ entry \in LogEntry
    BY LocalTyped, MergedAreRows DEF LogEntry
  <2>2. /\ Append(MergeLog, entry) \in Seq(LogEntry)
        /\ Append(MergeLog, entry) # <<>>
        /\ Len(Append(MergeLog, entry)) <= MaxLog
    <3> HIDE DEF entry
    <3> QED
      BY <1>3, <2>1, MergeLogTyped, BoundAssumption DEF ReadLog
  <2>3. /\ locals \in Local
        /\ locals.log = Append(MergeLog, entry)
    <3> HIDE DEF merged, entry
    <3> QED
      BY <2>1, <2>2, LocalTyped DEF Local
  <2>4. Leave(c) \/ Continue(c, "save", locals)
    BY <1>3 DEF ReadLog
  <2>5. ControlTyped'
    <3> HIDE DEF locals, entry
    <3> QED
      BY <2>2, <2>3, <2>4, ContinueTyped, LeaveTyped DEF PC
  <2> QED
    BY <1>3, <2>5, UnchangedFilesTyped DEF ReadLog
<1>4. CASE Save(c) \/ SaveWrite(c)
  <2>1. ControlTyped'
    BY <1>4, ContinueTyped, LocalTyped, LocalLogsOf DEF Save, SaveWrite, PC
  <2>2. FilesTyped'
    BY <1>4, LocalTyped DEF Save, SaveWrite, FilesTyped, Readable
  <2> QED
    BY <2>1, <2>2
<1>5. CASE Snap(c)
  <2>1. CASE unified = Absent
    BY <1>5, <2>1, ThrowTyped DEF Snap
  <2>2. CASE unified # Absent
    <3>1. ControlTyped'
      BY <1>5, <2>2, ContinueTyped, LocalTyped, LocalLogsOf DEF Snap, PC
    <3>2. FilesTyped'
      BY <1>5, <2>2 DEF Snap, FilesTyped, Readable
    <3> QED
      BY <3>1, <3>2
  <2> QED
    BY <2>1, <2>2
<1>6. CASE SnapWrite(c)
  <2>1. ControlTyped'
    BY <1>6, ContinueTyped, LocalTyped DEF SnapWrite, PC
  <2>2. FilesTyped'
    BY <1>6 DEF SnapWrite, FilesTyped, Readable
  <2> QED
    BY <2>1, <2>2
<1>7. CASE OpenLog(c)
  <2>1. ControlTyped'
    BY <1>7, ContinueTyped, LocalTyped DEF OpenLog, PC
  <2>2. FilesTyped'
    BY <1>7 DEF OpenLog, FilesTyped, Readable
  <2> QED
    BY <2>1, <2>2
<1>8. CASE WriteLog(c)
  <2>1. ControlTyped'
    BY <1>8, LeaveTyped DEF WriteLog
  <2>2. FilesTyped'
    BY <1>8, LocalTyped DEF WriteLog, FilesTyped, Readable
  <2> QED
    BY <2>1, <2>2
<1> QED
  BY <1>1, <1>2, <1>3, <1>4, <1>5, <1>6, <1>7, <1>8

LEMMA RollbackTyped ==
    ASSUME TypeInv, NEW c \in Caller,
           \/ ReadRollbackLog(c) \/ Backup(c) \/ Restore(c) \/ RestoreWrite(c)
    PROVE  TypeInv'
<1> USE TypeInvHalves
<1>1. CASE ReadRollbackLog(c)
  <2> DEFINE n == local[c].step
             locals == [local[c] EXCEPT !.log = SubSeq(MergeLog, 1, n)]
  <2>1. ControlTyped'
    <3>1. CASE n \in 0..Len(MergeLog)
      <4>1. /\ SubSeq(MergeLog, 1, n) \in Seq(LogEntry)
            /\ Len(SubSeq(MergeLog, 1, n)) = n
            /\ n <= MaxLog
        <5> HIDE DEF n
        <5> QED
          BY <3>1, MergeLogTyped, BoundAssumption
      <4>2. /\ locals \in Local
            /\ locals.log = SubSeq(MergeLog, 1, n)
            /\ locals.step = n
        BY <4>1, LocalTyped DEF Local
      <4>3. Continue(c, "backup", locals)
        BY <1>1, <3>1 DEF ReadRollbackLog
      <4> HIDE DEF n, locals
      <4> QED
        BY <4>1, <4>2, <4>3, ContinueTyped DEF PC
    <3>2. CASE n \notin 0..Len(MergeLog)
      BY <1>1, <3>2, LeaveTyped DEF ReadRollbackLog
    <3> QED
      BY <3>1, <3>2
  <2> QED
    BY <1>1, <2>1, UnchangedFilesTyped DEF ReadRollbackLog
<1>2. CASE Backup(c)
  <2>1. ControlTyped'
    BY <1>2, ContinueTyped, LocalTyped, LocalLogsOf DEF Backup, PC
  <2>2. FilesTyped'
    BY <1>2 DEF Backup, FilesTyped, Readable
  <2> QED
    BY <2>1, <2>2
<1>3. CASE Restore(c)
  <2>1. ControlTyped'
    <3>1. CASE local[c].step = 0
      BY <1>3, <3>1, ContinueTyped, LocalTyped DEF Restore, PC
    <3>2. CASE local[c].step # 0
      <4>1. local[c].log # <<>>
        BY <1>3, <3>2, LocalLogsOf, LocalTyped DEF Restore
      <4> QED
        BY <1>3, <3>2, <4>1, ContinueTyped, LeaveTyped, LocalTyped
        DEF Restore, PC
    <3> QED
      BY <3>1, <3>2
  <2>2. FilesTyped'
    BY <1>3 DEF Restore, FilesTyped, Readable
  <2> QED
    BY <2>1, <2>2
<1>4. CASE RestoreWrite(c)
  <2>1. ControlTyped'
    BY <1>4, ContinueTyped, LocalTyped DEF RestoreWrite, PC
  <2>2. SnapshotFile(local[c].log) \in (1..MaxLog) \X Slug
    BY <1>4, LocalTyped, LocalLogsOf, SnapshotFileTyped DEF RestoreWrite
  <2>3. FilesTyped'
    <3>1. snapshot[SnapshotFile(local[c].log)]
             \in (SUBSET Row) \cup {Absent, Torn}
      BY <2>2 DEF FilesTyped
    <3> QED
      BY <1>4, <3>1 DEF RestoreWrite, FilesTyped, Readable
  <2> QED
    BY <2>1, <2>3
<1> QED
  BY <1>1, <1>2, <1>3, <1>4

LEMMA ResetTyped ==
    ASSUME TypeInv, NEW c \in Caller,
           Unlink(c) \/ RemoveFile(c) \/ EndReset(c)
    PROVE  TypeInv'
<1> USE TypeInvHalves
<1>1. CASE Unlink(c)
  <2>1. ControlTyped'
    BY <1>1, ContinueTyped, LocalTyped DEF Unlink, PC
  <2>2. FilesTyped'
    BY <1>1 DEF Unlink, FilesTyped, Readable
  <2> QED
    BY <2>1, <2>2
<1>2. CASE RemoveFile(c)
  <2>1. ControlTyped'
    BY <1>2 DEF RemoveFile, ControlTyped, LocalLogs
  <2>2. FilesTyped'
    BY <1>2 DEF RemoveFile, FilesTyped, Readable
  <2> QED
    BY <2>1, <2>2
<1>3. CASE EndReset(c)
  BY <1>3, ThrowTyped DEF EndReset
<1> QED
  BY <1>1, <1>2, <1>3

LEMMA ImproveTyped ==
    ASSUME TypeInv, NEW c \in Caller,
           \/ Improve(c) \/ OpenImproved(c) \/ WriteImproved(c)
           \/ RecordImprove(c)
    PROVE  TypeInv'
<1> USE TypeInvHalves
<1>1. CASE Improve(c)
  <2>1. ControlTyped'
    <3>1. CASE Readable(unified)
      <4> DEFINE locals == [local[c] EXCEPT !.rows = CleanRows(unified)]
      <4>1. CleanRows(unified) \in SUBSET Row
        BY <3>1, CleanRowsAreRows DEF FilesTyped, Readable
      <4>2. locals \in Local /\ locals.log = local[c].log
        BY <4>1, LocalTyped DEF Local
      <4>3. Continue(c, "improveOpen", locals)
        BY <1>1, <3>1 DEF Improve
      <4> HIDE DEF locals
      <4> QED
        BY <4>2, <4>3, ContinueTyped, LocalTyped DEF PC
    <3>2. CASE ~Readable(unified)
      BY <1>1, <3>2, LeaveTyped DEF Improve
    <3> QED
      BY <3>1, <3>2
  <2> QED
    BY <1>1, <2>1, UnchangedFilesTyped DEF Improve
<1>2. CASE OpenImproved(c) \/ WriteImproved(c)
  <2>1. ControlTyped'
    BY <1>2, ContinueTyped, LocalTyped DEF OpenImproved, WriteImproved, PC
  <2>2. FilesTyped'
    BY <1>2, LocalTyped DEF OpenImproved, WriteImproved, FilesTyped, Readable
  <2> QED
    BY <2>1, <2>2
<1>3. CASE RecordImprove(c)
  BY <1>3, ThrowTyped DEF RecordImprove
<1> QED
  BY <1>1, <1>2, <1>3

LEMMA CrashTyped ==
    ASSUME TypeInv, NEW p \in Process, Crash(p)
    PROVE  TypeInv'
<1>1. NoLocal \in Local /\ NoLocal.log = <<>> /\ "idle" \in PC
  BY NoLocalIsLocal DEF NoLocal, PC
<1>2. Len(NoLocal.log) <= MaxLog
  BY <1>1, BoundAssumption
<1>3. ControlTyped'
  BY <1>1, <1>2
  DEF TypeInv, TypeOK, LogsBounded, LocalLogs, ControlTyped, Crash
<1> QED
  BY <1>3, UnchangedFilesTyped, TypeInvHalves DEF Crash

(* TypeInv holds at the start, and every step keeps it. *)
LEMMA InitTyped == Init => TypeInv
<1> SUFFICES ASSUME Init PROVE TypeInv
  OBVIOUS
<1>1. NoLocal \in Local /\ NoLocal.log = <<>> /\ "idle" \in PC
  BY NoLocalIsLocal DEF NoLocal, PC
<1>2. Len(NoLocal.log) <= MaxLog
  BY <1>1, BoundAssumption
<1>3. ControlTyped
  BY <1>1, <1>2 DEF Init, ControlTyped, LocalLogs
<1>4. FilesTyped
  <2>1. parsed \in [Slug -> (SUBSET Word) \cup {Absent, Torn}]
    BY WordAssumption DEF Init
  <2> QED
    BY <2>1 DEF Init, FilesTyped, Readable
<1> QED
  BY <1>3, <1>4, TypeInvHalves

LEMMA NextTyped == TypeInv /\ [Next]_vars => TypeInv'
<1> SUFFICES ASSUME TypeInv, [Next]_vars PROVE TypeInv'
  OBVIOUS
<1>1. CASE UNCHANGED vars
  <2>1. ControlTyped'
    BY <1>1, TypeInvHalves DEF vars, ControlTyped, LocalLogs
  <2>2. UNCHANGED files
    BY <1>1 DEF vars, files
  <2> QED
    BY <2>1, <2>2, UnchangedFilesTyped, TypeInvHalves
<1>2. ASSUME NEW c \in Caller, Start(c) \/ Step(c) \/ Abort(c)
      PROVE  TypeInv'
  <2>1. CASE Step(c)
    BY <2>1, ParseTyped, UnifyTyped, RollbackTyped, ResetTyped, ImproveTyped
    DEF Step
  <2>2. CASE Abort(c)
    BY <2>2, ThrowTyped DEF Abort
  <2> QED
    BY <1>2, <2>1, <2>2, StartTyped
<1>3. ASSUME NEW p \in Process, Crash(p)
      PROVE  TypeInv'
  BY <1>3, CrashTyped
<1> QED
  BY <1>1, <1>2, <1>3 DEF Next

LEMMA AlwaysTyped == Spec => []TypeInv
BY InitTyped, NextTyped, PTL DEF Spec

(* Type correctness: however many requests, processes and dictionaries     *)
(* there are and whatever fails, no variable of runOp and no file of the   *)
(* pipeline ever holds anything but a value of its kind.                   *)
THEOREM TypeCorrect == Spec => []TypeOK
<1>1. TypeInv => TypeOK
  BY DEF TypeInv
<1> QED
  BY <1>1, AlwaysTyped, PTL

----------------------------------------------------------------------------
(* Mutual exclusion.  OneAtATime alone is not inductive: what keeps a      *)
(* second operation out is _isRunning, so an operation in flight must be   *)
(* known to hold it.                                                       *)

(* A step of c moves c alone: on, out of runOp, or into it. *)
Moved(c) ==
    /\ \A d \in Caller \ {c} : pc'[d] = pc[d] /\ local'[d] = local[d]
    /\ \/ /\ pc[c] # "idle"
          /\ UNCHANGED running
       \/ /\ pc[c] # "idle" /\ pc'[c] = "idle"
          /\ running' = [running EXCEPT ![Home[c]] = FALSE]
       \/ /\ pc[c] = "idle" /\ ~running[Home[c]]
          /\ running' = [running EXCEPT ![Home[c]] = TRUE]

LEMMA LeaveMoved ==
    ASSUME TypeInv, NEW c \in Caller, pc[c] # "idle", Leave(c)
    PROVE  Moved(c)
BY DEF TypeInv, TypeOK, Leave, Moved

LEMMA ContinueMoved ==
    ASSUME TypeInv, NEW c \in Caller, pc[c] # "idle",
           NEW next, NEW locals, Continue(c, next, locals)
    PROVE  Moved(c)
BY DEF TypeInv, TypeOK, Continue, Moved

LEMMA EnterMoved ==
    ASSUME TypeInv, NEW c \in Caller,
           NEW operation, NEW first, NEW arguments,
           Enter(c, operation, first, arguments)
    PROVE  Moved(c)
BY DEF TypeInv, TypeOK, Enter, Moved

LEMMA StepMoved ==
    ASSUME TypeInv, NEW c \in Caller, Start(c) \/ Step(c) \/ Abort(c)
    PROVE  Moved(c)
<1>1. CASE Start(c)
  BY <1>1, EnterMoved
  DEF Start, StartParse, StartUnify, StartRollback, StartReset, StartImprove
<1>2. CASE Abort(c)
  BY <1>2, LeaveMoved DEF Abort, Throw
<1>3. CASE Step(c)
  <2> USE LeaveMoved, ContinueMoved
  <2>1. CASE ParseFails(c) \/ WriteParsed(c)
    BY <2>1 DEF ParseFails, WriteParsed, Throw
  <2>2. ASSUME NEW s \in Slug, NEW words \in ParserOutput,
               ParseOne(c, s, words)
        PROVE  Moved(c)
    BY <2>2 DEF ParseOne
  <2>3. CASE ReadParsed(c) \/ ReadUnified(c) \/ ReadLog(c)
    BY <2>3 DEF ReadParsed, ReadUnified, ReadLog
  <2>4. CASE Save(c) \/ SaveWrite(c) \/ Snap(c) \/ SnapWrite(c)
    BY <2>4 DEF Save, SaveWrite, Snap, SnapWrite, Throw
  <2>5. CASE OpenLog(c) \/ WriteLog(c)
    BY <2>5 DEF OpenLog, WriteLog
  <2>6. CASE ReadRollbackLog(c) \/ Backup(c) \/ Restore(c) \/ RestoreWrite(c)
    BY <2>6 DEF ReadRollbackLog, Backup, Restore, RestoreWrite
  <2>7. CASE Unlink(c) \/ EndReset(c)
    BY <2>7 DEF Unlink, EndReset, Throw
  <2>8. CASE RemoveFile(c)
    BY <2>8 DEF RemoveFile, Moved
  <2>9. CASE \/ Improve(c) \/ OpenImproved(c) \/ WriteImproved(c)
             \/ RecordImprove(c)
    BY <2>9 DEF Improve, OpenImproved, WriteImproved, RecordImprove, Throw
  <2> QED
    BY <1>3, <2>1, <2>2, <2>3, <2>4, <2>5, <2>6, <2>7, <2>8, <2>9 DEF Step
<1> QED
  BY <1>1, <1>2, <1>3

LEMMA MovedKeepsLock ==
    ASSUME TypeInv, LockHeld, NEW c \in Caller, Moved(c)
    PROVE  LockHeld'
<1>1. ASSUME NEW d \in Caller, pc'[d] # "idle"
      PROVE  running'[Home[d]]
  BY <1>1, CallerAssumption DEF TypeInv, TypeOK, LockHeld, OneAtATime, Moved
<1>2. ASSUME NEW d \in Caller, NEW e \in Caller, Home[d] = Home[e], d # e
      PROVE  pc'[d] = "idle" \/ pc'[e] = "idle"
  BY <1>2, CallerAssumption DEF TypeInv, TypeOK, LockHeld, OneAtATime, Moved
<1> QED
  BY <1>1, <1>2 DEF LockHeld, OneAtATime

LEMMA NextKeepsLock == TypeInv /\ LockHeld /\ [Next]_vars => LockHeld'
<1> SUFFICES ASSUME TypeInv, LockHeld, [Next]_vars PROVE LockHeld'
  OBVIOUS
<1>1. CASE UNCHANGED vars
  BY <1>1 DEF vars, LockHeld, OneAtATime
<1>2. ASSUME NEW c \in Caller, Start(c) \/ Step(c) \/ Abort(c)
      PROVE  LockHeld'
  BY <1>2, StepMoved, MovedKeepsLock
<1>3. ASSUME NEW p \in Process, Crash(p)
      PROVE  LockHeld'
  <2>1. \A d \in Caller :
           pc'[d] # "idle" => pc'[d] = pc[d] /\ Home[d] # p
    BY <1>3 DEF Crash
  <2>2. running' = [running EXCEPT ![p] = FALSE]
    BY <1>3 DEF Crash
  <2> QED
    BY <2>1, <2>2, CallerAssumption DEF TypeInv, TypeOK, LockHeld, OneAtATime
<1> QED
  BY <1>1, <1>2, <1>3 DEF Next

LEMMA AlwaysLocked == Spec => []LockHeld
<1>1. Init => LockHeld
  BY DEF Init, LockHeld, OneAtATime
<1> QED
  BY <1>1, AlwaysTyped, NextKeepsLock, PTL DEF Spec

(* Mutual exclusion: for every number of requests and processes, runOp     *)
(* never has two operations of one process in flight, after crashes and    *)
(* failed writes too.                                                      *)
THEOREM MutualExclusion == Spec => []OneAtATime
<1>1. LockHeld => OneAtATime
  BY DEF LockHeld
<1> QED
  BY <1>1, AlwaysLocked, PTL

----------------------------------------------------------------------------
(* Snapshots.  With requests to one process only, the operation that moves *)
(* is alone, so what it knows of the files (PendingOf) stays true between  *)
(* its steps.  With a CLI run beside the server it is not: TLC finds the   *)
(* violation in run unify_two_processes.                                   *)

OneHome == \A c, d \in Caller : Home[c] = Home[d]

(* The part of SnapshotInv that is about the operation of c. *)
PendingOf(c) ==
    /\ pc[c] \in {"save", "saveWrite", "snap", "snapWrite"} =>
          /\ LastRows(local[c].log) = local[c].rows
          /\ Len(MergeLog) < Len(local[c].log)
          /\ IntactUpTo(Len(local[c].log) - 1, local[c].log)
    /\ pc[c] \in {"snap", "snapWrite"} => unified = local[c].rows
    /\ pc[c] = "snapWrite" => unified # Absent
    /\ pc[c] \in {"backup", "restore", "restoreWrite", "logOpen", "logWrite"}
          => IntactUpTo(Len(local[c].log), local[c].log)
    /\ pc[c] = "restoreWrite"
          => snapshot[SnapshotFile(local[c].log)] # Absent
    /\ pc[c] \in {"logOpen", "logWrite"} /\ local[c].log # <<>>
          => unified = LastRows(local[c].log)

LEMMA SnapshotInvParts ==
    /\ SnapshotInv <=> SnapshotsIntact /\ \A c \in Caller : PendingOf(c)
    /\ SnapshotInv' <=> SnapshotsIntact' /\ \A c \in Caller : PendingOf(c)'
BY DEF SnapshotInv, UnifyPending, SavedRows, LogPendingIntact, RestoredRows,
       PendingOf

(* It is enough to look at the operation that moves. *)
LEMMA OthersIdle ==
    ASSUME OneHome, LockHeld, NEW c \in Caller, Moved(c),
           SnapshotsIntact', PendingOf(c)'
    PROVE  SnapshotInv'
<1>1. ASSUME NEW d \in Caller \ {c}
      PROVE  pc'[d] = "idle"
  BY DEF OneHome, LockHeld, OneAtATime, Moved
<1>2. ASSUME NEW d \in Caller \ {c}
      PROVE  PendingOf(d)'
  BY <1>1 DEF PendingOf
<1> QED
  BY <1>2, SnapshotInvParts

(* Where an operation knows nothing. *)
LEMMA NothingPending ==
    ASSUME NEW c \in Caller,
           pc'[c] \notin {"save", "saveWrite", "snap", "snapWrite", "backup",
                         "restore", "restoreWrite", "logOpen", "logWrite"}
    PROVE  PendingOf(c)'
BY DEF PendingOf

(* Steps that leave the snapshots and the log alone. *)
LEMMA SameHistory ==
    ASSUME SnapshotsIntact, UNCHANGED <<snapshot, log>>
    PROVE  /\ SnapshotsIntact'
           /\ MergeLog' = MergeLog
           /\ \A n \in Int, entries \in Seq(LogEntry) :
                 IntactUpTo(n, entries)' <=> IntactUpTo(n, entries)
BY DEF SnapshotsIntact, Readable, MergeLog, IntactUpTo

LEMMA LeavePending ==
    ASSUME TypeInv, NEW c \in Caller, Leave(c)
    PROVE  PendingOf(c)'
BY NothingPending DEF TypeInv, TypeOK, Leave

LEMMA MovedTo ==
    ASSUME TypeInv, NEW c \in Caller, NEW next, NEW locals,
           Continue(c, next, locals)
    PROVE  pc'[c] = next /\ local'[c] = locals
BY DEF TypeInv, TypeOK, Continue

LEMMA LastRowsOf ==
    ASSUME NEW entries \in Seq(LogEntry), entries # <<>>
    PROVE  /\ LastRows(entries) = entries[Len(entries)].rows
           /\ SnapshotFile(entries)
                 = <<Len(entries), entries[Len(entries)].slug>>
BY DEF LastRows, SnapshotFile

LEMMA MergeLogIntact ==
    ASSUME TypeInv, SnapshotInv
    PROVE  IntactUpTo(Len(MergeLog), MergeLog)
<1>1. CASE Readable(log)
  BY <1>1, SnapshotInvParts DEF SnapshotsIntact, IntactUpTo, MergeLog
<1>2. CASE ~Readable(log)
  <2>1. MergeLog = <<>> /\ Len(MergeLog) = 0
    BY <1>2 DEF MergeLog
  <2> QED
    BY <2>1 DEF IntactUpTo
<1> QED
  BY <1>1, <1>2

LEMMA StartIntact ==
    ASSUME TypeInv, SnapshotInv, NEW c \in Caller, Start(c)
    PROVE  SnapshotsIntact' /\ PendingOf(c)'
<1>1. ASSUME NEW operation, NEW first, NEW arguments,
             Enter(c, operation, first, arguments),
             first \in {"parse", "readParsed", "rollback", "unlink", "improve"}
      PROVE  SnapshotsIntact' /\ PendingOf(c)'
  <2>1. pc'[c] = first
    BY <1>1 DEF TypeInv, TypeOK, Enter
  <2>2. SnapshotsIntact'
    BY <1>1, SameHistory, SnapshotInvParts DEF Enter, files
  <2> QED
    BY <1>1, <2>1, <2>2, NothingPending
<1> QED
  BY <1>1
  DEF Start, StartParse, StartUnify, StartRollback, StartReset, StartImprove

(* The operations that touch neither snapshots nor log, and know nothing. *)
LEMMA ParseImproveIntact ==
    ASSUME TypeInv, SnapshotInv, NEW c \in Caller,
           \/ ParseFails(c) \/ WriteParsed(c)
           \/ \E s \in Slug, words \in ParserOutput : ParseOne(c, s, words)
           \/ Improve(c) \/ OpenImproved(c) \/ WriteImproved(c)
           \/ RecordImprove(c) \/ Abort(c)
    PROVE  SnapshotsIntact' /\ PendingOf(c)'
<1> DEFINE Elsewhere ==
       \/ Leave(c)
       \/ \E next \in {"parse", "parseWrite", "improveOpen", "improveWrite",
                       "improveRun"}, locals \in {local'[c]} :
             Continue(c, next, locals)
<1>1. UNCHANGED <<snapshot, log>>
  BY DEF ParseFails, WriteParsed, ParseOne, Improve, OpenImproved,
         WriteImproved, RecordImprove, Abort, Throw, files
<1>2. pc'[c] \in {"idle", "parse", "parseWrite", "improveOpen",
                 "improveWrite", "improveRun"}
  BY DEF ParseFails, WriteParsed, ParseOne, Improve, OpenImproved,
         WriteImproved, RecordImprove, Abort, Throw, Leave, Continue,
         TypeInv, TypeOK
<1> QED
  BY <1>1, <1>2, SameHistory, NothingPending, SnapshotInvParts

LEMMA ReadIntact ==
    ASSUME TypeInv, SnapshotInv, NEW c \in Caller,
           ReadParsed(c) \/ ReadUnified(c) \/ ReadLog(c)
    PROVE  SnapshotsIntact' /\ PendingOf(c)'
<1> USE SnapshotInvParts
<1>1. SnapshotsIntact' /\ MergeLog' = MergeLog
  BY SameHistory DEF ReadParsed, ReadUnified, ReadLog, files
<1>2. CASE ReadParsed(c) \/ ReadUnified(c)
  <2>1. pc'[c] \in {"idle", "readUnified", "readLog"}
    BY <1>2 DEF ReadParsed, ReadUnified, Leave, Continue, TypeInv, TypeOK
  <2> QED
    BY <1>1, <2>1, NothingPending
<1>3. CASE ReadLog(c)
  <2>1. CASE Leave(c)
    BY <1>1, <2>1, LeavePending
  <2>2. CASE ~Leave(c)
    <3> DEFINE merged == Merge(local[c].rows, local[c].slug, local[c].words)
               entry == [slug |-> local[c].slug, rows |-> merged]
               new == Append(MergeLog, entry)
    <3> DEFINE locals == [local[c] EXCEPT !.rows = merged, !.log = new]
    <3>1. pc'[c] = "save" /\ local'[c] = locals
      BY <1>3, <2>2, MovedTo DEF ReadLog
    <3>2. local'[c].rows = merged /\ local'[c].log = new
      BY <3>1, LocalTyped DEF Local
    <3>3. entry \in LogEntry /\ entry.rows = merged
      BY LocalTyped, MergedAreRows DEF LogEntry
    <3>4. /\ new \in Seq(LogEntry) /\ new # <<>>
          /\ Len(new) = Len(MergeLog) + 1
          /\ new[Len(new)] = entry
          /\ \A i \in 1..Len(MergeLog) : new[i] = MergeLog[i]
      <4> HIDE DEF entry
      <4> QED
        BY <3>3, MergeLogTyped
    <3>5. LastRows(new) = merged
      BY <3>3, <3>4, LastRowsOf
    <3>6. IntactUpTo(Len(MergeLog), new)
      <4> HIDE DEF new
      <4> QED
        BY <3>4, MergeLogIntact DEF IntactUpTo
    <3>7. Len(new) - 1 = Len(MergeLog)
      <4> HIDE DEF new
      <4> QED
        BY <3>4, MergeLogTyped
    <3>8. UNCHANGED snapshot
      BY <1>3 DEF ReadLog, files
    <3>9. /\ LastRows(local'[c].log) = local'[c].rows
          /\ Len(MergeLog') < Len(local'[c].log)
          /\ IntactUpTo(Len(local[c].log) - 1, local[c].log)'
      <4> HIDE DEF new, merged, entry
      <4>1. LastRows(local'[c].log) = local'[c].rows
        BY <3>2, <3>5
      <4>2. Len(MergeLog') < Len(local'[c].log)
        BY <1>1, <3>2, <3>4, MergeLogTyped
      <4>3. IntactUpTo(Len(local[c].log) - 1, local[c].log)'
        BY <3>2, <3>6, <3>7, <3>8 DEF IntactUpTo
      <4> QED
        BY <4>1, <4>2, <4>3
    <3> HIDE DEF new, merged, locals
    <3> QED
      BY <1>1, <3>1, <3>9 DEF PendingOf
  <2> QED
    BY <2>1, <2>2
<1> QED
  BY <1>2, <1>3

(* The snapshot a unify-step writes is that of no step the log lists.      *)
LEMMA SnapshotOfNewStep ==
    ASSUME TypeInv, SnapshotInv, NEW c \in Caller,
           pc[c] \in {"save", "saveWrite", "snap", "snapWrite"}
    PROVE  /\ local[c].log \in Seq(LogEntry) /\ local[c].log # <<>>
           /\ Len(local[c].log) \in Nat \ {0}
           /\ LastRows(local[c].log) = local[c].rows
           /\ local[c].log[Len(local[c].log)].rows = local[c].rows
           /\ IntactUpTo(Len(local[c].log) - 1, local[c].log)
           /\ SnapshotFile(local[c].log) =
                 <<Len(local[c].log), local[c].log[Len(local[c].log)].slug>>
           /\ Len(MergeLog) < Len(local[c].log)
<1>1. local[c].log \in Seq(LogEntry) /\ local[c].log # <<>>
  BY LocalTyped, LocalLogsOf
<1>2. PendingOf(c)
  BY SnapshotInvParts
<1> QED
  BY <1>1, <1>2, LastRowsOf DEF PendingOf

LEMMA UnifyWriteIntact ==
    ASSUME TypeInv, SnapshotInv, NEW c \in Caller,
           Save(c) \/ SaveWrite(c) \/ Snap(c) \/ SnapWrite(c)
    PROVE  SnapshotsIntact' /\ PendingOf(c)'
<1> DEFINE L == local[c].log
<1>1. pc[c] \in {"save", "saveWrite", "snap", "snapWrite"}
  BY DEF Save, SaveWrite, Snap, SnapWrite
<1>2. /\ L \in Seq(LogEntry) /\ L # <<>> /\ Len(L) \in Nat \ {0}
      /\ LastRows(L) = local[c].rows
      /\ L[Len(L)].rows = local[c].rows
      /\ IntactUpTo(Len(L) - 1, L)
      /\ SnapshotFile(L) = <<Len(L), L[Len(L)].slug>>
      /\ Len(MergeLog) < Len(L)
  BY <1>1, SnapshotOfNewStep
<1>3. SnapshotsIntact /\ PendingOf(c)
  BY SnapshotInvParts
<1>4. CASE Save(c) \/ SaveWrite(c)
  <2>1. /\ pc'[c] = IF Save(c) THEN "saveWrite" ELSE "snap"
        /\ local'[c] = local[c]
    BY <1>4, MovedTo DEF Save, SaveWrite
  <2>2. pc'[c] = "snap" => unified' = local[c].rows
    BY <1>4, <2>1 DEF Save, SaveWrite
  <2>3. UNCHANGED <<snapshot, log>>
    BY <1>4 DEF Save, SaveWrite
  <2>4. SnapshotsIntact' /\ MergeLog' = MergeLog
    BY <1>3, <2>3, SameHistory
  <2>5. IntactUpTo(Len(local[c].log) - 1, local[c].log)'
    BY <1>2, <2>1, <2>3 DEF IntactUpTo
  <2> QED
    BY <1>2, <2>1, <2>2, <2>4, <2>5 DEF PendingOf
<1>5. CASE Snap(c) /\ unified = Absent
  BY <1>3, <1>5, SameHistory, LeavePending DEF Snap, Throw, files
<1>6. CASE (Snap(c) /\ unified # Absent) \/ SnapWrite(c)
  <2> DEFINE content == IF pc[c] = "snap" THEN Torn ELSE unified
  <2>1. /\ pc'[c] = IF pc[c] = "snap" THEN "snapWrite" ELSE "logOpen"
        /\ local'[c] = local[c]
    BY <1>6, MovedTo DEF Snap, SnapWrite
  <2>2. unified # Absent /\ unified = local[c].rows
    BY <1>3, <1>6 DEF Snap, SnapWrite, PendingOf
  <2>3. /\ snapshot' = [snapshot EXCEPT ![<<Len(L), L[Len(L)].slug>>] = content]
        /\ UNCHANGED <<unified, log>>
    BY <1>2, <1>6, <2>2 DEF Snap, SnapWrite
  <2>4. SnapshotFile(L) \in (1..MaxLog) \X Slug
    BY <1>2, LocalTyped, SnapshotFileTyped
  <2>5. /\ \A i \in Int : i # Len(L) =>
             \A s : snapshot'[<<i, s>>] = snapshot[<<i, s>>]
        /\ snapshot'[<<Len(L), L[Len(L)].slug>>] = content
    <3> HIDE DEF L, content
    <3>1. snapshot \in [(1..MaxLog) \X Slug -> (SUBSET Row) \cup {Absent, Torn}]
      BY DEF TypeInv, TypeOK
    <3> QED
      BY <1>2, <2>3, <2>4, <3>1
  <2>6. SnapshotsIntact'
    <3>1. CASE Readable(log)
      <4>1. Len(log) < Len(L) /\ Len(log) \in Nat
        BY <1>2, <3>1, MergeLogTyped DEF MergeLog
      <4> HIDE DEF L, content
      <4> QED
        BY <1>2, <1>3, <2>3, <2>5, <3>1, <4>1 DEF SnapshotsIntact, Readable
    <3>2. CASE ~Readable(log)
      BY <2>3, <3>2 DEF SnapshotsIntact, Readable
    <3> QED
      BY <3>1, <3>2
  <2>7. MergeLog' = MergeLog
    BY <2>3 DEF MergeLog, Readable
  <2>8. IntactUpTo(Len(local[c].log) - 1, local[c].log)'
    <3>1. local'[c].log = L
      BY <2>1
    <3>2. \A i \in 1..(Len(L) - 1) :
             snapshot'[<<i, L[i].slug>>] = snapshot[<<i, L[i].slug>>]
      <4> HIDE DEF L, content
      <4> QED
        BY <1>2, <2>5
    <3> HIDE DEF L, content
    <3> QED
      BY <1>2, <3>1, <3>2 DEF IntactUpTo
  <2>9. pc[c] # "snap" => IntactUpTo(Len(local[c].log), local[c].log)'
    <3> SUFFICES ASSUME pc[c] # "snap"
                 PROVE  IntactUpTo(Len(local[c].log), local[c].log)'
      OBVIOUS
    <3>1. local'[c].log = L /\ content = L[Len(L)].rows
      BY <1>2, <2>1, <2>2
    <3>2. \A i \in 1..(Len(L) - 1) :
             snapshot'[<<i, L[i].slug>>] \in {L[i].rows, Absent}
      BY <2>8, <3>1 DEF IntactUpTo
    <3> HIDE DEF L, content
    <3>3. ASSUME NEW i \in 1..Len(L)
          PROVE  snapshot'[<<i, L[i].slug>>] \in {L[i].rows, Absent}
      <4>1. CASE i = Len(L)
        BY <2>5, <3>1, <4>1
      <4>2. CASE i # Len(L)
        BY <1>2, <3>2, <4>2
      <4> QED
        BY <4>1, <4>2
    <3> QED
      BY <3>1, <3>3 DEF IntactUpTo
  <2> QED
    BY <1>1, <1>2, <2>1, <2>2, <2>3, <2>6, <2>7, <2>8, <2>9 DEF PendingOf
<1> QED
  BY <1>4, <1>5, <1>6

LEMMA LogWriteIntact ==
    ASSUME TypeInv, SnapshotInv, NEW c \in Caller, OpenLog(c) \/ WriteLog(c)
    PROVE  SnapshotsIntact' /\ PendingOf(c)'
<1>1. PendingOf(c)
  BY SnapshotInvParts
<1>2. CASE OpenLog(c)
  <2>1. pc'[c] = "logWrite" /\ local'[c] = local[c]
    BY <1>2, MovedTo DEF OpenLog
  <2>2. UNCHANGED <<unified, snapshot>> /\ log' = Torn /\ pc[c] = "logOpen"
    BY <1>2 DEF OpenLog
  <2>3. SnapshotsIntact'
    BY <2>2 DEF SnapshotsIntact, Readable
  <2>4. IntactUpTo(Len(local[c].log), local[c].log)'
    BY <1>1, <2>1, <2>2 DEF PendingOf, IntactUpTo
  <2> QED
    BY <1>1, <2>1, <2>2, <2>3, <2>4 DEF PendingOf
<1>3. CASE WriteLog(c)
  <2>1. IntactUpTo(Len(local[c].log), local[c].log)
    BY <1>1, <1>3 DEF PendingOf, WriteLog
  <2>2. UNCHANGED snapshot /\ log' = local[c].log
    BY <1>3 DEF WriteLog
  <2>3. SnapshotsIntact'
    BY <2>1, <2>2 DEF SnapshotsIntact, IntactUpTo
  <2> QED
    BY <1>3, <2>3, LeavePending DEF WriteLog
<1> QED
  BY <1>2, <1>3

LEMMA RollbackIntact ==
    ASSUME TypeInv, SnapshotInv, NEW c \in Caller,
           \/ ReadRollbackLog(c) \/ Backup(c) \/ Restore(c) \/ RestoreWrite(c)
    PROVE  SnapshotsIntact' /\ PendingOf(c)'
<1>1. UNCHANGED <<snapshot, log>>
  BY DEF ReadRollbackLog, Backup, Restore, RestoreWrite, files
<1>2. SnapshotsIntact /\ PendingOf(c)
  BY SnapshotInvParts
<1>3. SnapshotsIntact'
  BY <1>1, <1>2, SameHistory
<1>4. CASE ReadRollbackLog(c)
  <2>1. CASE Leave(c)
    BY <1>3, <2>1, LeavePending
  <2>2. CASE ~Leave(c)
    <3> DEFINE n == local[c].step
               rest == SubSeq(MergeLog, 1, n)
               locals == [local[c] EXCEPT !.log = rest]
    <3>1. /\ n \in 0..Len(MergeLog)
          /\ pc'[c] = "backup" /\ local'[c] = locals
      BY <1>4, <2>2, MovedTo DEF ReadRollbackLog
    <3>2. local'[c].log = rest
      BY <3>1, LocalTyped DEF Local
    <3>3. /\ Len(rest) = n
          /\ \A i \in 1..n : rest[i] = MergeLog[i] /\ i \in 1..Len(MergeLog)
      <4> HIDE DEF n
      <4> QED
        BY <3>1, MergeLogTyped
    <3>4. IntactUpTo(Len(local[c].log), local[c].log)'
      <4> HIDE DEF n, rest, locals
      <4> QED
        BY <1>1, <3>2, <3>3, MergeLogIntact DEF IntactUpTo
    <3> HIDE DEF n, rest, locals
    <3> QED
      BY <1>3, <3>1, <3>4 DEF PendingOf
  <2> QED
    BY <2>1, <2>2
<1>5. CASE Backup(c)
  <2>1. pc[c] = "backup" /\ pc'[c] = "restore" /\ local'[c] = local[c]
    BY <1>5, MovedTo DEF Backup
  <2>2. IntactUpTo(Len(local[c].log), local[c].log)'
    BY <1>1, <1>2, <2>1 DEF PendingOf, IntactUpTo
  <2> QED
    BY <1>3, <2>1, <2>2 DEF PendingOf
<1>6. CASE Restore(c)
  <2>1. CASE Leave(c)
    BY <1>3, <2>1, LeavePending
  <2>2. CASE ~Leave(c)
    <3>1. /\ pc'[c] = IF local[c].step = 0 THEN "logOpen" ELSE "restoreWrite"
          /\ local'[c] = local[c]
          /\ local[c].step # 0
                => snapshot[SnapshotFile(local[c].log)] # Absent
      BY <1>6, <2>2, MovedTo DEF Restore
    <3>2. pc[c] = "restore" /\ (local[c].step = 0 => local[c].log = <<>>)
      BY <1>6, LocalTyped, LocalLogsOf DEF Restore
    <3>3. IntactUpTo(Len(local[c].log), local[c].log)'
      BY <1>1, <1>2, <3>1, <3>2 DEF PendingOf, IntactUpTo
    <3>4. snapshot'[SnapshotFile(local'[c].log)]
             = snapshot[SnapshotFile(local[c].log)]
      BY <1>1, <3>1
    <3> QED
      BY <1>3, <3>1, <3>2, <3>3, <3>4 DEF PendingOf
  <2> QED
    BY <2>1, <2>2
<1>7. CASE RestoreWrite(c)
  <2> DEFINE L == local[c].log
  <2>1. pc'[c] = "logOpen" /\ local'[c] = local[c]
    BY <1>7, MovedTo DEF RestoreWrite
  <2>2. L \in Seq(LogEntry) /\ L # <<>> /\ Len(L) \in 1..Len(L)
    BY <1>7, LocalTyped, LocalLogsOf DEF RestoreWrite
  <2>3. /\ snapshot[SnapshotFile(L)] # Absent
        /\ IntactUpTo(Len(L), L)
    BY <1>2, <1>7 DEF RestoreWrite, PendingOf
  <2>4. snapshot[SnapshotFile(L)] = LastRows(L)
    BY <2>2, <2>3, LastRowsOf DEF IntactUpTo
  <2>5. unified' = LastRows(L)
    BY <1>7, <2>3, <2>4 DEF RestoreWrite
  <2>6. IntactUpTo(Len(local[c].log), local[c].log)'
    BY <1>1, <2>1, <2>3 DEF IntactUpTo
  <2> QED
    BY <1>3, <2>1, <2>5, <2>6 DEF PendingOf
<1> QED
  BY <1>4, <1>5, <1>6, <1>7

LEMMA ResetIntact ==
    ASSUME TypeInv, SnapshotInv, NEW c \in Caller,
           Unlink(c) \/ RemoveFile(c) \/ EndReset(c)
    PROVE  SnapshotsIntact' /\ PendingOf(c)'
<1>1. SnapshotsIntact
  BY SnapshotInvParts
<1>2. CASE Unlink(c) \/ EndReset(c)
  <2>1. pc'[c] \in {"idle", "rmdir"}
    BY <1>2 DEF Unlink, EndReset, Throw, Leave, Continue, TypeInv, TypeOK
  <2>2. UNCHANGED <<snapshot, log>>
    BY <1>2 DEF Unlink, EndReset, Throw, files
  <2> QED
    BY <1>1, <2>1, <2>2, SameHistory, NothingPending
<1>3. CASE RemoveFile(c)
  <2>1. pc'[c] = "rmdir"
    BY <1>3 DEF RemoveFile
  <2>2. /\ log' = log \/ log' = Absent
        /\ \A f \in (1..MaxLog) \X Slug : snapshot'[f] \in {snapshot[f], Absent}
    BY <1>3 DEF RemoveFile, TypeInv, TypeOK
  <2>3. SnapshotsIntact'
    <3>1. CASE log' = Absent
      BY <3>1 DEF SnapshotsIntact, Readable
    <3>2. CASE log' = log /\ Readable(log)
      <4>1. ASSUME NEW i \in 1..Len(log)
            PROVE  <<i, log[i].slug>> \in (1..MaxLog) \X Slug
        <5>1. log \in Seq(LogEntry) /\ Len(log) <= MaxLog
          BY <3>2 DEF TypeInv, TypeOK, LogsBounded, Readable
        <5>2. log[i] \in LogEntry /\ i \in 1..MaxLog
          BY <5>1, BoundAssumption
        <5> QED
          BY <5>2 DEF LogEntry
      <4> QED
        BY <1>1, <2>2, <3>2, <4>1 DEF SnapshotsIntact, Readable
    <3>3. CASE log' = log /\ ~Readable(log)
      BY <3>3 DEF SnapshotsIntact, Readable
    <3> QED
      BY <2>2, <3>1, <3>2, <3>3
  <2> QED
    BY <2>1, <2>3, NothingPending
<1> QED
  BY <1>2, <1>3

LEMMA StepIntact ==
    ASSUME TypeInv, SnapshotInv, NEW c \in Caller,
           Start(c) \/ Step(c) \/ Abort(c)
    PROVE  SnapshotsIntact' /\ PendingOf(c)'
<1>1. CASE Step(c)
  BY <1>1, ParseImproveIntact, ReadIntact, UnifyWriteIntact, LogWriteIntact,
     RollbackIntact, ResetIntact DEF Step
<1> QED
  BY <1>1, StartIntact, ParseImproveIntact

LEMMA NextIntact ==
    ASSUME OneHome
    PROVE  TypeInv /\ LockHeld /\ SnapshotInv /\ [Next]_vars => SnapshotInv'
<1> SUFFICES ASSUME TypeInv, LockHeld, SnapshotInv, [Next]_vars
             PROVE  SnapshotInv'
  OBVIOUS
<1>1. CASE UNCHANGED vars
  BY <1>1
  DEF vars, files, SnapshotInv, SnapshotsIntact, UnifyPending, SavedRows,
      LogPendingIntact, RestoredRows, MergeLog, Readable, IntactUpTo
<1>2. ASSUME NEW c \in Caller, Start(c) \/ Step(c) \/ Abort(c)
      PROVE  SnapshotInv'
  BY <1>2, StepMoved, StepIntact, OthersIdle
<1>3. ASSUME NEW p \in Process, Crash(p)
      PROVE  SnapshotInv'
  <2>1. SnapshotsIntact'
    BY <1>3, SameHistory, SnapshotInvParts DEF Crash, files
  <2>2. ASSUME NEW c \in Caller
        PROVE  PendingOf(c)'
    <3>1. CASE Home[c] = p
      BY <1>3, <3>1, NothingPending DEF Crash
    <3>2. CASE Home[c] # p
      <4>1. pc'[c] = pc[c] /\ local'[c] = local[c] /\ UNCHANGED files
        BY <1>3, <3>2 DEF Crash
      <4> QED
        BY <4>1, SnapshotInvParts
        DEF PendingOf, files, MergeLog, Readable, IntactUpTo
    <3> QED
      BY <3>1, <3>2
  <2> QED
    BY <2>1, <2>2, SnapshotInvParts
<1> QED
  BY <1>1, <1>2, <1>3 DEF Next

LEMMA AlwaysIntact ==
    ASSUME OneHome
    PROVE  Spec => []SnapshotInv
<1>1. Init => SnapshotInv
  <2> SUFFICES ASSUME Init PROVE SnapshotInv
    OBVIOUS
  <2>1. SnapshotsIntact
    BY DEF Init, SnapshotsIntact, Readable
  <2>2. ASSUME NEW c \in Caller
        PROVE  PendingOf(c)
    BY DEF Init, PendingOf
  <2> QED
    BY <2>1, <2>2, SnapshotInvParts
<1>2. TypeInv /\ LockHeld /\ SnapshotInv /\ [Next]_vars => SnapshotInv'
  BY NextIntact
<1> QED
  BY <1>1, <1>2, AlwaysTyped, AlwaysLocked, PTL DEF Spec

(* Snapshots survive faults: as long as only one process runs the          *)
(* pipeline, the snapshot of a step merge_log.json lists is what           *)
(* unified.json held at the end of that step, or is missing, after every   *)
(* crash and failed write, for every number of requests, dictionaries and  *)
(* words.                                                                  *)
THEOREM SnapshotsSurvive ==
    ASSUME \A c, d \in Caller : Home[c] = Home[d]
    PROVE  Spec => []SnapshotsIntact
<1>1. OneHome
  BY DEF OneHome
<1>2. SnapshotInv => SnapshotsIntact
  BY DEF SnapshotInv
<1> QED
  BY <1>1, <1>2, AlwaysIntact, PTL

(* The log is written by three steps, and only WriteLog leaves one that    *)
(* can be read and lists a step.                                           *)
LEMMA OnlyWriteLog ==
    ASSUME NEW c \in Caller, Start(c) \/ Step(c) \/ Abort(c),
           log' # log, Readable(log')
    PROVE  WriteLog(c)
BY DEF Start, StartParse, StartUnify, StartRollback, StartReset, StartImprove,
       Enter, Step, ParseFails, WriteParsed, ParseOne, ReadParsed, ReadUnified,
       ReadLog, Save, SaveWrite, Snap, SnapWrite, OpenLog, ReadRollbackLog,
       Backup, Restore, RestoreWrite, Unlink, RemoveFile, EndReset, Improve,
       OpenImproved, WriteImproved, RecordImprove, Abort, Throw, files, Readable

(* With one process, unify-step and rollback write no log but one whose    *)
(* last entry records what unified.json holds, in whatever state a crash   *)
(* or a failed write had left the files before.                            *)
THEOREM CompletedLogMatches ==
    ASSUME \A c, d \in Caller : Home[c] = Home[d]
    PROVE  Spec => CompletedLogMatchesUnified
<1> DEFINE Matches ==
       Readable(log') /\ log' # log /\ log' # <<>> => unified' = LastRows(log')
<1>1. OneHome
  BY DEF OneHome
<1>2. SnapshotInv /\ [Next]_vars => [Matches]_vars
  <2> SUFFICES ASSUME SnapshotInv, Next,
                      Readable(log'), log' # log, log' # <<>>
               PROVE  unified' = LastRows(log')
    BY DEF vars, files
  <2>1. PICK c \in Caller : Start(c) \/ Step(c) \/ Abort(c)
    BY DEF Next, Crash, files
  <2>2. WriteLog(c)
    BY <2>1, OnlyWriteLog
  <2>3. unified = LastRows(local[c].log)
    BY <2>2, SnapshotInvParts DEF WriteLog, PendingOf
  <2> QED
    BY <2>2, <2>3 DEF WriteLog
<1> QED
  BY <1>1, <1>2, AlwaysIntact, PTL DEF Spec, CompletedLogMatchesUnified

----------------------------------------------------------------------------
(* The files between operations. *)

(* A file that is missing or half written is told from one that can be     *)
(* read.                                                                   *)
FilesApart ==
    /\ Absent # Torn
    /\ {Absent, Torn} \cap (SUBSET Row) = {}
    /\ {Absent, Torn} \cap Seq(LogEntry) = {}

SlugsOf(entries) == {entries[i].slug : i \in 1..Len(entries)}

(* The rows of each entry have only sources the log lists up to there. *)
Sourced(entries) ==
    \A i \in 1..Len(entries) :
        SourcesOf(entries[i].rows) \subseteq
            {entries[j].slug : j \in 1..i}

(* The files as an operation finds and leaves them. *)
Settled ==
    /\ Torn \notin {unified, log, backup}
    /\ MergeLog # <<>> => unified # Absent
    /\ SourcesOf(RowsIn(unified)) \subseteq SlugsOf(MergeLog)
    /\ Sourced(MergeLog)

(* Where an operation has written nothing yet, or is done writing. *)
Still == {"idle", "parse", "parseWrite", "readParsed", "readUnified",
          "readLog", "save", "rollback", "backup", "restore", "unlink",
          "improve", "improveOpen", "improveRun"}

(* What holds of the files, by where the operation of c stands. *)
StateOf(c) ==
    /\ pc[c] \in Still => Settled
    /\ backup # Torn
    /\ pc[c] # "logWrite" => log # Torn
    /\ pc[c] = "readLog"
          => SourcesOf(local[c].rows) \subseteq SlugsOf(MergeLog)
    /\ pc[c] \in {"save", "saveWrite", "snap", "snapWrite",
                  "backup", "restore", "restoreWrite", "logOpen", "logWrite"}
          => Sourced(local[c].log)
    /\ pc[c] \in {"backup", "restore"} /\ local[c].log # <<>>
          => unified # Absent
    /\ pc[c] = "restore" /\ unified # Absent => backup = unified
    /\ pc[c] \in {"logOpen", "logWrite"} /\ local[c].log = <<>>
          => unified = Absent
    /\ pc[c] \in {"improveOpen", "improveWrite"}
          => /\ SourcesOf(local[c].rows) \subseteq SlugsOf(MergeLog)
             /\ Sourced(MergeLog)
    /\ pc[c] = "rmdir" => unified = Absent

Alone(c) == \A d \in Caller \ {c} : pc[d] = "idle"

SoundInv ==
    /\ AtRest => Settled
    /\ \A c \in Caller : Alone(c) => StateOf(c)

----------------------------------------------------------------------------
(* Rows and logs.                                                          *)

LEMMA MergeSources ==
    ASSUME NEW rows \in SUBSET Row, NEW s \in Slug, NEW words \in SUBSET Word
    PROVE  SourcesOf(Merge(rows, s, words)) \subseteq SourcesOf(rows) \cup {s}
<1>1. ASSUME NEW r \in Row
      PROVE  Range(AddSource(r, s).sources) \subseteq Range(r.sources) \cup {s}
  <2>1. r.sources \in Seq(Slug) /\ r = [word |-> r.word, sources |-> r.sources]
    BY DEF Row
  <2>2. [r EXCEPT !.sources = Append(@, s)].sources = Append(r.sources, s)
    BY <2>1
  <2>3. Range(Append(r.sources, s)) \subseteq Range(r.sources) \cup {s}
    BY <2>1 DEF Range
  <2> QED
    BY <2>2, <2>3 DEF AddSource
<1>2. Range(<<s>>) = {s}
  BY DEF Range
<1>3. ASSUME NEW q \in Merge(rows, s, words)
      PROVE  Range(q.sources) \subseteq SourcesOf(rows) \cup {s}
  <2>1. CASE \E r \in rows : q = AddSource(r, s) \/ q = r
    <3>1. PICK r \in rows : q = AddSource(r, s) \/ q = r
      BY <2>1
    <3>2. Range(r.sources) \subseteq SourcesOf(rows)
      BY DEF SourcesOf
    <3> QED
      BY <1>1, <3>1, <3>2
  <2>2. CASE \E w \in words : q = [word |-> w, sources |-> <<s>>]
    BY <1>2, <2>2
  <2> QED
    BY <2>1, <2>2 DEF Merge
<1> QED
  BY <1>3 DEF SourcesOf

LEMMA CleanSources ==
    ASSUME NEW rows \in SUBSET Row
    PROVE  SourcesOf(CleanRows(rows)) = SourcesOf(rows)
<1>1. \A r \in rows : [r EXCEPT !.word = Clean[r.word]].sources = r.sources
  BY DEF Row
<1>2. \A q \in CleanRows(rows) : \E r \in rows : q.sources = r.sources
  BY <1>1 DEF CleanRows
<1>3. \A r \in rows : \E q \in CleanRows(rows) : q.sources = r.sources
  BY <1>1 DEF CleanRows
<1> HIDE DEF CleanRows
<1>4. \A x : x \in SourcesOf(CleanRows(rows)) <=> x \in SourcesOf(rows)
  BY <1>2, <1>3 DEF SourcesOf
<1> QED
  BY <1>4

LEMMA LastSourced ==
    ASSUME NEW entries \in Seq(LogEntry), Sourced(entries)
    PROVE  SourcesOf(LastRows(entries)) \subseteq SlugsOf(entries)
<1>1. CASE entries = <<>>
  BY <1>1 DEF LastRows, SourcesOf
<1>2. CASE entries # <<>>
  <2>1. Len(entries) \in 1..Len(entries)
    BY <1>2
  <2> QED
    BY <1>2, <2>1 DEF LastRows, Sourced, SlugsOf
<1> QED
  BY <1>1, <1>2

LEMMA LastRowsAreRows ==
    ASSUME NEW entries \in Seq(LogEntry)
    PROVE  LastRows(entries) \in SUBSET Row
<1>1. entries # <<>> => entries[Len(entries)] \in LogEntry
  OBVIOUS
<1> QED
  BY <1>1 DEF LastRows, LogEntry

LEMMA PrefixSourced ==
    ASSUME NEW entries \in Seq(LogEntry), Sourced(entries),
           NEW n \in 0..Len(entries)
    PROVE  Sourced(SubSeq(entries, 1, n))
<1> DEFINE rest == SubSeq(entries, 1, n)
<1>1. /\ Len(rest) = n
      /\ \A i \in 1..n : rest[i] = entries[i] /\ i \in 1..Len(entries)
  OBVIOUS
<1>2. \A i \in 1..n : \A j \in 1..i : j \in 1..n
  OBVIOUS
<1> HIDE DEF rest
<1>3. ASSUME NEW i \in 1..n
      PROVE  SourcesOf(rest[i].rows) \subseteq {rest[j].slug : j \in 1..i}
  <2>1. {rest[j].slug : j \in 1..i} = {entries[j].slug : j \in 1..i}
    BY <1>1, <1>2
  <2> QED
    BY <1>1, <2>1 DEF Sourced
<1>4. Sourced(rest)
  BY <1>1, <1>3 DEF Sourced
<1> QED
  BY <1>4 DEF rest

LEMMA AppendSourced ==
    ASSUME NEW entries \in Seq(LogEntry), Sourced(entries),
           NEW entry \in LogEntry,
           SourcesOf(entry.rows) \subseteq SlugsOf(entries) \cup {entry.slug}
    PROVE  Sourced(Append(entries, entry))
<1> DEFINE new == Append(entries, entry)
           n == Len(entries)
<1>1. /\ n \in Nat /\ Len(new) = n + 1 /\ new[n + 1] = entry
      /\ \A i \in 1..n : new[i] = entries[i]
  OBVIOUS
<1>2. SlugsOf(entries) \cup {entry.slug} = {new[j].slug : j \in 1..(n + 1)}
  <2>1. 1..(n + 1) = (1..n) \cup {n + 1}
    BY <1>1
  <2> HIDE DEF new
  <2> QED
    BY <1>1, <2>1 DEF SlugsOf
<1>3. ASSUME NEW i \in 1..(n + 1)
      PROVE  SourcesOf(new[i].rows) \subseteq {new[j].slug : j \in 1..i}
  <2>1. CASE i = n + 1
    BY <1>1, <1>2, <2>1
  <2>2. CASE i # n + 1
    <3>1. i \in 1..n /\ \A j \in 1..i : j \in 1..n
      BY <1>1, <2>2
    <3> HIDE DEF new
    <3>2. new[i] = entries[i] /\ \A j \in 1..i : new[j] = entries[j]
      BY <1>1, <3>1
    <3>3. SourcesOf(entries[i].rows) \subseteq {entries[j].slug : j \in 1..i}
      BY <3>1 DEF Sourced
    <3>4. {entries[j].slug : j \in 1..i} = {new[j].slug : j \in 1..i}
      BY <3>2
    <3> QED
      BY <3>2, <3>3, <3>4
  <2> QED
    BY <2>1, <2>2
<1> HIDE DEF new, n
<1>4. Sourced(new)
  BY <1>1, <1>3 DEF Sourced
<1> QED
  BY <1>4 DEF new

----------------------------------------------------------------------------
(* Steps that leave the files, or most of them, alone.                     *)

LEMMA SameSettled ==
    ASSUME Settled, UNCHANGED <<unified, log, backup>>
    PROVE  Settled' /\ MergeLog' = MergeLog
BY DEF Settled, MergeLog, Readable, RowsIn

(* Where an operation knows nothing of the files but that they are settled. *)
Plain == {"idle", "parse", "parseWrite", "readParsed", "readUnified",
          "rollback", "unlink", "improve", "improveRun"}

LEMMA PlainState ==
    ASSUME NEW c \in Caller, pc'[c] \in Plain, Settled'
    PROVE  StateOf(c)'
BY DEF StateOf, Plain, Settled

LEMMA LeaveSettled ==
    ASSUME TypeInv, NEW c \in Caller, Leave(c), Settled'
    PROVE  StateOf(c)'
<1>1. pc'[c] \in Plain
  BY DEF Leave, TypeInv, TypeOK, Plain
<1> QED
  BY <1>1, PlainState

LEMMA StartSettled ==
    ASSUME TypeInv, NEW c \in Caller, Start(c), StateOf(c)
    PROVE  StateOf(c)'
<1>1. ASSUME NEW operation, NEW first \in Plain, NEW arguments,
             Enter(c, operation, first, arguments)
      PROVE  StateOf(c)'
  <2>1. pc'[c] = first /\ Settled /\ UNCHANGED <<unified, log, backup>>
    BY <1>1 DEF Enter, files, TypeInv, TypeOK, StateOf, Still
  <2> QED
    BY <2>1, SameSettled, PlainState
<1> QED
  BY <1>1
  DEF Start, StartParse, StartUnify, StartRollback, StartReset, StartImprove,
      Plain

LEMMA ParseSettled ==
    ASSUME TypeInv, NEW c \in Caller, StateOf(c),
           \/ ParseFails(c) \/ WriteParsed(c)
           \/ \E s \in Slug, words \in ParserOutput : ParseOne(c, s, words)
    PROVE  StateOf(c)'
<1>1. Settled /\ UNCHANGED <<unified, log, backup>>
  BY DEF ParseFails, WriteParsed, ParseOne, Throw, files, StateOf, Still
<1>2. pc'[c] \in {"idle", "parse", "parseWrite"}
  BY DEF ParseFails, WriteParsed, ParseOne, Throw, Leave, Continue,
         TypeInv, TypeOK
<1> QED
  BY <1>1, <1>2, SameSettled, PlainState DEF Plain

----------------------------------------------------------------------------
(* The steps of improve.                                                   *)

LEMMA ImproveSettled ==
    ASSUME FilesApart, TypeInv, NEW c \in Caller, StateOf(c),
           \/ Improve(c) \/ OpenImproved(c) \/ WriteImproved(c)
           \/ RecordImprove(c)
    PROVE  StateOf(c)'
<1>1. CASE Improve(c)
  <2>1. Settled' /\ MergeLog' = MergeLog /\ Settled
    BY <1>1, SameSettled DEF Improve, files, StateOf, Still
  <2>2. CASE Leave(c)
    BY <2>1, <2>2, LeaveSettled
  <2>3. CASE ~Leave(c)
    <3> DEFINE locals == [local[c] EXCEPT !.rows = CleanRows(unified)]
    <3>1. Readable(unified) /\ pc'[c] = "improveOpen" /\ local'[c] = locals
      BY <1>1, <2>3, MovedTo DEF Improve
    <3>2. local'[c].rows = CleanRows(RowsIn(unified))
      BY <3>1, LocalTyped DEF Local, RowsIn
    <3>3. SourcesOf(CleanRows(RowsIn(unified))) \subseteq SlugsOf(MergeLog)
      BY <2>1, FileTypes, CleanSources DEF Settled, TypeInv
    <3> HIDE DEF locals
    <3>4. /\ SourcesOf(local'[c].rows) \subseteq SlugsOf(MergeLog')
          /\ Sourced(MergeLog') /\ Torn \notin {backup', log'}
      BY <2>1, <3>2, <3>3 DEF Settled
    <3> QED
      BY <2>1, <3>1, <3>4 DEF StateOf
  <2> QED
    BY <2>2, <2>3
<1>2. CASE OpenImproved(c)
  <2>1. /\ pc[c] = "improveOpen" /\ pc'[c] = "improveWrite"
        /\ local'[c] = local[c] /\ UNCHANGED <<log, backup>>
    BY <1>2, MovedTo DEF OpenImproved
  <2>2. MergeLog' = MergeLog
    BY <2>1 DEF MergeLog, Readable
  <2> QED
    BY <2>1, <2>2 DEF StateOf, Still
<1>3. CASE WriteImproved(c)
  <2>1. /\ pc[c] = "improveWrite" /\ pc'[c] = "improveRun"
        /\ unified' = local[c].rows /\ UNCHANGED <<log, backup>>
    BY <1>3, MovedTo DEF WriteImproved
  <2>2. MergeLog' = MergeLog
    BY <2>1 DEF MergeLog, Readable
  <2>3. /\ unified' \in SUBSET Row
        /\ SourcesOf(unified') \subseteq SlugsOf(MergeLog)
    BY <2>1, LocalTyped DEF StateOf
  <2>4. unified' \notin {Absent, Torn} /\ RowsIn(unified)' = unified'
    BY <2>3 DEF FilesApart, RowsIn, Readable
  <2>5. Torn \notin {log, backup} /\ Sourced(MergeLog)
    BY <2>1 DEF StateOf
  <2>6. Settled'
    BY <2>1, <2>2, <2>3, <2>4, <2>5 DEF Settled
  <2> QED
    BY <2>1, <2>6, PlainState DEF Plain
<1>4. CASE RecordImprove(c)
  <2>1. Leave(c) /\ Settled /\ UNCHANGED <<unified, log, backup>>
    BY <1>4 DEF RecordImprove, Throw, files, StateOf, Still
  <2> QED
    BY <2>1, SameSettled, LeaveSettled
<1> QED
  BY <1>1, <1>2, <1>3, <1>4

----------------------------------------------------------------------------
(* The steps of unify-step.                                                *)

LEMMA ReadSettled ==
    ASSUME TypeInv, NEW c \in Caller, StateOf(c),
           ReadParsed(c) \/ ReadUnified(c) \/ ReadLog(c)
    PROVE  StateOf(c)'
<1>1. Settled /\ UNCHANGED <<unified, log, backup>>
  BY DEF ReadParsed, ReadUnified, ReadLog, files, StateOf, Still
<1>2. Settled' /\ MergeLog' = MergeLog
  BY <1>1, SameSettled
<1>3. CASE ReadParsed(c)
  <2>1. pc'[c] \in {"idle", "readUnified"}
    BY <1>3 DEF ReadParsed, Leave, Continue, TypeInv, TypeOK
  <2> QED
    BY <1>2, <2>1, PlainState DEF Plain
<1>4. CASE ReadUnified(c)
  <2>1. PICK kept \in OneRowPerKey(RowsIn(unified)) :
           Continue(c, "readLog",
                    [local[c] EXCEPT !.rows = kept,
                                     !.existing = SourcesOf(RowsIn(unified))])
    BY <1>4 DEF ReadUnified
  <2>2. pc'[c] = "readLog" /\ local'[c].rows = kept
    <3> DEFINE locals == [local[c] EXCEPT !.rows = kept,
                                !.existing = SourcesOf(RowsIn(unified))]
    <3>1. locals.rows = kept
      BY LocalTyped DEF Local
    <3> HIDE DEF locals
    <3>2. pc'[c] = "readLog" /\ local'[c] = locals
      BY <2>1, MovedTo DEF locals
    <3> QED
      BY <3>1, <3>2
  <2>3. SourcesOf(kept) \subseteq SlugsOf(MergeLog)
    BY <1>1 DEF Settled, OneRowPerKey, SourcesOf
  <2>4. Torn \notin {log', backup'}
    BY <1>2 DEF Settled
  <2> QED
    BY <1>2, <2>2, <2>3, <2>4 DEF StateOf
<1>5. CASE ReadLog(c)
  <2>1. CASE Leave(c)
    BY <1>2, <2>1, LeaveSettled
  <2>2. CASE ~Leave(c)
    <3> DEFINE merged == Merge(local[c].rows, local[c].slug, local[c].words)
               entry == [slug |-> local[c].slug, rows |-> merged]
               new == Append(MergeLog, entry)
    <3> DEFINE locals == [local[c] EXCEPT !.rows = merged, !.log = new]
    <3>1. pc[c] = "readLog" /\ pc'[c] = "save" /\ local'[c] = locals
      BY <1>5, <2>2, MovedTo DEF ReadLog
    <3>2. local'[c].log = new
      BY <3>1, LocalTyped DEF Local
    <3>3. /\ entry \in LogEntry
          /\ entry.rows = merged /\ entry.slug = local[c].slug
      BY LocalTyped, MergedAreRows DEF LogEntry
    <3>4. SourcesOf(local[c].rows) \subseteq SlugsOf(MergeLog)
      BY <3>1 DEF StateOf
    <3>5. SourcesOf(entry.rows) \subseteq SlugsOf(MergeLog) \cup {entry.slug}
      BY <3>3, <3>4, LocalTyped, MergeSources
    <3>6. Sourced(new)
      <4> HIDE DEF entry
      <4> QED
        BY <1>1, <3>3, <3>5, MergeLogTyped, AppendSourced DEF Settled
    <3> HIDE DEF new, locals
    <3>7. Torn \notin {log', backup'}
      BY <1>2 DEF Settled
    <3> QED
      BY <1>2, <3>1, <3>2, <3>6, <3>7 DEF StateOf
  <2> QED
    BY <2>1, <2>2
<1> QED
  BY <1>3, <1>4, <1>5

LEMMA SaveSettled ==
    ASSUME FilesApart, TypeInv, SnapshotInv, NEW c \in Caller, StateOf(c),
           Save(c) \/ SaveWrite(c) \/ Snap(c) \/ SnapWrite(c)
    PROVE  StateOf(c)'
<1>1. /\ UNCHANGED <<log, backup>>
      /\ pc[c] \in {"save", "saveWrite", "snap", "snapWrite"}
  BY DEF Save, SaveWrite, Snap, SnapWrite, Throw, files
<1>2. Sourced(local[c].log) /\ Torn \notin {log, backup}
  BY <1>1 DEF StateOf
<1>3. unified = Absent => pc[c] # "snap"
  BY SnapshotInvParts, LocalTyped DEF PendingOf, FilesApart
<1>4. /\ pc'[c] \in {"saveWrite", "snap", "snapWrite", "logOpen"}
      /\ local'[c] = local[c]
  BY <1>3, MovedTo DEF Save, SaveWrite, Snap, SnapWrite
<1>5. local[c].log # <<>>
  BY <1>1, LocalLogsOf
<1> QED
  BY <1>1, <1>2, <1>4, <1>5 DEF StateOf, Still

(* writeMergeLog: what the log then tells is what unified.json holds. *)
LEMMA LogSettled ==
    ASSUME FilesApart, TypeInv, SnapshotInv, NEW c \in Caller, StateOf(c),
           OpenLog(c) \/ WriteLog(c)
    PROVE  StateOf(c)'
<1>1. CASE OpenLog(c)
  <2>1. /\ pc[c] = "logOpen" /\ pc'[c] = "logWrite"
        /\ local'[c] = local[c] /\ UNCHANGED <<unified, backup>>
    BY <1>1, MovedTo DEF OpenLog
  <2> QED
    BY <2>1 DEF StateOf, Still
<1>2. CASE WriteLog(c)
  <2> DEFINE L == local[c].log
  <2>1. /\ pc[c] = "logWrite" /\ Leave(c) /\ log' = L
        /\ UNCHANGED <<unified, backup>>
    BY <1>2 DEF WriteLog
  <2>2. /\ L \in Seq(LogEntry) /\ Sourced(L) /\ backup # Torn
        /\ L = <<>> => unified = Absent
        /\ L # <<>> => unified = LastRows(L)
    BY <2>1, LocalTyped, SnapshotInvParts DEF StateOf, PendingOf
  <2> HIDE DEF L
  <2>3. MergeLog' = L /\ log' # Torn
    BY <2>1, <2>2 DEF MergeLog, Readable, FilesApart
  <2>4. LastRows(L) \in SUBSET Row
    BY <2>2, LastRowsAreRows
  <2>5. unified # Torn /\ (L # <<>> => unified # Absent)
    BY <2>2, <2>4 DEF FilesApart
  <2>6. RowsIn(unified) = LastRows(L)
    BY <2>2, <2>5 DEF RowsIn, Readable, LastRows
  <2>7. SourcesOf(LastRows(L)) \subseteq SlugsOf(L)
    BY <2>2, LastSourced
  <2>8. Settled'
    BY <2>1, <2>2, <2>3, <2>5, <2>6, <2>7 DEF Settled, RowsIn, Readable
  <2> QED
    BY <2>1, <2>8, LeaveSettled
<1> QED
  BY <1>1, <1>2

----------------------------------------------------------------------------
(* The steps of rollback and of reset.                                     *)

LEMMA RollbackSettled ==
    ASSUME FilesApart, Faults = {}, TypeInv, SnapshotInv,
           NEW c \in Caller, StateOf(c),
           \/ ReadRollbackLog(c) \/ Backup(c) \/ Restore(c) \/ RestoreWrite(c)
    PROVE  StateOf(c)'
<1>1. CASE ReadRollbackLog(c)
  <2>1. Settled /\ Settled' /\ MergeLog' = MergeLog /\ UNCHANGED unified
    BY <1>1, SameSettled DEF ReadRollbackLog, files, StateOf, Still
  <2>2. CASE Leave(c)
    BY <2>1, <2>2, LeaveSettled
  <2>3. CASE ~Leave(c)
    <3> DEFINE n == local[c].step
               rest == SubSeq(MergeLog, 1, n)
               locals == [local[c] EXCEPT !.log = rest]
    <3>1. /\ n \in 0..Len(MergeLog)
          /\ pc'[c] = "backup" /\ local'[c] = locals
      BY <1>1, <2>3, MovedTo DEF ReadRollbackLog
    <3>2. local'[c].log = rest
      BY <3>1, LocalTyped DEF Local
    <3>3. Sourced(rest) /\ (rest # <<>> => MergeLog # <<>>)
      <4> HIDE DEF n
      <4>1. Sourced(rest)
        BY <2>1, <3>1, MergeLogTyped, PrefixSourced DEF Settled
      <4>2. MergeLog = <<>> => n = 0
        BY <3>1
      <4> QED
        BY <4>1, <4>2
    <3> HIDE DEF n, rest, locals
    <3>4. /\ Torn \notin {log', backup'}
          /\ rest # <<>> => unified' # Absent
      BY <2>1, <3>3 DEF Settled
    <3> QED
      BY <2>1, <3>1, <3>2, <3>3, <3>4 DEF StateOf
  <2> QED
    BY <2>2, <2>3
<1>2. CASE Backup(c)
  <2>1. /\ pc[c] = "backup" /\ pc'[c] = "restore" /\ local'[c] = local[c]
        /\ UNCHANGED <<unified, log>>
        /\ backup' = IF unified = Absent THEN backup ELSE unified
    BY <1>2, MovedTo DEF Backup
  <2>2. Settled /\ MergeLog' = MergeLog /\ Torn \notin {unified, log, backup}
    BY <2>1 DEF StateOf, Still, Settled, MergeLog, Readable
  <2>3. backup' # Torn
    BY <2>1, <2>2
  <2>4. Settled'
    BY <2>1, <2>2, <2>3 DEF Settled, RowsIn, Readable
  <2> QED
    BY <2>1, <2>2, <2>3, <2>4 DEF StateOf
<1>3. CASE Restore(c)
  <2>1. pc[c] = "restore" /\ Settled /\ UNCHANGED <<log, backup>>
    BY <1>3 DEF Restore, StateOf, Still
  <2>2. CASE Leave(c)
    <3>1. ~\E next, locals : next # "idle" /\ Continue(c, next, locals)
      BY <2>2 DEF Leave, Continue, TypeInv, TypeOK
    <3>2. UNCHANGED unified
      BY <1>3, <3>1 DEF Restore
    <3> QED
      BY <2>1, <2>2, <3>2, SameSettled, LeaveSettled
  <2>3. CASE ~Leave(c)
    <3>1. /\ pc'[c] = IF local[c].step = 0 THEN "logOpen" ELSE "restoreWrite"
          /\ local'[c] = local[c]
          /\ local[c].step = 0 => unified' = Absent
      BY <1>3, <2>3, MovedTo DEF Restore
    <3>2. local[c].step # 0 => local[c].log # <<>>
      BY <2>1, LocalTyped, LocalLogsOf
    <3>3. Sourced(local[c].log) /\ Torn \notin {log, backup}
      BY <2>1 DEF StateOf, Settled
    <3> QED
      BY <2>1, <3>1, <3>2, <3>3 DEF StateOf, Still
  <2> QED
    BY <2>2, <2>3
<1>4. CASE RestoreWrite(c)
  <2>1. /\ pc[c] = "restoreWrite" /\ pc'[c] = "logOpen"
        /\ local'[c] = local[c] /\ UNCHANGED <<log, backup>>
    BY <1>4, MovedTo DEF RestoreWrite
  <2>2. local[c].log # <<>> /\ Sourced(local[c].log)
        /\ Torn \notin {log, backup}
    BY <2>1, LocalLogsOf DEF StateOf
  <2> QED
    BY <2>1, <2>2 DEF StateOf, Still
<1> QED
  BY <1>1, <1>2, <1>3, <1>4

LEMMA ResetSettled ==
    ASSUME FilesApart, Faults = {}, TypeInv, NEW c \in Caller, StateOf(c),
           Unlink(c) \/ RemoveFile(c) \/ EndReset(c)
    PROVE  StateOf(c)'
<1>1. CASE Unlink(c)
  <2>1. /\ pc[c] = "unlink" /\ pc'[c] = "rmdir"
        /\ unified' = Absent /\ UNCHANGED <<log, backup>>
    BY <1>1, MovedTo DEF Unlink
  <2> QED
    BY <2>1 DEF StateOf, Still
<1>2. CASE RemoveFile(c)
  <2>1. /\ pc[c] = "rmdir" /\ pc'[c] = "rmdir" /\ UNCHANGED unified
        /\ log' \in {log, Absent} /\ backup' \in {backup, Absent}
    BY <1>2 DEF RemoveFile
  <2> QED
    BY <2>1 DEF StateOf, Still, FilesApart
<1>3. CASE EndReset(c)
  <2>1. /\ pc[c] = "rmdir" /\ Leave(c) /\ UNCHANGED <<unified, log, backup>>
        /\ log = Absent /\ backup = Absent
    BY <1>3 DEF EndReset, Throw, files
  <2>2. unified = Absent /\ MergeLog = <<>>
    BY <2>1 DEF StateOf, MergeLog, Readable
  <2>3. Settled
    BY <2>1, <2>2
    DEF Settled, FilesApart, SourcesOf, RowsIn, Readable, Sourced
  <2> QED
    BY <2>1, <2>3, SameSettled, LeaveSettled
<1> QED
  BY <1>1, <1>2, <1>3

----------------------------------------------------------------------------
(* The invariant.                                                          *)

LEMMA StepSettled ==
    ASSUME FilesApart, Faults = {}, TypeInv, SnapshotInv,
           NEW c \in Caller, StateOf(c), Start(c) \/ Step(c) \/ Abort(c)
    PROVE  StateOf(c)'
<1>1. ~Abort(c)
  BY DEF Abort
<1> QED
  BY <1>1, StartSettled, ParseSettled, ImproveSettled, ReadSettled,
     SaveSettled, LogSettled, RollbackSettled, ResetSettled
  DEF Step

(* Whoever moves is alone, before the step and after it. *)
LEMMA MovesAlone ==
    ASSUME OneHome, LockHeld, NEW c \in Caller, Moved(c)
    PROVE  Alone(c) /\ Alone(c)'
<1>1. ASSUME NEW d \in Caller \ {c}
      PROVE  pc[d] = "idle" /\ pc'[d] = "idle"
  BY DEF OneHome, LockHeld, OneAtATime, Moved
<1> QED
  BY <1>1 DEF Alone

(* The state of the files as the one operation in flight knows it. *)
LEMMA IdleSettled ==
    ASSUME NEW c \in Caller, pc[c] = "idle"
    PROVE  StateOf(c) <=> Settled
BY DEF StateOf, Still, Settled

LEMMA NextSettled ==
    ASSUME OneHome, FilesApart, Faults = {}
    PROVE  TypeInv /\ LockHeld /\ SnapshotInv /\ SoundInv /\ [Next]_vars
              => SoundInv'
<1> SUFFICES ASSUME TypeInv, LockHeld, SnapshotInv, SoundInv, [Next]_vars
             PROVE  SoundInv'
  OBVIOUS
<1>1. CASE UNCHANGED vars
  <2>1. /\ Settled' <=> Settled
        /\ \A c \in Caller : StateOf(c)' <=> StateOf(c)
    BY <1>1
    DEF vars, files, StateOf, Settled, MergeLog, Readable, RowsIn
  <2> QED
    BY <1>1, <2>1 DEF SoundInv, Alone, AtRest, vars
<1>2. ASSUME NEW c \in Caller, Start(c) \/ Step(c) \/ Abort(c)
      PROVE  SoundInv'
  <2>1. Alone(c) /\ Alone(c)'
    BY <1>2, StepMoved, MovesAlone
  <2>2. StateOf(c)'
    BY <1>2, <2>1, StepSettled DEF SoundInv
  <2>3. ASSUME NEW d \in Caller, Alone(d)'
        PROVE  StateOf(d)'
    <3>1. CASE d = c
      BY <2>2, <3>1
    <3>2. CASE d # c
      <4>1. pc'[c] = "idle" /\ pc'[d] = "idle"
        BY <2>1, <2>3, <3>2 DEF Alone
      <4>2. Settled'
        BY <2>2, <4>1 DEF StateOf, Still
      <4> QED
        BY <4>1, <4>2, PlainState DEF Plain
    <3> QED
      BY <3>1, <3>2
  <2>4. AtRest' => Settled'
    BY <2>2 DEF AtRest, StateOf, Still
  <2> QED
    BY <2>3, <2>4 DEF SoundInv
<1>3. ASSUME NEW p \in Process, Crash(p)
      PROVE  SoundInv'
  BY <1>3 DEF Crash
<1> QED
  BY <1>1, <1>2, <1>3 DEF Next

LEMMA AlwaysSettled ==
    ASSUME OneHome, FilesApart, Faults = {}
    PROVE  Spec => []SoundInv
<1>1. Init => SoundInv
  <2> SUFFICES ASSUME Init PROVE SoundInv
    OBVIOUS
  <2>1. MergeLog = <<>> /\ RowsIn(unified) = {}
    BY DEF Init, MergeLog, RowsIn, Readable
  <2>2. Settled
    BY <2>1
    DEF Init, Settled, FilesApart, SourcesOf, Sourced
  <2>3. \A c \in Caller : pc[c] = "idle"
    BY DEF Init
  <2> QED
    BY <2>2, <2>3, IdleSettled DEF SoundInv
<1>2. TypeInv /\ LockHeld /\ SnapshotInv /\ SoundInv /\ [Next]_vars
         => SoundInv'
  BY NextSettled
<1>3. Spec => []SnapshotInv
  BY AlwaysIntact
<1> QED
  BY <1>1, <1>2, <1>3, AlwaysTyped, AlwaysLocked, PTL DEF Spec

(* Every dictionary found in unified.json is one the log lists, so the     *)
(* status and the list of steps do not offer it again.                     *)
THEOREM SourcesAreLogged ==
    ASSUME \A c, d \in Caller : Home[c] = Home[d],
           FilesApart, Faults = {}
    PROVE  Spec => []EverySourceLogged
<1>1. OneHome
  BY DEF OneHome
<1>2. TypeInv /\ SoundInv => EverySourceLogged
  <2> SUFFICES ASSUME TypeInv, SoundInv, AtRest
               PROVE  SourcesOf(RowsIn(unified)) \subseteq
                         {MergeLog[i].slug : i \in DOMAIN MergeLog}
    BY DEF EverySourceLogged
  <2>1. SourcesOf(RowsIn(unified)) \subseteq SlugsOf(MergeLog)
    BY DEF SoundInv, Settled
  <2>2. DOMAIN MergeLog = 1..Len(MergeLog)
    BY MergeLogTyped
  <2> QED
    BY <2>1, <2>2 DEF SlugsOf
<1>3. Spec => []SoundInv
  BY <1>1, AlwaysSettled
<1> QED
  BY <1>2, <1>3, AlwaysTyped, PTL

(* Rollback destroys nothing: it overwrites or deletes unified.json only   *)
(* once the backup it reports holds what was there.                        *)
THEOREM RollbackIsReversible ==
    ASSUME \A c, d \in Caller : Home[c] = Home[d],
           FilesApart, Faults = {}
    PROVE  Spec => RollbackKeepsBackup
<1> DEFINE Kept ==
       \A c \in Caller :
          pc[c] = "restore" /\ unified' # unified => backup = unified
<1>1. OneHome
  BY DEF OneHome
<1>2. TypeInv /\ LockHeld /\ SoundInv /\ [Next]_vars => [Kept]_vars
  <2> SUFFICES ASSUME TypeInv, LockHeld, SoundInv, Next,
                      NEW c \in Caller, pc[c] = "restore", unified' # unified
               PROVE  backup = unified
    BY DEF vars, files
  <2>1. PICK d \in Caller : Start(d) \/ Step(d) \/ Abort(d)
    BY DEF Next, Crash
  <2>2. Alone(d)
    BY <1>1, <2>1, StepMoved, MovesAlone
  <2>3. d = c
    BY <2>2 DEF Alone
  <2>4. StateOf(c)
    BY <2>2, <2>3 DEF SoundInv
  <2>5. Restore(c)
    BY <2>1, <2>3
    DEF Start, StartParse, StartUnify, StartRollback, StartReset,
        StartImprove, Enter, Step, Abort, Throw, files, ParseFails,
        WriteParsed, ParseOne, ReadParsed, ReadUnified, ReadLog, Save,
        SaveWrite, Snap, SnapWrite, OpenLog, WriteLog, ReadRollbackLog,
        Backup, RestoreWrite, Unlink, RemoveFile, EndReset, Improve,
        OpenImproved, WriteImproved, RecordImprove
  <2>6. unified # Absent
    <3>1. CASE local[c].step = 0
      BY <2>5, <3>1 DEF Restore
    <3>2. CASE local[c].step # 0
      <4>1. local[c].log # <<>>
        BY <3>2, LocalTyped, LocalLogsOf
      <4> QED
        BY <2>4, <4>1 DEF StateOf
    <3> QED
      BY <3>1, <3>2
  <2> QED
    BY <2>4, <2>6 DEF StateOf
<1>3. Spec => []SoundInv
  BY <1>1, AlwaysSettled
<1> QED
  BY <1>2, <1>3, AlwaysTyped, AlwaysLocked, PTL DEF Spec, RollbackKeepsBackup

----------------------------------------------------------------------------
(* The refinement. *)

(* What the operation of c has read, and what it is about to write.        *)
PlanOf(c) ==
    /\ pc[c] \in {"parseWrite", "readUnified", "readLog"}
          => local[c].words \in ParserOutput
    /\ pc[c] = "readLog"
          => /\ local[c].rows \in OneRowPerKey(RowsIn(unified))
             /\ local[c].existing = SourcesOf(RowsIn(unified))
    /\ pc[c] = "save"
          => /\ local[c].slug \notin SourcesOf(RowsIn(unified))
             /\ \E words \in ParserOutput,
                   base \in OneRowPerKey(RowsIn(unified)) :
                      local[c].rows = Merge(base, local[c].slug, words)
             /\ local[c].log = Append(MergeLog, [slug |-> local[c].slug,
                                                 rows |-> local[c].rows])
    /\ pc[c] \in {"backup", "restore"}
          => /\ local[c].step \in 0..Len(MergeLog)
             /\ local[c].log = SubSeq(MergeLog, 1, local[c].step)
    /\ pc[c] = "improveOpen"
          => local[c].rows = CleanRows(RowsIn(unified))

(* Parsed files hold what a parser returned. *)
ParsedByParser ==
    \A s \in Slug : parsed[s] \in ParserOutput \cup {Absent, Torn}

PlanInv == ParsedByParser /\ \A c \in Caller : PlanOf(c)

(* The refinement mapping, when only c has an operation in flight. *)
CurrentOf(c) ==
    IF pc[c] \in {"saveWrite", "improveWrite"} THEN local[c].rows
    ELSE IF pc[c] = "restoreWrite" THEN LastRows(local[c].log)
    ELSE RowsIn(unified)

HistoryOf(c) ==
    IF pc[c] \in LogPending THEN local[c].log
    ELSE IF pc[c] = "rmdir" THEN <<>>
    ELSE MergeLog

----------------------------------------------------------------------------
(* PlanInv is inductive when one process runs the pipeline.                *)

(* Where an operation plans nothing. *)
LEMMA NoPlan ==
    ASSUME NEW c \in Caller,
           pc'[c] \notin {"parseWrite", "readUnified", "readLog", "save",
                         "backup", "restore", "improveOpen"}
    PROVE  PlanOf(c)'
BY DEF PlanOf

LEMMA LeaveNoPlan ==
    ASSUME TypeInv, NEW c \in Caller, Leave(c)
    PROVE  PlanOf(c)'
<1>1. pc'[c] = "idle"
  BY DEF Leave, TypeInv, TypeOK
<1> QED
  BY <1>1, NoPlan

LEMMA ParsePlanned ==
    ASSUME TypeInv, ParsedByParser, NEW c \in Caller, PlanOf(c),
           \/ ParseFails(c) \/ WriteParsed(c)
           \/ \E s \in Slug, words \in ParserOutput : ParseOne(c, s, words)
    PROVE  ParsedByParser' /\ PlanOf(c)'
<1>1. CASE ParseFails(c)
  BY <1>1, LeaveNoPlan DEF ParseFails, Throw, files, ParsedByParser
<1>2. CASE WriteParsed(c)
  <2>1. local[c].words \in ParserOutput
    BY <1>2 DEF WriteParsed, PlanOf
  <2>2. ParsedByParser'
    BY <1>2, <2>1 DEF WriteParsed, ParsedByParser, TypeInv, TypeOK
  <2>3. pc'[c] \in {"idle", "parse"}
    BY <1>2 DEF WriteParsed, Leave, Continue, TypeInv, TypeOK
  <2> QED
    BY <2>2, <2>3, NoPlan
<1>3. ASSUME NEW s \in Slug, NEW words \in ParserOutput, ParseOne(c, s, words)
      PROVE  ParsedByParser' /\ PlanOf(c)'
  <2> DEFINE locals == [local[c] EXCEPT !.slug = s, !.words = words,
                                        !.todo = @ \ {s}]
  <2>1. pc'[c] = "parseWrite" /\ local'[c] = locals
    BY <1>3, MovedTo DEF ParseOne
  <2>2. locals.words = words
    BY LocalTyped DEF Local
  <2>3. ParsedByParser'
    BY <1>3 DEF ParseOne, ParsedByParser, TypeInv, TypeOK
  <2> HIDE DEF locals
  <2> QED
    BY <2>1, <2>2, <2>3 DEF PlanOf
<1> QED
  BY <1>1, <1>2, <1>3

LEMMA ReadPlanned ==
    ASSUME TypeInv, ParsedByParser, NEW c \in Caller, PlanOf(c),
           ReadParsed(c) \/ ReadUnified(c) \/ ReadLog(c)
    PROVE  PlanOf(c)'
<1>1. CASE Leave(c)
  BY <1>1, LeaveNoPlan
<1>2. CASE ReadParsed(c) /\ ~Leave(c)
  <2> DEFINE file == parsed[local[c].slug]
             locals == [local[c] EXCEPT !.words = file]
  <2>1. Readable(file) /\ pc'[c] = "readUnified" /\ local'[c] = locals
    BY <1>2, MovedTo DEF ReadParsed
  <2>2. locals.words = file
    BY LocalTyped DEF Local
  <2>3. file \in ParserOutput
    BY <2>1, LocalTyped DEF ParsedByParser, Readable
  <2> HIDE DEF file, locals
  <2> QED
    BY <2>1, <2>2, <2>3 DEF PlanOf
<1>3. CASE ReadUnified(c) /\ ~Leave(c)
  <2>1. PICK kept \in OneRowPerKey(RowsIn(unified)) :
           Continue(c, "readLog",
                    [local[c] EXCEPT !.rows = kept,
                                     !.existing = SourcesOf(RowsIn(unified))])
    BY <1>3 DEF ReadUnified
  <2> DEFINE sources == SourcesOf(RowsIn(unified))
             locals == [local[c] EXCEPT !.rows = kept, !.existing = sources]
  <2>2. pc'[c] = "readLog" /\ local'[c] = locals
    BY <2>1, MovedTo
  <2>3. /\ locals.rows = kept /\ locals.existing = sources
        /\ locals.words = local[c].words
    <3> HIDE DEF sources
    <3> QED
      BY LocalTyped DEF Local
  <2>4. local[c].words \in ParserOutput
    BY <1>3 DEF ReadUnified, PlanOf
  <2>5. RowsIn(unified)' = RowsIn(unified)
    BY <1>3 DEF ReadUnified, files, RowsIn, Readable
  <2> HIDE DEF locals
  <2> QED
    BY <2>2, <2>3, <2>4, <2>5 DEF PlanOf
<1>4. CASE ReadLog(c) /\ ~Leave(c)
  <2> DEFINE s == local[c].slug
             merged == Merge(local[c].rows, s, local[c].words)
             new == Append(MergeLog, [slug |-> s, rows |-> merged])
             locals == [local[c] EXCEPT !.rows = merged, !.log = new]
  <2>1. /\ pc[c] = "readLog" /\ pc'[c] = "save" /\ local'[c] = locals
        /\ s \notin local[c].existing
    BY <1>4, MovedTo DEF ReadLog
  <2>2. locals.rows = merged /\ locals.log = new /\ locals.slug = s
    <3> HIDE DEF merged, new
    <3> QED
      BY LocalTyped DEF Local
  <2>3. /\ local[c].words \in ParserOutput
        /\ local[c].rows \in OneRowPerKey(RowsIn(unified))
        /\ s \notin SourcesOf(RowsIn(unified))
    BY <2>1 DEF PlanOf
  <2>4. RowsIn(unified)' = RowsIn(unified) /\ MergeLog' = MergeLog
    BY <1>4 DEF ReadLog, files, RowsIn, MergeLog, Readable
  <2>5. \E words \in ParserOutput, base \in OneRowPerKey(RowsIn(unified)) :
           merged = Merge(base, s, words)
    BY <2>3
  <2> HIDE DEF locals, merged, s
  <2> QED
    BY <2>1, <2>2, <2>3, <2>4, <2>5 DEF PlanOf
<1> QED
  BY <1>1, <1>2, <1>3, <1>4

LEMMA RollbackImprovePlanned ==
    ASSUME TypeInv, NEW c \in Caller, PlanOf(c),
           ReadRollbackLog(c) \/ Backup(c) \/ Improve(c)
    PROVE  PlanOf(c)'
<1>1. CASE Leave(c)
  BY <1>1, LeaveNoPlan
<1>2. CASE ReadRollbackLog(c) /\ ~Leave(c)
  <2> DEFINE n == local[c].step
             rest == SubSeq(MergeLog, 1, n)
             locals == [local[c] EXCEPT !.log = rest]
  <2>1. /\ n \in 0..Len(MergeLog)
        /\ pc'[c] = "backup" /\ local'[c] = locals
    BY <1>2, MovedTo DEF ReadRollbackLog
  <2>2. locals.log = rest /\ locals.step = n
    <3> HIDE DEF rest
    <3> QED
      BY LocalTyped DEF Local
  <2>3. MergeLog' = MergeLog
    BY <1>2 DEF ReadRollbackLog, files, MergeLog, Readable
  <2> HIDE DEF n, locals
  <2> QED
    BY <2>1, <2>2, <2>3 DEF PlanOf
<1>3. CASE Backup(c)
  <2>1. /\ pc[c] = "backup" /\ pc'[c] = "restore" /\ local'[c] = local[c]
        /\ UNCHANGED log
    BY <1>3, MovedTo DEF Backup
  <2>2. MergeLog' = MergeLog
    BY <2>1 DEF MergeLog, Readable
  <2> QED
    BY <2>1, <2>2 DEF PlanOf
<1>4. CASE Improve(c) /\ ~Leave(c)
  <2> DEFINE rows == CleanRows(unified)
             locals == [local[c] EXCEPT !.rows = rows]
  <2>1. /\ Readable(unified) /\ UNCHANGED unified
        /\ pc'[c] = "improveOpen" /\ local'[c] = locals
    BY <1>4, MovedTo DEF Improve, files
  <2>2. locals.rows = rows
    <3> HIDE DEF rows
    <3> QED
      BY LocalTyped DEF Local
  <2>3. RowsIn(unified)' = unified
    BY <2>1 DEF RowsIn, Readable
  <2> HIDE DEF locals
  <2> QED
    BY <2>1, <2>2, <2>3 DEF PlanOf
<1> QED
  BY <1>1, <1>2, <1>3, <1>4

LEMMA StartPlanned ==
    ASSUME TypeInv, ParsedByParser, NEW c \in Caller, Start(c)
    PROVE  ParsedByParser' /\ PlanOf(c)'
<1>1. ASSUME NEW operation, NEW first, NEW arguments,
             Enter(c, operation, first, arguments),
             first \in {"parse", "readParsed", "rollback", "unlink", "improve"}
      PROVE  ParsedByParser' /\ PlanOf(c)'
  <2>1. pc'[c] = first /\ UNCHANGED parsed
    BY <1>1 DEF Enter, files, TypeInv, TypeOK
  <2> QED
    BY <1>1, <2>1, NoPlan DEF ParsedByParser
<1> QED
  BY <1>1
  DEF Start, StartParse, StartUnify, StartRollback, StartReset, StartImprove

LEMMA StepPlanned ==
    ASSUME TypeInv, ParsedByParser, NEW c \in Caller, PlanOf(c),
           Start(c) \/ Step(c) \/ Abort(c)
    PROVE  ParsedByParser' /\ PlanOf(c)'
<1> DEFINE Writes ==
       \/ Save(c) \/ SaveWrite(c) \/ Snap(c) \/ SnapWrite(c)
       \/ OpenLog(c) \/ WriteLog(c) \/ Restore(c) \/ RestoreWrite(c)
       \/ Unlink(c) \/ RemoveFile(c) \/ EndReset(c)
       \/ OpenImproved(c) \/ WriteImproved(c) \/ RecordImprove(c) \/ Abort(c)
<1>1. CASE Writes
  <2>1. UNCHANGED parsed
    BY <1>1
    DEF Save, SaveWrite, Snap, SnapWrite, OpenLog, WriteLog, Restore,
        RestoreWrite, Unlink, RemoveFile, EndReset, OpenImproved,
        WriteImproved, RecordImprove, Abort, Throw, files
  <2>2. \/ Leave(c) \/ pc'[c] = "rmdir"
        \/ \E next \in {"saveWrite", "snap", "snapWrite", "logOpen",
                        "logWrite", "restoreWrite", "rmdir", "improveWrite",
                        "improveRun"} :
              Continue(c, next, local[c])
    BY <1>1
    DEF Save, SaveWrite, Snap, SnapWrite, OpenLog, WriteLog, Restore,
        RestoreWrite, Unlink, RemoveFile, EndReset, OpenImproved,
        WriteImproved, RecordImprove, Abort, Throw
  <2> QED
    BY <2>1, <2>2, LeaveNoPlan, NoPlan, MovedTo DEF ParsedByParser
<1>2. CASE ReadParsed(c) \/ ReadUnified(c) \/ ReadLog(c)
  BY <1>2, ReadPlanned
  DEF ReadParsed, ReadUnified, ReadLog, files, ParsedByParser
<1>3. CASE ReadRollbackLog(c) \/ Backup(c) \/ Improve(c)
  BY <1>3, RollbackImprovePlanned
  DEF ReadRollbackLog, Backup, Improve, files, ParsedByParser
<1> QED
  BY <1>1, <1>2, <1>3, StartPlanned, ParsePlanned DEF Step

LEMMA NextPlanned ==
    ASSUME OneHome
    PROVE  TypeInv /\ LockHeld /\ PlanInv /\ [Next]_vars => PlanInv'
<1> SUFFICES ASSUME TypeInv, LockHeld, PlanInv, [Next]_vars
             PROVE  PlanInv'
  OBVIOUS
<1>1. CASE UNCHANGED vars
  BY <1>1
  DEF vars, files, PlanInv, ParsedByParser, PlanOf, MergeLog, RowsIn, Readable
<1>2. ASSUME NEW c \in Caller, Start(c) \/ Step(c) \/ Abort(c)
      PROVE  PlanInv'
  <2>1. ParsedByParser' /\ PlanOf(c)'
    BY <1>2, StepPlanned DEF PlanInv
  <2>2. ASSUME NEW d \in Caller \ {c}
        PROVE  PlanOf(d)'
    <3>1. pc'[d] = "idle"
      BY <1>2, StepMoved, MovesAlone DEF Alone
    <3> QED
      BY <3>1, NoPlan
  <2> QED
    BY <2>1, <2>2 DEF PlanInv
<1>3. ASSUME NEW p \in Process, Crash(p)
      PROVE  PlanInv'
  <2>1. UNCHANGED files
    BY <1>3 DEF Crash
  <2>2. /\ ParsedByParser' /\ MergeLog' = MergeLog
        /\ RowsIn(unified)' = RowsIn(unified)
    BY <2>1 DEF files, PlanInv, ParsedByParser, MergeLog, RowsIn, Readable
  <2>3. ASSUME NEW c \in Caller
        PROVE  PlanOf(c)'
    <3>1. \/ pc'[c] = "idle"
          \/ pc'[c] = pc[c] /\ local'[c] = local[c]
      <4>1. CASE Home[c] = p
        BY <1>3, <4>1 DEF Crash
      <4>2. CASE Home[c] # p
        BY <1>3, <4>2 DEF Crash
      <4> QED
        BY <4>1, <4>2
    <3> QED
      BY <2>2, <3>1, NoPlan DEF PlanInv, PlanOf
  <2> QED
    BY <2>2, <2>3 DEF PlanInv
<1> QED
  BY <1>1, <1>2, <1>3 DEF Next

LEMMA AlwaysPlanned ==
    ASSUME OneHome
    PROVE  Spec => []PlanInv
<1>1. Init => PlanInv
  <2> SUFFICES ASSUME Init PROVE PlanInv
    OBVIOUS
  <2>1. ParsedByParser
    BY WordAssumption DEF Init, ParsedByParser
  <2>2. ASSUME NEW c \in Caller
        PROVE  PlanOf(c)
    BY DEF Init, PlanOf
  <2> QED
    BY <2>1, <2>2 DEF PlanInv
<1>2. TypeInv /\ LockHeld /\ PlanInv /\ [Next]_vars => PlanInv'
  BY NextPlanned
<1> QED
  BY <1>1, <1>2, AlwaysTyped, AlwaysLocked, PTL DEF Spec

----------------------------------------------------------------------------
(* Every step maps to a step of MergeHistory or to none.                   *)

LEMMA MappingOf ==
    ASSUME NEW c \in Caller, Alone(c)
    PROVE  AbstractCurrent = CurrentOf(c) /\ AbstractHistory = HistoryOf(c)
<1>1. ASSUME NEW places, "idle" \notin places
      PROVE  /\ (\E d \in Caller : pc[d] \in places) <=> pc[c] \in places
             /\ pc[c] \in places
                  => (CHOOSE d \in Caller : pc[d] \in places) = c
  BY <1>1 DEF Alone
<1>2. /\ "idle" \notin {"saveWrite", "improveWrite"}
      /\ "idle" \notin {"restoreWrite"}
      /\ "idle" \notin {"rmdir"}
      /\ "idle" \notin LogPending
  BY DEF LogPending
<1>3. AbstractCurrent = CurrentOf(c)
  BY <1>1, <1>2 DEF AbstractCurrent, CurrentOf, At
<1>4. AbstractHistory = HistoryOf(c)
  BY <1>1, <1>2 DEF AbstractHistory, HistoryOf, At
<1> QED
  BY <1>3, <1>4

LEMMA MappingOfNext ==
    ASSUME NEW c \in Caller, Alone(c)'
    PROVE  AbstractCurrent' = CurrentOf(c)' /\ AbstractHistory' = HistoryOf(c)'
<1>1. ASSUME NEW places, "idle" \notin places
      PROVE  /\ (\E d \in Caller : pc'[d] \in places) <=> pc'[c] \in places
             /\ pc'[c] \in places
                  => (CHOOSE d \in Caller : pc'[d] \in places) = c
  BY <1>1 DEF Alone
<1>2. /\ "idle" \notin {"saveWrite", "improveWrite"}
      /\ "idle" \notin {"restoreWrite"}
      /\ "idle" \notin {"rmdir"}
      /\ "idle" \notin LogPending
  BY DEF LogPending
<1>3. AbstractCurrent' = CurrentOf(c)'
  BY <1>1, <1>2 DEF AbstractCurrent, CurrentOf, At
<1>4. AbstractHistory' = HistoryOf(c)'
  BY <1>1, <1>2 DEF AbstractHistory, HistoryOf, At
<1> QED
  BY <1>3, <1>4

(* The abstract step of c, or none. *)
Stutters(c) == CurrentOf(c)' = CurrentOf(c) /\ HistoryOf(c)' = HistoryOf(c)

Adds(c) ==
    \E s \in Slug, words \in ParserOutput :
        /\ s \notin SourcesOf(CurrentOf(c))
        /\ \E base \in OneRowPerKey(CurrentOf(c)) :
              CurrentOf(c)' = Merge(base, s, words)
        /\ HistoryOf(c)' = Append(HistoryOf(c),
                                  [slug |-> s, rows |-> CurrentOf(c)'])

RollsBack(c) ==
    \E n \in 0..Len(HistoryOf(c)) :
        /\ CurrentOf(c)' = IF n = 0 THEN {} ELSE HistoryOf(c)[n].rows
        /\ HistoryOf(c)' = SubSeq(HistoryOf(c), 1, n)

Resets(c) == CurrentOf(c)' = {} /\ HistoryOf(c)' = <<>>

Improves(c) ==
    CurrentOf(c)' = CleanRows(CurrentOf(c)) /\ HistoryOf(c)' = HistoryOf(c)

Maps(c) == Stutters(c) \/ Adds(c) \/ RollsBack(c) \/ Resets(c) \/ Improves(c)

(* Where nothing is pending, the mapping is what the files hold. *)
LEMMA UnpendingMapping ==
    ASSUME NEW c \in Caller
    PROVE  /\ pc[c] \in Still
                => CurrentOf(c) = RowsIn(unified) /\ HistoryOf(c) = MergeLog
           /\ pc'[c] \in Still
                => /\ CurrentOf(c)' = RowsIn(unified)'
                   /\ HistoryOf(c)' = MergeLog'
BY DEF Still, CurrentOf, HistoryOf, LogPending

LEMMA QuietMaps ==
    ASSUME NEW c \in Caller, pc[c] \in Still, pc'[c] \in Still,
           UNCHANGED <<unified, log>>
    PROVE  Stutters(c)
<1>1. RowsIn(unified)' = RowsIn(unified) /\ MergeLog' = MergeLog
  BY DEF RowsIn, MergeLog, Readable
<1> QED
  BY <1>1, UnpendingMapping DEF Stutters

LEMMA QuietStepMaps ==
    ASSUME TypeInv, NEW c \in Caller,
           \/ Start(c)
           \/ ParseFails(c) \/ WriteParsed(c)
           \/ \E s \in Slug, words \in ParserOutput : ParseOne(c, s, words)
           \/ ReadParsed(c) \/ ReadUnified(c) \/ ReadLog(c)
           \/ ReadRollbackLog(c) \/ Backup(c)
           \/ Improve(c) \/ RecordImprove(c)
    PROVE  Stutters(c)
<1>1. pc[c] \in Still /\ UNCHANGED <<unified, log>>
  BY DEF Start, StartParse, StartUnify, StartRollback, StartReset,
         StartImprove, Enter, ParseFails, WriteParsed, ParseOne, ReadParsed,
         ReadUnified, ReadLog, ReadRollbackLog, Backup, Improve,
         RecordImprove, Throw, files, Still
<1>2. pc'[c] \in Still
  <2>1. ASSUME NEW operation, NEW first \in Still, NEW arguments,
               Enter(c, operation, first, arguments)
        PROVE  pc'[c] \in Still
    BY <2>1 DEF Enter, TypeInv, TypeOK
  <2>2. CASE Start(c)
    BY <2>1, <2>2
    DEF Start, StartParse, StartUnify, StartRollback, StartReset,
        StartImprove, Still
  <2>3. CASE ~Start(c)
    BY <2>3
    DEF ParseFails, WriteParsed, ParseOne, ReadParsed, ReadUnified, ReadLog,
        ReadRollbackLog, Backup, Improve, RecordImprove, Throw, Leave,
        Continue, TypeInv, TypeOK, Still
  <2> QED
    BY <2>2, <2>3
<1> QED
  BY <1>1, <1>2, QuietMaps

LEMMA SaveMaps ==
    ASSUME FilesApart, TypeInv, SnapshotInv, NEW c \in Caller,
           StateOf(c), PlanOf(c),
           Save(c) \/ SaveWrite(c) \/ Snap(c) \/ SnapWrite(c)
    PROVE  Maps(c)
<1>1. CASE Save(c)
  <2>1. /\ pc[c] = "save" /\ pc'[c] = "saveWrite" /\ local'[c] = local[c]
    BY <1>1, MovedTo DEF Save
  <2>2. /\ CurrentOf(c) = RowsIn(unified) /\ HistoryOf(c) = MergeLog
        /\ CurrentOf(c)' = local[c].rows /\ HistoryOf(c)' = local[c].log
    BY <2>1 DEF CurrentOf, HistoryOf, LogPending
  <2>3. local[c].slug \in Slug
    BY LocalTyped
  <2> QED
    BY <2>1, <2>2, <2>3 DEF PlanOf, Maps, Adds
<1>2. CASE SaveWrite(c)
  <2>1. /\ pc[c] = "saveWrite" /\ pc'[c] = "snap" /\ local'[c] = local[c]
        /\ unified' = local[c].rows
    BY <1>2, MovedTo DEF SaveWrite
  <2>2. RowsIn(unified)' = local[c].rows
    BY <2>1, LocalTyped DEF RowsIn, Readable, FilesApart
  <2> QED
    BY <2>1, <2>2 DEF CurrentOf, HistoryOf, LogPending, Maps, Stutters
<1>3. CASE Snap(c) \/ SnapWrite(c)
  <2>1. unified = Absent => pc[c] # "snap"
    BY SnapshotInvParts, LocalTyped DEF PendingOf, FilesApart
  <2>2. /\ pc[c] \in {"snap", "snapWrite"}
        /\ pc'[c] \in {"snapWrite", "logOpen"}
        /\ local'[c] = local[c] /\ UNCHANGED <<unified, log>>
    BY <1>3, <2>1, MovedTo DEF Snap, SnapWrite
  <2>3. RowsIn(unified)' = RowsIn(unified)
    BY <2>2 DEF RowsIn, Readable
  <2> QED
    BY <2>2, <2>3 DEF CurrentOf, HistoryOf, LogPending, Maps, Stutters
<1> QED
  BY <1>1, <1>2, <1>3

LEMMA LogMaps ==
    ASSUME FilesApart, TypeInv, NEW c \in Caller, OpenLog(c) \/ WriteLog(c)
    PROVE  Maps(c)
<1>1. RowsIn(unified)' = RowsIn(unified)
  BY DEF OpenLog, WriteLog, RowsIn, Readable
<1>2. CASE OpenLog(c)
  <2>1. /\ pc[c] = "logOpen" /\ pc'[c] = "logWrite" /\ local'[c] = local[c]
    BY <1>2, MovedTo DEF OpenLog
  <2> QED
    BY <1>1, <2>1 DEF CurrentOf, HistoryOf, LogPending, Maps, Stutters
<1>3. CASE WriteLog(c)
  <2>1. /\ pc[c] = "logWrite" /\ pc'[c] = "idle" /\ log' = local[c].log
    BY <1>3 DEF WriteLog, Leave, TypeInv, TypeOK
  <2>2. MergeLog' = local[c].log
    BY <2>1, LocalTyped DEF MergeLog, Readable, FilesApart
  <2> QED
    BY <1>1, <2>1, <2>2 DEF CurrentOf, HistoryOf, LogPending, Maps, Stutters
<1> QED
  BY <1>2, <1>3

LEMMA RestoreMaps ==
    ASSUME FilesApart, Faults = {}, TypeInv, SnapshotInv,
           NEW c \in Caller, PlanOf(c), Restore(c) \/ RestoreWrite(c)
    PROVE  Maps(c)
<1>1. CASE Restore(c) /\ Leave(c)
  <2>1. pc[c] = "restore" /\ pc'[c] = "idle" /\ UNCHANGED <<unified, log>>
    BY <1>1 DEF Restore, Leave, Continue, TypeInv, TypeOK
  <2> QED
    BY <2>1, QuietMaps DEF Still, Maps
<1>2. CASE Restore(c) /\ ~Leave(c)
  <2> DEFINE n == local[c].step
  <2>1. /\ pc[c] = "restore" /\ local'[c] = local[c]
        /\ pc'[c] = IF n = 0 THEN "logOpen" ELSE "restoreWrite"
        /\ n = 0 => unified' = Absent
    BY <1>2, MovedTo DEF Restore
  <2>2. n \in 0..Len(MergeLog) /\ local[c].log = SubSeq(MergeLog, 1, n)
    BY <2>1 DEF PlanOf
  <2> HIDE DEF n
  <2>3. HistoryOf(c) = MergeLog /\ HistoryOf(c)' = local[c].log
    BY <2>1 DEF HistoryOf, LogPending
  <2>4. CASE n = 0
    <3>1. CurrentOf(c)' = {}
      BY <2>1, <2>4 DEF CurrentOf, RowsIn, Readable
    <3> QED
      BY <2>2, <2>3, <2>4, <3>1 DEF Maps, RollsBack
  <2>5. CASE n # 0
    <3>1. CurrentOf(c)' = LastRows(local[c].log)
      BY <2>1, <2>5 DEF CurrentOf
    <3>2. LastRows(SubSeq(MergeLog, 1, n)) = MergeLog[n].rows
      <4>1. /\ Len(SubSeq(MergeLog, 1, n)) = n
            /\ SubSeq(MergeLog, 1, n)[n] = MergeLog[n]
            /\ SubSeq(MergeLog, 1, n) # <<>>
        BY <2>2, <2>5, MergeLogTyped
      <4> QED
        BY <4>1 DEF LastRows
    <3> QED
      BY <2>2, <2>3, <2>5, <3>1, <3>2 DEF Maps, RollsBack
  <2> QED
    BY <2>4, <2>5
<1>3. CASE RestoreWrite(c)
  <2> DEFINE L == local[c].log
  <2>1. /\ pc[c] = "restoreWrite" /\ pc'[c] = "logOpen"
        /\ local'[c] = local[c]
    BY <1>3, MovedTo DEF RestoreWrite
  <2>2. L \in Seq(LogEntry) /\ L # <<>>
    BY <2>1, LocalTyped, LocalLogsOf
  <2>3. PendingOf(c)'
    BY <1>3, RollbackIntact
  <2>4. unified' = LastRows(L)
    BY <2>1, <2>2, <2>3 DEF PendingOf
  <2> HIDE DEF L
  <2>5. RowsIn(unified)' = LastRows(L)
    BY <2>2, <2>4, LastRowsAreRows DEF RowsIn, Readable, FilesApart
  <2> QED
    BY <2>1, <2>5 DEF L, CurrentOf, HistoryOf, LogPending, Maps, Stutters
<1> QED
  BY <1>1, <1>2, <1>3

LEMMA ResetMaps ==
    ASSUME Faults = {}, TypeInv, NEW c \in Caller, StateOf(c),
           Unlink(c) \/ RemoveFile(c) \/ EndReset(c)
    PROVE  Maps(c)
<1>1. CASE Unlink(c)
  <2>1. pc'[c] = "rmdir" /\ unified' = Absent
    BY <1>1, MovedTo DEF Unlink
  <2> QED
    BY <2>1
    DEF CurrentOf, HistoryOf, LogPending, RowsIn, Readable, Maps, Resets
<1>2. CASE RemoveFile(c)
  <2>1. pc[c] = "rmdir" /\ pc'[c] = "rmdir" /\ UNCHANGED unified
    BY <1>2 DEF RemoveFile
  <2> QED
    BY <2>1
    DEF CurrentOf, HistoryOf, LogPending, RowsIn, Readable, Maps, Stutters
<1>3. CASE EndReset(c)
  <2>1. /\ pc[c] = "rmdir" /\ pc'[c] = "idle" /\ UNCHANGED <<unified, log>>
        /\ log = Absent
    BY <1>3 DEF EndReset, Throw, Leave, files, TypeInv, TypeOK
  <2> QED
    BY <2>1
    DEF CurrentOf, HistoryOf, LogPending, RowsIn, MergeLog, Readable, Maps,
        Stutters
<1> QED
  BY <1>1, <1>2, <1>3

LEMMA ImproveMaps ==
    ASSUME FilesApart, TypeInv, NEW c \in Caller, PlanOf(c),
           OpenImproved(c) \/ WriteImproved(c)
    PROVE  Maps(c)
<1>1. MergeLog' = MergeLog
  BY DEF OpenImproved, WriteImproved, MergeLog, Readable
<1>2. CASE OpenImproved(c)
  <2>1. /\ pc[c] = "improveOpen" /\ pc'[c] = "improveWrite"
        /\ local'[c] = local[c]
    BY <1>2, MovedTo DEF OpenImproved
  <2>2. local[c].rows = CleanRows(RowsIn(unified))
    BY <2>1 DEF PlanOf
  <2> QED
    BY <1>1, <2>1, <2>2 DEF CurrentOf, HistoryOf, LogPending, Maps, Improves
<1>3. CASE WriteImproved(c)
  <2>1. /\ pc[c] = "improveWrite" /\ pc'[c] = "improveRun"
        /\ unified' = local[c].rows
    BY <1>3, MovedTo DEF WriteImproved
  <2>2. RowsIn(unified)' = local[c].rows
    BY <2>1, LocalTyped DEF RowsIn, Readable, FilesApart
  <2> QED
    BY <1>1, <2>1, <2>2 DEF CurrentOf, HistoryOf, LogPending, Maps, Stutters
<1> QED
  BY <1>2, <1>3

LEMMA StepMaps ==
    ASSUME FilesApart, Faults = {}, TypeInv, SnapshotInv,
           NEW c \in Caller, StateOf(c), PlanOf(c),
           Start(c) \/ Step(c) \/ Abort(c)
    PROVE  Maps(c)
<1>1. ~Abort(c)
  BY DEF Abort
<1>2. Stutters(c) => Maps(c)
  BY DEF Maps
<1> QED
  BY <1>1, <1>2, QuietStepMaps, SaveMaps, LogMaps, RestoreMaps, ResetMaps,
     ImproveMaps
  DEF Step

LEMMA MappedStep ==
    ASSUME OneHome, FilesApart, Faults = {}, TypeInv, LockHeld, SnapshotInv,
           SoundInv, PlanInv, [Next]_vars
    PROVE  [History!Next]_<<AbstractCurrent, AbstractHistory>>
<1>1. CASE UNCHANGED vars
  <2>1. UNCHANGED <<AbstractCurrent, AbstractHistory>>
    BY <1>1
    DEF vars, files, AbstractCurrent, AbstractHistory, At, RowsIn, MergeLog,
        Readable
  <2> QED
    BY <2>1
<1>2. ASSUME NEW c \in Caller, Start(c) \/ Step(c) \/ Abort(c)
      PROVE  [History!Next]_<<AbstractCurrent, AbstractHistory>>
  <2>1. Alone(c) /\ Alone(c)'
    BY <1>2, StepMoved, MovesAlone
  <2>2. Maps(c)
    BY <1>2, <2>1, StepMaps DEF SoundInv, PlanInv
  <2>3. /\ AbstractCurrent = CurrentOf(c) /\ AbstractHistory = HistoryOf(c)
        /\ AbstractCurrent' = CurrentOf(c)' /\ AbstractHistory' = HistoryOf(c)'
    BY <2>1, MappingOf, MappingOfNext
  <2>4. CASE Stutters(c)
    BY <2>3, <2>4 DEF Stutters
  <2>5. CASE Adds(c)
    BY <2>3, <2>5 DEF Adds, History!Next, History!Add
  <2>6. CASE RollsBack(c)
    BY <2>3, <2>6 DEF RollsBack, History!Next, History!RollbackTo
  <2>7. CASE Resets(c)
    BY <2>3, <2>7 DEF Resets, History!Next, History!Reset
  <2>8. CASE Improves(c)
    BY <2>3, <2>8 DEF Improves, History!Next, History!Improve
  <2> QED
    BY <2>2, <2>4, <2>5, <2>6, <2>7, <2>8 DEF Maps
<1>3. ASSUME NEW p \in Process
      PROVE  ~Crash(p)
  BY DEF Crash
<1> QED
  BY <1>1, <1>2, <1>3 DEF Next

LEMMA InitMapped == Init => AbstractCurrent = {} /\ AbstractHistory = <<>>
<1> SUFFICES ASSUME Init PROVE AbstractCurrent = {} /\ AbstractHistory = <<>>
  OBVIOUS
<1>1. MergeLog = <<>> /\ RowsIn(unified) = {}
  BY DEF Init, MergeLog, RowsIn, Readable
<1>2. ASSUME NEW places, "idle" \notin places
      PROVE  ~\E c \in Caller : At(c, places)
  BY <1>2 DEF Init, At
<1> QED
  BY <1>1, <1>2 DEF AbstractCurrent, AbstractHistory, LogPending

(* The pipeline keeps its promise: with one process and no fault, every    *)
(* behaviour of its file writes, however requests interleave, is one of    *)
(* the abstract history: a unify-step adds exactly one version, a rollback *)
(* restores exactly the version asked for, reset forgets all, improve      *)
(* touches the current rows alone, and a refused or failing call nothing.  *)
THEOREM PipelineImplementsHistory ==
    ASSUME \A c, d \in Caller : Home[c] = Home[d],
           FilesApart, Faults = {}
    PROVE  Spec => ImplementsHistory
<1>1. OneHome
  BY DEF OneHome
<1>2. Init => History!Init
  BY InitMapped DEF History!Init
<1>3. TypeInv /\ LockHeld /\ SnapshotInv /\ SoundInv /\ PlanInv /\ [Next]_vars
         => [History!Next]_<<AbstractCurrent, AbstractHistory>>
  BY <1>1, MappedStep
<1>4. Spec => []SnapshotInv /\ []SoundInv /\ []PlanInv
  BY <1>1, AlwaysIntact, AlwaysSettled, AlwaysPlanned
<1> QED
  BY <1>2, <1>3, <1>4, AlwaysTyped, AlwaysLocked, PTL
  DEF Spec, ImplementsHistory, History!Spec

----------------------------------------------------------------------------
(* What the abstract history keeps, the files keep between operations.     *)

(* Cleaning a word twice changes no more than cleaning it once. *)
CleanedOnce == \A w \in Word : Clean[Clean[w]] = Clean[w]

LEMMA CleanTwice ==
    ASSUME CleanedOnce, NEW rows \in SUBSET Row
    PROVE  CleanRows(CleanRows(rows)) = CleanRows(rows)
<1> DEFINE cl(r) == [r EXCEPT !.word = Clean[r.word]]
<1>1. \A r \in rows : cl(cl(r)) = cl(r)
  BY WordAssumption DEF CleanedOnce, Row
<1>2. /\ CleanRows(rows) = {cl(r) : r \in rows}
      /\ CleanRows(CleanRows(rows)) = {cl(r) : r \in CleanRows(rows)}
  BY DEF CleanRows
<1> HIDE DEF cl
<1> QED
  BY <1>1, <1>2

(* The rows are those of the last version, at most cleaned since. *)
Told(rows, entries) ==
    /\ entries \in Seq(LogEntry)
    /\ rows \in {LastRows(entries), CleanRows(LastRows(entries))}

LEMMA HistoryTells ==
    ASSUME CleanedOnce, Told(AbstractCurrent, AbstractHistory),
           [History!Next]_<<AbstractCurrent, AbstractHistory>>
    PROVE  Told(AbstractCurrent', AbstractHistory')
<1> DEFINE rows == AbstractCurrent
           entries == AbstractHistory
<1>1. entries \in Seq(LogEntry) /\ LastRows(entries) \in SUBSET Row
  BY LastRowsAreRows DEF Told
<1>2. rows \in SUBSET Row
  BY <1>1, CleanRowsAreRows DEF Told
<1>3. ASSUME NEW s \in Slug, NEW words \in ParserOutput, History!Add(s, words)
      PROVE  Told(rows', entries')
  <2>1. PICK base \in OneRowPerKey(rows) : rows' = Merge(base, s, words)
    BY <1>3 DEF History!Add
  <2> DEFINE entry == [slug |-> s, rows |-> rows']
  <2>2. entries' = Append(entries, entry)
    BY <1>3 DEF History!Add
  <2>3. words \in SUBSET Word /\ base \in SUBSET Row
    BY <1>2, WordAssumption, KeptAreRows
  <2>4. entry \in LogEntry /\ entry.rows = rows'
    BY <2>1, <2>3, MergedAreRows DEF LogEntry
  <2> HIDE DEF entry, rows, entries
  <2>5. /\ entries' \in Seq(LogEntry) /\ entries' # <<>>
        /\ entries'[Len(entries')] = entry
    BY <1>1, <2>2, <2>4
  <2> QED
    BY <2>4, <2>5 DEF Told, LastRows
<1>4. ASSUME NEW n \in 0..Len(entries), History!RollbackTo(n)
      PROVE  Told(rows', entries')
  <2>1. /\ rows' = IF n = 0 THEN {} ELSE entries[n].rows
        /\ entries' = SubSeq(entries, 1, n)
    BY <1>4 DEF History!RollbackTo
  <2> HIDE DEF rows, entries
  <2>2. entries' \in Seq(LogEntry) /\ Len(entries') = n
    BY <1>1, <2>1
  <2>3. n = 0 => entries' = <<>>
    BY <2>1, <2>2
  <2>4. n # 0 => entries' # <<>> /\ entries'[n] = entries[n]
    BY <1>1, <2>1, <2>2
  <2> QED
    BY <2>1, <2>2, <2>3, <2>4 DEF Told, LastRows
<1>5. CASE History!Reset
  BY <1>5 DEF History!Reset, Told, LastRows
<1>6. CASE History!Improve
  BY <1>1, <1>6, CleanTwice DEF History!Improve, Told
<1> QED
  BY <1>3, <1>4, <1>5, <1>6 DEF History!Next

ToldInv == Told(AbstractCurrent, AbstractHistory)

(* The log tells what unified.json holds: when nothing fails, between      *)
(* operations the file is what the last logged step wrote, at most cleaned *)
(* by improve since, and no file is torn; for any interleaving of requests *)
(* to one process.                                                         *)
THEOREM LogTellsUnified ==
    ASSUME \A c, d \in Caller : Home[c] = Home[d],
           FilesApart, Faults = {}, CleanedOnce
    PROVE  Spec => []UnifiedFollowsLog
<1>1. OneHome
  BY DEF OneHome
<1>2. Init => ToldInv
  BY InitMapped DEF ToldInv, Told, LastRows
<1>3. TypeInv /\ LockHeld /\ SnapshotInv /\ SoundInv /\ PlanInv
         /\ ToldInv /\ [Next]_vars => ToldInv'
  <2> SUFFICES ASSUME TypeInv, LockHeld, SnapshotInv, SoundInv, PlanInv,
                      ToldInv, [Next]_vars
               PROVE  ToldInv'
    OBVIOUS
  <2>1. Told(AbstractCurrent', AbstractHistory')
    BY <1>1, MappedStep, HistoryTells DEF ToldInv
  <2> QED
    BY <2>1 DEF ToldInv, Told, LastRows, CleanRows
<1>4. Spec => []SnapshotInv /\ []SoundInv /\ []PlanInv
  BY <1>1, AlwaysIntact, AlwaysSettled, AlwaysPlanned
<1>5. SoundInv /\ ToldInv => UnifiedFollowsLog
  <2> SUFFICES ASSUME SoundInv, ToldInv, AtRest
               PROVE  /\ Torn \notin {unified, log, backup}
                      /\ Told(RowsIn(unified), MergeLog)
    BY DEF UnifiedFollowsLog, Told
  <2>1. Settled
    BY DEF SoundInv
  <2>2. \A places : "idle" \notin places => ~\E c \in Caller : At(c, places)
    BY DEF AtRest, At
  <2>3. AbstractCurrent = RowsIn(unified) /\ AbstractHistory = MergeLog
    BY <2>2 DEF AbstractCurrent, AbstractHistory, LogPending
  <2> QED
    BY <2>1, <2>3 DEF Settled, ToldInv
<1> QED
  BY <1>2, <1>3, <1>4, <1>5, AlwaysTyped, AlwaysLocked, PTL DEF Spec

----------------------------------------------------------------------------
(* No dictionary twice.  The abstract history keeps an invariant when      *)
(* every dictionary has a word, and the words parsers return are clean     *)
(* already; the log is that history, or one it was, or cannot be read.     *)

(* Each dictionary contributes a row.  Where it does not, run              *)
(* unify_empty_twice adds one twice.                                       *)
NothingEmpty == {} \notin ParserOutput

(* Improve leaves the words of parsed dictionaries as they are.            *)
ParsedClean == \A words \in ParserOutput : \A w \in words : Clean[w] = w

OneCleanKeyEach(rows) ==
    /\ \A r, q \in rows : r.word = q.word => r = q
    /\ \A r \in rows : Clean[r.word] = r.word

(* Each version has every dictionary added so far among its sources. *)
Covered(entries) ==
    \A i \in 1..Len(entries) :
        /\ OneCleanKeyEach(entries[i].rows)
        /\ \A j \in 1..i : entries[j].slug \in SourcesOf(entries[i].rows)

Distinct(entries) ==
    \A i, j \in 1..Len(entries) : i # j => entries[i].slug # entries[j].slug

AddedOnce(rows, entries) ==
    /\ rows \in SUBSET Row
    /\ entries \in Seq(LogEntry)
    /\ OneCleanKeyEach(rows)
    /\ \A i \in 1..Len(entries) : entries[i].slug \in SourcesOf(rows)
    /\ Covered(entries)
    /\ Distinct(entries)

LEMMA AddSourceKeeps ==
    ASSUME NEW r \in Row, NEW s \in Slug
    PROVE  /\ AddSource(r, s).word = r.word
           /\ Range(AddSource(r, s).sources) = Range(r.sources) \cup {s}
<1>1. r.sources \in Seq(Slug) /\ r = [word |-> r.word, sources |-> r.sources]
  BY DEF Row
<1>2. Range(Append(r.sources, s)) = Range(r.sources) \cup {s}
  <2> DEFINE new == Append(r.sources, s)
             n == Len(r.sources)
  <2>1. /\ n \in Nat /\ DOMAIN r.sources = 1..n /\ DOMAIN new = 1..(n + 1)
        /\ new[n + 1] = s /\ \A i \in 1..n : new[i] = r.sources[i]
    BY <1>1
  <2> HIDE DEF new, n
  <2>2. 1..(n + 1) = (1..n) \cup {n + 1}
    BY <2>1
  <2> QED
    BY <2>1, <2>2 DEF Range, new
<1>3. CASE s \in Range(r.sources)
  BY <1>3 DEF AddSource
<1>4. CASE s \notin Range(r.sources)
  <2>1. AddSource(r, s) = [r EXCEPT !.sources = Append(r.sources, s)]
    BY <1>4 DEF AddSource
  <2>2. AddSource(r, s).word = r.word
    BY <1>1, <2>1
  <2>3. AddSource(r, s).sources = Append(r.sources, s)
    BY <1>1, <2>1
  <2> QED
    BY <1>2, <2>2, <2>3
<1> QED
  BY <1>3, <1>4

LEMMA MergeKeepsKeys ==
    ASSUME NEW rows \in SUBSET Row, NEW s \in Slug, NEW words \in SUBSET Word,
           OneCleanKeyEach(rows), \A w \in words : Clean[w] = w
    PROVE  OneCleanKeyEach(Merge(rows, s, words))
<1> DEFINE Kept(x) ==
              \E r \in rows :
                 /\ x = IF r.word \in words THEN AddSource(r, s) ELSE r
                 /\ x.word = r.word
           Added(x) == /\ x = [word |-> x.word, sources |-> <<s>>]
                       /\ x.word \in words \ Keys(rows)
<1>1. \A x \in Merge(rows, s, words) : Kept(x) \/ Added(x)
  <2>1. ASSUME NEW x \in Merge(rows, s, words)
        PROVE  Kept(x) \/ Added(x)
    <3>1. CASE \E w \in words \ Keys(rows) :
                  x = [word |-> w, sources |-> <<s>>]
      BY <3>1
    <3>2. CASE \E r \in rows :
                  x = IF r.word \in words THEN AddSource(r, s) ELSE r
      BY <3>2, AddSourceKeeps
    <3> QED
      BY <3>1, <3>2 DEF Merge
  <2> HIDE DEF Kept, Added
  <2> QED
    BY <2>1
<1>2. ASSUME NEW q, NEW p, Kept(q), Kept(p), p.word = q.word
      PROVE  p = q
  <2>1. PICK r \in rows :
           /\ q = IF r.word \in words THEN AddSource(r, s) ELSE r
           /\ q.word = r.word
    BY <1>2
  <2>2. PICK t \in rows :
           /\ p = IF t.word \in words THEN AddSource(t, s) ELSE t
           /\ p.word = t.word
    BY <1>2
  <2> QED
    BY <1>2, <2>1, <2>2 DEF OneCleanKeyEach
<1>3. ASSUME NEW q, NEW p, Added(q), Added(p), p.word = q.word
      PROVE  p = q
  BY <1>3
<1>4. \A x : Kept(x) => x.word \in Keys(rows) /\ Clean[x.word] = x.word
  BY DEF Keys, OneCleanKeyEach
<1>5. \A x : Added(x) => x.word \notin Keys(rows) /\ Clean[x.word] = x.word
  OBVIOUS
<1> HIDE DEF Kept, Added
<1> QED
  BY <1>1, <1>2, <1>3, <1>4, <1>5 DEF OneCleanKeyEach

LEMMA MergeKeepsSources ==
    ASSUME NEW rows \in SUBSET Row, NEW s \in Slug, NEW words \in SUBSET Word,
           words # {}
    PROVE  SourcesOf(rows) \cup {s} \subseteq SourcesOf(Merge(rows, s, words))
<1> DEFINE merged(r) == IF r.word \in words THEN AddSource(r, s) ELSE r
<1>1. \A r \in rows : merged(r) \in Merge(rows, s, words)
  BY DEF Merge
<1>2. \A r \in rows : Range(r.sources) \subseteq Range(merged(r).sources)
  BY AddSourceKeeps
<1>3. SourcesOf(rows) \subseteq SourcesOf(Merge(rows, s, words))
  <2> HIDE DEF merged
  <2> QED
    BY <1>1, <1>2 DEF SourcesOf
<1>4. s \in SourcesOf(Merge(rows, s, words))
  <2>1. PICK w \in words : TRUE
    OBVIOUS
  <2>2. CASE w \in Keys(rows)
    <3>1. PICK r \in rows : r.word = w
      BY <2>2 DEF Keys
    <3>2. s \in Range(merged(r).sources)
      BY <3>1, AddSourceKeeps
    <3> HIDE DEF merged
    <3> QED
      BY <1>1, <3>1, <3>2 DEF SourcesOf
  <2>3. CASE w \notin Keys(rows)
    <3>1. [word |-> w, sources |-> <<s>>] \in Merge(rows, s, words)
      BY <2>1, <2>3 DEF Merge
    <3>2. s \in Range(<<s>>)
      BY DEF Range
    <3> QED
      BY <3>1, <3>2 DEF SourcesOf
  <2> QED
    BY <2>2, <2>3
<1> QED
  BY <1>3, <1>4

LEMMA NothingToClean ==
    ASSUME NEW rows \in SUBSET Row, OneCleanKeyEach(rows)
    PROVE  CleanRows(rows) = rows
<1> DEFINE cl(r) == [r EXCEPT !.word = Clean[r.word]]
<1>1. \A r \in rows : cl(r) = r
  BY DEF Row, OneCleanKeyEach
<1>2. CleanRows(rows) = {cl(r) : r \in rows}
  BY DEF CleanRows
<1> HIDE DEF cl
<1> QED
  BY <1>1, <1>2

LEMMA AddAddsOnce ==
    ASSUME NothingEmpty, ParsedClean,
           NEW rows, NEW entries, AddedOnce(rows, entries),
           NEW s \in Slug, NEW words \in ParserOutput,
           s \notin SourcesOf(rows), NEW base \in OneRowPerKey(rows)
    PROVE  AddedOnce(Merge(base, s, words),
                     Append(entries,
                            [slug |-> s, rows |-> Merge(base, s, words)]))
<1> DEFINE merged == Merge(base, s, words)
           entry == [slug |-> s, rows |-> merged]
           new == Append(entries, entry)
           n == Len(entries)
<1>1. base = rows
  <2>1. \A r \in rows : \E q \in base : q.word = r.word
    <3>1. Keys(base) = Keys(rows)
      BY DEF OneRowPerKey
    <3> QED
      BY <3>1 DEF Keys
  <2>2. base \subseteq rows
    BY DEF OneRowPerKey
  <2>3. \A r \in rows : r \in base
    BY <2>1, <2>2 DEF AddedOnce, OneCleanKeyEach
  <2> QED
    BY <2>2, <2>3
<1>2. words \in SUBSET Word /\ words # {}
  BY WordAssumption DEF NothingEmpty
<1>3. merged \in SUBSET Row /\ OneCleanKeyEach(merged)
  BY <1>1, <1>2, MergedAreRows, MergeKeepsKeys DEF AddedOnce, ParsedClean
<1>4. SourcesOf(rows) \cup {s} \subseteq SourcesOf(merged)
  BY <1>1, <1>2, MergeKeepsSources DEF AddedOnce
<1>5. entry \in LogEntry /\ entry.slug = s /\ entry.rows = merged
  BY <1>3 DEF LogEntry
<1> HIDE DEF merged, entry
<1>6. entries \in Seq(LogEntry)
  BY DEF AddedOnce
<1>7. /\ n \in Nat /\ new \in Seq(LogEntry)
      /\ Len(new) = n + 1 /\ new[n + 1] = entry
      /\ \A i \in 1..n : new[i] = entries[i]
  BY <1>5, <1>6
<1> HIDE DEF new
<1>8. \A i \in 1..(n + 1) : i = n + 1 \/ i \in 1..n
  BY <1>7
<1>9. \A i \in 1..n : /\ entries[i].slug \in SourcesOf(rows)
                      /\ entries[i].slug # s
  BY DEF AddedOnce
<1>10. \A i \in 1..(n + 1) : new[i].slug \in SourcesOf(merged)
  BY <1>4, <1>5, <1>7, <1>8, <1>9
<1>11. Covered(new)
  <2>1. ASSUME NEW i \in 1..n
        PROVE  /\ OneCleanKeyEach(new[i].rows)
               /\ \A j \in 1..i : new[j].slug \in SourcesOf(new[i].rows)
    <3>1. \A j \in 1..i : j \in 1..n
      BY <1>7
    <3> QED
      BY <1>7, <3>1 DEF AddedOnce, Covered
  <2>2. /\ OneCleanKeyEach(new[n + 1].rows)
        /\ \A j \in 1..(n + 1) : new[j].slug \in SourcesOf(new[n + 1].rows)
    BY <1>3, <1>5, <1>7, <1>10
  <2> QED
    BY <1>7, <1>8, <2>1, <2>2 DEF Covered
<1>12. Distinct(new)
  <2>1. \A i, j \in 1..n : i # j => new[i].slug # new[j].slug
    BY <1>7 DEF AddedOnce, Distinct
  <2>2. \A i \in 1..n : new[i].slug # new[n + 1].slug
    BY <1>5, <1>7, <1>9
  <2> QED
    BY <1>7, <1>8, <2>1, <2>2 DEF Distinct
<1>13. AddedOnce(merged, new)
  BY <1>3, <1>7, <1>10, <1>11, <1>12 DEF AddedOnce
<1> QED
  BY <1>13 DEF merged, entry, new

LEMMA RollbackAddedOnce ==
    ASSUME NEW rows, NEW entries, AddedOnce(rows, entries),
           NEW n \in 0..Len(entries)
    PROVE  AddedOnce(IF n = 0 THEN {} ELSE entries[n].rows,
                     SubSeq(entries, 1, n))
<1> DEFINE rest == SubSeq(entries, 1, n)
           back == IF n = 0 THEN {} ELSE entries[n].rows
<1>1. entries \in Seq(LogEntry) /\ n \in Nat
  BY DEF AddedOnce
<1>2. /\ rest \in Seq(LogEntry) /\ Len(rest) = n
      /\ \A i \in 1..n : rest[i] = entries[i] /\ i \in 1..Len(entries)
  BY <1>1
<1>3. \A i \in 1..n : \A j \in 1..i : j \in 1..n
  BY <1>1
<1> HIDE DEF rest
<1>4. Covered(rest) /\ Distinct(rest)
  BY <1>2, <1>3 DEF AddedOnce, Covered, Distinct
<1>5. CASE n = 0
  BY <1>2, <1>4, <1>5 DEF AddedOnce, OneCleanKeyEach, rest
<1>6. CASE n # 0
  <2>1. n \in 1..n /\ n \in 1..Len(entries)
    BY <1>1, <1>6
  <2>2. entries[n] \in LogEntry
    BY <1>1, <2>1
  <2>3. entries[n].rows \in SUBSET Row /\ OneCleanKeyEach(entries[n].rows)
    BY <2>1, <2>2 DEF LogEntry, AddedOnce, Covered
  <2>4. \A i \in 1..n : rest[i].slug \in SourcesOf(entries[n].rows)
    BY <1>2, <2>1 DEF AddedOnce, Covered
  <2> QED
    BY <1>2, <1>4, <1>6, <2>3, <2>4 DEF AddedOnce, rest
<1> QED
  BY <1>5, <1>6

LEMMA HistoryAddedOnce ==
    ASSUME NothingEmpty, ParsedClean,
           AddedOnce(AbstractCurrent, AbstractHistory),
           [History!Next]_<<AbstractCurrent, AbstractHistory>>
    PROVE  AddedOnce(AbstractCurrent', AbstractHistory')
<1>1. ASSUME NEW s \in Slug, NEW words \in ParserOutput,
             History!Add(s, words)
      PROVE  AddedOnce(AbstractCurrent', AbstractHistory')
  BY <1>1, AddAddsOnce DEF History!Add
<1>2. ASSUME NEW n \in 0..Len(AbstractHistory), History!RollbackTo(n)
      PROVE  AddedOnce(AbstractCurrent', AbstractHistory')
  BY <1>2, RollbackAddedOnce DEF History!RollbackTo
<1>3. CASE History!Reset
  BY <1>3 DEF History!Reset, AddedOnce, OneCleanKeyEach, Covered, Distinct
<1>4. CASE History!Improve
  BY <1>4, NothingToClean DEF History!Improve, AddedOnce
<1> QED
  BY <1>1, <1>2, <1>3, <1>4 DEF History!Next

(* The log is the abstract history when it is written, and otherwise what  *)
(* it was, or unreadable.                                                  *)
LEMMA LogChanges ==
    ASSUME FilesApart, Faults = {}, TypeInv, NEW c \in Caller,
           Start(c) \/ Step(c) \/ Abort(c)
    PROVE  \/ MergeLog' = MergeLog
           \/ MergeLog' = <<>>
           \/ pc[c] = "logWrite" /\ MergeLog' = local[c].log
<1>1. CASE OpenLog(c)
  BY <1>1 DEF OpenLog, MergeLog, Readable
<1>2. CASE WriteLog(c)
  <2>1. log' = local[c].log /\ pc[c] = "logWrite"
    BY <1>2 DEF WriteLog
  <2> QED
    BY <2>1, LocalTyped DEF MergeLog, Readable, FilesApart
<1>3. CASE RemoveFile(c)
  <2>1. log' = log \/ log' = Absent
    BY <1>3 DEF RemoveFile
  <2> QED
    BY <2>1 DEF MergeLog, Readable
<1>4. ASSUME ~OpenLog(c), ~WriteLog(c), ~RemoveFile(c)
      PROVE  log' = log
  BY <1>4
  DEF Start, StartParse, StartUnify, StartRollback, StartReset, StartImprove,
      Enter, Step, ParseFails, WriteParsed, ParseOne, ReadParsed, ReadUnified,
      ReadLog, Save, SaveWrite, Snap, SnapWrite, ReadRollbackLog, Backup,
      Restore, RestoreWrite, Unlink, EndReset, Improve, OpenImproved,
      WriteImproved, RecordImprove, Abort, Throw, files
<1>5. log' = log => MergeLog' = MergeLog
  BY DEF MergeLog, Readable
<1> QED
  BY <1>1, <1>2, <1>3, <1>4, <1>5

DistinctInv ==
    AddedOnce(AbstractCurrent, AbstractHistory) /\ Distinct(MergeLog)

LEMMA NextDistinct ==
    ASSUME OneHome, FilesApart, Faults = {}, NothingEmpty, ParsedClean,
           TypeInv, LockHeld, SnapshotInv, SoundInv, PlanInv, DistinctInv,
           [Next]_vars
    PROVE  DistinctInv'
<1>1. AddedOnce(AbstractCurrent', AbstractHistory')
  BY MappedStep, HistoryAddedOnce DEF DistinctInv
<1>2. (MergeLog' = MergeLog \/ MergeLog' = <<>>) => Distinct(MergeLog')
  BY DEF DistinctInv, Distinct
<1>3. UNCHANGED vars => MergeLog' = MergeLog
  BY DEF vars, files, MergeLog, Readable
<1>4. ASSUME NEW c \in Caller, Start(c) \/ Step(c) \/ Abort(c)
      PROVE  Distinct(MergeLog')
  <2>1. CASE pc[c] = "logWrite" /\ MergeLog' = local[c].log
    <3>1. AbstractHistory = HistoryOf(c)
      BY <1>4, StepMoved, MovesAlone, MappingOf
    <3>2. AbstractHistory = MergeLog'
      BY <2>1, <3>1 DEF HistoryOf, LogPending
    <3> QED
      BY <3>2 DEF DistinctInv, AddedOnce
  <2> QED
    BY <1>2, <1>4, <2>1, LogChanges
<1>5. ASSUME NEW p \in Process
      PROVE  ~Crash(p)
  BY DEF Crash
<1>6. Distinct(MergeLog')
  BY <1>2, <1>3, <1>4, <1>5 DEF Next
<1>7. AddedOnce(AbstractCurrent, AbstractHistory)'
  BY <1>1 DEF AddedOnce, OneCleanKeyEach, Covered, Distinct
<1>8. Distinct(MergeLog)'
  BY <1>6 DEF Distinct
<1> QED
  BY <1>7, <1>8 DEF DistinctInv

(* A dictionary is added once (API.md says that adding it again is an      *)
(* error): when every dictionary contributes a row and improve changes no  *)
(* word of one, the check of sources in unified.json is enough, for any    *)
(* requests to one process in which nothing fails.                         *)
THEOREM DictionariesAddedOnce ==
    ASSUME \A c, d \in Caller : Home[c] = Home[d],
           FilesApart, Faults = {}, NothingEmpty, ParsedClean
    PROVE  Spec => []NoDictionaryTwice
<1>1. OneHome
  BY DEF OneHome
<1>2. Init => DistinctInv
  <2> SUFFICES ASSUME Init PROVE DistinctInv
    OBVIOUS
  <2>1. AbstractCurrent = {} /\ AbstractHistory = <<>> /\ MergeLog = <<>>
    BY InitMapped DEF Init, MergeLog, Readable
  <2> QED
    BY <2>1 DEF DistinctInv, AddedOnce, OneCleanKeyEach, Covered, Distinct
<1>3. TypeInv /\ LockHeld /\ SnapshotInv /\ SoundInv /\ PlanInv
         /\ DistinctInv /\ [Next]_vars => DistinctInv'
  BY <1>1, NextDistinct
<1>4. Spec => []SnapshotInv /\ []SoundInv /\ []PlanInv
  BY <1>1, AlwaysIntact, AlwaysSettled, AlwaysPlanned
<1>5. TypeInv /\ DistinctInv => NoDictionaryTwice
  <2> SUFFICES ASSUME TypeInv, DistinctInv
               PROVE  NoDictionaryTwice
    OBVIOUS
  <2>1. DOMAIN MergeLog = 1..Len(MergeLog)
    BY MergeLogTyped
  <2> QED
    BY <2>1 DEF DistinctInv, Distinct, NoDictionaryTwice
<1> QED
  BY <1>2, <1>3, <1>4, <1>5, AlwaysTyped, AlwaysLocked, PTL DEF Spec
=============================================================================
