# Formal model of the Mott-Larbe dictionary backend

TLA+ modules, TLC runs and TLAPS proofs kept beside the backend. Paths such as
`merge/merge.service.ts` are under `src/` of the repository. `PROJECT.json`
lists the components, runs, hazards and theorems, and maps each definition to the
lines it models.

- [The system](#the-system)
- [The modules](#the-modules)
  - [The file pipeline](#the-file-pipeline)
  - [The table of entries](#the-table-of-entries)
  - [The cache of the dictionary](#the-cache-of-the-dictionary)
  - [Accounts](#accounts)
  - [The content of the entries](#the-content-of-the-entries)
- [Runs](#runs)
- [Proofs](#proofs)
- [Where the code and its documentation disagree](#where-the-code-and-its-documentation-disagree)
- [What a reader of the code should know](#what-a-reader-of-the-code-should-know)
- [What is not modelled](#what-is-not-modelled)
- [What is left](#what-is-left)

## The system

A NestJS server over PostgreSQL (Prisma), Redis and JSON files. Fourteen raw
dictionaries are parsed, merged one at a time into `dictionaries/unified.json`,
cleaned, loaded into the table `UnifiedEntry`, and from there searched, edited by
admins and corrected by users. A CLI (`cli.ts`) starts a second process with the
same services on the same files and database.

| Component | State | Operations | Hard behaviour | Correct when |
|---|---|---|---|---|
| Orchestrator `merge/merge.service.ts`, `cli.ts` | `_isRunning`, `_currentOperation`, `_lastRun`, `_log`, per process | `runOp` around parse, unify-step, rollback, reset, load, improve, improve-entries; clean outside it | requests while an operation awaits; throws; a CLI beside the server | one operation of a process at a time; every operation frees the pipeline |
| Parse `merge/parse-pipeline.service.ts` | raw files, `parsed/<slug>.json` | `parseOne`, `parseAll`, `cleanOriginal`, `cleanAllOriginals` | partial `parse:all`; clean while parsing | a parsed file is whole or refused |
| Unify `merge/unify-pipeline.service.ts` | `unified.json`, `unified/step_NN_<slug>.json`, `merge_log.json`, backups | `unifyStep`, `rollback`, `resetSteps`, `getUnifiedLog` | several files, no transaction; crashes between writes; unreadable files taken for empty | log, snapshots and unified file belong together; rollback restores the step asked for |
| Load and improve `merge/load-pipeline.service.ts` | `unified.json`, `UnifiedEntry`, `LoadRun`, `ImproveRun` | `load`, `improve`, `improveEntries` | statements after the transaction; edits during `improveEntries`; foreign keys of deleted rows | the table is the old one or the new one; run records tell the truth |
| Entry merging `merge/merge-utils.ts` | none | `mergeInto` and the merges of its parts, `estimateCefr` | first source wins; duplicates by different keys | nothing lost, nothing twice |
| Dictionary `dictionary/dictionary.service.ts` | `UnifiedEntry`, Redis `dict:*`, edit log | cached reads; `updateEntry`, `deleteEntry`, `bulkUpdate` | a read that fills the cache after an invalidation; unawaited audit records | an edit is seen by later reads; the audit log explains the entry |
| Forms `dictionary/declension.service.ts`, `conjugation.service.ts` | none | paradigms of an entry | stored forms against rules | a stored form is never replaced by a rule's |
| Admin `admin/admin.service.ts` | all tables | edits, `revertEntryLog`, users, roles, API keys, sessions | multi-statement updates without a transaction | each is all or nothing, or harmless half way |
| Suggestions `suggestions/suggestions.service.ts` | `Suggestion`, `UnifiedEntry` | `create`, `review` | two reviewers; the entry changes meanwhile | one decision per suggestion, applied if and only if approved |
| Auth `auth/auth.service.ts` | refresh hash, sessions, reset tokens, phone codes | login, refresh, logout, password resets | two refreshes at once; one token used twice at once | a token is used at most once; a logout holds |
| Permissions `auth/permissions/` | roles, Redis `perms:*` | `getUserPermissions`, role changes | cached permissions after a role change | a change is seen within the TTL |
| Favorites, history | `UserFavorite`, `SearchHistory` | toggle, clear, record | concurrent toggles | one row per user and entry |

Components meet in four places: `runOp` serialises the pipeline operations of a
process; the files of `dictionaries/` are shared by all processes; the table
`UnifiedEntry` is written by load, improve-entries, edits and reviews; the Redis
caches sit in front of the dictionary and of permissions.

The models follow these meeting places. How operations interleave and fail knows
nothing of what an entry contains, and what happens to the content of an entry
knows nothing of interleaving: so `UnifyPipeline` (files), `EntryStore` (the
table and what refers to it), `DictionaryCache` (Redis) and `Accounts` are about steps
of several actors on small data, and `EntryFlow` takes one entry after the other
through the whole system with its fields.

## The modules

| Module | Is | Extends |
|---|---|---|
| `UnifyPipeline` | the operations on `unified.json`, its snapshots and its log | |
| `MergeHistory`, `UnifyPipelineRefinement` | what the pipeline promises, and the mapping to it | `UnifyPipeline` |
| `EntryStore` | `UnifiedEntry`, its editors, reviews, favorites, audit, load and improve-entries | |
| `DictionaryCache` | cached reads, invalidation, time | |
| `Accounts` | users, tokens, sessions, reset proofs, roles, cached permissions | |
| `WordForms` | declension, conjugation, lemmatisation, normalisation, language of a query | |
| `MergeEntries` | merging of two entries and of a dictionary into `unified.json` | `WordForms` |
| `CleanEntries` | `improve`, `improveEntries`, validation of `load` | `MergeEntries` |
| `Parsers` | what the articles of the dictionaries become | `MergeEntries` |
| `QualityReports` | the SQL of reports, statistics, listings and searches | `CleanEntries` |
| `EntryFlow` | parse, merge, clean, load, clean again, query | `QualityReports`, `Parsers` |
| `MC...` | values of the constants for TLC | the module named |
| `...Proofs` | theorems and their proofs (`ParserProofs`: of `Parsers`, with what `EntryFlow` says of an entry; `MergeProofs`: of `MergeEntries` and `CleanEntries`) | the module named |
| `FoldLemmas` | that a fold over a list is a run through its elements | |

Definitions named "Seeded bug" are variants of a definition with a plausible mistake.
No action uses them: each is put in place of the real one in turn, to
confirm that the property `PROJECT.json` pairs it with then fails.

### The file pipeline

Several pieces of state must agree here with no transaction to keep them together.

**`UnifyPipeline`.** A `Caller` is one request in flight and `Home[c]` its process.
`pc[c]` is the await at which it stands and `local[c]` its local variables; an
action is what the code does between two awaits. `running[p]` is `_isRunning`
of the `MergeService` in process `p`. The files are `parsed`, `unified`,
`snapshot`, `backup` and `log`. A file is a value, `Absent`, or `Torn`:
`fs.writeFile` and `fs.copyFile` truncate their target and then fill it, so each
write is two steps (`Save`/`SaveWrite`, `Snap`/`SnapWrite`, `OpenLog`/`WriteLog`,
`Restore`/`RestoreWrite`, `OpenImproved`/`WriteImproved`,
`ParseOne`/`WriteParsed`), and a torn file does not parse. What the code does
with a file it cannot read is kept: `readMergeLog` and `loadUnifiedMap` go on
with nothing, `unifyStep` and `improve` throw.

| Code | Actions |
|---|---|
| `runOp`: busy check, result or throw, `finally` | `Enter`, `Leave`, `Throw` |
| `parseOne`, `parseAll` | `StartParse`, `ParseFails`, `ParseOne`, `WriteParsed` |
| `unifyStep` | `StartUnify`, `ReadParsed`, `ReadUnified`, `ReadLog`, `Save`, `SaveWrite`, `Snap`, `SnapWrite`, `OpenLog`, `WriteLog` |
| `rollback` | `StartRollback`, `ReadRollbackLog`, `Backup`, `Restore`, `RestoreWrite`, `OpenLog`, `WriteLog` |
| `resetSteps` | `StartReset`, `Unlink`, `RemoveFile`, `EndReset` |
| `improve` | `StartImprove`, `Improve`, `OpenImproved`, `WriteImproved`, `RecordImprove` |
| a write that fails; a process that dies | `Abort`, `Crash` (only with `"abort"`, `"crash"` in `Faults`) |
| `unlink` or `rm` that fails and is ignored | a disjunct of `Restore`, `Unlink`, `EndReset` (`"unlink"` in `Faults`) |

Data is abstracted to what the properties tell apart. An entry is its key and
its sources in merging order, since `mergeInto` fills only what is missing. The
counts of a log entry are abstracted by the rows they count. `Clean` maps a key to
the key `improve` leaves it with. A parser may return any set of keys in
`ParserOutput`. `parse:all` takes the dictionaries in any order, where the code
has one. Of two rows with one key, `loadUnifiedMap` keeps the one that comes last
in the file: the model keeps either. Keys are not empty.

**`MergeHistory`** says what the pipeline promises with no file, process or await
in sight: a current set of rows and a history of versions; add, roll back,
reset and improve are single steps.

**`UnifyPipelineRefinement`** maps the detailed state to it. An operation takes
effect when it first destroys the old `unified.json` (`Save`, `Restore`, `Unlink`,
`OpenImproved`): from there on, with no fault, nothing stops it, so the rows and
the log it is about to write count as written (`AbstractCurrent`,
`AbstractHistory`). A refused or failed call is a stutter.

**`MCUnifyPipeline`** gives the constants their values for TLC.

**`UnifyPipelineProofs`** holds the theorems.

| Property | Says |
|---|---|
| `TypeOK` | every variable holds a value of its kind |
| `OneAtATime` | two operations of one process are never in flight together |
| `UnifiedFollowsLog` | at rest and with no fault, `unified.json` is what the last logged step wrote, at most cleaned since; no file is torn |
| `NoDictionaryTwice` | no dictionary is logged twice |
| `EverySourceLogged` | at rest and with no fault, every source in `unified.json` is a step of the log |
| `RollbackKeepsBackup` | with no fault, rollback destroys `unified.json` only once the backup holds it |
| `SnapshotsIntact` | a snapshot the log lists holds the rows of its step, or is missing; under every fault |
| `CompletedLogMatchesUnified` | a log that is written, and lists a step, records what `unified.json` holds then; under every fault |
| `PipelineFreed` | an operation that has begun ends and frees the pipeline |
| `ImplementsHistory` | the pipeline implements `MergeHistory` |

### The table of entries

**`EntryStore`.** A `Request` is one call in flight: `pc[c]` is the await it stands
at, `local[c]` what it has read so far, and a step runs to the next await.
`table[e]` is the row with id `e`, with its word, its `wordNormalized` (`norm`) and
its meanings, which stand for the other editable columns; `nextId` is the sequence
of the ids. `users` are the users there are, of whom `EntryStore` knows nothing but that
favorites and suggestions are theirs. `favorites`, `suggestions` and `editLog` are the tables
that refer to rows. `unlogged` holds the audit records nobody awaits. `lastLoad` is the last `LoadRun`.

PostgreSQL runs at READ COMMITTED. A statement sees what is committed when it
starts. A transaction holds the rows it has written (`local[c].locked`) until it
ends, and a statement that writes a row another one holds waits (`Free`); an
insert that refers to a row waits while a load is deleting it (`Undeleted`). Of the cascades of the
schema, `KeepOnly` is that of an entry, and `DeleteUser` that of a user: his suggestions and
favorites go, and the rows his suggestions have changed stay as they are.

| Code | Actions |
|---|---|
| `updateEntry`; `deleteEntry` | `StartUpdate`, `Update`; `StartDelete`, `Delete` |
| `bulkDeleteEntries` | `StartBulkDelete`, `BulkDelete` |
| `bulkUpdate`, a transaction of one update per id | `StartBulk`, `BulkItem`, `BulkCommit` |
| `void entryEditLog.create(...)` | `LogLater`, then `StoreAudit`, which may also lose the record |
| `revertEntryLog`: write, then log | `StartRevert`, `Revert`, `LogRevert` |
| `SuggestionsService.create`; `review` | `StartSuggest`, `Suggest`; `StartReview`, `Review` |
| `FavoritesService.toggle`; `clearAll` | `StartToggle`, `Toggle`; `ClearAll` |
| `deleteUser` of admins, `deleteAccount` | `DeleteUser` |
| `improveEntries`: rows read once, written one by one | `StartImprove`, `ImproveOne`, `EndImprove` |
| `load`: validation, transaction, indexes, `LoadRun` | `StartLoad`, `LoadDelete`, `LoadCommit`, `RecordLoad`, `RecordError` |
| `runOp` of the pipeline, per process | `PipelineFree`, bounded by `Runner` |
| a statement that throws; Prisma's and PostgreSQL's timeouts | `Fail`, `LoadFails`; `TimeOut` |

`held`, `reviewed` and `firstId` are history: the values each field has had, the rows whose
word was last written by a review, and the first id of the last load. Every other writer of a
word takes the row from `reviewed` again (`WriteRows`, a load), as each derives the norm.

| Property | Says |
|---|---|
| `TypeOK` | every variable holds a value of its kind |
| `NoOrphans` | no favorite, suggestion or audit record outlives its entry, no favorite or suggestion its user, whatever deletes or loads overtake it |
| `NormDivergesOnlyByReview` | `wordNormalized` belongs to `word`, but where the word was last written by a review; the suggestion may be gone with its author |
| `AuditOfRealValues` | every value an audit record or suggestion names was really held at some time, so a revert restores history; it does not say that there is a record, or that the value was the last one |
| `ApprovedApplied` | an approved suggestion was applied, whoever else reviewed it |
| `OneLoadInTable` | the table never mixes the rows of two loads |
| `DeletedStaysDeleted` | no late update, bulk item, revert, review or improvement recreates a row |
| `RequestsEnd` | every request ends, two bulk updates that wait for each other included |
| `OldDataKept` | a failed load leaves the table as it was (violated) |

### The cache of the dictionary

**`DictionaryCache`.** `cache[k]` is what Redis holds under `dict:...`: whether the
answer is still what the table says, for how many ticks it has not been
(`age`), how long it has to live (`left`), and whether it is one the code does not
try to remove (`excused`). `reading[r]` is a read in flight and `scan[w]` an
invalidation in flight.

| Code | Actions |
|---|---|
| a cached read: `getCache`, queries, `setCache` | `Receive`, `Hit`, `Query`, `Answered`, `SetCache`, `SetFails` |
| `updateEntry`, `deleteEntry`, `bulkUpdate`, `revertEntryLog` | `Write`, then `Scan` per page of `SCAN`/`DEL`, or `ScanFails` |
| `load`, `improveEntries`, `review`, `bulkDeleteEntries` | `WriteUnannounced` |
| time: TTLs, the word of the day until midnight UTC and at least 60 s | `Tick`, `TtlOf` |

The model abstracts from `EntryStore` which of its writers there is: a write makes any
set of answers wrong. So it covers every way the two can be composed.

| Property | Says |
|---|---|
| `TypeOK` | nothing is stored without a time to live |
| `BoundedStaleness` | no answer is wrong for longer than the TTL of its key and one read together |
| `StaleOnlyIfExcused` | with no invalidation under way, a wrong answer has a named reason: an overtaken read, a writer that does not invalidate, or a failure of Redis |
| `EventuallyFresh` | when the writes end, wrong answers do not stay |

### Accounts

**`Accounts`.** `users[u]` is a row of `User` with its names, password and refresh
token; `sessions`, `proofs` (reset tokens and phone codes) and `roles` hang on it;
`perms[u]` is what Redis holds under `perms:<u>`. An argon2 hash stands for what
was hashed. A refresh token is its user and the second it was issued in, for
that is all a JWT signed twice in one second tells apart.

| Code | Actions |
|---|---|
| `login` | `StartLogin`, `Store`, `Stamp` (`lastLoggedIn`, beside the hash in one `Promise.all`), `RecordSession` |
| `register` | `StartRegister`, `Create`, `Store`, `RecordSession` |
| `getNewTokens`; `logout` | `StartRefresh`, `Store`; `Logout` |
| `forgotPasswordByEmail`, `...ByPhone`, `resetPasswordByAdmin` | `StartForgot`, `Forgot` |
| `resetPassword`, `resetPasswordByPhone`; a proof that expires | `StartReset`, `Reset`; `ExpireProof` |
| `changePassword`; `updateProfile`, first statement of `updateUser` | `StartPassword`, `ChangePassword`; `UpdateProfile` |
| `deleteAccount`, `deleteUser` | `DeleteUser` |
| `revokeSession`; `revokeAllOtherSessions` | `StartRevoke`, `Revoke`; `RevokeOthers` |
| `assignRole`, `removeRole`; `updateUser` with a role | `AssignRole`, `RemoveRole`; `StartReplaceRole`, `ReplaceRole` |
| `PermissionGuard`, `getUserPermissions` | `StartGuard`, `CachePerms`, `ExpirePerms` |
| a statement that throws; the clock | `Fail`; `Tick` |

The controller puts the cookie on the response before it awaits `recordSession`, and the
exception filter answers on the same response: a client has its token also when the session
could not be recorded, and `Fail` at that stage adds it to `given`. Only when the
write of `lastLoggedIn` fails is the hash of a token stored that no response carries (`lost`).

History: the tokens clients were sent (`given`) or not (`lost`), how often a logout or
reset ended the tokens of a user (`epoch`), the epoch in which the login behind the
stored token was proven (`chain`), whether a logout overtook it (`overtaken`),
and the proofs that changed a password (`resetBy`).

| Property | Says |
|---|---|
| `TypeOK` | every variable holds a value of its kind |
| `UniqueAccounts` | no two users share a name or an address, whatever registers and profile updates race |
| `NoOrphans` | what hangs on an account goes with it, late inserts included |
| `RefreshEndsWithLogout` | a refresh token survives a logout or reset only if its call was already in flight then |
| `StoredTokenIsHandedOut` | the one token that works was sent, or is on the response of a request that records its session, whether that fails or not; but for a login whose other write is pending or failed |
| `ResetConsumesProof` | what has changed a password is used up |
| `FewUnusedProofs` | of unused proofs of a kind a user has no more than calls may be in flight |
| `NothingComesBack` | deleted accounts, revoked sessions and used proofs stay so |
| `RolesSeen` | when roles change no more, cached permissions become those of the roles |
| `CurrentSessionKept` | "revoke all others" keeps the session it is called from (violated) |

### The content of the entries

**`EntryFlow`** takes the articles of three dictionaries through
`CleanOriginal`, `Parse`, `UnifyStep`, `Improve`, `Load` and `ImproveEntries`, in any
order and as often as it goes, and asks the queries of the readers and reports of
every state. Its operations are functions of the modules it extends, each a
translation of one algorithm:

- **`WordForms`**: `declension.service.ts` (types, oblique stems, cases, stripping of
  endings), `conjugation.service.ts`, `normalize.util.ts`. Words are strings with one
  character per letter, with the palochka in both of its writings.
- **`MergeEntries`**: `mergeInto` and the keys by which meanings, examples, phrases
  and citations count as one; `entryKey`; style labels; `estimateCefr`.
- **`CleanEntries`**: `improve`; `improveEntries`, a second copy of the same code on rows;
  the validation of `load`.
- **`Parsers`**: for twelve dictionaries, what becomes of an article once its markup is
  recognised: an article is a record of what the regular expressions find.
- **`QualityReports`**: the SQL of quality statistics, problem lists, per-source
  counts, exports, `stats`, `search`, `lookup` and the browse mode, with SQL's third
  truth value (`Null`) and the null of JSON (`JsonNull`).

A text is a record of what the code asks of it: its key, padding, case, and what lies beyond
the length at which `improve` truncates. The longer tables (classes, parts of
speech, style labels, domains) are present with a sample of their rows.

| Property | Says |
|---|---|
| `TypeOK` | `unified.json` and the table hold well-formed entries of merged dictionaries; after `improve` no list in `unified.json` is present and empty, although parsers leave some |
| `NothingLost` | until `improve` runs, merging in any order loses no translation, example, phrase or field |
| `CleaningSettles` | the two copies of the cleaning agree: what `improve` has cleaned, `improveEntries` leaves alone |
| `WordsReachTheTable` | a translated word with a class can be looked up once it is merged and loaded |
| `RowsAreFound` | every row is found by its word in both writings, by lookup and by search |
| `ReportsAgree` | counts, lists, per-source counts, levels and buckets tell the same |
| `FormsLeadBack` | from the forms the rules make `lemmatize` finds the word, and `DetectType` the type, up to stems that end like an ending |
| `FormsSettle` | forms that are shown and then stored show the same |
| `CleanOriginalIsSafe` | cleaning an original changes nothing but the order of what is parsed from it; of Ismailov, nothing of what is told of a word |
| `PhrasesBrowsable` | browsing the phrases answers with the entries that have one (violated) |

The properties name the exceptions the code makes: translations that were cut, classes of one
word that compete for one row, originals without `translate`, queries taken for
Russian, rows whose number of problems is NULL. Each is described below.

## Runs

| Run | Instance | Result |
|---|---|---|
| `unify_sound` | 2 requests, 1 process, 2 dictionaries, 2 keys, all operations, no fault, starting with no file | `TypeOK`, `OneAtATime`, `UnifiedFollowsLog`, `NoDictionaryTwice`, `RollbackKeepsBackup`, `PipelineFreed` hold |
| `unify_history` | 1 request, without parse; dictionaries may be empty, and `improve` maps both keys to one | `EverySourceLogged`, `ImplementsHistory` hold |
| `unify_faults` | 1 request, crash, failed write and failed delete at every await | `SnapshotsIntact`, `CompletedLogMatchesUnified` hold |
| `unify_empty_twice` | 1 request, dictionaries may be empty | `NoDictionaryTwice` is violated |
| `unify_two_processes` | the server and a CLI command, no fault | `SnapshotsIntact` is violated |
| `entries` | 2 requests in flight, 3 in all, every operation, a user who may be deleted, a failure between any two statements | the eight properties of `EntryStore` hold |
| `entries_load_error` | `load` alone, whose last statements fail | `OldDataKept` is violated |
| `cache` | one page and the word of the day, 2 readers, 1 invalidating writer, writers that do not invalidate, failures of Redis | the four properties of `DictionaryCache` hold |
| `accounts` | 2 users, 2 requests in flight, 3 in all, every operation, failures | the nine properties of `Accounts` hold |
| `accounts_sessions` | logins and sessions only | `CurrentSessionKept` is violated |
| `flow` | four sets of three dictionaries, originals or cleaned, every order of the operations | the nine properties of `EntryFlow` hold |
| `flow_browse` | the same | `PhrasesBrowsable` is violated |

### Bounds

*Files.* `MaxLog = 2` lets the log reach two steps, so that a rollback to 0, to 1
and to 2, a step added after a rollback, and the second step under a different
number all happen; no action looks at more than the last step. In `unify_history` it is 3: a
third unify-step after `improve` has given two rows one key is where a source could
be lost. Two dictionaries are
needed for snapshots of one step number to differ in name. Two keys are needed for
rows that a second dictionary enriches and rows that it does not, and for `improve`
to map two keys to one; the run with faults needs one, since its properties compare
rows only as wholes, and two requests are not needed there since `OneAtATime`
holds under faults (theorem `MutualExclusion`). Rollback takes every step from -1
to `MaxLog`, so both bounds checks fail at times.

*Entries.* Two words, of which cleaning makes one, and two meanings of the same kind;
`Files` holds a file with one entry and one with homonyms, an incomplete entry and a
duplicate. `MaxId = 3` ids let a load give new ids after an old table, which is what late
edits of old ids need. `MaxRequests = 3` bounds the requests ever started: one to
write, one to read what it wrote, one to come between. The batches `<<1, 2>>` and
`<<2, 1>>` are the two orders in which bulk updates wait for each other. `Runner = 1` is
one server; for any other the theorems hold except `OneLoadInTable`. One user and one suggestion are
enough for a review whose suggestion goes with its author while the row stays; no property
compares two users.

*Cache.* `TTL = 2`, `Day = 2`, `MinTTL = 1` and `MaxRead = 1` tick are the least that let an
answer age, expire, and outlive its day; two readers so that one fills
what the other has missed; one writer, for invalidations do not depend on each other; a page key and
the word of the day, whose TTLs differ.

*Accounts.* Two names, addresses, users and roles for every collision; one password, for no
property compares two. Two values of the clock, so that two tokens of a user may or
may not be the same. Three requests let a token be issued, used and overtaken. Ids of sessions
and proofs are bounded by the requests.

*Flow.* The dictionaries of `MCEntryFlow` are chosen by the cases they hold: a word in two
writings, homonyms, several classes, nouns without class, broken examples, repeated
and blank translations, cross-references, derived words, given and missing forms, lists of none and sub-entries that are all blank. Each set
shares words among its dictionaries, and `SmallLibrary` adds what `cleanOriginal` makes of any of
them, as `LibraryIsClosed` asks. Articles of Karasaev, Daukaev, Ismailov and the computer dictionary are
not in the order of their ids, so that cleaning has something to sort. `MaxIds = 1` stands for the 500 rows one
`improveEntries` takes: it does them one by one, and runs again on the rest.

In `entries`, `accounts` and their companions `CHECK_DEADLOCK FALSE` is set because a state with all
requests spent is the end of the instance. That nobody waits for ever is what
`RequestsEnd` says.

### Fairness

*Files.* `FairSpec` asks weak fairness of `Step(c)`: a promise of `node:fs` or
Prisma settles, and the event loop then runs what awaits it. Nobody has to start
an operation and no fault has to happen. Nothing stronger is needed, because an
operation in flight always has an enabled step.

`unify_sound` states its invariants without faults on purpose: after a crash
between `Save` and `WriteLog` the log does lag behind `unified.json`. What survives
faults is what `unify_faults` checks.

*Entries.* Weak fairness of `Step(c)`, as above, and of `TimeOut(c)`: Prisma undoes an
interactive transaction after 5 s (`load` asks for 120 s), and PostgreSQL ends one of two
that wait for each other. Without `TimeOut`, `RequestsEnd` is false: two bulk updates
over the same rows in opposite orders would wait for ever.

*Cache.* Time passes, and a read in flight goes on. No fairness of invalidations, which may
fail: `EventuallyFresh` rests on the TTLs alone.

*Accounts.* Weak fairness of the steps, and of `ExpirePerms`: Redis drops a key that is due.

## Proofs

| Module | Theorem | States |
|---|---|---|
| `UnifyPipelineProofs` | nine, see *Files* below | |
| `EntryStoreProofs` | `TypeCorrect` | `Spec => []TypeOK` |
| | `NothingIsOrphaned` | `Spec => []NoOrphans` |
| | `NormsFollowWords` | `Spec => []NormDivergesOnlyByReview` |
| | `AuditsAreReal` | `Spec => []AuditOfRealValues` |
| | `ApprovalsApply` | `Spec => []ApprovedApplied` |
| | `OneLoadAtATime` | `Spec => [](Runner = 1 => OneLoadInTable)` |
| | `GoneStaysGone` | `Spec => DeletedStaysDeleted` |
| `DictionaryCacheProofs` | `TypeCorrect` | `Spec => []TypeOK` |
| | `StalenessIsBounded` | `Spec => []BoundedStaleness` |
| | `StaleIsExcused` | `Spec => []StaleOnlyIfExcused` |
| `AccountsProofs` | `TypeCorrect` | `Spec => []TypeOK` |
| | `AccountsAreUnique` | `Spec => []UniqueAccounts` |
| | `NothingIsOrphaned` | `Spec => []NoOrphans` |
| | `LogoutEndsRefresh` | `Spec => []RefreshEndsWithLogout` |
| | `TokensReachClients` | `Spec => []StoredTokenIsHandedOut` |
| | `ResetsConsume` | `Spec => []ResetConsumesProof` |
| | `ProofsAreFew` | `Spec => []FewUnusedProofs` |
| | `GoneIsGone` | `Spec => NothingComesBack` |
| `ParserProofs` | `ParsersMakeEntries` | `IsParsed(ParseDictionary(d, raws))`, and `NoEmptyList` of its entries but for `HandWritten`, whatever articles `raws` holds |
| `EntryFlowProofs` | `TypeCorrect` | `Spec => []TypeOK` |
| | `MergingLosesNothing` | `Spec => []NothingLost` |
| | `CleaningIsSettled` | `Spec => []CleaningSettles` |
| | `LoadedWordsAreFound` | `Spec => []WordsReachTheTable` |
| | `RowsFound` | `Spec => []RowsAreFound` |
| | `ReportsAgreeAlways` | `Spec => []ReportsAgree` |
| | `StoredFormsSettle` | `Spec => []FormsSettle` |
| | `FormsAreReadBack` | `Spec => []FormsLeadBack` |
| | `CleaningOriginalsIsSafe` | `Spec => CleanOriginalIsSafe` |

They hold for every value of the constants under the assumptions the modules name:
finitely many requests in flight (where something is counted), sentinels that are no
values, and functions on the sets they are meant for. Users, entries, words and files may be any
sets, and the bounds on ids, requests and time any numbers.

**The table.** `Inv` of `EntryStoreProofs` adds to the properties what a call in
flight may still rely on although the rows it read have changed:

- `Informed`: the local variables a stage uses have been set, and are of their kind.
- `Locks`: the rows a transaction holds are there and nobody else's. So the commit of a bulk
  update or a load writes what it has locked.
- `Honesty`: the old and new values an edit or revert will log were held.
- `Suggested`: the suggestion a review has read is still the one it decides, or is gone with its
  entry; the id a new one takes is nobody else's. This is why an approval
  applies the value it was given for.
- `OneRunner`: with one process, calls of the pipeline are alone, and a load that has deleted
  holds every row. From it `OneLoadInTable` follows.

The steps that write the table are sorted once (`WriteStep`, `DeleteStep`, `LoadStep`):
what a statement does to rows, ids and history does not depend on its handler.
`NoOrphans` then needs the cascades (`Cascades`) and that a late insert checks its entry and its
user. `NormsFollowWords` needs no more than that each write of a word derives the norm or is a
review: it counts on no suggestion to be there still.

**The cache.** `Aging`: the age of an answer and what it has left to live are together at most the
TTL and a read, for both change with every tick. `Pursued`: an answer that is
wrong and not excused is still before the cursor of some invalidation.

**Accounts.** `Knows` types what a call holds at its stage. `Counted`: each call in flight will create at
most one session and one proof, so that ids do not run out. `Numbered`: the rows
histories and calls count on exist; a proof that a reset has checked is still its user's,
or gone with him, which is the heart of `ResetsConsume`. `FewUnusedProofs` is inductive as
it stands because it counts what is unused together with what is about to be created: a
call that starts leaves no unused one and joins those about to create, at most all requests; a
call that creates moves from one side to the other.

**The content of the entries.** `EntryFlowProofs` takes `Library` as any set of dictionaries of any
size that meets these assumptions, which TLC evaluates for the library of `flow`:

- `LibraryIsClosed`: the dictionaries are those with a parser in `Parsers`, and `cleanOriginal` makes
  an original the library has as well.
- `LibraryIsWritten`: originals are lists, and in the markup of an article there are texts and lists where
  its parser looks for them (`IsMarkup`). What was written by hand is an entry, for its parser
  takes it as it is. Lists may be empty, and sub-entries blank.
- `WordsAreWritten`: of the words of parsed entries, that cleaning one twice is cleaning it once,
  that both writings of the palochka are normalised to the same, and that a word is part of itself.
- `StemsAreWritten`: what joining an ending to the stem of a word and taking it off again does, and that
  the stem is the word without, at most, its last letter. `EndingsAreSpelt`: which of the endings of
  `declension.service.ts` end like another. Words are strings, and the provers know nothing of
  their characters: these assumptions say what strings do, and nothing of declension or detection.
- `NullIsApart`, `NoneIsNoType`: SQL's `Null` is neither a truth value nor a number of problems, and
  `None` is no type of declension.

`NoneIsApart` is a hypothesis of the theorems and no assumption of the module: that `None`
is not a list, not a record and not one of five words. TLC has no value for `None` with which it
could evaluate the first two. `NoneIsNoForm` says the same of paradigms and of a stem with an ending.

The loops of the code are folds over lists. The induction theorems of the library take an
operator as parameter and cannot be used, but its `WFMin`, that a well-founded relation has minimal
elements, can. From it `FoldLemmas` derives an induction for sets of numbers and, with that, that
`FoldLeft`, which the library defines by a `CHOOSE`, is the last element of a run `r` with
`r[0] = base` and `r[i] = Op(c, r[i - 1], s[i])` (`FoldRuns`). Each loop of the model is an instance of
it, and what a loop does is proved along its run:

- `ThoseIsList`, `FirstOfEachIsList`, `NewPhrases`, `NewCitations` say what the loops over lists return;
- `MergeMeaningsGrows` (a list of meanings only grows, and has what was merged) with them
  gives `MergeIntoKeeps`: what `mergeInto` makes of two entries says what both say;
- `MergeDictionaryExtends`: merging a dictionary keeps one row for each key, loses no row, and
  covers every entry, also one that was merged before others changed its row;
- `CleanEntryIsClean` and `CleanSettles`: `improve` leaves nothing to clean, and `improveEntries`
  leaves alone what is clean; `ImproveRowIs` puts the writes of `improveEntries`, made
  field by field, together. These three and the two before are in `MergeProofs`;
- `ParsersMakeEntries` has a lemma for the article of each dictionary: the entry is a record of all fields, its
  meanings are a list of meanings, and lists that could be empty are left out, but for the dictionaries
  of `HandWritten` (`Full(k, s)`: a list is not empty, of parsers for which `k = 1`). Those of Ismailov
  are put together by a fold, along whose run the same stays true (`CombinedTells`);
- `CleanedHasSame`: of a cleaned original `dedup` keeps the articles it keeps of the original. Most
  parsers take articles one by one (`SameEntries`); those of Ismailov put senses together, and
  `BothTell` says that an entry to which another of its word and class is added tells what both told, so
  that the sum (`CombinedTells`) does not depend on the order. Both are in `ParserProofs`;
- `SumOfParts`: the sum of the sizes of disjoint sets is the size of their union; the counts of
  the reports are sums over partitions of the table.

`NothingLost` is not inductive. `IInv` adds that what is on file was parsed of the library
(`FilesOK`), that rows are well-formed and of merged dictionaries (`UnifiedOK`), that before `improve`
there is one row for each key (`MergedOK`: without it a later dictionary could be merged into a row
that lacks what the other one says, and `loadUnifiedMap` would drop one of them), that after it every entry is
clean (`CleanedOK`), that the norm of every row is that of its word (`TableOK`), and that a fresh
table is what `load` makes of `unified.json` (`LoadedOK`). TLC checked `IInv` on the instance of `flow`
before it was proved. That what is parsed is well-formed (`FilesOK` starts from it) is
`ParsersMakeEntries`. For the reports `TableOK` is all that is needed, and for `FormsSettle` nothing.

`FormsAreReadBack` rests on `TableOK` and on the two tables of endings, that by which forms are made and
that by which `lemmatize` strips them, which the code keeps apart. A form that is not given is the stem with an ending
(`SingularIs`), every such ending is one that is stripped (`EndingsAreKnown`), and what is left is the
word or lacks one of five vowels, which are tried in turn (`WordIsCandidate`): so the norm
of the row is among the lemmas (`RowFoundAgain`). For the type, `InstrumentalEnds` says
which endings the instrumental of each type has, and `TypesAreFoundAgain` goes through the tests of `detectType` in
their order.

The history `merged` holds the entries that were merged of each dictionary, so that `NothingLost`
is about them even if the dictionary has been parsed anew since.

**Files.** `UnifyPipelineProofs` proves, for any number of requests, processes, dictionaries
and keys, any parser, any `MaxLog` and any set of faults:

| Theorem | States | Assumes |
|---|---|---|
| `TypeCorrect` | `Spec => []TypeOK` | the assumptions on the constants |
| `MutualExclusion` | `Spec => []OneAtATime` | the same |
| `SnapshotsSurvive` | `Spec => []SnapshotsIntact` | all requests have one home process |
| `CompletedLogMatches` | `Spec => CompletedLogMatchesUnified` | all requests have one home process |

The argument has three layers, each used by the next.

1. `TypeInv` is `TypeOK` with `LogsBounded` and `LocalLogs`. `TypeOK` alone is not
   inductive: `RestoreWrite` reads the snapshot of the last step of its log, which
   exists only if that log is neither empty nor longer than the bound. There is a lemma for each
   operation, over the lemmas `ContinueTyped`, `LeaveTyped` and `EnterTyped`.
2. `LockHeld` adds to `OneAtATime` that an operation in flight holds `_isRunning`.
   Every step of a caller is an entry, an exit or neither (`StepMoved`).
3. `SnapshotInv` says what an operation knows of the files at each of its awaits
   (`PendingOf`): a unify-step about to write a snapshot writes one the log does
   not list, an operation about to write its log has the rows of its last entry in
   `unified.json`, and so on. As the operation that moves is alone (layer 2), what it
   knows stays true between its steps. The hypothesis of one home process is what
   run `unify_two_processes` violates.

Before they were proved, `TypeInv`, `LockHeld` and `SnapshotInv` were checked by TLC in the
instance of `unify_faults`.

Five more theorems state what holds when nothing fails (`Faults = {}`), with one home process and
file contents that can be told from `Absent` and `Torn` (`FilesApart`). All but the last of these
theorems leave the parser arbitrary:

| Theorem | States | Assumes besides |
|---|---|---|
| `SourcesAreLogged` | `Spec => []EverySourceLogged` | |
| `RollbackIsReversible` | `Spec => RollbackKeepsBackup` | |
| `PipelineImplementsHistory` | `Spec => ImplementsHistory` | |
| `LogTellsUnified` | `Spec => []UnifiedFollowsLog` | cleaning twice is cleaning once (`CleanedOnce`) |
| `DictionariesAddedOnce` | `Spec => []NoDictionaryTwice` | every parsed dictionary has a word (`NothingEmpty`), and its words are clean (`ParsedClean`) |

4. `SoundInv` says of the operation that is alone in flight what it knows of all files
   (`StateOf`): they are `Settled` until it writes, and what it will write settles them. Between
   operations they are therefore settled; a rollback that reaches its restore has copied
   a settled file.
5. `PlanInv` says what the operation has read and is about to write (`PlanOf`). With it
   each step maps to one of `MergeHistory`, or none: `MappingOf` gives the value of the
   refinement mapping when one operation is alone, and there is a lemma for each group of steps
   that shows which abstract step it is (`SaveMaps`, `RestoreMaps`, ...).
6. The last two theorems use the refinement. `HistoryTells` and `HistoryAddedOnce` are
   invariants of the five abstract actions; the log on disk is the abstract history, or
   one it was, or cannot be read (`LogChanges`).

The hypotheses of `DictionariesAddedOnce` show where the duplicate check of
`unify-pipeline.service.ts:77` is enough: without `NothingEmpty`, run `unify_empty_twice`
violates the property. `SoundInv`, `PlanInv`, `ToldInv` and `DictionariesAddedOnce`'s `DistinctInv`
were checked by TLC first, in the instances of `unify_sound` and `unify_history`.

Only model-checked is what is liveness under fairness: `PipelineFreed`, `RequestsEnd`,
`EventuallyFresh`, `RolesSeen`.

## Where the code and its documentation disagree

Shown by a run:

- `API.md:832` says that adding a dictionary a second time is an error.
  `unify-pipeline.service.ts:77` looks for the dictionary among the sources of the
  rows of `unified.json`, so one that contributed no row is added, and logged,
  again (`unify_empty_twice`).
- `API.md:840` says that rollback restores the state of the given step.
  `merge.service.ts:64` guards only the operations of its own process. With a CLI
  command beside the server, two operations write the same files and the log can
  list a snapshot that holds the rows of another step, or half of them
  (`unify_two_processes`).
- `API.md:958` says that a failed load leaves the old data untouched. The statements of
  `load-pipeline.service.ts:116-136` come after the transaction, in the same `try`
  (`entries_load_error`).
- `auth.controller.ts:237` says "all sessions except the current one". The id of the
  current one is read from `req.sessionId`, which nothing sets (`accounts_sessions`).
- `dictionary.service.ts:454` says that browsing lists the entries with phrases. After
  `improveEntries` has emptied a list it is the null of JSON (`load-pipeline.service.ts:462`),
  and `jsonb_array_length` raises an error for the whole query (`flow_browse`).

## What a reader of the code should know

Met while modelling. The models do as the code does; where a property would
otherwise be false, it names the exception.

*Cleaning and loading.*

- `improveEntries` skips a meaning without examples before truncating its translation
  (`if (!m.examples) continue`), where `improve` truncates it. A citation that
  is only truncated is counted and not written.
- `API.md:901` says meanings without translation are deleted; one with a note is kept.
- Of two meanings with one translation, `improve` drops the examples of the second. It
  truncates after it compares, so two translations may become equal again.
- `improve` may give two entries one key; the next unify-step keeps one of them. If the other was
  the only one of its dictionary, that dictionary may be added again.
- `loadUnifiedMap` takes a `unified.json` it cannot read for none: the next unify-step starts from
  nothing and the log goes on listing the earlier steps.
- `load` takes one row per word and homonym number, where `unified.json` also tells classes
  apart: of class variants the first is loaded. A noun without class is refused, and Karasaev's
  nouns have none; an acceptable entry that takes its part of speech from one
  leaves the table with the next load.
- `cleanOriginal` compares `id`, `word` and `translate`; originals whose entries have no
  `translate` (collected, neologisms, Abdurashidov) lose entries that share id and word.
- `cleanOriginal` sorts by `id`, and the parsers of Ismailov put the articles of one word and class
  together in the order of the file. Cleaning an original that is not sorted may thus change which plural
  and class of the plural stay and the order of examples and meanings; the entries parsed after it still
  tell the same translations, examples and fields (`CleanOriginalIsSafe`).

*Edits and suggestions.*

- `schema.prisma:350` says `wordNormalized` is derived from `word`. An approved suggestion on
  `word` sets the word alone, and neither invalidates the cache nor writes an audit record. The
  suggestion goes when its author is deleted, and nothing then tells why the two differ.
- An audit record may be missing: of an edit, whose record is not awaited and whose failure is
  ignored, and of a revert whose second statement fails.
- Two reviewers may both read `PENDING`; the later decision stands, and a rejected
  suggestion may have been applied.
- The `old` of an audit record is read before the update: with another update between, it is a
  value the field had once, not last. `improveEntries` overwrites edits made since it
  read its rows.
- `meaningsTsv` is refreshed by `load` only.

*Accounts.*

- Two resets may both pass the check of `usedAt`; both passwords are written. A
  `changePassword` in flight overwrites a reset.
- `updateUser` deletes the roles before it assigns one; if it fails between, none are left.
- A login that fails while recording its session has replaced the refresh token, and the error
  response carries the new one in its cookie. If the write of `lastLoggedIn` fails beside that of the
  hash, the token is replaced and nobody has the new one.
- Blocking a user sets a status only the listings of users read: login does not
  ask for it. `invalidateUserPermissions` has no caller.

*Words, searches and reports.*

- `detectLanguage` looks for U+04C1 where the palochka is U+04C0, and takes other Cyrillic for
  Russian: Chechen words without a palochka are searched for in translations only.
  `search` asks for a lemma only of queries it does not take for Russian.
- `lemmatize` does not normalise the form it is given, so a form with a capital palochka or a
  tilde leads nowhere.
- `qualityStatsBySource` adds conditions that may be NULL: a row without part of speech and
  class is in the total and in none of the parts. `entriesStats` has no bucket for it either.
- `detectType` reads the type off the last letters of the instrumental. Of a word whose stem ends in н, р,
  и, чу, чуь or чуъ it may read another type than the one that made the form: the stem ends like
  the ending of that type. `TypeFoundAgain` leaves these words out.
- `popularQueries` reads `"SearchHistory"`; the table is `search_history`. `record` of the search
  history has no caller.
- `estimateCefr`: combined style labels and `geology:mineral` match none of its tables.

*Parsers.*

- Umarhadjiev's parser drops the number of a homonym; Computer's takes headwords without
  palochka for Russian and exchanges the sides of their examples; Karasaev's loses derivations
  its comment says go to a note, and finds a part of speech anywhere in the text
  while it removes the first tag.
- Aslahanov's: a class mark outside the grammar's parentheses leaves the lemma empty and the
  entry is dropped, so the branch for it in `parsePlainTranslate` is not reached; a joined
  class is compared as one ("ву/йу" and "в" give "ву/йу/ву").
- Abdurashidov's: sub-entries that are all blank leave an empty list of examples, where every other
  parser leaves the field out. `improve` removes it; so it does empty lists of entries written by hand.
- Ismailov's RU→CE keeps the Russian word as the headword.

## What is not modelled

*Files.* The name of a backup has a resolution of a second, and only
the newest backup is kept in the model; a read that fails although the file is
whole (`EMFILE`, say) is not a fault of the model; a parsed file that is valid JSON
but not an array; a `rollback` whose argument is not a number; entries whose key is empty (the code skips them).
`getUnifiedLog`, `status`, `preview` and `parsedFiles` only read. The in-memory log of
the last 100 lines is shown and decides nothing. `cleanOriginal` runs outside `runOp`;
`parse` is modelled there by what it may write, any set of keys, which covers an
original rewritten under it.

*Table.* Isolation stronger than READ COMMITTED is not used by the code. Two processes that
load at once (`Runner` above 1) are in reach of the module; the table may then mix their rows.

*Accounts.* The signature of a token, the mail and the SMS, the rate limits (a module of the
framework). `setUserStatus` blocks and unblocks users, but only listings read the status.

*Content.* The parsers of Maciev and Baisultanov: chains of regular expressions on free
text whose recognition is their logic; a model would restate them. Order, paging,
and the formats of exports; full-text ranking; statistics of users and audits.

*Left out as a whole.* API keys: their guards are used by no controller, so that creating and
revoking them decides nothing. Wiring, configuration, logging, health checks. The seed
and the conversion scripts, which ran once by hand; the schema is read for its keys,
defaults and cascades.

## What is left

A model of `cleanOriginal` beside `parse`, with `dictionaries/original` as state.
