# Formal models of 鲸鲨 MAS (whale-mas)

TLA+ models of the backend under `src/backend/app`: a case-management service
(FastAPI, PostgreSQL, MinIO, LangGraph) whose correctness rests on a hash-linked
audit log, on two stores without a common transaction, and on a review workflow
that lives in checkpoints. Paths below are relative to `src/backend/app` unless
they start with `src/`.

## 1. The system

| Component | State it keeps | Operations | What makes it correct |
|---|---|---|---|
| Case service (`services/case_service.py`) | `cases`, `case_number_seq` | create, update, get, list | a case and its `CASE_CREATED` appear together; every update is audited |
| Audit chain (`services/audit_service.py`, `repositories/audit_repository.py`) | `audit_events`: per case, rows linked by `previous_hash`/`event_hash` | `append` inside the caller's transaction, `list`, `verify` | chains never fork, an untouched chain verifies, rows are only added at the end |
| Evidence service (`services/evidence_service.py`) | `evidence`, objects in the bucket, a temporary file per request | upload (3 transactions and a `put`), delete, get, list | one row per file and case, an object for every row, no object left over unnoticed, an audit log that tells what happened |
| Review workflow (`graph/`, `services/workflow_service.py`) | the checkpoints of each `thread_id` | start, resume, get | rounds and history agree, an end follows from a decision, a waiting thread can be resumed, accepted decisions are kept |
| Event stream and console (`api/v1/workflows.py`, `src/frontend/src/App.vue`) | the board, the calls in flight, the event source, `last-thread` in localStorage | start, decide, recover, reset; one snapshot a second | board, stream and localStorage speak of one thread; the board ends up with its latest state; no stream refills a cleared board |
| File validation (`security/file_validation.py`, the read loop of `upload_evidence`) | a temporary file | `safe_filename`, `validate_metadata`, `validate_size` | an accepted name is one harmless part of a key and is of the type it shows; sizes are judged exactly |
| Database schema and sessions (`db/session.py`, `models/`, `alembic/`) | tables, a sequence, row and advisory locks, a pool | transactions | no deadlock, no request that waits for ever, no lost update |
| Object storage (`storage/minio_storage.py`) | objects in the bucket | `put`, `delete` | – |
| Hashing, case numbers (`utils/hashing.py`, `utils/ids.py`) | none | pure functions | – |
| Shell (`main.py`, `dependencies.py`, `config.py`, `errors.py`) | one checkpointer connection | wiring | – |
| `agents/` | – | nothing implemented | – |

How they interact. Every HTTP request has a database session of its own
(`db/session.py`). Case and evidence handlers call `AuditService.append` on that
session, so an event commits or rolls back together with the change it reports.
The evidence service calls MinIO between two of its transactions. The workflow
service reads case and evidence rows and hands everything else to the compiled
LangGraph graph, whose checkpointer writes to PostgreSQL on a connection of its own;
the workflow writes no audit events. The console starts and resumes threads and follows
them through the event stream, which reads the latest checkpoint once a second.

What is hard: requests interleave at every `await`; MinIO and PostgreSQL fail
independently and their answers can be lost; the process may end, or a request be ended by
an exception, between any two steps; `resume` acts on a snapshot that may be stale; the chain is ordered by a
wall clock; transactions take row locks before the advisory lock and hold a pooled
connection while they wait; the page has several calls and a stream in flight that all
write the same board. `PROJECT.json` lists these hazards at their lines.

## 2. The modules

| Module | Models | Kind |
|---|---|---|
| `AuditLog` | rows, `calculate_event_hash`, `verify`, `list`, `latest` as operators on a set of rows | pure |
| `AuditTrail` | what a reader of the log is promised: a list that grows by whole transactions | abstract specification |
| `AuditChain` | transactions that append: lock, read, insert, commit, rollback | EXTENDS `AuditLog`, implements `AuditTrail` |
| `MCAuditChain` | constants for TLC | – |
| `AuditChainProofs` | theorems about `AuditChain` | TLAPS |
| `TrailProofs` | the refinement of `AuditTrail` | TLAPS |
| `EvidenceLifecycle` | the life of one evidence id as the audit log tells it | abstract specification |
| `Evidence` | upload and delete across PostgreSQL and MinIO | implements `EvidenceLifecycle` |
| `EvidenceProofs` | theorems about `Evidence`, the refinement among them | TLAPS |
| `CaseReview` | the review process its users are promised | abstract specification |
| `Workflow` | the graph, its checkpoints, start and resume | implements `CaseReview` |
| `WorkflowProofs` | theorems about `Workflow`, the refinement among them | TLAPS |
| `Transactions` | the statements of every writing request, with their locks and connections; `case_number_seq`; overlapping PATCH requests | – |
| `MCTransactions` | constants for TLC | – |
| `TransactionsProofs` | theorems about `Transactions` | TLAPS |
| `DeadlockProofs` | that transactions never wait in a circle | TLAPS |
| `FileIntake` | names, declared types and sizes of uploaded files | operators and a short state machine |
| `MCFileIntake` | constants for TLC | – |
| `IntakeProofs` | theorems about `FileIntake` | TLAPS |
| `Console` | one page of the console with its calls, stream and outages | – |
| `ConsoleProofs` | theorems about `Console` | TLAPS |

The concrete modules share no variables. What each leaves out is the subject of
another: `Evidence` takes a commit with its audit events as one step, `Transactions`
tells how it gets its locks and `AuditChain` how its events are chained; `Console`
counts checkpoints, `Workflow` says what they hold. Where two of them meet, the one
that looks from outside lets the other change freely (`EvidenceChanges` in `Workflow`,
`Advance` in `Console`), which includes every behaviour of the detailed one.

### AuditChain

`tx[s]` is the transaction of session `s`: where it is (`pc`), its case, the
appends still to do, the rows it has flushed, and the hash it read. `log` holds the
committed rows, `holders` the advisory lock.

| Code | Action |
|---|---|
| `create_case` up to its append; other handlers after `_require_case` | `BeginCreate`, `BeginAppend` |
| `lock_case_chain` (`pg_advisory_xact_lock(hashtext(case_id))`) | `LockCaseChain`; `LockKey` maps cases to 32-bit keys, two cases may share one |
| `latest`, skipped if the chain is switched off | `ReadLatest` |
| `datetime.now(UTC)`, `uuid4`, hash, `flush` | `Insert`: the clock moves by any member of `ClockSteps`, the id is any unused one |
| `session.commit()` | `Commit` |
| an exception, a lost connection, a crash | `Rollback`, possible in every state of a transaction |

SHA-256 is free of collisions: a hash is the sequence of the contents it commits to.
`AUDIT_CHAIN_VERIFIED` exists in `AuditEventType` but no code emits it. The
`BEFORE UPDATE OR DELETE` trigger of the migration is why no action changes a row.
The upload's row constraint is not visible here: an `IntegrityError` is a `Rollback`
followed by an `EVIDENCE_UPLOAD_FAILED` transaction.

### Evidence

`up[u]` and `del[x]` are the handlers' program counters and locals; `rows`,
`objects`, `audit` what the stores hold; `logged` the keys in
`evidence_storage_compensation_failed` records. An upload is also its evidence id.

| Code | Action |
|---|---|
| lines 66-84: `EVIDENCE_UPLOAD_STARTED`, outside the `try` | `StartUpload` |
| 85-95: temporary file and size checks | `Receive` |
| 96-97: `get_by_hash` | `FindDuplicate` |
| 98-107 | `RecordHash` |
| 109-113 | `Put` |
| 114-130: flush, with both constraints and PostgreSQL's waiting for undecided rows | `InsertRow` |
| 131-150: STORED, CREATED, commit | `CommitRow` |
| 166-175, 177-193 | `Compensate`, `RecordFailure` |
| `delete_evidence` | `FindTarget`, `Erase`, `RemoveRow`, `CommitDelete` |

A call of a store is "ok", "failed" (raises, no effect) or "unknown" (raises after its
effect). Appends are part of the commit that makes them visible; how they are
linked is the subject of `AuditChain`. `RecordFailure` swallows only an error of the
database (`SQLAlchemyError`); any other exception there takes the place of the answer.
`CommitRow` covers two appends: neither can
end the transaction otherwise than its commit can.

### Workflow

`saved` is the latest checkpoint (values, next node, whether a question is
attached), `req[r]` a handler with the checkpoint it works on. Each node of
`graph/workflow.py` is an operator of the same name on the state; `RunNode` runs one
node and saves its checkpoint; `CheckResume`, `CountEvidence`, `LoadCheckpoint` are the
steps of `resume` between two awaits.

A request can end early in two ways. `Crash` ends all of them; `CallFails` ends one, when a
call of the checkpointer or of a repository raises (one connection serves every request,
`main.py:24`): it is answered 500 and the process goes on. Both leave the checkpoints as they are,
possibly between two nodes. `cut` is a history variable: it is TRUE once a request was cut
short, either way, while it ran the graph. Only properties look at it.

Assumed of LangGraph (it is not part of the repository): with `durability="sync"` a
checkpoint is saved after each node; the checkpoint saved last is the latest one, also
if another invocation had saved one meanwhile; `interrupt()` attaches its question to
the checkpoint the invocation had reached; a resume value that no node asks for is
dropped; nothing locks a thread. Left out are the writes LangGraph keeps of a node whose
checkpoint was not saved any more: a later invocation may use them, which is why
`AcceptedIsRecorded` and `DecisionsCarriedOut` say nothing once `cut` is TRUE. A round of
`Review` keeps action, request number
and round; reviewer, comment and time travel with the number.

### Transactions

`req[r]` is the transaction of one request: the statement it is at, its job, the
version of the case row it loaded, the version it flushed, its number and its target.
`held[r]` are its locks; `cases`, `rows`, `numbers`, `sequence` what is committed;
`written` what the audit log says was last written to each column.

| Code | Action |
|---|---|
| a request arrives; its session takes a connection at its first statement (`db/session.py`) | `Arrive`, `Connect` |
| a statement that needs a row, an index key or the advisory lock | `Acquire`, one lock at a time, as `Wants` lists them |
| `case_number_seq`, INSERT of `create_case` | `DrawNumber`, `InsertCase` |
| `_require_case`; `setattr` and flush of `update_case` | `Load`, `Flush` |
| INSERT of evidence, its index key, then its foreign keys | `InsertEvidence`, `CheckParent` |
| `delete_evidence`: look-up, DELETE, ON DELETE SET NULL | `FindEvidence`, `Proceed` |
| `lock_case_chain`, INSERT of the event with its foreign key | `Proceed` |
| `commit` | `Commit` |
| an exception, a pool time-out, the end of the process | `Fail` |

Jobs are the kinds of transaction the services have: create, update, upload (its last
transaction), delete, and "record" for one that only appends. Lock modes and their
conflicts are those of PostgreSQL: an UPDATE that changes no key column takes NO KEY
UPDATE, a foreign key takes KEY SHARE on the row it refers to, DELETE takes UPDATE. A
waiter that finds the row gone when it gets the lock goes on without it.

### FileIntake

A name is a sequence of pieces: separators, dots, hyphens, blanks, underscores, runs of
letters, any other character that is not of a word, and pieces that turn into others. The
table `Compat` tells what NFKC makes of a piece (a full stop, a slash, a blank or letters of
full width, one character that stands for several), `Nul` what is left of one without its
NUL; `Expand` puts it in their place. A letter and the marks NFKC composes it with are one
piece. Each step of `safe_filename` is an operator on such sequences, in the order of
the code: the path is cut before NFKC makes new separators of other characters, and `pathlib`
cuts once more after it. `Shown` is the whole name as a reader sees it, after NFKC and without
NUL; the properties speak of it. `Supported` and `MimeMatches` are the two checks of
`validate_metadata`, `ReadChunk` and `EndOfFile` the loop of `upload_evidence` with
`validate_size`.

### Console

| Code (`App.vue` unless named) | Action |
|---|---|
| page load, `onMounted` up to `listCases` | `Init`, `Reload` |
| `start`, `addCase`, `decide`, `resetBoard` | `Start`, `AddCase`, `Decide`, `ResetBoard` |
| the route's answer, or none | `Serve` |
| what follows the `await`: the `try` or the `catch`, then `finally` | `Return` with `Answered` or `Failed`; `Recovery` sends the call `onMounted` makes next |
| `connectEvents`, `onmessage` | `Connect`, `Refused`, `Receive` |
| `event_stream` of `api/v1/workflows.py` | `Tick`: a snapshot is sent if it differs from the previous one of this connection |
| the stream or the backend is lost, and comes back | `LoseConnection`, `ComeBack` |

The board, the stream and localStorage are three variables because the code writes
them at different times. `overlap` remembers that this page sent a start or a decision
while another call was in flight; only `OneThread` looks at it.

## 3. What is checked

| Run | States | Shows |
|---|---|---|
| `audit_chain` | 45 355 | `TypeOK`, `OneWriterPerChain`, `ChainVerifies`, `GapLocated`, `AppendsAtTheEnd`, refinement of `AuditTrail`, `LockServed` |
| `evidence` | 66 121 | `TypeOK`, `UniqueFile`, `RowHasObject`, `OrphansAccounted`, `RefusedForCause`, refinement of `EvidenceLifecycle`, `UploadsSettled` |
| `workflow_serial` | 80 092 | `AcceptedIsRecorded`, refinement of `CaseReview`, `DecisionsCarriedOut` |
| `workflow_races` | 941 332 | `TypeOK`, `RoundsMatchHistory`, `EndsAsDecided`, `SummaryIsCurrent`, `StrandedOnlyMidRun` |
| `transactions` | 271 914 | `TypeOK`, `NoDeadlock`, `ColumnsAsAudited`, `NumbersNeverClash`, `RequestsEnd` |
| `intake` | 136 512 | `TypeOK`, `StoredNameSafe`, `TypeJudgedByName`, `GoodNamesPass`, `SizeJudged` |
| `console` | 702 058 | `TypeOK`, `ClearedIsUnfollowed`, `OneThread`, `CatchesUp` |

Bounds, and why they suffice:

- `audit_chain`: two sessions, two cases that share a lock key (the harder case: a
  session may wait for one on another case), four appends, so a two-append
  transaction meets another one, or two single ones; five ids, drawn in any
  order. A fork needs two sessions, a gap three rows of one chain.
- `evidence`: two uploads with the same or different digests, with or without a
  parent, two deletions, two faults (the operation and its compensation), one crash.
- `workflow_serial`: all three rounds of the code and six resumes, so the limit is
  reached by reanalysis and passed by evidence; one crash and one call that raises, before,
  while or after the graph runs. `workflow_races`: two requests, three resumes, two rounds,
  one crash and one call that raises. Two requests are enough for each to act on the other's
  stale checkpoint.
- `transactions`: three requests of any mixture and two connections, so that a request
  waits for a connection while both holders wait for locks. Only circles of two
  can occur here, as a waiter needs a connection; larger ones are left to the theorem
  `CircleFree`; two cases with one advisory key, and a parent and a child row of evidence,
  the only shape in which one DELETE locks two rows. Patches of two columns with two
  values: one puts back the old value, one touches the other column. The engine's own
  limits (5 connections and 10 more) are larger by a constant only.
- `intake`: 30 838 names: all of up to three pieces out of twenty, those of four pieces of
  the eleven, and of five pieces of the six, that matter most; a limit on the stem they can
  pass; sizes up to the limit and one chunk more. Four pieces are a separator, a stem, a dot and
  an extension; five allow a double extension, or something behind the extension that is
  stripped. Separators, dots, blanks and letters also come as pieces that NFKC or the removal of
  NUL turn into them.
- `console`: two threads, two calls in flight, three checkpoints and one outage; with
  two calls each can be answered before or after the other, and with two threads they
  can disagree.

Fairness. A handler that can take a step takes it: asyncio runs ready tasks, and
nothing cancels one (`WF` for steps, `SF` where a statement waits for a lock or a
connection that others take and give up: PostgreSQL and the pool queue their waiters).
Nobody has to send a request, retry or make a decision; rollbacks, failures and crashes
are never forced. `Console` assumes that calls are answered or fail, that the stream and
its generator go on, and that the backend comes back; the user and the other writers of
a thread owe nothing. `Quiet` stutters when no request is in flight, so that TLC's
deadlock check still finds a handler that is stuck. A counterexample with fairness is
never the system just stopping.

### Disagreements found

| Run | Property | What happens |
|---|---|---|
| `audit_clock` | `ChainVerifies` | `created_at` is a wall clock (`audit_service.py:72`) and orders the chain: after a tie or a step back `verify` rejects a chain nobody touched |
| `evidence_unknown` | `FileReallyExists` | a commit that took effect but whose answer was lost is compensated: the row stays without its object (`evidence_service.py:156`) |
| `evidence_refused` | `RefusedOnlyAsDuplicate` | a missing parent violates the foreign key and is answered `DUPLICATE_EVIDENCE` (`evidence_service.py:151`) |
| `workflow_crash` | `WaitingIsResumable` | a crash between two checkpoints (or, without a crash, an exception of the checkpointer there) leaves WAITING_REVIEW without an interrupt; `resume` answers 409 for ever (`workflow_service.py:74`), while `graph/README.md:18` calls the state recoverable |
| `workflow_lost` | `AcceptedIsRecorded` | two concurrent resumes are both answered 200 and one decision is lost (`workflow_service.py:99`) |

`SteadyClock` (every step of the clock is positive) is the premise under which the
chain is correct, and nothing in the code establishes it. `evidence` is checked with
`Unknown = FALSE` for the same reason. With the chain switched off
(`AUDIT_HASH_CHAIN_ENABLED=false`) `verify` answers false from the second event on; no
run is spent on it, as nothing says what it should answer.

Met on the way, and visible in the models without a run of their own:

- Rounds grow through `await_evidence` without a limit (`graph/workflow.py:96`), while the
  console says "at most 3 rounds" (`src/frontend/src/App.vue:233`). `CaseReview` and `RoundsMatchHistory`
  describe what the code does.
- Any failure of the recovery forgets the last thread (`App.vue:134`), also while the
  backend restarts, although `src/docs/frontend.md:12` has the page come back to it
  (`Failed`). An event source that is refused meanwhile stays closed (`Refused`); this is
  the exception `CatchesUp` names.
- An answer that is older than the snapshots received meanwhile is shown over them, until
  the next checkpoint (the last exception of `CatchesUp`).
- A name whose stem is cut at 200 characters just behind an inner ".pdf", with no suffix
  of its own, is taken for a PDF (`file_validation.py:30`; the exception of
  `TypeJudgedByName`).
- A name that ends in dots and underscores, such as `a.pdf_.`, has no suffix until its stem
  is stripped (`file_validation.py:26`); then it has the inner one and is taken for a PDF.
  `TypeJudgedByName` therefore says that no letter or hyphen follows the extension, not that
  nothing does: the proof of `TypesJudged` asks for exactly that.
- NFKC makes dots and letters of other characters (`file_validation.py:25`): a name sent with a full
  stop of full width, U+FF0E, is judged by the extension it shows, not by the characters sent.
- The stem keeps a hyphen it begins with (`file_validation.py:26` strips dots and
  underscores only): `-x.pdf` is stored as it is.

What properties with broad names do not say:

- `ImplementsLifecycle` allows a second `EVIDENCE_DELETED` of an evidence that is gone, which
  two overlapping deletions do record (`evidence_repository.py:38`).
- `OrphansAccounted` and `UploadsSettled` exempt uploads that died in a crash: nothing in the
  code looks for what they left.
- `SummaryIsCurrent` relates the summary to the evidence count in the state, not the count to
  the table: evidence that changes while a request is in flight is counted next time
  (`workflow_service.py:97`).
- `ColumnsAsAudited` speaks of the columns a PATCH changes; the event in the code names
  every field of the request, changed or not.
- `ClearedIsUnfollowed` is about the event stream. The answer of a decision that was in flight
  when the board was cleared fills it again (`App.vue:139`); `OneThread` names the exception.

## 4. What is proved

Every theorem holds for every value of the constants that the module's `ASSUME` admits.

| Module | Theorem | States | Premises |
|---|---|---|---|
| `AuditChainProofs` | `TypeCorrect` | `Spec => []TypeOK` | – |
| | `Exclusion` | `Spec => []OneWriterPerChain` | – |
| | `ChainCorrect` | `Spec => []ChainVerifies` | `SteadyClock`, `ChainEnabled` |
| | `AppendOnly` | `Spec => AppendsAtTheEnd` | `SteadyClock`, `ChainEnabled` |
| | `GapsLocated` | `Spec => []GapLocated` | `SteadyClock`, `ChainEnabled` |
| `TrailProofs` | `TrailImplemented` | `Spec => ImplementsTrail` | `SteadyClock`, `ChainEnabled` |
| `EvidenceProofs` | `TypeCorrect` | `Spec => []TypeOK` | – |
| | `FilesUnique` | `Spec => []UniqueFile` | – |
| | `RefusalsExplained` | `Spec => []RefusedForCause` | – |
| | `RowsKeepObjects` | `Spec => []RowHasObject` | `~Unknown` |
| | `NoOrphanForgotten` | `Spec => []OrphansAccounted` | `~Unknown` |
| | `LifecycleImplemented` | `Spec => ImplementsLifecycle` | `~Unknown` |
| `WorkflowProofs` | `TypeCorrect` | `Spec => []TypeOK` | – |
| | `RoundsMatch` | `Spec => []RoundsMatchHistory` | – |
| | `EndsDecided` | `Spec => []EndsAsDecided` | – |
| | `SummaryCurrent` | `Spec => []SummaryIsCurrent` | – |
| | `NeverStranded` | `Spec => []StrandedOnlyMidRun` | – |
| | `AcceptedKept` | `Spec => []AcceptedIsRecorded` | `OneAtATime` |
| | `ReviewImplemented` | `Spec => ImplementsReview` | `OneAtATime` |
| `TransactionsProofs` | `TypeCorrect` | `Spec => []TypeOK` | – |
| | `UpdatesAudited` | `Spec => []ColumnsAsAudited` | – |
| | `NumbersDistinct` | `Spec => []NumbersNeverClash` | – |
| `DeadlockProofs` | `CircleFree` | `Spec => []NoDeadlock` | – |
| `IntakeProofs` | `IntakeTyped` | `Spec => []TypeOK` | – |
| | `NamesSafe` | `Spec => []StoredNameSafe` | – |
| | `TypesJudged` | `Spec => []TypeJudgedByName` | – |
| | `GoodNamesAccepted` | `Spec => []GoodNamesPass` | – |
| | `SizesJudged` | `Spec => []SizeJudged` | – |
| `ConsoleProofs` | `TypeCorrect` | `Spec => []TypeOK` | – |
| | `BoardStaysClear` | `Spec => []ClearedIsUnfollowed` | – |
| | `BoardsAgree` | `Spec => []OneThread` | – |

`AuditChainProofs`. `OneWriterPerChain` is not inductive: it does not say that a session
with rows holds a lock. `LockInv` adds to `TypeOK` that a session past its lock step,
or with flushed rows, is a holder of its key and that one that will still insert has
something left to insert (`HolderInv`), that a key has at most one holder
(`ExclusiveInv`), and that every set of rows a statement may see has a last row
(`LastInv`, without which `latest` would return nothing definite). It needs neither the
clock nor the hash, so exclusion holds even where verification fails. `ChainInv` adds
that no row, committed or not, is later than the clock; that what a session with rows
sees of its case is intact and its own rows come last; and that the hash a session is
about to use is that of the last row it sees. A session past `ReadLatest` holds the
lock, so no other session commits to its case before it does (`ChainCommitStep`); with
a steady clock its new row is later than everything in its view, and adding a last row
changes nothing before any other row (`ValidAfterInsert`, `ChainInsertStep`). `OrderInv`
keeps every chain finite and every part of it with a first row, which an induction over
finite sets would otherwise have to provide; the first row behind a gap then links to a
hash that the rows before the gap cannot have (`GapFound`).

`TrailProofs`. `AuditTrail` sees the types of a case in the order of the listing, where the
place of a row is the number of rows before it. `Ranked` says that every place is taken by
exactly one row, and `TypesOf` is the list of types; a row that is later than all others
is appended to it and moves none (`ListedAfterInsert`). `RecordInv` says of every
transaction which part of its script it has done: what it sees of its case is the committed
list with exactly that part behind it, and what is done and what is left make one script.
So a commit adds a whole script. `CaseInv` (a case exists exactly when its log is not
empty) and `AloneInv` (nobody shares a case that is not committed) tell whether the commit
is a `Create` or a `Record`. `SteadyClock` is needed, as the run `audit_clock` shows;
`ChainEnabled` is a premise because the order of the rows comes out of `ChainInv`.

`EvidenceProofs`. `TypeInv` is `TypeOK` and that a deletion under way has a target.
`UniqueInv` extends `UniqueFile` to rows inserted and not yet committed, which is what
the unique index sees, and says where the handler of a row's upload can be; it needs no
premise, so a lost answer never leads to a second row. `CauseInv` says that an upload has
an error only once it has given up, that every row was recorded `CREATED`, and that
an error that is answered 409 comes with another upload of the file that was, or with a parent
the database refused. The log only grows, so the cause outlives the row. It too needs no
premise and bounds what `evidence_refused` shows: only a refused parent is misreported.
`StoreInv` ties every statement of
an upload to its object (none before `put`, one from then to the commit, and only an
upload that is through has a row) and every deletion to the object it has removed;
this is false once an answer may be lost (run `evidence_unknown`), hence the premise.
`LifeInv` ties the statement to what the log says (`StageFits`): an id has a row
exactly while the last thing said of it is "live". With it every step of `Evidence`
is a step of `EvidenceLifecycle` or a stutter, the second deletion of an evidence that is
gone included (`LifeDeletion`).

`WorkflowProofs`. Threads are raced by requests that work on stale copies, so the invariant
speaks of every checkpoint in play, the latest one and the copy of each request
(`StoryInv`): its status fits the node it leads to (`StatusFits`), and its round, its
history and that node fit each other (`RoundFits`). Every node leads from a checkpoint
that fits to one that fits (`NodeFits`), whoever runs it, so it does not matter whose
checkpoint becomes the latest. `ThreadInv` says that a checkpoint number stands for one
checkpoint and that a question belongs to a pause; `CarriedInv` that, as long as no
request was cut short while it ran the graph, an unfinished checkpoint without a question has
a request that saved it and goes on with it: whoever overtakes it takes that duty over.
`SerialInv` says of a single
request that it works on the latest checkpoint and, with the same premise, that its number is in the
history once its decision is used up; `OneAtATime` (`Requests` has one member) is needed, as the run
`workflow_lost` shows for two.

`TransactionsProofs`. `UpdateInv` says that a PATCH that has flushed holds the lock of
its case row and that the version it will commit is still its own dirty columns on top
of the committed ones: with `ExclusiveInv` (no lock conflicts with another's) nobody
else can commit to the row meanwhile. `NumberInv` says that numbers drawn and not yet
used are distinct, behind the sequence and not among the committed ones.

`DeadlockProofs`. A circle of waiting transactions is a set of them in which each waits for
a lock another one holds. `HoldingInv` says which locks a transaction can hold at each
statement. Locks are asked for in an order by their kind (a new number or the case row, the
file's index key, rows of evidence, the advisory key), with one exception: a deletion locks
its row and then the children it has to clear, and both are rows. What excludes a circle of
deletions is that the rows of evidence are a forest (`ForestInv`: no set of ids consists of
each other's parents): the target of the deletion furthest down is nobody's parent in the
circle. `DeleteInv` says that a deletion holds its row and that whatever it has locked to
clear is a child of it; `ParentInv` that an upload past the look-up of its parent keeps the
parent from being deleted, so a new row never joins a tree that is being taken away.
`StoredAssumption` says the same of the rows a database starts with: ids are a primary key,
a parent is a row (foreign key), and a parent is set only by the insertion of a new row
below an existing one or taken away by ON DELETE SET NULL, so no circle can arise.

`IntakeProofs`. `SizeInv` is the loop invariant of the reading: as long as nothing is
refused, what is in the temporary file is what was read. The theorems about names follow one
window through every operation of `safe_filename`: `Reads(t, f, a)` says that the text `t` is
what stands in the name `f` behind its first `a` pieces, that a separator or a blank is in
front of it, and that only separators, dots and blanks are behind it. Taking the last part of
the path and stripping keep it (`ReadsPathName`, `ReadsStrip`). So does `Expand`, applied to the
part and to the whole name, as what a table makes of a part is a part of what it makes of the
whole (`ReadsExpand`); that is what makes the name that is judged a part of the one `Shown`. So
the suffix is found where the shown name has it (`SuffixFacts`), the cleaned name has only
what may be in one (`CleanFacts`) and the second look at its suffix finds the same one
unless the stem was cut (`OwnSuffix`). `FlattenSeq`, of which `re.sub` and `Expand` are
made, is a recursive function on the length; what it computes is proved at the least
length at which it would fail (`Flattened`). `PiecesAssumption` says that the pieces are told
apart, that NFKC leaves letters and signs alone (what it changes is a piece of the table), and that
an extension that may be accepted is a dot and letters; the settings of the repository
satisfy it (`config.py:22`), an administrator who configured ".tar.gz" would not.

`ConsoleProofs`. `StateInv` adds to the types that calls and streams name threads that
exist and that an empty board has no stream. `PageInv` says of a page whose starts and
decisions did not overlap another call: at most one call concerns the workflow, its
answer will fit the board it finds, and board, stream and localStorage agree already.

Model-checked only: liveness under fairness (`LockServed`, `UploadsSettled`,
`DecisionsCarriedOut`, `RequestsEnd`, `CatchesUp`), because the prover does not handle it, and
the `violation` runs, which are counterexamples. Every invariant, every action property and
every refinement that a passing run checks is also a theorem. Two things were
proved without the induction theorems of the library, which take an operator as a
parameter: statements about a number or a finite set of any size are proved of the least
counterexample, which exists because strict inclusion of finite sets is well-founded
(`Least` in `IntakeProofs`), or are carried as an invariant (`OrderInv`, `Ranked`,
`ForestInv`).

## 5. Not modelled

- `get`, `list` and `health`: they read what the models already hold.
- Upload cancellation by the web server: its effect on the stores is a crash of one
  request, which `Crash` covers for all requests at once.
- Hashing, case numbers, settings, wiring, logging, error formats, the schemas of
  requests and answers and the columns no property tells apart: no behaviour over time.
  The migration runs once, by hand; its constraints, its sequence and its trigger are in
  the models that rely on them. `agents/` is empty. MinIO, PostgreSQL, LangGraph, browser
  and proxy are modelled from the way the code uses them and marked external in the map.
- The list of cases and the fields of the console: they are not related to the board.
- Whether the checkpointer's single connection (`main.py:24`) recovers once it is lost: that is
  up to the driver. Calls of it that raise are `CallFails`. A temporary file left by a crash
  goes with its container.
- Tampering with rows: the model has no action for it; `GapLocated` looks at what
  `verify` answers when a row is missing.

## 6. Plan

The order followed the risk: what is stored for ever and cannot be repaired first (the
audit chain), then what spans two stores (evidence), then the workflow, then the rest.

1. Done: `AuditLog`, `AuditTrail`, `AuditChain`; `EvidenceLifecycle`, `Evidence`;
   `CaseReview`, `Workflow`; `Transactions`; `FileIntake`; `Console`.
2. Done: the proofs of section 4.
3. Done: the refinement of `AuditTrail`, `NoDeadlock` for any forest of evidence, and the
   names of `FileIntake` (section 4). Left to TLC: liveness.
4. A composition of `Evidence` and `Workflow` would add little: the number of pieces of
   evidence changes freely in `Workflow` already.

## 7. Running

    tlc -config audit_chain.cfg MCAuditChain
    tlc -config evidence.cfg Evidence
    tlc -config workflow_races.cfg Workflow
    tlc -config transactions.cfg MCTransactions
    tlc -config intake.cfg MCFileIntake
    tlc -config console.cfg Console
    tlapm EvidenceProofs.tla
    tlapm DeadlockProofs.tla

The configurations of section 3's second table end with the counterexample named there.
