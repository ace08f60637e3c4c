----------------------------- MODULE AuditChain -----------------------------
(***************************************************************************)
(* Database transactions that append to the audit chains, as the handlers of *)
(* case_service.py and evidence_service.py run them side by side.            *)
(*                                                                         *)
(* A session executes one transaction at a time: a script of one or two       *)
(* calls of AuditService.append on one case, then a commit.  Each call takes   *)
(* the advisory lock of the case, reads the last row, reads the clock and       *)
(* inserts; every await between them is a place where other sessions run.       *)
(* PostgreSQL is external: READ COMMITTED statements see what is committed      *)
(* and the session's own rows, and an xact lock is held to the end of the       *)
(* transaction.                                                              *)
(***************************************************************************)
EXTENDS AuditLog

CONSTANTS
    Sessions,      \* database sessions, one per request in flight
    Cases,         \* case ids
    NoCase,        \* the case of a session without a transaction
    Scripts,       \* the transactions to run on a case that exists
    LockKeys,      \* values of hashtext(case_id), a 32-bit hash
    LockKey,       \* [Cases -> LockKeys]; two cases may share a key
    Ids,           \* primary keys uuid4 may draw
    ClockSteps,    \* what the clock may advance between two readings
    ChainEnabled,  \* AUDIT_HASH_CHAIN_ENABLED
    MaxAppends     \* bound: calls of append in a behaviour

\* The appends of every transaction of the services, in their order.
AppendScripts ==
    { <<"CASE_UPDATED">>, <<"EVIDENCE_UPLOAD_STARTED">>, <<"EVIDENCE_HASHED">>,
      <<"EVIDENCE_STORED", "EVIDENCE_CREATED">>, <<"EVIDENCE_UPLOAD_FAILED">>,
      <<"EVIDENCE_DELETED">> }

\* A faulty event type that is not in AuditEventType.
MisspeltScript == <<"CASE_CREATE">>

CreateScript == <<"CASE_CREATED">>

ASSUME ChainAssumption ==
    /\ NoCase \notin Cases
    /\ Scripts \subseteq AppendScripts
    /\ LockKey \in [Cases -> LockKeys]
    /\ Ids \subseteq Int
    /\ ClockSteps \subseteq Int
    /\ ChainEnabled \in BOOLEAN
    /\ MaxAppends \in Nat

VARIABLES
    cases,     \* committed rows of the table cases
    log,       \* case -> committed rows of audit_events
    tx,        \* session -> the transaction it is in
    holders,   \* lock key -> the sessions that hold the advisory lock
    clock,     \* the wall clock of the application
    budget     \* appends that may still be asked for

vars == <<cases, log, tx, holders, clock, budget>>

\* AuditEventType
Types ==
    { "CASE_CREATED", "CASE_UPDATED", "EVIDENCE_UPLOAD_STARTED", "EVIDENCE_HASHED",
      "EVIDENCE_STORED", "EVIDENCE_CREATED", "EVIDENCE_UPLOAD_FAILED", "EVIDENCE_DELETED" }

Event == [id : Int, type : Types, at : Int, prev : Seq(Int \X Types \X Int),
          hash : Seq(Int \X Types \X Int)]

Steps == {"idle", "lock", "read", "insert", "commit"}

NewTx(pc, c, script) == [pc |-> pc, case |-> c, todo |-> script, rows |-> {}, prev |-> NoHash]

Idle == NewTx("idle", NoCase, << >>)

TypeOK ==
    /\ cases \subseteq Cases
    /\ log \in [Cases -> SUBSET Event]
    /\ tx \in [Sessions -> [pc : Steps, case : Cases \cup {NoCase}, todo : Seq(Types),
                            rows : SUBSET Event, prev : Seq(Int \X Types \X Int)]]
    /\ holders \in [LockKeys -> SUBSET Sessions]
    /\ clock \in Int
    /\ budget \in Nat

Init ==
    /\ cases = {}
    /\ log = [c \in Cases |-> {}]
    /\ tx = [s \in Sessions |-> Idle]
    /\ holders = [k \in LockKeys |-> {}]
    /\ clock = 0
    /\ budget = MaxAppends

-----------------------------------------------------------------------------
UsedIds ==
    {e.id : e \in UNION ({log[c] : c \in Cases} \cup {tx[s].rows : s \in Sessions})}

Start(s, c, script) ==
    /\ tx[s].pc = "idle"
    /\ Len(script) <= budget
    /\ budget' = budget - Len(script)
    /\ tx' = [tx EXCEPT ![s] = NewTx("lock", c, script)]
    /\ UNCHANGED <<cases, log, holders, clock>>

\* create_case: a new case row (its id is fresh), then the first append.
BeginCreate(s, c) ==
    /\ c \notin cases
    /\ \A t \in Sessions : tx[t].case # c
    /\ Start(s, c, CreateScript)

\* The other handlers look the case up first and answer 404 without it.
RequireCase(c) == c \in cases

BeginAppend(s, c, script) ==
    /\ RequireCase(c)
    /\ Start(s, c, script)

Key(s) == LockKey[tx[s].case]

\* A faulty pg_try_advisory_xact_lock whose answer is not looked at.
LockNotAwaited(s) == s \in Sessions

\* pg_advisory_xact_lock: free, or already held by this very session.
LockFree(s) == holders[Key(s)] \subseteq {s}

\* A faulty lock that is taken on a connection of its own, and given up with it.
LockElsewhere(s) ==
    /\ tx[s].pc = "lock"
    /\ LockFree(s)
    /\ tx' = [tx EXCEPT ![s].pc = "read"]
    /\ UNCHANGED <<cases, log, holders, clock, budget>>

LockCaseChain(s) ==
    /\ tx[s].pc = "lock"
    /\ LockFree(s)
    /\ holders' = [holders EXCEPT ![Key(s)] = @ \cup {s}]
    /\ tx' = [tx EXCEPT ![s].pc = "read"]
    /\ UNCHANGED <<cases, log, clock, budget>>

\* The rows of its case that a statement of session s sees.
View(s) == log[tx[s].case] \cup tx[s].rows

\* A faulty read on another connection: the session's own rows are missed.
LatestCommitted(s) == PreviousHash(log[tx[s].case])

LatestHash(s) == IF ChainEnabled THEN PreviousHash(View(s)) ELSE NoHash

ReadLatest(s) ==
    /\ tx[s].pc = "read"
    /\ tx' = [tx EXCEPT ![s].pc = "insert", ![s].prev = LatestHash(s)]
    /\ UNCHANGED <<cases, log, holders, clock, budget>>

\* datetime.now(UTC), the hash and the flush; the next append of the
\* transaction asks for the lock again.
Insert(s) ==
    /\ tx[s].pc = "insert"
    /\ \E step \in ClockSteps, id \in Ids \ UsedIds :
         /\ clock' = clock + step
         /\ tx' = [tx EXCEPT ![s].pc = IF Len(tx[s].todo) > 1 THEN "lock" ELSE "commit",
                             ![s].todo = Tail(@),
                             ![s].rows = @ \cup {NewEvent(id, Head(tx[s].todo), clock + step,
                                                          tx[s].prev)}]
    /\ UNCHANGED <<cases, log, holders, budget>>

\* A faulty session lock, which the end of the transaction does not give up.
NotReleased(s) == holders' = holders

\* Xact locks are given up when the transaction ends, never before.
Release(s) == holders' = [k \in LockKeys |-> holders[k] \ {s}]

Commit(s) ==
    /\ tx[s].pc = "commit"
    /\ cases' = cases \cup {tx[s].case}
    /\ log' = [log EXCEPT ![tx[s].case] = View(s)]
    /\ tx' = [tx EXCEPT ![s] = Idle]
    /\ Release(s)
    /\ UNCHANGED <<clock, budget>>

\* A faulty AUTOCOMMIT connection: what was flushed stays.
RollbackNothing(s) ==
    /\ tx[s].pc # "idle"
    /\ log' = [log EXCEPT ![tx[s].case] = View(s)]
    /\ cases' = cases \cup {tx[s].case}
    /\ tx' = [tx EXCEPT ![s] = Idle]
    /\ Release(s)
    /\ UNCHANGED <<clock, budget>>

\* An exception, a lost connection or a crash of the process.
Rollback(s) ==
    /\ tx[s].pc # "idle"
    /\ tx' = [tx EXCEPT ![s] = Idle]
    /\ Release(s)
    /\ UNCHANGED <<cases, log, clock, budget>>

\* No request in flight: the service may stay that way.
Quiet ==
    /\ \A s \in Sessions : tx[s].pc = "idle"
    /\ UNCHANGED vars

Next ==
    \/ \E s \in Sessions :
         \/ \E c \in Cases : BeginCreate(s, c)
         \/ \E c \in Cases, script \in Scripts : BeginAppend(s, c, script)
         \/ LockCaseChain(s)
         \/ ReadLatest(s)
         \/ Insert(s)
         \/ Commit(s)
         \/ Rollback(s)
    \/ Quiet

Spec == Init /\ [][Next]_vars

\* Handlers run on until they end; PostgreSQL queues the waiters of a lock, so
\* one that finds it free over and over again gets it.
Fairness ==
    \A s \in Sessions :
        /\ SF_vars(LockCaseChain(s))
        /\ WF_vars(ReadLatest(s) \/ Insert(s) \/ Commit(s))

FairSpec == Spec /\ Fairness

-----------------------------------------------------------------------------
(* Two transactions with rows on one chain would link them to the same row.  *)
(* The advisory lock keeps every other writer of the case, and of any case    *)
(* that shares its key, out until the rows are committed or rolled back.      *)
OneWriterPerChain ==
    \A s, t \in Sessions :
        s # t /\ tx[s].rows # {} /\ tx[t].rows # {} => Key(s) # Key(t)

(* The premise of the chain's order: the clock is never set back, and two       *)
(* readings never give the same microsecond.  Nothing in the code ensures it.   *)
SteadyClock == \A step \in ClockSteps : step > 0

(* GET .../audit-events/verify answers valid for every case at every moment:  *)
(* no interleaving, rollback or crash of appends breaks an untouched chain.   *)
ChainVerifies == \A c \in Cases : Verify(log[c]).valid

(* Should a row be missing from the middle of a chain, verify reports it, and  *)
(* names the first row that follows the gap.                                  *)
GapLocated ==
    \A c \in Cases : \A e \in log[c] :
        LET later == {f \in log[c] : Earlier(e, f)}
        IN  later # {} =>
              Verify(log[c] \ {e}) =
                [valid |-> FALSE, event_count |-> Cardinality(log[c]) - 1,
                 broken_event_id |-> {(CHOOSE f \in later : Before(later, f) = {}).id}]

(* Committed rows stay, and what a commit adds is listed after all of them:   *)
(* a reader that has seen a prefix of the log never finds a row slipped in.   *)
AppendsAtTheEnd ==
    [][\A c \in Cases :
         /\ log[c] \subseteq log'[c]
         /\ \A e \in log[c], f \in log'[c] \ log[c] : Earlier(e, f)]_vars

(* The log a reader lists is a list of whole transactions, CASE_CREATED first. *)
Trail == INSTANCE AuditTrail WITH
             trail <- [c \in Cases |-> [i \in 1 .. Cardinality(log[c]) |->
                                           Listing(log[c])[i].type]]

ImplementsTrail == Trail!Spec

(* A transaction waiting for the lock of its case does not wait for ever:     *)
(* whoever holds it commits, and never waits for a second lock meanwhile.     *)
LockServed == \A s \in Sessions : tx[s].pc = "lock" ~> tx[s].pc # "lock"
=============================================================================
