----------------------------- MODULE Transactions -----------------------------
(***************************************************************************)
(* The database transactions of the case and evidence services, one for each   *)
(* request: the locks their statements take in PostgreSQL, the connection they   *)
(* hold, and what update_case makes of a row it has read without a lock.          *)
(*                                                                         *)
(* PostgreSQL is external.  A lock is held until the transaction ends; a           *)
(* statement takes the locks it needs one after another and waits for those of     *)
(* others.  Under READ COMMITTED an UPDATE changes the version of the row that is  *)
(* the latest when it has the lock.  The objects of evidence, the search for       *)
(* duplicates and the hashes of audit events are the subject of Evidence and        *)
(* AuditChain.  A row of evidence has the id its upload drew: the upload itself.     *)
(***************************************************************************)
EXTENDS Naturals, FiniteSets

CONSTANTS
    Requests,      \* requests, each with a session of its own
    Menu,          \* what a request may ask for: kind, case, and what the kind needs
    Cases,         \* cases that exist from the start
    Columns,       \* columns of a case a PATCH may name
    Values,        \* their values
    NoEvidence,    \* no parent_evidence_id; no target
    Stored,        \* rows of evidence at the start: id, case, file, parent
    LockKey,       \* case -> hashtext of its id, the key of its advisory lock
    PoolSize       \* connections the engine opens at most

ASSUME TransactionsAssumption ==
    /\ Menu # {} /\ Values # {}
    /\ \A job \in Menu :
         /\ job.kind \in {"create", "update", "upload", "record", "delete"}
         /\ job.kind = "update" =>
              /\ job.case \in Cases /\ DOMAIN job.patch \subseteq Columns
              /\ \A f \in DOMAIN job.patch : job.patch[f] \in Values
    /\ \A row \in Stored : DOMAIN row = {"id", "case", "file", "parent"}
    /\ PoolSize \in Nat \ {0}

\* The rows a database can have: ids are keys, None and the ids uploads will draw
\* are none of them, a parent is a row, and no rows are each other's ancestors.
ASSUME StoredAssumption ==
    LET ids == {row.id : row \in Stored}
    IN  /\ NoEvidence \notin Requests /\ ids \cap (Requests \cup {NoEvidence}) = {}
        /\ \A row, other \in Stored : row.id = other.id => row = other
        /\ \A row \in Stored : row.parent \in ids \cup {NoEvidence}
        /\ \A X \in (SUBSET ids) \ {{}} :
             \E x \in X : \A row \in Stored : row.id \in X => row.parent # x

VARIABLES
    req,        \* request -> its job, its statement, and what it has read or written
    held,       \* request -> locks its transaction holds
    cases,      \* case -> the committed version of its row
    rows,       \* committed rows of evidence
    written,    \* case -> column -> value the last audited PATCH that changed it gave it
    sequence,   \* last value of case_number_seq
    numbers     \* numbers of the committed cases that were created

vars == <<req, held, cases, rows, written, sequence, numbers>>

First == [create |-> "number", update |-> "load", upload |-> "insert",
          record |-> "lock", delete |-> "find"]

Outside == {"idle", "connect", "done", "failed"}

Statements == {"number", "create", "load", "flush", "insert", "refer", "find", "remove",
               "clear", "lock", "event", "commit"}

FirstVersion == CHOOSE version \in [Columns -> Values] : TRUE

NoTransaction(pc) ==
    [pc |-> pc, job |-> CHOOSE job \in Menu : TRUE, loaded |-> FirstVersion,
     row |-> FirstVersion, number |-> 0, target |-> NoEvidence]

Init ==
    /\ req = [r \in Requests |-> NoTransaction("idle")]
    /\ held = [r \in Requests |-> {}]
    /\ cases = [c \in Cases |-> FirstVersion]
    /\ rows = Stored
    /\ written = [c \in Cases |-> FirstVersion]
    /\ sequence = 0
    /\ numbers = {}

-----------------------------------------------------------------------------
(* Locks *)

Lock(on, mode) == [on |-> on, mode |-> mode]

\* Of the row locks of PostgreSQL; an advisory lock and a key of a unique index
\* are taken by one transaction at a time.
Conflict(mode, other) ==
    \/ "UPDATE" \in {mode, other}
    \/ mode = other /\ mode = "NO KEY UPDATE"

Blocks(q, r, lock) ==
    q # r /\ \E l \in held[q] : l.on = lock.on /\ Conflict(l.mode, lock.mode)

SameFile(row, job) == row.case = job.case /\ row.file = job.file

\* The columns a flush writes: those the PATCH gives a value other than the one read.
Dirty(r) ==
    {f \in DOMAIN req[r].job.patch : req[r].job.patch[f] # req[r].loaded[f]}

\* A faulty update_case that locks the row as SELECT ... FOR UPDATE does.
ForUpdate == "UPDATE"

\* No key column changes.
UpdateMode == "NO KEY UPDATE"

Children(e) == {row \in rows : row.parent = e}

\* The locks the statement r is at cannot do without.
Wants(r) ==
    LET job == req[r].job
    IN  CASE req[r].pc = "flush" /\ Dirty(r) # {} ->
               {Lock(<<"case", job.case>>, UpdateMode)}
          [] req[r].pc = "create" ->
               {Lock(<<"number", req[r].number>>, "UPDATE")}
          [] req[r].pc = "insert" ->
               {Lock(<<"file", job.case, job.file>>, "UPDATE")}
                 \cup {Lock(<<"row", row.id>>, "KEY SHARE") : row \in {x \in rows : SameFile(x, job)}}
          [] req[r].pc = "refer" ->
               {Lock(<<"case", job.case>>, "KEY SHARE"), Lock(<<"row", job.parent>>, "KEY SHARE")}
          [] req[r].pc = "remove" ->
               {Lock(<<"row", req[r].target>>, "UPDATE")}
          [] req[r].pc = "clear" ->
               {Lock(<<"row", row.id>>, "NO KEY UPDATE") : row \in Children(req[r].target)}
          [] req[r].pc = "lock" ->
               {Lock(<<"key", LockKey[job.case]>>, "UPDATE")}
          [] req[r].pc = "event" ->
               {Lock(<<"case", job.case>>, "KEY SHARE")}
          [] OTHER -> {}

Acquire(r) ==
    /\ \E lock \in Wants(r) \ held[r] :
         /\ \A q \in Requests : ~Blocks(q, r, lock)
         /\ held' = [held EXCEPT ![r] = @ \cup {lock}]
    /\ UNCHANGED <<req, cases, rows, written, sequence, numbers>>

At(r, pc) == req[r].pc = pc /\ Wants(r) \subseteq held[r]

Goto(r, pc) == req' = [req EXCEPT ![r].pc = pc]

\* A faulty session that keeps its locks when the request is over.
EndUnreleased(r, pc) ==
    /\ req' = [req EXCEPT ![r] = NoTransaction(pc)]
    /\ held' = held

\* The transaction is over, one way or the other.
End(r, pc) ==
    /\ req' = [req EXCEPT ![r] = NoTransaction(pc)]
    /\ held' = [held EXCEPT ![r] = {}]

-----------------------------------------------------------------------------
(* A request and its connection *)

Arrive(r) ==
    /\ req[r].pc = "idle"
    /\ \E job \in Menu : req' = [req EXCEPT ![r].pc = "connect", ![r].job = job]
    /\ UNCHANGED <<held, cases, rows, written, sequence, numbers>>

\* A faulty session that is not closed when its request fails.
ConnectedUntilDone(r) == req[r].pc \notin Outside \ {"failed"}

Connected(r) == req[r].pc \notin Outside

\* The first statement takes a connection from the pool.
Connect(r) ==
    /\ req[r].pc = "connect"
    /\ Cardinality({q \in Requests : Connected(q)}) < PoolSize
    /\ Goto(r, First[req[r].job.kind])
    /\ UNCHANGED <<held, cases, rows, written, sequence, numbers>>

\* Any statement may raise, and the pool times out: the session is closed.
Fail(r) ==
    /\ req[r].pc \notin Outside \ {"connect"}
    /\ End(r, "failed")
    /\ UNCHANGED <<cases, rows, written, sequence, numbers>>

-----------------------------------------------------------------------------
(* create_case *)

\* A faulty number, counted instead of drawn.
CountedNumber == Cardinality(numbers) + 1

NextSequenceValue == sequence + 1

\* nextval is not undone by a rollback.
DrawNumber(r) ==
    /\ At(r, "number")
    /\ req' = [req EXCEPT ![r].pc = "create", ![r].number = NextSequenceValue]
    /\ sequence' = sequence + 1
    /\ UNCHANGED <<held, cases, rows, written, numbers>>

\* uq_cases_case_no
InsertCase(r) ==
    /\ At(r, "create")
    /\ IF req[r].number \in numbers THEN End(r, "failed") ELSE Goto(r, "lock") /\ held' = held
    /\ UNCHANGED <<cases, rows, written, sequence, numbers>>

-----------------------------------------------------------------------------
(* update_case *)

Load(r) ==
    /\ At(r, "load")
    /\ req' = [req EXCEPT ![r].pc = "flush", ![r].loaded = cases[req[r].job.case]]
    /\ UNCHANGED <<held, cases, rows, written, sequence, numbers>>

\* A faulty flush that writes every column the object has.
WholeRow(r) ==
    [f \in Columns |-> IF f \in DOMAIN req[r].job.patch THEN req[r].job.patch[f]
                       ELSE req[r].loaded[f]]

\* The new version of the row: the latest one, with the columns that are dirty.
NewVersion(r) ==
    [f \in Columns |-> IF f \in Dirty(r) THEN req[r].job.patch[f]
                       ELSE cases[req[r].job.case][f]]

Flush(r) ==
    /\ At(r, "flush")
    /\ req' = [req EXCEPT ![r].pc = "lock", ![r].row = NewVersion(r)]
    /\ UNCHANGED <<held, cases, rows, written, sequence, numbers>>

-----------------------------------------------------------------------------
(* The last transaction of upload_evidence, and delete_evidence *)

\* uq_evidence_case_sha256
InsertEvidence(r) ==
    /\ At(r, "insert")
    /\ IF \E row \in rows : SameFile(row, req[r].job) THEN End(r, "failed")
       ELSE Goto(r, "refer") /\ held' = held
    /\ UNCHANGED <<cases, rows, written, sequence, numbers>>

\* fk_evidence_parent_evidence_id_evidence
CheckParent(r) ==
    /\ At(r, "refer")
    /\ IF req[r].job.parent \in {row.id : row \in rows} \cup {NoEvidence}
         THEN Goto(r, "lock") /\ held' = held
         ELSE End(r, "failed")
    /\ UNCHANGED <<cases, rows, written, sequence, numbers>>

\* 404, or a row; its object is removed after this, in the same transaction.
FindEvidence(r) ==
    /\ At(r, "find")
    /\ \/ End(r, "failed")
       \/ \E row \in rows :
            /\ row.case = req[r].job.case
            /\ req' = [req EXCEPT ![r].pc = "remove", ![r].target = row.id]
            /\ held' = held
    /\ UNCHANGED <<cases, rows, written, sequence, numbers>>

-----------------------------------------------------------------------------
(* append, and the commit of every transaction *)

\* Statements that change nothing else but what the commit makes visible: the DELETE,
\* its ON DELETE SET NULL, lock_case_chain, and the insertion of the event, which
\* refers to its case.
Following == [remove |-> "clear", clear |-> "lock", lock |-> "event", event |-> "commit"]

Proceed(r) ==
    /\ req[r].pc \in DOMAIN Following
    /\ At(r, req[r].pc)
    /\ Goto(r, Following[req[r].pc])
    /\ UNCHANGED <<held, cases, rows, written, sequence, numbers>>

CommitUpdate(r) ==
    LET c == req[r].job.case
    IN  /\ cases' = IF Dirty(r) = {} THEN cases ELSE [cases EXCEPT ![c] = req[r].row]
        /\ written' = [written EXCEPT ![c] =
                         [f \in Columns |-> IF f \in Dirty(r) THEN req[r].job.patch[f] ELSE @[f]]]
        /\ UNCHANGED <<rows, numbers>>

CommitUpload(r) ==
    LET job == req[r].job
    IN  /\ rows' = rows \cup {[id |-> r, case |-> job.case, file |-> job.file, parent |-> job.parent]}
        /\ UNCHANGED <<cases, written, numbers>>

CommitDelete(r) ==
    LET gone == req[r].target
    IN  /\ rows' = {row \in rows : row.id # gone /\ row.parent # gone}
                     \cup {[row EXCEPT !.parent = NoEvidence] : row \in Children(gone)}
        /\ UNCHANGED <<cases, written, numbers>>

Commit(r) ==
    /\ At(r, "commit")
    /\ CASE req[r].job.kind = "update" -> CommitUpdate(r)
         [] req[r].job.kind = "upload" -> CommitUpload(r)
         [] req[r].job.kind = "delete" -> CommitDelete(r)
         [] req[r].job.kind = "create" -> /\ numbers' = numbers \cup {req[r].number}
                                          /\ UNCHANGED <<cases, rows, written>>
         [] OTHER -> UNCHANGED <<cases, rows, written, numbers>>
    /\ End(r, "done")
    /\ UNCHANGED sequence

-----------------------------------------------------------------------------
Handle(r) ==
    Connect(r) \/ Acquire(r) \/ DrawNumber(r) \/ InsertCase(r) \/ Load(r) \/ Flush(r)
        \/ InsertEvidence(r) \/ CheckParent(r) \/ FindEvidence(r) \/ Proceed(r) \/ Commit(r)

\* No request in flight.
Quiet ==
    /\ \A r \in Requests : req[r].pc \in {"idle", "done", "failed"}
    /\ UNCHANGED vars

Next ==
    \/ \E r \in Requests : Arrive(r) \/ Handle(r) \/ Fail(r)
    \/ Quiet

\* Whoever waits for a lock or a connection gets it in the end if it is free again
\* and again: both are queued. Nothing makes a request arrive or fail.
Fairness == \A r \in Requests : SF_vars(Handle(r))

Spec == Init /\ [][Next]_vars /\ Fairness

-----------------------------------------------------------------------------
(* Each variable holds what the tables and the requests can put there.        *)
TypeOK ==
    LET Version == [Columns -> Values]
    IN  /\ req \in [Requests -> [pc : Outside \cup Statements, job : Menu, loaded : Version,
                                 row : Version, number : Nat,
                                 target : Requests \cup {NoEvidence} \cup {row.id : row \in Stored}]]
        /\ \A r \in Requests : req[r].pc \in Outside => held[r] = {}
        /\ cases \in [Cases -> Version] /\ written \in [Cases -> Version]
        /\ sequence \in Nat /\ numbers \subseteq 1 .. sequence

Awaits(r, q) == \E lock \in Wants(r) \ held[r] : Blocks(q, r, lock)

(* No transactions ever wait for each other in a circle, whatever the mixture   *)
(* of requests, also when two cases share an advisory key: rows and index keys    *)
(* are taken before the advisory lock, and what append takes after it is never      *)
(* in the way of a change of the case.                                            *)
NoDeadlock ==
    ~ \E S \in (SUBSET Requests) \ {{}} : \A r \in S : \E q \in S : Awaits(r, q)

(* However PATCH requests that read the row before each other's commit overtake *)
(* each other, every column has the value that was written by the last PATCH in   *)
(* the audit log that changed it: none puts back a value it has merely read.       *)
ColumnsAsAudited == cases = written

(* A number drawn for a case is no other case's, committed or under way: a       *)
(* create_case never fails on uq_cases_case_no.                                   *)
NumbersNeverClash ==
    \A r \in Requests : req[r].pc = "create" =>
        /\ req[r].number \notin numbers
        /\ \A q \in Requests \ {r} : ~Blocks(q, r, Lock(<<"number", req[r].number>>, "UPDATE"))

(* A request that has arrived ends: none waits for ever for a lock or for a      *)
(* connection, with fewer connections than requests.                              *)
RequestsEnd == <>[](\A r \in Requests : req[r].pc \in {"idle", "done", "failed"})
=============================================================================
