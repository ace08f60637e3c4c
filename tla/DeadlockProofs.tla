--------------------------- MODULE DeadlockProofs ---------------------------
(***************************************************************************)
(* Proof that transactions never wait for each other in a circle: which locks    *)
(* a transaction holds at which statement, and what becomes of the tree of          *)
(* evidence while they are held.                                                  *)
(***************************************************************************)
EXTENDS TransactionsProofs

Closing == {"lock", "event", "commit"}

(* A lock a transaction holds at its statement, by what it is on.               *)
Holding(r, lock) ==
    LET job == req[r].job
        pc == req[r].pc
    IN  \/ lock.on[1] = "number"
        \/ pc \in {"flush"} \cup Closing /\ lock = Lock(<<"case", job.case>>, UpdateMode)
        \/ lock.on[1] = "case" /\ lock.mode = "KEY SHARE"
        \/ pc \in {"insert", "refer"} \cup Closing /\ job.kind = "upload"
             /\ lock = Lock(<<"file", job.case, job.file>>, "UPDATE")
        \/ pc \in {"insert", "refer"} \cup Closing /\ lock.on[1] = "row" /\ lock.mode = "KEY SHARE"
        \/ pc \in {"remove", "clear"} \cup Closing /\ lock = Lock(<<"row", req[r].target>>, "UPDATE")
        \/ pc \in {"clear"} \cup Closing /\ lock.on[1] = "row" /\ lock = Lock(lock.on, "NO KEY UPDATE")
        \/ pc \in Closing /\ lock = Lock(<<"key", LockKey[job.case]>>, "UPDATE")

HoldingInv == \A r \in Requests : \A lock \in held[r] : Holding(r, lock)

(* An id that is not to be drawn any more.                                      *)
Known(x) == x \in Requests => req[x].pc = "done"

Ids == {row.id : row \in rows}

(* The rows of evidence are a forest.                                           *)
ForestInv ==
    /\ \A row \in rows : {"id", "parent"} \subseteq DOMAIN row /\ Known(row.id) /\ row.id # NoEvidence
    /\ \A row, other \in rows : row.id = other.id => row = other
    /\ \A row \in rows : row.parent \in Ids \cup {NoEvidence}
    /\ \A X \in (SUBSET Ids) \ {{}} : \E x \in X : \A row \in rows : row.id \in X => row.parent # x

(* A deletion past its search.                                                  *)
Deleting(r) == req[r].job.kind = "delete" /\ req[r].pc \in {"remove", "clear"} \cup Closing

(* A deletion keeps its row from others, and what it has locked to clear are       *)
(* children of that row, as long as they have a parent.                           *)
DeleteInv ==
    \A r \in Requests :
      /\ Deleting(r) =>
           /\ req[r].target # NoEvidence
           /\ req[r].pc # "remove" => Lock(<<"row", req[r].target>>, "UPDATE") \in held[r]
      /\ \A row \in rows : Lock(<<"row", row.id>>, "NO KEY UPDATE") \in held[r] =>
           row.parent \in {req[r].target, NoEvidence}
      /\ \A x \in Requests : Lock(<<"row", x>>, "NO KEY UPDATE") \in held[r] => Known(x)

(* An upload past the check of its parent keeps the parent from being deleted.   *)
ParentInv ==
    \A r \in Requests : req[r].job.kind = "upload" /\ req[r].pc \in Closing =>
        \/ req[r].job.parent = NoEvidence
        \/ /\ req[r].job.parent \in Ids
           /\ Lock(<<"row", req[r].job.parent>>, "KEY SHARE") \in held[r]

-----------------------------------------------------------------------------
(* What a step does to the statement and the locks of its request              *)

(* The statement after one that has its locks.                                  *)
Follows(pc, next) ==
    \/ pc = "number" /\ next = "create"
    \/ pc = "load" /\ next = "flush"
    \/ pc = "insert" /\ next = "refer"
    \/ pc = "find" /\ next = "remove"
    \/ pc = "remove" /\ next = "clear"
    \/ pc \in {"create", "flush", "refer", "clear"} /\ next = "lock"
    \/ pc = "lock" /\ next = "event"
    \/ pc = "event" /\ next = "commit"

Advances(r) ==
    /\ Follows(req[r].pc, req'[r].pc) /\ Wants(r) \subseteq held[r]
    /\ req'[r].job = req[r].job /\ held'[r] = held[r] /\ rows' = rows
    /\ req[r].pc \in {"number", "load", "flush", "find"} \/ req'[r].target = req[r].target
    /\ req'[r].pc = "remove" => req'[r].target \in Ids
    /\ req[r].pc = "refer" => req[r].job.parent \in Ids \cup {NoEvidence}

(* It holds no lock, and is at no statement that comes after one with a lock.     *)
Released(r) ==
    /\ held'[r] = {} /\ req'[r].pc \notin {"remove", "clear", "event", "commit"}
    /\ req'[r].pc = "lock" => req'[r].job.kind = "record"

LEMMA Ending ==
    ASSUME TypeInv, NEW r \in Requests, NEW pc \in {"done", "failed"}, End(r, pc)
    PROVE  Released(r) /\ req'[r].pc = pc
<1>1. held'[r] = {} /\ req'[r].pc = pc
  BY EndRequest DEF Outside
<1> QED
  BY <1>1 DEF Released

LEMMA Going ==
    ASSUME TypeInv, NEW r \in Requests, NEW pc \in Statements, Goto(r, pc), held' = held,
           rows' = rows, At(r, req[r].pc), Follows(req[r].pc, pc), pc # "remove",
           req[r].pc = "refer" => req[r].job.parent \in Ids \cup {NoEvidence}
    PROVE  Advances(r)
<1>1. req \in [Requests -> Request]
  BY Types DEF TypeInv
<1>2. req'[r].pc = pc /\ req'[r].job = req[r].job /\ req'[r].target = req[r].target
  BY <1>1 DEF Goto, Request
<1> QED
  BY <1>2 DEF Advances, At

LEMMA Moves ==
    ASSUME TypeInv, NEW r \in Requests, Arrive(r) \/ Handle(r) \/ Fail(r)
    PROVE  \/ Acquire(r) /\ req' = req /\ rows' = rows
           \/ Advances(r)
           \/ Released(r)
<1>1. /\ req \in [Requests -> Request] /\ Fits(req[r].pc, req[r].job.kind)
      /\ req[r].pc \in Outside => held[r] = {}
  BY Types DEF TypeInv, KindInv
<1>2. CASE Arrive(r)
  <2>1. PICK job \in Menu : req' = [req EXCEPT ![r].pc = "connect", ![r].job = job]
    BY <1>2 DEF Arrive
  <2>2. held'[r] = {}
    BY <1>1, <1>2 DEF Arrive, Outside
  <2>3. req'[r].pc = "connect"
    BY <1>1, <2>1 DEF Request
  <2> QED
    BY <2>2, <2>3 DEF Released
<1>3. CASE Connect(r)
  <2>1. /\ First[req[r].job.kind] \in Statements \ {"remove", "clear", "event", "commit"}
        /\ First[req[r].job.kind] = "lock" => req[r].job.kind = "record"
    BY <1>1, TransactionsAssumption DEF First, Statements, Request
  <2>2. req'[r].pc = First[req[r].job.kind] /\ req'[r].job = req[r].job /\ held'[r] = {}
    BY <1>1, <1>3, <2>1, GotoRequest DEF Connect, Outside
  <2> QED
    BY <2>1, <2>2 DEF Released
<1>4. CASE Acquire(r)
  BY <1>4 DEF Acquire
<1>5. CASE DrawNumber(r)
  BY <1>5, DrawType DEF DrawNumber, At, Advances, Follows
<1>6. CASE Load(r)
  BY <1>6, UpdateType DEF Load, At, Advances, Follows
<1>7. CASE Flush(r)
  BY <1>7, UpdateType DEF Flush, At, Advances, Follows
<1>8. CASE FindEvidence(r)
  <2>1. CASE End(r, "failed")
    BY <2>1, Ending
  <2>2. ASSUME NEW row \in rows, held' = held,
               req' = [req EXCEPT ![r].pc = "remove", ![r].target = row.id]
        PROVE  Advances(r)
    <3> DEFINE at == [req EXCEPT ![r].pc = "remove"]
    <3>1. at \in [Requests -> Request] /\ at[r].pc = "remove" /\ at[r].job = req[r].job
      BY <1>1 DEF Request, Statements
    <3>2. req' = [at EXCEPT ![r].target = row.id]
      BY <1>1, <2>2
    <3> HIDE DEF at
    <3>3. req'[r].pc = "remove" /\ req'[r].job = req[r].job /\ req'[r].target = row.id
      BY <3>1, <3>2 DEF Request
    <3>4. row.id \in Ids
      BY DEF Ids
    <3> QED
      BY <1>8, <2>2, <3>3, <3>4 DEF Advances, Follows, FindEvidence, At
  <2> QED
    BY <1>8, <2>1, <2>2 DEF FindEvidence
<1>9. CASE InsertCase(r)
  <2>1. CASE End(r, "failed")
    BY <2>1, Ending
  <2>2. CASE Goto(r, "lock") /\ held' = held
    BY <1>9, <2>2, Going DEF InsertCase, At, Follows, Statements
  <2> QED
    BY <1>9, <2>1, <2>2 DEF InsertCase
<1>10. CASE InsertEvidence(r)
  <2>1. CASE End(r, "failed")
    BY <2>1, Ending
  <2>2. CASE Goto(r, "refer") /\ held' = held
    <3>1. req[r].pc = "insert" /\ At(r, req[r].pc) /\ rows' = rows
      BY <1>10 DEF InsertEvidence, At
    <3> QED
      BY <2>2, <3>1, Going DEF Follows, Statements
  <2> QED
    BY <1>10, <2>1, <2>2 DEF InsertEvidence
<1>11. CASE CheckParent(r)
  <2>1. req[r].pc = "refer" /\ At(r, req[r].pc) /\ rows' = rows
    BY <1>11 DEF CheckParent, At
  <2>2. CASE req[r].job.parent \notin Ids \cup {NoEvidence}
    BY <1>11, <2>2, Ending DEF CheckParent, Ids
  <2>3. CASE req[r].job.parent \in Ids \cup {NoEvidence}
    <3>1. Goto(r, "lock") /\ held' = held
      BY <1>11, <2>3 DEF CheckParent, Ids
    <3> QED
      BY <2>1, <2>3, <3>1, Going DEF Follows, Statements
  <2> QED
    BY <2>2, <2>3
<1>12. CASE Proceed(r)
  <2>1. /\ req[r].pc \in {"remove", "clear", "lock", "event"} /\ At(r, req[r].pc)
        /\ held' = held /\ rows' = rows /\ Goto(r, Following[req[r].pc])
    BY <1>12 DEF Proceed, Following
  <2>2. Following[req[r].pc] \in Statements \ {"remove"} /\ Follows(req[r].pc, Following[req[r].pc])
    BY <2>1 DEF Following, Statements, Follows
  <2> QED
    BY <2>1, <2>2, Going
<1>13. CASE Commit(r) \/ Fail(r)
  BY <1>13, Ending DEF Commit, Fail
<1> QED
  BY <1>2, <1>3, <1>4, <1>5, <1>6, <1>7, <1>8, <1>9, <1>10, <1>11, <1>12, <1>13 DEF Handle

(* A request that is over takes no step; what it has inserted keeps its id.     *)
LEMMA OnceDone ==
    ASSUME TypeInv, NEW r \in Requests, Arrive(r) \/ Handle(r) \/ Fail(r)
    PROVE  /\ req[r].pc # "done"
           /\ \A x : Known(x) => Known(x)'
<1>1. req[r].pc # "done"
  <2>1. CASE Arrive(r) \/ Connect(r) \/ Fail(r)
    BY <2>1 DEF Arrive, Connect, Fail, Outside
  <2>2. CASE Acquire(r) \/ Proceed(r)
    BY <2>2 DEF Acquire, Wants, Proceed, Following
  <2>3. CASE DrawNumber(r) \/ InsertCase(r) \/ Load(r) \/ Flush(r) \/ InsertEvidence(r)
               \/ CheckParent(r) \/ FindEvidence(r) \/ Commit(r)
    BY <2>3 DEF DrawNumber, InsertCase, Load, Flush, InsertEvidence, CheckParent, FindEvidence,
                Commit, At
  <2> QED
    BY <2>1, <2>2, <2>3 DEF Handle
<1> QED
  BY <1>1, OneRequest DEF Known

LEMMA RowsChange ==
    ASSUME TypeInv, NEW r \in Requests, Arrive(r) \/ Handle(r) \/ Fail(r)
    PROVE  \/ rows' = rows
           \/ /\ req[r].pc = "commit" /\ req'[r].pc = "done" /\ held'[r] = {}
              /\ \/ req[r].job.kind = "upload" /\ CommitUpload(r)
                 \/ req[r].job.kind = "delete" /\ CommitDelete(r)
<1>1. CASE Commit(r)
  <2>1. req[r].pc = "commit" /\ End(r, "done")
    BY <1>1 DEF Commit, At
  <2>2. req'[r].pc = "done" /\ held'[r] = {}
    BY <2>1, EndRequest DEF Outside
  <2>3. CASE req[r].job.kind = "upload"
    BY <1>1, <2>1, <2>2, <2>3 DEF Commit
  <2>4. CASE req[r].job.kind = "delete"
    BY <1>1, <2>1, <2>2, <2>4 DEF Commit
  <2>5. CASE req[r].job.kind \notin {"upload", "delete"}
    BY <1>1, <2>5 DEF Commit, CommitUpdate
  <2> QED
    BY <2>3, <2>4, <2>5
<1>2. CASE ~Commit(r)
  BY <1>2 DEF Handle, Arrive, Fail, Connect, Acquire, DrawNumber, InsertCase, Load, Flush,
              InsertEvidence, CheckParent, FindEvidence, Proceed
<1> QED
  BY <1>1, <1>2

-----------------------------------------------------------------------------
(* The invariants are kept                                                    *)

(* Whatever lock a statement wants, its transaction may hold.                    *)
LEMMA WantedHolding ==
    ASSUME TypeInv, NEW r \in Requests, NEW lock \in Wants(r)
    PROVE  Holding(r, lock)
<1>1. Fits(req[r].pc, req[r].job.kind)
  BY DEF TypeInv, KindInv
<1> DEFINE job == req[r].job
<1>2. ASSUME NEW e, NEW mode, lock = Lock(<<"row", e>>, mode)
      PROVE  lock.on[1] = "row" /\ lock.mode = mode
  BY <1>2 DEF Lock
<1>3. ASSUME NEW mode, lock = Lock(<<"case", job.case>>, mode)
      PROVE  lock.on[1] = "case" /\ lock.mode = mode
  BY <1>3 DEF Lock
<1>4. CASE req[r].pc = "insert"
  <2>1. CASE lock = Lock(<<"file", job.case, job.file>>, "UPDATE")
    <3>1. job.kind = "upload"
      BY <1>1, <1>4 DEF Fits
    <3> QED
      BY <1>4, <2>1, <3>1 DEF Holding
  <2>2. ASSUME NEW row \in rows, lock = Lock(<<"row", row.id>>, "KEY SHARE") PROVE Holding(r, lock)
    BY <1>2, <1>4, <2>2 DEF Holding
  <2> QED
    BY <1>4, <2>1, <2>2 DEF Wants
<1>5. CASE req[r].pc = "clear"
  <2>1. PICK row \in rows : lock = Lock(<<"row", row.id>>, "NO KEY UPDATE")
    BY <1>5 DEF Wants, Children
  <2>2. lock = Lock(lock.on, "NO KEY UPDATE")
    BY <2>1 DEF Lock
  <2> QED
    BY <1>2, <1>5, <2>1, <2>2 DEF Holding
<1>6. CASE req[r].pc = "refer"
  <2>1. lock = Lock(<<"case", job.case>>, "KEY SHARE") \/ lock = Lock(<<"row", job.parent>>, "KEY SHARE")
    BY <1>6 DEF Wants
  <2> QED
    BY <1>2, <1>3, <1>6, <2>1 DEF Holding
<1>7. CASE req[r].pc = "flush"
  <2>1. lock = Lock(<<"case", job.case>>, UpdateMode)
    BY <1>7 DEF Wants
  <2> QED
    BY <1>7, <2>1 DEF Holding
<1>8. CASE req[r].pc = "create"
  <2>1. lock.on[1] = "number"
    BY <1>8 DEF Wants, Lock
  <2> QED
    BY <2>1 DEF Holding
<1>9. CASE req[r].pc = "remove"
  <2>1. lock = Lock(<<"row", req[r].target>>, "UPDATE")
    BY <1>9 DEF Wants
  <2> QED
    BY <1>9, <2>1 DEF Holding
<1>10. CASE req[r].pc = "lock"
  <2>1. lock = Lock(<<"key", LockKey[job.case]>>, "UPDATE")
    BY <1>10 DEF Wants
  <2> QED
    BY <1>10, <2>1 DEF Holding, Closing
<1>11. CASE req[r].pc = "event"
  <2>1. lock = Lock(<<"case", job.case>>, "KEY SHARE")
    BY <1>11 DEF Wants
  <2> QED
    BY <1>3, <2>1 DEF Holding
<1>12. CASE req[r].pc \notin {"insert", "clear", "refer", "flush", "create", "remove", "lock", "event"}
  BY <1>12 DEF Wants
<1> QED
  BY <1>4, <1>5, <1>6, <1>7, <1>8, <1>9, <1>10, <1>11, <1>12

LEMMA HoldingStep ==
    ASSUME TypeInv, HoldingInv, [Next]_vars
    PROVE  HoldingInv'
<1>1. CASE UNCHANGED vars
  <2>1. req' = req /\ held' = held
    BY <1>1 DEF vars
  <2>2. ASSUME NEW q \in Requests, NEW lock \in held'[q] PROVE Holding(q, lock)'
    BY <2>1 DEF HoldingInv, Holding
  <2> QED
    BY <2>2 DEF HoldingInv
<1>2. ASSUME NEW r \in Requests, Arrive(r) \/ Handle(r) \/ Fail(r) PROVE HoldingInv'
  <2> SUFFICES ASSUME NEW q \in Requests, NEW lock \in held'[q] PROVE Holding(q, lock)'
    BY DEF HoldingInv
  <2>1. CASE q # r
    <3>1. req'[q] = req[q] /\ held'[q] = held[q]
      BY <1>2, <2>1, OneRequest
    <3> QED
      BY <3>1 DEF HoldingInv, Holding
  <2>2. CASE q = r /\ Acquire(r) /\ req' = req
    <3>1. lock \in held[r] \/ lock \in Wants(r)
      BY <2>2, AcquireType
    <3>2. Holding(r, lock)
      BY <3>1, WantedHolding DEF HoldingInv
    <3> QED
      BY <2>2, <3>2 DEF Holding
  <2>3. CASE q = r /\ Advances(r)
    <3>1. Holding(r, lock) /\ req'[r].job = req[r].job /\ Follows(req[r].pc, req'[r].pc)
      BY <2>3 DEF Advances, HoldingInv
    <3>2. /\ req[r].pc \in {"flush"} \cup Closing => req'[r].pc \in {"flush"} \cup Closing
          /\ req[r].pc \in {"insert", "refer"} \cup Closing => req'[r].pc \in {"insert", "refer"} \cup Closing
          /\ req[r].pc \in {"remove", "clear"} \cup Closing => req'[r].pc \in {"remove", "clear"} \cup Closing
          /\ req[r].pc \in {"clear"} \cup Closing => req'[r].pc \in {"clear"} \cup Closing
          /\ req[r].pc \in Closing => req'[r].pc \in Closing
      BY <3>1 DEF Follows, Closing
    <3>3. req[r].pc \in {"remove", "clear"} \cup Closing => req'[r].target = req[r].target
      BY <2>3 DEF Advances, Closing
    <3> QED
      BY <2>3, <3>1, <3>2, <3>3 DEF Holding
  <2>4. CASE q = r /\ Released(r)
    BY <2>4 DEF Released
  <2> QED
    BY <1>2, <2>1, <2>2, <2>3, <2>4, Moves
<1> QED
  BY <1>1, <1>2 DEF Next, Quiet

(* A row that is inserted is a child of a row that is there and nobody's parent; *)
(* a row that goes takes its id from its children.                               *)
LEMMA UploadForest ==
    ASSUME TypeInv, ForestInv, ParentInv, NEW r \in Requests, Arrive(r) \/ Handle(r) \/ Fail(r),
           req[r].pc = "commit", req'[r].pc = "done", req[r].job.kind = "upload", CommitUpload(r)
    PROVE  ForestInv'
<1> DEFINE new == [id |-> r, case |-> req[r].job.case, file |-> req[r].job.file,
                   parent |-> req[r].job.parent]
<1>1. rows' = rows \cup {new}
  BY DEF CommitUpload
<1>2. new.id = r /\ new.parent = req[r].job.parent /\ {"id", "parent"} \subseteq DOMAIN new
  OBVIOUS
<1>3. new.parent \in Ids \cup {NoEvidence}
  BY <1>2 DEF ParentInv, Closing
<1> HIDE DEF new
<1>4. r \notin Ids /\ r # NoEvidence
  BY StoredAssumption DEF ForestInv, Known, Ids
<1>5. Ids' = Ids \cup {r}
  BY <1>1, <1>2 DEF Ids
<1>6. /\ \A row \in rows' : {"id", "parent"} \subseteq DOMAIN row /\ Known(row.id)' /\ row.id # NoEvidence
      /\ \A row \in rows' : row.parent \in Ids' \cup {NoEvidence}
  <2>1. Known(r)'
    BY DEF Known
  <2> QED
    BY <1>1, <1>2, <1>3, <1>4, <1>5, <2>1, OnceDone DEF ForestInv
<1>7. \A row, other \in rows' : row.id = other.id => row = other
  BY <1>1, <1>2, <1>4 DEF ForestInv, Ids
<1>8. ASSUME NEW X \in (SUBSET Ids') \ {{}}
      PROVE  \E x \in X : \A row \in rows' : row.id \in X => row.parent # x
  <2>1. CASE r \in X
    <3>1. \A row \in rows' : row.parent # r
      BY <1>1, <1>2, <1>3, <1>4 DEF ForestInv
    <3> QED
      BY <2>1, <3>1
  <2>2. CASE r \notin X
    <3>1. X \in (SUBSET Ids) \ {{}}
      BY <1>5, <1>8, <2>2
    <3>2. PICK x \in X : \A row \in rows : row.id \in X => row.parent # x
      BY <3>1 DEF ForestInv
    <3> QED
      BY <1>1, <1>2, <2>2, <3>2
  <2> QED
    BY <2>1, <2>2
<1> QED
  BY <1>6, <1>7, <1>8 DEF ForestInv

LEMMA DeleteForest ==
    ASSUME TypeInv, ForestInv, NEW r \in Requests, Arrive(r) \/ Handle(r) \/ Fail(r),
           CommitDelete(r)
    PROVE  /\ ForestInv' /\ Ids \ {req[r].target} \subseteq Ids'
           /\ \A row \in rows' : \E old \in rows :
                row.id = old.id /\ row.parent \in {old.parent, NoEvidence}
<1> DEFINE gone == req[r].target
           Kept(row) == IF row.parent = gone THEN [row EXCEPT !.parent = NoEvidence] ELSE row
<1>1. \A row \in rows : /\ Kept(row).id = row.id /\ {"id", "parent"} \subseteq DOMAIN Kept(row)
                        /\ Kept(row).parent = IF row.parent = gone THEN NoEvidence ELSE row.parent
  BY DEF ForestInv
<1>2. /\ \A row \in rows' : \E old \in rows : row = Kept(old)
      /\ \A old \in rows : old.id # gone => Kept(old) \in rows'
  BY DEF CommitDelete, Children
<1> HIDE DEF Kept
<1>3. /\ Ids' \subseteq Ids /\ Ids \ {gone} \subseteq Ids'
  <2>1. Ids' \subseteq Ids
    BY <1>1, <1>2 DEF Ids
  <2>2. ASSUME NEW row \in rows, row.id # gone PROVE row.id \in Ids'
    BY <1>1, <1>2, <2>2 DEF Ids
  <2> QED
    BY <2>1, <2>2 DEF Ids
<1>4. ASSUME NEW row \in rows'
      PROVE  /\ {"id", "parent"} \subseteq DOMAIN row /\ Known(row.id)' /\ row.id # NoEvidence
             /\ row.parent \in Ids' \cup {NoEvidence}
             /\ \E old \in rows : row.id = old.id /\ row.parent \in {old.parent, NoEvidence}
  <2>1. PICK old \in rows : row = Kept(old)
    BY <1>2
  <2>2. Known(old.id)' /\ old.id # NoEvidence
    BY OnceDone DEF ForestInv
  <2>3. old.parent \in Ids \cup {NoEvidence}
    BY DEF ForestInv
  <2>4. row.parent \in Ids' \cup {NoEvidence}
    BY <1>1, <1>3, <2>1, <2>3
  <2> QED
    BY <1>1, <2>1, <2>2, <2>4
<1>5. ASSUME NEW row \in rows', NEW other \in rows', row.id = other.id PROVE row = other
  <2>1. PICK a \in rows : row = Kept(a)
    BY <1>2
  <2>2. PICK b \in rows : other = Kept(b)
    BY <1>2
  <2>3. a = b
    BY <1>1, <1>5, <2>1, <2>2 DEF ForestInv
  <2> QED
    BY <2>1, <2>2, <2>3
<1>6. ASSUME NEW X \in (SUBSET Ids') \ {{}}
      PROVE  \E x \in X : \A row \in rows' : row.id \in X => row.parent # x
  <2>1. X \in (SUBSET Ids) \ {{}}
    BY <1>3, <1>6
  <2>2. PICK x \in X : \A row \in rows : row.id \in X => row.parent # x
    BY <2>1 DEF ForestInv
  <2>3. x # NoEvidence
    BY <2>1 DEF Ids, ForestInv
  <2> QED
    BY <1>4, <2>2, <2>3
<1> QED
  BY <1>3, <1>4, <1>5, <1>6 DEF ForestInv

LEMMA ForestStep ==
    ASSUME TypeInv, ForestInv, ParentInv, [Next]_vars
    PROVE  ForestInv'
<1>1. ASSUME rows' = rows, \A x : Known(x) => Known(x)' PROVE ForestInv'
  BY <1>1 DEF ForestInv, Ids
<1>2. CASE UNCHANGED vars
  BY <1>1, <1>2 DEF vars, Known
<1>3. ASSUME NEW r \in Requests, Arrive(r) \/ Handle(r) \/ Fail(r) PROVE ForestInv'
  BY <1>1, <1>3, OnceDone, RowsChange, UploadForest, DeleteForest
<1> QED
  BY <1>2, <1>3 DEF Next, Quiet

(* What a lock that is held says of the transaction that holds it.               *)
LEMMA RowLocks ==
    ASSUME NEW r \in Requests, NEW x, NEW lock, Holding(r, lock), lock.on = <<"row", x>>
    PROVE  \/ lock.mode = "KEY SHARE" /\ req[r].pc \in {"insert", "refer"} \cup Closing
           \/ /\ lock.mode = "UPDATE" /\ x = req[r].target
              /\ lock = Lock(<<"row", req[r].target>>, "UPDATE")
              /\ req[r].pc \in {"remove", "clear"} \cup Closing
           \/ /\ lock.mode = "NO KEY UPDATE" /\ lock = Lock(<<"row", x>>, "NO KEY UPDATE")
              /\ req[r].pc \in {"clear"} \cup Closing
<1>1. /\ \A y, mode : lock # Lock(<<"case", y>>, mode) /\ lock # Lock(<<"key", y>>, mode)
      /\ \A y, z, mode : lock # Lock(<<"file", y, z>>, mode)
      /\ \A y, mode : lock = Lock(<<"row", y>>, mode) => y = x /\ lock.mode = mode
      /\ lock.on[1] = "row"
  BY DEF Lock
<1>2. CASE lock = Lock(lock.on, "NO KEY UPDATE") /\ req[r].pc \in {"clear"} \cup Closing
  <2>1. lock = Lock(<<"row", x>>, "NO KEY UPDATE")
    BY <1>2, Zenon
  <2>2. lock.mode = "NO KEY UPDATE"
    BY <2>1 DEF Lock
  <2> QED
    BY <1>2, <2>1, <2>2
<1> QED
  BY <1>1, <1>2 DEF Holding

LEMMA WantedToClear ==
    ASSUME TypeInv, NEW r \in Requests, NEW x, Lock(<<"row", x>>, "NO KEY UPDATE") \in Wants(r)
    PROVE  \E row \in rows : row.id = x /\ row.parent = req[r].target
<1> DEFINE lock == Lock(<<"row", x>>, "NO KEY UPDATE")
<1>1. lock.on = <<"row", x>> /\ lock.mode = "NO KEY UPDATE"
  BY DEF Lock
<1>2. CASE req[r].pc = "clear"
  <2>1. PICK row \in rows : row.parent = req[r].target /\ lock = Lock(<<"row", row.id>>, "NO KEY UPDATE")
    BY <1>2 DEF Wants, Children
  <2>2. row.id = x
    BY <2>1 DEF Lock
  <2> QED
    BY <2>1, <2>2
<1>3. CASE req[r].pc # "clear"
  <2>1. Holding(r, lock)
    BY WantedHolding
  <2> HIDE DEF lock
  <2>2. req[r].pc \in Closing
    BY <1>1, <1>3, <2>1, RowLocks
  <2> USE DEF lock
  <2>3. ASSUME NEW tag \in {"key", "case"}, NEW y, NEW mode, lock = Lock(<<tag, y>>, mode) PROVE FALSE
    BY <1>1, <2>3 DEF Lock
  <2>4. CASE req[r].pc = "lock"
    BY <2>3, <2>4 DEF Wants
  <2>5. CASE req[r].pc = "event"
    BY <2>3, <2>5 DEF Wants
  <2>6. CASE req[r].pc = "commit"
    BY <2>6 DEF Wants
  <2> QED
    BY <2>2, <2>4, <2>5, <2>6 DEF Closing
<1> QED
  BY <1>2, <1>3

LEMMA DeleteStep ==
    ASSUME TypeInv, HoldingInv, ForestInv, DeleteInv, [Next]_vars
    PROVE  DeleteInv'
<1>1. CASE UNCHANGED vars
  <2>1. req' = req /\ held' = held /\ rows' = rows
    BY <1>1 DEF vars
  <2> QED
    BY <2>1 DEF DeleteInv, Deleting, Known
<1>2. ASSUME NEW r \in Requests, Arrive(r) \/ Handle(r) \/ Fail(r) PROVE DeleteInv'
  <2>1. ASSUME NEW q \in Requests, Deleting(q)'
        PROVE  /\ req'[q].target # NoEvidence
               /\ req'[q].pc # "remove" => Lock(<<"row", req'[q].target>>, "UPDATE") \in held'[q]
    <3>1. CASE q # r
      BY <1>2, <2>1, <3>1, OneRequest DEF DeleteInv, Deleting
    <3>2. CASE q = r /\ Acquire(r) /\ req' = req
      BY <2>1, <3>2, AcquireType DEF DeleteInv, Deleting
    <3>3. CASE q = r /\ Released(r)
      BY <2>1, <3>3 DEF Released, Deleting, Closing
    <3>4. CASE q = r /\ Advances(r)
      <4>1. CASE req'[r].pc = "remove"
        BY <3>4, <4>1 DEF Advances, Ids, ForestInv
      <4>2. CASE req'[r].pc # "remove"
        <5>1. req'[r].job = req[r].job /\ Follows(req[r].pc, req'[r].pc) /\ Fits(req[r].pc, req[r].job.kind)
          BY <3>4 DEF Advances, TypeInv, KindInv
        <5>2. Deleting(r) /\ req[r].pc \notin {"number", "load", "flush", "find"}
          BY <2>1, <3>4, <4>2, <5>1 DEF Deleting, Follows, Fits, Closing
        <5>3. req'[r].target = req[r].target /\ held'[r] = held[r] /\ Wants(r) \subseteq held[r]
          BY <3>4, <5>2 DEF Advances
        <5>4. CASE req[r].pc = "remove"
          <6>1. Lock(<<"row", req[r].target>>, "UPDATE") \in Wants(r)
            BY <5>4 DEF Wants
          <6> QED
            BY <3>4, <5>2, <5>3, <6>1 DEF DeleteInv
        <5> QED
          BY <3>4, <5>2, <5>3, <5>4 DEF DeleteInv
      <4> QED
        BY <4>1, <4>2
    <3> QED
      BY <1>2, <3>1, <3>2, <3>3, <3>4, Moves
  <2>2. ASSUME NEW q \in Requests, NEW x, Lock(<<"row", x>>, "NO KEY UPDATE") \in held'[q]
        PROVE  \/ Lock(<<"row", x>>, "NO KEY UPDATE") \in held[q] /\ req'[q].target = req[q].target
               \/ rows' = rows /\ \E row \in rows : row.id = x /\ row.parent = req'[q].target
    <3> DEFINE lock == Lock(<<"row", x>>, "NO KEY UPDATE")
    <3>1. CASE q # r
      BY <1>2, <2>2, <3>1, OneRequest
    <3>2. CASE q = r /\ Acquire(r) /\ req' = req /\ rows' = rows
      <4>1. lock \in held[r] \/ lock \in Wants(r)
        BY <2>2, <3>2, AcquireType
      <4> QED
        BY <3>2, <4>1, WantedToClear
    <3>3. CASE q = r /\ Released(r)
      BY <2>2, <3>3 DEF Released
    <3>4. CASE q = r /\ Advances(r)
      <4>1. lock \in held[r]
        BY <2>2, <3>4 DEF Advances
      <4>2. lock.on = <<"row", x>> /\ lock.mode = "NO KEY UPDATE"
        BY DEF Lock
      <4> HIDE DEF lock
      <4>3. req[r].pc \in {"clear"} \cup Closing
        BY <4>1, <4>2, RowLocks DEF HoldingInv
      <4> USE DEF lock
      <4> QED
        BY <3>4, <4>1, <4>3 DEF Advances, Closing
    <3> QED
      BY <1>2, <3>1, <3>2, <3>3, <3>4, Moves
  <2>3. ASSUME NEW q \in Requests, NEW row \in rows', Lock(<<"row", row.id>>, "NO KEY UPDATE") \in held'[q]
        PROVE  row.parent \in {req'[q].target, NoEvidence}
    <3>1. CASE rows' = rows
      <4>1. CASE Lock(<<"row", row.id>>, "NO KEY UPDATE") \in held[q] /\ req'[q].target = req[q].target
        BY <3>1, <4>1 DEF DeleteInv
      <4>2. ASSUME NEW other \in rows, other.id = row.id, other.parent = req'[q].target
            PROVE  row.parent = req'[q].target
        BY <3>1, <4>2 DEF ForestInv
      <4> QED
        BY <2>2, <2>3, <4>1, <4>2
    <3>2. CASE /\ Lock(<<"row", row.id>>, "NO KEY UPDATE") \in held[q] /\ req'[q].target = req[q].target
               /\ req[r].pc = "commit" /\ CommitUpload(r)
      <4> DEFINE new == [id |-> r, case |-> req[r].job.case, file |-> req[r].job.file,
                         parent |-> req[r].job.parent]
      <4>1. rows' = rows \cup {new} /\ new.id = r
        BY <3>2 DEF CommitUpload
      <4> HIDE DEF new
      <4>2. row \in rows \/ row.id = r
        BY <4>1
      <4>3. row.id # r
        BY <3>2 DEF DeleteInv, Known
      <4> QED
        BY <3>2, <4>2, <4>3 DEF DeleteInv
    <3>3. CASE /\ Lock(<<"row", row.id>>, "NO KEY UPDATE") \in held[q] /\ req'[q].target = req[q].target
               /\ CommitDelete(r)
      <4>1. PICK old \in rows : row.id = old.id /\ row.parent \in {old.parent, NoEvidence}
        BY <1>2, <3>3, DeleteForest
      <4> QED
        BY <3>3, <4>1 DEF DeleteInv
    <3> QED
      BY <1>2, <2>2, <2>3, <3>1, <3>2, <3>3, RowsChange
  <2>4. ASSUME NEW q \in Requests, NEW x \in Requests, Lock(<<"row", x>>, "NO KEY UPDATE") \in held'[q]
        PROVE  Known(x)'
    <3>1. Known(x)
      <4>1. ASSUME NEW row \in rows, row.id = x PROVE Known(x)
        BY <4>1 DEF ForestInv
      <4> QED
        BY <2>2, <2>4, <4>1 DEF DeleteInv
    <3> QED
      BY <1>2, <3>1, OnceDone
  <2> QED
    BY <2>1, <2>3, <2>4 DEF DeleteInv
<1> QED
  BY <1>1, <1>2 DEF Next, Quiet

(* A deletion holds its row when it commits, so its row is nobody's new parent.  *)
LEMMA ParentStep ==
    ASSUME TypeInv, ExclusiveInv, ForestInv, DeleteInv, ParentInv, [Next]_vars
    PROVE  ParentInv'
<1>1. CASE UNCHANGED vars
  <2>1. req' = req /\ held' = held /\ rows' = rows
    BY <1>1 DEF vars
  <2> QED
    BY <2>1 DEF ParentInv, Ids
<1>2. ASSUME NEW r \in Requests, Arrive(r) \/ Handle(r) \/ Fail(r) PROVE ParentInv'
  <2> SUFFICES ASSUME NEW q \in Requests, req'[q].job.kind = "upload", req'[q].pc \in Closing,
                      req'[q].job.parent # NoEvidence
               PROVE  /\ req'[q].job.parent \in Ids'
                      /\ Lock(<<"row", req'[q].job.parent>>, "KEY SHARE") \in held'[q]
    BY DEF ParentInv
  <2> DEFINE parent == req[q].job.parent
             lock == Lock(<<"row", parent>>, "KEY SHARE")
  <2>1. req'[q].job = req[q].job /\ parent \in Ids /\ lock \in held[q] /\ lock \in held'[q]
    <3>1. CASE q # r
      BY <1>2, <3>1, OneRequest DEF ParentInv
    <3>2. CASE q = r /\ Acquire(r) /\ req' = req
      BY <3>2, AcquireType DEF ParentInv
    <3>3. CASE q = r /\ Released(r)
      BY <3>3 DEF Released, Closing
    <3>4. CASE q = r /\ Advances(r)
      <4>1. /\ req'[r].job = req[r].job /\ Follows(req[r].pc, req'[r].pc) /\ held'[r] = held[r]
            /\ Fits(req[r].pc, req[r].job.kind)
        BY <3>4 DEF Advances, TypeInv, KindInv
      <4>2. req[r].pc = "refer" \/ req[r].pc \in Closing
        BY <3>4, <4>1 DEF Follows, Fits, Closing
      <4>3. CASE req[r].pc = "refer"
        <5>1. lock \in Wants(r)
          BY <3>4, <4>3 DEF Wants
        <5> QED
          BY <3>4, <4>1, <4>3, <5>1 DEF Advances
      <4> QED
        BY <3>4, <4>1, <4>2, <4>3 DEF ParentInv
    <3> QED
      BY <1>2, <3>1, <3>2, <3>3, <3>4, Moves
  <2>2. parent \in Ids'
    <3>1. CASE rows' = rows
      BY <2>1, <3>1 DEF Ids
    <3>2. CASE CommitUpload(r)
      BY <2>1, <3>2 DEF Ids, CommitUpload
    <3>3. CASE req[r].pc = "commit" /\ req[r].job.kind = "delete" /\ held'[r] = {} /\ CommitDelete(r)
      <4>1. Lock(<<"row", req[r].target>>, "UPDATE") \in held[r]
        BY <3>3 DEF DeleteInv, Deleting, Closing
      <4>2. q # r
        BY <2>1, <3>3
      <4>3. req[r].target # parent
        <5>1. ~Blocks(r, q, lock)
          BY <2>1 DEF ExclusiveInv
        <5> QED
          BY <4>1, <4>2, <5>1 DEF Blocks, Lock, Conflict
      <4> QED
        BY <1>2, <2>1, <3>3, <4>3, DeleteForest
    <3> QED
      BY <1>2, <3>1, <3>2, <3>3, RowsChange
  <2> QED
    BY <2>1, <2>2
<1> QED
  BY <1>1, <1>2 DEF Next, Quiet

-----------------------------------------------------------------------------
(* Who can be waited for                                                       *)

LEMMA CaseLocks ==
    ASSUME NEW r \in Requests, NEW x, NEW lock, Holding(r, lock), lock.on = <<"case", x>>
    PROVE  \/ lock.mode = "KEY SHARE"
           \/ /\ lock = Lock(<<"case", req[r].job.case>>, UpdateMode)
              /\ req[r].pc \in {"flush"} \cup Closing
<1>1. /\ \A y, mode : lock # Lock(<<"row", y>>, mode) /\ lock # Lock(<<"key", y>>, mode)
      /\ \A y, z, mode : lock # Lock(<<"file", y, z>>, mode)
      /\ lock.on[1] = "case"
  BY DEF Lock
<1> QED
  BY <1>1 DEF Holding

LEMMA FileLocks ==
    ASSUME NEW r \in Requests, NEW x, NEW y, NEW lock, Holding(r, lock), lock.on = <<"file", x, y>>
    PROVE  /\ lock = Lock(<<"file", req[r].job.case, req[r].job.file>>, "UPDATE")
           /\ req[r].pc \in {"insert", "refer"} \cup Closing
<1>1. /\ \A z, mode : lock # Lock(<<"row", z>>, mode) /\ lock # Lock(<<"key", z>>, mode)
                       /\ lock # Lock(<<"case", z>>, mode)
      /\ lock.on[1] = "file"
  BY DEF Lock
<1> QED
  BY <1>1 DEF Holding

LEMMA KeyLocks ==
    ASSUME NEW r \in Requests, NEW x, NEW lock, Holding(r, lock), lock.on = <<"key", x>>
    PROVE  /\ lock = Lock(<<"key", LockKey[req[r].job.case]>>, "UPDATE")
           /\ req[r].pc \in Closing
<1>1. /\ \A z, mode : lock # Lock(<<"row", z>>, mode) /\ lock # Lock(<<"case", z>>, mode)
      /\ \A y, z, mode : lock # Lock(<<"file", y, z>>, mode)
      /\ lock.on[1] = "key"
  BY DEF Lock
<1> QED
  BY <1>1 DEF Holding

(* A transaction that has some of its locks and is waiting for the others.        *)
Stuck(r) == \E q \in Requests : Awaits(r, q)

(* q holds l, which keeps r from a lock it still wants.                          *)
Stops(q, l, r, lock) ==
    /\ q # r /\ l \in held[q] /\ lock \in Wants(r) \ held[r]
    /\ l.on = lock.on /\ Conflict(l.mode, lock.mode)

LEMMA Blocker ==
    ASSUME HoldingInv, NEW r \in Requests, NEW q \in Requests, Awaits(r, q)
    PROVE  \E l, lock : Stops(q, l, r, lock) /\ Holding(q, l)
BY DEF Awaits, Blocks, HoldingInv, Stops

LEMMA NotStuck ==
    ASSUME NEW r \in Requests, Wants(r) \subseteq held[r]
    PROVE  ~Stuck(r)
BY DEF Stuck, Awaits

(* What append takes after the lock of the chain is in nobody's way, and whoever  *)
(* waits for that lock, or for a case, waits for one that does not wait.           *)
LEMMA EventFree ==
    ASSUME HoldingInv, NEW r \in Requests, req[r].pc \in {"event", "commit"}
    PROVE  ~Stuck(r)
<1> SUFFICES ASSUME NEW q \in Requests, Awaits(r, q) PROVE FALSE
  BY DEF Stuck
<1>1. PICK l, lock :
        /\ q # r /\ lock \in Wants(r) /\ l \in held[q]
        /\ l.on = lock.on /\ Conflict(l.mode, lock.mode) /\ Holding(q, l)
  BY Blocker DEF Stops
<1>2. lock = Lock(<<"case", req[r].job.case>>, "KEY SHARE")
  BY <1>1 DEF Wants
<1>3. lock.on = <<"case", req[r].job.case>> /\ lock.mode = "KEY SHARE"
  BY <1>2 DEF Lock
<1>4. CASE l = Lock(<<"case", req[q].job.case>>, UpdateMode)
  BY <1>1, <1>3, <1>4 DEF Lock, Conflict, UpdateMode
<1>5. CASE l.mode = "KEY SHARE"
  BY <1>1, <1>3, <1>5 DEF Conflict
<1> QED
  BY <1>1, <1>3, <1>4, <1>5, CaseLocks

Circle(S) == \A r \in S : \E q \in S : Awaits(r, q)

LEMMA CircleBlocker ==
    ASSUME HoldingInv, NEW S \in SUBSET Requests, Circle(S), NEW r \in S
    PROVE  \E q \in S : Stuck(q) /\ \E l, lock : Stops(q, l, r, lock) /\ Holding(q, l)
<1>1. PICK q \in S : Awaits(r, q)
  BY DEF Circle
<1>2. Stuck(q)
  BY DEF Stuck, Circle
<1> QED
  BY <1>1, <1>2, Blocker

LEMMA NotClosing ==
    ASSUME HoldingInv, NEW S \in SUBSET Requests, Circle(S), NEW r \in S
    PROVE  req[r].pc \notin Closing
<1> SUFFICES ASSUME req[r].pc \in Closing PROVE FALSE
  OBVIOUS
<1>1. PICK q \in S : Stuck(q) /\ \E l, lock : Stops(q, l, r, lock) /\ Holding(q, l)
  BY CircleBlocker
<1>2. PICK l, lock :
        /\ q # r /\ lock \in Wants(r) /\ l \in held[q]
        /\ l.on = lock.on /\ Conflict(l.mode, lock.mode) /\ Holding(q, l)
  BY <1>1 DEF Stops
<1>3. Stuck(r)
  BY DEF Stuck, Circle
<1>4. req[r].pc = "lock"
  BY <1>3, EventFree DEF Closing
<1>5. lock.on = <<"key", LockKey[req[r].job.case]>>
  BY <1>2, <1>4 DEF Wants, Lock
<1>6. l = Lock(<<"key", LockKey[req[q].job.case]>>, "UPDATE") /\ req[q].pc \in Closing
  BY <1>1, <1>2, <1>5, KeyLocks
<1>7. req[q].pc = "lock"
  BY <1>1, <1>2, <1>6, EventFree DEF Closing
<1>8. Wants(q) \subseteq held[q]
  BY <1>2, <1>6, <1>7 DEF Wants
<1> QED
  BY <1>1, <1>2, <1>8, NotStuck

LEMMA AtEvidence ==
    ASSUME TypeInv, NumberInv, HoldingInv, NEW S \in SUBSET Requests, Circle(S), NEW r \in S
    PROVE  req[r].pc \in {"insert", "refer", "remove", "clear"}
<1>1. PICK q \in S : Stuck(q) /\ \E l, lock : Stops(q, l, r, lock) /\ Holding(q, l)
  BY CircleBlocker
<1>2. PICK l, lock :
        /\ q # r /\ lock \in Wants(r) /\ l \in held[q]
        /\ l.on = lock.on /\ Conflict(l.mode, lock.mode) /\ Holding(q, l)
  BY <1>1 DEF Stops
<1>3. req[r].pc \notin Closing /\ req[q].pc \notin Closing
  BY NotClosing
<1>4. ASSUME req[r].pc = "flush" PROVE FALSE
  <2>1. lock = Lock(<<"case", req[r].job.case>>, UpdateMode)
    BY <1>2, <1>4 DEF Wants
  <2>2. lock.on = <<"case", req[r].job.case>> /\ lock.mode = UpdateMode
    BY <2>1 DEF Lock
  <2>3. l.mode # "KEY SHARE"
    BY <1>1, <1>2, <2>2 DEF Conflict, UpdateMode
  <2>4. l = Lock(<<"case", req[q].job.case>>, UpdateMode) /\ req[q].pc = "flush"
    BY <1>1, <1>2, <1>3, <2>2, <2>3, CaseLocks
  <2>5. Wants(q) \subseteq held[q]
    BY <1>2, <2>4 DEF Wants
  <2> QED
    BY <1>1, <1>2, <2>5, NotStuck
<1>5. ASSUME req[r].pc = "create" PROVE FALSE
  <2>1. lock.on = <<"number", req[r].number>> /\ Drawn(r)
    BY <1>2, <1>5 DEF Wants, Lock, TypeInv, KindInv, Fits, Drawn
  <2>2. Drawn(q) /\ l.on = <<"number", req[q].number>>
    BY <1>1, <1>2, <2>1 DEF NumberInv
  <2> QED
    BY <1>1, <1>2, <2>1, <2>2 DEF NumberInv
<1> QED
  BY <1>1, <1>2, <1>3, <1>4, <1>5 DEF Wants, Closing

(* Of those that wait only deletions that clear their children are waited for at   *)
(* a row whose key they share, and the row is the one they delete.                 *)
LEMMA RowBlocker ==
    ASSUME TypeInv, NumberInv, HoldingInv, NEW S \in SUBSET Requests, Circle(S), NEW q \in S,
           NEW x, NEW l \in held[q], l.on = <<"row", x>>
    PROVE  /\ l.mode \in {"KEY SHARE", "UPDATE", "NO KEY UPDATE"}
           /\ l.mode = "KEY SHARE" => req[q].pc \in {"insert", "refer"}
           /\ l.mode = "UPDATE" => req[q].pc = "clear" /\ req[q].target = x
           /\ l.mode = "NO KEY UPDATE" => req[q].pc = "clear" /\ l = Lock(<<"row", x>>, "NO KEY UPDATE")
<1>1. req[q].pc \notin Closing /\ Stuck(q)
  BY NotClosing DEF Stuck, Circle
<1>2. ASSUME req[q].pc = "remove" PROVE l # Lock(<<"row", req[q].target>>, "UPDATE")
  BY <1>1, <1>2, NotStuck DEF Wants
<1> QED
  BY <1>1, <1>2, RowLocks DEF HoldingInv

LEMMA AtClear ==
    ASSUME TypeInv, NumberInv, ExclusiveInv, HoldingInv, DeleteInv,
           NEW S \in SUBSET Requests, Circle(S), NEW r \in S, req[r].pc = "clear"
    PROVE  \E q \in S, row \in rows :
             /\ req[q].pc = "clear" /\ row.id = req[q].target
             /\ row.parent = req[r].target /\ row.parent # NoEvidence
<1>1. PICK q \in S : Stuck(q) /\ \E l, lock : Stops(q, l, r, lock) /\ Holding(q, l)
  BY CircleBlocker
<1>2. PICK l, lock :
        /\ q # r /\ lock \in Wants(r) /\ l \in held[q]
        /\ l.on = lock.on /\ Conflict(l.mode, lock.mode) /\ Holding(q, l)
  BY <1>1 DEF Stops
<1>3. PICK row \in rows : row.parent = req[r].target /\ lock = Lock(<<"row", row.id>>, "NO KEY UPDATE")
  BY <1>2 DEF Wants, Children
<1>4. l.on = <<"row", row.id>> /\ lock.mode = "NO KEY UPDATE"
  BY <1>1, <1>2, <1>3 DEF Lock
<1>5. Deleting(r) /\ req[r].target # NoEvidence /\ Lock(<<"row", req[r].target>>, "UPDATE") \in held[r]
  BY DEF Deleting, DeleteInv, TypeInv, KindInv, Fits
<1>6. l.mode \in {"UPDATE", "NO KEY UPDATE"} /\ req[q].pc = "clear"
  <2>1. l.mode \in {"KEY SHARE", "UPDATE", "NO KEY UPDATE"}
    BY <1>2, <1>4, RowBlocker
  <2>2. l.mode # "KEY SHARE"
    BY <1>2, <1>4 DEF Conflict
  <2> QED
    BY <1>2, <1>4, <2>1, <2>2, RowBlocker
<1>7. CASE l.mode = "UPDATE"
  BY <1>2, <1>3, <1>4, <1>5, <1>6, <1>7, RowBlocker
<1>8. CASE l.mode = "NO KEY UPDATE"
  <2>1. l = Lock(<<"row", row.id>>, "NO KEY UPDATE")
    BY <1>2, <1>4, <1>8, RowBlocker
  <2>2. Lock(<<"row", row.id>>, "NO KEY UPDATE") \in held[q]
    BY <1>2, <2>1
  <2>3. req[q].target = req[r].target
    BY <1>3, <1>5, <2>2 DEF DeleteInv
  <2>4. Lock(<<"row", req[q].target>>, "UPDATE") \in held[q]
    BY <1>6 DEF Deleting, DeleteInv, TypeInv, KindInv, Fits
  <2> DEFINE own == Lock(<<"row", req[r].target>>, "UPDATE")
  <2>5. ~Blocks(q, r, own)
    BY <1>5 DEF ExclusiveInv
  <2>6. own.mode = "UPDATE" /\ own \in held[q]
    BY <2>3, <2>4 DEF Lock
  <2> HIDE DEF own
  <2> QED
    BY <1>2, <2>5, <2>6 DEF Blocks, Conflict
<1> QED
  BY <1>6, <1>7, <1>8

LEMMA AtRefer ==
    ASSUME TypeInv, NumberInv, HoldingInv,
           NEW S \in SUBSET Requests, Circle(S), NEW r \in S, req[r].pc = "refer"
    PROVE  \E q \in S : req[q].pc = "clear"
<1>1. PICK q \in S : Stuck(q) /\ \E l, lock : Stops(q, l, r, lock) /\ Holding(q, l)
  BY CircleBlocker
<1>2. PICK l, lock :
        /\ q # r /\ lock \in Wants(r) /\ l \in held[q]
        /\ l.on = lock.on /\ Conflict(l.mode, lock.mode) /\ Holding(q, l)
  BY <1>1 DEF Stops
<1>3. CASE lock = Lock(<<"case", req[r].job.case>>, "KEY SHARE")
  <2>1. l.on = <<"case", req[r].job.case>> /\ lock.mode = "KEY SHARE"
    BY <1>1, <1>2, <1>3 DEF Lock
  <2>2. CASE l = Lock(<<"case", req[q].job.case>>, UpdateMode)
    BY <1>1, <1>2, <2>1, <2>2 DEF Lock, Conflict, UpdateMode
  <2> QED
    BY <1>1, <1>2, <2>1, <2>2, CaseLocks DEF Conflict
<1>4. CASE lock = Lock(<<"row", req[r].job.parent>>, "KEY SHARE")
  <2>1. l.on = <<"row", req[r].job.parent>> /\ lock.mode = "KEY SHARE"
    BY <1>1, <1>2, <1>4 DEF Lock
  <2> QED
    BY <1>1, <1>2, <2>1, RowBlocker DEF Conflict
<1> QED
  BY <1>2, <1>3, <1>4 DEF Wants

LEMMA AtInsert ==
    ASSUME TypeInv, NumberInv, HoldingInv,
           NEW S \in SUBSET Requests, Circle(S), NEW r \in S, req[r].pc = "insert"
    PROVE  \E q \in S : req[q].pc = "clear"
<1>1. ASSUME NEW q \in S, NEW l \in held[q], NEW row \in rows, NEW lock,
             lock = Lock(<<"row", row.id>>, "KEY SHARE"), l.on = lock.on, Conflict(l.mode, lock.mode)
      PROVE  req[q].pc = "clear"
  <2>1. l.on = <<"row", row.id>> /\ lock.mode = "KEY SHARE"
    BY <1>1 DEF Lock
  <2> QED
    BY <1>1, <2>1, RowBlocker DEF Conflict
<1>2. PICK q \in S : Stuck(q) /\ \E l, lock : Stops(q, l, r, lock) /\ Holding(q, l)
  BY CircleBlocker
<1>3. PICK l, lock :
        /\ q # r /\ lock \in Wants(r) /\ l \in held[q]
        /\ l.on = lock.on /\ Conflict(l.mode, lock.mode) /\ Holding(q, l)
  BY <1>2 DEF Stops
<1>4. CASE \E row \in rows : lock = Lock(<<"row", row.id>>, "KEY SHARE")
  BY <1>1, <1>2, <1>3, <1>4
<1>5. CASE lock = Lock(<<"file", req[r].job.case, req[r].job.file>>, "UPDATE")
  <2>1. l.on = <<"file", req[r].job.case, req[r].job.file>>
    BY <1>2, <1>3, <1>5 DEF Lock
  <2>2. /\ l = Lock(<<"file", req[q].job.case, req[q].job.file>>, "UPDATE")
        /\ req[q].pc \in {"insert", "refer"}
    BY <1>2, <1>3, <2>1, FileLocks, NotClosing
  <2>3. CASE req[q].pc = "refer"
    BY <2>3, AtRefer
  <2>4. CASE req[q].pc = "insert"
    <3>1. PICK p \in S : \E m, other : Stops(p, m, q, other)
      BY CircleBlocker
    <3>2. PICK m, other :
            /\ m \in held[p] /\ other \in Wants(q) \ held[q]
            /\ m.on = other.on /\ Conflict(m.mode, other.mode)
      BY <3>1 DEF Stops
    <3>3. \E row \in rows : other = Lock(<<"row", row.id>>, "KEY SHARE")
      BY <1>3, <2>2, <2>4, <3>2 DEF Wants
    <3> QED
      BY <1>1, <3>2, <3>3
  <2> QED
    BY <2>2, <2>3, <2>4
<1> QED
  BY <1>3, <1>4, <1>5 DEF Wants

(* A deletion that waits for its row keeps nobody waiting.                        *)
LEMMA AtRemove ==
    ASSUME TypeInv, NumberInv, HoldingInv,
           NEW S \in SUBSET Requests, Circle(S), NEW r \in S, req[r].pc = "remove"
    PROVE  \E q \in S : req[q].pc # "remove"
<1>1. PICK q \in S : Stuck(q) /\ \E l, lock : Stops(q, l, r, lock) /\ Holding(q, l)
  BY CircleBlocker
<1>2. PICK l, lock :
        /\ q # r /\ lock \in Wants(r) /\ l \in held[q]
        /\ l.on = lock.on /\ Conflict(l.mode, lock.mode) /\ Holding(q, l)
  BY <1>1 DEF Stops
<1>3. l.on = <<"row", req[r].target>>
  BY <1>2 DEF Wants, Lock
<1> QED
  BY <1>2, <1>3, RowBlocker

-----------------------------------------------------------------------------
LInv == IInv /\ HoldingInv /\ ForestInv /\ DeleteInv /\ ParentInv

LEMMA LInvInit == Init => LInv
<1> SUFFICES ASSUME Init PROVE LInv
  OBVIOUS
<1>1. IInv
  BY IInvInit
<1>2. \A r \in Requests : req[r].pc = "idle" /\ held[r] = {}
  BY DEF Init, NoTransaction
<1>3. HoldingInv /\ DeleteInv /\ ParentInv
  BY <1>2 DEF HoldingInv, DeleteInv, Deleting, ParentInv, Closing
<1>4. ForestInv
  BY StoredAssumption, TransactionsAssumption DEF Init, ForestInv, Known, Ids
<1> QED
  BY <1>1, <1>3, <1>4 DEF LInv

LEMMA LInvStep == LInv /\ [Next]_vars => LInv'
BY IInvStep, HoldingStep, ForestStep, DeleteStep, ParentStep DEF LInv, IInv

LEMMA NoCircle == LInv => NoDeadlock
<1> SUFFICES ASSUME LInv, NEW S \in (SUBSET Requests) \ {{}}, \A r \in S : \E q \in S : Awaits(r, q)
             PROVE  FALSE
  BY DEF NoDeadlock
<1> Circle(S)
  BY DEF Circle
<1>1. TypeInv /\ NumberInv /\ ExclusiveInv /\ HoldingInv /\ ForestInv /\ DeleteInv
  BY DEF LInv, IInv
<1>2. \E r \in S : req[r].pc = "clear"
  <2>1. PICK r \in S : TRUE
    OBVIOUS
  <2>2. \E q \in S : req[q].pc \in {"insert", "refer", "clear"}
    BY <1>1, <2>1, AtEvidence, AtRemove
  <2> QED
    BY <1>1, <2>2, AtInsert, AtRefer
<1> DEFINE X == {req[r].target : r \in {q \in S : req[q].pc = "clear"}}
<1>3. \A x \in X : \E row \in rows : row.id \in X /\ row.parent = x /\ x # NoEvidence
  BY <1>1, AtClear
<1>4. X \in (SUBSET Ids) \ {{}}
  <2>1. X # {}
    BY <1>2
  <2>2. \A row \in rows : row.parent \in Ids \cup {NoEvidence}
    BY <1>1 DEF ForestInv
  <2> HIDE DEF X
  <2> QED
    BY <1>3, <2>1, <2>2
<1> HIDE DEF X
<1> QED
  BY <1>1, <1>3, <1>4 DEF ForestInv

(* However many requests there are and whatever they lock, no transactions wait for *)
(* each other in a circle: whoever waits at or after the lock of its chain waits for   *)
(* one that does not, and a circle of deletions would be one of the tree of evidence.  *)
THEOREM CircleFree == Spec => []NoDeadlock
BY LInvInit, LInvStep, NoCircle, PTL DEF Spec
=============================================================================
