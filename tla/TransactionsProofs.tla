-------------------------- MODULE TransactionsProofs --------------------------
(***************************************************************************)
(* Proofs about Transactions, for any number of requests, cases, columns and    *)
(* rows of evidence, any menu of requests and any pool.                          *)
(***************************************************************************)
EXTENDS Transactions, TLAPS

Version == [Columns -> Values]

Target == Requests \cup {NoEvidence} \cup {row.id : row \in Stored}

Request ==
    [pc : Outside \cup Statements, job : Menu, loaded : Version, row : Version,
     number : Nat, target : Target]

(* A request is only at statements of its own kind.                           *)
Fits(pc, kind) ==
    /\ pc \in {"number", "create"} => kind = "create"
    /\ pc \in {"load", "flush"} => kind = "update"
    /\ pc \in {"insert", "refer"} => kind = "upload"
    /\ pc \in {"find", "remove", "clear"} => kind = "delete"

KindInv == \A r \in Requests : Fits(req[r].pc, req[r].job.kind)

RowInv == \A row \in rows : "id" \in DOMAIN row /\ row.id \in Target

TypeInv ==
    /\ TypeOK /\ KindInv /\ RowInv
    /\ held = [r \in Requests |-> held[r]]

(* No two transactions hold locks that are in conflict.                       *)
ExclusiveInv ==
    \A q, r \in Requests : \A lock \in held[r] : ~Blocks(q, r, lock)

(* An update between its flush and its commit.                                *)
Pending(r) ==
    /\ req[r].job.kind = "update" /\ req[r].pc \in {"lock", "event", "commit"}
    /\ Dirty(r) # {}

(* It keeps others from the row, so that the version it has made is still that of  *)
(* its own columns on top of the committed one.                                 *)
UpdateInv ==
    \A r \in Requests : Pending(r) =>
        /\ Lock(<<"case", req[r].job.case>>, UpdateMode) \in held[r]
        /\ req[r].row = NewVersion(r)

(* A request that has drawn its number and may still use it.                   *)
Drawn(r) == req[r].job.kind = "create" /\ req[r].pc \in {"create", "lock", "event", "commit"}

NumberInv ==
    /\ \A r \in Requests : Drawn(r) =>
         /\ req[r].number \in 1 .. sequence /\ req[r].number \notin numbers
         /\ \A q \in Requests : Drawn(q) /\ req[q].number = req[r].number => q = r
    /\ \A r \in Requests : \A lock \in held[r] :
         lock.on[1] = "number" => Drawn(r) /\ lock.on = <<"number", req[r].number>>

-----------------------------------------------------------------------------
(* What a step does to a request                                              *)

LEMMA Types ==
    TypeOK <=> /\ req \in [Requests -> Request]
               /\ \A r \in Requests : req[r].pc \in Outside => held[r] = {}
               /\ cases \in [Cases -> Version] /\ written \in [Cases -> Version]
               /\ sequence \in Nat /\ numbers \subseteq 1 .. sequence
BY DEF TypeOK, Request, Version, Target

LEMMA Choices == FirstVersion \in Version /\ (CHOOSE job \in Menu : TRUE) \in Menu
<1>1. \E version \in Version : TRUE
  <2>1. PICK v \in Values : TRUE
    BY TransactionsAssumption
  <2>2. [f \in Columns |-> v] \in Version
    BY <2>1 DEF Version
  <2> QED
    BY <2>2
<1>2. \E job \in Menu : TRUE
  BY TransactionsAssumption
<1> QED
  BY <1>1, <1>2 DEF FirstVersion, Version

LEMMA NoTransactionType ==
    ASSUME NEW pc \in Outside
    PROVE  NoTransaction(pc) \in Request /\ NoTransaction(pc).pc = pc
<1>1. NoEvidence \in Target
  BY DEF Target
<1> QED
  BY <1>1, Choices DEF NoTransaction, Request

LEMMA EndRequest ==
    ASSUME TypeInv, NEW r \in Requests, NEW pc \in Outside, End(r, pc)
    PROVE  /\ req' \in [Requests -> Request] /\ req'[r].pc = pc
           /\ held'[r] = {} /\ held' = [q \in Requests |-> held'[q]]
           /\ \A q \in Requests \ {r} : req'[q] = req[q] /\ held'[q] = held[q]
<1>1. req \in [Requests -> Request] /\ held = [q \in Requests |-> held[q]]
  BY Types DEF TypeInv
<1>2. req' = [req EXCEPT ![r] = NoTransaction(pc)] /\ held' = [held EXCEPT ![r] = {}]
  BY DEF End
<1>3. NoTransaction(pc) \in Request /\ NoTransaction(pc).pc = pc
  BY NoTransactionType
<1> QED
  BY <1>1, <1>2, <1>3

LEMMA GotoRequest ==
    ASSUME TypeInv, NEW r \in Requests, NEW pc \in Statements, Goto(r, pc)
    PROVE  /\ req' \in [Requests -> Request] /\ req'[r].pc = pc
           /\ req'[r].job = req[r].job /\ req'[r].loaded = req[r].loaded
           /\ req'[r].row = req[r].row /\ req'[r].number = req[r].number
           /\ \A q \in Requests \ {r} : req'[q] = req[q]
<1>1. req \in [Requests -> Request]
  BY Types DEF TypeInv
<1> QED
  BY <1>1 DEF Goto, Request

LEMMA TypeInit == Init => TypeInv
<1> SUFFICES ASSUME Init PROVE TypeInv
  OBVIOUS
<1>1. req \in [Requests -> Request] /\ \A r \in Requests : req[r].pc = "idle"
  BY NoTransactionType DEF Init, Outside
<1>2. cases \in [Cases -> Version] /\ written \in [Cases -> Version]
  BY Choices DEF Init
<1>3. TypeOK
  BY <1>1, <1>2, Types DEF Init
<1>4. KindInv /\ RowInv
  BY <1>1, TransactionsAssumption DEF Init, KindInv, Fits, RowInv, Target
<1> QED
  BY <1>3, <1>4 DEF Init, TypeInv

(* Steps of one request that leave the tables alone.                          *)
LEMMA RequestType ==
    ASSUME TypeInv, NEW r \in Requests,
           req' \in [Requests -> Request], held' = [q \in Requests |-> held'[q]],
           \A q \in Requests \ {r} : req'[q] = req[q] /\ held'[q] = held[q],
           req'[r].pc \in Outside => held'[r] = {},
           Fits(req'[r].pc, req'[r].job.kind)
    PROVE  /\ KindInv' /\ held' = [q \in Requests |-> held'[q]]
           /\ UNCHANGED <<cases, rows, written, sequence, numbers>> => TypeInv'
<1>1. \A q \in Requests : req'[q].pc \in Outside => held'[q] = {}
  BY Types DEF TypeInv
<1>2. KindInv'
  <2> SUFFICES ASSUME NEW q \in Requests PROVE Fits(req'[q].pc, req'[q].job.kind)
    BY DEF KindInv
  <2>1. CASE q = r
    BY <2>1
  <2>2. CASE q # r
    BY <2>2 DEF TypeInv, KindInv
  <2> QED
    BY <2>1, <2>2
<1>3. ASSUME UNCHANGED <<cases, rows, written, sequence, numbers>> PROVE TypeOK' /\ RowInv'
  <2>1. RowInv'
    BY <1>3 DEF TypeInv, RowInv
  <2>2. /\ cases' \in [Cases -> Version] /\ written' \in [Cases -> Version]
        /\ sequence' \in Nat /\ numbers' \subseteq 1 .. sequence'
    BY <1>3, Types DEF TypeInv
  <2>3. TypeOK'
    BY <1>1, <2>2 DEF TypeOK, Request, Version, Target
  <2> QED
    BY <2>1, <2>3
<1> QED
  BY <1>2, <1>3 DEF TypeInv

LEMMA EndType ==
    ASSUME TypeInv, NEW r \in Requests, NEW pc \in {"done", "failed"}, End(r, pc)
    PROVE  /\ req' \in [Requests -> Request] /\ KindInv' /\ held' = [q \in Requests |-> held'[q]]
           /\ \A q \in Requests : req'[q].pc \in Outside => held'[q] = {}
           /\ UNCHANGED <<cases, rows, written, sequence, numbers>> => TypeInv'
<1>1. pc \in Outside
  BY DEF Outside
<1>2. /\ req' \in [Requests -> Request] /\ req'[r].pc = pc
      /\ held'[r] = {} /\ held' = [q \in Requests |-> held'[q]]
      /\ \A q \in Requests \ {r} : req'[q] = req[q] /\ held'[q] = held[q]
  BY <1>1, EndRequest
<1>3. Fits(req'[r].pc, req'[r].job.kind)
  BY <1>2 DEF Fits
<1>4. \A q \in Requests : req'[q].pc \in Outside => held'[q] = {}
  BY <1>2, Types DEF TypeInv
<1> QED
  BY <1>2, <1>3, <1>4, RequestType

LEMMA GotoType ==
    ASSUME TypeInv, NEW r \in Requests, NEW pc \in Statements, Goto(r, pc), held' = held,
           Fits(pc, req[r].job.kind),
           UNCHANGED <<cases, rows, written, sequence, numbers>>
    PROVE  TypeInv'
<1>1. /\ req' \in [Requests -> Request] /\ req'[r].pc = pc /\ req'[r].job = req[r].job
      /\ \A q \in Requests \ {r} : req'[q] = req[q]
  BY GotoRequest
<1>2. pc \notin Outside
  BY DEF Statements, Outside
<1>3. held' = [q \in Requests |-> held'[q]]
  BY DEF TypeInv
<1> QED
  BY <1>1, <1>2, <1>3, RequestType

LEMMA ConnectType ==
    ASSUME TypeInv, NEW r \in Requests, Arrive(r) \/ Connect(r)
    PROVE  TypeInv'
<1>1. req \in [Requests -> Request]
  BY Types DEF TypeInv
<1>2. CASE Arrive(r)
  <2>1. PICK job \in Menu : req' = [req EXCEPT ![r].pc = "connect", ![r].job = job]
    BY <1>2 DEF Arrive
  <2> DEFINE arrived == [req EXCEPT ![r].pc = "connect"]
  <2>2. arrived \in [Requests -> Request] /\ arrived[r].pc = "connect" /\ \A q \in Requests \ {r} : arrived[q] = req[q]
    BY <1>1 DEF Request, Outside
  <2>3. req' = [arrived EXCEPT ![r].job = job]
    BY <1>1, <2>1
  <2> HIDE DEF arrived
  <2>4. req' \in [Requests -> Request] /\ req'[r].pc = "connect" /\ \A q \in Requests \ {r} : req'[q] = req[q]
    BY <2>2, <2>3 DEF Request
  <2>5. held[r] = {} /\ held' = held
    BY <1>2, Types DEF TypeInv, Arrive, Outside
  <2> QED
    BY <1>2, <2>4, <2>5, RequestType DEF TypeInv, Arrive, Fits
<1>3. CASE Connect(r)
  <2>1. req[r].job \in Menu
    BY <1>1 DEF Request
  <2>2. First[req[r].job.kind] \in Statements /\ Fits(First[req[r].job.kind], req[r].job.kind)
    BY <2>1, TransactionsAssumption DEF First, Statements, Fits
  <2> QED
    BY <1>3, <2>2, GotoType DEF Connect
<1> QED
  BY <1>2, <1>3

LEMMA AcquireType ==
    ASSUME TypeInv, NEW r \in Requests, Acquire(r)
    PROVE  /\ TypeInv'
           /\ req' = req /\ \A q \in Requests \ {r} : held'[q] = held[q]
           /\ \E lock \in Wants(r) : /\ held'[r] = held[r] \cup {lock}
                                      /\ \A q \in Requests : ~Blocks(q, r, lock)
<1>1. PICK lock \in Wants(r) : /\ \A q \in Requests : ~Blocks(q, r, lock)
                               /\ held' = [held EXCEPT ![r] = @ \cup {lock}]
  BY DEF Acquire
<1>2. req' = req /\ UNCHANGED <<cases, rows, written, sequence, numbers>>
  BY DEF Acquire
<1>3. /\ held' = [q \in Requests |-> held'[q]] /\ held'[r] = held[r] \cup {lock}
      /\ \A q \in Requests \ {r} : held'[q] = held[q]
  BY <1>1 DEF TypeInv
<1>4. req[r].pc \notin Outside
  BY <1>1 DEF Wants, Outside
<1>5. req' \in [Requests -> Request] /\ Fits(req'[r].pc, req'[r].job.kind)
  BY <1>2, Types DEF TypeInv, KindInv
<1>6. TypeInv'
  BY <1>2, <1>3, <1>4, <1>5, RequestType
<1> QED
  BY <1>1, <1>2, <1>3, <1>6

LEMMA StatementType ==
    ASSUME TypeInv, NEW r \in Requests,
           InsertCase(r) \/ InsertEvidence(r) \/ CheckParent(r) \/ Proceed(r) \/ Fail(r)
    PROVE  TypeInv'
<1>1. Fits(req[r].pc, req[r].job.kind)
  BY DEF TypeInv, KindInv
<1>2. UNCHANGED <<cases, rows, written, sequence, numbers>>
  BY DEF InsertCase, InsertEvidence, CheckParent, Proceed, Fail
<1>3. CASE End(r, "failed")
  BY <1>2, <1>3, EndType
<1>4. CASE InsertCase(r) /\ Goto(r, "lock") /\ held' = held
  BY <1>1, <1>2, <1>4, GotoType DEF InsertCase, At, Fits, Statements
<1>5. CASE InsertEvidence(r) /\ Goto(r, "refer") /\ held' = held
  <2>1. Fits("refer", req[r].job.kind) /\ "refer" \in Statements
    BY <1>1, <1>5 DEF InsertEvidence, At, Fits, Statements
  <2> QED
    BY <1>2, <1>5, <2>1, GotoType
<1>6. CASE CheckParent(r) /\ Goto(r, "lock") /\ held' = held
  <2>1. Fits("lock", req[r].job.kind) /\ "lock" \in Statements
    BY DEF Fits, Statements
  <2> QED
    BY <1>2, <1>6, <2>1, GotoType
<1>7. CASE Proceed(r)
  <2>1. /\ Following[req[r].pc] \in Statements /\ Fits(Following[req[r].pc], req[r].job.kind)
        /\ Goto(r, Following[req[r].pc]) /\ held' = held
    BY <1>1, <1>7 DEF Proceed, Following, Fits, Statements
  <2> QED
    BY <1>2, <2>1, GotoType
<1> QED
  BY <1>3, <1>4, <1>5, <1>6, <1>7 DEF InsertCase, InsertEvidence, CheckParent, Fail

(* Steps that change a request in more than its statement.                    *)
LEMMA DrawType ==
    ASSUME TypeInv, NEW r \in Requests, DrawNumber(r)
    PROVE  /\ TypeInv'
           /\ req'[r].pc = "create" /\ req'[r].job = req[r].job /\ req'[r].number = sequence + 1
           /\ \A q \in Requests \ {r} : req'[q] = req[q]
<1>1. req \in [Requests -> Request] /\ Fits(req[r].pc, req[r].job.kind) /\ sequence \in Nat
  BY Types DEF TypeInv, KindInv
<1>2. /\ req' = [req EXCEPT ![r].pc = "create", ![r].number = sequence + 1]
      /\ sequence' = sequence + 1 /\ UNCHANGED <<held, cases, rows, written, numbers>>
      /\ req[r].pc = "number"
  BY DEF DrawNumber, NextSequenceValue, At
<1>3. /\ req' \in [Requests -> Request] /\ req'[r].pc = "create"
      /\ req'[r].job = req[r].job /\ req'[r].number = sequence + 1
      /\ \A q \in Requests \ {r} : req'[q] = req[q]
  <2> DEFINE at == [req EXCEPT ![r].pc = "create"]
  <2>1. /\ at \in [Requests -> Request] /\ at[r].pc = "create" /\ at[r].job = req[r].job
        /\ \A q \in Requests \ {r} : at[q] = req[q]
    BY <1>1 DEF Request, Statements
  <2>2. req' = [at EXCEPT ![r].number = sequence + 1]
    BY <1>1, <1>2
  <2>3. sequence + 1 \in Nat
    BY <1>1
  <2> HIDE DEF at
  <2> QED
    BY <2>1, <2>2, <2>3 DEF Request
<1>4. "create" \notin Outside /\ Fits("create", req[r].job.kind)
  BY <1>1, <1>2 DEF Outside, Fits
<1>5. held' = [q \in Requests |-> held'[q]]
  BY <1>2 DEF TypeInv
<1>6. KindInv'
  BY <1>2, <1>3, <1>4, <1>5, RequestType
<1>7. sequence' \in Nat /\ numbers' \subseteq 1 .. sequence'
  BY <1>1, <1>2, Types DEF TypeInv
<1>8. \A q \in Requests : req'[q].pc \in Outside => held'[q] = {}
  BY <1>2, <1>3, <1>4, Types DEF TypeInv
<1>9. TypeOK' /\ RowInv'
  BY <1>2, <1>3, <1>7, <1>8, Types DEF TypeInv, TypeOK, Request, Version, Target, RowInv
<1> QED
  BY <1>3, <1>5, <1>6, <1>9 DEF TypeInv

LEMMA NewVersionType ==
    ASSUME TypeInv, NEW r \in Requests, req[r].job.kind = "update"
    PROVE  NewVersion(r) \in Version /\ req[r].job.case \in Cases /\ Dirty(r) \subseteq Columns
<1>1. req[r].job \in Menu /\ cases \in [Cases -> Version]
  BY Types DEF TypeInv, Request
<1>2. /\ req[r].job.case \in Cases /\ DOMAIN req[r].job.patch \subseteq Columns
      /\ \A f \in DOMAIN req[r].job.patch : req[r].job.patch[f] \in Values
  BY <1>1, TransactionsAssumption
<1>3. cases[req[r].job.case] \in Version
  BY <1>1, <1>2
<1>4. Dirty(r) \subseteq DOMAIN req[r].job.patch
  BY DEF Dirty
<1> QED
  BY <1>2, <1>3, <1>4 DEF NewVersion, Version

LEMMA UpdateType ==
    ASSUME TypeInv, NEW r \in Requests, Load(r) \/ Flush(r)
    PROVE  /\ TypeInv' /\ req'[r].job = req[r].job
           /\ \A q \in Requests \ {r} : req'[q] = req[q]
           /\ Load(r) => req'[r].pc = "flush"
           /\ Flush(r) => /\ req'[r].pc = "lock" /\ req'[r].row = NewVersion(r)
                          /\ req'[r].loaded = req[r].loaded
<1>1. req \in [Requests -> Request] /\ req[r].job.kind = "update"
  BY Types DEF TypeInv, KindInv, Fits, Load, Flush, At
<1>2. UNCHANGED <<held, cases, rows, written, sequence, numbers>> /\ held' = [q \in Requests |-> held'[q]]
  BY DEF Load, Flush, TypeInv
<1>3. CASE Load(r)
  <2>1. cases[req[r].job.case] \in Version
    BY <1>1, NewVersionType, Types DEF TypeInv
  <2> DEFINE at == [req EXCEPT ![r].pc = "flush"]
  <2>2. /\ at \in [Requests -> Request] /\ at[r].pc = "flush" /\ at[r].job = req[r].job
        /\ \A q \in Requests \ {r} : at[q] = req[q]
    BY <1>1 DEF Request, Statements
  <2>3. req' = [at EXCEPT ![r].loaded = cases[req[r].job.case]]
    BY <1>1, <1>3 DEF Load
  <2> HIDE DEF at
  <2>4. /\ req' \in [Requests -> Request] /\ req'[r].pc = "flush" /\ req'[r].job = req[r].job
        /\ \A q \in Requests \ {r} : req'[q] = req[q]
    BY <2>1, <2>2, <2>3 DEF Request
  <2>5. "flush" \notin Outside /\ Fits("flush", "update") /\ ~Flush(r)
    BY <1>3 DEF Outside, Fits, Load, Flush, At
  <2>6. TypeInv'
    BY <1>1, <1>2, <2>4, <2>5, RequestType
  <2> QED
    BY <2>4, <2>5, <2>6
<1>4. CASE Flush(r)
  <2>1. NewVersion(r) \in Version
    BY <1>1, NewVersionType
  <2> DEFINE at == [req EXCEPT ![r].pc = "lock"]
  <2>2. /\ at \in [Requests -> Request] /\ at[r].pc = "lock" /\ at[r].job = req[r].job
        /\ at[r].loaded = req[r].loaded /\ \A q \in Requests \ {r} : at[q] = req[q]
    BY <1>1 DEF Request, Statements
  <2>3. req' = [at EXCEPT ![r].row = NewVersion(r)]
    BY <1>1, <1>4 DEF Flush
  <2> HIDE DEF at
  <2>4. /\ req' \in [Requests -> Request] /\ req'[r].pc = "lock" /\ req'[r].job = req[r].job
        /\ req'[r].row = NewVersion(r) /\ req'[r].loaded = req[r].loaded
        /\ \A q \in Requests \ {r} : req'[q] = req[q]
    BY <2>1, <2>2, <2>3 DEF Request
  <2>5. "lock" \notin Outside /\ Fits("lock", "update") /\ ~Load(r)
    BY <1>4 DEF Outside, Fits, Load, Flush, At
  <2>6. TypeInv'
    BY <1>1, <1>2, <2>4, <2>5, RequestType
  <2> QED
    BY <2>4, <2>5, <2>6
<1> QED
  BY <1>3, <1>4

LEMMA FindType ==
    ASSUME TypeInv, NEW r \in Requests, FindEvidence(r)
    PROVE  /\ TypeInv'
           /\ \/ End(r, "failed")
              \/ /\ req'[r].pc = "remove" /\ req'[r].job = req[r].job /\ held' = held
                 /\ \A q \in Requests \ {r} : req'[q] = req[q]
<1>1. req \in [Requests -> Request] /\ req[r].job.kind = "delete"
  BY Types DEF TypeInv, KindInv, Fits, FindEvidence, At
<1>2. UNCHANGED <<cases, rows, written, sequence, numbers>>
  BY DEF FindEvidence
<1>3. CASE End(r, "failed")
  BY <1>2, <1>3, EndType
<1>4. ASSUME NEW row \in rows, held' = held,
             req' = [req EXCEPT ![r].pc = "remove", ![r].target = row.id]
      PROVE  /\ TypeInv' /\ req'[r].pc = "remove" /\ req'[r].job = req[r].job
             /\ \A q \in Requests \ {r} : req'[q] = req[q]
  <2>1. row.id \in Target
    BY DEF TypeInv, RowInv
  <2> DEFINE at == [req EXCEPT ![r].pc = "remove"]
  <2>2. /\ at \in [Requests -> Request] /\ at[r].pc = "remove" /\ at[r].job = req[r].job
        /\ \A q \in Requests \ {r} : at[q] = req[q]
    BY <1>1 DEF Request, Statements
  <2>3. req' = [at EXCEPT ![r].target = row.id]
    BY <1>1, <1>4
  <2> HIDE DEF at
  <2>4. /\ req' \in [Requests -> Request] /\ req'[r].pc = "remove" /\ req'[r].job = req[r].job
        /\ \A q \in Requests \ {r} : req'[q] = req[q]
    BY <2>1, <2>2, <2>3 DEF Request
  <2>5. "remove" \notin Outside /\ Fits("remove", "delete")
    BY DEF Outside, Fits
  <2>6. held' = [q \in Requests |-> held'[q]]
    BY <1>4 DEF TypeInv
  <2> QED
    BY <1>1, <1>2, <1>4, <2>4, <2>5, <2>6, RequestType
<1> QED
  BY <1>3, <1>4 DEF FindEvidence

LEMMA CommitRows ==
    ASSUME TypeInv, NEW r \in Requests, CommitUpload(r) \/ CommitDelete(r)
    PROVE  RowInv'
<1>1. \A row \in rows : "id" \in DOMAIN row /\ row.id \in Target
  BY DEF TypeInv, RowInv
<1>2. CASE CommitUpload(r)
  <2> DEFINE new == [id |-> r, case |-> req[r].job.case, file |-> req[r].job.file,
                     parent |-> req[r].job.parent]
  <2>1. "id" \in DOMAIN new /\ new.id \in Target
    BY DEF Target
  <2>2. rows' = rows \cup {new}
    BY <1>2 DEF CommitUpload
  <2> HIDE DEF new
  <2> QED
    BY <1>1, <2>1, <2>2 DEF RowInv
<1>3. CASE CommitDelete(r)
  <2>1. \A row \in rows : /\ "id" \in DOMAIN [row EXCEPT !.parent = NoEvidence]
                          /\ [row EXCEPT !.parent = NoEvidence].id = row.id
    BY <1>1
  <2> QED
    BY <1>1, <1>3, <2>1 DEF CommitDelete, Children, RowInv
<1> QED
  BY <1>2, <1>3

LEMMA CommitType ==
    ASSUME TypeInv, NumberInv, NEW r \in Requests, Commit(r)
    PROVE  TypeInv'
<1>1. req \in [Requests -> Request] /\ req[r].pc = "commit" /\ End(r, "done") /\ sequence' = sequence
  BY Types DEF TypeInv, Commit, At
<1>2. /\ req' \in [Requests -> Request] /\ KindInv' /\ held' = [q \in Requests |-> held'[q]]
      /\ \A q \in Requests : req'[q].pc \in Outside => held'[q] = {}
  BY <1>1, EndType
<1>3. /\ cases \in [Cases -> Version] /\ written \in [Cases -> Version]
      /\ sequence \in Nat /\ numbers \subseteq 1 .. sequence /\ RowInv
  BY Types DEF TypeInv
<1>4. cases' \in [Cases -> Version] /\ written' \in [Cases -> Version] /\ numbers' \subseteq 1 .. sequence /\ RowInv'
  <2>1. CASE req[r].job.kind = "update" /\ CommitUpdate(r)
    <3>1. req[r].row \in Version /\ req[r].job \in Menu
      BY <1>1 DEF Request
    <3>2. /\ req[r].job.case \in Cases
          /\ \A f \in Dirty(r) : req[r].job.patch[f] \in Values
      BY <2>1, <3>1, TransactionsAssumption DEF Dirty
    <3>3. \A v \in Version :
            [f \in Columns |-> IF f \in Dirty(r) THEN req[r].job.patch[f] ELSE v[f]] \in Version
      BY <3>2 DEF Version
    <3>4. cases' \in [Cases -> Version] /\ UNCHANGED <<rows, numbers>>
      BY <1>3, <2>1, <3>1 DEF CommitUpdate
    <3>5. written' \in [Cases -> Version]
      BY <1>3, <2>1, <3>2, <3>3 DEF CommitUpdate
    <3> QED
      BY <1>3, <3>4, <3>5 DEF RowInv
  <2>2. CASE (CommitUpload(r) \/ CommitDelete(r)) /\ UNCHANGED <<cases, written, numbers>>
    BY <1>3, <2>2, CommitRows
  <2>3. CASE /\ req[r].job.kind = "create" /\ numbers' = numbers \cup {req[r].number}
             /\ UNCHANGED <<cases, rows, written>>
    <3>1. req[r].number \in 1 .. sequence
      BY <1>1, <2>3 DEF NumberInv, Drawn
    <3> QED
      BY <1>3, <2>3, <3>1 DEF RowInv
  <2>4. CASE UNCHANGED <<cases, rows, written, numbers>>
    BY <1>3, <2>4 DEF RowInv
  <2> QED
    BY <2>1, <2>2, <2>3, <2>4 DEF Commit, CommitUpload, CommitDelete
<1>5. TypeOK'
  BY <1>1, <1>2, <1>3, <1>4 DEF TypeOK, Request, Version, Target
<1> QED
  BY <1>2, <1>4, <1>5 DEF TypeInv

LEMMA TypeStep ==
    ASSUME TypeInv, NumberInv, [Next]_vars
    PROVE  TypeInv'
<1>1. CASE UNCHANGED vars
  BY <1>1, Types DEF vars, TypeInv, TypeOK, KindInv, RowInv
<1>2. ASSUME NEW r \in Requests, Arrive(r) \/ Handle(r) \/ Fail(r) PROVE TypeInv'
  BY <1>2, ConnectType, AcquireType, StatementType, DrawType, UpdateType, FindType, CommitType
     DEF Handle
<1> QED
  BY <1>1, <1>2 DEF Next, Quiet

(* A step concerns one request and gives it at most one more lock.             *)
LEMMA OneRequest ==
    ASSUME TypeInv, NEW r \in Requests, Arrive(r) \/ Handle(r) \/ Fail(r)
    PROVE  /\ \A q \in Requests \ {r} : req'[q] = req[q] /\ held'[q] = held[q]
           /\ held'[r] \subseteq held[r] \/ Acquire(r)
<1>1. req \in [Requests -> Request] /\ held = [q \in Requests |-> held[q]]
  BY Types DEF TypeInv
<1>2. CASE Acquire(r)
  BY <1>2, AcquireType
<1>3. CASE \E pc \in Outside : End(r, pc)
  BY <1>3, EndRequest
<1>4. CASE held' = held /\ \E pc \in Statements : Goto(r, pc)
  BY <1>4, GotoRequest
<1>5. CASE DrawNumber(r)
  BY <1>5, DrawType DEF DrawNumber
<1>6. CASE Load(r) \/ Flush(r)
  BY <1>6, UpdateType DEF Load, Flush
<1>7. CASE FindEvidence(r)
  BY <1>3, <1>7, FindType DEF Outside
<1>8. CASE Arrive(r)
  <2>1. held' = held /\ \A q \in Requests \ {r} : req'[q] = req[q]
    BY <1>1, <1>8 DEF Arrive
  <2> QED
    BY <2>1
<1>9. CASE Connect(r)
  <2>1. First[req[r].job.kind] \in Statements /\ held' = held
    BY <1>1, <1>9, TransactionsAssumption DEF First, Statements, Connect, Request
  <2> QED
    BY <1>4, <1>9, <2>1 DEF Connect
<1>10. CASE InsertCase(r) \/ InsertEvidence(r) \/ CheckParent(r)
  BY <1>3, <1>4, <1>10 DEF InsertCase, InsertEvidence, CheckParent, Statements, Outside
<1>11. CASE Proceed(r)
  <2>1. Following[req[r].pc] \in Statements /\ held' = held
    BY <1>11 DEF Proceed, Following, Statements
  <2> QED
    BY <1>4, <1>11, <2>1 DEF Proceed
<1>12. CASE Commit(r) \/ Fail(r)
  BY <1>3, <1>12 DEF Commit, Fail, Outside
<1> QED
  BY <1>2, <1>5, <1>6, <1>7, <1>8, <1>9, <1>10, <1>11, <1>12 DEF Handle

LEMMA ConflictSymmetric == \A a, b : Conflict(a, b) <=> Conflict(b, a)
BY DEF Conflict

LEMMA ExclusiveStep ==
    ASSUME TypeInv, ExclusiveInv, [Next]_vars
    PROVE  ExclusiveInv'
<1>1. CASE UNCHANGED vars
  BY <1>1 DEF vars, ExclusiveInv, Blocks
<1>2. ASSUME NEW r \in Requests, Arrive(r) \/ Handle(r) \/ Fail(r) PROVE ExclusiveInv'
  <2> SUFFICES ASSUME NEW p \in Requests, NEW q \in Requests, p # q,
                      NEW l \in held'[p], NEW m \in held'[q], l.on = m.on,
                      Conflict(l.mode, m.mode)
               PROVE  FALSE
    BY DEF ExclusiveInv, Blocks
  <2>1. CASE l \in held[p] /\ m \in held[q]
    BY <2>1 DEF ExclusiveInv, Blocks
  <2>2. ASSUME NEW a \in Requests, NEW lock \in held'[r], lock \notin held[r],
               NEW other \in held'[a], a # r, lock.on = other.on, Conflict(other.mode, lock.mode)
        PROVE  FALSE
    <3>1. Acquire(r) /\ held'[a] = held[a]
      BY <1>2, <2>2, OneRequest
    <3>2. \A b \in Requests : ~Blocks(b, r, lock)
      BY <2>2, <3>1, AcquireType
    <3> QED
      BY <2>2, <3>1, <3>2 DEF Blocks
  <2> QED
    BY <1>2, <2>1, <2>2, OneRequest, ConflictSymmetric
<1> QED
  BY <1>1, <1>2 DEF Next, Quiet

(* What becomes an update that is past its flush was there before, or is one now. *)
LEMMA PendingBefore ==
    ASSUME TypeInv, NEW r \in Requests, Arrive(r) \/ Handle(r) \/ Fail(r),
           req'[r].job.kind = "update", req'[r].pc \in {"lock", "event", "commit"}
    PROVE  /\ req'[r].job = req[r].job /\ req'[r].loaded = req[r].loaded
           /\ held[r] \subseteq held'[r] /\ cases' = cases
           /\ \/ Flush(r)
              \/ /\ req[r].job.kind = "update" /\ req[r].pc \in {"lock", "event", "commit"}
                 /\ req'[r].row = req[r].row
<1>1. req \in [Requests -> Request] /\ Fits(req[r].pc, req[r].job.kind)
  BY Types DEF TypeInv, KindInv
<1>2. ~ \E pc \in {"done", "failed"} : End(r, pc)
  BY EndRequest DEF Outside
<1>3. CASE Acquire(r)
  <2>1. req' = req /\ held[r] \subseteq held'[r]
    BY <1>3, AcquireType
  <2> QED
    BY <1>3, <2>1 DEF Acquire
<1>4. CASE Flush(r)
  <2>1. req'[r].job = req[r].job /\ req'[r].loaded = req[r].loaded
    BY <1>4, UpdateType
  <2> QED
    BY <1>4, <2>1 DEF Flush
<1>5. CASE Proceed(r)
  <2>1. req[r].pc \in {"remove", "clear", "lock", "event"} /\ held' = held /\ cases' = cases
    BY <1>5 DEF Proceed, Following
  <2>2. Following[req[r].pc] \in Statements /\ Goto(r, Following[req[r].pc])
    BY <1>5, <2>1 DEF Proceed, Following, Statements
  <2>3. /\ req'[r].job = req[r].job /\ req'[r].loaded = req[r].loaded /\ req'[r].row = req[r].row
    BY <2>2, GotoRequest
  <2> QED
    BY <1>1, <2>1, <2>3 DEF Fits
<1>6. ASSUME InsertCase(r) \/ InsertEvidence(r) \/ CheckParent(r) PROVE FALSE
  <2>1. PICK pc \in {"lock", "refer"} : Goto(r, pc)
    BY <1>2, <1>6 DEF InsertCase, InsertEvidence, CheckParent
  <2>2. req'[r].job = req[r].job
    BY <2>1, GotoRequest DEF Statements
  <2>3. req[r].job.kind # "update"
    BY <1>1, <1>6 DEF InsertCase, InsertEvidence, CheckParent, At, Fits
  <2> QED
    BY <2>2, <2>3
<1>7. ASSUME DrawNumber(r) \/ Load(r) \/ FindEvidence(r) PROVE FALSE
  BY <1>2, <1>7, DrawType, UpdateType, FindType
<1>8. ASSUME Connect(r) PROVE FALSE
  <2>1. First[req[r].job.kind] \in Statements
    BY <1>1, TransactionsAssumption DEF First, Statements, Request
  <2>2. req'[r].pc = First[req[r].job.kind] /\ req'[r].job = req[r].job
    BY <1>8, <2>1, GotoRequest DEF Connect
  <2> QED
    BY <2>2 DEF First
<1>9. ASSUME Arrive(r) PROVE FALSE
  <2>1. PICK job \in Menu : req' = [req EXCEPT ![r].pc = "connect", ![r].job = job]
    BY <1>9 DEF Arrive
  <2>2. req'[r].pc = "connect"
    BY <1>1, <2>1 DEF Request
  <2> QED
    BY <2>2
<1> QED
  BY <1>2, <1>3, <1>4, <1>5, <1>6, <1>7, <1>8, <1>9 DEF Handle, Commit, Fail

(* Only the commit of an update that has changed something writes a case.      *)
LEMMA CasesChange ==
    ASSUME TypeInv, NEW r \in Requests, Arrive(r) \/ Handle(r) \/ Fail(r)
    PROVE  \/ UNCHANGED <<cases, written>>
           \/ /\ Pending(r) /\ CommitUpdate(r)
              /\ cases' = [cases EXCEPT ![req[r].job.case] = req[r].row]
<1>1. CASE Commit(r) /\ req[r].job.kind = "update"
  <2>1. req[r].pc = "commit" /\ CommitUpdate(r)
    BY <1>1 DEF Commit, At
  <2>2. CASE Dirty(r) = {}
    <3>1. written \in [Cases -> Version] /\ cases' = cases
      BY <2>1, <2>2, Types DEF CommitUpdate, TypeInv
    <3>2. req[r].job.case \in Cases
      BY <1>1, NewVersionType
    <3>3. written[req[r].job.case] = [f \in Columns |-> written[req[r].job.case][f]]
      BY <3>1, <3>2 DEF Version
    <3>4. written' = [written EXCEPT ![req[r].job.case] = [f \in Columns |-> written[req[r].job.case][f]]]
      BY <2>1, <2>2 DEF CommitUpdate
    <3>5. written' = written
      BY <3>1, <3>3, <3>4
    <3> QED
      BY <3>1, <3>5
  <2>3. CASE Dirty(r) # {}
    BY <1>1, <2>1, <2>3 DEF Pending, CommitUpdate
  <2> QED
    BY <2>2, <2>3
<1>2. CASE Commit(r) /\ req[r].job.kind # "update"
  BY <1>2 DEF Commit, CommitUpload, CommitDelete
<1>3. CASE ~Commit(r)
  BY <1>3 DEF Handle, Arrive, Fail, Connect, Acquire, DrawNumber, InsertCase, Load, Flush,
              InsertEvidence, CheckParent, FindEvidence, Proceed
<1> QED
  BY <1>1, <1>2, <1>3

(* Nobody else commits to the case of a pending update.                       *)
LEMMA CaseKept ==
    ASSUME TypeInv, ExclusiveInv, UpdateInv, NEW r \in Requests, NEW q \in Requests, q # r,
           Arrive(r) \/ Handle(r) \/ Fail(r), Pending(q)
    PROVE  cases'[req[q].job.case] = cases[req[q].job.case]
<1>1. CASE UNCHANGED cases
  BY <1>1
<1>2. CASE Pending(r) /\ cases' = [cases EXCEPT ![req[r].job.case] = req[r].row]
  <2>1. /\ Lock(<<"case", req[r].job.case>>, UpdateMode) \in held[r]
        /\ Lock(<<"case", req[q].job.case>>, UpdateMode) \in held[q]
    BY <1>2 DEF UpdateInv
  <2>2. req[q].job.case # req[r].job.case
    BY <2>1 DEF ExclusiveInv, Blocks, Lock, Conflict, UpdateMode
  <2>3. cases \in [Cases -> Version] /\ req[q].job.case \in Cases
    BY NewVersionType, Types DEF TypeInv, Pending
  <2> QED
    BY <1>2, <2>2, <2>3
<1> QED
  BY <1>1, <1>2, CasesChange

LEMMA UpdateStep ==
    ASSUME TypeInv, NumberInv, ExclusiveInv, UpdateInv, [Next]_vars
    PROVE  UpdateInv'
<1>1. CASE UNCHANGED vars
  BY <1>1 DEF vars, UpdateInv, Pending, Dirty, NewVersion
<1>2. ASSUME NEW r \in Requests, Arrive(r) \/ Handle(r) \/ Fail(r) PROVE UpdateInv'
  <2> SUFFICES ASSUME NEW q \in Requests, Pending(q)'
               PROVE  /\ Lock(<<"case", req'[q].job.case>>, UpdateMode) \in held'[q]
                      /\ req'[q].row = NewVersion(q)'
    BY DEF UpdateInv, UpdateMode
  <2>1. CASE q # r
    <3>1. req'[q] = req[q] /\ held'[q] = held[q]
      BY <1>2, <2>1, OneRequest
    <3>2. Pending(q)
      BY <3>1 DEF Pending, Dirty
    <3>3. cases'[req[q].job.case] = cases[req[q].job.case]
      BY <1>2, <2>1, <3>2, CaseKept
    <3>4. NewVersion(q)' = NewVersion(q)
      BY <3>1, <3>3 DEF NewVersion, Dirty
    <3> QED
      BY <3>1, <3>2, <3>4 DEF UpdateInv
  <2>2. CASE q = r
    <3>1. /\ req'[r].job = req[r].job /\ req'[r].loaded = req[r].loaded
          /\ held[r] \subseteq held'[r] /\ cases' = cases
          /\ \/ Flush(r)
             \/ /\ req[r].job.kind = "update" /\ req[r].pc \in {"lock", "event", "commit"}
                /\ req'[r].row = req[r].row
      BY <1>2, <2>2, PendingBefore DEF Pending
    <3>2. Dirty(r)' = Dirty(r) /\ NewVersion(r)' = NewVersion(r)
      BY <3>1 DEF Dirty, NewVersion
    <3>3. CASE Flush(r)
      <4>1. Lock(<<"case", req[r].job.case>>, UpdateMode) \in Wants(r)
        BY <2>2, <3>2, <3>3 DEF Flush, At, Wants, Pending
      <4>2. Lock(<<"case", req[r].job.case>>, UpdateMode) \in held[r]
        BY <3>3, <4>1 DEF Flush, At
      <4>3. req'[r].row = NewVersion(r)
        BY <3>3, UpdateType
      <4> QED
        BY <2>2, <3>1, <3>2, <4>2, <4>3
    <3>4. CASE /\ req[r].job.kind = "update" /\ req[r].pc \in {"lock", "event", "commit"}
               /\ req'[r].row = req[r].row
      <4>1. Pending(r)
        BY <2>2, <3>2, <3>4 DEF Pending
      <4> QED
        BY <2>2, <3>1, <3>2, <3>4, <4>1 DEF UpdateInv
    <3> QED
      BY <3>1, <3>3, <3>4
  <2> QED
    BY <2>1, <2>2
<1> QED
  BY <1>1, <1>2 DEF Next, Quiet

LEMMA AuditedStep ==
    ASSUME TypeInv, UpdateInv, ColumnsAsAudited, [Next]_vars
    PROVE  ColumnsAsAudited'
<1>1. CASE UNCHANGED vars
  BY <1>1 DEF vars, ColumnsAsAudited
<1>2. ASSUME NEW r \in Requests, Arrive(r) \/ Handle(r) \/ Fail(r) PROVE cases' = written'
  <2>1. CASE UNCHANGED <<cases, written>>
    BY <2>1 DEF ColumnsAsAudited
  <2>2. CASE Pending(r) /\ CommitUpdate(r) /\ cases' = [cases EXCEPT ![req[r].job.case] = req[r].row]
    <3> DEFINE c == req[r].job.case
    <3>1. req[r].row = NewVersion(r)
      BY <2>2 DEF UpdateInv
    <3>2. written' = [written EXCEPT ![c] =
                        [f \in Columns |-> IF f \in Dirty(r) THEN req[r].job.patch[f] ELSE written[c][f]]]
      BY <2>2 DEF CommitUpdate
    <3> QED
      BY <2>2, <3>1, <3>2 DEF NewVersion, ColumnsAsAudited
  <2> QED
    BY <1>2, <2>1, <2>2, CasesChange
<1> QED
  BY <1>1, <1>2 DEF Next, Quiet, ColumnsAsAudited

(* A number is drawn, kept, and committed or given up by one request.          *)
LEMMA DrawnStep ==
    ASSUME TypeInv, NEW r \in Requests, Arrive(r) \/ Handle(r) \/ Fail(r)
    PROVE  /\ Drawn(r)' => DrawNumber(r) \/ (Drawn(r) /\ req'[r].number = req[r].number)
           /\ Drawn(r) => held'[r] = {} \/ (Drawn(r)' /\ req'[r].number = req[r].number)
           /\ \/ UNCHANGED <<sequence, numbers>>
              \/ /\ DrawNumber(r) /\ Drawn(r)' /\ req'[r].number = sequence + 1
                 /\ sequence' = sequence + 1 /\ numbers' = numbers
              \/ /\ Drawn(r) /\ ~Drawn(r)' /\ held'[r] = {}
                 /\ sequence' = sequence /\ numbers' = numbers \cup {req[r].number}
<1>1. req \in [Requests -> Request] /\ Fits(req[r].pc, req[r].job.kind)
  BY Types DEF TypeInv, KindInv
<1>2. ASSUME NEW pc \in {"done", "failed"}, End(r, pc) PROVE ~Drawn(r)' /\ held'[r] = {}
  BY <1>2, EndRequest DEF Drawn, Outside
<1>3. CASE Acquire(r)
  <2>1. req' = req
    BY <1>3, AcquireType
  <2> QED
    BY <1>3, <2>1 DEF Acquire, Drawn
<1>4. CASE DrawNumber(r)
  <2>1. req[r].job.kind = "create" /\ req[r].pc = "number"
    BY <1>1, <1>4 DEF DrawNumber, At, Fits
  <2>2. Drawn(r)' /\ req'[r].number = sequence + 1
    BY <1>4, <2>1, DrawType DEF Drawn
  <2> QED
    BY <1>4, <2>1, <2>2 DEF Drawn, DrawNumber
<1>5. CASE Proceed(r)
  <2>1. req[r].pc \in {"remove", "clear", "lock", "event"} /\ UNCHANGED <<sequence, numbers>>
    BY <1>5 DEF Proceed, Following
  <2>2. Following[req[r].pc] \in Statements /\ Goto(r, Following[req[r].pc])
    BY <1>5, <2>1 DEF Proceed, Following, Statements
  <2>3. /\ req'[r].job = req[r].job /\ req'[r].number = req[r].number
        /\ req'[r].pc = Following[req[r].pc]
    BY <2>2, GotoRequest
  <2> QED
    BY <1>1, <2>1, <2>3 DEF Fits, Following, Drawn
<1>6. CASE InsertCase(r)
  <2>1. Drawn(r) /\ UNCHANGED <<sequence, numbers>>
    BY <1>1, <1>6 DEF InsertCase, At, Fits, Drawn
  <2>2. CASE End(r, "failed")
    BY <1>2, <2>1, <2>2
  <2>3. CASE Goto(r, "lock")
    <3>1. req'[r].job = req[r].job /\ req'[r].number = req[r].number /\ req'[r].pc = "lock"
      BY <2>3, GotoRequest DEF Statements
    <3> QED
      BY <2>1, <3>1 DEF Drawn
  <2> QED
    BY <1>6, <2>2, <2>3 DEF InsertCase
<1>7. CASE InsertEvidence(r) \/ CheckParent(r)
  <2>1. req[r].job.kind # "create" /\ UNCHANGED <<sequence, numbers>>
    BY <1>1, <1>7 DEF InsertEvidence, CheckParent, At, Fits
  <2>2. CASE End(r, "failed")
    BY <1>2, <2>1, <2>2 DEF Drawn
  <2>3. ASSUME NEW pc \in {"lock", "refer"}, Goto(r, pc) PROVE ~Drawn(r)'
    BY <2>1, <2>3, GotoRequest DEF Statements, Drawn
  <2> QED
    BY <1>7, <2>1, <2>2, <2>3 DEF InsertEvidence, CheckParent, Drawn
<1>8. CASE Load(r) \/ Flush(r) \/ FindEvidence(r)
  <2>1. req[r].job.kind # "create" /\ UNCHANGED <<sequence, numbers>>
    BY <1>1, <1>8 DEF Load, Flush, FindEvidence, At, Fits
  <2>2. ~Drawn(r)'
    BY <1>2, <1>8, <2>1, UpdateType, FindType DEF Drawn
  <2> QED
    BY <2>1, <2>2 DEF Drawn
<1>9. CASE Connect(r)
  <2>1. First[req[r].job.kind] \in Statements /\ req[r].pc = "connect"
    BY <1>1, <1>9, TransactionsAssumption DEF First, Statements, Request, Connect
  <2>2. req'[r].pc = First[req[r].job.kind] /\ req'[r].job = req[r].job
    BY <1>9, <2>1, GotoRequest DEF Connect
  <2>3. ~Drawn(r) /\ ~Drawn(r)'
    BY <2>1, <2>2 DEF First, Drawn
  <2> QED
    BY <1>9, <2>3 DEF Connect
<1>10. CASE Arrive(r)
  <2>1. PICK job \in Menu : req' = [req EXCEPT ![r].pc = "connect", ![r].job = job]
    BY <1>10 DEF Arrive
  <2>2. req'[r].pc = "connect" /\ req[r].pc = "idle"
    BY <1>1, <1>10, <2>1 DEF Request, Arrive
  <2> QED
    BY <1>10, <2>2 DEF Arrive, Drawn
<1>11. CASE Fail(r)
  BY <1>2, <1>11 DEF Fail
<1>12. CASE Commit(r)
  <2>1. ~Drawn(r)' /\ held'[r] = {} /\ sequence' = sequence /\ req[r].pc = "commit"
    BY <1>2, <1>12 DEF Commit, At
  <2>2. \/ numbers' = numbers
        \/ req[r].job.kind = "create" /\ numbers' = numbers \cup {req[r].number}
    BY <1>12 DEF Commit, CommitUpdate, CommitUpload, CommitDelete
  <2> QED
    BY <2>1, <2>2 DEF Drawn
<1> QED
  BY <1>3, <1>4, <1>5, <1>6, <1>7, <1>8, <1>9, <1>10, <1>11, <1>12 DEF Handle

LEMMA WantedNumber ==
    ASSUME TypeInv, NEW r \in Requests, NEW lock \in Wants(r), lock.on[1] = "number"
    PROVE  Drawn(r) /\ lock.on = <<"number", req[r].number>>
<1>1. Fits(req[r].pc, req[r].job.kind)
  BY DEF TypeInv, KindInv
<1> DEFINE job == req[r].job
<1>2. \A n, mode : Lock(<<"number", n>>, mode).on = <<"number", n>>
  BY DEF Lock
<1>3. ASSUME NEW on, NEW mode, lock = Lock(on, mode) PROVE on[1] = "number"
  BY <1>3 DEF Lock
<1>4. CASE req[r].pc \in {"insert", "clear"}
  <2>1. \/ lock = Lock(<<"file", job.case, job.file>>, "UPDATE")
        \/ \E row \in rows : \E mode \in {"KEY SHARE", "NO KEY UPDATE"} : lock = Lock(<<"row", row.id>>, mode)
    BY <1>4 DEF Wants, Children
  <2>2. <<"file", job.case, job.file>>[1] # "number" /\ \A e : <<"row", e>>[1] # "number"
    OBVIOUS
  <2> QED
    BY <1>3, <2>1, <2>2
<1>5. CASE req[r].pc \notin {"insert", "clear"}
  <2>1. \/ lock = Lock(<<"case", job.case>>, UpdateMode)
        \/ lock = Lock(<<"case", job.case>>, "KEY SHARE")
        \/ lock = Lock(<<"row", job.parent>>, "KEY SHARE")
        \/ lock = Lock(<<"row", req[r].target>>, "UPDATE")
        \/ lock = Lock(<<"key", LockKey[job.case]>>, "UPDATE")
        \/ req[r].pc = "create" /\ lock = Lock(<<"number", req[r].number>>, "UPDATE")
    BY <1>5 DEF Wants
  <2>2. \A x : <<"case", x>>[1] # "number" /\ <<"row", x>>[1] # "number" /\ <<"key", x>>[1] # "number"
    OBVIOUS
  <2>3. req[r].pc = "create" /\ lock = Lock(<<"number", req[r].number>>, "UPDATE")
    BY <1>3, <2>1, <2>2
  <2> QED
    BY <1>1, <1>2, <2>3 DEF Fits, Drawn
<1> QED
  BY <1>4, <1>5

LEMMA NumberStep ==
    ASSUME TypeInv, NumberInv, [Next]_vars
    PROVE  NumberInv'
<1>1. CASE UNCHANGED vars
  BY <1>1 DEF vars, NumberInv, Drawn
<1>2. ASSUME NEW r \in Requests, Arrive(r) \/ Handle(r) \/ Fail(r) PROVE NumberInv'
  <2>1. \A q \in Requests \ {r} : req'[q] = req[q] /\ held'[q] = held[q] /\ Drawn(q)' = Drawn(q)
    BY <1>2, OneRequest DEF Drawn
  <2>2. sequence \in Nat /\ numbers \subseteq 1 .. sequence
    BY Types DEF TypeInv
  <2>3. ASSUME NEW q \in Requests, Drawn(q)'
        PROVE  req'[q].number \in 1 .. sequence' /\ req'[q].number \notin numbers'
    <3>1. CASE q # r
      <4>1. /\ Drawn(q) /\ req'[q].number = req[q].number
            /\ req[q].number \in 1 .. sequence /\ req[q].number \notin numbers
        BY <2>1, <2>3, <3>1 DEF NumberInv
      <4>2. \/ UNCHANGED <<sequence, numbers>>
            \/ sequence' = sequence + 1 /\ numbers' = numbers
            \/ Drawn(r) /\ sequence' = sequence /\ numbers' = numbers \cup {req[r].number}
        BY <1>2, DrawnStep
      <4>3. Drawn(r) => req[r].number # req[q].number
        BY <3>1, <4>1 DEF NumberInv
      <4> QED
        BY <2>2, <4>1, <4>2, <4>3
    <3>2. CASE q = r
      <4>1. CASE DrawNumber(r)
        <5>1. req'[r].number = sequence + 1 /\ sequence' = sequence + 1 /\ numbers' = numbers
          BY <4>1, DrawType DEF DrawNumber
        <5> QED
          BY <2>2, <3>2, <5>1
      <4>2. CASE ~DrawNumber(r)
        <5>1. Drawn(r) /\ req'[r].number = req[r].number /\ UNCHANGED <<sequence, numbers>>
          BY <1>2, <2>3, <3>2, <4>2, DrawnStep
        <5> QED
          BY <3>2, <5>1 DEF NumberInv
      <4> QED
        BY <4>1, <4>2
    <3> QED
      BY <3>1, <3>2
  <2>4. ASSUME NEW p \in Requests, NEW q \in Requests, Drawn(p)', Drawn(q)',
               req'[p].number = req'[q].number
        PROVE  p = q
    <3>1. ASSUME NEW a \in Requests \ {r}, Drawn(a)', Drawn(r)', req'[a].number = req'[r].number
          PROVE  FALSE
      <4>1. Drawn(a) /\ req[a].number = req'[a].number /\ req[a].number \in 1 .. sequence
        BY <2>1, <3>1 DEF NumberInv
      <4>2. CASE Drawn(r) /\ req'[r].number = req[r].number
        BY <3>1, <4>1, <4>2 DEF NumberInv
      <4>3. CASE req'[r].number = sequence + 1
        BY <2>2, <3>1, <4>1, <4>3
      <4> QED
        BY <1>2, <3>1, <4>2, <4>3, DrawnStep, DrawType
    <3>2. CASE p # r /\ q # r
      BY <2>1, <2>4, <3>2 DEF NumberInv
    <3> QED
      BY <2>4, <3>1, <3>2
  <2>5. ASSUME NEW q \in Requests, NEW lock \in held'[q], lock.on[1] = "number"
        PROVE  Drawn(q)' /\ lock.on = <<"number", req'[q].number>>
    <3>1. CASE q # r
      BY <2>1, <2>5, <3>1 DEF NumberInv
    <3>2. CASE q = r /\ lock \in held[r]
      <4>1. Drawn(r) /\ lock.on = <<"number", req[r].number>>
        BY <2>5, <3>2 DEF NumberInv
      <4> QED
        BY <1>2, <2>5, <3>2, <4>1, DrawnStep
    <3>3. CASE q = r /\ lock \notin held[r]
      <4>1. Acquire(r)
        BY <1>2, <2>5, <3>3, OneRequest
      <4>2. req' = req /\ lock \in Wants(r)
        BY <2>5, <3>3, <4>1, AcquireType
      <4> QED
        BY <2>5, <3>3, <4>2, WantedNumber DEF Drawn
    <3> QED
      BY <3>1, <3>2, <3>3
  <2> QED
    BY <2>3, <2>4, <2>5 DEF NumberInv
<1> QED
  BY <1>1, <1>2 DEF Next, Quiet

-----------------------------------------------------------------------------
IInv == TypeInv /\ NumberInv /\ ExclusiveInv /\ UpdateInv /\ ColumnsAsAudited

LEMMA IInvInit == Init => IInv
<1> SUFFICES ASSUME Init PROVE IInv
  OBVIOUS
<1>1. TypeInv
  BY TypeInit
<1>2. \A r \in Requests : req[r].pc = "idle" /\ held[r] = {}
  BY DEF Init, NoTransaction
<1>3. NumberInv /\ ExclusiveInv /\ UpdateInv
  BY <1>2 DEF NumberInv, Drawn, ExclusiveInv, UpdateInv, Pending
<1>4. ColumnsAsAudited
  BY DEF Init, ColumnsAsAudited
<1> QED
  BY <1>1, <1>3, <1>4 DEF IInv

LEMMA IInvStep == IInv /\ [Next]_vars => IInv'
BY TypeStep, NumberStep, ExclusiveStep, UpdateStep, AuditedStep DEF IInv

(* Whatever requests there are, each variable holds what the tables and the      *)
(* requests can put there, and a request that is over holds no lock.              *)
THEOREM TypeCorrect == Spec => []TypeOK
<1>1. IInv => TypeOK
  BY DEF IInv, TypeInv
<1> QED
  BY <1>1, IInvInit, IInvStep, PTL DEF Spec

(* However many PATCH requests overtake each other, and whatever they name, the    *)
(* cases are what their audit log says: the lock of the flush keeps the version it   *)
(* has made up to date until the commit, and it writes no column it has only read.   *)
THEOREM UpdatesAudited == Spec => []ColumnsAsAudited
<1>1. IInv => ColumnsAsAudited
  BY DEF IInv
<1> QED
  BY <1>1, IInvInit, IInvStep, PTL DEF Spec

(* A number that was drawn is never another case's, however many cases are       *)
(* created at a time and however many of them are rolled back.                     *)
THEOREM NumbersDistinct == Spec => []NumbersNeverClash
<1>1. IInv => NumbersNeverClash
  <2> SUFFICES ASSUME IInv, NEW r \in Requests, req[r].pc = "create"
               PROVE  /\ req[r].number \notin numbers
                      /\ \A q \in Requests \ {r} : ~Blocks(q, r, Lock(<<"number", req[r].number>>, "UPDATE"))
    BY DEF NumbersNeverClash
  <2>1. Drawn(r)
    BY DEF IInv, TypeInv, KindInv, Fits, Drawn
  <2>2. ASSUME NEW q \in Requests \ {r}, NEW l \in held[q], l.on = <<"number", req[r].number>>
        PROVE  FALSE
    <3>1. Drawn(q) /\ l.on = <<"number", req[q].number>>
      BY <2>2 DEF IInv, NumberInv
    <3> QED
      BY <2>1, <2>2, <3>1 DEF IInv, NumberInv
  <2> QED
    BY <2>1, <2>2 DEF IInv, NumberInv, Blocks, Lock
<1> QED
  BY <1>1, IInvInit, IInvStep, PTL DEF Spec
=============================================================================
