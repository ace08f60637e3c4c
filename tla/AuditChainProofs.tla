-------------------------- MODULE AuditChainProofs --------------------------
(***************************************************************************)
(* Proofs about AuditChain, for any sessions, cases, scripts and lock keys.  *)
(***************************************************************************)
EXTENDS AuditChain, SequenceTheorems, FiniteSetTheorems, TLAPS

(* The chain has a last row: what the CHOOSE of Last needs to be meaningful.  *)
HasLast(rows) == rows = {} \/ \E e \in rows : \A f \in rows \ {e} : Earlier(f, e)

Hash == Seq(Int \X Types \X Int)

(* A session past LockCaseChain, or with rows to commit, holds its lock.      *)
HolderInv ==
    \A s \in Sessions :
        /\ tx[s].pc # "idle" => tx[s].case \in Cases
        /\ tx[s].pc \in {"read", "insert", "commit"} \/ tx[s].rows # {}
             => tx[s].pc # "idle" /\ s \in holders[Key(s)]
        /\ tx[s].pc = "lock" => tx[s].todo # << >>
        /\ tx[s].pc \in {"read", "insert"} => tx[s].todo # << >>

ExclusiveInv == \A k \in LockKeys : \A s, t \in holders[k] : s = t

LastInv ==
    /\ \A c \in Cases : HasLast(log[c])
    /\ \A s \in Sessions : tx[s].rows # {} => HasLast(View(s))

LockInv == TypeOK /\ HolderInv /\ ExclusiveInv /\ LastInv

-----------------------------------------------------------------------------
(* Lemmas about rows and scripts *)

LEMMA LastIsLast ==
    ASSUME NEW rows, rows # {}, HasLast(rows)
    PROVE  Last(rows) \in rows /\ \A f \in rows \ {Last(rows)} : Earlier(f, Last(rows))
BY DEF HasLast, Last

LEMMA PreviousHashType ==
    ASSUME NEW rows \in SUBSET Event, HasLast(rows)
    PROVE  PreviousHash(rows) \in Hash
BY LastIsLast DEF PreviousHash, Event, Hash, NoHash

LEMMA NewEventType ==
    ASSUME NEW id \in Int, NEW type \in Types, NEW at \in Int, NEW previous_hash \in Hash
    PROVE  NewEvent(id, type, at, previous_hash) \in Event
BY DEF NewEvent, calculate_event_hash, Event, Hash

(* A row with a fresh key leaves a chain with a last row.                     *)
LEMMA LastAfterInsert ==
    ASSUME NEW rows \in SUBSET Event, HasLast(rows), NEW e \in Event,
           \A f \in rows : f.id # e.id
    PROVE  HasLast(rows \cup {e})
<1>1. CASE rows = {}
  BY <1>1 DEF HasLast
<1>2. CASE rows # {}
  <2> DEFINE l == Last(rows)
  <2>1. l \in rows /\ \A f \in rows \ {l} : Earlier(f, l)
    BY <1>2, LastIsLast
  <2>2. CASE Earlier(e, l)
    BY <2>1, <2>2 DEF HasLast
  <2>3. CASE Earlier(l, e)
    <3>1. \A f \in rows : Earlier(f, e)
      <4> SUFFICES ASSUME NEW f \in rows, f # l
                   PROVE  Earlier(f, e)
        BY <2>3
      <4>1. Earlier(f, l)
        BY <2>1
      <4>2. /\ f.at \in Int /\ l.at \in Int /\ e.at \in Int
            /\ f.id \in Int /\ l.id \in Int /\ e.id \in Int
        BY <2>1 DEF Event
      <4> QED
        BY <4>1, <4>2, <2>3 DEF Earlier
    <3> QED
      BY <3>1 DEF HasLast
  <2>4. Earlier(e, l) \/ Earlier(l, e)
    BY <2>1 DEF Earlier, Event
  <2> QED
    BY <2>2, <2>3, <2>4
<1> QED
  BY <1>1, <1>2

LEMMA NotEmpty ==
    ASSUME NEW S, NEW q \in Seq(S), Len(q) > 0
    PROVE  q # << >>
OBVIOUS

LEMMA ScriptTypes ==
    /\ CreateScript \in Seq(Types) /\ CreateScript # << >>
    /\ \A script \in Scripts : script \in Seq(Types) /\ script # << >>
<1>1. CreateScript \in Seq(Types) /\ CreateScript # << >>
  BY DEF CreateScript, Types
<1>2. \A script \in AppendScripts : script \in Seq(Types) /\ script # << >>
  <2>1. \A x \in Types : <<x>> \in Seq(Types) /\ <<x>> # << >>
    OBVIOUS
  <2>2. \A x, y \in Types : <<x, y>> \in Seq(Types) /\ <<x, y>> # << >>
    OBVIOUS
  <2>3. {"CASE_UPDATED", "EVIDENCE_UPLOAD_STARTED", "EVIDENCE_HASHED", "EVIDENCE_STORED",
         "EVIDENCE_CREATED", "EVIDENCE_UPLOAD_FAILED", "EVIDENCE_DELETED"} \subseteq Types
    BY DEF Types
  <2> QED
    BY <2>1, <2>2, <2>3, Zenon DEF AppendScripts
<1> QED
  BY <1>1, <1>2, ChainAssumption

-----------------------------------------------------------------------------
(* Lock ownership and types: every step preserves LockInv                    *)

LEMMA LockInvInit == Init => LockInv
<1> SUFFICES ASSUME Init PROVE LockInv
  OBVIOUS
<1> USE DEF Init, Idle, NewTx, NoHash
<1>1. TypeOK
  BY ChainAssumption DEF TypeOK, Steps
<1>2. HolderInv
  BY DEF HolderInv
<1>3. ExclusiveInv
  BY DEF ExclusiveInv
<1>4. LastInv
  BY DEF LastInv, HasLast
<1> QED
  BY <1>1, <1>2, <1>3, <1>4 DEF LockInv

LEMMA KeyType ==
    ASSUME TypeOK, HolderInv, NEW s \in Sessions, tx[s].pc # "idle"
    PROVE  tx[s].case \in Cases /\ Key(s) \in LockKeys
BY ChainAssumption DEF HolderInv, Key

LEMMA StartStep ==
    ASSUME LockInv, NEW s \in Sessions, NEW c \in Cases, NEW script \in Seq(Types),
           script # << >>, Start(s, c, script)
    PROVE  LockInv'
<1> USE DEF LockInv, Start
<1>1. TypeOK'
  <2>1. Len(script) \in Nat /\ budget - Len(script) \in Nat
    BY DEF TypeOK
  <2>2. NewTx("lock", c, script) \in
          [pc : Steps, case : Cases \cup {NoCase}, todo : Seq(Types),
           rows : SUBSET Event, prev : Seq(Int \X Types \X Int)]
    BY DEF NewTx, Steps, NoHash
  <2> QED
    BY <2>1, <2>2 DEF TypeOK
<1>2. HolderInv'
  BY DEF HolderInv, TypeOK, NewTx, Key
<1>3. ExclusiveInv'
  BY DEF ExclusiveInv
<1>4. LastInv'
  BY DEF LastInv, TypeOK, Idle, NewTx, View
<1> QED
  BY <1>1, <1>2, <1>3, <1>4

LEMMA LockStep ==
    ASSUME LockInv, NEW s \in Sessions, LockCaseChain(s)
    PROVE  LockInv'
<1> USE DEF LockInv, LockCaseChain
<1>1. TypeOK'
  BY KeyType DEF TypeOK, Steps
<1>2. HolderInv'
  BY KeyType DEF HolderInv, TypeOK, Key
<1>3. ExclusiveInv'
  BY KeyType DEF ExclusiveInv, LockFree, TypeOK
<1>4. LastInv'
  BY DEF LastInv, TypeOK, View
<1> QED
  BY <1>1, <1>2, <1>3, <1>4

LEMMA LatestHashType ==
    ASSUME LockInv, NEW s \in Sessions, tx[s].pc # "idle"
    PROVE  LatestHash(s) \in Hash
<1>1. tx[s].case \in Cases /\ View(s) \in SUBSET Event
  BY KeyType DEF LockInv, TypeOK, View
<1>2. HasLast(View(s))
  BY <1>1 DEF LockInv, LastInv, View
<1> QED
  BY <1>1, <1>2, PreviousHashType DEF LatestHash, Hash, NoHash

LEMMA ReadStep ==
    ASSUME LockInv, NEW s \in Sessions, ReadLatest(s)
    PROVE  LockInv'
<1> USE DEF LockInv, ReadLatest
<1>1. TypeOK'
  BY LatestHashType DEF TypeOK, Steps, Hash
<1>2. HolderInv'
  BY DEF HolderInv, TypeOK, Key
<1>3. ExclusiveInv'
  BY DEF ExclusiveInv
<1>4. LastInv'
  BY DEF LastInv, TypeOK, View
<1> QED
  BY <1>1, <1>2, <1>3, <1>4

LEMMA ReleaseStep ==
    ASSUME LockInv, NEW s \in Sessions, tx[s].pc # "idle",
           tx' = [tx EXCEPT ![s] = Idle], Release(s)
    PROVE  HolderInv' /\ ExclusiveInv'
<1> USE DEF LockInv, Release
<1>1. HolderInv'
  BY KeyType DEF HolderInv, TypeOK, Idle, NewTx, Key
<1>2. ExclusiveInv'
  BY DEF ExclusiveInv, TypeOK
<1> QED
  BY <1>1, <1>2

LEMMA RollbackStep ==
    ASSUME LockInv, NEW s \in Sessions, Rollback(s)
    PROVE  LockInv'
<1> USE DEF LockInv, Rollback
<1>1. TypeOK'
  BY DEF TypeOK, Release, Idle, NewTx, Steps, NoHash
<1>2. HolderInv' /\ ExclusiveInv'
  BY ReleaseStep
<1>3. LastInv'
  BY DEF LastInv, TypeOK, View, Idle, NewTx
<1> QED
  BY <1>1, <1>2, <1>3

(* Two sessions that are past the lock, or have rows, are on different cases. *)
Holds(s) == tx[s].pc \in {"read", "insert", "commit"} \/ tx[s].rows # {}

LEMMA OneHolder ==
    ASSUME LockInv, NEW s \in Sessions, NEW t \in Sessions, s # t, Holds(s), Holds(t)
    PROVE  tx[s].case # tx[t].case /\ Key(s) # Key(t)
<1>1. s \in holders[Key(s)] /\ t \in holders[Key(t)] /\ Key(s) \in LockKeys
  BY KeyType DEF LockInv, HolderInv, Holds
<1> QED
  BY <1>1 DEF LockInv, ExclusiveInv, Key

LEMMA CommitStep ==
    ASSUME LockInv, NEW s \in Sessions, Commit(s)
    PROVE  LockInv'
<1> USE DEF LockInv, Commit
<1>0. tx[s].case \in Cases /\ View(s) \in SUBSET Event
  BY KeyType DEF TypeOK, View
<1>1. TypeOK'
  BY <1>0 DEF TypeOK, Release, Idle, NewTx, Steps, NoHash
<1>2. HolderInv' /\ ExclusiveInv'
  BY ReleaseStep
<1>3. LastInv'
  <2>1. HasLast(View(s))
    BY <1>0 DEF LastInv, View
  <2>2. \A c \in Cases : HasLast(log'[c])
    BY <2>1 DEF LastInv, TypeOK
  <2>3. ASSUME NEW t \in Sessions, tx'[t].rows # {}
        PROVE  HasLast(View(t)')
    <3>1. t # s /\ tx'[t] = tx[t]
      BY <2>3 DEF TypeOK, Idle, NewTx
    <3>2. tx[t].case # tx[s].case
      BY <2>3, <3>1, OneHolder DEF Holds
    <3>3. View(t)' = View(t)
      BY <3>1, <3>2, <1>0 DEF View, TypeOK
    <3> QED
      BY <3>1, <3>3, <2>3 DEF LastInv
  <2> QED
    BY <2>2, <2>3 DEF LastInv
<1> QED
  BY <1>1, <1>2, <1>3

LEMMA InsertStep ==
    ASSUME LockInv, NEW s \in Sessions, Insert(s)
    PROVE  LockInv'
<1> USE DEF LockInv
<1>1. PICK step \in ClockSteps, id \in Ids \ UsedIds :
        /\ clock' = clock + step
        /\ tx' = [tx EXCEPT ![s].pc = IF Len(tx[s].todo) > 1 THEN "lock" ELSE "commit",
                            ![s].todo = Tail(@),
                            ![s].rows = @ \cup {NewEvent(id, Head(tx[s].todo), clock + step,
                                                         tx[s].prev)}]
  BY DEF Insert
<1> DEFINE e == NewEvent(id, Head(tx[s].todo), clock + step, tx[s].prev)
<1>2. /\ tx[s].pc = "insert" /\ UNCHANGED <<cases, log, holders, budget>>
      /\ tx[s].todo # << >> /\ tx[s].case \in Cases
      /\ tx[s].rows \in SUBSET Event
  BY DEF Insert, HolderInv, TypeOK
<1>3. /\ Head(tx[s].todo) \in Types /\ Tail(tx[s].todo) \in Seq(Types)
      /\ Len(tx[s].todo) > 1 => Tail(tx[s].todo) # << >>
  <2>1. tx[s].todo \in Seq(Types)
    BY DEF TypeOK
  <2>2. /\ Head(tx[s].todo) \in Types /\ Tail(tx[s].todo) \in Seq(Types)
        /\ Len(Tail(tx[s].todo)) = Len(tx[s].todo) - 1 /\ Len(tx[s].todo) \in Nat
    BY <1>2, <2>1, HeadTailProperties, LenProperties
  <2>3. Len(tx[s].todo) > 1 => Tail(tx[s].todo) # << >>
    <3> DEFINE rest == Tail(tx[s].todo)
               n == Len(tx[s].todo)
    <3>1. rest \in Seq(Types) /\ Len(rest) = n - 1 /\ n \in Nat
      BY <2>2
    <3> HIDE DEF rest, n
    <3>2. n > 1 => Len(rest) > 0
      BY <3>1
    <3>3. n > 1 => rest # << >>
      BY <3>1, <3>2, NotEmpty
    <3> QED
      BY <3>3 DEF rest, n
  <2> QED
    BY <2>2, <2>3
<1>4. id \in Int /\ step \in Int /\ clock + step \in Int
  BY ChainAssumption DEF TypeOK
<1>5. e \in Event
  BY <1>3, <1>4, NewEventType DEF TypeOK, Hash
<1> HIDE DEF e
<1>6. TypeOK'
  BY <1>1, <1>2, <1>3, <1>4, <1>5 DEF TypeOK, Steps, e
<1>7. HolderInv'
  <2>1. tx[s].pc = "insert" /\ s \in holders[Key(s)]
    BY <1>2 DEF HolderInv
  <2>2. /\ tx'[s].case = tx[s].case /\ tx'[s].todo = Tail(tx[s].todo)
        /\ tx'[s].pc = IF Len(tx[s].todo) > 1 THEN "lock" ELSE "commit"
    BY <1>1 DEF TypeOK
  <2>3. \A t \in Sessions \ {s} : tx'[t] = tx[t]
    BY <1>1 DEF TypeOK
  <2> QED
    BY <1>2, <1>3, <2>1, <2>2, <2>3 DEF HolderInv, Key
<1>8. ExclusiveInv'
  BY <1>2 DEF ExclusiveInv
<1>9. LastInv'
  <2>1. HasLast(View(s)) /\ View(s) \in SUBSET Event
    BY <1>2 DEF LastInv, View, TypeOK
  <2>2. \A f \in View(s) : f.id # e.id
    <3> DEFINE R == {log[c] : c \in Cases} \cup {tx[u].rows : u \in Sessions}
               U == UNION R
    <3>1. log[tx[s].case] \in R /\ tx[s].rows \in R
      BY <1>2
    <3>2. View(s) \subseteq U
      <4> HIDE DEF R
      <4> QED
        BY <3>1 DEF View
    <3>3. UsedIds = {f.id : f \in U}
      BY DEF UsedIds
    <3> HIDE DEF U
    <3>4. \A f \in View(s) : f.id \in UsedIds
      BY <3>2, <3>3
    <3>5. e.id = id
      BY DEF e, NewEvent
    <3> QED
      BY <3>4, <3>5
  <2>3. HasLast(View(s) \cup {e})
    BY <2>1, <2>2, <1>5, LastAfterInsert
  <2>4. View(s)' = View(s) \cup {e}
    <3>1. tx'[s].case = tx[s].case /\ tx'[s].rows = tx[s].rows \cup {e}
      BY <1>1 DEF TypeOK, e
    <3> QED
      BY <1>2, <3>1 DEF View
  <2>5. \A t \in Sessions \ {s} : tx'[t] = tx[t] /\ View(t)' = View(t)
    BY <1>1, <1>2 DEF View, TypeOK
  <2> QED
    BY <1>2, <2>3, <2>4, <2>5 DEF LastInv
<1> QED
  BY <1>6, <1>7, <1>8, <1>9

LEMMA LockInvStep == LockInv /\ [Next]_vars => LockInv'
<1> SUFFICES ASSUME LockInv, [Next]_vars PROVE LockInv'
  OBVIOUS
<1>1. ASSUME NEW s \in Sessions, NEW c \in Cases, BeginCreate(s, c)
      PROVE  LockInv'
  BY <1>1, ScriptTypes, StartStep DEF BeginCreate
<1>2. ASSUME NEW s \in Sessions, NEW c \in Cases, NEW script \in Scripts,
             BeginAppend(s, c, script)
      PROVE  LockInv'
  BY <1>2, ScriptTypes, StartStep DEF BeginAppend
<1>3. CASE UNCHANGED vars
  <2>1. UNCHANGED <<cases, log, tx, holders, clock, budget>>
    BY <1>3 DEF vars
  <2>2. TypeOK'
    BY <2>1 DEF LockInv, TypeOK
  <2>3. HolderInv' /\ ExclusiveInv' /\ LastInv'
    BY <2>1 DEF LockInv, HolderInv, ExclusiveInv, LastInv, Key, View
  <2> QED
    BY <2>2, <2>3 DEF LockInv
<1> QED
  BY <1>1, <1>2, <1>3, LockStep, ReadStep, InsertStep, CommitStep, RollbackStep
  DEF Next, Quiet

LEMMA LockInvAlways == Spec => []LockInv
BY LockInvInit, LockInvStep, PTL DEF Spec

(* Every variable keeps its type; in particular previous_hash is always a     *)
(* hash, so the row `latest` returns to an append exists.                     *)
THEOREM TypeCorrect == Spec => []TypeOK
<1>1. LockInv => TypeOK
  BY DEF LockInv
<1> QED
  BY <1>1, LockInvAlways, PTL

(* The lock of AuditService.append keeps every other writer of the case, and   *)
(* of the cases sharing its lock key, without rows, whatever the clock does.   *)
THEOREM Exclusion == Spec => []OneWriterPerChain
<1>1. LockInv => OneWriterPerChain
  BY OneHolder DEF OneWriterPerChain, Holds
<1> QED
  BY <1>1, LockInvAlways, PTL

-----------------------------------------------------------------------------
(* The chain: with the clock moving forward, every step preserves ChainInv    *)

Past(rows, now) == \A e \in rows : e.at <= now

ChainInv ==
    /\ \A c \in Cases : Past(log[c], clock) /\ Valid(log[c])
    /\ \A s \in Sessions :
         /\ Past(tx[s].rows, clock)
         /\ tx[s].rows # {} =>
              /\ \A e \in tx[s].rows, f \in log[tx[s].case] : f.at < e.at
              /\ Valid(View(s))
         /\ tx[s].pc = "insert" => tx[s].prev = LatestHash(s)

LEMMA ValidAfterInsert ==
    ASSUME NEW rows \in SUBSET Event, NEW e \in Event,
           \A f \in rows : f.at < e.at,
           Valid(rows),
           e.prev = PreviousHash(rows),
           e.hash = calculate_event_hash(e.prev, event_content(e))
    PROVE  Valid(rows \cup {e})
<1>1. \A f \in rows : Before(rows \cup {e}, f) = Before(rows, f)
  BY DEF Before, Earlier, Event
<1>2. Before(rows \cup {e}, e) = rows
  BY DEF Before, Earlier, Event
<1>3. \A f \in rows : Intact(rows \cup {e}, f)
  BY <1>1 DEF Valid, Broken, Intact
<1>4. Intact(rows \cup {e}, e)
  BY <1>2 DEF Intact
<1> QED
  BY <1>3, <1>4 DEF Valid, Broken

LEMMA ChainInvInit == Init => ChainInv
BY DEF Init, ChainInv, Past, Valid, Broken, Idle, NewTx

(* Steps of s that leave the log, the clock and its rows alone.               *)
LEMMA QuietStep ==
    ASSUME LockInv, ChainInv, NEW s \in Sessions,
           UNCHANGED <<log, clock>>,
           \A t \in Sessions \ {s} : tx'[t] = tx[t],
           \/ tx'[s].rows = {}
           \/ tx'[s].rows = tx[s].rows /\ tx'[s].case = tx[s].case,
           tx'[s].pc = "insert" => tx'[s].prev = LatestHash(s)'
    PROVE  ChainInv'
<1>1. \A c \in Cases : Past(log'[c], clock') /\ Valid(log[c])'
  BY DEF ChainInv, Past
<1>2. ASSUME NEW t \in Sessions
      PROVE  /\ Past(tx'[t].rows, clock')
             /\ tx'[t].rows # {} =>
                   /\ \A e \in tx'[t].rows, f \in log'[tx'[t].case] : f.at < e.at
                   /\ Valid(View(t)')
             /\ tx'[t].pc = "insert" => tx'[t].prev = LatestHash(t)'
  <2>1. CASE t # s
    BY <2>1 DEF ChainInv, Past, LatestHash, View
  <2>2. CASE t = s
    BY <2>2 DEF ChainInv, Past, View
  <2> QED
    BY <2>1, <2>2
<1> QED
  BY <1>1, <1>2 DEF ChainInv

LEMMA ChainCommitStep ==
    ASSUME LockInv, ChainInv, NEW s \in Sessions, Commit(s)
    PROVE  ChainInv'
<1> USE DEF Commit
<1>1. /\ tx[s].case \in Cases /\ log \in [Cases -> SUBSET Event]
      /\ tx' = [t \in Sessions |-> IF t = s THEN Idle ELSE tx[t]]
  BY KeyType DEF LockInv, TypeOK
<1>2. Past(View(s), clock) /\ Valid(View(s))
  BY <1>1 DEF ChainInv, View, Past
<1>3. \A c \in Cases : Past(log'[c], clock') /\ Valid(log[c])'
  BY <1>1, <1>2 DEF ChainInv, Past
<1>4. ASSUME NEW t \in Sessions
      PROVE  /\ Past(tx'[t].rows, clock')
             /\ tx'[t].rows # {} =>
                   /\ \A e \in tx'[t].rows, f \in log'[tx'[t].case] : f.at < e.at
                   /\ Valid(View(t)')
             /\ tx'[t].pc = "insert" => tx'[t].prev = LatestHash(t)'
  <2>1. CASE t = s
    BY <1>1, <2>1 DEF Idle, NewTx, Past
  <2>2. CASE t # s /\ Holds(t)
    <3>1. tx'[t] = tx[t] /\ tx[t].case # tx[s].case
      BY <1>1, <2>2, OneHolder DEF Holds
    <3>2. tx[t].case \in Cases
      BY <2>2, KeyType DEF Holds, LockInv, HolderInv
    <3>3. log'[tx[t].case] = log[tx[t].case]
      BY <1>1, <3>1, <3>2
    <3>4. View(t)' = View(t) /\ LatestHash(t)' = LatestHash(t)
      BY <3>1, <3>3 DEF View, LatestHash
    <3> QED
      BY <3>1, <3>3, <3>4 DEF ChainInv, Past
  <2>3. CASE t # s /\ ~Holds(t)
    BY <1>1, <2>3 DEF Holds, Past
  <2> QED
    BY <2>1, <2>2, <2>3
<1> QED
  BY <1>3, <1>4 DEF ChainInv

LEMMA ChainInsertStep ==
    ASSUME SteadyClock, ChainEnabled, LockInv, ChainInv, NEW s \in Sessions, Insert(s)
    PROVE  ChainInv'
<1>1. PICK step \in ClockSteps, id \in Ids \ UsedIds :
        /\ clock' = clock + step
        /\ tx' = [tx EXCEPT ![s].pc = IF Len(tx[s].todo) > 1 THEN "lock" ELSE "commit",
                            ![s].todo = Tail(@),
                            ![s].rows = @ \cup {NewEvent(id, Head(tx[s].todo), clock + step,
                                                         tx[s].prev)}]
  BY DEF Insert
<1> DEFINE e == NewEvent(id, Head(tx[s].todo), clock + step, tx[s].prev)
<1>2. /\ tx[s].pc = "insert" /\ log' = log /\ tx[s].case \in Cases
      /\ tx[s].prev = PreviousHash(View(s))
      /\ View(s) \in SUBSET Event
  BY KeyType DEF Insert, LockInv, HolderInv, TypeOK, ChainInv, LatestHash, View
<1>3. clock \in Int /\ clock' \in Int /\ clock < clock'
  BY <1>1, ChainAssumption DEF LockInv, TypeOK, SteadyClock
<1>4. /\ e.at = clock' /\ e.prev = PreviousHash(View(s))
      /\ e.hash = calculate_event_hash(e.prev, event_content(e))
  BY <1>1, <1>2 DEF NewEvent, event_content
<1>5. /\ tx'[s].rows = tx[s].rows \cup {e} /\ tx'[s].case = tx[s].case
      /\ tx'[s].pc # "insert"
      /\ \A t \in Sessions \ {s} : tx'[t] = tx[t]
  BY <1>1 DEF LockInv, TypeOK
<1>6. e \in Event
  <2>1. LockInv'
    BY InsertStep
  <2> QED
    BY <1>5, <2>1 DEF LockInv, TypeOK
<1> HIDE DEF e
<1>7. ASSUME NEW rows \in SUBSET Event, Past(rows, clock)
      PROVE  Past(rows, clock') /\ \A f \in rows : f.at < e.at
  <2> SUFFICES ASSUME NEW f \in rows PROVE f.at <= clock' /\ f.at < e.at
    BY DEF Past
  <2>1. f.at \in Int /\ f.at <= clock
    BY <1>7 DEF Past, Event
  <2> QED
    BY <1>3, <1>4, <2>1
<1>8. Past(View(s), clock) /\ Valid(View(s))
  BY <1>2 DEF ChainInv, View, Past
<1>9. Valid(View(s) \cup {e})
  BY <1>2, <1>4, <1>6, <1>7, <1>8, ValidAfterInsert
<1>10. \A c \in Cases : Past(log'[c], clock') /\ Valid(log[c])'
  BY <1>2, <1>7 DEF ChainInv, LockInv, TypeOK, Past
<1>11. ASSUME NEW t \in Sessions
       PROVE  /\ Past(tx'[t].rows, clock')
              /\ tx'[t].rows # {} =>
                    /\ \A d \in tx'[t].rows, f \in log'[tx'[t].case] : f.at < d.at
                    /\ Valid(View(t)')
              /\ tx'[t].pc = "insert" => tx'[t].prev = LatestHash(t)'
  <2>1. CASE t = s
    <3>1. View(s)' = View(s) \cup {e}
      BY <1>2, <1>5 DEF View
    <3>2. Past(tx'[s].rows, clock')
      <4>1. tx[s].rows \in SUBSET Event /\ Past(tx[s].rows, clock)
        BY DEF LockInv, TypeOK, ChainInv
      <4>2. Past(tx[s].rows, clock')
        BY <1>7, <4>1
      <4> QED
        BY <1>3, <1>4, <1>5, <4>2 DEF Past
    <3>3. \A d \in tx'[s].rows, f \in log'[tx'[s].case] : f.at < d.at
      BY <1>2, <1>5, <1>7, <1>8 DEF View, ChainInv
    <3> QED
      BY <1>5, <1>9, <2>1, <3>1, <3>2, <3>3
  <2>2. CASE t # s
    <3>1. tx[t].rows \in SUBSET Event
      BY DEF LockInv, TypeOK
    <3> QED
      BY <1>2, <1>5, <1>7, <2>2, <3>1 DEF ChainInv, LatestHash, View, Past
  <2> QED
    BY <2>1, <2>2
<1> QED
  BY <1>10, <1>11 DEF ChainInv

LEMMA ChainInvStep ==
    ASSUME SteadyClock, ChainEnabled
    PROVE  LockInv /\ ChainInv /\ [Next]_vars => ChainInv'
<1> SUFFICES ASSUME LockInv, ChainInv, [Next]_vars
             PROVE  ChainInv'
  OBVIOUS
<1> USE DEF LockInv, TypeOK
<1>1. ASSUME NEW s \in Sessions, NEW c \in Cases, NEW script, Start(s, c, script)
      PROVE  ChainInv'
  BY <1>1, QuietStep DEF Start, NewTx
<1>2. ASSUME NEW s \in Sessions, LockCaseChain(s)
      PROVE  ChainInv'
  BY <1>2, QuietStep DEF LockCaseChain
<1>3. ASSUME NEW s \in Sessions, ReadLatest(s)
      PROVE  ChainInv'
  <2>1. tx'[s].rows = tx[s].rows /\ tx'[s].case = tx[s].case /\ tx'[s].prev = LatestHash(s)
    BY <1>3 DEF ReadLatest
  <2>2. LatestHash(s)' = LatestHash(s)
    BY <1>3, <2>1 DEF ReadLatest, LatestHash, View
  <2> QED
    BY <1>3, <2>1, <2>2, QuietStep DEF ReadLatest
<1>4. ASSUME NEW s \in Sessions, Rollback(s)
      PROVE  ChainInv'
  BY <1>4, QuietStep DEF Rollback, Idle, NewTx
<1>5. CASE UNCHANGED vars
  BY <1>5 DEF vars, ChainInv, Past, LatestHash, View
<1> QED
  BY <1>1, <1>2, <1>3, <1>4, <1>5, ChainInsertStep, ChainCommitStep
  DEF Next, Quiet, BeginCreate, BeginAppend

LEMMA ChainInvAlways ==
    ASSUME SteadyClock, ChainEnabled
    PROVE  Spec => []ChainInv
BY ChainInvInit, ChainInvStep, LockInvAlways, PTL DEF Spec

(* As long as the clock moves forward, verify answers valid for every case in  *)
(* every state: appends of any number of sessions, rollbacks and crashes at any *)
(* step included, and whatever keys collide.                                    *)
THEOREM ChainCorrect ==
    ASSUME SteadyClock, ChainEnabled
    PROVE  Spec => []ChainVerifies
<1>1. ChainInv => ChainVerifies
  BY DEF ChainInv, ChainVerifies, Verify
<1> QED
  BY <1>1, ChainInvAlways, PTL

(* A commit only adds rows, and lists them after every row committed before.   *)
THEOREM AppendOnly ==
    ASSUME SteadyClock, ChainEnabled
    PROVE  Spec => AppendsAtTheEnd
<1> DEFINE Grows(c) == /\ log[c] \subseteq log'[c]
                       /\ \A e \in log[c], f \in log'[c] \ log[c] : Earlier(e, f)
<1>1. LockInv /\ ChainInv /\ [Next]_vars => [\A c \in Cases : Grows(c)]_vars
  <2> SUFFICES ASSUME LockInv, ChainInv, [Next]_vars, NEW c \in Cases
               PROVE  Grows(c)
    OBVIOUS
  <2>1. CASE log' = log
    BY <2>1
  <2>2. ASSUME NEW s \in Sessions, Commit(s)
        PROVE  Grows(c)
    <3>1. log' = [log EXCEPT ![tx[s].case] = log[tx[s].case] \cup tx[s].rows]
      BY <2>2 DEF Commit, View
    <3>2. \A e \in tx[s].rows, f \in log[tx[s].case] : Earlier(f, e)
      BY DEF ChainInv, Earlier
    <3> QED
      BY <3>1, <3>2 DEF LockInv, TypeOK
  <2> QED
    BY <2>1, <2>2 DEF Next, vars, BeginCreate, BeginAppend, Start, LockCaseChain, ReadLatest,
                      Insert, Rollback, Quiet
<1> QED
  BY <1>1, LockInvAlways, ChainInvAlways, PTL DEF Spec, AppendsAtTheEnd

-----------------------------------------------------------------------------
(* What verify says of a chain with a gap                                     *)

Ordered(rows) ==
    /\ IsFiniteSet(rows)
    /\ \A some \in SUBSET rows :
         some # {} => \E first \in some : \A e \in some \ {first} : first.at < e.at

OrderInv ==
    /\ \A c \in Cases : Ordered(log[c])
    /\ \A s \in Sessions : tx[s].rows # {} => Ordered(View(s))

LEMMA OrderedAfterInsert ==
    ASSUME NEW rows \in SUBSET Event, NEW e \in Event, \A f \in rows : f.at < e.at, Ordered(rows)
    PROVE  Ordered(rows \cup {e})
<1>1. IsFiniteSet(rows \cup {e})
  BY FS_AddElement DEF Ordered
<1>2. ASSUME NEW some \in SUBSET (rows \cup {e}), some # {}
      PROVE  \E first \in some : \A f \in some \ {first} : first.at < f.at
  <2>1. CASE some \cap rows = {}
    BY <1>2, <2>1
  <2>2. CASE some \cap rows # {}
    <3>1. PICK first \in some \cap rows : \A f \in (some \cap rows) \ {first} : first.at < f.at
      BY <2>2 DEF Ordered
    <3> QED
      BY <3>1
  <2> QED
    BY <2>1, <2>2
<1> QED
  BY <1>1, <1>2 DEF Ordered

LEMMA InsertedLast ==
    ASSUME SteadyClock, LockInv, ChainInv, NEW s \in Sessions, Insert(s)
    PROVE  \E e \in Event :
             /\ tx'[s].rows = tx[s].rows \cup {e} /\ tx'[s].case = tx[s].case
             /\ \A t \in Sessions \ {s} : tx'[t] = tx[t]
             /\ log' = log /\ tx[s].case \in Cases
             /\ View(s) \in SUBSET Event /\ \A f \in View(s) : f.at < e.at
             /\ e.type = Head(tx[s].todo) /\ tx'[s].todo = Tail(tx[s].todo)
             /\ tx'[s].pc = IF Len(tx[s].todo) > 1 THEN "lock" ELSE "commit"
<1>1. PICK step \in ClockSteps, id \in Ids \ UsedIds :
        /\ clock' = clock + step
        /\ tx' = [tx EXCEPT ![s].pc = IF Len(tx[s].todo) > 1 THEN "lock" ELSE "commit",
                            ![s].todo = Tail(@),
                            ![s].rows = @ \cup {NewEvent(id, Head(tx[s].todo), clock + step,
                                                         tx[s].prev)}]
  BY DEF Insert
<1>2. PICK e : e = NewEvent(id, Head(tx[s].todo), clock + step, tx[s].prev)
  OBVIOUS
<1>3. /\ tx'[s].rows = tx[s].rows \cup {e} /\ tx'[s].case = tx[s].case
      /\ \A t \in Sessions \ {s} : tx'[t] = tx[t]
      /\ tx'[s].todo = Tail(tx[s].todo)
      /\ tx'[s].pc = IF Len(tx[s].todo) > 1 THEN "lock" ELSE "commit"
  BY <1>1, <1>2 DEF LockInv, TypeOK
<1>4. log' = log /\ tx[s].case \in Cases /\ View(s) \in SUBSET Event
  BY KeyType DEF Insert, LockInv, HolderInv, TypeOK, View
<1>5. e \in Event
  <2>1. LockInv'
    BY InsertStep
  <2> QED
    BY <1>3, <2>1 DEF LockInv, TypeOK
<1>6. clock \in Int /\ e.at = clock + step /\ step \in Int /\ step > 0
  BY <1>2, ChainAssumption DEF LockInv, TypeOK, SteadyClock, NewEvent
<1>7. Past(View(s), clock)
  BY <1>4 DEF ChainInv, View, Past
<1>8. ASSUME NEW f \in View(s) PROVE f.at < e.at
  <2>1. f.at \in Int /\ f.at <= clock
    BY <1>4, <1>7 DEF Past, Event
  <2> QED
    BY <1>6, <2>1
<1>9. e.type = Head(tx[s].todo)
  BY <1>2 DEF NewEvent
<1> QED
  BY <1>3, <1>4, <1>5, <1>8, <1>9

LEMMA OrderStep ==
    ASSUME SteadyClock
    PROVE  LockInv /\ ChainInv /\ OrderInv /\ [Next]_vars => OrderInv'
<1> SUFFICES ASSUME LockInv, ChainInv, OrderInv, [Next]_vars
             PROVE  OrderInv'
  OBVIOUS
<1>1. tx \in [Sessions -> [pc : Steps, case : Cases \cup {NoCase}, todo : Seq(Types),
                           rows : SUBSET Event, prev : Seq(Int \X Types \X Int)]]
      /\ log \in [Cases -> SUBSET Event]
  BY DEF LockInv, TypeOK
<1>2. ASSUME NEW s \in Sessions, Insert(s) PROVE OrderInv'
  <2>1. PICK e \in Event :
          /\ tx'[s].rows = tx[s].rows \cup {e} /\ tx'[s].case = tx[s].case
          /\ \A t \in Sessions \ {s} : tx'[t] = tx[t]
          /\ log' = log /\ tx[s].case \in Cases
          /\ View(s) \in SUBSET Event /\ \A f \in View(s) : f.at < e.at
    BY <1>2, InsertedLast
  <2>2. Ordered(View(s))
    <3>1. tx[s].rows = {} => View(s) = log[tx[s].case]
      BY DEF View
    <3> QED
      BY <2>1, <3>1 DEF OrderInv
  <2>3. Ordered(View(s) \cup {e})
    BY <2>1, <2>2, OrderedAfterInsert
  <2>4. View(s)' = View(s) \cup {e} /\ \A t \in Sessions \ {s} : View(t)' = View(t)
    BY <2>1 DEF View
  <2> QED
    BY <2>1, <2>3, <2>4 DEF OrderInv
<1>3. ASSUME NEW s \in Sessions, Commit(s) PROVE OrderInv'
  <2>1. /\ tx[s].case \in Cases /\ log' = [log EXCEPT ![tx[s].case] = View(s)]
        /\ tx' = [tx EXCEPT ![s] = Idle]
    BY <1>3, KeyType DEF Commit, LockInv, HolderInv
  <2>2. Ordered(View(s))
    <3>1. tx[s].rows = {} => View(s) = log[tx[s].case]
      BY DEF View
    <3> QED
      BY <2>1, <3>1 DEF OrderInv
  <2>3. \A c \in Cases : Ordered(log'[c])
    BY <1>1, <2>1, <2>2 DEF OrderInv
  <2>4. ASSUME NEW t \in Sessions, tx'[t].rows # {} PROVE Ordered(View(t)')
    <3>1. t # s /\ tx'[t] = tx[t] /\ tx[t].rows # {}
      BY <1>1, <2>1, <2>4 DEF Idle, NewTx
    <3>2. tx[t].case # tx[s].case
      BY <1>3, <3>1, OneHolder DEF Holds, Commit
    <3>3. tx[t].case \in Cases
      BY <3>1, KeyType DEF LockInv, HolderInv
    <3>4. View(t)' = View(t)
      BY <1>1, <2>1, <3>1, <3>2, <3>3 DEF View
    <3> QED
      BY <3>1, <3>4 DEF OrderInv
  <2> QED
    BY <2>3, <2>4 DEF OrderInv
<1>4. ASSUME log' = log, NEW s \in Sessions, \A t \in Sessions \ {s} : tx'[t] = tx[t],
             \/ tx'[s].rows = {}
             \/ tx'[s].rows = tx[s].rows /\ tx'[s].case = tx[s].case
      PROVE  OrderInv'
  BY <1>4 DEF OrderInv, View
<1>5. ASSUME NEW s \in Sessions, NEW c \in Cases, NEW script, Start(s, c, script) PROVE OrderInv'
  <2>1. /\ log' = log /\ tx'[s].rows = {}
        /\ \A t \in Sessions \ {s} : tx'[t] = tx[t]
    BY <1>1, <1>5 DEF Start, NewTx
  <2> QED
    BY <1>4, <2>1
<1>6. ASSUME NEW s \in Sessions, LockCaseChain(s) \/ ReadLatest(s) \/ Rollback(s) PROVE OrderInv'
  <2>1. log' = log /\ \A t \in Sessions \ {s} : tx'[t] = tx[t]
    BY <1>1, <1>6 DEF LockCaseChain, ReadLatest, Rollback
  <2>2. LockCaseChain(s) \/ ReadLatest(s) => tx'[s].rows = tx[s].rows /\ tx'[s].case = tx[s].case
    BY <1>1 DEF LockCaseChain, ReadLatest
  <2>3. Rollback(s) => tx'[s].rows = {}
    BY <1>1 DEF Rollback, Idle, NewTx
  <2> QED
    BY <1>4, <1>6, <2>1, <2>2, <2>3
<1>7. CASE UNCHANGED vars
  BY <1>7 DEF vars, OrderInv, View
<1> QED
  BY <1>2, <1>3, <1>5, <1>6, <1>7 DEF Next, Quiet, BeginCreate, BeginAppend

LEMMA GapFound ==
    ASSUME NEW rows \in SUBSET Event, Ordered(rows), Valid(rows), NEW e \in rows,
           NEW later, later = {f \in rows : Earlier(e, f)}, later # {}
    PROVE  Verify(rows \ {e}) =
             [valid |-> FALSE, event_count |-> Cardinality(rows) - 1,
              broken_event_id |-> {(CHOOSE f \in later : Before(later, f) = {}).id}]
<1> DEFINE gap == rows \ {e}
<1>1. \A g \in rows : g.at \in Int
  BY DEF Event
<1>2. ASSUME NEW g \in rows, NEW h \in rows, g # h PROVE g.at # h.at
  <2>1. {g, h} \in SUBSET rows /\ {g, h} # {}
    OBVIOUS
  <2>2. PICK first \in {g, h} : \A f \in {g, h} \ {first} : first.at < f.at
    BY <2>1 DEF Ordered
  <2> QED
    BY <1>2, <1>1, <2>2
<1>3. \A g, h \in rows : Earlier(g, h) <=> g.at < h.at
  <2> SUFFICES ASSUME NEW g \in rows, NEW h \in rows PROVE Earlier(g, h) <=> g.at < h.at
    OBVIOUS
  <2>1. g.at \in Int /\ h.at \in Int /\ g.id \in Int /\ h.id \in Int
    BY DEF Event
  <2>2. CASE g = h
    BY <2>1, <2>2 DEF Earlier
  <2>3. CASE g # h
    BY <1>2, <2>1, <2>3 DEF Earlier
  <2> QED
    BY <2>2, <2>3
<1>4. PICK f \in later : \A g \in later \ {f} : f.at < g.at
  BY DEF Ordered
<1>5. f \in rows /\ f # e /\ e.at < f.at
  BY <1>3, <1>1, <1>4
<1>6. \A g \in rows : e.at < g.at => g = f \/ f.at < g.at
  BY <1>3, <1>4
<1>7. (CHOOSE g \in later : Before(later, g) = {}) = f
  <2>1. \A g, h \in later : Earlier(g, h) <=> g.at < h.at
    BY <1>3
  <2>2. Before(later, f) = {}
    BY <1>1, <1>4, <1>5, <2>1 DEF Before
  <2>3. \A g \in later : Before(later, g) = {} => g = f
    BY <1>4, <2>1 DEF Before
  <2> QED
    BY <2>2, <2>3
<1>8. \A g \in rows : Intact(rows, g)
  BY DEF Valid, Broken
<1>9. ASSUME NEW g \in gap, ~(e.at < g.at) PROVE Intact(gap, g)
  <2>1. Before(gap, g) = Before(rows, g)
    BY <1>3, <1>9 DEF Before
  <2> QED
    BY <1>8, <2>1 DEF Intact
<1>10. Before(gap, f) = Before(rows, e) /\ Before(rows, f) = Before(rows, e) \cup {e}
  <2>1. ASSUME NEW g \in rows PROVE g.at < f.at <=> g = e \/ g.at < e.at
    <3>1. g = e \/ g.at < e.at \/ e.at < g.at
      BY <1>2, <1>1
    <3> QED
      BY <1>1, <1>5, <1>6, <3>1
  <2>2. ~(e.at < e.at)
    BY <1>1
  <2> QED
    BY <1>3, <1>5, <2>1, <2>2 DEF Before
<1>11. f.prev = e.hash
  <2>1. \A g \in Before(rows, e) : Earlier(g, e) /\ ~Earlier(e, g)
    BY <1>3, <1>1 DEF Before
  <2>2. Last(Before(rows, f)) = e
    BY <1>10, <2>1 DEF Last
  <2> QED
    BY <1>5, <1>8, <1>10, <2>2 DEF Intact, PreviousHash
<1>12. e.prev # e.hash
  <2>1. e.prev \in Hash /\ event_content(e) \in Int \X Types \X Int
    BY DEF Event, Hash, event_content
  <2>2. e.hash = Append(e.prev, event_content(e))
    BY <1>8 DEF Intact, calculate_event_hash
  <2>3. Len(Append(e.prev, event_content(e))) = Len(e.prev) + 1 /\ Len(e.prev) \in Nat
    BY <2>1 DEF Hash
  <2>4. Len(e.hash) # Len(e.prev)
    BY <2>2, <2>3
  <2> QED
    BY <2>4
<1>13. ~Intact(gap, f)
  <2>1. PreviousHash(Before(rows, e)) = e.prev
    BY <1>8 DEF Intact
  <2> QED
    BY <1>10, <1>11, <1>12, <2>1 DEF Intact
<1>14. f \in Broken(gap) /\ \A g \in Broken(gap) : g \in rows /\ e.at < g.at
  BY <1>5, <1>9, <1>13 DEF Broken
<1>15. BrokenEventId(gap) = f.id
  <2>1. \A g \in Broken(gap) \ {f} : Earlier(f, g) /\ ~Earlier(g, f)
    BY <1>3, <1>1, <1>5, <1>6, <1>14
  <2>2. (CHOOSE g \in Broken(gap) : \A h \in Broken(gap) \ {g} : Earlier(g, h)) = f
    BY <1>14, <2>1
  <2> QED
    BY <2>2 DEF BrokenEventId
<1>16. Cardinality(gap) = Cardinality(rows) - 1
  BY FS_RemoveElement DEF Ordered
<1>17. Valid(gap) = FALSE
  BY <1>14 DEF Valid
<1> HIDE DEF gap
<1>18. Verify(gap) = [valid |-> FALSE, event_count |-> Cardinality(rows) - 1, broken_event_id |-> {f.id}]
  BY <1>15, <1>16, <1>17 DEF Verify
<1> QED
  BY <1>7, <1>18 DEF gap

(* A row missing from a chain is noticed, and the first row behind the gap is the *)
(* one verify names, in a chain of any length.                                  *)
THEOREM GapsLocated ==
    ASSUME SteadyClock, ChainEnabled
    PROVE  Spec => []GapLocated
<1>1. Init => OrderInv
  <2>1. Ordered({})
    BY FS_EmptySet DEF Ordered
  <2> QED
    BY <2>1 DEF Init, OrderInv, Idle, NewTx
<1>2. LockInv /\ ChainInv /\ OrderInv /\ [Next]_vars => OrderInv'
  BY OrderStep
<1>3. LockInv /\ ChainInv /\ OrderInv => GapLocated
  <2> SUFFICES ASSUME LockInv, ChainInv, OrderInv, NEW c \in Cases, NEW e \in log[c],
                      {f \in log[c] : Earlier(e, f)} # {}
               PROVE  Verify(log[c] \ {e}) =
                        [valid |-> FALSE, event_count |-> Cardinality(log[c]) - 1,
                         broken_event_id |->
                           {(CHOOSE f \in {g \in log[c] : Earlier(e, g)} :
                                Before({g \in log[c] : Earlier(e, g)}, f) = {}).id}]
    BY DEF GapLocated
  <2>1. log[c] \in SUBSET Event /\ Valid(log[c]) /\ Ordered(log[c])
    BY DEF LockInv, TypeOK, ChainInv, OrderInv
  <2> QED
    BY <2>1, GapFound
<1> QED
  BY <1>1, <1>2, <1>3, LockInvAlways, ChainInvAlways, PTL DEF Spec
=============================================================================
