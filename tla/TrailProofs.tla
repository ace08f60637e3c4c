------------------------------ MODULE TrailProofs ------------------------------
(***************************************************************************)
(* Proof that AuditChain implements AuditTrail, for any sessions, cases, scripts *)
(* and lock keys: the log of a case, as the API lists it, grows by whole          *)
(* transactions at its end.                                                   *)
(***************************************************************************)
EXTENDS AuditChainProofs

(* The place of a row in the listing is the number of rows before it, plus one.    *)
At(rows, i, e) == e \in rows /\ Cardinality(Before(rows, e)) = i - 1

(* Every place of the listing is taken by one row.                                *)
Ranked(rows) ==
    /\ IsFiniteSet(rows)
    /\ \A i \in 1 .. Cardinality(rows) : \E e \in rows : At(rows, i, e)
    /\ \A i \in 1 .. Cardinality(rows) : \A e, f \in rows : At(rows, i, e) /\ At(rows, i, f) => e = f

TypesOf(rows) == [i \in 1 .. Cardinality(rows) |-> Listing(rows)[i].type]

LEMMA Listed ==
    ASSUME NEW rows, Ranked(rows), NEW i \in 1 .. Cardinality(rows), NEW e \in rows, At(rows, i, e)
    PROVE  Listing(rows)[i] = e
<1>1. Listing(rows)[i] = CHOOSE f \in rows : Cardinality(Before(rows, f)) = i - 1
  BY DEF Listing
<1> DEFINE g == CHOOSE f \in rows : Cardinality(Before(rows, f)) = i - 1
<1>2. g \in rows /\ Cardinality(Before(rows, g)) = i - 1
  BY DEF At
<1> HIDE DEF g
<1>3. At(rows, i, g)
  BY <1>2 DEF At
<1>4. g = e
  BY <1>2, <1>3 DEF Ranked
<1> QED
  BY <1>1, <1>4 DEF g

LEMMA TypesListed ==
    ASSUME NEW rows \in SUBSET Event, Ranked(rows)
    PROVE  /\ TypesOf(rows) \in Seq(Types) /\ Len(TypesOf(rows)) = Cardinality(rows)
           /\ Cardinality(rows) \in Nat
           /\ \A i \in 1 .. Cardinality(rows), e \in rows : At(rows, i, e) => TypesOf(rows)[i] = e.type
<1>1. Cardinality(rows) \in Nat
  BY FS_CardinalityType DEF Ranked
<1>2. \A i \in 1 .. Cardinality(rows), e \in rows : At(rows, i, e) => TypesOf(rows)[i] = e.type
  BY Listed DEF TypesOf
<1>3. \A i \in 1 .. Cardinality(rows) : TypesOf(rows)[i] \in Types
  <2> SUFFICES ASSUME NEW i \in 1 .. Cardinality(rows) PROVE TypesOf(rows)[i] \in Types
    OBVIOUS
  <2>1. PICK e \in rows : At(rows, i, e)
    BY DEF Ranked
  <2> QED
    BY <1>2, <2>1 DEF Event
<1>4. TypesOf(rows) \in [1 .. Cardinality(rows) -> Types]
  <2>1. TypesOf(rows) = [i \in 1 .. Cardinality(rows) |-> TypesOf(rows)[i]]
    BY DEF TypesOf
  <2> QED
    BY <1>3, <2>1
<1> QED
  BY <1>1, <1>2, <1>4

LEMMA RankedEmpty == Ranked({}) /\ TypesOf({}) = << >>
<1>1. IsFiniteSet({}) /\ Cardinality({}) = 0
  BY FS_EmptySet
<1>2. Ranked({})
  BY <1>1 DEF Ranked
<1>3. TypesOf({}) \in Seq(Types) /\ Len(TypesOf({})) = 0
  BY <1>1, <1>2, TypesListed
<1> QED
  BY <1>2, <1>3, EmptySeq

(* A row with a later time than all is listed last, and moves no other.             *)
LEMMA ListedAfterInsert ==
    ASSUME NEW rows \in SUBSET Event, Ranked(rows), NEW e \in Event, \A f \in rows : f.at < e.at
    PROVE  Ranked(rows \cup {e}) /\ TypesOf(rows \cup {e}) = Append(TypesOf(rows), e.type)
<1> DEFINE more == rows \cup {e}
           k == Cardinality(rows)
<1>1. e.at \in Int /\ e.id \in Int /\ \A f \in rows : f.at \in Int /\ f.id \in Int
  BY DEF Event
<1>2. e \notin rows
  BY <1>1
<1>3. IsFiniteSet(rows) /\ k \in Nat
  BY FS_CardinalityType DEF Ranked
<1>4. IsFiniteSet(more) /\ Cardinality(more) = k + 1
  BY <1>2, <1>3, FS_AddElement
<1>5. Before(more, e) = rows
  BY <1>1 DEF Before, Earlier
<1>6. \A f \in rows : Before(more, f) = Before(rows, f)
  BY <1>1 DEF Before, Earlier
<1>7. ASSUME NEW f \in rows
      PROVE  Cardinality(Before(rows, f)) \in Nat /\ Cardinality(Before(rows, f)) < k
  <2>1. Before(rows, f) \subseteq rows /\ f \notin Before(rows, f)
    BY <1>1 DEF Before, Earlier
  <2>2. Before(rows, f) # rows
    BY <2>1
  <2> QED
    BY <1>3, <2>1, <2>2, FS_Subset, FS_CardinalityType
<1> HIDE DEF k, more
<1>8. \A i \in 1 .. k, f \in rows : At(more, i, f) <=> At(rows, i, f)
  BY <1>6 DEF At, more
<1>9. \A i \in 1 .. k + 1 : At(more, i, e) <=> i = k + 1
  <2>1. \A i \in 1 .. k + 1 : At(more, i, e) <=> k = i - 1
    BY <1>5 DEF At, more, k
  <2> QED
    BY <1>3, <2>1
<1>10. \A i : i = k + 1 => \A f \in rows : ~ At(more, i, f)
  <2> SUFFICES ASSUME NEW i, i = k + 1, NEW f \in rows, At(more, i, f) PROVE FALSE
    OBVIOUS
  <2>1. Cardinality(Before(rows, f)) = i - 1
    <3>1. Cardinality(Before(more, f)) = i - 1
      BY DEF At
    <3>2. Before(more, f) = Before(rows, f)
      BY <1>6 DEF more
    <3> QED
      BY <3>1, <3>2
  <2>2. i - 1 = k
    BY <1>3
  <2>3. Cardinality(Before(rows, f)) \in Nat /\ Cardinality(Before(rows, f)) < k
    BY <1>7
  <2> QED
    BY <1>3, <2>1, <2>2, <2>3
<1>11. \A i \in 1 .. k + 1 : i \in 1 .. k \/ i = k + 1
  BY <1>3
<1>12. \A i \in 1 .. k + 1 : \E f \in more : At(more, i, f)
  <2> SUFFICES ASSUME NEW i \in 1 .. k + 1 PROVE \E f \in more : At(more, i, f)
    OBVIOUS
  <2>1. CASE i = k + 1
    BY <1>9, <2>1 DEF more
  <2>2. CASE i \in 1 .. k
    <3>1. PICK f \in rows : At(rows, i, f)
      BY <2>2 DEF Ranked, k
    <3> QED
      BY <1>8, <2>2, <3>1 DEF more
  <2> QED
    BY <1>11, <2>1, <2>2
<1>13. \A i \in 1 .. k + 1 : \A f, g \in more : At(more, i, f) /\ At(more, i, g) => f = g
  <2> SUFFICES ASSUME NEW i \in 1 .. k + 1, NEW f \in more, NEW g \in more,
                      At(more, i, f), At(more, i, g)
               PROVE  f = g
    OBVIOUS
  <2>1. CASE i = k + 1
    BY <1>10, <2>1 DEF more
  <2>2. CASE i \in 1 .. k
    <3>1. i # k + 1
      BY <1>3, <2>2
    <3>2. f \in rows /\ g \in rows
      BY <1>9, <3>1 DEF more
    <3>3. At(rows, i, f) /\ At(rows, i, g)
      BY <1>8, <2>2, <3>2
    <3> QED
      BY <2>2, <3>2, <3>3 DEF Ranked, k
  <2> QED
    BY <1>11, <2>1, <2>2
<1>14. Ranked(more)
  BY <1>4, <1>12, <1>13 DEF Ranked
<1>15. more \in SUBSET Event
  BY DEF more
<1>16. /\ TypesOf(more) \in Seq(Types) /\ Len(TypesOf(more)) = k + 1
       /\ \A i \in 1 .. k + 1, f \in more : At(more, i, f) => TypesOf(more)[i] = f.type
  BY <1>4, <1>14, <1>15, TypesListed
<1>17. /\ TypesOf(rows) \in Seq(Types) /\ Len(TypesOf(rows)) = k
       /\ \A i \in 1 .. k, f \in rows : At(rows, i, f) => TypesOf(rows)[i] = f.type
  BY TypesListed DEF k
<1>18. e.type \in Types
  BY DEF Event
<1>19. /\ Append(TypesOf(rows), e.type) \in Seq(Types)
       /\ Len(Append(TypesOf(rows), e.type)) = k + 1
       /\ \A i \in 1 .. k : Append(TypesOf(rows), e.type)[i] = TypesOf(rows)[i]
       /\ Append(TypesOf(rows), e.type)[k + 1] = e.type
  BY <1>17, <1>18, AppendProperties
<1>20. ASSUME NEW i \in 1 .. k + 1 PROVE TypesOf(more)[i] = Append(TypesOf(rows), e.type)[i]
  <2>1. CASE i = k + 1
    <3>1. At(more, k + 1, e) /\ e \in more /\ k + 1 \in 1 .. k + 1
      BY <1>9, <2>1 DEF more
    <3> QED
      BY <1>16, <1>19, <2>1, <3>1
  <2>2. CASE i \in 1 .. k
    <3>1. PICK f \in rows : At(rows, i, f)
      BY <2>2 DEF Ranked, k
    <3>2. At(more, i, f) /\ f \in more
      BY <1>8, <2>2, <3>1 DEF more
    <3>3. TypesOf(more)[i] = f.type
      BY <1>16, <3>2
    <3>4. TypesOf(rows)[i] = f.type
      BY <1>17, <2>2, <3>1
    <3> QED
      BY <1>19, <2>2, <3>3, <3>4
  <2> QED
    BY <1>11, <2>1, <2>2
<1>21. TypesOf(more) = Append(TypesOf(rows), e.type)
  BY <1>16, <1>19, <1>20, SeqEqual
<1> QED
  BY <1>14, <1>21 DEF more

-----------------------------------------------------------------------------
(* What a transaction may record: a script, or the creation of a case that does not  *)
(* exist. Its rows say what it has done of that; the rest is what it has to do.      *)

ScriptsOf(c) == IF c \in cases THEN Scripts ELSE {CreateScript}

Recorded(s, done) ==
    /\ done \in Seq(Types)
    /\ done \o tx[s].todo \in ScriptsOf(tx[s].case)
    /\ tx[s].rows = {} => done = << >>
    /\ tx[s].rows # {} =>
         Ranked(View(s)) /\ TypesOf(View(s)) = TypesOf(log[tx[s].case]) \o done
    /\ tx[s].pc = "commit" => tx[s].todo = << >>

RecordInv == \A s \in Sessions : tx[s].pc # "idle" => \E done : Recorded(s, done)

(* The log of a case is empty until the case is committed.                          *)
CaseInv == \A c \in Cases : Ranked(log[c]) /\ (c \in cases <=> log[c] # {})

(* Nobody shares a case that is not committed yet.                                  *)
AloneInv ==
    \A s, t \in Sessions :
        s # t /\ tx[s].pc # "idle" /\ tx[t].pc # "idle" /\ tx[s].case = tx[t].case =>
            tx[s].case \in cases

TrailInv == RecordInv /\ CaseInv /\ AloneInv

LEMMA TrailInvInit == Init => TrailInv
BY RankedEmpty DEF Init, TrailInv, RecordInv, CaseInv, AloneInv, Idle, NewTx

LEMMA TxType ==
    ASSUME LockInv
    PROVE  /\ tx \in [Sessions -> [pc : Steps, case : Cases \cup {NoCase}, todo : Seq(Types),
                                  rows : SUBSET Event, prev : Seq(Int \X Types \X Int)]]
           /\ log \in [Cases -> SUBSET Event]
           /\ \A s \in Sessions : tx[s].pc # "idle" => tx[s].case \in Cases
BY DEF LockInv, TypeOK, HolderInv

(* A step of s that leaves the log, the cases and what the others do.               *)
LEMMA TrailKept ==
    ASSUME TrailInv, NEW s \in Sessions, UNCHANGED <<cases, log>>,
           \A t \in Sessions \ {s} : tx'[t] = tx[t],
           tx'[s].pc # "idle" => \E done : Recorded(s, done)',
           \/ tx'[s].pc = "idle"
           \/ tx'[s].case = tx[s].case /\ tx[s].pc # "idle"
           \/ tx'[s].case \in cases
           \/ \A t \in Sessions : tx[t].case # tx'[s].case
    PROVE  TrailInv'
<1>1. CaseInv'
  BY DEF TrailInv, CaseInv
<1>2. RecordInv'
  <2>1. ASSUME NEW t \in Sessions \ {s}, NEW done PROVE Recorded(t, done)' <=> Recorded(t, done)
    BY DEF Recorded, View, ScriptsOf
  <2> QED
    BY <2>1 DEF TrailInv, RecordInv
<1>3. AloneInv'
  BY DEF TrailInv, AloneInv
<1> QED
  BY <1>1, <1>2, <1>3 DEF TrailInv

LEMMA TrailStart ==
    ASSUME LockInv, TrailInv, NEW s \in Sessions, NEW c \in Cases, NEW script \in ScriptsOf(c),
           Start(s, c, script),
           c \in cases \/ \A t \in Sessions : tx[t].case # c
    PROVE  TrailInv'
<1>1. /\ UNCHANGED <<cases, log>> /\ \A t \in Sessions \ {s} : tx'[t] = tx[t]
      /\ tx'[s] = NewTx("lock", c, script)
  BY TxType DEF Start
<1>2. /\ tx'[s].case = c /\ tx'[s].rows = {} /\ tx'[s].todo = script /\ tx'[s].pc = "lock"
  BY <1>1 DEF NewTx
<1>3. script \in Seq(Types)
  BY ScriptTypes DEF ScriptsOf
<1>4. << >> \o script = script /\ << >> \in Seq(Types)
  BY <1>3, ConcatEmptySeq, EmptySeq
<1>5. ScriptsOf(c)' = ScriptsOf(c)
  BY <1>1 DEF ScriptsOf
<1>6. Recorded(s, << >>)'
  BY <1>2, <1>4, <1>5 DEF Recorded, ScriptsOf
<1> QED
  BY <1>1, <1>2, <1>6, TrailKept

LEMMA TrailGoesOn ==
    ASSUME LockInv, TrailInv, NEW s \in Sessions, LockCaseChain(s) \/ ReadLatest(s)
    PROVE  TrailInv'
<1>1. /\ UNCHANGED <<cases, log>> /\ \A t \in Sessions \ {s} : tx'[t] = tx[t]
      /\ tx'[s].case = tx[s].case /\ tx'[s].rows = tx[s].rows /\ tx'[s].todo = tx[s].todo
      /\ tx'[s].pc \in {"read", "insert"} /\ tx[s].pc # "idle"
  BY TxType DEF LockCaseChain, ReadLatest
<1>2. PICK done : Recorded(s, done)
  BY <1>1 DEF TrailInv, RecordInv
<1>3. View(s)' = View(s)
  BY <1>1 DEF View
<1>4. Recorded(s, done)'
  BY <1>1, <1>2, <1>3 DEF Recorded, ScriptsOf
<1> QED
  BY <1>1, <1>4, TrailKept

LEMMA TrailRollback ==
    ASSUME LockInv, TrailInv, NEW s \in Sessions, Rollback(s)
    PROVE  TrailInv'
<1>1. /\ UNCHANGED <<cases, log>> /\ \A t \in Sessions \ {s} : tx'[t] = tx[t]
      /\ tx'[s].pc = "idle"
  BY TxType DEF Rollback, Idle, NewTx
<1> QED
  BY <1>1, TrailKept

(* One append done: the script is still what is done and what is left.              *)
LEMMA Moved ==
    ASSUME NEW S, NEW done \in Seq(S), NEW todo \in Seq(S), todo # << >>
    PROVE  Append(done, Head(todo)) \o Tail(todo) = done \o todo
<1> DEFINE x == Head(todo)
           rest == Tail(todo)
           one == <<x>>
<1>1. x \in S /\ rest \in Seq(S)
  BY HeadTailProperties
<1>2. todo = one \o rest
  OBVIOUS
<1> HIDE DEF x, rest
<1>3. one \in Seq(S) /\ Append(done, x) = done \o one
  BY <1>1, AppendIsConcat
<1> HIDE DEF one
<1>4. (done \o one) \o rest = done \o (one \o rest)
  <2>1. one \in Seq(S) /\ rest \in Seq(S)
    BY <1>1, <1>3
  <2> QED
    BY <2>1, ConcatAssociative, SMTT(30)
<1>5. Append(done, x) \o rest = done \o todo
  BY <1>2, <1>3, <1>4, Zenon
<1> QED
  BY <1>5 DEF x, rest

LEMMA NothingLeft ==
    ASSUME NEW S, NEW q \in Seq(S), q # << >>, ~ (Len(q) > 1)
    PROVE  Tail(q) = << >>
<1>1. Len(q) \in Nat \ {0} /\ Tail(q) \in Seq(S) /\ Len(Tail(q)) = Len(q) - 1
  BY HeadTailProperties, EmptySeq
<1>2. Len(Tail(q)) = 0
  BY <1>1
<1> QED
  BY <1>1, <1>2, EmptySeq

LEMMA TrailInsert ==
    ASSUME SteadyClock, LockInv, ChainInv, TrailInv, NEW s \in Sessions, Insert(s)
    PROVE  TrailInv'
<1> DEFINE c == tx[s].case
           todo == tx[s].todo
<1>1. PICK e \in Event :
        /\ tx'[s].rows = tx[s].rows \cup {e} /\ tx'[s].case = c
        /\ \A t \in Sessions \ {s} : tx'[t] = tx[t]
        /\ log' = log /\ c \in Cases
        /\ View(s) \in SUBSET Event /\ \A f \in View(s) : f.at < e.at
        /\ e.type = Head(todo) /\ tx'[s].todo = Tail(todo)
        /\ tx'[s].pc = IF Len(todo) > 1 THEN "lock" ELSE "commit"
  BY InsertedLast
<1>2. tx[s].pc = "insert" /\ cases' = cases
  BY DEF Insert
<1>3. todo \in Seq(Types) /\ todo # << >>
  BY <1>2, TxType DEF LockInv, HolderInv
<1>4. PICK done : Recorded(s, done)
  BY <1>2 DEF TrailInv, RecordInv
<1>5. done \in Seq(Types)
  BY <1>4 DEF Recorded
<1>6. Ranked(View(s)) /\ TypesOf(View(s)) = TypesOf(log[c]) \o done
  <2>1. CASE tx[s].rows # {}
    BY <1>4, <2>1 DEF Recorded
  <2>2. CASE tx[s].rows = {}
    <3>1. View(s) = log[c] /\ done = << >>
      BY <1>4, <2>2 DEF Recorded, View
    <3>2. Ranked(log[c]) /\ log[c] \in SUBSET Event
      BY <1>1, TxType DEF TrailInv, CaseInv
    <3>3. TypesOf(log[c]) \o << >> = TypesOf(log[c])
      BY <3>2, TypesListed, ConcatEmptySeq
    <3> QED
      BY <3>1, <3>2, <3>3
  <2> QED
    BY <2>1, <2>2
<1>7. View(s)' = View(s) \cup {e}
  BY <1>1 DEF View
<1>8. Ranked(View(s)') /\ TypesOf(View(s)') = Append(TypesOf(View(s)), e.type)
  BY <1>1, <1>6, <1>7, ListedAfterInsert
<1>9. TypesOf(log[c]) \in Seq(Types)
  BY <1>1, TxType, TypesListed DEF TrailInv, CaseInv
<1>10. e.type \in Types
  BY DEF Event
<1> DEFINE more == Append(done, e.type)
<1>11. /\ more \in Seq(Types) /\ more # << >>
       /\ TypesOf(View(s)') = TypesOf(log[c]) \o more
  <2>1. more \in Seq(Types) /\ more = done \o <<e.type>>
    BY <1>5, <1>10, AppendProperties, AppendIsConcat
  <2>2. more # << >>
    BY <1>5, <1>10, AppendProperties
  <2>3. /\ TypesOf(log[c]) \o done \in Seq(Types) /\ <<e.type>> \in Seq(Types)
        /\ Append(TypesOf(log[c]) \o done, e.type) = (TypesOf(log[c]) \o done) \o <<e.type>>
    BY <1>5, <1>9, <1>10, ConcatProperties, AppendIsConcat
  <2>4. (TypesOf(log[c]) \o done) \o <<e.type>> = TypesOf(log[c]) \o (done \o <<e.type>>)
    BY <1>5, <1>9, <2>3, ConcatAssociative
  <2> HIDE DEF more
  <2> QED
    BY <1>6, <1>8, <2>1, <2>2, <2>3, <2>4
<1>12. more \o Tail(todo) = done \o todo
  <2>1. Append(done, Head(todo)) \o Tail(todo) = done \o todo
    BY <1>3, <1>5, Moved
  <2> QED
    BY <1>1, <2>1
<1>13. tx'[s].pc = "commit" => Tail(todo) = << >>
  <2>1. tx'[s].pc = "commit" => ~ (Len(todo) > 1)
    BY <1>1
  <2> QED
    BY <1>3, <2>1, NothingLeft
<1> HIDE DEF more
<1>14. Recorded(s, more)'
  <2>1. ScriptsOf(c)' = ScriptsOf(c) /\ ScriptsOf(tx[s].case)' = ScriptsOf(tx[s].case)
    BY <1>1, <1>2 DEF ScriptsOf
  <2>2. done \o todo \in ScriptsOf(c)
    BY <1>4 DEF Recorded
  <2>3. more \o tx'[s].todo \in ScriptsOf(tx[s].case)'
    BY <1>1, <1>12, <2>1, <2>2
  <2>4. tx'[s].rows # {}
    BY <1>1
  <2> HIDE DEF todo
  <2> QED
    BY <1>1, <1>8, <1>11, <1>13, <2>3, <2>4 DEF Recorded
<1> QED
  BY <1>1, <1>2, <1>14, TrailKept

(* What the log says of each case.                                               *)
TrailOf == [c \in Cases |-> TypesOf(log[c])]

(* A commit lists the whole of a transaction after what was listed before.          *)
LEMMA Committed ==
    ASSUME LockInv, TrailInv, NEW s \in Sessions, Commit(s)
    PROVE  /\ tx[s].case \in Cases /\ cases' = cases \cup {tx[s].case}
           /\ View(s) # {} /\ Ranked(View(s))
           /\ log' = [log EXCEPT ![tx[s].case] = View(s)]
           /\ \A t \in Sessions \ {s} : tx'[t] = tx[t]
           /\ tx'[s].pc = "idle"
           /\ \E done \in ScriptsOf(tx[s].case) :
                done # << >> /\ TypesOf(View(s)) = TypesOf(log[tx[s].case]) \o done
<1>1. /\ tx[s].case \in Cases /\ cases' = cases \cup {tx[s].case} /\ tx[s].pc = "commit"
      /\ log' = [log EXCEPT ![tx[s].case] = View(s)]
      /\ \A t \in Sessions \ {s} : tx'[t] = tx[t]
      /\ tx'[s].pc = "idle"
  BY TxType DEF Commit, Idle, NewTx
<1>2. PICK done : Recorded(s, done)
  BY <1>1 DEF TrailInv, RecordInv
<1>3. done \in ScriptsOf(tx[s].case)
  <2>1. done \in Seq(Types) /\ tx[s].todo = << >> /\ done \o tx[s].todo \in ScriptsOf(tx[s].case)
    BY <1>1, <1>2 DEF Recorded
  <2>2. done \o << >> = done
    BY <2>1, ConcatEmptySeq
  <2> QED
    BY <2>1, <2>2
<1>4. done # << >>
  BY <1>3, ScriptTypes DEF ScriptsOf
<1>5. tx[s].rows # {}
  BY <1>2, <1>4 DEF Recorded
<1>6. View(s) # {} /\ Ranked(View(s)) /\ TypesOf(View(s)) = TypesOf(log[tx[s].case]) \o done
  BY <1>2, <1>5 DEF Recorded, View
<1> QED
  BY <1>1, <1>3, <1>4, <1>6

LEMMA TrailCommit ==
    ASSUME LockInv, TrailInv, NEW s \in Sessions, Commit(s)
    PROVE  TrailInv'
<1> DEFINE c == tx[s].case
<1>1. /\ c \in Cases /\ cases' = cases \cup {c} /\ View(s) # {} /\ Ranked(View(s))
      /\ log' = [log EXCEPT ![c] = View(s)]
      /\ \A t \in Sessions \ {s} : tx'[t] = tx[t]
      /\ tx'[s].pc = "idle"
  BY Committed
<1>2. log'[c] = View(s) /\ \A d \in Cases \ {c} : log'[d] = log[d]
  BY <1>1, TxType
<1>3. CaseInv'
  <2> SUFFICES ASSUME NEW d \in Cases PROVE Ranked(log'[d]) /\ (d \in cases' <=> log'[d] # {})
    BY DEF CaseInv, Ranked, At
  <2>1. CASE d = c
    BY <1>1, <1>2, <2>1
  <2>2. CASE d # c
    BY <1>1, <1>2, <2>2 DEF TrailInv, CaseInv
  <2> QED
    BY <2>1, <2>2
<1>4. RecordInv'
  <2> SUFFICES ASSUME NEW t \in Sessions, tx'[t].pc # "idle" PROVE \E done : Recorded(t, done)'
    BY DEF RecordInv
  <2>1. t # s /\ tx'[t] = tx[t] /\ tx[t].pc # "idle"
    BY <1>1
  <2>2. PICK done : Recorded(t, done)
    BY <2>1 DEF TrailInv, RecordInv
  <2>3. tx[t].case \in Cases
    BY <2>1, TxType
  <2>4. CASE tx[t].case # c
    <3>1. ScriptsOf(tx[t].case)' = ScriptsOf(tx[t].case) /\ log'[tx[t].case] = log[tx[t].case]
      BY <1>1, <1>2, <2>1, <2>3, <2>4 DEF ScriptsOf
    <3>2. View(t)' = View(t)
      BY <2>1, <3>1 DEF View
    <3>3. Recorded(t, done)'
      BY <2>1, <2>2, <3>1, <3>2 DEF Recorded
    <3> QED
      BY <3>3
  <2>5. CASE tx[t].case = c
    <3>1. tx[t].rows = {}
      BY <2>1, <2>5, OneHolder DEF Holds, Commit
    <3>2. c \in cases
      BY <2>1, <2>5 DEF TrailInv, AloneInv, Commit
    <3>3. ScriptsOf(tx[t].case)' = ScriptsOf(tx[t].case)
      BY <1>1, <2>1, <2>5, <3>2 DEF ScriptsOf
    <3>4. Recorded(t, done)'
      BY <2>1, <2>2, <3>1, <3>3 DEF Recorded
    <3> QED
      BY <3>4
  <2> QED
    BY <2>4, <2>5
<1>5. AloneInv'
  BY <1>1 DEF TrailInv, AloneInv
<1> QED
  BY <1>3, <1>4, <1>5 DEF TrailInv

(* To a reader a commit is the creation of a case or one transaction more of it.     *)
LEMMA CommitMaps ==
    ASSUME LockInv, TrailInv, NEW s \in Sessions, Commit(s)
    PROVE  Trail!Next
<1>0. PICK c \in Cases : c = tx[s].case
  BY Committed
<1>1. log' = [log EXCEPT ![c] = View(s)]
  BY <1>0, Committed
<1>2. PICK done \in ScriptsOf(c) :
        done # << >> /\ TypesOf(View(s)) = TypesOf(log[c]) \o done
  BY <1>0, Committed
<1>3. log[c] \in SUBSET Event /\ Ranked(log[c]) /\ (c \in cases <=> log[c] # {})
  BY <1>1, TxType DEF TrailInv, CaseInv
<1>4. TrailOf' = [TrailOf EXCEPT ![c] = TypesOf(log[c]) \o done]
  <2>1. \A d \in Cases : log'[d] = IF d = c THEN View(s) ELSE log[d]
    BY <1>1, TxType
  <2>2. \A d \in Cases : TypesOf(log'[d]) = IF d = c THEN TypesOf(View(s)) ELSE TypesOf(log[d])
    BY <2>1
  <2>3. TrailOf' = [d \in Cases |-> TypesOf(log'[d])]
    BY DEF TrailOf, TypesOf, Listing, Before, Earlier
  <2>4. [TrailOf EXCEPT ![c] = TypesOf(log[c]) \o done]
          = [d \in Cases |-> IF d = c THEN TypesOf(log[c]) \o done ELSE TypesOf(log[d])]
    BY DEF TrailOf
  <2> QED
    BY <1>2, <2>2, <2>3, <2>4
<1>5. TrailOf[c] = TypesOf(log[c])
  BY <1>1 DEF TrailOf
<1>6. CASE c \in cases
  <2>1. done \in Scripts
    BY <1>2, <1>6 DEF ScriptsOf
  <2>2. TrailOf[c] # << >>
    <3>1. Cardinality(log[c]) # 0
      BY <1>3, <1>6, FS_EmptySet DEF Ranked
    <3>2. Len(TypesOf(log[c])) = Cardinality(log[c]) /\ Len(<< >>) = 0
      BY <1>3, TypesListed, EmptySeq
    <3> QED
      BY <1>5, <3>1, <3>2
  <2>3. Trail!Record(c, done)
    BY <1>4, <1>5, <2>2 DEF Trail!Record, TrailOf, TypesOf
  <2> QED
    BY <1>1, <2>1, <2>3 DEF Trail!Next
<1>7. CASE c \notin cases
  <2>1. done = <<"CASE_CREATED">>
    BY <1>2, <1>7 DEF ScriptsOf, CreateScript
  <2>2. TypesOf(log[c]) = << >>
    BY <1>3, <1>7, RankedEmpty
  <2>3. done \in Seq(Types)
    BY <1>7, <1>2, ScriptTypes DEF ScriptsOf
  <2>4. TypesOf(log[c]) \o done = <<"CASE_CREATED">>
    BY <2>1, <2>2, <2>3, ConcatEmptySeq
  <2>5. Trail!Create(c)
    BY <1>4, <1>5, <2>2, <2>4 DEF Trail!Create, TrailOf, TypesOf
  <2> QED
    BY <2>5 DEF Trail!Next
<1> QED
  BY <1>6, <1>7

LEMMA TrailStep ==
    ASSUME SteadyClock
    PROVE  LockInv /\ ChainInv /\ TrailInv /\ [Next]_vars =>
             TrailInv' /\ [Trail!Next]_TrailOf
<1> SUFFICES ASSUME LockInv, ChainInv, TrailInv, [Next]_vars
             PROVE  TrailInv' /\ [Trail!Next]_TrailOf
  OBVIOUS
<1>1. log' = log => TrailOf' = TrailOf
  BY DEF TrailOf, TypesOf
<1>2. ASSUME NEW s \in Sessions, NEW c \in Cases, BeginCreate(s, c)
      PROVE  TrailInv' /\ log' = log
  <2>1. CreateScript \in ScriptsOf(c)
    BY <1>2 DEF BeginCreate, ScriptsOf
  <2> QED
    BY <1>2, <2>1, TrailStart DEF BeginCreate, Start
<1>3. ASSUME NEW s \in Sessions, NEW c \in Cases, NEW script \in Scripts,
             BeginAppend(s, c, script)
      PROVE  TrailInv' /\ log' = log
  <2>1. script \in ScriptsOf(c) /\ c \in cases
    BY <1>3 DEF BeginAppend, RequireCase, ScriptsOf
  <2> QED
    BY <1>3, <2>1, TrailStart DEF BeginAppend, Start
<1>4. ASSUME NEW s \in Sessions, LockCaseChain(s) \/ ReadLatest(s)
      PROVE  TrailInv' /\ log' = log
  BY <1>4, TrailGoesOn DEF LockCaseChain, ReadLatest
<1>5. ASSUME NEW s \in Sessions, Insert(s)
      PROVE  TrailInv' /\ log' = log
  BY <1>5, TrailInsert DEF Insert
<1>6. ASSUME NEW s \in Sessions, Rollback(s)
      PROVE  TrailInv' /\ log' = log
  BY <1>6, TrailRollback DEF Rollback
<1>7. ASSUME NEW s \in Sessions, Commit(s)
      PROVE  TrailInv' /\ Trail!Next
  BY <1>7, TrailCommit, CommitMaps
<1>8. CASE UNCHANGED vars
  <2>1. TrailInv'
    BY <1>8 DEF vars, TrailInv, RecordInv, CaseInv, AloneInv, Recorded, View, ScriptsOf
  <2> QED
    BY <1>1, <1>8, <2>1 DEF vars
<1> QED
  BY <1>1, <1>2, <1>3, <1>4, <1>5, <1>6, <1>7, <1>8 DEF Next, Quiet

(* To a reader who only sees event types in their order, the log is the list of      *)
(* AuditTrail: CASE_CREATED first, then one whole business transaction after the      *)
(* other, whatever sessions ran in between and whatever was rolled back.              *)
THEOREM TrailImplemented ==
    ASSUME SteadyClock, ChainEnabled
    PROVE  Spec => ImplementsTrail
<1>1. Init => TrailInv /\ Trail!Init
  BY TrailInvInit, RankedEmpty DEF Init, Trail!Init, TypesOf
<1>2. LockInv /\ ChainInv /\ TrailInv /\ [Next]_vars =>
        TrailInv' /\ [Trail!Next]_[c \in Cases |-> [i \in 1 .. Cardinality(log[c]) |->
                                                      Listing(log[c])[i].type]]
  BY TrailStep DEF TrailOf, TypesOf
<1> QED
  BY <1>1, <1>2, LockInvAlways, ChainInvAlways, PTL DEF Spec, ImplementsTrail, Trail!Spec
=============================================================================
