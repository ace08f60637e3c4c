---------------------------- MODULE EvidenceProofs ----------------------------
(***************************************************************************)
(* Proofs about Evidence, for any number of uploads, deletions, cases, files,     *)
(* faults and crashes.                                                        *)
(***************************************************************************)
EXTENDS Evidence, TLAPS

Upload ==
    [pc : UploadSteps, case : Cases, digest : Digests, parent : Uploads \cup {NoEvidence},
     stored : BOOLEAN, error : Errors, answer : Answers, unaudited : BOOLEAN]

Deletion == [pc : DeleteSteps, target : Uploads \cup {NoEvidence}, erased : BOOLEAN]

LEMMA Types ==
    TypeOK <=> /\ up \in [Uploads -> Upload] /\ del \in [Deletes -> Deletion]
               /\ rows \subseteq Uploads /\ objects \subseteq Uploads /\ logged \subseteq Uploads
               /\ audit \in [Uploads -> Seq(UploadEvents)]
               /\ faults \in 0 .. MaxFaults /\ crashes \in 0 .. MaxCrashes
<1>1. {ObjectKey(u) : u \in Uploads} = Uploads
  BY DEF ObjectKey
<1> QED
  BY <1>1 DEF TypeOK, Upload, Deletion

(* What an upload keeps in its later steps.                                   *)
Kept(u) ==
    /\ up'[u].case = up[u].case /\ up'[u].digest = up[u].digest /\ up'[u].parent = up[u].parent

\* The error it has met and what it has been answered.
Tells(u, error, answer) == up'[u].error = error /\ up'[u].answer = answer

OnlyUpload(u) == del' = del /\ \A v \in Uploads \ {u} : up'[v] = up[v]

OnlyDeletion(x) == up' = up /\ \A y \in Deletes \ {x} : del'[y] = del[y]

LEMMA GotoUpload ==
    ASSUME TypeOK, NEW u \in Uploads, NEW pc \in UploadSteps, Goto(u, pc)
    PROVE  /\ up' \in [Uploads -> Upload] /\ up'[u].pc = pc
           /\ up'[u].stored = up[u].stored /\ Kept(u) /\ Tells(u, up[u].error, up[u].answer)
           /\ \A v \in Uploads \ {u} : up'[v] = up[v]
<1>1. up \in [Uploads -> Upload]
  BY Types
<1> QED
  BY <1>1 DEF Goto, Upload, Kept, Tells

LEMMA RaiseUpload ==
    ASSUME TypeOK, NEW u \in Uploads, NEW error \in Errors, Raise(u, error)
    PROVE  /\ up' \in [Uploads -> Upload] /\ up'[u].pc = "compensate"
           /\ up'[u].stored = up[u].stored /\ Kept(u) /\ Tells(u, error, up[u].answer)
           /\ \A v \in Uploads \ {u} : up'[v] = up[v]
<1>1. up \in [Uploads -> Upload]
  BY Types
<1> DEFINE at == [up EXCEPT ![u].pc = "compensate"]
<1>2. /\ at \in [Uploads -> Upload] /\ at[u].pc = "compensate" /\ at[u].stored = up[u].stored
      /\ at[u].case = up[u].case /\ at[u].digest = up[u].digest /\ at[u].parent = up[u].parent
      /\ at[u].answer = up[u].answer
      /\ \A v \in Uploads \ {u} : at[v] = up[v]
  BY <1>1 DEF Upload, UploadSteps
<1>3. up' = [at EXCEPT ![u].error = error]
  BY <1>1 DEF Raise
<1> HIDE DEF at
<1> QED
  BY <1>2, <1>3 DEF Upload, Kept, Tells

LEMMA AnswerUpload ==
    ASSUME TypeOK, NEW u \in Uploads, NEW answer \in Answers, Answer(u, answer)
    PROVE  /\ up' \in [Uploads -> Upload] /\ up'[u].pc = "done"
           /\ up'[u].stored = up[u].stored /\ Kept(u) /\ Tells(u, up[u].error, answer)
           /\ \A v \in Uploads \ {u} : up'[v] = up[v]
<1>1. up \in [Uploads -> Upload]
  BY Types
<1> DEFINE at == [up EXCEPT ![u].pc = "done"]
<1>2. /\ at \in [Uploads -> Upload] /\ at[u].pc = "done" /\ at[u].stored = up[u].stored
      /\ at[u].case = up[u].case /\ at[u].digest = up[u].digest /\ at[u].parent = up[u].parent
      /\ at[u].error = up[u].error
      /\ \A v \in Uploads \ {u} : at[v] = up[v]
  BY <1>1 DEF Upload, UploadSteps
<1>3. up' = [at EXCEPT ![u].answer = answer]
  BY <1>1 DEF Answer
<1> HIDE DEF at
<1> QED
  BY <1>2, <1>3 DEF Upload, Kept, Tells

LEMMA OutcomeTypes ==
    ASSUME TypeOK, NEW outcome \in Outcomes, Count(outcome)
    PROVE  /\ outcome \in {"ok", "failed", "unknown"} /\ (~Unknown => outcome # "unknown")
           /\ faults' \in 0 .. MaxFaults
<1>1. faults \in 0 .. MaxFaults /\ MaxFaults \in Nat
  BY EvidenceAssumption DEF TypeOK
<1>2. \/ outcome = "ok"
      \/ faults # MaxFaults /\ (outcome = "failed" \/ (Unknown /\ outcome = "unknown"))
  BY DEF Outcomes
<1> QED
  BY <1>1, <1>2 DEF Count

LEMMA RecordType ==
    ASSUME TypeOK, NEW e \in Uploads, NEW events \in Seq(UploadEvents), NEW outcome,
           Record(e, events, outcome)
    PROVE  audit' \in [Uploads -> Seq(UploadEvents)]
<1>1. audit \in [Uploads -> Seq(UploadEvents)]
  BY DEF TypeOK
<1>2. audit[e] \o events \in Seq(UploadEvents)
  BY <1>1
<1> QED
  BY <1>1, <1>2 DEF Record

LEMMA EventTypes ==
    /\ <<"STARTED">> \in Seq(UploadEvents) /\ <<"HASHED">> \in Seq(UploadEvents)
    /\ <<"STORED", "CREATED">> \in Seq(UploadEvents) /\ <<"UPLOAD_FAILED">> \in Seq(UploadEvents)
    /\ <<"DELETED">> \in Seq(UploadEvents)
BY DEF UploadEvents

LEMMA InitType == Init => TypeOK
<1> SUFFICES ASSUME Init PROVE TypeOK
  OBVIOUS
<1>1. (CHOOSE c \in Cases : TRUE) \in Cases /\ (CHOOSE d \in Digests : TRUE) \in Digests
  BY EvidenceAssumption
<1> DEFINE new == [pc |-> "idle", case |-> CHOOSE c \in Cases : TRUE,
                   digest |-> CHOOSE d \in Digests : TRUE, parent |-> NoEvidence,
                   stored |-> FALSE, error |-> "none", answer |-> "none", unaudited |-> FALSE]
<1>2. up \in [Uploads -> Upload]
  <2>1. new \in Upload
    BY <1>1 DEF Upload, UploadSteps, Errors, Answers
  <2>2. up = [u \in Uploads |-> new]
    BY DEF Init
  <2> HIDE DEF new
  <2> QED
    BY <2>1, <2>2
<1>3. del \in [Deletes -> Deletion]
  BY DEF Init, Deletion, DeleteSteps
<1>4. audit \in [Uploads -> Seq(UploadEvents)]
  BY DEF Init
<1>5. /\ rows = {} /\ objects = {} /\ logged = {}
      /\ faults \in 0 .. MaxFaults /\ crashes \in 0 .. MaxCrashes
  BY EvidenceAssumption DEF Init
<1> HIDE DEF new
<1> QED
  BY <1>2, <1>3, <1>4, <1>5, Types

-----------------------------------------------------------------------------
(* What each step of an upload does                                           *)

\* The step leads from one statement to another and keeps the rest of the upload.
Moves(u, from, to) ==
    /\ up[u].pc = from /\ up'[u].pc = to
    /\ up'[u].stored = up[u].stored /\ Kept(u)

\* So does this one, but for stored, and it types the variables it changes.
Typed == up' \in [Uploads -> Upload] /\ audit' \in [Uploads -> Seq(UploadEvents)] /\ faults' \in 0 .. MaxFaults

LEMMA StartFacts ==
    ASSUME TypeOK, NEW u \in Uploads, StartUpload(u)
    PROVE  /\ Typed /\ OnlyUpload(u) /\ UNCHANGED <<rows, objects, logged, crashes>>
           /\ up[u].pc = "idle" /\ up'[u].stored = up[u].stored
           /\ up'[u].error = up[u].error /\ up'[u].answer \in {"none", "error"}
           /\ \E outcome \in Outcomes :
                /\ up'[u].pc = IF outcome = "ok" THEN "receive" ELSE "done"
                /\ Record(u, <<"STARTED">>, outcome) /\ Count(outcome)
<1>1. up \in [Uploads -> Upload]
  BY Types
<1>2. PICK c \in Cases, d \in Digests, parent \in (Uploads \ {u}) \cup {NoEvidence}, outcome \in Outcomes :
        /\ up' = [up EXCEPT ![u].case = c, ![u].digest = d, ![u].parent = parent,
                            ![u].pc = IF outcome = "ok" THEN "receive" ELSE "done",
                            ![u].answer = IF outcome = "ok" THEN "none" ELSE "error"]
        /\ Record(u, <<"STARTED">>, outcome) /\ Count(outcome)
  BY DEF StartUpload
<1> DEFINE pc == IF outcome = "ok" THEN "receive" ELSE "done"
           answer == IF outcome = "ok" THEN "none" ELSE "error"
           up1 == [up EXCEPT ![u].case = c]
           up2 == [up1 EXCEPT ![u].digest = d]
           up3 == [up2 EXCEPT ![u].parent = parent]
           up4 == [up3 EXCEPT ![u].pc = pc]
           up5 == [up4 EXCEPT ![u].answer = answer]
           Keeps(next, former) ==
               /\ next \in [Uploads -> Upload] /\ next[u].stored = former[u].stored
               /\ next[u].error = former[u].error
               /\ \A v \in Uploads \ {u} : next[v] = former[v]
<1>3. pc \in UploadSteps /\ answer \in Answers /\ answer \in {"none", "error"}
  BY DEF UploadSteps, Answers
<1>4. up' = up5
  BY <1>1, <1>2
<1> HIDE DEF pc, answer
<1>5. up' \in [Uploads -> Upload] /\ up'[u].pc = pc /\ up'[u].stored = up[u].stored
      /\ up'[u].error = up[u].error /\ up'[u].answer = answer
      /\ \A v \in Uploads \ {u} : up'[v] = up[v]
  <2>1. Keeps(up1, up)
    BY <1>1 DEF Upload
  <2> HIDE DEF up1
  <2>2. Keeps(up2, up1)
    BY <2>1 DEF Upload
  <2> HIDE DEF up2
  <2>3. Keeps(up3, up2)
    BY <2>2 DEF Upload
  <2> HIDE DEF up3
  <2>4. Keeps(up4, up3) /\ up4[u].pc = pc
    BY <1>3, <2>3 DEF Upload
  <2> HIDE DEF up4
  <2>5. Keeps(up5, up4) /\ up5[u].pc = up4[u].pc /\ up5[u].answer = answer
    BY <1>3, <2>4 DEF Upload
  <2> HIDE DEF up5
  <2> QED
    BY <1>4, <2>1, <2>2, <2>3, <2>4, <2>5
<1>6. audit' \in [Uploads -> Seq(UploadEvents)] /\ faults' \in 0 .. MaxFaults
  BY <1>2, RecordType, EventTypes, OutcomeTypes
<1> QED
  BY <1>2, <1>3, <1>5, <1>6 DEF StartUpload, Typed, OnlyUpload, pc

LEMMA ReceiveFacts ==
    ASSUME TypeOK, NEW u \in Uploads, Receive(u) \/ FindDuplicate(u)
    PROVE  /\ Typed /\ OnlyUpload(u) /\ UNCHANGED <<rows, objects, audit, logged, crashes>>
           /\ \/ Moves(u, "receive", "check") \/ Moves(u, "receive", "compensate")
              \/ Moves(u, "check", "hash") \/ Moves(u, "check", "compensate")
<1>1. \/ \E error \in {"other", "conflict"} : Raise(u, error)
      \/ Goto(u, "check") /\ up[u].pc = "receive"
      \/ Goto(u, "hash") /\ up[u].pc = "check"
  BY DEF Receive, FindDuplicate
<1>2. /\ UNCHANGED <<del, rows, objects, audit, logged, faults, crashes>> /\ up[u].pc \in {"receive", "check"}
  BY DEF Receive, FindDuplicate
<1>3. audit' \in [Uploads -> Seq(UploadEvents)] /\ faults' \in 0 .. MaxFaults
  BY <1>2 DEF TypeOK
<1>4. ASSUME NEW error \in {"other", "conflict"}, Raise(u, error)
      PROVE  /\ Typed /\ OnlyUpload(u)
             /\ Moves(u, "receive", "compensate") \/ Moves(u, "check", "compensate")
  BY <1>2, <1>3, <1>4, RaiseUpload DEF Errors, Typed, OnlyUpload, Moves
<1>5. CASE Goto(u, "check") /\ up[u].pc = "receive"
  BY <1>2, <1>3, <1>5, GotoUpload DEF UploadSteps, Typed, OnlyUpload, Moves
<1>6. CASE Goto(u, "hash") /\ up[u].pc = "check"
  BY <1>2, <1>3, <1>6, GotoUpload DEF UploadSteps, Typed, OnlyUpload, Moves
<1> QED
  BY <1>1, <1>2, <1>4, <1>5, <1>6

LEMMA HashFacts ==
    ASSUME TypeOK, NEW u \in Uploads, RecordHash(u)
    PROVE  /\ Typed /\ OnlyUpload(u) /\ UNCHANGED <<rows, objects, logged, crashes>>
           /\ \E outcome \in Outcomes :
                /\ Moves(u, "hash", IF outcome = "ok" THEN "put" ELSE "compensate")
                /\ Record(u, <<"HASHED">>, outcome) /\ Count(outcome)
<1>1. PICK outcome \in Outcomes :
        /\ IF outcome = "ok" THEN Goto(u, "put") ELSE Raise(u, "other")
        /\ Record(u, <<"HASHED">>, outcome) /\ Count(outcome)
  BY DEF RecordHash
<1>2. up[u].pc = "hash" /\ UNCHANGED <<del, rows, objects, logged, crashes>>
  BY DEF RecordHash
<1>3. audit' \in [Uploads -> Seq(UploadEvents)] /\ faults' \in 0 .. MaxFaults
  BY <1>1, RecordType, EventTypes, OutcomeTypes
<1>4. /\ up' \in [Uploads -> Upload] /\ \A v \in Uploads \ {u} : up'[v] = up[v]
      /\ Moves(u, "hash", IF outcome = "ok" THEN "put" ELSE "compensate")
  BY <1>1, <1>2, GotoUpload, RaiseUpload DEF UploadSteps, Errors, Moves
<1> QED
  BY <1>1, <1>2, <1>3, <1>4 DEF Typed, OnlyUpload

LEMMA PutFacts ==
    ASSUME TypeOK, NEW u \in Uploads, Put(u)
    PROVE  /\ Typed /\ OnlyUpload(u) /\ UNCHANGED <<rows, audit, logged, crashes>>
           /\ up[u].pc = "put" /\ Kept(u)
           /\ \E outcome \in Outcomes :
                /\ PutObject(u, outcome) /\ Count(outcome)
                /\ IF outcome = "ok"
                     THEN /\ up'[u].pc = "insert" /\ up'[u].stored = TRUE
                          /\ Tells(u, up[u].error, up[u].answer)
                     ELSE /\ up'[u].pc = "compensate" /\ up'[u].stored = up[u].stored
                          /\ Tells(u, "other", up[u].answer)
<1>1. PICK outcome \in Outcomes :
        /\ PutObject(u, outcome) /\ Count(outcome)
        /\ IF outcome = "ok" THEN up' = [up EXCEPT ![u].pc = "insert", ![u].stored = TRUE]
           ELSE Raise(u, "other")
  BY DEF Put, ObjectKey
<1>2. up[u].pc = "put" /\ UNCHANGED <<del, rows, audit, logged, crashes>> /\ up \in [Uploads -> Upload]
  BY Types DEF Put
<1>3. audit' \in [Uploads -> Seq(UploadEvents)] /\ faults' \in 0 .. MaxFaults
  BY <1>1, <1>2, OutcomeTypes DEF TypeOK
<1>4. CASE outcome = "ok"
  <2> DEFINE at == [up EXCEPT ![u].pc = "insert"]
  <2>1. /\ at \in [Uploads -> Upload] /\ at[u].pc = "insert"
        /\ at[u].case = up[u].case /\ at[u].digest = up[u].digest /\ at[u].parent = up[u].parent
        /\ at[u].error = up[u].error /\ at[u].answer = up[u].answer
        /\ \A v \in Uploads \ {u} : at[v] = up[v]
    BY <1>2 DEF Upload, UploadSteps
  <2>2. up' = [at EXCEPT ![u].stored = TRUE]
    BY <1>1, <1>2, <1>4
  <2> HIDE DEF at
  <2>3. /\ up' \in [Uploads -> Upload] /\ up'[u].pc = "insert" /\ up'[u].stored = TRUE /\ Kept(u)
        /\ Tells(u, up[u].error, up[u].answer)
        /\ \A v \in Uploads \ {u} : up'[v] = up[v]
    BY <2>1, <2>2 DEF Upload, Kept, Tells
  <2> QED
    BY <1>1, <1>2, <1>3, <1>4, <2>3 DEF Typed, OnlyUpload
<1>5. CASE outcome # "ok"
  <2>1. Raise(u, "other")
    BY <1>1, <1>5
  <2> QED
    BY <1>1, <1>2, <1>3, <1>5, <2>1, RaiseUpload DEF Errors, Typed, OnlyUpload
<1> QED
  BY <1>4, <1>5

LEMMA InsertFacts ==
    ASSUME TypeOK, NEW u \in Uploads, InsertRow(u)
    PROVE  /\ Typed /\ OnlyUpload(u) /\ UNCHANGED <<rows, objects, audit, logged, crashes>>
           /\ \/ Moves(u, "insert", "compensate")
              \/ Moves(u, "insert", "commit") /\ ~MustWait(u) /\ ~Violates(u)
<1>1. /\ up[u].pc = "insert" /\ ~MustWait(u) /\ UNCHANGED <<del, rows, objects, audit, logged, crashes>>
      /\ audit' \in [Uploads -> Seq(UploadEvents)]
  BY DEF InsertRow, TypeOK
<1>2. faults' \in 0 .. MaxFaults
  BY OutcomeTypes DEF InsertRow, TypeOK
<1>3. \/ \E error \in {"integrity", "other"} : Raise(u, error)
      \/ Goto(u, "commit") /\ ~Violates(u)
  BY DEF InsertRow
<1>4. CASE \E error \in {"integrity", "other"} : Raise(u, error)
  BY <1>1, <1>2, <1>4, RaiseUpload DEF Errors, Typed, OnlyUpload, Moves
<1>5. CASE Goto(u, "commit") /\ ~Violates(u)
  BY <1>1, <1>2, <1>5, GotoUpload DEF UploadSteps, Typed, OnlyUpload, Moves
<1> QED
  BY <1>1, <1>3, <1>4, <1>5

LEMMA CommitFacts ==
    ASSUME TypeOK, NEW u \in Uploads, CommitRow(u)
    PROVE  /\ Typed /\ OnlyUpload(u) /\ UNCHANGED <<objects, logged, crashes>>
           /\ \E outcome \in Outcomes :
                /\ Moves(u, "commit", IF outcome = "ok" THEN "done" ELSE "compensate")
                /\ rows' = IF Happened(outcome) THEN rows \cup {u} ELSE rows
                /\ Record(u, <<"STORED", "CREATED">>, outcome) /\ Count(outcome)
<1>1. PICK outcome \in Outcomes :
        /\ rows' = IF Happened(outcome) THEN rows \cup {u} ELSE rows
        /\ IF outcome = "ok" THEN Answer(u, "201") ELSE Raise(u, "other")
        /\ Record(u, <<"STORED", "CREATED">>, outcome) /\ Count(outcome)
  BY DEF CommitRow
<1>2. up[u].pc = "commit" /\ UNCHANGED <<del, objects, logged, crashes>>
  BY DEF CommitRow
<1>3. audit' \in [Uploads -> Seq(UploadEvents)] /\ faults' \in 0 .. MaxFaults
  BY <1>1, RecordType, EventTypes, OutcomeTypes
<1>4. /\ up' \in [Uploads -> Upload] /\ \A v \in Uploads \ {u} : up'[v] = up[v]
      /\ Moves(u, "commit", IF outcome = "ok" THEN "done" ELSE "compensate")
  BY <1>1, <1>2, AnswerUpload, RaiseUpload DEF Answers, Errors, Moves
<1> QED
  BY <1>1, <1>2, <1>3, <1>4 DEF Typed, OnlyUpload

LEMMA CompensateFacts ==
    ASSUME TypeOK, NEW u \in Uploads, Compensate(u)
    PROVE  /\ Typed /\ OnlyUpload(u) /\ UNCHANGED <<rows, audit, crashes>>
           /\ Moves(u, "compensate", "record")
           /\ IF up[u].stored
                THEN \E outcome \in Outcomes :
                       /\ RemoveObject(u, outcome) /\ Count(outcome)
                       /\ logged' = IF outcome = "ok" THEN logged ELSE logged \cup {u}
                ELSE UNCHANGED <<objects, logged>>
<1>1. /\ up[u].pc = "compensate" /\ UNCHANGED <<del, rows, audit, crashes>> /\ Goto(u, "record")
      /\ audit' \in [Uploads -> Seq(UploadEvents)]
  BY DEF Compensate, TypeOK
<1>2. IF up[u].stored
        THEN \E outcome \in Outcomes :
               /\ RemoveObject(u, outcome) /\ Count(outcome)
               /\ logged' = IF outcome = "ok" THEN logged ELSE logged \cup {u}
        ELSE UNCHANGED <<objects, logged, faults>>
  BY DEF Compensate, MayBeStored, ObjectKey
<1>3. faults' \in 0 .. MaxFaults
  BY <1>2, OutcomeTypes DEF TypeOK
<1>4. /\ up' \in [Uploads -> Upload] /\ \A v \in Uploads \ {u} : up'[v] = up[v]
      /\ Moves(u, "compensate", "record")
  BY <1>1, GotoUpload DEF UploadSteps, Moves
<1> QED
  BY <1>1, <1>2, <1>3, <1>4 DEF Typed, OnlyUpload

LEMMA FailureFacts ==
    ASSUME TypeOK, NEW u \in Uploads, RecordFailure(u)
    PROVE  /\ Typed /\ OnlyUpload(u) /\ UNCHANGED <<rows, objects, logged, crashes>>
           /\ Moves(u, "record", "done")
           /\ \E answer \in {ErrorAnswer(u), "error"} : Tells(u, up[u].error, answer)
           /\ \E outcome \in Outcomes : Record(u, <<"UPLOAD_FAILED">>, outcome) /\ Count(outcome)
<1>1. PICK outcome \in Outcomes, answer \in {ErrorAnswer(u), "error"} :
        /\ up' = [up EXCEPT ![u].pc = "done", ![u].answer = answer,
                            ![u].unaudited = outcome # "ok"]
        /\ Record(u, <<"UPLOAD_FAILED">>, outcome) /\ Count(outcome)
  BY DEF RecordFailure, FailureEvents
<1>2. /\ up[u].pc = "record" /\ UNCHANGED <<del, rows, objects, logged, crashes>>
      /\ up \in [Uploads -> Upload]
  BY Types DEF RecordFailure
<1>3. audit' \in [Uploads -> Seq(UploadEvents)] /\ faults' \in 0 .. MaxFaults
  BY <1>1, RecordType, EventTypes, OutcomeTypes
<1> DEFINE unaudited == outcome # "ok"
           up1 == [up EXCEPT ![u].pc = "done"]
           up2 == [up1 EXCEPT ![u].answer = answer]
           up3 == [up2 EXCEPT ![u].unaudited = unaudited]
           Keeps(next, former) ==
               /\ next \in [Uploads -> Upload] /\ next[u].stored = former[u].stored
               /\ next[u].error = former[u].error
               /\ next[u].case = former[u].case /\ next[u].digest = former[u].digest
               /\ next[u].parent = former[u].parent
               /\ \A v \in Uploads \ {u} : next[v] = former[v]
<1>4. answer \in Answers /\ unaudited \in BOOLEAN
  BY DEF ErrorAnswer, Answers
<1>5. up' = up3
  BY <1>1, <1>2
<1> HIDE DEF unaudited
<1>6. Keeps(up', up) /\ up'[u].pc = "done" /\ up'[u].answer = answer
  <2>1. Keeps(up1, up) /\ up1[u].pc = "done"
    BY <1>2 DEF Upload, UploadSteps
  <2> HIDE DEF up1
  <2>2. Keeps(up2, up1) /\ up2[u].pc = up1[u].pc /\ up2[u].answer = answer
    BY <1>4, <2>1 DEF Upload
  <2> HIDE DEF up2
  <2>3. Keeps(up3, up2) /\ up3[u].pc = up2[u].pc /\ up3[u].answer = up2[u].answer
    BY <1>4, <2>2 DEF Upload
  <2> HIDE DEF up3
  <2> QED
    BY <1>5, <2>1, <2>2, <2>3
<1> QED
  BY <1>1, <1>2, <1>3, <1>6 DEF Typed, OnlyUpload, Moves, Kept, Tells

-----------------------------------------------------------------------------
(* What each step of a deletion does                                          *)

(* A deletion that has begun has a target.                                    *)
TargetInv ==
    \A x \in Deletes : del[x].pc \in {"erase", "remove", "commit"} => del[x].target \in Uploads

DeletionMoves(x, from, to) ==
    /\ del[x].pc = from /\ del'[x].pc = to
    /\ del'[x].target = del[x].target

DeletionTyped == del' \in [Deletes -> Deletion] /\ audit' \in [Uploads -> Seq(UploadEvents)] /\ faults' \in 0 .. MaxFaults

LEMMA DeleteGotoFacts ==
    ASSUME TypeOK, NEW x \in Deletes, NEW pc \in DeleteSteps, DeleteGoto(x, pc)
    PROVE  /\ del' \in [Deletes -> Deletion] /\ del'[x].pc = pc
           /\ del'[x].target = del[x].target /\ del'[x].erased = del[x].erased
           /\ \A y \in Deletes \ {x} : del'[y] = del[y]
<1>1. del \in [Deletes -> Deletion]
  BY Types
<1> QED
  BY <1>1 DEF DeleteGoto, Deletion

LEMMA FindFacts ==
    ASSUME TypeOK, NEW x \in Deletes, FindTarget(x)
    PROVE  /\ DeletionTyped /\ OnlyDeletion(x)
           /\ UNCHANGED <<rows, objects, audit, logged, crashes>>
           /\ del[x].pc = "idle" /\ del'[x].pc = "erase" /\ del'[x].target \in rows
           /\ del'[x].erased = del[x].erased
<1>1. PICK e \in rows : del' = [del EXCEPT ![x].pc = "erase", ![x].target = e]
  BY DEF FindTarget
<1>2. del \in [Deletes -> Deletion] /\ e \in Uploads
  BY Types
<1> DEFINE at == [del EXCEPT ![x].pc = "erase"]
<1>3. /\ at \in [Deletes -> Deletion] /\ at[x].pc = "erase" /\ at[x].erased = del[x].erased
      /\ \A y \in Deletes \ {x} : at[y] = del[y]
  BY <1>2 DEF Deletion, DeleteSteps
<1>4. del' = [at EXCEPT ![x].target = e]
  BY <1>1, <1>2
<1> HIDE DEF at
<1>5. /\ del' \in [Deletes -> Deletion] /\ del'[x].pc = "erase" /\ del'[x].target = e
      /\ del'[x].erased = del[x].erased /\ \A y \in Deletes \ {x} : del'[y] = del[y]
  BY <1>2, <1>3, <1>4 DEF Deletion
<1> QED
  BY <1>5 DEF FindTarget, DeletionTyped, OnlyDeletion, TypeOK

LEMMA EraseFacts ==
    ASSUME TypeOK, NEW x \in Deletes, Erase(x)
    PROVE  /\ DeletionTyped /\ OnlyDeletion(x) /\ UNCHANGED <<rows, audit, logged, crashes>>
           /\ \E outcome \in Outcomes :
                /\ DeletionMoves(x, "erase", IF outcome = "ok" THEN "remove" ELSE "done")
                /\ del'[x].erased = Happened(outcome)
                /\ RemoveObject(del[x].target, outcome) /\ Count(outcome)
<1>1. PICK outcome \in Outcomes :
        /\ RemoveObject(del[x].target, outcome) /\ Count(outcome)
        /\ del' = [del EXCEPT ![x].pc = IF outcome = "ok" THEN "remove" ELSE "done",
                              ![x].erased = Happened(outcome)]
  BY DEF Erase, ObjectKey
<1>2. del \in [Deletes -> Deletion] /\ del[x].pc = "erase" /\ UNCHANGED <<up, rows, audit, logged, crashes>>
  BY Types DEF Erase
<1> DEFINE pc == IF outcome = "ok" THEN "remove" ELSE "done"
           erased == Happened(outcome)
           at == [del EXCEPT ![x].pc = pc]
<1>3. pc \in DeleteSteps /\ erased \in BOOLEAN
  BY DEF DeleteSteps, Happened
<1>4. del' = [at EXCEPT ![x].erased = erased]
  BY <1>1, <1>2
<1> HIDE DEF pc, erased
<1>5. /\ at \in [Deletes -> Deletion] /\ at[x].pc = pc /\ at[x].target = del[x].target
      /\ \A y \in Deletes \ {x} : at[y] = del[y]
  BY <1>2, <1>3 DEF Deletion
<1> HIDE DEF at
<1>6. /\ del' \in [Deletes -> Deletion] /\ del'[x].pc = pc /\ del'[x].target = del[x].target
      /\ del'[x].erased = erased /\ \A y \in Deletes \ {x} : del'[y] = del[y]
  BY <1>3, <1>4, <1>5 DEF Deletion
<1>7. audit' \in [Uploads -> Seq(UploadEvents)] /\ faults' \in 0 .. MaxFaults
  BY <1>1, <1>2, OutcomeTypes DEF TypeOK
<1> QED
  BY <1>1, <1>2, <1>6, <1>7 DEF DeletionTyped, OnlyDeletion, DeletionMoves, pc, erased

LEMMA RemoveFacts ==
    ASSUME TypeOK, NEW x \in Deletes, RemoveRow(x)
    PROVE  /\ DeletionTyped /\ OnlyDeletion(x)
           /\ UNCHANGED <<rows, objects, audit, logged, crashes>>
           /\ DeletionMoves(x, "remove", "commit") \/ DeletionMoves(x, "remove", "done")
           /\ del'[x].erased = del[x].erased
           /\ ~BeingDeleted(del[x].target)
<1>1. /\ del[x].pc = "remove" /\ UNCHANGED <<up, rows, objects, audit, logged, crashes>>
      /\ ~BeingDeleted(del[x].target)
      /\ audit' \in [Uploads -> Seq(UploadEvents)]
  BY DEF RemoveRow, TypeOK
<1>2. PICK outcome \in Outcomes :
        /\ DeleteGoto(x, IF outcome = "ok" THEN "commit" ELSE "done")
        /\ Count(outcome)
  BY DEF RemoveRow
<1>3. faults' \in 0 .. MaxFaults
  BY <1>2, OutcomeTypes
<1>4. PICK pc \in {"commit", "done"} : DeleteGoto(x, pc)
  BY <1>2
<1> QED
  BY <1>1, <1>3, <1>4, DeleteGotoFacts DEF DeleteSteps, DeletionTyped, OnlyDeletion, DeletionMoves

LEMMA CommitDeleteFacts ==
    ASSUME TypeOK, TargetInv, NEW x \in Deletes, CommitDelete(x)
    PROVE  /\ DeletionTyped /\ OnlyDeletion(x) /\ UNCHANGED <<objects, logged, crashes>>
           /\ DeletionMoves(x, "commit", "done") /\ del'[x].erased = del[x].erased
           /\ \E outcome \in Outcomes :
                /\ rows' = IF Happened(outcome) THEN rows \ {del[x].target} ELSE rows
                /\ Record(del[x].target, <<"DELETED">>, outcome) /\ Count(outcome)
<1>1. PICK outcome \in Outcomes :
        /\ rows' = IF Happened(outcome) THEN rows \ {del[x].target} ELSE rows
        /\ DeleteGoto(x, "done")
        /\ Record(del[x].target, <<"DELETED">>, outcome) /\ Count(outcome)
  BY DEF CommitDelete
<1>2. del[x].pc = "commit" /\ UNCHANGED <<up, objects, logged, crashes>>
  BY DEF CommitDelete
<1>3. audit' \in [Uploads -> Seq(UploadEvents)] /\ faults' \in 0 .. MaxFaults
  BY <1>1, <1>2, RecordType, EventTypes, OutcomeTypes DEF TargetInv
<1> QED
  BY <1>1, <1>2, <1>3, DeleteGotoFacts DEF DeleteSteps, DeletionTyped, OnlyDeletion, DeletionMoves

LEMMA CrashFacts ==
    ASSUME TypeOK, Crash
    PROVE  /\ TypeOK' /\ UNCHANGED <<rows, objects, audit, logged>>
           /\ \A u \in Uploads :
                /\ up'[u].stored = up[u].stored /\ Kept(u) /\ Tells(u, up[u].error, up[u].answer)
                /\ up'[u].pc = IF up[u].pc \in Ended THEN up[u].pc ELSE "crashed"
           /\ \A x \in Deletes :
                /\ del'[x].target = del[x].target /\ del'[x].erased = del[x].erased
                /\ del'[x].pc = IF del[x].pc \in Ended THEN del[x].pc ELSE "crashed"
<1>1. /\ up \in [Uploads -> Upload] /\ del \in [Deletes -> Deletion]
      /\ crashes \in 0 .. MaxCrashes /\ MaxCrashes \in Nat
  BY Types, EvidenceAssumption
<1>2. \A r \in Upload : /\ [r EXCEPT !.pc = "crashed"] \in Upload
                        /\ [r EXCEPT !.pc = "crashed"].pc = "crashed"
                        /\ [r EXCEPT !.pc = "crashed"].stored = r.stored
                        /\ [r EXCEPT !.pc = "crashed"].case = r.case
                        /\ [r EXCEPT !.pc = "crashed"].digest = r.digest
                        /\ [r EXCEPT !.pc = "crashed"].parent = r.parent
                        /\ [r EXCEPT !.pc = "crashed"].error = r.error
                        /\ [r EXCEPT !.pc = "crashed"].answer = r.answer
  BY DEF Upload, UploadSteps
<1>3. \A r \in Deletion : /\ [r EXCEPT !.pc = "crashed"] \in Deletion
                          /\ [r EXCEPT !.pc = "crashed"].pc = "crashed"
                          /\ [r EXCEPT !.pc = "crashed"].target = r.target
                          /\ [r EXCEPT !.pc = "crashed"].erased = r.erased
  BY DEF Deletion, DeleteSteps
<1>4. crashes' \in 0 .. MaxCrashes /\ UNCHANGED <<rows, objects, audit, logged, faults>>
  BY <1>1 DEF Crash
<1>5. /\ up' = [u \in Uploads |-> IF up[u].pc \in Ended THEN up[u] ELSE [up[u] EXCEPT !.pc = "crashed"]]
      /\ del' = [x \in Deletes |-> IF del[x].pc \in Ended THEN del[x] ELSE [del[x] EXCEPT !.pc = "crashed"]]
  BY DEF Crash
<1>6. up' \in [Uploads -> Upload] /\ del' \in [Deletes -> Deletion]
  BY <1>1, <1>2, <1>3, <1>5
<1>7. TypeOK'
  BY <1>4, <1>6, Types DEF TypeOK, Upload, Deletion
<1>8. ASSUME NEW u \in Uploads
      PROVE  /\ up'[u].stored = up[u].stored /\ Kept(u) /\ Tells(u, up[u].error, up[u].answer)
             /\ up'[u].pc = IF up[u].pc \in Ended THEN up[u].pc ELSE "crashed"
  BY <1>1, <1>2, <1>5 DEF Kept, Tells
<1>9. ASSUME NEW x \in Deletes
      PROVE  /\ del'[x].target = del[x].target /\ del'[x].erased = del[x].erased
             /\ del'[x].pc = IF del[x].pc \in Ended THEN del[x].pc ELSE "crashed"
  BY <1>1, <1>3, <1>5
<1> QED
  BY <1>4, <1>7, <1>8, <1>9

-----------------------------------------------------------------------------
TypeInv == TypeOK /\ TargetInv

LEMMA UploadType ==
    ASSUME TypeInv, NEW u \in Uploads, StartUpload(u) \/ UploadStep(u)
    PROVE  TypeInv' /\ OnlyUpload(u)
<1> USE DEF TypeInv
<1>1. Typed /\ OnlyUpload(u) /\ crashes' = crashes
  BY StartFacts, ReceiveFacts, HashFacts, PutFacts, InsertFacts, CommitFacts, CompensateFacts,
     FailureFacts DEF UploadStep
<1>2. rows' \subseteq Uploads /\ objects' \subseteq Uploads /\ logged' \subseteq Uploads
  <2>1. rows \subseteq Uploads /\ objects \subseteq Uploads /\ logged \subseteq Uploads
    BY Types
  <2>2. CASE StartUpload(u) \/ Receive(u) \/ FindDuplicate(u) \/ RecordHash(u) \/ InsertRow(u) \/ RecordFailure(u)
    BY <2>1, <2>2 DEF StartUpload, Receive, FindDuplicate, RecordHash, InsertRow, RecordFailure
  <2>3. CASE Put(u)
    BY <2>1, <2>3, PutFacts DEF PutObject
  <2>4. CASE CommitRow(u)
    BY <2>1, <2>4, CommitFacts
  <2>5. CASE Compensate(u)
    BY <2>1, <2>5, CompensateFacts DEF RemoveObject
  <2> QED
    BY <2>2, <2>3, <2>4, <2>5 DEF UploadStep
<1>3. TypeOK'
  <2>1. del' \in [Deletes -> Deletion] /\ crashes' \in 0 .. MaxCrashes
    BY <1>1, Types DEF OnlyUpload
  <2> QED
    BY <1>1, <1>2, <2>1 DEF TypeOK, Upload, Deletion, Typed, ObjectKey
<1> QED
  BY <1>1, <1>3 DEF TargetInv, OnlyUpload

LEMMA DeletionType ==
    ASSUME TypeInv, NEW x \in Deletes, FindTarget(x) \/ DeleteStep(x)
    PROVE  TypeInv' /\ OnlyDeletion(x)
<1> USE DEF TypeInv
<1>1. DeletionTyped /\ OnlyDeletion(x) /\ UNCHANGED <<logged, crashes>>
  BY FindFacts, EraseFacts, RemoveFacts, CommitDeleteFacts DEF DeleteStep
<1>2. rows' \subseteq Uploads /\ objects' \subseteq Uploads
  <2>1. rows \subseteq Uploads /\ objects \subseteq Uploads
    BY Types
  <2>2. CASE FindTarget(x) \/ RemoveRow(x)
    BY <2>1, <2>2 DEF FindTarget, RemoveRow
  <2>3. CASE Erase(x)
    BY <2>1, <2>3, EraseFacts DEF RemoveObject
  <2>4. CASE CommitDelete(x)
    BY <2>1, <2>4, CommitDeleteFacts
  <2> QED
    BY <2>2, <2>3, <2>4 DEF DeleteStep
<1>3. TypeOK'
  <2>1. up' \in [Uploads -> Upload] /\ logged' \subseteq Uploads /\ crashes' \in 0 .. MaxCrashes
    BY <1>1, Types DEF OnlyDeletion
  <2> QED
    BY <1>1, <1>2, <2>1 DEF TypeOK, Upload, Deletion, DeletionTyped, ObjectKey
<1>4. TargetInv'
  <2>1. del'[x].pc \in {"erase", "remove", "commit"} => del'[x].target \in Uploads
    BY FindFacts, EraseFacts, RemoveFacts, CommitDeleteFacts, Types
       DEF DeleteStep, DeletionMoves, TargetInv
  <2> QED
    BY <1>1, <2>1 DEF TargetInv, OnlyDeletion
<1> QED
  BY <1>1, <1>3, <1>4

LEMMA TypeInit == Init => TypeInv
BY InitType DEF TypeInv, TargetInv, Init

LEMMA TypeStep == TypeInv /\ [Next]_vars => TypeInv'
<1> SUFFICES ASSUME TypeInv, [Next]_vars PROVE TypeInv'
  OBVIOUS
<1>1. CASE UNCHANGED vars
  BY <1>1 DEF vars, TypeInv, TypeOK, TargetInv, ObjectKey
<1>2. CASE Crash
  BY <1>2, CrashFacts DEF TypeInv, TargetInv, Ended
<1> QED
  BY <1>1, <1>2, UploadType, DeletionType DEF Next, Quiet

(* For any number of uploads and deletions, failures and crashes, each variable  *)
(* holds what the schema and the handlers can put there.                          *)
THEOREM TypeCorrect == Spec => []TypeOK
<1>1. TypeInv => TypeOK
  BY DEF TypeInv
<1> QED
  BY <1>1, TypeInit, TypeStep, PTL DEF Spec

-----------------------------------------------------------------------------
(* One row for each file of a case                                            *)

\* The transaction of u has its file in the unique index.
HoldsFile(u) == u \in rows \/ up[u].pc = "commit"

UniqueInv ==
    /\ \A u, v \in Uploads : HoldsFile(u) /\ HoldsFile(v) /\ SameFile(u, v) => u = v
    /\ \A u \in rows : up[u].pc \in {"compensate", "record", "done", "crashed"}

LEMMA UniqueKept ==
    ASSUME UniqueInv,
           \A u \in Uploads : HoldsFile(u)' => HoldsFile(u) /\ Kept(u),
           \A u \in rows' : up'[u].pc \in {"compensate", "record", "done", "crashed"}
    PROVE  UniqueInv'
<1> SUFFICES ASSUME NEW u \in Uploads, NEW v \in Uploads,
                    HoldsFile(u)', HoldsFile(v)', SameFile(u, v)'
             PROVE  u = v
  BY DEF UniqueInv
<1>1. HoldsFile(u) /\ HoldsFile(v) /\ SameFile(u, v)
  BY DEF SameFile, Kept
<1> QED
  BY <1>1 DEF UniqueInv

LEMMA UniqueStep == TypeInv /\ UniqueInv /\ [Next]_vars => UniqueInv'
<1> SUFFICES ASSUME TypeInv, UniqueInv, [Next]_vars PROVE UniqueInv'
  OBVIOUS
<1> USE DEF TypeInv
<1>1. CASE UNCHANGED vars
  BY <1>1 DEF vars, UniqueInv, HoldsFile, SameFile
<1>2. CASE Crash
  <2>1. \A u \in Uploads : HoldsFile(u)' => HoldsFile(u) /\ Kept(u)
    BY <1>2, CrashFacts DEF HoldsFile, Ended
  <2>2. \A u \in rows' : up'[u].pc \in {"compensate", "record", "done", "crashed"}
    BY <1>2, CrashFacts, Types DEF UniqueInv
  <2> QED
    BY <2>1, <2>2, UniqueKept
<1>3. ASSUME NEW x \in Deletes, FindTarget(x) \/ DeleteStep(x) PROVE UniqueInv'
  <2>1. rows' \subseteq rows /\ up' = up
    BY <1>3, FindFacts, EraseFacts, RemoveFacts, CommitDeleteFacts DEF DeleteStep, OnlyDeletion
  <2> QED
    BY <2>1, UniqueKept DEF HoldsFile, Kept, UniqueInv
<1>4. ASSUME NEW u \in Uploads, StartUpload(u) \/ UploadStep(u) PROVE UniqueInv'
  <2>1. \A v \in Uploads \ {u} : up'[v] = up[v]
    BY <1>4, UploadType DEF OnlyUpload
  <2>2. rows \subseteq Uploads
    BY Types
  <2>3. CASE StartUpload(u)
    <3>1. up'[u].pc \in {"receive", "done"} /\ rows' = rows /\ u \notin rows
      BY <2>3, StartFacts DEF UniqueInv
    <3> QED
      BY <2>1, <2>2, <3>1, UniqueKept DEF HoldsFile, Kept, UniqueInv
  <2>4. CASE Moves(u, "insert", "commit") /\ ~MustWait(u) /\ ~Violates(u) /\ rows' = rows
    <3>1. u \notin rows
      BY <2>4 DEF Moves, UniqueInv
    <3>2. \A v \in Uploads \ {u} : HoldsFile(v) => ~SameFile(u, v)
      BY <2>4 DEF MustWait, Violates, HoldsFile, Inserted
    <3>3. \A v \in Uploads \ {u} : /\ HoldsFile(v)' => HoldsFile(v)
                                    /\ SameFile(u, v)' = SameFile(u, v)
                                    /\ SameFile(v, u)' = SameFile(u, v)
      BY <2>1, <2>4 DEF HoldsFile, SameFile, Moves, Kept
    <3>4. ASSUME NEW v \in Uploads, NEW w \in Uploads,
                 HoldsFile(v)', HoldsFile(w)', SameFile(v, w)'
          PROVE  v = w
      <4>1. CASE v # u /\ w # u
        <5>1. HoldsFile(v) /\ HoldsFile(w) /\ SameFile(v, w)
          BY <2>1, <3>3, <3>4, <4>1 DEF SameFile
        <5> QED
          BY <5>1 DEF UniqueInv
      <4> QED
        BY <3>2, <3>3, <3>4, <4>1
    <3>5. \A v \in rows' : up'[v].pc \in {"compensate", "record", "done", "crashed"}
      BY <2>1, <2>2, <2>4, <3>1 DEF UniqueInv
    <3> QED
      BY <3>4, <3>5 DEF UniqueInv
  <2>5. CASE CommitRow(u)
    <3>1. /\ up[u].pc = "commit" /\ up'[u].pc \in {"done", "compensate"}
          /\ rows' \subseteq rows \cup {u} /\ Kept(u)
      BY <2>5, CommitFacts DEF Moves
    <3> QED
      BY <2>1, <2>2, <3>1, UniqueKept DEF HoldsFile, Kept, UniqueInv
  <2>6. ASSUME rows' = rows, Kept(u), up'[u].pc # "commit",
               u \in rows => up'[u].pc \in {"compensate", "record", "done", "crashed"}
        PROVE  UniqueInv'
    BY <2>1, <2>2, <2>6, UniqueKept DEF HoldsFile, Kept, UniqueInv
  <2>7. CASE Receive(u) \/ FindDuplicate(u) \/ RecordHash(u) \/ RecordFailure(u) \/ Compensate(u)
    BY <2>6, <2>7, ReceiveFacts, HashFacts, FailureFacts, CompensateFacts DEF Moves, UniqueInv
  <2>8. CASE Put(u)
    BY <2>6, <2>8, PutFacts DEF UniqueInv
  <2>9. CASE InsertRow(u)
    BY <2>4, <2>6, <2>9, InsertFacts DEF Moves, UniqueInv
  <2> QED
    BY <1>4, <2>3, <2>5, <2>7, <2>8, <2>9 DEF UploadStep
<1> QED
  BY <1>1, <1>2, <1>3, <1>4 DEF Next, Quiet

(* However many requests upload the same file, whatever fails and whenever the    *)
(* backend dies: a case never holds the same digest twice.                         *)
THEOREM FilesUnique == Spec => []UniqueFile
<1>1. TypeInv /\ UniqueInv => UniqueFile
  BY Types DEF TypeInv, UniqueInv, UniqueFile, HoldsFile
<1>2. Init => UniqueInv
  BY DEF Init, UniqueInv, HoldsFile
<1>3. TypeInv /\ UniqueInv /\ [Next]_vars => TypeInv' /\ UniqueInv'
  BY TypeStep, UniqueStep
<1> QED
  BY <1>1, <1>2, <1>3, TypeInit, PTL DEF Spec

-----------------------------------------------------------------------------
(* Why an upload is refused as a duplicate                                     *)

TellsMade(log) == \E i \in DOMAIN log : log[i] = "CREATED"

Made(v) == TellsMade(audit[v])

Twin(u) == \E v \in Uploads \ {u} : SameFile(u, v) /\ Made(v)

(* The error of an upload is set when it gives up; what it calls a conflict is one,  *)
(* and so is what the database refused to an upload without a parent.               *)
Caused(u) ==
    /\ up[u].error # "none" => up[u].pc \in {"compensate", "record", "done", "crashed"}
    /\ up[u].answer = "409" => up[u].error \in {"conflict", "integrity"} /\ up[u].pc = "done"
    /\ up[u].error \in {"conflict", "integrity"} =>
         Twin(u) \/ (up[u].error = "integrity" /\ up[u].parent # NoEvidence)

CauseInv ==
    /\ \A u \in Uploads : Caused(u) /\ (Made(u) => up[u].pc # "idle")
    /\ \A v \in rows : Made(v)

LEMMA CauseInit == Init => CauseInv
<1> SUFFICES ASSUME Init PROVE CauseInv
  OBVIOUS
<1>1. \A u \in Uploads : up[u].error = "none" /\ up[u].answer = "none" /\ ~Made(u)
  BY DEF Init, Made, TellsMade
<1> QED
  BY <1>1 DEF Init, CauseInv, Caused

LEMMA Holds ==
    ASSUME NEW old \in Seq(UploadEvents), NEW events \in Seq(UploadEvents)
    PROVE  TellsMade(old \o events) <=> TellsMade(old) \/ TellsMade(events)
<1> DEFINE new == old \o events
<1>1. /\ DOMAIN new = 1 .. Len(old) + Len(events) /\ Len(old) \in Nat /\ Len(events) \in Nat
      /\ DOMAIN old = 1 .. Len(old) /\ DOMAIN events = 1 .. Len(events)
  OBVIOUS
<1>2. \A i \in 1 .. Len(old) : new[i] = old[i]
  OBVIOUS
<1>3. \A i \in 1 .. Len(events) : new[Len(old) + i] = events[i]
  OBVIOUS
<1> HIDE DEF new
<1>4. ASSUME NEW i \in DOMAIN new, new[i] = "CREATED"
      PROVE  TellsMade(old) \/ TellsMade(events)
  <2>1. CASE i <= Len(old)
    BY <1>1, <1>2, <1>4, <2>1 DEF TellsMade
  <2>2. CASE i > Len(old)
    <3>1. PICK j \in 1 .. Len(events) : i = Len(old) + j
      <4>1. i \in Nat /\ i <= Len(old) + Len(events)
        BY <1>1, <1>4
      <4>2. i - Len(old) \in 1 .. Len(events) /\ i = Len(old) + (i - Len(old))
        BY <1>1, <2>2, <4>1
      <4> QED
        BY <4>2
    <3> QED
      BY <1>1, <1>3, <1>4, <3>1 DEF TellsMade
  <2> QED
    BY <1>1, <2>1, <2>2
<1>5. TellsMade(old) => TellsMade(new)
  BY <1>1, <1>2 DEF TellsMade
<1>6. TellsMade(events) => TellsMade(new)
  <2>1. \A i \in DOMAIN events : Len(old) + i \in DOMAIN new
    BY <1>1
  <2> QED
    BY <1>1, <1>3, <2>1 DEF TellsMade
<1>7. TellsMade(new) => TellsMade(old) \/ TellsMade(events)
  BY <1>4 DEF TellsMade
<1> QED
  BY <1>5, <1>6, <1>7 DEF new

(* The log only grows, and what a step adds is what it records.                   *)
LEMMA MadeGrows ==
    ASSUME TypeOK, NEW e \in Uploads, NEW events \in Seq(UploadEvents), NEW outcome,
           Record(e, events, outcome)
    PROVE  /\ \A v \in Uploads : Made(v) => Made(v)'
           /\ \A v \in Uploads \ {e} : Made(v)' => Made(v)
           /\ Made(e)' => Made(e) \/ TellsMade(events)
           /\ Happened(outcome) /\ TellsMade(events) => Made(e)'
<1>1. audit \in [Uploads -> Seq(UploadEvents)]
  BY DEF TypeOK
<1>2. CASE ~Happened(outcome)
  BY <1>2 DEF Record, Made
<1>3. CASE Happened(outcome)
  <2>1. audit' = [audit EXCEPT ![e] = audit[e] \o events]
    BY <1>3 DEF Record
  <2>2. audit'[e] = audit[e] \o events /\ \A v \in Uploads \ {e} : audit'[v] = audit[v]
    BY <1>1, <2>1
  <2> DEFINE old == audit[e]
             new == old \o events
  <2>3. old \in Seq(UploadEvents) /\ new = old \o events /\ audit'[e] = new
    BY <1>1, <2>2
  <2> HIDE DEF old, new
  <2>4. TellsMade(new) <=> TellsMade(old) \/ TellsMade(events)
    BY <2>3, Holds
  <2>5. Made(e)' <=> TellsMade(new)
    BY <2>3 DEF Made, TellsMade
  <2>6. Made(e) <=> TellsMade(old)
    BY DEF Made, old
  <2>7. \A v \in Uploads \ {e} : Made(v)' <=> Made(v)
    BY <2>2 DEF Made
  <2> QED
    BY <2>4, <2>5, <2>6, <2>7
<1> QED
  BY <1>2, <1>3

(* What an upload may become of: its error stays, or has a cause.                   *)
Gives(v) ==
    /\ up'[v].error # "none" => up'[v].pc \in {"compensate", "record", "done", "crashed"}
    /\ up'[v].answer = "409" => up'[v].error \in {"conflict", "integrity"} /\ up'[v].pc = "done"
    /\ up'[v].error \in {"conflict", "integrity"} =>
         /\ up[v].pc # "idle"
         /\ \/ up'[v].error = up[v].error
            \/ Twin(v)
            \/ up'[v].error = "integrity" /\ up[v].parent # NoEvidence

LEMMA CauseKept ==
    ASSUME CauseInv, rows \subseteq Uploads,
           \A v \in Uploads : Made(v) => Made(v)',
           \A v \in Uploads : Made(v)' => Made(v) \/ up[v].pc # "idle",
           \A v \in rows' : v \in rows \/ Made(v)',
           \A v \in Uploads : up[v].pc # "idle" => Kept(v) /\ up'[v].pc # "idle",
           \A v \in Uploads : up'[v] = up[v] \/ Gives(v)
    PROVE  CauseInv'
<1>1. ASSUME NEW v \in Uploads, Kept(v), Twin(v) PROVE Twin(v)'
  <2>1. PICK w \in Uploads \ {v} : SameFile(v, w) /\ Made(w)
    BY <1>1 DEF Twin
  <2>2. Kept(w) /\ Made(w)'
    BY <2>1 DEF CauseInv
  <2>3. SameFile(v, w)'
    BY <1>1, <2>1, <2>2 DEF SameFile, Kept
  <2> QED
    BY <2>2, <2>3 DEF Twin
<1>2. ASSUME NEW v \in Uploads PROVE Caused(v)'
  <2>1. Caused(v)
    BY DEF CauseInv
  <2>2. CASE up'[v] = up[v]
    <3>1. Twin(v) => Twin(v)'
      BY <1>1, <2>2 DEF Kept
    <3> QED
      BY <2>1, <2>2, <3>1 DEF Caused
  <2>3. CASE Gives(v)
    <3>1. up'[v].error \in {"conflict", "integrity"} =>
            Twin(v)' \/ (up'[v].error = "integrity" /\ up'[v].parent # NoEvidence)
      <4> SUFFICES ASSUME up'[v].error \in {"conflict", "integrity"}
                   PROVE  Twin(v)' \/ (up'[v].error = "integrity" /\ up'[v].parent # NoEvidence)
        OBVIOUS
      <4>1. Kept(v)
        BY <2>3 DEF Gives
      <4>2. Twin(v) \/ (up'[v].error = "integrity" /\ up[v].parent # NoEvidence)
        BY <2>1, <2>3 DEF Gives, Caused
      <4> QED
        BY <1>1, <4>1, <4>2 DEF Kept
    <3> QED
      BY <2>3, <3>1 DEF Gives, Caused
  <2> QED
    BY <2>2, <2>3
<1>3. \A v \in rows' : Made(v)'
  BY DEF CauseInv
<1>4. \A v \in Uploads : Made(v)' => up'[v].pc # "idle"
  BY DEF CauseInv
<1> QED
  BY <1>2, <1>3, <1>4 DEF CauseInv

(* An upload that finds its file in a row knows of another upload of it.             *)
LEMMA RowIsTwin ==
    ASSUME TypeInv, UniqueInv, CauseInv, NEW u \in Uploads, up[u].pc \in {"check", "insert"},
           \E v \in rows : SameFile(u, v)
    PROVE  Twin(u)
<1>1. u \notin rows
  BY DEF UniqueInv
<1>2. rows \subseteq Uploads
  BY Types DEF TypeInv
<1> QED
  BY <1>1, <1>2 DEF Twin, CauseInv

LEMMA CauseUpload ==
    ASSUME TypeInv, UniqueInv, CauseInv, NEW u \in Uploads, StartUpload(u) \/ UploadStep(u)
    PROVE  CauseInv'
<1> USE DEF TypeInv
<1>1. /\ rows \subseteq Uploads /\ \A v \in Uploads \ {u} : up'[v] = up[v]
      /\ Caused(u) /\ (Made(u) => up[u].pc # "idle")
  BY UploadType, Types DEF OnlyUpload, CauseInv
<1>2. ASSUME up[u].pc # "idle" => Kept(u) /\ up'[u].pc # "idle", Gives(u),
             \A v \in Uploads : Made(v) => Made(v)',
             \A v \in Uploads \ {u} : Made(v)' => Made(v),
             Made(u)' => Made(u) \/ up[u].pc # "idle",
             \A v \in rows' : v \in rows \/ Made(v)'
      PROVE  CauseInv'
  <2>1. \A v \in Uploads : Made(v)' => Made(v) \/ up[v].pc # "idle"
    BY <1>2
  <2>2. \A v \in Uploads : up[v].pc # "idle" => Kept(v) /\ up'[v].pc # "idle"
    BY <1>1, <1>2 DEF Kept
  <2> QED
    BY <1>1, <1>2, <2>1, <2>2, CauseKept
<1>3. ASSUME audit' = audit, rows' = rows, Kept(u), up'[u].pc # "idle", Gives(u)
      PROVE  CauseInv'
  <2>1. \A v \in Uploads : Made(v)' <=> Made(v)
    BY <1>3 DEF Made
  <2> QED
    BY <1>1, <1>2, <1>3, <2>1
<1>4. CASE StartUpload(u)
  <2>1. PICK outcome \in Outcomes :
          /\ up'[u].pc = IF outcome = "ok" THEN "receive" ELSE "done"
          /\ Record(u, <<"STARTED">>, outcome) /\ Count(outcome)
    BY <1>4, StartFacts
  <2>2. /\ rows' = rows /\ up[u].pc = "idle" /\ up'[u].error = up[u].error
        /\ up'[u].answer \in {"none", "error"}
    BY <1>4, StartFacts
  <2>3. Gives(u)
    BY <1>1, <2>2 DEF Gives, Caused
  <2>4. ~TellsMade(<<"STARTED">>)
    BY DEF TellsMade
  <2>5. /\ \A v \in Uploads : Made(v) => Made(v)'
        /\ \A v \in Uploads \ {u} : Made(v)' => Made(v)
        /\ Made(u)' => Made(u)
    BY <2>1, <2>4, MadeGrows, EventTypes
  <2> QED
    BY <1>2, <2>2, <2>3, <2>5
<1>5. CASE Receive(u)
  <2>1. /\ up[u].pc = "receive" /\ UNCHANGED <<audit, rows>>
        /\ Goto(u, "check") \/ Raise(u, "other")
    BY <1>5 DEF Receive
  <2>2. CASE Goto(u, "check")
    <3>1. Kept(u) /\ up'[u].pc = "check" /\ Tells(u, up[u].error, up[u].answer)
      BY <2>2, GotoUpload DEF UploadSteps
    <3> QED
      BY <1>1, <1>3, <2>1, <3>1 DEF Gives, Caused, Tells
  <2>3. CASE Raise(u, "other")
    <3>1. Kept(u) /\ up'[u].pc = "compensate" /\ Tells(u, "other", up[u].answer)
      BY <2>3, RaiseUpload DEF Errors
    <3> QED
      BY <1>1, <1>3, <2>1, <3>1 DEF Gives, Caused, Tells
  <2> QED
    BY <2>1, <2>2, <2>3
<1>6. CASE FindDuplicate(u)
  <2>1. /\ up[u].pc = "check" /\ UNCHANGED <<audit, rows>>
        /\ \/ Goto(u, "hash")
           \/ Raise(u, "conflict") /\ \E v \in rows : SameFile(u, v)
    BY <1>6 DEF FindDuplicate
  <2>2. CASE Goto(u, "hash")
    <3>1. Kept(u) /\ up'[u].pc = "hash" /\ Tells(u, up[u].error, up[u].answer)
      BY <2>2, GotoUpload DEF UploadSteps
    <3> QED
      BY <1>1, <1>3, <2>1, <3>1 DEF Gives, Caused, Tells
  <2>3. CASE Raise(u, "conflict") /\ \E v \in rows : SameFile(u, v)
    <3>1. Kept(u) /\ up'[u].pc = "compensate" /\ Tells(u, "conflict", up[u].answer)
      BY <2>3, RaiseUpload DEF Errors
    <3>2. Twin(u)
      BY <2>1, <2>3, RowIsTwin
    <3> QED
      BY <1>1, <1>3, <2>1, <3>1, <3>2 DEF Gives, Caused, Tells
  <2> QED
    BY <2>1, <2>2, <2>3
<1>7. CASE RecordHash(u)
  <2>1. PICK outcome \in Outcomes :
          /\ IF outcome = "ok" THEN Goto(u, "put") ELSE Raise(u, "other")
          /\ Record(u, <<"HASHED">>, outcome) /\ up[u].pc = "hash" /\ rows' = rows
    BY <1>7 DEF RecordHash
  <2>2. /\ Kept(u) /\ up'[u].pc # "idle"
        /\ \/ Tells(u, up[u].error, up[u].answer)
           \/ Tells(u, "other", up[u].answer) /\ up'[u].pc = "compensate"
    BY <2>1, GotoUpload, RaiseUpload DEF Errors, UploadSteps
  <2>3. Gives(u)
    BY <1>1, <2>1, <2>2 DEF Gives, Caused, Tells
  <2>4. ~TellsMade(<<"HASHED">>)
    BY DEF TellsMade
  <2>5. /\ \A v \in Uploads : Made(v) => Made(v)'
        /\ \A v \in Uploads \ {u} : Made(v)' => Made(v)
        /\ Made(u)' => Made(u)
    BY <2>1, <2>4, MadeGrows, EventTypes
  <2> QED
    BY <1>2, <2>1, <2>2, <2>3, <2>5
<1>8. CASE Put(u)
  <2>1. /\ up[u].pc = "put" /\ UNCHANGED <<audit, rows>> /\ Kept(u)
        /\ \/ Tells(u, up[u].error, up[u].answer) /\ up'[u].pc = "insert"
           \/ Tells(u, "other", up[u].answer) /\ up'[u].pc = "compensate"
    BY <1>8, PutFacts
  <2> QED
    BY <1>1, <1>3, <2>1 DEF Gives, Caused, Tells
<1>9. CASE InsertRow(u)
  <2>1. /\ up[u].pc = "insert" /\ UNCHANGED <<audit, rows>>
        /\ \/ Goto(u, "commit")
           \/ Raise(u, "other")
           \/ Raise(u, "integrity") /\ Violates(u)
    BY <1>9 DEF InsertRow
  <2>2. CASE Goto(u, "commit")
    <3>1. Kept(u) /\ up'[u].pc = "commit" /\ Tells(u, up[u].error, up[u].answer)
      BY <2>2, GotoUpload DEF UploadSteps
    <3> QED
      BY <1>1, <1>3, <2>1, <3>1 DEF Gives, Caused, Tells
  <2>3. CASE Raise(u, "other")
    <3>1. Kept(u) /\ up'[u].pc = "compensate" /\ Tells(u, "other", up[u].answer)
      BY <2>3, RaiseUpload DEF Errors
    <3> QED
      BY <1>1, <1>3, <2>1, <3>1 DEF Gives, Caused, Tells
  <2>4. CASE Raise(u, "integrity") /\ Violates(u)
    <3>1. Kept(u) /\ up'[u].pc = "compensate" /\ Tells(u, "integrity", up[u].answer)
      BY <2>4, RaiseUpload DEF Errors
    <3>2. Twin(u) \/ up[u].parent # NoEvidence
      BY <2>1, <2>4, RowIsTwin DEF Violates, ParentMissing
    <3> QED
      BY <1>1, <1>3, <2>1, <3>1, <3>2 DEF Gives, Caused, Tells
  <2> QED
    BY <2>1, <2>2, <2>3, <2>4
<1>10. CASE CommitRow(u)
  <2>1. PICK outcome \in Outcomes :
          /\ rows' = IF Happened(outcome) THEN rows \cup {u} ELSE rows
          /\ IF outcome = "ok" THEN Answer(u, "201") ELSE Raise(u, "other")
          /\ Record(u, <<"STORED", "CREATED">>, outcome) /\ up[u].pc = "commit"
    BY <1>10 DEF CommitRow
  <2>2. /\ Kept(u)
        /\ \/ Tells(u, up[u].error, "201") /\ up'[u].pc = "done"
           \/ Tells(u, "other", up[u].answer) /\ up'[u].pc = "compensate"
    BY <2>1, AnswerUpload, RaiseUpload DEF Errors, Answers
  <2>3. Gives(u)
    BY <1>1, <2>1, <2>2 DEF Gives, Caused, Tells
  <2>4. TellsMade(<<"STORED", "CREATED">>)
    <3>1. 2 \in DOMAIN <<"STORED", "CREATED">> /\ <<"STORED", "CREATED">>[2] = "CREATED"
      OBVIOUS
    <3> QED
      BY <3>1 DEF TellsMade
  <2>5. /\ \A v \in Uploads : Made(v) => Made(v)'
        /\ \A v \in Uploads \ {u} : Made(v)' => Made(v)
        /\ Happened(outcome) => Made(u)'
    BY <2>1, <2>4, MadeGrows, EventTypes
  <2>6. \A v \in rows' : v \in rows \/ Made(v)'
    BY <2>1, <2>5
  <2> QED
    BY <1>2, <2>1, <2>2, <2>3, <2>5, <2>6
<1>11. CASE Compensate(u)
  <2>1. /\ up[u].pc = "compensate" /\ UNCHANGED <<audit, rows>> /\ Goto(u, "record")
    BY <1>11 DEF Compensate
  <2>2. Kept(u) /\ up'[u].pc = "record" /\ Tells(u, up[u].error, up[u].answer)
    BY <2>1, GotoUpload DEF UploadSteps
  <2> QED
    BY <1>1, <1>3, <2>1, <2>2 DEF Gives, Caused, Tells
<1>12. CASE RecordFailure(u)
  <2>1. PICK outcome \in Outcomes : Record(u, <<"UPLOAD_FAILED">>, outcome)
    BY <1>12, FailureFacts
  <2>2. /\ rows' = rows /\ Kept(u) /\ up[u].pc = "record" /\ up'[u].pc = "done"
        /\ \E answer \in {ErrorAnswer(u), "error"} : Tells(u, up[u].error, answer)
    BY <1>12, FailureFacts DEF Moves
  <2>3. Gives(u)
    BY <1>1, <2>2 DEF Gives, Caused, Tells, ErrorAnswer
  <2>4. ~TellsMade(<<"UPLOAD_FAILED">>)
    BY DEF TellsMade
  <2>5. /\ \A v \in Uploads : Made(v) => Made(v)'
        /\ \A v \in Uploads \ {u} : Made(v)' => Made(v)
        /\ Made(u)' => Made(u)
    BY <2>1, <2>4, MadeGrows, EventTypes
  <2> QED
    BY <1>2, <2>2, <2>3, <2>5
<1> QED
  BY <1>4, <1>5, <1>6, <1>7, <1>8, <1>9, <1>10, <1>11, <1>12 DEF UploadStep

LEMMA CauseStep == TypeInv /\ UniqueInv /\ CauseInv /\ [Next]_vars => CauseInv'
<1> SUFFICES ASSUME TypeInv, UniqueInv, CauseInv, [Next]_vars PROVE CauseInv'
  OBVIOUS
<1> USE DEF TypeInv
<1>1. rows \subseteq Uploads
  BY Types
<1>2. ASSUME up' = up, \A v \in Uploads : Made(v)' <=> Made(v), rows' \subseteq rows
      PROVE  CauseInv'
  BY <1>1, <1>2, CauseKept DEF Kept
<1>3. CASE UNCHANGED vars
  BY <1>2, <1>3 DEF vars, Made
<1>4. CASE Crash
  <2>1. \A v \in Uploads : (Made(v)' <=> Made(v)) /\ Kept(v)
    BY <1>4, CrashFacts DEF Made
  <2>2. ASSUME NEW v \in Uploads
        PROVE  Gives(v) /\ (up[v].pc # "idle" => up'[v].pc # "idle")
    <3>1. /\ Tells(v, up[v].error, up[v].answer) /\ Caused(v)
          /\ up'[v].pc = IF up[v].pc \in Ended THEN up[v].pc ELSE "crashed"
      BY <1>4, CrashFacts DEF CauseInv
    <3> QED
      BY <3>1 DEF Gives, Tells, Caused, Ended
  <2>3. rows' = rows
    BY <1>4, CrashFacts
  <2> QED
    BY <1>1, <2>1, <2>2, <2>3, CauseKept
<1>5. ASSUME NEW x \in Deletes, FindTarget(x) \/ DeleteStep(x) PROVE CauseInv'
  <2>1. up' = up /\ rows' \subseteq rows
    BY <1>5, FindFacts, EraseFacts, RemoveFacts, CommitDeleteFacts DEF DeleteStep, OnlyDeletion
  <2>2. CASE audit' = audit
    BY <1>2, <2>1, <2>2 DEF Made
  <2>3. CASE CommitDelete(x)
    <3>1. PICK outcome \in Outcomes : Record(del[x].target, <<"DELETED">>, outcome)
      BY <2>3, CommitDeleteFacts
    <3>2. PICK e \in Uploads : e = del[x].target
      BY <2>3 DEF CommitDelete, TargetInv
    <3>3. ~TellsMade(<<"DELETED">>)
      BY DEF TellsMade
    <3>4. \A v \in Uploads : Made(v)' <=> Made(v)
      BY <3>1, <3>2, <3>3, MadeGrows, EventTypes
    <3> QED
      BY <1>2, <2>1, <3>4
  <2> QED
    BY <1>5, <2>2, <2>3, FindFacts, EraseFacts, RemoveFacts DEF DeleteStep
<1> QED
  BY <1>3, <1>4, <1>5, CauseUpload DEF Next, Quiet

(* Whoever uploads what at the same time, and whatever fails or is lost: a 409 of an  *)
(* upload without a parent means that the case has, or had, a row of the same file.   *)
THEOREM RefusalsExplained == Spec => []RefusedForCause
<1>1. CauseInv => RefusedForCause
  BY DEF CauseInv, Caused, Twin, Made, TellsMade, RefusedForCause
<1>2. Init => UniqueInv
  BY DEF Init, UniqueInv, HoldsFile
<1>3. TypeInv /\ UniqueInv /\ CauseInv /\ [Next]_vars => TypeInv' /\ UniqueInv' /\ CauseInv'
  BY TypeStep, UniqueStep, CauseStep
<1> QED
  BY <1>1, <1>2, <1>3, CauseInit, TypeInit, PTL DEF Spec

-----------------------------------------------------------------------------
(* Rows and objects, as long as no answer of a store is lost                   *)

UploadStore(u) ==
    /\ up[u].pc \in {"idle", "receive", "check", "hash", "put"} => ~up[u].stored /\ u \notin objects
    /\ up[u].pc \in {"insert", "commit"} => up[u].stored /\ u \in objects
    /\ up[u].pc = "compensate" /\ ~up[u].stored => u \notin objects
    /\ u \in rows => up[u].pc = "done"
    /\ u \in objects /\ u \notin rows =>
         up[u].pc \in {"insert", "commit", "compensate", "crashed"} \/ u \in logged

DeletionStore(x) ==
    /\ del[x].pc \in {"idle", "erase"} => ~del[x].erased
    /\ del[x].pc \in {"remove", "commit"} => del[x].erased
    /\ del[x].erased \/ del[x].pc = "erase" => del[x].target \in Uploads /\ up[del[x].target].pc = "done"
    /\ del[x].erased => del[x].target \notin objects

RowsStored ==
    \A u \in rows : u \in objects \/ \E x \in Deletes : del[x].target = u /\ del[x].erased

StoreInv ==
    /\ \A u \in Uploads : UploadStore(u)
    /\ \A x \in Deletes : DeletionStore(x)
    /\ RowsStored

LEMMA NoUnknown ==
    ASSUME ~Unknown, NEW outcome \in Outcomes
    PROVE  Happened(outcome) <=> outcome = "ok"
BY DEF Outcomes, Happened

StoresKeep(v) ==
    /\ (v \in objects') = (v \in objects)
    /\ (v \in rows') = (v \in rows)
    /\ (v \in logged') = (v \in logged)

(* A step of an upload leaves the objects and rows of the others alone.        *)
LEMMA UploadStoreStep ==
    ASSUME ~Unknown, TypeInv, StoreInv, NEW u \in Uploads, StartUpload(u) \/ UploadStep(u)
    PROVE  /\ UploadStore(u)'
           /\ \A v \in Uploads \ {u} : StoresKeep(v)
           /\ up[u].pc # "done"
           /\ u \in rows' => u \in objects'
<1> USE DEF TypeInv
<1>1. UploadStore(u)
  BY DEF StoreInv
<1>2. CASE StartUpload(u)
  BY <1>1, <1>2, StartFacts DEF UploadStore, StoresKeep
<1>3. CASE Receive(u) \/ FindDuplicate(u)
  BY <1>1, <1>3, ReceiveFacts DEF UploadStore, Moves, StoresKeep
<1>4. CASE RecordHash(u)
  BY <1>1, <1>4, HashFacts DEF UploadStore, Moves, StoresKeep
<1>5. CASE Put(u)
  <2>1. PICK outcome \in Outcomes :
          /\ PutObject(u, outcome) /\ rows' = rows /\ logged' = logged /\ up[u].pc = "put"
          /\ IF outcome = "ok" THEN up'[u].pc = "insert" /\ up'[u].stored = TRUE
             ELSE up'[u].pc = "compensate" /\ up'[u].stored = up[u].stored
    BY <1>5, PutFacts
  <2>2. objects' = IF outcome = "ok" THEN objects \cup {u} ELSE objects
    BY <2>1, NoUnknown DEF PutObject
  <2> QED
    BY <1>1, <2>1, <2>2 DEF UploadStore, StoresKeep
<1>6. CASE InsertRow(u)
  BY <1>1, <1>6, InsertFacts DEF UploadStore, Moves, StoresKeep
<1>7. CASE CommitRow(u)
  <2>1. PICK outcome \in Outcomes :
          /\ Moves(u, "commit", IF outcome = "ok" THEN "done" ELSE "compensate")
          /\ rows' = IF Happened(outcome) THEN rows \cup {u} ELSE rows
          /\ UNCHANGED <<objects, logged>>
    BY <1>7, CommitFacts
  <2>2. rows' = IF outcome = "ok" THEN rows \cup {u} ELSE rows
    BY <2>1, NoUnknown
  <2> QED
    BY <1>1, <2>1, <2>2 DEF UploadStore, Moves, StoresKeep
<1>8. CASE Compensate(u)
  <2>1. Moves(u, "compensate", "record") /\ rows' = rows
    BY <1>8, CompensateFacts
  <2>2. CASE ~up[u].stored
    <3>1. UNCHANGED <<objects, logged>>
      BY <1>8, <2>2, CompensateFacts
    <3> QED
      BY <1>1, <2>1, <2>2, <3>1 DEF UploadStore, Moves, StoresKeep
  <2>3. CASE up[u].stored
    <3>1. PICK outcome \in Outcomes :
            /\ RemoveObject(u, outcome)
            /\ logged' = IF outcome = "ok" THEN logged ELSE logged \cup {u}
      BY <1>8, <2>3, CompensateFacts
    <3>2. objects' = IF outcome = "ok" THEN objects \ {u} ELSE objects
      BY <3>1, NoUnknown DEF RemoveObject
    <3> QED
      BY <1>1, <2>1, <2>3, <3>1, <3>2 DEF UploadStore, Moves, StoresKeep
  <2> QED
    BY <2>2, <2>3
<1>9. CASE RecordFailure(u)
  BY <1>1, <1>9, FailureFacts DEF UploadStore, Moves, StoresKeep
<1> QED
  BY <1>2, <1>3, <1>4, <1>5, <1>6, <1>7, <1>8, <1>9 DEF UploadStep

LEMMA StoreUpload ==
    ASSUME ~Unknown, TypeInv, StoreInv, NEW u \in Uploads, StartUpload(u) \/ UploadStep(u)
    PROVE  StoreInv'
<1>1. /\ UploadStore(u)'
      /\ \A v \in Uploads \ {u} : StoresKeep(v)
      /\ up[u].pc # "done" /\ (u \in rows' => u \in objects')
  BY UploadStoreStep
<1>2. del' = del /\ \A v \in Uploads \ {u} : up'[v] = up[v]
  BY UploadType DEF OnlyUpload
<1>3. \A v \in Uploads : UploadStore(v)'
  <2> SUFFICES ASSUME NEW v \in Uploads \ {u} PROVE UploadStore(v)'
    BY <1>1
  <2> QED
    BY <1>1, <1>2 DEF StoreInv, UploadStore, StoresKeep
<1>4. \A x \in Deletes : DeletionStore(x)'
  <2> SUFFICES ASSUME NEW x \in Deletes PROVE DeletionStore(x)'
    OBVIOUS
  <2>1. DeletionStore(x)
    BY DEF StoreInv
  <2> QED
    BY <1>1, <1>2, <2>1 DEF DeletionStore, StoresKeep
<1>5. RowsStored'
  <2>1. rows' \subseteq Uploads
    BY UploadType DEF TypeInv, TypeOK
  <2> QED
    BY <1>1, <1>2, <2>1 DEF StoreInv, RowsStored, StoresKeep
<1> QED
  BY <1>3, <1>4, <1>5 DEF StoreInv

LEMMA StoreDeletion ==
    ASSUME ~Unknown, TypeInv, StoreInv, NEW x \in Deletes, FindTarget(x) \/ DeleteStep(x)
    PROVE  StoreInv'
<1> USE DEF TypeInv
<1>1. up' = up /\ \A y \in Deletes \ {x} : del'[y] = del[y]
  BY DeletionType DEF OnlyDeletion
<1>2. DeletionStore(x) /\ \A u \in Uploads : UploadStore(u)
  BY DEF StoreInv
<1>3. rows \subseteq Uploads /\ objects \subseteq Uploads
  BY Types
<1>4. CASE FindTarget(x)
  <2>1. /\ UNCHANGED <<rows, objects, logged>> /\ del[x].pc = "idle" /\ del'[x].pc = "erase"
        /\ del'[x].target \in rows /\ del'[x].erased = del[x].erased
    BY <1>4, FindFacts
  <2>2. DeletionStore(x)'
    BY <1>1, <1>2, <1>3, <2>1 DEF DeletionStore, UploadStore
  <2> QED
    BY <1>1, <1>2, <2>1, <2>2 DEF StoreInv, UploadStore, DeletionStore, RowsStored
<1>5. CASE Erase(x)
  <2>1. PICK outcome \in Outcomes :
          /\ DeletionMoves(x, "erase", IF outcome = "ok" THEN "remove" ELSE "done")
          /\ del'[x].erased = Happened(outcome) /\ RemoveObject(del[x].target, outcome)
          /\ UNCHANGED <<rows, logged>>
    BY <1>5, EraseFacts
  <2>2. /\ del'[x].erased = (outcome = "ok")
        /\ objects' = IF outcome = "ok" THEN objects \ {del[x].target} ELSE objects
    BY <2>1, NoUnknown DEF RemoveObject, Happened
  <2>3. up[del[x].target].pc = "done" /\ del[x].target \in Uploads
    BY <1>2, <2>1 DEF DeletionStore, DeletionMoves
  <2>4. DeletionStore(x)'
    BY <1>1, <2>1, <2>2, <2>3 DEF DeletionStore, DeletionMoves
  <2>5. \A u \in Uploads : UploadStore(u)'
    BY <1>1, <1>2, <2>1, <2>2, <2>3 DEF UploadStore
  <2>6. \A y \in Deletes : DeletionStore(y)'
    BY <1>1, <2>2, <2>4 DEF StoreInv, DeletionStore
  <2>7. RowsStored'
    <3> SUFFICES ASSUME NEW u \in rows
                 PROVE  u \in objects' \/ \E y \in Deletes : del'[y].target = u /\ del'[y].erased
      BY <2>1 DEF RowsStored
    <3>1. CASE u \in objects
      BY <2>1, <2>2, <3>1 DEF DeletionMoves
    <3>2. ASSUME NEW y \in Deletes, del[y].target = u, del[y].erased
          PROVE  u \notin objects'
      BY <2>2, <3>2 DEF StoreInv, DeletionStore
    <3>3. CASE u \notin objects
      <4>1. PICK y \in Deletes : del[y].target = u /\ del[y].erased
        BY <3>3 DEF StoreInv, RowsStored
      <4>2. CASE y # x
        BY <1>1, <4>1, <4>2
      <4>3. CASE y = x
        BY <1>2, <2>1, <4>1, <4>3 DEF DeletionMoves, DeletionStore
      <4> QED
        BY <4>2, <4>3
    <3> QED
      BY <3>1, <3>3
  <2> QED
    BY <2>5, <2>6, <2>7 DEF StoreInv
<1>6. CASE RemoveRow(x)
  <2>1. /\ UNCHANGED <<rows, objects, logged>> /\ del'[x].erased = del[x].erased
        /\ del'[x].target = del[x].target /\ del[x].pc = "remove" /\ del'[x].pc \in {"commit", "done"}
    BY <1>6, RemoveFacts DEF DeletionMoves
  <2>2. DeletionStore(x)'
    BY <1>1, <1>2, <2>1 DEF DeletionStore
  <2> QED
    BY <1>1, <1>2, <2>1, <2>2 DEF StoreInv, UploadStore, DeletionStore, RowsStored
<1>7. CASE CommitDelete(x)
  <2>1. /\ UNCHANGED <<objects, logged>> /\ del'[x].erased = del[x].erased
        /\ del'[x].target = del[x].target /\ del[x].pc = "commit" /\ del'[x].pc = "done"
        /\ rows' = rows \/ rows' = rows \ {del[x].target}
    BY <1>7, CommitDeleteFacts DEF DeletionMoves
  <2>2. DeletionStore(x)' /\ del[x].target \notin objects
    BY <1>1, <1>2, <2>1 DEF DeletionStore
  <2> QED
    BY <1>1, <1>2, <2>1, <2>2 DEF StoreInv, UploadStore, DeletionStore, RowsStored
<1> QED
  BY <1>4, <1>5, <1>6, <1>7 DEF DeleteStep

LEMMA StoreInit == Init => StoreInv
<1> SUFFICES ASSUME Init PROVE StoreInv
  OBVIOUS
<1>1. /\ \A u \in Uploads : up[u].pc = "idle" /\ up[u].stored = FALSE
      /\ \A x \in Deletes : del[x].pc = "idle" /\ del[x].erased = FALSE
      /\ rows = {} /\ objects = {}
  BY DEF Init
<1> QED
  BY <1>1 DEF StoreInv, UploadStore, DeletionStore, RowsStored

LEMMA StoreStep ==
    ASSUME ~Unknown, TypeInv, StoreInv, [Next]_vars
    PROVE  StoreInv'
<1>1. CASE UNCHANGED vars
  BY <1>1 DEF vars, StoreInv, UploadStore, DeletionStore, RowsStored
<1>2. CASE Crash
  <2>1. UNCHANGED <<rows, objects, logged>> /\ rows \subseteq Uploads
    BY <1>2, CrashFacts, Types DEF TypeInv
  <2>2. \A u \in Uploads : /\ up'[u].stored = up[u].stored
                           /\ up'[u].pc = IF up[u].pc \in Ended THEN up[u].pc ELSE "crashed"
    BY <1>2, CrashFacts DEF TypeInv
  <2>3. \A x \in Deletes : /\ del'[x].target = del[x].target /\ del'[x].erased = del[x].erased
                           /\ del'[x].pc = IF del[x].pc \in Ended THEN del[x].pc ELSE "crashed"
    BY <1>2, CrashFacts DEF TypeInv
  <2>4. \A u \in Uploads : UploadStore(u)'
    BY <2>1, <2>2 DEF StoreInv, UploadStore, Ended
  <2>5. \A x \in Deletes : DeletionStore(x)'
    BY <2>1, <2>2, <2>3 DEF StoreInv, DeletionStore, Ended
  <2>6. RowsStored'
    BY <2>1, <2>3 DEF StoreInv, RowsStored
  <2> QED
    BY <2>4, <2>5, <2>6 DEF StoreInv
<1> QED
  BY <1>1, <1>2, StoreUpload, StoreDeletion DEF Next, Quiet

(* As long as no answer of a store is lost: no interleaving, failure or crash       *)
(* takes the object of a row that stays. Only a deletion that has removed the          *)
(* object can leave its row behind.                                                *)
THEOREM RowsKeepObjects == ~Unknown => (Spec => []RowHasObject)
<1> SUFFICES ASSUME ~Unknown PROVE Spec => []RowHasObject
  OBVIOUS
<1>1. StoreInv => RowHasObject
  BY DEF StoreInv, RowsStored, RowHasObject, ObjectKey
<1>2. TypeInv /\ StoreInv /\ [Next]_vars => TypeInv' /\ StoreInv'
  BY TypeStep, StoreStep
<1> QED
  BY <1>1, <1>2, TypeInit, StoreInit, PTL DEF Spec

(* Under the same premise an object without a row belongs to an upload that is     *)
(* still at it, died in a crash, or is in the log: compensation forgets none.         *)
THEOREM NoOrphanForgotten == ~Unknown => (Spec => []OrphansAccounted)
<1> SUFFICES ASSUME ~Unknown PROVE Spec => []OrphansAccounted
  OBVIOUS
<1>1. StoreInv => OrphansAccounted
  BY DEF StoreInv, UploadStore, OrphansAccounted, ObjectKey
<1>2. TypeInv /\ StoreInv /\ [Next]_vars => TypeInv' /\ StoreInv'
  BY TypeStep, StoreStep
<1> QED
  BY <1>1, <1>2, TypeInit, StoreInit, PTL DEF Spec

-----------------------------------------------------------------------------
(* Every step is one of EvidenceLifecycle, or changes nothing it speaks of      *)

LEMMA LastEvent ==
    ASSUME NEW events \in Seq(UploadEvents), NEW more \in Seq(UploadEvents), more # << >>
    PROVE  LET all == events \o more IN all # << >> /\ all[Len(all)] = more[Len(more)]
OBVIOUS

\* The audit log says this of u next, and nothing new of the others.
Says(u, stage) ==
    /\ Stage(u)' = stage
    /\ \A v \in Uploads \ {u} : Stage(v)' = Stage(v)

LEMMA RecordSays ==
    ASSUME TypeOK, ~Unknown, NEW u \in Uploads, NEW outcome \in Outcomes,
           NEW events \in Seq(UploadEvents), events # << >>, Record(u, events, outcome)
    PROVE  /\ outcome = "ok" => Says(u, Said(events))
           /\ outcome # "ok" => audit' = audit
<1>1. audit \in [Uploads -> Seq(UploadEvents)]
  BY DEF TypeOK
<1>2. outcome # "ok" => audit' = audit
  BY NoUnknown DEF Record
<1>3. ASSUME outcome = "ok" PROVE Says(u, Said(events))
  <2>1. audit' = [audit EXCEPT ![u] = audit[u] \o events]
    BY <1>3, NoUnknown DEF Record
  <2>2. audit'[u] = audit[u] \o events /\ \A v \in Uploads \ {u} : audit'[v] = audit[v]
    BY <1>1, <2>1
  <2>3. Said(audit[u] \o events) = Said(events)
    BY <1>1, LastEvent DEF Said
  <2> QED
    BY <2>2, <2>3 DEF Says, Stage
<1> QED
  BY <1>2, <1>3

LEMMA Sayings ==
    /\ Said(<<"STARTED">>) = "started" /\ Said(<<"HASHED">>) = "hashed"
    /\ Said(<<"STORED", "CREATED">>) = "live" /\ Said(<<"UPLOAD_FAILED">>) = "failed"
    /\ Said(<<"DELETED">>) = "deleted"
BY DEF Said

(* What the log says of an upload fits the statement it is at.                 *)
StageFits(u) ==
    /\ up[u].pc = "idle" => Stage(u) = "none"
    /\ up[u].pc \in {"receive", "check", "hash"} => Stage(u) = "started"
    /\ up[u].pc \in {"put", "insert", "commit"} => Stage(u) = "hashed"
    /\ up[u].pc \in {"compensate", "record"} => Stage(u) \in {"started", "hashed"}
    /\ u \in rows <=> Stage(u) = "live"

LifeInv ==
    /\ \A u \in Uploads : StageFits(u)
    /\ \A x \in Deletes :
         del[x].pc \in {"erase", "remove", "commit"} => Stage(del[x].target) \in {"live", "deleted"}

LEMMA LifeInit == Init => LifeInv /\ Life!Init
<1> SUFFICES ASSUME Init PROVE LifeInv /\ Life!Init
  OBVIOUS
<1>1. \A u \in Uploads : Stage(u) = "none" /\ up[u].pc = "idle"
  BY DEF Init, Stage, Said
<1>2. \A x \in Deletes : del[x].pc = "idle"
  BY DEF Init
<1>3. rows = {}
  BY DEF Init
<1> QED
  BY <1>1, <1>2, <1>3 DEF LifeInv, StageFits, Life!Init

\* The function EvidenceLifecycle calls stage.
Stages == [u \in Uploads |-> Stage(u)]

LEMMA SaysMoves ==
    ASSUME NEW u \in Uploads, NEW stage, Says(u, stage), NEW from, Stage(u) \in from
    PROVE  Life!Move(u, from, stage)
<1>1. [v \in Uploads |-> Stage(v)]' = [[v \in Uploads |-> Stage(v)] EXCEPT ![u] = stage]
  BY DEF Says
<1> QED
  BY <1>1 DEF Life!Move

(* A step that leaves the log and the rows alone, and takes no upload to a       *)
(* statement its log does not fit.                                            *)
LEMMA LogKept ==
    ASSUME LifeInv, rows \subseteq Uploads, audit' = audit, rows' = rows,
           \A u \in Uploads :
             \/ up'[u].pc = up[u].pc
             \/ up'[u].pc \in {"done", "crashed"}
             \/ up[u].pc \in {"receive", "check"} /\ up'[u].pc \in {"check", "hash", "compensate"}
             \/ up[u].pc \in {"put", "insert"} /\ up'[u].pc \in {"insert", "commit", "compensate"}
             \/ up[u].pc \in {"hash", "commit", "compensate"} /\ up'[u].pc \in {"compensate", "record"},
           \A x \in Deletes :
             \/ del'[x].pc \notin {"erase", "remove", "commit"}
             \/ del[x].pc \in {"erase", "remove", "commit"} /\ del'[x].target = del[x].target
             \/ del'[x].target \in rows
    PROVE  LifeInv' /\ UNCHANGED <<Stages, rows>>
<1>1. \A u : Stage(u)' = Stage(u)
  BY DEF Stage
<1>2. UNCHANGED Stages
  BY <1>1 DEF Stages
<1>3. ASSUME NEW u \in Uploads PROVE StageFits(u)'
  BY <1>1 DEF LifeInv, StageFits
<1>4. ASSUME NEW x \in Deletes, del'[x].pc \in {"erase", "remove", "commit"}
      PROVE  Stage(del[x].target)' \in {"live", "deleted"}
  BY <1>1, <1>4 DEF LifeInv, StageFits
<1> QED
  BY <1>2, <1>3, <1>4 DEF LifeInv

(* A step that writes into the log of u, fits it and its row, and leaves the       *)
(* other uploads and the targets alone.                                       *)
LEMMA LogMoved ==
    ASSUME LifeInv, NEW u \in Uploads, NEW stage, Says(u, stage), StageFits(u)',
           \A v \in Uploads \ {u} : up'[v] = up[v] /\ (v \in rows') = (v \in rows),
           \A x \in Deletes :
             del'[x].pc \in {"erase", "remove", "commit"} =>
               /\ del[x].pc \in {"erase", "remove", "commit"}
               /\ del'[x].target = del[x].target /\ del[x].target \in Uploads,
           Stage(u) \in {"live", "deleted"} => stage \in {"live", "deleted"}
    PROVE  LifeInv'
<1>1. ASSUME NEW v \in Uploads PROVE StageFits(v)'
  <2>1. CASE v # u
    BY <2>1 DEF LifeInv, StageFits, Says
  <2> QED
    BY <2>1
<1>2. ASSUME NEW x \in Deletes, del'[x].pc \in {"erase", "remove", "commit"}
      PROVE  Stage(del[x].target)' \in {"live", "deleted"}
  <2>1. Stage(del[x].target) \in {"live", "deleted"} /\ del'[x].target \in Uploads
    BY <1>2 DEF LifeInv
  <2>2. Stage(del[x].target)' = IF del'[x].target = u THEN stage ELSE Stage(del[x].target)
    BY <1>2, <2>1 DEF Says
  <2> QED
    BY <1>2, <2>1, <2>2
<1> QED
  BY <1>1, <1>2 DEF LifeInv

LEMMA LifeUpload ==
    ASSUME ~Unknown, TypeInv, LifeInv, NEW u \in Uploads, StartUpload(u) \/ UploadStep(u)
    PROVE  LifeInv' /\ (Life!Next \/ UNCHANGED <<Stages, rows>>)
<1> USE DEF TypeInv
<1>1. rows \subseteq Uploads /\ StageFits(u) /\ OnlyUpload(u)
  BY Types, UploadType DEF LifeInv
<1>2. \A v \in Uploads \ {u} : up'[v] = up[v]
  BY <1>1 DEF OnlyUpload
<1>3. del' = del /\ \A x \in Deletes : del[x].pc \in {"erase", "remove", "commit"} => del[x].target \in Uploads
  BY <1>1 DEF OnlyUpload, TargetInv
<1>4. CASE Receive(u) \/ FindDuplicate(u) \/ InsertRow(u) \/ Put(u) \/ Compensate(u)
  <2>1. audit' = audit /\ rows' = rows
    BY <1>4 DEF Receive, FindDuplicate, InsertRow, Put, Compensate
  <2>2. \/ up[u].pc \in {"receive", "check"} /\ up'[u].pc \in {"check", "hash", "compensate"}
        \/ up[u].pc \in {"put", "insert"} /\ up'[u].pc \in {"insert", "commit", "compensate"}
        \/ up[u].pc = "compensate" /\ up'[u].pc = "record"
    BY <1>4, ReceiveFacts, InsertFacts, PutFacts, CompensateFacts DEF Moves
  <2> QED
    BY <1>1, <1>2, <1>3, <2>1, <2>2, LogKept
<1>5. ASSUME NEW stage, Says(u, stage), Stage(u) \notin {"live", "deleted"}, StageFits(u)',
             rows' \in {rows, rows \cup {u}}
      PROVE  LifeInv'
  <2>1. \A v \in Uploads \ {u} : (v \in rows') = (v \in rows)
    BY <1>5
  <2> QED
    BY <1>2, <1>3, <1>5, <2>1, LogMoved
<1>6. ASSUME audit' = audit, rows' = rows, up'[u].pc \in {"done", "compensate"},
             up[u].pc \in {"idle", "hash", "commit", "record"},
             up'[u].pc = "compensate" => up[u].pc \in {"hash", "commit"}
      PROVE  LifeInv' /\ UNCHANGED <<Stages, rows>>
  BY <1>1, <1>2, <1>3, <1>6, LogKept
<1>7. CASE StartUpload(u)
  <2>1. PICK outcome \in Outcomes :
          /\ up'[u].pc = IF outcome = "ok" THEN "receive" ELSE "done"
          /\ Record(u, <<"STARTED">>, outcome)
    BY <1>7, StartFacts
  <2>2. up[u].pc = "idle" /\ rows' = rows /\ Stage(u) = "none" /\ u \notin rows
    BY <1>1, <1>7, StartFacts DEF StageFits
  <2>3. CASE outcome = "ok"
    <3>1. Says(u, "started")
      BY <2>1, <2>3, RecordSays, EventTypes, Sayings
    <3>2. LifeInv'
      BY <1>5, <2>1, <2>2, <2>3, <3>1 DEF Says, StageFits
    <3>3. Life!Begin(u)
      BY <2>2, <3>1, SaysMoves DEF Life!Begin
    <3> QED
      BY <3>2, <3>3 DEF Life!Next
  <2>4. CASE outcome # "ok"
    BY <1>6, <2>1, <2>2, <2>4, RecordSays, EventTypes
  <2> QED
    BY <2>3, <2>4
<1>8. CASE RecordHash(u)
  <2>1. PICK outcome \in Outcomes :
          /\ Moves(u, "hash", IF outcome = "ok" THEN "put" ELSE "compensate")
          /\ Record(u, <<"HASHED">>, outcome)
    BY <1>8, HashFacts
  <2>2. up[u].pc = "hash" /\ rows' = rows /\ Stage(u) = "started" /\ u \notin rows
    BY <1>1, <1>8, HashFacts DEF StageFits, Moves
  <2>3. CASE outcome = "ok"
    <3>1. Says(u, "hashed")
      BY <2>1, <2>3, RecordSays, EventTypes, Sayings
    <3>2. LifeInv'
      BY <1>5, <2>1, <2>2, <2>3, <3>1 DEF Says, StageFits, Moves
    <3>3. Life!Identify(u)
      BY <2>2, <3>1, SaysMoves DEF Life!Identify
    <3> QED
      BY <3>2, <3>3 DEF Life!Next
  <2>4. CASE outcome # "ok"
    BY <1>6, <2>1, <2>2, <2>4, RecordSays, EventTypes DEF Moves
  <2> QED
    BY <2>3, <2>4
<1>9. CASE CommitRow(u)
  <2>1. PICK outcome \in Outcomes :
          /\ Moves(u, "commit", IF outcome = "ok" THEN "done" ELSE "compensate")
          /\ rows' = IF Happened(outcome) THEN rows \cup {u} ELSE rows
          /\ Record(u, <<"STORED", "CREATED">>, outcome)
    BY <1>9, CommitFacts
  <2>2. up[u].pc = "commit" /\ Stage(u) = "hashed" /\ u \notin rows
    BY <1>1, <2>1 DEF StageFits, Moves
  <2>3. CASE outcome = "ok"
    <3>1. Says(u, "live") /\ rows' = rows \cup {u}
      BY <2>1, <2>3, RecordSays, NoUnknown, EventTypes, Sayings
    <3>2. LifeInv'
      BY <1>5, <2>1, <2>2, <2>3, <3>1 DEF Says, StageFits, Moves
    <3>3. Life!Publish(u)
      BY <2>2, <3>1, SaysMoves DEF Life!Publish
    <3> QED
      BY <3>2, <3>3 DEF Life!Next
  <2>4. CASE outcome # "ok"
    BY <1>6, <2>1, <2>2, <2>4, RecordSays, NoUnknown, EventTypes DEF Moves
  <2> QED
    BY <2>3, <2>4
<1>10. CASE RecordFailure(u)
  <2>1. PICK outcome \in Outcomes : Record(u, <<"UPLOAD_FAILED">>, outcome)
    BY <1>10, FailureFacts
  <2>2. /\ up[u].pc = "record" /\ up'[u].pc = "done" /\ rows' = rows
        /\ Stage(u) \in {"started", "hashed"} /\ u \notin rows
    BY <1>1, <1>10, FailureFacts DEF StageFits, Moves
  <2>3. CASE outcome = "ok"
    <3>1. Says(u, "failed")
      BY <2>1, <2>3, RecordSays, EventTypes, Sayings
    <3>2. LifeInv'
      BY <1>5, <2>2, <3>1 DEF Says, StageFits
    <3>3. Life!Fail(u)
      BY <2>2, <3>1, SaysMoves DEF Life!Fail
    <3> QED
      BY <3>2, <3>3 DEF Life!Next
  <2>4. CASE outcome # "ok"
    BY <1>6, <2>1, <2>2, <2>4, RecordSays, EventTypes
  <2> QED
    BY <2>3, <2>4
<1> QED
  BY <1>4, <1>7, <1>8, <1>9, <1>10 DEF UploadStep

(* The second deletion of an evidence that is gone changes nothing that           *)
(* EvidenceLifecycle speaks of: the log says "deleted" twice.                       *)
LEMMA LifeDeletion ==
    ASSUME ~Unknown, TypeInv, LifeInv, NEW x \in Deletes, FindTarget(x) \/ DeleteStep(x)
    PROVE  LifeInv' /\ (Life!Next \/ UNCHANGED <<Stages, rows>>)
<1> USE DEF TypeInv
<1>1. rows \subseteq Uploads /\ OnlyDeletion(x)
  BY Types, DeletionType
<1>2. up' = up /\ \A y \in Deletes \ {x} : del'[y] = del[y]
  BY <1>1 DEF OnlyDeletion
<1>3. ASSUME audit' = audit, rows' = rows,
             \/ del'[x].pc \notin {"erase", "remove", "commit"}
             \/ del[x].pc \in {"erase", "remove", "commit"} /\ del'[x].target = del[x].target
             \/ del'[x].target \in rows
      PROVE  LifeInv' /\ UNCHANGED <<Stages, rows>>
  BY <1>1, <1>2, <1>3, LogKept
<1>4. CASE FindTarget(x) \/ Erase(x) \/ RemoveRow(x)
  <2>1. audit' = audit /\ rows' = rows
    BY <1>4 DEF FindTarget, Erase, RemoveRow
  <2>2. \/ del[x].pc \in {"erase", "remove", "commit"} /\ del'[x].target = del[x].target
        \/ del'[x].target \in rows
    BY <1>4, FindFacts, EraseFacts, RemoveFacts DEF DeletionMoves
  <2> QED
    BY <1>3, <2>1, <2>2
<1>5. CASE CommitDelete(x)
  <2>0. PICK e \in Uploads : e = del[x].target
    BY <1>5 DEF CommitDelete, TargetInv
  <2>1. PICK outcome \in Outcomes :
          /\ rows' = IF Happened(outcome) THEN rows \ {e} ELSE rows
          /\ Record(e, <<"DELETED">>, outcome)
    BY <1>5, <2>0, CommitDeleteFacts
  <2>2. del[x].pc = "commit" /\ del'[x].pc = "done"
    BY <1>5, CommitDeleteFacts DEF DeletionMoves
  <2>3. Stage(e) \in {"live", "deleted"} /\ StageFits(e)
    BY <2>0, <2>2 DEF LifeInv
  <2>4. CASE outcome = "ok"
    <3>1. Says(e, "deleted") /\ rows' = rows \ {e}
      BY <2>1, <2>2, <2>4, RecordSays, NoUnknown, EventTypes, Sayings
    <3>2. StageFits(e)'
      BY <1>2, <2>3, <3>1 DEF StageFits, Says
    <3>3. \A y \in Deletes : del'[y].pc \in {"erase", "remove", "commit"} =>
            /\ del[y].pc \in {"erase", "remove", "commit"}
            /\ del'[y].target = del[y].target /\ del[y].target \in Uploads
      BY <1>2, <2>2 DEF TargetInv
    <3>4. LifeInv'
      BY <1>2, <2>2, <3>1, <3>2, <3>3, LogMoved
    <3>5. CASE Stage(e) = "live"
      <4>1. Life!Remove(e)
        BY <2>2, <3>1, <3>5, SaysMoves DEF Life!Remove
      <4> QED
        BY <2>2, <3>4, <4>1 DEF Life!Next
    <3>6. CASE Stage(e) = "deleted"
      <4>1. rows' = rows
        BY <2>3, <3>1, <3>6 DEF StageFits
      <4>2. Stages' = Stages
        BY <3>1, <3>6 DEF Stages, Says
      <4> QED
        BY <3>4, <4>1, <4>2
    <3> QED
      BY <2>3, <3>5, <3>6
  <2>5. CASE outcome # "ok"
    <3>1. audit' = audit /\ rows' = rows
      BY <2>1, <2>2, <2>5, RecordSays, NoUnknown, EventTypes
    <3> QED
      BY <1>3, <2>2, <3>1
  <2> QED
    BY <2>4, <2>5
<1> QED
  BY <1>4, <1>5 DEF DeleteStep

LEMMA LifeStep ==
    ASSUME ~Unknown, TypeInv, LifeInv, [Next]_vars
    PROVE  LifeInv' /\ (Life!Next \/ UNCHANGED <<Stages, rows>>)
<1>1. rows \subseteq Uploads
  BY Types DEF TypeInv
<1>2. CASE UNCHANGED vars
  BY <1>1, <1>2, LogKept DEF vars
<1>3. CASE Crash
  <2>1. /\ audit' = audit /\ rows' = rows
        /\ \A u \in Uploads : up'[u].pc \in {up[u].pc, "crashed"}
        /\ \A x \in Deletes : /\ del'[x].pc \in {del[x].pc, "crashed"}
                              /\ del'[x].target = del[x].target
    BY <1>3, CrashFacts DEF TypeInv
  <2>2. \A x \in Deletes :
          \/ del'[x].pc \notin {"erase", "remove", "commit"}
          \/ del[x].pc \in {"erase", "remove", "commit"} /\ del'[x].target = del[x].target
    BY <2>1
  <2> QED
    BY <1>1, <2>1, <2>2, LogKept
<1> QED
  BY <1>2, <1>3, LifeUpload, LifeDeletion DEF Next, Quiet

(* As long as no answer of a store is lost, the audit log of an evidence id is    *)
(* one of the lives EvidenceLifecycle allows, and its row appears and goes in the      *)
(* very steps that are audited.                                                *)
THEOREM LifecycleImplemented == ~Unknown => (Spec => ImplementsLifecycle)
<1> SUFFICES ASSUME ~Unknown PROVE Spec => ImplementsLifecycle
  OBVIOUS
<1>1. Init => LifeInv /\ Life!Init
  BY LifeInit
<1>2. TypeInv /\ LifeInv /\ [Next]_vars =>
        TypeInv' /\ LifeInv' /\ [Life!Next]_<<[u \in Uploads |-> Stage(u)], rows>>
  BY TypeStep, LifeStep DEF Stages
<1> QED
  BY <1>1, <1>2, TypeInit, PTL DEF Spec, ImplementsLifecycle, Life!Spec
=============================================================================
