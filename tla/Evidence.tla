------------------------------ MODULE Evidence ------------------------------
(***************************************************************************)
(* Uploads and deletions of evidence (services/evidence_service.py): the       *)
(* steps each request takes through PostgreSQL and MinIO, which have no common  *)
(* transaction, other requests between any two of them, failures of either      *)
(* store, and crashes of the backend.                                          *)
(*                                                                         *)
(* PostgreSQL and MinIO are external.  A call of either returns ("ok"), raises  *)
(* without having had an effect ("failed"), or raises although it had its        *)
(* effect ("unknown": the answer was lost).  A transaction's audit events are     *)
(* written when it commits; how they are chained is the subject of AuditChain.     *)
(* An evidence id is drawn by each upload (uuid4), so it is the upload itself.      *)
(***************************************************************************)
EXTENDS Naturals, Sequences, FiniteSets

CONSTANTS
    Uploads,       \* upload requests, and the evidence ids they draw
    Deletes,       \* delete requests
    Cases,         \* cases that exist
    Digests,       \* SHA-256 values of the files uploaded
    NoEvidence,    \* no parent_evidence_id; no target
    Unknown,       \* whether an answer may be lost
    MaxFaults,     \* bound: failed or lost answers in a behaviour
    MaxCrashes     \* bound: crashes in a behaviour

ASSUME EvidenceAssumption ==
    /\ Cases # {} /\ Digests # {}
    /\ NoEvidence \notin Uploads
    /\ Unknown \in BOOLEAN
    /\ MaxFaults \in Nat
    /\ MaxCrashes \in Nat

VARIABLES
    up,         \* upload -> where its handler is and what it knows
    del,        \* delete request -> the same
    rows,       \* committed rows of the table evidence
    objects,    \* keys of the objects in the bucket
    audit,      \* evidence id -> types of its committed audit events, in order
    logged,     \* keys in log records "evidence_storage_compensation_failed"
    faults,     \* failed or lost answers so far
    crashes     \* crashes so far

vars == <<up, del, rows, objects, audit, logged, faults, crashes>>

UploadSteps ==
    { "idle", "receive", "check", "hash", "put", "insert", "commit",
      "compensate", "record", "done", "crashed" }

DeleteSteps == {"idle", "erase", "remove", "commit", "done", "crashed"}

Errors == {"none", "conflict", "integrity", "other"}
Answers == {"none", "201", "409", "error"}

UploadEvents == {"STARTED", "HASHED", "STORED", "CREATED", "UPLOAD_FAILED", "DELETED"}

Init ==
    /\ up = [u \in Uploads |->
               [pc |-> "idle", case |-> CHOOSE c \in Cases : TRUE,
                digest |-> CHOOSE d \in Digests : TRUE, parent |-> NoEvidence,
                stored |-> FALSE, error |-> "none", answer |-> "none", unaudited |-> FALSE]]
    /\ del = [x \in Deletes |-> [pc |-> "idle", target |-> NoEvidence, erased |-> FALSE]]
    /\ rows = {}
    /\ objects = {}
    /\ audit = [u \in Uploads |-> << >>]
    /\ logged = {}
    /\ faults = 0
    /\ crashes = 0

-----------------------------------------------------------------------------
(* Calls of the two stores *)

Outcomes ==
    {"ok"} \cup IF faults = MaxFaults THEN {}
                ELSE {"failed"} \cup (IF Unknown THEN {"unknown"} ELSE {})

Happened(outcome) == outcome # "failed"

Count(outcome) == faults' = IF outcome = "ok" THEN faults ELSE faults + 1

\* A faulty audit log on a session of its own, which commits by itself.
RecordElsewhere(e, events, outcome) ==
    outcome \in Outcomes /\ audit' = [audit EXCEPT ![e] = @ \o events]

\* The audit events of e that a transaction commits.
Record(e, events, outcome) ==
    audit' = IF Happened(outcome) THEN [audit EXCEPT ![e] = @ \o events] ELSE audit

\* MinIOStorage.put and delete; deleting a key that is not there is no error.
PutObject(key, outcome) ==
    objects' = IF Happened(outcome) THEN objects \cup {key} ELSE objects

RemoveObject(key, outcome) ==
    objects' = IF Happened(outcome) THEN objects \ {key} ELSE objects

\* A faulty key made from the digest of the file, as in cases/{case_id}/{sha256}.
DigestKey(u) == <<up[u].case, up[u].digest>>

\* cases/{case_id}/evidence/{evidence_id}/{name}: one key for each upload.
ObjectKey(u) == u

SameFile(u, v) == up[u].case = up[v].case /\ up[u].digest = up[v].digest

-----------------------------------------------------------------------------
(* upload_evidence *)

Goto(u, pc) == up' = [up EXCEPT ![u].pc = pc]

\* Into the handlers of lines 151 and 156: rollback, then compensation.
Raise(u, error) == up' = [up EXCEPT ![u].pc = "compensate", ![u].error = error]

Answer(u, answer) == up' = [up EXCEPT ![u].pc = "done", ![u].answer = answer]

\* The first transaction. An exception here is outside the try: no handler runs.
StartUpload(u) ==
    /\ up[u].pc = "idle"
    /\ \E c \in Cases, d \in Digests, parent \in (Uploads \ {u}) \cup {NoEvidence},
          outcome \in Outcomes :
         /\ up' = [up EXCEPT ![u].case = c, ![u].digest = d, ![u].parent = parent,
                             ![u].pc = IF outcome = "ok" THEN "receive" ELSE "done",
                             ![u].answer = IF outcome = "ok" THEN "none" ELSE "error"]
         /\ Record(u, <<"STARTED">>, outcome)
         /\ Count(outcome)
    /\ UNCHANGED <<del, rows, objects, logged, crashes>>

\* The temporary file: too large, empty, or a broken connection.
Receive(u) ==
    /\ up[u].pc = "receive"
    /\ Goto(u, "check") \/ Raise(u, "other")
    /\ UNCHANGED <<del, rows, objects, audit, logged, faults, crashes>>

\* get_by_hash sees committed rows only.
FindDuplicate(u) ==
    /\ up[u].pc = "check"
    /\ IF \E v \in rows : SameFile(u, v) THEN Raise(u, "conflict") ELSE Goto(u, "hash")
    /\ UNCHANGED <<del, rows, objects, audit, logged, faults, crashes>>

RecordHash(u) ==
    /\ up[u].pc = "hash"
    /\ \E outcome \in Outcomes :
         /\ IF outcome = "ok" THEN Goto(u, "put") ELSE Raise(u, "other")
         /\ Record(u, <<"HASHED">>, outcome)
         /\ Count(outcome)
    /\ UNCHANGED <<del, rows, objects, logged, crashes>>

\* stored is set only when put has returned.
Put(u) ==
    /\ up[u].pc = "put"
    /\ \E outcome \in Outcomes :
         /\ PutObject(ObjectKey(u), outcome)
         /\ IF outcome = "ok"
              THEN up' = [up EXCEPT ![u].pc = "insert", ![u].stored = TRUE]
              ELSE Raise(u, "other")
         /\ Count(outcome)
    /\ UNCHANGED <<del, rows, audit, logged, crashes>>

\* A row inserted and not yet committed; a row deleted and not yet committed.
Inserted(u) == up[u].pc = "commit"
BeingDeleted(e) == \E x \in Deletes : del[x].pc = "commit" /\ del[x].target = e

\* The flush waits for an undecided transaction on the same (case_id, sha256)
\* or on the parent row; then both constraints are checked.
MustWait(u) ==
    \/ \E v \in Uploads \ {u} : SameFile(u, v) /\ (Inserted(v) \/ BeingDeleted(v))
    \/ BeingDeleted(up[u].parent)

\* Also what a faulty table without uq_evidence_case_sha256 would check.
ParentMissing(u) == up[u].parent \notin rows \cup {NoEvidence}

Violates(u) == ParentMissing(u) \/ \E v \in rows : SameFile(u, v)

InsertRow(u) ==
    /\ up[u].pc = "insert"
    /\ ~MustWait(u)
    /\ IF Violates(u) THEN Raise(u, "integrity") /\ faults' = faults
       ELSE \E outcome \in Outcomes :
              /\ IF outcome = "ok" THEN Goto(u, "commit") ELSE Raise(u, "other")
              /\ Count(outcome)
    /\ UNCHANGED <<del, rows, objects, audit, logged, crashes>>

\* STORED, CREATED and the row become visible together.
CommitRow(u) ==
    /\ up[u].pc = "commit"
    /\ \E outcome \in Outcomes :
         /\ rows' = IF Happened(outcome) THEN rows \cup {u} ELSE rows
         /\ IF outcome = "ok" THEN Answer(u, "201") ELSE Raise(u, "other")
         /\ Record(u, <<"STORED", "CREATED">>, outcome)
         /\ Count(outcome)
    /\ UNCHANGED <<del, objects, logged, crashes>>

\* A faulty handler of IntegrityError that leaves the object to the other one.
StoredBeforeOther(u) == up[u].stored /\ up[u].error = "other"

MayBeStored(u) == up[u].stored

\* _compensate_storage: an exception is logged and swallowed.
Compensate(u) ==
    /\ up[u].pc = "compensate"
    /\ Goto(u, "record")
    /\ IF MayBeStored(u)
         THEN \E outcome \in Outcomes :
                /\ RemoveObject(ObjectKey(u), outcome)
                /\ logged' = IF outcome = "ok" THEN logged ELSE logged \cup {ObjectKey(u)}
                /\ Count(outcome)
         ELSE UNCHANGED <<objects, logged, faults>>
    /\ UNCHANGED <<del, rows, audit, crashes>>

\* A faulty handler that hands out the kind of error it met.
RawError(u) == up[u].error

\* A faulty handler that takes every error for a duplicate.
AnyConflict(u) == "409"

ErrorAnswer(u) == IF up[u].error \in {"conflict", "integrity"} THEN "409" ELSE "error"

\* A faulty handler that lets a conflict pass without a trace.
EventsUnlessConflict(u) == IF up[u].error = "conflict" THEN << >> ELSE <<"UPLOAD_FAILED">>

FailureEvents(u) == <<"UPLOAD_FAILED">>

\* _record_failure: an SQLAlchemyError is logged and swallowed, any other exception
\* takes the place of the answer.
RecordFailure(u) ==
    /\ up[u].pc = "record"
    /\ \E outcome \in Outcomes, answer \in {ErrorAnswer(u), "error"} :
         /\ outcome = "ok" => answer = ErrorAnswer(u)
         /\ up' = [up EXCEPT ![u].pc = "done", ![u].answer = answer,
                             ![u].unaudited = outcome # "ok"]
         /\ Record(u, FailureEvents(u), outcome)
         /\ Count(outcome)
    /\ UNCHANGED <<del, rows, objects, logged, crashes>>

-----------------------------------------------------------------------------
(* delete_evidence: no handler, an exception ends the request *)

DeleteGoto(x, pc) == del' = [del EXCEPT ![x].pc = pc]

FindTarget(x) ==
    /\ del[x].pc = "idle"
    /\ \E e \in rows : del' = [del EXCEPT ![x].pc = "erase", ![x].target = e]
    /\ UNCHANGED <<up, rows, objects, audit, logged, faults, crashes>>

Erase(x) ==
    /\ del[x].pc = "erase"
    /\ \E outcome \in Outcomes :
         /\ RemoveObject(ObjectKey(del[x].target), outcome)
         /\ del' = [del EXCEPT ![x].pc = IF outcome = "ok" THEN "remove" ELSE "done",
                               ![x].erased = Happened(outcome)]
         /\ Count(outcome)
    /\ UNCHANGED <<up, rows, audit, logged, crashes>>

\* DELETE takes the row lock: it waits for another deletion of the row and for an
\* insert that refers to it, and ON DELETE SET NULL for the deletion of a child.
\* Deleting a row that is gone is no error.
RemoveRow(x) ==
    /\ del[x].pc = "remove"
    /\ ~BeingDeleted(del[x].target)
    /\ \A v \in Uploads : up[v].parent = del[x].target => ~Inserted(v) /\ ~BeingDeleted(v)
    /\ \E outcome \in Outcomes :
         /\ DeleteGoto(x, IF outcome = "ok" THEN "commit" ELSE "done")
         /\ Count(outcome)
    /\ UNCHANGED <<up, rows, objects, audit, logged, crashes>>

CommitDelete(x) ==
    /\ del[x].pc = "commit"
    /\ \E outcome \in Outcomes :
         /\ rows' = IF Happened(outcome) THEN rows \ {del[x].target} ELSE rows
         /\ DeleteGoto(x, "done")
         /\ Record(del[x].target, <<"DELETED">>, outcome)
         /\ Count(outcome)
    /\ UNCHANGED <<up, objects, logged, crashes>>

-----------------------------------------------------------------------------
Ended == {"idle", "done", "crashed"}

\* The one backend process dies: every request in flight with it, and PostgreSQL
\* rolls their transactions back.
Crash ==
    /\ crashes < MaxCrashes
    /\ \/ \E u \in Uploads : up[u].pc \notin Ended
       \/ \E x \in Deletes : del[x].pc \notin Ended
    /\ crashes' = crashes + 1
    /\ up' = [u \in Uploads |->
                IF up[u].pc \in Ended THEN up[u] ELSE [up[u] EXCEPT !.pc = "crashed"]]
    /\ del' = [x \in Deletes |->
                IF del[x].pc \in Ended THEN del[x] ELSE [del[x] EXCEPT !.pc = "crashed"]]
    /\ UNCHANGED <<rows, objects, audit, logged, faults>>

UploadStep(u) ==
    Receive(u) \/ FindDuplicate(u) \/ RecordHash(u) \/ Put(u) \/ InsertRow(u)
        \/ CommitRow(u) \/ Compensate(u) \/ RecordFailure(u)

DeleteStep(x) == Erase(x) \/ RemoveRow(x) \/ CommitDelete(x)

\* No request in flight.
Quiet ==
    /\ \A u \in Uploads : up[u].pc \in Ended
    /\ \A x \in Deletes : del[x].pc \in Ended
    /\ UNCHANGED vars

Next ==
    \/ \E u \in Uploads : StartUpload(u) \/ UploadStep(u)
    \/ \E x \in Deletes : FindTarget(x) \/ DeleteStep(x)
    \/ Crash
    \/ Quiet

\* A handler runs on until it ends; a waiting statement is woken up.
Fairness ==
    /\ \A u \in Uploads : SF_vars(UploadStep(u))
    /\ \A x \in Deletes : SF_vars(DeleteStep(x))

Spec == Init /\ [][Next]_vars /\ Fairness

-----------------------------------------------------------------------------
(* Each variable holds what the schema and the handlers can put there.        *)
TypeOK ==
    /\ up \in [Uploads -> [pc : UploadSteps, case : Cases, digest : Digests,
                           parent : Uploads \cup {NoEvidence}, stored : BOOLEAN,
                           error : Errors, answer : Answers, unaudited : BOOLEAN]]
    /\ del \in [Deletes -> [pc : DeleteSteps, target : Uploads \cup {NoEvidence},
                            erased : BOOLEAN]]
    /\ rows \subseteq Uploads
    /\ objects \subseteq {ObjectKey(u) : u \in Uploads}
    /\ audit \in [Uploads -> Seq(UploadEvents)]
    /\ logged \subseteq {ObjectKey(u) : u \in Uploads}
    /\ faults \in 0 .. MaxFaults
    /\ crashes \in 0 .. MaxCrashes

(* Two requests with the same file both pass the look-up of line 96: still a   *)
(* case never holds the same digest twice.                                    *)
UniqueFile == \A u, v \in rows : SameFile(u, v) => u = v

(* The object of a row is in the bucket, unless a deletion that has not (or    *)
(* not yet) got past the database removed it: the loser of a race, failures      *)
(* and crashes never take the object of a row that stays.                        *)
RowHasObject ==
    \A u \in rows :
        \/ ObjectKey(u) \in objects
        \/ \E x \in Deletes : del[x].target = u /\ del[x].erased

(* A file is refused as a duplicate only if the case has, or had, another row of *)
(* it, or if the database refused the parent: an upload without a parent is told     *)
(* the truth, whatever others insert and delete between its look-up and its row.      *)
RefusedForCause ==
    \A u \in Uploads : up[u].answer = "409" =>
        \/ up[u].error = "integrity" /\ up[u].parent # NoEvidence
        \/ \E v \in Uploads \ {u} :
             SameFile(u, v) /\ \E i \in DOMAIN audit[v] : audit[v][i] = "CREATED"

(* An object without a row belongs to an upload that is still at it, died in a *)
(* crash, or has logged that it could not remove it: nothing else is left over. *)
OrphansAccounted ==
    \A u \in Uploads :
        ObjectKey(u) \in objects /\ u \notin rows =>
            \/ up[u].pc \in {"insert", "commit", "compensate", "crashed"}
            \/ ObjectKey(u) \in logged

\* What a log says of an evidence id, by its last event; STORED is never the last.
Said(events) ==
    IF events = << >> THEN "none"
    ELSE [STARTED |-> "started", HASHED |-> "hashed", CREATED |-> "live",
          UPLOAD_FAILED |-> "failed", DELETED |-> "deleted"][events[Len(events)]]

Stage(u) == Said(audit[u])

Life == INSTANCE EvidenceLifecycle WITH
            Evidence <- Uploads,
            visible <- rows,
            stage <- [u \in Uploads |-> Stage(u)]

(* The audit log of an evidence id is one of the lives EvidenceLifecycle       *)
(* allows, and its row appears and goes in the very steps that are audited.     *)
ImplementsLifecycle == Life!Spec

(* An upload the audit log says was started is one day said to have been       *)
(* created or to have failed, unless the backend crashed or that very entry     *)
(* could not be written: no request waits for ever for another.                 *)
UploadsSettled ==
    \A u \in Uploads :
        audit[u] # << >> ~>
            \/ Stage(u) \in {"live", "failed", "deleted"}
            \/ up[u].pc = "crashed"
            \/ up[u].unaudited

(* The acceptance test of the service: a file that was uploaded "must really   *)
(* exist" in MinIO, here for every row GET answers for.                         *)
FileReallyExists == \A u \in rows : ObjectKey(u) \in objects

(* "Duplicate evidence in this case": an upload is only refused with these      *)
(* words when another upload of the same file was created before.               *)
RefusedOnlyAsDuplicate ==
    \A u \in Uploads : up[u].answer = "409" =>
        \E v \in Uploads \ {u} :
            SameFile(u, v) /\ \E i \in DOMAIN audit[v] : audit[v][i] = "CREATED"
=============================================================================
