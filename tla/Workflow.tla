------------------------------ MODULE Workflow ------------------------------
(***************************************************************************)
(* One workflow thread of a case: the review graph (graph/workflow.py) and the *)
(* requests that start and resume it (services/workflow_service.py).           *)
(*                                                                         *)
(* LangGraph is external. An invocation loads the latest checkpoint of the       *)
(* thread, runs one node after another on its own copy of the state, and with    *)
(* durability="sync" saves a checkpoint after each. The latest checkpoint is the   *)
(* one saved last, whichever invocation saved it. A node that asks for a decision   *)
(* gets the one the invocation was resumed with; without one the invocation ends,   *)
(* and the question (the interrupt) is attached to the checkpoint it had reached.    *)
(*                                                                         *)
(* Threads share nothing, so one is enough. reviewer, comment and reviewed_at of    *)
(* a review are represented by the number of the request that brought it.           *)
(***************************************************************************)
EXTENDS Naturals, Sequences, FiniteSets

CONSTANTS
    Requests,      \* requests that can be in flight at a time
    MaxRounds,     \* max_review_rounds, 3 in the code
    MaxResumes,    \* bound: resume requests in a behaviour
    MaxEvidence,   \* bound: pieces of evidence of the case
    MaxCrashes,    \* bound: crashes of the backend
    MaxFailures    \* bound: calls of a database that raise

ASSUME WorkflowAssumption ==
    /\ MaxRounds \in Nat \ {0}
    /\ MaxResumes \in Nat
    /\ MaxEvidence \in Nat
    /\ MaxCrashes \in Nat /\ MaxFailures \in Nat

VARIABLES
    saved,      \* the latest checkpoint of the thread
    req,        \* request slot -> the handler running in it
    known,      \* whether a client was told the thread_id
    evidence,   \* rows of the case in the table evidence
    asked,      \* resume requests so far; the last one's number
    accepted,   \* numbers of the resume requests answered 200
    crashes,    \* crashes so far
    failures,   \* requests ended by a call that raised, so far
    cut         \* history: whether a request ended while it ran the graph

faults == <<crashes, failures, cut>>
vars == <<saved, req, known, evidence, asked, accepted, faults>>

ReviewActions == {"APPROVE", "REANALYZE", "REQUEST_EVIDENCE", "CANCEL"}
Actions == ReviewActions \cup {"EVIDENCE_READY"}

Statuses == {"PREPARING", "WAITING_REVIEW", "WAITING_EVIDENCE", "COMPLETED", "CANCELLED"}

Pauses == {"human_review", "await_evidence"}

Nodes == Pauses \cup {"prepare_case", "reanalyze_case", "mark_evidence_required",
                      "finalize_case", "cancel_case"}

\* The initial_state of WorkflowService.start.
InitialState(count) ==
    [status |-> "PREPARING", summary |-> <<0, 0>>, evidence_count |-> count,
     review_approved |-> "none", review_decision |-> "none", review_round |-> 1,
     review_history |-> << >>, result |-> "none"]

\* next: the node to run, "END", or "absent" for a thread_id nobody started.
Checkpoint(id, values, next) ==
    [id |-> id, values |-> values, next |-> next, interrupt |-> FALSE]

Absent == Checkpoint(0, InitialState(0), "absent")

IdleRequest ==
    [pc |-> "idle", number |-> 0, action |-> "none", count |-> 0, mem |-> Absent]

Init ==
    /\ saved = Absent
    /\ req = [r \in Requests |-> IdleRequest]
    /\ known = FALSE
    /\ evidence = 0
    /\ asked = 0
    /\ accepted = {}
    /\ crashes = 0 /\ failures = 0 /\ cut = FALSE

-----------------------------------------------------------------------------
(* The nodes: what each makes of the state, given the decision d              *)

\* The summary tells the round and the number of pieces of evidence.
Summary(round, count) == <<round, count>>

prepare_case(v) ==
    [v EXCEPT !.status = "WAITING_REVIEW",
              !.summary = Summary(v.review_round, v.evidence_count)]

Review(action, number, round) == [action |-> action, number |-> number, round |-> round]

\* A faulty channel without the reducer operator.add: the last write wins.
LastReview(v, review) == <<review>>

AddReview(v, review) == Append(v.review_history, review)

request_human_review(v, d) ==
    [v EXCEPT !.review_approved = CASE d.action = "APPROVE" -> "yes"
                                    [] d.action = "CANCEL" -> "no"
                                    [] OTHER -> "none",
              !.review_decision = d.action,
              !.review_history = AddReview(v, Review(d.action, d.number, v.review_round))]

\* A faulty final status that WorkflowStatus does not have.
FinalizeAsDone(v) == [v EXCEPT !.status = "DONE", !.result = "approved"]

finalize_case(v) == [v EXCEPT !.status = "COMPLETED", !.result = "approved"]

\* A faulty reanalysis that keeps the round; another one that keeps the summary.
ReanalyzeInPlace(v) ==
    [v EXCEPT !.status = "WAITING_REVIEW", !.summary = Summary(v.review_round, v.evidence_count)]
ReanalyzeSilently(v) == [v EXCEPT !.status = "WAITING_REVIEW", !.review_round = @ + 1]

reanalyze_case(v) ==
    [v EXCEPT !.status = "WAITING_REVIEW",
              !.review_round = @ + 1,
              !.summary = Summary(v.review_round + 1, v.evidence_count)]

\* A faulty marking that leaves the status to the next node.
MarkResultOnly(v) == [v EXCEPT !.result = "waiting"]

mark_evidence_required(v) == [v EXCEPT !.status = "WAITING_EVIDENCE", !.result = "waiting"]

await_evidence(v, d) ==
    [v EXCEPT !.status = "PREPARING",
              !.evidence_count = d.count,
              !.review_round = @ + 1,
              !.review_history =
                  AddReview(v, Review("EVIDENCE_READY", d.number, v.review_round + 1))]

\* A faulty comparison, off by one.
LimitPassed(v) == v.review_decision = "REANALYZE" /\ v.review_round > MaxRounds

LimitReached(v) == v.review_decision = "REANALYZE" /\ v.review_round >= MaxRounds

\* A faulty ending that takes every cancellation for a decision.
CancelByDecision(v) == [v EXCEPT !.status = "CANCELLED", !.result = "terminated"]

cancel_case(v) ==
    [v EXCEPT !.status = "CANCELLED",
              !.result = IF LimitReached(v) THEN "limit" ELSE "terminated"]

Run(node, v, d) ==
    CASE node = "prepare_case"           -> prepare_case(v)
      [] node = "human_review"           -> request_human_review(v, d)
      [] node = "reanalyze_case"         -> reanalyze_case(v)
      [] node = "mark_evidence_required" -> mark_evidence_required(v)
      [] node = "await_evidence"         -> await_evidence(v, d)
      [] node = "finalize_case"          -> finalize_case(v)
      [] node = "cancel_case"            -> cancel_case(v)

route_review_decision(v) ==
    CASE LimitReached(v) \/ v.review_decision = "CANCEL" -> "cancel_case"
      [] v.review_decision = "REANALYZE" /\ ~LimitReached(v) -> "reanalyze_case"
      [] v.review_decision = "APPROVE" -> "finalize_case"
      [] v.review_decision = "REQUEST_EVIDENCE" -> "mark_evidence_required"

\* A faulty edge: new evidence goes to the reviewer unprepared.
SuccessorUnprepared(node, v) ==
    CASE node \in {"prepare_case", "reanalyze_case", "await_evidence"} -> "human_review"
      [] node = "human_review" -> route_review_decision(v)
      [] node = "mark_evidence_required" -> "await_evidence"
      [] node \in {"finalize_case", "cancel_case"} -> "END"

\* The edges of build_case_workflow; v is the state the node left.
Successor(node, v) ==
    CASE node \in {"prepare_case", "reanalyze_case"} -> "human_review"
      [] node = "human_review" -> route_review_decision(v)
      [] node = "mark_evidence_required" -> "await_evidence"
      [] node = "await_evidence" -> "prepare_case"
      [] node \in {"finalize_case", "cancel_case"} -> "END"

\* The actions a pause can make use of: the router rejects EVIDENCE_READY with a
\* ValueError, and only EVIDENCE_READY brings the evidence_count await_evidence reads.
Allowed(node) == IF node = "human_review" THEN ReviewActions ELSE {"EVIDENCE_READY"}

-----------------------------------------------------------------------------
(* The requests *)

\* start: the evidence is counted, then the graph is invoked on a new thread.
StartWorkflow(r) ==
    /\ saved.next = "absent"
    /\ \A q \in Requests : req[q].pc = "idle"
    /\ req' = [req EXCEPT ![r].pc = "open", ![r].count = evidence]
    /\ UNCHANGED <<saved, known, evidence, asked, accepted, faults>>

\* A checkpoint becomes the latest of the thread, and the state r goes on with.
Save(r, values, next) ==
    LET checkpoint == Checkpoint(saved.id + 1, values, next)
    IN  /\ saved' = checkpoint
        /\ req' = [req EXCEPT ![r].mem = checkpoint, ![r].pc = "run",
                              ![r].action = "none"]

OpenThread(r) ==
    /\ req[r].pc = "open"
    /\ Save(r, InitialState(req[r].count), "prepare_case")
    /\ UNCHANGED <<known, evidence, asked, accepted, faults>>

\* resume: the checks on the snapshot. A request they turn away ends with 409.
Acceptable(action) == saved.interrupt /\ action \in Allowed(saved.next)

\* The body of a resume request: a decision, or the older field approved.
Bodies ==
    [decision : Actions, approved : {"yes", "no", "none"}]
        \cup [decision : {"none"}, approved : {"yes", "no"}]

resolved_decision(body) ==
    CASE body.decision # "none" -> body.decision
      [] body.decision = "none" /\ body.approved = "yes" -> "APPROVE"
      [] body.decision = "none" /\ body.approved = "no" -> "CANCEL"

CheckResume(r) ==
    /\ known
    /\ req[r].pc = "idle"
    /\ asked < MaxResumes
    /\ \E action \in {resolved_decision(body) : body \in Bodies} :
         /\ Acceptable(action)
         /\ req' = [req EXCEPT ![r].number = asked + 1, ![r].action = action,
                               ![r].pc = IF action = "EVIDENCE_READY" THEN "count" ELSE "invoke"]
    /\ asked' = asked + 1
    /\ UNCHANGED <<saved, known, evidence, accepted, faults>>

CountEvidence(r) ==
    /\ req[r].pc = "count"
    /\ req' = [req EXCEPT ![r].pc = "invoke", ![r].count = evidence]
    /\ UNCHANGED <<saved, known, evidence, asked, accepted, faults>>

\* ainvoke(Command(resume=...)) loads whatever checkpoint is the latest by now.
LoadCheckpoint(r) ==
    /\ req[r].pc = "invoke"
    /\ req' = [req EXCEPT ![r].pc = "run", ![r].mem = saved]
    /\ UNCHANGED <<saved, known, evidence, asked, accepted, faults>>

Resumed(r) == req[r].action # "none"

\* The node runs and its checkpoint is saved; a decision is used up by then.
RunNode(r) ==
    /\ req[r].pc = "run"
    /\ req[r].mem.next \in Nodes
    /\ req[r].mem.next \in Pauses => req[r].action \in Allowed(req[r].mem.next)
    /\ LET values == Run(req[r].mem.next, req[r].mem.values, req[r])
       IN  Save(r, values, Successor(req[r].mem.next, values))
    /\ UNCHANGED <<known, evidence, asked, accepted, faults>>

\* A decision the node cannot use: its exception ends the request with a 500.
NodeFails(r) ==
    /\ req[r].pc = "run"
    /\ req[r].mem.next \in Pauses
    /\ Resumed(r) /\ req[r].action \notin Allowed(req[r].mem.next)
    /\ req' = [req EXCEPT ![r] = IdleRequest]
    /\ UNCHANGED <<saved, known, evidence, asked, accepted, faults>>

\* interrupt() without a decision: the question belongs to the checkpoint r holds.
Interrupt(r) ==
    /\ req[r].pc = "run"
    /\ req[r].mem.next \in Pauses /\ ~Resumed(r)
    /\ saved' = [saved EXCEPT !.interrupt = @ \/ saved.id = req[r].mem.id]
    /\ req' = [req EXCEPT ![r].pc = "respond"]
    /\ UNCHANGED <<known, evidence, asked, accepted, faults>>

ReachEnd(r) ==
    /\ req[r].pc = "run"
    /\ req[r].mem.next = "END"
    /\ req' = [req EXCEPT ![r].pc = "respond"]
    /\ UNCHANGED <<saved, known, evidence, asked, accepted, faults>>

\* 201 with the thread_id, or 200.
Respond(r) ==
    /\ req[r].pc = "respond"
    /\ req' = [req EXCEPT ![r] = IdleRequest]
    /\ known' = TRUE
    /\ accepted' = IF req[r].number = 0 THEN accepted ELSE accepted \cup {req[r].number}
    /\ UNCHANGED <<saved, evidence, asked, faults>>

\* A call of the checkpointer or of the database raises, between any two steps of r:
\* the request ends with a 500, the process and the other requests go on.
CallFails(r) ==
    /\ failures < MaxFailures
    /\ req[r].pc # "idle"
    /\ failures' = failures + 1
    /\ cut' = (cut \/ req[r].pc = "run")
    /\ req' = [req EXCEPT ![r] = IdleRequest]
    /\ UNCHANGED <<saved, known, evidence, asked, accepted, crashes>>

-----------------------------------------------------------------------------
\* Uploads and deletions of evidence of the case, at any time.
EvidenceChanges ==
    /\ evidence' \in {evidence + 1, evidence - 1} \cap (0 .. MaxEvidence)
    /\ UNCHANGED <<saved, req, known, asked, accepted, faults>>

\* The backend dies: the invocations are gone, the checkpoints stay.
Crash ==
    /\ crashes < MaxCrashes
    /\ \E r \in Requests : req[r].pc # "idle"
    /\ crashes' = crashes + 1
    /\ cut' = (cut \/ \E r \in Requests : req[r].pc = "run")
    /\ req' = [r \in Requests |-> IdleRequest]
    /\ UNCHANGED <<saved, known, evidence, asked, accepted, failures>>

Handle(r) ==
    OpenThread(r) \/ CountEvidence(r) \/ LoadCheckpoint(r) \/ RunNode(r) \/ NodeFails(r)
        \/ Interrupt(r) \/ ReachEnd(r) \/ Respond(r)

\* Nobody decides anything for now.
Quiet ==
    /\ \A r \in Requests : req[r].pc = "idle"
    /\ UNCHANGED vars

Next ==
    \/ \E r \in Requests : StartWorkflow(r) \/ CheckResume(r) \/ Handle(r) \/ CallFails(r)
    \/ EvidenceChanges
    \/ Crash
    \/ Quiet

\* A handler runs on until it has answered. Nobody has to send a request.
Spec == Init /\ [][Next]_vars /\ \A r \in Requests : WF_vars(Handle(r))

-----------------------------------------------------------------------------
History == saved.values.review_history

Entries(action) == {i \in DOMAIN History : History[i].action = action}

(* Each variable holds what the state schema and the handlers allow.          *)
TypeOK ==
    LET Values == [status : Statuses, summary : Nat \X Nat, evidence_count : 0 .. MaxEvidence,
                   review_approved : {"yes", "no", "none"},
                   review_decision : ReviewActions \cup {"none"}, review_round : Nat \ {0},
                   review_history : Seq([action : Actions, number : 1 .. MaxResumes, round : Nat]),
                   result : {"none", "approved", "waiting", "limit", "terminated"}]
        Saved == [id : Nat, values : Values, next : Nodes \cup {"END", "absent"},
                  interrupt : BOOLEAN]
    IN  /\ saved \in Saved
        /\ req \in [Requests -> [pc : {"idle", "open", "count", "invoke", "run", "respond"},
                                 number : 0 .. MaxResumes, action : Actions \cup {"none"},
                                 count : 0 .. MaxEvidence, mem : Saved]]
        /\ known \in BOOLEAN
        /\ evidence \in 0 .. MaxEvidence
        /\ asked \in 0 .. MaxResumes
        /\ accepted \subseteq 1 .. MaxResumes
        /\ crashes \in 0 .. MaxCrashes /\ failures \in 0 .. MaxFailures /\ cut \in BOOLEAN

(* However invocations overwrite each other's checkpoints, the latest one tells *)
(* a consistent story: the round is the first one plus every reanalysis and      *)
(* every delivery of evidence in the history, the one still to be carried out    *)
(* aside, and the history holds exactly one review of every earlier round.       *)
RoundsMatchHistory ==
    LET moves == Entries("EVIDENCE_READY")
                   \cup {i \in Entries("REANALYZE") : History[i].round < MaxRounds}
        pending == IF saved.next = "reanalyze_case" THEN 1 ELSE 0
        round == saved.values.review_round
        reviews == UNION {Entries(action) : action \in ReviewActions}
    IN  /\ round + pending = 1 + Cardinality(moves)
        /\ \A k \in 1 .. round - 1 : Cardinality({i \in reviews : History[i].round = k}) = 1

(* A case only ends as completed on an approval and only as cancelled on a      *)
(* cancellation or on a reanalysis asked for in the last round, in that very     *)
(* review, and the text of the result says which.                                *)
EndsAsDecided ==
    LET last == History[Len(History)]
    IN  /\ saved.values.status = "COMPLETED" =>
              /\ last.action = "APPROVE"
              /\ saved.values.review_approved = "yes" /\ saved.values.result = "approved"
        /\ saved.values.status = "CANCELLED" =>
              \/ last.action = "CANCEL" /\ saved.values.result = "terminated"
              \/ /\ last.action = "REANALYZE" /\ last.round >= MaxRounds
                 /\ saved.values.result = "limit"

(* The summary a reviewer is asked about is the one of this round and of the     *)
(* evidence this round was prepared with, after any number of rounds.            *)
SummaryIsCurrent ==
    saved.next = "human_review" =>
        saved.values.summary = Summary(saved.values.review_round, saved.values.evidence_count)

(* A thread that says it waits can be resumed: when no request is in flight,     *)
(* WAITING_REVIEW and WAITING_EVIDENCE come with the question they wait for, and  *)
(* PREPARING does not last.                                                      *)
WaitingIsResumable ==
    known /\ (\A r \in Requests : req[r].pc = "idle") =>
        \/ saved.interrupt /\ saved.next = "human_review" /\ saved.values.status = "WAITING_REVIEW"
        \/ saved.interrupt /\ saved.next = "await_evidence" /\ saved.values.status = "WAITING_EVIDENCE"
        \/ saved.next = "END" /\ saved.values.status \in {"COMPLETED", "CANCELLED"}

(* Only a request cut short while it ran the graph, by a crash or a call that    *)
(* raised, leaves a thread that cannot go on: requests that overtake each other,   *)
(* decisions a node cannot use and failures before or after the run never do.      *)
StrandedOnlyMidRun == ~cut => WaitingIsResumable

(* Unless a request was cut short while it ran the graph, every decision answered *)
(* with 200 is in the history of the thread.                                      *)
AcceptedIsRecorded ==
    ~cut => \A n \in accepted : \E i \in DOMAIN History : History[i].number = n

\* The phase and the round of the review process a checkpoint stands for.
PhaseOf(next, values) ==
    CASE next \in {"prepare_case", "human_review", "reanalyze_case"} -> "review"
      [] next \in {"mark_evidence_required", "await_evidence"} -> "evidence"
      [] next = "finalize_case" -> "completed"
      [] next = "cancel_case" -> "cancelled"
      [] next = "END" /\ values.status = "COMPLETED" -> "completed"
      [] next = "END" /\ values.status = "CANCELLED" -> "cancelled"
      [] next = "absent" -> "absent"

RoundOf(next, values) ==
    IF next = "absent" THEN 0
    ELSE values.review_round + IF next = "reanalyze_case" THEN 1 ELSE 0

Phase == PhaseOf(saved.next, saved.values)
Round == RoundOf(saved.next, saved.values)

(* Seen from its checkpoints, a thread resumed by one request at a time is the   *)
(* review process CaseReview describes.                                          *)
Process == INSTANCE CaseReview WITH phase <- Phase, round <- Round

ImplementsReview == Process!Spec

LastAction == IF History = << >> THEN "none" ELSE History[Len(History)].action
LastRound == History[Len(History)].round

Asks(node, status) ==
    saved.interrupt /\ saved.next = node /\ saved.values.status = status

Ended(status, result) ==
    saved.next = "END" /\ saved.values.status = status /\ saved.values.result = result

\* What a decision was for has come about, and a question that follows can be answered.
CarriedOut(action) ==
    /\ LastAction = action
    /\ \/ action \in {"none", "EVIDENCE_READY"} /\ Asks("human_review", "WAITING_REVIEW")
       \/ action = "REQUEST_EVIDENCE" /\ Asks("await_evidence", "WAITING_EVIDENCE")
       \/ /\ action = "REANALYZE" /\ Asks("human_review", "WAITING_REVIEW")
          /\ LastRound < MaxRounds /\ saved.values.review_round = LastRound + 1
       \/ action = "REANALYZE" /\ LastRound >= MaxRounds /\ Ended("CANCELLED", "limit")
       \/ action = "APPROVE" /\ Ended("COMPLETED", "approved")
       \/ action = "CANCEL" /\ Ended("CANCELLED", "terminated")

(* A new thread comes to its first question, and whatever is decided is carried   *)
(* out to the end or to the next question, unless a request is cut short on the way. *)
DecisionsCarriedOut ==
    \A action \in Actions \cup {"none"} :
        saved.next # "absent" /\ LastAction = action ~> CarriedOut(action) \/ cut
=============================================================================
