---------------------------- MODULE WorkflowProofs ----------------------------
(***************************************************************************)
(* Theorems about Workflow, for any number of requests, rounds, resumes and    *)
(* pieces of evidence. What a checkpoint says is kept true by every node, in     *)
(* whatever order invocations save their checkpoints.                          *)
(***************************************************************************)
EXTENDS Workflow, FiniteSetTheorems, TLAPS

Counts == 0 .. MaxEvidence

ReviewEntry == [action : Actions, number : 1 .. MaxResumes, round : Nat]

State ==
    [status : Statuses, summary : Nat \X Nat, evidence_count : Counts,
     review_approved : {"yes", "no", "none"},
     review_decision : ReviewActions \cup {"none"}, review_round : Nat \ {0},
     review_history : Seq(ReviewEntry),
     result : {"none", "approved", "waiting", "limit", "terminated"}]

SavedState == [id : Nat, values : State, next : Nodes \cup {"END", "absent"}, interrupt : BOOLEAN]

Request == [pc : {"idle", "open", "count", "invoke", "run", "respond"},
            number : 0 .. MaxResumes, action : Actions \cup {"none"},
            count : Counts, mem : SavedState]

(* What a review or a delivery of evidence carries is a number that was given.  *)
Numbered(r) == req[r].action # "none" => req[r].number \in 1 .. MaxResumes

TypeInv == TypeOK /\ \A r \in Requests : Numbered(r)

-----------------------------------------------------------------------------
(* What a checkpoint says                                                     *)

Reviewed(v) == {i \in DOMAIN v.review_history : v.review_history[i].action \in ReviewActions}

Moves(v) ==
    {i \in DOMAIN v.review_history :
        \/ v.review_history[i].action = "EVIDENCE_READY"
        \/ v.review_history[i].action = "REANALYZE" /\ v.review_history[i].round < MaxRounds}

ReviewsOf(v, k) == {i \in Reviewed(v) : v.review_history[i].round = k}

(* The round of the state, the next node and the history fit each other.        *)
RoundFits(v, next) ==
    /\ Cardinality(Moves(v)) + 1 = v.review_round + IF next = "reanalyze_case" THEN 1 ELSE 0
    /\ \A k \in 1 .. v.review_round - 1 : Cardinality(ReviewsOf(v, k)) = 1
    /\ \A i \in Reviewed(v) : v.review_history[i].round <= v.review_round
    /\ next \in {"absent", "prepare_case", "human_review"} => ReviewsOf(v, v.review_round) = {}
    /\ next \in {"reanalyze_case", "mark_evidence_required", "await_evidence"} =>
         Cardinality(ReviewsOf(v, v.review_round)) = 1

Last(v) == v.review_history[Len(v.review_history)]

Approved(v) == v.review_history # << >> /\ Last(v).action = "APPROVE" /\ v.review_approved = "yes"

Cancelled(v) ==
    /\ v.review_history # << >>
    /\ Last(v).action = v.review_decision /\ Last(v).round = v.review_round
    /\ v.review_decision = "CANCEL" \/ LimitReached(v)

(* The status of the state and the node the checkpoint leads to.               *)
StatusFits(v, next) ==
    CASE next = "human_review" ->
           /\ v.status = "WAITING_REVIEW"
           /\ v.summary = Summary(v.review_round, v.evidence_count)
      [] next = "await_evidence" -> v.status = "WAITING_EVIDENCE"
      [] next \in {"prepare_case", "absent"} -> v.status = "PREPARING"
      [] next = "reanalyze_case" ->
           /\ v.status = "WAITING_REVIEW"
           /\ v.review_round < MaxRounds
      [] next = "mark_evidence_required" -> v.status = "WAITING_REVIEW"
      [] next = "finalize_case" -> v.status = "WAITING_REVIEW" /\ Approved(v)
      [] next = "cancel_case" -> v.status = "WAITING_REVIEW" /\ Cancelled(v)
      [] next = "END" ->
           \/ v.status = "COMPLETED" /\ v.result = "approved" /\ Approved(v)
           \/ /\ v.status = "CANCELLED" /\ Cancelled(v)
              /\ v.result = IF LimitReached(v) THEN "limit" ELSE "terminated"

Fits(checkpoint) ==
    /\ StatusFits(checkpoint.values, checkpoint.next)
    /\ RoundFits(checkpoint.values, checkpoint.next)

StoryInv == Fits(saved) /\ \A r \in Requests : Fits(req[r].mem)

-----------------------------------------------------------------------------
(* Who goes on with a thread                                                  *)

\* r saved the latest checkpoint and has not come to a question yet.
Carries(r) == req[r].pc = "run" /\ req[r].mem.id = saved.id /\ req[r].action = "none"

ThreadInv ==
    /\ saved.id = 0 <=> saved.next = "absent"
    /\ known => saved.id # 0
    /\ saved.interrupt => saved.next \in Pauses
    /\ \A r \in Requests :
         /\ req[r].pc \in {"count", "invoke", "run", "respond"} => saved.id # 0
         /\ req[r].mem.id <= saved.id
         /\ req[r].mem.id = saved.id => req[r].mem.next = saved.next

CarriedInv ==
    ~cut /\ saved.next \in Nodes /\ ~saved.interrupt => \E r \in Requests : Carries(r)

-----------------------------------------------------------------------------
(* Histories                                                                  *)

IsMove(entry) ==
    \/ entry.action = "EVIDENCE_READY"
    \/ entry.action = "REANALYZE" /\ entry.round < MaxRounds

LEMMA HistorySets ==
    ASSUME NEW v \in State
    PROVE  /\ IsFiniteSet(Moves(v)) /\ Cardinality(Moves(v)) \in Nat
           /\ \A k : IsFiniteSet(ReviewsOf(v, k)) /\ Cardinality(ReviewsOf(v, k)) \in Nat
<1>1. v.review_history \in Seq(ReviewEntry)
  BY DEF State
<1>2. IsFiniteSet(DOMAIN v.review_history)
  BY <1>1, FS_Interval
<1>3. Moves(v) \subseteq DOMAIN v.review_history /\ \A k : ReviewsOf(v, k) \subseteq DOMAIN v.review_history
  BY DEF Moves, ReviewsOf, Reviewed
<1> QED
  BY <1>2, <1>3, FS_Subset, FS_CardinalityType

(* One entry more, and what it changes.                                       *)
Extends(w, v, entry) ==
    /\ w.review_history # << >> /\ Last(w) = entry
    /\ Cardinality(Moves(w)) = Cardinality(Moves(v)) + IF IsMove(entry) THEN 1 ELSE 0
    /\ \A k \in Nat : Cardinality(ReviewsOf(w, k)) = Cardinality(ReviewsOf(v, k))
                        + IF entry.action \in ReviewActions /\ entry.round = k THEN 1 ELSE 0
    /\ \A i \in Reviewed(w) :
         \/ i \in Reviewed(v) /\ w.review_history[i] = v.review_history[i]
         \/ w.review_history[i] = entry

LEMMA Appended ==
    ASSUME NEW v \in State, NEW w \in State, NEW entry \in ReviewEntry,
           w.review_history = Append(v.review_history, entry)
    PROVE  Extends(w, v, entry)
<1> DEFINE h == v.review_history
           n == Len(h) + 1
<1>1. h \in Seq(ReviewEntry) /\ w.review_history = Append(h, entry)
  BY DEF State
<1> HIDE DEF h
<1>8. Len(h) \in Nat /\ DOMAIN h = 1 .. Len(h)
  BY <1>1
<1>9. /\ Len(w.review_history) = Len(h) + 1 /\ DOMAIN w.review_history = 1 .. Len(h) + 1
      /\ w.review_history[Len(h) + 1] = entry
      /\ \A i \in 1 .. Len(h) : w.review_history[i] = h[i]
  BY <1>1
<1>2. /\ DOMAIN w.review_history = (DOMAIN h) \cup {n} /\ n \notin DOMAIN h
      /\ w.review_history[n] = entry /\ \A i \in DOMAIN h : w.review_history[i] = h[i]
      /\ Len(w.review_history) = n /\ w.review_history # << >>
  BY <1>8, <1>9
<1> HIDE DEF n
<1>3. /\ Moves(w) = IF IsMove(entry) THEN Moves(v) \cup {n} ELSE Moves(v)
      /\ n \notin Moves(v)
  <2>1. \A i : i \in Moves(w) <=> i \in Moves(v) \/ (i = n /\ IsMove(entry))
    BY <1>2 DEF Moves, IsMove, h
  <2> QED
    BY <1>2, <2>1 DEF Moves, h
<1>4. /\ Reviewed(w) = Reviewed(v) \cup (IF entry.action \in ReviewActions THEN {n} ELSE {})
      /\ Reviewed(v) \subseteq DOMAIN h
  BY <1>2 DEF Reviewed, h
<1>5. \A i \in Reviewed(w) :
         \/ i \in Reviewed(v) /\ w.review_history[i] = v.review_history[i]
         \/ w.review_history[i] = entry
  BY <1>2, <1>4 DEF h
<1>6. ASSUME NEW k \in Nat
      PROVE  Cardinality(ReviewsOf(w, k)) = Cardinality(ReviewsOf(v, k))
               + IF entry.action \in ReviewActions /\ entry.round = k THEN 1 ELSE 0
  <2>1. /\ n \notin ReviewsOf(v, k)
        /\ ReviewsOf(w, k) = IF entry.action \in ReviewActions /\ entry.round = k
                           THEN ReviewsOf(v, k) \cup {n} ELSE ReviewsOf(v, k)
    BY <1>2, <1>4 DEF ReviewsOf, h
  <2>2. Cardinality(ReviewsOf(v, k) \cup {n}) = Cardinality(ReviewsOf(v, k)) + 1
    BY <2>1, HistorySets, FS_AddElement
  <2> QED
    BY <2>1, <2>2, HistorySets
<1>7. Cardinality(Moves(w)) = Cardinality(Moves(v)) + IF IsMove(entry) THEN 1 ELSE 0
  <2>1. Cardinality(Moves(v) \cup {n}) = Cardinality(Moves(v)) + 1
    BY <1>3, HistorySets, FS_AddElement
  <2> QED
    BY <1>3, <2>1, HistorySets
<1> QED
  BY <1>2, <1>5, <1>6, <1>7 DEF Last, Extends

LEMMA EntryTypes ==
    ASSUME NEW v \in State
    PROVE  /\ v.review_round \in Nat \ {0}
           /\ \A i \in Reviewed(v) : v.review_history[i] \in ReviewEntry /\ v.review_history[i].round \in Nat
<1>1. v.review_round \in Nat \ {0} /\ v.review_history \in Seq(ReviewEntry)
  BY DEF State
<1>2. \A i \in Reviewed(v) : v.review_history[i] \in ReviewEntry
  BY <1>1 DEF Reviewed
<1> QED
  BY <1>1, <1>2 DEF ReviewEntry

LEMMA SameHistory ==
    ASSUME NEW v \in State, NEW w \in State, w.review_history = v.review_history
    PROVE  /\ Moves(w) = Moves(v) /\ Reviewed(w) = Reviewed(v) /\ Last(w) = Last(v)
           /\ \A k : ReviewsOf(w, k) = ReviewsOf(v, k)
BY DEF Moves, Reviewed, Last, ReviewsOf

-----------------------------------------------------------------------------
(* What each node makes of a state                                            *)

LEMMA PrepareFacts ==
    ASSUME NEW v \in State, NEW w, w = prepare_case(v)
    PROVE  /\ w \in State /\ w.status = "WAITING_REVIEW"
           /\ w.summary = Summary(w.review_round, w.evidence_count)
           /\ w.review_round = v.review_round /\ w.review_history = v.review_history
<1>1. Summary(v.review_round, v.evidence_count) \in Nat \X Nat
  BY WorkflowAssumption DEF State, Summary, Counts
<1> QED
  BY <1>1 DEF State, prepare_case, Statuses

LEMMA ReviewFacts ==
    ASSUME NEW v \in State, NEW d \in Request, d.action \in ReviewActions, d.number \in 1 .. MaxResumes,
           NEW w, w = request_human_review(v, d)
    PROVE  /\ w \in State /\ w.status = v.status /\ w.review_round = v.review_round
           /\ w.review_decision = d.action /\ (d.action = "APPROVE" => w.review_approved = "yes")
           /\ Review(d.action, d.number, v.review_round) \in ReviewEntry
           /\ w.review_history = Append(v.review_history, Review(d.action, d.number, v.review_round))
<1>1. Review(d.action, d.number, v.review_round) \in ReviewEntry
  BY DEF State, Review, ReviewEntry, Actions
<1>2. Append(v.review_history, Review(d.action, d.number, v.review_round)) \in Seq(ReviewEntry)
  BY <1>1 DEF State
<1>3. (CASE d.action = "APPROVE" -> "yes" [] d.action = "CANCEL" -> "no" [] OTHER -> "none")
        \in {"yes", "no", "none"}
  OBVIOUS
<1> QED
  BY <1>1, <1>2, <1>3 DEF State, request_human_review, AddReview

LEMMA ReanalyzeFacts ==
    ASSUME NEW v \in State, NEW w, w = reanalyze_case(v)
    PROVE  /\ w \in State /\ w.status = "WAITING_REVIEW"
           /\ w.summary = Summary(w.review_round, w.evidence_count)
           /\ w.review_round = v.review_round + 1 /\ w.review_history = v.review_history
<1>1. Summary(v.review_round + 1, v.evidence_count) \in Nat \X Nat
  BY WorkflowAssumption DEF State, Summary, Counts
<1>2. v.review_round + 1 \in Nat \ {0} /\ "WAITING_REVIEW" \in Statuses
  BY DEF State, Statuses
<1> QED
  BY <1>1, <1>2 DEF State, reanalyze_case

LEMMA MarkFacts ==
    ASSUME NEW v \in State, NEW w, w = mark_evidence_required(v)
    PROVE  /\ w \in State /\ w.status = "WAITING_EVIDENCE"
           /\ w.review_round = v.review_round /\ w.review_history = v.review_history
BY DEF State, mark_evidence_required, Statuses

LEMMA AwaitFacts ==
    ASSUME NEW v \in State, NEW d \in Request, d.number \in 1 .. MaxResumes,
           NEW w, w = await_evidence(v, d)
    PROVE  /\ w \in State /\ w.status = "PREPARING" /\ w.review_round = v.review_round + 1
           /\ Review("EVIDENCE_READY", d.number, v.review_round + 1) \in ReviewEntry
           /\ w.review_history =
                Append(v.review_history, Review("EVIDENCE_READY", d.number, v.review_round + 1))
<1>1. Review("EVIDENCE_READY", d.number, v.review_round + 1) \in ReviewEntry
  BY DEF State, Review, ReviewEntry, Actions
<1>2. Append(v.review_history, Review("EVIDENCE_READY", d.number, v.review_round + 1)) \in Seq(ReviewEntry)
  BY <1>1 DEF State
<1>3. v.review_round + 1 \in Nat \ {0} /\ d.count \in Counts /\ "PREPARING" \in Statuses
  BY DEF State, Request, Statuses
<1> QED
  BY <1>1, <1>2, <1>3 DEF State, await_evidence, AddReview

LEMMA EndFacts ==
    ASSUME NEW v \in State, NEW w, w \in {finalize_case(v), cancel_case(v)}
    PROVE  /\ w \in State
           /\ w.review_round = v.review_round /\ w.review_history = v.review_history
           /\ w.review_decision = v.review_decision /\ w.review_approved = v.review_approved
           /\ w = finalize_case(v) => w.status = "COMPLETED" /\ w.result = "approved"
           /\ w = cancel_case(v) =>
                w.status = "CANCELLED" /\ w.result = IF LimitReached(v) THEN "limit" ELSE "terminated"
BY DEF State, finalize_case, cancel_case, Statuses

-----------------------------------------------------------------------------
(* Every node leads from a checkpoint that fits to one that fits              *)

LEMMA RoundKept ==
    ASSUME NEW v \in State, NEW w \in State, NEW from, NEW to, RoundFits(v, from),
           w.review_history = v.review_history, w.review_round = v.review_round,
           from # "reanalyze_case", to # "reanalyze_case",
           to = "human_review" => from = "prepare_case",
           to = "await_evidence" => from = "mark_evidence_required",
           to \notin {"absent", "prepare_case", "mark_evidence_required"}
    PROVE  RoundFits(w, to)
<1>1. Moves(w) = Moves(v) /\ Reviewed(w) = Reviewed(v) /\ \A k : ReviewsOf(w, k) = ReviewsOf(v, k)
  BY SameHistory
<1> QED
  BY <1>1 DEF RoundFits

LEMMA ReviewFits ==
    ASSUME NEW v \in State, RoundFits(v, "human_review"), v.status = "WAITING_REVIEW",
           NEW d \in Request, d.action \in ReviewActions, d.number \in 1 .. MaxResumes,
           NEW w, w = request_human_review(v, d)
    PROVE  LET next == route_review_decision(w)
           IN  w \in State /\ next \in Nodes /\ StatusFits(w, next) /\ RoundFits(w, next)
<1> DEFINE next == route_review_decision(w)
           entry == Review(d.action, d.number, v.review_round)
<1>1. w \in State /\ entry \in ReviewEntry /\ w.review_history = Append(v.review_history, entry)
  BY ReviewFacts
<1>2. w.review_round = v.review_round /\ v.review_round \in Nat \ {0} /\ MaxRounds \in Nat
  BY ReviewFacts, EntryTypes, WorkflowAssumption
<1>3. w.review_decision = d.action /\ (d.action = "APPROVE" => w.review_approved = "yes")
  BY ReviewFacts
<1>4. w.status = "WAITING_REVIEW"
  BY ReviewFacts
<1>5. entry.action = d.action /\ entry.round = v.review_round
  BY DEF Review
<1> HIDE DEF entry
<1>6. Extends(w, v, entry)
  BY <1>1, Appended
<1>7. /\ d.action = "APPROVE" <=> next = "finalize_case"
      /\ d.action = "REQUEST_EVIDENCE" <=> next = "mark_evidence_required"
      /\ d.action = "REANALYZE" /\ v.review_round < MaxRounds <=> next = "reanalyze_case"
      /\ d.action = "CANCEL" \/ LimitReached(w) <=> next = "cancel_case"
      /\ next \in {"finalize_case", "mark_evidence_required", "reanalyze_case", "cancel_case"}
  <2>1. LimitReached(w) <=> d.action = "REANALYZE" /\ ~(v.review_round < MaxRounds)
    BY <1>2, <1>3 DEF LimitReached
  <2>2. CASE d.action = "APPROVE"
    BY <1>3, <2>1, <2>2 DEF route_review_decision
  <2>3. CASE d.action = "REQUEST_EVIDENCE"
    BY <1>3, <2>1, <2>3 DEF route_review_decision
  <2>4. CASE d.action = "CANCEL"
    BY <1>3, <2>1, <2>4 DEF route_review_decision
  <2>5. CASE d.action = "REANALYZE"
    BY <1>3, <2>1, <2>5 DEF route_review_decision
  <2> QED
    BY <2>2, <2>3, <2>4, <2>5 DEF ReviewActions
<1> HIDE DEF next
<1>8. next = "reanalyze_case" <=> IsMove(entry)
  BY <1>5, <1>7 DEF IsMove, ReviewActions
<1>9. RoundFits(w, next)
  <2>1. ReviewsOf(v, v.review_round) = {} /\ Cardinality({}) = 0
    BY FS_EmptySet DEF RoundFits
  <2>2. \A k \in Nat : Cardinality(ReviewsOf(w, k)) = Cardinality(ReviewsOf(v, k))
                          + IF k = v.review_round THEN 1 ELSE 0
    BY <1>5, <1>6 DEF Extends
  <2>3. Cardinality(ReviewsOf(w, w.review_round)) = 1
    BY <1>2, <2>1, <2>2
  <2>4. ASSUME NEW k \in 1 .. w.review_round - 1 PROVE Cardinality(ReviewsOf(w, k)) = 1
    <3>1. Cardinality(ReviewsOf(v, k)) = 1 /\ k \in Nat /\ k # v.review_round
      BY <1>2 DEF RoundFits
    <3> QED
      BY <2>2, <3>1
  <2>5. ASSUME NEW i \in Reviewed(w) PROVE w.review_history[i].round <= w.review_round
    <3>1. CASE i \in Reviewed(v) /\ w.review_history[i] = v.review_history[i]
      BY <1>2, <3>1 DEF RoundFits
    <3>2. CASE w.review_history[i] = entry
      BY <1>2, <1>5, <3>2
    <3> QED
      BY <1>6, <3>1, <3>2 DEF Extends
  <2>6. Cardinality(Moves(w)) + 1 = w.review_round + IF next = "reanalyze_case" THEN 1 ELSE 0
    <3>1. Cardinality(Moves(v)) \in Nat /\ Cardinality(Moves(v)) + 1 = v.review_round
      BY <1>2, HistorySets DEF RoundFits
    <3>2. Cardinality(Moves(w)) = Cardinality(Moves(v)) + IF IsMove(entry) THEN 1 ELSE 0
      BY <1>6 DEF Extends
    <3> QED
      BY <1>2, <1>8, <3>1, <3>2
  <2> QED
    BY <1>7, <2>3, <2>4, <2>5, <2>6 DEF RoundFits
<1>10. StatusFits(w, next)
  <2>1. w.review_history # << >> /\ Last(w) = entry
    BY <1>6 DEF Extends
  <2>2. CASE next = "finalize_case"
    BY <1>3, <1>4, <1>5, <1>7, <2>1, <2>2 DEF StatusFits, Approved
  <2>3. CASE next = "cancel_case"
    <3>1. Cancelled(w)
      BY <1>2, <1>3, <1>5, <1>7, <2>1, <2>3 DEF Cancelled
    <3> QED
      BY <1>4, <2>3, <3>1 DEF StatusFits
  <2>4. CASE next = "mark_evidence_required"
    BY <1>4, <2>4 DEF StatusFits
  <2>5. CASE next = "reanalyze_case"
    BY <1>2, <1>4, <1>7, <2>5 DEF StatusFits
  <2> QED
    BY <1>7, <2>2, <2>3, <2>4, <2>5
<1> QED
  BY <1>1, <1>7, <1>9, <1>10 DEF next, Nodes

LEMMA ReanalyzeFits ==
    ASSUME NEW v \in State, RoundFits(v, "reanalyze_case"), NEW w, w = reanalyze_case(v)
    PROVE  w \in State /\ StatusFits(w, "human_review") /\ RoundFits(w, "human_review")
<1>1. w \in State /\ w.review_history = v.review_history
  BY ReanalyzeFacts
<1>2. w.review_round = v.review_round + 1 /\ v.review_round \in Nat \ {0}
  BY ReanalyzeFacts, EntryTypes
<1>3. /\ Moves(w) = Moves(v) /\ Reviewed(w) = Reviewed(v) /\ \A k : ReviewsOf(w, k) = ReviewsOf(v, k)
  BY <1>1, SameHistory
<1>4. Cardinality(Moves(w)) + 1 = w.review_round
  BY <1>2, <1>3, HistorySets DEF RoundFits
<1>5. ASSUME NEW i \in Reviewed(w) PROVE w.review_history[i].round < w.review_round
  <2>1. w.review_history[i].round <= v.review_round /\ w.review_history[i].round \in Nat
    BY <1>1, <1>3, EntryTypes DEF RoundFits
  <2> QED
    BY <1>2, <2>1
<1>6. \A i \in Reviewed(w) : w.review_history[i].round <= w.review_round
  BY <1>1, <1>5, EntryTypes
<1>7. ReviewsOf(w, w.review_round) = {}
  BY <1>1, <1>5, EntryTypes DEF ReviewsOf
<1>8. ASSUME NEW k \in 1 .. w.review_round - 1 PROVE Cardinality(ReviewsOf(w, k)) = 1
  BY <1>2, <1>3 DEF RoundFits
<1>9. StatusFits(w, "human_review")
  BY ReanalyzeFacts DEF StatusFits
<1> QED
  BY <1>1, <1>2, <1>4, <1>6, <1>7, <1>8, <1>9 DEF RoundFits

LEMMA AwaitFits ==
    ASSUME NEW v \in State, RoundFits(v, "await_evidence"),
           NEW d \in Request, d.number \in 1 .. MaxResumes,
           NEW w, w = await_evidence(v, d)
    PROVE  w \in State /\ StatusFits(w, "prepare_case") /\ RoundFits(w, "prepare_case")
<1> DEFINE entry == Review("EVIDENCE_READY", d.number, v.review_round + 1)
<1>1. w \in State /\ entry \in ReviewEntry /\ w.review_history = Append(v.review_history, entry)
  BY AwaitFacts
<1>2. w.review_round = v.review_round + 1 /\ v.review_round \in Nat \ {0}
  BY AwaitFacts, EntryTypes
<1>3. entry.action \notin ReviewActions /\ IsMove(entry)
  BY DEF Review, ReviewActions, IsMove
<1> HIDE DEF entry
<1>4. Extends(w, v, entry)
  BY <1>1, Appended
<1>5. \A i \in Reviewed(w) : i \in Reviewed(v) /\ w.review_history[i] = v.review_history[i]
  BY <1>3, <1>4 DEF Reviewed, Extends
<1>6. \A k \in Nat : Cardinality(ReviewsOf(w, k)) = Cardinality(ReviewsOf(v, k))
  BY <1>3, <1>4, HistorySets DEF Extends
<1>7. Cardinality(Moves(w)) + 1 = w.review_round
  <2>1. Cardinality(Moves(v)) \in Nat /\ Cardinality(Moves(v)) + 1 = v.review_round
    BY <1>2, HistorySets DEF RoundFits
  <2>2. Cardinality(Moves(w)) = Cardinality(Moves(v)) + 1
    BY <1>3, <1>4 DEF Extends
  <2> QED
    BY <1>2, <2>1, <2>2
<1>8. ASSUME NEW i \in Reviewed(w) PROVE w.review_history[i].round < w.review_round
  <2>1. w.review_history[i].round <= v.review_round /\ w.review_history[i].round \in Nat
    BY <1>1, <1>5, EntryTypes DEF RoundFits
  <2> QED
    BY <1>2, <2>1
<1>9. w \in State
  BY <1>1
<1>10. \A i \in Reviewed(w) : w.review_history[i].round <= w.review_round
  BY <1>8, <1>9, EntryTypes
<1>11. ReviewsOf(w, w.review_round) = {}
  BY <1>8, <1>9, EntryTypes DEF ReviewsOf
<1>12. ASSUME NEW k \in 1 .. w.review_round - 1 PROVE Cardinality(ReviewsOf(w, k)) = 1
  <2>1. Cardinality(ReviewsOf(v, k)) = 1
    <3>1. CASE k = v.review_round
      BY <3>1 DEF RoundFits
    <3> QED
      BY <1>2, <3>1 DEF RoundFits
  <2> QED
    BY <1>2, <1>6, <2>1
<1>13. StatusFits(w, "prepare_case")
  BY AwaitFacts DEF StatusFits
<1> QED
  BY <1>2, <1>7, <1>10, <1>11, <1>12, <1>13, <1>9 DEF RoundFits

(* What the invocation d makes of the checkpoint, one node further.             *)
Usable(checkpoint, d) ==
    checkpoint.next \in Pauses =>
        d.action \in Allowed(checkpoint.next) /\ d.number \in 1 .. MaxResumes

LEMMA NodeFits ==
    ASSUME NEW from \in SavedState, Fits(from), from.next \in Nodes,
           NEW d \in Request, Usable(from, d),
           NEW w, w = Run(from.next, from.values, d),
           NEW next, next = Successor(from.next, w)
    PROVE  w \in State /\ next \in Nodes \cup {"END"} /\ StatusFits(w, next) /\ RoundFits(w, next)
<1> DEFINE v == from.values
<1>1. v \in State
  BY DEF SavedState
<1>2. StatusFits(v, from.next) /\ RoundFits(v, from.next)
  BY DEF Fits
<1> HIDE DEF v
<1>3. CASE from.next = "prepare_case"
  <2>1. w = prepare_case(v) /\ next = "human_review"
    BY <1>3 DEF Run, Successor, v
  <2>2. w \in State /\ StatusFits(w, next)
    BY <1>1, <2>1, PrepareFacts DEF StatusFits
  <2>3. w.review_round = v.review_round /\ w.review_history = v.review_history
    BY <1>1, <2>1, PrepareFacts
  <2>4. RoundFits(w, next)
    BY <1>1, <1>2, <1>3, <2>1, <2>2, <2>3, RoundKept
  <2> QED
    BY <2>1, <2>2, <2>4 DEF Nodes, Pauses
<1>4. CASE from.next = "human_review"
  <2>1. w = request_human_review(v, d) /\ next = route_review_decision(w)
    BY <1>4 DEF Run, Successor, v
  <2>2. d.action \in ReviewActions /\ d.number \in 1 .. MaxResumes
    BY <1>4 DEF Usable, Allowed, Pauses
  <2>3. v.status = "WAITING_REVIEW" /\ RoundFits(v, "human_review")
    BY <1>2, <1>4 DEF StatusFits
  <2> QED
    BY <1>1, <2>1, <2>2, <2>3, ReviewFits
<1>5. CASE from.next = "reanalyze_case"
  <2>1. w = reanalyze_case(v) /\ next = "human_review"
    BY <1>5 DEF Run, Successor, v
  <2> QED
    BY <1>1, <1>2, <1>5, <2>1, ReanalyzeFits DEF Nodes, Pauses
<1>6. CASE from.next = "mark_evidence_required"
  <2>1. w = mark_evidence_required(v) /\ next = "await_evidence"
    BY <1>6 DEF Run, Successor, v
  <2>2. w \in State /\ StatusFits(w, next)
    BY <1>1, <2>1, MarkFacts DEF StatusFits
  <2>3. w.review_round = v.review_round /\ w.review_history = v.review_history
    BY <1>1, <2>1, MarkFacts
  <2>4. RoundFits(w, next)
    BY <1>1, <1>2, <1>6, <2>1, <2>2, <2>3, RoundKept
  <2> QED
    BY <2>1, <2>2, <2>4 DEF Nodes, Pauses
<1>7. CASE from.next = "await_evidence"
  <2>1. w = await_evidence(v, d) /\ next = "prepare_case"
    BY <1>7 DEF Run, Successor, v
  <2>2. d.number \in 1 .. MaxResumes
    BY <1>7 DEF Usable, Allowed, Pauses
  <2> QED
    BY <1>1, <1>2, <1>7, <2>1, <2>2, AwaitFits DEF Nodes
<1>8. CASE from.next \in {"finalize_case", "cancel_case"}
  <2>1. w = (IF from.next = "finalize_case" THEN finalize_case(v) ELSE cancel_case(v)) /\ next = "END"
    BY <1>8 DEF Run, Successor, v
  <2>2. w \in State /\ w.review_round = v.review_round /\ w.review_history = v.review_history
    BY <1>1, <2>1, EndFacts
  <2>3. Last(w) = Last(v) /\ w.review_decision = v.review_decision /\ w.review_approved = v.review_approved
    BY <1>1, <2>1, <2>2, EndFacts, SameHistory
  <2>4. StatusFits(w, next)
    <3>1. CASE from.next = "finalize_case"
      <4>1. Approved(w)
        BY <1>2, <2>2, <2>3, <3>1 DEF StatusFits, Approved
      <4>2. w.status = "COMPLETED" /\ w.result = "approved"
        BY <1>1, <2>1, <3>1, EndFacts
      <4> QED
        BY <2>1, <4>1, <4>2 DEF StatusFits
    <3>2. CASE from.next = "cancel_case"
      <4>1. Cancelled(w) /\ LimitReached(w) = LimitReached(v)
        BY <1>2, <2>2, <2>3, <3>2 DEF StatusFits, Cancelled, LimitReached
      <4>2. w.status = "CANCELLED" /\ w.result = IF LimitReached(v) THEN "limit" ELSE "terminated"
        BY <1>1, <2>1, <3>2, EndFacts
      <4> QED
        BY <2>1, <4>1, <4>2 DEF StatusFits
    <3> QED
      BY <1>8, <3>1, <3>2
  <2>5. RoundFits(w, next)
    BY <1>1, <1>2, <1>8, <2>1, <2>2, RoundKept
  <2> QED
    BY <2>1, <2>2, <2>4, <2>5
<1> QED
  BY <1>3, <1>4, <1>5, <1>6, <1>7, <1>8 DEF Nodes, Pauses

-----------------------------------------------------------------------------
(* The variables, one request at a time                                       *)

Typed ==
    /\ saved \in SavedState
    /\ req \in [Requests -> Request]
    /\ known \in BOOLEAN
    /\ evidence \in Counts
    /\ asked \in 0 .. MaxResumes
    /\ accepted \subseteq 1 .. MaxResumes
    /\ crashes \in 0 .. MaxCrashes /\ failures \in 0 .. MaxFailures /\ cut \in BOOLEAN

LEMMA Types == TypeOK <=> Typed
BY DEF TypeOK, Typed, SavedState, Request, State, ReviewEntry, Counts

LEMMA Nowhere ==
    /\ Absent \in SavedState /\ IdleRequest \in Request
    /\ Absent.id = 0 /\ Absent.next = "absent" /\ Absent.interrupt = FALSE
    /\ IdleRequest.mem = Absent /\ IdleRequest.pc = "idle" /\ IdleRequest.action = "none"
<1>1. /\ Absent.id = 0 /\ Absent.next = "absent" /\ Absent.interrupt = FALSE
      /\ IdleRequest.mem = Absent /\ IdleRequest.pc = "idle" /\ IdleRequest.action = "none"
  BY DEF Absent, Checkpoint, IdleRequest
<1>2. ASSUME NEW count \in Counts PROVE InitialState(count) \in State
  BY WorkflowAssumption DEF InitialState, State, Statuses
<1>3. 0 \in Counts
  BY WorkflowAssumption DEF Counts
<1>4. Absent \in SavedState
  BY <1>2, <1>3 DEF Absent, Checkpoint, SavedState
<1>5. IdleRequest \in Request
  BY <1>3, <1>4, WorkflowAssumption DEF IdleRequest, Request
<1> QED
  BY <1>1, <1>4, <1>5

(* A new thread tells a consistent story.                                      *)
LEMMA BeginningFits ==
    ASSUME NEW count \in Counts, NEW next \in {"absent", "prepare_case"}
    PROVE  /\ InitialState(count) \in State
           /\ StatusFits(InitialState(count), next) /\ RoundFits(InitialState(count), next)
<1> DEFINE v == InitialState(count)
<1>1. v \in State
  BY WorkflowAssumption DEF InitialState, State, Statuses
<1>2. v.status = "PREPARING" /\ v.review_round = 1 /\ v.review_history = << >>
  BY DEF InitialState
<1> HIDE DEF v
<1>3. Moves(v) = {} /\ Reviewed(v) = {} /\ ReviewsOf(v, v.review_round) = {}
  BY <1>2 DEF Moves, Reviewed, ReviewsOf
<1>4. Cardinality({}) = 0
  BY FS_EmptySet
<1>5. RoundFits(v, next)
  BY <1>2, <1>3, <1>4 DEF RoundFits
<1>6. StatusFits(v, next)
  BY <1>2 DEF StatusFits
<1> QED
  BY <1>1, <1>5, <1>6 DEF v

(* Only r moves.                                                              *)
Others(r) == \A q \in Requests : q # r => req'[q] = req[q]

LEMMA OneMoves ==
    ASSUME Typed, NEW r \in Requests, NEW x \in Request, req' = [req EXCEPT ![r] = x]
    PROVE  req' \in [Requests -> Request] /\ req'[r] = x /\ Others(r)
BY DEF Typed, Others

LEMMA StartFacts ==
    ASSUME Typed, NEW r \in Requests, StartWorkflow(r)
    PROVE  /\ req' \in [Requests -> Request] /\ Others(r)
           /\ req'[r].pc = "open" /\ req'[r].mem = req[r].mem
           /\ req'[r].action = req[r].action /\ req'[r].number = req[r].number
<1> DEFINE x == [req[r] EXCEPT !.pc = "open", !.count = evidence]
<1>1. req[r] \in Request /\ evidence \in Counts
  BY DEF Typed
<1>2. x \in Request
  BY <1>1 DEF Request
<1>3. /\ x.pc = "open" /\ x.mem = req[r].mem
      /\ x.action = req[r].action /\ x.number = req[r].number
  BY <1>1 DEF Request
<1>4. req' = [req EXCEPT ![r] = x]
  BY DEF Typed, StartWorkflow
<1> QED
  BY <1>2, <1>3, <1>4, OneMoves

LEMMA SaveFacts ==
    ASSUME Typed, NEW r \in Requests, NEW values \in State, NEW next \in Nodes \cup {"END"},
           Save(r, values, next)
    PROVE  /\ req' \in [Requests -> Request] /\ Others(r)
           /\ saved' \in SavedState /\ saved'.id = saved.id + 1 /\ saved.id \in Nat
           /\ saved'.values = values /\ saved'.next = next /\ saved'.interrupt = FALSE
           /\ req'[r].pc = "run" /\ req'[r].mem = saved' /\ req'[r].action = "none"
<1> DEFINE checkpoint == Checkpoint(saved.id + 1, values, next)
           x == [req[r] EXCEPT !.mem = checkpoint, !.pc = "run", !.action = "none"]
<1>1. req[r] \in Request /\ saved.id \in Nat
  BY DEF Typed, SavedState
<1>2. /\ checkpoint.id = saved.id + 1 /\ checkpoint.values = values
      /\ checkpoint.next = next /\ checkpoint.interrupt = FALSE
  BY DEF Checkpoint
<1>3. checkpoint \in SavedState
  BY <1>1 DEF Checkpoint, SavedState
<1>4. saved' = checkpoint
  BY DEF Save
<1>5. req' = [req EXCEPT ![r] = x]
  BY DEF Save, Typed
<1> HIDE DEF checkpoint
<1>6. x \in Request
  BY <1>1, <1>3 DEF Request
<1>7. x.pc = "run" /\ x.mem = checkpoint /\ x.action = "none"
  BY <1>1 DEF Request
<1> QED
  BY <1>1, <1>2, <1>3, <1>4, <1>5, <1>6, <1>7, OneMoves

LEMMA CheckFacts ==
    ASSUME Typed, NEW r \in Requests, CheckResume(r)
    PROVE  /\ req' \in [Requests -> Request] /\ Others(r)
           /\ req'[r].pc \in {"count", "invoke"} /\ req'[r].mem = req[r].mem
           /\ req'[r].number \in 1 .. MaxResumes
           /\ Acceptable(req'[r].action)
           /\ asked' \in 0 .. MaxResumes
<1>1. PICK action \in {resolved_decision(body) : body \in Bodies} :
         /\ Acceptable(action)
         /\ req' = [req EXCEPT ![r].number = asked + 1, ![r].action = action,
                               ![r].pc = IF action = "EVIDENCE_READY" THEN "count" ELSE "invoke"]
  BY DEF CheckResume
<1> DEFINE pc == IF action = "EVIDENCE_READY" THEN "count" ELSE "invoke"
           number == asked + 1
           x == [req[r] EXCEPT !.number = number, !.action = action, !.pc = pc]
<1>2. action \in Actions
  BY <1>1 DEF Acceptable, Allowed, Actions
<1>3. asked + 1 \in 1 .. MaxResumes /\ pc \in {"count", "invoke"}
  BY WorkflowAssumption DEF Typed, CheckResume
<1>4. req[r] \in Request
  BY DEF Typed
<1>5. req' = [req EXCEPT ![r] = x]
  BY <1>1 DEF Typed
<1>9. /\ number \in 0 .. MaxResumes /\ action \in Actions \cup {"none"}
      /\ pc \in {"idle", "open", "count", "invoke", "run", "respond"}
  BY <1>2, <1>3
<1> HIDE DEF pc, number
<1>6. x \in Request
  BY <1>4, <1>9 DEF Request
<1>7. x.pc = pc /\ x.mem = req[r].mem /\ x.number = number /\ x.action = action
  BY <1>4 DEF Request
<1>8. asked' \in 0 .. MaxResumes
  BY <1>3 DEF CheckResume
<1> QED
  BY <1>1, <1>3, <1>5, <1>6, <1>7, <1>8, OneMoves DEF number

LEMMA CountFacts ==
    ASSUME Typed, NEW r \in Requests, CountEvidence(r)
    PROVE  /\ req' \in [Requests -> Request] /\ Others(r)
           /\ req'[r].pc = "invoke" /\ req'[r].mem = req[r].mem
           /\ req'[r].action = req[r].action /\ req'[r].number = req[r].number
<1> DEFINE x == [req[r] EXCEPT !.pc = "invoke", !.count = evidence]
<1>1. req[r] \in Request /\ evidence \in Counts
  BY DEF Typed
<1>2. x \in Request
  BY <1>1 DEF Request
<1>3. /\ x.pc = "invoke" /\ x.mem = req[r].mem
      /\ x.action = req[r].action /\ x.number = req[r].number
  BY <1>1 DEF Request
<1>4. req' = [req EXCEPT ![r] = x]
  BY DEF Typed, CountEvidence
<1> QED
  BY <1>2, <1>3, <1>4, OneMoves

LEMMA LoadFacts ==
    ASSUME Typed, NEW r \in Requests, LoadCheckpoint(r)
    PROVE  /\ req' \in [Requests -> Request] /\ Others(r)
           /\ req'[r].pc = "run" /\ req'[r].mem = saved
           /\ req'[r].action = req[r].action /\ req'[r].number = req[r].number
<1> DEFINE x == [req[r] EXCEPT !.pc = "run", !.mem = saved]
<1>1. req[r] \in Request /\ saved \in SavedState
  BY DEF Typed
<1>2. x \in Request
  BY <1>1 DEF Request
<1>3. /\ x.pc = "run" /\ x.mem = saved
      /\ x.action = req[r].action /\ x.number = req[r].number
  BY <1>1 DEF Request
<1>4. req' = [req EXCEPT ![r] = x]
  BY DEF Typed, LoadCheckpoint
<1> QED
  BY <1>2, <1>3, <1>4, OneMoves

(* Interrupt and ReachEnd: the invocation is over.                            *)
LEMMA OverFacts ==
    ASSUME Typed, NEW r \in Requests, req' = [req EXCEPT ![r].pc = "respond"]
    PROVE  /\ req' \in [Requests -> Request] /\ Others(r)
           /\ req'[r].pc = "respond" /\ req'[r].mem = req[r].mem
           /\ req'[r].action = req[r].action /\ req'[r].number = req[r].number
<1> DEFINE x == [req[r] EXCEPT !.pc = "respond"]
<1>1. req[r] \in Request
  BY DEF Typed
<1>2. x \in Request
  BY <1>1 DEF Request
<1>3. /\ x.pc = "respond" /\ x.mem = req[r].mem
      /\ x.action = req[r].action /\ x.number = req[r].number
  BY <1>1 DEF Request
<1>4. req' = [req EXCEPT ![r] = x]
  BY DEF Typed
<1> QED
  BY <1>2, <1>3, <1>4, OneMoves

LEMMA IdleFacts ==
    ASSUME Typed, NEW r \in Requests, req' = [req EXCEPT ![r] = IdleRequest]
    PROVE  req' \in [Requests -> Request] /\ Others(r) /\ req'[r] = IdleRequest
BY Nowhere, OneMoves

-----------------------------------------------------------------------------
(* One step, request by request                                               *)

(* A checkpoint that tells a consistent story is saved by r, and r goes on.     *)
Saves(r) ==
    /\ req' \in [Requests -> Request] /\ Others(r)
    /\ saved' \in SavedState /\ Fits(saved')
    /\ saved'.id = saved.id + 1 /\ saved.id \in Nat
    /\ saved'.next \in Nodes \cup {"END"} /\ saved'.interrupt = FALSE
    /\ req'[r].pc = "run" /\ req'[r].mem = saved' /\ req'[r].action = "none"

LEMMA OpenSaves ==
    ASSUME Typed, NEW r \in Requests, OpenThread(r)
    PROVE  Saves(r)
<1>1. req[r].count \in Counts
  BY DEF Typed, Request
<1>2. /\ InitialState(req[r].count) \in State
      /\ StatusFits(InitialState(req[r].count), "prepare_case")
      /\ RoundFits(InitialState(req[r].count), "prepare_case")
  BY <1>1, BeginningFits
<1>3. Save(r, InitialState(req[r].count), "prepare_case") /\ "prepare_case" \in Nodes \cup {"END"}
  BY DEF OpenThread, Nodes
<1>4. /\ req' \in [Requests -> Request] /\ Others(r)
      /\ saved' \in SavedState /\ saved'.id = saved.id + 1 /\ saved.id \in Nat
      /\ saved'.values = InitialState(req[r].count) /\ saved'.next = "prepare_case"
      /\ saved'.interrupt = FALSE
      /\ req'[r].pc = "run" /\ req'[r].mem = saved' /\ req'[r].action = "none"
  BY <1>2, <1>3, SaveFacts
<1> QED
  BY <1>2, <1>3, <1>4 DEF Saves, Fits

LEMMA RunSaves ==
    ASSUME Typed, StoryInv, NEW r \in Requests, Numbered(r), RunNode(r)
    PROVE  Saves(r)
<1>1. PICK values : /\ values = Run(req[r].mem.next, req[r].mem.values, req[r])
                    /\ Save(r, values, Successor(req[r].mem.next, values))
  BY DEF RunNode
<1>2. PICK next : next = Successor(req[r].mem.next, values)
  OBVIOUS
<1>3. /\ req[r] \in Request /\ req[r].mem \in SavedState
      /\ Fits(req[r].mem) /\ req[r].mem.next \in Nodes
  BY DEF Typed, Request, StoryInv, RunNode
<1>4. Usable(req[r].mem, req[r])
  BY DEF RunNode, Numbered, Usable, Allowed, ReviewActions
<1>5. values \in State /\ next \in Nodes \cup {"END"} /\ StatusFits(values, next) /\ RoundFits(values, next)
  BY <1>1, <1>2, <1>3, <1>4, NodeFits
<1>6. /\ req' \in [Requests -> Request] /\ Others(r)
      /\ saved' \in SavedState /\ saved'.id = saved.id + 1 /\ saved.id \in Nat
      /\ saved'.values = values /\ saved'.next = next /\ saved'.interrupt = FALSE
      /\ req'[r].pc = "run" /\ req'[r].mem = saved' /\ req'[r].action = "none"
  BY <1>1, <1>2, <1>5, SaveFacts
<1> QED
  BY <1>5, <1>6 DEF Saves, Fits

(* Every other step of a request leaves the checkpoint, but for the question.   *)
Leaves(r) ==
    /\ req' \in [Requests -> Request] /\ Others(r)
    /\ saved' \in SavedState /\ saved'.id = saved.id
    /\ saved'.values = saved.values /\ saved'.next = saved.next
    /\ saved.interrupt => saved'.interrupt
    /\ saved'.interrupt => saved.interrupt \/ Interrupt(r)
    /\ req'[r].mem \in {req[r].mem, saved, Absent}
    /\ req'[r].action # "none" => req'[r].number \in 1 .. MaxResumes

LEMMA HandleLeaves ==
    ASSUME Typed, NEW r \in Requests, Numbered(r),
           \/ StartWorkflow(r) \/ CheckResume(r) \/ CountEvidence(r) \/ LoadCheckpoint(r)
           \/ NodeFails(r) \/ CallFails(r) \/ Interrupt(r) \/ ReachEnd(r) \/ Respond(r)
    PROVE  Leaves(r)
<1>1. saved \in SavedState
  BY DEF Typed
<1>2. CASE StartWorkflow(r)
  <2>1. saved' = saved
    BY <1>2 DEF StartWorkflow
  <2> QED
    BY <1>1, <1>2, <2>1, StartFacts DEF Leaves, Numbered
<1>3. CASE CheckResume(r)
  <2>1. saved' = saved
    BY <1>3 DEF CheckResume
  <2> QED
    BY <1>1, <1>3, <2>1, CheckFacts DEF Leaves
<1>4. CASE CountEvidence(r)
  <2>1. saved' = saved
    BY <1>4 DEF CountEvidence
  <2> QED
    BY <1>1, <1>4, <2>1, CountFacts DEF Leaves, Numbered
<1>5. CASE LoadCheckpoint(r)
  <2>1. saved' = saved
    BY <1>5 DEF LoadCheckpoint
  <2> QED
    BY <1>1, <1>5, <2>1, LoadFacts DEF Leaves, Numbered
<1>6. CASE NodeFails(r) \/ CallFails(r) \/ Respond(r)
  <2>1. saved' = saved /\ req' = [req EXCEPT ![r] = IdleRequest]
    BY <1>6 DEF NodeFails, CallFails, Respond
  <2> QED
    BY <1>1, <2>1, IdleFacts, Nowhere DEF Leaves
<1>7. CASE Interrupt(r)
  <2>1. saved' = [saved EXCEPT !.interrupt = @ \/ saved.id = req[r].mem.id]
    BY <1>7 DEF Interrupt
  <2>2. PICK b \in BOOLEAN : b = (saved.interrupt \/ saved.id = req[r].mem.id)
    OBVIOUS
  <2>3. saved' = [saved EXCEPT !.interrupt = b]
    BY <2>1, <2>2
  <2>4. /\ saved' \in SavedState /\ saved'.id = saved.id /\ saved'.interrupt = b
        /\ saved'.values = saved.values /\ saved'.next = saved.next
    BY <1>1, <2>3 DEF SavedState
  <2>5. req' = [req EXCEPT ![r].pc = "respond"]
    BY <1>7 DEF Interrupt
  <2> QED
    BY <1>7, <2>2, <2>4, <2>5, OverFacts DEF Leaves, Numbered
<1>8. CASE ReachEnd(r)
  <2>1. saved' = saved /\ req' = [req EXCEPT ![r].pc = "respond"]
    BY <1>8 DEF ReachEnd
  <2> QED
    BY <1>1, <2>1, OverFacts DEF Leaves, Numbered
<1> QED
  BY <1>2, <1>3, <1>4, <1>5, <1>6, <1>7, <1>8

(* The steps that are no request's.                                           *)
LEMMA OtherSteps ==
    ASSUME Typed, EvidenceChanges \/ Crash \/ Quiet \/ UNCHANGED vars
    PROVE  /\ saved' = saved /\ known' = known /\ req' \in [Requests -> Request]
           /\ \/ req' = req /\ cut' = cut
              \/ /\ ~cut' => ~cut /\ \A r \in Requests : req[r].pc # "run"
                 /\ \A r \in Requests : req'[r] = IdleRequest
<1>1. CASE Crash
  BY <1>1, Nowhere DEF Crash
<1>2. CASE EvidenceChanges \/ Quiet \/ UNCHANGED vars
  BY <1>2 DEF EvidenceChanges, Quiet, vars, faults, Typed
<1> QED
  BY <1>1, <1>2

LEMMA Cases ==
    ASSUME Typed, StoryInv, \A r \in Requests : Numbered(r), [Next]_vars
    PROVE  \/ \E r \in Requests : (OpenThread(r) \/ RunNode(r)) /\ Saves(r)
           \/ \E r \in Requests :
                /\ \/ StartWorkflow(r) \/ CheckResume(r) \/ CountEvidence(r) \/ LoadCheckpoint(r)
                   \/ NodeFails(r) \/ CallFails(r) \/ Interrupt(r) \/ ReachEnd(r) \/ Respond(r)
                /\ Leaves(r)
           \/ EvidenceChanges \/ Crash \/ Quiet \/ UNCHANGED vars
<1>1. CASE \E r \in Requests : StartWorkflow(r) \/ CheckResume(r) \/ Handle(r) \/ CallFails(r)
  <2>1. PICK r \in Requests : StartWorkflow(r) \/ CheckResume(r) \/ Handle(r) \/ CallFails(r)
    BY <1>1
  <2>2. OpenThread(r) => Saves(r)
    BY OpenSaves
  <2>3. RunNode(r) => Saves(r)
    BY RunSaves
  <2> QED
    BY <2>1, <2>2, <2>3, HandleLeaves DEF Handle
<1> QED
  BY <1>1 DEF Next

(* A thread_id nobody started tells a consistent story, too.                   *)
LEMMA AbsentFits == Fits(Absent)
<1>1. 0 \in Counts
  BY WorkflowAssumption DEF Counts
<1>2. StatusFits(InitialState(0), "absent") /\ RoundFits(InitialState(0), "absent")
  BY <1>1, BeginningFits
<1>3. Absent.values = InitialState(0) /\ Absent.next = "absent"
  BY DEF Absent, Checkpoint
<1> QED
  BY <1>2, <1>3 DEF Fits

-----------------------------------------------------------------------------
(* The invariants                                                             *)

Inv == TypeInv /\ StoryInv /\ ThreadInv /\ CarriedInv

LEMMA InitInv == Init => Inv
<1> SUFFICES ASSUME Init PROVE Inv
  OBVIOUS
<1>1. saved = Absent /\ known = FALSE /\ \A r \in Requests : req[r] = IdleRequest
  BY DEF Init
<1>2. Typed
  <2>1. req \in [Requests -> Request]
    BY Nowhere DEF Init
  <2>2. 0 \in Counts /\ 0 \in 0 .. MaxResumes /\ 0 \in 0 .. MaxCrashes /\ 0 \in 0 .. MaxFailures
    BY WorkflowAssumption DEF Counts
  <2>3. known \in BOOLEAN /\ accepted \subseteq 1 .. MaxResumes /\ cut \in BOOLEAN
    BY DEF Init
  <2> QED
    BY <1>1, <2>1, <2>2, <2>3, Nowhere DEF Init, Typed
<1>3. TypeInv
  BY <1>1, <1>2, Types, Nowhere DEF TypeInv, Numbered
<1>4. Fits(Absent)
  BY AbsentFits
<1>5. StoryInv
  BY <1>1, <1>4, Nowhere DEF StoryInv
<1>6. ThreadInv
  BY <1>1, Nowhere DEF ThreadInv
<1>7. CarriedInv
  BY <1>1, Nowhere DEF CarriedInv, Nodes, Pauses
<1> QED
  BY <1>3, <1>5, <1>6, <1>7 DEF Inv

(* The counters stay in their bounds.                                         *)
LEMMA CountersTyped ==
    ASSUME Typed, [Next]_vars
    PROVE  /\ known' \in BOOLEAN /\ evidence' \in Counts /\ asked' \in 0 .. MaxResumes
           /\ accepted' \subseteq 1 .. MaxResumes /\ crashes' \in 0 .. MaxCrashes
           /\ failures' \in 0 .. MaxFailures /\ cut' \in BOOLEAN
<1>1. /\ known \in BOOLEAN /\ evidence \in Counts /\ asked \in 0 .. MaxResumes
      /\ accepted \subseteq 1 .. MaxResumes /\ crashes \in 0 .. MaxCrashes
      /\ failures \in 0 .. MaxFailures /\ cut \in BOOLEAN
  BY DEF Typed
<1>2. ASSUME NEW r \in Requests, CheckResume(r) PROVE asked' \in 0 .. MaxResumes
  BY <1>2, CheckFacts
<1>3. ASSUME NEW r \in Requests, Respond(r) PROVE accepted' \subseteq 1 .. MaxResumes
  <2>1. req[r].number \in 0 .. MaxResumes
    BY DEF Typed, Request
  <2>2. req[r].number = 0 \/ req[r].number \in 1 .. MaxResumes
    BY <2>1, WorkflowAssumption
  <2>3. accepted' = IF req[r].number = 0 THEN accepted ELSE accepted \cup {req[r].number}
    BY <1>3 DEF Respond
  <2> QED
    BY <1>1, <2>2, <2>3
<1>4. ASSUME NEW r \in Requests, StartWorkflow(r) \/ CheckResume(r) \/ Handle(r)
      PROVE  /\ known' \in {known, TRUE} /\ evidence' = evidence /\ UNCHANGED faults
             /\ asked' = asked \/ CheckResume(r)
             /\ accepted' = accepted \/ Respond(r)
  BY <1>4 DEF StartWorkflow, CheckResume, Handle, OpenThread, CountEvidence, LoadCheckpoint,
              RunNode, NodeFails, Interrupt, ReachEnd, Respond
<1>5. CASE \E r \in Requests : CallFails(r)
  BY <1>1, <1>5, WorkflowAssumption DEF CallFails
<1>6. CASE \E r \in Requests : StartWorkflow(r) \/ CheckResume(r) \/ Handle(r)
  BY <1>1, <1>2, <1>3, <1>4, <1>6 DEF faults
<1>7. CASE EvidenceChanges
  BY <1>1, <1>7 DEF EvidenceChanges, Counts, faults
<1>8. CASE Crash
  BY <1>1, <1>8, WorkflowAssumption DEF Crash
<1>9. CASE Quiet \/ UNCHANGED vars
  BY <1>1, <1>9 DEF Quiet, vars, faults
<1> QED
  BY <1>5, <1>6, <1>7, <1>8, <1>9 DEF Next

LEMMA TypeStep ==
    ASSUME TypeInv, StoryInv, [Next]_vars
    PROVE  TypeInv'
<1>1. Typed /\ \A r \in Requests : Numbered(r)
  BY Types DEF TypeInv
<1>2. saved \in SavedState /\ req \in [Requests -> Request]
  BY <1>1 DEF Typed
<1>3. /\ saved' \in SavedState /\ req' \in [Requests -> Request]
      /\ \A q \in Requests : req'[q].action # "none" => req'[q].number \in 1 .. MaxResumes
  <2>1. CASE \E r \in Requests : Saves(r)
    BY <1>1, <2>1 DEF Saves, Others, Numbered
  <2>2. CASE \E r \in Requests : Leaves(r)
    BY <1>1, <2>2 DEF Leaves, Others, Numbered
  <2>3. CASE EvidenceChanges \/ Crash \/ Quiet \/ UNCHANGED vars
    <3>1. /\ saved' = saved /\ req' \in [Requests -> Request]
          /\ req' = req \/ \A r \in Requests : req'[r] = IdleRequest
      BY <1>1, <2>3, OtherSteps
    <3> QED
      BY <1>1, <1>2, <3>1, Nowhere DEF Numbered
  <2> QED
    BY <1>1, <2>1, <2>2, <2>3, Cases
<1>4. Typed'
  BY <1>1, <1>3, CountersTyped DEF Typed
<1>5. TypeOK'
  BY <1>4, Types, PTL
<1> QED
  BY <1>3, <1>5 DEF TypeInv, Numbered

LEMMA StoryStep ==
    ASSUME TypeInv, StoryInv, [Next]_vars
    PROVE  StoryInv'
<1>1. Typed /\ \A r \in Requests : Numbered(r)
  BY Types DEF TypeInv
<1>2. Fits(Absent)
  BY AbsentFits
<1>3. Fits(saved) /\ \A r \in Requests : Fits(req[r].mem)
  BY DEF StoryInv
<1>4. Fits(saved') /\ \A r \in Requests : Fits(req'[r].mem)
  <2>1. CASE \E r \in Requests : Saves(r)
    BY <1>3, <2>1 DEF Saves, Others
  <2>2. CASE \E r \in Requests : Leaves(r)
    <3>1. PICK r \in Requests : Leaves(r)
      BY <2>2
    <3>2. Fits(saved')
      BY <1>3, <3>1 DEF Leaves, Fits
    <3>3. \A q \in Requests : req'[q].mem \in {req[q].mem, saved, Absent}
      BY <3>1 DEF Leaves, Others
    <3> QED
      BY <1>2, <1>3, <3>2, <3>3
  <2>3. CASE EvidenceChanges \/ Crash \/ Quiet \/ UNCHANGED vars
    <3>1. saved' = saved /\ (req' = req \/ \A r \in Requests : req'[r] = IdleRequest)
      BY <1>1, <2>3, OtherSteps
    <3> QED
      BY <1>2, <1>3, <3>1, Nowhere
  <2> QED
    BY <1>1, <2>1, <2>2, <2>3, Cases
<1> QED
  BY <1>4 DEF StoryInv

(* ThreadInv, request by request.                                             *)
Placed(r) ==
    /\ req[r].pc \in {"count", "invoke", "run", "respond"} => saved.id # 0
    /\ req[r].mem.id <= saved.id
    /\ req[r].mem.id = saved.id => req[r].mem.next = saved.next

ThreadOK ==
    /\ saved.id = 0 <=> saved.next = "absent"
    /\ known => saved.id # 0
    /\ saved.interrupt => saved.next \in Pauses

LEMMA Threads == ThreadInv <=> ThreadOK /\ \A r \in Requests : Placed(r)
BY DEF ThreadInv, ThreadOK, Placed

LEMMA ThreadStep ==
    ASSUME TypeInv, StoryInv, ThreadInv, [Next]_vars
    PROVE  ThreadInv'
<1>1. Typed /\ \A r \in Requests : Numbered(r)
  BY Types DEF TypeInv
<1>2. saved.id \in Nat /\ \A r \in Requests : req[r].mem.id \in Nat
  BY <1>1 DEF Typed, SavedState, Request
<1>3. ThreadOK /\ \A r \in Requests : Placed(r)
  BY Threads
<1>4. CASE \E r \in Requests : (OpenThread(r) \/ RunNode(r)) /\ Saves(r)
  <2>1. PICK r \in Requests : (OpenThread(r) \/ RunNode(r)) /\ Saves(r)
    BY <1>4
  <2>2. saved'.id = saved.id + 1 /\ saved'.next # "absent" /\ saved'.interrupt = FALSE
    BY <2>1 DEF Saves, Nodes, Pauses
  <2>3. ThreadOK'
    BY <1>2, <2>2 DEF ThreadOK
  <2>4. Placed(r)'
    BY <1>2, <2>1, <2>2 DEF Saves, Placed
  <2>5. ASSUME NEW q \in Requests, q # r PROVE Placed(q)'
    <3>1. req'[q] = req[q]
      BY <2>1, <2>5 DEF Saves, Others
    <3>2. req[q].mem.id <= saved.id
      BY <1>3 DEF Placed
    <3> QED
      BY <1>2, <2>2, <3>1, <3>2 DEF Placed
  <2>6. \A q \in Requests : Placed(q)'
    BY <2>4, <2>5
  <2> QED
    BY <2>3, <2>6 DEF ThreadInv, ThreadOK, Placed
<1>5. CASE \E r \in Requests :
             /\ \/ StartWorkflow(r) \/ CheckResume(r) \/ CountEvidence(r) \/ LoadCheckpoint(r)
                \/ NodeFails(r) \/ CallFails(r) \/ Interrupt(r) \/ ReachEnd(r) \/ Respond(r)
             /\ Leaves(r)
  <2>1. PICK r \in Requests :
             /\ \/ StartWorkflow(r) \/ CheckResume(r) \/ CountEvidence(r) \/ LoadCheckpoint(r)
                \/ NodeFails(r) \/ CallFails(r) \/ Interrupt(r) \/ ReachEnd(r) \/ Respond(r)
             /\ Leaves(r)
    BY <1>5
  <2>2. saved'.id = saved.id /\ saved'.next = saved.next
    BY <2>1 DEF Leaves
  <2>3. Placed(r) /\ (known => saved.id # 0) /\ (saved.interrupt => saved.next \in Pauses)
    BY <1>3 DEF ThreadOK
  <2>4. known' => saved.id # 0
    <3>1. known' = known \/ req[r].pc = "respond"
      BY <2>1 DEF StartWorkflow, CheckResume, CountEvidence, LoadCheckpoint, NodeFails, CallFails,
                  Interrupt, ReachEnd, Respond
    <3> QED
      BY <2>3, <3>1 DEF Placed
  <2>5. saved'.interrupt => saved.next \in Pauses
    <3>1. CASE Interrupt(r) /\ ~saved.interrupt /\ saved'.interrupt
      <4>1. saved.id = req[r].mem.id /\ req[r].mem.next \in Pauses
        BY <1>1, <3>1 DEF Interrupt, Typed, SavedState
      <4> QED
        BY <2>3, <4>1 DEF Placed
    <3> QED
      BY <2>1, <2>3, <3>1 DEF Leaves
  <2>6. ThreadOK'
    BY <1>3, <2>2, <2>4, <2>5 DEF ThreadOK
  <2>7. Placed(r)'
    <3>1. req'[r].pc \in {"count", "invoke", "run", "respond"} => saved.id # 0
      <4>1. CASE CheckResume(r)
        BY <2>3, <4>1 DEF CheckResume
      <4>2. CASE StartWorkflow(r)
        BY <1>1, <4>2, StartFacts
      <4>3. CASE NodeFails(r) \/ CallFails(r) \/ Respond(r)
        <5>1. req'[r] = IdleRequest
          BY <1>1, <4>3, IdleFacts DEF NodeFails, CallFails, Respond
        <5> QED
          BY <5>1, Nowhere
      <4>4. CASE CountEvidence(r) \/ LoadCheckpoint(r) \/ Interrupt(r) \/ ReachEnd(r)
        BY <2>3, <4>4 DEF CountEvidence, LoadCheckpoint, Interrupt, ReachEnd, Placed
      <4> QED
        BY <2>1, <4>1, <4>2, <4>3, <4>4
    <3>2. req'[r].mem \in {req[r].mem, saved, Absent}
      BY <2>1 DEF Leaves
    <3>3. CASE req'[r].mem = req[r].mem
      BY <2>2, <2>3, <3>1, <3>3 DEF Placed
    <3>4. CASE req'[r].mem = saved
      BY <1>2, <2>2, <3>1, <3>4 DEF Placed
    <3>5. CASE req'[r].mem = Absent
      BY <1>2, <1>3, <2>2, <3>1, <3>5, Nowhere DEF Placed, ThreadOK
    <3> QED
      BY <3>2, <3>3, <3>4, <3>5
  <2>8. ASSUME NEW q \in Requests, q # r PROVE Placed(q)'
    <3>1. req'[q] = req[q] /\ Placed(q)
      BY <1>3, <2>1, <2>8 DEF Leaves, Others
    <3> QED
      BY <2>2, <3>1 DEF Placed
  <2>9. \A q \in Requests : Placed(q)'
    BY <2>7, <2>8
  <2> QED
    BY <2>6, <2>9 DEF ThreadInv, ThreadOK, Placed
<1>6. CASE EvidenceChanges \/ Crash \/ Quiet \/ UNCHANGED vars
  <2>1. /\ saved' = saved /\ known' = known
        /\ req' = req \/ \A r \in Requests : req'[r] = IdleRequest
    BY <1>1, <1>6, OtherSteps
  <2>2. ThreadOK'
    BY <1>3, <2>1 DEF ThreadOK
  <2>3. ASSUME NEW r \in Requests PROVE Placed(r)'
    <3>1. CASE req' = req
      BY <1>3, <2>1, <3>1 DEF Placed
    <3>2. CASE req'[r] = IdleRequest
      BY <1>2, <1>3, <2>1, <3>2, Nowhere DEF Placed, ThreadOK
    <3> QED
      BY <2>1, <3>1, <3>2
  <2> QED
    BY <2>2, <2>3 DEF ThreadInv, ThreadOK, Placed
<1> QED
  BY <1>1, <1>4, <1>5, <1>6, Cases DEF StoryInv

LEMMA CarriedStep ==
    ASSUME TypeInv, StoryInv, ThreadInv, CarriedInv, [Next]_vars
    PROVE  CarriedInv'
<1>1. Typed /\ \A r \in Requests : Numbered(r)
  BY Types DEF TypeInv
<1> SUFFICES ASSUME ~cut', saved'.next \in Nodes, ~saved'.interrupt
             PROVE  \E r \in Requests : Carries(r)'
  BY DEF CarriedInv, Carries
<1>3. CASE \E r \in Requests : (OpenThread(r) \/ RunNode(r)) /\ Saves(r)
  BY <1>3 DEF Saves, Carries
<1>4. CASE \E r \in Requests :
             /\ \/ StartWorkflow(r) \/ CheckResume(r) \/ CountEvidence(r) \/ LoadCheckpoint(r)
                \/ NodeFails(r) \/ CallFails(r) \/ Interrupt(r) \/ ReachEnd(r) \/ Respond(r)
             /\ Leaves(r)
  <2>1. PICK r \in Requests :
             /\ \/ StartWorkflow(r) \/ CheckResume(r) \/ CountEvidence(r) \/ LoadCheckpoint(r)
                \/ NodeFails(r) \/ CallFails(r) \/ Interrupt(r) \/ ReachEnd(r) \/ Respond(r)
             /\ Leaves(r)
    BY <1>4
  <2>2. saved'.id = saved.id /\ saved.next \in Nodes /\ ~saved.interrupt
    BY <2>1 DEF Leaves
  <2>3. ~cut /\ (CallFails(r) => req[r].pc # "run")
    <3>1. CASE CallFails(r)
      <4>1. cut' = (cut \/ req[r].pc = "run")
        BY <3>1 DEF CallFails
      <4> QED
        BY <4>1
    <3>2. CASE ~CallFails(r)
      <4>1. faults' = faults
        BY <2>1, <3>2 DEF StartWorkflow, CheckResume, CountEvidence, LoadCheckpoint, NodeFails,
                          Interrupt, ReachEnd, Respond
      <4>2. cut' = cut
        BY <4>1 DEF faults
      <4> QED
        BY <3>2, <4>2
    <3> QED
      BY <3>1, <3>2
  <2>4. PICK q \in Requests : Carries(q)
    BY <2>2, <2>3 DEF CarriedInv
  <2>5. q # r
    <3>1. CASE Interrupt(r)
      <4>1. saved.id # req[r].mem.id
        BY <1>1, <3>1 DEF Interrupt, Typed, SavedState
      <4> QED
        BY <2>4, <4>1 DEF Carries
    <3>2. CASE ReachEnd(r)
      <4>1. req[r].mem.next = "END" /\ Placed(r)
        BY <3>2, Threads DEF ReachEnd
      <4>2. req[r].mem.id # saved.id
        BY <2>2, <4>1 DEF Placed, Nodes, Pauses
      <4> QED
        BY <2>4, <4>2 DEF Carries
    <3>3. CASE NodeFails(r)
      BY <2>4, <3>3 DEF NodeFails, Resumed, Carries
    <3>4. CASE \/ StartWorkflow(r) \/ CheckResume(r) \/ CountEvidence(r) \/ LoadCheckpoint(r)
               \/ Respond(r) \/ CallFails(r)
      <4>1. req[r].pc # "run"
        BY <2>3, <3>4 DEF StartWorkflow, CheckResume, CountEvidence, LoadCheckpoint, Respond
      <4> QED
        BY <2>4, <4>1 DEF Carries
    <3> QED
      BY <2>1, <3>1, <3>2, <3>3, <3>4
  <2>6. req'[q] = req[q]
    BY <2>1, <2>5 DEF Leaves, Others
  <2> QED
    BY <2>2, <2>4, <2>6 DEF Carries
<1>5. CASE EvidenceChanges \/ Crash \/ Quiet \/ UNCHANGED vars
  <2>1. saved' = saved /\ saved.next \in Nodes /\ ~saved.interrupt
    BY <1>1, <1>5, OtherSteps
  <2>2. CASE req' = req /\ cut' = cut
    BY <2>1, <2>2 DEF CarriedInv, Carries
  <2>3. CASE ~cut /\ \A r \in Requests : req[r].pc # "run"
    BY <2>1, <2>3 DEF CarriedInv, Carries
  <2> QED
    BY <1>1, <1>5, <2>2, <2>3, OtherSteps
<1> QED
  BY <1>1, <1>3, <1>4, <1>5, Cases

THEOREM Invariant == Spec => []Inv
<1>1. Init => Inv
  BY InitInv
<1>2. Inv /\ [Next]_vars => Inv'
  <2> SUFFICES ASSUME Inv, [Next]_vars PROVE Inv'
    OBVIOUS
  <2>1. TypeInv /\ StoryInv /\ ThreadInv /\ CarriedInv
    BY DEF Inv
  <2>2. TypeInv' /\ StoryInv'
    BY <2>1, TypeStep, StoryStep
  <2>3. ThreadInv'
    BY <2>1, ThreadStep
  <2>4. CarriedInv'
    BY <2>1, CarriedStep
  <2> QED
    BY <2>2, <2>3, <2>4 DEF Inv
<1> QED
  BY <1>1, <1>2, PTL DEF Spec

-----------------------------------------------------------------------------
(* What follows                                                               *)

LEMMA SavedFacts ==
    ASSUME Inv
    PROVE  /\ saved \in SavedState /\ saved.values \in State
           /\ StatusFits(saved.values, saved.next) /\ RoundFits(saved.values, saved.next)
           /\ saved.next \in Nodes \cup {"END", "absent"}
<1>1. saved \in SavedState
  BY Types DEF Inv, TypeInv, Typed
<1> QED
  BY <1>1 DEF SavedState, Inv, StoryInv, Fits

LEMMA InvRounds == Inv => RoundsMatchHistory
<1> SUFFICES ASSUME Inv PROVE RoundsMatchHistory
  OBVIOUS
<1> DEFINE v == saved.values
           moves == Entries("EVIDENCE_READY")
                      \cup {i \in Entries("REANALYZE") : History[i].round < MaxRounds}
           reviews == UNION {Entries(action) : action \in ReviewActions}
           pending == IF saved.next = "reanalyze_case" THEN 1 ELSE 0
<1>1. v \in State /\ RoundFits(v, saved.next)
  BY SavedFacts
<1>2. moves = Moves(v)
  BY DEF Entries, History, Moves
<1>3. reviews = Reviewed(v)
  BY DEF Entries, History, Reviewed
<1>4. v.review_round + pending = 1 + Cardinality(moves)
  <2>1. Cardinality(Moves(v)) \in Nat /\ v.review_round \in Nat
    BY <1>1, EntryTypes, HistorySets
  <2>2. Cardinality(Moves(v)) + 1 = v.review_round + pending
    BY <1>1 DEF RoundFits
  <2> HIDE DEF v, pending, moves
  <2> QED
    BY <1>2, <2>1, <2>2
<1>5. ASSUME NEW k \in 1 .. v.review_round - 1
      PROVE  Cardinality({i \in reviews : History[i].round = k}) = 1
  <2>1. {i \in reviews : History[i].round = k} = ReviewsOf(v, k)
    BY <1>3 DEF ReviewsOf, History
  <2> QED
    BY <1>1, <2>1 DEF RoundFits
<1> QED
  BY <1>4, <1>5 DEF RoundsMatchHistory

LEMMA InvEnds == Inv => EndsAsDecided
<1> SUFFICES ASSUME Inv PROVE EndsAsDecided
  OBVIOUS
<1> DEFINE v == saved.values
<1>1. StatusFits(v, saved.next) /\ saved.next \in Nodes \cup {"END", "absent"}
  BY SavedFacts
<1>2. v.status \in {"COMPLETED", "CANCELLED"} => saved.next = "END"
  BY <1>1 DEF StatusFits, Nodes, Pauses
<1>3. v.status = "COMPLETED" => v.result = "approved" /\ Approved(v)
  BY <1>1, <1>2 DEF StatusFits
<1>4. v.status = "CANCELLED" =>
        Cancelled(v) /\ v.result = IF LimitReached(v) THEN "limit" ELSE "terminated"
  BY <1>1, <1>2 DEF StatusFits
<1>5. Last(v) = History[Len(History)]
  BY DEF Last, History
<1> QED
  BY <1>3, <1>4, <1>5 DEF EndsAsDecided, Approved, Cancelled, LimitReached

LEMMA InvSummary == Inv => SummaryIsCurrent
BY SavedFacts DEF SummaryIsCurrent, StatusFits

LEMMA InvStranded == Inv => StrandedOnlyMidRun
<1> SUFFICES ASSUME Inv, ~cut, known, \A r \in Requests : req[r].pc = "idle"
             PROVE  WaitingIsResumable
  BY DEF StrandedOnlyMidRun, WaitingIsResumable
<1>1. ThreadInv /\ CarriedInv
  BY DEF Inv
<1>2. saved.next # "absent" /\ (saved.interrupt => saved.next \in Pauses)
  BY <1>1 DEF ThreadInv
<1>3. ~(saved.next \in Nodes /\ ~saved.interrupt)
  BY <1>1 DEF CarriedInv, Carries
<1>4. StatusFits(saved.values, saved.next) /\ saved.next \in Nodes \cup {"END", "absent"}
  BY SavedFacts
<1>5. CASE saved.next = "END"
  BY <1>4, <1>5 DEF StatusFits, WaitingIsResumable
<1>6. CASE saved.interrupt /\ saved.next \in Pauses
  BY <1>4, <1>6 DEF StatusFits, WaitingIsResumable, Pauses
<1> QED
  BY <1>2, <1>3, <1>4, <1>5, <1>6

(* Every variable keeps its type, whatever requests, crashes and changes of the  *)
(* evidence a thread meets.                                                    *)
THEOREM TypeCorrect == Spec => []TypeOK
<1>1. Inv => TypeOK
  BY DEF Inv, TypeInv
<1> QED
  BY <1>1, Invariant, PTL

(* The review_round of the latest checkpoint and its review_history tell the same *)
(* story, with one review of every earlier round.                               *)
THEOREM RoundsMatch == Spec => []RoundsMatchHistory
BY InvRounds, Invariant, PTL

(* A case ends as its last review decided, and result names the reason.          *)
THEOREM EndsDecided == Spec => []EndsAsDecided
BY InvEnds, Invariant, PTL

(* A reviewer is always asked about the summary of the current round.            *)
THEOREM SummaryCurrent == Spec => []SummaryIsCurrent
BY InvSummary, Invariant, PTL

(* Overlapping requests alone never leave a thread nobody can resume: somebody   *)
(* always carries an unfinished checkpoint on, unless a request was cut short      *)
(* while it ran the graph.                                                       *)
THEOREM NeverStranded == Spec => []StrandedOnlyMidRun
BY InvStranded, Invariant, PTL

-----------------------------------------------------------------------------
(* One request at a time                                                      *)

OneAtATime == \E r : Requests = {r}

Recorded(v) == {v.review_history[i].number : i \in DOMAIN v.review_history}

(* With no other request, the one that runs works on the latest checkpoint.      *)
InStep(r) ==
    /\ req[r].pc \in {"idle", "open"} => req[r].number = 0 /\ req[r].action = "none"
    /\ req[r].pc = "open" => saved.next = "absent"
    /\ req[r].pc \in {"count", "invoke"} => Acceptable(req[r].action)
    /\ req[r].pc = "run" =>
         /\ req[r].mem.values = saved.values /\ req[r].mem.next = saved.next
         /\ Resumed(r) => saved.next \in Pauses /\ req[r].action \in Allowed(saved.next)
    /\ req[r].pc = "respond" => ~Resumed(r)
    /\ req[r].pc \in {"run", "respond"} /\ ~Resumed(r) =>
         req[r].number = 0 \/ req[r].number \in Recorded(saved.values)

SerialInv ==
    /\ \A r \in Requests : InStep(r)
    /\ accepted \subseteq Recorded(saved.values)
    /\ saved.next = "absent" => accepted = {}

LEMMA AppendRecords ==
    ASSUME NEW v \in State, NEW w \in State, NEW entry \in ReviewEntry,
           w.review_history = Append(v.review_history, entry)
    PROVE  Recorded(w) = Recorded(v) \cup {entry.number}
<1> DEFINE h == v.review_history
<1>1. h \in Seq(ReviewEntry) /\ w.review_history = Append(h, entry)
  BY DEF State
<1> HIDE DEF h
<1>2. Len(h) \in Nat /\ DOMAIN h = 1 .. Len(h)
  BY <1>1
<1>3. /\ DOMAIN w.review_history = 1 .. Len(h) + 1
      /\ w.review_history[Len(h) + 1] = entry
      /\ \A i \in 1 .. Len(h) : w.review_history[i] = h[i]
  BY <1>1
<1>4. DOMAIN w.review_history = (DOMAIN h) \cup {Len(h) + 1}
  BY <1>2, <1>3
<1>5. \A i \in DOMAIN h : w.review_history[i] = h[i]
  BY <1>2, <1>3
<1> QED
  BY <1>3, <1>4, <1>5 DEF Recorded, h

(* A node forgets no review, and a pause records the one it was resumed with.    *)
LEMMA NodeRecords ==
    ASSUME NEW from \in SavedState, from.next \in Nodes,
           NEW d \in Request, Usable(from, d),
           NEW w, w = Run(from.next, from.values, d)
    PROVE  /\ Recorded(from.values) \subseteq Recorded(w)
           /\ from.next \in Pauses => d.number \in Recorded(w)
<1> DEFINE v == from.values
<1>1. v \in State
  BY DEF SavedState
<1> HIDE DEF v
<1>2. CASE from.next = "human_review"
  <2>1. w = request_human_review(v, d)
    BY <1>2 DEF Run, v
  <2>2. d.action \in ReviewActions /\ d.number \in 1 .. MaxResumes
    BY <1>2 DEF Usable, Allowed, Pauses
  <2>3. PICK entry : entry = Review(d.action, d.number, v.review_round)
    OBVIOUS
  <2>4. w \in State /\ entry \in ReviewEntry /\ w.review_history = Append(v.review_history, entry)
    BY <1>1, <2>1, <2>2, <2>3, ReviewFacts
  <2>5. entry.number = d.number
    BY <2>3 DEF Review
  <2> QED
    BY <1>1, <2>4, <2>5, AppendRecords DEF v
<1>3. CASE from.next = "await_evidence"
  <2>1. w = await_evidence(v, d)
    BY <1>3 DEF Run, v
  <2>2. d.number \in 1 .. MaxResumes
    BY <1>3 DEF Usable, Allowed, Pauses
  <2>3. PICK entry : entry = Review("EVIDENCE_READY", d.number, v.review_round + 1)
    OBVIOUS
  <2>4. w \in State /\ entry \in ReviewEntry /\ w.review_history = Append(v.review_history, entry)
    BY <1>1, <2>1, <2>2, <2>3, AwaitFacts
  <2>5. entry.number = d.number
    BY <2>3 DEF Review
  <2> QED
    BY <1>1, <2>4, <2>5, AppendRecords DEF v
<1>4. CASE from.next \notin Pauses
  <2>1. w \in {prepare_case(v), reanalyze_case(v), mark_evidence_required(v), finalize_case(v), cancel_case(v)}
    BY <1>4 DEF Run, Nodes, Pauses, v
  <2>2. w.review_history = v.review_history
    BY <1>1, <2>1, PrepareFacts, ReanalyzeFacts, MarkFacts, EndFacts
  <2> QED
    BY <1>4, <2>2 DEF Recorded, v
<1> QED
  BY <1>2, <1>3, <1>4 DEF Pauses

(* What a node does to the phase and the round.                                *)
ReviewStep(phase1, round1, phase2, round2) ==
    \/ phase1 = "review" /\ phase2 \in {"completed", "evidence", "cancelled"} /\ round2 = round1
    \/ phase1 = "review" /\ round1 < MaxRounds /\ phase2 = "review" /\ round2 = round1 + 1
    \/ phase1 = "evidence" /\ phase2 = "review" /\ round2 = round1 + 1
    \/ phase2 = phase1 /\ round2 = round1

LEMMA NodeReviews ==
    ASSUME NEW from \in SavedState, Fits(from), from.next \in Nodes,
           NEW d \in Request, Usable(from, d),
           NEW w, w = Run(from.next, from.values, d),
           NEW next, next = Successor(from.next, w)
    PROVE  ReviewStep(PhaseOf(from.next, from.values), RoundOf(from.next, from.values),
                      PhaseOf(next, w), RoundOf(next, w))
<1> DEFINE v == from.values
<1>1. v \in State /\ v.review_round \in Nat \ {0}
  BY EntryTypes DEF SavedState
<1>2. StatusFits(v, from.next) /\ RoundFits(v, from.next)
  BY DEF Fits
<1> HIDE DEF v
<1>3. CASE from.next = "prepare_case"
  <2>1. w = prepare_case(v) /\ next = "human_review"
    BY <1>3 DEF Run, Successor, v
  <2>2. w.review_round = v.review_round
    BY <1>1, <2>1, PrepareFacts
  <2> QED
    BY <1>3, <2>1, <2>2 DEF PhaseOf, RoundOf, ReviewStep, v
<1>4. CASE from.next = "human_review"
  <2>1. w = request_human_review(v, d) /\ next = route_review_decision(w)
    BY <1>4 DEF Run, Successor, v
  <2>2. d.action \in ReviewActions /\ d.number \in 1 .. MaxResumes
    BY <1>4 DEF Usable, Allowed, Pauses
  <2>3. w.review_round = v.review_round /\ w.review_decision = d.action
    BY <1>1, <2>1, <2>2, ReviewFacts
  <2>4. next \in {"finalize_case", "mark_evidence_required", "reanalyze_case", "cancel_case"}
    BY <2>1, <2>2, <2>3 DEF route_review_decision, ReviewActions
  <2>5. next = "reanalyze_case" => v.review_round < MaxRounds
    <3>1. v.status = "WAITING_REVIEW" /\ RoundFits(v, "human_review")
      BY <1>2, <1>4 DEF StatusFits
    <3>2. StatusFits(w, next)
      BY <1>1, <2>1, <2>2, <3>1, ReviewFits
    <3> QED
      BY <2>3, <3>2 DEF StatusFits
  <2>6. PhaseOf(from.next, from.values) = "review" /\ RoundOf(from.next, from.values) = v.review_round
    BY <1>1, <1>4 DEF PhaseOf, RoundOf, v
  <2>7. CASE next = "reanalyze_case"
    BY <1>1, <2>3, <2>5, <2>6, <2>7 DEF PhaseOf, RoundOf, ReviewStep
  <2>8. CASE next # "reanalyze_case"
    <3>1. PhaseOf(next, w) \in {"completed", "evidence", "cancelled"} /\ RoundOf(next, w) = v.review_round
      BY <1>1, <2>3, <2>4, <2>8 DEF PhaseOf, RoundOf
    <3> QED
      BY <2>6, <3>1 DEF ReviewStep
  <2> QED
    BY <2>7, <2>8
<1>5. CASE from.next = "reanalyze_case"
  <2>1. w = reanalyze_case(v) /\ next = "human_review"
    BY <1>5 DEF Run, Successor, v
  <2>2. w.review_round = v.review_round + 1
    BY <1>1, <2>1, ReanalyzeFacts
  <2> QED
    BY <1>1, <1>5, <2>1, <2>2 DEF PhaseOf, RoundOf, ReviewStep, v
<1>6. CASE from.next = "mark_evidence_required"
  <2>1. w = mark_evidence_required(v) /\ next = "await_evidence"
    BY <1>6 DEF Run, Successor, v
  <2>2. w.review_round = v.review_round
    BY <1>1, <2>1, MarkFacts
  <2> QED
    BY <1>6, <2>1, <2>2 DEF PhaseOf, RoundOf, ReviewStep, v
<1>7. CASE from.next = "await_evidence"
  <2>1. w = await_evidence(v, d) /\ next = "prepare_case"
    BY <1>7 DEF Run, Successor, v
  <2>2. d.number \in 1 .. MaxResumes
    BY <1>7 DEF Usable, Allowed, Pauses
  <2>3. w.review_round = v.review_round + 1
    BY <1>1, <2>1, <2>2, AwaitFacts
  <2> QED
    BY <1>1, <1>7, <2>1, <2>3 DEF PhaseOf, RoundOf, ReviewStep, v
<1>8. CASE from.next \in {"finalize_case", "cancel_case"}
  <2>1. w = (IF from.next = "finalize_case" THEN finalize_case(v) ELSE cancel_case(v)) /\ next = "END"
    BY <1>8 DEF Run, Successor, v
  <2>2. w.review_round = v.review_round
    BY <1>1, <2>1, EndFacts
  <2>3. w.status = IF from.next = "finalize_case" THEN "COMPLETED" ELSE "CANCELLED"
    BY <1>1, <2>1, EndFacts
  <2>4. PhaseOf(next, w) = PhaseOf(from.next, from.values)
    BY <1>8, <2>1, <2>3 DEF PhaseOf
  <2>5. RoundOf(next, w) = RoundOf(from.next, from.values)
    BY <1>1, <1>8, <2>1, <2>2 DEF RoundOf, v
  <2> QED
    BY <2>4, <2>5 DEF ReviewStep
<1> QED
  BY <1>3, <1>4, <1>5, <1>6, <1>7, <1>8 DEF Nodes, Pauses

LEMMA SerialStep ==
    ASSUME NEW p, Requests = {p}, TypeInv, StoryInv, ThreadInv, SerialInv, [Next]_vars
    PROVE  SerialInv'
<1>1. Typed /\ Numbered(p) /\ p \in Requests
  BY Types DEF TypeInv
<1>2. InStep(p) /\ accepted \subseteq Recorded(saved.values) /\ (saved.next = "absent" => accepted = {})
  BY DEF SerialInv
<1>3. SUFFICES /\ InStep(p)' /\ accepted' \subseteq Recorded(saved'.values)
               /\ saved'.next = "absent" => accepted' = {}
  BY DEF SerialInv
<1>4. CASE StartWorkflow(p)
  <2>1. saved' = saved /\ accepted' = accepted /\ saved.next = "absent"
        /\ req[p].pc = "idle"
    BY <1>1, <1>4 DEF StartWorkflow
  <2>2. req'[p].pc = "open" /\ req'[p].number = 0 /\ req'[p].action = "none"
    BY <1>1, <1>2, <1>4, <2>1, StartFacts DEF InStep
  <2> QED
    BY <1>2, <2>1, <2>2 DEF InStep, Resumed
<1>5. CASE OpenThread(p)
  <2>1. Saves(p) /\ req[p].pc = "open" /\ accepted' = accepted
    BY <1>1, <1>5, OpenSaves DEF OpenThread
  <2>2. req'[p].number = 0
    <3>1. req'[p].number = req[p].number
      BY <1>1, <1>5 DEF OpenThread, Save, Typed, Request
    <3> QED
      BY <1>2, <2>1, <3>1 DEF InStep
  <2>3. accepted' = {} /\ saved'.next # "absent"
    BY <1>2, <2>1 DEF InStep, Saves, Nodes, Pauses
  <2> QED
    BY <2>1, <2>2, <2>3 DEF InStep, Resumed, Saves
<1>6. CASE RunNode(p)
  <2>1. Saves(p) /\ req[p].pc = "run" /\ accepted' = accepted
    BY <1>1, <1>6, RunSaves DEF RunNode
  <2>2. saved'.next # "absent"
    BY <2>1 DEF Saves, Nodes, Pauses
  <2>3. req'[p].number = req[p].number
    BY <1>1, <1>6 DEF RunNode, Save, Typed, Request
  <2>4. PICK w : w = Run(req[p].mem.next, req[p].mem.values, req[p])
    OBVIOUS
  <2>5. saved'.values = w
    BY <1>6, <2>4 DEF RunNode, Save, Checkpoint
  <2>6. /\ req[p] \in Request /\ req[p].mem \in SavedState /\ req[p].mem.next \in Nodes
    BY <1>1, <1>6 DEF Typed, Request, RunNode
  <2>7. Usable(req[p].mem, req[p])
    BY <1>1, <1>6 DEF RunNode, Numbered, Usable, Allowed, ReviewActions
  <2>8. /\ Recorded(req[p].mem.values) \subseteq Recorded(w)
        /\ req[p].mem.next \in Pauses => req[p].number \in Recorded(w)
    BY <2>4, <2>6, <2>7, NodeRecords
  <2>9. req[p].mem.values = saved.values /\ req[p].mem.next = saved.next
    BY <1>2, <2>1 DEF InStep
  <2>10. req[p].number = 0 \/ req[p].number \in Recorded(w)
    <3>1. CASE Resumed(p)
      BY <1>2, <2>1, <2>8, <2>9, <3>1 DEF InStep
    <3>2. CASE ~Resumed(p)
      BY <1>2, <2>1, <2>8, <2>9, <3>2 DEF InStep
    <3> QED
      BY <3>1, <3>2
  <2>11. accepted' \subseteq Recorded(w)
    BY <1>2, <2>1, <2>8, <2>9
  <2> QED
    BY <2>1, <2>2, <2>3, <2>5, <2>10, <2>11 DEF InStep, Resumed, Saves
<1>7. CASE CheckResume(p)
  <2>1. saved' = saved /\ accepted' = accepted
    BY <1>7 DEF CheckResume
  <2>2. req'[p].pc \in {"count", "invoke"} /\ Acceptable(req'[p].action)
    BY <1>1, <1>7, CheckFacts
  <2> QED
    BY <1>2, <2>1, <2>2 DEF InStep, Acceptable
<1>8. CASE CountEvidence(p)
  <2>1. saved' = saved /\ accepted' = accepted /\ req[p].pc = "count"
    BY <1>8 DEF CountEvidence
  <2>2. req'[p].pc = "invoke" /\ req'[p].action = req[p].action
    BY <1>1, <1>8, CountFacts
  <2> QED
    BY <1>2, <2>1, <2>2 DEF InStep, Acceptable
<1>9. CASE LoadCheckpoint(p)
  <2>1. saved' = saved /\ accepted' = accepted /\ req[p].pc = "invoke"
    BY <1>9 DEF LoadCheckpoint
  <2>2. req'[p].pc = "run" /\ req'[p].mem = saved /\ req'[p].action = req[p].action
    BY <1>1, <1>9, LoadFacts
  <2>3. saved.next \in Pauses /\ req[p].action \in Allowed(saved.next) /\ req[p].action # "none"
    <3>1. Acceptable(req[p].action)
      BY <1>2, <2>1 DEF InStep
    <3>2. saved.next \in Pauses /\ req[p].action \in Allowed(saved.next)
      BY <3>1 DEF Acceptable, ThreadInv
    <3> QED
      BY <3>2 DEF Allowed, ReviewActions
  <2> QED
    BY <1>2, <2>1, <2>2, <2>3 DEF InStep, Resumed
<1>10. CASE NodeFails(p) \/ CallFails(p)
  <2>1. saved' = saved /\ accepted' = accepted /\ req'[p] = IdleRequest
    BY <1>1, <1>10, IdleFacts DEF NodeFails, CallFails
  <2>2. IdleRequest.number = 0
    BY DEF IdleRequest
  <2> QED
    BY <1>2, <2>1, <2>2, Nowhere DEF InStep
<1>11. CASE Interrupt(p)
  <2>1. /\ accepted' = accepted /\ req[p].pc = "run" /\ ~Resumed(p)
        /\ req' = [req EXCEPT ![p].pc = "respond"]
    BY <1>11 DEF Interrupt
  <2>2. saved'.values = saved.values /\ saved'.next = saved.next
    BY <1>1, <1>11, HandleLeaves DEF Leaves
  <2>3. req'[p].pc = "respond" /\ req'[p].action = req[p].action /\ req'[p].number = req[p].number
    BY <1>1, <2>1, OverFacts
  <2> QED
    BY <1>2, <2>1, <2>2, <2>3 DEF InStep, Resumed
<1>12. CASE ReachEnd(p)
  <2>1. /\ accepted' = accepted /\ saved' = saved /\ req[p].pc = "run" /\ req[p].mem.next = "END"
        /\ req' = [req EXCEPT ![p].pc = "respond"]
    BY <1>12 DEF ReachEnd
  <2>2. ~Resumed(p)
    BY <1>2, <2>1 DEF InStep, Pauses
  <2>3. req'[p].pc = "respond" /\ req'[p].action = req[p].action /\ req'[p].number = req[p].number
    BY <1>1, <2>1, OverFacts
  <2> QED
    BY <1>2, <2>1, <2>2, <2>3 DEF InStep, Resumed
<1>13. CASE Respond(p)
  <2>1. /\ saved' = saved /\ req[p].pc = "respond" /\ req'[p] = IdleRequest
        /\ accepted' = IF req[p].number = 0 THEN accepted ELSE accepted \cup {req[p].number}
    BY <1>1, <1>13, IdleFacts DEF Respond
  <2>2. IdleRequest.number = 0
    BY DEF IdleRequest
  <2>3. InStep(p)'
    BY <2>1, <2>2, Nowhere DEF InStep
  <2>4. req[p].number = 0 \/ req[p].number \in Recorded(saved.values)
    BY <1>2, <2>1 DEF InStep
  <2>5. accepted' \subseteq Recorded(saved'.values)
    BY <1>2, <2>1, <2>4
  <2>6. saved.next # "absent"
    BY <1>1, <2>1 DEF ThreadInv
  <2> QED
    BY <1>2, <2>1, <2>3, <2>5, <2>6
<1>14. CASE EvidenceChanges \/ Quiet \/ UNCHANGED vars
  <2>1. saved' = saved /\ accepted' = accepted /\ req' = req
    BY <1>14 DEF EvidenceChanges, Quiet, vars
  <2> QED
    BY <1>2, <2>1 DEF InStep, Acceptable, Resumed
<1>15. CASE Crash
  <2>1. saved' = saved /\ accepted' = accepted /\ req'[p] = IdleRequest
    BY <1>1, <1>15 DEF Crash
  <2>2. IdleRequest.number = 0
    BY DEF IdleRequest
  <2> QED
    BY <1>2, <2>1, <2>2, Nowhere DEF InStep
<1> QED
  BY <1>4, <1>5, <1>6, <1>7, <1>8, <1>9, <1>10, <1>11, <1>12, <1>13, <1>14, <1>15
     DEF Next, Handle

LEMMA SerialInvariant == OneAtATime => (Spec => []SerialInv)
<1> SUFFICES ASSUME NEW p, Requests = {p} PROVE Spec => []SerialInv
  BY DEF OneAtATime
<1>1. Init => SerialInv
  <2>1. IdleRequest.number = 0
    BY DEF IdleRequest
  <2> QED
    BY <2>1, Nowhere DEF Init, SerialInv, InStep, Recorded
<1>2. Inv /\ SerialInv /\ [Next]_vars => SerialInv'
  BY SerialStep DEF Inv
<1> QED
  BY <1>1, <1>2, Invariant, PTL DEF Spec

(* With one request at a time no accepted decision is ever forgotten, whatever    *)
(* the thread goes through afterwards, unless a request was cut short while it ran  *)
(* the graph.                                                                    *)
THEOREM AcceptedKept == OneAtATime => (Spec => []AcceptedIsRecorded)
<1>1. SerialInv => AcceptedIsRecorded
  BY DEF SerialInv, AcceptedIsRecorded, Recorded, History
<1> QED
  BY <1>1, SerialInvariant, PTL

LEMMA ReviewInit == Init => Process!Init
BY Nowhere DEF Init, Process!Init, Phase, Round, PhaseOf, RoundOf

LEMMA ReviewStepImplemented ==
    ASSUME NEW p, Requests = {p}, Inv, SerialInv, [Next]_vars
    PROVE  [Process!Next]_<<Phase, Round>>
<1>1. Typed /\ StoryInv /\ Numbered(p) /\ p \in Requests
  BY Types DEF Inv, TypeInv
<1>2. InStep(p)
  BY DEF SerialInv
<1>3. CASE OpenThread(p)
  <2>1. req[p].pc = "open" /\ Saves(p)
    BY <1>1, <1>3, OpenSaves DEF OpenThread
  <2>2. saved.next = "absent"
    BY <1>2, <2>1 DEF InStep
  <2>3. saved'.next = "prepare_case" /\ saved'.values.review_round = 1
    BY <1>3 DEF OpenThread, Save, Checkpoint, InitialState
  <2>4. Phase = "absent" /\ Phase' = "review" /\ Round' = 1
    BY <2>2, <2>3 DEF Phase, Round, PhaseOf, RoundOf
  <2> QED
    BY <2>4 DEF Process!Next, Process!Open
<1>4. CASE RunNode(p)
  <2>1. /\ req[p] \in Request /\ req[p].mem \in SavedState /\ req[p].mem.next \in Nodes
        /\ Fits(req[p].mem)
    BY <1>1, <1>4 DEF Typed, Request, RunNode, StoryInv
  <2>2. Usable(req[p].mem, req[p])
    BY <1>1, <1>4 DEF RunNode, Numbered, Usable, Allowed, ReviewActions
  <2>3. PICK w : w = Run(req[p].mem.next, req[p].mem.values, req[p])
    OBVIOUS
  <2>4. PICK next : next = Successor(req[p].mem.next, w)
    OBVIOUS
  <2>5. saved'.values = w /\ saved'.next = next
    BY <1>4, <2>3, <2>4 DEF RunNode, Save, Checkpoint
  <2>6. req[p].mem.values = saved.values /\ req[p].mem.next = saved.next
    BY <1>2, <1>4 DEF InStep, RunNode
  <2>7. ReviewStep(PhaseOf(req[p].mem.next, req[p].mem.values), RoundOf(req[p].mem.next, req[p].mem.values),
                   PhaseOf(next, w), RoundOf(next, w))
    BY <2>1, <2>2, <2>3, <2>4, NodeReviews
  <2>8. ReviewStep(Phase, Round, Phase', Round')
    BY <2>5, <2>6, <2>7 DEF Phase, Round
  <2> QED
    BY <2>8 DEF ReviewStep, Process!Next, Process!Decide, Process!Approve, Process!RequestEvidence,
                Process!Cancel, Process!Reanalyze, Process!EvidenceReady
<1>5. CASE \/ StartWorkflow(p) \/ CheckResume(p) \/ CountEvidence(p) \/ LoadCheckpoint(p)
           \/ NodeFails(p) \/ CallFails(p) \/ Interrupt(p) \/ ReachEnd(p) \/ Respond(p)
  <2>1. saved'.values = saved.values /\ saved'.next = saved.next
    BY <1>1, <1>5, HandleLeaves DEF Leaves
  <2> QED
    BY <2>1 DEF Phase, Round
<1>6. CASE EvidenceChanges \/ Crash \/ Quiet \/ UNCHANGED vars
  <2>1. saved' = saved
    BY <1>1, <1>6, OtherSteps
  <2> QED
    BY <2>1 DEF Phase, Round
<1> QED
  BY <1>3, <1>4, <1>5, <1>6 DEF Next, Handle

(* A thread resumed by one request at a time is the review process of CaseReview:  *)
(* nothing skips a decision, repeats one, or leaves an end, whatever crashes or       *)
(* raises.                                                                       *)
THEOREM ReviewImplemented == OneAtATime => (Spec => ImplementsReview)
<1> SUFFICES ASSUME NEW p, Requests = {p} PROVE Spec => ImplementsReview
  BY DEF OneAtATime
<1>1. OneAtATime
  BY DEF OneAtATime
<1>2. Spec => []SerialInv
  BY <1>1, SerialInvariant
<1>3. Inv /\ SerialInv /\ [Next]_vars => [Process!Next]_<<Phase, Round>>
  BY ReviewStepImplemented
<1> QED
  BY <1>2, <1>3, ReviewInit, Invariant, PTL DEF Spec, ImplementsReview, Process!Spec
=============================================================================
