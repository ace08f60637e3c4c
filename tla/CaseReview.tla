----------------------------- MODULE CaseReview -----------------------------
(***************************************************************************)
(* What the review workflow promises the people who use it: a case waits for   *)
(* a review or for evidence, each decision moves it once, and an end is final.  *)
(***************************************************************************)
EXTENDS Naturals

CONSTANT MaxRounds      \* max_review_rounds

VARIABLES
    phase,      \* "absent", "review", "evidence", "completed" or "cancelled"
    round       \* review_round

Init == phase = "absent" /\ round = 0

Open == phase = "absent" /\ phase' = "review" /\ round' = 1

Decide(to) == phase = "review" /\ phase' = to /\ round' = round

Approve == Decide("completed")
RequestEvidence == Decide("evidence")
Cancel == Decide("cancelled")

Reanalyze ==
    /\ phase = "review"
    /\ IF round < MaxRounds THEN phase' = "review" /\ round' = round + 1
                            ELSE phase' = "cancelled" /\ round' = round

EvidenceReady == phase = "evidence" /\ phase' = "review" /\ round' = round + 1

Next == Open \/ Approve \/ RequestEvidence \/ Cancel \/ Reanalyze \/ EvidenceReady

Spec == Init /\ [][Next]_<<phase, round>>
=============================================================================
