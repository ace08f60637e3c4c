-------------------------- MODULE EvidenceLifecycle --------------------------
(***************************************************************************)
(* What the evidence API promises about one evidence id: the audit log tells  *)
(* its life in this order, and a row is visible exactly while it is alive.    *)
(***************************************************************************)
CONSTANT Evidence

VARIABLES
    stage,      \* evidence id -> the last thing the audit log says of it
    visible     \* the evidence ids GET answers for

Init ==
    /\ stage = [e \in Evidence |-> "none"]
    /\ visible = {}

Move(e, from, to) ==
    /\ stage[e] \in from
    /\ stage' = [stage EXCEPT ![e] = to]

Begin(e) == Move(e, {"none"}, "started") /\ UNCHANGED visible
Identify(e) == Move(e, {"started"}, "hashed") /\ UNCHANGED visible
Publish(e) == Move(e, {"hashed"}, "live") /\ visible' = visible \cup {e}
Fail(e) == Move(e, {"started", "hashed"}, "failed") /\ UNCHANGED visible
Remove(e) == Move(e, {"live"}, "deleted") /\ visible' = visible \ {e}

Next ==
    \E e \in Evidence : Begin(e) \/ Identify(e) \/ Publish(e) \/ Fail(e) \/ Remove(e)

Spec == Init /\ [][Next]_<<stage, visible>>
=============================================================================
