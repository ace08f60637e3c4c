----------------------------- MODULE AuditTrail -----------------------------
(***************************************************************************)
(* What the audit log promises a reader, without clocks, locks or hashes:    *)
(* every case has a list of event types that only grows, at its end, by one   *)
(* whole business transaction at a time; the list begins with CASE_CREATED.   *)
(***************************************************************************)
EXTENDS Sequences

CONSTANTS Cases, Scripts

VARIABLE trail     \* case -> the event types in the order the API lists them

Init == trail = [c \in Cases |-> << >>]

Create(c) ==
    /\ trail[c] = << >>
    /\ trail' = [trail EXCEPT ![c] = <<"CASE_CREATED">>]

Record(c, script) ==
    /\ trail[c] # << >>
    /\ trail' = [trail EXCEPT ![c] = @ \o script]

Next == \E c \in Cases : Create(c) \/ \E script \in Scripts : Record(c, script)

Spec == Init /\ [][Next]_trail
=============================================================================
