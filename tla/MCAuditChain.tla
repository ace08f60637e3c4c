---------------------------- MODULE MCAuditChain ----------------------------
(* Values of the constants of AuditChain for TLC.                             *)
EXTENDS AuditChain

CONSTANTS c1, c2

MCCases == {c1, c2}

\* The two cases have colliding hashtext values, or have not.
SharedKey == [c \in MCCases |-> 1]
OwnKey == [c \in MCCases |-> IF c = c1 THEN 1 ELSE 2]

\* One transaction of a single append and the one that appends twice.
MCScripts == {<<"CASE_UPDATED">>, <<"EVIDENCE_STORED", "EVIDENCE_CREATED">>}

Forward == {1}
Unsteady == {-1, 0, 1}
=============================================================================
