--------------------------- MODULE MCTransactions ---------------------------
(* Two cases that share an advisory key, two rows of evidence, parent and child.  *)
EXTENDS Transactions, TLC

CONSTANTS c1, c2, new, e1, e2

MCCases == {c1, c2}

MCStored ==
    { [id |-> e1, case |-> c1, file |-> "a", parent |-> NoEvidence],
      [id |-> e2, case |-> c1, file |-> "b", parent |-> e1] }

Patch(c, patch) == [kind |-> "update", case |-> c, patch |-> patch]

Upload(file, parent) == [kind |-> "upload", case |-> c1, file |-> file, parent |-> parent]

MCMenu ==
    { Patch(c1, "name" :> 2), Patch(c1, "name" :> 1), Patch(c1, "status" :> 2),
      Upload("c", e1), Upload("a", NoEvidence), [kind |-> "delete", case |-> c1],
      [kind |-> "create", case |-> new], [kind |-> "record", case |-> c2] }

SharedKey == [c \in {c1, c2, new} |-> 1]
=============================================================================
