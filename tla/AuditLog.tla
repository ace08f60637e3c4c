------------------------------ MODULE AuditLog ------------------------------
(***************************************************************************)
(* The audit chain of one case as data: what AuditService computes from a   *)
(* set of rows of audit_events (services/audit_service.py and               *)
(* repositories/audit_repository.py).                                       *)
(*                                                                         *)
(* A row is a record                                                        *)
(*   id    the primary key; uuid4, so an integer of arbitrary order         *)
(*   type  event_type                                                       *)
(*   at    created_at, the value the application's clock returned           *)
(*   prev  previous_hash                                                    *)
(*   hash  event_hash                                                       *)
(* SHA-256 is taken to be free of collisions: a hash is the sequence of the  *)
(* contents it commits to.  NoHash stands both for None and for "", which    *)
(* calculate_event_hash does not tell apart.                                 *)
(***************************************************************************)
EXTENDS Integers, Sequences, FiniteSets

NoHash == << >>

\* The fields the hash covers. The ones that no property tells apart (actor,
\* resource, metadata...) are represented by the identity of the row.
event_content(event) == <<event.id, event.type, event.at>>

calculate_event_hash(previous_hash, content) == Append(previous_hash, content)

\* ORDER BY created_at, id
Earlier(e, f) == e.at < f.at \/ (e.at = f.at /\ e.id < f.id)

Before(rows, e) == {f \in rows : Earlier(f, e)}

\* ORDER BY created_at DESC, id DESC LIMIT 1 on a set that is not empty.
Last(rows) == CHOOSE e \in rows : \A f \in rows \ {e} : Earlier(f, e)

\* The hash the next row is linked to: that of the last row, None without one.
PreviousHash(rows) == IF rows = {} THEN NoHash ELSE Last(rows).hash

\* The row AuditService.append builds after reading the chain's last hash.
NewEvent(id, type, at, previous_hash) ==
    [id   |-> id, type |-> type, at |-> at, prev |-> previous_hash,
     hash |-> calculate_event_hash(previous_hash, <<id, type, at>>)]

-----------------------------------------------------------------------------
(* verify: walk the rows in listing order and compare each with the hash of  *)
(* the one before it.                                                       *)

\* A faulty walk that trusts the link each row states.
IntactBySelf(rows, e) == e.hash = calculate_event_hash(e.prev, event_content(e))

Intact(rows, e) ==
    LET previous_hash == PreviousHash(Before(rows, e))
    IN  /\ e.prev = previous_hash
        /\ e.hash = calculate_event_hash(previous_hash, event_content(e))

Broken(rows) == {e \in rows : ~Intact(rows, e)}

Valid(rows) == Broken(rows) = {}

\* broken_event_id is the first row of the listing that does not match.
BrokenEventId(rows) ==
    (CHOOSE e \in Broken(rows) : \A f \in Broken(rows) \ {e} : Earlier(e, f)).id

Verify(rows) ==
    [valid           |-> Valid(rows),
     event_count     |-> Cardinality(rows),
     broken_event_id |-> IF Valid(rows) THEN {} ELSE {BrokenEventId(rows)}]

\* The rows in listing order.
Listing(rows) ==
    [i \in 1 .. Cardinality(rows) |->
        CHOOSE e \in rows : Cardinality(Before(rows, e)) = i - 1]
=============================================================================
