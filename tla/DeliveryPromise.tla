--------------------------- MODULE DeliveryPromise ---------------------------
(***************************************************************************)
(* What the outbox promises a reviewer who approved a verdict, with no     *)
(* workers, leases, retries, webhooks or provider in sight: one copy of it *)
(* reaches the reporter, and one more for each post that took effect when  *)
(* nobody waited for it any more; the row says SENT only of a copy that    *)
(* exists, and the report is DELIVERED only when the copy is, never        *)
(* leaving DELIVERED or CANCELLED again.  Delivery implements it.          *)
(***************************************************************************)
EXTENDS Naturals

CONSTANT Delivery

VARIABLES
    outbox,     \* ABSENT, PENDING, SENT or FAILED
    report,     \* APPROVED, DELIVERING, DELIVERED or CANCELLED
    copies,     \* how many copies of the verdict went out
    overdue,    \* how many of them went out with their caller gone
    arrived     \* deliveries whose copy is known to be where it belongs

vars == <<outbox, report, copies, overdue, arrived>>

Init == /\ outbox = [d \in Delivery |-> "ABSENT"]
        /\ report = [d \in Delivery |-> "APPROVED"]
        /\ copies = [d \in Delivery |-> 0]
        /\ overdue = [d \in Delivery |-> 0]
        /\ arrived = {}

Enqueue(d) == /\ report[d] = "APPROVED"
              /\ outbox[d] = "ABSENT"
              /\ outbox' = [outbox EXCEPT ![d] = "PENDING"]
              /\ report' = [report EXCEPT ![d] = "DELIVERING"]
              /\ UNCHANGED <<copies, overdue, arrived>>

\* A copy that exists is not necessarily one that arrived: mail can bounce.
Another(d, there) == /\ outbox[d] # "ABSENT"
                     /\ copies' = [copies EXCEPT ![d] = @ + 1]
                     /\ arrived' = IF there THEN arrived \union {d} ELSE arrived
                     /\ UNCHANGED <<outbox, report>>

\* Whoever holds the row sends only what nobody in time has sent.
GoOut(d, there) == /\ copies[d] <= overdue[d]
                   /\ Another(d, there)
                   /\ UNCHANGED overdue

GoOutOverdue(d) == /\ Another(d, TRUE)
                   /\ overdue' = [overdue EXCEPT ![d] = @ + 1]

Arrive(d) == /\ copies[d] > 0
             /\ arrived' = arrived \union {d}
             /\ UNCHANGED <<outbox, report, copies, overdue>>

Sent(d) == /\ outbox[d] \in {"PENDING", "FAILED"}
           /\ copies[d] > 0
           /\ outbox' = [outbox EXCEPT ![d] = "SENT"]
           /\ report' \in {report, [report EXCEPT ![d] = "DELIVERED"]}
           /\ report'[d] # report[d] => report[d] = "DELIVERING" /\ d \in arrived
           /\ UNCHANGED <<copies, overdue, arrived>>

\* Several rows at once when a sweep finds their last leases expired.
Fails(ds) == /\ \A d \in ds : outbox[d] # "ABSENT"
             /\ outbox' = [d \in Delivery |-> IF d \in ds THEN "FAILED" ELSE outbox[d]]
             /\ UNCHANGED <<report, copies, overdue, arrived>>

Reopen(d) == /\ outbox[d] = "FAILED"
             /\ outbox' = [outbox EXCEPT ![d] = "PENDING"]
             /\ UNCHANGED <<report, copies, overdue, arrived>>

Close(d) == /\ report[d] = "DELIVERING"
            /\ d \in arrived
            /\ report' = [report EXCEPT ![d] = "DELIVERED"]
            /\ UNCHANGED <<outbox, copies, overdue, arrived>>

Cancel(d) == /\ report[d] \in {"APPROVED", "DELIVERING"}
             /\ report' = [report EXCEPT ![d] = "CANCELLED"]
             /\ UNCHANGED <<outbox, copies, overdue, arrived>>

Next == \/ \E d \in Delivery : \/ Enqueue(d)
                               \/ \E there \in BOOLEAN : GoOut(d, there)
                               \/ GoOutOverdue(d)
                               \/ Arrive(d)
                               \/ Sent(d)
                               \/ Reopen(d)
                               \/ Close(d)
                               \/ Cancel(d)
        \/ \E ds \in SUBSET Delivery : Fails(ds)

Spec == Init /\ [][Next]_vars
=============================================================================
