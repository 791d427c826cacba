--------------------------- MODULE ApprovalPromise ---------------------------
(***************************************************************************)
(* What the approval path promises about a report, with no harness, leases *)
(* or workers in sight: one human decision at most, only on a verdict that *)
(* was under review and not superseded; nothing sent without an approval   *)
(* of exactly that revision, and once at most; a superseded verdict is     *)
(* never decided, and a decided one never superseded.                      *)
(***************************************************************************)
EXTENDS Naturals

CONSTANT Rev

VARIABLES
    report,     \* the report's state
    outcome,    \* each revision's decision: NONE, APPROVED or DENIED
    superseded, \* revisions a re-check has replaced
    sent        \* revisions queued for delivery

vars == <<report, outcome, superseded, sent>>

UnderReview == {"ANALYSIS_ONLY", "AWAITING_APPROVAL"}
Closed == {"DELIVERED", "DENIED", "OUT_OF_SCOPE", "CANCELLED", "EXPIRED"}
Nothing == \A r \in Rev : outcome[r] = "NONE"

Init == /\ report = "TRIAGING"
        /\ outcome = [r \in Rev |-> "NONE"]
        /\ superseded = {}
        /\ sent = {}

\* An investigation ends; a definite verdict may come out of a parked one.
Conclude == /\ \/ /\ report \in {"TRIAGING", "REPRODUCING"}
                  /\ report' \in UnderReview
               \/ report = "TRIAGING" /\ report' = "OUT_OF_SCOPE"
               \/ report = "ANALYSIS_ONLY" /\ report' = "AWAITING_APPROVAL"
            /\ UNCHANGED <<outcome, superseded, sent>>

Decide(r, answer) == /\ report \in UnderReview
                     /\ Nothing
                     /\ r \notin superseded
                     /\ outcome' = [outcome EXCEPT ![r] = answer]

Approve(r) == Decide(r, "APPROVED") /\ UNCHANGED <<report, superseded, sent>>

Deny(r) == Decide(r, "DENIED") /\ report' = "DENIED" /\ UNCHANGED <<superseded, sent>>

Queue(r) == /\ report \in UnderReview
            /\ sent = {}
            /\ sent' = {r}
            /\ report' = "DELIVERING"

Send(r) == /\ outcome[r] = "APPROVED"
           /\ r \notin superseded
           /\ Queue(r)
           /\ UNCHANGED <<outcome, superseded>>

ApproveAndSend(r) == Decide(r, "APPROVED") /\ Queue(r) /\ UNCHANGED superseded

Supersede(r) == /\ report \in UnderReview
                /\ outcome[r] = "NONE"
                /\ r \notin superseded
                /\ superseded' = superseded \union {r}
                /\ report' = "REPRODUCING"
                /\ UNCHANGED <<outcome, sent>>

Deliver == report = "DELIVERING" /\ report' = "DELIVERED"
           /\ UNCHANGED <<outcome, superseded, sent>>

Retire == report \notin Closed /\ report' \in {"CANCELLED", "EXPIRED"}
          /\ UNCHANGED <<outcome, superseded, sent>>

Next == \/ Conclude \/ Deliver \/ Retire
        \/ \E r \in Rev : \/ Approve(r) \/ Deny(r) \/ Send(r)
                          \/ ApproveAndSend(r) \/ Supersede(r)

Spec == Init /\ [][Next]_vars
==============================================================================
