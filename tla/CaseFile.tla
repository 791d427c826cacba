------------------------------ MODULE CaseFile ------------------------------
(***************************************************************************)
(* One report as its page shows it: the rows readCase reads                *)
(* (src/lib/reports/case.ts), the view derived from them (case-view.ts)    *)
(* and how often the page asks again (status-query.ts).                    *)
(*                                                                         *)
(* The rows move one commit at a time; Approval and Delivery model how a   *)
(* commit comes about.  A verdict is its revision.  Wording, events,       *)
(* artifacts and mascots are left out; a note is what it tells a reviewer  *)
(* to expect.                                                              *)
(***************************************************************************)
EXTENDS Naturals, Sequences, FiniteSets

CONSTANTS
    SubmitAttempts,  \* MAX_ATTEMPTS of approval_submission
    SendAttempts,    \* outbound_delivery.max_attempts
    MaxRevisions,    \* bound: verdict revisions drafted
    FirstKinds,      \* bound: outcomes of a first draft, of AllKinds
    LaterKinds,      \* bound: outcomes of a re-check's
    Ends             \* bound: how a turn ends that drafted nothing, of AllEnds

VARIABLE case        \* the rows of the report

AllKinds == {"ANALYSIS_ONLY", "NOT_REPRODUCED", "REPRODUCED"}
AllEnds == {"DONE", "ERROR", "CANCELLED"}
ASSUME CaseFileAssumption ==
    /\ SubmitAttempts \in Nat \ {0} /\ SendAttempts \in Nat \ {0}
    /\ MaxRevisions \in Nat \ {0}
    /\ FirstKinds \subseteq AllKinds /\ LaterKinds \subseteq AllKinds /\ Ends \subseteq AllEnds

Terminal == {"DELIVERED", "DENIED", "OUT_OF_SCOPE", "CANCELLED", "EXPIRED"}
Revision == 1 .. MaxRevisions
NoHandoff == [state |-> "NONE", attempts |-> 0, told |-> FALSE]
NoDelivery == [state |-> "NONE", attempts |-> 0, held |-> FALSE, stamped |-> FALSE,
               receipt |-> FALSE]

\* told: the harness has the decision, whatever the submission row says.
CaseInit(mail, rechecks) ==
    case = [state |-> "TRIAGING", drafts |-> <<>>, pending |-> 0, superseded |-> {},
            decision |-> [r \in Revision |-> "NONE"], run |-> "NONE", turn |-> "RUNNING",
            handoff |-> NoHandoff, delivery |-> NoDelivery, mail |-> mail,
            rechecks |-> rechecks]

Newest == Len(case.drafts)
Draft(r) == case.drafts[r]

-----------------------------------------------------------------------------
(* What commits: the agent, the submission worker, the outbox, the mail    *)
(* provider and the operator.                                              *)

Working == \/ case.state = "TRIAGING"
           \/ case.state = "REPRODUCING" /\ case.run = "RUNNING"

Kinds == IF Newest = 0 THEN FirstKinds ELSE LaterKinds

\* finishVerifiedCall: an analysis stays at ANALYSIS_ONLY for its approval.
ParkVerdict(kind) ==
    /\ Working /\ Newest < MaxRevisions
    /\ case' = [case EXCEPT
         !.drafts = Append(@, [kind |-> kind, call |-> TRUE]), !.pending = Newest + 1,
         !.state = IF kind = "ANALYSIS_ONLY" THEN "ANALYSIS_ONLY" ELSE "AWAITING_APPROVAL",
         !.run = IF @ = "NONE" THEN @ ELSE "AWAITING_APPROVAL",
         !.turn = "AWAITING_APPROVAL_HARNESS"]

\* endWithoutAgentVerdict: the first run leaves a verdict the server wrote,
\* unless its review had no source to read; a re-check leaves none.
EndWithoutVerdict(how) ==
    /\ Working
    /\ LET over == [case EXCEPT !.turn = how, !.run = IF @ = "NONE" THEN @ ELSE how] IN
       \/ case' = [over EXCEPT
            !.drafts = IF @ = <<>> THEN <<[kind |-> "ANALYSIS_ONLY", call |-> FALSE]>> ELSE @,
            !.pending = IF case.drafts = <<>> THEN 1 ELSE 0, !.state = "ANALYSIS_ONLY"]
       \/ /\ case.state = "TRIAGING" /\ case.drafts = <<>>
          /\ case' = [over EXCEPT !.state = "OUT_OF_SCOPE"]

\* The harness forgets the session under a parked verdict.
SessionLost ==
    /\ case.pending # 0 /\ case.turn = "AWAITING_APPROVAL_HARNESS"
    /\ case' = [case EXCEPT !.turn = "ERROR"]

RunMoves == \/ /\ case.run = "PENDING"
               /\ \E to \in {"RUNNING", "ERROR"} : case' = [case EXCEPT !.run = to]
            \/ /\ case.run = "RUNNING" /\ case.state = "REPRODUCING"
               /\ case' = [case EXCEPT !.run = "ERROR"]

DecidedOn == {r \in Revision : case.decision[r] # "NONE"}
Submittable == /\ case.handoff.state \in {"PENDING", "FAILED"}
               /\ case.handoff.attempts < SubmitAttempts

\* One attempt of the submission worker.  Its last answer may be lost.
Submit ==
    /\ Submittable
    /\ LET n == case.handoff.attempts + 1
           stands == case.pending \in DecidedOn
           failed == IF n >= SubmitAttempts THEN "FAILED" ELSE "PENDING"
       IN \/ stands /\ case' = [case EXCEPT !.handoff =
                                  [state |-> "SUBMITTED", attempts |-> n, told |-> TRUE]]
          \/ stands /\ \E told \in {case.handoff.told, TRUE} :
                case' = [case EXCEPT !.handoff =
                           [state |-> failed, attempts |-> n, told |-> told]]
          \/ ~stands /\ case' = [case EXCEPT !.handoff =
                                   [@ EXCEPT !.state = "FAILED", !.attempts = n]]

Reviewable(r) == \/ case.state = "AWAITING_APPROVAL"
                 \/ case.state = "ANALYSIS_ONLY" /\ Draft(r).kind = "ANALYSIS_ONLY"

\* enqueueApprovedVerdictDelivery
Enqueued(c) == [c EXCEPT !.state = "DELIVERING", !.pending = 0,
                         !.delivery = [NoDelivery EXCEPT !.state = "PENDING"]]

\* publish_verdict, called by a harness that was told.
Publishable == /\ case.handoff.told
               /\ case.pending # 0 /\ case.decision[case.pending] = "APPROVED"
               /\ Reviewable(case.pending)
Publish == Publishable /\ case' = Enqueued(case)

Sendable == /\ case.delivery.state = "PENDING" /\ ~case.delivery.held
            /\ case.delivery.attempts < SendAttempts

\* One attempt of the delivery worker.
Send ==
    /\ Sendable
    /\ LET d == [case.delivery EXCEPT !.attempts = @ + 1] IN
         \/ /\ case.state = "DELIVERING" /\ case.mail
            /\ case' = [case EXCEPT !.delivery = [d EXCEPT !.state = "SENT", !.stamped = TRUE]]
         \/ /\ case.state = "DELIVERING" /\ ~case.mail
            /\ case' = [case EXCEPT !.state = "DELIVERED",
                          !.delivery = [d EXCEPT !.state = "SENT", !.receipt = TRUE]]
         \/ /\ d.attempts < SendAttempts /\ case' = [case EXCEPT !.delivery = d]
         \/ /\ d.attempts = SendAttempts
            /\ case' = [case EXCEPT !.delivery = [d EXCEPT !.state = "FAILED"]]
         \/ \E hold \in (IF case.state = "DELIVERING" THEN BOOLEAN ELSE {FALSE}) :
              case' = [case EXCEPT !.delivery = [d EXCEPT !.state = "FAILED", !.held = hold]]

\* applyDeliveryReceipt: delivered, bounced, complained.
Receipt(what) ==
    /\ case.mail /\ case.delivery.stamped
    /\ case' = CASE what = "delivered" -> IF case.state # "DELIVERING" THEN case
                       ELSE [case EXCEPT !.delivery.receipt = TRUE, !.state = "DELIVERED"]
                 [] what = "bounced" ->
                       [case EXCEPT !.delivery.state = "FAILED", !.delivery.held = TRUE]
                 [] what = "complained" -> [case EXCEPT !.delivery.held = TRUE]

Retire == case.state \notin Terminal /\ case' = [case EXCEPT !.state = "CANCELLED"]

-----------------------------------------------------------------------------
(* What a reviewer asks for, here or on another screen.                    *)

\* decide, bound to the revision the client names.  Its replay branch
\* queues nothing here: an enqueued verdict is no longer pending.
MayDecide(r) == /\ r \in DOMAIN case.drafts /\ r \notin case.superseded
                /\ case.decision[r] = "NONE"
                /\ Reviewable(r)
                /\ case.pending = r

Decided_As(r, outcome) ==
    LET c == [case EXCEPT !.decision[r] = outcome]
        told == IF Draft(r).call THEN [NoHandoff EXCEPT !.state = "PENDING"] ELSE case.handoff
    IN IF outcome = "DENIED" THEN [c EXCEPT !.state = "DENIED", !.handoff = told]
       ELSE IF Draft(r).call THEN [c EXCEPT !.handoff = told]
       ELSE Enqueued(c)

MayRecheck(r) == /\ case.state \in {"AWAITING_APPROVAL", "ANALYSIS_ONLY"}
                 /\ r # 0 /\ case.pending = r
                 /\ case.decision[r] = "NONE" /\ r \notin case.superseded
Rechecked(r) == [case EXCEPT !.superseded = @ \union {r}, !.run = "PENDING", !.pending = 0,
                             !.turn = "CANCELLED", !.state = "REPRODUCING",
                             !.rechecks = @ - 1]

MayRetryRecheck == case.state = "REPRODUCING" /\ case.run = "ERROR"
MayCancelRecheck == case.state = "REPRODUCING" /\ case.run \in {"PENDING", "ERROR"}
MayCancelHeld == /\ case.state = "DELIVERING"
                 /\ case.delivery.state = "FAILED" /\ case.delivery.held
MayRetryHeld == /\ case.delivery.state = "FAILED" /\ case.delivery.held
                /\ ~case.delivery.stamped

RetryRecheck == /\ MayRetryRecheck /\ case.rechecks > 0
                /\ case' = [case EXCEPT !.run = "PENDING", !.rechecks = @ - 1]
CancelRecheck == /\ MayCancelRecheck
                 /\ case' = [case EXCEPT !.run = "CANCELLED", !.state = "ANALYSIS_ONLY"]
\* The ceiling moves by a fresh budget: the count starts again below it.
RetryHeld == /\ MayRetryHeld /\ case.state = "DELIVERING" /\ case.rechecks > 0
             /\ case' = [case EXCEPT !.delivery = [NoDelivery EXCEPT !.state = "PENDING"],
                                     !.rechecks = @ - 1]
CancelHeld == MayCancelHeld /\ case' = [case EXCEPT !.state = "CANCELLED"]

-----------------------------------------------------------------------------
(* readCase and caseLiveView.                                              *)

\* The pending verdict when it can be answered, else the newest.
PendingShown == /\ case.pending # 0
                /\ Reviewable(case.pending)
Latest == IF PendingShown THEN case.pending ELSE Newest
DecisionShown == IF Latest = 0 THEN "NONE" ELSE case.decision[Latest]
AwaitingVerdict_Asked ==  \* mutant: a decided call still asks
    IF PendingShown THEN case.pending ELSE 0
AwaitingVerdict == IF PendingShown /\ DecisionShown = "NONE" THEN case.pending ELSE 0

\* Keyed by the verdict shown: a row of another revision is not read.
DeliveryShown == IF DecisionShown = "APPROVED" THEN case.delivery ELSE NoDelivery
HandoffShown == IF DecisionShown = "NONE" THEN NoHandoff ELSE case.handoff

SupersededShown == Latest \in case.superseded
RecheckIs(statuses) == SupersededShown /\ case.run \in statuses
ActiveRecheck == RecheckIs({"PENDING", "RUNNING"})
RecheckOver == RecheckIs({"ERROR", "CANCELLED"})
ApprovalBlocked == ActiveRecheck \/ RecheckOver

HandoffExhausted == /\ HandoffShown.state = "FAILED"
                    /\ HandoffShown.attempts >= SubmitAttempts
                    /\ DeliveryShown = NoDelivery
DeliveryExhausted == /\ DeliveryShown.state = "FAILED"
                     /\ DeliveryShown.attempts >= SendAttempts

\* The lifecycle rows, by what they say of themselves.
Investigation == IF ActiveRecheck THEN "current"
                 ELSE IF RecheckOver \/ case.turn = "ERROR" THEN "skipped"
                 ELSE IF Latest # 0 THEN "done"
                 ELSE "pending"
VerdictStep == IF ~ApprovalBlocked /\ Latest # 0 THEN "done" ELSE "pending"
ApprovalStep ==
    IF ApprovalBlocked THEN "pending"
    ELSE IF DecisionShown # "NONE" THEN "done"
    ELSE IF AwaitingVerdict # 0 \/ case.state = "AWAITING_APPROVAL" THEN "current"
    ELSE "pending"
DeliveryStep ==
    IF \/ DecisionShown = "DENIED" \/ DeliveryShown.state = "FAILED"
       \/ DeliveryShown.held \/ HandoffExhausted THEN "skipped"
    ELSE IF ApprovalBlocked /\ DeliveryShown = NoDelivery THEN "pending"
    ELSE IF HandoffShown # NoHandoff /\ DeliveryShown = NoDelivery THEN "current"
    ELSE IF case.state = "DELIVERED" THEN "done"
    ELSE IF case.state = "DELIVERING" THEN "current"
    ELSE IF case.state \in Terminal THEN "skipped"
    ELSE "pending"

\* What the delivery row tells a reviewer to expect.
DeliveryNote ==
    IF DecisionShown = "DENIED" THEN "nothing"
    ELSE IF DeliveryShown.held THEN "held"
    ELSE IF DeliveryExhausted THEN "failed"
    ELSE IF DeliveryShown.state = "FAILED" THEN "retrying"
    ELSE IF DeliveryShown.state = "SENT" /\ ~DeliveryShown.receipt THEN "sent"
    ELSE IF DeliveryShown # NoDelivery THEN DeliveryShown.state
    ELSE IF ApprovalBlocked \/ HandoffShown = NoHandoff THEN "not enqueued"
    ELSE IF HandoffExhausted THEN "failed"
    ELSE IF HandoffShown.state = "FAILED" THEN "retrying"
    ELSE "handing off"

Failed == DeliveryExhausted \/ HandoffExhausted

Polls_WhileMoving ==  \* mutant: a report that waits on a person is not asked about
    \/ DeliveryShown.state = "PENDING"
    \/ ~(DeliveryExhausted \/ DeliveryShown.held \/ HandoffExhausted
         \/ case.state \in Terminal \/ case.state = "AWAITING_APPROVAL")

\* caseRefetchInterval: asks again, or has stopped asking.
Polls == \/ DeliveryShown.state = "PENDING"
         \/ ~(DeliveryExhausted \/ DeliveryShown.held \/ HandoffExhausted
              \/ case.state \in Terminal)

\* The controls StatusCard draws under the report, and the dialog's re-check:
\* a reproduced verdict is only ever approved or denied.
OffersDelivery == /\ case.state = "DELIVERING"
                  /\ DeliveryShown.state = "FAILED" /\ DeliveryShown.held
MayAskRecheck(r) == Draft(r).kind # "REPRODUCED"
OffersRecheck == IF case.state # "REPRODUCING" \/ Latest = 0 THEN {}
                 ELSE IF case.run = "ERROR" THEN {"retry", "cancel"}
                 ELSE IF case.run = "PENDING" THEN {"cancel"}
                 ELSE {}

LiveView == [state |-> case.state, shown |-> Latest, awaiting |-> AwaitingVerdict,
             decision |-> DecisionShown, superseded |-> SupersededShown, polls |-> Polls,
             over |-> case.state \in Terminal \/ DeliveryNote \in {"failed", "held"}]
=============================================================================
