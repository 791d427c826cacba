---------------------------- MODULE CaseControls ----------------------------
(***************************************************************************)
(* The controls of the case page and the server actions behind them        *)
(* (src/app/(app)/reports/[id]/, src/app/review/actions.ts).  The page     *)
(* decides what to draw in one piece of code and the server decides again  *)
(* what to accept in another: Offers is the first, Accepts the second.     *)
(*                                                                         *)
(* A click asks first in a dialog and may come from a page opened long ago *)
(* or be called without one, so any click may arrive at any time.  CaseFile*)
(* has the rows of the verdict; the others are in desk.  The retest panel  *)
(* is in Retests; the confirmation of an approval is in ReviewDesk.        *)
(***************************************************************************)
EXTENDS CaseFile

VARIABLE desk

Channels == {"email", "upload", "advisory", "github"}
Gate == {"analysis", "build", "reject", "spam", "duplicate", "dismiss"}
Resends == {"resendReject", "resendDuplicate"}
Targets == {"bind", "reproduce"}
VerdictControls == {"approve", "deny", "recheck"}
Runs == {"retryRecheck", "cancelRecheck"}
Held == {"retryDelivery", "cancelReport"}
Owners == {"notifyOwner"}
Appealing == {"acknowledge", "close"}
Control == Gate \union Resends \union Targets \union VerdictControls \union Runs \union Held
           \union Owners \union Appealing

\* An outside report starts at the gate, with material on an upload or an
\* email; a GitHub report starts with its repository and its target.
ControlsInit(channel, gated, material) ==
    /\ CaseInit(channel = "email", 2)
    /\ desk = [channel |-> channel, gate |-> gated, material |-> material,
               build |-> "NONE", closed |-> "NONE", reply |-> "NONE",
               target |-> IF channel = "github" THEN "owned" ELSE "none",
               grant |-> TRUE, posted |-> 0, advisory |-> "NONE", appeal |-> "NONE"]

\* report.state: the gate is before everything CaseFile follows.
AtGate == desk.gate
State == IF AtGate THEN "NEEDS_DECISION" ELSE case.state
HasRepository == desk.channel = "github" \/ desk.target = "owned"
Verdict == Latest

-----------------------------------------------------------------------------
(* What the page draws.                                                    *)

\* TriageGate is the email report's, UploadGate the upload's, AdvisoryGate
\* the advisory's; none is drawn for another channel.
GateOf(channel) ==
    CASE channel = "email" -> {"analysis", "build", "reject", "spam", "duplicate"} \union Resends
      [] channel = "upload" -> {"analysis", "build", "dismiss"}
      [] channel = "advisory" -> {"analysis", "dismiss"}
      [] OTHER -> {}
CanBuild == desk.material /\ desk.build = "NONE"
GateOffers(c) == /\ State = "NEEDS_DECISION" /\ c \in GateOf(desk.channel)
                 /\ c = "build" => CanBuild

\* The record of a closed gate offers the reply that has not gone out.
ResendOffers(c) ==
    /\ desk.channel = "email" /\ State # "NEEDS_DECISION" /\ desk.reply # "SENT"
    /\ \/ c = "resendDuplicate" /\ desk.closed = "duplicate"
       \/ c = "resendReject" /\ desk.closed = "rejected"

\* TargetControl, hidden by StatusCard at the gate; and ReproduceButton.
BindOffered == /\ desk.target = "none"
               /\ State \notin Terminal \union {"NEEDS_DECISION", "DELIVERING"}
Investigating == case.turn = "RUNNING" /\ Verdict = 0
ReproduceOffered == /\ desk.target # "none" /\ State = "ANALYSIS_ONLY"
                    /\ AwaitingVerdict # 0 /\ Draft(Verdict).kind = "ANALYSIS_ONLY"
                    /\ ~Investigating

\* ApprovalDialog.
VerdictOffers(c) == /\ AwaitingVerdict # 0
                    /\ c = "recheck" => MayAskRecheck(AwaitingVerdict)

\* OwnerAdvisoryControl
NotifyOffered == /\ desk.channel \in {"email", "github"} /\ HasRepository
                 /\ State = "DELIVERED" /\ Verdict # 0 /\ Draft(Verdict).kind = "REPRODUCED"
                 /\ desk.advisory \in {"NONE", "FAILED"}

AppealOffers(c) == \/ c = "acknowledge" /\ desk.appeal = "OPEN"
                   \/ c = "close" /\ desk.appeal \in {"OPEN", "ACKNOWLEDGED"}

Offers(c) == CASE c \in Gate -> GateOffers(c)
               [] c \in Resends -> ResendOffers(c)
               [] c = "bind" -> BindOffered
               [] c = "reproduce" -> ReproduceOffered
               [] c \in VerdictControls -> VerdictOffers(c)
               [] c = "retryRecheck" -> "retry" \in OffersRecheck
               [] c = "cancelRecheck" -> "cancel" \in OffersRecheck
               [] c \in Held -> OffersDelivery
               [] c \in Owners -> NotifyOffered
               [] c \in Appealing -> AppealOffers(c)

-----------------------------------------------------------------------------
(* What the server accepts, on the rows it locks.                          *)

\* lockAtGate; the build also needs the material, unapproved.
GateAccepts(c) == /\ State = "NEEDS_DECISION"
                  /\ c = "build" => /\ desk.channel \in {"email", "upload"}
                                    /\ desk.material /\ desk.build = "NONE"

\* rejectAtGate and markDuplicateAtGate past the close: only the reply is left.
ResendAccepts(c) ==
    \/ c = "resendReject" /\ desk.closed = "rejected" /\ desk.reply # "SENT"
    \/ c = "resendDuplicate" /\ desk.closed = "duplicate" /\ State = "DENIED"

MayBind_Delivering ==  \* mutant: a verdict on its way out changes its target
    /\ State \notin Terminal \union {"NEEDS_DECISION"}
    /\ desk.target = "none"

\* bindTarget
MayBind == /\ State \notin Terminal /\ State # "NEEDS_DECISION" /\ State # "DELIVERING"
           /\ desk.target = "none"

\* requestOwnerAdvisory: the delivered verdict is the outbox's newest sent one.
MayNotify == /\ desk.channel \in {"email", "github"} /\ State = "DELIVERED"
             /\ HasRepository /\ desk.grant
             /\ desk.posted # 0 /\ Draft(desk.posted).kind = "REPRODUCED"
             /\ desk.advisory \in {"NONE", "FAILED"}

\* resolveAppeal moves forward only.
MayResolve(c) == \/ c = "acknowledge" /\ desk.appeal = "OPEN"
                 \/ c = "close" /\ desk.appeal \in {"OPEN", "ACKNOWLEDGED"}

Accepts(c) == CASE c \in Gate -> GateAccepts(c)
                [] c \in Resends -> ResendAccepts(c)
                [] c = "bind" -> MayBind
                [] c \in {"reproduce", "recheck"} -> Verdict # 0 /\ MayRecheck(Verdict)
                [] c \in {"approve", "deny"} -> Verdict # 0 /\ MayDecide(Verdict)
                [] c = "retryRecheck" -> MayRetryRecheck
                [] c = "cancelRecheck" -> MayCancelRecheck
                [] c = "retryDelivery" -> MayRetryHeld /\ State = "DELIVERING"
                [] c = "cancelReport" -> MayCancelHeld
                [] c \in Owners -> MayNotify
                [] c \in Appealing -> MayResolve(c)

-----------------------------------------------------------------------------
(* What an accepted click does.  A close commits before its reply is sent. *)

Denied == case' = [case EXCEPT !.state = "DENIED"]
Released == desk' = [desk EXCEPT !.gate = FALSE] /\ UNCHANGED case
Replied == \E reply \in {"SENT", "UNSENT"} : desk' = [desk EXCEPT !.reply = reply]

ClickGate(c) ==
    CASE c = "analysis" -> Released
      [] c = "build" -> desk' = [desk EXCEPT !.gate = FALSE, !.build = "PENDING"]
                        /\ UNCHANGED case
      [] c \in {"spam", "dismiss"} ->
           Denied /\ desk' = [desk EXCEPT !.gate = FALSE,
                                !.closed = IF c = "spam" THEN "spam" ELSE "rejected"]
      [] c \in {"reject", "duplicate"} ->
           /\ Denied
           /\ \E reply \in {"SENT", "UNSENT"} :
                desk' = [desk EXCEPT !.gate = FALSE, !.reply = reply,
                           !.closed = IF c = "reject" THEN "rejected" ELSE "duplicate"]

\* enqueueApprovedVerdictDelivery names the verdict its row carries.
Posting == desk' = IF case'.state = "DELIVERING" /\ case.state # "DELIVERING"
                   THEN [desk EXCEPT !.posted = case.pending] ELSE desk

\* The build's own target is bound by the build loop, which finds none there.
ClickBind == /\ \E to \in {"unowned", "owned"} :
                  /\ to = "owned" => desk.grant
                  /\ desk' = [desk EXCEPT !.target = to]
             /\ UNCHANGED case

\* The page it came from was this report's, whenever it was drawn.
Click(c) ==
    /\ Accepts(c)
    /\ c \in Gate \union Resends => c \in GateOf(desk.channel)
    /\ CASE c \in Gate -> ClickGate(c)
         [] c \in Resends -> Replied /\ UNCHANGED case
         [] c = "bind" -> ClickBind
         [] c \in {"reproduce", "recheck"} ->
              case.rechecks > 0 /\ case' = Rechecked(Verdict) /\ UNCHANGED desk
         [] c \in {"approve", "deny"} ->
              /\ case' = Decided_As(Verdict, IF c = "approve" THEN "APPROVED" ELSE "DENIED")
              /\ Posting
         [] c = "retryRecheck" -> RetryRecheck /\ UNCHANGED desk
         [] c = "cancelRecheck" -> CancelRecheck /\ UNCHANGED desk
         [] c = "retryDelivery" -> RetryHeld /\ UNCHANGED desk
         [] c = "cancelReport" -> CancelHeld /\ UNCHANGED desk
         [] c \in Owners -> desk' = [desk EXCEPT !.advisory = "PENDING"] /\ UNCHANGED case
         [] c \in Appealing -> /\ desk' = [desk EXCEPT !.appeal =
                                    IF c = "close" THEN "CLOSED" ELSE "ACKNOWLEDGED"]
                               /\ UNCHANGED case

-----------------------------------------------------------------------------
(* Everyone else.                                                          *)

\* A definitive verdict needs a bound target; an upload waits for its build.
Outcomes == IF desk.target = "none" THEN {"ANALYSIS_ONLY"} ELSE AllKinds
AgentMoves == /\ ~AtGate /\ desk.build # "PENDING"
              /\ \/ \E kind \in Outcomes : ParkVerdict(kind)
                 \/ \E how \in Ends : EndWithoutVerdict(how)
              /\ UNCHANGED desk
WorkerMoves == (RunMoves \/ Submit \/ Send) /\ UNCHANGED desk
Publishes == Publish /\ Posting
MailMoves == (\E what \in {"delivered", "bounced"} : Receipt(what)) /\ UNCHANGED desk

\* buildUploadOnce: a built target is bound unless a reviewer bound one.
BuildMoves == /\ desk.build = "PENDING"
              /\ \/ desk' = [desk EXCEPT !.build = "FAILED"]
                 \/ desk' = [desk EXCEPT !.build = "BUILT",
                                !.target = IF @ = "none" THEN "unowned" ELSE @]
              /\ UNCHANGED case

\* The grant of the repository that owns the target comes and goes.
GrantMoves == desk' = [desk EXCEPT !.grant = ~@] /\ UNCHANGED case

SenderMoves == /\ desk.advisory = "PENDING"
               /\ \E to \in {"SENT", "FAILED"} : desk' = [desk EXCEPT !.advisory = to]
               /\ UNCHANGED case

\* A reporter appeals a delivered verdict.
AppealMoves == /\ State = "DELIVERED" /\ desk.appeal = "NONE"
               /\ desk' = [desk EXCEPT !.appeal = "OPEN"] /\ UNCHANGED case

Closes == Retire /\ desk' = [desk EXCEPT !.gate = FALSE]

Elsewhere == \/ AgentMoves \/ WorkerMoves \/ Publishes \/ MailMoves \/ BuildMoves
             \/ GrantMoves \/ SenderMoves \/ AppealMoves \/ Closes

ControlsNext == Elsewhere \/ \E c \in Control : Click(c)

-----------------------------------------------------------------------------
\* The page knows less than the server about three controls: it draws Bind for
\* a target whose grant is gone, Retry on a send the provider has taken and
\* Notify on a repository whose grant is gone.
KnownToRefuse(c) == \/ c \in {"bind", "notifyOwner"} /\ ~desk.grant
                    \/ c = "retryDelivery" /\ case.delivery.stamped

\* And the server would take what the page does not draw: another channel's
\* gate, the reply to a report dismissed without one, a re-check of a
\* reproduced verdict (recheck-actions-view.ts: canOfferRecheck) and a
\* reproduction of anything but a bound report's analysis.
KnownToHide(c) ==
    \/ c \in Gate \union Resends /\ c \notin GateOf(desk.channel)
    \/ c = "resendDuplicate" /\ desk.reply = "SENT"
    \/ c \in {"reproduce", "recheck"} /\ Draft(Verdict).kind = "REPRODUCED"
    \/ c = "reproduce" /\ (desk.target = "none" \/ State # "ANALYSIS_ONLY")

OfferedIsAccepted == \A c \in Control : Offers(c) => Accepts(c) \/ KnownToRefuse(c)
AcceptedIsOffered == \A c \in Control : Accepts(c) => Offers(c) \/ KnownToHide(c)
NotifiesWhatItShows == NotifyOffered => desk.posted = Verdict

\* On rows as they are, the page draws a control exactly while the server
\* would take its click, but for the gaps named above; and the text the owner
\* dialog shows is the verdict the reporter received (target-control.tsx: "this
\* only keeps the control from inviting an action that cannot work";
\* owner-advisory-control.tsx: "the verdict the reporter received, exactly as
\* below").
ControlsMeanIt == OfferedIsAccepted /\ AcceptedIsOffered /\ NotifiesWhatItShows
=============================================================================
