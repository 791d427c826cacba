---------------------------- MODULE MCReviewDesk ----------------------------
(***************************************************************************)
(* One report, watched by one tab or one phone, while the agent, the       *)
(* workers, the mail provider and other reviewers move its rows.  The      *)
(* screen, the channel and whether a re-check happens are chosen at the    *)
(* start.  An unmounted dialog is what a client that never looked at a     *)
(* verdict has, so the worlds differ only in who acts.  On the third       *)
(* screen every control of the page is clicked; on the fourth a list the   *)
(* report is on is read.                                                   *)
(***************************************************************************)
EXTENDS ReviewDesk, CaseControls, Boards

CONSTANT Rechecks   \* bound: re-checks, retries of one and of a held send
ASSUME RechecksAssumption == Rechecks \in Nat

VARIABLE screen

vars == <<case, tab, phone, signed, desk, board, reader, screen>>

ScreensTypeOK ==
    /\ case.pending \in 0 .. MaxRevisions
    /\ DOMAIN case.decision = Revision
    /\ case.handoff.state \in {"NONE", "PENDING", "SUBMITTED", "FAILED"}
    /\ case.handoff.attempts \in 0 .. SubmitAttempts
    /\ case.delivery.state \in {"NONE", "PENDING", "SENT", "FAILED"}
    /\ case.delivery.attempts \in 0 .. SendAttempts
    /\ tab.dialog.at \in {"closed", "open", "confirming", "sending"}
    /\ phone.at \in {"idle", "prompt", "posting", "changed"}
    /\ screen \in {"tab", "phone", "controls", "boards"}

\* Who files a report: a sender known or unknown, with material or without.
Filings == {[channel |-> "email", gate |-> FALSE, material |-> FALSE],
            [channel |-> "github", gate |-> FALSE, material |-> FALSE],
            [channel |-> "advisory", gate |-> TRUE, material |-> FALSE]} \union
           [channel : {"email", "upload"}, gate : {TRUE}, material : BOOLEAN]

NoDesk == desk = [gate |-> FALSE]
NoBoard == board = [gate |-> FALSE] /\ reader = [answer |-> NoAnswer]
Init == /\ \/ /\ screen = "tab" /\ NoDesk /\ NoBoard
              /\ CaseInit(FALSE, Rechecks)
           \/ /\ screen = "phone" /\ NoDesk /\ NoBoard
              /\ \E mail \in BOOLEAN : CaseInit(mail, Rechecks)
           \/ /\ screen = "controls" /\ NoBoard
              /\ \E f \in Filings : ControlsInit(f.channel, f.gate, f.material)
           \/ /\ screen = "boards" /\ NoDesk
              /\ \E mail, gated \in BOOLEAN : BoardsInit(mail, gated, Rechecks)
        /\ TabInit /\ PhoneInit
        /\ signed = {}

NoLists == UNCHANGED <<board, reader, screen>>
Still == UNCHANGED <<tab, phone, signed, desk>> /\ NoLists

Agent == \/ \E kind \in Kinds : ParkVerdict(kind)
         \/ \E how \in Ends : EndWithoutVerdict(how)
         \/ SessionLost
         \/ Publish
Workers == RunMoves \/ Submit \/ Send
Provider == \E what \in {"delivered", "bounced", "complained"} : Receipt(what)
Others == \/ \E r \in Revision : \/ MayDecide(r) /\ \E o \in {"APPROVED", "DENIED"} :
                                        case' = Decided_As(r, o)
                                 \/ MayRecheck(r) /\ case.rechecks > 0 /\ case' = Rechecked(r)
          \/ RetryRecheck \/ CancelRecheck \/ RetryHeld \/ CancelHeld \/ Retire

TabStep == Ask \/ Focus \/ Answer \/ Open \/ Choose \/ Back \/ Confirm \/ Arrives
           \/ Lost \/ Returns
PhoneStep == Refresh \/ Tap \/ Prompted \/ Post \/ Reread

Next == \/ screen \in {"tab", "phone"} /\ (Agent \/ Workers \/ Provider \/ Others) /\ Still
        \/ screen = "tab" /\ TabStep /\ UNCHANGED desk /\ NoLists
        \/ screen = "phone" /\ PhoneStep /\ UNCHANGED desk /\ NoLists
        \/ screen = "controls" /\ ControlsNext /\ UNCHANGED <<tab, phone, signed>> /\ NoLists
        \/ screen = "boards" /\ BoardsNext /\ UNCHANGED <<tab, phone, signed, desk, screen>>

Spec == Init /\ [][Next]_vars

\* An open tab: its timer fires, the status route answers, a call returns.
FairSpec == /\ Spec
            /\ WF_vars(screen = "tab" /\ Ask /\ UNCHANGED desk /\ NoLists)
            /\ WF_vars(screen = "tab" /\ Answer /\ UNCHANGED desk /\ NoLists)
            /\ WF_vars(screen = "tab" /\ Returns /\ UNCHANGED desk /\ NoLists)

-----------------------------------------------------------------------------
\* What a fresh page says is so (case.ts, case-view.ts): the approval button
\* is there exactly while decide would take the verdict behind it, each row
\* of the lifecycle is reached through the one above, a control for a held
\* send or a stopped re-check is there exactly while it would work, and a send or a
\* hand-over that reads as over or held is one no worker takes up again.
ButtonIsLive == \A r \in Revision : AwaitingVerdict = r <=> MayDecide(r)
StepsInOrder == /\ ApprovalStep = "done" => VerdictStep = "done"
                /\ DeliveryStep \in {"current", "done"} => ApprovalStep = "done"
                /\ AwaitingVerdict # 0 => Investigation # "current"
OverIsOver == /\ DeliveryNote \in {"held", "failed"} =>
                    IF DeliveryShown = NoDelivery THEN ~Submittable ELSE ~Sendable
              /\ DeliveryNote = "handing off" => (Submittable \/ case.handoff.told)
ControlsMatch == /\ OffersDelivery <=> MayCancelHeld
                 /\ "retry" \in OffersRecheck <=> MayRetryRecheck
                 /\ "cancel" \in OffersRecheck <=> MayCancelRecheck
FreshViewTellsTruth == ButtonIsLive /\ ControlsMatch /\ StepsInOrder /\ OverIsOver

\* The phone signs the verdict it was tapped on, or none: what the refetch
\* behind the prompt brings back is compared, never signed (VerdictReview).
PhoneSignsWhatItShowed == \A s \in signed : s.on = "phone" => s.verdict = s.chose

\* A page that has stopped asking misses nothing the program does by itself
\* (caseRefetchInterval): from there the rows move only by a person's hand,
\* by a mail receipt or by the harness acting on a decision it has.  (What a
\* hand-over does under a report that is over is not followed.)
ByItself == Workers \/ (Agent /\ ~Publish)
QuietIsStill == (~Polls /\ case.state \notin Terminal /\ ByItself) => LiveView' = LiveView

\* A visible tab ends up showing the report as it is, or says it is at an
\* end: terminal, failed or held (caseRefetchInterval, refreshReportViews).
PageCatchesUp == <>[](screen = "tab" => (tab.view = LiveView \/ tab.view.over))

\* The controls of the page, in the world they are clicked in.
PageMeansIt == screen = "controls" => ControlsMeanIt

\* The lists, in the world one is read in.
ListsMeanIt == screen = "boards" => ListsAreTrue

\* What a page that polls or has stopped polling shows: the two together.
PageIsCurrent == [][QuietIsStill]_vars /\ PageCatchesUp
=============================================================================
