----------------------------- MODULE ReviewDesk -----------------------------
(***************************************************************************)
(* The screens a verdict is signed on: the report page in a browser tab,   *)
(* whose button opens a dialog over the polled view (case-approval.tsx,    *)
(* approval-dialog.tsx), and the phone, which refetches behind a biometric *)
(* prompt before it posts (mobile/components/VerdictReview.tsx).  Both are *)
(* one commit behind the rows of CaseFile, which other people and workers  *)
(* move meanwhile.                                                         *)
(***************************************************************************)
EXTENDS CaseFile

VARIABLES tab,      \* the page: its view, the fetch in flight, the dialog
          phone,    \* the phone: its view and where the approval stands
          signed    \* history: what was signed here, and what was on screen

NoFetch == [state |-> "NONE"]
Closed == [at |-> "closed", chose |-> 0, sent |-> 0, outcome |-> "NONE", result |-> "none"]

\* One re-check from a dialog: its recheckState stays "sent".
Kept(dialog, at) == [Closed EXCEPT !.at = at, !.result =
                        IF dialog.result = "asked" THEN "asked" ELSE "none"]

TabInit == tab = [view |-> LiveView, fetch |-> NoFetch, dialog |-> Closed]
PhoneInit == phone = [view |-> LiveView, at |-> "idle", tapped |-> 0, posts |-> 0,
                      outcome |-> "NONE"]

-----------------------------------------------------------------------------
(* The page asks on its interval, and on focus whatever the interval says. *)
(* An answer that would change nothing is left out.                        *)

Ask == /\ tab.fetch = NoFetch /\ tab.view.polls /\ tab.view # LiveView
       /\ tab' = [tab EXCEPT !.fetch = LiveView]
       /\ UNCHANGED <<case, phone, signed>>

Focus == /\ tab.fetch = NoFetch /\ ~tab.view.polls /\ tab.view # LiveView
         /\ tab' = [tab EXCEPT !.fetch = LiveView]
         /\ UNCHANGED <<case, phone, signed>>

\* With nothing left to answer the dialog is unmounted, its state with it; a
\* reply still on its way has no dialog to land in.
Shows(view, dialog) == [view |-> view, fetch |-> NoFetch,
                        dialog |-> IF view.awaiting = 0 /\ dialog.at # "sending"
                                   THEN Closed ELSE dialog]

Answer == /\ tab.fetch # NoFetch
          /\ tab' = Shows(tab.fetch, tab.dialog)
          /\ UNCHANGED <<case, phone, signed>>

Open == /\ tab.view.awaiting # 0 /\ tab.dialog.at = "closed"
        /\ tab' = [tab EXCEPT !.dialog.at = "open"]
        /\ UNCHANGED <<case, phone, signed>>

Choose == /\ tab.dialog.at = "open"
          /\ \E outcome \in {"APPROVED", "DENIED", "RECHECK"} :
               /\ outcome = "RECHECK" => /\ tab.dialog.result # "asked"
                                        /\ MayAskRecheck(tab.view.awaiting)
               /\ tab' = [tab EXCEPT !.dialog = [Kept(@, "confirming") EXCEPT
                          !.outcome = outcome, !.chose = tab.view.awaiting]]
          /\ UNCHANGED <<case, phone, signed>>

Back == /\ tab.dialog.at \in {"open", "confirming"}
        /\ tab' = [tab EXCEPT !.dialog = Kept(@, "closed")]
        /\ UNCHANGED <<case, phone, signed>>

\* The request names the verdict of the view at this click.
Confirm == /\ tab.dialog.at = "confirming"
           /\ tab' = [tab EXCEPT !.dialog.at = "sending", !.dialog.sent = tab.view.awaiting,
                                  !.dialog.result = "none"]
           /\ UNCHANGED <<case, phone, signed>>

\* allowVerdict, denyVerdict, requestRecheckAction.
Arrives ==
    LET d == tab.dialog IN
    /\ d.at = "sending" /\ d.result = "none"
    /\ IF d.outcome = "RECHECK"
       THEN IF MayRecheck(d.sent) /\ case.rechecks > 0
            THEN /\ case' = Rechecked(d.sent) /\ tab' = [tab EXCEPT !.dialog.result = "ok"]
                 /\ UNCHANGED signed
            ELSE tab' = [tab EXCEPT !.dialog.result = "refused"] /\ UNCHANGED <<case, signed>>
       ELSE IF MayDecide(d.sent)
            THEN /\ case' = Decided_As(d.sent, d.outcome)
                 /\ tab' = [tab EXCEPT !.dialog.result = "ok"]
                 /\ signed' = signed \union {[on |-> "tab", verdict |-> d.sent, chose |-> d.chose]}
            ELSE tab' = [tab EXCEPT !.dialog.result = "refused"] /\ UNCHANGED <<case, signed>>
    /\ UNCHANGED phone

\* The call is lost on its way there or back.
Lost == /\ tab.dialog.at = "sending" /\ tab.dialog.result # "lost"
        /\ tab' = [tab EXCEPT !.dialog.result = "lost"]
        /\ UNCHANGED <<case, phone, signed>>

\* A decision that landed is written over the view before the refetch, and
\* the fetch in flight is dropped: it may be older than the decision.
Optimistic(view, outcome) ==
    [view EXCEPT !.decision = outcome, !.awaiting = 0]

Returns ==
    LET d == tab.dialog IN
    /\ d.at = "sending" /\ d.result # "none"
    /\ tab' = IF d.result = "ok" /\ d.outcome # "RECHECK"
              THEN [view |-> Optimistic(tab.view, d.outcome), fetch |-> LiveView,
                    dialog |-> Closed]
              ELSE [tab EXCEPT
                      !.fetch = IF d.outcome = "RECHECK" THEN @ ELSE LiveView,
                      !.dialog = IF tab.view.awaiting = 0 THEN Closed
                                 ELSE IF d.outcome = "RECHECK" /\ d.result = "ok"
                                 THEN [Closed EXCEPT !.at = "open", !.result = "asked"]
                                 ELSE [Closed EXCEPT !.at = "open"]]
    /\ UNCHANGED <<case, phone, signed>>

-----------------------------------------------------------------------------
(* The phone.                                                              *)

\* awaitsApproval
AwaitsApproval(view) == /\ view.state = "AWAITING_APPROVAL" /\ view.shown # 0
                        /\ ~view.superseded
                        /\ view.awaiting \in {0, view.shown}

Refresh == /\ phone.at = "idle" /\ phone.view # LiveView
           /\ phone' = [phone EXCEPT !.view = LiveView]
           /\ UNCHANGED <<case, tab, signed>>

\* Approve records the verdict on screen; the deny sheet is handed it.
Tap == /\ phone.at = "idle" /\ AwaitsApproval(phone.view)
       /\ \E outcome \in {"APPROVED", "DENIED"} :
            phone' = [phone EXCEPT !.at = "prompt", !.tapped = phone.view.shown,
                                   !.outcome = outcome]
       /\ UNCHANGED <<case, tab, signed>>

Prompted_Fresh ==  \* mutant: signs whatever the refetch brought
    /\ phone.at = "prompt"
    /\ \/ phone' = [phone EXCEPT !.at = "idle"]
       \/ phone' = [phone EXCEPT !.view = LiveView, !.at = "posting",
                                 !.posts = LiveView.shown]
    /\ UNCHANGED <<case, tab, signed>>

\* The prompt or the sheet is passed or dismissed; passing it refetches and
\* compares, and the sheet asks again whether the verdict still waits.
Prompted ==
    /\ phone.at = "prompt"
    /\ \/ phone' = [phone EXCEPT !.at = "idle"]
       \/ LET same == /\ LiveView.shown = phone.tapped
                      /\ phone.outcome = "DENIED" => AwaitsApproval(LiveView)
          IN phone' = [phone EXCEPT !.view = LiveView, !.posts = phone.tapped,
                                    !.at = IF same THEN "posting" ELSE "changed"]
    /\ UNCHANGED <<case, tab, signed>>

\* handleDecision: decide, with the hash of the text that was shown.
Post ==
    /\ phone.at = "posting"
    /\ IF MayDecide(phone.posts)
       THEN /\ case' = Decided_As(phone.posts, phone.outcome)
            /\ signed' = signed \union {[on |-> "phone", verdict |-> phone.posts,
                                         chose |-> phone.tapped]}
       ELSE UNCHANGED <<case, signed>>
    /\ phone' = [phone EXCEPT !.at = "idle"]
    /\ UNCHANGED tab

Reread == /\ phone.at = "changed"
          /\ phone' = [phone EXCEPT !.at = "idle", !.view = LiveView]
          /\ UNCHANGED <<case, tab, signed>>
=============================================================================
