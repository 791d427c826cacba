------------------------------- MODULE Review -------------------------------
(***************************************************************************)
(* The human gate: a reviewer's decision (src/lib/review/decide.ts), the   *)
(* publish_verdict tool the harness calls and the queueing of an approved  *)
(* verdict (src/lib/mcp/publish-verdict.ts), and the retirement of a       *)
(* report (src/lib/reports/retire.ts, expiry.ts).  Then the worker that    *)
(* tells the harness what was decided (src/lib/approval-submission) and    *)
(* points the session at the turn that carries the answer.                 *)
(*                                                                         *)
(* publish_verdict may be called at any time with any capability there     *)
(* ever was: that the harness asks is never taken as consent.              *)
(***************************************************************************)
EXTENDS ApprovalState

rest == <<verdict, superseded, run, harness, procs, clock>>

\* canDecide, and canDeliver in enqueueApprovedVerdictDelivery.
Reviewable(r) == \/ report = "AWAITING_APPROVAL"
                 \/ report = "ANALYSIS_ONLY" /\ verdict[r].kind = "ANALYSIS_ONLY"

\* The verdict shown is the pending one, is not superseded and is undecided.
Decidable(r) == /\ r \notin superseded
                /\ decision[r] = Undecided
                /\ Reviewable(r)
                /\ session.pend.rev = r

Decides(r, outcome) ==
    decision' = [decision EXCEPT ![r] = [outcome |-> outcome, call |-> session.pend.call]]

\* Both answers to a harness call, and an approval of it: told to the harness.
Submits(r) == submission' = [submission EXCEPT ![r].state = "PENDING"]

Approve(r) ==
    /\ Decidable(r)
    /\ session.pend.call # Synth
    /\ Decides(r, "APPROVED")
    /\ Submits(r)
    /\ UNCHANGED <<report, outbox, session, rest>>

Deny(r) ==
    /\ Decidable(r)
    /\ Decides(r, "DENIED")
    /\ IF session.pend.call # Synth THEN Submits(r) ELSE UNCHANGED submission
    /\ MoveTo("DENIED")
    /\ UNCHANGED <<outbox, session, rest>>

\* enqueueApprovedVerdictDelivery; a destination it refuses changes nothing.
Enqueue(r) ==
    /\ Reviewable(r)
    /\ outbox' = outbox \union {r}
    /\ MoveTo("DELIVERING")
    /\ session' = [session EXCEPT !.pend = NoPending]

\* A synthesized verdict has no harness call: approving it is its publish step.
ApproveSynthesized(r) ==
    /\ Decidable(r)
    /\ session.pend.call = Synth
    /\ Decides(r, "APPROVED")
    /\ Enqueue(r)
    /\ UNCHANGED <<submission, rest>>

\* Mutant: the call itself is taken for consent.
Approved_Trusting(pend) == /\ pend.rev # 0 /\ pend.call # Synth
                           /\ pend.rev \notin superseded

\* publishVerdict: resolved from the capability, proved from the decision.
Approved(pend) == /\ pend.rev # 0 /\ pend.call # Synth
                  /\ decision[pend.rev] = [outcome |-> "APPROVED", call |-> pend.call]
                  /\ pend.rev \notin superseded

Publish(capability) ==
    /\ session.sess = capability
    /\ Approved(session.pend)
    /\ Enqueue(session.pend.rev)
    /\ UNCHANGED <<decision, submission, rest>>

\* The delivery worker posted it (Delivery models how).
Deliver ==
    /\ report = "DELIVERING"
    /\ MoveTo("DELIVERED")
    /\ UNCHANGED <<decision, outbox, session, submission, rest>>

\* An operator, or the expiry sweep.
Retire ==
    /\ report \notin Closed
    /\ \E state \in {"CANCELLED", "EXPIRED"} : MoveTo(state)
    /\ UNCHANGED <<decision, outbox, session, submission, rest>>

ReviewNext ==
    \/ Deliver \/ Retire
    \/ \E r \in DOMAIN verdict : Approve(r) \/ Deny(r) \/ ApproveSynthesized(r)
    \/ \E capability \in 1 .. sessions : Publish(capability)
-----------------------------------------------------------------------------
\* The approval-submission worker.

Row(s) == submission[submitter[s].rev]
Holds(s) == submitter[s] # NotSubmitting /\ Row(s).holder = s
In(s, phase) == submitter[s].phase = phase
Goes(s, phase) == submitter' = [submitter EXCEPT ![s].phase = phase]
Leaves(s) == submitter' = [submitter EXCEPT ![s] = NotSubmitting]
Settle(s, state) ==
    submission' = [submission EXCEPT ![submitter[s].rev].state = state,
                                     ![submitter[s].rev].holder = Nobody]

aside == <<record, run, sessions, poller, runner>>

\* Mutant: the last attempt is never made.
Submittable_TooFew(r) == /\ submission[r].state \in {"PENDING", "FAILED"}
                         /\ submission[r].attempts + 1 < SubmitAttempts
                         /\ submission[r].holder = Nobody

Submittable(r) == /\ submission[r].state \in {"PENDING", "FAILED"}
                  /\ submission[r].attempts < SubmitAttempts
                  /\ submission[r].holder = Nobody

SubmitClaim(s) ==
    /\ In(s, "idle")
    /\ world.submits
    /\ \E r \in Rev :
         /\ Submittable(r)
         /\ submission' = [submission EXCEPT ![r].attempts = @ + 1, ![r].holder = s]
         /\ submitter' = [submitter EXCEPT ![s] =
                [phase |-> "check", rev |-> r, sess |-> 0, turn |-> 0, next |-> 0]]
    /\ UNCHANGED <<aside, session, turns, clock>>

\* The decision still answers what the session has pending.
StillPending(r) == session.pend = [rev |-> r, call |-> decision[r].call]

SubmitCheck(s) ==
    /\ In(s, "check")
    /\ submitter' = [submitter EXCEPT
            ![s].phase = IF StillPending(submitter[s].rev) THEN "find" ELSE "refuse",
            ![s].sess = session.sess, ![s].turn = session.turn]
    /\ UNCHANGED <<aside, session, submission, turns, clock>>

\* failPermanently: the attempts are left as they are.
SubmitRefuse(s) ==
    /\ In(s, "refuse")
    /\ Holds(s)
    /\ Settle(s, "FAILED")
    /\ Leaves(s)
    /\ UNCHANGED <<aside, session, turns, clock>>

\* Mutant: whatever was decided is passed on as an approval.
Allows_Always(r) == TRUE

Allows(r) == decision[r].outcome = "APPROVED"

FindAnswer(s) ==
    /\ In(s, "find")
    /\ Holds(s)
    /\ LET me == submitter[s]
           found == Answers(me.sess, decision[me.rev].call, Allows(me.rev))
       IN IF found = {} THEN Goes(s, "create")
          ELSE \E t \in found :
                 submitter' = [submitter EXCEPT ![s].phase = "mark", ![s].next = t]
    /\ UNCHANGED <<aside, session, submission, turns, clock>>

CreateAnswer(s) ==
    /\ In(s, "create")
    /\ LET me == submitter[s] IN
         /\ Alive(me.sess) /\ Len(turns) < MaxTurns
         /\ turns' = Append(turns, Started(me.sess, decision[me.rev].call, Allows(me.rev)))
    /\ submitter' = [submitter EXCEPT ![s].phase = "mark", ![s].next = Len(turns')]
    /\ UNCHANGED <<aside, session, submission, clock>>

Unchanged(s) == /\ session.turn = submitter[s].turn
                /\ StillPending(submitter[s].rev)

\* markSubmitted and the session's hand-over, in one transaction.
MarkSubmitted(s) ==
    /\ In(s, "mark")
    /\ Holds(s)
    /\ Unchanged(s)
    /\ Settle(s, "SUBMITTED")
    /\ session' = [session EXCEPT
            !.turn = submitter[s].next, !.status = "RUNNING", !.holder = Nobody,
            !.pend = IF Allows(submitter[s].rev) THEN @ ELSE NoPending]
    /\ Leaves(s)
    /\ UNCHANGED <<aside, turns, clock>>

\* fail(): an error of a read, of the harness, or of the hand-over.
SubmitFails(s) ==
    /\ submitter[s].phase \in {"check", "find", "create", "mark"}
    /\ Holds(s)
    /\ Settle(s, IF Row(s).attempts >= SubmitAttempts THEN "FAILED" ELSE "PENDING")
    /\ Leaves(s)
    /\ UNCHANGED <<aside, session, turns, clock>>

\* releaseUnstarted: the harness was slow, or the tick is over.
HandBack(s) ==
    /\ submitter[s].phase \in {"find", "create", "mark"}
    /\ Holds(s)
    /\ Lapse
    /\ submission' = [submission EXCEPT ![submitter[s].rev].attempts = @ - 1,
                                        ![submitter[s].rev].holder = Nobody]
    /\ Leaves(s)
    /\ UNCHANGED <<aside, session, turns>>

SubmitLost(s) ==
    /\ submitter[s].phase \in {"refuse", "find", "create", "mark"}
    /\ ~Holds(s)
    /\ Leaves(s)
    /\ UNCHANGED <<aside, session, submission, turns, clock>>

SubmitCrash(s) ==
    /\ submitter[s] # NotSubmitting
    /\ Lapse
    /\ Leaves(s)
    /\ UNCHANGED <<aside, session, submission, turns>>

\* As for a session: the lease of the dead runs out, a stalled one may.
SubmitExpire(r) ==
    /\ submission[r].holder # Nobody
    /\ IF In(submission[r].holder, "idle") THEN UNCHANGED clock ELSE Lapse
    /\ submission' = [submission EXCEPT ![r].holder = Nobody]
    /\ UNCHANGED <<aside, session, turns, submitter>>

\* sweepExpiredLeases: a row whose last attempt died.
SubmitBury(r) ==
    /\ submission[r].state = "PENDING"
    /\ submission[r].attempts >= SubmitAttempts
    /\ submission[r].holder = Nobody
    /\ submission' = [submission EXCEPT ![r].state = "FAILED"]
    /\ UNCHANGED <<aside, session, turns, submitter, clock>>

SubmitStep(s) ==
    \/ SubmitClaim(s) \/ SubmitCheck(s) \/ SubmitRefuse(s) \/ FindAnswer(s)
    \/ CreateAnswer(s) \/ MarkSubmitted(s) \/ SubmitFails(s) \/ SubmitLost(s)

SubmissionNext ==
    \/ \E r \in Rev : SubmitExpire(r) \/ SubmitBury(r)
    \/ \E s \in Submitter : SubmitStep(s) \/ HandBack(s) \/ SubmitCrash(s)
==============================================================================
