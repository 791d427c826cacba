----------------------------- MODULE AgentPoller -----------------------------
(***************************************************************************)
(* The agent-session poller (src/lib/agent-sessions) and the drafting of a *)
(* verdict it calls (draftVerdictFromPendingCall in                        *)
(* src/lib/mcp/publish-verdict.ts).  A poller claims the session row,      *)
(* reads the report, asks the harness about the turn it saw, and acts on   *)
(* the answer; writes to the session row are fenced, drafting is not.      *)
(***************************************************************************)
EXTENDS ApprovalState

Held(p) == session.holder = p

At(p, phase) == poller[p].phase = phase
Go(p, phase) == poller' = [poller EXCEPT ![p].phase = phase]
Ending(p, as) == poller' = [poller EXCEPT ![p].phase = "end", ![p].as = as]
Done(p) == poller' = [poller EXCEPT ![p] = NotPolling]
Release(new) == session' = [new EXCEPT !.holder = Nobody]
Asked(p) == turns[poller[p].seen.turn]

others == <<run, submission, submitter, runner, clock>>

-----------------------------------------------------------------------------
Claim(p) ==
    /\ At(p, "idle")
    /\ Cardinality({q \in Poller : ~At(q, "idle")}) < world.pollers
    /\ session.status \notin TurnOver
    /\ session.holder = Nobody
    /\ session' = [session EXCEPT !.holder = p]
    /\ poller' = [poller EXCEPT ![p] = [phase |-> "check", seen |-> Seen(session), rev |-> 0,
                                        next |-> 0, as |-> "open"]]
    /\ UNCHANGED <<record, harness, others>>

CheckReport(p) ==
    /\ At(p, "check")
    /\ IF report \in Closed THEN Ending(p, "CANCELLED") ELSE Go(p, "ask")
    /\ UNCHANGED <<record, session, harness, others>>

\* Mutant: an open turn has no deadline.
IsOverdue_Never(p) == FALSE

\* The deadline counts only for a first investigation still seen running.
IsOverdue(p) == /\ overdue
                /\ poller[p].seen.status \in TurnOpen
                /\ report = "TRIAGING"

\* The call was put before the reviewer by an earlier poll.
IsRecorded(seen) == /\ seen.status = "AWAITING_APPROVAL_HARNESS"
                    /\ seen.pend.rev # 0
                    /\ seen.pend.call = seen.turn

Attend(p, form) ==
    CASE form = "odd"   -> Ending(p, "ERROR")
      [] form = "gated" -> Go(p, "find")
      [] OTHER          -> IF IsRecorded(poller[p].seen) THEN Go(p, "park")
                           ELSE Go(p, IF form = "draft" THEN "draft" ELSE "verify")

\* pollOnce from the harness call to the switch on what it answered.
Ask(p) ==
    /\ At(p, "ask")
    /\ CASE Asked(p).status = "running"   -> IF IsOverdue(p) THEN Ending(p, "ERROR")
                                                            ELSE Go(p, "follow")
         [] Asked(p).status = "awaiting"  -> Attend(p, Asked(p).form)
         [] Asked(p).status = "done"      -> Ending(p, "DONE_NO_ACTION")
         [] Asked(p).status = "cancelled" -> Ending(p, "CANCELLED")
         [] OTHER                         -> Ending(p, "ERROR")
    /\ UNCHANGED <<record, session, harness, others>>

Follow(p) ==
    /\ At(p, "follow")
    /\ Held(p)
    /\ Release([session EXCEPT !.status = "INVESTIGATING"])
    /\ Done(p)
    /\ UNCHANGED <<record, harness, others>>

Park(p) ==
    /\ At(p, "park")
    /\ Held(p)
    /\ Release(session)
    /\ Done(p)
    /\ UNCHANGED <<record, harness, others>>

-----------------------------------------------------------------------------
\* resumeApprovalTurn: answer a gated call and follow the turn it resumes.
FindTurn(p) ==
    /\ At(p, "find")
    /\ LET found == UNION {Answers(poller[p].seen.sess, poller[p].seen.turn, a) : a \in BOOLEAN}
       IN IF found = {} THEN Go(p, "create")
          ELSE \E t \in found :
                 poller' = [poller EXCEPT ![p].phase = "handover", ![p].next = t]
    /\ UNCHANGED <<record, session, harness, others>>

CreateTurn(p) ==
    /\ At(p, "create")
    /\ Alive(poller[p].seen.sess) /\ Len(turns) < MaxTurns
    /\ \E allow \in BOOLEAN :
         turns' = Append(turns, Started(poller[p].seen.sess, poller[p].seen.turn, allow))
    /\ poller' = [poller EXCEPT ![p].phase = "handover", ![p].next = Len(turns')]
    /\ UNCHANGED <<record, session, sessions, others>>

\* The session is gone: the error leaves pollOnce and the lease behind.
ResumeThrows(p) ==
    /\ poller[p].phase \in {"find", "create"}
    /\ ~Alive(poller[p].seen.sess)
    /\ Done(p)
    /\ UNCHANGED <<record, session, harness, others>>

HandOver(p) ==
    /\ At(p, "handover")
    /\ Held(p)
    /\ Release([session EXCEPT !.turn = poller[p].next, !.status = "RUNNING"])
    /\ Done(p)
    /\ UNCHANGED <<record, harness, others>>

-----------------------------------------------------------------------------
\* draftVerdictFromPendingCall: one transaction, no look at the lease.

\* The capability resolves to the session row, or to nothing.
Known(p) == session.sess = poller[p].seen.sess

\* assertVerdictInsertAllowed, before the grant a definite outcome needs.
MayInsert == report \notin Closed \union {"DELIVERING"}

FollowUps == {r \in DOMAIN verdict : r > 1 /\ r \notin superseded}

\* Mutant: a second draft of one run is a new revision.
Standing_AlwaysNew == 0

\* The revision on record a draft must agree with, 0 when there is none.
Standing == IF superseded # {} /\ FollowUps # {} THEN CHOOSE r \in FollowUps : TRUE
            ELSE IF superseded = {} /\ verdict # <<>> THEN 1
            ELSE 0

Agrees(p) == verdict[Standing].by = poller[p].seen.turn

DraftStored(p) ==
    /\ At(p, "draft")
    /\ Known(p) /\ MayInsert /\ Standing = 0
    /\ Len(verdict) + 1 \in Rev
    /\ verdict' = Append(verdict, [by |-> poller[p].seen.turn, kind |-> Asked(p).kind])
    /\ poller' = [poller EXCEPT ![p].phase = "verify", ![p].rev = Len(verdict')]
    /\ UNCHANGED <<report, superseded, decision, outbox, session, harness, others>>

DraftRepeated(p) ==
    /\ At(p, "draft")
    /\ Known(p) /\ Standing # 0 /\ Agrees(p)
    /\ superseded = {} => MayInsert
    /\ poller' = [poller EXCEPT ![p].phase = "verify", ![p].rev = Standing]
    /\ UNCHANGED <<record, session, harness, others>>

DraftRefused(p) ==
    /\ At(p, "draft")
    /\ \/ ~Known(p)
       \/ superseded # {} /\ Standing # 0 /\ ~Agrees(p)
       \/ /\ superseded = {} \/ Standing = 0
          /\ ~MayInsert \/ Asked(p).kind = "DEFINITE"
    /\ Ending(p, "ERROR")
    /\ UNCHANGED <<record, session, harness, others>>

\* VerdictIntegrityError: retried until three claims have seen it (a crash
\* of this poll, below), then the session is abandoned.
DraftConflicts(p) ==
    /\ At(p, "draft")
    /\ Known(p) /\ MayInsert /\ superseded = {} /\ Standing # 0 /\ ~Agrees(p)
    /\ Go(p, "abandon")
    /\ UNCHANGED <<record, session, harness, others>>

Abandon(p) ==
    /\ At(p, "abandon")
    /\ Held(p)
    /\ Release([session EXCEPT !.status = "ERROR"])
    /\ IF report = "REPRODUCING"
       THEN /\ MoveTo("ANALYSIS_ONLY")
            /\ run' = [k \in DOMAIN run |->
                         IF run[k].status = "RUNNING"
                         THEN [run[k] EXCEPT !.status = "ERROR", !.holder = Nobody]
                         ELSE run[k]]
       ELSE UNCHANGED <<report, run>>
    /\ Done(p)
    /\ UNCHANGED <<verdict, superseded, decision, outbox, submission, harness,
                   submitter, runner, clock>>

-----------------------------------------------------------------------------
\* handleVerifiedPendingCall: put the newest revision before the reviewer.

Newest == Len(verdict)
Call(p) == [rev |-> Newest, call |-> poller[p].seen.turn]
IsAnalysis == verdict[Newest].kind = "ANALYSIS_ONLY"

\* A verdict already before the reviewer may only be seen again unchanged.
SameCall(p) == /\ poller[p].seen.pend = Call(p)
               /\ poller[p].rev \in {0, Newest}

MayRecord(p) ==
    \/ report \in Investigating
    \/ report = "ANALYSIS_ONLY" /\ ~IsAnalysis
    \/ report = "ANALYSIS_ONLY" /\ (poller[p].seen.pend.rev = 0 \/ SameCall(p))
    \/ report = "AWAITING_APPROVAL" /\ SameCall(p)

Verify(p) ==
    /\ At(p, "verify")
    /\ Held(p)
    /\ verdict # <<>>
    /\ MayRecord(p)
    /\ MoveTo(IF IsAnalysis /\ report # "AWAITING_APPROVAL" THEN "ANALYSIS_ONLY"
                                                          ELSE "AWAITING_APPROVAL")
    /\ run' = RunsOf(poller[p].seen.sess, "AWAITING_APPROVAL")
    /\ Release([session EXCEPT !.status = "AWAITING_APPROVAL_HARNESS", !.pend = Call(p)])
    /\ Done(p)
    /\ UNCHANGED <<verdict, superseded, decision, outbox, submission, harness,
                   submitter, runner, clock>>

VerifyRefused(p) ==
    /\ At(p, "verify")
    /\ Held(p)
    /\ verdict # <<>>
    /\ ~MayRecord(p)
    /\ Release([session EXCEPT !.status = "ERROR"])
    /\ Done(p)
    /\ UNCHANGED <<record, harness, others>>

\* "has no verdict for publish_verdict to approve": thrown, lease kept.
VerifyThrows(p) ==
    /\ At(p, "verify")
    /\ Held(p)
    /\ verdict = <<>>
    /\ Done(p)
    /\ UNCHANGED <<record, session, harness, others>>

-----------------------------------------------------------------------------
\* endWithoutAgentVerdict: the turn ended with nothing a human can be shown.

EndSession(p, pend) ==
    /\ Release([session EXCEPT !.status = poller[p].as, !.pend = pend])
    /\ run' = RunsOf(poller[p].seen.sess,
                     IF poller[p].as = "DONE_NO_ACTION" THEN "DONE" ELSE poller[p].as)
    /\ Done(p)
    /\ UNCHANGED <<superseded, decision, outbox, submission, harness, submitter,
                   runner, clock>>

\* routeUnreproducibleTarget: a static review that had no source to read.
EndOutOfScope(p) ==
    /\ At(p, "end")
    /\ Held(p)
    /\ report = "TRIAGING"
    /\ verdict = <<>>
    /\ MoveTo("OUT_OF_SCOPE")
    /\ EndSession(p, NoPending)
    /\ UNCHANGED verdict

\* synthesizeAnalysisOnlyVerdict, only when no revision 1 exists.
EndInvestigation(p) ==
    /\ At(p, "end")
    /\ Held(p)
    /\ report \in Investigating
    /\ MoveTo("ANALYSIS_ONLY")
    /\ IF verdict = <<>>
       THEN /\ verdict' = <<[by |-> Synth, kind |-> "ANALYSIS_ONLY"]>>
            /\ EndSession(p, [rev |-> 1, call |-> Synth])
       ELSE /\ EndSession(p, NoPending)
            /\ UNCHANGED verdict

EndElsewhere(p) ==
    /\ At(p, "end")
    /\ Held(p)
    /\ report \notin Investigating
    /\ EndSession(p, NoPending)
    /\ UNCHANGED <<report, verdict>>

-----------------------------------------------------------------------------
\* LeaseLostError out of any fenced write; the poll ends there.
LeaseLost(p) ==
    /\ poller[p].phase \in PollPhases \ {"check", "draft"}
    /\ ~Held(p)
    /\ Done(p)
    /\ UNCHANGED <<record, session, harness, others>>

\* A crash, or an error pollOnce lets out: the lease is never released.
PollCrash(p) ==
    /\ poller[p] # NotPolling
    /\ Lapse
    /\ Done(p)
    /\ UNCHANGED <<record, session, run, submission, harness, submitter, runner>>

\* The lease of a poller that is gone runs out; claim takes the row again.
ExpireDead ==
    /\ \E p \in Poller : Held(p) /\ At(p, "idle")
    /\ session' = [session EXCEPT !.holder = Nobody]
    /\ UNCHANGED <<record, harness, procs, run, submission, clock>>

\* The lease of a stalled poller runs out under it.
ExpireStalled ==
    /\ \E p \in Poller : Held(p) /\ ~At(p, "idle")
    /\ Lapse
    /\ session' = [session EXCEPT !.holder = Nobody]
    /\ UNCHANGED <<record, harness, procs, run, submission>>

\* DEFAULT_TURN_MAX_MS after the session began; of no account after TRIAGING.
Deadline ==
    /\ ~overdue
    /\ report = "TRIAGING"
    /\ overdue' = TRUE
    /\ UNCHANGED <<record, session, harness, procs, run, submission, lapses, world>>

PollStep(p) ==
    \/ Claim(p) \/ CheckReport(p) \/ Ask(p) \/ Follow(p) \/ Park(p)
    \/ FindTurn(p) \/ CreateTurn(p) \/ ResumeThrows(p) \/ HandOver(p)
    \/ DraftStored(p) \/ DraftRepeated(p) \/ DraftRefused(p) \/ DraftConflicts(p) \/ Abandon(p)
    \/ Verify(p) \/ VerifyRefused(p) \/ VerifyThrows(p)
    \/ EndOutOfScope(p) \/ EndInvestigation(p) \/ EndElsewhere(p)
    \/ LeaseLost(p)

PollerNext == \/ ExpireDead \/ ExpireStalled \/ Deadline
              \/ \E p \in Poller : PollStep(p) \/ PollCrash(p)

-----------------------------------------------------------------------------
(* TrueForge, as the poller uses it: a session has turns, a turn runs      *)
(* until it is done, fails, is cancelled or waits for approval of one      *)
(* call, and a session may be forgotten (restart, redeploy, expiry).       *)

Propose(t) ==
    /\ turns[t].status = "running"
    /\ \E f \in world.forms, kind \in Kinds :
         /\ f = "gated" => Len(turns) + 1 < MaxTurns
         /\ f # "draft" => kind = "ANALYSIS_ONLY"
         /\ turns' = [turns EXCEPT ![t].status = "awaiting", ![t].form = f, ![t].kind = kind]
    /\ UNCHANGED <<record, session, run, submission, sessions, procs, clock>>

Stop(t) ==
    /\ turns[t].status = "running"
    /\ \E status \in {"done", "error", "cancelled"} :
         turns' = [turns EXCEPT ![t].status = status]
    /\ UNCHANGED <<record, session, run, submission, sessions, procs, clock>>

\* MaxLapses bounds the sessions that are forgotten too.
Forget ==
    /\ Lapse
    /\ \E s \in 1 .. sessions : turns' = Forgotten(s)
    /\ turns' # turns
    /\ UNCHANGED <<record, session, run, submission, sessions, procs>>

HarnessNext == Forget \/ \E t \in TurnId : t \in DOMAIN turns /\ (Propose(t) \/ Stop(t))
==============================================================================
