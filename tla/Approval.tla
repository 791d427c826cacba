------------------------------- MODULE Approval -------------------------------
(***************************************************************************)
(* The approval path of one report: the agent's turns, the poller, the     *)
(* reviewer, the submission worker and the re-check runner, composed over  *)
(* the rows they share.                                                    *)
(***************************************************************************)
EXTENDS AgentPoller, Review

(***************************************************************************)
(* Re-checks (src/lib/investigation-runs): a reviewer supersedes the       *)
(* pending verdict and opens a run, retries or cancels it; a runner claims *)
(* the run, starts a fresh harness session and rewrites the session row.   *)
(* The target, its grant and the sandboxes only decide whether it fails.   *)
(***************************************************************************)
away == <<decision, outbox, submission, poller, submitter>>

Latest == Len(run)
SetRun(k, new) == run' = [run EXCEPT ![k] = new]
Ended(status) == [run[Latest] EXCEPT !.status = status, !.holder = Nobody]

-----------------------------------------------------------------------------

\* requestRecheck
MayRecheck(r) == /\ report \in {"AWAITING_APPROVAL", "ANALYSIS_ONLY"}
                 /\ session.pend.rev = r
                 /\ decision[r] = Undecided
                 /\ r \notin superseded

RequestRecheck(r) ==
    /\ Len(run) < world.rechecks
    /\ MayRecheck(r)
    /\ superseded' = superseded \union {r}
    /\ run' = Append([k \in DOMAIN run |->
                        IF k = Latest /\ run[k].status \notin RunFinished
                        THEN [run[k] EXCEPT !.status = "SUPERSEDED"] ELSE run[k]],
                     [status |-> "PENDING", attempts |-> 0, holder |-> Nobody, sess |-> 0])
    /\ session' = [session EXCEPT !.pend = NoPending, !.status = "CANCELLED",
                                  !.holder = Nobody]
    /\ MoveTo("REPRODUCING")
    /\ UNCHANGED <<away, verdict, harness, runner, clock>>

RetryRecheck ==
    /\ report = "REPRODUCING"
    /\ run # <<>> /\ run[Latest].status = "ERROR"
    /\ Lapse                     \* MaxLapses bounds the retries too
    /\ SetRun(Latest, [Ended("PENDING") EXCEPT !.attempts = 0])
    /\ UNCHANGED <<away, report, verdict, superseded, session, harness, runner>>

CancelRecheck ==
    /\ report = "REPRODUCING"
    /\ run # <<>> /\ run[Latest].status \in {"PENDING", "ERROR"}
    /\ SetRun(Latest, Ended("CANCELLED"))
    /\ MoveTo("ANALYSIS_ONLY")
    /\ UNCHANGED <<away, verdict, superseded, session, harness, runner, clock>>

-----------------------------------------------------------------------------
\* runRecheckOnce
Owns(r) == /\ runner[r] # NotRunning
           /\ run[runner[r].k].holder = r
Is(r, phase) == runner[r].phase = phase
To(r, phase) == runner' = [runner EXCEPT ![r].phase = phase]
Quits(r) == runner' = [runner EXCEPT ![r] = NotRunning]
Write(r, status) ==
    SetRun(runner[r].k, [run[runner[r].k] EXCEPT !.status = status, !.holder = Nobody])

RunClaim(r) ==
    /\ Is(r, "idle")
    /\ \E k \in DOMAIN run :
         /\ run[k].status = "PENDING"
         /\ run[k].holder = Nobody
         /\ run[k].attempts < RunAttempts
         /\ SetRun(k, [run[k] EXCEPT !.status = "RUNNING", !.attempts = @ + 1, !.holder = r])
         /\ runner' = [runner EXCEPT ![r] =
                [phase |-> "check", k |-> k, sess |-> 0, turn |-> 0, old |-> 0]]
    /\ UNCHANGED <<away, report, verdict, superseded, session, harness, clock>>

RunCheck(r) ==
    /\ Is(r, "check")
    /\ To(r, IF report = "REPRODUCING" THEN "start" ELSE "fail")
    /\ UNCHANGED <<away, report, verdict, superseded, session, run, harness, clock>>

\* createSession and createTurn, with a capability of their own.
RunStart(r) ==
    /\ Is(r, "start")
    /\ Len(turns) < MaxTurns
    /\ sessions' = sessions + 1
    /\ turns' = Append(turns, Started(sessions', 0, FALSE))
    /\ runner' = [runner EXCEPT ![r].phase = "rewrite", ![r].sess = sessions',
                                ![r].turn = Len(turns')]
    /\ UNCHANGED <<away, report, verdict, superseded, session, run, clock>>

\* The transaction proves the run is held; the report it only locks.
Rewrite(r) ==
    /\ Is(r, "rewrite")
    /\ Owns(r)
    /\ session' = [sess |-> runner[r].sess, turn |-> runner[r].turn, status |-> "RUNNING",
                   pend |-> NoPending, holder |-> Nobody]
    /\ SetRun(runner[r].k, [run[runner[r].k] EXCEPT !.sess = runner[r].sess])
    /\ runner' = [runner EXCEPT ![r].phase = "clean", ![r].old = session.sess]
    /\ UNCHANGED <<away, report, verdict, superseded, harness, clock>>

\* After the commit: delete the superseded harness session.  One that is not
\* deleted is indistinguishable: nothing the code writes follows from it.
CleanUp(r) ==
    /\ Is(r, "clean")
    /\ turns' = Forgotten(runner[r].old)
    /\ To(r, "release")
    /\ UNCHANGED <<away, report, verdict, superseded, session, run, sessions, clock>>

\* releaseRun(lease, "RUNNING"), whatever the status has become.
ReleaseRun(r) ==
    /\ Is(r, "release")
    /\ Owns(r)
    /\ Write(r, "RUNNING")
    /\ Quits(r)
    /\ UNCHANGED <<away, report, verdict, superseded, session, harness, clock>>

\* failRecheckRun, for any of the many things that can be missing or fail.
RunFails(r) ==
    /\ runner[r].phase \in {"check", "fail", "start", "rewrite"}
    /\ Owns(r)
    /\ Write(r, "ERROR")
    /\ turns' = IF Is(r, "rewrite") THEN Forgotten(runner[r].sess) ELSE turns
    /\ Quits(r)
    /\ UNCHANGED <<away, report, verdict, superseded, session, sessions, clock>>

RunLost(r) ==
    /\ runner[r].phase \in {"check", "fail", "start", "rewrite", "release"}
    /\ ~Owns(r)
    /\ turns' = IF Is(r, "rewrite") THEN Forgotten(runner[r].sess) ELSE turns
    /\ Quits(r)
    /\ UNCHANGED <<away, report, verdict, superseded, session, run, sessions, clock>>

RunCrash(r) ==
    /\ runner[r] # NotRunning
    /\ Lapse
    /\ Quits(r)
    /\ UNCHANGED <<away, report, verdict, superseded, session, run, harness>>

RunExpire(k) ==
    /\ run[k].holder \notin {Nobody, Lapsed}
    /\ IF Is(run[k].holder, "idle") THEN UNCHANGED clock ELSE Lapse
    /\ run' = [run EXCEPT ![k].holder = Lapsed]
    /\ UNCHANGED <<away, report, verdict, superseded, session, harness, runner>>

\* sweepRecheckRuns: a lapsed run goes back to the queue while it may.
SweepRelease(k) ==
    /\ run[k].status = "RUNNING"
    /\ run[k].holder = Lapsed
    /\ run[k].attempts < RunAttempts
    /\ SetRun(k, [run[k] EXCEPT !.status = "PENDING", !.holder = Nobody])
    /\ UNCHANGED <<away, report, verdict, superseded, session, harness, runner, clock>>

\* ... and fails when it was never claimed in time or may not be claimed.
SweepFail(k) ==
    /\ \/ run[k].status = "PENDING" /\ run[k].attempts = 0 /\ run[k].holder = Nobody
       \/ run[k].status = "PENDING" /\ run[k].attempts >= RunAttempts
       \/ /\ run[k].status = "RUNNING" /\ run[k].holder = Lapsed
          /\ run[k].attempts >= RunAttempts
    /\ SetRun(k, [run[k] EXCEPT !.status = "ERROR", !.holder = Nobody])
    /\ UNCHANGED <<away, report, verdict, superseded, session, harness, runner, clock>>

RunStep(r) ==
    \/ RunClaim(r) \/ RunCheck(r) \/ RunStart(r) \/ Rewrite(r) \/ CleanUp(r)
    \/ ReleaseRun(r) \/ RunFails(r) \/ RunLost(r)

RecheckNext ==
    \/ RetryRecheck \/ CancelRecheck
    \/ \E r \in DOMAIN verdict : RequestRecheck(r)
    \/ \E k \in DOMAIN run : RunExpire(k) \/ SweepRelease(k) \/ SweepFail(k)
    \/ \E r \in Runner : RunStep(r) \/ RunCrash(r)

-----------------------------------------------------------------------------
(* The composition.                                                        *)

Next == PollerNext \/ ReviewNext \/ SubmissionNext \/ RecheckNext \/ HarnessNext

Spec == Init /\ [][Next]_vars

(***************************************************************************)
(* Fairness: the daemon's loops keep polling, submitting and sweeping,     *)
(* leases of the dead run out and the clock goes on.  The harness, the     *)
(* reviewer and the failures owe nothing.                                  *)
(***************************************************************************)
Fairness ==
    /\ \A p \in Poller : WF_vars(PollStep(p))
    /\ WF_vars(ExpireDead)
    /\ WF_vars(Deadline)
    /\ \A s \in Submitter : WF_vars(SubmitStep(s))
    /\ \A r \in Rev : /\ WF_vars(SubmitBury(r))
                      /\ WF_vars(SubmitExpire(r) /\ UNCHANGED lapses)

FairSpec == Spec /\ Fairness

-----------------------------------------------------------------------------
Decided == {r \in Rev : decision[r] # Undecided}

(***************************************************************************)
(* The human gate (publishVerdict, decide): whatever is queued for         *)
(* delivery was approved by a human, was not superseded, and is the newest *)
(* text on record; it is queued exactly when the report says so.           *)
(***************************************************************************)
HumanGate ==
    /\ \A r \in outbox : /\ decision[r].outcome = "APPROVED"
                         /\ r \notin superseded
                         /\ r = Len(verdict)
    /\ report \in {"DELIVERING", "DELIVERED"} => outbox # {}

(***************************************************************************)
(* decide and requestRecheck exclude each other for good: a superseded     *)
(* verdict is never decided, and no report collects two decisions.         *)
(***************************************************************************)
OneAnswer == /\ superseded \cap Decided = {}
             /\ Cardinality(Decided) <= 1

(***************************************************************************)
(* draftVerdictFromPendingCall: however often a call is polled, drafted    *)
(* and re-checked, one verdict at most stands for a human to decide.       *)
(***************************************************************************)
OneStandingVerdict == Cardinality(DOMAIN verdict \ superseded) <= 1

(***************************************************************************)
(* What the reviewer is shown can be decided: the pending revision is the  *)
(* newest and was not superseded.  The exception is a re-check's agent     *)
(* that calls with its capability alone: handleVerifiedPendingCall takes   *)
(* the newest revision for the one the run prepared, and puts the verdict  *)
(* the re-check replaced before the reviewer again.                        *)
(***************************************************************************)
PendingIsStanding ==
    session.pend.rev # 0 =>
        \/ session.pend.rev = Len(verdict) /\ session.pend.rev \notin superseded
        \/ session.pend.rev \in superseded /\ turns[session.pend.call].form = "bare"

(***************************************************************************)
(* One verdict at most stands, it is the one that can be decided, and it   *)
(* is decided once: the three together.                                    *)
(***************************************************************************)
VerdictStands == OneStandingVerdict /\ PendingIsStanding /\ OneAnswer

(***************************************************************************)
(* resumeApprovalTurn and the submission worker tell the harness only what *)
(* a human decided: a turn allowing a publish_verdict call means that call *)
(* was approved.                                                           *)
(***************************************************************************)
AllowsOnlyApproved ==
    \A t \in DOMAIN turns :
        (turns[t].answers # 0 /\ turns[t].allow /\ turns[turns[t].answers].form # "gated") =>
            \E r \in Rev : decision[r] = [outcome |-> "APPROVED", call |-> turns[t].answers]

(***************************************************************************)
(* abandonVerdictConflict: a report is never "in REPRODUCING with nothing  *)
(* left that could finish either": its newest run is queued, claimed or    *)
(* failed (a human may retry or cancel it), or the session row holds a     *)
(* turn that a poller follows.                                             *)
(***************************************************************************)
SomethingFinishesIt ==
    report = "REPRODUCING" =>
        /\ run # <<>>
        /\ \/ run[Latest].status \in {"PENDING", "ERROR"}
           \/ run[Latest].status = "RUNNING" /\ run[Latest].holder # Nobody
           \/ session.status \notin TurnOver

Promise == INSTANCE ApprovalPromise
               WITH outcome <- [r \in Rev |-> decision[r].outcome], sent <- outbox

\* Approval implements ApprovalPromise.
KeepsPromise == Promise!Spec

(***************************************************************************)
(* turn-deadline.ts: "A running agent session cannot hold the poll queue   *)
(* open beyond this wall-clock limit."  A first investigation that stays   *)
(* running leaves TRIAGING; one waiting for its call to be read does too.  *)
(***************************************************************************)
LeavesTriage == report = "TRIAGING" ~> report # "TRIAGING"

\* Every decision told to the harness, or given up on.
SubmissionSettles ==
    \A r \in Rev : submission[r].state = "PENDING" ~> submission[r].state # "PENDING"
==============================================================================
