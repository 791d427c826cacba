---------------------------- MODULE MCReviewerChat ----------------------------
(***************************************************************************)
(* ReviewerChat, AnalysisTurn and WorkerDaemon for TLC, side by side; each *)
(* behaviour moves one of them.  One loop of the daemon of each kind, in   *)
(* units of 15 seconds: a fast claim loop, a staggered sweeper, the jobs   *)
(* loop and the re-check loop, whose budget is below its longest claim.    *)
(***************************************************************************)
EXTENDS ReviewerChat, AnalysisTurn, WorkerDaemon, TLC

CONSTANTS w1, w2

VARIABLE part

\* Two questions to a failing provider; a question about a verdict that comes
\* and is superseded; one that is put again, by a daemon that restarts.
TwoQuestions == [asks |-> 2, resubmits |-> 0, stops |-> 0, verdicts |-> 0, supersedes |-> 0]
NewVerdict   == [asks |-> 1, resubmits |-> 0, stops |-> 0, verdicts |-> 1, supersedes |-> 1]
PutAgain     == [asks |-> 1, resubmits |-> 1, stops |-> 1, verdicts |-> 0, supersedes |-> 0]
Some == {TwoQuestions, NewVerdict, PutAgain}

FastLoop == [timeout |-> 4, pause |-> 2, delay |-> 0, slow |-> 3, budget |-> 6]
Sweeper  == [timeout |-> 4, pause |-> 2, delay |-> 2, slow |-> 3, budget |-> 6]
JobsLoop == [timeout |-> 0, pause |-> 2, delay |-> 0, slow |-> 17, budget |-> 20]
\* A claim that boots a mesh, under the default budget.
Recheck  == [timeout |-> 0, pause |-> 2, delay |-> 0, slow |-> 8, budget |-> 6]
MCKinds == {FastLoop, Sweeper, JobsLoop, Recheck}

NoFaults == [crash |-> 0, abort |-> 0, daytona |-> 0, harness |-> 0, park |-> 0]
\* A process dies while stale and fresh attempts overlap, and one more fault.
Crashes == [NoFaults EXCEPT !.crash = 1, !.daytona = 1]
\* Leases are lost while Daytona or TrueForge misbehaves.
Aborts == [NoFaults EXCEPT !.abort = 1, !.daytona = 1]
Refusals == [NoFaults EXCEPT !.abort = 1, !.harness = 2]
\* The snapshot is parked or reclaimed, or the grant revoked, meanwhile.
Parked == [NoFaults EXCEPT !.park = 2]
MCFaults == {Crashes, Aborts, Refusals, Parked}

-----------------------------------------------------------------------------
Alone(parts) ==
    /\ part \in parts
    /\ Init /\ TurnInit /\ DaemonInit
    /\ part # "daemon" => \A l \in Loop : kind[l] = FastLoop
    /\ part # "chat" => budget = PutAgain
    /\ part # "analysis" => target.is = "none" /\ faults = Parked

ChatInit == Alone({"chat", "daemon"})
AnalysisInit == Alone({"analysis"})

AgentsNext ==
    /\ UNCHANGED part
    /\ \/ part = "chat" /\ Next /\ UNCHANGED <<turnVars, daemonVars>>
       \/ part = "analysis" /\ TurnNext /\ UNCHANGED <<vars, daemonVars>>
       \/ part = "daemon" /\ DaemonNext /\ UNCHANGED <<vars, turnVars>>

\* The daemon's loop claims and sweeps, a run goes on while its process lives,
\* a lease that is not renewed runs out, and a turn of the harness ends.
ChatFairness ==
    /\ \A w \in Workers : WF_vars(part = "chat" /\ Claim(w)) /\ WF_vars(part = "chat" /\ Step(w))
    /\ \A t \in Tid : /\ WF_vars(part = "chat" /\ t \in Known /\ Sweep(t))
                      /\ WF_vars(part = "chat" /\ t \in Known /\ Abandoned(t) /\ Expire(t))
    /\ \A n \in 1 .. MaxTurns : WF_vars(part = "chat" /\ n \in DOMAIN turns /\ TurnEnds(n))

\* Time passes, and the code and the platform act when they are due.
DaemonFairness ==
    /\ SF_daemonVars(part = "daemon" /\ Tick)
    /\ WF_daemonVars(part = "daemon" /\ BootDaemon)
    /\ WF_daemonVars(part = "daemon" /\ SignalStop /\ ~Healthy)
    /\ \A l \in Loop : /\ WF_daemonVars(part = "daemon" /\ StartOp(l))
                       /\ WF_daemonVars(part = "daemon" /\ WithTimeout(l))
                       /\ WF_daemonVars(part = "daemon" /\ OpReturns(l))

AgentsSpec ==
    /\ ChatInit /\ [][AgentsNext]_<<vars, turnVars, daemonVars, part>>
    /\ ChatFairness /\ DaemonFairness

\* The attempts alone.
AnalysisSpec ==
    /\ AnalysisInit /\ [][AgentsNext]_<<vars, turnVars, daemonVars, part>>
    /\ TurnFairness
===============================================================================
