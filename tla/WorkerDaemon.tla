---------------------------- MODULE WorkerDaemon ----------------------------
(***************************************************************************)
(* The worker process: the loops and sweepers of                           *)
(* src/lib/worker-daemon/runner.ts, the heartbeat of health.ts that        *)
(* /healthz reports, and the entry point scripts/run-worker-daemon.ts with *)
(* its budgets.  What a claim or a sweep does is the other modules'        *)
(* business: here it ends well, throws, takes long, or never returns.      *)
(*                                                                         *)
(* Time is discrete; Tick is one unit, and what must happen by a deadline  *)
(* happens before the Tick that would pass it.  Ages stop one unit past    *)
(* the budget they are compared with.                                      *)
(***************************************************************************)
EXTENDS Naturals

CONSTANTS
    Loop,            \* the loops and sweepers of the process
    Kinds,           \* [timeout, pause, delay, slow, budget : Nat], timeout 0: unwrapped
    FailureBudget,   \* FAILING_BUDGET_MS
    Patience,        \* how long the platform lets /healthz fail before it restarts
    Grace,           \* how long it waits after SIGTERM before SIGKILL
    Deploys,         \* restarts for other reasons
    Outages          \* times the dependencies go away

ASSUME DaemonAssumption ==
    /\ Kinds \subseteq [timeout : Nat, pause : Nat, delay : Nat, slow : Nat, budget : Nat]
    /\ FailureBudget \in Nat /\ Patience \in Nat /\ Grace \in Nat
    /\ Deploys \in Nat /\ Outages \in Nat

\* How long a call of a loop lasts before it answers or is given up.
Longest(k) == IF k.timeout = 0 \/ k.slow < k.timeout THEN k.slow ELSE k.timeout

\* What a stall budget is chosen by: the longest gap between two beats of a loop
\* that works is within it.
Covered(k) == k.delay + Longest(k) <= k.budget /\ k.pause + Longest(k) <= k.budget

VARIABLES
    kind,      \* each loop's settings
    loop,      \* where each loop is, and for how long
    beat,      \* the heartbeat: lastProgress and failingSince, as ages
    process,   \* up or stopping, for how long /healthz fails or the signal is out
    outside    \* Postgres and TrueForge reachable or not, and what may still happen

daemonVars == <<kind, loop, beat, process, outside>>

Never == 99999       \* no entry in failingSince

DaemonTypeOK ==
    /\ kind \in [Loop -> Kinds]
    /\ \A l \in Loop :
         /\ loop[l].pc \in {"wait", "op", "done"}
         /\ loop[l].left \in Nat /\ loop[l].ran \in Nat
         /\ loop[l].hung \in BOOLEAN /\ loop[l].sinceOk \in Nat
         /\ beat[l].age \in Nat /\ beat[l].failing \in Nat
    /\ process \in [pc : {"up", "stopping"}, clock : Nat]
    /\ outside \in [down : BOOLEAN, deploys : 0..Deploys, outages : 0..Outages]

\* A claim loop starts at once; a sweeper's first sweep is staggered.
Booted == [l \in Loop |-> [pc |-> IF kind[l].delay > 0 THEN "wait" ELSE "op",
                           left |-> kind[l].delay, ran |-> 0, hung |-> FALSE, sinceOk |-> 0]]

\* createHeartbeat: seeded, so a loop that never ticks is stale and not absent.
createHeartbeat == [l \in Loop |-> [age |-> 0, failing |-> Never]]

DaemonInit ==
    /\ kind \in [Loop -> Kinds]
    /\ loop = Booted
    /\ beat = createHeartbeat
    /\ process = [pc |-> "up", clock |-> 0]
    /\ outside = [down |-> FALSE, deploys |-> Deploys, outages |-> Outages]

-----------------------------------------------------------------------------
(***************************************************************************)
(* The heartbeat.                                                          *)
(***************************************************************************)

\* record: progress whatever the outcome; a failure starts a run, an ok ends it.
RecordBeat(l, outcome) ==
    beat' = [beat EXCEPT ![l] = [age |-> 0,
                                 failing |-> CASE outcome = "ok" -> Never
                                               [] outcome = "failed" /\ @.failing = Never -> 0
                                               [] OTHER -> @.failing]]

Silent(l) == beat[l].age > kind[l].budget

\* Mutant: only silence counts, as before failures had a budget of their own.
Erroring_Not(l) == FALSE
Erroring(l) == beat[l].failing # Never /\ beat[l].failing > FailureBudget

Healthy == \A l \in Loop : ~Silent(l) /\ ~Erroring(l)      \* snapshot().ok

-----------------------------------------------------------------------------
(***************************************************************************)
(* runLoop and runSweeper.                                                 *)
(***************************************************************************)
Done(l) == [loop EXCEPT ![l].pc = "done", ![l].hung = FALSE]

\* A wait ends early when the signal fires; nothing starts after it.
StartOp(l) ==
    /\ loop[l].pc = "wait"
    /\ \/ process.pc = "stopping" /\ loop' = Done(l)
       \/ process.pc = "up" /\ loop[l].left = 0 /\ loop' = [loop EXCEPT ![l].pc = "op"]
    /\ UNCHANGED <<kind, beat, process, outside>>

\* An iteration is over: a claim that found work goes on at once, any other
\* waits its backoff or interval.
Iterated(l, outcome, left) ==
    IF process.pc = "stopping"
    THEN loop' = Done(l) /\ UNCHANGED beat
    ELSE /\ RecordBeat(l, outcome)
         /\ loop' = [loop EXCEPT ![l] = [pc |-> "wait", left |-> left, ran |-> 0, hung |-> FALSE,
                                         sinceOk |-> IF outcome = "ok" THEN 0 ELSE @.sinceOk]]

OpReturns(l) ==
    /\ loop[l].pc = "op" /\ ~loop[l].hung
    /\ \/ ~outside.down /\ \E left \in {0, kind[l].pause} : Iterated(l, "ok", left)
       \/ Iterated(l, "failed", kind[l].pause)
    /\ UNCHANGED <<kind, process, outside>>

\* A dead socket: the call never returns.
OpHangs(l) ==
    /\ loop[l].pc = "op" /\ ~loop[l].hung
    /\ loop' = [loop EXCEPT ![l].hung = TRUE]
    /\ UNCHANGED <<kind, beat, process, outside>>

\* withTimeout: the iteration fails, the abandoned call runs on unseen.
WithTimeout(l) ==
    /\ loop[l].pc = "op" /\ kind[l].timeout > 0 /\ loop[l].ran >= kind[l].timeout
    /\ Iterated(l, "failed", kind[l].pause)
    /\ UNCHANGED <<kind, process, outside>>

-----------------------------------------------------------------------------
(***************************************************************************)
(* The platform and the world.                                             *)
(***************************************************************************)
\* Nothing is overdue: no call that works is past its longest, none is past
\* its timeout, no wait has ended, no restart is owed.
NothingOverdue ==
    /\ \A l \in Loop :
         /\ loop[l].pc = "op" =>
              /\ loop[l].hung \/ loop[l].ran < kind[l].slow
              /\ kind[l].timeout = 0 \/ loop[l].ran < kind[l].timeout
         /\ loop[l].pc = "wait" => loop[l].left > 0 /\ process.pc = "up"
    /\ process.pc = "up" => Healthy \/ process.clock < Patience
    /\ process.pc = "stopping" => process.clock < Grace
    /\ \E l \in Loop : loop[l].pc # "done"

UpTo(n, cap) == IF n > cap THEN n ELSE n + 1

Tick ==
    /\ NothingOverdue
    /\ loop' = [l \in Loop |->
         [loop[l] EXCEPT !.left = IF @ > 0 THEN @ - 1 ELSE 0,
                         !.ran = IF loop[l].pc = "op" THEN UpTo(@, kind[l].budget) ELSE 0,
                         !.sinceOk = UpTo(@, FailureBudget)]]
    /\ beat' = [l \in Loop |->
         [age |-> UpTo(beat[l].age, kind[l].budget),
          failing |-> IF beat[l].failing = Never THEN Never
                      ELSE UpTo(beat[l].failing, FailureBudget)]]
    /\ process' = [process EXCEPT !.clock = IF process.pc = "up" /\ Healthy THEN 0 ELSE @ + 1]
    /\ UNCHANGED <<kind, outside>>

\* SIGTERM, because /healthz has failed for the platform's patience or for a deploy.
SignalStop ==
    /\ process.pc = "up"
    /\ \/ ~Healthy /\ process.clock >= Patience /\ UNCHANGED outside
       \/ outside.deploys > 0 /\ outside' = [outside EXCEPT !.deploys = @ - 1]
    /\ process' = [pc |-> "stopping", clock |-> 0]
    /\ UNCHANGED <<kind, loop, beat>>

\* runDaemon has resolved, or the grace is over; a new process comes up.
BootDaemon ==
    /\ process.pc = "stopping"
    /\ (\A l \in Loop : loop[l].pc = "done") \/ process.clock >= Grace
    /\ process' = [pc |-> "up", clock |-> 0]
    /\ loop' = Booted
    /\ beat' = createHeartbeat
    /\ UNCHANGED <<kind, outside>>

DependenciesGo ==
    /\ ~outside.down /\ outside.outages > 0
    /\ outside' = [outside EXCEPT !.down = TRUE, !.outages = @ - 1]
    /\ UNCHANGED <<kind, loop, beat, process>>

DependenciesReturn ==
    /\ outside.down
    /\ outside' = [outside EXCEPT !.down = FALSE]
    /\ UNCHANGED <<kind, loop, beat, process>>

DaemonNext ==
    \/ \E l \in Loop : StartOp(l) \/ OpReturns(l) \/ OpHangs(l) \/ WithTimeout(l)
    \/ Tick \/ SignalStop \/ BootDaemon \/ DependenciesGo \/ DependenciesReturn

DaemonSpec == DaemonInit /\ [][DaemonNext]_daemonVars

-----------------------------------------------------------------------------
(***************************************************************************)
(* Properties                                                              *)
(***************************************************************************)
\* /healthz calls the worker unhealthy only for a call that never returns, a
\* loop that has not succeeded for longer than the failure budget, or a silent
\* loop whose own budget is below its longest gap, as the re-check loop's is:
\* elsewhere no backoff, interval, stagger, timeout or legitimately long claim
\* adds up to it (health.ts:9-13, run-worker-daemon.ts:118-122).
UnhealthyHasACause ==
    process.pc = "up" /\ ~Healthy =>
        \E l \in Loop : \/ loop[l].hung
                        \/ loop[l].sinceOk > FailureBudget
                        \/ Silent(l) /\ ~Covered(kind[l])

\* A call that never returns does not stop its loop for good: the timeout or
\* the restart takes it away; and dependencies that stay away leave no worker
\* up for ever without a restart.
WedgeIsCleared ==
    /\ \A l \in Loop : loop[l].hung ~> ~loop[l].hung
    /\ <>[]outside.down => []<>(process.pc = "stopping")

\* No step makes /healthz call a worker unhealthy without one of these causes.
OnlyWithACause == [][(DaemonTypeOK /\ UnhealthyHasACause)']_daemonVars

\* /healthz is unhealthy for a cause, and what caused it ends: the two together.
HealthIsTrue == OnlyWithACause /\ WedgeIsCleared
=============================================================================
