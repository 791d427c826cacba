------------------------------ MODULE JobQueue ------------------------------
(***************************************************************************)
(* The inbound job queue: src/lib/jobs/queue.ts and the worker that drives *)
(* one job through it, src/lib/jobs/worker.ts.                             *)
(*                                                                         *)
(* A job is one accepted delivery.  Leasing is orthogonal to the state: a  *)
(* claim takes ownership and stamps a fence, and every later write of that *)
(* worker is an UPDATE scoped to (owner, fence, unexpired lease).          *)
(*                                                                         *)
(* Abstractions.  Wall-clock time is not counted: a lease is "none",       *)
(* "live" or "expired", and Expire may turn a live one at any moment (a    *)
(* stalled process, a heartbeat that could not renew).  A backoff delay is *)
(* a flag that Elapse clears.  The work of a step (ensureReport, hold,     *)
(* ensureSession, run) is one idempotent effect, recorded in performed.    *)
(***************************************************************************)
EXTENDS Naturals, FiniteSets

CONSTANTS
    Job,            \* (channel, delivery id) pairs the senders use
    Worker,         \* processes calling runOnce
    OwnerOf,        \* the owner string each worker claims under
    NoOwner,        \* lease_owner IS NULL
    Kind,           \* what each delivery turns into
    MaxAttempts,    \* inbound_job.max_attempts
    MaxAborts,      \* bound: tick deadlines that fire right after a claim
    AppClockAhead   \* the sweeper's own clock may run ahead of the database's

Kinds == {"analysis", "outside", "advisory"}

ASSUME KindAssumption == Kind \in [Job -> Kinds]
ASSUME MaxAttemptsAssumption == MaxAttempts \in Nat \ {0}
ASSUME MaxAbortsAssumption == MaxAborts \in Nat
ASSUME WorkerAssumption == IsFiniteSet(Worker)
ASSUME OwnerAssumption == \A w \in Worker : OwnerOf[w] # NoOwner
ASSUME AppClockAheadAssumption == AppClockAhead \in BOOLEAN

VARIABLES
    job,        \* the inbound_job rows
    worker,     \* each worker's program counter and the Lease it was handed
    sweeper,    \* which of its two statements the sweeper runs next
    performed,  \* history: the steps of a job whose work has been done
    starts,     \* history: how many claims of a job went on to do work
    aborts,     \* how many claims were handed back unstarted
    unburied    \* history: jobs whose last lease the sweeper only cleared

vars == <<job, worker, sweeper, performed, starts, aborts, unburied>>

Stages == {"RECEIVED", "PARSED", "SESSION_CREATED", "RUNNING"}
Terminal == {"DONE", "DEAD_LETTER"}
Outcomes == {"error", "deadline", "unprocessable"}

Owners == {OwnerOf[w] : w \in Worker} \union {NoOwner}

JobRow == [state : Stages \union Terminal \union {"ABSENT"},
           attempts : 0..MaxAttempts, fence : Nat, owner : Owners,
           lease : {"none", "live", "expired"},
           grace : BOOLEAN,     \* last_error carries DEADLINE_GRACE_PREFIX
           backoff : BOOLEAN]   \* next_attempt_at is still in the future

Absent == [state |-> "ABSENT", attempts |-> 0, fence |-> 0, owner |-> NoOwner,
           lease |-> "none", grace |-> FALSE, backoff |-> FALSE]

(***************************************************************************)
(* A worker's phase: idle; claimed (nothing done yet); work (inside the    *)
(* current step); ready (the step's work is done, its state is not yet     *)
(* recorded); failing (in runOnce's catch block).                          *)
(***************************************************************************)
Idle == [phase |-> "idle"]
Busy == [phase : {"claimed", "work", "ready"}, job : Job, fence : Nat, state : Stages]
Failing == [phase : {"failing"}, job : Job, fence : Nat, state : Stages, why : Outcomes]

Open(j) == job[j].state \in Stages
Exhausted(j) == job[j].attempts >= MaxAttempts

\* The step runOnce takes out of a state: the fall-through of its try block.
NextStage(j, s) ==
    CASE s = "RECEIVED" -> "PARSED"
      [] s = "PARSED" -> IF Kind[j] = "analysis" THEN "SESSION_CREATED" ELSE "DONE"
      [] s = "SESSION_CREATED" -> "RUNNING"
      [] s = "RUNNING" -> "DONE"

\* A report held at the gate has no acknowledgement to send when it is an
\* advisory, and SESSION_CREATED only waits to be stamped RUNNING.
HasWork(j, s) == \/ s \in {"RECEIVED", "RUNNING"}
                 \/ s = "PARSED" /\ Kind[j] # "advisory"

\* Mutant: the owner string alone is taken as proof of ownership.
Held_NoFence(w) == /\ worker[w] # Idle
                   /\ job[worker[w].job].owner = OwnerOf[w]
                   /\ job[worker[w].job].lease = "live"

\* heldBy(lease): the scope of every write a worker makes.
Held(w) == /\ worker[w] # Idle
           /\ LET row == job[worker[w].job] IN
                /\ row.owner = OwnerOf[w]
                /\ row.fence = worker[w].fence
                /\ row.lease = "live"

\* advance(), complete() and abandon() also match the state they left.
HeldInState(w) == Held(w) /\ job[worker[w].job].state = worker[w].state

WriteScope(w) ==
    IF \/ worker[w].phase = "ready"
       \/ worker[w].phase = "failing" /\ worker[w].why = "unprocessable"
    THEN HeldInState(w) ELSE Held(w)

Unleased(row) == [row EXCEPT !.owner = NoOwner, !.lease = "none"]

Write(j, row) == job' = [job EXCEPT ![j] = row]
Stop(w) == worker' = [worker EXCEPT ![w] = Idle]

-----------------------------------------------------------------------------

Init == /\ job = [j \in Job |-> Absent]
        /\ worker = [w \in Worker |-> Idle]
        /\ sweeper = "bury"
        /\ performed = [j \in Job |-> {}]
        /\ starts = [j \in Job |-> 0]
        /\ aborts = 0
        /\ unburied = {}

\* Mutant: the replay's insert updates the row it collides with.
Enqueue_Upserts(j) ==
    /\ Write(j, [Absent EXCEPT !.state = "RECEIVED", !.fence = job[j].fence])
    /\ UNCHANGED <<worker, sweeper, performed, starts, aborts, unburied>>

\* A webhook delivery, or its replay: the insert does nothing when
\* (channel, delivery_id) is already there.
Enqueue(j) ==
    /\ Write(j, IF job[j].state = "ABSENT"
                THEN [Absent EXCEPT !.state = "RECEIVED"]
                ELSE job[j])
    /\ UNCHANGED <<worker, sweeper, performed, starts, aborts, unburied>>

\* Mutant: the last attempt is never made.
Claimable_TooFew(j) == /\ Open(j)
                       /\ job[j].attempts + 1 < MaxAttempts
                       /\ ~job[j].backoff
                       /\ job[j].lease # "live"

Claimable(j) == /\ Open(j)
                /\ ~Exhausted(j)
                /\ ~job[j].backoff
                /\ job[j].lease # "live"

\* Ownership only: the state is what the last holder left.
Claim(w, j) ==
    /\ worker[w] = Idle
    /\ Claimable(j)
    /\ Write(j, [job[j] EXCEPT !.owner = OwnerOf[w], !.lease = "live",
                               !.attempts = @ + 1, !.fence = @ + 1])
    /\ worker' = [worker EXCEPT ![w] =
                    [phase |-> "claimed", job |-> j,
                     fence |-> job[j].fence + 1, state |-> job[j].state]]
    /\ UNCHANGED <<sweeper, performed, starts, aborts, unburied>>

\* The tick's deadline fired while claim() ran: hand the attempt back.
ReleaseUnstarted(w) ==
    /\ worker[w].phase = "claimed"
    /\ aborts < MaxAborts
    /\ LET j == worker[w].job IN
         Write(j, IF Held(w)
                  THEN [Unleased(job[j]) EXCEPT
                          !.attempts = IF @ > 0 THEN @ - 1 ELSE 0]
                  ELSE job[j])
    /\ aborts' = aborts + 1
    /\ Stop(w)
    /\ UNCHANGED <<sweeper, performed, starts, unburied>>

\* The phase in which a worker holding a job in state s goes on.
Enter(j, s) == IF HasWork(j, s) THEN "work" ELSE "ready"

Begin(w) ==
    /\ worker[w].phase = "claimed"
    /\ worker' = [worker EXCEPT ![w].phase = Enter(worker[w].job, worker[w].state)]
    /\ starts' = [starts EXCEPT ![worker[w].job] = @ + 1]
    /\ UNCHANGED <<job, sweeper, performed, aborts, unburied>>

\* The step's own work; a worker whose lease has expired may still do it.
Perform(w) ==
    /\ worker[w].phase = "work"
    /\ performed' = [performed EXCEPT ![worker[w].job] = @ \union {worker[w].state}]
    /\ worker' = [worker EXCEPT ![w].phase = "ready"]
    /\ UNCHANGED <<job, sweeper, starts, aborts, unburied>>

\* The catch block is entered with the lease as the worker last knew it.
Throw(w, why) == [phase |-> "failing", job |-> worker[w].job, fence |-> worker[w].fence,
                  state |-> worker[w].state, why |-> why]

\* A step throws.  Only parsing can find a delivery unprocessable.
StepFails(w, why) ==
    /\ worker[w].phase \in {"work", "ready"}
    /\ why = "unprocessable" => worker[w].state = "RECEIVED"
    /\ worker' = [worker EXCEPT ![w] = Throw(w, why)]
    /\ UNCHANGED <<job, sweeper, performed, starts, aborts, unburied>>

\* A write scoped to a lease this worker no longer holds raises
\* LeaseLostError; so does a heartbeat's renewal.  The worker stops.
LeaseLost(w) ==
    /\ worker[w].phase \in {"work", "ready", "failing"}
    /\ ~WriteScope(w)
    /\ Stop(w)
    /\ UNCHANGED <<job, sweeper, performed, starts, aborts, unburied>>

\* advance(): the state is recorded and the lease kept.  When the reply to
\* the UPDATE is lost the row has moved but the worker throws.
Advance(w, acked) ==
    LET j == worker[w].job
        to == NextStage(j, worker[w].state)
    IN  /\ worker[w].phase = "ready"
        /\ to # "DONE"
        /\ WriteScope(w)
        /\ Write(j, [job[j] EXCEPT !.state = to])
        /\ worker' = [worker EXCEPT ![w] =
                        IF acked THEN [@ EXCEPT !.phase = Enter(j, to), !.state = to]
                                 ELSE Throw(w, "error")]
        /\ UNCHANGED <<sweeper, performed, starts, aborts, unburied>>

\* complete(): the job is finished and the lease dropped.
Complete(w, acked) ==
    LET j == worker[w].job
    IN  /\ worker[w].phase = "ready"
        /\ NextStage(j, worker[w].state) = "DONE"
        /\ WriteScope(w)
        /\ Write(j, [Unleased(job[j]) EXCEPT !.state = "DONE", !.grace = FALSE])
        /\ worker' = [worker EXCEPT ![w] = IF acked THEN Idle ELSE Throw(w, "error")]
        /\ UNCHANGED <<sweeper, performed, starts, aborts, unburied>>

\* fail(): keep the state for a later attempt, or bury on the last one.
Failed(row) ==
    [Unleased(row) EXCEPT
        !.state = IF row.attempts >= MaxAttempts THEN "DEAD_LETTER" ELSE @,
        !.grace = FALSE, !.backoff = TRUE]

\* Mutant: the grace retry leaves no mark, so each last deadline earns another.
ReleasedAfterDeadline_NoMark(row) ==
    [Unleased(row) EXCEPT
        !.attempts = IF row.attempts >= MaxAttempts THEN @ - 1 ELSE @,
        !.backoff = TRUE]

\* releaseAfterDeadline(): one marked grace retry on the last attempt.
ReleasedAfterDeadline(row) ==
    LET put == [Unleased(row) EXCEPT !.grace = FALSE, !.backoff = TRUE]
    IN  IF row.attempts < MaxAttempts THEN put
        ELSE IF row.grace THEN [put EXCEPT !.state = "DEAD_LETTER"]
        ELSE [put EXCEPT !.attempts = @ - 1, !.grace = TRUE]

\* abandon(): no retry can help.
Abandoned(row) == [Unleased(row) EXCEPT !.state = "DEAD_LETTER", !.grace = FALSE]

\* The catch block's one recovery write.
Recover(w) ==
    LET j == worker[w].job
        why == worker[w].why
    IN  /\ worker[w].phase = "failing"
        /\ WriteScope(w)
        /\ Write(j, CASE why = "error" -> Failed(job[j])
                      [] why = "deadline" -> ReleasedAfterDeadline(job[j])
                      [] why = "unprocessable" -> Abandoned(job[j]))
        /\ Stop(w)
        /\ UNCHANGED <<sweeper, performed, starts, aborts, unburied>>

\* The process dies; its lease stays behind.
Crash(w) ==
    /\ worker[w] # Idle
    /\ Stop(w)
    /\ UNCHANGED <<job, sweeper, performed, starts, aborts, unburied>>

Expire(j) ==
    /\ job[j].lease = "live"
    /\ Write(j, [job[j] EXCEPT !.lease = "expired"])
    /\ UNCHANGED <<worker, sweeper, performed, starts, aborts, unburied>>

Elapse(j) ==
    /\ job[j].backoff
    /\ Write(j, [job[j] EXCEPT !.backoff = FALSE])
    /\ UNCHANGED <<worker, sweeper, performed, starts, aborts, unburied>>

\* sweepExpiredLeases(), first statement: bury what died on its last attempt.
SweepBury ==
    /\ sweeper = "bury"
    /\ job' = [j \in Job |->
                 IF Open(j) /\ job[j].lease = "expired" /\ Exhausted(j)
                 THEN [Unleased(job[j]) EXCEPT !.state = "DEAD_LETTER"]
                 ELSE job[j]]
    /\ sweeper' = "release"
    /\ UNCHANGED <<worker, performed, starts, aborts, unburied>>

\* Second statement, a separate one: clear every lease that is past by the
\* sweeping process's clock, whatever its attempts.
SweepRelease ==
    /\ sweeper = "release"
    /\ \E ahead \in SUBSET {j \in Job : AppClockAhead /\ job[j].lease = "live"} :
         LET past == {j \in Job : Open(j) /\ (job[j].lease = "expired" \/ j \in ahead)}
         IN  /\ job' = [j \in Job |-> IF j \in past THEN Unleased(job[j]) ELSE job[j]]
             /\ unburied' = unburied \union {j \in past : Exhausted(j)}
    /\ sweeper' = "bury"
    /\ UNCHANGED <<worker, performed, starts, aborts>>

-----------------------------------------------------------------------------

\* What a live worker does next, one operation at a time.
Step(w) == \/ Begin(w)
           \/ ReleaseUnstarted(w)
           \/ Perform(w)
           \/ \E why \in Outcomes : StepFails(w, why)
           \/ LeaseLost(w)
           \/ \E acked \in BOOLEAN : Advance(w, acked)
           \/ \E acked \in BOOLEAN : Complete(w, acked)
           \/ Recover(w)

Sweep == SweepBury \/ SweepRelease

Next == \/ \E j \in Job : Enqueue(j) \/ Expire(j) \/ Elapse(j)
        \/ \E w \in Worker, j \in Job : Claim(w, j)
        \/ \E w \in Worker : Step(w) \/ Crash(w)
        \/ Sweep

Spec == Init /\ [][Next]_vars

(***************************************************************************)
(* Fairness.  The worker loop and the sweeper run for ever (runLoop,       *)
(* runSweeper); time passes; an operation returns or throws.  A claimable  *)
(* job is claimed in the end: claim() takes the oldest next_attempt_at     *)
(* first, and a job that is put back always gets a later one.              *)
(***************************************************************************)
Fairness == /\ \A w \in Worker : WF_vars(Step(w))
            /\ \A j \in Job : /\ SF_vars(\E w \in Worker : Claim(w, j))
                              /\ WF_vars(Expire(j))
                              /\ WF_vars(Elapse(j))
            /\ WF_vars(Sweep)

FairSpec == Spec /\ Fairness

-----------------------------------------------------------------------------

TypeOK == /\ job \in [Job -> JobRow]
          /\ worker \in [Worker -> {Idle} \union Busy \union Failing]
          /\ sweeper \in {"bury", "release"}
          /\ performed \in [Job -> SUBSET Stages]
          /\ starts \in [Job -> Nat]
          /\ aborts \in 0..MaxAborts
          /\ unburied \subseteq Job

(***************************************************************************)
(* No two workers ever hold leases on one job that the database would both *)
(* honour, even when they share an owner string: the fence decides.        *)
(***************************************************************************)
OneHolder ==
    \A v, w \in Worker :
        Held(v) /\ Held(w) /\ worker[v].job = worker[w].job => v = w

(***************************************************************************)
(* A worker that still holds its lease works from the state the row is in: *)
(* what it is about to record is the step after the recorded one, so an    *)
(* attempt resumes where the last one stopped and redoes nothing.          *)
(***************************************************************************)
HolderKnowsState ==
    \A w \in Worker :
        Held(w) /\ worker[w].phase # "failing"
            => job[worker[w].job].state = worker[w].state

\* The stages a job leaves behind on its way to state s.
Passed(j, s) ==
    CASE s = "PARSED" -> {"RECEIVED"}
      [] s \in {"SESSION_CREATED", "RUNNING"} -> {"RECEIVED", "PARSED"}
      [] s = "DONE" -> {"RECEIVED", "PARSED"} \union
                       (IF Kind[j] = "analysis" THEN {"SESSION_CREATED", "RUNNING"} ELSE {})
      [] OTHER -> {}

(***************************************************************************)
(* The recorded state is never a lie about what happened: every step it    *)
(* says is over had its work done, through any crashes, takeovers and lost *)
(* replies (claim()'s comment on not stamping RUNNING).                    *)
(***************************************************************************)
NoStepSkipped ==
    \A j \in Job : \A s \in Passed(j, job[j].state) :
        HasWork(j, s) => s \in performed[j]

(***************************************************************************)
(* The retry budget: whatever deadlines, crashes and failures happen, work *)
(* on a job starts at most max_attempts + 1 times, the extra one being the *)
(* single grace retry releaseAfterDeadline() allows.                       *)
(***************************************************************************)
StartBudget == \A j \in Job : starts[j] <= MaxAttempts + 1

(***************************************************************************)
(* The queue implements the lifecycle it promises (JobLifecycle): a job    *)
(* moves one allowed step at a time, only over work that was done, never   *)
(* leaves a terminal state, and a replayed delivery changes nothing.       *)
(***************************************************************************)
Lifecycle == INSTANCE JobLifecycle WITH state <- [j \in Job |-> job[j].state]

ImplementsLifecycle == Lifecycle!Spec

(***************************************************************************)
(* Only the current holder moves a job; the one exception is the sweeper   *)
(* burying a job whose holder died on its last attempt.                    *)
(***************************************************************************)
MovedByHolder(j) ==
    job'[j].state # job[j].state
        => \/ job[j].state = "ABSENT"
           \/ \E w \in Worker : Held(w) /\ worker[w].job = j /\ worker'[w] # worker[w]
           \/ /\ job[j].lease = "expired"
              /\ Exhausted(j)
              /\ job'[j].state = "DEAD_LETTER"

OnlyHolderMoves == [][\A j \in Job : MovedByHolder(j)]_vars

\* Out of attempts with no lease left for the sweeper to find: claim() skips
\* the job and so does the burial.
Stranded(j) == Open(j) /\ Exhausted(j) /\ job[j].lease = "none"

(***************************************************************************)
(* The only way to lose a job like that is the sweeper's second statement  *)
(* clearing a last lease the first one did not see expired: fail(),        *)
(* releaseAfterDeadline() and a burial never leave an exhausted job open.  *)
(***************************************************************************)
OnlySweepStrands == \A j \in Job : Stranded(j) => j \in unburied

(***************************************************************************)
(* Every accepted delivery ends DONE or DEAD_LETTER, crashes and deadlines *)
(* notwithstanding, unless the sweeper stranded it that way.               *)
(***************************************************************************)
EventuallySettled ==
    \A j \in Job : Open(j) ~> (job[j].state \in Terminal \/ j \in unburied)
=============================================================================
