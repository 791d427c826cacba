--------------------------- MODULE JobQueueProofs ---------------------------
(***************************************************************************)
(* Proofs about JobQueue, for every set of jobs and workers, any owner     *)
(* strings, any MaxAttempts and whatever the clocks do.                    *)
(***************************************************************************)
EXTENDS JobQueue, FiniteSetTheorems, TLAPS

USE MaxAttemptsAssumption, MaxAbortsAssumption

-----------------------------------------------------------------------------
(* Type correctness.                                                       *)

\* A worker that is not idle holds a lease record, with or without a reason.
LEMMA BusyFields ==
    ASSUME TypeOK, NEW w \in Worker, worker[w].phase # "idle"
    PROVE  /\ worker[w] # Idle
           /\ worker[w].job \in Job
           /\ worker[w].fence \in Nat
           /\ worker[w].state \in Stages
           /\ worker[w].phase \in {"claimed", "work", "ready", "failing"}
           /\ worker[w].phase # "failing" => worker[w] \in Busy
           /\ worker[w].phase = "failing" => worker[w] \in Failing
  BY DEF TypeOK, Idle, Busy, Failing

LEMMA NotIdle ==
    ASSUME TypeOK, NEW w \in Worker, worker[w] # Idle
    PROVE  worker[w].phase # "idle"
  BY DEF TypeOK, Idle, Busy, Failing

LEMMA UnleasedRow ==
    ASSUME NEW row \in JobRow
    PROVE  Unleased(row) \in JobRow
  BY DEF JobRow, Unleased, Owners

\* The rows the recovery writes leave behind.
LEMMA RecoveredRows ==
    ASSUME NEW row \in JobRow, row.state \in Stages
    PROVE  /\ Unleased(row) \in JobRow
           /\ Failed(row) \in JobRow
           /\ ReleasedAfterDeadline(row) \in JobRow
           /\ Abandoned(row) \in JobRow
<1>1. Unleased(row) \in JobRow
  BY UnleasedRow
<1>2. Failed(row) \in JobRow
  BY <1>1 DEF JobRow, Unleased, Failed, Owners, Terminal
<1>3. ReleasedAfterDeadline(row) \in JobRow
  <2>1. CASE row.attempts < MaxAttempts
    BY <2>1, <1>1 DEF JobRow, Unleased, ReleasedAfterDeadline
  <2>2. CASE row.attempts >= MaxAttempts /\ row.grace
    BY <2>2, <1>1 DEF JobRow, Unleased, ReleasedAfterDeadline, Terminal
  <2>3. CASE row.attempts >= MaxAttempts /\ ~row.grace
    <3>1. row.attempts - 1 \in 0..MaxAttempts
      BY <2>3 DEF JobRow
    <3> DEFINE put == [Unleased(row) EXCEPT !.grace = FALSE, !.backoff = TRUE]
    <3>2. put \in JobRow /\ put.attempts = row.attempts
      BY <1>1 DEF JobRow, Unleased
    <3>3. ReleasedAfterDeadline(row) = [put EXCEPT !.attempts = put.attempts - 1, !.grace = TRUE]
      BY <2>3 DEF ReleasedAfterDeadline, JobRow
    <3> HIDE DEF put
    <3>4. \A row2 \in JobRow : [row2 EXCEPT !.attempts = row.attempts - 1, !.grace = TRUE] \in JobRow
      BY <3>1 DEF JobRow
    <3> QED
      BY <3>2, <3>3, <3>4
  <2> QED
    BY <2>1, <2>2, <2>3 DEF JobRow
<1>4. Abandoned(row) \in JobRow
  BY <1>1 DEF JobRow, Unleased, Abandoned, Owners, Terminal
<1> QED
  BY <1>1, <1>2, <1>3, <1>4

\* Whoever holds a lease, or finds one to sweep, holds it on an open job.
LeasedIsOpen == \A j \in Job : job[j].lease # "none" => Open(j)

LEMMA TypeInit == Init => TypeOK
  BY DEF Init, TypeOK, Absent, JobRow, Owners, Idle

LEMMA TypeStep ==
    ASSUME TypeOK, LeasedIsOpen, [Next]_vars
    PROVE  TypeOK'
<1>1. ASSUME NEW j \in Job, Enqueue(j) PROVE TypeOK'
  <2>1. [Absent EXCEPT !.state = "RECEIVED"] \in JobRow
    <3>1. Absent \in JobRow
      BY DEF Absent, JobRow, Owners
    <3>2. "RECEIVED" \in Stages
      BY DEF Stages
    <3> QED
      BY <3>1, <3>2 DEF JobRow
  <2> QED
    BY <1>1, <2>1 DEF Enqueue, Write, TypeOK
<1>2. ASSUME NEW w \in Worker, NEW j \in Job, Claim(w, j) PROVE TypeOK'
  <2>1. [job[j] EXCEPT !.owner = OwnerOf[w], !.lease = "live",
                       !.attempts = @ + 1, !.fence = @ + 1] \in JobRow
    <3>1. job[j] \in JobRow
      BY DEF TypeOK
    <3>2. OwnerOf[w] \in Owners
      BY DEF Owners
    <3>3. job[j].attempts + 1 \in 0..MaxAttempts /\ job[j].fence + 1 \in Nat
      BY <1>2, <3>1 DEF Claim, Claimable, Exhausted, JobRow
    <3> QED
      BY <3>1, <3>2, <3>3 DEF JobRow
  <2>2. [phase |-> "claimed", job |-> j, fence |-> job[j].fence + 1,
         state |-> job[j].state] \in Busy
    BY <1>2 DEF Claim, Claimable, Open, TypeOK, JobRow, Busy
  <2> QED
    BY <1>2, <2>1, <2>2 DEF Claim, Write, TypeOK
<1>3. ASSUME NEW w \in Worker, ReleaseUnstarted(w) PROVE TypeOK'
  <2> DEFINE j == worker[w].job
  <2>1. j \in Job
    BY <1>3, BusyFields DEF ReleaseUnstarted
  <2>2. [Unleased(job[j]) EXCEPT !.attempts = IF @ > 0 THEN @ - 1 ELSE 0] \in JobRow
    <3>1. Unleased(job[j]) \in JobRow
      BY <2>1, UnleasedRow DEF TypeOK
    <3> QED
      BY <3>1 DEF JobRow
  <2> QED
    BY <1>3, <2>1, <2>2 DEF ReleaseUnstarted, Write, Stop, TypeOK
<1>4. ASSUME NEW w \in Worker, Begin(w) PROVE TypeOK'
  <2>1. [worker[w] EXCEPT !.phase = Enter(worker[w].job, worker[w].state)] \in Busy
    BY <1>4, BusyFields DEF Begin, Busy, Enter
  <2> QED
    BY <1>4, <2>1, BusyFields DEF Begin, TypeOK
<1>5. ASSUME NEW w \in Worker, Perform(w) PROVE TypeOK'
  <2>1. [worker[w] EXCEPT !.phase = "ready"] \in Busy
    BY <1>5, BusyFields DEF Perform, Busy
  <2> QED
    BY <1>5, <2>1, BusyFields DEF Perform, TypeOK
<1>6. ASSUME NEW w \in Worker, NEW why \in Outcomes, StepFails(w, why) PROVE TypeOK'
  <2>1. Throw(w, why) \in Failing
    BY <1>6, BusyFields DEF StepFails, Throw, Failing
  <2> QED
    BY <1>6, <2>1 DEF StepFails, TypeOK
<1>7. ASSUME NEW w \in Worker, LeaseLost(w) \/ Crash(w) PROVE TypeOK'
  BY <1>7 DEF LeaseLost, Crash, Stop, TypeOK
<1>8. ASSUME NEW w \in Worker, NEW acked \in BOOLEAN, Advance(w, acked) PROVE TypeOK'
  <2> DEFINE j == worker[w].job
             to == NextStage(j, worker[w].state)
  <2>1. j \in Job /\ to \in Stages
    BY <1>8, BusyFields DEF Advance, NextStage, Stages
  <2>2. [job[j] EXCEPT !.state = to] \in JobRow
    BY <2>1 DEF TypeOK, JobRow, Owners
  <2>3. [worker[w] EXCEPT !.phase = Enter(j, to), !.state = to] \in Busy
    BY <1>8, <2>1, BusyFields DEF Advance, Busy, Enter
  <2>4. Throw(w, "error") \in Failing
    BY <1>8, BusyFields DEF Advance, Throw, Failing, Outcomes
  <2> QED
    BY <1>8, <2>1, <2>2, <2>3, <2>4 DEF Advance, Write, TypeOK
<1>9. ASSUME NEW w \in Worker, NEW acked \in BOOLEAN, Complete(w, acked) PROVE TypeOK'
  <2> DEFINE j == worker[w].job
  <2>1. j \in Job
    BY <1>9, BusyFields DEF Complete
  <2>2. [Unleased(job[j]) EXCEPT !.state = "DONE", !.grace = FALSE] \in JobRow
    <3>1. Unleased(job[j]) \in JobRow
      BY <2>1, UnleasedRow DEF TypeOK
    <3> QED
      BY <3>1 DEF JobRow, Terminal
  <2>3. Throw(w, "error") \in Failing
    BY <1>9, BusyFields DEF Complete, Throw, Failing, Outcomes
  <2> QED
    BY <1>9, <2>1, <2>2, <2>3 DEF Complete, Write, TypeOK
<1>10. ASSUME NEW w \in Worker, Recover(w) PROVE TypeOK'
  <2> DEFINE j == worker[w].job
  <2>1. j \in Job /\ worker[w].why \in Outcomes
    BY <1>10, BusyFields DEF Recover, Failing
  <2>2. job[j] \in JobRow /\ job[j].state \in Stages
    BY <1>10, <2>1, BusyFields
    DEF Recover, WriteScope, HeldInState, Held, LeasedIsOpen, Open, TypeOK
  <2>3. job'[j] \in JobRow /\ job' = [job EXCEPT ![j] = job'[j]]
    BY <1>10, <2>1, <2>2, RecoveredRows DEF Recover, Write, TypeOK, Outcomes
  <2> QED
    BY <1>10, <2>1, <2>3 DEF Recover, Stop, TypeOK
<1>11. ASSUME NEW j \in Job, Expire(j) \/ Elapse(j) PROVE TypeOK'
  <2>1. /\ [job[j] EXCEPT !.lease = "expired"] \in JobRow
        /\ [job[j] EXCEPT !.backoff = FALSE] \in JobRow
    BY DEF TypeOK, JobRow, Owners
  <2> QED
    BY <1>11, <2>1 DEF Expire, Elapse, Write, TypeOK
<1>12. CASE SweepBury
  <2>1. ASSUME NEW j \in Job
        PROVE  [Unleased(job[j]) EXCEPT !.state = "DEAD_LETTER"] \in JobRow
    BY DEF Unleased, TypeOK, JobRow, Owners, Terminal
  <2> QED
    BY <1>12, <2>1 DEF SweepBury, TypeOK
<1>13. CASE SweepRelease
  <2>1. ASSUME NEW j \in Job PROVE Unleased(job[j]) \in JobRow
    BY DEF Unleased, TypeOK, JobRow, Owners
  <2> QED
    BY <1>13, <2>1 DEF SweepRelease, TypeOK
<1>14. CASE UNCHANGED vars
  BY <1>14 DEF vars, TypeOK
<1> QED
  BY <1>1, <1>2, <1>3, <1>4, <1>5, <1>6, <1>7, <1>8, <1>9, <1>10, <1>11, <1>12, <1>13, <1>14
  DEF Next, Step, Sweep

LEMMA LeasedIsOpenStep ==
    ASSUME TypeOK, LeasedIsOpen, [Next]_vars
    PROVE  LeasedIsOpen'
<1> SUFFICES ASSUME NEW i \in Job, job'[i].lease # "none"
             PROVE  job'[i].state \in Stages
  BY DEF LeasedIsOpen, Open
<1>0. job[i] \in JobRow /\ (job[i].lease # "none" => job[i].state \in Stages)
  BY DEF TypeOK, LeasedIsOpen, Open
<1>1. ASSUME NEW j \in Job, Enqueue(j) PROVE job'[i].state \in Stages
  BY <1>0, <1>1 DEF Enqueue, Write, TypeOK, Absent
<1>2. ASSUME NEW w \in Worker, NEW j \in Job, Claim(w, j) PROVE job'[i].state \in Stages
  BY <1>0, <1>2 DEF Claim, Claimable, Open, Write, TypeOK, JobRow
<1>3. ASSUME NEW w \in Worker, ReleaseUnstarted(w) PROVE job'[i].state \in Stages
  BY <1>0, <1>3, BusyFields DEF ReleaseUnstarted, Write, Unleased, TypeOK, JobRow
<1>4. ASSUME NEW w \in Worker, NEW acked \in BOOLEAN, Advance(w, acked)
      PROVE job'[i].state \in Stages
  <2>1. /\ worker[w].job \in Job
        /\ NextStage(worker[w].job, worker[w].state) \in Stages
    BY <1>4, BusyFields DEF Advance, NextStage, Stages
  <2> QED
    BY <1>0, <1>4, <2>1 DEF Advance, Write, TypeOK, JobRow
<1>5. ASSUME NEW w \in Worker, NEW acked \in BOOLEAN, Complete(w, acked)
      PROVE job'[i].state \in Stages
  BY <1>0, <1>5, BusyFields DEF Complete, Write, Unleased, TypeOK, JobRow
<1>6. ASSUME NEW w \in Worker, Recover(w) PROVE job'[i].state \in Stages
  <2> DEFINE j == worker[w].job
  <2>1. j \in Job /\ worker[w].why \in Outcomes /\ job[j] \in JobRow
    BY <1>6, BusyFields DEF Recover, Failing, TypeOK
  <2>2. ASSUME NEW row \in JobRow
        PROVE  /\ Failed(row).lease = "none"
               /\ ReleasedAfterDeadline(row).lease = "none"
               /\ Abandoned(row).lease = "none"
    BY DEF Failed, ReleasedAfterDeadline, Abandoned, Unleased, JobRow
  <2>3. CASE i = j
    BY <1>0, <1>6, <2>1, <2>2, <2>3 DEF Recover, Write, TypeOK, Outcomes
  <2>4. CASE i # j
    BY <1>0, <1>6, <2>1, <2>4 DEF Recover, Write, TypeOK
  <2> QED
    BY <2>3, <2>4
<1>7. ASSUME NEW j \in Job, Expire(j) \/ Elapse(j) PROVE job'[i].state \in Stages
  BY <1>0, <1>7 DEF Expire, Elapse, Write, TypeOK, JobRow
<1>8. CASE Sweep
  <2>1. [Unleased(job[i]) EXCEPT !.state = "DEAD_LETTER"].lease = "none"
    BY <1>0 DEF Unleased, JobRow
  <2>2. Unleased(job[i]).lease = "none"
    BY <1>0 DEF Unleased, JobRow
  <2> QED
    BY <1>0, <1>8, <2>1, <2>2 DEF Sweep, SweepBury, SweepRelease
<1>9. CASE job' = job
  BY <1>0, <1>9
<1> QED
  BY <1>1, <1>2, <1>3, <1>4, <1>5, <1>6, <1>7, <1>8, <1>9
  DEF Next, Step, Begin, Perform, StepFails, LeaseLost, Crash, vars

(***************************************************************************)
(* Every reachable state is well typed, and a leased job is an open one.   *)
(***************************************************************************)
THEOREM TypeCorrect == Spec => [](TypeOK /\ LeasedIsOpen)
<1>1. Init => TypeOK /\ LeasedIsOpen
  BY TypeInit DEF Init, LeasedIsOpen, Absent
<1>2. TypeOK /\ LeasedIsOpen /\ [Next]_vars => (TypeOK /\ LeasedIsOpen)'
  BY TypeStep, LeasedIsOpenStep
<1> QED
  BY <1>1, <1>2, PTL DEF Spec

-----------------------------------------------------------------------------
(* What a step can do to a lease, to a fence and to a worker.              *)

Typed == TypeOK /\ LeasedIsOpen

\* Only a claim moves a fence, and no row ever goes back to being absent.
LEMMA FenceFrame ==
    ASSUME Typed, [Next]_vars, NEW i \in Job
    PROVE  /\ \/ job'[i].fence = job[i].fence
              \/ job[i].state = "ABSENT"
              \/ \E w \in Worker : Claim(w, i)
           /\ job[i].state # "ABSENT" => job'[i].state # "ABSENT"
<1> DEFINE Goal == /\ \/ job'[i].fence = job[i].fence
                      \/ job[i].state = "ABSENT"
                      \/ \E w \in Worker : Claim(w, i)
                   /\ job[i].state # "ABSENT" => job'[i].state # "ABSENT"
<1>0. job[i] \in JobRow /\ TypeOK
  BY DEF Typed, TypeOK
<1>1. ASSUME NEW j \in Job, Enqueue(j) PROVE Goal
  BY <1>0, <1>1 DEF Enqueue, Write, TypeOK, Absent
<1>2. ASSUME NEW w \in Worker, NEW j \in Job, Claim(w, j) PROVE Goal
  BY <1>0, <1>2 DEF Claim, Write, TypeOK, JobRow
<1>3. ASSUME NEW w \in Worker, ReleaseUnstarted(w) PROVE Goal
  BY <1>0, <1>3, BusyFields DEF ReleaseUnstarted, Write, Unleased, TypeOK, JobRow
<1>4. ASSUME NEW w \in Worker, NEW acked \in BOOLEAN, Advance(w, acked) PROVE Goal
  <2>1. /\ worker[w].job \in Job
        /\ NextStage(worker[w].job, worker[w].state) # "ABSENT"
    BY <1>0, <1>4, BusyFields DEF Advance, NextStage, Stages
  <2> QED
    BY <1>0, <1>4, <2>1 DEF Advance, Write, TypeOK, JobRow
<1>5. ASSUME NEW w \in Worker, NEW acked \in BOOLEAN, Complete(w, acked) PROVE Goal
  BY <1>0, <1>5, BusyFields DEF Complete, Write, Unleased, TypeOK, JobRow
<1>6. ASSUME NEW w \in Worker, Recover(w) PROVE Goal
  <2> DEFINE j == worker[w].job
  <2>1. j \in Job /\ worker[w].why \in Outcomes /\ job[j] \in JobRow
    BY <1>0, <1>6, BusyFields DEF Recover, Failing, TypeOK
  <2>2. ASSUME NEW row \in JobRow
        PROVE  /\ Failed(row).fence = row.fence
               /\ ReleasedAfterDeadline(row).fence = row.fence
               /\ Abandoned(row).fence = row.fence
               /\ Failed(row).state \in {row.state, "DEAD_LETTER"}
               /\ ReleasedAfterDeadline(row).state \in {row.state, "DEAD_LETTER"}
               /\ Abandoned(row).state = "DEAD_LETTER"
    BY DEF Failed, ReleasedAfterDeadline, Abandoned, Unleased, JobRow
  <2>3. CASE i = j
    BY <1>0, <1>6, <2>1, <2>2, <2>3 DEF Recover, Write, TypeOK, Outcomes
  <2>4. CASE i # j
    BY <1>0, <1>6, <2>1, <2>4 DEF Recover, Write, TypeOK
  <2> QED
    BY <2>3, <2>4
<1>7. ASSUME NEW j \in Job, Expire(j) \/ Elapse(j) PROVE Goal
  BY <1>0, <1>7 DEF Expire, Elapse, Write, TypeOK, JobRow
<1>8. CASE Sweep
  <2>1. /\ [Unleased(job[i]) EXCEPT !.state = "DEAD_LETTER"].fence = job[i].fence
        /\ [Unleased(job[i]) EXCEPT !.state = "DEAD_LETTER"].state = "DEAD_LETTER"
        /\ Unleased(job[i]).fence = job[i].fence
        /\ Unleased(job[i]).state = job[i].state
    BY <1>0 DEF Unleased, JobRow
  <2> QED
    BY <1>8, <2>1 DEF Sweep, SweepBury, SweepRelease
<1>9. CASE job' = job
  BY <1>9
<1> QED
  BY <1>1, <1>2, <1>3, <1>4, <1>5, <1>6, <1>7, <1>8, <1>9
  DEF Next, Step, Begin, Perform, StepFails, LeaseLost, Crash, vars

\* A worker keeps its lease, drops it, or has just been handed one.
LEMMA WorkerFrame ==
    ASSUME Typed, [Next]_vars, NEW w \in Worker
    PROVE  \/ worker'[w] = Idle
           \/ /\ worker[w] # Idle
              /\ worker'[w].job = worker[w].job
              /\ worker'[w].fence = worker[w].fence
           \/ \E j \in Job : Claim(w, j)
<1> DEFINE Goal == \/ worker'[w] = Idle
                   \/ /\ worker[w] # Idle
                      /\ worker'[w].job = worker[w].job
                      /\ worker'[w].fence = worker[w].fence
                   \/ \E j \in Job : Claim(w, j)
<1>0. TypeOK /\ (worker[w] = Idle \/ worker[w] \in Busy \/ worker[w] \in Failing)
  BY DEF Typed, TypeOK
<1>1. ASSUME NEW v \in Worker, NEW j \in Job, Claim(v, j) PROVE Goal
  BY <1>0, <1>1 DEF Claim, TypeOK
<1>2. ASSUME NEW v \in Worker, Step(v) \/ Crash(v) PROVE Goal
  <2>1. CASE v # w
    BY <1>0, <1>2, <2>1
    DEF Step, Crash, Begin, ReleaseUnstarted, Perform, StepFails, LeaseLost, Advance, Complete,
        Recover, Stop, TypeOK
  <2>2. CASE v = w /\ (ReleaseUnstarted(v) \/ LeaseLost(v) \/ Recover(v) \/ Crash(v))
    BY <1>0, <2>2 DEF ReleaseUnstarted, LeaseLost, Recover, Crash, Stop, TypeOK
  <2>3. CASE v = w /\ (Begin(v) \/ Perform(v))
    BY <1>0, <2>3, BusyFields DEF Begin, Perform, Idle, TypeOK, Busy
  <2>4. CASE v = w /\ \E why \in Outcomes : StepFails(v, why)
    BY <1>0, <2>4, BusyFields DEF StepFails, Throw, TypeOK
  <2>5. CASE v = w /\ \E acked \in BOOLEAN : Advance(v, acked)
    BY <1>0, <2>5, BusyFields DEF Advance, Throw, TypeOK, Busy
  <2>6. CASE v = w /\ \E acked \in BOOLEAN : Complete(v, acked)
    BY <1>0, <2>6, BusyFields DEF Complete, Throw, TypeOK
  <2> QED
    BY <1>2, <2>1, <2>2, <2>3, <2>4, <2>5, <2>6 DEF Step
<1>3. CASE worker' = worker
  BY <1>3
<1> QED
  BY <1>1, <1>2, <1>3
  DEF Next, Enqueue, Expire, Elapse, Sweep, SweepBury, SweepRelease, vars

-----------------------------------------------------------------------------
(* Fencing: the leases handed out for one job carry different fences, none *)
(* above the row's, so the database honours at most one of them.           *)

Fenced == \A w \in Worker :
             worker[w] # Idle => /\ worker[w].fence <= job[worker[w].job].fence
                                 /\ job[worker[w].job].state # "ABSENT"

Distinct == \A v, w \in Worker :
               /\ worker[v] # Idle
               /\ worker[w] # Idle
               /\ worker[v].job = worker[w].job
               /\ worker[v].fence = worker[w].fence
               => v = w

LEMMA FencingStep ==
    ASSUME Typed, Fenced, Distinct, [Next]_vars
    PROVE  Fenced' /\ Distinct'
<1>0. TypeOK /\ \A w \in Worker : worker[w] # Idle => worker[w].job \in Job /\ worker[w].fence \in Nat
  BY BusyFields, NotIdle DEF Typed
<1>1. ASSUME NEW w \in Worker, NEW j \in Job, Claim(w, j)
      PROVE  /\ worker' = [worker EXCEPT ![w] = worker'[w]]
             /\ worker'[w].job = j
             /\ worker'[w].fence = job[j].fence + 1
             /\ job'[j].fence = job[j].fence + 1
             /\ job[j].fence \in Nat
             /\ \A i \in Job : i # j => job'[i] = job[i]
             /\ \A i \in Job : job'[i].state = job[i].state
             /\ job[j].state # "ABSENT"
  BY <1>0, <1>1 DEF Claim, Claimable, Open, Stages, Write, TypeOK, JobRow
<1>2. ASSUME NEW w \in Worker, worker'[w] # Idle
      PROVE  /\ worker'[w].fence <= job'[worker'[w].job].fence
             /\ job'[worker'[w].job].state # "ABSENT"
  <2>1. CASE \E j \in Job : Claim(w, j)
    BY <1>0, <1>1, <2>1
  <2>2. CASE /\ worker[w] # Idle
             /\ worker'[w].job = worker[w].job
             /\ worker'[w].fence = worker[w].fence
    <3> DEFINE i == worker[w].job
    <3>1. /\ i \in Job
          /\ worker[w].fence <= job[i].fence
          /\ job[i].state # "ABSENT"
          /\ worker[w].fence \in Nat
          /\ job[i].fence \in Nat
      BY <1>0, <2>2 DEF Fenced, TypeOK, JobRow
    <3>2. job'[i].fence = job[i].fence \/ job'[i].fence = job[i].fence + 1
      BY <1>1, <3>1, FenceFrame
    <3> QED
      BY <2>2, <3>1, <3>2, FenceFrame
  <2> QED
    BY <1>2, <2>1, <2>2, WorkerFrame
<1>3. ASSUME NEW v \in Worker, NEW w \in Worker, v # w,
             worker'[v] # Idle, worker'[w] # Idle, worker'[v].job = worker'[w].job
      PROVE  worker'[v].fence # worker'[w].fence
  <2>1. ASSUME NEW x \in Worker, NEW y \in Worker, x # y, NEW j \in Job, Claim(x, j),
               worker'[y] # Idle, worker'[y].job = worker'[x].job
        PROVE  worker'[x].fence # worker'[y].fence
    <3>1. worker'[y] = worker[y] /\ worker[y] # Idle /\ worker[y].job = j
      BY <1>0, <1>1, <2>1 DEF TypeOK
    <3>2. worker[y].fence <= job[j].fence /\ worker[y].fence \in Nat
      BY <1>0, <3>1 DEF Fenced
    <3> QED
      BY <1>1, <2>1, <3>1, <3>2
  <2>2. CASE \E j \in Job : Claim(v, j) \/ Claim(w, j)
    BY <1>3, <2>1, <2>2
  <2>3. CASE ~\E j \in Job : Claim(v, j) \/ Claim(w, j)
    BY <1>3, <2>3, WorkerFrame DEF Distinct
  <2> QED
    BY <2>2, <2>3
<1> QED
  BY <1>2, <1>3 DEF Fenced, Distinct

LEMMA FencingOneHolder == Typed /\ Distinct => OneHolder
  BY DEF Distinct, OneHolder, Held

(***************************************************************************)
(* No two workers hold honoured leases on one job, for any owner strings.  *)
(***************************************************************************)
THEOREM AtMostOneHolder == Spec => []OneHolder
<1>1. Init => Fenced /\ Distinct
  BY DEF Init, Fenced, Distinct
<1>2. Typed /\ Fenced /\ Distinct /\ [Next]_vars => (Fenced /\ Distinct)'
  BY FencingStep
<1>3. Spec => []Typed
  BY TypeCorrect DEF Typed
<1> QED
  BY <1>1, <1>2, <1>3, FencingOneHolder, PTL DEF Spec

-----------------------------------------------------------------------------
(* Who moves a job, and what the mover knows.                              *)

\* A lease the database honours now was honoured before, or is a new one.
LEMMA HeldFrame ==
    ASSUME Typed, [Next]_vars, NEW w \in Worker, worker'[w] # Idle,
           NEW i \in Job, i = worker'[w].job,
           job'[i].lease = "live", ~\E j \in Job : Claim(w, j)
    PROVE  \/ job[i].lease = "live" /\ job'[i].owner = job[i].owner
           \/ \E v \in Worker : v # w /\ Claim(v, i)
<1> DEFINE Goal == \/ job[i].lease = "live" /\ job'[i].owner = job[i].owner
                   \/ \E v \in Worker : v # w /\ Claim(v, i)
<1>0. job[i] \in JobRow /\ TypeOK
  BY DEF Typed, TypeOK
<1>1. ASSUME NEW j \in Job, Enqueue(j) PROVE Goal
  <2>1. [Absent EXCEPT !.state = "RECEIVED"].lease = "none"
    BY DEF Absent
  <2> QED
    BY <1>0, <1>1, <2>1 DEF Enqueue, Write, TypeOK
<1>2. ASSUME NEW v \in Worker, NEW j \in Job, Claim(v, j) PROVE Goal
  BY <1>0, <1>2 DEF Claim, Write, TypeOK, JobRow
<1>3. ASSUME NEW v \in Worker, ReleaseUnstarted(v) PROVE Goal
  BY <1>0, <1>3, BusyFields DEF ReleaseUnstarted, Write, Unleased, TypeOK, JobRow
<1>4. ASSUME NEW v \in Worker, NEW acked \in BOOLEAN, Advance(v, acked) PROVE Goal
  BY <1>0, <1>4, BusyFields DEF Advance, Write, TypeOK, JobRow
<1>5. ASSUME NEW v \in Worker, NEW acked \in BOOLEAN, Complete(v, acked) PROVE Goal
  BY <1>0, <1>5, BusyFields DEF Complete, Write, Unleased, TypeOK, JobRow
<1>6. ASSUME NEW v \in Worker, Recover(v) PROVE Goal
  <2> DEFINE j == worker[v].job
  <2>1. j \in Job /\ worker[v].why \in Outcomes /\ job[j] \in JobRow
    BY <1>0, <1>6, BusyFields DEF Recover, Failing, TypeOK
  <2>2. ASSUME NEW row \in JobRow
        PROVE  /\ Failed(row).lease = "none"
               /\ ReleasedAfterDeadline(row).lease = "none"
               /\ Abandoned(row).lease = "none"
    BY DEF Failed, ReleasedAfterDeadline, Abandoned, Unleased, JobRow
  <2>3. CASE i = j
    BY <1>0, <1>6, <2>1, <2>2, <2>3 DEF Recover, Write, TypeOK, Outcomes
  <2>4. CASE i # j
    BY <1>0, <1>6, <2>1, <2>4 DEF Recover, Write, TypeOK
  <2> QED
    BY <2>3, <2>4
<1>7. ASSUME NEW j \in Job, Expire(j) \/ Elapse(j) PROVE Goal
  BY <1>0, <1>7 DEF Expire, Elapse, Write, TypeOK, JobRow
<1>8. CASE Sweep
  <2>1. /\ [Unleased(job[i]) EXCEPT !.state = "DEAD_LETTER"].lease = "none"
        /\ Unleased(job[i]).lease = "none"
    BY <1>0 DEF Unleased, JobRow
  <2> QED
    BY <1>8, <2>1 DEF Sweep, SweepBury, SweepRelease
<1>9. CASE job' = job
  BY <1>9
<1> QED
  BY <1>1, <1>2, <1>3, <1>4, <1>5, <1>6, <1>7, <1>8, <1>9
  DEF Next, Step, Begin, Perform, StepFails, LeaseLost, Crash, vars

\* The steps that change a job's state.
LEMMA StateFrame ==
    ASSUME Typed, [Next]_vars, NEW i \in Job, job'[i].state # job[i].state
    PROVE  \/ job[i].state = "ABSENT" /\ job'[i].state = "RECEIVED"
           \/ \E w \in Worker :
                 /\ Held(w)
                 /\ worker[w].job = i
                 /\ \/ \E acked \in BOOLEAN : Advance(w, acked) \/ Complete(w, acked)
                    \/ Recover(w) /\ job'[i].state = "DEAD_LETTER"
           \/ /\ job[i].lease = "expired"
              /\ Exhausted(i)
              /\ job[i].state \in Stages
              /\ job'[i].state = "DEAD_LETTER"
              /\ SweepBury
<1> DEFINE Goal == \/ job[i].state = "ABSENT" /\ job'[i].state = "RECEIVED"
                   \/ \E w \in Worker :
                         /\ Held(w)
                         /\ worker[w].job = i
                         /\ \/ \E acked \in BOOLEAN : Advance(w, acked) \/ Complete(w, acked)
                            \/ Recover(w) /\ job'[i].state = "DEAD_LETTER"
                   \/ /\ job[i].lease = "expired"
                      /\ Exhausted(i)
                      /\ job[i].state \in Stages
                      /\ job'[i].state = "DEAD_LETTER"
                      /\ SweepBury
<1>0. job[i] \in JobRow /\ TypeOK
  BY DEF Typed, TypeOK
<1>1. ASSUME NEW j \in Job, Enqueue(j) PROVE Goal
  BY <1>0, <1>1 DEF Enqueue, Write, TypeOK, Absent
<1>2. ASSUME NEW w \in Worker, NEW j \in Job, Claim(w, j) PROVE FALSE
  BY <1>0, <1>2 DEF Claim, Write, TypeOK, JobRow
<1>3. ASSUME NEW w \in Worker, ReleaseUnstarted(w) PROVE FALSE
  BY <1>0, <1>3, BusyFields DEF ReleaseUnstarted, Write, Unleased, TypeOK, JobRow
<1>4. ASSUME NEW w \in Worker, NEW acked \in BOOLEAN, Advance(w, acked) \/ Complete(w, acked)
      PROVE  Goal
  <2>1. worker[w].job = i /\ Held(w)
    BY <1>0, <1>4, BusyFields DEF Advance, Complete, Write, TypeOK, WriteScope, HeldInState
  <2> QED
    BY <1>4, <2>1
<1>5. ASSUME NEW w \in Worker, Recover(w) PROVE Goal
  <2>1. worker[w].job = i /\ Held(w)
    BY <1>0, <1>5, BusyFields DEF Recover, Write, TypeOK, WriteScope, HeldInState
  <2>2. ASSUME NEW row \in JobRow
        PROVE  /\ Failed(row).state \in {row.state, "DEAD_LETTER"}
               /\ ReleasedAfterDeadline(row).state \in {row.state, "DEAD_LETTER"}
               /\ Abandoned(row).state = "DEAD_LETTER"
    BY DEF Failed, ReleasedAfterDeadline, Abandoned, Unleased, JobRow
  <2>3. worker[w].why \in Outcomes
    BY <1>0, <1>5, BusyFields DEF Recover, Failing
  <2>4. job'[i].state = "DEAD_LETTER"
    BY <1>0, <1>5, <2>1, <2>2, <2>3 DEF Recover, Write, TypeOK, Outcomes
  <2> QED
    BY <1>5, <2>1, <2>4
<1>6. ASSUME NEW j \in Job, Expire(j) \/ Elapse(j) PROVE FALSE
  BY <1>0, <1>6 DEF Expire, Elapse, Write, TypeOK, JobRow
<1>7. CASE SweepBury
  <2>1. [Unleased(job[i]) EXCEPT !.state = "DEAD_LETTER"].state = "DEAD_LETTER"
    BY <1>0 DEF Unleased, JobRow
  <2> QED
    BY <1>7, <2>1 DEF SweepBury, Open
<1>8. CASE SweepRelease
  <2>1. Unleased(job[i]).state = job[i].state
    BY <1>0 DEF Unleased, JobRow
  <2> QED
    BY <1>8, <2>1 DEF SweepRelease
<1>9. CASE job' = job
  BY <1>9
<1> QED
  BY <1>1, <1>2, <1>3, <1>4, <1>5, <1>6, <1>7, <1>8, <1>9
  DEF Next, Step, Sweep, Begin, Perform, StepFails, LeaseLost, Crash, vars

(***************************************************************************)
(* Only the holder moves a job, or the sweeper burying an exhausted one.   *)
(***************************************************************************)
THEOREM OnlyTheHolderMoves == Spec => OnlyHolderMoves
<1>1. ASSUME Typed, [Next]_vars, NEW j \in Job PROVE MovedByHolder(j)
  <2>1. ASSUME NEW w \in Worker, NEW acked \in BOOLEAN, Advance(w, acked) \/ Complete(w, acked)
        PROVE  worker'[w] # worker[w]
    <3>0. TypeOK /\ worker[w].phase = "ready" /\ worker[w] \in Busy
      BY <1>1, <2>1, BusyFields DEF Typed, Advance, Complete
    <3>1. CASE worker'[w] = Throw(w, "error") \/ worker'[w] = Idle
      BY <3>0, <3>1 DEF Throw, Idle
    <3>2. CASE Advance(w, acked) /\ worker'[w] # Throw(w, "error")
      <4> DEFINE to == NextStage(worker[w].job, worker[w].state)
      <4>1. worker[w].state \in Stages /\ to # worker[w].state
        BY <3>0, <3>2 DEF Busy, NextStage, Stages
      <4>2. worker'[w].state = to
        BY <3>0, <3>2 DEF Advance, TypeOK, Busy
      <4> QED
        BY <4>1, <4>2
    <3> QED
      BY <2>1, <3>0, <3>1, <3>2 DEF Complete, TypeOK
  <2>2. ASSUME NEW w \in Worker, Recover(w) PROVE worker'[w] # worker[w]
    BY <1>1, <2>2 DEF Typed, TypeOK, Recover, Stop, Idle
  <2> QED
    BY <1>1, <2>1, <2>2, StateFrame DEF MovedByHolder
<1>2. Typed /\ [Next]_vars => [\A j \in Job : MovedByHolder(j)]_vars
  BY <1>1
<1>3. Spec => []Typed
  BY TypeCorrect DEF Typed
<1> QED
  BY <1>2, <1>3, PTL DEF Spec, OnlyHolderMoves

\* What a worker's own copy of the state does in a step.
LEMMA CopyFrame ==
    ASSUME Typed, [Next]_vars, NEW w \in Worker,
           worker'[w] # Idle, worker'[w].phase # "failing", ~\E j \in Job : Claim(w, j)
    PROVE  /\ worker[w] \in Busy
           /\ \/ worker'[w].state = worker[w].state
              \/ /\ \E acked \in BOOLEAN : Advance(w, acked)
                 /\ worker'[w].state = NextStage(worker[w].job, worker[w].state)
<1> DEFINE Goal == /\ worker[w] \in Busy
                   /\ \/ worker'[w].state = worker[w].state
                      \/ /\ \E acked \in BOOLEAN : Advance(w, acked)
                         /\ worker'[w].state = NextStage(worker[w].job, worker[w].state)
<1>0. TypeOK /\ (worker[w] = Idle \/ worker[w] \in Busy \/ worker[w] \in Failing)
  BY DEF Typed, TypeOK
<1>1. ASSUME NEW v \in Worker, NEW j \in Job, Claim(v, j) PROVE Goal
  BY <1>0, <1>1 DEF Claim, TypeOK, Failing, Idle, Busy
<1>2. ASSUME NEW v \in Worker, Step(v) \/ Crash(v) PROVE Goal
  <2>1. CASE v # w
    BY <1>0, <1>2, <2>1
    DEF Step, Crash, Begin, ReleaseUnstarted, Perform, StepFails, LeaseLost, Advance, Complete,
        Recover, Stop, TypeOK, Failing, Idle, Busy
  <2>2. CASE v = w /\ (ReleaseUnstarted(v) \/ LeaseLost(v) \/ Recover(v) \/ Crash(v))
    BY <1>0, <2>2 DEF ReleaseUnstarted, LeaseLost, Recover, Crash, Stop, TypeOK
  <2>3. CASE v = w /\ (Begin(v) \/ Perform(v))
    BY <1>0, <2>3, BusyFields DEF Begin, Perform, Idle, TypeOK, Busy
  <2>4. CASE v = w /\ \E why \in Outcomes : StepFails(v, why)
    BY <1>0, <2>4, BusyFields DEF StepFails, Throw, TypeOK
  <2>5. CASE v = w /\ \E acked \in BOOLEAN : Advance(v, acked)
    <3>1. worker[w] \in Busy
      BY <1>0, <2>5, BusyFields DEF Advance
    <3>2. Throw(w, "error").phase = "failing"
      BY DEF Throw
    <3>3. PICK acked \in BOOLEAN : Advance(w, acked)
      BY <2>5
    <3>4. worker'[w] = [worker[w] EXCEPT
                          !.phase = Enter(worker[w].job, NextStage(worker[w].job, worker[w].state)),
                          !.state = NextStage(worker[w].job, worker[w].state)]
      BY <1>0, <3>2, <3>3 DEF Advance, TypeOK
    <3> QED
      BY <2>5, <3>1, <3>4 DEF Busy
  <2>6. CASE v = w /\ \E acked \in BOOLEAN : Complete(v, acked)
    BY <1>0, <2>6, BusyFields DEF Complete, Throw, TypeOK
  <2> QED
    BY <1>2, <2>1, <2>2, <2>3, <2>4, <2>5, <2>6 DEF Step
<1>3. CASE worker' = worker
  BY <1>0, <1>3 DEF Failing
<1> QED
  BY <1>1, <1>2, <1>3
  DEF Next, Enqueue, Expire, Elapse, Sweep, SweepBury, SweepRelease, vars

LEMMA KnowsStep ==
    ASSUME Typed, Fenced, Distinct, HolderKnowsState, [Next]_vars
    PROVE  HolderKnowsState'
<1> SUFFICES ASSUME NEW w \in Worker, Held(w)', worker'[w].phase # "failing"
             PROVE  job'[worker'[w].job].state = worker'[w].state
  BY DEF HolderKnowsState
<1>1. CASE \E j \in Job : Claim(w, j)
  BY <1>1 DEF Claim, Write, Typed, TypeOK, JobRow
<1>2. CASE ~\E j \in Job : Claim(w, j)
  <2> DEFINE i == worker[w].job
  <2>1. /\ worker'[w] # Idle /\ worker[w] # Idle
        /\ i \in Job /\ worker'[w].job = i
        /\ worker'[w].fence = worker[w].fence /\ worker[w].fence \in Nat
    BY <1>2, WorkerFrame, NotIdle, BusyFields DEF Held, Typed
  <2>2. ~\E v \in Worker : v # w /\ Claim(v, i)
    <3> SUFFICES ASSUME NEW v \in Worker, Claim(v, i) PROVE FALSE
      OBVIOUS
    <3>1. job'[i].fence = job[i].fence + 1 /\ job[i].fence \in Nat
      BY <2>1 DEF Claim, Write, Typed, TypeOK, JobRow
    <3>2. worker[w].fence <= job[i].fence
      BY <2>1 DEF Fenced
    <3> QED
      BY <2>1, <3>1, <3>2 DEF Held
  <2>3. Held(w)
    <3>1. job[i].lease = "live" /\ job'[i].owner = job[i].owner
      BY <1>2, <2>1, <2>2, HeldFrame DEF Held
    <3>2. job[i].state # "ABSENT"
      BY <2>1 DEF Fenced
    <3>3. job'[i].fence = job[i].fence
      BY <1>2, <2>1, <2>2, <3>2, FenceFrame
    <3> QED
      BY <2>1, <3>1, <3>3 DEF Held
  <2>4. worker[w] \in Busy /\ job[i].state = worker[w].state
    BY <1>2, <2>1, <2>3, CopyFrame DEF HolderKnowsState, Busy
  <2>5. CASE \E acked \in BOOLEAN : Advance(w, acked)
    <3>1. worker'[w] # Throw(w, "error")
      BY DEF Throw
    <3>2. PICK acked \in BOOLEAN : Advance(w, acked)
      BY <2>5
    <3> QED
      BY <2>1, <2>4, <3>1, <3>2 DEF Advance, Write, Typed, TypeOK, Busy, JobRow
  <2>6. CASE ~\E acked \in BOOLEAN : Advance(w, acked)
    <3>1. worker'[w].state = worker[w].state
      BY <1>2, <2>1, <2>6, CopyFrame
    <3>2. job'[i].state = job[i].state
      <4> SUFFICES ASSUME job'[i].state # job[i].state PROVE FALSE
        OBVIOUS
      <4>1. job[i].state # "ABSENT" /\ job[i].lease = "live"
        BY <2>1, <2>3 DEF Fenced, Held
      <4>2. PICK v \in Worker : /\ Held(v)
                               /\ worker[v].job = i
                               /\ \/ \E acked \in BOOLEAN : Advance(v, acked) \/ Complete(v, acked)
                                  \/ Recover(v)
        BY <2>1, <4>1, StateFrame
      <4>3. v = w
        BY <2>1, <2>3, <4>2, FencingOneHolder DEF OneHolder
      <4>4. Complete(w, TRUE) \/ Complete(w, FALSE) \/ Recover(w)
        BY <2>6, <4>2, <4>3
      <4>5. Throw(w, "error").phase = "failing"
        BY DEF Throw
      <4> QED
        BY <2>1, <4>4, <4>5 DEF Complete, Recover, Stop, Typed, TypeOK
    <3> QED
      BY <2>1, <2>4, <3>1, <3>2
  <2> QED
    BY <2>5, <2>6
<1> QED
  BY <1>1, <1>2

(***************************************************************************)
(* A holder's copy of the state is the recorded one, so it resumes where   *)
(* the last attempt stopped.                                               *)
(***************************************************************************)
THEOREM HolderKnows == Spec => []HolderKnowsState
<1>1. Init => Fenced /\ Distinct /\ HolderKnowsState
  BY DEF Init, Fenced, Distinct, HolderKnowsState, Held
<1>2. Typed /\ Fenced /\ Distinct /\ HolderKnowsState /\ [Next]_vars
        => (Fenced /\ Distinct /\ HolderKnowsState)'
  BY FencingStep, KnowsStep
<1>3. Spec => []Typed
  BY TypeCorrect DEF Typed
<1> QED
  BY <1>1, <1>2, <1>3, PTL DEF Spec

-----------------------------------------------------------------------------
(* No step is skipped.                                                     *)

\* A worker about to record a step has seen its work done.
ReadyDone ==
    \A w \in Worker :
        worker[w].phase = "ready" /\ HasWork(worker[w].job, worker[w].state)
            => worker[w].state \in performed[worker[w].job]

LEMMA PerformedGrows ==
    ASSUME Typed, [Next]_vars, NEW j \in Job
    PROVE  performed[j] \subseteq performed'[j]
<1>1. ASSUME NEW w \in Worker, Perform(w) PROVE performed[j] \subseteq performed'[j]
  BY <1>1, BusyFields DEF Perform, Typed, TypeOK
<1>2. CASE performed' = performed
  BY <1>2
<1> QED
  BY <1>1, <1>2
  DEF Next, Step, Enqueue, Claim, ReleaseUnstarted, Begin, StepFails, LeaseLost, Advance,
      Complete, Recover, Crash, Expire, Elapse, Sweep, SweepBury, SweepRelease, vars

LEMMA ReadyDoneStep ==
    ASSUME Typed, ReadyDone, [Next]_vars
    PROVE  ReadyDone'
<1> SUFFICES ASSUME NEW w \in Worker, worker'[w].phase = "ready",
                    HasWork(worker'[w].job, worker'[w].state)
             PROVE  worker'[w].state \in performed'[worker'[w].job]
  BY DEF ReadyDone, HasWork
<1> DEFINE Goal == worker'[w].state \in performed'[worker'[w].job]
<1>0. TypeOK
  BY DEF Typed
<1>1. CASE worker'[w] = worker[w]
  <2>1. worker[w].job \in Job
    BY <1>0, <1>1, BusyFields
  <2> QED
    BY <1>1, <2>1, PerformedGrows DEF ReadyDone
<1>2. ASSUME NEW j \in Job, Claim(w, j) PROVE Goal
  BY <1>0, <1>2 DEF Claim, TypeOK
<1>3. CASE Begin(w)
  <2>1. worker[w] \in Busy
    BY <1>0, <1>3, BusyFields DEF Begin
  <2>2. /\ worker'[w].phase = Enter(worker[w].job, worker[w].state)
        /\ worker'[w].job = worker[w].job /\ worker'[w].state = worker[w].state
    BY <1>0, <1>3, <2>1 DEF Begin, TypeOK, Busy
  <2> QED
    BY <2>2 DEF Enter
<1>4. CASE Perform(w)
  <2>1. worker[w] \in Busy
    BY <1>0, <1>4, BusyFields DEF Perform
  <2> QED
    BY <1>0, <1>4, <2>1 DEF Perform, TypeOK, Busy
<1>5. ASSUME NEW acked \in BOOLEAN, Advance(w, acked) PROVE Goal
  <2> DEFINE to == NextStage(worker[w].job, worker[w].state)
  <2>1. worker[w] \in Busy /\ Throw(w, "error").phase = "failing"
    BY <1>0, <1>5, BusyFields DEF Advance, Throw
  <2>2. worker'[w] = [worker[w] EXCEPT !.phase = Enter(worker[w].job, to), !.state = to]
    BY <1>0, <1>5, <2>1 DEF Advance, TypeOK
  <2> QED
    BY <2>1, <2>2 DEF Busy, Enter
<1>6. CASE worker'[w].phase = "failing" \/ worker'[w] = Idle
  BY <1>6 DEF Idle
<1>7. ASSUME NEW v \in Worker, Step(v) \/ Crash(v) PROVE Goal
  <2>1. CASE v # w
    <3>1. worker'[w] = worker[w]
      BY <1>0, <1>7, <2>1
      DEF Step, Crash, Begin, ReleaseUnstarted, Perform, StepFails, LeaseLost, Advance, Complete,
          Recover, Stop, TypeOK
    <3> QED
      BY <3>1, <1>1
  <2>2. CASE v = w /\ (ReleaseUnstarted(v) \/ LeaseLost(v) \/ Recover(v) \/ Crash(v))
    BY <1>0, <1>6, <2>2 DEF ReleaseUnstarted, LeaseLost, Recover, Crash, Stop, TypeOK
  <2>3. CASE v = w /\ \E why \in Outcomes : StepFails(v, why)
    BY <1>0, <1>6, <2>3 DEF StepFails, Throw, TypeOK
  <2>4. CASE v = w /\ \E acked \in BOOLEAN : Complete(v, acked)
    BY <1>0, <1>6, <2>4 DEF Complete, Throw, TypeOK
  <2> QED
    BY <1>3, <1>4, <1>5, <1>7, <2>1, <2>2, <2>3, <2>4 DEF Step
<1>8. ASSUME NEW v \in Worker, NEW j \in Job, Claim(v, j), v # w PROVE Goal
  BY <1>0, <1>1, <1>8 DEF Claim, TypeOK
<1> QED
  BY <1>1, <1>2, <1>7, <1>8
  DEF Next, Enqueue, Expire, Elapse, Sweep, SweepBury, SweepRelease, vars

\* One step forward adds the step it leaves to the ones that are over.
LEMMA PassedNext ==
    ASSUME NEW j \in Job, NEW s \in Stages, NEW t \in Passed(j, NextStage(j, s)), HasWork(j, t)
    PROVE  t \in Passed(j, s) \/ t = s
  BY DEF Passed, NextStage, HasWork, Stages

LEMMA NoStepSkippedStep ==
    ASSUME Typed, ReadyDone, NoStepSkipped, [Next]_vars
    PROVE  NoStepSkipped'
<1> SUFFICES ASSUME NEW j \in Job, NEW t \in Passed(j, job'[j].state), HasWork(j, t)
             PROVE  t \in performed'[j]
  BY DEF NoStepSkipped, HasWork, Passed
<1>1. CASE job'[j].state = job[j].state
  BY <1>1, PerformedGrows DEF NoStepSkipped
<1>2. CASE job'[j].state \in {"RECEIVED", "DEAD_LETTER"}
  BY <1>2 DEF Passed
<1>3. ASSUME NEW w \in Worker, NEW acked \in BOOLEAN, worker[w].job = j,
             Advance(w, acked) \/ Complete(w, acked)
      PROVE  t \in performed'[j]
  <2> DEFINE s == worker[w].state
  <2>1. worker[w].phase = "ready" /\ s \in Stages /\ job[j].state = s
    BY <1>3, BusyFields DEF Advance, Complete, WriteScope, HeldInState, Typed
  <2>2. job'[j].state = NextStage(j, s)
    <3>1. [job[j] EXCEPT !.state = NextStage(j, s)].state = NextStage(j, s)
      BY DEF Typed, TypeOK, JobRow
    <3>2. [Unleased(job[j]) EXCEPT !.state = "DONE", !.grace = FALSE].state = "DONE"
      BY DEF Typed, TypeOK, JobRow, Unleased
    <3> QED
      BY <1>3, <3>1, <3>2 DEF Advance, Complete, Write, Typed, TypeOK
  <2>3. t \in Passed(j, s) \/ t = s
    BY <2>1, <2>2, PassedNext
  <2>4. t \in performed[j]
    BY <1>3, <2>1, <2>3 DEF NoStepSkipped, ReadyDone
  <2> QED
    BY <2>4, PerformedGrows
<1> QED
  BY <1>1, <1>2, <1>3, StateFrame

(***************************************************************************)
(* The recorded state never claims work that was not done.                 *)
(***************************************************************************)
THEOREM NothingSkipped == Spec => []NoStepSkipped
<1>1. Init => ReadyDone /\ NoStepSkipped
  BY DEF Init, ReadyDone, NoStepSkipped, Passed, Absent, Idle
<1>2. Typed /\ ReadyDone /\ NoStepSkipped /\ [Next]_vars => (ReadyDone /\ NoStepSkipped)'
  BY ReadyDoneStep, NoStepSkippedStep
<1>3. Spec => []Typed
  BY TypeCorrect DEF Typed
<1> QED
  BY <1>1, <1>2, <1>3, PTL DEF Spec

-----------------------------------------------------------------------------
(* Stranded jobs, and the retry budget.                                    *)

\* The rows the catch block's writes leave: closed, or with an attempt left.
\* grace stands for the extra attempt the deadline handed back.
Spare(row) == IF row.grace THEN 1 ELSE 0

LEMMA RecoveredBudget ==
    ASSUME NEW row \in JobRow, row.grace => row.attempts = MaxAttempts
    PROVE  /\ Failed(row).state # "DEAD_LETTER" /\ row.state \in Stages
                => /\ Failed(row).attempts < MaxAttempts
                   /\ Failed(row).attempts = row.attempts
                   /\ ~row.grace /\ ~Failed(row).grace
           /\ ReleasedAfterDeadline(row).state # "DEAD_LETTER" /\ row.state \in Stages
                => /\ ReleasedAfterDeadline(row).attempts < MaxAttempts
                   /\ ~row.grace
                   /\ \/ /\ ~ReleasedAfterDeadline(row).grace
                         /\ ReleasedAfterDeadline(row).attempts = row.attempts
                      \/ /\ ReleasedAfterDeadline(row).grace
                         /\ ReleasedAfterDeadline(row).attempts + 1 = row.attempts
                         /\ row.attempts = MaxAttempts
<1>1. /\ Unleased(row) \in JobRow /\ Unleased(row).attempts = row.attempts
      /\ Unleased(row).state = row.state
  BY UnleasedRow DEF Unleased, JobRow
<1>2. row.attempts \in 0..MaxAttempts /\ row.grace \in BOOLEAN
  BY DEF JobRow
<1>3. CASE row.attempts < MaxAttempts
  <2>1. /\ Failed(row).attempts = row.attempts /\ Failed(row).grace = FALSE
    BY <1>1 DEF Failed, JobRow
  <2>2. /\ ReleasedAfterDeadline(row).attempts = row.attempts
        /\ ReleasedAfterDeadline(row).grace = FALSE
    BY <1>1, <1>3 DEF ReleasedAfterDeadline, JobRow
  <2> QED
    BY <1>2, <1>3, <2>1, <2>2
<1>4. CASE row.attempts = MaxAttempts
  <2>1. Failed(row).state = "DEAD_LETTER"
    BY <1>1, <1>4 DEF Failed, JobRow
  <2>2. row.grace => ReleasedAfterDeadline(row).state = "DEAD_LETTER"
    BY <1>1, <1>4 DEF ReleasedAfterDeadline, JobRow
  <2>3. ~row.grace => /\ ReleasedAfterDeadline(row).attempts = MaxAttempts - 1
                      /\ ReleasedAfterDeadline(row).grace = TRUE
    BY <1>1, <1>4 DEF ReleasedAfterDeadline, JobRow
  <2> QED
    BY <1>2, <1>4, <2>1, <2>2, <2>3
<1> QED
  BY <1>2, <1>3, <1>4

\* The one extra attempt is only ever in hand on the last one.
GraceLeft == \A j \in Job :
                Open(j) /\ job[j].grace
                  => /\ job[j].attempts + 1 >= MaxAttempts
                     /\ job[j].lease # "none" => job[j].attempts = MaxAttempts

\* How a step changes one row, as far as the budget is concerned.
LEMMA BudgetFrame ==
    ASSUME Typed, GraceLeft, [Next]_vars, NEW i \in Job, job'[i].state \in Stages
    PROVE  \/ job[i].state = "ABSENT" /\ job'[i] = [Absent EXCEPT !.state = "RECEIVED"]
           \/ /\ \E w \in Worker : Claim(w, i)
              /\ job'[i].attempts = job[i].attempts + 1
              /\ job[i].attempts < MaxAttempts
              /\ job'[i].grace = job[i].grace
              /\ job'[i].lease # "none"
           \/ /\ \E w \in Worker : ReleaseUnstarted(w) /\ worker[w].job = i /\ Held(w)
              /\ job'[i].attempts = IF job[i].attempts > 0 THEN job[i].attempts - 1 ELSE 0
              /\ job'[i].grace = job[i].grace
              /\ job'[i].lease = "none"
              /\ job[i].lease = "live"
           \/ /\ job'[i].attempts = job[i].attempts
              /\ job'[i].grace = job[i].grace
              /\ job[i].lease = "none" <=> job'[i].lease = "none"
           \/ /\ job'[i].attempts = job[i].attempts
              /\ job'[i].grace = job[i].grace
              /\ job'[i].lease = "none"
              /\ SweepRelease
              /\ Exhausted(i) => i \in unburied'
           \/ /\ job'[i].attempts < MaxAttempts
              /\ job'[i].lease = "none"
              /\ ~job[i].grace
              /\ \/ /\ job'[i].attempts = job[i].attempts
                    /\ ~job'[i].grace
                 \/ /\ job'[i].attempts + 1 = job[i].attempts
                    /\ job'[i].grace
                    /\ job[i].attempts = MaxAttempts
<1> DEFINE Goal ==
           \/ job[i].state = "ABSENT" /\ job'[i] = [Absent EXCEPT !.state = "RECEIVED"]
           \/ /\ \E w \in Worker : Claim(w, i)
              /\ job'[i].attempts = job[i].attempts + 1
              /\ job[i].attempts < MaxAttempts
              /\ job'[i].grace = job[i].grace
              /\ job'[i].lease # "none"
           \/ /\ \E w \in Worker : ReleaseUnstarted(w) /\ worker[w].job = i /\ Held(w)
              /\ job'[i].attempts = IF job[i].attempts > 0 THEN job[i].attempts - 1 ELSE 0
              /\ job'[i].grace = job[i].grace
              /\ job'[i].lease = "none"
              /\ job[i].lease = "live"
           \/ /\ job'[i].attempts = job[i].attempts
              /\ job'[i].grace = job[i].grace
              /\ job[i].lease = "none" <=> job'[i].lease = "none"
           \/ /\ job'[i].attempts = job[i].attempts
              /\ job'[i].grace = job[i].grace
              /\ job'[i].lease = "none"
              /\ SweepRelease
              /\ Exhausted(i) => i \in unburied'
           \/ /\ job'[i].attempts < MaxAttempts
              /\ job'[i].lease = "none"
              /\ ~job[i].grace
              /\ \/ /\ job'[i].attempts = job[i].attempts
                    /\ ~job'[i].grace
                 \/ /\ job'[i].attempts + 1 = job[i].attempts
                    /\ job'[i].grace
                    /\ job[i].attempts = MaxAttempts
<1>0. job[i] \in JobRow /\ TypeOK /\ LeasedIsOpen
  BY DEF Typed, TypeOK
<1>1. ASSUME NEW j \in Job, Enqueue(j) PROVE Goal
  BY <1>0, <1>1 DEF Enqueue, Write, TypeOK
<1>2. ASSUME NEW w \in Worker, NEW j \in Job, Claim(w, j) PROVE Goal
  <2>1. CASE i = j
    <3>1. job'[i] = [job[i] EXCEPT !.owner = OwnerOf[w], !.lease = "live",
                                   !.attempts = @ + 1, !.fence = @ + 1]
      BY <1>0, <1>2, <2>1 DEF Claim, Write, TypeOK
    <3>2. job[i].attempts < MaxAttempts
      BY <1>0, <1>2, <2>1 DEF Claim, Claimable, Exhausted, JobRow
    <3>3. /\ job'[i].attempts = job[i].attempts + 1
          /\ job'[i].grace = job[i].grace
          /\ job'[i].lease = "live"
      BY <1>0, <3>1 DEF JobRow
    <3> QED
      BY <1>2, <2>1, <3>2, <3>3
  <2>2. CASE i # j
    BY <1>0, <1>2, <2>2 DEF Claim, Write, TypeOK
  <2> QED
    BY <2>1, <2>2
<1>3. ASSUME NEW w \in Worker, ReleaseUnstarted(w) PROVE Goal
  <2>1. CASE worker[w].job = i /\ Held(w)
    <3>1. job'[i] = [Unleased(job[i]) EXCEPT !.attempts = IF @ > 0 THEN @ - 1 ELSE 0]
      BY <1>0, <1>3, <2>1 DEF ReleaseUnstarted, Write, TypeOK
    <3>2. Unleased(job[i]) = [job[i] EXCEPT !.owner = NoOwner, !.lease = "none"]
      BY DEF Unleased
    <3>3. /\ job'[i].attempts = IF job[i].attempts > 0 THEN job[i].attempts - 1 ELSE 0
          /\ job'[i].grace = job[i].grace
          /\ job'[i].lease = "none"
      BY <1>0, <3>1, <3>2 DEF JobRow
    <3>4. job[i].lease = "live"
      BY <2>1 DEF Held
    <3> QED
      BY <1>3, <2>1, <3>3, <3>4
  <2>2. CASE ~(worker[w].job = i /\ Held(w))
    BY <1>0, <1>3, <2>2, BusyFields DEF ReleaseUnstarted, Write, TypeOK
  <2> QED
    BY <2>1, <2>2
<1>4. ASSUME NEW w \in Worker, NEW acked \in BOOLEAN, Advance(w, acked) PROVE Goal
  BY <1>0, <1>4, BusyFields DEF Advance, Write, TypeOK, JobRow
<1>5. ASSUME NEW w \in Worker, NEW acked \in BOOLEAN, Complete(w, acked) PROVE Goal
  <2>1. ASSUME worker[w].job = i PROVE FALSE
    <3>1. job'[i] = [Unleased(job[i]) EXCEPT !.state = "DONE", !.grace = FALSE]
      BY <1>0, <1>5, <2>1 DEF Complete, Write, TypeOK
    <3>2. job'[i].state = "DONE"
      BY <1>0, <3>1, UnleasedRow DEF JobRow
    <3> QED
      BY <3>2 DEF Stages
  <2> QED
    BY <1>0, <1>5, <2>1, BusyFields DEF Complete, Write, TypeOK
<1>6. ASSUME NEW w \in Worker, Recover(w) PROVE Goal
  <2> DEFINE j == worker[w].job
  <2>1. j \in Job /\ worker[w].why \in Outcomes /\ job[j] \in JobRow
    BY <1>0, <1>6, BusyFields DEF Recover, Failing, TypeOK
  <2>2. CASE i = j
    <3>1. job[i].state \in Stages /\ job[i].lease = "live"
      BY <1>0, <1>6, <2>1, <2>2 DEF Recover, WriteScope, HeldInState, Held, LeasedIsOpen, Open
    <3>2. job[i].grace => job[i].attempts = MaxAttempts
      BY <3>1 DEF GraceLeft, Open
    <3>3. job'[i].lease = "none"
      <4>1. /\ Failed(job[i]).lease = "none"
            /\ ReleasedAfterDeadline(job[i]).lease = "none"
            /\ Abandoned(job[i]).lease = "none"
        BY <1>0 DEF Failed, ReleasedAfterDeadline, Abandoned, Unleased, JobRow
      <4> QED
        BY <1>0, <1>6, <2>1, <2>2, <4>1 DEF Recover, Write, TypeOK, Outcomes
    <3>4. job'[i].state # "DEAD_LETTER"
      BY DEF Stages
    <3>5. Abandoned(job[i]).state = "DEAD_LETTER"
      BY <1>0 DEF Abandoned, Unleased, JobRow
    <3>6. job'[i] = Failed(job[i]) \/ job'[i] = ReleasedAfterDeadline(job[i])
      BY <1>0, <1>6, <2>1, <2>2, <3>4, <3>5 DEF Recover, Write, TypeOK, Outcomes
    <3> QED
      BY <1>0, <3>1, <3>2, <3>3, <3>4, <3>6, RecoveredBudget
  <2>3. CASE i # j
    BY <1>0, <1>6, <2>1, <2>3 DEF Recover, Write, TypeOK
  <2> QED
    BY <2>2, <2>3
<1>7. ASSUME NEW j \in Job, Expire(j) \/ Elapse(j) PROVE Goal
  BY <1>0, <1>7 DEF Expire, Elapse, Write, TypeOK, JobRow
<1>8. CASE SweepBury
  <2>1. [Unleased(job[i]) EXCEPT !.state = "DEAD_LETTER"].state = "DEAD_LETTER"
    BY <1>0 DEF Unleased, JobRow
  <2> QED
    BY <1>8, <2>1 DEF SweepBury, Stages
<1>9. CASE SweepRelease
  <2>1. /\ Unleased(job[i]).attempts = job[i].attempts
        /\ Unleased(job[i]).grace = job[i].grace
        /\ Unleased(job[i]).lease = "none"
    BY <1>0 DEF Unleased, JobRow
  <2>2. \/ job'[i] = job[i]
        \/ job'[i] = Unleased(job[i]) /\ (Exhausted(i) => i \in unburied')
    BY <1>9 DEF SweepRelease
  <2> QED
    BY <1>9, <2>1, <2>2
<1>10. CASE job' = job
  BY <1>10
<1> QED
  BY <1>1, <1>2, <1>3, <1>4, <1>5, <1>6, <1>7, <1>8, <1>9, <1>10
  DEF Next, Step, Sweep, Begin, Perform, StepFails, LeaseLost, Crash, vars

LEMMA StaysClosed ==
    ASSUME Typed, [Next]_vars, NEW i \in Job, job'[i].state \in Stages, job[i].state # "ABSENT"
    PROVE  Open(i)
<1>1. CASE job'[i].state = job[i].state
  BY <1>1 DEF Open
<1>2. ASSUME NEW w \in Worker, Held(w), worker[w].job = i PROVE Open(i)
  BY <1>2 DEF Held, Typed, LeasedIsOpen
<1> QED
  BY <1>1, <1>2, StateFrame DEF Open

\* Only an accepted delivery makes a row appear, and it appears fresh.
LEMMA Arrival ==
    ASSUME Typed, [Next]_vars, NEW i \in Job, job[i].state = "ABSENT", job'[i].state # "ABSENT"
    PROVE  job'[i] = [Absent EXCEPT !.state = "RECEIVED"]
<1> DEFINE Goal == job'[i] = [Absent EXCEPT !.state = "RECEIVED"]
<1>0. job[i] \in JobRow /\ TypeOK /\ ~Open(i) /\ job[i].lease = "none" /\ job'[i] # job[i]
  BY DEF Typed, TypeOK, LeasedIsOpen, Open, Stages, JobRow
<1>1. ASSUME NEW j \in Job, Enqueue(j) PROVE Goal
  BY <1>0, <1>1 DEF Enqueue, Write, TypeOK
<1>2. ASSUME NEW w \in Worker, NEW j \in Job, Claim(w, j) PROVE Goal
  BY <1>0, <1>2 DEF Claim, Claimable, Write, TypeOK
<1>3. ASSUME NEW w \in Worker, Held(w) PROVE worker[w].job # i
  BY <1>0, <1>3 DEF Held
<1>4. ASSUME NEW w \in Worker, ReleaseUnstarted(w) PROVE Goal
  BY <1>0, <1>3, <1>4, BusyFields DEF ReleaseUnstarted, Write, TypeOK
<1>5. ASSUME NEW w \in Worker, NEW acked \in BOOLEAN, Advance(w, acked) PROVE Goal
  BY <1>0, <1>3, <1>5, BusyFields DEF Advance, WriteScope, HeldInState, Write, TypeOK
<1>6. ASSUME NEW w \in Worker, NEW acked \in BOOLEAN, Complete(w, acked) PROVE Goal
  BY <1>0, <1>3, <1>6, BusyFields DEF Complete, WriteScope, HeldInState, Write, TypeOK
<1>7. ASSUME NEW w \in Worker, Recover(w) PROVE Goal
  BY <1>0, <1>3, <1>7, BusyFields DEF Recover, WriteScope, HeldInState, Write, TypeOK
<1>8. ASSUME NEW j \in Job, Expire(j) \/ Elapse(j) PROVE Goal
  <2>1. [job[j] EXCEPT !.lease = "expired"].state = job[j].state
        /\ [job[j] EXCEPT !.backoff = FALSE].state = job[j].state
    BY <1>0 DEF TypeOK, JobRow
  <2> QED
    BY <1>0, <1>8, <2>1 DEF Expire, Elapse, Write, TypeOK
<1>9. CASE Sweep
  BY <1>0, <1>9 DEF Sweep, SweepBury, SweepRelease
<1>10. CASE job' = job
  BY <1>0, <1>10
<1> QED
  BY <1>1, <1>2, <1>4, <1>5, <1>6, <1>7, <1>8, <1>9, <1>10
  DEF Next, Step, Begin, Perform, StepFails, LeaseLost, Crash, vars

LEMMA GraceLeftStep ==
    ASSUME Typed, GraceLeft, [Next]_vars
    PROVE  GraceLeft'
<1> SUFFICES ASSUME NEW i \in Job, job'[i].state \in Stages, job'[i].grace
             PROVE  /\ job'[i].attempts + 1 >= MaxAttempts
                    /\ job'[i].lease # "none" => job'[i].attempts = MaxAttempts
  BY DEF GraceLeft, Open
<1>1. job[i] \in JobRow /\ job[i].attempts \in 0..MaxAttempts
  BY DEF Typed, TypeOK, JobRow
<1>2. CASE job[i].state = "ABSENT"
  BY <1>2, Arrival DEF Absent, Stages
<1>3. CASE job[i].state # "ABSENT"
  <2>1. Open(i)
    BY <1>3, StaysClosed
  <2> QED
    BY <1>1, <1>3, <2>1, BudgetFrame DEF GraceLeft
<1> QED
  BY <1>2, <1>3

(***************************************************************************)
(* Only a sweep that clears a last lease leaves a job open, out of         *)
(* attempts and unleased.                                                  *)
(***************************************************************************)
LEMMA OnlySweepStrandsStep ==
    ASSUME Typed, GraceLeft, OnlySweepStrands, [Next]_vars
    PROVE  OnlySweepStrands'
<1> SUFFICES ASSUME NEW i \in Job, job'[i].state \in Stages, job'[i].lease = "none",
                    job'[i].attempts >= MaxAttempts
             PROVE  i \in unburied'
  BY DEF OnlySweepStrands, Stranded, Open, Exhausted
<1>1. job[i].attempts \in 0..MaxAttempts /\ job'[i].attempts \in 0..MaxAttempts
  BY TypeStep DEF Typed, TypeOK, JobRow
<1>2. unburied \subseteq unburied'
  BY DEF Next, Step, Enqueue, Claim, ReleaseUnstarted, Begin, Perform, StepFails, LeaseLost,
         Advance, Complete, Recover, Crash, Expire, Elapse, Sweep, SweepBury, SweepRelease, vars
<1>3. CASE job[i].state = "ABSENT"
  BY <1>3, Arrival DEF Absent, Stages
<1>4. CASE job[i].state # "ABSENT"
  <2>1. Open(i)
    BY <1>4, StaysClosed
  <2>2. \/ job'[i].attempts = job[i].attempts /\ job[i].lease = "none"
        \/ job'[i].attempts = job[i].attempts /\ (Exhausted(i) => i \in unburied')
    BY <1>1, <1>4, BudgetFrame
  <2>3. Exhausted(i) <=> job[i].attempts >= MaxAttempts
    BY DEF Exhausted
  <2> QED
    BY <1>2, <2>1, <2>2, <2>3 DEF OnlySweepStrands, Stranded
<1> QED
  BY <1>3, <1>4

(***************************************************************************)
(* No recovery write, burial or claim strands a job: an open job without   *)
(* attempts or lease was left so by sweepExpiredLeases' second statement.  *)
(***************************************************************************)
THEOREM OnlyTheSweepStrands == Spec => []OnlySweepStrands
<1>1. Init => GraceLeft /\ OnlySweepStrands
  BY DEF Init, GraceLeft, OnlySweepStrands, Stranded, Open, Absent, Stages
<1>2. Typed /\ GraceLeft /\ OnlySweepStrands /\ [Next]_vars => (GraceLeft /\ OnlySweepStrands)'
  BY GraceLeftStep, OnlySweepStrandsStep
<1>3. Spec => []Typed
  BY TypeCorrect DEF Typed
<1> QED
  BY <1>1, <1>2, <1>3, PTL DEF Spec

-----------------------------------------------------------------------------
(* The retry budget.  Claims not yet begun count as starts to come, and the *)
(* grace mark as the attempt it will hand out again.                        *)

Claimed(j) == {w \in Worker : worker[w].phase = "claimed" /\ worker[w].job = j}

Load(j) == starts[j] + Cardinality(Claimed(j))

Budget == \A j \in Job :
             /\ Load(j) <= MaxAttempts + 1
             /\ Open(j) => Load(j) <= job[j].attempts + Spare(job[j])
             /\ job[j].state = "ABSENT" => starts[j] = 0

LEMMA ClaimedFinite ==
    ASSUME NEW j \in Job
    PROVE  /\ IsFiniteSet(Claimed(j))
           /\ Cardinality(Claimed(j)) \in Nat
           /\ IsFiniteSet(Claimed(j)')
           /\ Cardinality(Claimed(j)') \in Nat
<1>1. Claimed(j) \in SUBSET Worker /\ Claimed(j)' \in SUBSET Worker
  BY DEF Claimed
<1> QED
  BY <1>1, WorkerAssumption, FS_Subset, FS_CardinalityType

\* A claim adds to the load, a hand-back takes from it, and nothing else
\* raises it.
LEMMA LoadFrame ==
    ASSUME Typed, [Next]_vars, NEW i \in Job
    PROVE  /\ Load(i) \in Nat /\ Load(i)' \in Nat
           /\ \A w \in Worker : Claim(w, i) => Load(i)' = Load(i) + 1
           /\ \A w \in Worker : ReleaseUnstarted(w) /\ worker[w].job = i => Load(i)' = Load(i) - 1
           /\ (\A w \in Worker : ~Claim(w, i)) => Load(i)' <= Load(i)
<1>0. TypeOK /\ TypeOK' /\ starts[i] \in Nat /\ starts'[i] \in Nat
  BY TypeStep DEF Typed, TypeOK
<1>1. Load(i) \in Nat /\ Load(i)' \in Nat
  BY <1>0, ClaimedFinite DEF Load
<1>2. ASSUME NEW w \in Worker, Claim(w, i) PROVE Load(i)' = Load(i) + 1
  <2>1. starts' = starts /\ worker[w] = Idle
    BY <1>2 DEF Claim
  <2>2. w \notin Claimed(i)
    BY <2>1 DEF Claimed, Idle
  <2>3. Claimed(i)' = Claimed(i) \union {w}
    BY <1>0, <1>2 DEF Claim, Claimed, TypeOK
  <2> QED
    <3>1. Cardinality(Claimed(i)') = Cardinality(Claimed(i)) + 1
      BY <2>2, <2>3, ClaimedFinite, FS_AddElement
    <3> QED
      BY <1>0, <2>1, <3>1, ClaimedFinite DEF Load
<1>3. ASSUME NEW w \in Worker, worker[w].phase = "claimed", worker[w].job = i,
             Claimed(i)' = Claimed(i) \ {w}
      PROVE  Cardinality(Claimed(i)') = Cardinality(Claimed(i)) - 1
  BY <1>3, ClaimedFinite, FS_RemoveElement DEF Claimed
<1>4. ASSUME NEW w \in Worker, ReleaseUnstarted(w), worker[w].job = i
      PROVE  Load(i)' = Load(i) - 1
  <2>1. Claimed(i)' = Claimed(i) \ {w}
    BY <1>0, <1>4 DEF ReleaseUnstarted, Stop, Idle, Claimed, TypeOK
  <2> QED
    BY <1>0, <1>3, <1>4, <2>1, ClaimedFinite DEF ReleaseUnstarted, Load
<1>5. ASSUME NEW w \in Worker, Begin(w), worker[w].job = i
      PROVE  Load(i)' = Load(i)
  <2>1. worker'[w].phase # "claimed"
    BY <1>0, <1>5, BusyFields DEF Begin, Enter, TypeOK, Busy
  <2>2. Claimed(i)' = Claimed(i) \ {w}
    BY <1>0, <1>5, <2>1 DEF Begin, Claimed, TypeOK
  <2>3. starts'[i] = starts[i] + 1
    BY <1>0, <1>5 DEF Begin, TypeOK
  <2> QED
    <3>1. Cardinality(Claimed(i)') = Cardinality(Claimed(i)) - 1
      BY <1>3, <1>5, <2>2 DEF Begin
    <3> QED
      BY <1>0, <2>3, <3>1, ClaimedFinite DEF Load
<1>6. ASSUME starts'[i] = starts[i], Claimed(i)' \subseteq Claimed(i)
      PROVE  Load(i)' <= Load(i)
  BY <1>0, <1>6, ClaimedFinite, FS_Subset DEF Load
<1>7. ASSUME \A w \in Worker : ~Claim(w, i) PROVE Load(i)' <= Load(i)
  <2>1. ASSUME NEW w \in Worker, NEW j \in Job, Claim(w, j) PROVE Load(i)' <= Load(i)
    <3>1. j # i
      BY <1>7, <2>1
    <3>2. Claimed(i)' \subseteq Claimed(i)
      BY <1>0, <2>1, <3>1 DEF Claim, Claimed, TypeOK
    <3> QED
      BY <1>6, <2>1, <3>2 DEF Claim
  <2>2. ASSUME NEW w \in Worker, Begin(w) PROVE Load(i)' <= Load(i)
    <3>1. CASE worker[w].job = i
      BY <1>1, <1>5, <2>2, <3>1
    <3>2. CASE worker[w].job # i
      <4>1. Claimed(i)' \subseteq Claimed(i)
        BY <1>0, <2>2, <3>2, BusyFields DEF Begin, Claimed, TypeOK, Busy
      <4>2. starts'[i] = starts[i]
        BY <1>0, <2>2, <3>2 DEF Begin, TypeOK
      <4> QED
        BY <1>6, <4>1, <4>2
    <3> QED
      BY <3>1, <3>2
  <2>3. ASSUME NEW w \in Worker, ReleaseUnstarted(w) \/ LeaseLost(w) \/ Recover(w) \/ Crash(w)
        PROVE  Load(i)' <= Load(i)
    <3>1. Claimed(i)' \subseteq Claimed(i)
      BY <1>0, <2>3 DEF ReleaseUnstarted, LeaseLost, Recover, Crash, Stop, Idle, Claimed, TypeOK
    <3> QED
      BY <1>6, <2>3, <3>1 DEF ReleaseUnstarted, LeaseLost, Recover, Crash
  <2>4. ASSUME NEW w \in Worker, Perform(w) PROVE Load(i)' <= Load(i)
    <3>1. worker'[w].phase # "claimed"
      BY <1>0, <2>4, BusyFields DEF Perform, TypeOK, Busy
    <3>2. Claimed(i)' \subseteq Claimed(i)
      BY <1>0, <2>4, <3>1 DEF Perform, Claimed, TypeOK
    <3> QED
      BY <1>6, <2>4, <3>2 DEF Perform
  <2>5. ASSUME NEW w \in Worker, NEW why \in Outcomes, StepFails(w, why)
        PROVE  Load(i)' <= Load(i)
    <3>1. Claimed(i)' \subseteq Claimed(i)
      BY <1>0, <2>5 DEF StepFails, Throw, Claimed, TypeOK
    <3> QED
      BY <1>6, <2>5, <3>1 DEF StepFails
  <2>6. ASSUME NEW w \in Worker, NEW acked \in BOOLEAN, Advance(w, acked)
        PROVE  Load(i)' <= Load(i)
    <3>1. worker'[w].phase # "claimed"
      <4>1. worker[w] \in Busy
        BY <1>0, <2>6, BusyFields DEF Advance
      <4>2. Throw(w, "error").phase = "failing"
        BY DEF Throw
      <4> QED
        BY <1>0, <2>6, <4>1, <4>2 DEF Advance, TypeOK, Busy, Enter
    <3>2. Claimed(i)' \subseteq Claimed(i)
      BY <1>0, <2>6, <3>1 DEF Advance, Claimed, TypeOK
    <3> QED
      BY <1>6, <2>6, <3>2 DEF Advance
  <2>7. ASSUME NEW w \in Worker, NEW acked \in BOOLEAN, Complete(w, acked)
        PROVE  Load(i)' <= Load(i)
    <3>1. Claimed(i)' \subseteq Claimed(i)
      BY <1>0, <2>7 DEF Complete, Throw, Idle, Claimed, TypeOK
    <3> QED
      BY <1>6, <2>7, <3>1 DEF Complete
  <2>8. ASSUME worker' = worker, starts' = starts PROVE Load(i)' <= Load(i)
    BY <1>6, <2>8 DEF Claimed
  <2> QED
    BY <2>1, <2>2, <2>3, <2>4, <2>5, <2>6, <2>7, <2>8
    DEF Next, Step, Enqueue, Expire, Elapse, Sweep, SweepBury, SweepRelease, vars
<1> QED
  BY <1>1, <1>2, <1>4, <1>7

\* A claim spends an attempt of an open job.
LEMMA ClaimSpends ==
    ASSUME Typed, NEW w \in Worker, NEW i \in Job, Claim(w, i)
    PROVE  /\ Open(i)
           /\ job'[i].attempts = job[i].attempts + 1
           /\ job'[i].grace = job[i].grace
           /\ job[i].attempts < MaxAttempts
<1>1. job[i] \in JobRow /\ job \in [Job -> JobRow]
  BY DEF Typed, TypeOK
<1>2. job'[i] = [job[i] EXCEPT !.owner = OwnerOf[w], !.lease = "live",
                               !.attempts = @ + 1, !.fence = @ + 1]
  BY <1>1 DEF Claim, Write
<1>3. job[i].attempts < MaxAttempts /\ Open(i)
  BY <1>1 DEF Claim, Claimable, Exhausted, JobRow
<1> QED
  BY <1>1, <1>2, <1>3 DEF JobRow

LEMMA BudgetStep ==
    ASSUME Typed, Fenced, GraceLeft, Budget, [Next]_vars
    PROVE  Budget'
<1> SUFFICES ASSUME NEW i \in Job
             PROVE  /\ Load(i)' <= MaxAttempts + 1
                    /\ job'[i].state \in Stages => Load(i)' <= job'[i].attempts + Spare(job'[i])
                    /\ job'[i].state = "ABSENT" => starts'[i] = 0
  BY DEF Budget, Open
<1>0. /\ TypeOK /\ TypeOK'
      /\ job[i].attempts \in 0..MaxAttempts /\ job'[i].attempts \in 0..MaxAttempts
      /\ job[i].grace \in BOOLEAN /\ job'[i].grace \in BOOLEAN
      /\ Spare(job[i]) = (IF job[i].grace THEN 1 ELSE 0)
      /\ Spare(job'[i]) = (IF job'[i].grace THEN 1 ELSE 0)
  BY TypeStep DEF Typed, TypeOK, JobRow, Spare
<1>1. /\ Load(i) \in Nat /\ Load(i)' \in Nat
      /\ Load(i) <= MaxAttempts + 1
      /\ Open(i) => Load(i) <= job[i].attempts + Spare(job[i])
  BY LoadFrame DEF Budget
<1>2. ASSUME job[i].state = "ABSENT"
      PROVE  Load(i) = 0 /\ Load(i)' = 0
  <2>1. Claimed(i) = {}
    BY <1>2, <1>0, BusyFields DEF Claimed, Fenced, Idle
  <2>2. Load(i) = 0
    BY <1>0, <1>2, <2>1, FS_EmptySet DEF Budget, Load, TypeOK
  <2>3. \A w \in Worker : ~Claim(w, i)
    BY <1>2, ClaimSpends DEF Open, Stages
  <2> QED
    BY <1>1, <2>2, <2>3, LoadFrame
<1>3. job'[i].state = "ABSENT" => starts'[i] = 0
  <2>1. job'[i].state = "ABSENT" => job[i].state = "ABSENT"
    BY FenceFrame
  <2>2. Load(i)' = 0 => starts'[i] = 0
    BY <1>0, ClaimedFinite DEF Load, TypeOK
  <2> QED
    BY <1>2, <2>1, <2>2
<1>4. ASSUME job'[i].state \in Stages
      PROVE  Load(i)' <= job'[i].attempts + Spare(job'[i])
  <2>1. CASE job[i].state = "ABSENT"
    BY <1>0, <1>2, <2>1
  <2>2. CASE job[i].state # "ABSENT" /\ \E w \in Worker : Claim(w, i)
    <3>1. Load(i)' = Load(i) + 1
      BY <2>2, LoadFrame
    <3>2. Open(i) /\ job'[i].attempts = job[i].attempts + 1 /\ job'[i].grace = job[i].grace
      BY <2>2, ClaimSpends
    <3> QED
      BY <1>0, <1>1, <3>1, <3>2
  <2>3. CASE job[i].state # "ABSENT" /\ ~\E w \in Worker : Claim(w, i)
    <3>1. Open(i) /\ Load(i)' <= Load(i)
      BY <1>4, <2>3, StaysClosed, LoadFrame
    <3>2. CASE \E w \in Worker : ReleaseUnstarted(w) /\ worker[w].job = i
      <4>1. Load(i)' = Load(i) - 1
        BY <3>2, LoadFrame
      <4>2. \/ job'[i].grace = job[i].grace /\ job'[i].attempts + 1 >= job[i].attempts
            \/ job'[i].attempts = job[i].attempts /\ ~job[i].grace
            \/ job'[i].attempts + 1 = job[i].attempts /\ job'[i].grace
        BY <1>0, <1>4, <2>3, BudgetFrame
      <4> QED
        BY <1>0, <1>1, <3>1, <4>1, <4>2
    <3>3. CASE ~\E w \in Worker : ReleaseUnstarted(w) /\ worker[w].job = i
      <4>1. \/ job'[i].grace = job[i].grace /\ job'[i].attempts = job[i].attempts
            \/ job'[i].attempts = job[i].attempts /\ ~job[i].grace
            \/ job'[i].attempts + 1 = job[i].attempts /\ job'[i].grace /\ ~job[i].grace
        BY <1>0, <1>4, <2>3, <3>3, BudgetFrame
      <4> QED
        BY <1>0, <1>1, <3>1, <4>1
    <3> QED
      BY <3>2, <3>3
  <2> QED
    BY <2>1, <2>2, <2>3
<1>5. Load(i)' <= MaxAttempts + 1
  <2>1. CASE \E w \in Worker : Claim(w, i)
    <3>1. Load(i)' = Load(i) + 1 /\ Open(i) /\ job[i].attempts < MaxAttempts
      BY <2>1, LoadFrame, ClaimSpends
    <3> QED
      BY <1>0, <1>1, <3>1
  <2>2. CASE ~\E w \in Worker : Claim(w, i)
    <3>1. Load(i)' <= Load(i)
      BY <2>2, LoadFrame
    <3> QED
      BY <1>0, <1>1, <3>1
  <2> QED
    BY <2>1, <2>2
<1> QED
  BY <1>3, <1>4, <1>5

\* The invariants the budget rests on, together.
Budgeted == Fenced /\ Distinct /\ GraceLeft /\ Budget

LEMMA BudgetedAlways == Spec => [](Typed /\ Budgeted)
<1>1. Init => Budgeted
  <2>1. Init => \A j \in Job : Claimed(j) = {}
    BY DEF Init, Claimed, Idle
  <2>2. Init => \A j \in Job : Load(j) = 0
    BY <2>1, FS_EmptySet DEF Init, Load
  <2> QED
    BY <2>2 DEF Init, Budgeted, Fenced, Distinct, GraceLeft, Budget, Open, Stages, Absent, Spare
<1>2. Typed /\ Budgeted /\ [Next]_vars => Budgeted'
  BY FencingStep, GraceLeftStep, BudgetStep DEF Budgeted
<1>3. Spec => []Typed
  BY TypeCorrect DEF Typed
<1> QED
  BY <1>1, <1>2, <1>3, PTL DEF Spec

(***************************************************************************)
(* Whatever deadlines, crashes, takeovers and hand-backs happen, work on a *)
(* job starts at most MaxAttempts + 1 times.                               *)
(***************************************************************************)
THEOREM StartsAreBudgeted == Spec => []StartBudget
<1>1. Typed /\ Budgeted => StartBudget
  <2> SUFFICES ASSUME Typed, Budgeted, NEW j \in Job PROVE starts[j] <= MaxAttempts + 1
    BY DEF StartBudget
  <2>1. /\ starts[j] \in Nat /\ Cardinality(Claimed(j)) \in Nat
        /\ starts[j] + Cardinality(Claimed(j)) <= MaxAttempts + 1
    BY ClaimedFinite DEF Typed, TypeOK, Budgeted, Budget, Load
  <2> QED
    BY <2>1
<1> QED
  BY <1>1, BudgetedAlways, PTL

-----------------------------------------------------------------------------
(* Refinement: every step of the queue is a step of JobLifecycle, or none. *)

States == [j \in Job |-> job[j].state]

LEMMA RecoveredState ==
    ASSUME NEW row \in JobRow
    PROVE  /\ Failed(row).state \in {row.state, "DEAD_LETTER"}
           /\ ReleasedAfterDeadline(row).state \in {row.state, "DEAD_LETTER"}
           /\ Abandoned(row).state = "DEAD_LETTER"
  BY DEF Failed, ReleasedAfterDeadline, Abandoned, Unleased, JobRow

\* Ownership, time and the sweeper's second statement move no state.
LEMMA SameStates ==
    ASSUME Typed,
           \/ \E w \in Worker, j \in Job : Claim(w, j)
           \/ \E w \in Worker : ReleaseUnstarted(w)
           \/ \E j \in Job : Expire(j) \/ Elapse(j)
           \/ SweepRelease
    PROVE  States' = States
<1> SUFFICES ASSUME NEW i \in Job PROVE job'[i].state = job[i].state
  BY DEF States
<1>0. TypeOK /\ job[i] \in JobRow
  BY DEF Typed, TypeOK
<1>1. ASSUME NEW w \in Worker, NEW j \in Job, Claim(w, j) PROVE job'[i].state = job[i].state
  BY <1>0, <1>1 DEF Claim, Write, TypeOK, JobRow
<1>2. ASSUME NEW w \in Worker, ReleaseUnstarted(w) PROVE job'[i].state = job[i].state
  BY <1>0, <1>2, BusyFields DEF ReleaseUnstarted, Write, Unleased, TypeOK, JobRow
<1>3. ASSUME NEW j \in Job, Expire(j) \/ Elapse(j) PROVE job'[i].state = job[i].state
  BY <1>0, <1>3 DEF Expire, Elapse, Write, TypeOK, JobRow
<1>4. CASE SweepRelease
  <2>1. Unleased(job[i]).state = job[i].state
    BY <1>0 DEF Unleased, JobRow
  <2> QED
    BY <1>4, <2>1 DEF SweepRelease
<1> QED
  BY <1>1, <1>2, <1>3, <1>4

\* Recording a step, or finishing, is the lifecycle's Forward.
LEMMA RecordsForward ==
    ASSUME Typed, ReadyDone, NEW w \in Worker, NEW acked \in BOOLEAN,
           Advance(w, acked) \/ Complete(w, acked), NEW j \in Job, j = worker[w].job
    PROVE  Lifecycle!Forward(j)
<1> DEFINE to == NextStage(j, worker[w].state)
<1>0. /\ TypeOK /\ worker[w].state \in Stages /\ job[j] \in JobRow
      /\ worker[w].phase = "ready"
  BY BusyFields DEF Typed, TypeOK, Advance, Complete
<1>1. job[j].state = worker[w].state
  BY <1>0 DEF Advance, Complete, WriteScope, HeldInState
<1>2. HasWork(j, job[j].state) => job[j].state \in performed[j]
  BY <1>0, <1>1 DEF ReadyDone
<1>3. job' = [job EXCEPT ![j] = job'[j]] /\ job'[j].state = to
  <2>1. CASE Advance(w, acked)
    BY <1>0, <2>1 DEF Advance, Write, TypeOK, JobRow
  <2>2. CASE Complete(w, acked)
    <3>1. job'[j] = [Unleased(job[j]) EXCEPT !.state = "DONE", !.grace = FALSE]
      BY <1>0, <2>2 DEF Complete, Write, TypeOK
    <3>2. job'[j].state = "DONE"
      BY <1>0, <3>1, UnleasedRow DEF JobRow
    <3> QED
      BY <1>0, <2>2, <3>2 DEF Complete, Write, TypeOK
  <2> QED
    BY <2>1, <2>2
<1>4. States' = [States EXCEPT ![j] = to]
  BY <1>0, <1>3 DEF States, TypeOK
<1>5. States[j] = job[j].state
  BY <1>0 DEF States
<1>6. to = Lifecycle!Successor(j, States[j])
  BY <1>0, <1>1, <1>5 DEF NextStage, Lifecycle!Successor
<1>7. UNCHANGED <<performed, starts>>
  BY DEF Advance, Complete
<1> QED
  BY <1>0, <1>1, <1>2, <1>4, <1>5, <1>6, <1>7
  DEF Lifecycle!Forward, Lifecycle!NeedsWork, HasWork, Lifecycle!Stages, Stages, States

LEMMA BuriesMany ==
    ASSUME NEW js \in SUBSET Job, \A j \in js : job[j].state \in Stages,
           \A j \in Job : job'[j].state = IF j \in js THEN "DEAD_LETTER" ELSE job[j].state,
           UNCHANGED <<performed, starts>>
    PROVE  Lifecycle!Bury(js)
  BY DEF Lifecycle!Bury, Lifecycle!Stages, Stages

LEMMA LifecycleStep ==
    ASSUME Typed, ReadyDone, Budgeted, [Next]_vars
    PROVE  [Lifecycle!Next]_(Lifecycle!vars)
<1> DEFINE Goal == Lifecycle!Next \/ UNCHANGED Lifecycle!vars
<1>0. TypeOK /\ LeasedIsOpen
  BY DEF Typed
<1>1. ASSUME States' = States, UNCHANGED <<performed, starts>> PROVE Goal
  BY <1>1 DEF States, Lifecycle!vars
<1>2. ASSUME NEW j \in Job, Enqueue(j) PROVE Goal
  <2>1. CASE job[j].state = "ABSENT"
    <3>1. job' = [job EXCEPT ![j] = [Absent EXCEPT !.state = "RECEIVED"]]
      BY <1>2, <2>1 DEF Enqueue, Write
    <3>2. States' = [States EXCEPT ![j] = "RECEIVED"] /\ States[j] = "ABSENT"
      BY <1>0, <2>1, <3>1 DEF States, Absent, TypeOK
    <3>3. Lifecycle!Accept(j)
      BY <1>2, <3>2 DEF Enqueue, Lifecycle!Accept, States
    <3> QED
      BY <3>3 DEF Lifecycle!Next
  <2>2. CASE job[j].state # "ABSENT"
    <3>1. job' = job
      BY <1>0, <1>2, <2>2 DEF Enqueue, Write, TypeOK
    <3> QED
      BY <1>1, <1>2, <3>1 DEF Enqueue, States
  <2> QED
    BY <2>1, <2>2
<1>3. ASSUME NEW w \in Worker, NEW j \in Job, Claim(w, j) PROVE Goal
  BY <1>1, <1>3, SameStates DEF Claim
<1>4. ASSUME NEW w \in Worker, ReleaseUnstarted(w) PROVE Goal
  BY <1>1, <1>4, SameStates DEF ReleaseUnstarted
<1>5. ASSUME NEW w \in Worker, Begin(w) PROVE Goal
  <2> DEFINE j == worker[w].job
  <2>1. j \in Job /\ w \in Claimed(j)
    BY <1>0, <1>5, BusyFields DEF Begin, Claimed
  <2>2. Claimed(j) # {}
    BY <2>1
  <2>3. Cardinality(Claimed(j)) # 0
    BY <2>1, <2>2, ClaimedFinite, FS_EmptySet
  <2>4. starts[j] \in Nat /\ Cardinality(Claimed(j)) \in Nat
        /\ starts[j] + Cardinality(Claimed(j)) <= MaxAttempts + 1
    BY <1>0, <2>1, ClaimedFinite DEF TypeOK, Budgeted, Budget, Load
  <2>5. starts[j] <= MaxAttempts
    BY <2>3, <2>4
  <2>6. job' = job
    BY <1>5 DEF Begin
  <2>7. Lifecycle!Start(j)
    BY <1>5, <2>5, <2>6 DEF Begin, Lifecycle!Start
  <2> QED
    BY <2>1, <2>7 DEF Lifecycle!Next
<1>6. ASSUME NEW w \in Worker, Perform(w) PROVE Goal
  <2>1. worker[w].job \in Job /\ worker[w].state \in Lifecycle!Stages
    BY <1>0, <1>6, BusyFields DEF Perform, Stages, Lifecycle!Stages
  <2>2. Lifecycle!Work(worker[w].job, worker[w].state)
    BY <1>6 DEF Perform, Lifecycle!Work
  <2> QED
    BY <2>1, <2>2 DEF Lifecycle!Next
<1>7. ASSUME NEW w \in Worker, NEW acked \in BOOLEAN, Advance(w, acked) \/ Complete(w, acked)
      PROVE Goal
  <2>1. PICK j \in Job : j = worker[w].job
    BY <1>0, <1>7, BusyFields DEF Advance, Complete
  <2>2. Lifecycle!Forward(j)
    BY <1>7, <2>1, RecordsForward
  <2> QED
    BY <2>1, <2>2 DEF Lifecycle!Next
<1>8. ASSUME NEW w \in Worker, Recover(w) PROVE Goal
  <2>0. PICK j \in Job : j = worker[w].job
    BY <1>0, <1>8, BusyFields DEF Recover
  <2>1. worker[w].why \in Outcomes /\ job[j] \in JobRow
    BY <1>0, <1>8, BusyFields DEF Recover, Failing, TypeOK
  <2>2. job[j].state \in Stages
    BY <1>0, <1>8, <2>0 DEF Recover, WriteScope, HeldInState, Held, LeasedIsOpen, Open
  <2>3. /\ job'[j].state \in {job[j].state, "DEAD_LETTER"}
        /\ \A i \in Job : i # j => job'[i] = job[i]
    BY <1>0, <1>8, <2>0, <2>1, RecoveredState DEF Recover, Write, TypeOK, Outcomes
  <2>4. UNCHANGED <<performed, starts>>
    BY <1>8 DEF Recover
  <2>5. CASE job'[j].state = "DEAD_LETTER"
    <3>1. {j} \in SUBSET Job /\ \A i \in {j} : job[i].state \in Stages
      BY <2>2
    <3>2. \A i \in Job : job'[i].state = IF i \in {j} THEN "DEAD_LETTER" ELSE job[i].state
      BY <2>3, <2>5
    <3>3. Lifecycle!Bury({j})
      BY <2>4, <3>1, <3>2, BuriesMany
    <3> QED
      BY <3>1, <3>3 DEF Lifecycle!Next
  <2>6. CASE job'[j].state = job[j].state
    <3>1. States' = States
      BY <2>3, <2>6 DEF States
    <3> QED
      BY <1>1, <2>4, <3>1
  <2> QED
    BY <2>3, <2>5, <2>6
<1>9. ASSUME NEW j \in Job, Expire(j) \/ Elapse(j) PROVE Goal
  BY <1>1, <1>9, SameStates DEF Expire, Elapse
<1>10. CASE SweepBury
  <2>0. PICK js \in SUBSET Job :
          js = {j \in Job : Open(j) /\ job[j].lease = "expired" /\ Exhausted(j)}
    OBVIOUS
  <2>1. ASSUME NEW j \in Job PROVE [Unleased(job[j]) EXCEPT !.state = "DEAD_LETTER"].state = "DEAD_LETTER"
    BY <1>0 DEF Unleased, TypeOK, JobRow
  <2>2. \A j \in Job : job'[j].state = IF j \in js THEN "DEAD_LETTER" ELSE job[j].state
    BY <1>10, <2>0, <2>1 DEF SweepBury
  <2>3. \A j \in js : job[j].state \in Stages
    BY <2>0 DEF Open
  <2>4. UNCHANGED <<performed, starts>>
    BY <1>10 DEF SweepBury
  <2>5. Lifecycle!Bury(js)
    BY <2>2, <2>3, <2>4, BuriesMany
  <2> QED
    BY <2>5 DEF Lifecycle!Next
<1>11. CASE SweepRelease
  BY <1>1, <1>11, SameStates DEF SweepRelease
<1>12. ASSUME job' = job, UNCHANGED <<performed, starts>> PROVE Goal
  BY <1>1, <1>12 DEF States
<1> QED
  BY <1>2, <1>3, <1>4, <1>5, <1>6, <1>7, <1>8, <1>9, <1>10, <1>11, <1>12
  DEF Next, Step, Sweep, StepFails, LeaseLost, Crash, vars

(***************************************************************************)
(* The queue implements the lifecycle it promises, for any jobs, workers,  *)
(* owners and attempts.                                                    *)
(***************************************************************************)
THEOREM QueueImplementsLifecycle == Spec => ImplementsLifecycle
<1>1. Init => Lifecycle!Init
  BY DEF Init, Lifecycle!Init, Absent
<1>2. Typed /\ ReadyDone /\ Budgeted /\ [Next]_vars => [Lifecycle!Next]_(Lifecycle!vars)
  BY LifecycleStep
<1>3. Init => ReadyDone
  BY DEF Init, ReadyDone, Idle
<1>4. Typed /\ ReadyDone /\ [Next]_vars => ReadyDone'
  BY ReadyDoneStep
<1>5. Spec => [](Typed /\ Budgeted)
  BY BudgetedAlways
<1> QED
  BY <1>1, <1>2, <1>3, <1>4, <1>5, PTL DEF Spec, ImplementsLifecycle, Lifecycle!Spec
=============================================================================
