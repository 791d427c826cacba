------------------------------ MODULE Onboarding ------------------------------
(***************************************************************************)
(* How a connected repository becomes a target: src/lib/build-onboarding   *)
(* (queue.ts, worker.ts, the onboarding agent and the build driver), the   *)
(* reviewer's gate, the profile write of src/lib/targets/configure.ts and  *)
(* the maintenance sweep of built snapshots.                               *)
(*                                                                         *)
(* A worker claims a row under a lease and a fence and carries it one      *)
(* state forward.  What it starts outside the database is detached from    *)
(* the claim: a failed heartbeat rejects the step while the driver's build *)
(* and the agent's turn run on.                                            *)
(*                                                                         *)
(* Abstractions.  Leases and time as in JobQueue; a backoff only makes a   *)
(* claim later, and a claim may come at any time.  A fence is              *)
(* only ever compared for equality, so a claim's new fence is one that no  *)
(* worker's claim on the row holds, not the next number.  A plan is a      *)
(* recipe or a refusal.  A build stands for its image, digest, marker and  *)
(* snapshot id; a mesh's snapshots are one.  A repository has one snapshot *)
(* name.                                                                   *)
(***************************************************************************)
EXTENDS Naturals, FiniteSets

CONSTANTS
    Repo,           \* connected repositories
    Worker,         \* processes calling onboardOnce
    OwnerOf,        \* the owner string each worker claims under
    NoOwner,        \* lease_owner IS NULL
    MaxAttempts,    \* MAX_ATTEMPTS
    Build,          \* bound: driver builds, numbered
    Turn,           \* bound: turns of the onboarding agent, numbered
    MaxRetries,     \* bound: requeues of a failed or unsupported repository
    MaxAborts,      \* bound: shutdowns that catch a worker mid-step
    MaxRevokes,     \* bound: times the connection is taken away
    MaxSweeps       \* bound: maintenance passes

ASSUME OnboardingAssumption ==
    /\ Repo # {} /\ IsFiniteSet(Worker)
    /\ Build \subseteq Nat \ {0} /\ Turn \subseteq Nat \ {0}
    /\ MaxAttempts \in Nat \ {0}
    /\ MaxRetries \in Nat /\ MaxAborts \in Nat
    /\ MaxRevokes \in Nat /\ MaxSweeps \in Nat
ASSUME OwnersAssumption == \A w \in Worker : OwnerOf[w] # NoOwner

VARIABLES
    row,        \* the target_onboarding rows
    worker,     \* each worker's phase and the claim it took
    build,      \* the driver's builds
    turn,       \* the agent's turns
    snapshot,   \* the snapshot registered under each repository's name, 0 none
    profile,    \* the build each target profile pins, 0 none
    link,       \* the connection: granted, and bound to the profile
    sweeper,    \* the maintenance pass and what it has read
    blessed,    \* history: builds a reviewer approved
    retries, aborts, revokes, sweeps

outside == <<build, turn, snapshot>>
target == <<profile, link>>
bounds == <<retries, aborts, revokes, sweeps>>
vars == <<row, worker, outside, target, sweeper, blessed, bounds>>

States == {"PENDING_PLAN", "PENDING_BUILD", "PENDING_MANIFEST", "AWAITING_APPROVAL",
           "APPROVED", "CONFIGURED", "FAILED", "UNSUPPORTED"}
\* Mutant: a built row is not picked up again.
CLAIMABLE_NoManifest == {"PENDING_PLAN", "PENDING_BUILD", "APPROVED", "FAILED"}
CLAIMABLE == {"PENDING_PLAN", "PENDING_BUILD", "PENDING_MANIFEST", "APPROVED", "FAILED"}
ONBOARDING_TERMINAL == {"CONFIGURED", "UNSUPPORTED", "FAILED"}
Working == {"PENDING_PLAN", "PENDING_BUILD", "PENDING_MANIFEST", "APPROVED"}

Plans == {"none", "recipe", "refused"}
Builds == Build \union {0}
Turns == Turn \union {0}
Owners == {OwnerOf[w] : w \in Worker} \union {NoOwner}

Row == [state : States \union {"ABSENT"}, attempts : 0..MaxAttempts, fence : Nat, owner : Owners,
        lease : {"none", "live", "expired"},
        commit : BOOLEAN,       \* resolved_commit_sha is set
        plan : Plans,           \* build_plan
        image : Builds,         \* image, digest, snapshot id and marker
        manifest : BOOLEAN,     \* proposed_manifest is set
        token : Turns]          \* agent_capability_token

Absent == [state |-> "ABSENT", attempts |-> 0, fence |-> 0, owner |-> NoOwner,
           lease |-> "none", commit |-> FALSE, plan |-> "none",
           image |-> 0, manifest |-> FALSE, token |-> 0]

(***************************************************************************)
(* A worker's phase is what it does next.  plan, image and commit are the  *)
(* claim's copies of the columns; ref is the build or the turn it waits    *)
(* for; to is the state an advance writes.                                 *)
(***************************************************************************)
Idle == [phase |-> "idle"]
Claimed == [phase : {"resolve", "classify", "store", "review", "agent", "turn",
                     "build", "waiting", "manifest", "verify", "pin", "rotate", "advance"},
            r : Repo, fence : Nat, from : States, plan : Plans, image : Builds,
            ref : Nat, to : States]

BuildStates == {"free", "running", "cleared", "over"}

\* heldBy(lease)
Held(w) == /\ worker[w] # Idle
           /\ LET x == row[worker[w].r] IN
                /\ x.owner = OwnerOf[w]
                /\ x.fence = worker[w].fence
                /\ x.lease = "live"

Granted(r) == link[r] # "revoked"

Unleased(x) == [x EXCEPT !.owner = NoOwner, !.lease = "none"]
Write(r, x) == row' = [row EXCEPT ![r] = x]
Go(w, phase) == worker' = [worker EXCEPT ![w].phase = phase]
Stop(w) == worker' = [worker EXCEPT ![w] = Idle]

Fresh == /\ row = [r \in Repo |-> Absent]
         /\ worker = [w \in Worker |-> Idle]
         /\ build = [b \in Build |-> [st |-> "free", r |-> CHOOSE r \in Repo : TRUE]]
         /\ turn = [t \in Turn |-> [st |-> "free", r |-> CHOOSE r \in Repo : TRUE]]
         /\ snapshot = [r \in Repo |-> 0]
         /\ profile = [r \in Repo |-> 0]
         /\ link = [r \in Repo |-> "granted"]
         /\ sweeper = [phase |-> "idle", safe |-> {}]
         /\ blessed = [r \in Repo |-> {}]

Init == Fresh /\ retries = 0 /\ aborts = 0 /\ revokes = 0 /\ sweeps = 0

-----------------------------------------------------------------------------
(* The queue: enqueue, claim, release, renew, fail and the lease sweep.    *)

Requeued(x) == [x EXCEPT !.state = "PENDING_PLAN", !.commit = FALSE, !.plan = "none",
                         !.image = 0, !.manifest = FALSE, !.attempts = 0]

\* A connect webhook, a batch or a script: the first row, or a failed one
\* from the start.  Anything else in progress is left as it is.
Enqueue(r) == /\ Granted(r)
              /\ \/ /\ row[r].state = "ABSENT"
                    /\ Write(r, [Absent EXCEPT !.state = "PENDING_PLAN"])
                    /\ UNCHANGED retries
                 \/ /\ row[r].state = "FAILED"
                    /\ retries < MaxRetries
                    /\ Write(r, Requeued(row[r]))
                    /\ retries' = retries + 1
              /\ UNCHANGED <<worker, outside, target, sweeper, blessed, aborts, revokes, sweeps>>

\* retryOnboardingRequest(): a reviewer may also restart a refused one.
Retry(r) == /\ Granted(r)
            /\ row[r].state = "UNSUPPORTED"
            /\ retries < MaxRetries
            /\ Write(r, Requeued(row[r]))
            /\ retries' = retries + 1
            /\ UNCHANGED <<worker, outside, target, sweeper, blessed, aborts, revokes, sweeps>>

Claimable(x) == /\ x.state \in CLAIMABLE
                /\ x.attempts < MaxAttempts
                /\ x.lease # "live"

\* Where a claim enters the worker's switch.
FirstPhase(x) ==
    CASE x.state = "PENDING_PLAN"     -> IF x.commit THEN "classify" ELSE "resolve"
      [] x.state = "PENDING_BUILD"    -> "build"
      [] x.state = "PENDING_MANIFEST" -> "manifest"
      [] x.state = "APPROVED"         -> "verify"

\* fence + 1, up to renaming: a number no claim on this row carries.
NewFence(r) == CHOOSE f \in 1 .. Cardinality(Worker) + 1 :
                  \A w \in Worker : ~(worker[w] # Idle /\ worker[w].r = r /\ worker[w].fence = f)

Claim(w, r) ==
    LET x == row[r]
    IN  /\ worker[w] = Idle
        /\ Claimable(x)
        /\ Write(r, [x EXCEPT !.owner = OwnerOf[w], !.lease = "live",
                              !.attempts = @ + 1, !.fence = NewFence(r)])
        /\ worker' = [worker EXCEPT ![w] =
              IF x.state \in Working
              THEN [phase |-> FirstPhase(x), r |-> r, fence |-> NewFence(r),
                    from |-> x.state, ref |-> 0, to |-> x.state,
                    plan |-> IF x.state \in {"PENDING_BUILD", "PENDING_MANIFEST"}
                             THEN x.plan ELSE "none",
                    image |-> IF x.state \in {"PENDING_MANIFEST", "APPROVED"}
                              THEN x.image ELSE 0]
              ELSE Idle]
        /\ UNCHANGED <<outside, target, sweeper, blessed, bounds>>

\* A renewal or a fenced write finds the lease gone: the worker walks away.
LeaseLost(w) ==
    /\ worker[w] # Idle
    /\ ~Held(w)
    /\ Stop(w)
    /\ UNCHANGED <<row, outside, target, sweeper, blessed, bounds>>

\* fail(): FAILED once the attempts are spent, else the claimed state again.
Failed(w) == LET x == row[worker[w].r]
             IN  [Unleased(x) EXCEPT
                    !.state = IF x.attempts >= MaxAttempts THEN "FAILED" ELSE worker[w].from]

\* A step throws, whichever it is; so does a heartbeat that fails for any
\* reason but a lost lease, while what the step had started runs on.
Fail(w) ==
    /\ Held(w)
    /\ Write(worker[w].r, Failed(w))
    /\ Stop(w)
    /\ UNCHANGED <<outside, target, sweeper, blessed, bounds>>

\* releaseUnstarted(): a shutdown hands the claim and its attempt back.
Release(w) ==
    /\ aborts < MaxAborts
    /\ Held(w)
    /\ Write(worker[w].r, [Unleased(row[worker[w].r]) EXCEPT
                              !.attempts = IF @ > 0 THEN @ - 1 ELSE 0])
    /\ Stop(w)
    /\ aborts' = aborts + 1
    /\ UNCHANGED <<outside, target, sweeper, blessed, retries, revokes, sweeps>>

Expire(r) == /\ row[r].lease = "live"
             /\ Write(r, [row[r] EXCEPT !.lease = "expired"])
             /\ UNCHANGED <<worker, outside, target, sweeper, blessed, bounds>>

\* sweepExpiredLeases(): its two statements touch disjoint rows, so that a
\* step of theirs is the one that fits the row.
SweepLease(r) ==
    /\ row[r].lease = "expired"
    /\ row[r].state \in CLAIMABLE
    /\ Write(r, IF row[r].attempts < MaxAttempts THEN Unleased(row[r])
                ELSE IF row[r].state \in Working
                THEN [Unleased(row[r]) EXCEPT !.state = "FAILED"] ELSE row[r])
    /\ UNCHANGED <<worker, outside, target, sweeper, blessed, bounds>>

\* advance(): the next state, with a fresh budget and no lease.  The step's
\* columns are part of the same UPDATE.
Moved(c, to) ==
    [Unleased(row[c.r]) EXCEPT
        !.state = to, !.attempts = 0,
        !.plan = IF c.from = "PENDING_PLAN" THEN c.plan ELSE @,
        !.image = IF c.from = "PENDING_BUILD" THEN c.image ELSE @,
        !.manifest = IF c.from = "PENDING_MANIFEST" THEN TRUE ELSE @]

Advance(w) ==
    /\ Held(w)
    /\ worker[w].phase = "advance"
    /\ Write(worker[w].r, Moved(worker[w], worker[w].to))
    /\ Stop(w)
    /\ UNCHANGED <<outside, target, sweeper, blessed, bounds>>

-----------------------------------------------------------------------------
(* PENDING_PLAN: the source, the classifier, the review, the agent.        *)

\* setResolvedSourceIdentity(): fenced.
Resolve(w) ==
    /\ worker[w] # Idle
    /\ worker[w].phase = "resolve"
    /\ Held(w)
    /\ Write(worker[w].r, [row[worker[w].r] EXCEPT !.commit = TRUE])
    /\ Go(w, "classify")
    /\ UNCHANGED <<outside, target, sweeper, blessed, bounds>>

Leaves(w, to) == worker' = [worker EXCEPT ![w] = [@ EXCEPT !.phase = "advance", !.to = to]]

Classify(w) ==
    /\ worker[w] # Idle
    /\ worker[w].phase = "classify"
    /\ \/ worker' = [worker EXCEPT ![w] = [@ EXCEPT !.phase = "advance", !.plan = "recipe",
                                                    !.to = "PENDING_BUILD"]]
       \/ worker' = [worker EXCEPT ![w] = [@ EXCEPT !.phase = "store", !.plan = "refused"]]
    /\ UNCHANGED <<row, outside, target, sweeper, blessed, bounds>>

\* The refusal is written by the row's id alone, whoever holds the lease.
StorePlan(w) ==
    /\ worker[w] # Idle
    /\ worker[w].phase = "store"
    /\ Write(worker[w].r, [row[worker[w].r] EXCEPT !.plan = "refused"])
    /\ Go(w, "review")
    /\ UNCHANGED <<outside, target, sweeper, blessed, bounds>>

\* The read-only review: a "no" is written by id too and skips the agent.
Review(w) ==
    /\ worker[w] # Idle
    /\ worker[w].phase = "review"
    /\ \/ /\ Write(worker[w].r, [row[worker[w].r] EXCEPT !.plan = "refused"])
          /\ Leaves(w, "UNSUPPORTED")
       \/ /\ Go(w, "agent")
          /\ UNCHANGED row
    /\ UNCHANGED <<outside, target, sweeper, blessed, bounds>>

\* runOnboardingAgent() begins: a capability of its own on the row, unscoped.
StartTurn(w, t) ==
    /\ worker[w] # Idle
    /\ worker[w].phase = "agent"
    /\ turn[t].st = "free"
    /\ Write(worker[w].r, [row[worker[w].r] EXCEPT !.token = t])
    /\ turn' = [turn EXCEPT ![t] = [st |-> "running", r |-> worker[w].r]]
    /\ worker' = [worker EXCEPT ![w] = [@ EXCEPT !.phase = "turn", !.ref = t]]
    /\ UNCHANGED <<build, snapshot, target, sweeper, blessed, bounds>>

\* resolveOnboarding(): a tool call reaches the row that carries its token.
ToolFinds(t, r) == row[r].token = t

\* commitTargetImage(), commitComposeMesh() and markUnsandboxable().
AgentWrites(t, r, plan) ==
    /\ turn[t].st = "running"
    /\ ToolFinds(t, r)
    /\ plan # "none"
    /\ Write(r, [row[r] EXCEPT !.plan = plan])
    /\ UNCHANGED <<worker, outside, target, sweeper, blessed, bounds>>

\* The finally block clears the capability only while it is this turn's.
Cleared(t, x) == IF x.token = t THEN [x EXCEPT !.token = 0] ELSE x

\* The turn ends, well or badly.
EndTurn(t) ==
    LET r == turn[t].r
    IN  /\ turn[t].st = "running"
        /\ turn' = [turn EXCEPT ![t].st = "over"]
        /\ Write(r, Cleared(t, row[r]))
        /\ UNCHANGED <<worker, build, snapshot, target, sweeper, blessed, bounds>>

\* readBuildPlan(), after a turn that ended well: by id, and no plan at all
\* counts as a refusal.
ReadBack(w) ==
    LET plan == IF row[worker[w].r].plan = "recipe" THEN "recipe" ELSE "refused"
    IN  /\ worker[w] # Idle
        /\ worker[w].phase = "turn"
        /\ turn[worker[w].ref].st = "over"
        /\ worker' = [worker EXCEPT ![w] = [@ EXCEPT !.phase = "advance", !.plan = plan, !.ref = 0,
                        !.to = IF plan = "recipe" THEN "PENDING_BUILD" ELSE "UNSUPPORTED"]]
        /\ UNCHANGED <<row, outside, target, sweeper, blessed, bounds>>

-----------------------------------------------------------------------------
(* PENDING_BUILD and PENDING_MANIFEST.                                     *)

\* buildablePlan(), then the driver starts; it takes no abort signal.
StartBuild(w, b) ==
    /\ worker[w] # Idle
    /\ worker[w].phase = "build"
    /\ worker[w].plan = "recipe"
    /\ build[b].st = "free"
    /\ build' = [build EXCEPT ![b] = [st |-> "running", r |-> worker[w].r]]
    /\ worker' = [worker EXCEPT ![w] = [@ EXCEPT !.phase = "waiting", !.ref = b]]
    /\ UNCHANGED <<row, turn, snapshot, target, sweeper, blessed, bounds>>

\* registerServiceSnapshot(), first: free the repository's snapshot name.
FreeName(b) ==
    /\ build[b].st = "running"
    /\ snapshot' = [snapshot EXCEPT ![build[b].r] = 0]
    /\ build' = [build EXCEPT ![b].st = "cleared"]
    /\ UNCHANGED <<row, worker, turn, target, sweeper, blessed, bounds>>

Waiting(b) == {w \in Worker : worker[w] # Idle /\ worker[w].phase = "waiting" /\ worker[w].ref = b}

\* Then create under it: a taken name answers 409, and the create is retried
\* until it is free or the tries are spent.  A worker still waiting for the
\* result goes on to record it.
RegisterSnapshot(b) ==
    /\ build[b].st = "cleared"
    /\ snapshot[build[b].r] = 0
    /\ snapshot' = [snapshot EXCEPT ![build[b].r] = b]
    /\ build' = [build EXCEPT ![b].st = "over"]
    /\ worker' = [w \in Worker |->
                    IF w \in Waiting(b)
                    THEN [worker[w] EXCEPT !.phase = "advance", !.image = b, !.ref = 0,
                                           !.plan = "none", !.to = "PENDING_MANIFEST"]
                    ELSE worker[w]]
    /\ UNCHANGED <<row, turn, target, sweeper, blessed, bounds>>

\* The build fails, its tries are spent, or its process died with it.
BuildFails(b) ==
    /\ build[b].st \in {"running", "cleared"}
    /\ build' = [build EXCEPT ![b].st = "over"]
    /\ UNCHANGED <<row, worker, turn, snapshot, target, sweeper, blessed, bounds>>

\* planToManifest(): from the plan the claim carries.
ProposeManifest(w) ==
    /\ worker[w] # Idle
    /\ worker[w].phase = "manifest"
    /\ worker[w].image # 0
    /\ worker[w].plan = "recipe"
    /\ Held(w)
    /\ Write(worker[w].r, Moved(worker[w], "AWAITING_APPROVAL"))
    /\ Stop(w)
    /\ UNCHANGED <<outside, target, sweeper, blessed, bounds>>

-----------------------------------------------------------------------------
(* The human gate, APPROVED and the profile.                               *)

\* Mutant: the update does not ask for AWAITING_APPROVAL.
Approvable_Any(x) == x.state \in {"PENDING_MANIFEST", "AWAITING_APPROVAL"}

\* approveOnboardingRequest(): the state is guarded in the UPDATE itself.
Approvable(x) == x.state = "AWAITING_APPROVAL"

Approve(r) ==
    /\ Approvable(row[r])
    /\ Write(r, [row[r] EXCEPT !.state = "APPROVED"])
    /\ blessed' = [blessed EXCEPT ![r] = @ \union {row[r].image}]
    /\ UNCHANGED <<worker, outside, target, sweeper, bounds>>

\* verifyAndWrite(), first half: boot the image offline and tear it down.
\* Only a snapshot that exists boots.
Verify(w) ==
    /\ worker[w] # Idle
    /\ worker[w].phase = "verify"
    /\ worker[w].image # 0
    /\ snapshot[worker[w].r] = worker[w].image
    /\ Go(w, "pin")
    /\ UNCHANGED <<row, outside, target, sweeper, blessed, bounds>>

\* configureTarget(): needs a live grant, creates the profile or finds one
\* with the very same pins, and binds the repository.  Not fenced.
Configure(w) ==
    LET c == worker[w]
    IN  /\ c # Idle
        /\ c.phase = "pin"
        /\ Granted(c.r)
        /\ IF profile[c.r] \in {0, c.image}
           THEN /\ profile' = [profile EXCEPT ![c.r] = c.image]
                /\ link' = [link EXCEPT ![c.r] = "bound"]
                /\ Leaves(w, "CONFIGURED")
           ELSE /\ Go(w, "rotate")
                /\ UNCHANGED target
        /\ UNCHANGED <<row, outside, sweeper, blessed, bounds>>

\* rotateTarget(): repoint the profile, if the repository is bound to it.
Rotate(w) ==
    LET c == worker[w]
    IN  /\ c # Idle
        /\ c.phase = "rotate"
        /\ link[c.r] = "bound"
        /\ profile' = [profile EXCEPT ![c.r] = c.image]
        /\ Leaves(w, "CONFIGURED")
        /\ UNCHANGED <<row, outside, link, sweeper, blessed, bounds>>

\* A revocation clears the binding; a new grant does not restore it.
Revoke(r) == /\ Granted(r)
             /\ revokes < MaxRevokes
             /\ link' = [link EXCEPT ![r] = "revoked"]
             /\ revokes' = revokes + 1
             /\ UNCHANGED <<row, worker, outside, profile, sweeper, blessed, retries, aborts, sweeps>>

Grant(r) == /\ link[r] = "revoked"
            /\ link' = [link EXCEPT ![r] = "granted"]
            /\ UNCHANGED <<row, worker, outside, profile, sweeper, blessed, bounds>>

-----------------------------------------------------------------------------
(* sweepOrphanSnapshots(): a guard, two reads, then the deletions.         *)

SweepStart == /\ sweeper.phase = "idle"
              /\ sweeps < MaxSweeps
              /\ \A r \in Repo : row[r].state # "PENDING_BUILD"
              /\ sweeper' = [phase |-> "profiles", safe |-> {}]
              /\ sweeps' = sweeps + 1
              /\ UNCHANGED <<row, worker, outside, target, blessed, retries, aborts, revokes>>

SweepReadsProfiles == /\ sweeper.phase = "profiles"
                      /\ sweeper' = [phase |-> "rows", safe |-> {profile[r] : r \in Repo}]
                      /\ UNCHANGED <<row, worker, outside, target, blessed, bounds>>

InFlight(x) == x.state \notin ONBOARDING_TERMINAL

SweepReadsRows ==
    /\ sweeper.phase = "rows"
    /\ sweeper' = [phase |-> "delete",
                   safe |-> sweeper.safe \union {row[r].image : r \in {q \in Repo : InFlight(row[q])}}]
    /\ UNCHANGED <<row, worker, outside, target, blessed, bounds>>

\* One listing; a snapshot whose delete fails stays for the next pass.
SweepDeletes ==
    /\ sweeper.phase = "delete"
    /\ snapshot' = [r \in Repo |-> IF snapshot[r] \in sweeper.safe THEN snapshot[r] ELSE 0]
    /\ sweeper' = [phase |-> "idle", safe |-> {}]
    /\ UNCHANGED <<row, worker, build, turn, target, blessed, bounds>>

-----------------------------------------------------------------------------

\* What a worker that is not interrupted does next.
Work(w) == \/ Resolve(w) \/ Classify(w) \/ StorePlan(w) \/ Review(w)
           \/ (\E t \in Turn : StartTurn(w, t)) \/ ReadBack(w)
           \/ (\E b \in Build : StartBuild(w, b)) \/ ProposeManifest(w)
           \/ Verify(w) \/ Configure(w) \/ Rotate(w) \/ Advance(w)
Quits(w) == LeaseLost(w) \/ Fail(w) \/ Release(w)
Runs(b) == FreeName(b) \/ RegisterSnapshot(b) \/ BuildFails(b)
Sweeps == SweepStart \/ SweepReadsProfiles \/ SweepReadsRows \/ SweepDeletes

Next == \/ \E r \in Repo : \/ Enqueue(r) \/ Retry(r) \/ Approve(r) \/ Expire(r)
                           \/ SweepLease(r) \/ Revoke(r) \/ Grant(r)
                           \/ \E w \in Worker : Claim(w, r)
                           \/ \E t \in Turn, plan \in Plans : AgentWrites(t, r, plan)
        \/ \E w \in Worker : Work(w) \/ Quits(w)
        \/ \E t \in Turn : EndTurn(t)
        \/ \E b \in Build : Runs(b)
        \/ Sweeps

Spec == Init /\ [][Next]_vars

\* A live worker goes on, a build comes to an end, an agent's turn reaches
\* its deadline, an abandoned lease runs out, the ticks claim and sweep.
Fairness == /\ \A w \in Worker : WF_vars(Work(w) \/ Quits(w))
            /\ \A r \in Repo : /\ SF_vars(\E w \in Worker : Claim(w, r))
                               /\ WF_vars(SweepLease(r))
                               /\ WF_vars((\A w \in Worker : ~Held(w)) /\ Expire(r))
            /\ \A t \in Turn : WF_vars(EndTurn(t))
            /\ \A b \in Build : WF_vars(Runs(b))

FairSpec == Spec /\ Fairness

-----------------------------------------------------------------------------

TypeOK == /\ row \in [Repo -> Row]
          /\ worker \in [Worker -> Claimed \union {Idle}]
          /\ build \in [Build -> [st : BuildStates, r : Repo]]
          /\ turn \in [Turn -> [st : {"free", "running", "over"}, r : Repo]]
          /\ snapshot \in [Repo -> Builds]
          /\ profile \in [Repo -> Builds]
          /\ link \in [Repo -> {"granted", "bound", "revoked"}]
          /\ sweeper \in [phase : {"idle", "profiles", "rows", "delete"}, safe : SUBSET Builds]
          /\ blessed \in [Repo -> SUBSET Build]
          /\ retries \in 0..MaxRetries /\ aborts \in 0..MaxAborts /\ revokes \in 0..MaxRevokes
          /\ sweeps \in 0..MaxSweeps

\* A row that has spent its attempts is FAILED or still leased to the worker
\* on its last one: it never rests where neither a claim nor a reviewer's
\* retry can reach it.
NoRowStranded == \A r \in Repo : /\ row[r].state \in Working
                                 /\ row[r].attempts >= MaxAttempts
                                 => row[r].lease # "none"

\* Onboarding is what TargetProposal promises: whatever the leases, detached
\* builds, stale workers and retries do, a repository is configured through
\* an approved proposal and its profile pins only images a reviewer approved.
PhaseOf(s) == CASE s = "ABSENT" -> "none"
                [] s \in {"PENDING_PLAN", "PENDING_BUILD", "PENDING_MANIFEST"} -> "building"
                [] s = "AWAITING_APPROVAL" -> "proposed"
                [] s = "APPROVED" -> "approved"
                [] s = "CONFIGURED" -> "configured"
                [] s = "FAILED" -> "failed"
                [] s = "UNSUPPORTED" -> "refused"
Promise == INSTANCE TargetProposal WITH
             Image <- Build, NoImage <- 0, pinned <- profile,
             phase <- [r \in Repo |-> PhaseOf(row[r].state)],
             offered <- [r \in Repo |-> row[r].image]
KeepsPromise == Promise!Spec

\* Whatever fails, loses its lease or is shut down, a row in progress comes
\* to rest, with a reviewer, configured, failed or refused, and on its way
\* there is never where nothing can reach it.
OnboardingRests == /\ [][(TypeOK /\ NoRowStranded)']_vars
                   /\ \A r \in Repo : row[r].state \in Working ~> row[r].state \notin Working

===============================================================================
