---------------------------- MODULE AnalysisTurn ----------------------------
(***************************************************************************)
(* One report's analysis run: src/lib/analysis/trueforge-driver.ts, the    *)
(* provisioning it calls (src/lib/sandbox/provision.ts) and the Daytona    *)
(* boundary under it (src/lib/sandbox/daytona.ts).                         *)
(*                                                                         *)
(* An attempt is one pass of the job worker over ensureSession and run.    *)
(* A worker that lost its lease keeps executing with its signal aborted    *)
(* while the next attempt runs, so attempts overlap.  What an attempt      *)
(* creates (claim token, harness session, turn, sandboxes) is named by it. *)
(*                                                                         *)
(* Abstractions.  The statements of one transaction are one step, the      *)
(* createTurn call under the row lock included.  Egress policy, build      *)
(* marker, image and limits are one yes/no answer about a sandbox;         *)
(* readiness another.  A timeout is a failure that may come at any time.   *)
(* Services of a mesh boot in any order after the app.                     *)
(***************************************************************************)
EXTENDS Naturals, FiniteSets

CONSTANTS
    Attempt,      \* passes of the job worker over this report
    NoAttempt,    \* a null column
    App,          \* the service probe_target reaches
    Dependency,   \* the other services a compose-mesh may have
    Built,        \* the services that are our build and need a start command
    Faults        \* bounds on the environment, one record per scenario

Service == {App} \union Dependency
Box == Attempt \X Service
SnapshotStates == {"active", "inactive", "pulling", "error", "missing"}

ASSUME NullAssumption == NoAttempt \notin Attempt
ASSUME ServiceAssumption == App \notin Dependency /\ Built \subseteq Service
ASSUME FaultsAssumption ==
    Faults \subseteq [crash : Nat, abort : Nat, daytona : Nat, harness : Nat, park : Nat]

VARIABLES
    row,        \* the report's agent_session row
    claim,      \* its agent_session_claim row's token
    harness,    \* TrueForge: live sessions, and the newest turn of each
    target,     \* the report's target: authorised, unbuildable or none; its services
    snapshot,   \* Daytona's state of each service's snapshot
    box,        \* Daytona's sandboxes
    cause,      \* history: why nobody answers for a sandbox any more
    at,         \* each attempt's program counter and locals
    ender,      \* sandboxes the poller or publish_verdict is deleting
    faults      \* what the environment may still do

turnVars == <<row, claim, harness, target, snapshot, box, cause, at, ender, faults>>

Locations == {"idle", "claim", "create", "persist", "discard", "unclaim", "context",
              "snapshot", "boot", "inspect", "inspected", "deps", "app", "turn",
              "teardown", "done", "threw", "dead"}
Over == {"done", "threw", "dead"}
Causes == {"none", "crash", "lost", "delete", "abort"}

TurnTypeOK ==
    /\ row \in [session : Attempt \union {NoAttempt}, turn : Attempt \union {NoAttempt},
                live : BOOLEAN, drafted : BOOLEAN, boxes : SUBSET Box, static : BOOLEAN]
    /\ claim \in Attempt \union {NoAttempt}
    /\ harness \in [sessions : SUBSET Attempt, newest : [Attempt -> Attempt \union {NoAttempt}]]
    /\ target \in [is : {"live", "unbuildable", "none"}, parts : SUBSET Service]
    /\ snapshot \in [Service -> SnapshotStates]
    /\ box \in [Box -> {"none", "idle", "proven", "running", "gone"}]
    /\ cause \in [Box -> Causes]
    /\ at \in [Attempt -> [pc : Locations, aborted : BOOLEAN, own : SUBSET Service,
                           healed : BOOLEAN, why : {"plain", "static"},
                           next : {"turn", "threw", "done"}]]
    /\ ender \subseteq Box
    /\ faults \in [crash : Nat, abort : Nat, daytona : Nat, harness : Nat, park : Nat]

NotBegun == [pc |-> "idle", aborted |-> FALSE, own |-> {}, healed |-> FALSE,
          why |-> "plain", next |-> "turn"]

TurnInit ==
    /\ row = [session |-> NoAttempt, turn |-> NoAttempt, live |-> FALSE, drafted |-> FALSE,
              boxes |-> {}, static |-> FALSE]
    /\ claim = NoAttempt
    /\ harness = [sessions |-> {}, newest |-> [a \in Attempt |-> NoAttempt]]
    /\ \/ \E parts \in {{App}, Service} : target = [is |-> "live", parts |-> parts]
       \/ \E is \in {"unbuildable", "none"} : target = [is |-> is, parts |-> {App}]
    /\ snapshot = [s \in Service |-> "active"]
    /\ box = [b \in Box |-> "none"]
    /\ cause = [b \in Box |-> "none"]
    /\ at = [a \in Attempt |-> NotBegun]
    /\ ender = {}
    /\ faults \in Faults

Mesh == target.parts # {App}
Up(b) == box[b] \in {"idle", "proven", "running"}
Boxes(a) == {<<a, s>> : s \in at[a].own}

\* Nobody will delete b: no attempt that runs knows it, no live turn uses
\* it, and no terminal path has it on its list.
Dangling(b) ==
    /\ Up(b)
    /\ b \notin ender \union Boxes(b[1])
    /\ ~(row.live /\ b \in row.boxes)

GoTo(a, pc) == at' = [at EXCEPT ![a].pc = pc]

\* An attempt that is over keeps no local that anything reads.
Finish(a, pc) == at' = [at EXCEPT ![a] = [NotBegun EXCEPT !.pc = pc]]

Fault(field) ==
    /\ faults[field] > 0
    /\ faults' = [faults EXCEPT ![field] = @ - 1]

-----------------------------------------------------------------------------
(***************************************************************************)
(* ensureSession: a report has one harness session, whoever creates it.    *)
(* The claim row keeps two first-time callers apart.                       *)
(***************************************************************************)
\* The job's checkpoint skips ensureSession once the session exists.
Begin(a) ==
    /\ at[a].pc = "idle"
    /\ \/ at[a].aborted /\ Finish(a, "threw")
       \/ ~at[a].aborted /\ GoTo(a, IF row.session # NoAttempt THEN "context" ELSE "claim")
    /\ UNCHANGED <<row, claim, harness, target, snapshot, box, cause, ender, faults>>

\* claimAgentSessionCreation under the report's row lock.  While another
\* token holds the claim the attempt polls, which is this not being enabled.
ClaimSession(a) ==
    /\ at[a].pc = "claim"
    /\ \/ /\ row.session # NoAttempt
          /\ GoTo(a, "context")
          /\ UNCHANGED claim
       \/ /\ row.session = NoAttempt
          /\ claim = NoAttempt
          /\ claim' = a
          /\ GoTo(a, "create")
    /\ UNCHANGED <<row, harness, target, snapshot, box, cause, ender, faults>>

\* waitForClaimedAgentSession leaves only for a session, an open claim or an abort.
StopWaiting(a) ==
    /\ at[a].pc = "claim"
    /\ claim # NoAttempt
    /\ at[a].aborted
    /\ Finish(a, "threw")
    /\ UNCHANGED <<row, claim, harness, target, snapshot, box, cause, ender, faults>>

CreateHarnessSession(a) ==
    /\ at[a].pc = "create"
    /\ \/ /\ harness' = [harness EXCEPT !.sessions = @ \union {a}]
          /\ GoTo(a, "persist")
          /\ UNCHANGED faults
       \/ /\ Fault("harness")          \* refused, or created and the answer lost
          /\ harness' \in {harness, [harness EXCEPT !.sessions = @ \union {a}]}
          /\ GoTo(a, "unclaim")
       \/ /\ at[a].aborted             \* the signal cancels the request
          /\ GoTo(a, "unclaim")
          /\ UNCHANGED <<harness, faults>>
    /\ UNCHANGED <<row, claim, target, snapshot, box, cause, ender>>

\* The row and the end of the claim commit together, or neither does.
PersistSession(a) ==
    /\ at[a].pc = "persist"
    /\ \/ /\ row.session = NoAttempt /\ claim = a
          /\ row' = [row EXCEPT !.session = a]
          /\ claim' = NoAttempt
          /\ GoTo(a, "context")
          /\ UNCHANGED faults
       \/ /\ Fault("harness")          \* the transaction fails
          /\ GoTo(a, "discard")
          /\ UNCHANGED <<row, claim>>
    /\ UNCHANGED <<harness, target, snapshot, box, cause, ender>>

\* The cleanup deletes the session before it releases the claim: a delete
\* that throws takes the release with it.
DiscardSession(a) ==
    /\ at[a].pc = "discard"
    /\ \/ /\ harness' = [harness EXCEPT !.sessions = @ \ {a}]
          /\ GoTo(a, "unclaim")
          /\ UNCHANGED faults
       \/ /\ Fault("harness")
          /\ Finish(a, "threw")
          /\ UNCHANGED harness
    /\ UNCHANGED <<row, claim, target, snapshot, box, cause, ender>>

\* Mutant: the release compares a token drawn anew.
ReleaseClaim_Fresh(a) ==
    /\ at[a].pc = "unclaim"
    /\ Finish(a, "threw")
    /\ UNCHANGED <<row, claim, harness, target, snapshot, box, cause, ender, faults>>

ReleaseClaim(a) ==
    /\ at[a].pc = "unclaim"
    /\ claim' = IF claim = a THEN NoAttempt ELSE claim
    /\ Finish(a, "threw")
    /\ UNCHANGED <<row, harness, target, snapshot, box, cause, ender, faults>>

-----------------------------------------------------------------------------
(***************************************************************************)
(* run, first half: what the report may be tested against, and a booted,   *)
(* proven, answering target if it may.  No row is locked meanwhile.        *)
(***************************************************************************)
\* The unlocked pre-check: a turn that exists was already provisioned for.
ReadContext(a) ==
    /\ at[a].pc = "context"
    /\ \/ /\ at[a].aborted
          /\ Finish(a, "threw")
       \/ /\ ~at[a].aborted
          /\ at' = [at EXCEPT
                ![a].pc = IF row.turn = NoAttempt /\ target.is = "live" THEN "snapshot" ELSE "turn",
                ![a].why = IF target.is = "unbuildable" THEN "static" ELSE "plain"]
    /\ UNCHANGED <<row, claim, harness, target, snapshot, box, cause, ender, faults>>

\* Where a provisioning that failed goes: through the deletion of what it
\* had created, then to a turn without a sandbox, or out if it was aborted.
FailTo(a, why) ==
    at' = [at EXCEPT ![a].pc = "teardown", ![a].why = why, ![a].next = "turn",
                     ![a].healed = FALSE]

\* A single image that cannot come up could not be deployed, whatever the
\* reason; a mesh says so only of a snapshot that is gone.
BootFailure == IF Mesh THEN "plain" ELSE "static"

\* The app boots first: a dependency is linked to it.
Pending(a) == IF App \notin at[a].own THEN {App} ELSE target.parts \ at[a].own

\* ensureSnapshotActive for one service.
EnsureActive(a, s) ==
    /\ at[a].pc = "snapshot"
    /\ s \in Pending(a)
    /\ \/ /\ at[a].aborted
          /\ FailTo(a, "plain")
          /\ UNCHANGED <<snapshot, faults>>
       \/ /\ snapshot[s] = "active" /\ ~at[a].aborted
          /\ at' = [at EXCEPT ![a].pc = "boot", ![a].healed = FALSE]
          /\ UNCHANGED <<snapshot, faults>>
       \/ /\ snapshot[s] = "missing"
          /\ FailTo(a, "static")
          /\ UNCHANGED <<snapshot, faults>>
       \/ /\ \/ snapshot[s] = "error"
             \/ snapshot[s] = "inactive" /\ at[a].healed
          /\ FailTo(a, BootFailure)
          /\ UNCHANGED <<snapshot, faults>>
       \/ /\ snapshot[s] = "inactive" /\ ~at[a].healed
          /\ \E to \in {"active", "pulling"} : snapshot' = [snapshot EXCEPT ![s] = to]
          /\ at' = [at EXCEPT ![a].healed = TRUE]
          /\ UNCHANGED faults
       \/ /\ Fault("daytona")          \* Daytona does not answer, or not in time
          /\ FailTo(a, BootFailure)
          /\ UNCHANGED snapshot
    /\ UNCHANGED <<row, claim, harness, target, box, cause, ender>>

\* createSandbox re-reads the snapshot and takes no signal.  A sandbox it
\* made and then could neither name nor prove destroyed is Daytona's to end.
Boot(a, s) ==
    /\ at[a].pc = "boot"
    /\ s \in Pending(a)
    /\ \/ /\ snapshot[s] = "active"
          /\ box' = [box EXCEPT ![<<a, s>>] = "idle"]
          /\ at' = [at EXCEPT ![a].pc = "inspect", ![a].own = @ \union {s}]
          /\ UNCHANGED <<cause, faults>>
       \/ /\ snapshot[s] # "active"
          /\ FailTo(a, BootFailure)
          /\ UNCHANGED <<box, cause, faults>>
       \/ /\ snapshot[s] = "active"
          /\ Fault("daytona")
          /\ \/ UNCHANGED <<box, cause>>
             \/ /\ box' = [box EXCEPT ![<<a, s>>] = "idle"]
                /\ cause' = [cause EXCEPT ![<<a, s>>] = "lost"]
          /\ FailTo(a, BootFailure)
    /\ UNCHANGED <<row, claim, harness, target, snapshot, ender>>

\* getSandbox of what was just created: an abort seen before it is cleaned
\* up after, one that arrives during it is only seen at the next check.
Inspect(a) ==
    /\ at[a].pc = "inspect"
    /\ \/ /\ at[a].aborted
          /\ FailTo(a, "plain")
          /\ UNCHANGED faults
       \/ /\ ~at[a].aborted
          /\ GoTo(a, IF Pending(a) # {} THEN "snapshot" ELSE "inspected")
          /\ UNCHANGED faults
       \/ /\ Fault("daytona")
          /\ FailTo(a, BootFailure)
    /\ UNCHANGED <<row, claim, harness, target, snapshot, box, cause, ender>>

\* provisionTarget tests the signal once between two try blocks.
LeaveAborted(a) ==
    /\ at[a].pc = "inspected" /\ at[a].aborted /\ ~Mesh
    /\ cause' = [cause EXCEPT ![<<a, App>>] = "abort"]
    /\ Finish(a, "threw")
    /\ UNCHANGED <<row, claim, harness, target, snapshot, box, ender, faults>>

\* verifyNoEgress and buildMarkerCheck, of every node before any is started.
Prove(a) ==
    /\ at[a].pc = "inspected"
    /\ at[a].aborted => Mesh
    /\ \/ /\ ~at[a].aborted
          /\ box' = [b \in Box |-> IF b \in Boxes(a) /\ Up(b) THEN "proven" ELSE box[b]]
          /\ GoTo(a, IF Mesh THEN "deps" ELSE "app")
          /\ UNCHANGED faults
       \/ /\ at[a].aborted
          /\ FailTo(a, "plain")
          /\ UNCHANGED <<box, faults>>
       \/ /\ Fault("daytona")          \* reached the internet, wrong build, or no answer
          /\ FailTo(a, BootFailure)
          /\ UNCHANGED box
    /\ UNCHANGED <<row, claim, harness, target, snapshot, cause, ender>>

\* Start what we built among services, which must answer before pc.
StartAll(a, services, pc) ==
    /\ \/ /\ ~at[a].aborted
          /\ box' = [b \in Box |-> IF b \in {<<a, s>> : s \in services \cap Built} /\ Up(b)
                                   THEN "running" ELSE box[b]]
          /\ GoTo(a, pc)
          /\ UNCHANGED faults
       \/ /\ at[a].aborted
          /\ FailTo(a, "plain")
          /\ UNCHANGED <<box, faults>>
       \/ /\ Fault("daytona")
          /\ FailTo(a, "plain")
          /\ UNCHANGED box
    /\ UNCHANGED <<row, claim, harness, target, snapshot, cause, ender>>

StartDependencies(a) == at[a].pc = "deps" /\ StartAll(a, target.parts \ {App}, "app")
StartApp(a) == at[a].pc = "app" /\ StartAll(a, {App}, "turn")

\* One deletion.  A failed one is swallowed when the attempt is being
\* cancelled or cleaned up by the driver; raised by provisioning, it is an
\* error of its own that hides why the boot failed.
Teardown(a) ==
    /\ at[a].pc = "teardown"
    /\ at[a].own # {}
    /\ \E s \in at[a].own :
          \/ /\ box' = [box EXCEPT ![<<a, s>>] = "gone"]
             /\ at' = [at EXCEPT ![a].own = @ \ {s}]
             /\ UNCHANGED <<cause, faults>>
          \/ /\ Fault("daytona")
             /\ Up(<<a, s>>)
             /\ cause' = [cause EXCEPT ![<<a, s>>] = "delete"]
             /\ at' = [at EXCEPT ![a].own = @ \ {s}, ![a].why = "plain"]
             /\ UNCHANGED box
    /\ UNCHANGED <<row, claim, harness, target, snapshot, ender>>

TornDown(a) ==
    /\ at[a].pc = "teardown"
    /\ at[a].own = {}
    /\ IF at[a].next # "turn" THEN Finish(a, at[a].next)
       ELSE IF at[a].aborted THEN Finish(a, "threw")
       ELSE GoTo(a, "turn")
    /\ UNCHANGED <<row, claim, harness, target, snapshot, box, cause, ender, faults>>

-----------------------------------------------------------------------------
(***************************************************************************)
(* run, second half: one turn, under the session row's lock.               *)
(***************************************************************************)
LeaveTurn(a, next) ==
    at' = [at EXCEPT ![a].pc = "teardown", ![a].next = next]

\* Mutant: the loser returns and forgets what it booted.
LoseRace_Keeps(a) ==
    /\ at[a].pc = "turn"
    /\ row.turn # NoAttempt
    /\ Finish(a, "done")
    /\ UNCHANGED <<row, claim, harness, target, snapshot, box, cause, ender, faults>>

\* Another attempt's turn is already recorded: this one's sandboxes go.
LoseRace(a) ==
    /\ at[a].pc = "turn"
    /\ row.turn # NoAttempt
    /\ LeaveTurn(a, "done")
    /\ UNCHANGED <<row, claim, harness, target, snapshot, box, cause, ender, faults>>

CreateTurn(a) ==
    /\ at[a].pc = "turn"
    /\ row.turn = NoAttempt
    /\ ~at[a].aborted
    /\ row.session \in harness.sessions
    /\ harness' = [harness EXCEPT !.newest[row.session] = a]
    /\ row' = [row EXCEPT !.turn = a, !.live = TRUE, !.boxes = Boxes(a),
                          !.static = at[a].why = "static"]
    /\ Finish(a, "done")
    /\ UNCHANGED <<claim, target, snapshot, box, cause, ender, faults>>

\* Aborted, refused, or accepted and then not committed.
FailTurn(a) ==
    /\ at[a].pc = "turn"
    /\ row.turn = NoAttempt
    /\ \/ at[a].aborted /\ UNCHANGED <<harness, faults>>
       \/ /\ ~at[a].aborted
          /\ Fault("harness")
          /\ harness' \in {harness, [harness EXCEPT !.newest[row.session] = a]}
    /\ LeaveTurn(a, "threw")
    /\ UNCHANGED <<row, claim, target, snapshot, box, cause, ender>>

-----------------------------------------------------------------------------
(***************************************************************************)
(* The end of the turn, and the environment.                               *)
(***************************************************************************)
\* publish_verdict persists the draft, then deletes the session's sandboxes.
Draft ==
    /\ row.live /\ ~row.drafted
    /\ row' = [row EXCEPT !.drafted = TRUE]
    /\ ender' = ender \union row.boxes
    /\ UNCHANGED <<claim, harness, target, snapshot, box, cause, at, faults>>

\* Every way the poller ends a turn without a verdict of the agent's.
EndTurn ==
    /\ row.live
    /\ row' = [row EXCEPT !.live = FALSE]
    /\ ender' = ender \union row.boxes
    /\ UNCHANGED <<claim, harness, target, snapshot, box, cause, at, faults>>

EnderDeletes(b) ==
    /\ b \in ender
    /\ ender' = ender \ {b}
    /\ \/ box' = [box EXCEPT ![b] = "gone"] /\ UNCHANGED <<cause, faults>>
       \/ /\ Fault("daytona")
          /\ Up(b)
          /\ cause' = [cause EXCEPT ![b] = "delete"]
          /\ UNCHANGED box
    /\ UNCHANGED <<row, claim, harness, target, snapshot, at>>

EnderCrashes ==
    /\ ender # {}
    /\ Fault("crash")
    /\ cause' = [b \in Box |-> IF b \in ender THEN "crash" ELSE cause[b]]
    /\ ender' = {}
    /\ UNCHANGED <<row, claim, harness, target, snapshot, box, at>>

\* The process dies where the attempt stands.
Crash(a) ==
    /\ at[a].pc \notin Over \union {"idle"}
    /\ Fault("crash")
    /\ cause' = [b \in Box |-> IF b \in Boxes(a) THEN "crash" ELSE cause[b]]
    /\ Finish(a, "dead")
    /\ UNCHANGED <<row, claim, harness, target, snapshot, box, ender>>

\* The lease is lost or the process is told to stop.
Abort(a) ==
    /\ at[a].pc \notin Over
    /\ ~at[a].aborted
    /\ Fault("abort")
    /\ at' = [at EXCEPT ![a].aborted = TRUE]
    /\ UNCHANGED <<row, claim, harness, target, snapshot, box, cause, ender>>

\* The provider's TTL, which needs nobody.  It ends what nobody else will, and
\* it can strike a sandbox in use.
TimeToLive(b) ==
    /\ Up(b)
    /\ Dangling(b) \/ (row.live /\ b \in row.boxes)
    /\ box' = [box EXCEPT ![b] = "gone"]
    /\ cause' = [cause EXCEPT ![b] = "none"]
    /\ UNCHANGED <<row, claim, harness, target, snapshot, at, ender, faults>>

\* An idle snapshot is parked, or the sweep reclaims it.
Park(s) ==
    /\ snapshot[s] = "active"
    /\ Fault("park")
    /\ \E to \in {"inactive", "missing"} : snapshot' = [snapshot EXCEPT ![s] = to]
    /\ UNCHANGED <<row, claim, harness, target, box, cause, at, ender>>

Pulled(s) ==
    /\ snapshot[s] = "pulling"
    /\ \E to \in {"active", "error"} : snapshot' = [snapshot EXCEPT ![s] = to]
    /\ UNCHANGED <<row, claim, harness, target, box, cause, at, ender, faults>>

\* The repository is disconnected or the installation suspended.
Revoke ==
    /\ target.is = "live"
    /\ Fault("park")
    /\ target' = [target EXCEPT !.is = "none"]
    /\ UNCHANGED <<row, claim, harness, snapshot, box, cause, at, ender>>

Session(a) ==
    \/ Begin(a) \/ ClaimSession(a) \/ StopWaiting(a) \/ CreateHarnessSession(a)
    \/ PersistSession(a) \/ DiscardSession(a) \/ ReleaseClaim(a)

Provision(a) ==
    \/ ReadContext(a)
    \/ \E s \in Service : EnsureActive(a, s)
    \/ \E s \in Service : Boot(a, s)
    \/ Inspect(a) \/ LeaveAborted(a) \/ Prove(a)
    \/ StartDependencies(a) \/ StartApp(a) \/ Teardown(a) \/ TornDown(a)

RunTurn(a) == LoseRace(a) \/ CreateTurn(a) \/ FailTurn(a)

Environment ==
    \/ Draft \/ EndTurn \/ EnderCrashes \/ Revoke
    \/ \E b \in Box : EnderDeletes(b) \/ TimeToLive(b)
    \/ \E a \in Attempt : Crash(a) \/ Abort(a)
    \/ \E s \in Service : Park(s) \/ Pulled(s)

TurnNext ==
    \/ \E a \in Attempt : Session(a) \/ Provision(a) \/ RunTurn(a)
    \/ Environment

(***************************************************************************)
(* Fairness: an attempt that runs takes its next step (every call in it    *)
(* has its own deadline), Daytona finishes a pull and ends what outlives   *)
(* its TTL.  Nothing obliges the model's turn to end.                      *)
(***************************************************************************)
TurnFairness ==
    /\ \A a \in Attempt : WF_turnVars(Session(a) \/ Provision(a) \/ RunTurn(a))
    /\ \A s \in Service : WF_turnVars(Pulled(s))
    /\ \A b \in Box : WF_turnVars(TimeToLive(b))

TurnSpec == TurnInit /\ [][TurnNext]_turnVars /\ TurnFairness

-----------------------------------------------------------------------------
(***************************************************************************)
(* Properties.                                                             *)
(***************************************************************************)
\* A sandbox is left to its TTL only by a crash, a create whose answer was
\* lost, a delete that failed, or the one abort check provisionTarget makes
\* outside its try blocks: never by losing the race for the turn, a refused
\* or uncommitted createTurn, a failed boot of one service of a mesh, or the
\* end of a turn (trueforge-driver.ts lostRace and the catch around the
\* transaction, provision.ts, poller.ts, publish-verdict.ts).
LeaksHaveACause == \A b \in Box : Dangling(b) => cause[b] # "none"

\* Once a turn is recorded it stays the session's newest turn at TrueForge:
\* a later createTurn, which would cancel it, never happens, however many
\* stale and fresh attempts overlap (the row lock around createTurn).
TurnIsNeverSuperseded ==
    row.turn # NoAttempt => /\ row'.turn = row.turn
                            /\ harness'.newest[row.session] = row.turn

\* Target code runs in no sandbox before every sandbox of its group has been
\* proven offline and the right build, and the app not before the
\* dependencies it connects to were started (provisionTarget, provisionMesh).
NothingRunsUnproven ==
    \A b \in Box : box[b] # "running" /\ box'[b] = "running" =>
        \A s \in target.parts :
            /\ box[<<b[1], s>>] \notin {"none", "idle"}
            /\ b[2] = App /\ s \in Built \ {App} => box[<<b[1], s>>] # "proven"

\* No sandbox leaks without a cause, no turn is superseded and nothing runs
\* unproven: the three together, of every step.
TurnsAreSafe == [][/\ (TurnTypeOK /\ LeaksHaveACause)'
                   /\ TurnIsNeverSuperseded /\ NothingRunsUnproven]_turnVars

\* The claim of an attempt that died, or whose clean-up could not delete the
\* session and so never came to releasing the claim.
ClaimAbandoned ==
    /\ claim # NoAttempt
    /\ \/ at[claim].pc = "dead"
       \/ at[claim].pc = "threw" /\ claim \in harness.sessions

\* Every attempt the job worker makes comes to an end, unless an earlier one
\* left its creation claim behind.
AttemptSettles ==
    \A a \in Attempt : at[a].pc = "idle" ~> (at[a].pc \in Over \/ ClaimAbandoned)

=============================================================================
