---------------------------- MODULE AgentsProofs ----------------------------
(***************************************************************************)
(* Proofs about AnalysisTurn (the driver's attempts at an agent turn),     *)
(* ReviewerChat (the queue behind the agent's chat) and WorkerDaemon (the  *)
(* process they run in), checked by TLAPS for every value of the           *)
(* constants.                                                              *)
(***************************************************************************)
EXTENDS AnalysisTurn, ReviewerChat, WorkerDaemon, WellFoundedInduction, TLAPS

-----------------------------------------------------------------------------
(* AnalysisTurn.                                                           *)

AttemptRow == [pc : Locations, aborted : BOOLEAN, own : SUBSET Service, healed : BOOLEAN,
               why : {"plain", "static"}, next : {"turn", "threw", "done"}]
BoxStates == {"none", "idle", "proven", "running", "gone"}

\* Where an attempt has booted nothing yet.
Unbooted == {"idle", "claim", "create", "persist", "discard", "unclaim", "context"}

\* The recorded turn is the newest of the recorded session.
OneTurn ==
    /\ row.turn = NoAttempt => ~row.live
    /\ row.turn # NoAttempt => row.session \in Attempt /\ harness.newest[row.session] = row.turn

\* What the attempt's place in the code says of its sandboxes.
BootedBy(a) ==
    /\ at[a].own \subseteq target.parts
    /\ at[a].pc \in Unbooted => at[a].own = {}
    /\ at[a].pc = "inspected" => target.parts \subseteq at[a].own
    /\ \A s \in at[a].own : box[<<a, s>>] # "none"
    /\ at[a].pc \in {"deps", "app"} => \A s \in target.parts : box[<<a, s>>] \notin {"none", "idle"}
    /\ at[a].pc = "app" => \A s \in target.parts : s \in Built \ {App} => box[<<a, s>>] # "proven"

\* Dangling, of the sandbox of one attempt for one service.
Loose(a, s) ==
    /\ box[<<a, s>>] \in {"idle", "proven", "running"}
    /\ <<a, s>> \notin ender
    /\ s \notin at[a].own
    /\ ~(row.live /\ <<a, s>> \in row.boxes)
LooseHaveACause == \A a \in Attempt, s \in Service : Loose(a, s) => cause[<<a, s>>] # "none"

TurnInv ==
    /\ TurnTypeOK
    /\ App \in target.parts
    /\ OneTurn
    /\ \A a \in Attempt : BootedBy(a)
    /\ LooseHaveACause

\* One step's promises.
StepSafe == TurnInv' /\ TurnIsNeverSuperseded /\ NothingRunsUnproven

\* Nothing starts in a step after which every sandbox that runs ran before.
NothingStarts == \A b \in Box : box'[b] = "running" => box[b] = "running"

LEMMA NothingStartedUnproven == ASSUME NothingStarts PROVE NothingRunsUnproven
  BY DEF NothingStarts, NothingRunsUnproven

LEMMA BoxHas == \A a \in Attempt, s \in Service : <<a, s>> \in Box
  BY DEF Box

LEMMA TurnInvSays == TurnInv => TurnTypeOK /\ LeaksHaveACause
  <1> SUFFICES ASSUME TurnInv, NEW b \in Box, Dangling(b) PROVE cause[b] # "none"
    BY DEF TurnInv, LeaksHaveACause
  <1>1. PICK a \in Attempt, s \in Service : b = <<a, s>>
    BY DEF Box
  <1>2. b[1] = a
    BY <1>1
  <1>3. s \notin at[a].own
    BY <1>1, <1>2 DEF Dangling, Boxes
  <1>4. Loose(a, s)
    BY <1>1, <1>3 DEF Dangling, Loose, Up
  <1> QED
    BY <1>1, <1>4 DEF TurnInv, LooseHaveACause

LEMMA TurnInvStarts == TurnInit => TurnInv
  <1> SUFFICES ASSUME TurnInit PROVE TurnInv
    OBVIOUS
  <1> USE NullAssumption, ServiceAssumption, FaultsAssumption
  <1>1. App \in target.parts /\ target \in [is : {"live", "unbuildable", "none"}, parts : SUBSET Service]
    BY DEF TurnInit, Service
  <1>2. TurnTypeOK
    BY <1>1 DEF TurnInit, TurnTypeOK, NotBegun, Locations, SnapshotStates, Causes, Box, Service
  <1>3. \A a \in Attempt : BootedBy(a)
    BY DEF TurnInit, BootedBy, NotBegun, Unbooted
  <1>4. OneTurn
    BY DEF TurnInit, OneTurn
  <1>5. LooseHaveACause
    BY BoxHas DEF TurnInit, LooseHaveACause, Loose
  <1> QED
    BY <1>1, <1>2, <1>3, <1>4, <1>5 DEF TurnInv


-----------------------------------------------------------------------------
\* One attempt takes a step.
Moves(a) ==
    /\ at' \in [Attempt -> AttemptRow]
    /\ \A x \in Attempt : x # a => at'[x] = at[x]

\* ... and goes on with the sandboxes it had.
GoesOn(a) ==
    /\ Moves(a)
    /\ at'[a].own = at[a].own
    /\ at'[a].pc \in Unbooted => at[a].own = {}
    /\ at'[a].pc = "inspected" => target.parts \subseteq at[a].own
    /\ at'[a].pc \in {"deps", "app"} => at'[a].pc = at[a].pc

SandboxesStay ==
    /\ UNCHANGED <<box, cause, ender>>
    /\ target'.parts = target.parts
    /\ row'.live = row.live /\ row'.boxes = row.boxes

LEMMA GoingOn ==
    ASSUME TurnInv, NEW a \in Attempt, GoesOn(a), SandboxesStay
    PROVE  /\ \A x \in Attempt : BootedBy(x)'
           /\ LooseHaveACause'
           /\ NothingRunsUnproven
  <1>1. \A x \in Attempt : at'[x].own = at[x].own
    BY DEF GoesOn, Moves
  <1>2. \A x \in Attempt : BootedBy(x)'
    BY <1>1 DEF TurnInv, GoesOn, Moves, SandboxesStay, BootedBy
  <1>3. LooseHaveACause'
    BY <1>1 DEF TurnInv, SandboxesStay, LooseHaveACause, Loose
  <1>4. NothingRunsUnproven
    BY DEF SandboxesStay, NothingRunsUnproven
  <1> QED
    BY <1>2, <1>3, <1>4

\* What GoTo, Finish, FailTo and LeaveTurn make of an attempt.
LEMMA AttemptGoesTo ==
    ASSUME TurnInv, NEW a \in Attempt, NEW pc \in Locations, GoTo(a, pc)
    PROVE  Moves(a) /\ at'[a].own = at[a].own /\ at'[a].pc = pc
  BY DEF TurnInv, TurnTypeOK, AttemptRow, GoTo, Moves

LEMMA AttemptFinishes ==
    ASSUME TurnInv, NEW a \in Attempt, NEW pc \in Locations, Finish(a, pc)
    PROVE  Moves(a) /\ at'[a].own = {} /\ at'[a].pc = pc
  <1>1. NotBegun \in AttemptRow /\ NotBegun.own = {}
    BY DEF NotBegun, AttemptRow, Locations
  <1> DEFINE r == [NotBegun EXCEPT !.pc = pc]
  <1>2. r \in AttemptRow /\ r.own = {} /\ r.pc = pc
    BY <1>1 DEF AttemptRow
  <1>3. at' = [at EXCEPT ![a] = r]
    BY DEF Finish
  <1> HIDE DEF r
  <1> QED
    BY <1>2, <1>3 DEF TurnInv, TurnTypeOK, AttemptRow, Moves

LEMMA AttemptFails ==
    ASSUME TurnInv, NEW a \in Attempt,
           \/ \E why \in {"plain", "static"} : FailTo(a, why)
           \/ \E next \in {"threw", "done"} : LeaveTurn(a, next)
    PROVE  GoesOn(a)
  <1>1. "teardown" \in Locations /\ at \in [Attempt -> AttemptRow]
    BY DEF TurnInv, TurnTypeOK, AttemptRow, Locations
  <1>2. ASSUME NEW why \in {"plain", "static"}, FailTo(a, why)
        PROVE  Moves(a) /\ at'[a].own = at[a].own /\ at'[a].pc = "teardown"
    <2> DEFINE r == [at[a] EXCEPT !.pc = "teardown", !.why = why, !.next = "turn", !.healed = FALSE]
    <2>1. r \in AttemptRow /\ r.own = at[a].own /\ r.pc = "teardown"
      BY <1>1 DEF AttemptRow
    <2>2. at' = [at EXCEPT ![a] = r]
      BY <1>1, <1>2 DEF FailTo, AttemptRow
    <2> HIDE DEF r
    <2> QED
      BY <1>1, <2>1, <2>2 DEF Moves
  <1>3. ASSUME NEW next \in {"threw", "done"}, LeaveTurn(a, next)
        PROVE  Moves(a) /\ at'[a].own = at[a].own /\ at'[a].pc = "teardown"
    BY <1>1, <1>3 DEF AttemptRow, LeaveTurn, Moves
  <1> QED
    BY <1>2, <1>3 DEF GoesOn, Unbooted

\* Spending a fault leaves as many, or fewer.
LEMMA FaultIsSpent ==
    ASSUME TurnTypeOK, NEW f \in {"crash", "abort", "daytona", "harness", "park"}, Fault(f)
    PROVE  faults' \in [crash : Nat, abort : Nat, daytona : Nat, harness : Nat, park : Nat]
  BY DEF TurnTypeOK, Fault

\* An attempt of the session half goes on, with no sandbox.
LEMMA SessionGoesOn == ASSUME TurnInv, NEW a \in Attempt, Session(a) PROVE GoesOn(a)
  <1>1. at[a].own = {}
    BY DEF TurnInv, BootedBy, Unbooted, Session, Begin, ClaimSession, StopWaiting, CreateHarnessSession,
           PersistSession, DiscardSession, ReleaseClaim
  <1>2. \/ Finish(a, "threw")
        \/ \E pc \in {"context", "claim", "create", "persist", "unclaim", "discard"} : GoTo(a, pc)
    BY DEF Session, Begin, ClaimSession, StopWaiting, CreateHarnessSession, PersistSession,
           DiscardSession, ReleaseClaim
  <1>3. CASE Finish(a, "threw")
    <2>1. "threw" \in Locations
      BY DEF Locations
    <2> QED
      BY <1>1, <1>3, <2>1, AttemptFinishes DEF GoesOn, Unbooted
  <1>4. ASSUME NEW pc \in {"context", "claim", "create", "persist", "unclaim", "discard"}, GoTo(a, pc)
        PROVE  GoesOn(a)
    <2>1. pc \in Locations
      BY DEF Locations
    <2> QED
      BY <1>1, <1>4, <2>1, AttemptGoesTo DEF GoesOn, Unbooted
  <1> QED
    BY <1>2, <1>3, <1>4

LEMMA SessionIsSafe == ASSUME TurnInv, NEW a \in Attempt, Session(a) PROVE StepSafe
  <1> USE NullAssumption
  <1>1. GoesOn(a)
    BY SessionGoesOn
  <1>2. UNCHANGED <<target, snapshot, box, cause, ender>>
    BY DEF Session, Begin, ClaimSession, StopWaiting, CreateHarnessSession,
           PersistSession, DiscardSession, ReleaseClaim
  <1>3. faults' = faults \/ Fault("harness")
    BY DEF Session, Begin, ClaimSession, StopWaiting, CreateHarnessSession,
           PersistSession, DiscardSession, ReleaseClaim
  <1>4. claim' \in Attempt \union {NoAttempt}
    BY DEF TurnInv, TurnTypeOK, Session, Begin, ClaimSession, StopWaiting, CreateHarnessSession,
           PersistSession, DiscardSession, ReleaseClaim
  <1>5. \/ row' = row
        \/ row.session = NoAttempt /\ row' = [row EXCEPT !.session = a]
    BY DEF Session, Begin, ClaimSession, StopWaiting, CreateHarnessSession,
           PersistSession, DiscardSession, ReleaseClaim
  <1>6. \/ harness' = harness
        \/ \E sessions \in SUBSET Attempt : harness' = [harness EXCEPT !.sessions = sessions]
    BY DEF TurnInv, TurnTypeOK, Session, Begin, ClaimSession, StopWaiting, CreateHarnessSession,
           PersistSession, DiscardSession, ReleaseClaim
  <1>7. SandboxesStay
    BY <1>2, <1>5 DEF SandboxesStay, TurnInv, TurnTypeOK
  <1>8. TurnTypeOK'
    BY <1>1, <1>2, <1>3, <1>4, <1>5, <1>6, FaultIsSpent
       DEF TurnInv, TurnTypeOK, AttemptRow, GoesOn, Moves
  <1>9. OneTurn' /\ TurnIsNeverSuperseded
    BY <1>5, <1>6 DEF TurnInv, TurnTypeOK, OneTurn, TurnIsNeverSuperseded
  <1> QED
    BY <1>1, <1>2, <1>7, <1>8, <1>9, GoingOn DEF StepSafe, TurnInv

-----------------------------------------------------------------------------
\* A step of the provisioning or of the turn that leaves the sandboxes as they are.
Looks(a) ==
    \/ ReadContext(a) \/ Inspect(a) \/ TornDown(a) \/ LoseRace(a) \/ FailTurn(a)
    \/ \E s \in Service : EnsureActive(a, s)

LEMMA LookingGoesOn == ASSUME TurnInv, NEW a \in Attempt, Looks(a) PROVE GoesOn(a)
  <1>1. \A pc \in {"snapshot", "boot", "inspected", "turn", "threw", "done"} : pc \in Locations \ Unbooted
    BY DEF Locations, Unbooted
  <1>2. at \in [Attempt -> AttemptRow]
    BY DEF TurnInv, TurnTypeOK, AttemptRow
  <1>3. ASSUME at[a].own = {}, NEW pc \in {"threw", "done"}, Finish(a, pc) PROVE GoesOn(a)
    BY <1>1, <1>3, AttemptFinishes DEF GoesOn
  <1>4. ASSUME NEW pc \in {"snapshot", "turn"}, GoTo(a, pc) PROVE GoesOn(a)
    BY <1>1, <1>4, AttemptGoesTo DEF GoesOn
  <1>5. BootFailure \in {"plain", "static"}
    BY DEF BootFailure
  <1>6. CASE ReadContext(a)
    <2>1. at[a].own = {}
      BY <1>6 DEF ReadContext, TurnInv, BootedBy, Unbooted
    <2>2. CASE Finish(a, "threw")
      BY <1>3, <2>1, <2>2
    <2>3. CASE at' = [at EXCEPT
                ![a].pc = IF row.turn = NoAttempt /\ target.is = "live" THEN "snapshot" ELSE "turn",
                ![a].why = IF target.is = "unbuildable" THEN "static" ELSE "plain"]
      BY <1>1, <1>2, <2>1, <2>3 DEF GoesOn, Moves, AttemptRow
    <2> QED
      BY <1>6, <2>2, <2>3 DEF ReadContext
  <1>7. CASE Inspect(a)
    <2>1. CASE GoTo(a, "inspected") /\ Pending(a) = {}
      <3>1. App \in at[a].own /\ target.parts \subseteq at[a].own
        BY <2>1 DEF Pending
      <3> QED
        BY <1>1, <2>1, <3>1, AttemptGoesTo DEF GoesOn
    <2>2. CASE GoTo(a, "snapshot")
      BY <1>4, <2>2
    <2>3. CASE \E why \in {"plain", "static"} : FailTo(a, why)
      BY <2>3, AttemptFails
    <2> QED
      BY <1>5, <1>7, <2>1, <2>2, <2>3 DEF Inspect
  <1>8. CASE TornDown(a)
    <2>1. at[a].own = {} /\ at[a].next \in {"turn", "threw", "done"}
      BY <1>2, <1>8 DEF TornDown, AttemptRow
    <2> QED
      BY <1>3, <1>4, <1>8, <2>1 DEF TornDown
  <1>9. CASE LoseRace(a) \/ FailTurn(a)
    BY <1>9, AttemptFails DEF LoseRace, FailTurn
  <1>10. ASSUME NEW s \in Service, EnsureActive(a, s) PROVE GoesOn(a)
    <2>1. CASE \E why \in {"plain", "static"} : FailTo(a, why)
      BY <2>1, AttemptFails
    <2>2. CASE at' = [at EXCEPT ![a].pc = "boot", ![a].healed = FALSE]
      BY <1>1, <1>2, <2>2 DEF GoesOn, Moves, AttemptRow
    <2>3. CASE at[a].pc = "snapshot" /\ at' = [at EXCEPT ![a].healed = TRUE]
      BY <1>1, <1>2, <2>3 DEF GoesOn, Moves, AttemptRow
    <2> QED
      BY <1>5, <1>10, <2>1, <2>2, <2>3 DEF EnsureActive
  <1> QED
    BY <1>6, <1>7, <1>8, <1>9, <1>10 DEF Looks

LEMMA LookingIsSafe == ASSUME TurnInv, NEW a \in Attempt, Looks(a) PROVE StepSafe
  <1>1. GoesOn(a)
    BY LookingGoesOn
  <1>2. UNCHANGED <<row, claim, target, box, cause, ender>>
    BY DEF Looks, ReadContext, Inspect, TornDown, LoseRace, FailTurn, EnsureActive
  <1>3. faults' = faults \/ Fault("harness") \/ Fault("daytona")
    BY DEF Looks, ReadContext, Inspect, TornDown, LoseRace, FailTurn, EnsureActive
  <1>4. \/ harness' = harness
        \/ row.turn = NoAttempt /\ harness' = [harness EXCEPT !.newest[row.session] = a]
    BY DEF Looks, ReadContext, Inspect, TornDown, LoseRace, FailTurn, EnsureActive
  <1>5. \/ snapshot' = snapshot
        \/ \E s \in Service, to \in {"active", "pulling"} : snapshot' = [snapshot EXCEPT ![s] = to]
    BY DEF Looks, ReadContext, Inspect, TornDown, LoseRace, FailTurn, EnsureActive
  <1>6. snapshot' \in [Service -> SnapshotStates]
    BY <1>5 DEF TurnInv, TurnTypeOK, SnapshotStates
  <1>7. harness' \in [sessions : SUBSET Attempt, newest : [Attempt -> Attempt \union {NoAttempt}]]
    BY <1>4 DEF TurnInv, TurnTypeOK
  <1>8. faults' \in [crash : Nat, abort : Nat, daytona : Nat, harness : Nat, park : Nat]
    BY <1>3, FaultIsSpent DEF TurnInv, TurnTypeOK
  <1>9. TurnTypeOK'
    BY <1>1, <1>2, <1>6, <1>7, <1>8 DEF TurnInv, TurnTypeOK, AttemptRow, GoesOn, Moves
  <1>10. OneTurn' /\ TurnIsNeverSuperseded
    BY <1>2, <1>4 DEF TurnInv, OneTurn, TurnIsNeverSuperseded
  <1>11. SandboxesStay
    BY <1>2 DEF SandboxesStay
  <1> QED
    BY <1>1, <1>2, <1>9, <1>10, <1>11, GoingOn DEF StepSafe, TurnInv

-----------------------------------------------------------------------------
\* An attempt that stays where it is still has what it had, whatever is deleted.
LEMMA BootedStays ==
    ASSUME TurnInv, NEW x \in Attempt, at'[x] = at[x], target'.parts = target.parts,
           \A s \in Service : box'[<<x, s>>] \in {box[<<x, s>>], "gone"}
    PROVE  BootedBy(x)'
  <1>1. BootedBy(x) /\ at[x].own \subseteq Service /\ target.parts \subseteq Service
    BY DEF TurnInv, TurnTypeOK
  <1> QED
    BY <1>1 DEF BootedBy

\* What is left of a step once the sandboxes are dealt with.
LEMMA StepOf ==
    ASSUME TurnInv, TurnTypeOK', target'.parts = target.parts, OneTurn', TurnIsNeverSuperseded,
           \A x \in Attempt : BootedBy(x)', LooseHaveACause', NothingRunsUnproven
    PROVE  StepSafe
  BY DEF StepSafe, TurnInv

LEMMA TurnStays ==
    ASSUME TurnInv, UNCHANGED <<row, harness>>
    PROVE  OneTurn' /\ TurnIsNeverSuperseded
  BY DEF TurnInv, OneTurn, TurnIsNeverSuperseded

LEMMA BootIsSafe == ASSUME TurnInv, NEW a \in Attempt, NEW s \in Service, Boot(a, s) PROVE StepSafe
  <1>1. BootFailure \in {"plain", "static"}
    BY DEF BootFailure
  <1>2. UNCHANGED <<row, claim, harness, target, snapshot, ender>> /\ at[a].pc = "boot" /\ s \in target.parts
    BY DEF Boot, Pending, TurnInv
  <1>3. faults' = faults \/ Fault("daytona")
    BY DEF Boot
  <1>4. faults' \in [crash : Nat, abort : Nat, daytona : Nat, harness : Nat, park : Nat]
    BY <1>3, FaultIsSpent DEF TurnInv, TurnTypeOK
  <1>5. box \in [Box -> BoxStates] /\ cause \in [Box -> Causes] /\ <<a, s>> \in Box
    BY BoxHas DEF TurnInv, TurnTypeOK, BoxStates
  <1>6. CASE FailTo(a, BootFailure) /\ UNCHANGED <<box, cause>>
    <2>1. GoesOn(a) /\ SandboxesStay
      BY <1>1, <1>2, <1>6, AttemptFails DEF SandboxesStay
    <2>2. TurnTypeOK'
      BY <1>2, <1>4, <1>6, <2>1 DEF TurnInv, TurnTypeOK, GoesOn, Moves, AttemptRow
    <2> QED
      BY <1>2, <2>1, <2>2, GoingOn, TurnStays, StepOf
  <1>7. CASE /\ box' = [box EXCEPT ![<<a, s>>] = "idle"]
             /\ at' = [at EXCEPT ![a].pc = "inspect", ![a].own = @ \union {s}]
             /\ UNCHANGED cause
    <2>1. "inspect" \in Locations \ Unbooted
      BY DEF Locations, Unbooted
    <2>2. Moves(a) /\ at'[a].own = at[a].own \union {s} /\ at'[a].pc = "inspect"
      <3>1. at \in [Attempt -> AttemptRow]
        BY DEF TurnInv, TurnTypeOK, AttemptRow
      <3> DEFINE r == [at[a] EXCEPT !.pc = "inspect", !.own = @ \union {s}]
      <3>2. r \in AttemptRow /\ r.own = at[a].own \union {s} /\ r.pc = "inspect"
        BY <2>1, <3>1 DEF AttemptRow
      <3>3. at' = [at EXCEPT ![a] = r]
        BY <1>7, <3>1 DEF AttemptRow
      <3> HIDE DEF r
      <3> QED
        BY <3>1, <3>2, <3>3 DEF Moves
    <2>3. /\ box' \in [Box -> BoxStates]
          /\ \A x \in Attempt, t \in Service :
               box'[<<x, t>>] = IF x = a /\ t = s THEN "idle" ELSE box[<<x, t>>]
      BY <1>5, <1>7, BoxHas DEF BoxStates
    <2>4. TurnTypeOK'
      BY <1>2, <1>4, <1>7, <2>2, <2>3 DEF TurnInv, TurnTypeOK, Moves, AttemptRow, BoxStates
    <2>5. \A x \in Attempt : BootedBy(x)'
      <3>1. BootedBy(a)'
        <4>1. BootedBy(a) /\ at[a].own \subseteq Service
          BY DEF TurnInv, TurnTypeOK
        <4> QED
          BY <1>2, <2>1, <2>2, <2>3, <4>1 DEF BootedBy
      <3> QED
        BY <1>2, <2>2, <2>3, <3>1, BootedStays DEF Moves
    <2>6. LooseHaveACause'
      BY <1>2, <1>7, <2>2, <2>3 DEF LooseHaveACause, Loose, TurnInv, Moves
    <2>7. NothingRunsUnproven
      BY <1>5, <1>7, NothingStartedUnproven DEF NothingStarts
    <2> QED
      BY <1>2, <2>4, <2>5, <2>6, <2>7, TurnStays, StepOf
  <1>8. CASE /\ box' = [box EXCEPT ![<<a, s>>] = "idle"]
             /\ cause' = [cause EXCEPT ![<<a, s>>] = "lost"]
             /\ FailTo(a, BootFailure)
    <2>1. GoesOn(a)
      BY <1>1, <1>8, AttemptFails
    <2>2. /\ box' \in [Box -> BoxStates]
          /\ \A x \in Attempt, t \in Service :
               box'[<<x, t>>] = IF x = a /\ t = s THEN "idle" ELSE box[<<x, t>>]
      BY <1>5, <1>8, BoxHas DEF BoxStates
    <2>3. /\ cause' \in [Box -> Causes]
          /\ \A x \in Attempt, t \in Service :
               cause'[<<x, t>>] = IF x = a /\ t = s THEN "lost" ELSE cause[<<x, t>>]
      BY <1>5, <1>8, BoxHas DEF Causes
    <2>4. TurnTypeOK'
      BY <1>2, <1>4, <2>1, <2>2, <2>3 DEF TurnInv, TurnTypeOK, GoesOn, Moves, AttemptRow, BoxStates
    <2>5. \A x \in Attempt : BootedBy(x)'
      <3>1. BootedBy(a)'
        <4>1. BootedBy(a) /\ at[a].own \subseteq Service
          BY DEF TurnInv, TurnTypeOK
        <4>2. at'[a].pc \notin {"deps", "app"}
          BY <1>2, <2>1 DEF GoesOn
        <4> QED
          BY <1>2, <2>1, <2>2, <4>1, <4>2 DEF BootedBy, GoesOn
      <3> QED
        BY <1>2, <2>1, <2>2, <3>1, BootedStays DEF GoesOn, Moves
    <2>6. LooseHaveACause'
      BY <1>2, <2>1, <2>2, <2>3 DEF LooseHaveACause, Loose, TurnInv, GoesOn, Moves
    <2>7. NothingRunsUnproven
      BY <1>5, <1>8, NothingStartedUnproven DEF NothingStarts
    <2> QED
      BY <1>2, <2>4, <2>5, <2>6, <2>7, TurnStays, StepOf
  <1> QED
    BY <1>6, <1>7, <1>8 DEF Boot

\* Proving, or starting, the sandboxes of an attempt for some services.
Raises(a, services, state) ==
    \A x \in Attempt, t \in Service :
        box'[<<x, t>>] = IF x = a /\ t \in services /\ box[<<x, t>>] \in {"idle", "proven", "running"}
                         THEN state ELSE box[<<x, t>>]

LEMMA Raised ==
    ASSUME TurnInv, NEW a \in Attempt, NEW services, NEW state \in {"proven", "running"},
           box' = [b \in Box |-> IF b \in {<<a, s>> : s \in services} /\ Up(b) THEN state ELSE box[b]]
    PROVE  Raises(a, services, state) /\ box' \in [Box -> BoxStates]
  <1>1. box \in [Box -> BoxStates]
    BY DEF TurnInv, TurnTypeOK, BoxStates
  <1>2. \A x \in Attempt, t \in Service : <<x, t>> \in {<<a, s>> : s \in services} <=> x = a /\ t \in services
    OBVIOUS
  <1>3. Raises(a, services, state)
    BY <1>2, BoxHas DEF Raises, Up
  <1>4. box' \in [Box -> BoxStates]
    BY <1>1 DEF BoxStates
  <1> QED
    BY <1>3, <1>4

\* An attempt whose sandboxes are raised goes on with those it had; the others
\* have theirs, and none is let go.
LEMMA RaisingKeeps ==
    ASSUME TurnInv, NEW a \in Attempt, NEW services, NEW state \in {"proven", "running"},
           Raises(a, services, state), Moves(a), at'[a].own = at[a].own,
           UNCHANGED <<row, target, cause, ender>>, BootedBy(a)'
    PROVE  (\A x \in Attempt : BootedBy(x)') /\ LooseHaveACause'
  <1>1. \A x \in Attempt : BootedBy(x)'
    BY BootedStays DEF Raises, Moves
  <1>2. LooseHaveACause'
    BY DEF Raises, LooseHaveACause, Loose, TurnInv, Moves
  <1> QED
    BY <1>1, <1>2

LEMMA ProvingIsSafe == ASSUME TurnInv, NEW a \in Attempt, Prove(a) PROVE StepSafe
  <1>1. BootFailure \in {"plain", "static"}
    BY DEF BootFailure
  <1>2. /\ UNCHANGED <<row, claim, harness, target, snapshot, cause, ender>>
        /\ at[a].pc = "inspected" /\ (faults' = faults \/ Fault("daytona"))
    BY DEF Prove
  <1>3. faults' \in [crash : Nat, abort : Nat, daytona : Nat, harness : Nat, park : Nat]
    BY <1>2, FaultIsSpent DEF TurnInv, TurnTypeOK
  <1>4. CASE (\E why \in {"plain", "static"} : FailTo(a, why)) /\ box' = box
    <2>1. GoesOn(a) /\ SandboxesStay
      BY <1>2, <1>4, AttemptFails DEF SandboxesStay
    <2>2. TurnTypeOK'
      BY <1>2, <1>3, <1>4, <2>1 DEF TurnInv, TurnTypeOK, GoesOn, Moves, AttemptRow
    <2> QED
      BY <1>2, <2>1, <2>2, GoingOn, TurnStays, StepOf
  <1>5. CASE /\ box' = [b \in Box |-> IF b \in Boxes(a) /\ Up(b) THEN "proven" ELSE box[b]]
             /\ GoTo(a, IF Mesh THEN "deps" ELSE "app")
    <2>1. {"deps", "app"} \subseteq Locations \ Unbooted
      BY DEF Locations, Unbooted
    <2>2. /\ Moves(a) /\ at'[a].own = at[a].own
          /\ at'[a].pc = (IF Mesh THEN "deps" ELSE "app")
      BY <1>5, <2>1, AttemptGoesTo
    <2>3. box' = [b \in Box |-> IF b \in {<<a, s>> : s \in at[a].own} /\ Up(b) THEN "proven" ELSE box[b]]
      BY <1>5 DEF Boxes
    <2>4. Raises(a, at[a].own, "proven") /\ box' \in [Box -> BoxStates]
      BY <2>3, Raised
    <2>5. TurnTypeOK'
      BY <1>2, <1>3, <2>2, <2>4 DEF TurnInv, TurnTypeOK, Moves, AttemptRow, BoxStates
    <2>6. BootedBy(a)'
      <3>1. BootedBy(a) /\ at[a].own \subseteq Service /\ target.parts \subseteq Service
        BY DEF TurnInv, TurnTypeOK
      <3>2. box \in [Box -> BoxStates] /\ \A t \in Service : <<a, t>> \in Box
        BY BoxHas DEF TurnInv, TurnTypeOK, BoxStates
      <3>3. \A t \in at[a].own : box'[<<a, t>>] \in {"proven", "gone"}
        BY <2>4, <3>1, <3>2 DEF Raises, BoxStates, BootedBy
      <3>4. \A t \in target.parts : box'[<<a, t>>] \in {"proven", "gone"}
        BY <1>2, <3>1, <3>3 DEF BootedBy
      <3>5. at'[a].pc = "app" => target.parts = {App}
        BY <2>2 DEF Mesh
      <3> QED
        BY <1>2, <2>1, <2>2, <3>1, <3>3, <3>4, <3>5 DEF BootedBy
    <2>7. (\A x \in Attempt : BootedBy(x)') /\ LooseHaveACause'
      BY <1>2, <2>2, <2>4, <2>6, RaisingKeeps
    <2>8. NothingRunsUnproven
      BY <1>5, NothingStartedUnproven DEF NothingStarts
    <2> QED
      BY <1>2, <2>5, <2>7, <2>8, TurnStays, StepOf
  <1> QED
    BY <1>1, <1>4, <1>5 DEF Prove

LEMMA StartingIsSafe ==
    ASSUME TurnInv, NEW a \in Attempt, StartDependencies(a) \/ StartApp(a)
    PROVE  StepSafe
  <1>1. PICK services \in SUBSET Service, pc \in {"app", "turn"} :
          /\ StartAll(a, services, pc)
          /\ \/ at[a].pc = "deps" /\ services = target.parts \ {App} /\ pc = "app"
             \/ at[a].pc = "app" /\ services = {App} /\ pc = "turn"
    <2>1. target.parts \ {App} \in SUBSET Service /\ {App} \in SUBSET Service
      BY DEF TurnInv, TurnTypeOK
    <2> QED
      BY <2>1 DEF StartDependencies, StartApp
  <1>2. /\ UNCHANGED <<row, claim, harness, target, snapshot, cause, ender>>
        /\ faults' = faults \/ Fault("daytona")
    BY <1>1 DEF StartAll
  <1>3. faults' \in [crash : Nat, abort : Nat, daytona : Nat, harness : Nat, park : Nat]
    BY <1>2, FaultIsSpent DEF TurnInv, TurnTypeOK
  <1>4. CASE FailTo(a, "plain") /\ box' = box
    <2>1. GoesOn(a) /\ SandboxesStay
      BY <1>2, <1>4, AttemptFails DEF SandboxesStay
    <2>2. TurnTypeOK'
      BY <1>2, <1>3, <1>4, <2>1 DEF TurnInv, TurnTypeOK, GoesOn, Moves, AttemptRow
    <2> QED
      BY <1>2, <2>1, <2>2, GoingOn, TurnStays, StepOf
  <1>5. CASE /\ box' = [b \in Box |-> IF b \in {<<a, s>> : s \in services \cap Built} /\ Up(b)
                                      THEN "running" ELSE box[b]]
             /\ GoTo(a, pc)
    <2>1. pc \in Locations \ Unbooted
      BY DEF Locations, Unbooted
    <2>2. Moves(a) /\ at'[a].own = at[a].own /\ at'[a].pc = pc
      BY <1>5, <2>1, AttemptGoesTo
    <2>3. Raises(a, services \cap Built, "running") /\ box' \in [Box -> BoxStates]
      BY <1>5, Raised
    <2>4. TurnTypeOK'
      BY <1>2, <1>3, <2>2, <2>3 DEF TurnInv, TurnTypeOK, Moves, AttemptRow, BoxStates
    <2>5. /\ BootedBy(a) /\ at[a].own \subseteq Service /\ target.parts \subseteq Service
          /\ box \in [Box -> BoxStates] /\ \A t \in Service : <<a, t>> \in Box
      BY BoxHas DEF TurnInv, TurnTypeOK, BoxStates
    <2>6. BootedBy(a)'
      <3>1. \A t \in target.parts : box'[<<a, t>>] \notin {"none", "idle"}
        BY <1>1, <2>3, <2>5 DEF BootedBy, Raises
      <3>2. ASSUME NEW t \in target.parts, pc = "app", t \in Built \ {App}
            PROVE  box'[<<a, t>>] # "proven"
        BY <1>1, <2>3, <2>5, <3>2 DEF Raises
      <3>3. \A t \in at[a].own : box'[<<a, t>>] # "none"
        BY <2>3, <2>5 DEF BootedBy, Raises
      <3> QED
        BY <1>2, <2>1, <2>2, <2>5, <3>1, <3>2, <3>3 DEF BootedBy
    <2>7. (\A x \in Attempt : BootedBy(x)') /\ LooseHaveACause'
      BY <1>2, <2>2, <2>3, <2>6, RaisingKeeps
    <2>8. NothingRunsUnproven
      <3> SUFFICES ASSUME NEW b \in Box, box[b] # "running", box'[b] = "running"
                   PROVE  \A s \in target.parts :
                            /\ box[<<b[1], s>>] \notin {"none", "idle"}
                            /\ b[2] = App /\ s \in Built \ {App} => box[<<b[1], s>>] # "proven"
        BY DEF NothingRunsUnproven
      <3>1. PICK x \in Attempt, t \in Service : b = <<x, t>>
        BY DEF Box
      <3>2. b[1] = x /\ b[2] = t /\ x = a /\ t \in services
        BY <2>3, <3>1 DEF Raises
      <3> QED
        BY <1>1, <2>5, <3>2 DEF BootedBy
    <2> QED
      BY <1>2, <2>4, <2>7, <2>8, TurnStays, StepOf
  <1> QED
    BY <1>1, <1>4, <1>5 DEF StartAll

LEMMA TearingDownIsSafe == ASSUME TurnInv, NEW a \in Attempt, Teardown(a) PROVE StepSafe
  <1>1. PICK s \in at[a].own :
          \/ /\ box' = [box EXCEPT ![<<a, s>>] = "gone"]
             /\ at' = [at EXCEPT ![a].own = @ \ {s}]
             /\ UNCHANGED <<cause, faults>>
          \/ /\ Fault("daytona")
             /\ cause' = [cause EXCEPT ![<<a, s>>] = "delete"]
             /\ at' = [at EXCEPT ![a].own = @ \ {s}, ![a].why = "plain"]
             /\ UNCHANGED box
    BY DEF Teardown
  <1>2. /\ UNCHANGED <<row, claim, harness, target, snapshot, ender>> /\ at[a].pc = "teardown"
        /\ (faults' = faults \/ Fault("daytona"))
    BY <1>1 DEF Teardown
  <1>3. faults' \in [crash : Nat, abort : Nat, daytona : Nat, harness : Nat, park : Nat]
    BY <1>2, FaultIsSpent DEF TurnInv, TurnTypeOK
  <1>4. /\ at \in [Attempt -> AttemptRow] /\ s \in Service /\ <<a, s>> \in Box
        /\ box \in [Box -> BoxStates] /\ cause \in [Box -> Causes]
    BY BoxHas DEF TurnInv, TurnTypeOK, AttemptRow, BoxStates
  <1>5. /\ Moves(a) /\ at'[a].own = at[a].own \ {s} /\ at'[a].pc = "teardown"
    <2>1. CASE at' = [at EXCEPT ![a].own = @ \ {s}]
      BY <1>2, <1>4, <2>1 DEF AttemptRow, Moves
    <2>2. CASE at' = [at EXCEPT ![a].own = @ \ {s}, ![a].why = "plain"]
      BY <1>2, <1>4, <2>2 DEF AttemptRow, Moves
    <2> QED
      BY <1>1, <2>1, <2>2
  <1>6. /\ box' \in [Box -> BoxStates] /\ cause' \in [Box -> Causes]
        /\ \A x \in Attempt, t \in Service :
             /\ box'[<<x, t>>] = box[<<x, t>>] \/ (x = a /\ t = s /\ box'[<<x, t>>] = "gone")
             /\ cause'[<<x, t>>] = cause[<<x, t>>] \/ (x = a /\ t = s /\ cause'[<<x, t>>] = "delete")
             /\ x = a /\ t = s => box'[<<x, t>>] = "gone" \/ cause'[<<x, t>>] = "delete"
    <2>1. CASE box' = [box EXCEPT ![<<a, s>>] = "gone"] /\ UNCHANGED cause
      BY <1>4, <2>1, BoxHas DEF BoxStates
    <2>2. CASE cause' = [cause EXCEPT ![<<a, s>>] = "delete"] /\ UNCHANGED box
      BY <1>4, <2>2, BoxHas DEF Causes
    <2> QED
      BY <1>1, <2>1, <2>2
  <1>7. TurnTypeOK'
    BY <1>2, <1>3, <1>5, <1>6 DEF TurnInv, TurnTypeOK, Moves, AttemptRow, BoxStates
  <1>8. \A x \in Attempt : BootedBy(x)'
    <2>1. BootedBy(a)'
      <3>1. BootedBy(a) /\ at[a].own \subseteq Service
        BY DEF TurnInv, TurnTypeOK
      <3> QED
        BY <1>2, <1>5, <1>6, <3>1 DEF BootedBy, Unbooted
    <2> QED
      BY <1>2, <1>5, <1>6, <2>1, BootedStays DEF Moves
  <1>9. LooseHaveACause'
    BY <1>2, <1>5, <1>6 DEF TurnInv, LooseHaveACause, Loose, Moves
  <1>10. NothingRunsUnproven
    BY <1>1, <1>4, NothingStartedUnproven DEF NothingStarts
  <1> QED
    BY <1>2, <1>7, <1>8, <1>9, <1>10, TurnStays, StepOf

\* An attempt that is over has let go of what it had.
LEMMA OverIsBooted ==
    ASSUME TurnInv, NEW a \in Attempt, NEW pc \in Over, Finish(a, pc)
    PROVE  Moves(a) /\ at'[a].own = {} /\ BootedBy(a)'
  <1>1. pc \in Locations \ Unbooted /\ pc \notin {"inspected", "deps", "app"}
    BY DEF Over, Locations, Unbooted
  <1> QED
    BY <1>1, AttemptFinishes DEF BootedBy

LEMMA LeavingIsSafe == ASSUME TurnInv, NEW a \in Attempt, LeaveAborted(a) PROVE StepSafe
  <1>1. /\ Finish(a, "threw") /\ "threw" \in Over /\ target.parts = {App}
        /\ cause' = [cause EXCEPT ![<<a, App>>] = "abort"]
        /\ UNCHANGED <<row, claim, harness, target, snapshot, box, ender, faults>>
    BY DEF LeaveAborted, Over, Mesh
  <1>2. Moves(a) /\ at'[a].own = {} /\ BootedBy(a)'
    BY <1>1, OverIsBooted
  <1>3. /\ cause' \in [Box -> Causes]
        /\ \A x \in Attempt, t \in Service :
             cause'[<<x, t>>] = IF x = a /\ t = App THEN "abort" ELSE cause[<<x, t>>]
    BY <1>1, BoxHas DEF TurnInv, TurnTypeOK, Causes
  <1>4. TurnTypeOK'
    BY <1>1, <1>2, <1>3 DEF TurnInv, TurnTypeOK, Moves, AttemptRow
  <1>5. \A x \in Attempt : BootedBy(x)'
    BY <1>1, <1>2, BootedStays DEF Moves
  <1>6. LooseHaveACause'
    <2>1. at[a].own \subseteq {App}
      BY <1>1 DEF TurnInv, BootedBy
    <2> QED
      BY <1>1, <1>2, <1>3, <2>1 DEF TurnInv, LooseHaveACause, Loose, Moves
  <1>7. NothingRunsUnproven
    BY <1>1, NothingStartedUnproven DEF NothingStarts
  <1> QED
    BY <1>1, <1>4, <1>5, <1>6, <1>7, TurnStays, StepOf

LEMMA CreatingIsSafe == ASSUME TurnInv, NEW a \in Attempt, CreateTurn(a) PROVE StepSafe
  <1> USE NullAssumption
  <1>1. /\ row.turn = NoAttempt /\ row.session \in harness.sessions /\ ~row.live
        /\ harness' = [harness EXCEPT !.newest[row.session] = a]
        /\ row' = [row EXCEPT !.turn = a, !.live = TRUE, !.boxes = Boxes(a),
                              !.static = at[a].why = "static"]
        /\ Finish(a, "done") /\ "done" \in Over
        /\ UNCHANGED <<claim, target, snapshot, box, cause, ender, faults>>
    BY DEF CreateTurn, TurnInv, OneTurn, Over
  <1>2. Moves(a) /\ at'[a].own = {} /\ BootedBy(a)'
    BY <1>1, OverIsBooted
  <1>3. Boxes(a) \in SUBSET Box /\ \A t \in at[a].own : <<a, t>> \in Boxes(a)
    <2>1. at[a].own \subseteq Service
      BY DEF TurnInv, TurnTypeOK
    <2> QED
      BY <2>1, BoxHas DEF Boxes
  <1>4. /\ row' \in [session : Attempt \union {NoAttempt}, turn : Attempt \union {NoAttempt},
                     live : BOOLEAN, drafted : BOOLEAN, boxes : SUBSET Box, static : BOOLEAN]
        /\ row'.session = row.session /\ row'.turn = a /\ row'.live /\ row'.boxes = Boxes(a)
    BY <1>1, <1>3 DEF TurnInv, TurnTypeOK
  <1>5. /\ harness' \in [sessions : SUBSET Attempt, newest : [Attempt -> Attempt \union {NoAttempt}]]
        /\ row.session \in Attempt /\ harness'.newest[row.session] = a
    BY <1>1 DEF TurnInv, TurnTypeOK
  <1>6. TurnTypeOK'
    BY <1>1, <1>2, <1>4, <1>5 DEF TurnInv, TurnTypeOK, Moves, AttemptRow
  <1>7. OneTurn' /\ TurnIsNeverSuperseded
    BY <1>1, <1>4, <1>5 DEF OneTurn, TurnIsNeverSuperseded
  <1>8. \A x \in Attempt : BootedBy(x)'
    BY <1>1, <1>2, BootedStays DEF Moves
  <1>9. LooseHaveACause'
    BY <1>1, <1>2, <1>3, <1>4 DEF TurnInv, LooseHaveACause, Loose, Moves
  <1>10. NothingRunsUnproven
    BY <1>1, NothingStartedUnproven DEF NothingStarts
  <1> QED
    BY <1>1, <1>6, <1>7, <1>8, <1>9, <1>10, StepOf

-----------------------------------------------------------------------------
\* Everybody stays where they are; sandboxes may be deleted.
LEMMA AttemptsStay ==
    ASSUME TurnInv, UNCHANGED at, target'.parts = target.parts, box' \in [Box -> BoxStates],
           \A x \in Attempt, t \in Service : box'[<<x, t>>] \in {box[<<x, t>>], "gone"}
    PROVE  (\A x \in Attempt : BootedBy(x)') /\ NothingRunsUnproven
  <1>1. \A x \in Attempt : BootedBy(x)'
    BY BootedStays
  <1>2. NothingStarts
    <2> SUFFICES ASSUME NEW b \in Box, box'[b] = "running" PROVE box[b] = "running"
      BY DEF NothingStarts
    <2>1. PICK x \in Attempt, t \in Service : b = <<x, t>>
      BY DEF Box
    <2> QED
      BY <2>1
  <1> QED
    BY <1>1, <1>2, NothingStartedUnproven

\* publish_verdict and the poller put the turn's sandboxes on their list.
LEMMA TurnEndIsSafe == ASSUME TurnInv, Draft \/ EndTurn PROVE StepSafe
  <1>1. /\ UNCHANGED <<claim, harness, target, snapshot, box, cause, at, faults>>
        /\ row.live /\ ender' = ender \union row.boxes
        /\ row' = [row EXCEPT !.drafted = TRUE] \/ row' = [row EXCEPT !.live = FALSE]
    BY DEF Draft, EndTurn
  <1>2. TurnTypeOK'
    BY <1>1 DEF TurnInv, TurnTypeOK
  <1>3. OneTurn' /\ TurnIsNeverSuperseded
    BY <1>1 DEF TurnInv, TurnTypeOK, OneTurn, TurnIsNeverSuperseded
  <1>4. (\A x \in Attempt : BootedBy(x)') /\ NothingRunsUnproven
    BY <1>1, AttemptsStay DEF TurnInv, TurnTypeOK, BoxStates
  <1>5. LooseHaveACause'
    BY <1>1 DEF TurnInv, TurnTypeOK, LooseHaveACause, Loose
  <1> QED
    BY <1>1, <1>2, <1>3, <1>4, <1>5, StepOf

\* One sandbox goes: a terminal path deletes it, or fails to, or the provider
\* ends it.
LEMMA DeletionIsSafe ==
    ASSUME TurnInv, NEW b \in Box, EnderDeletes(b) \/ TimeToLive(b) PROVE StepSafe
  <1>1. PICK a \in Attempt, s \in Service : b = <<a, s>>
    BY DEF Box
  <1>2. /\ UNCHANGED <<row, claim, harness, target, snapshot, at>>
        /\ faults' = faults \/ Fault("daytona")
    BY DEF EnderDeletes, TimeToLive
  <1>3. faults' \in [crash : Nat, abort : Nat, daytona : Nat, harness : Nat, park : Nat]
    BY <1>2, FaultIsSpent DEF TurnInv, TurnTypeOK
  <1>4. /\ ender' \in {ender, ender \ {b}}
        /\ \/ /\ box' = [box EXCEPT ![b] = "gone"]
              /\ cause' \in {cause, [cause EXCEPT ![b] = "none"]}
           \/ box' = box /\ cause' = [cause EXCEPT ![b] = "delete"]
    BY DEF EnderDeletes, TimeToLive
  <1>5. /\ box \in [Box -> BoxStates] /\ cause \in [Box -> Causes] /\ ender \subseteq Box
    BY DEF TurnInv, TurnTypeOK, BoxStates
  <1>6. /\ box' \in [Box -> BoxStates] /\ cause' \in [Box -> Causes] /\ ender' \subseteq Box
        /\ \A x \in Attempt, t \in Service :
             \/ box'[<<x, t>>] = "gone"
             \/ box'[<<x, t>>] = box[<<x, t>>] /\ x = a /\ t = s /\ cause'[<<x, t>>] = "delete"
             \/ /\ box'[<<x, t>>] = box[<<x, t>>] /\ cause'[<<x, t>>] = cause[<<x, t>>]
                /\ <<x, t>> \in ender' <=> <<x, t>> \in ender
    <2>1. \A x \in Attempt, t \in Service : <<x, t>> = b <=> x = a /\ t = s
      BY <1>1
    <2>2. CASE /\ box' = [box EXCEPT ![b] = "gone"]
               /\ cause' \in {cause, [cause EXCEPT ![b] = "none"]}
      BY <1>4, <1>5, <2>1, <2>2, BoxHas DEF BoxStates, Causes
    <2>3. CASE box' = box /\ cause' = [cause EXCEPT ![b] = "delete"]
      BY <1>4, <1>5, <2>1, <2>3, BoxHas DEF BoxStates, Causes
    <2> QED
      BY <1>4, <2>2, <2>3
  <1>7. TurnTypeOK'
    BY <1>2, <1>3, <1>6 DEF TurnInv, TurnTypeOK, BoxStates
  <1>8. (\A x \in Attempt : BootedBy(x)') /\ NothingRunsUnproven
    BY <1>2, <1>6, AttemptsStay
  <1>9. LooseHaveACause'
    BY <1>2, <1>6 DEF TurnInv, LooseHaveACause, Loose
  <1> QED
    BY <1>2, <1>7, <1>8, <1>9, TurnStays, StepOf

LEMMA EnderCrashIsSafe == ASSUME TurnInv, EnderCrashes PROVE StepSafe
  <1>1. /\ UNCHANGED <<row, claim, harness, target, snapshot, box, at>> /\ Fault("crash")
        /\ cause' = [b \in Box |-> IF b \in ender THEN "crash" ELSE cause[b]] /\ ender' = {}
    BY DEF EnderCrashes
  <1>2. faults' \in [crash : Nat, abort : Nat, daytona : Nat, harness : Nat, park : Nat]
    BY <1>1, FaultIsSpent DEF TurnInv
  <1>3. cause' \in [Box -> Causes]
    BY <1>1 DEF TurnInv, TurnTypeOK, Causes
  <1>4. TurnTypeOK'
    BY <1>1, <1>2, <1>3 DEF TurnInv, TurnTypeOK
  <1>5. (\A x \in Attempt : BootedBy(x)') /\ NothingRunsUnproven
    BY <1>1, AttemptsStay DEF TurnInv, TurnTypeOK, BoxStates
  <1>6. LooseHaveACause'
    BY <1>1, BoxHas DEF TurnInv, LooseHaveACause, Loose
  <1> QED
    BY <1>1, <1>4, <1>5, <1>6, TurnStays, StepOf

LEMMA CrashIsSafe == ASSUME TurnInv, NEW a \in Attempt, Crash(a) PROVE StepSafe
  <1>1. /\ UNCHANGED <<row, claim, harness, target, snapshot, box, ender>> /\ Fault("crash")
        /\ cause' = [b \in Box |-> IF b \in Boxes(a) THEN "crash" ELSE cause[b]]
        /\ Finish(a, "dead") /\ "dead" \in Over
    BY DEF Crash, Over
  <1>2. Moves(a) /\ at'[a].own = {} /\ BootedBy(a)'
    BY <1>1, OverIsBooted
  <1>3. faults' \in [crash : Nat, abort : Nat, daytona : Nat, harness : Nat, park : Nat]
    BY <1>1, FaultIsSpent DEF TurnInv
  <1>4. /\ cause' \in [Box -> Causes]
        /\ \A x \in Attempt, t \in Service :
             cause'[<<x, t>>] = IF x = a /\ t \in at[a].own THEN "crash" ELSE cause[<<x, t>>]
    <2>1. \A x \in Attempt, t \in Service : <<x, t>> \in Boxes(a) <=> x = a /\ t \in at[a].own
      BY DEF Boxes
    <2> QED
      BY <1>1, <2>1, BoxHas DEF TurnInv, TurnTypeOK, Causes
  <1>5. TurnTypeOK'
    BY <1>1, <1>2, <1>3, <1>4 DEF TurnInv, TurnTypeOK, Moves, AttemptRow
  <1>6. \A x \in Attempt : BootedBy(x)'
    BY <1>1, <1>2, BootedStays DEF Moves
  <1>7. LooseHaveACause'
    BY <1>1, <1>2, <1>4 DEF TurnInv, LooseHaveACause, Loose, Moves
  <1>8. NothingRunsUnproven
    BY <1>1, NothingStartedUnproven DEF NothingStarts
  <1> QED
    BY <1>1, <1>5, <1>6, <1>7, <1>8, TurnStays, StepOf

LEMMA AbortIsSafe == ASSUME TurnInv, NEW a \in Attempt, Abort(a) PROVE StepSafe
  <1>1. /\ UNCHANGED <<row, claim, harness, target, snapshot, box, cause, ender>> /\ Fault("abort")
        /\ at' = [at EXCEPT ![a].aborted = TRUE]
    BY DEF Abort
  <1>2. /\ Moves(a) /\ at'[a].own = at[a].own /\ at'[a].pc = at[a].pc
    <2>1. at \in [Attempt -> AttemptRow]
      BY DEF TurnInv, TurnTypeOK, AttemptRow
    <2> QED
      BY <1>1, <2>1 DEF AttemptRow, Moves
  <1>3. GoesOn(a) /\ SandboxesStay
    BY <1>1, <1>2 DEF GoesOn, SandboxesStay, TurnInv, BootedBy
  <1>4. faults' \in [crash : Nat, abort : Nat, daytona : Nat, harness : Nat, park : Nat]
    BY <1>1, FaultIsSpent DEF TurnInv
  <1>5. TurnTypeOK'
    BY <1>1, <1>2, <1>4 DEF TurnInv, TurnTypeOK, Moves, AttemptRow
  <1> QED
    BY <1>1, <1>3, <1>5, GoingOn, TurnStays, StepOf

\* The snapshots and the grant are nobody's sandbox.
LEMMA ProviderIsSafe ==
    ASSUME TurnInv, Revoke \/ \E s \in Service : Park(s) \/ Pulled(s) PROVE StepSafe
  <1>1. /\ UNCHANGED <<row, claim, harness, box, cause, at, ender>>
        /\ faults' = faults \/ Fault("park")
        /\ target' \in {target, [target EXCEPT !.is = "none"]}
        /\ \/ snapshot' = snapshot
           \/ \E s \in Service, to \in SnapshotStates : snapshot' = [snapshot EXCEPT ![s] = to]
    BY DEF Revoke, Park, Pulled, SnapshotStates
  <1>2. faults' \in [crash : Nat, abort : Nat, daytona : Nat, harness : Nat, park : Nat]
    BY <1>1, FaultIsSpent DEF TurnInv, TurnTypeOK
  <1>3. target' \in [is : {"live", "unbuildable", "none"}, parts : SUBSET Service]
        /\ target'.parts = target.parts
    BY <1>1 DEF TurnInv, TurnTypeOK
  <1>4. snapshot' \in [Service -> SnapshotStates]
    BY <1>1 DEF TurnInv, TurnTypeOK
  <1>5. TurnTypeOK'
    BY <1>1, <1>2, <1>3, <1>4 DEF TurnInv, TurnTypeOK
  <1>6. (\A x \in Attempt : BootedBy(x)') /\ NothingRunsUnproven
    BY <1>1, <1>3, AttemptsStay DEF TurnInv, TurnTypeOK, BoxStates
  <1>7. LooseHaveACause'
    BY <1>1 DEF TurnInv, LooseHaveACause, Loose
  <1> QED
    BY <1>1, <1>3, <1>5, <1>6, <1>7, TurnStays, StepOf

LEMMA TurnStepIsSafe == ASSUME TurnInv, TurnNext PROVE StepSafe
  <1>1. CASE \E a \in Attempt : Session(a)
    BY <1>1, SessionIsSafe
  <1>2. CASE \E a \in Attempt : Provision(a)
    BY <1>2, LookingIsSafe, BootIsSafe, LeavingIsSafe, ProvingIsSafe, StartingIsSafe, TearingDownIsSafe
       DEF Provision, Looks
  <1>3. CASE \E a \in Attempt : RunTurn(a)
    BY <1>3, LookingIsSafe, CreatingIsSafe DEF RunTurn, Looks
  <1>4. CASE Environment
    BY <1>4, TurnEndIsSafe, EnderCrashIsSafe, ProviderIsSafe, DeletionIsSafe, CrashIsSafe, AbortIsSafe
       DEF Environment
  <1> QED
    BY <1>1, <1>2, <1>3, <1>4 DEF TurnNext

LEMMA TurnStutterIsSafe == ASSUME TurnInv, UNCHANGED turnVars PROVE StepSafe
  <1>1. UNCHANGED <<row, claim, harness, target, snapshot, box, cause, at, ender, faults>>
    BY DEF turnVars
  <1>2. TurnTypeOK'
    BY <1>1 DEF TurnInv, TurnTypeOK
  <1>3. (\A x \in Attempt : BootedBy(x)') /\ NothingRunsUnproven
    BY <1>1, AttemptsStay DEF TurnInv, TurnTypeOK, BoxStates
  <1>4. LooseHaveACause'
    BY <1>1 DEF TurnInv, LooseHaveACause, Loose
  <1> QED
    BY <1>1, <1>2, <1>3, <1>4, TurnStays, StepOf

\* However stale and fresh attempts, crashes, lost answers and the ends of turns
\* overlap: a sandbox nobody answers for was left by a crash, a lost answer, a
\* failed delete or the one abort check, the recorded turn is never superseded,
\* and nothing runs before its whole group was proven (trueforge-driver.ts,
\* provision.ts, daytona.ts).
THEOREM TurnsStaySafe == TurnSpec => TurnsAreSafe
  <1>1. TurnInit => TurnInv
    BY TurnInvStarts
  <1>2. TurnInv /\ [TurnNext]_turnVars => TurnInv' /\ TurnIsNeverSuperseded /\ NothingRunsUnproven
    BY TurnStepIsSafe, TurnStutterIsSafe DEF StepSafe
  <1>3. TurnInv => TurnTypeOK /\ LeaksHaveACause
    BY TurnInvSays
  <1> QED
    BY <1>1, <1>2, <1>3, PTL DEF TurnSpec, TurnsAreSafe

-----------------------------------------------------------------------------
(* ReviewerChat.  Rows and processes are replaced one at a time, and rows  *)
(* are appended.                                                           *)

LEMMA Appended ==
    ASSUME NEW S, NEW s \in Seq(S), NEW e \in S, NEW g, g = Append(s, e)
    PROVE  /\ g \in Seq(S) /\ Len(g) = Len(s) + 1 /\ g[Len(s) + 1] = e
           /\ DOMAIN g = 1 .. Len(s) + 1 /\ \A i \in DOMAIN s : i \in DOMAIN g /\ g[i] = s[i]
  OBVIOUS

LEMMA RowWrite ==
    ASSUME NEW S, NEW s \in Seq(S), NEW e \in S, NEW i \in DOMAIN s, NEW g, g = [s EXCEPT ![i] = e]
    PROVE  /\ g \in Seq(S) /\ Len(g) = Len(s) /\ DOMAIN g = DOMAIN s /\ g[i] = e
           /\ \A j \in DOMAIN s : j # i => g[j] = s[j]
  OBVIOUS

LEMMA RowsWrite ==
    ASSUME NEW S, NEW s \in Seq(S), NEW g, g = [i \in DOMAIN s |-> g[i]],
           \A i \in DOMAIN s : g[i] \in S
    PROVE  g \in Seq(S) /\ Len(g) = Len(s) /\ DOMAIN g = DOMAIN s
  OBVIOUS

\* The least of some numbers is one of them.
LEMMA OldestIsOne == ASSUME NEW S \in SUBSET Nat, S # {} PROVE Oldest(S) \in S
  <1> DEFINE R == OpToRel(<, Nat)
  <1>1. IsWellFoundedOn(R, Nat)
    BY NatLessThanWellFounded
  <1>2. \E x \in S : \A y \in S : ~(<<y, x>> \in R)
    <2> HIDE DEF R
    <2> QED
      BY <1>1, WFMin
  <1>3. \A x \in S, y \in S : ~(<<y, x>> \in R) => x <= y
    BY DEF OpToRel
  <1>4. \E x \in S : \A y \in S : x <= y
    BY <1>2, <1>3
  <1> QED
    BY <1>4 DEF Oldest

-----------------------------------------------------------------------------
\* What a busy worker's place says of its question, its session and its turn.
\* Its lease is the thread's while the fence is.
Current(w) == work[w].fence = threads[work[w].t].fence

Fits(w) ==
    /\ work[w].t \in Known
    /\ work[w].q \in DOMAIN asked /\ asked[work[w].q] = work[w].t
    /\ work[w].fence <= threads[work[w].t].fence
    /\ work[w].at \in {"session", "attach", "turn"} => work[w].input.q = work[w].q
    /\ work[w].at \in {"attach", "turn"} => work[w].session # None
    /\ work[w].at \in {"poll", "answer"} =>
         /\ work[w].turn \in DOMAIN turns
         /\ turns[work[w].turn].input.q = work[w].q
    /\ work[w].at = "answer" => turns[work[w].turn].status = "done"
    /\ Current(w) =>
         /\ work[w].at \in {"load", "turn"} => threads[work[w].t].session = work[w].session
         /\ work[w].at \in {"session", "attach"} => threads[work[w].t].session = None
         /\ work[w].at \in {"poll", "answer"} =>
              threads[work[w].t].session = turns[work[w].turn].session

OneLease ==
    \A w, v \in Workers :
        w # v /\ work[w] # Idle /\ work[v] # Idle /\ work[w].t = work[v].t
            => work[w].fence # work[v].fence

RunsWereClaimed == \A t \in Known : threads[t].status = "RUNNING" => threads[t].attempts >= 1

AskedOfKnown == \A r \in DOMAIN asked : asked[r] \in Known
AnsweredByTurns == \A r \in DOMAIN asked : answers[r] # None => answers[r] \in DOMAIN turns

ChatInv ==
    /\ TypeOK
    /\ AskedOfKnown
    /\ AnsweredByTurns
    /\ \A w \in Workers : work[w] # Idle => Fits(w)
    /\ OneLease
    /\ RunsWereClaimed
    /\ AnswerIsItsOwn

LineOK == /\ line \in Seq(Known) /\ Len(line) = Len(threads)
          /\ \A t \in Known : \E i \in DOMAIN line : line[i] = t

\* A thread that moves to the end of the line leaves the others in it.
LEMMA Touching ==
    ASSUME NEW T, line \in Seq(T), \A t \in T : \E i \in DOMAIN line : line[i] = t,
           NEW t \in T, Touch(t)
    PROVE  line' \in Seq(T) /\ Len(line') = Len(line)
           /\ \A u \in T : \E i \in DOMAIN line' : line'[i] = u
  <1> DEFINE p == Place(t)
             n == Len(line)
  <1>1. n \in Nat /\ DOMAIN line = 1 .. n /\ \A i \in 1 .. n : line[i] \in T
    OBVIOUS
  <1>2. p \in 1 .. n /\ line[p] = t
    BY <1>1 DEF Place
  <1>3. line' = [i \in 1 .. n |-> IF i < p THEN line[i] ELSE IF i = n THEN t ELSE line[i + 1]]
    BY <1>1 DEF Touch
  <1> HIDE DEF p, n
  <1>4. \A i \in 1 .. n :
          /\ i < p => line'[i] = line[i]
          /\ i >= p /\ i < n => i + 1 \in 1 .. n /\ line'[i] = line[i + 1]
          /\ i = n => line'[i] = t
    <2> TAKE i \in 1 .. n
    <2>1. i \in Int /\ p \in Int /\ 1 <= p /\ p <= n /\ 1 <= i /\ i <= n
      BY <1>1, <1>2
    <2>2. line'[i] = IF i < p THEN line[i] ELSE IF i = n THEN t ELSE line[i + 1]
      BY <1>3
    <2> QED
      BY <1>1, <2>1, <2>2
  <1>7. \A i \in 1 .. n : line'[i] \in T
    BY <1>1, <1>2, <1>4
  <1>5. line' \in Seq(T) /\ Len(line') = n /\ DOMAIN line' = DOMAIN line
    <2>1. line' = [i \in DOMAIN line |-> line'[i]]
      BY <1>1, <1>3
    <2> QED
      BY <1>1, <1>7, <2>1, RowsWrite DEF n
  <1>6. ASSUME NEW u \in T PROVE \E i \in DOMAIN line' : line'[i] = u
    <2>1. PICK i \in 1 .. n : line[i] = u
      BY <1>1
    <2>2. CASE i < p
      BY <1>1, <1>2, <1>4, <1>5, <2>1, <2>2
    <2>3. CASE i = p
      <3>1. n \in 1 .. n /\ line'[n] = t
        BY <1>1, <1>2, <1>4
      <3> QED
        BY <1>1, <1>2, <1>5, <2>1, <2>3, <3>1
    <2>4. CASE i > p
      <3>1. i - 1 \in 1 .. n /\ line'[i - 1] = line[i]
        BY <1>1, <1>2, <1>4, <2>1, <2>4
      <3> QED
        BY <1>1, <1>5, <2>1, <3>1
    <2> QED
      BY <1>1, <1>2, <2>1, <2>2, <2>3, <2>4
  <1> QED
    BY <1>5, <1>6 DEF n

-----------------------------------------------------------------------------
LEMMA ChatTyped ==
    ASSUME TypeOK
    PROVE  /\ Known = 1 .. Len(threads) /\ Len(threads) \in Nat /\ Known \subseteq Tid
           /\ \A t \in Known : threads[t] \in Thread
           /\ DOMAIN asked = 1 .. Len(asked) /\ Len(asked) \in Nat /\ DOMAIN answers = DOMAIN asked
           /\ \A r \in DOMAIN asked : answers[r] \in 0 .. MaxTurns
           /\ DOMAIN turns = 1 .. Len(turns) /\ Len(turns) \in Nat
           /\ DOMAIN turns \subseteq 0 .. MaxTurns
           /\ \A n \in DOMAIN turns : turns[n] \in Turn
           /\ \A w \in Workers : work[w] # Idle => work[w] \in Busy
           /\ LineOK
  <1> USE ChatAssumption
  <1>1. MaxThreads \in Nat /\ MaxTurns \in Nat
    OBVIOUS
  <1>2. Known = 1 .. Len(threads) /\ Len(threads) \in Nat /\ \A t \in Known : threads[t] \in Thread
    BY DEF TypeOK, Known
  <1>3. Known \subseteq Tid
    BY <1>1, <1>2 DEF TypeOK, Tid
  <1>4. /\ DOMAIN asked = 1 .. Len(asked) /\ Len(asked) \in Nat /\ DOMAIN answers = DOMAIN asked
        /\ \A r \in DOMAIN asked : answers[r] \in 0 .. MaxTurns
    BY DEF TypeOK
  <1>5. /\ DOMAIN turns = 1 .. Len(turns) /\ Len(turns) \in Nat
        /\ \A n \in DOMAIN turns : turns[n] \in Turn
    BY DEF TypeOK
  <1>6. DOMAIN turns \subseteq 0 .. MaxTurns
    BY <1>1, <1>5 DEF TypeOK
  <1>7. \A w \in Workers : work[w] # Idle => work[w] \in Busy
    BY DEF TypeOK
  <1> QED
    BY <1>2, <1>3, <1>4, <1>5, <1>6, <1>7 DEF TypeOK, LineOK

\* The rows of the threads are rewritten, by nobody who may change a lease's
\* number or a session.
RowsKept ==
    /\ threads' \in Seq(Thread) /\ Len(threads') = Len(threads) /\ Known' = Known
    /\ \A u \in Known :
         /\ threads'[u].fence = threads[u].fence /\ threads'[u].session = threads[u].session
         /\ threads'[u].status = "RUNNING" => threads'[u].attempts >= 1
    /\ LineOK'

\* A row is put at the end of the line.
LEMMA RowPut ==
    ASSUME ChatInv, NEW t \in Known, NEW r \in Thread, Write(t, r)
    PROVE  /\ threads' \in Seq(Thread) /\ Len(threads') = Len(threads) /\ Known' = Known
           /\ threads'[t] = r /\ \A u \in Known : u # t => threads'[u] = threads[u]
           /\ LineOK'
  <1>1. LineOK /\ threads \in Seq(Thread)
    BY ChatTyped DEF ChatInv, TypeOK
  <1>2. /\ threads' \in Seq(Thread) /\ Len(threads') = Len(threads) /\ DOMAIN threads' = DOMAIN threads
        /\ threads'[t] = r /\ \A u \in Known : u # t => threads'[u] = threads[u]
    BY <1>1, RowWrite DEF Write, Known
  <1>3. line' \in Seq(Known) /\ Len(line') = Len(line)
        /\ \A u \in Known : \E i \in DOMAIN line' : line'[i] = u
    BY <1>1, Touching DEF Write, LineOK
  <1> QED
    BY <1>1, <1>2, <1>3 DEF LineOK, Known

LEMMA Rewriting ==
    ASSUME ChatInv, NEW t \in Known, NEW r \in Thread, Write(t, r),
           r.fence = threads[t].fence, r.session = threads[t].session,
           r.status = "RUNNING" => r.attempts >= 1
    PROVE  RowsKept
  BY RowPut DEF RowsKept, ChatInv, RunsWereClaimed

LEMMA NothingRewritten == ASSUME ChatInv, UNCHANGED <<threads, line>> PROVE RowsKept
  <1>1. TypeOK /\ LineOK /\ threads \in Seq(Thread) /\ RunsWereClaimed
    BY ChatTyped DEF ChatInv, TypeOK
  <1> QED
    BY <1>1 DEF RowsKept, LineOK, Known, RunsWereClaimed

\* What a busy worker knows stays true while the questions and the turns stay,
\* the turns but for running on, and its thread's lease and session.
LEMMA StillFits ==
    ASSUME NEW w \in Workers, work[w] # Idle, Fits(w), work'[w] = work[w],
           work[w].t \in Known', threads'[work[w].t].fence \in Nat, work[w].fence \in Nat,
           threads'[work[w].t].fence >= threads[work[w].t].fence, threads[work[w].t].fence \in Nat,
           Current(w)' => Current(w) /\ threads'[work[w].t].session = threads[work[w].t].session,
           work[w].q \in DOMAIN asked', asked'[work[w].q] = asked[work[w].q],
           \A n \in DOMAIN turns :
             /\ n \in DOMAIN turns' /\ turns'[n].session = turns[n].session
             /\ turns'[n].input = turns[n].input
             /\ turns[n].status = "done" => turns'[n].status = "done"
    PROVE  Fits(w)'
  <1>1. work[w].fence <= threads'[work[w].t].fence
    BY DEF Fits
  <1>2. work[w].at \in {"poll", "answer"} =>
          /\ work[w].turn \in DOMAIN turns'
          /\ turns'[work[w].turn].input.q = work[w].q
          /\ turns'[work[w].turn].session = turns[work[w].turn].session
    BY DEF Fits
  <1>3. work[w].at = "answer" => turns'[work[w].turn].status = "done"
    BY DEF Fits
  <1> QED
    BY <1>1, <1>2, <1>3 DEF Fits, Current

\* Workers that stay busy still fit when rows are rewritten and others leave.
LEMMA WorkersKept ==
    ASSUME ChatInv, RowsKept, UNCHANGED <<asked, turns>>,
           \A v \in Workers : work'[v] \in {work[v], Idle}
    PROVE  /\ \A v \in Workers : work'[v] # Idle => Fits(v)'
           /\ OneLease' /\ RunsWereClaimed' /\ AskedOfKnown'
  <1>1. ASSUME NEW v \in Workers, work'[v] # Idle PROVE Fits(v)'
    <2>1. work'[v] = work[v] /\ work[v] # Idle /\ Fits(v) /\ work[v] \in Busy
      BY <1>1, ChatTyped DEF ChatInv
    <2>2. work[v].t \in Known /\ work[v].fence \in Nat
      BY <2>1 DEF Fits, Busy
    <2>3. threads[work[v].t].fence \in Nat
      BY <2>2, ChatTyped DEF Thread, ChatInv
    <2>4. /\ threads'[work[v].t].fence = threads[work[v].t].fence
          /\ threads'[work[v].t].session = threads[work[v].t].session /\ work[v].t \in Known'
      BY <2>2 DEF RowsKept
    <2>5. Current(v)' => Current(v)
      BY <2>1, <2>4 DEF Current
    <2>6. work[v].q \in DOMAIN asked
      BY <2>1 DEF Fits
    <2> QED
      BY <2>1, <2>2, <2>3, <2>4, <2>5, <2>6, StillFits
  <1>2. OneLease'
    BY DEF ChatInv, OneLease
  <1>3. RunsWereClaimed' /\ AskedOfKnown'
    BY DEF ChatInv, RunsWereClaimed, AskedOfKnown, RowsKept
  <1> QED
    BY <1>1, <1>2, <1>3

LEMMA AnswersKept ==
    ASSUME ChatInv, RowsKept, UNCHANGED <<asked, answers, turns>>
    PROVE  AnswerIsItsOwn' /\ AnsweredByTurns'
  <1>1. \A r \in DOMAIN asked : threads'[asked[r]].session = threads[asked[r]].session
    BY DEF ChatInv, AskedOfKnown, RowsKept
  <1> QED
    BY <1>1 DEF ChatInv, AnswerIsItsOwn, AnsweredByTurns

ChatSafe == ChatInv' /\ OnlyHolderWrites

\* Some of the workers leave; at most the one whose lease is the thread's
\* rewrites its row.
LEMMA RowsAndWorkersKept ==
    ASSUME ChatInv, RowsKept, UNCHANGED <<asked, answers, turns>>, work' \in [Workers -> {Idle} \union Busy],
           verdict' \in [latest : Nat, superseded : SUBSET Nat], budget' \in Budget,
           \A v \in Workers : work'[v] \in {work[v], Idle},
           \A v \in Workers : work[v] # Idle /\ work'[v] = Idle => threads' = threads \/ Current(v)
    PROVE  ChatSafe
  <1>1. TypeOK'
    BY DEF ChatInv, TypeOK, RowsKept, LineOK
  <1>2. OnlyHolderWrites
    BY DEF OnlyHolderWrites, Current
  <1> QED
    BY <1>1, <1>2, WorkersKept, AnswersKept DEF ChatSafe, ChatInv

-----------------------------------------------------------------------------
\* The lease is the worker's, and its row is one that was claimed.
LEMMA HeldIsCurrent ==
    ASSUME ChatInv, NEW w \in Workers, work[w] # Idle
    PROVE  /\ work[w] \in Busy /\ Fits(w) /\ work[w].t \in Known /\ threads[work[w].t] \in Thread
           /\ Held(w) => Current(w) /\ threads[work[w].t].attempts >= 1
  BY ChatTyped DEF ChatInv, Fits, Held, Current, RunsWereClaimed

\* A worker that leaves and, if it holds its lease, rewrites its row.
LEMMA WorkerLeaves ==
    ASSUME ChatInv, NEW w \in Workers, work[w] # Idle, Leave(w), NEW r,
           IF Held(w) THEN Write(work[w].t, r) ELSE UNCHANGED <<threads, line>>,
           Held(w) => /\ r \in Thread /\ r.status # "RUNNING"
                      /\ r.fence = threads[work[w].t].fence /\ r.session = threads[work[w].t].session,
           UNCHANGED <<asked, answers, verdict, turns>>, budget' \in Budget
    PROVE  ChatSafe
  <1>1. Held(w) => Current(w) /\ work[w].t \in Known
    BY HeldIsCurrent
  <1>2. RowsKept
    BY <1>1, Rewriting, NothingRewritten
  <1>3. /\ work' \in [Workers -> {Idle} \union Busy]
        /\ \A v \in Workers : work'[v] \in {work[v], Idle}
        /\ \A v \in Workers : v # w => work'[v] = work[v]
    BY DEF Leave, ChatInv, TypeOK
  <1>4. \A v \in Workers : work[v] # Idle /\ work'[v] = Idle => threads' = threads \/ Current(v)
    BY <1>1, <1>3
  <1>5. verdict' \in [latest : Nat, superseded : SUBSET Nat]
    BY DEF ChatInv, TypeOK
  <1> QED
    BY <1>2, <1>3, <1>4, <1>5, RowsAndWorkersKept

LEMMA EndIsSafe ==
    ASSUME ChatInv, NEW w \in Workers, work[w] # Idle, NEW status \in {"ERROR", "CANCELLED"},
           End(w, status), UNCHANGED <<asked, answers, verdict, turns, budget>>
    PROVE  ChatSafe
  <1> DEFINE r == [threads[work[w].t] EXCEPT !.status = status, !.live = FALSE]
  <1>1. threads[work[w].t] \in Thread
    BY HeldIsCurrent
  <1>2. /\ r \in Thread /\ r.status # "RUNNING"
        /\ r.fence = threads[work[w].t].fence /\ r.session = threads[work[w].t].session
    BY <1>1 DEF Thread, Statuses, Active
  <1>3. Leave(w) /\ IF Held(w) THEN Write(work[w].t, r) ELSE UNCHANGED <<threads, line>>
    BY DEF End
  <1>4. budget' \in Budget
    BY DEF ChatInv, TypeOK
  <1> HIDE DEF r
  <1> QED
    BY <1>2, <1>3, <1>4, WorkerLeaves

LEMMA SpendLeaves ==
    ASSUME TypeOK, NEW f \in {"asks", "resubmits", "stops", "verdicts", "supersedes"}, Spend(f)
    PROVE  budget' \in Budget
  BY DEF TypeOK, Budget, Spend

LEMMA ReleaseIsSafe == ASSUME ChatInv, NEW w \in Workers, ReleaseUnstarted(w) PROVE ChatSafe
  <1> USE ChatAssumption
  <1> DEFINE r == [threads[work[w].t] EXCEPT !.status = "OPEN", !.live = FALSE, !.attempts = @ - 1]
  <1>1. work[w] # Idle /\ budget' \in Budget
    BY SpendLeaves DEF ReleaseUnstarted, ChatInv
  <1>2. Held(w) => /\ threads[work[w].t] \in Thread /\ threads[work[w].t].attempts >= 1
    BY <1>1, HeldIsCurrent
  <1>3. ASSUME Held(w)
        PROVE  /\ r \in Thread /\ r.status # "RUNNING"
               /\ r.fence = threads[work[w].t].fence /\ r.session = threads[work[w].t].session
    <2> DEFINE k == threads[work[w].t].attempts
    <2>1. k \in 0 .. MAX_ATTEMPTS /\ k >= 1 /\ MAX_ATTEMPTS \in Nat
      BY <1>2, <1>3 DEF Thread
    <2>2. k - 1 \in 0 .. MAX_ATTEMPTS
      BY <2>1
    <2> QED
      BY <1>2, <1>3, <2>2 DEF Thread, Statuses, Active
  <1>4. /\ Leave(w) /\ UNCHANGED <<asked, answers, verdict, turns>>
        /\ IF Held(w) THEN Write(work[w].t, r) ELSE UNCHANGED <<threads, line>>
    BY DEF ReleaseUnstarted
  <1> HIDE DEF r
  <1> QED
    BY <1>1, <1>3, <1>4, WorkerLeaves

LEMMA DieIsSafe == ASSUME ChatInv, NEW w \in Workers, Die(w) PROVE ChatSafe
  <1>1. RowsKept
    BY NothingRewritten DEF Die
  <1>2. /\ work' \in [Workers -> {Idle} \union Busy]
        /\ \A v \in Workers : work'[v] \in {work[v], Idle}
    BY DEF Die, Leave, ChatInv, TypeOK
  <1> QED
    BY <1>1, <1>2, RowsAndWorkersKept DEF Die, ChatInv, TypeOK

\* Reviewers, operators, sweeps and the clock rewrite a row and leave the
\* workers alone.
LEMMA NobodyLeaves ==
    ASSUME ChatInv, RowsKept, UNCHANGED <<asked, answers, turns, work>>,
           verdict' \in [latest : Nat, superseded : SUBSET Nat], budget' \in Budget
    PROVE  ChatSafe
  <1>1. work' \in [Workers -> {Idle} \union Busy]
    BY DEF ChatInv, TypeOK
  <1> QED
    BY <1>1, RowsAndWorkersKept

LEMMA QueueIsSafe ==
    ASSUME ChatInv, \/ \E r \in DOMAIN asked : Resubmit(r)
                    \/ \E t \in Known : Expire(t) \/ Sweep(t)
                    \/ Publish \/ Supersede
    PROVE  ChatSafe
  <1> USE ChatAssumption
  <1>1. /\ TypeOK /\ \A t \in Known : threads[t] \in Thread
        /\ budget \in Budget /\ verdict \in [latest : Nat, superseded : SUBSET Nat]
    BY ChatTyped DEF ChatInv, TypeOK
  <1>2. ASSUME NEW q \in DOMAIN asked, Resubmit(q) PROVE ChatSafe
    <2> DEFINE t == asked[q]
               r == [threads[t] EXCEPT !.status = "OPEN", !.attempts = 0]
    <2>1. t \in Known /\ threads[t] \in Thread
      BY <1>1 DEF ChatInv, AskedOfKnown
    <2>2. /\ r \in Thread /\ r.status # "RUNNING"
          /\ r.fence = threads[t].fence /\ r.session = threads[t].session
      <3>1. 0 \in 0 .. MAX_ATTEMPTS
        OBVIOUS
      <3> QED
        BY <2>1, <3>1 DEF Thread, Statuses, Active
    <2>3. Write(t, r) /\ budget' \in Budget /\ UNCHANGED <<asked, answers, verdict, turns, work>>
      BY <1>1, <1>2, SpendLeaves DEF Resubmit
    <2> HIDE DEF r, t
    <2>4. RowsKept
      BY <2>1, <2>2, <2>3, Rewriting
    <2> QED
      BY <1>1, <2>3, <2>4, NobodyLeaves
  <1>3. ASSUME NEW t \in Known, Sweep(t) PROVE ChatSafe
    <2> DEFINE r == [threads[t] EXCEPT !.status = Swept(t)]
    <2>1. Swept(t) \in {"ERROR", "OPEN"}
      BY DEF Swept
    <2>2. /\ r \in Thread /\ r.status # "RUNNING"
          /\ r.fence = threads[t].fence /\ r.session = threads[t].session
      BY <1>1, <2>1 DEF Thread, Statuses, Active
    <2>3. Write(t, r) /\ UNCHANGED <<asked, answers, verdict, turns, work, budget>>
      BY <1>3 DEF Sweep
    <2> HIDE DEF r
    <2>4. RowsKept
      BY <2>2, <2>3, Rewriting
    <2> QED
      BY <1>1, <2>3, <2>4, NobodyLeaves
  <1>4. ASSUME NEW t \in Known, Expire(t) PROVE ChatSafe
    <2> DEFINE r == [threads[t] EXCEPT !.live = FALSE]
    <2>1. /\ r \in Thread /\ r.status = threads[t].status /\ r.attempts = threads[t].attempts
          /\ r.fence = threads[t].fence /\ r.session = threads[t].session
      BY <1>1 DEF Thread
    <2>2. /\ threads' = [threads EXCEPT ![t] = r]
          /\ UNCHANGED <<line, asked, answers, verdict, turns, work, budget>>
      BY <1>4 DEF Expire
    <2> HIDE DEF r
    <2>3. /\ threads' \in Seq(Thread) /\ Len(threads') = Len(threads) /\ DOMAIN threads' = DOMAIN threads
          /\ threads'[t] = r /\ \A u \in Known : u # t => threads'[u] = threads[u]
      BY <1>1, <2>1, <2>2, RowWrite DEF TypeOK, Known
    <2>4. LineOK /\ RunsWereClaimed
      BY <1>1, ChatTyped DEF ChatInv
    <2>5. RowsKept
      BY <2>1, <2>2, <2>3, <2>4 DEF RowsKept, LineOK, Known, RunsWereClaimed
    <2> QED
      BY <1>1, <2>2, <2>5, NobodyLeaves
  <1>5. CASE Publish \/ Supersede
    <2>1. /\ UNCHANGED <<threads, line, asked, answers, turns, work>> /\ budget' \in Budget
          /\ verdict' \in [latest : Nat, superseded : SUBSET Nat]
      BY <1>1, <1>5, SpendLeaves DEF Publish, Supersede
    <2> QED
      BY <2>1, NothingRewritten, NobodyLeaves
  <1> QED
    BY <1>2, <1>3, <1>4, <1>5

-----------------------------------------------------------------------------
\* The harness starts a turn, or ends one that runs.
TurnsGrow ==
    /\ turns' \in Seq(Turn) /\ Len(turns') <= MaxTurns
    /\ \A n \in DOMAIN turns :
         /\ n \in DOMAIN turns' /\ turns'[n].session = turns[n].session
         /\ turns'[n].input = turns[n].input
         /\ turns[n].status = "done" => turns'[n].status = "done"

\* A worker that goes on under the lease it has, with a turn perhaps.
LEMMA WorkerGoesOn ==
    ASSUME ChatInv, TurnsGrow, NEW w \in Workers, work[w] # Idle, NEW r \in Busy, Go(w, r),
           r.t = work[w].t, r.fence = work[w].fence, Fits(w)',
           UNCHANGED <<threads, line, asked, answers, verdict, budget>>
    PROVE  ChatSafe
  <1>1. /\ TypeOK /\ work[w] \in Busy /\ \A t \in Known : threads[t].fence \in Nat
    BY ChatTyped DEF ChatInv, Thread
  <1>2. r # Idle
    BY DEF Busy, Idle
  <1>3. /\ work' \in [Workers -> {Idle} \union Busy] /\ work'[w] = r
        /\ \A v \in Workers : v # w => work'[v] = work[v]
    BY DEF Go, ChatInv, TypeOK
  <1>4. TypeOK'
    BY <1>1, <1>3 DEF TypeOK, TurnsGrow, Known
  <1>5. \A v \in Workers : work'[v] # Idle => Fits(v)'
    <2> SUFFICES ASSUME NEW v \in Workers, work'[v] # Idle, v # w PROVE Fits(v)'
      OBVIOUS
    <2>1. work'[v] = work[v] /\ work[v] # Idle /\ Fits(v) /\ work[v] \in Busy
      BY <1>3, ChatTyped DEF ChatInv
    <2>2. work[v].t \in Known /\ work[v].fence \in Nat /\ work[v].q \in DOMAIN asked
      BY <2>1 DEF Fits, Busy
    <2>3. work[v].t \in Known' /\ threads[work[v].t].fence \in Nat /\ Current(v)' = Current(v)
      BY <1>1, <2>1, <2>2 DEF Known, Current
    <2> QED
      BY <2>1, <2>2, <2>3, StillFits DEF TurnsGrow
  <1>6. OneLease'
    BY <1>2, <1>3 DEF ChatInv, OneLease
  <1>7. AskedOfKnown' /\ AnsweredByTurns' /\ RunsWereClaimed' /\ AnswerIsItsOwn'
    BY DEF ChatInv, AskedOfKnown, AnsweredByTurns, RunsWereClaimed, AnswerIsItsOwn, TurnsGrow, Known
  <1>8. OnlyHolderWrites
    BY DEF OnlyHolderWrites
  <1> QED
    BY <1>4, <1>5, <1>6, <1>7, <1>8 DEF ChatSafe, ChatInv

LEMMA TurnsStayed == ASSUME TypeOK, UNCHANGED turns PROVE TurnsGrow
  BY DEF TypeOK, TurnsGrow

LEMMA LoadIsSafe == ASSUME ChatInv, NEW w \in Workers, Load(w) PROVE ChatSafe
  <1> DEFINE t == work[w].t
             now == [q |-> work[w].q, others |-> On(t) \ {work[w].q}, told |-> On(t) \ Open(t)]
             r == [work[w] EXCEPT !.input = now,
                                  !.at = IF work[w].session = None THEN "session" ELSE "turn"]
  <1>1. work[w] # Idle /\ work[w].at = "load" /\ UNCHANGED <<asked, answers, verdict, turns, budget>>
    BY DEF Load, At
  <1>2. CASE End(w, "CANCELLED")
    BY <1>1, <1>2, EndIsSafe
  <1>3. CASE Go(w, r) /\ UNCHANGED <<threads, line>>
    <2>1. work[w] \in Busy /\ Fits(w) /\ TurnsGrow
      BY <1>1, HeldIsCurrent, TurnsStayed DEF ChatInv
    <2>2. On(t) \subseteq Nat
      BY ChatTyped DEF On, ChatInv
    <2>3. now \in Input /\ now.q = work[w].q
      BY <2>1, <2>2 DEF Input, Busy
    <2> HIDE DEF now
    <2>4. /\ r \in Busy /\ r.t = work[w].t /\ r.fence = work[w].fence /\ r.q = work[w].q
          /\ r.session = work[w].session /\ r.input = now
          /\ r.at = (IF work[w].session = None THEN "session" ELSE "turn")
      BY <2>1, <2>3 DEF Busy
    <2> HIDE DEF r
    <2>5. work'[w] = r
      BY <1>3 DEF Go, ChatInv, TypeOK
    <2>6. Fits(w)'
      BY <1>1, <1>3, <2>1, <2>3, <2>4, <2>5 DEF Fits, Current, Known
    <2> QED
      BY <1>1, <1>3, <2>1, <2>4, <2>6, WorkerGoesOn
  <1> QED
    BY <1>2, <1>3 DEF Load

LEMMA CreateSessionIsSafe == ASSUME ChatInv, NEW w \in Workers, CreateSession(w) PROVE ChatSafe
  <1> USE ChatAssumption
  <1> DEFINE s == Oldest(Unused)
             r == [work[w] EXCEPT !.at = "attach", !.session = s]
  <1>1. /\ work[w] # Idle /\ work[w].at = "session" /\ Unused # {} /\ Go(w, r)
        /\ UNCHANGED <<threads, line, asked, answers, verdict, turns, budget>>
    BY DEF CreateSession, At
  <1>2. s \in 1 .. MaxSessions
    <2>1. Unused \subseteq 1 .. MaxSessions
      BY DEF Unused
    <2>2. Unused \in SUBSET Nat
      BY <2>1
    <2>3. s \in Unused
      BY <1>1, <2>2, OldestIsOne
    <2> QED
      BY <2>1, <2>3
  <1>3. work[w] \in Busy /\ Fits(w) /\ TurnsGrow
    BY <1>1, HeldIsCurrent, TurnsStayed DEF ChatInv
  <1> HIDE DEF s
  <1>4. s \in 0 .. MaxSessions /\ s # None
    BY <1>2 DEF None
  <1>5. /\ r \in Busy /\ r.t = work[w].t /\ r.fence = work[w].fence /\ r.q = work[w].q
        /\ r.session = s /\ r.input = work[w].input /\ r.at = "attach"
    BY <1>3, <1>4 DEF Busy
  <1> HIDE DEF r
  <1>6. work'[w] = r
    BY <1>1 DEF Go, ChatInv, TypeOK
  <1>7. Fits(w)'
    BY <1>1, <1>3, <1>4, <1>5, <1>6 DEF Fits, Current, Known
  <1> QED
    BY <1>1, <1>3, <1>5, <1>7, WorkerGoesOn

LEMMA StartTurnIsSafe == ASSUME ChatInv, NEW w \in Workers, StartTurn(w) PROVE ChatSafe
  <1> USE ChatAssumption
  <1>1. /\ work[w] # Idle /\ work[w].at = "turn" /\ TypeOK /\ turns \in Seq(Turn)
        /\ UNCHANGED <<threads, line, asked, answers, verdict, budget>>
    BY DEF StartTurn, At, ChatInv, TypeOK
  <1>2. /\ work[w] \in Busy /\ Fits(w) /\ DOMAIN turns \subseteq 0 .. MaxTurns
        /\ MaxTurns \in Nat
    BY <1>1, HeldIsCurrent, ChatTyped
  <1>3. TurnsGrow /\ \E n \in DOMAIN turns' :
          /\ Go(w, Polling(w, n)) /\ turns'[n].session = work[w].session /\ turns'[n].input = work[w].input
    <2>1. CASE \E n \in DOMAIN turns : Same(w, n)
      BY <1>1, <2>1, TurnsStayed DEF StartTurn, Same
    <2>2. CASE ~\E n \in DOMAIN turns : Same(w, n)
      <3> DEFINE turn == [session |-> work[w].session, input |-> work[w].input, status |-> "running"]
      <3>1. /\ Len(turns) < MaxTurns /\ turns' = Append(turns, turn) /\ Go(w, Polling(w, Len(turns) + 1))
        BY <2>2 DEF StartTurn
      <3>2. work[w].session \in 1 .. MaxSessions /\ work[w].input \in Input
        <4>1. work[w].session \in 0 .. MaxSessions /\ work[w].session # 0
          BY <1>1, <1>2 DEF Busy, Fits, None
        <4>2. Unread \in Input
          BY DEF Unread, Input, None
        <4> QED
          BY <1>2, <4>1, <4>2 DEF Busy
      <3>3. turn \in Turn /\ turn.session = work[w].session /\ turn.input = work[w].input
        BY <3>2 DEF Turn
      <3> HIDE DEF turn
      <3>4. /\ turns' \in Seq(Turn) /\ Len(turns') = Len(turns) + 1 /\ turns'[Len(turns) + 1] = turn
            /\ DOMAIN turns' = 1 .. Len(turns) + 1
            /\ \A i \in DOMAIN turns : i \in DOMAIN turns' /\ turns'[i] = turns[i]
        BY <1>1, <3>1, <3>3, Appended
      <3>5. Len(turns) \in Nat
        BY <1>1
      <3>6. TurnsGrow
        BY <1>2, <3>1, <3>4, <3>5 DEF TurnsGrow
      <3>7. Len(turns) + 1 \in DOMAIN turns'
        BY <3>4, <3>5
      <3> QED
        BY <3>1, <3>3, <3>4, <3>6, <3>7
    <2> QED
      BY <2>1, <2>2
  <1>4. PICK n \in DOMAIN turns' :
          /\ Go(w, Polling(w, n)) /\ turns'[n].session = work[w].session /\ turns'[n].input = work[w].input
    BY <1>3
  <1>5. n \in 0 .. MaxTurns
    BY <1>2, <1>3 DEF TurnsGrow
  <1> DEFINE r == Polling(w, n)
  <1>6. /\ r \in Busy /\ r.t = work[w].t /\ r.fence = work[w].fence /\ r.q = work[w].q
        /\ r.turn = n /\ r.at = "poll"
    <2>1. None \in 0 .. MaxSessions
      BY DEF None
    <2> QED
      BY <1>2, <1>5, <2>1 DEF Busy, Polling
  <1>7. Go(w, r)
    BY <1>4
  <1> HIDE DEF r
  <1>8. work'[w] = r
    BY <1>7 DEF Go, ChatInv, TypeOK
  <1>9. Fits(w)'
    BY <1>1, <1>2, <1>3, <1>4, <1>6, <1>8 DEF Fits, Current, Known
  <1> QED
    BY <1>1, <1>3, <1>6, <1>7, <1>9, WorkerGoesOn

LEMMA PollIsSafe == ASSUME ChatInv, NEW w \in Workers, Poll(w) PROVE ChatSafe
  <1> DEFINE r == [work[w] EXCEPT !.at = "answer"]
  <1>1. /\ work[w] # Idle /\ work[w].at = "poll"
        /\ UNCHANGED <<asked, answers, verdict, turns, budget>>
    BY DEF Poll, At
  <1>2. CASE End(w, "ERROR")
    BY <1>1, <1>2, EndIsSafe
  <1>3. CASE /\ turns[work[w].turn].status = "done"
             /\ Go(w, r) /\ UNCHANGED <<threads, line>>
    <2>1. work[w] \in Busy /\ Fits(w) /\ TurnsGrow
      BY <1>1, HeldIsCurrent, TurnsStayed DEF ChatInv
    <2>2. /\ r \in Busy /\ r.t = work[w].t /\ r.fence = work[w].fence /\ r.q = work[w].q
          /\ r.turn = work[w].turn /\ r.at = "answer"
      BY <2>1 DEF Busy
    <2>3. Go(w, r)
      BY <1>3
    <2> HIDE DEF r
    <2>4. work'[w] = r
      BY <2>3 DEF Go, ChatInv, TypeOK
    <2>5. Fits(w)'
      BY <1>1, <1>3, <2>1, <2>2, <2>4 DEF Fits, Current, Known
    <2> QED
      BY <1>1, <1>3, <2>1, <2>2, <2>3, <2>5, WorkerGoesOn
  <1> QED
    BY <1>2, <1>3 DEF Poll

LEMMA AttachIsSafe == ASSUME ChatInv, NEW w \in Workers, Attach(w) PROVE ChatSafe
  <1> DEFINE t == work[w].t
             r == [work[w] EXCEPT !.at = "turn"]
             k == [threads[t] EXCEPT !.session = work[w].session]
  <1>1. /\ work[w] # Idle /\ work[w].at = "attach" /\ TypeOK
        /\ UNCHANGED <<asked, answers, verdict, turns, budget>>
    BY DEF Attach, At, ChatInv
  <1>2. /\ work[w] \in Busy /\ Fits(w) /\ t \in Known /\ threads[t] \in Thread
        /\ Held(w) => Current(w) /\ threads[t].attempts >= 1
    BY <1>1, HeldIsCurrent
  <1>3. CASE ~Held(w)
    <2>1. Leave(w) /\ UNCHANGED <<threads, line>> /\ budget' \in Budget
      BY <1>1, <1>3 DEF Attach, TypeOK
    <2> QED
      BY <1>1, <1>3, <2>1, WorkerLeaves
  <1>4. CASE Held(w)
    <2>1. Write(t, k) /\ Go(w, r)
      BY <1>4 DEF Attach
    <2>2. /\ k \in Thread /\ k.session = work[w].session /\ k.fence = threads[t].fence
          /\ k.status = threads[t].status /\ k.attempts = threads[t].attempts
      BY <1>2 DEF Thread, Busy
    <2>3. /\ r \in Busy /\ r.t = t /\ r.fence = work[w].fence /\ r.q = work[w].q
          /\ r.session = work[w].session /\ r.input = work[w].input /\ r.at = "turn"
      BY <1>2 DEF Busy
    <2>4. r # Idle
      BY <2>3 DEF Idle
    <2> HIDE DEF k, r
    <2>5. /\ threads' \in Seq(Thread) /\ Len(threads') = Len(threads) /\ Known' = Known
          /\ threads'[t] = k /\ \A u \in Known : u # t => threads'[u] = threads[u]
          /\ LineOK'
      BY <1>2, <2>1, <2>2, RowPut
    <2>6. /\ work' \in [Workers -> {Idle} \union Busy] /\ work'[w] = r
          /\ \A v \in Workers : v # w => work'[v] = work[v]
      BY <1>1, <2>1, <2>3 DEF Go, TypeOK
    <2>7. TypeOK'
      BY <1>1, <2>5, <2>6 DEF TypeOK, LineOK
    <2>8. Fits(w)'
      BY <1>1, <1>2, <2>2, <2>3, <2>5, <2>6 DEF Fits, Current
    <2>9. OneLease'
      BY <1>1, <2>3, <2>4, <2>6 DEF ChatInv, OneLease
    <2>10. ASSUME NEW v \in Workers, work'[v] # Idle, v # w PROVE Fits(v)'
      <3>1. work'[v] = work[v] /\ work[v] # Idle /\ Fits(v) /\ work[v] \in Busy
        BY <2>6, <2>10, ChatTyped DEF ChatInv
      <3>2. work[v].t \in Known /\ work[v].fence \in Nat /\ work[v].q \in DOMAIN asked
        BY <3>1 DEF Fits, Busy
      <3>3. threads[work[v].t].fence \in Nat /\ threads'[work[v].t].fence = threads[work[v].t].fence
        BY <1>1, <2>2, <2>5, <3>2, ChatTyped DEF Thread
      <3>4. Current(v)' => Current(v) /\ work[v].t # t
        BY <1>1, <1>2, <1>4, <2>10, <3>1, <3>3 DEF Current, ChatInv, OneLease
      <3> QED
        BY <1>1, <2>5, <3>1, <3>2, <3>3, <3>4, StillFits
    <2>11. RunsWereClaimed' /\ AskedOfKnown' /\ AnsweredByTurns'
      BY <1>1, <2>2, <2>5 DEF ChatInv, RunsWereClaimed, AskedOfKnown, AnsweredByTurns
    <2>12. AnswerIsItsOwn'
      <3>1. threads[t].session = 0
        BY <1>1, <1>2, <1>4 DEF Fits, None
      <3>2. ASSUME NEW q \in DOMAIN asked, answers[q] # None PROVE asked[q] \in Known /\ asked[q] # t
        <4>1. /\ asked[q] \in Known /\ turns[answers[q]] \in Turn
              /\ turns[answers[q]].session = threads[asked[q]].session
          BY <1>1, <3>2, ChatTyped DEF ChatInv, AskedOfKnown, AnsweredByTurns, AnswerIsItsOwn
        <4>2. turns[answers[q]].session # 0
          BY <4>1 DEF Turn
        <4> QED
          BY <3>1, <4>1, <4>2
      <3> QED
        BY <1>1, <2>5, <3>2 DEF ChatInv, AnswerIsItsOwn
    <2>13. OnlyHolderWrites
      BY <2>4, <2>6 DEF OnlyHolderWrites
    <2> QED
      BY <2>7, <2>8, <2>9, <2>10, <2>11, <2>12, <2>13 DEF ChatSafe, ChatInv
  <1> QED
    BY <1>3, <1>4

LEMMA CompleteIsSafe == ASSUME ChatInv, NEW w \in Workers, Complete(w) PROVE ChatSafe
  <1> DEFINE t == work[w].t
             q == work[w].q
             n == work[w].turn
             k == [threads[t] EXCEPT !.live = FALSE,
                     !.status = IF Open(t) \subseteq {q} THEN "DONE" ELSE "OPEN"]
  <1>1. /\ work[w] # Idle /\ work[w].at = "answer" /\ TypeOK /\ Leave(w)
        /\ UNCHANGED <<asked, verdict, turns, budget>>
    BY DEF Complete, At, ChatInv
  <1>2. /\ work[w] \in Busy /\ Fits(w) /\ t \in Known /\ threads[t] \in Thread
        /\ Held(w) => Current(w) /\ threads[t].attempts >= 1
    BY <1>1, HeldIsCurrent
  <1>3. CASE ~Held(w)
    <2>1. UNCHANGED <<threads, line, answers>> /\ budget' \in Budget
      BY <1>1, <1>3 DEF Complete, TypeOK
    <2> QED
      BY <1>1, <1>3, <2>1, WorkerLeaves
  <1>4. CASE Held(w)
    <2>1. Write(t, k) /\ answers' = [answers EXCEPT ![q] = IF @ = None THEN n ELSE @]
      BY <1>4 DEF Complete
    <2>2. /\ k \in Thread /\ k.session = threads[t].session /\ k.fence = threads[t].fence
          /\ k.status # "RUNNING"
      BY <1>2 DEF Thread, Statuses, Active
    <2> HIDE DEF k
    <2>3. RowsKept
      BY <1>2, <2>1, <2>2, Rewriting
    <2>4. /\ q \in DOMAIN asked /\ asked[q] = t /\ n \in DOMAIN turns /\ turns[n].input.q = q
          /\ turns[n].status = "done" /\ turns[n].session = threads[t].session /\ n \in 0 .. MaxTurns
      BY <1>1, <1>2, <1>4, ChatTyped DEF Fits
    <2>5. answers \in Seq(0 .. MaxTurns) /\ DOMAIN answers = DOMAIN asked /\ Len(answers) = Len(asked)
      BY <1>1, ChatTyped DEF TypeOK
    <2> DEFINE m == IF answers[q] = None THEN n ELSE answers[q]
    <2>6. answers' = [answers EXCEPT ![q] = m] /\ m \in 0 .. MaxTurns /\ m \in {n, answers[q]}
      BY <1>1, <2>1, <2>4, ChatTyped
    <2> HIDE DEF m
    <2>7. /\ answers' \in Seq(0 .. MaxTurns) /\ Len(answers') = Len(asked)
          /\ \A r \in DOMAIN asked : answers'[r] = answers[r] \/ (r = q /\ answers'[r] = n)
      <3>1. q \in DOMAIN answers
        BY <2>4, <2>5
      <3>2. /\ answers' \in Seq(0 .. MaxTurns) /\ Len(answers') = Len(answers) /\ answers'[q] = m
            /\ \A r \in DOMAIN answers : r # q => answers'[r] = answers[r]
        BY <2>5, <2>6, <3>1, RowWrite
      <3> QED
        BY <2>5, <2>6, <3>2
    <2>8. /\ work' \in [Workers -> {Idle} \union Busy] /\ \A v \in Workers : work'[v] \in {work[v], Idle}
          /\ \A v \in Workers : v # w => work'[v] = work[v]
      BY <1>1 DEF Leave, TypeOK
    <2>9. TypeOK'
      BY <1>1, <2>3, <2>7, <2>8 DEF TypeOK, RowsKept, LineOK
    <2>10. AnsweredByTurns'
      BY <1>1, <2>4, <2>7 DEF ChatInv, AnsweredByTurns
    <2>11. AnswerIsItsOwn'
      <3>1. \A r \in DOMAIN asked : threads'[asked[r]].session = threads[asked[r]].session
        BY <2>3 DEF ChatInv, AskedOfKnown, RowsKept
      <3> QED
        BY <1>1, <2>4, <2>7, <3>1 DEF ChatInv, AnswerIsItsOwn
    <2>12. OnlyHolderWrites
      BY <1>2, <1>4, <2>8 DEF OnlyHolderWrites, Current
    <2> QED
      BY <1>1, <2>3, <2>8, <2>9, <2>10, <2>11, <2>12, WorkersKept DEF ChatSafe, ChatInv
  <1> QED
    BY <1>3, <1>4

\* The head of the line is a thread that may be claimed.
LEMMA HeadIsClaimable ==
    ASSUME TypeOK, Head_ # None PROVE Head_ \in Known /\ Claimable(Head_)
  <1> DEFINE ready == {i \in DOMAIN line : Claimable(line[i])}
  <1>1. ready # {} /\ Head_ = line[Oldest(ready)]
    BY DEF Head_
  <1>2. DOMAIN line \subseteq Nat /\ \A i \in DOMAIN line : line[i] \in Known
    BY DEF TypeOK
  <1>3. ready \in SUBSET Nat
    BY <1>2
  <1>4. Oldest(ready) \in ready
    BY <1>1, <1>3, OldestIsOne
  <1> QED
    BY <1>1, <1>2, <1>4

LEMMA ClaimIsSafe == ASSUME ChatInv, NEW w \in Workers, Claim(w) PROVE ChatSafe
  <1> USE ChatAssumption
  <1> DEFINE t == Head_
             q == Oldest(Open(t))
             k == [threads[t] EXCEPT !.status = "RUNNING", !.live = TRUE,
                                     !.attempts = @ + 1, !.fence = @ + 1]
             r == [at |-> "load", t |-> t, q |-> q, fence |-> threads[t].fence + 1,
                   session |-> threads[t].session, input |-> Unread, turn |-> None]
  <1>1. /\ work[w] = Idle /\ Head_ # None /\ Write(t, k) /\ work' = [work EXCEPT ![w] = r] /\ TypeOK
        /\ UNCHANGED <<asked, answers, verdict, turns, budget>>
    BY DEF Claim, ChatInv
  <1>2. /\ t \in Known /\ threads[t] \in Thread /\ t \in Tid
        /\ threads[t].attempts < MAX_ATTEMPTS /\ Open(t) # {}
    BY <1>1, HeadIsClaimable, ChatTyped DEF Claimable
  <1> HIDE DEF t
  <1>3. q \in DOMAIN asked /\ asked[q] = t /\ q \in Nat
    <2>1. Open(t) \subseteq DOMAIN asked /\ DOMAIN asked \subseteq Nat
      BY <1>1, ChatTyped DEF Open, On
    <2>2. Open(t) \in SUBSET Nat
      BY <2>1
    <2>3. q \in Open(t)
      BY <1>2, <2>2, OldestIsOne
    <2> QED
      BY <2>1, <2>3 DEF Open, On
  <1> HIDE DEF q
  <1>4. /\ k \in Thread /\ k.status = "RUNNING" /\ k.attempts >= 1
        /\ k.fence = threads[t].fence + 1 /\ k.session = threads[t].session /\ threads[t].fence \in Nat
    <2>1. threads[t].attempts \in 0 .. MAX_ATTEMPTS /\ MAX_ATTEMPTS \in Nat /\ threads[t].fence \in Nat
      BY <1>2 DEF Thread
    <2>2. threads[t].attempts + 1 \in 0 .. MAX_ATTEMPTS /\ threads[t].attempts + 1 >= 1
          /\ threads[t].fence + 1 \in Nat
      BY <1>2, <2>1
    <2> QED
      BY <1>2, <2>1, <2>2 DEF Thread, Statuses, Active
  <1>5. /\ r \in Busy /\ r.at = "load" /\ r.t = t /\ r.q = q
        /\ r.fence = threads[t].fence + 1 /\ r.session = threads[t].session
    <2>1. None \in 0 .. MaxTurns /\ threads[t].session \in 0 .. MaxSessions /\ threads[t].fence + 1 \in Nat
      BY <1>2, <1>4 DEF None, Thread
    <2> QED
      BY <1>2, <1>3, <2>1 DEF Busy
  <1>6. r # Idle
    BY <1>5 DEF Idle
  <1> HIDE DEF k, r
  <1>7. /\ threads' \in Seq(Thread) /\ Len(threads') = Len(threads) /\ Known' = Known
        /\ threads'[t] = k /\ \A u \in Known : u # t => threads'[u] = threads[u]
        /\ LineOK'
    BY <1>1, <1>2, <1>4, RowPut
  <1>8. /\ work' \in [Workers -> {Idle} \union Busy] /\ work'[w] = r
        /\ \A v \in Workers : v # w => work'[v] = work[v]
    BY <1>1, <1>5 DEF TypeOK
  <1>9. TypeOK'
    BY <1>1, <1>7, <1>8 DEF TypeOK, LineOK
  <1>10. Fits(w)'
    BY <1>1, <1>2, <1>3, <1>4, <1>5, <1>7, <1>8 DEF Fits, Current
  <1>11. ASSUME NEW v \in Workers, work'[v] # Idle, v # w
         PROVE  Fits(v)' /\ (work[v].t = t => work[v].fence # threads[t].fence + 1)
    <2>1. work'[v] = work[v] /\ work[v] # Idle /\ Fits(v) /\ work[v] \in Busy
      BY <1>8, <1>11, ChatTyped DEF ChatInv
    <2>2. work[v].t \in Known /\ work[v].fence \in Nat /\ work[v].q \in DOMAIN asked
          /\ work[v].fence <= threads[work[v].t].fence
      BY <2>1 DEF Fits, Busy
    <2>3. threads[work[v].t].fence \in Nat
      BY <1>1, <2>2, ChatTyped DEF Thread
    <2>4. /\ threads'[work[v].t].fence \in Nat
          /\ threads'[work[v].t].fence >= threads[work[v].t].fence
          /\ work[v].t = t => threads'[work[v].t].fence > work[v].fence
      <3>1. CASE work[v].t = t
        <4>1. threads'[work[v].t].fence = threads[t].fence + 1
          BY <1>4, <1>7, <3>1
        <4> QED
          BY <1>4, <2>2, <3>1, <4>1
      <3>2. CASE work[v].t # t
        <4>1. threads'[work[v].t] = threads[work[v].t]
          BY <1>7, <2>2, <3>2
        <4> QED
          BY <2>3, <3>2, <4>1
      <3> QED
        BY <3>1, <3>2
    <2>5. Current(v)' => Current(v) /\ threads'[work[v].t].session = threads[work[v].t].session
      BY <1>7, <2>1, <2>2, <2>4 DEF Current
    <2> QED
      BY <1>1, <1>4, <1>7, <2>1, <2>2, <2>3, <2>4, <2>5, StillFits
  <1>12. OneLease'
    <2> SUFFICES ASSUME NEW u \in Workers, NEW v \in Workers, u # v, work'[u] # Idle, work'[v] # Idle,
                        work'[u].t = work'[v].t
                 PROVE  work'[u].fence # work'[v].fence
      BY DEF OneLease
    <2>1. CASE u = w
      BY <1>5, <1>8, <1>11, <2>1
    <2>2. CASE v = w
      BY <1>5, <1>8, <1>11, <2>2
    <2>3. CASE u # w /\ v # w
      BY <1>8, <2>3 DEF ChatInv, OneLease
    <2> QED
      BY <2>1, <2>2, <2>3
  <1>13. RunsWereClaimed' /\ AskedOfKnown' /\ AnsweredByTurns'
    BY <1>1, <1>4, <1>7 DEF ChatInv, RunsWereClaimed, AskedOfKnown, AnsweredByTurns
  <1>14. AnswerIsItsOwn'
    <2>1. \A p \in DOMAIN asked : threads'[asked[p]].session = threads[asked[p]].session
      BY <1>4, <1>7 DEF ChatInv, AskedOfKnown
    <2> QED
      BY <1>1, <2>1 DEF ChatInv, AnswerIsItsOwn
  <1>15. OnlyHolderWrites
    BY <1>1, <1>8 DEF OnlyHolderWrites
  <1> QED
    BY <1>9, <1>10, <1>11, <1>12, <1>13, <1>14, <1>15 DEF ChatSafe, ChatInv

LEMMA AskIsSafe == ASSUME ChatInv, Ask PROVE ChatSafe
  <1> USE ChatAssumption
  <1> DEFINE active == {t \in Known : threads[t].status \in Active}
             k == Fresh(verdict.latest)
  <1>1. /\ TypeOK /\ answers' = Append(answers, None) /\ UNCHANGED <<verdict, turns, work>>
        /\ budget' \in Budget
    BY SpendLeaves DEF Ask, ChatInv
  <1>2. /\ Known = 1 .. Len(threads) /\ Len(threads) \in Nat /\ Known \subseteq Tid
        /\ threads \in Seq(Thread) /\ Len(threads) <= MaxThreads /\ MaxThreads \in Nat
        /\ \A t \in Known : threads[t] \in Thread
    BY <1>1, ChatTyped DEF TypeOK
  <1>3. PICK t \in Tid :
          /\ asked' = Append(asked, t)
          /\ \/ t \in Known /\ UNCHANGED <<threads, line>>
             \/ /\ t = Len(threads) + 1 /\ t <= MaxThreads /\ threads' = Append(threads, k)
                /\ line' = Append(line, t)
    <2>1. CASE active # {}
      <3>1. Oldest(active) \in active
        <4>1. active \in SUBSET Nat
          BY <1>2
        <4> HIDE DEF active
        <4> QED
          BY <2>1, <4>1, OldestIsOne
      <3> QED
        BY <1>2, <2>1, <3>1 DEF Ask
    <2>2. CASE active = {}
      <3>1. /\ Len(threads) < MaxThreads /\ threads' = Append(threads, k)
            /\ line' = Append(line, Len(threads) + 1) /\ asked' = Append(asked, Len(threads) + 1)
        BY <2>2 DEF Ask
      <3>2. Len(threads) + 1 \in Tid /\ Len(threads) + 1 <= MaxThreads
        BY <1>2, <3>1 DEF Tid
      <3> QED
        BY <3>1, <3>2
    <2> QED
      BY <2>1, <2>2
  <1>4. /\ asked' \in Seq(Tid) /\ Len(asked') = Len(asked) + 1 /\ asked'[Len(asked) + 1] = t
        /\ DOMAIN asked' = 1 .. Len(asked) + 1 /\ Len(asked) \in Nat /\ DOMAIN asked = 1 .. Len(asked)
        /\ \A r \in DOMAIN asked : r \in DOMAIN asked' /\ asked'[r] = asked[r]
    <2>1. asked \in Seq(Tid)
      BY <1>1 DEF TypeOK
    <2> QED
      BY <1>3, <2>1, Appended
  <1>5. /\ answers' \in Seq(0 .. MaxTurns) /\ Len(answers') = Len(asked) + 1
        /\ answers'[Len(asked) + 1] = None
        /\ \A r \in DOMAIN asked : answers'[r] = answers[r]
    <2>1. /\ answers \in Seq(0 .. MaxTurns) /\ Len(answers) = Len(asked) /\ None \in 0 .. MaxTurns
          /\ DOMAIN answers = DOMAIN asked
      BY <1>1, ChatTyped DEF TypeOK, None
    <2>2. answers' = Append(answers, None)
      BY <1>1
    <2>3. /\ answers' \in Seq(0 .. MaxTurns) /\ Len(answers') = Len(answers) + 1
          /\ answers'[Len(answers) + 1] = None
          /\ \A r \in DOMAIN answers : answers'[r] = answers[r]
      BY <2>1, <2>2, Appended
    <2> QED
      BY <2>1, <2>3
  <1>6. k \in Thread /\ k.status = "OPEN"
    <2>1. 0 \in 0 .. MAX_ATTEMPTS /\ 0 \in 0 .. MaxSessions /\ verdict.latest \in Nat
      BY <1>1 DEF TypeOK
    <2> QED
      BY <2>1 DEF Fresh, Thread, Statuses, Active, None
  <1> HIDE DEF k
  <1>7. /\ threads' \in Seq(Thread) /\ Len(threads') <= MaxThreads
        /\ t \in Known' /\ Known' = 1 .. Len(threads')
        /\ \A u \in Known : u \in Known' /\ threads'[u] = threads[u]
        /\ \A u \in Known' : u \notin Known => threads'[u].status = "OPEN"
        /\ LineOK'
    <2>1. LineOK
      BY <1>1, ChatTyped
    <2>2. CASE t \in Known /\ UNCHANGED <<threads, line>>
      BY <1>2, <2>1, <2>2 DEF LineOK, Known
    <2>3. CASE /\ t = Len(threads) + 1 /\ t <= MaxThreads /\ threads' = Append(threads, k)
               /\ line' = Append(line, t)
      <3>1. /\ threads' \in Seq(Thread) /\ Len(threads') = Len(threads) + 1 /\ threads'[t] = k
            /\ DOMAIN threads' = 1 .. Len(threads) + 1
            /\ \A u \in Known : u \in DOMAIN threads' /\ threads'[u] = threads[u]
        BY <1>2, <1>6, <2>3, Appended DEF Known
      <3>2. Known' = 1 .. Len(threads) + 1 /\ Known' = Known \union {t}
        BY <1>2, <2>3, <3>1 DEF Known
      <3>3. line \in Seq(Known')
        BY <2>1, <3>2 DEF LineOK
      <3>4. /\ line' \in Seq(Known') /\ Len(line') = Len(line) + 1 /\ line'[Len(line) + 1] = t
            /\ DOMAIN line' = 1 .. Len(line) + 1
            /\ \A i \in DOMAIN line : i \in DOMAIN line' /\ line'[i] = line[i]
        BY <2>3, <3>2, <3>3, Appended
      <3>5. \A u \in Known' : \E i \in DOMAIN line' : line'[i] = u
        <4>1. \E i \in DOMAIN line' : line'[i] = t
          BY <2>1, <3>4 DEF LineOK
        <4>2. \A u \in Known : \E i \in DOMAIN line' : line'[i] = u
          BY <2>1, <3>4 DEF LineOK
        <4> QED
          BY <3>2, <4>1, <4>2
      <3>6. LineOK'
        BY <2>1, <3>1, <3>4, <3>5 DEF LineOK
      <3> QED
        BY <1>2, <1>6, <2>3, <3>1, <3>2, <3>6
    <2> QED
      BY <1>3, <2>2, <2>3
  <1>8. TypeOK'
    BY <1>1, <1>4, <1>5, <1>7 DEF TypeOK, LineOK
  <1>9. \A r \in DOMAIN asked' : r \in DOMAIN asked \/ r = Len(asked) + 1
    BY <1>4
  <1>10. AskedOfKnown'
    BY <1>4, <1>7, <1>9 DEF ChatInv, AskedOfKnown
  <1>11. AnsweredByTurns' /\ AnswerIsItsOwn'
    <2>1. ASSUME NEW r \in DOMAIN asked', answers'[r] # None
          PROVE  /\ r \in DOMAIN asked /\ answers'[r] = answers[r] /\ asked'[r] = asked[r]
                 /\ threads'[asked[r]] = threads[asked[r]]
      <3>1. r \in DOMAIN asked
        BY <1>5, <1>9, <2>1
      <3> QED
        BY <1>4, <1>5, <1>7, <3>1 DEF ChatInv, AskedOfKnown
    <2>2. turns' = turns
      BY <1>1
    <2>3. AnsweredByTurns'
      BY <2>1, <2>2 DEF ChatInv, AnsweredByTurns
    <2>4. AnswerIsItsOwn'
      <3> SUFFICES ASSUME NEW r \in DOMAIN asked', answers'[r] # None
                   PROVE  /\ turns'[answers'[r]].input.q = r /\ turns'[answers'[r]].status = "done"
                          /\ turns'[answers'[r]].session = threads'[asked'[r]].session
        BY DEF AnswerIsItsOwn
      <3> QED
        BY <2>1, <2>2 DEF ChatInv, AnswerIsItsOwn
    <2> QED
      BY <2>3, <2>4
  <1>12. RunsWereClaimed'
    BY <1>7 DEF ChatInv, RunsWereClaimed
  <1>13. OneLease'
    BY <1>1 DEF ChatInv, OneLease
  <1>14. ASSUME NEW v \in Workers, work'[v] # Idle PROVE Fits(v)'
    <2>1. work'[v] = work[v] /\ work[v] # Idle /\ Fits(v) /\ work[v] \in Busy
      BY <1>1, <1>14, ChatTyped DEF ChatInv
    <2>2. /\ work[v].t \in Known /\ work[v].fence \in Nat /\ work[v].q \in DOMAIN asked
          /\ threads[work[v].t].fence \in Nat
      BY <1>2, <2>1 DEF Fits, Busy, Thread
    <2>3. Current(v)' = Current(v) /\ threads'[work[v].t] = threads[work[v].t] /\ work[v].t \in Known'
      BY <1>7, <2>1, <2>2 DEF Current
    <2> QED
      BY <1>1, <1>4, <2>1, <2>2, <2>3, StillFits
  <1>15. OnlyHolderWrites
    BY <1>1 DEF OnlyHolderWrites
  <1> QED
    BY <1>8, <1>10, <1>11, <1>12, <1>13, <1>14, <1>15 DEF ChatSafe, ChatInv

LEMMA TurnEndingIsSafe == ASSUME ChatInv, NEW n \in DOMAIN turns, TurnEnds(n) PROVE ChatSafe
  <1>1. /\ TypeOK /\ turns[n].status = "running"
        /\ UNCHANGED <<threads, line, asked, answers, verdict, work, budget>>
    BY DEF TurnEnds, ChatInv
  <1>2. PICK s \in {"done", "error"} : turns' = [turns EXCEPT ![n].status = s]
    BY DEF TurnEnds
  <1> DEFINE turn == [turns[n] EXCEPT !.status = s]
  <1>3. turns \in Seq(Turn) /\ turns[n] \in Turn /\ Len(turns) <= MaxTurns
    BY <1>1 DEF TypeOK
  <1>4. /\ turn \in Turn /\ turn.session = turns[n].session /\ turn.input = turns[n].input
        /\ turns' = [turns EXCEPT ![n] = turn]
    BY <1>2, <1>3 DEF Turn
  <1> HIDE DEF turn
  <1>5. /\ turns' \in Seq(Turn) /\ Len(turns') = Len(turns) /\ DOMAIN turns' = DOMAIN turns
        /\ turns'[n] = turn /\ \A m \in DOMAIN turns : m # n => turns'[m] = turns[m]
    BY <1>3, <1>4, RowWrite
  <1>6. TurnsGrow
    BY <1>1, <1>3, <1>4, <1>5 DEF TurnsGrow
  <1>7. TypeOK'
    BY <1>1, <1>6 DEF TypeOK, TurnsGrow, Known
  <1>8. ASSUME NEW v \in Workers, work'[v] # Idle PROVE Fits(v)'
    <2>1. work'[v] = work[v] /\ work[v] # Idle /\ Fits(v) /\ work[v] \in Busy
      BY <1>1, <1>8, ChatTyped DEF ChatInv
    <2>2. /\ work[v].t \in Known /\ work[v].fence \in Nat /\ work[v].q \in DOMAIN asked
          /\ threads[work[v].t].fence \in Nat
      BY <1>1, <2>1, ChatTyped DEF Fits, Busy, Thread
    <2>3. Current(v)' = Current(v) /\ work[v].t \in Known'
      BY <1>1, <2>1, <2>2 DEF Current, Known
    <2> QED
      BY <1>1, <1>6, <2>1, <2>2, <2>3, StillFits DEF TurnsGrow
  <1>9. OneLease' /\ AskedOfKnown' /\ AnsweredByTurns' /\ RunsWereClaimed' /\ AnswerIsItsOwn'
    BY <1>1, <1>6 DEF ChatInv, OneLease, AskedOfKnown, AnsweredByTurns, RunsWereClaimed, AnswerIsItsOwn,
                      TurnsGrow, Known
  <1>10. OnlyHolderWrites
    BY <1>1 DEF OnlyHolderWrites
  <1> QED
    BY <1>7, <1>8, <1>9, <1>10 DEF ChatSafe, ChatInv

LEMMA ThrowIsSafe == ASSUME ChatInv, NEW w \in Workers, Throw(w) \/ Unfit(w) PROVE ChatSafe
  BY EndIsSafe DEF Throw, Unfit, At

LEMMA ChatStarts == Init => ChatInv
  <1> USE ChatAssumption
  <1> SUFFICES ASSUME Init PROVE ChatInv
    OBVIOUS
  <1>1. /\ threads = <<>> /\ line = <<>> /\ asked = <<>> /\ answers = <<>> /\ turns = <<>>
        /\ \A w \in Workers : work[w] = Idle
    BY DEF Init
  <1>2. TypeOK
    BY <1>1 DEF Init, TypeOK, Known
  <1> QED
    BY <1>1, <1>2 DEF ChatInv, AskedOfKnown, AnsweredByTurns, OneLease, RunsWereClaimed, AnswerIsItsOwn,
                      Known

LEMMA ChatStepIsSafe == ASSUME ChatInv, [Next]_vars PROVE ChatSafe
  <1>1. CASE Next
    BY <1>1, AskIsSafe, QueueIsSafe, ClaimIsSafe, ReleaseIsSafe, LoadIsSafe, CreateSessionIsSafe,
       AttachIsSafe, StartTurnIsSafe, PollIsSafe, CompleteIsSafe, ThrowIsSafe, DieIsSafe,
       TurnEndingIsSafe
       DEF Next, Step
  <1>2. CASE UNCHANGED vars
    <2>1. UNCHANGED <<threads, line, asked, answers, verdict, turns, work, budget>>
      BY <1>2 DEF vars
    <2>2. RowsKept
      BY <2>1, NothingRewritten
    <2> QED
      BY <2>1, <2>2, NobodyLeaves DEF ChatInv, TypeOK
  <1> QED
    BY <1>1, <1>2

\* Whatever is retried, taken over, found again or comes late: a question's answer
\* is the end of a turn that was asked this question on this thread's session, and
\* nobody but the holder of the lease of the moment ends or answers a run
\* (reviewer-chat/queue.ts, worker.ts).
THEOREM AnswersStaySound == Spec => AnswersAreSound
  <1>1. Init => ChatInv
    BY ChatStarts
  <1>2. ChatInv /\ [Next]_vars => ChatInv' /\ OnlyHolderWrites
    BY ChatStepIsSafe DEF ChatSafe
  <1>3. ChatInv => TypeOK /\ AnswerIsItsOwn
    BY DEF ChatInv
  <1> QED
    BY <1>1, <1>2, <1>3, PTL DEF Spec, AnswersAreSound

-----------------------------------------------------------------------------
(* WorkerDaemon. *)

LoopRow == [pc : {"wait", "op", "done"}, left : Nat, ran : Nat, hung : BOOLEAN, sinceOk : Nat]
BeatRow == [age : Nat, failing : Nat]

\* Until its next beat a loop owes at most its wait and then its longest call: no
\* more than a budget that was chosen to cover them.
WithinBudget(l) ==
    \/ /\ loop[l].pc = "wait" /\ ~loop[l].hung /\ loop[l].ran = 0
       /\ Covered(kind[l]) => beat[l].age + loop[l].left + Longest(kind[l]) <= kind[l].budget
    \/ /\ loop[l].pc = "op"
       /\ loop[l].hung \/ ~Covered(kind[l])
            \/ /\ loop[l].ran <= Longest(kind[l])
               /\ beat[l].age + Longest(kind[l]) <= kind[l].budget + loop[l].ran
    \/ loop[l].pc = "done" /\ process.pc = "stopping"

\* A run of failures began after the last success.
FailingSinceOk(l) == beat[l].failing # Never => beat[l].failing <= loop[l].sinceOk

DaemonInv ==
    /\ DaemonTypeOK
    /\ loop \in [Loop -> LoopRow] /\ beat \in [Loop -> BeatRow]
    /\ \A l \in Loop : WithinBudget(l) /\ FailingSinceOk(l)

LEMMA KindSays ==
    ASSUME DaemonTypeOK, NEW l \in Loop
    PROVE  /\ kind[l] \in [timeout : Nat, pause : Nat, delay : Nat, slow : Nat, budget : Nat]
           /\ Longest(kind[l]) \in Nat
           /\ Longest(kind[l]) <= kind[l].slow
           /\ kind[l].timeout > 0 => Longest(kind[l]) <= kind[l].timeout
  <1>1. kind[l] \in Kinds
    BY DEF DaemonTypeOK
  <1>2. kind[l] \in [timeout : Nat, pause : Nat, delay : Nat, slow : Nat, budget : Nat]
    BY <1>1, DaemonAssumption
  <1> QED
    BY <1>2 DEF Longest

LEMMA UpToSays ==
    ASSUME NEW n \in Nat, NEW cap \in Nat
    PROVE  UpTo(n, cap) \in Nat /\ UpTo(n, cap) <= n + 1
  BY DEF UpTo

LEMMA UpToKeepsOrder ==
    ASSUME NEW n \in Nat, NEW m \in Nat, n <= m, NEW cap \in Nat
    PROVE  UpTo(n, cap) <= UpTo(m, cap)
  BY DEF UpTo

LEMMA DaemonInvSays == DaemonInv => DaemonTypeOK /\ UnhealthyHasACause
  <1> SUFFICES ASSUME DaemonInv, process.pc = "up", ~Healthy
               PROVE  \E l \in Loop : \/ loop[l].hung
                                      \/ loop[l].sinceOk > FailureBudget
                                      \/ Silent(l) /\ ~Covered(kind[l])
    BY DEF DaemonInv, UnhealthyHasACause
  <1>1. PICK l \in Loop : Silent(l) \/ Erroring(l)
    BY DEF Healthy
  <1>2. loop[l] \in LoopRow /\ beat[l] \in BeatRow /\ WithinBudget(l) /\ FailingSinceOk(l)
    BY DEF DaemonInv
  <1>3. CASE Silent(l)
    <2>1. loop[l].hung \/ ~Covered(kind[l])
      BY <1>2, <1>3, KindSays DEF DaemonInv, LoopRow, BeatRow, WithinBudget, Covered, Silent
    <2> QED
      BY <1>3, <2>1
  <1>4. CASE Erroring(l)
    <2>1. loop[l].sinceOk > FailureBudget
      BY <1>2, <1>4, DaemonAssumption DEF LoopRow, BeatRow, FailingSinceOk, Erroring
    <2> QED
      BY <2>1
  <1> QED
    BY <1>1, <1>3, <1>4

\* A process that comes up.
JustBooted == DaemonTypeOK /\ loop = Booted /\ beat = createHeartbeat

LEMMA BootFits == JustBooted => DaemonInv
  <1> SUFFICES ASSUME DaemonTypeOK, loop = Booted, beat = createHeartbeat PROVE DaemonInv
    BY DEF JustBooted
  <1>1. ASSUME NEW l \in Loop
        PROVE  /\ Booted[l] \in LoopRow /\ createHeartbeat[l] \in BeatRow
               /\ WithinBudget(l) /\ FailingSinceOk(l)
    <2>1. kind[l] \in [timeout : Nat, pause : Nat, delay : Nat, slow : Nat, budget : Nat]
      BY KindSays
    <2>2. loop[l] = [pc |-> IF kind[l].delay > 0 THEN "wait" ELSE "op",
                     left |-> kind[l].delay, ran |-> 0, hung |-> FALSE, sinceOk |-> 0]
      BY DEF Booted
    <2>3. beat[l] = [age |-> 0, failing |-> Never]
      BY DEF createHeartbeat
    <2>4. loop[l] \in LoopRow /\ beat[l] \in BeatRow
      BY <2>1, <2>2, <2>3 DEF LoopRow, BeatRow, Never
    <2>5. WithinBudget(l)
      BY <2>1, <2>2, <2>3, KindSays DEF WithinBudget, Covered
    <2> QED
      BY <2>3, <2>4, <2>5 DEF FailingSinceOk
  <1>2. loop \in [Loop -> LoopRow]
    BY <1>1 DEF Booted
  <1>3. beat \in [Loop -> BeatRow]
    BY <1>1 DEF createHeartbeat
  <1> QED
    BY <1>1, <1>2, <1>3 DEF DaemonInv

\* What a step of one loop must show: its own row, and its beat.
LEMMA OneLoopFits ==
    ASSUME DaemonInv, NEW l \in Loop, UNCHANGED <<kind, process, outside>>,
           NEW r \in LoopRow, loop' = [loop EXCEPT ![l] = r],
           NEW b \in BeatRow, beat' = [beat EXCEPT ![l] = b],
           WithinBudget(l)', FailingSinceOk(l)'
    PROVE  DaemonInv'
  <1>1. loop' \in [Loop -> LoopRow] /\ beat' \in [Loop -> BeatRow]
    BY DEF DaemonInv
  <1>2. DaemonTypeOK'
    BY <1>1 DEF DaemonInv, DaemonTypeOK, LoopRow, BeatRow
  <1>3. ASSUME NEW k \in Loop
        PROVE  WithinBudget(k)' /\ FailingSinceOk(k)'
    <2>1. CASE k = l
      BY <2>1
    <2>2. CASE k # l
      <3>1. loop'[k] = loop[k] /\ beat'[k] = beat[k]
        BY <2>2 DEF DaemonInv
      <3> QED
        BY <3>1 DEF DaemonInv, WithinBudget, Covered, FailingSinceOk
    <2> QED
      BY <2>1, <2>2
  <1> QED
    BY <1>1, <1>2, <1>3 DEF DaemonInv

LEMMA DoneFits ==
    ASSUME DaemonInv, NEW l \in Loop, process.pc = "stopping",
           UNCHANGED <<kind, process, outside>>, loop' = Done(l), UNCHANGED beat
    PROVE  DaemonInv'
  <1> DEFINE r == [loop[l] EXCEPT !.pc = "done", !.hung = FALSE]
  <1>1. loop[l] \in LoopRow /\ beat[l] \in BeatRow
    BY DEF DaemonInv
  <1>2. r \in LoopRow
    BY <1>1 DEF LoopRow
  <1>3. loop' = [loop EXCEPT ![l] = r]
    BY DEF Done, DaemonInv
  <1>4. beat' = [beat EXCEPT ![l] = beat[l]]
    BY DEF DaemonInv
  <1>5. loop'[l] = r /\ beat'[l] = beat[l]
    BY <1>3 DEF DaemonInv
  <1>6. WithinBudget(l)'
    BY <1>1, <1>5 DEF WithinBudget, Covered, LoopRow
  <1>7. FailingSinceOk(l)'
    BY <1>1, <1>5 DEF DaemonInv, FailingSinceOk, LoopRow
  <1> HIDE DEF r
  <1> QED
    BY <1>1, <1>2, <1>3, <1>4, <1>6, <1>7, OneLoopFits

LEMMA IterationFits ==
    ASSUME DaemonInv, NEW l \in Loop, NEW outcome \in {"ok", "failed"},
           NEW left \in {0, kind[l].pause}, Iterated(l, outcome, left),
           UNCHANGED <<kind, process, outside>>
    PROVE  DaemonInv'
  <1>1. CASE process.pc = "stopping"
    BY <1>1, DoneFits DEF Iterated
  <1>2. CASE process.pc # "stopping"
    <2> DEFINE r == [pc |-> "wait", left |-> left, ran |-> 0, hung |-> FALSE,
                     sinceOk |-> IF outcome = "ok" THEN 0 ELSE loop[l].sinceOk]
               b == [age |-> 0, failing |-> CASE outcome = "ok" -> Never
                                              [] outcome = "failed" /\ beat[l].failing = Never -> 0
                                              [] OTHER -> beat[l].failing]
    <2>1. loop[l] \in LoopRow /\ beat[l] \in BeatRow /\ FailingSinceOk(l)
      BY DEF DaemonInv
    <2>2. /\ kind[l] \in [timeout : Nat, pause : Nat, delay : Nat, slow : Nat, budget : Nat]
          /\ Longest(kind[l]) \in Nat
          /\ Covered(kind[l]) => kind[l].pause + Longest(kind[l]) <= kind[l].budget
      BY KindSays DEF DaemonInv, Covered
    <2>3. left \in Nat /\ left <= kind[l].pause
      BY <2>2
    <2>4. r \in LoopRow
      BY <2>1, <2>3 DEF LoopRow
    <2>5. b \in BeatRow
      <3>1. b.failing \in Nat
        BY <2>1 DEF BeatRow, Never
      <3> QED
        BY <3>1 DEF BeatRow
    <2>6. loop' = [loop EXCEPT ![l] = r] /\ beat' = [beat EXCEPT ![l] = b]
      BY <1>2 DEF Iterated, RecordBeat, DaemonInv
    <2>7. loop'[l] = r /\ beat'[l] = b
      BY <2>6 DEF DaemonInv
    <2>8. WithinBudget(l)'
      BY <2>2, <2>3, <2>7 DEF WithinBudget, Covered
    <2>9. FailingSinceOk(l)'
      <3>1. b.failing # Never => b.failing <= r.sinceOk
        BY <2>1 DEF FailingSinceOk, LoopRow, BeatRow
      <3> QED
        BY <2>7, <3>1 DEF FailingSinceOk
    <2> HIDE DEF r, b
    <2> QED
      BY <2>4, <2>5, <2>6, <2>8, <2>9, OneLoopFits
  <1> QED
    BY <1>1, <1>2

LEMMA StartFits == ASSUME DaemonInv, NEW l \in Loop, StartOp(l) PROVE DaemonInv'
  <1>1. CASE process.pc = "stopping" /\ loop' = Done(l)
    BY <1>1, DoneFits DEF StartOp
  <1>2. CASE process.pc = "up" /\ loop[l].left = 0 /\ loop' = [loop EXCEPT ![l].pc = "op"]
    <2> DEFINE r == [loop[l] EXCEPT !.pc = "op"]
    <2>1. loop[l] \in LoopRow /\ beat[l] \in BeatRow /\ WithinBudget(l) /\ FailingSinceOk(l)
      BY DEF DaemonInv
    <2>2. r \in LoopRow
      BY <2>1 DEF LoopRow
    <2>3. loop' = [loop EXCEPT ![l] = r] /\ beat' = [beat EXCEPT ![l] = beat[l]]
      BY <1>2 DEF StartOp, DaemonInv
    <2>4. loop'[l] = r /\ beat'[l] = beat[l] /\ kind' = kind
      BY <2>3 DEF DaemonInv, StartOp
    <2>5. WithinBudget(l)'
      BY <1>2, <2>1, <2>4, KindSays DEF DaemonInv, StartOp, WithinBudget, Covered, LoopRow, BeatRow
    <2>6. FailingSinceOk(l)'
      BY <2>1, <2>4 DEF FailingSinceOk, LoopRow
    <2> HIDE DEF r
    <2> QED
      BY <2>1, <2>2, <2>3, <2>5, <2>6, OneLoopFits DEF StartOp
  <1> QED
    BY <1>1, <1>2 DEF StartOp

LEMMA ReturnFits == ASSUME DaemonInv, NEW l \in Loop, OpReturns(l) PROVE DaemonInv'
  BY IterationFits DEF OpReturns

LEMMA TimeoutFits == ASSUME DaemonInv, NEW l \in Loop, WithTimeout(l) PROVE DaemonInv'
  BY IterationFits DEF WithTimeout

LEMMA HangFits == ASSUME DaemonInv, NEW l \in Loop, OpHangs(l) PROVE DaemonInv'
  <1> DEFINE r == [loop[l] EXCEPT !.hung = TRUE]
  <1>1. loop[l] \in LoopRow /\ beat[l] \in BeatRow /\ FailingSinceOk(l)
    BY DEF DaemonInv
  <1>2. r \in LoopRow
    BY <1>1 DEF LoopRow
  <1>3. loop' = [loop EXCEPT ![l] = r] /\ beat' = [beat EXCEPT ![l] = beat[l]]
    BY DEF OpHangs, DaemonInv
  <1>4. loop'[l] = r /\ beat'[l] = beat[l]
    BY <1>3 DEF DaemonInv
  <1>5. WithinBudget(l)'
    BY <1>1, <1>4 DEF OpHangs, WithinBudget, Covered, LoopRow
  <1>6. FailingSinceOk(l)'
    BY <1>1, <1>4 DEF FailingSinceOk, LoopRow
  <1> HIDE DEF r
  <1> QED
    BY <1>1, <1>2, <1>3, <1>5, <1>6, OneLoopFits DEF OpHangs

\* Time passes for one loop: a call that works is not past its longest.
LEMMA TimeFits ==
    ASSUME DaemonInv, Tick, NEW l \in Loop
    PROVE  /\ loop'[l] \in LoopRow /\ beat'[l] \in BeatRow
           /\ WithinBudget(l)' /\ FailingSinceOk(l)'
  <1>1. loop[l] \in LoopRow /\ beat[l] \in BeatRow /\ WithinBudget(l) /\ FailingSinceOk(l)
    BY DEF DaemonInv
  <1>2. /\ kind[l] \in [timeout : Nat, pause : Nat, delay : Nat, slow : Nat, budget : Nat]
        /\ Longest(kind[l]) \in Nat
    BY KindSays DEF DaemonInv
  <1>3. /\ loop'[l] = [loop[l] EXCEPT !.left = IF @ > 0 THEN @ - 1 ELSE 0,
                          !.ran = IF loop[l].pc = "op" THEN UpTo(@, kind[l].budget) ELSE 0,
                          !.sinceOk = UpTo(@, FailureBudget)]
        /\ beat'[l] = [age |-> UpTo(beat[l].age, kind[l].budget),
                       failing |-> IF beat[l].failing = Never THEN Never
                                   ELSE UpTo(beat[l].failing, FailureBudget)]
        /\ kind' = kind
    BY DEF Tick
  <1>4. loop'[l] \in LoopRow
    <2>1. UpTo(loop[l].ran, kind[l].budget) \in Nat /\ UpTo(loop[l].sinceOk, FailureBudget) \in Nat
      BY <1>1, <1>2, UpToSays, DaemonAssumption DEF LoopRow
    <2>2. (IF loop[l].left > 0 THEN loop[l].left - 1 ELSE 0) \in Nat
      BY <1>1 DEF LoopRow
    <2>3. PICK i \in Nat, r \in Nat, s \in Nat :
            loop'[l] = [loop[l] EXCEPT !.left = i, !.ran = r, !.sinceOk = s]
      <3> DEFINE i == IF loop[l].left > 0 THEN loop[l].left - 1 ELSE 0
                 r == IF loop[l].pc = "op" THEN UpTo(loop[l].ran, kind[l].budget) ELSE 0
                 s == UpTo(loop[l].sinceOk, FailureBudget)
      <3>1. i \in Nat /\ r \in Nat /\ s \in Nat
        BY <2>1, <2>2
      <3>2. loop'[l] = [loop[l] EXCEPT !.left = i, !.ran = r, !.sinceOk = s]
        BY <1>3
      <3> HIDE DEF i, r, s
      <3> QED
        BY <3>1, <3>2
    <2> QED
      BY <1>1, <2>3 DEF LoopRow
  <1>5. beat'[l] \in BeatRow
    <2>1. UpTo(beat[l].age, kind[l].budget) \in Nat /\ UpTo(beat[l].failing, FailureBudget) \in Nat
      BY <1>1, <1>2, UpToSays, DaemonAssumption DEF BeatRow
    <2> QED
      BY <1>3, <2>1 DEF BeatRow, Never
  <1>6. WithinBudget(l)'
    <2>1. CASE loop[l].pc = "wait"
      <3>1. loop[l].left > 0 /\ process.pc = "up"
        BY <2>1 DEF Tick, NothingOverdue
      <3>2. UpTo(beat[l].age, kind[l].budget) <= beat[l].age + 1
        BY <1>1, <1>2, UpToSays DEF BeatRow
      <3>3. beat'[l].age + loop'[l].left <= beat[l].age + loop[l].left
        BY <1>1, <1>3, <1>5, <3>1, <3>2 DEF LoopRow, BeatRow
      <3>4. loop'[l].pc = "wait" /\ ~loop'[l].hung /\ loop'[l].ran = 0
        BY <1>1, <1>3, <2>1 DEF LoopRow, WithinBudget, Covered
      <3>5. Covered(kind[l]) => beat[l].age + loop[l].left + Longest(kind[l]) <= kind[l].budget
        BY <1>1, <2>1 DEF WithinBudget, Covered
      <3> QED
        BY <1>1, <1>2, <1>3, <1>4, <1>5, <3>3, <3>4, <3>5 DEF WithinBudget, Covered, LoopRow, BeatRow
    <2>2. CASE loop[l].pc = "op" /\ (loop[l].hung \/ ~Covered(kind[l]))
      BY <1>1, <1>3, <2>2 DEF WithinBudget, Covered, LoopRow
    <2>3. CASE loop[l].pc = "op" /\ ~loop[l].hung /\ Covered(kind[l])
      <3>1. loop[l].ran < Longest(kind[l])
        BY <1>1, <1>2, <2>3 DEF Tick, NothingOverdue, Longest, LoopRow
      <3>2. Longest(kind[l]) <= kind[l].budget
        BY <1>2, <2>3 DEF Covered
      <3>3. loop'[l].ran = loop[l].ran + 1
        BY <1>1, <1>2, <1>3, <2>3, <3>1, <3>2 DEF UpTo, LoopRow
      <3>4. beat'[l].age <= beat[l].age + 1
        BY <1>1, <1>2, <1>3, UpToSays DEF BeatRow
      <3>5. loop'[l].pc = "op" /\ ~loop'[l].hung
        BY <1>1, <1>3, <2>3 DEF LoopRow
      <3>6. beat[l].age + Longest(kind[l]) <= kind[l].budget + loop[l].ran
        BY <1>1, <2>3 DEF WithinBudget, Covered
      <3> QED
        BY <1>1, <1>2, <1>3, <1>4, <1>5, <3>1, <3>3, <3>4, <3>5, <3>6
        DEF WithinBudget, Covered, LoopRow, BeatRow
    <2>4. CASE loop[l].pc = "done"
      <3>1. process.pc = "stopping" /\ process'.pc = process.pc /\ loop'[l].pc = "done"
        BY <1>1, <1>3, <2>4 DEF WithinBudget, Covered, LoopRow, Tick, DaemonInv, DaemonTypeOK
      <3> QED
        BY <3>1 DEF WithinBudget, Covered
    <2> QED
      BY <1>1, <2>1, <2>2, <2>3, <2>4 DEF LoopRow
  <1>7. FailingSinceOk(l)'
    <2>1. CASE beat[l].failing = Never
      BY <1>3, <2>1 DEF FailingSinceOk
    <2>2. CASE beat[l].failing # Never
      <3>1. beat[l].failing <= loop[l].sinceOk
        BY <1>1, <2>2 DEF FailingSinceOk
      <3>2. UpTo(beat[l].failing, FailureBudget) <= UpTo(loop[l].sinceOk, FailureBudget)
        BY <1>1, <3>1, UpToKeepsOrder, DaemonAssumption DEF LoopRow, BeatRow
      <3>3. /\ loop'[l].sinceOk = UpTo(loop[l].sinceOk, FailureBudget)
            /\ beat'[l].failing = UpTo(beat[l].failing, FailureBudget)
        BY <1>1, <1>3, <2>2 DEF LoopRow
      <3> QED
        BY <3>2, <3>3 DEF FailingSinceOk
    <2> QED
      BY <2>1, <2>2
  <1> QED
    BY <1>4, <1>5, <1>6, <1>7

LEMMA TickFits == ASSUME DaemonInv, Tick PROVE DaemonInv'
  <1>1. loop' \in [Loop -> LoopRow] /\ beat' \in [Loop -> BeatRow]
    BY TimeFits DEF Tick
  <1>2. process' \in [pc : {"up", "stopping"}, clock : Nat]
    <2>1. process \in [pc : {"up", "stopping"}, clock : Nat]
      BY DEF DaemonInv, DaemonTypeOK
    <2>2. PICK c \in Nat : process' = [process EXCEPT !.clock = c]
      <3>1. (IF process.pc = "up" /\ Healthy THEN 0 ELSE process.clock + 1) \in Nat
        BY <2>1
      <3> QED
        BY <3>1 DEF Tick
    <2> QED
      BY <2>1, <2>2
  <1>3. DaemonTypeOK'
    BY <1>1, <1>2 DEF Tick, DaemonInv, DaemonTypeOK, LoopRow, BeatRow
  <1> QED
    BY <1>1, <1>3, TimeFits DEF DaemonInv

LEMMA SignalFits == ASSUME DaemonInv, SignalStop PROVE DaemonInv'
  <1>1. outside' \in [down : BOOLEAN, deploys : 0 .. Deploys, outages : 0 .. Outages]
    BY DaemonAssumption DEF SignalStop, DaemonInv, DaemonTypeOK
  <1>2. DaemonTypeOK'
    BY <1>1 DEF SignalStop, DaemonInv, DaemonTypeOK
  <1>3. \A l \in Loop : WithinBudget(l)' /\ FailingSinceOk(l)'
    BY DEF SignalStop, DaemonInv, WithinBudget, Covered, FailingSinceOk
  <1> QED
    BY <1>2, <1>3 DEF SignalStop, DaemonInv

LEMMA BootStaysFit == ASSUME DaemonInv, BootDaemon PROVE DaemonInv'
  <1>1. /\ kind' = kind /\ outside' = outside
        /\ loop' = Booted' /\ beat' = createHeartbeat'
        /\ process' = [pc |-> "up", clock |-> 0]
    BY DEF BootDaemon, Booted, createHeartbeat
  <1>2. Booted \in [Loop -> LoopRow] /\ createHeartbeat \in [Loop -> BeatRow]
    <2>1. ASSUME NEW l \in Loop
          PROVE  Booted[l] \in LoopRow
      BY KindSays DEF DaemonInv, Booted, LoopRow
    <2> QED
      BY <2>1 DEF Booted, createHeartbeat, BeatRow, Never
  <1>3. DaemonTypeOK'
    BY <1>1, <1>2 DEF BootDaemon, DaemonInv, DaemonTypeOK, LoopRow, BeatRow
  <1>4. JustBooted'
    BY <1>1, <1>3 DEF JustBooted
  <1>5. JustBooted' => DaemonInv'
    BY BootFits, PTL
  <1> QED
    BY <1>4, <1>5

LEMMA WorldFits ==
    ASSUME DaemonInv, DependenciesGo \/ DependenciesReturn
    PROVE  DaemonInv'
  <1>1. outside' \in [down : BOOLEAN, deploys : 0 .. Deploys, outages : 0 .. Outages]
    <2>1. outside \in [down : BOOLEAN, deploys : 0 .. Deploys, outages : 0 .. Outages]
      BY DEF DaemonInv, DaemonTypeOK
    <2>2. CASE DependenciesGo
      <3>1. outside.outages - 1 \in 0 .. Outages
        BY <2>1, <2>2, DaemonAssumption DEF DependenciesGo
      <3> QED
        BY <2>1, <2>2, <3>1 DEF DependenciesGo
    <2>3. CASE DependenciesReturn
      BY <2>1, <2>3 DEF DependenciesReturn
    <2> QED
      BY <2>2, <2>3
  <1>2. UNCHANGED <<kind, loop, beat, process>>
    BY DEF DependenciesGo, DependenciesReturn
  <1> QED
    BY <1>1, <1>2 DEF DaemonInv, DaemonTypeOK, WithinBudget, Covered, FailingSinceOk

LEMMA DaemonStarts == DaemonInit => DaemonInv
  <1> SUFFICES ASSUME DaemonInit PROVE DaemonInv
    OBVIOUS
  <1>1. kind \in [Loop -> Kinds]
    BY DEF DaemonInit
  <1>2. \A l \in Loop : kind[l].delay \in Nat
    BY <1>1, DaemonAssumption
  <1>3. DaemonTypeOK
    <2>1. \A l \in Loop :
            /\ loop[l] = [pc |-> IF kind[l].delay > 0 THEN "wait" ELSE "op",
                          left |-> kind[l].delay, ran |-> 0, hung |-> FALSE, sinceOk |-> 0]
            /\ beat[l] = [age |-> 0, failing |-> Never]
      BY DEF DaemonInit, Booted, createHeartbeat
    <2>2. \A l \in Loop :
            /\ loop[l].pc \in {"wait", "op", "done"}
            /\ loop[l].left \in Nat /\ loop[l].ran \in Nat
            /\ loop[l].hung \in BOOLEAN /\ loop[l].sinceOk \in Nat
            /\ beat[l].age \in Nat /\ beat[l].failing \in Nat
      <3> SUFFICES ASSUME NEW l \in Loop
                   PROVE  /\ loop[l].pc \in {"wait", "op", "done"}
                          /\ loop[l].left \in Nat /\ loop[l].ran \in Nat
                          /\ loop[l].hung \in BOOLEAN /\ loop[l].sinceOk \in Nat
                          /\ beat[l].age \in Nat /\ beat[l].failing \in Nat
        OBVIOUS
      <3>1. PICK p \in {"wait", "op"}, d \in Nat :
              loop[l] = [pc |-> p, left |-> d, ran |-> 0, hung |-> FALSE, sinceOk |-> 0]
        <4>1. CASE kind[l].delay > 0
          BY <1>2, <2>1, <4>1
        <4>2. CASE ~(kind[l].delay > 0)
          BY <1>2, <2>1, <4>2
        <4> QED
          BY <4>1, <4>2
      <3>2. beat[l].age \in Nat /\ beat[l].failing \in Nat
        <4>1. beat[l] = [age |-> 0, failing |-> Never]
          BY <2>1
        <4> QED
          BY <4>1 DEF Never
      <3> QED
        BY <3>1, <3>2
    <2>3. /\ process \in [pc : {"up", "stopping"}, clock : Nat]
          /\ outside \in [down : BOOLEAN, deploys : 0 .. Deploys, outages : 0 .. Outages]
      BY DaemonAssumption DEF DaemonInit
    <2> QED
      BY <1>1, <2>2, <2>3 DEF DaemonTypeOK
  <1> QED
    BY <1>3, BootFits DEF DaemonInit, JustBooted

LEMMA DaemonStepIsSafe == DaemonInv /\ [DaemonNext]_daemonVars => DaemonInv'
  <1> SUFFICES ASSUME DaemonInv, [DaemonNext]_daemonVars PROVE DaemonInv'
    OBVIOUS
  <1>1. ASSUME NEW l \in Loop, StartOp(l) \/ OpReturns(l) \/ OpHangs(l) \/ WithTimeout(l)
        PROVE  DaemonInv'
    BY <1>1, StartFits, ReturnFits, HangFits, TimeoutFits
  <1>2. CASE Tick
    BY <1>2, TickFits
  <1>3. CASE SignalStop
    BY <1>3, SignalFits
  <1>4. CASE BootDaemon
    BY <1>4, BootStaysFit
  <1>5. CASE DependenciesGo \/ DependenciesReturn
    BY <1>5, WorldFits
  <1>6. CASE UNCHANGED daemonVars
    BY <1>6 DEF daemonVars, DaemonInv, DaemonTypeOK, WithinBudget, Covered, FailingSinceOk
  <1> QED
    BY <1>1, <1>2, <1>3, <1>4, <1>5, <1>6 DEF DaemonNext

\* However calls last, fail and hang, and whenever a signal comes: /healthz
\* calls the worker unhealthy only for a call that never returns, a loop that has
\* not succeeded for longer than the failure budget, or a silent loop whose stall
\* budget is below its longest gap (health.ts:9-13, run-worker-daemon.ts:56-78).
THEOREM HealthHasACause == DaemonSpec => OnlyWithACause
  <1>1. DaemonInit => DaemonInv
    BY DaemonStarts
  <1>2. DaemonInv /\ [DaemonNext]_daemonVars => DaemonInv'
    BY DaemonStepIsSafe
  <1> QED
    BY <1>1, <1>2, DaemonInvSays, PTL DEF DaemonSpec, OnlyWithACause

=============================================================================
