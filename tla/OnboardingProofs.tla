-------------------------- MODULE OnboardingProofs --------------------------
(***************************************************************************)
(* Proofs about Onboarding, for any repositories, workers, owner strings,  *)
(* attempts, builds, agent turns and bounds: its types, that no row is     *)
(* stranded, and that it implements TargetProposal.                        *)
(***************************************************************************)
EXTENDS Onboarding, FiniteSetTheorems, TLAPS

USE OnboardingAssumption

-----------------------------------------------------------------------------
(* Type correctness.                                                       *)

Phases == {"resolve", "classify", "store", "review", "agent", "turn",
           "build", "waiting", "manifest", "verify", "pin", "rotate", "advance"}

\* A worker that is not idle has a claim.
LEMMA ClaimFields ==
    ASSUME TypeOK, NEW w \in Worker, worker[w] # Idle
    PROVE  /\ worker[w] \in Claimed
           /\ worker[w].r \in Repo
           /\ worker[w].fence \in Nat
           /\ worker[w].phase \in Phases
           /\ worker[w].from \in States
           /\ worker[w].to \in States
           /\ worker[w].plan \in Plans
           /\ worker[w].image \in Builds
           /\ worker[w].ref \in Nat
  BY DEF TypeOK, Claimed, Phases

\* A repository's row.
LEMMA RowFields ==
    ASSUME NEW x \in Row
    PROVE  /\ x.state \in States \union {"ABSENT"}
           /\ x.attempts \in 0..MaxAttempts
           /\ x.fence \in Nat
           /\ x.owner \in Owners
           /\ x.lease \in {"none", "live", "expired"}
           /\ x.plan \in Plans
           /\ x.image \in Builds
           /\ x.token \in Turns
  BY DEF Row

\* Some number below the count of workers and two is on nobody's claim.
LEMMA FreshFence ==
    ASSUME TypeOK, NEW r \in Repo
    PROVE  /\ NewFence(r) \in Nat
           /\ \A w \in Worker : ~(worker[w] # Idle /\ worker[w].r = r /\ worker[w].fence = NewFence(r))
<1> DEFINE n == Cardinality(Worker)
           taken(w) == worker[w] # Idle /\ worker[w].r = r
           f == [w \in Worker |-> IF taken(w) THEN worker[w].fence ELSE 0]
           T == {f[w] : w \in Worker}
<1>1. n \in Nat
  BY FS_CardinalityType
<1>2. f \in Surjection(Worker, T)
  <2>1. f \in [Worker -> T]
    OBVIOUS
  <2> QED
    BY <2>1 DEF Surjection
<1>3. IsFiniteSet(T) /\ Cardinality(T) <= n
  <2> HIDE DEF f, T
  <2> QED
    BY <1>2, FS_Surjection
<1>4. \E k \in 1 .. n + 1 : k \notin T
  <2> SUFFICES ASSUME \A k \in 1 .. n + 1 : k \in T PROVE FALSE
    OBVIOUS
  <2> HIDE DEF f, T, n
  <2>1. 1 .. n + 1 \in SUBSET T
    OBVIOUS
  <2>2. Cardinality(1 .. n + 1) = n + 1
    BY <1>1, FS_Interval
  <2>3. Cardinality(1 .. n + 1) <= Cardinality(T) /\ Cardinality(T) \in Nat
    BY <1>3, <2>1, FS_Subset, FS_CardinalityType
  <2> QED
    BY <1>1, <1>3, <2>2, <2>3
<1>5. PICK k \in 1 .. n + 1 : k \notin T
  BY <1>4
<1>6. \A w \in Worker : ~(worker[w] # Idle /\ worker[w].r = r /\ worker[w].fence = k)
  BY <1>5
<1>7. /\ NewFence(r) \in 1 .. n + 1
      /\ \A w \in Worker : ~(worker[w] # Idle /\ worker[w].r = r /\ worker[w].fence = NewFence(r))
  <2> HIDE DEF f, T
  <2> QED
    BY <1>5, <1>6 DEF NewFence
<1> QED
  BY <1>1, <1>7

LEMMA RowWritten ==
    ASSUME TypeOK, NEW r \in Repo, NEW x \in Row, Write(r, x)
    PROVE  row' \in [Repo -> Row]
  BY DEF TypeOK, Write

LEMMA WorkerSteps ==
    ASSUME TypeOK, NEW w \in Worker, NEW c \in Claimed \union {Idle},
           worker' = [worker EXCEPT ![w] = c]
    PROVE  worker' \in [Worker -> Claimed \union {Idle}]
  BY DEF TypeOK

\* The fields of a row, one by one, keep it a row.
LEMMA RowUpdates ==
    ASSUME NEW x \in Row
    PROVE  /\ \A v \in States \union {"ABSENT"} : [x EXCEPT !.state = v] \in Row
           /\ \A v \in 0..MaxAttempts : [x EXCEPT !.attempts = v] \in Row
           /\ \A v \in Nat : [x EXCEPT !.fence = v] \in Row
           /\ \A v \in Owners : [x EXCEPT !.owner = v] \in Row
           /\ \A v \in {"none", "live", "expired"} : [x EXCEPT !.lease = v] \in Row
           /\ \A v \in BOOLEAN : [x EXCEPT !.commit = v] \in Row
           /\ \A v \in Plans : [x EXCEPT !.plan = v] \in Row
           /\ \A v \in Builds : [x EXCEPT !.image = v] \in Row
           /\ \A v \in BOOLEAN : [x EXCEPT !.manifest = v] \in Row
           /\ \A v \in Turns : [x EXCEPT !.token = v] \in Row
<1>1. \A v \in States \union {"ABSENT"} : [x EXCEPT !.state = v] \in Row
  BY DEF Row
<1>2. \A v \in 0..MaxAttempts : [x EXCEPT !.attempts = v] \in Row
  BY DEF Row
<1>3. \A v \in Nat : [x EXCEPT !.fence = v] \in Row
  BY DEF Row
<1>4. \A v \in Owners : [x EXCEPT !.owner = v] \in Row
  BY DEF Row
<1>5. \A v \in {"none", "live", "expired"} : [x EXCEPT !.lease = v] \in Row
  BY DEF Row
<1>6. \A v \in BOOLEAN : [x EXCEPT !.commit = v] \in Row
  BY Zenon DEF Row
<1>7. \A v \in Plans : [x EXCEPT !.plan = v] \in Row
  BY DEF Row
<1>8. \A v \in Builds : [x EXCEPT !.image = v] \in Row
  BY DEF Row
<1>9. \A v \in BOOLEAN : [x EXCEPT !.manifest = v] \in Row
  BY Zenon DEF Row
<1>10. \A v \in Turns : [x EXCEPT !.token = v] \in Row
  BY DEF Row
<1> QED
  BY <1>1, <1>2, <1>3, <1>4, <1>5, <1>6, <1>7, <1>8, <1>9, <1>10

\* A restart wipes what the last attempt had recorded.
LEMMA RequeuedRow ==
    ASSUME NEW x \in Row
    PROVE  /\ Requeued(x) \in Row
           /\ Requeued(x).state = "PENDING_PLAN"
           /\ Requeued(x).image = 0
           /\ Requeued(x).attempts = 0
<1> DEFINE y == [[x EXCEPT !.commit = FALSE] EXCEPT !.manifest = FALSE]
<1>1. y \in Row
  BY RowUpdates
<1>2. Requeued(x) = [y EXCEPT !.state = "PENDING_PLAN", !.plan = "none", !.image = 0, !.attempts = 0]
  BY DEF Row, Requeued
<1> DEFINE z == [[[[y EXCEPT !.state = "PENDING_PLAN"] EXCEPT !.plan = "none"] EXCEPT !.image = 0]
                 EXCEPT !.attempts = 0]
<1> HIDE DEF y
<1>3. Requeued(x) = z
  BY <1>1, <1>2 DEF Row
<1>4. 0 \in 0..MaxAttempts /\ 0 \in Builds /\ "none" \in Plans /\ "PENDING_PLAN" \in States
  BY DEF Builds, Plans, States
<1>5. z \in Row
  BY <1>1, <1>4, RowUpdates
<1>6. z.state = "PENDING_PLAN" /\ z.image = 0 /\ z.attempts = 0
  BY <1>1 DEF Row
<1> QED
  BY <1>3, <1>5, <1>6

\* Giving a lease up changes nothing else of a row.
LEMMA UnleasedRow ==
    ASSUME NEW x \in Row
    PROVE  /\ Unleased(x) \in Row
           /\ Unleased(x).lease = "none"
           /\ Unleased(x).state = x.state
           /\ Unleased(x).attempts = x.attempts
           /\ Unleased(x).image = x.image
           /\ Unleased(x).plan = x.plan
  BY DEF Row, Unleased, Owners

LEMMA ClaimedRow ==
    ASSUME NEW x \in Row, NEW w \in Worker, NEW f \in Nat, x.attempts < MaxAttempts
    PROVE  [x EXCEPT !.owner = OwnerOf[w], !.lease = "live", !.attempts = @ + 1, !.fence = f] \in Row
<1> DEFINE y == [[[[x EXCEPT !.owner = OwnerOf[w]] EXCEPT !.lease = "live"]
                  EXCEPT !.attempts = x.attempts + 1] EXCEPT !.fence = f]
<1>1. OwnerOf[w] \in Owners /\ x.attempts + 1 \in 0..MaxAttempts
  BY RowFields DEF Owners
<1>2. y \in Row
  BY <1>1, RowUpdates
<1>3. [x EXCEPT !.owner = OwnerOf[w], !.lease = "live", !.attempts = @ + 1, !.fence = f] = y
  BY DEF Row
<1> QED
  BY <1>2, <1>3

LEMMA FailedRow ==
    ASSUME NEW x \in Row, NEW s \in States \union {"ABSENT"}
    PROVE  [Unleased(x) EXCEPT !.state = s] \in Row
  BY UnleasedRow, RowUpdates

LEMMA ReleasedRow ==
    ASSUME NEW x \in Row
    PROVE  [Unleased(x) EXCEPT !.attempts = IF @ > 0 THEN @ - 1 ELSE 0] \in Row
<1> DEFINE y == Unleased(x)
           n == IF y.attempts > 0 THEN y.attempts - 1 ELSE 0
<1>1. y \in Row
  BY UnleasedRow
<1>2. n \in 0..MaxAttempts
  BY <1>1, RowFields
<1> HIDE DEF y
<1>3. [y EXCEPT !.attempts = n] \in Row
  BY <1>1, <1>2, RowUpdates
<1>4. [y EXCEPT !.attempts = IF @ > 0 THEN @ - 1 ELSE 0] = [y EXCEPT !.attempts = n]
  BY <1>1 DEF Row
<1> QED
  BY <1>3, <1>4 DEF y

\* What an advance leaves in the row.
LEMMA MovedRow ==
    ASSUME TypeOK, NEW c \in Claimed, NEW to \in States
    PROVE  /\ Moved(c, to) \in Row
           /\ Moved(c, to).state = to
           /\ Moved(c, to).attempts = 0
           /\ Moved(c, to).lease = "none"
           /\ Moved(c, to).image = IF c.from = "PENDING_BUILD" THEN c.image ELSE row[c.r].image
<1> DEFINE x == Unleased(row[c.r])
           p == IF c.from = "PENDING_PLAN" THEN c.plan ELSE x.plan
           i == IF c.from = "PENDING_BUILD" THEN c.image ELSE x.image
           m == IF c.from = "PENDING_MANIFEST" THEN TRUE ELSE x.manifest
           y == [[[[[x EXCEPT !.state = to] EXCEPT !.attempts = 0] EXCEPT !.plan = p]
                  EXCEPT !.image = i] EXCEPT !.manifest = m]
<1>1. row[c.r] \in Row
  BY DEF TypeOK, Claimed
<1>2. x \in Row /\ x.image = row[c.r].image /\ x.lease = "none"
  BY <1>1, UnleasedRow
<1> HIDE DEF x
<1>3. p \in Plans /\ i \in Builds /\ 0 \in 0..MaxAttempts
  BY <1>2, RowFields DEF Claimed
<1>4. m \in BOOLEAN
  BY <1>2, Zenon DEF Row
<1>5. y \in Row
  <2> HIDE DEF p, i, m
  <2> QED
    BY <1>2, <1>3, <1>4, RowUpdates
<1>6. Moved(c, to) = [x EXCEPT !.state = to, !.attempts = 0, !.plan = p, !.image = i, !.manifest = m]
  BY <1>2 DEF Moved, Row, x
<1>7. Moved(c, to) = y
  <2> HIDE DEF p, i, m
  <2> QED
    BY <1>2, <1>6 DEF Row
<1>8. y.state = to /\ y.attempts = 0 /\ y.lease = "none" /\ y.image = i
  <2> HIDE DEF p, i, m
  <2> QED
    BY <1>2 DEF Row
<1> QED
  BY <1>2, <1>5, <1>7, <1>8

LEMMA AbsentRow == Absent \in Row /\ [Absent EXCEPT !.state = "PENDING_PLAN"] \in Row
<1>1. Absent \in Row
  BY DEF Absent, Row, Owners, Plans, Builds, Turns
<1> QED
  BY <1>1, RowUpdates DEF States

LEMMA TypeInit == Init => TypeOK
<1> SUFFICES ASSUME Init PROVE TypeOK
  OBVIOUS
<1>1. (CHOOSE r \in Repo : TRUE) \in Repo
  OBVIOUS
<1> QED
  BY <1>1, AbsentRow DEF Init, Fresh, TypeOK, Builds, BuildStates

\* A step of a worker's own keeps its claim a claim.
LEMMA ClaimUpdates ==
    ASSUME NEW c \in Claimed
    PROVE  /\ \A v \in Phases : [c EXCEPT !.phase = v] \in Claimed
           /\ \A v \in States : [c EXCEPT !.to = v] \in Claimed
           /\ \A v \in Plans : [c EXCEPT !.plan = v] \in Claimed
           /\ \A v \in Builds : [c EXCEPT !.image = v] \in Claimed
           /\ \A v \in Nat : [c EXCEPT !.ref = v] \in Claimed
  BY DEF Claimed, Phases

LEMMA Goes ==
    ASSUME TypeOK, NEW w \in Worker, worker[w] # Idle, NEW p \in Phases, Go(w, p)
    PROVE  /\ worker' = [worker EXCEPT ![w] = [worker[w] EXCEPT !.phase = p]]
           /\ worker' \in [Worker -> Claimed \union {Idle}]
<1>1. worker[w] \in Claimed
  BY ClaimFields
<1>2. [worker[w] EXCEPT !.phase = p] \in Claimed
  BY <1>1, ClaimUpdates
<1>3. worker' = [worker EXCEPT ![w] = [worker[w] EXCEPT !.phase = p]]
  BY DEF Go, TypeOK
<1> QED
  BY <1>2, <1>3, WorkerSteps

LEMMA Stops ==
    ASSUME TypeOK, NEW w \in Worker, Stop(w)
    PROVE  worker' \in [Worker -> Claimed \union {Idle}]
  BY WorkerSteps DEF Stop

LEMMA LeavesFor ==
    ASSUME TypeOK, NEW w \in Worker, worker[w] # Idle, NEW to \in States, Leaves(w, to)
    PROVE  /\ worker' = [worker EXCEPT ![w] = [worker[w] EXCEPT !.phase = "advance", !.to = to]]
           /\ worker' \in [Worker -> Claimed \union {Idle}]
<1>1. worker[w] \in Claimed
  BY ClaimFields
<1>2. [[worker[w] EXCEPT !.phase = "advance"] EXCEPT !.to = to] \in Claimed
  BY <1>1, ClaimUpdates DEF Phases
<1>3. [[worker[w] EXCEPT !.phase = "advance"] EXCEPT !.to = to] = [worker[w] EXCEPT !.phase = "advance", !.to = to]
  BY <1>1 DEF Claimed
<1>4. worker' = [worker EXCEPT ![w] = [worker[w] EXCEPT !.phase = "advance", !.to = to]]
  BY DEF Leaves, TypeOK
<1> QED
  BY <1>2, <1>3, <1>4, WorkerSteps

\* What a claim takes along is a claim, and fits the state it was made in.
TakenBy(x, r, f) ==
    [phase |-> FirstPhase(x), r |-> r, fence |-> f, from |-> x.state, ref |-> 0, to |-> x.state,
     plan |-> IF x.state \in {"PENDING_BUILD", "PENDING_MANIFEST"} THEN x.plan ELSE "none",
     image |-> IF x.state \in {"PENDING_MANIFEST", "APPROVED"} THEN x.image ELSE 0]

LEMMA FirstPhases ==
    ASSUME NEW x \in Row, x.state \in Working
    PROVE  /\ FirstPhase(x) \in Phases
           /\ x.state = "PENDING_PLAN" => FirstPhase(x) \in {"classify", "resolve"}
           /\ x.state = "PENDING_BUILD" => FirstPhase(x) = "build"
           /\ x.state = "PENDING_MANIFEST" => FirstPhase(x) = "manifest"
           /\ x.state = "APPROVED" => FirstPhase(x) = "verify"
  BY DEF FirstPhase, Working, Phases

LEMMA TakenIsAClaim ==
    ASSUME NEW x \in Row, x.state \in Working, NEW r \in Repo, NEW f \in Nat
    PROVE  TakenBy(x, r, f) \in Claimed
<1>1. FirstPhase(x) \in Phases
  BY FirstPhases
<1>2. x.state \in States /\ x.plan \in Plans /\ x.image \in Builds /\ 0 \in Builds /\ "none" \in Plans
  BY RowFields DEF Working, States, Builds, Plans
<1> QED
  BY <1>1, <1>2 DEF TakenBy, Claimed, Phases

LEMMA ClaimTaken ==
    ASSUME TypeOK, NEW w \in Worker, NEW r \in Repo, Claim(w, r)
    PROVE  worker' = [worker EXCEPT ![w] = IF row[r].state \in Working
                                           THEN TakenBy(row[r], r, NewFence(r)) ELSE Idle]
  BY DEF Claim, TakenBy

\* A step that writes at most a row and a worker's claim.
LEMMA TypeFrame ==
    ASSUME TypeOK, row' \in [Repo -> Row], worker' \in [Worker -> Claimed \union {Idle}],
           UNCHANGED <<outside, target, sweeper, blessed>>,
           retries' \in 0..MaxRetries, aborts' \in 0..MaxAborts, UNCHANGED <<revokes, sweeps>>
    PROVE  TypeOK'
  BY DEF TypeOK, outside, target

-----------------------------------------------------------------------------
(* The inductive invariant: what a claim carries fits the state it was     *)
(* made in, what a row records fits the row's state, and the worker whose  *)
(* lease holds knows the row's state.                                      *)

ClaimFits(c, approved, pins) ==
    /\ c.phase \in {"resolve", "classify", "store", "review", "agent", "turn"} => c.from = "PENDING_PLAN"
    /\ c.phase \in {"build", "waiting"} => c.from = "PENDING_BUILD"
    /\ c.phase = "manifest" => c.from = "PENDING_MANIFEST"
    /\ c.phase \in {"verify", "pin", "rotate"} => c.from = "APPROVED" /\ c.image \in approved[c.r]
    /\ c.phase = "advance" =>
         \/ c.from = "PENDING_PLAN" /\ c.to \in {"PENDING_BUILD", "UNSUPPORTED"}
         \/ c.from = "PENDING_BUILD" /\ c.to = "PENDING_MANIFEST" /\ c.image # 0
         \/ c.from = "APPROVED" /\ c.to = "CONFIGURED" /\ pins[c.r] # 0

RowFits(x, approved) ==
    /\ x.state \in {"PENDING_MANIFEST", "AWAITING_APPROVAL", "APPROVED"} => x.image # 0
    /\ x.state = "APPROVED" => x.image \in approved
    /\ x.state = "AWAITING_APPROVAL" => x.attempts = 0
    /\ x.state \in Working /\ x.attempts >= MaxAttempts => x.lease # "none"

Busy == {w \in Worker : worker[w] # Idle}
OwnFences == \A v, w \in Busy : worker[v].r = worker[w].r /\ worker[v].fence = worker[w].fence => v = w
HolderKnows == \A w \in Worker : Held(w) => row[worker[w].r].state = worker[w].from

RowsFit == \A r \in Repo : RowFits(row[r], blessed[r])
ClaimsFit == \A w \in Busy : ClaimFits(worker[w], blessed, profile)
Fits == RowsFit /\ ClaimsFit /\ OwnFences /\ HolderKnows

IInv == TypeOK /\ Fits

\* An approval adds a real build to the approved ones, so that the types
\* need what a proposal records.
LEMMA TypeNext == TypeOK /\ RowsFit /\ [Next]_vars => TypeOK'
<1> SUFFICES ASSUME TypeOK, RowsFit, [Next]_vars PROVE TypeOK'
  OBVIOUS
<1> USE DEF bounds
<1>rows. row \in [Repo -> Row] /\ worker \in [Worker -> Claimed \union {Idle}]
  BY DEF TypeOK
<1>counts. retries \in 0..MaxRetries /\ aborts \in 0..MaxAborts
  BY DEF TypeOK
<1>counted. /\ retries < MaxRetries => retries + 1 \in 0..MaxRetries
            /\ aborts < MaxAborts => aborts + 1 \in 0..MaxAborts
  BY <1>counts
<1>states. /\ {"PENDING_PLAN", "FAILED", "APPROVED", "AWAITING_APPROVAL", "UNSUPPORTED", "CONFIGURED",
                "PENDING_BUILD", "PENDING_MANIFEST"} \subseteq States
           /\ "recipe" \in Plans /\ "refused" \in Plans /\ "none" \in Plans
           /\ 0 \in Builds /\ 0 \in Turns /\ Build \subseteq Builds /\ Turn \subseteq Turns
           /\ Build \subseteq Nat /\ Turn \subseteq Nat
  BY DEF States, Plans, Builds, Turns
<1>queue. ASSUME NEW r \in Repo, Enqueue(r) \/ Retry(r)
          PROVE  TypeOK'
  <2>1. Requeued(row[r]) \in Row
    BY <1>rows, RequeuedRow
  <2>2. [Absent EXCEPT !.state = "PENDING_PLAN"] \in Row
    BY AbsentRow
  <2>3. row' \in [Repo -> Row]
    BY <1>queue, <2>1, <2>2, RowWritten DEF Enqueue, Retry
  <2>4. retries' \in 0..MaxRetries
    BY <1>queue, <1>counts, <1>counted DEF Enqueue, Retry
  <2> QED
    BY <1>queue, <1>rows, <1>counts, <2>3, <2>4, TypeFrame DEF Enqueue, Retry
<1>approve. ASSUME NEW r \in Repo, Approve(r)
            PROVE  TypeOK'
  <2>1. row' \in [Repo -> Row]
    BY <1>approve, <1>rows, <1>states, RowUpdates, RowWritten DEF Approve
  <2>2. row[r].image \in Build
    BY <1>approve, <1>rows, RowFields DEF Approve, Approvable, RowsFit, RowFits, Builds
  <2> QED
    BY <1>approve, <2>1, <2>2 DEF Approve, TypeOK, outside, target
<1>expire. ASSUME NEW r \in Repo, Expire(r)
           PROVE  TypeOK'
  <2>1. row' \in [Repo -> Row]
    BY <1>expire, <1>rows, RowUpdates, RowWritten DEF Expire
  <2> QED
    BY <1>expire, <1>rows, <1>counts, <2>1, TypeFrame DEF Expire
<1>sweep. ASSUME NEW r \in Repo, SweepLease(r)
          PROVE  TypeOK'
  <2>1. Unleased(row[r]) \in Row /\ [Unleased(row[r]) EXCEPT !.state = "FAILED"] \in Row /\ row[r] \in Row
    BY <1>rows, <1>states, UnleasedRow, FailedRow
  <2>2. row' \in [Repo -> Row]
    BY <1>sweep, <2>1, RowWritten DEF SweepLease
  <2> QED
    BY <1>sweep, <1>rows, <1>counts, <2>2, TypeFrame DEF SweepLease
<1>link. ASSUME NEW r \in Repo, Revoke(r) \/ Grant(r)
         PROVE  TypeOK'
  BY <1>link DEF Revoke, Grant, TypeOK, outside, target
<1>claim. ASSUME NEW r \in Repo, NEW w \in Worker, Claim(w, r)
          PROVE  TypeOK'
  <2>1. row' \in [Repo -> Row]
    BY <1>claim, <1>rows, FreshFence, ClaimedRow, RowWritten DEF Claim, Claimable
  <2>2. worker' \in [Worker -> Claimed \union {Idle}]
    BY <1>claim, <1>rows, FreshFence, ClaimTaken, TakenIsAClaim, WorkerSteps
  <2> QED
    BY <1>claim, <1>counts, <2>1, <2>2, TypeFrame DEF Claim
<1>tool. ASSUME NEW r \in Repo, NEW t \in Turn, NEW plan \in Plans, AgentWrites(t, r, plan)
         PROVE  TypeOK'
  <2>1. row' \in [Repo -> Row]
    BY <1>tool, <1>rows, RowUpdates, RowWritten DEF AgentWrites
  <2> QED
    BY <1>tool, <1>rows, <1>counts, <2>1, TypeFrame DEF AgentWrites
<1>resolve. ASSUME NEW w \in Worker, Resolve(w)
            PROVE  TypeOK'
  <2>1. row' \in [Repo -> Row]
    BY <1>resolve, <1>rows, ClaimFields, RowUpdates, RowWritten DEF Resolve
  <2>2. worker' \in [Worker -> Claimed \union {Idle}]
    BY <1>resolve, Goes DEF Resolve, Phases
  <2> QED
    BY <1>resolve, <1>counts, <2>1, <2>2, TypeFrame DEF Resolve
<1>classify. ASSUME NEW w \in Worker, Classify(w)
             PROVE  TypeOK'
  <2> DEFINE c == worker[w]
             toBuild == [[[c EXCEPT !.phase = "advance"] EXCEPT !.plan = "recipe"] EXCEPT !.to = "PENDING_BUILD"]
             toStore == [[c EXCEPT !.phase = "store"] EXCEPT !.plan = "refused"]
  <2>1. c \in Claimed
    BY <1>classify, ClaimFields DEF Classify
  <2>2. toBuild \in Claimed /\ toStore \in Claimed
    BY <1>states, <2>1, ClaimUpdates DEF Phases
  <2>3. \/ worker' = [worker EXCEPT ![w] = toBuild]
        \/ worker' = [worker EXCEPT ![w] = toStore]
    BY <1>classify, <1>rows, <2>1 DEF Classify, Claimed
  <2>4. worker' \in [Worker -> Claimed \union {Idle}]
    BY <2>2, <2>3, WorkerSteps
  <2> QED
    BY <1>classify, <1>rows, <1>counts, <2>4, TypeFrame DEF Classify
<1>store. ASSUME NEW w \in Worker, StorePlan(w)
          PROVE  TypeOK'
  <2>1. row' \in [Repo -> Row]
    BY <1>store, <1>rows, <1>states, ClaimFields, RowUpdates, RowWritten DEF StorePlan
  <2>2. worker' \in [Worker -> Claimed \union {Idle}]
    BY <1>store, Goes DEF StorePlan, Phases
  <2> QED
    BY <1>store, <1>counts, <2>1, <2>2, TypeFrame DEF StorePlan
<1>review. ASSUME NEW w \in Worker, Review(w)
           PROVE  TypeOK'
  <2>1. row' \in [Repo -> Row]
    BY <1>review, <1>rows, <1>states, ClaimFields, RowUpdates, RowWritten DEF Review
  <2>2. worker' \in [Worker -> Claimed \union {Idle}]
    BY <1>review, <1>states, Goes, LeavesFor DEF Review, Phases
  <2> QED
    BY <1>review, <1>counts, <2>1, <2>2, TypeFrame DEF Review
<1>agent. ASSUME NEW w \in Worker, NEW t \in Turn, StartTurn(w, t)
          PROVE  TypeOK'
  <2>1. row' \in [Repo -> Row]
    BY <1>agent, <1>rows, <1>states, ClaimFields, RowUpdates, RowWritten DEF StartTurn
  <2>2. worker[w] \in Claimed /\ worker[w].r \in Repo
    BY <1>agent, ClaimFields DEF StartTurn
  <2>3. [[worker[w] EXCEPT !.phase = "turn"] EXCEPT !.ref = t] \in Claimed
    BY <1>states, <2>2, ClaimUpdates DEF Phases
  <2>4. worker' = [worker EXCEPT ![w] = [[worker[w] EXCEPT !.phase = "turn"] EXCEPT !.ref = t]]
    BY <1>agent, <1>rows, <2>2 DEF StartTurn, Claimed
  <2>5. worker' \in [Worker -> Claimed \union {Idle}]
    BY <2>3, <2>4, WorkerSteps
  <2>6. turn' \in [Turn -> [st : {"free", "running", "over"}, r : Repo]]
    BY <1>agent, <2>2 DEF StartTurn, TypeOK
  <2> QED
    BY <1>agent, <2>1, <2>5, <2>6 DEF StartTurn, TypeOK, target
<1>back. ASSUME NEW w \in Worker, ReadBack(w)
         PROVE  TypeOK'
  <2> DEFINE p == IF row[worker[w].r].plan = "recipe" THEN "recipe" ELSE "refused"
             to == IF p = "recipe" THEN "PENDING_BUILD" ELSE "UNSUPPORTED"
             c == [[[[worker[w] EXCEPT !.phase = "advance"] EXCEPT !.plan = p] EXCEPT !.ref = 0] EXCEPT !.to = to]
  <2>1. worker[w] \in Claimed
    BY <1>back, ClaimFields DEF ReadBack
  <2>2. p \in Plans /\ to \in States
    BY <1>states
  <2>3. worker' = [worker EXCEPT ![w] = [worker[w] EXCEPT !.phase = "advance", !.plan = p, !.ref = 0, !.to = to]]
    BY <1>back, <1>rows DEF ReadBack
  <2>4. c \in Claimed /\ worker' = [worker EXCEPT ![w] = c]
    <3> HIDE DEF p, to
    <3>1. c \in Claimed
      BY <1>states, <2>1, <2>2, ClaimUpdates DEF Phases
    <3>2. c = [worker[w] EXCEPT !.phase = "advance", !.plan = p, !.ref = 0, !.to = to]
      BY <2>1 DEF Claimed
    <3> QED
      BY <2>3, <3>1, <3>2
  <2>5. worker' \in [Worker -> Claimed \union {Idle}]
    BY <2>4, WorkerSteps
  <2> QED
    BY <1>back, <1>rows, <1>counts, <2>5, TypeFrame DEF ReadBack
<1>build. ASSUME NEW w \in Worker, NEW b \in Build, StartBuild(w, b)
          PROVE  TypeOK'
  <2>1. worker[w] \in Claimed /\ worker[w].r \in Repo
    BY <1>build, ClaimFields DEF StartBuild
  <2>2. [[worker[w] EXCEPT !.phase = "waiting"] EXCEPT !.ref = b] \in Claimed
    BY <1>states, <2>1, ClaimUpdates DEF Phases
  <2>3. worker' = [worker EXCEPT ![w] = [[worker[w] EXCEPT !.phase = "waiting"] EXCEPT !.ref = b]]
    BY <1>build, <1>rows, <2>1 DEF StartBuild, Claimed
  <2>4. worker' \in [Worker -> Claimed \union {Idle}]
    BY <2>2, <2>3, WorkerSteps
  <2>5. build' \in [Build -> [st : BuildStates, r : Repo]]
    BY <1>build, <2>1 DEF StartBuild, TypeOK, BuildStates
  <2> QED
    BY <1>build, <2>4, <2>5 DEF StartBuild, TypeOK, target
<1>propose. ASSUME NEW w \in Worker, ProposeManifest(w)
            PROVE  TypeOK'
  <2>1. row' \in [Repo -> Row]
    BY <1>propose, <1>states, ClaimFields, MovedRow, RowWritten DEF ProposeManifest
  <2>2. worker' \in [Worker -> Claimed \union {Idle}]
    BY <1>propose, Stops DEF ProposeManifest
  <2> QED
    BY <1>propose, <1>counts, <2>1, <2>2, TypeFrame DEF ProposeManifest
<1>verify. ASSUME NEW w \in Worker, Verify(w)
           PROVE  TypeOK'
  <2>1. worker' \in [Worker -> Claimed \union {Idle}]
    BY <1>verify, Goes DEF Verify, Phases
  <2> QED
    BY <1>verify, <1>rows, <1>counts, <2>1, TypeFrame DEF Verify
<1>pin. ASSUME NEW w \in Worker, Configure(w) \/ Rotate(w)
        PROVE  TypeOK'
  <2>1. /\ worker[w] # Idle
        /\ Leaves(w, "CONFIGURED") \/ Go(w, "rotate")
        /\ UNCHANGED <<row, outside, sweeper, blessed, bounds>>
        /\ \/ profile' = [profile EXCEPT ![worker[w].r] = worker[w].image] /\ link' = link
           \/ profile' = [profile EXCEPT ![worker[w].r] = worker[w].image]
              /\ link' = [link EXCEPT ![worker[w].r] = "bound"]
           \/ profile' = profile /\ link' = link
    BY <1>pin DEF Configure, Rotate, target
  <2>2. worker' \in [Worker -> Claimed \union {Idle}]
    BY <1>states, <2>1, Goes, LeavesFor DEF Phases
  <2>3. worker[w].r \in Repo /\ worker[w].image \in Builds
    BY <2>1, ClaimFields
  <2> QED
    BY <2>1, <2>2, <2>3 DEF TypeOK, outside
<1>advance. ASSUME NEW w \in Worker, Advance(w)
            PROVE  TypeOK'
  <2>1. worker[w] # Idle
    BY <1>advance DEF Advance, Held
  <2>2. row' \in [Repo -> Row]
    BY <1>advance, <2>1, ClaimFields, MovedRow, RowWritten DEF Advance
  <2>3. worker' \in [Worker -> Claimed \union {Idle}]
    BY <1>advance, Stops DEF Advance
  <2> QED
    BY <1>advance, <1>counts, <2>2, <2>3, TypeFrame DEF Advance
<1>quits. ASSUME NEW w \in Worker, Quits(w)
          PROVE  TypeOK'
  <2>1. CASE LeaseLost(w)
    BY <2>1, <1>rows, <1>counts, Stops, TypeFrame DEF LeaseLost
  <2>2. CASE Fail(w)
    <3>1. worker[w] # Idle
      BY <2>2 DEF Fail, Held
    <3>2. worker[w].r \in Repo /\ worker[w].from \in States
      BY <3>1, ClaimFields
    <3>3. Failed(w) \in Row
      BY <1>rows, <1>states, <3>2, FailedRow DEF Failed
    <3>4. row' \in [Repo -> Row]
      BY <2>2, <3>2, <3>3, RowWritten DEF Fail
    <3> QED
      BY <2>2, <1>counts, <3>4, Stops, TypeFrame DEF Fail
  <2>3. CASE Release(w)
    <3>1. worker[w] # Idle
      BY <2>3 DEF Release, Held
    <3>2. worker[w].r \in Repo
      BY <3>1, ClaimFields
    <3>3. [Unleased(row[worker[w].r]) EXCEPT !.attempts = IF @ > 0 THEN @ - 1 ELSE 0] \in Row
      BY <1>rows, <3>2, ReleasedRow
    <3>4. row' \in [Repo -> Row]
      BY <2>3, <3>2, <3>3, RowWritten DEF Release
    <3> QED
      BY <2>3, <1>counts, <1>counted, <3>4, Stops, TypeFrame DEF Release
  <2> QED
    BY <1>quits, <2>1, <2>2, <2>3 DEF Quits
<1>end. ASSUME NEW t \in Turn, EndTurn(t)
        PROVE  TypeOK'
  <2>1. turn[t].r \in Repo
    BY DEF TypeOK
  <2>2. Cleared(t, row[turn[t].r]) \in Row
    BY <1>rows, <1>states, <2>1, RowUpdates DEF Cleared
  <2>3. row' \in [Repo -> Row]
    BY <1>end, <2>1, <2>2, RowWritten DEF EndTurn
  <2>4. turn' \in [Turn -> [st : {"free", "running", "over"}, r : Repo]]
    BY <1>end DEF EndTurn, TypeOK
  <2> QED
    BY <1>end, <2>3, <2>4 DEF EndTurn, TypeOK, target
<1>runs. ASSUME NEW b \in Build, Runs(b)
         PROVE  TypeOK'
  <2>1. build[b].r \in Repo
    BY DEF TypeOK
  <2>2. CASE FreeName(b) \/ BuildFails(b)
    <3>1. /\ \/ build' = [build EXCEPT ![b].st = "cleared"]
             \/ build' = [build EXCEPT ![b].st = "over"]
          /\ \/ snapshot' = [snapshot EXCEPT ![build[b].r] = 0]
             \/ snapshot' = snapshot
          /\ UNCHANGED <<row, worker, turn, target, sweeper, blessed, bounds>>
      BY <2>2 DEF FreeName, BuildFails
    <3>2. build' \in [Build -> [st : BuildStates, r : Repo]]
      <4>1. build \in [Build -> [st : BuildStates, r : Repo]]
        BY DEF TypeOK
      <4>2. [build[b] EXCEPT !.st = "cleared"] \in [st : BuildStates, r : Repo]
        BY <4>1 DEF BuildStates
      <4>3. [build[b] EXCEPT !.st = "over"] \in [st : BuildStates, r : Repo]
        BY <4>1 DEF BuildStates
      <4>4. \/ build' = [build EXCEPT ![b] = [build[b] EXCEPT !.st = "cleared"]]
            \/ build' = [build EXCEPT ![b] = [build[b] EXCEPT !.st = "over"]]
        BY <3>1, <4>1
      <4> QED
        BY <4>1, <4>2, <4>3, <4>4
    <3>3. snapshot' \in [Repo -> Builds]
      BY <1>states, <3>1 DEF TypeOK
    <3> QED
      BY <3>1, <3>2, <3>3 DEF TypeOK, target
  <2>3. CASE RegisterSnapshot(b)
    <3> DEFINE told(w) == [worker[w] EXCEPT !.phase = "advance", !.image = b, !.ref = 0,
                                            !.plan = "none", !.to = "PENDING_MANIFEST"]
    <3>1. ASSUME NEW w \in Waiting(b)
          PROVE  told(w) \in Claimed
      <4>1. worker[w] \in Claimed
        BY ClaimFields DEF Waiting
      <4>2. [[[[[worker[w] EXCEPT !.phase = "advance"] EXCEPT !.image = b] EXCEPT !.ref = 0]
                EXCEPT !.plan = "none"] EXCEPT !.to = "PENDING_MANIFEST"] \in Claimed
        BY <1>states, <4>1, ClaimUpdates DEF Phases
      <4> QED
        BY <4>1, <4>2 DEF Claimed
    <3>2. worker' = [w \in Worker |-> IF w \in Waiting(b) THEN told(w) ELSE worker[w]]
      BY <2>3 DEF RegisterSnapshot
    <3>3. worker' \in [Worker -> Claimed \union {Idle}]
      <4> HIDE DEF told
      <4> QED
        BY <1>rows, <3>1, <3>2
    <3>4. build' \in [Build -> [st : BuildStates, r : Repo]] /\ snapshot' \in [Repo -> Builds]
      BY <2>1, <2>3, <1>states DEF RegisterSnapshot, TypeOK, BuildStates
    <3> QED
      BY <2>3, <3>3, <3>4 DEF RegisterSnapshot, TypeOK, target
  <2> QED
    BY <1>runs, <2>2, <2>3 DEF Runs
<1>maintain. ASSUME Sweeps
             PROVE  TypeOK'
  <2>1. \A r \in Repo : row[r].image \in Builds
    BY <1>rows, RowFields
  <2> QED
    BY <1>maintain, <1>states, <2>1
       DEF Sweeps, SweepStart, SweepReadsProfiles, SweepReadsRows, SweepDeletes, TypeOK, outside, target
<1>stutter. CASE UNCHANGED vars
  BY <1>stutter DEF vars, TypeOK, outside, target
<1> QED
  BY <1>queue, <1>approve, <1>expire, <1>sweep, <1>link, <1>claim, <1>tool, <1>resolve, <1>classify,
     <1>store, <1>review, <1>agent, <1>back, <1>build, <1>propose, <1>verify, <1>pin, <1>advance,
     <1>quits, <1>end, <1>runs, <1>maintain, <1>stutter
     DEF Next, Work

-----------------------------------------------------------------------------
(* How a step may treat a claim and a row without disturbing the invariant. *)

\* The history of approvals grows and a profile once written stays written.
Grows == \A r \in Repo : blessed[r] \subseteq blessed'[r] /\ (profile[r] # 0 => profile'[r] # 0)

\* A worker keeps its claim, drops it, or goes a step further with it.
ClaimStays(v) ==
    \/ worker'[v] \in {worker[v], Idle}
    \/ /\ worker[v] # Idle
       /\ worker'[v].r = worker[v].r
       /\ worker'[v].fence = worker[v].fence
       /\ worker'[v].from = worker[v].from
       /\ ClaimFits(worker'[v], blessed', profile')

\* Row r becomes x: x is not leased, or it is leased as it was, and in the
\* same state unless nobody holds it.
Keeps(r, x) ==
    /\ RowFits(x, blessed'[r])
    /\ \/ x.lease # "live"
       \/ /\ x.owner = row[r].owner /\ x.fence = row[r].fence /\ row[r].lease = "live"
          /\ x.state = row[r].state \/ (\A v \in Worker : worker[v].r = r => ~Held(v))

RowStays(r) == row'[r] = row[r] \/ Keeps(r, row'[r])

LEMMA StepFits ==
    ASSUME IInv, TypeOK', Grows, \A v \in Worker : ClaimStays(v), \A r \in Repo : RowStays(r)
    PROVE  Fits'
<1>1. RowsFit'
  <2> SUFFICES ASSUME NEW r \in Repo PROVE RowFits(row'[r], blessed'[r])
    BY DEF RowsFit
  <2>1. RowFits(row[r], blessed[r]) /\ blessed[r] \subseteq blessed'[r]
    BY DEF IInv, Fits, RowsFit, Grows
  <2>2. CASE row'[r] = row[r]
    BY <2>1, <2>2 DEF RowFits
  <2>3. CASE Keeps(r, row'[r])
    BY <2>3 DEF Keeps
  <2> QED
    BY <2>2, <2>3 DEF RowStays
<1>2. ClaimsFit'
  <2> SUFFICES ASSUME NEW v \in Worker, worker'[v] # Idle PROVE ClaimFits(worker'[v], blessed', profile')
    BY DEF ClaimsFit, Busy
  <2>1. CASE worker'[v] = worker[v]
    <3>1. worker[v].r \in Repo
      BY <2>1, ClaimFields DEF IInv
    <3>2. ClaimFits(worker[v], blessed, profile)
      BY <2>1 DEF IInv, Fits, ClaimsFit, Busy
    <3>3. blessed[worker[v].r] \subseteq blessed'[worker[v].r] /\ (profile[worker[v].r] # 0 => profile'[worker[v].r] # 0)
      BY <3>1 DEF Grows
    <3> QED
      BY <2>1, <3>2, <3>3 DEF ClaimFits
  <2> QED
    BY <2>1 DEF ClaimStays
<1>3. \A v \in Worker : worker'[v] # Idle => /\ worker[v] # Idle
                                            /\ worker'[v].r = worker[v].r
                                            /\ worker'[v].fence = worker[v].fence
                                            /\ worker'[v].from = worker[v].from
  BY DEF ClaimStays
<1>4. OwnFences'
  BY <1>3 DEF IInv, Fits, OwnFences, Busy
<1>5. HolderKnows'
  <2> SUFFICES ASSUME NEW v \in Worker, Held(v)' PROVE row'[worker'[v].r].state = worker'[v].from
    BY DEF HolderKnows
  <2>1. worker'[v] # Idle /\ worker[v] # Idle
    BY <1>3 DEF Held
  <2> DEFINE r == worker[v].r
  <2>2. r \in Repo
    BY <2>1, ClaimFields DEF IInv
  <2>3. /\ row'[r].owner = OwnerOf[v]
        /\ row'[r].fence = worker[v].fence
        /\ row'[r].lease = "live"
    BY <1>3, <2>1 DEF Held
  <2>4. Held(v) => row[r].state = worker[v].from
    BY DEF IInv, Fits, HolderKnows
  <2>5. CASE row'[r] = row[r]
    BY <1>3, <2>1, <2>3, <2>4, <2>5 DEF Held
  <2>6. CASE Keeps(r, row'[r])
    <3>1. Held(v)
      BY <2>1, <2>3, <2>6 DEF Keeps, Held
    <3>2. row'[r].state = row[r].state
      BY <2>3, <2>6, <3>1 DEF Keeps
    <3> QED
      BY <1>3, <2>1, <2>4, <3>1, <3>2
  <2> QED
    BY <2>2, <2>5, <2>6 DEF RowStays
<1> QED
  BY <1>1, <1>2, <1>4, <1>5 DEF Fits

\* A write touches one row.
LEMMA OneRow ==
    ASSUME TypeOK, NEW r \in Repo, NEW x, Write(r, x), Keeps(r, x)
    PROVE  \A q \in Repo : RowStays(q)
  BY DEF TypeOK, Write, RowStays

\* A worker that holds its lease holds a row in progress.
LEMMA HolderFacts ==
    ASSUME IInv, NEW w \in Worker, Held(w)
    PROVE  /\ worker[w] # Idle
           /\ worker[w].r \in Repo
           /\ worker[w].from \in Working
           /\ row[worker[w].r].state = worker[w].from
           /\ row[worker[w].r] \in Row
           /\ RowFits(row[worker[w].r], blessed[worker[w].r])
           /\ ClaimFits(worker[w], blessed, profile)
<1>1. worker[w] # Idle
  BY DEF Held
<1>2. worker[w].r \in Repo /\ worker[w].phase \in Phases
  BY <1>1, ClaimFields DEF IInv
<1>3. ClaimFits(worker[w], blessed, profile) /\ RowFits(row[worker[w].r], blessed[worker[w].r])
  BY <1>1, <1>2 DEF IInv, Fits, ClaimsFit, RowsFit, Busy
<1>4. worker[w].from \in Working
  BY <1>2, <1>3 DEF ClaimFits, Phases, Working
<1>5. row[worker[w].r].state = worker[w].from /\ row[worker[w].r] \in Row
  BY <1>2 DEF IInv, Fits, HolderKnows, TypeOK
<1> QED
  BY <1>1, <1>2, <1>3, <1>4, <1>5

\* A step forward with the claim, as the frame wants it.
LEMMA Onward ==
    ASSUME IInv, TypeOK', NEW w \in Worker, worker[w] # Idle, NEW c,
           worker' = [worker EXCEPT ![w] = c],
           c.r = worker[w].r, c.fence = worker[w].fence, c.from = worker[w].from,
           ClaimFits(c, blessed', profile')
    PROVE  \A v \in Worker : ClaimStays(v)
  BY DEF IInv, TypeOK, ClaimStays

LEMMA Away ==
    ASSUME IInv, NEW w \in Worker, Stop(w)
    PROVE  \A v \in Worker : ClaimStays(v)
  BY DEF IInv, TypeOK, Stop, ClaimStays

\* A write that leaves the state, the attempts, the image and the lease.
LEMMA QuietWrite ==
    ASSUME IInv, TypeOK', Grows, NEW r \in Repo, NEW x, Write(r, x),
           x.state = row[r].state, x.attempts = row[r].attempts, x.image = row[r].image,
           x.owner = row[r].owner, x.fence = row[r].fence, x.lease = row[r].lease
    PROVE  \A q \in Repo : RowStays(q)
<1>1. RowFits(row[r], blessed[r]) /\ blessed[r] \subseteq blessed'[r]
  BY DEF IInv, Fits, RowsFit, Grows
<1>2. RowFits(x, blessed'[r])
  BY <1>1 DEF RowFits
<1>3. row[r].lease \in {"none", "live", "expired"}
  BY RowFields DEF IInv, TypeOK
<1> QED
  BY <1>2, <1>3, OneRow DEF Keeps, IInv

\* A row nobody holds may change its state.
LEMMA Unheld ==
    ASSUME IInv, NEW r \in Repo, row[r].state \notin Working
    PROVE  \A v \in Worker : worker[v].r = r => ~Held(v)
  BY HolderFacts

\* A row that is given up keeps the invariant whatever it becomes next.
LEMMA LetGo ==
    ASSUME IInv, NEW r \in Repo, NEW x, Write(r, x), x.lease # "live", RowFits(x, blessed'[r])
    PROVE  \A q \in Repo : RowStays(q)
  BY OneRow DEF Keeps, IInv

LEMMA FitsNext == IInv /\ [Next]_vars => Fits'
<1> SUFFICES ASSUME IInv, [Next]_vars PROVE Fits'
  OBVIOUS
<1>t. TypeOK /\ TypeOK'
  BY TypeNext DEF IInv, Fits
<1>rows. \A r \in Repo : row[r] \in Row /\ RowFits(row[r], blessed[r])
  BY DEF IInv, TypeOK, Fits, RowsFit
<1>claims. \A w \in Worker : worker[w] # Idle => ClaimFits(worker[w], blessed, profile)
  BY DEF IInv, Fits, ClaimsFit, Busy
<1>grows. UNCHANGED <<blessed, profile>> => Grows
  BY DEF Grows
<1>same. UNCHANGED worker => \A v \in Worker : ClaimStays(v)
  BY DEF ClaimStays
<1>still. UNCHANGED row => \A r \in Repo : RowStays(r)
  BY DEF RowStays
<1>queue. ASSUME NEW r \in Repo, Enqueue(r) \/ Retry(r)
          PROVE  Fits'
  <2> DEFINE x == row'[r]
  <2>1. /\ x.state = "PENDING_PLAN" /\ x.attempts = 0
        /\ x.lease = "none" \/ (x.owner = row[r].owner /\ x.fence = row[r].fence /\ x.lease = row[r].lease)
        /\ row[r].state \notin Working
        /\ Write(r, x)
    <3>1. CASE row[r].state = "ABSENT"
      BY <1>t, <1>queue, <3>1 DEF Enqueue, Retry, Write, Absent, Working, TypeOK
    <3>2. CASE row[r].state # "ABSENT"
      <4>1. row[r].state \in {"FAILED", "UNSUPPORTED"} /\ Write(r, Requeued(row[r]))
        BY <1>queue, <3>2 DEF Enqueue, Retry
      <4>2. x = Requeued(row[r])
        BY <1>t, <4>1 DEF Write, TypeOK
      <4>3. /\ Requeued(row[r]).owner = row[r].owner
            /\ Requeued(row[r]).fence = row[r].fence
            /\ Requeued(row[r]).lease = row[r].lease
        BY <1>rows DEF Requeued, Row
      <4> QED
        BY <1>rows, <4>1, <4>2, <4>3, RequeuedRow DEF Working
    <3> QED
      BY <3>1, <3>2
  <2>2. Keeps(r, x)
    <3>1. RowFits(x, blessed'[r])
      BY <2>1 DEF RowFits
    <3> HIDE DEF x
    <3> QED
      BY <2>1, <3>1, Unheld DEF Keeps
  <2>3. \A q \in Repo : RowStays(q)
    <3> HIDE DEF x
    <3> QED
      BY <1>t, <2>1, <2>2, OneRow
  <2>4. UNCHANGED <<worker, blessed, profile>>
    BY <1>queue DEF Enqueue, Retry, target
  <2> QED
    BY <1>t, <1>grows, <1>same, <2>3, <2>4, StepFits
<1>approve. ASSUME NEW r \in Repo, Approve(r)
            PROVE  Fits'
  <2>1. Grows
    BY <1>t, <1>approve DEF Approve, Grows, TypeOK, target
  <2> DEFINE x == [row[r] EXCEPT !.state = "APPROVED"]
  <2>2. /\ x.state = "APPROVED" /\ x.image = row[r].image /\ x.attempts = row[r].attempts
        /\ x.lease = row[r].lease /\ x.owner = row[r].owner /\ x.fence = row[r].fence
    BY <1>rows DEF Row
  <2>3. row[r].state = "AWAITING_APPROVAL" /\ Write(r, x) /\ row[r].image \in blessed'[r]
    BY <1>t, <1>approve DEF Approve, Approvable, TypeOK
  <2> HIDE DEF x
  <2>4. RowFits(x, blessed'[r])
    BY <1>rows, <2>2, <2>3 DEF RowFits
  <2>5. row[r].state \notin Working
    BY <2>3 DEF Working
  <2>6. row[r].lease \in {"none", "live", "expired"}
    BY <1>rows, RowFields
  <2>7. Keeps(r, x)
    BY <2>2, <2>4, <2>5, <2>6, Unheld DEF Keeps
  <2>8. UNCHANGED worker
    BY <1>approve DEF Approve
  <2> QED
    BY <1>t, <1>same, <2>1, <2>3, <2>7, <2>8, OneRow, StepFits
<1>expire. ASSUME NEW r \in Repo, Expire(r)
           PROVE  Fits'
  <2> DEFINE x == [row[r] EXCEPT !.lease = "expired"]
  <2>1. /\ x.state = row[r].state /\ x.image = row[r].image /\ x.attempts = row[r].attempts
        /\ x.lease = "expired"
    BY <1>rows DEF Row
  <2>2. Write(r, x) /\ UNCHANGED <<worker, blessed, profile>>
    BY <1>expire DEF Expire, target
  <2> HIDE DEF x
  <2>3. RowFits(x, blessed'[r])
    BY <1>rows, <2>1, <2>2 DEF RowFits
  <2> QED
    BY <1>t, <1>grows, <1>same, <2>1, <2>2, <2>3, LetGo, StepFits
<1>sweep. ASSUME NEW r \in Repo, SweepLease(r)
          PROVE  Fits'
  <2> DEFINE x == IF row[r].attempts < MaxAttempts THEN Unleased(row[r])
                  ELSE IF row[r].state \in Working
                  THEN [Unleased(row[r]) EXCEPT !.state = "FAILED"] ELSE row[r]
  <2>1. Write(r, x) /\ UNCHANGED <<worker, blessed, profile>> /\ row[r].lease = "expired"
    BY <1>sweep DEF SweepLease, target
  <2>2. row[r].attempts \in 0..MaxAttempts
    BY <1>rows, RowFields
  <2>3. RowFits(x, blessed'[r]) /\ x.lease # "live"
    <3>1. CASE row[r].attempts < MaxAttempts
      BY <1>rows, <2>1, <2>2, <3>1, UnleasedRow DEF RowFits
    <3>2. CASE ~(row[r].attempts < MaxAttempts) /\ row[r].state \in Working
      <4>1. [Unleased(row[r]) EXCEPT !.state = "FAILED"].state = "FAILED"
            /\ [Unleased(row[r]) EXCEPT !.state = "FAILED"].lease = "none"
        BY <1>rows, UnleasedRow DEF Row
      <4> QED
        BY <3>2, <4>1 DEF RowFits, Working
    <3>3. CASE ~(row[r].attempts < MaxAttempts) /\ row[r].state \notin Working
      BY <1>rows, <2>1, <3>3 DEF RowFits
    <3> QED
      BY <3>1, <3>2, <3>3
  <2> HIDE DEF x
  <2> QED
    BY <1>t, <1>grows, <1>same, <2>1, <2>3, LetGo, StepFits
<1>link. ASSUME NEW r \in Repo, Revoke(r) \/ Grant(r)
         PROVE  Fits'
  <2>1. UNCHANGED <<row, worker, blessed, profile>>
    BY <1>link DEF Revoke, Grant
  <2> QED
    BY <1>t, <1>grows, <1>same, <1>still, <2>1, StepFits
<1>claim. ASSUME NEW r \in Repo, NEW w \in Worker, Claim(w, r)
          PROVE  Fits'
  <2> DEFINE f == NewFence(r)
             x == [row[r] EXCEPT !.owner = OwnerOf[w], !.lease = "live", !.attempts = @ + 1, !.fence = f]
             c == IF row[r].state \in Working THEN TakenBy(row[r], r, f) ELSE Idle
  <2>1. /\ x.state = row[r].state /\ x.image = row[r].image /\ x.lease = "live" /\ x.fence = f
        /\ row' = [row EXCEPT ![r] = x]
        /\ row[r].state \in CLAIMABLE
        /\ worker[w] = Idle
        /\ UNCHANGED <<blessed, profile>>
    BY <1>rows, <1>claim DEF Claim, Claimable, Write, Row, target
  <2>2. worker' = [worker EXCEPT ![w] = c]
    BY <1>t, <1>claim, ClaimTaken
  <2>3. \A v \in Worker : ~(worker[v] # Idle /\ worker[v].r = r /\ worker[v].fence = f)
    BY <1>t, FreshFence
  <2>4. c # Idle => /\ row[r].state \in Working /\ c.r = r /\ c.fence = f /\ c.from = row[r].state
                   /\ ClaimFits(c, blessed', profile')
    <3> SUFFICES ASSUME row[r].state \in Working
                 PROVE  /\ c.r = r /\ c.fence = f /\ c.from = row[r].state
                        /\ ClaimFits(c, blessed', profile')
      OBVIOUS
    <3>1. /\ c.phase = FirstPhase(row[r]) /\ c.r = r /\ c.fence = f /\ c.from = row[r].state
          /\ row[r].state = "APPROVED" => c.image = row[r].image
      BY DEF TakenBy
    <3>2. row[r].state = "APPROVED" => row[r].image \in blessed'[r]
      BY <1>rows, <2>1 DEF RowFits
    <3> HIDE DEF c, x, f
    <3>3. ClaimFits(c, blessed', profile')
      BY <1>rows, <3>1, <3>2, FirstPhases DEF ClaimFits, Working
    <3> QED
      BY <3>1, <3>3
  <2> HIDE DEF c, x, f
  <2>5. RowsFit'
    <3>1. RowFits(x, blessed'[r])
      BY <1>rows, <2>1 DEF RowFits, CLAIMABLE
    <3> QED
      BY <1>t, <1>rows, <2>1, <3>1 DEF RowsFit, TypeOK
  <2>6. ClaimsFit'
    <3> SUFFICES ASSUME NEW v \in Worker, worker'[v] # Idle PROVE ClaimFits(worker'[v], blessed', profile')
      BY DEF ClaimsFit, Busy
    <3>1. CASE v = w
      BY <1>t, <2>2, <2>4, <3>1 DEF TypeOK
    <3>2. CASE v # w
      BY <1>t, <1>claims, <2>1, <2>2, <3>2 DEF TypeOK
    <3> QED
      BY <3>1, <3>2
  <2>7. /\ worker'[w] = c
        /\ \A v \in Worker \ {w} : worker'[v] = worker[v]
    BY <1>t, <2>2 DEF TypeOK
  <2>8. OwnFences'
    <3> SUFFICES ASSUME NEW v \in Worker, NEW u \in Worker, worker'[v] # Idle, worker'[u] # Idle,
                        worker'[v].r = worker'[u].r, worker'[v].fence = worker'[u].fence
                 PROVE  v = u
      BY DEF OwnFences, Busy
    <3>1. CASE v # w /\ u # w
      BY <2>7, <3>1 DEF IInv, Fits, OwnFences, Busy
    <3>2. CASE v = w /\ u # w
      BY <2>3, <2>4, <2>7, <3>2
    <3>3. CASE v # w /\ u = w
      BY <2>3, <2>4, <2>7, <3>3
    <3> QED
      BY <3>1, <3>2, <3>3
  <2>9. HolderKnows'
    <3> SUFFICES ASSUME NEW v \in Worker, Held(v)' PROVE row'[worker'[v].r].state = worker'[v].from
      BY DEF HolderKnows
    <3>1. /\ worker'[v] # Idle
          /\ row'[worker'[v].r].owner = OwnerOf[v]
          /\ row'[worker'[v].r].fence = worker'[v].fence
          /\ row'[worker'[v].r].lease = "live"
      BY DEF Held
    <3>2. row'[r] = x /\ \A q \in Repo \ {r} : row'[q] = row[q]
      BY <1>t, <2>1 DEF TypeOK
    <3>3. CASE v = w
      BY <2>1, <2>4, <2>7, <3>1, <3>2, <3>3
    <3>4. CASE v # w
      <4>1. worker'[v] = worker[v] /\ worker[v] # Idle
        BY <2>7, <3>1, <3>4
      <4>2. worker[v].r \in Repo
        BY <1>t, <4>1, ClaimFields
      <4>3. worker[v].r # r
        BY <2>1, <2>3, <3>1, <3>2, <4>1
      <4>4. Held(v)
        BY <3>1, <3>2, <4>1, <4>2, <4>3 DEF Held
      <4> QED
        BY <3>2, <4>1, <4>2, <4>3, <4>4 DEF IInv, Fits, HolderKnows
    <3> QED
      BY <3>3, <3>4
  <2> QED
    BY <2>5, <2>6, <2>8, <2>9 DEF Fits
<1>tool. ASSUME NEW r \in Repo, NEW t \in Turn, NEW plan \in Plans, AgentWrites(t, r, plan)
         PROVE  Fits'
  <2> DEFINE x == [row[r] EXCEPT !.plan = plan]
  <2>1. /\ x.state = row[r].state /\ x.attempts = row[r].attempts /\ x.image = row[r].image
        /\ x.owner = row[r].owner /\ x.fence = row[r].fence /\ x.lease = row[r].lease
    BY <1>rows DEF Row
  <2>2. Write(r, x) /\ UNCHANGED <<worker, blessed, profile>>
    BY <1>tool DEF AgentWrites, target
  <2> HIDE DEF x
  <2> QED
    BY <1>t, <1>grows, <1>same, <2>1, <2>2, QuietWrite, StepFits
<1>resolve. ASSUME NEW w \in Worker, Resolve(w)
            PROVE  Fits'
  <2>1. worker[w] # Idle /\ worker[w].phase = "resolve" /\ UNCHANGED <<blessed, profile>>
    BY <1>resolve DEF Resolve, target
  <2> DEFINE r == worker[w].r
             x == [row[r] EXCEPT !.commit = TRUE]
             c == [worker[w] EXCEPT !.phase = "classify"]
  <2>2. r \in Repo /\ worker[w] \in Claimed /\ ClaimFits(worker[w], blessed, profile)
    BY <1>t, <1>claims, <2>1, ClaimFields
  <2>3. /\ x.state = row[r].state /\ x.attempts = row[r].attempts /\ x.image = row[r].image
        /\ x.owner = row[r].owner /\ x.fence = row[r].fence /\ x.lease = row[r].lease
    BY <1>rows, <2>2 DEF Row
  <2>4. Write(r, x) /\ worker' = [worker EXCEPT ![w] = c]
    BY <1>t, <1>resolve, Goes DEF Resolve, Phases
  <2>5. c.r = r /\ c.fence = worker[w].fence /\ c.from = worker[w].from /\ c.phase = "classify"
    BY <2>2 DEF Claimed
  <2> HIDE DEF x, c
  <2>6. ClaimFits(c, blessed', profile')
    BY <2>1, <2>2, <2>5 DEF ClaimFits
  <2>7. \A v \in Worker : ClaimStays(v)
    BY <1>t, <2>1, <2>4, <2>5, <2>6, Onward
  <2>8. \A q \in Repo : RowStays(q)
    <3> HIDE DEF r
    <3> QED
      BY <1>t, <1>grows, <2>1, <2>2, <2>3, <2>4, QuietWrite
  <2> QED
    BY <1>t, <1>grows, <2>1, <2>7, <2>8, StepFits
<1>classify. ASSUME NEW w \in Worker, Classify(w)
             PROVE  Fits'
  <2>1. worker[w] # Idle /\ worker[w].phase = "classify" /\ UNCHANGED <<row, blessed, profile>>
    BY <1>classify DEF Classify, target
  <2>2. worker[w] \in Claimed /\ ClaimFits(worker[w], blessed, profile)
    BY <1>t, <1>claims, <2>1, ClaimFields
  <2>3. PICK c : /\ worker' = [worker EXCEPT ![w] = c]
                 /\ c.r = worker[w].r /\ c.fence = worker[w].fence /\ c.from = worker[w].from
                 /\ \/ c.phase = "advance" /\ c.to = "PENDING_BUILD"
                    \/ c.phase = "store"
    <3> DEFINE a == [worker[w] EXCEPT !.phase = "advance", !.plan = "recipe", !.to = "PENDING_BUILD"]
               b == [worker[w] EXCEPT !.phase = "store", !.plan = "refused"]
    <3>1. worker' = [worker EXCEPT ![w] = a] \/ worker' = [worker EXCEPT ![w] = b]
      BY <1>t, <1>classify DEF Classify, TypeOK
    <3>2. /\ a.r = worker[w].r /\ a.fence = worker[w].fence /\ a.from = worker[w].from
          /\ a.phase = "advance" /\ a.to = "PENDING_BUILD"
          /\ b.r = worker[w].r /\ b.fence = worker[w].fence /\ b.from = worker[w].from /\ b.phase = "store"
      BY <2>2 DEF Claimed
    <3> HIDE DEF a, b
    <3> QED
      BY <3>1, <3>2
  <2>4. ClaimFits(c, blessed', profile')
    BY <2>1, <2>2, <2>3 DEF ClaimFits
  <2>5. \A v \in Worker : ClaimStays(v)
    BY <1>t, <2>1, <2>3, <2>4, Onward
  <2> QED
    BY <1>t, <1>grows, <1>still, <2>1, <2>5, StepFits
<1>store. ASSUME NEW w \in Worker, StorePlan(w)
          PROVE  Fits'
  <2>1. worker[w] # Idle /\ worker[w].phase = "store" /\ UNCHANGED <<blessed, profile>>
    BY <1>store DEF StorePlan, target
  <2> DEFINE r == worker[w].r
             x == [row[r] EXCEPT !.plan = "refused"]
             c == [worker[w] EXCEPT !.phase = "review"]
  <2>2. r \in Repo /\ worker[w] \in Claimed /\ ClaimFits(worker[w], blessed, profile)
    BY <1>t, <1>claims, <2>1, ClaimFields
  <2>3. /\ x.state = row[r].state /\ x.attempts = row[r].attempts /\ x.image = row[r].image
        /\ x.owner = row[r].owner /\ x.fence = row[r].fence /\ x.lease = row[r].lease
    BY <1>rows, <2>2 DEF Row
  <2>4. Write(r, x) /\ worker' = [worker EXCEPT ![w] = c]
    BY <1>t, <1>store, Goes DEF StorePlan, Phases
  <2>5. c.r = r /\ c.fence = worker[w].fence /\ c.from = worker[w].from /\ c.phase = "review"
    BY <2>2 DEF Claimed
  <2> HIDE DEF x, c
  <2>6. ClaimFits(c, blessed', profile')
    BY <2>1, <2>2, <2>5 DEF ClaimFits
  <2>7. \A v \in Worker : ClaimStays(v)
    BY <1>t, <2>1, <2>4, <2>5, <2>6, Onward
  <2>8. \A q \in Repo : RowStays(q)
    <3> HIDE DEF r
    <3> QED
      BY <1>t, <1>grows, <2>1, <2>2, <2>3, <2>4, QuietWrite
  <2> QED
    BY <1>t, <1>grows, <2>1, <2>7, <2>8, StepFits
<1>review. ASSUME NEW w \in Worker, Review(w)
           PROVE  Fits'
  <2>1. worker[w] # Idle /\ worker[w].phase = "review" /\ UNCHANGED <<blessed, profile>>
    BY <1>review DEF Review, target
  <2> DEFINE r == worker[w].r
             x == [row[r] EXCEPT !.plan = "refused"]
             a == [worker[w] EXCEPT !.phase = "advance", !.to = "UNSUPPORTED"]
             b == [worker[w] EXCEPT !.phase = "agent"]
  <2>2. r \in Repo /\ worker[w] \in Claimed /\ ClaimFits(worker[w], blessed, profile)
    BY <1>t, <1>claims, <2>1, ClaimFields
  <2>3. /\ x.state = row[r].state /\ x.attempts = row[r].attempts /\ x.image = row[r].image
        /\ x.owner = row[r].owner /\ x.fence = row[r].fence /\ x.lease = row[r].lease
    BY <1>rows, <2>2 DEF Row
  <2>4. \/ Write(r, x) /\ worker' = [worker EXCEPT ![w] = a]
        \/ UNCHANGED row /\ worker' = [worker EXCEPT ![w] = b]
    BY <1>t, <1>review, Goes, LeavesFor DEF Review, Phases, States
  <2>5. /\ a.r = r /\ a.fence = worker[w].fence /\ a.from = worker[w].from
        /\ a.phase = "advance" /\ a.to = "UNSUPPORTED"
        /\ b.r = r /\ b.fence = worker[w].fence /\ b.from = worker[w].from /\ b.phase = "agent"
    BY <2>2 DEF Claimed
  <2> HIDE DEF x, a, b
  <2>6. ClaimFits(a, blessed', profile') /\ ClaimFits(b, blessed', profile')
    BY <2>1, <2>2, <2>5 DEF ClaimFits
  <2>7. \A v \in Worker : ClaimStays(v)
    BY <1>t, <2>1, <2>4, <2>5, <2>6, Onward
  <2>8. \A q \in Repo : RowStays(q)
    <3> HIDE DEF r
    <3> QED
      BY <1>t, <1>grows, <1>still, <2>1, <2>2, <2>3, <2>4, QuietWrite
  <2> QED
    BY <1>t, <1>grows, <2>1, <2>7, <2>8, StepFits
<1>agent. ASSUME NEW w \in Worker, NEW t \in Turn, StartTurn(w, t)
          PROVE  Fits'
  <2>1. worker[w] # Idle /\ worker[w].phase = "agent" /\ UNCHANGED <<blessed, profile>>
    BY <1>agent DEF StartTurn, target
  <2> DEFINE r == worker[w].r
             x == [row[r] EXCEPT !.token = t]
             c == [worker[w] EXCEPT !.phase = "turn", !.ref = t]
  <2>2. r \in Repo /\ worker[w] \in Claimed /\ ClaimFits(worker[w], blessed, profile)
    BY <1>t, <1>claims, <2>1, ClaimFields
  <2>3. /\ x.state = row[r].state /\ x.attempts = row[r].attempts /\ x.image = row[r].image
        /\ x.owner = row[r].owner /\ x.fence = row[r].fence /\ x.lease = row[r].lease
    BY <1>rows, <2>2 DEF Row
  <2>4. Write(r, x) /\ worker' = [worker EXCEPT ![w] = c]
    BY <1>t, <1>agent DEF StartTurn, TypeOK
  <2>5. c.r = r /\ c.fence = worker[w].fence /\ c.from = worker[w].from /\ c.phase = "turn"
    BY <2>2 DEF Claimed
  <2> HIDE DEF x, c
  <2>6. ClaimFits(c, blessed', profile')
    BY <2>1, <2>2, <2>5 DEF ClaimFits
  <2>7. \A v \in Worker : ClaimStays(v)
    BY <1>t, <2>1, <2>4, <2>5, <2>6, Onward
  <2>8. \A q \in Repo : RowStays(q)
    <3> HIDE DEF r
    <3> QED
      BY <1>t, <1>grows, <2>1, <2>2, <2>3, <2>4, QuietWrite
  <2> QED
    BY <1>t, <1>grows, <2>1, <2>7, <2>8, StepFits
<1>back. ASSUME NEW w \in Worker, ReadBack(w)
         PROVE  Fits'
  <2>1. worker[w] # Idle /\ worker[w].phase = "turn" /\ UNCHANGED <<row, blessed, profile>>
    BY <1>back DEF ReadBack, target
  <2>2. worker[w] \in Claimed /\ ClaimFits(worker[w], blessed, profile)
    BY <1>t, <1>claims, <2>1, ClaimFields
  <2>3. PICK c : /\ worker' = [worker EXCEPT ![w] = c]
                 /\ c.r = worker[w].r /\ c.fence = worker[w].fence /\ c.from = worker[w].from
                 /\ c.phase = "advance" /\ c.to \in {"PENDING_BUILD", "UNSUPPORTED"}
    <3> DEFINE p == IF row[worker[w].r].plan = "recipe" THEN "recipe" ELSE "refused"
               to == IF p = "recipe" THEN "PENDING_BUILD" ELSE "UNSUPPORTED"
               a == [worker[w] EXCEPT !.phase = "advance", !.plan = p, !.ref = 0, !.to = to]
    <3>1. worker' = [worker EXCEPT ![w] = a]
      BY <1>t, <1>back DEF ReadBack, TypeOK
    <3>2. to \in {"PENDING_BUILD", "UNSUPPORTED"}
      OBVIOUS
    <3> HIDE DEF p, to
    <3>3. /\ a.r = worker[w].r /\ a.fence = worker[w].fence /\ a.from = worker[w].from
          /\ a.phase = "advance" /\ a.to = to
      BY <2>2 DEF Claimed
    <3> HIDE DEF a
    <3> QED
      BY <3>1, <3>2, <3>3
  <2>4. ClaimFits(c, blessed', profile')
    BY <2>1, <2>2, <2>3 DEF ClaimFits
  <2>5. \A v \in Worker : ClaimStays(v)
    BY <1>t, <2>1, <2>3, <2>4, Onward
  <2> QED
    BY <1>t, <1>grows, <1>still, <2>1, <2>5, StepFits
<1>build. ASSUME NEW w \in Worker, NEW b \in Build, StartBuild(w, b)
          PROVE  Fits'
  <2>1. worker[w] # Idle /\ worker[w].phase = "build" /\ UNCHANGED <<row, blessed, profile>>
    BY <1>build DEF StartBuild, target
  <2>2. worker[w] \in Claimed /\ ClaimFits(worker[w], blessed, profile)
    BY <1>t, <1>claims, <2>1, ClaimFields
  <2> DEFINE c == [worker[w] EXCEPT !.phase = "waiting", !.ref = b]
  <2>3. worker' = [worker EXCEPT ![w] = c]
    BY <1>t, <1>build DEF StartBuild, TypeOK
  <2>4. c.r = worker[w].r /\ c.fence = worker[w].fence /\ c.from = worker[w].from /\ c.phase = "waiting"
    BY <2>2 DEF Claimed
  <2> HIDE DEF c
  <2>5. ClaimFits(c, blessed', profile')
    BY <2>1, <2>2, <2>4 DEF ClaimFits
  <2>6. \A v \in Worker : ClaimStays(v)
    BY <1>t, <2>1, <2>3, <2>4, <2>5, Onward
  <2> QED
    BY <1>t, <1>grows, <1>still, <2>1, <2>6, StepFits
<1>moves. ASSUME NEW w \in Worker, ProposeManifest(w) \/ Advance(w)
          PROVE  Fits'
  <2> DEFINE k == worker[w]
             to == IF k.phase = "manifest" THEN "AWAITING_APPROVAL" ELSE k.to
             x == Moved(k, to)
  <2>1. /\ Held(w) /\ k.phase \in {"manifest", "advance"}
        /\ Write(k.r, x) /\ Stop(w) /\ UNCHANGED <<blessed, profile>>
    BY <1>moves DEF ProposeManifest, Advance, target
  <2>2. /\ k # Idle /\ k.r \in Repo /\ row[k.r].state = k.from
        /\ RowFits(row[k.r], blessed[k.r]) /\ ClaimFits(k, blessed, profile)
    BY <2>1, HolderFacts
  <2>3. k \in Claimed /\ to \in States
    BY <1>t, <2>2, ClaimFields DEF States
  <2>4. /\ x.state = to /\ x.attempts = 0 /\ x.lease = "none"
        /\ x.image = IF k.from = "PENDING_BUILD" THEN k.image ELSE row[k.r].image
    <3> HIDE DEF to, k
    <3> QED
      BY <1>t, <2>3, MovedRow
  <2>5. RowFits(x, blessed'[k.r])
    <3>1. CASE k.phase = "manifest"
      <4>1. k.from = "PENDING_MANIFEST" /\ to = "AWAITING_APPROVAL"
        BY <2>2, <3>1 DEF ClaimFits
      <4>2. row[k.r].image # 0
        BY <2>2, <4>1 DEF RowFits
      <4> HIDE DEF x, to, k
      <4> QED
        BY <2>4, <4>1, <4>2 DEF RowFits, Working
    <3>2. CASE k.phase = "advance"
      <4>1. \/ k.from = "PENDING_PLAN" /\ to \in {"PENDING_BUILD", "UNSUPPORTED"}
            \/ k.from = "PENDING_BUILD" /\ to = "PENDING_MANIFEST" /\ k.image # 0
            \/ k.from = "APPROVED" /\ to = "CONFIGURED"
        BY <2>2, <3>2 DEF ClaimFits
      <4> HIDE DEF x, to, k
      <4>2. 0 < MaxAttempts
        OBVIOUS
      <4> QED
        BY <2>4, <4>1, <4>2 DEF RowFits, Working
    <3> QED
      BY <2>1, <3>1, <3>2
  <2>6. \A q \in Repo : RowStays(q)
    <3> HIDE DEF x, k
    <3> QED
      BY <2>1, <2>2, <2>4, <2>5, LetGo
  <2> QED
    BY <1>t, <1>grows, <2>1, <2>6, Away, StepFits
<1>verify. ASSUME NEW w \in Worker, Verify(w)
           PROVE  Fits'
  <2>1. worker[w] # Idle /\ worker[w].phase = "verify" /\ UNCHANGED <<row, blessed, profile>>
    BY <1>verify DEF Verify, target
  <2>2. worker[w] \in Claimed /\ ClaimFits(worker[w], blessed, profile)
    BY <1>t, <1>claims, <2>1, ClaimFields
  <2> DEFINE c == [worker[w] EXCEPT !.phase = "pin"]
  <2>3. worker' = [worker EXCEPT ![w] = c]
    BY <1>t, <1>verify, Goes DEF Verify, Phases
  <2>4. /\ c.r = worker[w].r /\ c.fence = worker[w].fence /\ c.from = worker[w].from
        /\ c.image = worker[w].image /\ c.phase = "pin"
    BY <2>2 DEF Claimed
  <2> HIDE DEF c
  <2>5. ClaimFits(c, blessed', profile')
    BY <2>1, <2>2, <2>4 DEF ClaimFits
  <2>6. \A v \in Worker : ClaimStays(v)
    BY <1>t, <2>1, <2>3, <2>4, <2>5, Onward
  <2> QED
    BY <1>t, <1>grows, <1>still, <2>1, <2>6, StepFits
<1>pin. ASSUME NEW w \in Worker, Configure(w) \/ Rotate(w)
        PROVE  Fits'
  <2> DEFINE k == worker[w]
             a == [k EXCEPT !.phase = "advance", !.to = "CONFIGURED"]
             b == [k EXCEPT !.phase = "rotate"]
  <2>1. k # Idle /\ k.phase \in {"pin", "rotate"} /\ UNCHANGED <<row, blessed>>
    BY <1>pin DEF Configure, Rotate
  <2>2. k \in Claimed /\ k.r \in Repo /\ ClaimFits(k, blessed, profile)
    BY <1>t, <1>claims, <2>1, ClaimFields
  <2>3. \/ profile' = [profile EXCEPT ![k.r] = k.image] /\ worker' = [worker EXCEPT ![w] = a]
        \/ profile' = profile /\ worker' = [worker EXCEPT ![w] = b]
    <3>1. \/ profile' = [profile EXCEPT ![k.r] = k.image] /\ Leaves(w, "CONFIGURED")
          \/ profile' = profile /\ Go(w, "rotate")
      BY <1>pin DEF Configure, Rotate, target
    <3> QED
      BY <1>t, <2>1, <3>1, Goes, LeavesFor DEF Phases, States
  <2>4. k.from = "APPROVED" /\ k.image \in blessed[k.r]
    BY <2>1, <2>2 DEF ClaimFits
  <2>5. k.image # 0
    BY <1>t, <2>2, <2>4 DEF TypeOK
  <2>6. Grows
    BY <1>t, <2>1, <2>3, <2>5 DEF Grows, TypeOK
  <2>7. /\ a.r = k.r /\ a.fence = k.fence /\ a.from = k.from /\ a.phase = "advance" /\ a.to = "CONFIGURED"
        /\ b.r = k.r /\ b.fence = k.fence /\ b.from = k.from /\ b.phase = "rotate" /\ b.image = k.image
    BY <2>2 DEF Claimed
  <2>8. /\ profile' = [profile EXCEPT ![k.r] = k.image] => profile'[k.r] # 0
    BY <1>t, <2>2, <2>5 DEF TypeOK
  <2> HIDE DEF a, b
  <2>9. \A v \in Worker : ClaimStays(v)
    <3>1. CASE profile' = [profile EXCEPT ![k.r] = k.image] /\ worker' = [worker EXCEPT ![w] = a]
      <4>1. ClaimFits(a, blessed', profile')
        BY <2>4, <2>7, <2>8, <3>1 DEF ClaimFits
      <4> QED
        BY <1>t, <2>1, <2>7, <3>1, <4>1, Onward
    <3>2. CASE profile' = profile /\ worker' = [worker EXCEPT ![w] = b]
      <4>1. ClaimFits(b, blessed', profile')
        BY <2>1, <2>4, <2>7, <3>2 DEF ClaimFits
      <4> QED
        BY <1>t, <2>1, <2>7, <3>2, <4>1, Onward
    <3> QED
      BY <2>3, <3>1, <3>2
  <2> QED
    BY <1>t, <1>still, <2>1, <2>6, <2>9, StepFits
<1>lost. ASSUME NEW w \in Worker, LeaseLost(w)
         PROVE  Fits'
  <2>1. Stop(w) /\ UNCHANGED <<row, blessed, profile>>
    BY <1>lost DEF LeaseLost, target
  <2> QED
    BY <1>t, <1>grows, <1>still, <2>1, Away, StepFits
<1>fail. ASSUME NEW w \in Worker, Fail(w)
         PROVE  Fits'
  <2>1. Held(w) /\ Write(worker[w].r, Failed(w)) /\ Stop(w) /\ UNCHANGED <<blessed, profile>>
    BY <1>fail DEF Fail, target
  <2> DEFINE r == worker[w].r
             y == Unleased(row[r])
             s == IF row[r].attempts >= MaxAttempts THEN "FAILED" ELSE worker[w].from
             x == [y EXCEPT !.state = s]
  <2>2. r \in Repo /\ row[r].state = worker[w].from /\ row[r] \in Row /\ RowFits(row[r], blessed[r])
    BY <2>1, HolderFacts
  <2>3. /\ y \in Row /\ y.lease = "none" /\ y.attempts = row[r].attempts /\ y.image = row[r].image
    BY <2>2, UnleasedRow
  <2>4. Failed(w) = x
    BY DEF Failed
  <2> HIDE DEF y
  <2>5. x.state = s /\ x.lease = "none" /\ x.attempts = row[r].attempts /\ x.image = row[r].image
    <3> HIDE DEF s
    <3> QED
      BY <2>3 DEF Row
  <2>6. row[r].attempts \in 0..MaxAttempts
    BY <2>2, RowFields
  <2> HIDE DEF x
  <2>7. RowFits(x, blessed'[r])
    <3>1. CASE row[r].attempts >= MaxAttempts
      BY <2>5, <3>1 DEF RowFits, Working
    <3>2. CASE ~(row[r].attempts >= MaxAttempts)
      BY <2>1, <2>2, <2>5, <3>2 DEF RowFits
    <3> QED
      BY <3>1, <3>2
  <2>8. \A q \in Repo : RowStays(q)
    <3> HIDE DEF r
    <3> QED
      BY <2>1, <2>2, <2>4, <2>5, <2>7, LetGo DEF r
  <2> QED
    BY <1>t, <1>grows, <2>1, <2>8, Away, StepFits
<1>release. ASSUME NEW w \in Worker, Release(w)
            PROVE  Fits'
  <2> DEFINE r == worker[w].r
             y == Unleased(row[r])
             n == IF y.attempts > 0 THEN y.attempts - 1 ELSE 0
             x == [y EXCEPT !.attempts = n]
  <2>1. Held(w) /\ Write(r, [y EXCEPT !.attempts = IF @ > 0 THEN @ - 1 ELSE 0])
        /\ Stop(w) /\ UNCHANGED <<blessed, profile>>
    BY <1>release DEF Release, target
  <2>2. r \in Repo /\ row[r].state \in Working /\ row[r] \in Row /\ RowFits(row[r], blessed[r])
    BY <2>1, HolderFacts
  <2>3. /\ y \in Row /\ y.lease = "none" /\ y.image = row[r].image /\ y.state = row[r].state
    BY <2>2, UnleasedRow
  <2>4. y.attempts \in 0..MaxAttempts
    BY <2>3, RowFields
  <2>5. n < MaxAttempts /\ n \in Nat
    BY <2>4
  <2> HIDE DEF y
  <2>6. [y EXCEPT !.attempts = IF @ > 0 THEN @ - 1 ELSE 0] = x
    BY <2>3 DEF Row
  <2> HIDE DEF n
  <2>7. x.state = row[r].state /\ x.lease = "none" /\ x.attempts = n /\ x.image = row[r].image
    BY <2>3 DEF Row
  <2> HIDE DEF x
  <2>8. RowFits(x, blessed'[r])
    BY <2>1, <2>2, <2>5, <2>7 DEF RowFits, Working
  <2>9. \A q \in Repo : RowStays(q)
    <3> HIDE DEF r
    <3> QED
      BY <2>1, <2>2, <2>6, <2>7, <2>8, LetGo
  <2> QED
    BY <1>t, <1>grows, <2>1, <2>9, Away, StepFits
<1>end. ASSUME NEW t \in Turn, EndTurn(t)
        PROVE  Fits'
  <2> DEFINE r == turn[t].r
             x == Cleared(t, row[r])
  <2>1. r \in Repo /\ Write(r, x) /\ UNCHANGED <<worker, blessed, profile>>
    BY <1>t, <1>end DEF EndTurn, TypeOK, target
  <2>2. /\ x.state = row[r].state /\ x.attempts = row[r].attempts /\ x.image = row[r].image
        /\ x.owner = row[r].owner /\ x.fence = row[r].fence /\ x.lease = row[r].lease
    BY <1>rows, <2>1 DEF Cleared, Row
  <2> HIDE DEF x, r
  <2> QED
    BY <1>t, <1>grows, <1>same, <2>1, <2>2, QuietWrite, StepFits
<1>runs. ASSUME NEW b \in Build, Runs(b)
         PROVE  Fits'
  <2>1. UNCHANGED <<row, blessed, profile>>
    BY <1>runs DEF Runs, FreeName, RegisterSnapshot, BuildFails, target
  <2>2. CASE UNCHANGED worker
    BY <1>t, <1>grows, <1>same, <1>still, <2>1, <2>2, StepFits
  <2>3. CASE RegisterSnapshot(b)
    <3> DEFINE told(w) == [worker[w] EXCEPT !.phase = "advance", !.image = b, !.ref = 0,
                                            !.plan = "none", !.to = "PENDING_MANIFEST"]
    <3>1. worker' = [w \in Worker |-> IF w \in Waiting(b) THEN told(w) ELSE worker[w]]
      BY <2>3 DEF RegisterSnapshot
    <3>2. ASSUME NEW v \in Waiting(b)
          PROVE  ClaimStays(v)
      <4>1. v \in Worker /\ worker[v] # Idle /\ worker[v].phase = "waiting"
        BY DEF Waiting
      <4>2. worker[v] \in Claimed /\ worker[v].from = "PENDING_BUILD"
        BY <1>t, <1>claims, <4>1, ClaimFields DEF ClaimFits
      <4>3. worker'[v] = told(v)
        BY <3>1, <4>1
      <4>4. /\ told(v).r = worker[v].r /\ told(v).fence = worker[v].fence /\ told(v).from = worker[v].from
            /\ told(v).phase = "advance" /\ told(v).image = b /\ told(v).to = "PENDING_MANIFEST"
        BY <4>2 DEF Claimed
      <4>5. b # 0
        OBVIOUS
      <4> HIDE DEF told
      <4>6. ClaimFits(worker'[v], blessed', profile')
        BY <4>2, <4>3, <4>4, <4>5 DEF ClaimFits
      <4> QED
        BY <4>1, <4>3, <4>4, <4>6 DEF ClaimStays
    <3>3. \A v \in Worker : ClaimStays(v)
      <4> HIDE DEF told
      <4> QED
        BY <3>1, <3>2 DEF ClaimStays
    <3> QED
      BY <1>t, <1>grows, <1>still, <2>1, <3>3, StepFits
  <2> QED
    BY <1>runs, <2>2, <2>3 DEF Runs, FreeName, BuildFails
<1>maintain. CASE Sweeps
  <2>1. UNCHANGED <<row, worker, blessed, profile>>
    BY <1>maintain DEF Sweeps, SweepStart, SweepReadsProfiles, SweepReadsRows, SweepDeletes, target
  <2> QED
    BY <1>t, <1>grows, <1>same, <1>still, <2>1, StepFits
<1>stutter. CASE UNCHANGED vars
  <2>1. UNCHANGED <<row, worker, blessed, profile>>
    BY <1>stutter DEF vars, target
  <2> QED
    BY <1>t, <1>grows, <1>same, <1>still, <2>1, StepFits
<1> QED
  BY <1>queue, <1>approve, <1>expire, <1>sweep, <1>link, <1>claim, <1>tool, <1>resolve, <1>classify,
     <1>store, <1>review, <1>agent, <1>back, <1>build, <1>moves, <1>verify, <1>pin, <1>lost, <1>fail,
     <1>release, <1>end, <1>runs, <1>maintain, <1>stutter
     DEF Next, Work, Quits

-----------------------------------------------------------------------------
(* Theorems.                                                               *)

LEMMA InvInit == Init => IInv
<1> SUFFICES ASSUME Init PROVE IInv
  OBVIOUS
<1>1. TypeOK
  BY TypeInit
<1>2. Busy = {} /\ \A w \in Worker : ~Held(w)
  BY DEF Init, Fresh, Busy, Held
<1>3. RowsFit
  BY DEF Init, Fresh, RowsFit, RowFits, Absent, Working
<1> QED
  BY <1>1, <1>2, <1>3 DEF IInv, Fits, ClaimsFit, OwnFences, HolderKnows

LEMMA InvNext == IInv /\ [Next]_vars => IInv'
<1> SUFFICES ASSUME IInv, [Next]_vars PROVE IInv'
  OBVIOUS
<1>1. TypeOK'
  BY TypeNext DEF IInv, Fits
<1>2. Fits'
  BY FitsNext
<1> QED
  BY <1>1, <1>2 DEF IInv

LEMMA InvAlways == Spec => []IInv
  BY InvInit, InvNext, PTL DEF Spec

(***************************************************************************)
(* The types, for any repositories, workers, builds and turns.             *)
(***************************************************************************)
THEOREM TypeCorrect == Spec => []TypeOK
<1>1. IInv => TypeOK
  BY DEF IInv
<1> QED
  BY <1>1, InvAlways, PTL

(***************************************************************************)
(* Whatever fails, expires, is handed back or approved, a row in progress  *)
(* that has spent its attempts still has a lease to run out: the sweep     *)
(* will find it and fail it, where a reviewer's retry reaches it.          *)
(***************************************************************************)
THEOREM NoneStranded == Spec => []NoRowStranded
<1>1. IInv => NoRowStranded
  BY DEF IInv, Fits, RowsFit, RowFits, NoRowStranded
<1> QED
  BY <1>1, InvAlways, PTL

(***************************************************************************)
(* The worker whose lease holds is still looking at the state it claimed,  *)
(* so that what it writes under its fence it writes over what it read,     *)
(* whatever approvals, retries, sweeps and other workers do meanwhile.     *)
(***************************************************************************)
THEOREM HolderIsCurrent == Spec => []HolderKnows
<1>1. IInv => HolderKnows
  BY DEF IInv, Fits
<1> QED
  BY <1>1, InvAlways, PTL

-----------------------------------------------------------------------------
(* Onboarding implements TargetProposal.                                   *)

Path == [r \in Repo |-> PhaseOf(row[r].state)]
Offers == [r \in Repo |-> row[r].image]

LEMMA RowOnPath ==
    ASSUME TypeOK, NEW r \in Repo, NEW x, Write(r, x)
    PROVE  /\ Path' = [Path EXCEPT ![r] = PhaseOf(x.state)]
           /\ Offers' = [Offers EXCEPT ![r] = x.image]
           /\ PhaseOf(x.state) = PhaseOf(row[r].state) => Path' = Path
           /\ x.image = row[r].image => Offers' = Offers
<1>1. row' = [row EXCEPT ![r] = x] /\ row \in [Repo -> Row]
  BY DEF Write, TypeOK
<1> QED
  BY <1>1 DEF Path, Offers

LEMMA Phased ==
    /\ PhaseOf("ABSENT") = "none"
    /\ \A s \in {"PENDING_PLAN", "PENDING_BUILD", "PENDING_MANIFEST"} : PhaseOf(s) = "building"
    /\ PhaseOf("AWAITING_APPROVAL") = "proposed"
    /\ PhaseOf("APPROVED") = "approved"
    /\ PhaseOf("CONFIGURED") = "configured"
    /\ PhaseOf("FAILED") = "failed"
    /\ PhaseOf("UNSUPPORTED") = "refused"
  BY DEF PhaseOf

Kept == [Promise!Next]_(Promise!vars)

\* A step that leaves where a row stands, its image, the approvals and the
\* profiles.
LEMMA Unseen ==
    ASSUME Path' = Path, Offers' = Offers, UNCHANGED <<blessed, profile>>
    PROVE  Kept
  BY DEF Kept, Promise!vars, Path, Offers

LEMMA PromiseStep == IInv /\ [Next]_vars => Kept
<1> SUFFICES ASSUME IInv, [Next]_vars PROVE Kept
  OBVIOUS
<1>t. TypeOK
  BY DEF IInv
<1>rows. \A r \in Repo : row[r] \in Row /\ RowFits(row[r], blessed[r])
  BY DEF IInv, TypeOK, Fits, RowsFit
<1>claims. \A w \in Worker : worker[w] # Idle => ClaimFits(worker[w], blessed, profile)
  BY DEF IInv, Fits, ClaimsFit, Busy
<1>same. UNCHANGED <<row, blessed, profile>> => Kept
  BY Unseen DEF Path, Offers
<1>quiet. ASSUME NEW r \in Repo, NEW x, Write(r, x), PhaseOf(x.state) = PhaseOf(row[r].state),
                 x.image = row[r].image, UNCHANGED <<blessed, profile>>
          PROVE  Kept
  BY <1>t, <1>quiet, RowOnPath, Unseen
<1>step. ASSUME NEW r \in Repo,
                \/ Promise!Start(r) \/ Promise!Refuse(r) \/ Promise!GiveUp(r) \/ Promise!Propose(r)
                \/ Promise!Approve(r) \/ Promise!Configure(r)
                \/ \E i \in Build : Promise!Builds(r, i) \/ Promise!Pin(r, i)
         PROVE  Kept
  BY <1>step DEF Kept, Promise!Next
<1>queue. ASSUME NEW r \in Repo, Enqueue(r) \/ Retry(r)
          PROVE  Kept
  <2>1. PICK x : /\ Write(r, x) /\ x.state = "PENDING_PLAN" /\ x.image = 0
                 /\ row[r].state \in {"ABSENT", "FAILED", "UNSUPPORTED"}
    <3>1. CASE row[r].state = "ABSENT" /\ Write(r, [Absent EXCEPT !.state = "PENDING_PLAN"])
      BY <3>1 DEF Absent
    <3>2. CASE row[r].state \in {"FAILED", "UNSUPPORTED"} /\ Write(r, Requeued(row[r]))
      BY <1>rows, <3>2, RequeuedRow
    <3> QED
      BY <1>queue, <3>1, <3>2 DEF Enqueue, Retry
  <2>2. /\ Path' = [Path EXCEPT ![r] = "building"] /\ Offers' = [Offers EXCEPT ![r] = 0]
        /\ UNCHANGED <<blessed, profile>>
    BY <1>t, <1>queue, <2>1, RowOnPath, Phased DEF Enqueue, Retry, target
  <2>3. Path[r] \in {"none", "failed", "refused"}
    BY <2>1, Phased DEF Path
  <2>4. Promise!Start(r)
    BY <2>2, <2>3 DEF Promise!Start, Promise!Move, Path, Offers
  <2> QED
    BY <1>step, <2>4
<1>approve. ASSUME NEW r \in Repo, Approve(r)
            PROVE  Kept
  <2> DEFINE x == [row[r] EXCEPT !.state = "APPROVED"]
  <2>1. /\ Write(r, x) /\ row[r].state = "AWAITING_APPROVAL" /\ UNCHANGED profile
        /\ blessed' = [blessed EXCEPT ![r] = @ \union {Offers[r]}]
    BY <1>approve DEF Approve, Approvable, target, Offers
  <2>2. x.state = "APPROVED" /\ x.image = row[r].image
    BY <1>rows DEF Row
  <2> HIDE DEF x
  <2>3. Path' = [Path EXCEPT ![r] = "approved"] /\ Offers' = Offers
    BY <1>t, <2>1, <2>2, RowOnPath, Phased
  <2>4. Path[r] = "proposed"
    BY <2>1, Phased DEF Path
  <2>5. Promise!Approve(r)
    BY <2>1, <2>3, <2>4 DEF Promise!Approve, Promise!Move, Path, Offers
  <2> QED
    BY <1>step, <2>5
<1>expire. ASSUME NEW r \in Repo, Expire(r)
           PROVE  Kept
  <2> DEFINE x == [row[r] EXCEPT !.lease = "expired"]
  <2>1. Write(r, x) /\ UNCHANGED <<blessed, profile>>
    BY <1>expire DEF Expire, target
  <2>2. x.state = row[r].state /\ x.image = row[r].image
    BY <1>rows DEF Row
  <2> HIDE DEF x
  <2> QED
    BY <1>quiet, <2>1, <2>2
\* A row in progress is given up, from before a proposal or after its approval.
<1>fails. ASSUME NEW r \in Repo, NEW x, Write(r, x), x.state = "FAILED", x.image = row[r].image,
                 row[r].state \in Working, UNCHANGED <<blessed, profile>>
          PROVE  Kept
  <2>1. Path' = [Path EXCEPT ![r] = "failed"] /\ Offers' = Offers
    BY <1>t, <1>fails, RowOnPath, Phased
  <2>2. Path[r] \in {"building", "approved"}
    BY <1>fails, Phased DEF Path, Working
  <2>3. Promise!GiveUp(r)
    BY <1>fails, <2>1, <2>2 DEF Promise!GiveUp, Promise!Move, Path, Offers
  <2> QED
    BY <1>step, <2>3
<1>sweep. ASSUME NEW r \in Repo, SweepLease(r)
          PROVE  Kept
  <2>1. UNCHANGED <<blessed, profile>>
    BY <1>sweep DEF SweepLease, target
  <2> DEFINE y == Unleased(row[r])
             x == [y EXCEPT !.state = "FAILED"]
  <2>2. y \in Row /\ y.state = row[r].state /\ y.image = row[r].image
    BY <1>rows, UnleasedRow
  <2>3. \/ Write(r, y)
        \/ Write(r, x) /\ row[r].state \in Working
        \/ Write(r, row[r])
    BY <1>sweep DEF SweepLease
  <2> HIDE DEF y
  <2>4. x.state = "FAILED" /\ x.image = row[r].image
    BY <2>2 DEF Row
  <2> HIDE DEF x
  <2> QED
    BY <1>quiet, <1>fails, <2>1, <2>2, <2>3, <2>4
<1>link. ASSUME NEW r \in Repo, Revoke(r) \/ Grant(r)
         PROVE  Kept
  BY <1>same, <1>link DEF Revoke, Grant
<1>claim. ASSUME NEW r \in Repo, NEW w \in Worker, Claim(w, r)
          PROVE  Kept
  <2> DEFINE x == [row[r] EXCEPT !.owner = OwnerOf[w], !.lease = "live", !.attempts = @ + 1, !.fence = NewFence(r)]
  <2>1. Write(r, x) /\ UNCHANGED <<blessed, profile>>
    BY <1>claim DEF Claim, target
  <2>2. x.state = row[r].state /\ x.image = row[r].image
    BY <1>rows DEF Row
  <2> HIDE DEF x
  <2> QED
    BY <1>quiet, <2>1, <2>2
<1>tool. ASSUME NEW r \in Repo, NEW t \in Turn, NEW plan \in Plans, AgentWrites(t, r, plan)
         PROVE  Kept
  <2> DEFINE x == [row[r] EXCEPT !.plan = plan]
  <2>1. Write(r, x) /\ UNCHANGED <<blessed, profile>>
    BY <1>tool DEF AgentWrites, target
  <2>2. x.state = row[r].state /\ x.image = row[r].image
    BY <1>rows DEF Row
  <2> HIDE DEF x
  <2> QED
    BY <1>quiet, <2>1, <2>2
\* What a worker writes on its way to an advance.
<1>work. ASSUME NEW w \in Worker,
                \/ Resolve(w) \/ StorePlan(w) \/ Review(w) \/ \E t \in Turn : StartTurn(w, t)
         PROVE  Kept
  <2> DEFINE r == worker[w].r
  <2>1. worker[w] # Idle /\ UNCHANGED <<blessed, profile>>
    BY <1>work DEF Resolve, StorePlan, Review, StartTurn, target
  <2>2. r \in Repo
    BY <1>t, <2>1, ClaimFields
  <2>3. PICK x : /\ Write(r, x) \/ UNCHANGED row
                 /\ x.state = row[r].state /\ x.image = row[r].image
    <3>1. CASE Resolve(w)
      <4>1. LET x == [row[r] EXCEPT !.commit = TRUE] IN
              Write(r, x) /\ x.state = row[r].state /\ x.image = row[r].image
        BY <1>rows, <2>2, <3>1 DEF Resolve, Row
      <4> QED
        BY <4>1
    <3>2. CASE StorePlan(w) \/ Review(w)
      <4>1. LET x == [row[r] EXCEPT !.plan = "refused"] IN
              /\ Write(r, x) \/ UNCHANGED row
              /\ x.state = row[r].state /\ x.image = row[r].image
        BY <1>rows, <2>2, <3>2 DEF StorePlan, Review, Row
      <4> QED
        BY <4>1
    <3>3. ASSUME NEW t \in Turn, StartTurn(w, t)
          PROVE  \E x : Write(r, x) /\ x.state = row[r].state /\ x.image = row[r].image
      <4>1. LET x == [row[r] EXCEPT !.token = t] IN
              Write(r, x) /\ x.state = row[r].state /\ x.image = row[r].image
        BY <1>rows, <2>2, <3>3 DEF StartTurn, Row
      <4> QED
        BY <4>1
    <3> QED
      BY <1>work, <3>1, <3>2, <3>3
  <2> HIDE DEF r
  <2> QED
    BY <1>same, <1>quiet, <2>1, <2>2, <2>3
<1>plan. ASSUME NEW w \in Worker,
                \/ Classify(w) \/ ReadBack(w) \/ Verify(w) \/ LeaseLost(w) \/ \E b \in Build : StartBuild(w, b)
         PROVE  Kept
  BY <1>same, <1>plan DEF Classify, ReadBack, Verify, LeaseLost, StartBuild, target
<1>propose. ASSUME NEW w \in Worker, ProposeManifest(w)
            PROVE  Kept
  <2> DEFINE k == worker[w]
             x == Moved(k, "AWAITING_APPROVAL")
  <2>1. /\ Held(w) /\ k.phase = "manifest" /\ Write(k.r, x) /\ UNCHANGED <<blessed, profile>>
    BY <1>propose DEF ProposeManifest, target
  <2>2. /\ k # Idle /\ k.r \in Repo /\ row[k.r].state = k.from
        /\ RowFits(row[k.r], blessed[k.r]) /\ ClaimFits(k, blessed, profile)
    BY <2>1, HolderFacts
  <2>3. k \in Claimed
    BY <1>t, <2>2, ClaimFields
  <2>4. k.from = "PENDING_MANIFEST"
    BY <2>1, <2>2 DEF ClaimFits
  <2>5. x.state = "AWAITING_APPROVAL" /\ x.image = row[k.r].image
    <3> HIDE DEF k
    <3> QED
      BY <1>t, <2>3, <2>4, MovedRow DEF States
  <2>6. row[k.r].image # 0
    BY <2>2, <2>4 DEF RowFits
  <2> DEFINE r == k.r
  <2> HIDE DEF x
  <2>7. r \in Repo /\ Write(r, x) /\ row[r].state = "PENDING_MANIFEST" /\ row[r].image # 0 /\ x.image = row[r].image
    BY <2>1, <2>2, <2>4, <2>5, <2>6
  <2> HIDE DEF k, r
  <2>8. Path' = [Path EXCEPT ![r] = "proposed"] /\ Offers' = Offers
    BY <1>t, <2>5, <2>7, RowOnPath, Phased
  <2>9. Path[r] = "building" /\ Offers[r] # 0
    BY <2>7, Phased DEF Path, Offers
  <2>10. Promise!Propose(r)
    BY <2>1, <2>8, <2>9 DEF Promise!Propose, Promise!Move, Path, Offers
  <2> QED
    BY <1>step, <2>7, <2>10
<1>advance. ASSUME NEW w \in Worker, Advance(w)
            PROVE  Kept
  <2> DEFINE k == worker[w]
             to == k.to
             x == Moved(k, to)
             r == k.r
  <2>1. /\ Held(w) /\ k.phase = "advance" /\ Write(r, x) /\ UNCHANGED <<blessed, profile>>
    BY <1>advance DEF Advance, target
  <2>2. k # Idle /\ r \in Repo /\ row[r].state = k.from /\ ClaimFits(k, blessed, profile)
    BY <2>1, HolderFacts
  <2>3. k \in Claimed /\ to \in States /\ k.image \in Builds
    BY <1>t, <2>2, ClaimFields
  <2>4. x.state = to /\ x.image = IF k.from = "PENDING_BUILD" THEN k.image ELSE row[r].image
    <3> HIDE DEF k, to
    <3> QED
      BY <1>t, <2>3, MovedRow
  <2>5. \/ k.from = "PENDING_PLAN" /\ to = "PENDING_BUILD"
        \/ k.from = "PENDING_PLAN" /\ to = "UNSUPPORTED"
        \/ k.from = "PENDING_BUILD" /\ to = "PENDING_MANIFEST" /\ k.image # 0
        \/ k.from = "APPROVED" /\ to = "CONFIGURED" /\ profile[r] # 0
    BY <2>1, <2>2 DEF ClaimFits
  <2> HIDE DEF x, to, r, k
  <2>6. Path[r] = PhaseOf(k.from)
    BY <2>2 DEF Path
  <2>7. CASE k.from = "PENDING_PLAN" /\ to = "PENDING_BUILD"
    BY <1>quiet, <2>1, <2>2, <2>4, <2>7, Phased
  <2>8. CASE k.from = "PENDING_PLAN" /\ to = "UNSUPPORTED"
    <3>1. Path' = [Path EXCEPT ![r] = "refused"] /\ Offers' = Offers /\ Path[r] = "building"
      BY <1>t, <2>1, <2>2, <2>4, <2>6, <2>8, RowOnPath, Phased
    <3>2. Promise!Refuse(r)
      BY <2>1, <3>1 DEF Promise!Refuse, Promise!Move, Path, Offers
    <3> QED
      BY <1>step, <2>2, <3>2
  <2>9. CASE k.from = "PENDING_BUILD" /\ to = "PENDING_MANIFEST" /\ k.image # 0
    <3>1. Path' = Path /\ Offers' = [Offers EXCEPT ![r] = k.image] /\ Path[r] = "building"
      BY <1>t, <2>1, <2>2, <2>4, <2>6, <2>9, RowOnPath, Phased
    <3>2. k.image \in Build
      BY <2>3, <2>9 DEF Builds
    <3>3. \E i \in Build : Promise!Builds(r, i)
      <4>1. PICK i \in Build : i = k.image
        BY <3>2
      <4>2. Promise!Builds(r, i)
        BY <2>1, <3>1, <4>1 DEF Promise!Builds, Path, Offers
      <4> QED
        BY <4>2
    <3> QED
      BY <1>step, <2>2, <3>3
  <2>10. CASE k.from = "APPROVED" /\ to = "CONFIGURED" /\ profile[r] # 0
    <3>1. Path' = [Path EXCEPT ![r] = "configured"] /\ Offers' = Offers /\ Path[r] = "approved"
      BY <1>t, <2>1, <2>2, <2>4, <2>6, <2>10, RowOnPath, Phased
    <3>2. Promise!Configure(r)
      BY <2>1, <2>10, <3>1 DEF Promise!Configure, Promise!Move, Path, Offers
    <3> QED
      BY <1>step, <2>2, <3>2
  <2> QED
    BY <2>5, <2>7, <2>8, <2>9, <2>10
<1>pin. ASSUME NEW w \in Worker, Configure(w) \/ Rotate(w)
        PROVE  Kept
  <2> DEFINE k == worker[w]
             r == k.r
  <2>1. /\ k # Idle /\ k.phase \in {"pin", "rotate"} /\ UNCHANGED <<row, blessed>>
        /\ profile' = [profile EXCEPT ![r] = k.image] \/ UNCHANGED profile
    BY <1>pin DEF Configure, Rotate, target
  <2>2. r \in Repo /\ ClaimFits(k, blessed, profile)
    BY <1>t, <1>claims, <2>1, ClaimFields
  <2>3. k.image \in blessed[r]
    BY <2>1, <2>2 DEF ClaimFits
  <2>4. k.image \in Build
    BY <1>t, <2>2, <2>3 DEF TypeOK
  <2> HIDE DEF k, r
  <2>5. ASSUME profile' = [profile EXCEPT ![r] = k.image]
        PROVE  Promise!Pin(r, k.image)
    BY <2>1, <2>3, <2>5 DEF Promise!Pin
  <2> QED
    BY <1>same, <1>step, <2>1, <2>2, <2>4, <2>5
<1>fail. ASSUME NEW w \in Worker, Fail(w)
         PROVE  Kept
  <2> DEFINE r == worker[w].r
             y == Unleased(row[r])
             s == IF row[r].attempts >= MaxAttempts THEN "FAILED" ELSE worker[w].from
             x == [y EXCEPT !.state = s]
  <2>1. Held(w) /\ Write(r, x) /\ UNCHANGED <<blessed, profile>>
    BY <1>fail DEF Fail, Failed, target
  <2>2. r \in Repo /\ row[r].state = worker[w].from /\ row[r] \in Row /\ row[r].state \in Working
    BY <2>1, HolderFacts
  <2>3. y \in Row /\ y.image = row[r].image
    BY <2>2, UnleasedRow
  <2>4. s = "FAILED" \/ s = row[r].state
    BY <2>2
  <2> HIDE DEF y, s
  <2>5. x.state = s /\ x.image = row[r].image
    BY <2>3 DEF Row
  <2> HIDE DEF x, r
  <2> QED
    BY <1>quiet, <1>fails, <2>1, <2>2, <2>4, <2>5
<1>release. ASSUME NEW w \in Worker, Release(w)
            PROVE  Kept
  <2> DEFINE r == worker[w].r
             y == Unleased(row[r])
             x == [y EXCEPT !.attempts = IF @ > 0 THEN @ - 1 ELSE 0]
  <2>1. Held(w) /\ Write(r, x) /\ UNCHANGED <<blessed, profile>>
    BY <1>release DEF Release, target
  <2>2. r \in Repo /\ row[r] \in Row
    BY <2>1, HolderFacts
  <2>3. y \in Row /\ y.image = row[r].image /\ y.state = row[r].state
    BY <2>2, UnleasedRow
  <2> HIDE DEF y
  <2>4. x.state = row[r].state /\ x.image = row[r].image
    BY <2>3 DEF Row
  <2> HIDE DEF x, r
  <2> QED
    BY <1>quiet, <2>1, <2>2, <2>4
<1>end. ASSUME NEW t \in Turn, EndTurn(t)
        PROVE  Kept
  <2> DEFINE r == turn[t].r
             x == Cleared(t, row[r])
  <2>1. r \in Repo /\ Write(r, x) /\ UNCHANGED <<blessed, profile>>
    BY <1>t, <1>end DEF EndTurn, TypeOK, target
  <2>2. x.state = row[r].state /\ x.image = row[r].image
    BY <1>rows, <2>1 DEF Cleared, Row
  <2> HIDE DEF x, r
  <2> QED
    BY <1>quiet, <2>1, <2>2
<1>runs. ASSUME NEW b \in Build, Runs(b)
         PROVE  Kept
  BY <1>same, <1>runs DEF Runs, FreeName, RegisterSnapshot, BuildFails, target
<1>maintain. ASSUME Sweeps
             PROVE  Kept
  BY <1>same, <1>maintain DEF Sweeps, SweepStart, SweepReadsProfiles, SweepReadsRows, SweepDeletes, target
<1>stutter. CASE UNCHANGED vars
  BY <1>same, <1>stutter DEF vars, target
<1> QED
  BY <1>queue, <1>approve, <1>expire, <1>sweep, <1>link, <1>claim, <1>tool, <1>work, <1>plan,
     <1>propose, <1>advance, <1>pin, <1>fail, <1>release, <1>end, <1>runs, <1>maintain, <1>stutter
     DEF Next, Work, Quits

(***************************************************************************)
(* Onboarding implements TargetProposal, for any repositories, workers,    *)
(* owner strings, attempts, builds and turns: leases, stale workers,       *)
(* detached builds, retries and maintenance never let a repository become  *)
(* a target without a reviewer, or a profile pin an unapproved image.      *)
(***************************************************************************)
THEOREM OnboardingKeepsPromise == Spec => KeepsPromise
<1>1. Init => Promise!Init
  <2>1. ASSUME Init PROVE Promise!Init
    <3>1. \A r \in Repo : /\ row[r].state = "ABSENT" /\ row[r].image = 0
                          /\ profile[r] = 0 /\ blessed[r] = {}
      BY <2>1 DEF Init, Fresh, Absent
    <3>2. profile \in [Repo -> Build \union {0}] /\ blessed \in [Repo -> SUBSET Build]
      BY <2>1 DEF Init, Fresh
    <3> QED
      BY <3>1, <3>2, Phased DEF Promise!Init
  <2> QED
    BY <2>1
<1>2. IInv /\ [Next]_vars => [Promise!Next]_(Promise!vars)
  BY PromiseStep DEF Kept
<1> QED
  BY <1>1, <1>2, InvAlways, PTL DEF Spec, KeepsPromise, Promise!Spec

=============================================================================
