----------------------------- MODULE PartsProofs -----------------------------
(***************************************************************************)
(* Proofs about the smaller parts: CodeReview, OwnerAdvisory,              *)
(* HarnessSettings, Reproduction, Intake, Appeals and ImageBuild.          *)
(***************************************************************************)
EXTENDS CodeReview, OwnerAdvisory, HarnessSettings, Reproduction, Appeals, ImageBuild,
        FiniteSetTheorems, WellFoundedInduction, TLAPS

-----------------------------------------------------------------------------
(***************************************************************************)
(* CodeReview, for any number of runs, workers, calls and faults.          *)
(***************************************************************************)
ReviewRow == [status : Live \union Ended \union {"ABSENT"}, own : BOOLEAN, old : BOOLEAN]
ReviewSteps == {"idle", "load", "read", "session", "prompt", "poll", "delete", "close"}

\* The rows, the turns, the workers and the calls have their types.
ReviewTypeOK ==
    /\ review \in [1..Runs -> ReviewRow]
    /\ turn \in [1..Runs -> {"none", "open", "running", "done", "error", "gone"}]
    /\ reading \in [Reviewing -> [pc : ReviewSteps, run : 0..Runs, status : Ended]]
    /\ call \in [ToolCall -> [pc : {"idle", "found"}, run : 0..Runs]]

\* Rows are made in their order, one while none is live, and an ended one has
\* lost its token.
RowsInOrder ==
    /\ \A r \in 1..Runs : review[r].status \in Ended \union {"ABSENT"} => ~review[r].own
    /\ \A r, q \in 1..Runs : r < q /\ review[r].status = "ABSENT" => review[q].status = "ABSENT"
    /\ OneLiveReview

\* A worker holds a run that was claimed, and nobody else holds it.
RunsAreHeld ==
    /\ \A w \in Reviewing : reading[w].pc # "idle" =>
         reading[w].run \in 1..Runs /\ review[reading[w].run].status \notin {"ABSENT", "PENDING"}
    /\ \A w, v \in Reviewing : w # v /\ reading[w].pc # "idle" /\ reading[v].pc # "idle" =>
         reading[w].run # reading[v].run

\* DONE is decided on by a worker that saw the turn end.
DoneWasSeen ==
    \A w \in Reviewing : reading[w].status = "DONE" =>
        reading[w].pc \in {"delete", "close"} /\ turn[reading[w].run] \in {"done", "gone"}

CallsAtRest == \A c \in ToolCall : call[c].pc = "idle" => call[c].run = 0

ReviewInv == ReviewTypeOK /\ RowsInOrder /\ RunsAreHeld /\ DoneWasSeen /\ CallsAtRest

LEMMA ReviewInvInit == CodeReviewInit => ReviewInv
  BY CodeReviewAssumption
     DEF CodeReviewInit, ReviewInv, ReviewTypeOK, ReviewRow, ReviewSteps, RowsInOrder,
         OneLiveReview, RunsAreHeld, DoneWasSeen, CallsAtRest, NoReview, AtRest, NotCalled,
         Live, Ended

\* A worker that goes on keeps its run and what it will record; one that throws
\* will record FAILED.
LEMMA OnMoves ==
    ASSUME ReviewTypeOK, NEW w \in Reviewing, NEW pc \in ReviewSteps, On(w, pc)
    PROVE  /\ reading' \in [Reviewing -> [pc : ReviewSteps, run : 0..Runs, status : Ended]]
           /\ reading'[w].run = reading[w].run
           /\ reading'[w].pc = pc /\ reading'[w].status = reading[w].status
           /\ \A v \in Reviewing : v # w => reading'[v] = reading[v]
  BY DEF ReviewTypeOK, On

LEMMA ThrowMoves ==
    ASSUME ReviewTypeOK, NEW w \in Reviewing, NEW pc \in ReviewSteps, Throw(w, pc)
    PROVE  /\ reading' \in [Reviewing -> [pc : ReviewSteps, run : 0..Runs, status : Ended]]
           /\ reading'[w].run = reading[w].run
           /\ reading'[w].pc = pc /\ reading'[w].status = "FAILED"
           /\ \A v \in Reviewing : v # w => reading'[v] = reading[v]
  BY DEF ReviewTypeOK, Throw, Ended

\* What a step of a worker may do to the rows and the turns: nothing is created
\* and what a step does to a run is for the worker that holds it.
LEMMA ReviewInvNext == ReviewInv /\ [ReviewNext]_reviewVars => ReviewInv'
<1> SUFFICES ASSUME ReviewInv, [ReviewNext]_reviewVars PROVE ReviewInv'
  OBVIOUS
<1> USE CodeReviewAssumption DEF ReviewInv, Live, Ended
<1>1. CASE UNCHANGED reviewVars
  BY <1>1 DEF reviewVars, ReviewTypeOK, ReviewRow, ReviewSteps, RowsInOrder, OneLiveReview,
              RunsAreHeld, DoneWasSeen, CallsAtRest
<1>2. CASE EnqueueReview
  <2>1. PICK r \in 1..Runs :
          /\ review[r].status = "ABSENT" /\ \A q \in 1..Runs : q < r => review[q].status \in Ended
          /\ review' = [review EXCEPT ![r] = [status |-> "PENDING", own |-> TRUE, old |-> FALSE]]
          /\ UNCHANGED <<turn, reading, call, findings, trouble>>
    BY <1>2 DEF EnqueueReview
  <2>2. ReviewTypeOK'
    BY <2>1 DEF ReviewTypeOK, ReviewRow, ReviewSteps
  <2>3. \A q \in 1..Runs : q # r => review'[q] = review[q]
    BY <2>1 DEF ReviewTypeOK
  <2>4. review'[r] = [status |-> "PENDING", own |-> TRUE, old |-> FALSE]
    BY <2>1 DEF ReviewTypeOK
  <2>5. \A q \in 1..Runs : r < q => review[q].status = "ABSENT"
    BY <2>1 DEF RowsInOrder
  <2>6. \A q \in 1..Runs : q # r => review[q].status \in Ended \union {"ABSENT"}
    BY <2>1, <2>5
  <2>7. RowsInOrder'
    BY <2>1, <2>3, <2>4, <2>6 DEF RowsInOrder, OneLiveReview
  <2>8. RunsAreHeld'
    BY <2>1, <2>3, <2>4 DEF RunsAreHeld
  <2> QED
    BY <2>1, <2>2, <2>7, <2>8 DEF DoneWasSeen, CallsAtRest
<1>3. CASE SweepReviews
  <2>1. \A r \in 1..Runs :
          /\ review'[r] \in ReviewRow
          /\ \/ review'[r] = review[r]
             \/ review[r].status \in Live /\ review'[r].status = "TIMED_OUT" /\ ~review'[r].own
    <3> TAKE r \in 1..Runs
    <3>1. review[r] \in ReviewRow
      BY DEF ReviewTypeOK
    <3>2. review'[r] = IF review[r].status \in Live /\ review[r].old
                       THEN [review[r] EXCEPT !.status = "TIMED_OUT", !.own = FALSE] ELSE review[r]
      BY <1>3 DEF SweepReviews
    <3> QED
      BY <3>1, <3>2 DEF ReviewRow
  <2>2. ReviewTypeOK'
    BY <1>3, <2>1 DEF SweepReviews, ReviewTypeOK, ReviewSteps
  <2>3. RowsInOrder'
    BY <2>1 DEF RowsInOrder, OneLiveReview
  <2>4. RunsAreHeld'
    BY <1>3, <2>1 DEF SweepReviews, RunsAreHeld
  <2> QED
    BY <1>3, <2>2, <2>3, <2>4 DEF SweepReviews, DoneWasSeen, CallsAtRest
<1>4. ASSUME NEW r \in 1..Runs, Ages(r) PROVE ReviewInv'
  <2>1. /\ review' \in [1..Runs -> ReviewRow]
        /\ \A q \in 1..Runs : review'[q].status = review[q].status /\ review'[q].own = review[q].own
    BY <1>4 DEF Ages, ReviewTypeOK, ReviewRow
  <2> QED
    BY <1>4, <2>1 DEF Ages, ReviewTypeOK, ReviewSteps, RowsInOrder, OneLiveReview, RunsAreHeld,
                      DoneWasSeen, CallsAtRest
<1>5. ASSUME NEW r \in 1..Runs, EndTurn(r) PROVE ReviewInv'
  BY <1>5 DEF EndTurn, ReviewTypeOK, RowsInOrder, OneLiveReview, RunsAreHeld, DoneWasSeen,
              CallsAtRest
<1>6. ASSUME NEW w \in Reviewing, ClaimReview(w) PROVE ReviewInv'
  <2>1. PICK r \in 1..Runs :
          /\ review[r].status = "PENDING"
          /\ review' = [review EXCEPT ![r].status = "RUNNING", ![r].old = FALSE]
          /\ reading' = [reading EXCEPT ![w] = [pc |-> "load", run |-> r, status |-> "FAILED"]]
    BY <1>6 DEF ClaimReview
  <2>2. /\ review' \in [1..Runs -> ReviewRow]
        /\ review'[r].status = "RUNNING" /\ review'[r].own = review[r].own
        /\ \A q \in 1..Runs : q # r => review'[q] = review[q]
    BY <2>1 DEF ReviewTypeOK, ReviewRow
  <2>3. ReviewTypeOK'
    BY <1>6, <2>1, <2>2 DEF ClaimReview, ReviewTypeOK, ReviewSteps
  <2>4. RowsInOrder'
    BY <2>1, <2>2 DEF RowsInOrder, OneLiveReview
  <2>5. RunsAreHeld'
    BY <2>1, <2>2 DEF ReviewTypeOK, RunsAreHeld
  <2> QED
    BY <1>6, <2>1, <2>3, <2>4, <2>5 DEF ClaimReview, ReviewTypeOK, DoneWasSeen, CallsAtRest
<1>7. ASSUME NEW w \in Reviewing,
             LoadInput(w) \/ ReadSource(w) \/ OpenSession(w) \/ StartTurn(w) \/ PollTurn(w)
             \/ DeleteSession(w)
      PROVE  ReviewInv'
  <2>1. /\ UNCHANGED <<review, call>> /\ reading[w].pc # "idle"
        /\ turn' \in [1..Runs -> {"none", "open", "running", "done", "error", "gone"}]
        /\ \A q \in 1..Runs : q # reading[w].run => turn'[q] = turn[q]
    BY <1>7 DEF LoadInput, ReadSource, OpenSession, StartTurn, PollTurn, DeleteSession, WorkerAt,
                ReviewTypeOK
  <2>2. /\ reading' \in [Reviewing -> [pc : ReviewSteps, run : 0..Runs, status : Ended]]
        /\ reading'[w].run = reading[w].run
        /\ \A v \in Reviewing : v # w => reading'[v] = reading[v]
        /\ reading'[w].status = "DONE" =>
             /\ reading'[w].pc \in {"delete", "close"}
             /\ turn'[reading[w].run] \in {"done", "gone"}
    <3>1. reading[w].run \in 1..Runs
      BY <2>1 DEF RunsAreHeld
    <3>2. ASSUME NEW pc \in ReviewSteps, On(w, pc), reading[w].status # "DONE" PROVE <2>2
      BY <3>2, OnMoves
    <3>3. ASSUME NEW pc \in ReviewSteps, Throw(w, pc) PROVE <2>2
      BY <3>3, ThrowMoves
    <3>4. CASE LoadInput(w) \/ ReadSource(w) \/ OpenSession(w) \/ StartTurn(w)
      <4>1. reading[w].status # "DONE"
        BY <3>4 DEF LoadInput, ReadSource, OpenSession, StartTurn, WorkerAt, DoneWasSeen
      <4>2. \E pc \in ReviewSteps : On(w, pc) \/ Throw(w, pc)
        BY <3>4 DEF LoadInput, ReadSource, OpenSession, StartTurn, ReviewSteps
      <4> QED
        BY <4>1, <4>2, <3>2, <3>3
    <3>5. CASE PollTurn(w)
      <4>1. CASE Throw(w, "delete")
        BY <3>3, <4>1 DEF ReviewSteps
      <4>2. CASE ~Throw(w, "delete")
        <5>1. /\ turn' = turn
              /\ \E status \in Ended :
                   /\ reading' = [reading EXCEPT ![w].pc = "delete", ![w].status = status]
                   /\ status = "DONE" => turn[reading[w].run] = "done"
          <6>1. CASE turn[reading[w].run] = "done"
            BY <3>5, <4>2, <6>1 DEF PollTurn
          <6>2. CASE turn[reading[w].run] # "done"
            BY <3>5, <4>2, <6>2 DEF PollTurn
          <6> QED
            BY <6>1, <6>2
        <5>2. PICK status \in Ended :
                /\ reading' = [reading EXCEPT ![w].pc = "delete", ![w].status = status]
                /\ status = "DONE" => turn[reading[w].run] = "done"
          BY <5>1
        <5>3. /\ reading' \in [Reviewing -> [pc : ReviewSteps, run : 0..Runs, status : Ended]]
              /\ reading'[w].run = reading[w].run
              /\ reading'[w].pc = "delete" /\ reading'[w].status = status
              /\ \A v \in Reviewing : v # w => reading'[v] = reading[v]
          BY <5>2 DEF ReviewTypeOK, ReviewSteps
        <5> QED
          BY <5>1, <5>2, <5>3
      <4> QED
        BY <4>1, <4>2
    <3>6. CASE DeleteSession(w)
      <4>1. On(w, "close") /\ turn' \in {turn, [turn EXCEPT ![reading[w].run] = "gone"]}
        BY <3>6 DEF DeleteSession
      <4>2. reading[w].status = "DONE" => turn'[reading[w].run] \in {"done", "gone"}
        BY <3>1, <4>1 DEF DoneWasSeen, ReviewTypeOK
      <4> QED
        BY <4>1, <4>2, OnMoves DEF ReviewSteps
    <3> QED
      BY <1>7, <3>4, <3>5, <3>6
  <2>3. ReviewTypeOK'
    <3>1. review' = review /\ call' = call
      BY <2>1
    <3> QED
      BY <2>1, <2>2, <3>1 DEF ReviewTypeOK
  <2>4. RunsAreHeld'
    <3>1. \A v \in Reviewing : reading'[v].run = reading[v].run
                               /\ (reading'[v].pc # "idle" => reading[v].pc # "idle")
      BY <2>1, <2>2
    <3>2. review' = review
      BY <2>1
    <3> QED
      BY <3>1, <3>2 DEF RunsAreHeld
  <2>5. DoneWasSeen'
    <3> SUFFICES ASSUME NEW v \in Reviewing, reading'[v].status = "DONE"
                 PROVE  /\ reading'[v].pc \in {"delete", "close"}
                        /\ turn'[reading'[v].run] \in {"done", "gone"}
      BY DEF DoneWasSeen
    <3>1. CASE v = w
      BY <2>2, <3>1 DEF ReviewTypeOK
    <3>2. CASE v # w
      <4>1. reading'[v] = reading[v] /\ reading[v].pc \in {"delete", "close"}
            /\ turn[reading[v].run] \in {"done", "gone"}
        BY <2>2, <3>2 DEF ReviewTypeOK, DoneWasSeen
      <4>2. reading[v].run # reading[w].run /\ reading[v].run \in 1..Runs
        BY <2>1, <3>2, <4>1 DEF RunsAreHeld
      <4> QED
        BY <2>1, <4>1, <4>2
    <3> QED
      BY <3>1, <3>2
  <2> QED
    BY <2>1, <2>3, <2>4, <2>5 DEF RowsInOrder, OneLiveReview, CallsAtRest
<1>8. ASSUME NEW w \in Reviewing, CloseRun(w) \/ WorkerEnds(w) PROVE ReviewInv'
  <2>1. /\ UNCHANGED <<turn, call>> /\ reading' = [reading EXCEPT ![w] = AtRest]
        /\ reading[w].pc # "idle"
    BY <1>8 DEF CloseRun, WorkerEnds, WorkerAt
  <2>2. \A q \in 1..Runs :
          /\ review'[q] \in ReviewRow
          /\ \/ review'[q] = review[q]
             \/ review[q].status = "RUNNING" /\ review'[q].status \in Ended /\ ~review'[q].own
    <3> TAKE q \in 1..Runs
    <3>1. review[q] \in ReviewRow /\ reading[w].run \in 1..Runs /\ reading[w].status \in Ended
      BY <2>1 DEF ReviewTypeOK, RunsAreHeld
    <3>2. CASE review' = review
      BY <3>1, <3>2
    <3>3. CASE review[reading[w].run].status = "RUNNING"
               /\ review' = [review EXCEPT ![reading[w].run].status = reading[w].status,
                                           ![reading[w].run].own = FALSE]
      BY <3>1, <3>3 DEF ReviewTypeOK, ReviewRow
    <3> QED
      BY <1>8, <3>2, <3>3 DEF CloseRun, WorkerEnds
  <2>3. review' \in [1..Runs -> ReviewRow]
    BY <1>8, <2>2 DEF CloseRun, WorkerEnds, ReviewTypeOK
  <2>4. RowsInOrder'
    BY <2>2 DEF RowsInOrder, OneLiveReview
  <2>5. RunsAreHeld'
    BY <2>1, <2>2 DEF RunsAreHeld, ReviewTypeOK, AtRest
  <2> QED
    BY <2>1, <2>3, <2>4, <2>5 DEF ReviewTypeOK, AtRest, ReviewSteps, DoneWasSeen, CallsAtRest
<1>9. ASSUME NEW c \in ToolCall, LookUpRun(c) \/ RecordFindings(c) PROVE ReviewInv'
  <2>1. UNCHANGED <<review, turn, reading>>
    BY <1>9 DEF LookUpRun, RecordFindings
  <2>2. PICK was \in {NotCalled} \union [pc : {"found"}, run : 1..Runs] :
          call' = [call EXCEPT ![c] = was]
    BY <1>9 DEF LookUpRun, RecordFindings
  <2>3. ReviewTypeOK' /\ CallsAtRest'
    BY <2>1, <2>2 DEF ReviewTypeOK, CallsAtRest, NotCalled
  <2> QED
    BY <2>1, <2>3 DEF RowsInOrder, OneLiveReview, RunsAreHeld, DoneWasSeen
<1> QED
  BY <1>1, <1>2, <1>3, <1>4, <1>5, <1>6, <1>7, <1>8, <1>9 DEF ReviewNext



\* A step leaves an ended run as it is, and it ends a run DONE only when the run's
\* turn is over.
LEMMA ReviewStepCloses ==
    ASSUME ReviewInv, ReviewNext, NEW r \in 1..Runs
    PROVE  /\ review[r].status \in Ended =>
                /\ review'[r] = review[r]
                /\ \A c \in ToolCall : call[c].pc = "idle" => call'[c].run # r
           /\ review[r].status # "DONE" /\ review'[r].status = "DONE"
                => turn[r] \in {"done", "gone"}
<1> USE CodeReviewAssumption DEF ReviewInv, Live, Ended
<1> DEFINE Closed == /\ review[r].status \in Ended =>
                          /\ review'[r] = review[r]
                          /\ \A c \in ToolCall : call[c].pc = "idle" => call'[c].run # r
                     /\ review[r].status # "DONE" /\ review'[r].status = "DONE"
                          => turn[r] \in {"done", "gone"}
<1> SUFFICES Closed
  OBVIOUS
<1>1. review[r] \in ReviewRow /\ (review[r].status \in Ended => ~review[r].own)
  BY DEF ReviewTypeOK, RowsInOrder
<1>2. ASSUME review'[r] = review[r], call' = call PROVE Closed
  BY <1>2 DEF CallsAtRest
<1>3. ASSUME review[r].status \notin Ended, review'[r].status # "DONE", call' = call PROVE Closed
  BY <1>3
<1>4. CASE EnqueueReview
  <2>1. PICK q \in 1..Runs :
          /\ review[q].status = "ABSENT"
          /\ review' = [review EXCEPT ![q] = [status |-> "PENDING", own |-> TRUE, old |-> FALSE]]
    BY <1>4 DEF EnqueueReview
  <2> QED
    BY <1>2, <1>3, <1>4, <2>1 DEF EnqueueReview, ReviewTypeOK
<1>5. CASE SweepReviews
  <2>1. /\ call' = call
        /\ review'[r] = IF review[r].status \in Live /\ review[r].old
                        THEN [review[r] EXCEPT !.status = "TIMED_OUT", !.own = FALSE] ELSE review[r]
    BY <1>5 DEF SweepReviews
  <2> QED
    BY <1>1, <1>2, <1>3, <2>1 DEF ReviewRow
<1>6. ASSUME NEW q \in 1..Runs, Ages(q) PROVE Closed
  BY <1>1, <1>2, <1>3, <1>6 DEF Ages, ReviewTypeOK, ReviewRow
<1>7. ASSUME NEW w \in Reviewing, ClaimReview(w) PROVE Closed
  BY <1>1, <1>2, <1>3, <1>7 DEF ClaimReview, ReviewTypeOK, ReviewRow
<1>8. ASSUME NEW w \in Reviewing, CloseRun(w) PROVE Closed
  <2>1. call' = call /\ reading[w].run \in 1..Runs /\ reading[w].status \in Ended
    BY <1>8 DEF CloseRun, WorkerAt, RunsAreHeld, ReviewTypeOK
  <2>2. CASE review' = review
    BY <1>2, <2>1, <2>2
  <2>3. CASE /\ review[reading[w].run].status = "RUNNING"
             /\ review' = [review EXCEPT ![reading[w].run].status = reading[w].status,
                                         ![reading[w].run].own = FALSE]
    <3>1. CASE r # reading[w].run
      BY <1>2, <2>1, <2>3, <3>1 DEF ReviewTypeOK
    <3>2. CASE r = reading[w].run
      <4>1. review[r].status \notin Ended /\ review'[r].status = reading[w].status
        BY <1>1, <2>3, <3>2 DEF ReviewTypeOK, ReviewRow
      <4>2. reading[w].status = "DONE" => turn[r] \in {"done", "gone"}
        BY <3>2 DEF DoneWasSeen
      <4> QED
        BY <4>1, <4>2
    <3> QED
      BY <3>1, <3>2
  <2> QED
    BY <1>8, <2>2, <2>3 DEF CloseRun
<1>9. ASSUME NEW c \in ToolCall, LookUpRun(c) PROVE Closed
  <2>1. PICK q \in 1..Runs : /\ review[q].own
                             /\ call' = [call EXCEPT ![c] = [pc |-> "found", run |-> q]]
                             /\ review' = review
    BY <1>9 DEF LookUpRun
  <2>2. review[r].status \in Ended => q # r
    BY <1>1, <2>1
  <2> QED
    BY <2>1, <2>2 DEF CallsAtRest, ReviewTypeOK
<1>10. ASSUME NEW c \in ToolCall, RecordFindings(c) PROVE Closed
  BY <1>10 DEF RecordFindings, CallsAtRest, ReviewTypeOK, NotCalled
<1>11. CASE UNCHANGED <<review, call>>
  BY <1>2, <1>11
<1> HIDE DEF Closed
<1>12. ReviewNext =>
         \/ EnqueueReview \/ SweepReviews \/ UNCHANGED <<review, call>>
         \/ \E q \in 1..Runs : Ages(q)
         \/ \E w \in Reviewing : ClaimReview(w) \/ CloseRun(w)
         \/ \E c \in ToolCall : LookUpRun(c) \/ RecordFindings(c)
  BY DEF ReviewNext, EndTurn, LoadInput, ReadSource, OpenSession, StartTurn, PollTurn,
         DeleteSession, WorkerEnds
<1> QED
  BY <1>4, <1>5, <1>6, <1>7, <1>8, <1>9, <1>10, <1>11, <1>12

\* The rows, the turns, the workers and the calls keep their types.
THEOREM ReviewTypeCorrect == ReviewSpec => []ReviewTypeOK
  BY ReviewInvInit, ReviewInvNext, PTL DEF ReviewSpec, ReviewInv

\* What the run "sandboxes" checks with two runs: one review at a time; a run that
\* ended keeps its status and its dead token, and takes no call; and a run ends DONE
\* only by its own turn's end (code-review.ts: enqueueCodeReview, closeRun).
THEOREM EndedRunsStayClosed == ReviewSpec => ReviewIsClosed
<1> DEFINE A == \A r \in 1..Runs : review[r].status \in Ended =>
                   /\ review'[r] = review[r]
                   /\ \A c \in ToolCall : call[c].pc = "idle" => call'[c].run # r
           B == \A r \in 1..Runs : review[r].status # "DONE" /\ review'[r].status = "DONE"
                   => turn[r] \in {"done", "gone"}
<1>1. ReviewInv /\ [ReviewNext]_reviewVars => [A]_reviewVars /\ [B]_reviewVars
  BY ReviewStepCloses
<1>2. ReviewInv => OneLiveReview
  BY DEF ReviewInv, RowsInOrder
<1> QED
  BY <1>1, <1>2, ReviewInvInit, ReviewInvNext, PTL DEF ReviewSpec, ReviewIsClosed

-----------------------------------------------------------------------------
(***************************************************************************)
(* OwnerAdvisory, for any number of senders, revisions, advisories and     *)
(* sends.                                                                  *)
(***************************************************************************)
SenderSet == [pc : {"idle", "source", "token", "find", "update", "create", "settle"},
              rev : 0..Revisions, ghsa : 0..Advisories, sends : 0..MaxSends,
              outcome : {"none", "SENT", "FAILED", "RETRY"}]
Notice == [state : {"none", "PENDING", "SENT", "FAILED"}, rev : 0..Revisions,
           ghsa : 0..Advisories, sends : 0..MaxSends, due : BOOLEAN]
Told == [rev : 0..Revisions, delivered : BOOLEAN, reproduced : BOOLEAN, connected : BOOLEAN]
Advisory == [rev : 0..Revisions, state : {"none", "draft", "published", "withdrawn"}]
Leeway == [stall : 0..Stalls, death : 0..Deaths, owner : 0..OwnerMoves, early : BOOLEAN]

Calm == leeway.stall = Stalls

\* While no sender outlived its hold, the row is out with one sender, whose
\* revision is the row's and who knows the advisory the row knows.
OneSenderOut(s) ==
    /\ notice.state = "PENDING" /\ ~notice.due
    /\ \A v \in Sender : v # s => sender[v].pc = "idle"
    /\ sender[s].rev = notice.rev
    /\ sender[s].pc \in {"source", "token"} => sender[s].ghsa = notice.ghsa
    /\ sender[s].pc \in {"find", "create"} => sender[s].ghsa = 0 /\ notice.ghsa = 0
    /\ sender[s].pc = "update" => sender[s].ghsa # 0
    /\ sender[s].pc = "settle" /\ sender[s].outcome = "SENT" =>
         sender[s].ghsa # 0 /\ ghsa[sender[s].ghsa].rev = sender[s].rev

SendersInv == Calm => \A s \in Sender : sender[s].pc # "idle" => OneSenderOut(s)

\* And while the owner left alone what the row did not know of, there is one
\* advisory, none when a sender is about to create one, and only a draft as
\* long as the row knows none.
DraftsInv ==
    Calm /\ ~leeway.early =>
        /\ \A a, b \in Opened : a = b
        /\ notice.ghsa = 0 => \A a \in 1..Advisories : ghsa[a].state \in {"none", "draft"}
        /\ \A s \in Sender : sender[s].pc = "create" => Opened = {}

AdvisoryInv == AdvisoryTypeOK /\ SentCarriesItsVerdict /\ SendersInv /\ DraftsInv

LEMMA AdvisoryInvInit == AdvisoryInit => AdvisoryInv
  BY AdvisoryAssumption
     DEF AdvisoryInit, AdvisoryInv, AdvisoryTypeOK, SentCarriesItsVerdict, SendersInv, DraftsInv,
         Opened, NoAdvisory, Unclaimed

\* The type invariant by the names of its parts.
LEMMA AdvisoryTypes ==
    AdvisoryTypeOK <=> /\ told \in Told /\ notice \in Notice /\ leeway \in Leeway
                       /\ sender \in [Sender -> SenderSet]
                       /\ ghsa \in [1..Advisories -> Advisory]
  BY DEF AdvisoryTypeOK, Told, Notice, Leeway, SenderSet, Advisory

\* What each kind of update makes of a sender.
Becomes(s, pc, a, outcome) ==
    /\ sender' \in [Sender -> SenderSet]
    /\ sender'[s].pc = pc /\ sender'[s].ghsa = a /\ sender'[s].outcome = outcome
    /\ sender'[s].rev = sender[s].rev
    /\ \A v \in Sender : v # s => sender'[v] = sender[v]

LEMMA SenderUpdate ==
    ASSUME sender \in [Sender -> SenderSet], NEW s \in Sender, NEW r \in SenderSet,
           sender' = [sender EXCEPT ![s] = r]
    PROVE  /\ sender' \in [Sender -> SenderSet] /\ sender'[s] = r
           /\ \A v \in Sender : v # s => sender'[v] = sender[v]
  OBVIOUS

LEMMA SenderMoves ==
    ASSUME sender \in [Sender -> SenderSet], NEW s \in Sender
    PROVE  /\ \A pc \in {"token", "find", "update", "create"} :
                Sends(s, pc) => Becomes(s, pc, sender[s].ghsa, sender[s].outcome)
           /\ \A outcome \in {"SENT", "FAILED", "RETRY"} :
                Concludes(s, outcome) => Becomes(s, "settle", sender[s].ghsa, outcome)
           /\ \A a \in 1..Advisories, pc \in {"update", "settle"},
                 outcome \in {"none", "SENT", "FAILED", "RETRY"} :
                sender' = [sender EXCEPT ![s].ghsa = a, ![s].pc = pc, ![s].outcome = outcome]
                => Becomes(s, pc, a, outcome)
<1> USE AdvisoryAssumption
<1>1. ASSUME NEW pc \in {"token", "find", "update", "create"}, Sends(s, pc)
      PROVE  Becomes(s, pc, sender[s].ghsa, sender[s].outcome)
  BY <1>1 DEF Sends, Becomes, SenderSet
<1>2. ASSUME NEW outcome \in {"SENT", "FAILED", "RETRY"}, Concludes(s, outcome)
      PROVE  Becomes(s, "settle", sender[s].ghsa, outcome)
  BY <1>2 DEF Concludes, Becomes, SenderSet
<1>3. ASSUME NEW a \in 1..Advisories, NEW pc \in {"update", "settle"},
             NEW outcome \in {"none", "SENT", "FAILED", "RETRY"},
             sender' = [sender EXCEPT ![s].ghsa = a, ![s].pc = pc, ![s].outcome = outcome]
      PROVE  Becomes(s, pc, a, outcome)
  <2>1. a \in 0..Advisories
    OBVIOUS
  <2> QED
    BY <1>3, <2>1 DEF Becomes, SenderSet
<1> QED
  BY <1>1, <1>2, <1>3

\* A sender that is under way, but for its claim, its settle and its death: the
\* row and the report stay, and it moves one of the following ways.
Under(s) ==
    \/ CheckSource(s) \/ MintToken(s) \/ FindByMarker(s) \/ UpdateAdvisory(s) \/ CreateAdvisory(s)

SendsOn(s) ==
    LET q == sender[s]
    IN \/ /\ UNCHANGED ghsa
          /\ \/ q.pc = "source" /\ Becomes(s, "token", q.ghsa, q.outcome)
             \/ q.pc = "token" /\ q.ghsa = 0 /\ Becomes(s, "find", q.ghsa, q.outcome)
             \/ q.pc = "token" /\ q.ghsa # 0 /\ Becomes(s, "update", q.ghsa, q.outcome)
             \/ \E a \in 1..Advisories :
                  /\ q.pc = "find" /\ ghsa[a].state = "draft"
                  /\ \/ ghsa[a].rev = q.rev /\ Becomes(s, "settle", a, "SENT")
                     \/ ghsa[a].rev # q.rev /\ Becomes(s, "update", a, q.outcome)
             \/ /\ q.pc = "find" /\ \A a \in 1..Advisories : ghsa[a].state # "draft"
                /\ Becomes(s, "create", q.ghsa, q.outcome)
             \/ q.pc # "idle" /\ \E o \in {"FAILED", "RETRY"} : Becomes(s, "settle", q.ghsa, o)
       \/ /\ q.pc = "update" /\ ghsa' = [ghsa EXCEPT ![q.ghsa].rev = q.rev]
          /\ \E o \in {"SENT", "RETRY"} : Becomes(s, "settle", q.ghsa, o)
       \/ \E a \in 1..Advisories :
            /\ q.pc = "create" /\ ghsa[a].state = "none"
            /\ ghsa' = [ghsa EXCEPT ![a] = [rev |-> q.rev, state |-> "draft"]]
            /\ \/ Becomes(s, "settle", a, "SENT")
               \/ Becomes(s, "settle", q.ghsa, "RETRY")

LEMMA SenderUnderWay ==
    ASSUME AdvisoryTypeOK, NEW s \in Sender, Under(s)
    PROVE  SendsOn(s) /\ UNCHANGED <<told, notice, leeway>>
<1> USE AdvisoryAssumption
<1>0. sender \in [Sender -> SenderSet] /\ sender[s] \in SenderSet
  BY AdvisoryTypes
<1>1. UNCHANGED <<told, notice, leeway>>
  BY DEF Under, CheckSource, MintToken, FindByMarker, UpdateAdvisory, CreateAdvisory
<1>2. CASE CheckSource(s)
  BY <1>0, <1>2, SenderMoves DEF CheckSource, SendsOn
<1>3. CASE MintToken(s)
  <2>1. CASE Declined(s)
    BY <1>0, <1>3, <2>1, SenderMoves DEF MintToken, Declined, SendsOn
  <2>2. CASE ~Declined(s) /\ sender[s].ghsa = 0
    BY <1>0, <1>3, <2>2, SenderMoves DEF MintToken, SendsOn
  <2>3. CASE ~Declined(s) /\ sender[s].ghsa # 0
    BY <1>0, <1>3, <2>3, SenderMoves DEF MintToken, SendsOn
  <2> QED
    BY <2>1, <2>2, <2>3
<1>4. CASE FindByMarker(s)
  <2>1. CASE Declined(s)
    BY <1>0, <1>4, <2>1, SenderMoves DEF FindByMarker, Declined, SendsOn
  <2>2. CASE (\A a \in 1..Advisories : ghsa[a].state # "draft") /\ Sends(s, "create")
    BY <1>0, <1>4, <2>2, SenderMoves DEF FindByMarker, SendsOn
  <2>3. ASSUME NEW a \in 1..Advisories, ghsa[a].state = "draft",
               sender' = [sender EXCEPT ![s].ghsa = a,
                            ![s].pc = IF ghsa[a].rev = sender[s].rev THEN "settle" ELSE "update",
                            ![s].outcome = IF ghsa[a].rev = sender[s].rev THEN "SENT" ELSE @]
        PROVE  SendsOn(s)
    <3>1. CASE ghsa[a].rev = sender[s].rev
      <4>1. sender' = [sender EXCEPT ![s].ghsa = a, ![s].pc = "settle", ![s].outcome = "SENT"]
        BY <1>0, <2>3, <3>1
      <4>2. Becomes(s, "settle", a, "SENT")
        BY <1>0, <4>1, SenderMoves
      <4> QED
        BY <1>4, <2>3, <3>1, <4>2 DEF FindByMarker, SendsOn
    <3>2. CASE ghsa[a].rev # sender[s].rev
      <4>1. sender' = [sender EXCEPT ![s].ghsa = a, ![s].pc = "update",
                                     ![s].outcome = sender[s].outcome]
            /\ sender[s].outcome \in {"none", "SENT", "FAILED", "RETRY"}
        BY <1>0, <2>3, <3>2 DEF SenderSet
      <4>2. Becomes(s, "update", a, sender[s].outcome)
        BY <1>0, <4>1, SenderMoves
      <4> QED
        BY <1>4, <2>3, <3>2, <4>2 DEF FindByMarker, SendsOn
    <3> QED
      BY <3>1, <3>2
  <2> QED
    BY <1>4, <2>1, <2>2, <2>3 DEF FindByMarker
<1>5. CASE UpdateAdvisory(s)
  <2>1. CASE UNCHANGED ghsa /\ Declined(s)
    BY <1>0, <1>5, <2>1, SenderMoves DEF UpdateAdvisory, Declined, SendsOn
  <2>2. CASE /\ ghsa' = [ghsa EXCEPT ![sender[s].ghsa].rev = sender[s].rev]
             /\ Concludes(s, "SENT") \/ Concludes(s, "RETRY")
    BY <1>0, <1>5, <2>2, SenderMoves DEF UpdateAdvisory, SendsOn
  <2> QED
    BY <1>5, <2>1, <2>2 DEF UpdateAdvisory
<1>6. CASE CreateAdvisory(s)
  <2>1. CASE UNCHANGED ghsa /\ Declined(s)
    BY <1>0, <1>6, <2>1, SenderMoves DEF CreateAdvisory, Declined, SendsOn
  <2>2. ASSUME NEW a \in 1..Advisories, ghsa[a].state = "none",
               ghsa' = [ghsa EXCEPT ![a] = [rev |-> sender[s].rev, state |-> "draft"]],
               \/ sender' = [sender EXCEPT ![s].ghsa = a, ![s].pc = "settle", ![s].outcome = "SENT"]
               \/ Concludes(s, "RETRY")
        PROVE  SendsOn(s)
    <3>1. Becomes(s, "settle", a, "SENT") \/ Becomes(s, "settle", sender[s].ghsa, "RETRY")
      BY <1>0, <2>2, SenderMoves
    <3> QED
      BY <1>6, <2>2, <3>1 DEF CreateAdvisory, SendsOn
  <2> QED
    BY <1>6, <2>1, <2>2 DEF CreateAdvisory
<1> QED
  BY <1>1, <1>2, <1>3, <1>4, <1>5, <1>6 DEF Under

LEMMA AdvisoryTypeNext == AdvisoryTypeOK /\ [AdvisoryNext]_advisoryVars => AdvisoryTypeOK'
<1> SUFFICES ASSUME AdvisoryTypeOK, [AdvisoryNext]_advisoryVars PROVE AdvisoryTypeOK'
  OBVIOUS
<1> USE AdvisoryAssumption
<1>0. /\ told \in Told /\ notice \in Notice /\ leeway \in Leeway
      /\ sender \in [Sender -> SenderSet]
      /\ ghsa \in [1..Advisories -> Advisory]
  BY AdvisoryTypes
<1> DEFINE Typed == /\ told' \in Told /\ notice' \in Notice /\ leeway' \in Leeway
                    /\ sender' \in [Sender -> SenderSet]
                    /\ ghsa' \in [1..Advisories -> Advisory]
<1> SUFFICES Typed
  BY DEF AdvisoryTypeOK, Told, Notice, Leeway, SenderSet, Advisory
<1>1. CASE UNCHANGED advisoryVars
  BY <1>0, <1>1 DEF advisoryVars
<1>2. CASE DeliverRevision
  <2>1. told' \in Told
    <3>1. PICK reproduced \in BOOLEAN :
            told' = [told EXCEPT !.rev = @ + 1, !.delivered = TRUE, !.reproduced = reproduced]
      BY <1>2 DEF DeliverRevision
    <3>2. told.rev + 1 \in 0..Revisions
      BY <1>0, <1>2 DEF DeliverRevision, Told
    <3> QED
      BY <1>0, <3>1, <3>2 DEF Told
  <2> QED
    BY <1>0, <1>2, <2>1 DEF DeliverRevision
<1>3. CASE ReopenReport \/ DisconnectRepository
  <2>1. told' \in Told
    BY <1>0, <1>3 DEF ReopenReport, DisconnectRepository, Told
  <2> QED
    BY <1>0, <1>3, <2>1 DEF ReopenReport, DisconnectRepository
<1>4. CASE RequestOwnerAdvisory
  <2>1. notice' \in Notice
    <3>1. told.rev \in 0..Revisions /\ 0 \in 0..MaxSends
      BY <1>0 DEF Told
    <3>2. notice' = [notice EXCEPT !.state = "PENDING", !.rev = told.rev, !.sends = 0, !.due = TRUE]
      BY <1>4 DEF RequestOwnerAdvisory
    <3> QED
      BY <1>0, <3>1, <3>2 DEF Notice
  <2> QED
    BY <1>0, <1>4, <2>1 DEF RequestOwnerAdvisory
<1>5. CASE OwnerActs
  <2>1. PICK a \in 1..Advisories, state \in {"published", "withdrawn"} :
          /\ ghsa' = [ghsa EXCEPT ![a].state = state]
          /\ leeway' = [leeway EXCEPT !.owner = @ - 1, !.early = @ \/ notice.ghsa # a]
    BY <1>5 DEF OwnerActs
  <2>2. leeway' \in Leeway
    <3>1. leeway.owner - 1 \in 0..OwnerMoves
      BY <1>0, <1>5 DEF OwnerActs, Leeway
    <3>2. (leeway.early \/ notice.ghsa # a) \in BOOLEAN
      OBVIOUS
    <3> QED
      BY <1>0, <2>1, <3>1, <3>2 DEF Leeway
  <2>3. ghsa' \in [1..Advisories -> Advisory]
    BY <1>0, <2>1 DEF Advisory
  <2> QED
    BY <1>0, <1>5, <2>2, <2>3 DEF OwnerActs
<1>6. CASE HoldLapses
  <2>1. notice' \in Notice
    BY <1>0, <1>6 DEF HoldLapses, Notice
  <2>2. leeway' \in Leeway
    BY <1>0, <1>6 DEF HoldLapses, Leeway
  <2> QED
    BY <1>0, <1>6, <2>1, <2>2 DEF HoldLapses
<1>7. ASSUME NEW s \in Sender, ClaimAdvisory(s) PROVE Typed
  <2>1. PICK sends \in 0..MaxSends :
          /\ notice' = [notice EXCEPT !.sends = sends, !.due = FALSE]
          /\ sender' = [sender EXCEPT ![s] = [Unclaimed EXCEPT !.pc = "source", !.rev = notice.rev,
                                                !.ghsa = notice.ghsa, !.sends = sends]]
    <3>1. notice.sends \in 0..MaxSends
      BY <1>0 DEF Notice
    <3>2. (IF notice.sends < MaxSends THEN notice.sends + 1 ELSE MaxSends) \in 0..MaxSends
      BY <3>1
    <3> QED
      BY <1>7, <3>2 DEF ClaimAdvisory
  <2>2. notice' \in Notice
    BY <1>0, <2>1 DEF Notice
  <2>3. [Unclaimed EXCEPT !.pc = "source", !.rev = notice.rev,
                          !.ghsa = notice.ghsa, !.sends = sends] \in SenderSet
    BY <1>0 DEF Unclaimed, SenderSet, Notice
  <2> QED
    BY <1>0, <1>7, <2>1, <2>2, <2>3, SenderUpdate DEF ClaimAdvisory
<1>8. ASSUME NEW s \in Sender, Under(s) PROVE Typed
  <2>1. SendsOn(s) /\ UNCHANGED <<told, notice, leeway>> /\ sender[s] \in SenderSet
    BY <1>0, <1>8, SenderUnderWay
  <2>2. sender' \in [Sender -> SenderSet]
    BY <2>1 DEF SendsOn, Becomes
  <2>3. ghsa' \in [1..Advisories -> Advisory]
    <3>1. sender[s].rev \in 0..Revisions
      BY <2>1 DEF SenderSet
    <3>2. CASE \E a \in 1..Advisories : ghsa' = [ghsa EXCEPT ![a] = [rev |-> sender[s].rev,
                                                                   state |-> "draft"]]
      BY <1>0, <3>1, <3>2 DEF Advisory
    <3>3. CASE ghsa' = [ghsa EXCEPT ![sender[s].ghsa].rev = sender[s].rev]
      BY <1>0, <3>1, <3>3 DEF Advisory
    <3> QED
      BY <1>0, <2>1, <3>2, <3>3 DEF SendsOn
  <2> QED
    BY <1>0, <2>1, <2>2, <2>3
<1>9. ASSUME NEW s \in Sender, SettleAdvisory(s) PROVE Typed
  <2>1. Unclaimed \in SenderSet /\ sender[s] \in SenderSet
    BY <1>0 DEF Unclaimed, SenderSet
  <2>2. notice' \in Notice
    <3>1. sender[s].ghsa \in 0..Advisories /\ RetryState(s) \in {"FAILED", "PENDING"}
      BY <2>1 DEF SenderSet, RetryState
    <3>2. /\ [notice EXCEPT !.state = "SENT", !.ghsa = sender[s].ghsa] \in Notice
          /\ [notice EXCEPT !.state = "FAILED"] \in Notice
          /\ [notice EXCEPT !.state = RetryState(s), !.due = FALSE] \in Notice
      BY <1>0, <3>1 DEF Notice
    <3> QED
      BY <1>0, <1>9, <3>2 DEF SettleAdvisory
  <2> QED
    BY <1>0, <1>9, <2>1, <2>2, SenderUpdate DEF SettleAdvisory
<1>10. ASSUME NEW s \in Sender, SenderDies(s) PROVE Typed
  <2>1. Unclaimed \in SenderSet
    BY DEF Unclaimed, SenderSet
  <2>2. leeway' \in Leeway
    BY <1>0, <1>10 DEF SenderDies, Leeway
  <2> QED
    BY <1>0, <1>10, <2>1, <2>2, SenderUpdate DEF SenderDies
<1> HIDE DEF Typed
<1> QED
  BY <1>1, <1>2, <1>3, <1>4, <1>5, <1>6, <1>7, <1>8, <1>9, <1>10
     DEF AdvisoryNext, SenderSteps, Under

Sound == SentCarriesItsVerdict /\ SendersInv /\ DraftsInv

\* A sender that goes on.
LEMMA UnderWayIsSound ==
    ASSUME AdvisoryInv, NEW s \in Sender, Under(s), AdvisoryTypeOK'
    PROVE  Sound'
<1> USE AdvisoryAssumption
<1>0. /\ notice \in Notice /\ leeway \in Leeway /\ sender[s] \in SenderSet
      /\ ghsa \in [1..Advisories -> Advisory]
  BY AdvisoryTypes DEF AdvisoryInv
<1>1. SendsOn(s) /\ UNCHANGED <<told, notice, leeway>>
  BY SenderUnderWay DEF AdvisoryInv
<1>2. \A v \in Sender : v # s => sender'[v] = sender[v]
  BY <1>1 DEF SendsOn, Becomes
<1>3. sender[s].pc # "idle" /\ sender'[s].pc # "idle" /\ sender'[s].rev = sender[s].rev
  BY <1>1 DEF SendsOn, Becomes
<1>4. Calm => OneSenderOut(s)
  BY <1>3 DEF AdvisoryInv, SendersInv
<1>5. SentCarriesItsVerdict'
  <2>1. Calm /\ notice.state = "SENT" => FALSE
    BY <1>4 DEF OneSenderOut
  <2> QED
    BY <1>1, <2>1 DEF SentCarriesItsVerdict, Calm
<1>6. SendersInv'
  <2> SUFFICES ASSUME Calm PROVE OneSenderOut(s)'
    <3>1. ASSUME Calm', OneSenderOut(s)', NEW v \in Sender, sender'[v].pc # "idle"
          PROVE  v = s
      BY <3>1 DEF OneSenderOut
    <3> QED
      BY <1>1, <3>1 DEF SendersInv, Calm
  <2>1. OneSenderOut(s)
    BY <1>4
  <2>2. /\ notice'.state = "PENDING" /\ ~notice'.due /\ notice'.rev = notice.rev
        /\ notice'.ghsa = notice.ghsa
        /\ \A v \in Sender : v # s => sender'[v].pc = "idle"
        /\ sender'[s].rev = notice'.rev
    BY <1>1, <1>2, <1>3, <2>1 DEF OneSenderOut
  <2>3. sender'[s].pc \in {"source", "token"} => sender'[s].ghsa = notice'.ghsa
    BY <1>1, <2>1 DEF SendsOn, Becomes, OneSenderOut
  <2>4. sender'[s].pc \in {"find", "create"} => sender'[s].ghsa = 0 /\ notice'.ghsa = 0
    BY <1>1, <2>1 DEF SendsOn, Becomes, OneSenderOut
  <2>5. sender'[s].pc = "update" => sender'[s].ghsa # 0
    BY <1>1, <2>1 DEF SendsOn, Becomes, OneSenderOut
  <2>6. sender'[s].pc = "settle" /\ sender'[s].outcome = "SENT" =>
          sender'[s].ghsa # 0 /\ ghsa'[sender'[s].ghsa].rev = sender'[s].rev
    <3> SUFFICES ASSUME sender'[s].pc = "settle", sender'[s].outcome = "SENT"
                 PROVE  sender'[s].ghsa # 0 /\ ghsa'[sender'[s].ghsa].rev = sender[s].rev
      BY <1>3
    <3>1. CASE UNCHANGED ghsa /\ \E a \in 1..Advisories : /\ ghsa[a].rev = sender[s].rev
                                                         /\ sender'[s].ghsa = a
      BY <3>1
    <3>2. CASE /\ sender[s].pc = "update" /\ sender'[s].ghsa = sender[s].ghsa
               /\ ghsa' = [ghsa EXCEPT ![sender[s].ghsa].rev = sender[s].rev]
      <4>1. sender[s].ghsa # 0 /\ sender[s].ghsa \in 1..Advisories
        BY <1>0, <2>1, <3>2 DEF OneSenderOut, SenderSet
      <4> QED
        BY <1>0, <3>2, <4>1 DEF Advisory
    <3>3. CASE \E a \in 1..Advisories :
                 /\ ghsa' = [ghsa EXCEPT ![a] = [rev |-> sender[s].rev, state |-> "draft"]]
                 /\ sender'[s].ghsa = a
      BY <1>0, <3>3
    <3> QED
      BY <1>1, <3>1, <3>2, <3>3 DEF SendsOn, Becomes
  <2> QED
    BY <2>2, <2>3, <2>4, <2>5, <2>6 DEF OneSenderOut
<1>7. DraftsInv'
  <2> SUFFICES ASSUME Calm, ~leeway.early
               PROVE  /\ \A a, b \in Opened' : a = b
                      /\ notice'.ghsa = 0 =>
                           \A a \in 1..Advisories : ghsa'[a].state \in {"none", "draft"}
                      /\ \A v \in Sender : sender'[v].pc = "create" => Opened' = {}
    BY <1>1 DEF DraftsInv, Calm
  <2>0. OneSenderOut(s)
    BY <1>4
  <2>1. /\ \A a, b \in Opened : a = b
        /\ notice.ghsa = 0 => \A a \in 1..Advisories : ghsa[a].state \in {"none", "draft"}
        /\ sender[s].pc = "create" => Opened = {}
    BY DEF AdvisoryInv, DraftsInv
  <2>2. \A v \in Sender : sender'[v].pc = "create" => v = s
    BY <1>2, <2>0 DEF OneSenderOut
  <2>3. CASE UNCHANGED ghsa
    <3>1. Opened' = Opened
      BY <2>3 DEF Opened
    <3>2. sender'[s].pc = "create" => Opened = {}
      BY <1>1, <2>0, <2>1 DEF SendsOn, Becomes, OneSenderOut, Opened
    <3> QED
      BY <1>1, <2>1, <2>2, <2>3, <3>1, <3>2
  <2>4. CASE /\ sender'[s].pc = "settle"
             /\ ghsa' = [ghsa EXCEPT ![sender[s].ghsa].rev = sender[s].rev]
    <3>1. \A a \in 1..Advisories : ghsa'[a].state = ghsa[a].state
      BY <1>0, <2>4 DEF Advisory
    <3>2. Opened' = Opened
      BY <3>1 DEF Opened
    <3> QED
      BY <1>1, <2>1, <2>2, <2>4, <3>1, <3>2
  <2>5. ASSUME NEW a \in 1..Advisories, sender[s].pc = "create", sender'[s].pc = "settle",
               ghsa' = [ghsa EXCEPT ![a] = [rev |-> sender[s].rev, state |-> "draft"]]
        PROVE  /\ \A c, b \in Opened' : c = b
               /\ notice'.ghsa = 0 =>
                    \A c \in 1..Advisories : ghsa'[c].state \in {"none", "draft"}
               /\ \A v \in Sender : sender'[v].pc = "create" => Opened' = {}
    <3>1. \A c \in 1..Advisories : c # a => ghsa'[c] = ghsa[c] /\ ghsa[c].state = "none"
      BY <1>0, <2>1, <2>5 DEF Opened
    <3>2. ghsa'[a].state = "draft"
      BY <1>0, <2>5
    <3>3. Opened' = {a}
      BY <3>1, <3>2 DEF Opened
    <3> QED
      BY <2>2, <2>5, <3>1, <3>2, <3>3
  <2> QED
    BY <1>1, <2>3, <2>4, <2>5 DEF SendsOn, Becomes
<1> QED
  BY <1>5, <1>6, <1>7 DEF Sound

LEMMA AdvisoryInvNext == AdvisoryInv /\ [AdvisoryNext]_advisoryVars => AdvisoryInv'
<1> SUFFICES ASSUME AdvisoryInv, [AdvisoryNext]_advisoryVars PROVE AdvisoryInv'
  OBVIOUS
<1> USE AdvisoryAssumption
<1>a. AdvisoryTypeOK'
  BY AdvisoryTypeNext DEF AdvisoryInv
<1>b. /\ told \in Told /\ notice \in Notice /\ leeway \in Leeway
      /\ sender \in [Sender -> SenderSet]
      /\ ghsa \in [1..Advisories -> Advisory]
  BY AdvisoryTypes DEF AdvisoryInv
<1> SUFFICES Sound'
  BY <1>a DEF Sound, AdvisoryInv
<1>c. /\ SentCarriesItsVerdict /\ SendersInv /\ DraftsInv
  BY DEF AdvisoryInv
<1>1. CASE UNCHANGED <<notice, sender, ghsa, leeway>>
  BY <1>c, <1>1 DEF Sound, SentCarriesItsVerdict, SendersInv, DraftsInv, Calm, Opened, OneSenderOut
<1>2. CASE RequestOwnerAdvisory
  <2>1. notice' = [notice EXCEPT !.state = "PENDING", !.rev = told.rev, !.sends = 0, !.due = TRUE]
        /\ UNCHANGED <<sender, ghsa, leeway>> /\ notice.state # "PENDING"
    BY <1>2 DEF RequestOwnerAdvisory, MayAsk
  <2>2. notice'.state = "PENDING" /\ notice'.ghsa = notice.ghsa
    BY <1>b, <2>1 DEF Notice
  <2>3. Calm => \A s \in Sender : sender[s].pc = "idle"
    BY <1>c, <2>1 DEF SendersInv, OneSenderOut
  <2> QED
    BY <1>c, <2>1, <2>2, <2>3 DEF Sound, SentCarriesItsVerdict, SendersInv, DraftsInv, Calm, Opened
<1>3. CASE OwnerActs
  <2>1. PICK a \in 1..Advisories, state \in {"published", "withdrawn"} :
          /\ ghsa[a].state = "draft"
          /\ ghsa' = [ghsa EXCEPT ![a].state = state]
          /\ leeway' = [leeway EXCEPT !.owner = @ - 1, !.early = @ \/ notice.ghsa # a]
          /\ UNCHANGED <<told, notice, sender>>
    BY <1>3 DEF OwnerActs
  <2>2. \A b \in 1..Advisories : /\ ghsa'[b].rev = ghsa[b].rev
                                 /\ ghsa'[b].state # "none" <=> ghsa[b].state # "none"
    BY <1>b, <2>1 DEF Advisory
  <2>3. Opened' = Opened
    BY <2>2 DEF Opened
  <2>4. /\ leeway'.stall = leeway.stall
        /\ ~leeway'.early => ~leeway.early /\ notice.ghsa = a
    <3>1. (leeway.early \/ notice.ghsa # a) \in BOOLEAN
      OBVIOUS
    <3> QED
      BY <1>b, <2>1, <3>1 DEF Leeway
  <2>5. SentCarriesItsVerdict'
    BY <1>b, <1>c, <2>1, <2>2, <2>4 DEF SentCarriesItsVerdict, Notice
  <2>6. SendersInv'
    <3> SUFFICES ASSUME Calm, NEW s \in Sender, sender[s].pc # "idle" PROVE OneSenderOut(s)'
      BY <2>1, <2>4 DEF SendersInv, Calm
    <3>1. OneSenderOut(s)
      BY <1>c DEF SendersInv
    <3>2. sender[s].ghsa # 0 => sender[s].ghsa \in 1..Advisories
      BY <1>b DEF SenderSet
    <3> QED
      BY <2>1, <2>2, <3>1, <3>2 DEF OneSenderOut
  <2>7. DraftsInv'
    BY <1>c, <2>1, <2>3, <2>4 DEF DraftsInv, Calm
  <2> QED
    BY <2>5, <2>6, <2>7 DEF Sound
<1>4. CASE HoldLapses
  <2>1. notice' = [notice EXCEPT !.due = TRUE] /\ UNCHANGED <<sender, ghsa>>
        /\ notice.state = "PENDING"
    BY <1>4 DEF HoldLapses
  <2>2. notice'.state = "PENDING" /\ notice'.ghsa = notice.ghsa
    BY <1>b, <2>1 DEF Notice
  <2>3. CASE (\A s \in Sender : sender[s].pc = "idle") /\ UNCHANGED leeway
    BY <1>c, <2>1, <2>2, <2>3
       DEF Sound, SentCarriesItsVerdict, SendersInv, DraftsInv, Calm, Opened
  <2>4. CASE leeway.stall > 0 /\ leeway' = [leeway EXCEPT !.stall = @ - 1]
    <3>1. ~Calm'
      BY <1>b, <2>4 DEF Leeway, Calm
    <3> QED
      BY <3>1 DEF Sound, SentCarriesItsVerdict, SendersInv, DraftsInv, Calm
  <2> QED
    BY <1>4, <2>3, <2>4 DEF HoldLapses
<1>5. ASSUME NEW s \in Sender, ClaimAdvisory(s) PROVE Sound'
  <2>1. PICK sends :
          /\ notice' = [notice EXCEPT !.sends = sends, !.due = FALSE]
          /\ sender' = [sender EXCEPT ![s] = [Unclaimed EXCEPT !.pc = "source", !.rev = notice.rev,
                                                !.ghsa = notice.ghsa, !.sends = sends]]
          /\ UNCHANGED <<ghsa, leeway>> /\ notice.state = "PENDING" /\ notice.due
    BY <1>5 DEF ClaimAdvisory
  <2>2. /\ notice'.state = "PENDING" /\ ~notice'.due
        /\ notice'.ghsa = notice.ghsa /\ notice'.rev = notice.rev
    BY <1>b, <2>1 DEF Notice
  <2>3. /\ sender'[s].pc = "source" /\ sender'[s].rev = notice.rev /\ sender'[s].ghsa = notice.ghsa
        /\ \A v \in Sender : v # s => sender'[v] = sender[v]
    BY <1>b, <2>1 DEF Unclaimed
  <2>4. Calm => \A v \in Sender : sender[v].pc = "idle"
    BY <1>c, <2>1 DEF SendersInv, OneSenderOut
  <2>5. Calm => OneSenderOut(s)'
    BY <2>2, <2>3, <2>4 DEF OneSenderOut
  <2>6. SendersInv'
    BY <2>1, <2>3, <2>4, <2>5 DEF SendersInv, Calm
  <2>7. SentCarriesItsVerdict'
    BY <2>2 DEF SentCarriesItsVerdict
  <2>8. DraftsInv'
    BY <1>c, <2>1, <2>2, <2>3 DEF DraftsInv, Calm, Opened
  <2> QED
    BY <2>6, <2>7, <2>8 DEF Sound
<1>6. ASSUME NEW s \in Sender, Under(s) PROVE Sound'
  BY <1>6, <1>a, UnderWayIsSound
<1>7. ASSUME NEW s \in Sender, SettleAdvisory(s) PROVE Sound'
  <2>1. /\ sender' = [sender EXCEPT ![s] = Unclaimed] /\ UNCHANGED <<ghsa, leeway>>
        /\ sender[s].pc = "settle"
    BY <1>7 DEF SettleAdvisory
  <2>2. Calm => OneSenderOut(s) /\ \A v \in Sender : sender'[v].pc = "idle"
    BY <1>b, <1>c, <2>1 DEF SendersInv, OneSenderOut, Unclaimed
  <2>3. /\ notice.ghsa # 0 => notice'.ghsa # 0 \/ notice'.state = "SENT"
        /\ notice'.rev = notice.rev
        /\ notice'.ghsa \in {notice.ghsa, sender[s].ghsa}
        /\ notice'.ghsa # notice.ghsa => sender[s].outcome = "SENT"
        /\ notice'.state = "SENT" =>
             \/ notice.state = "SENT" /\ notice' = notice
             \/ sender[s].outcome = "SENT" /\ notice'.ghsa = sender[s].ghsa
    BY <1>b, <1>7 DEF SettleAdvisory, RetryState, Notice
  <2>4. SentCarriesItsVerdict'
    BY <1>c, <2>1, <2>2, <2>3 DEF SentCarriesItsVerdict, OneSenderOut, Calm
  <2>5. SendersInv'
    BY <2>1, <2>2 DEF SendersInv, Calm
  <2>6. DraftsInv'
    <3>1. Calm /\ notice'.ghsa = 0 => notice.ghsa = 0
      BY <2>1, <2>2, <2>3 DEF OneSenderOut
    <3> QED
      BY <1>c, <2>1, <2>2, <3>1 DEF DraftsInv, Calm, Opened
  <2> QED
    BY <2>4, <2>5, <2>6 DEF Sound
<1>8. ASSUME NEW s \in Sender, SenderDies(s) PROVE Sound'
  <2>1. /\ sender' = [sender EXCEPT ![s] = Unclaimed] /\ UNCHANGED <<notice, ghsa>>
        /\ sender[s].pc # "idle" /\ leeway'.stall = leeway.stall /\ leeway'.early = leeway.early
    BY <1>b, <1>8 DEF SenderDies, Leeway
  <2>2. Calm => \A v \in Sender : sender'[v].pc = "idle"
    BY <1>b, <1>c, <2>1 DEF SendersInv, OneSenderOut, Unclaimed
  <2> QED
    BY <1>c, <2>1, <2>2 DEF Sound, SentCarriesItsVerdict, SendersInv, DraftsInv, Calm, Opened
<1> QED
  BY <1>1, <1>2, <1>3, <1>4, <1>5, <1>6, <1>7, <1>8
     DEF AdvisoryNext, advisoryVars, SenderSteps, Under, DeliverRevision, ReopenReport,
         DisconnectRepository

\* The report, the row, the senders and the advisories keep their types.
THEOREM AdvisoryTypeCorrect == AdvisorySpec => []AdvisoryTypeOK
  BY AdvisoryInvInit, AdvisoryInvNext, PTL DEF AdvisorySpec, AdvisoryInv

\* What the run "sandboxes" checks with two senders: the owner gets one draft, with
\* the verdict the row says it carries (advisory.ts:333-337), unless a sender outlived
\* its hold (or, for the first part, the owner acted before the row knew the draft).
THEOREM OwnerGetsOneDraft == AdvisorySpec => []AdvisoriesAreSound
<1>1. AdvisoryInv => AdvisoriesAreSound
  <2> SUFFICES ASSUME AdvisoryInv, Calm, ~leeway.early PROVE Cardinality(Opened) <= 1
    BY DEF AdvisoriesAreSound, NoTwinAdvisory, AdvisoryInv, Calm
  <2>1. CASE Opened = {}
    BY <2>1, FS_EmptySet
  <2>2. CASE Opened # {}
    <3>1. PICK a : Opened = {a}
      BY <2>2 DEF AdvisoryInv, DraftsInv
    <3> QED
      BY <3>1, FS_Singleton
  <2> QED
    BY <2>1, <2>2
<1> QED
  BY <1>1, AdvisoryInvInit, AdvisoryInvNext, PTL DEF AdvisorySpec

-----------------------------------------------------------------------------
(***************************************************************************)
(* HarnessSettings, for any release, runs, forms and keys.                 *)
(***************************************************************************)
\* What a run was asked to apply is held, or still ahead of it.
RunAhead(run, holdings) ==
    /\ run.pc \in {"next", "list", "update", "applied"} =>
         /\ run.plan \in Plans
         /\ \A i \in DOMAIN ManifestsOf(run.plan) :
              \/ holdings[ManifestsOf(run.plan)[i]] = Release
              \/ \E j \in DOMAIN run.todo : run.todo[j] = ManifestsOf(run.plan)[i]
    /\ run.pc = "applied" => run.todo = <<>>
    /\ run.pc \in {"list", "update"} => run.todo # <<>>
HeldOrAhead == \A a \in Applier : RunAhead(applier[a], held)

\* A form about to be saved sends the key typed into it, or the redacted one.
SendsWhatWasTyped ==
    \A e \in Editor : editor[e].pc = "put" =>
        editor[e].send = IF editor[e].typed # 0 THEN editor[e].typed ELSE Redacted

SettingsInv == HarnessTypeOK /\ HeldOrAhead /\ SendsWhatWasTyped /\ BlankKeepsTheKey

LEMMA ListingExists == ASSUME NEW S, IsFiniteSet(S)
                       PROVE  InOrder(S) \in Seq(S)
<1>1. Cardinality(S) \in Nat /\ ExistsBijection(1..Cardinality(S), S)
  BY FS_CardinalityType
<1>2. PICK f \in Bijection(1..Cardinality(S), S) : TRUE
  BY <1>1 DEF ExistsBijection
<1>3. f \in [1..Cardinality(S) -> S] /\ \A i, j \in 1..Cardinality(S) : f[i] = f[j] => i = j
  BY <1>2 DEF Bijection, Injection, IsInjective
<1>4. f \in Listing(S)
  BY <1>3 DEF Listing
<1>5. InOrder(S) \in Listing(S)
  BY <1>4 DEF InOrder
<1>6. InOrder(S) \in [1..Cardinality(S) -> S]
  BY <1>5 DEF Listing
<1> QED
  BY <1>1, <1>6

\* A plan lists declared names.
LEMMA PlansAreDeclared == ASSUME NEW plan \in Plans PROVE ManifestsOf(plan) \in Seq(Declared)
<1>1. IsFiniteSet(Agent \ {Managed})
  BY HarnessAssumption, FS_Subset
<1> DEFINE C == InOrder(Connector)
           K == InOrder(Skill)
           A == InOrder(Agent)
           B == InOrder(Agent \ {Managed})
<1>2. /\ C \in Seq(Connector) /\ K \in Seq(Skill) /\ A \in Seq(Agent) /\ B \in Seq(Agent \ {Managed})
  BY <1>1, ListingExists, HarnessAssumption
<1>3. C \in Seq(Declared) /\ K \in Seq(Declared) /\ A \in Seq(Declared) /\ B \in Seq(Declared)
      /\ <<Managed>> \in Seq(Declared)
  <2> HIDE DEF C, K, A, B
  <2> QED BY <1>2, HarnessAssumption DEF Declared
<1>4. /\ Todo["connectors"] = C /\ Todo["skills"] = K /\ Todo["agent"] = <<Managed>>
      /\ Todo.connectors = C /\ Todo.skills = K
  BY DEF Todo
<1> HIDE DEF C, K, A, B
<1>5. CASE plan = "bootstrap"
  <2>1. ManifestsOf(plan) = C \o K \o A
    BY <1>4, <1>5 DEF ManifestsOf, A
  <2> QED BY <2>1, <1>3
<1>6. CASE plan = "agent:apply"
  <2>1. ManifestsOf(plan) = C \o <<Managed>> \o B
    BY <1>4, <1>6 DEF ManifestsOf, B
  <2> QED BY <2>1, <1>3
<1>7. CASE plan \notin {"bootstrap", "agent:apply"}
  <2>1. ManifestsOf(plan) = Todo[plan]
    BY <1>7 DEF ManifestsOf
  <2> QED BY <2>1, <1>3, <1>4, <1>7 DEF Plans
<1> QED BY <1>5, <1>6, <1>7

LEMMA SettingsInit == HarnessInit => SettingsInv
<1> SUFFICES ASSUME HarnessInit PROVE SettingsInv
  OBVIOUS
<1>1. PICK gen \in {0, 1} : /\ held = [n \in Declared |-> gen]
                            /\ provider = [s \in Surface |-> [key |-> gen, body |-> "seed"]]
                            /\ known = [made |-> EnvKey, given |-> [s \in Surface |-> gen]]
  BY DEF HarnessInit
<1>2. gen \in 0..Keys /\ EnvKey \in 0..Keys /\ gen \in 0..Release /\ 0 \in 0..Keys /\ 0 \in Redacted..Keys
  BY HarnessAssumption DEF EnvKey, Release, Redacted
<1>3. held \in [Declared -> 0..Release]
  BY <1>1, <1>2
<1>4. provider \in [Surface -> [key : 0..Keys, body : Body]]
  BY <1>1, <1>2 DEF Body
<1>5. known \in [made : 0..Keys, given : [Surface -> 0..Keys]]
  BY <1>1, <1>2
<1>6. <<>> \in Seq(Declared)
  OBVIOUS
<1>7. HarnessTypeOK
  BY <1>2, <1>3, <1>4, <1>5, <1>6 DEF HarnessInit, HarnessTypeOK, Unedited, Surface, Body
<1>8. HeldOrAhead /\ SendsWhatWasTyped
  BY DEF HarnessInit, HeldOrAhead, RunAhead, SendsWhatWasTyped, Unedited
<1>9. BlankKeepsTheKey
  BY <1>1 DEF BlankKeepsTheKey
<1> QED BY <1>7, <1>8, <1>9 DEF SettingsInv

\* Type correctness, one lemma for the runs and one for the forms.
LEMMA NextOfIsDeclared ==
    ASSUME HarnessTypeOK, NEW a \in Applier, applier[a].todo # <<>>
    PROVE  /\ NextOf(a) \in Declared /\ Tail(applier[a].todo) \in Seq(Declared)
           /\ \A j \in DOMAIN applier[a].todo :
                \/ applier[a].todo[j] = NextOf(a)
                \/ \E i \in DOMAIN Tail(applier[a].todo) : Tail(applier[a].todo)[i] = applier[a].todo[j]
<1>1. applier[a].todo \in Seq(Declared)
  BY DEF HarnessTypeOK
<1> DEFINE s == applier[a].todo
<1>2. s \in Seq(Declared) /\ s # <<>>
  BY <1>1
<1> HIDE DEF s
<1>3. Head(s) = s[1] /\ Head(s) \in Declared /\ Tail(s) \in Seq(Declared) /\ Len(Tail(s)) = Len(s) - 1
      /\ \A i \in 1..Len(s) - 1 : Tail(s)[i] = s[i + 1]
  BY <1>2
<1>4. ASSUME NEW j \in DOMAIN s, j # 1
      PROVE  \E i \in DOMAIN Tail(s) : Tail(s)[i] = s[j]
  <2>1. j \in 1..Len(s) /\ j - 1 \in 1..Len(s) - 1 /\ (j - 1) + 1 = j
    BY <1>2, <1>4
  <2>2. j - 1 \in DOMAIN Tail(s) /\ Tail(s)[j - 1] = s[j]
    BY <1>3, <2>1
  <2> QED BY <2>2
<1> QED BY <1>3, <1>4 DEF s, NextOf

\* What a run does to itself.
AnotherStep(a) ==
    \/ /\ applier' = [applier EXCEPT ![a].pc = "list"] /\ applier[a].pc = "next" /\ applier[a].todo # <<>>
    \/ /\ applier' = [applier EXCEPT ![a].pc = "update"] /\ applier[a].pc = "list"
    \/ /\ applier' = [applier EXCEPT ![a].pc = "applied"] /\ applier[a].pc = "next" /\ applier[a].todo = <<>>
    \/ applier' = [applier EXCEPT ![a].pc = "failed"]

LEMMA RunsKeepTheirPlans ==
    ASSUME SettingsInv, NEW a \in Applier,
           held' \in [Declared -> 0..Release], \A n \in Declared : held[n] = Release => held'[n] = Release,
           \/ AnotherStep(a)
           \/ \E plan \in Plans :
                applier' = [applier EXCEPT ![a] = [pc |-> "next", plan |-> plan, todo |-> ManifestsOf(plan)]]
           \/ /\ Ticked(a) /\ applier[a].todo # <<>> /\ held'[NextOf(a)] = Release
              /\ applier[a].pc \in {"next", "list", "update"}
    PROVE  /\ applier' \in [Applier -> [pc : {"idle", "next", "list", "update", "applied", "failed"},
                                       plan : Plans \union {"none"}, todo : Seq(Declared)]]
           /\ HeldOrAhead'
<1> DEFINE R == [pc : {"idle", "next", "list", "update", "applied", "failed"},
                 plan : Plans \union {"none"}, todo : Seq(Declared)]
           ok(r) == applier' = [applier EXCEPT ![a] = r] /\ r \in R /\ RunAhead(r, held')
<1>1. /\ applier \in [Applier -> R] /\ applier[a] \in R /\ RunAhead(applier[a], held)
  BY DEF SettingsInv, HarnessTypeOK, HeldOrAhead
<1>2. \A r \in R : RunAhead(r, held) => RunAhead(r, held')
  <2> SUFFICES ASSUME NEW r \in R, RunAhead(r, held) PROVE RunAhead(r, held')
    OBVIOUS
  <2>1. ASSUME r.plan \in Plans, NEW i \in DOMAIN ManifestsOf(r.plan)
        PROVE  ManifestsOf(r.plan)[i] \in Declared
    BY <2>1, PlansAreDeclared
  <2> QED BY <2>1 DEF RunAhead
<1>3. \E r : ok(r)
  <2>1. CASE AnotherStep(a)
    <3>1. PICK pc \in {"list", "update", "applied", "failed"} :
            /\ applier' = [applier EXCEPT ![a].pc = pc]
            /\ pc = "list" => applier[a].pc = "next" /\ applier[a].todo # <<>>
            /\ pc = "update" => applier[a].pc = "list"
            /\ pc = "applied" => applier[a].pc = "next" /\ applier[a].todo = <<>>
      BY <2>1 DEF AnotherStep
    <3> DEFINE r == [applier[a] EXCEPT !.pc = pc]
    <3>2. r \in R /\ r.pc = pc /\ r.plan = applier[a].plan /\ r.todo = applier[a].todo
      BY <1>1
    <3>3. applier' = [applier EXCEPT ![a] = r]
      BY <3>1
    <3>4. RunAhead(applier[a], held')
      BY <1>1, <1>2
    <3> HIDE DEF r
    <3>5. RunAhead(r, held')
      BY <3>1, <3>2, <3>4 DEF RunAhead
    <3> QED BY <3>2, <3>3, <3>5
  <2>2. ASSUME NEW plan \in Plans,
               applier' = [applier EXCEPT ![a] = [pc |-> "next", plan |-> plan, todo |-> ManifestsOf(plan)]]
        PROVE  \E r : ok(r)
    <3> DEFINE r == [pc |-> "next", plan |-> plan, todo |-> ManifestsOf(plan)]
    <3>1. ManifestsOf(plan) \in Seq(Declared)
      BY PlansAreDeclared
    <3>2. r \in R /\ r.pc = "next" /\ r.plan = plan /\ r.todo = ManifestsOf(plan)
      BY <3>1
    <3>3. applier' = [applier EXCEPT ![a] = r]
      BY <2>2
    <3> HIDE DEF r
    <3>4. RunAhead(r, held')
      BY <3>2 DEF RunAhead
    <3> QED BY <3>2, <3>3, <3>4
  <2>3. CASE /\ Ticked(a) /\ applier[a].todo # <<>> /\ held'[NextOf(a)] = Release
             /\ applier[a].pc \in {"next", "list", "update"}
    <3> DEFINE r == [applier[a] EXCEPT !.pc = "next", !.todo = Tail(@)]
    <3>1. /\ Tail(applier[a].todo) \in Seq(Declared)
          /\ \A j \in DOMAIN applier[a].todo :
                \/ applier[a].todo[j] = NextOf(a)
                \/ \E i \in DOMAIN Tail(applier[a].todo) : Tail(applier[a].todo)[i] = applier[a].todo[j]
      BY <2>3, NextOfIsDeclared DEF SettingsInv
    <3>2. r \in R /\ r.pc = "next" /\ r.plan = applier[a].plan /\ r.todo = Tail(applier[a].todo)
      BY <1>1, <3>1
    <3>3. applier' = [applier EXCEPT ![a] = r]
      BY <2>3 DEF Ticked
    <3>4. RunAhead(applier[a], held')
      BY <1>1, <1>2
    <3> HIDE DEF r
    <3>5. ASSUME NEW i \in DOMAIN ManifestsOf(r.plan)
          PROVE  \/ held'[ManifestsOf(r.plan)[i]] = Release
                 \/ \E j \in DOMAIN r.todo : r.todo[j] = ManifestsOf(r.plan)[i]
      <4>1. \/ held'[ManifestsOf(r.plan)[i]] = Release
            \/ \E j \in DOMAIN applier[a].todo : applier[a].todo[j] = ManifestsOf(r.plan)[i]
        BY <2>3, <3>2, <3>4 DEF RunAhead
      <4> QED BY <2>3, <3>1, <3>2, <4>1
    <3>6. applier[a].plan \in Plans
      BY <1>1, <2>3 DEF RunAhead
    <3>7. RunAhead(r, held')
      BY <3>2, <3>5, <3>6 DEF RunAhead
    <3> QED BY <3>2, <3>3, <3>7
  <2> QED BY <2>1, <2>2, <2>3
<1>4. PICK r : ok(r)
  BY <1>3
<1> HIDE DEF R
<1>5. applier' \in [Applier -> R]
  BY <1>1, <1>4
<1>6. ASSUME NEW b \in Applier PROVE RunAhead(applier'[b], held')
  <2>1. CASE b = a
    BY <1>1, <1>4, <2>1
  <2>2. CASE b # a
    <3>1. applier'[b] = applier[b] /\ applier[b] \in R /\ RunAhead(applier[b], held)
      BY <1>1, <1>4, <2>2 DEF SettingsInv, HeldOrAhead
    <3> QED BY <1>2, <3>1
  <2> QED BY <2>1, <2>2
<1> QED BY <1>5, <1>6 DEF HeldOrAhead, R

\* The forms: what a save sends is what was typed, and what it stores is known.
LEMMA FormsKeep ==
    ASSUME SettingsInv, NEW e \in Editor,
           EditForm(e) \/ ReadStoredKey(e) \/ PutProvider(e) \/ SaveFails(e)
    PROVE  SettingsInv'
<1> DEFINE E == [pc : {"open", "save", "put"}, on : Surface, body : Body,
                 typed : 0..Keys, send : Redacted..Keys]
<1>1. /\ editor \in [Editor -> E] /\ editor[e] \in E
      /\ provider \in [Surface -> [key : 0..Keys, body : Body]]
      /\ known \in [made : 0..Keys, given : [Surface -> 0..Keys]]
      /\ BlankKeepsTheKey /\ SendsWhatWasTyped
  BY DEF SettingsInv, HarnessTypeOK
<1>2. HeldOrAhead' /\ UNCHANGED <<held, applier>>
  BY DEF SettingsInv, HeldOrAhead, EditForm, ReadStoredKey, PutProvider, SaveFails
<1>3. Keys \in Nat /\ Redacted = -1 /\ 0 \in 0..Keys /\ 0 \in Redacted..Keys /\ 0..Keys \subseteq Redacted..Keys
      /\ Redacted \in Redacted..Keys
  BY HarnessAssumption DEF Redacted
<1>4. Unedited \in E /\ Unedited.pc = "open"
  BY <1>3 DEF Unedited, Surface, Body
<1> DEFINE ok(f) == /\ editor' = [editor EXCEPT ![e] = f] /\ f \in E
                    /\ f.pc = "put" => f.send = IF f.typed # 0 THEN f.typed ELSE Redacted
<1>5. /\ \E f : ok(f)
      /\ provider' \in [Surface -> [key : 0..Keys, body : Body]]
      /\ known' \in [made : 0..Keys, given : [Surface -> 0..Keys]]
      /\ BlankKeepsTheKey'
  <2>1. CASE EditForm(e)
    <3>1. PICK s \in Surface, body \in Body, fresh \in BOOLEAN :
             /\ fresh => known.made < Keys
             /\ editor' = [editor EXCEPT ![e] = [pc |-> "save", on |-> s, body |-> body, send |-> 0,
                                                 typed |-> IF fresh THEN known.made + 1 ELSE 0]]
             /\ known' = [known EXCEPT !.made = IF fresh THEN @ + 1 ELSE @]
      BY <2>1 DEF EditForm
    <3>2. provider' = provider
      BY <2>1 DEF EditForm
    <3>3. fresh => known.made + 1 \in 0..Keys
      BY <1>1, <1>3, <3>1
    <3>4. (IF fresh THEN known.made + 1 ELSE 0) \in 0..Keys /\ (IF fresh THEN known.made + 1 ELSE known.made) \in 0..Keys
      BY <1>1, <1>3, <3>3
    <3> DEFINE f == [pc |-> "save", on |-> s, body |-> body, send |-> 0,
                     typed |-> IF fresh THEN known.made + 1 ELSE 0]
    <3>5. f \in E /\ f.pc = "save"
      BY <1>3, <3>4
    <3>6. ok(f)
      BY <3>1, <3>5
    <3>7. known' \in [made : 0..Keys, given : [Surface -> 0..Keys]] /\ known'.given = known.given
      BY <1>1, <3>1, <3>4
    <3>8. BlankKeepsTheKey'
      BY <1>1, <3>2, <3>7 DEF BlankKeepsTheKey
    <3> QED BY <1>1, <3>2, <3>6, <3>7, <3>8
  <2>2. CASE ReadStoredKey(e)
    <3> DEFINE stored == provider[editor[e].on].key
               key == resolveApiKey(editor[e].typed, stored)
               f == IF key = 0 THEN Unedited ELSE [editor[e] EXCEPT !.pc = "put", !.send = key]
    <3>1. stored \in 0..Keys /\ editor[e].typed \in 0..Keys
      BY <1>1
    <3>2. key \in Redacted..Keys /\ (key # 0 => key = IF editor[e].typed # 0 THEN editor[e].typed ELSE Redacted)
      <4> HIDE DEF stored
      <4> QED BY <1>3, <3>1 DEF resolveApiKey
    <3>3. editor' = [editor EXCEPT ![e] = f] /\ UNCHANGED <<provider, known>>
      BY <2>2 DEF ReadStoredKey
    <3> HIDE DEF stored, key
    <3>4. ok(f)
      BY <1>1, <1>4, <3>2, <3>3
    <3>5. BlankKeepsTheKey'
      BY <1>1, <3>3 DEF BlankKeepsTheKey
    <3> QED BY <1>1, <3>3, <3>4, <3>5
  <2>3. CASE PutProvider(e)
    <3> DEFINE on == editor[e].on
               key == IF editor[e].send = Redacted THEN provider[on].key ELSE editor[e].send
               given == IF editor[e].typed # 0 THEN editor[e].typed ELSE known.given[on]
    <3>1. on \in Surface /\ editor[e].body \in Body /\ editor[e].typed \in 0..Keys /\ provider[on].key \in 0..Keys
          /\ known.given[on] \in 0..Keys
      BY <1>1
    <3>2. editor[e].send = IF editor[e].typed # 0 THEN editor[e].typed ELSE Redacted
      BY <1>1, <2>3 DEF PutProvider, SendsWhatWasTyped
    <3>3. provider[on].key = known.given[on]
      BY <1>1, <3>1 DEF BlankKeepsTheKey
    <3>4. key = given /\ key \in 0..Keys
      <4>1. CASE editor[e].typed = 0
        BY <3>1, <3>2, <3>3, <4>1
      <4>2. CASE editor[e].typed # 0
        BY <1>3, <3>1, <3>2, <4>2
      <4> QED BY <4>1, <4>2
    <3>5. /\ provider' = [provider EXCEPT ![on] = [key |-> key, body |-> editor[e].body]]
          /\ known' = [known EXCEPT !.given[on] = given]
          /\ editor' = [editor EXCEPT ![e] = Unedited]
      BY <2>3 DEF PutProvider, Settle
    <3> HIDE DEF on, key, given
    <3>6. /\ provider' \in [Surface -> [key : 0..Keys, body : Body]]
          /\ known' \in [made : 0..Keys, given : [Surface -> 0..Keys]]
      BY <1>1, <3>1, <3>4, <3>5
    <3>7. known'.given = [known.given EXCEPT ![on] = given] /\ known.given \in [Surface -> 0..Keys]
      BY <1>1, <3>5
    <3>8. ASSUME NEW s \in Surface PROVE provider'[s].key = known'.given[s]
      <4>1. CASE s = on
        BY <1>1, <3>1, <3>4, <3>5, <3>7, <4>1
      <4>2. CASE s # on
        BY <1>1, <3>1, <3>5, <3>7, <4>2 DEF BlankKeepsTheKey
      <4> QED BY <4>1, <4>2
    <3>9. ok(Unedited)
      BY <1>4, <3>5
    <3> QED BY <3>6, <3>8, <3>9 DEF BlankKeepsTheKey
  <2>4. CASE SaveFails(e)
    <3>1. editor' = [editor EXCEPT ![e] = Unedited] /\ UNCHANGED <<provider, known>>
      BY <2>4 DEF SaveFails
    <3>2. ok(Unedited)
      BY <1>4, <3>1
    <3>3. BlankKeepsTheKey'
      BY <1>1, <3>1 DEF BlankKeepsTheKey
    <3> QED BY <1>1, <3>1, <3>2, <3>3
  <2> QED BY <2>1, <2>2, <2>3, <2>4
<1>6. PICK f : ok(f)
  BY <1>5
<1> HIDE DEF E
<1>7. editor' \in [Editor -> E]
  BY <1>1, <1>6
<1>8. ASSUME NEW x \in Editor, editor'[x].pc = "put"
      PROVE  editor'[x].send = IF editor'[x].typed # 0 THEN editor'[x].typed ELSE Redacted
  <2>1. CASE x = e
    BY <1>1, <1>6, <1>8, <2>1
  <2>2. CASE x # e
    BY <1>1, <1>6, <1>8, <2>2 DEF SendsWhatWasTyped
  <2> QED BY <2>1, <2>2
<1>9. HarnessTypeOK'
  BY <1>2, <1>5, <1>7 DEF E, SettingsInv, HarnessTypeOK
<1>10. SendsWhatWasTyped'
  BY <1>8 DEF SendsWhatWasTyped
<1> QED BY <1>2, <1>5, <1>9, <1>10 DEF SettingsInv

LEMMA SettingsNext == SettingsInv /\ [HarnessNext]_harnessVars => SettingsInv'
<1> SUFFICES ASSUME SettingsInv, [HarnessNext]_harnessVars PROVE SettingsInv'
  OBVIOUS
<1>1. HarnessTypeOK /\ held \in [Declared -> 0..Release] /\ Release \in 0..Release
  BY DEF SettingsInv, HarnessTypeOK, Release
<1>2. ASSUME NEW n \in Declared, held' = [held EXCEPT ![n] = Release]
      PROVE  /\ held' \in [Declared -> 0..Release] /\ held'[n] = Release
             /\ \A m \in Declared : held[m] = Release => held'[m] = Release
  BY <1>1, <1>2
<1>3. ASSUME HeldOrAhead', UNCHANGED <<provider, editor, known>>, held' \in [Declared -> 0..Release],
             applier' \in [Applier -> [pc : {"idle", "next", "list", "update", "applied", "failed"},
                                       plan : Plans \union {"none"}, todo : Seq(Declared)]]
      PROVE  SettingsInv'
  BY <1>3 DEF SettingsInv, HarnessTypeOK, SendsWhatWasTyped, BlankKeepsTheKey
<1>4. ASSUME NEW a \in Applier, StartApply(a) PROVE SettingsInv'
  <2>1. \E plan \in Plans :
           applier' = [applier EXCEPT ![a] = [pc |-> "next", plan |-> plan, todo |-> ManifestsOf(plan)]]
    BY <1>4 DEF StartApply
  <2>2. UNCHANGED <<held, provider, editor, known>>
    BY <1>4 DEF StartApply
  <2> QED BY <1>1, <1>3, <2>1, <2>2, RunsKeepTheirPlans
<1>5. ASSUME NEW a \in Applier, Bootstrap(a) PROVE SettingsInv'
  <2>1. applier' = [applier EXCEPT ![a] = [pc |-> "next", plan |-> "bootstrap", todo |-> ManifestsOf("bootstrap")]]
        /\ UNCHANGED <<held, editor>> /\ "bootstrap" \in Plans
    BY <1>5 DEF Bootstrap, Plans
  <2>2. applier' \in [Applier -> [pc : {"idle", "next", "list", "update", "applied", "failed"},
                                       plan : Plans \union {"none"}, todo : Seq(Declared)]]
        /\ HeldOrAhead'
    BY <1>1, <2>1, RunsKeepTheirPlans
  <2>3. PICK configured \in {{"model"}, Surface} :
         /\ provider' = [s \in Surface |-> IF s \in configured
                                           THEN [key |-> EnvKey, body |-> "seed"] ELSE provider[s]]
         /\ known' = [known EXCEPT !.given = [s \in Surface |-> IF s \in configured
                                                                THEN EnvKey ELSE @[s]]]
    BY <1>5 DEF Bootstrap
  <2>4. EnvKey \in 0..Keys /\ "seed" \in Body
    BY HarnessAssumption DEF EnvKey, Body
  <2>5. /\ provider \in [Surface -> [key : 0..Keys, body : Body]]
        /\ known \in [made : 0..Keys, given : [Surface -> 0..Keys]]
    BY <1>1 DEF HarnessTypeOK
  <2>6. provider' \in [Surface -> [key : 0..Keys, body : Body]]
    BY <2>3, <2>4, <2>5
  <2>7. known' \in [made : 0..Keys, given : [Surface -> 0..Keys]]
        /\ known'.given = [s \in Surface |-> IF s \in configured THEN EnvKey ELSE known.given[s]]
    BY <2>3, <2>4, <2>5
  <2>8. BlankKeepsTheKey'
    BY <2>3, <2>5, <2>7 DEF SettingsInv, BlankKeepsTheKey
  <2> QED BY <2>1, <2>2, <2>6, <2>7, <2>8 DEF SettingsInv, HarnessTypeOK, SendsWhatWasTyped
<1>6. ASSUME NEW a \in Applier, PutManifest(a) \/ CreateAgent(a) \/ UpdateAgent(a) PROVE SettingsInv'
  <2>0. applier[a].pc \in {"next", "list", "update"} /\ applier[a].todo # <<>>
        /\ UNCHANGED <<provider, editor, known>>
    BY <1>6 DEF PutManifest, CreateAgent, UpdateAgent, SettingsInv, HeldOrAhead, RunAhead
  <2>1. NextOf(a) \in Declared
    BY <1>1, <2>0, NextOfIsDeclared
  <2>2. CASE held' = [held EXCEPT ![NextOf(a)] = Release] /\ Ticked(a)
    BY <1>2, <1>3, <2>0, <2>1, <2>2, RunsKeepTheirPlans
  <2>3. CASE Moves(a, "list") /\ UNCHANGED held /\ applier[a].pc = "next"
    <3>1. AnotherStep(a)
      BY <2>0, <2>3 DEF AnotherStep, Moves
    <3> QED BY <1>1, <1>3, <2>0, <2>3, <3>1, RunsKeepTheirPlans
  <2> QED BY <1>6, <2>2, <2>3 DEF PutManifest, CreateAgent, UpdateAgent
<1>7. ASSUME NEW a \in Applier, ListAgents(a) \/ ReportApplied(a) PROVE SettingsInv'
  <2>1. AnotherStep(a) /\ UNCHANGED <<held, provider, editor, known>>
    BY <1>7 DEF ListAgents, ReportApplied, AnotherStep, Moves
  <2> QED BY <1>1, <1>3, <2>1, RunsKeepTheirPlans
<1>8. ASSUME NEW a \in Applier, ApplyFails(a) PROVE SettingsInv'
  <2>1. AnotherStep(a) /\ UNCHANGED <<provider, editor, known>> /\ applier[a].todo # <<>>
        /\ held' \in {held, [held EXCEPT ![NextOf(a)] = Release]}
    BY <1>8 DEF ApplyFails, AnotherStep, Moves
  <2>2. NextOf(a) \in Declared
    BY <1>1, <2>1, NextOfIsDeclared
  <2>3. held' \in [Declared -> 0..Release] /\ \A m \in Declared : held[m] = Release => held'[m] = Release
    BY <1>1, <1>2, <2>1, <2>2
  <2> QED BY <1>3, <2>1, <2>3, RunsKeepTheirPlans
<1>9. CASE UNCHANGED harnessVars
  BY <1>9 DEF harnessVars, SettingsInv, HarnessTypeOK, HeldOrAhead, SendsWhatWasTyped, BlankKeepsTheKey
<1> QED BY <1>4, <1>5, <1>6, <1>7, <1>8, <1>9, FormsKeep DEF HarnessNext

\* The manifests, the providers, the runs, the forms and the keys keep their types.
THEOREM SettingsTypeCorrect == HarnessSpec => []HarnessTypeOK
<1>1. SettingsInv => HarnessTypeOK
  BY DEF SettingsInv
<1> QED BY <1>1, SettingsInit, SettingsNext, PTL DEF HarnessSpec

\* What the run "sandboxes" checks with two runs and one form: what an apply reported is
\* held with this release's manifest, and a save whose key was left blank keeps the key
\* (bootstrap-trueforge.mjs, apply.ts, desired.ts: resolveApiKey).
THEOREM SettingsAreHeld == HarnessSpec => []SettingsHold
<1>1. SettingsInv => SettingsHold
  <2> SUFFICES ASSUME SettingsInv PROVE AppliedIsHeld
    BY DEF SettingsInv, SettingsHold
  <2> SUFFICES ASSUME NEW a \in Applier, applier[a].pc = "applied",
                      NEW i \in DOMAIN ManifestsOf(applier[a].plan)
               PROVE  held[ManifestsOf(applier[a].plan)[i]] = Release
    BY DEF AppliedIsHeld, Drift, Release
  <2>1. RunAhead(applier[a], held)
    BY DEF SettingsInv, HeldOrAhead
  <2> QED BY <2>1 DEF RunAhead
<1> QED BY <1>1, SettingsInit, SettingsNext, PTL DEF HarnessSpec

-----------------------------------------------------------------------------
(***************************************************************************)
(* Reproduction, for any recipes, late callbacks and cancellations.        *)
(***************************************************************************)
Boxes == {"target", "listener", "browser"}
Seeing == [ran : BOOLEAN, found : BOOLEAN]
Outcomes == Reasons \union Judged \union {"none", "threw"}
Run == [pc : Steps, recipe : Recipes, cut : BOOLEAN, fixture : BOOLEAN, setup : BOOLEAN,
        control : Seeing, exploit : Seeing, extra : Nat, outcome : Outcomes, seen : SUBSET Legs]

Ending == {"close", "teardown", "over"}
\* Before any leg of the run was sent.
Early == {"authorize", "provision", "render", "rendered", "preview", "fixture", "listen", "listening"}
Silence == trial.seen = {} /\ wire.flying = {} /\ wire.log = {}
Noise == wire.flying \union wire.log

\* Which sandbox is up where, and what one that was left behind says of the run.
BoxesFit ==
    /\ boxes["browser"] = "up" => trial.pc = "rendered"
    /\ trial.pc = "rendered" => boxes["browser"] = "up"
    /\ trial.pc \in {"authorize", "provision"} => boxes["target"] # "up"
    /\ boxes["listener"] = "up" => trial.pc \notin Early \ {"listening"} /\ trial.pc \notin {"teardown", "over"}
    /\ trial.pc = "listening" => boxes["listener"] = "up"
    /\ trial.pc = "over" => boxes["target"] # "up"
    /\ boxes["target"] = "orphan" \/ boxes["browser"] = "orphan" =>
         trial.pc \in Ending /\ trial.outcome \notin Judged

\* Everything but what the legs showed.
TrialFit ==
    /\ BoxesFit
    /\ trial.pc \notin Ending => trial.outcome = "none"
    /\ trial.pc \notin Ending /\ wire.flying # {} => Oob
    /\ trial.pc \in Early => wire.flying = {}

\* What the decision rests on is what the legs showed, as long as no callback is late:
\* what a leg showed is on its way, in the log, or in the control's result.
Evidence ==
    /\ trial.pc \in Early => Silence /\ trial.control = NotRun
    /\ trial.pc \notin {"decide"} \union Ending => trial.exploit = NotRun
    /\ trial.pc \in {"drain", "drainExtra", "poll"} => Oob
    /\ trial.pc \in {"setup", "control", "drain"} => Silence \/ (Oob /\ Noise # {})
    /\ trial.pc \in {"gate", "extra"} /\ CleanControl => Silence
    /\ trial.pc = "drainExtra" /\ CleanControl => Silence \/ Noise # {}
    /\ trial.pc \in {"clear", "exploit"} => Silence
    /\ trial.pc = "poll" => Silence \/ (trial.seen = {"exploit"} /\ Noise # {})
    /\ trial.pc = "decide" =>
         (trial.fixture /\ trial.setup /\ CleanControl /\ trial.exploit.ran =>
            /\ trial.exploit.found => trial.seen = {"exploit"}
            /\ ~trial.exploit.found => trial.seen \subseteq Unasked(trial.recipe))
    /\ trial.pc \in Ending => /\ trial.outcome = "REPRODUCED" => trial.seen = {"exploit"}
                              /\ trial.outcome = "NOT_REPRODUCED" =>
                                   trial.seen \subseteq Unasked(trial.recipe)

\* Only a recipe that asks for a listener gets one.
ListensForOob == trial.pc = "listen" \/ boxes["listener"] = "up" => trial.recipe.oob

TrialInv == TrialTypeOK /\ TrialFit /\ ListensForOob /\ (wire.late = {} => Evidence)

LEMMA TrialTypes ==
    TrialTypeOK <=> /\ trial \in Run
                    /\ boxes \in [Boxes -> {"none", "up", "orphan", "gone"}]
                    /\ wire \in [flying : SUBSET Legs, late : SUBSET Legs, log : SUBSET Legs]
                    /\ spare \in [late : Nat, abort : Nat]
  BY DEF TrialTypeOK, Run, Boxes, Seeing, Outcomes

LEMMA TrialInvInit == TrialInit => TrialInv
<1> SUFFICES ASSUME TrialInit PROVE TrialInv
  OBVIOUS
<1>1. PICK recipe \in Recipes :
         trial = [pc |-> "authorize", recipe |-> recipe, cut |-> FALSE, fixture |-> FALSE,
                  setup |-> TRUE, control |-> NotRun, exploit |-> NotRun, extra |-> 0,
                  outcome |-> "none", seen |-> {}]
  BY DEF TrialInit
<1>2. trial \in Run
  BY <1>1 DEF Run, Steps, Seeing, NotRun, Outcomes
<1>3. TrialTypeOK
  BY <1>2, TrialTypes, TrialBoundAssumption DEF TrialInit, Boxes
<1>4. BoxesFit
  BY <1>1 DEF TrialInit, BoxesFit, Early, Ending
<1>5. Evidence
  BY <1>1 DEF TrialInit, Evidence, Silence, Early, Ending
<1>6. TrialFit
  BY <1>1, <1>4 DEF TrialInit, TrialFit, Ending
<1>7. ListensForOob
  BY <1>1 DEF TrialInit, ListensForOob
<1> QED BY <1>3, <1>5, <1>6, <1>7 DEF TrialInv

LEMMA RefusalsAreReasons == \A lack \in DOMAIN Refusal : Refusal[lack] \in Reasons
  BY DEF Refusal, Reasons

LEMMA TrialTypeNext == TrialTypeOK /\ [TrialNext]_trialVars => TrialTypeOK'
<1> SUFFICES ASSUME TrialTypeOK, [TrialNext]_trialVars PROVE TrialTypeOK'
  OBVIOUS
<1> DEFINE B == [Boxes -> {"none", "up", "orphan", "gone"}]
           W == [flying : SUBSET Legs, late : SUBSET Legs, log : SUBSET Legs]
           S == [late : Nat, abort : Nat]
<1>1. trial \in Run /\ boxes \in B /\ wire \in W /\ spare \in S
  BY TrialTypes
<1>2. SUFFICES trial' \in Run /\ boxes' \in B /\ wire' \in W /\ spare' \in S
  BY TrialTypes DEF TrialTypeOK, Run, Boxes, Seeing, Outcomes
<1>3. /\ trial.seen \subseteq Legs /\ trial.extra \in Nat /\ trial.extra + 1 \in Nat
      /\ trial.control \in Seeing /\ trial.exploit \in Seeing /\ trial.cut \in BOOLEAN /\ trial.recipe \in Recipes
      /\ trial.control.ran \in BOOLEAN /\ trial.control.found \in BOOLEAN
      /\ trial.outcome \in Outcomes /\ trial.pc \in Steps
  BY <1>1 DEF Run, Seeing
<1>4. /\ \A pc \in Steps : To(pc) => trial' \in Run
      /\ \A outcome \in Outcomes : Answers(outcome) => trial' \in Run
      /\ Reasons \subseteq Outcomes /\ Judged \subseteq Outcomes /\ {"none", "threw"} \subseteq Outcomes
      /\ Failing \in Outcomes
  <2>1. ASSUME NEW pc \in Steps, To(pc) PROVE trial' \in Run
    BY <1>1, <2>1 DEF Run, To
  <2>2. Reasons \subseteq Outcomes /\ Judged \subseteq Outcomes /\ {"none", "threw"} \subseteq Outcomes
    BY DEF Outcomes
  <2>3. ASSUME NEW outcome \in Outcomes, Answers(outcome) PROVE trial' \in Run
    <3>1. "close" \in Steps
      BY DEF Steps
    <3> QED BY <1>1, <2>3, <3>1 DEF Run, Answers
  <2>4. Failing \in Outcomes
    BY DEF Failing, Outcomes, Reasons
  <2> QED BY <2>1, <2>2, <2>3, <2>4
<1>5. \A b \in Boxes : \A s \in {"none", "up", "orphan", "gone"} : [boxes EXCEPT ![b] = s] \in B
  BY <1>1
<1>6. \A b \in Boxes : Torn(b) => boxes' \in B
  BY <1>1 DEF Torn
<1>7. ASSUME NEW leg \in Legs, MayCallOut(leg)
      PROVE  wire' \in W /\ spare' \in S /\ Seen(leg) \in SUBSET Legs
  <2>1. wire.flying \union {leg} \in SUBSET Legs /\ wire.late \union {leg} \in SUBSET Legs
    BY <1>1
  <2>2. wire' \in W
    <3>1. CASE wire' = wire
      BY <1>1, <3>1
    <3>2. CASE wire' = [wire EXCEPT !.flying = wire.flying \union {leg}]
      BY <1>1, <2>1, <3>2
    <3>3. CASE wire' = [wire EXCEPT !.flying = wire.flying \union {leg}, !.late = wire.late \union {leg}]
      BY <1>1, <2>1, <3>3
    <3> QED BY <1>7, <3>1, <3>2, <3>3 DEF MayCallOut
  <2>3. spare' \in S
    <3>1. spare.late > 0 => spare.late - 1 \in Nat
      BY <1>1
    <3> QED BY <1>1, <1>7, <3>1 DEF MayCallOut
  <2> QED BY <1>3, <2>2, <2>3 DEF Seen
<1>8. \A a, b \in BOOLEAN : AfterFixture(a, b) \in Steps
  BY DEF AfterFixture, Steps
<1>9. \A leg \in Controls : \A r, f \in BOOLEAN : Fold(leg, r, f) \in Seeing
  <2> TAKE leg \in Controls
  <2> TAKE r, f \in BOOLEAN
  <2>1. (trial.control.ran /\ r) \in BOOLEAN /\ (trial.control.found \/ f) \in BOOLEAN
    OBVIOUS
  <2>2. [ran |-> r, found |-> f] \in Seeing /\ [ran |-> (trial.control.ran /\ r), found |-> (trial.control.found \/ f)] \in Seeing
    BY <2>1 DEF Seeing
  <2> QED BY <2>2 DEF Fold
<1> HIDE DEF B, W, S
<1>10. CASE AuthorizeTarget \/ PreviewTarget \/ PassGate \/ Judge
  <2>1. boxes' = boxes /\ wire' = wire /\ spare' = spare
    BY <1>10 DEF AuthorizeTarget, PreviewTarget, PassGate, Judge
  <2>2. CASE AuthorizeTarget
    <3>1. "provision" \in Steps
      BY DEF Steps
    <3> QED BY <1>1, <1>4, <2>1, <2>2, <3>1, RefusalsAreReasons DEF AuthorizeTarget
  <2>3. CASE PreviewTarget
    <3>1. "fixture" \in Steps
      BY DEF Steps
    <3> QED BY <1>1, <1>4, <2>1, <2>3, <3>1 DEF PreviewTarget
  <2>4. CASE PassGate
    <3>1. \E pc \in {"extra", "decide", "clear", "exploit"} : To(pc)
      BY <2>4 DEF PassGate
    <3>2. {"extra", "decide", "clear", "exploit"} \subseteq Steps
      BY DEF Steps
    <3> QED BY <1>1, <1>4, <2>1, <3>1, <3>2
  <2>5. CASE Judge
    <3>1. \E outcome \in Judged \union {"NO_APPROVED_ORACLE", "TARGET_UNAVAILABLE"} : Answers(outcome)
      BY <2>5 DEF Judge, decideOutcome, Judged
    <3>2. {"NO_APPROVED_ORACLE", "TARGET_UNAVAILABLE"} \subseteq Outcomes
      BY DEF Outcomes, Reasons
    <3> QED BY <1>1, <1>4, <2>1, <3>1, <3>2
  <2> QED BY <1>10, <2>2, <2>3, <2>4, <2>5
<1>11. CASE ProvisionTrialTarget \/ BootBrowser \/ CloseListener
  <2>1. wire' = wire /\ spare' = spare
    BY <1>11 DEF ProvisionTrialTarget, BootBrowser, CloseListener
  <2>2. {"render", "preview", "rendered", "teardown"} \subseteq Steps
    BY DEF Steps
  <2>3. {"COULD_NOT_DEPLOY", "TARGET_UNAVAILABLE", "threw"} \subseteq Outcomes
    BY DEF Outcomes, Reasons
  <2>4. boxes' \in B
    BY <1>1, <1>5, <1>6, <1>11 DEF ProvisionTrialTarget, BootBrowser, CloseListener, Boxes
  <2>5. trial' \in Run
    BY <1>4, <1>11, <2>2, <2>3 DEF ProvisionTrialTarget, BootBrowser, CloseListener
  <2> QED BY <1>1, <2>1, <2>4, <2>5
<1>12. CASE RenderLegs
  <2>1. wire' = wire /\ spare' = spare /\ boxes' \in B
    BY <1>6, <1>12 DEF RenderLegs, Boxes
  <2>2. CASE Answers(Failing)
    BY <1>1, <1>4, <2>1, <2>2
  <2>3. ASSUME NEW control \in Seeing, NEW exploit \in Seeing,
               trial' = [trial EXCEPT !.pc = "decide", !.fixture = control.ran,
                           !.control = control, !.exploit = exploit,
                           !.seen = {leg \in {"control", "exploit"} :
                                       IF leg = "control" THEN control.found
                                                          ELSE exploit.found}]
        PROVE  trial' \in Run
    <3>1. control.ran \in BOOLEAN
      BY DEF Seeing
    <3>2. {leg \in {"control", "exploit"} : IF leg = "control" THEN control.found ELSE exploit.found} \in SUBSET Legs
      BY DEF Legs
    <3>3. "decide" \in Steps
      BY DEF Steps
    <3> QED BY <1>1, <2>3, <3>1, <3>2, <3>3 DEF Run
  <2> QED BY <1>1, <1>12, <2>1, <2>2, <2>3 DEF RenderLegs, Seeing
<1>13. CASE SeedFixture
  <2>1. wire' = wire /\ spare' = spare /\ boxes' = boxes
    BY <1>13 DEF SeedFixture
  <2>2. ASSUME NEW seeded \in BOOLEAN,
               trial' = [trial EXCEPT !.fixture = seeded,
                           !.pc = IF seeded /\ trial.recipe.oob THEN "listen"
                                  ELSE AfterFixture(seeded, TRUE)]
        PROVE  trial' \in Run
    <3>1. (IF seeded /\ trial.recipe.oob THEN "listen" ELSE AfterFixture(seeded, TRUE)) \in Steps
      BY <1>8 DEF Steps
    <3> QED BY <1>1, <2>2, <3>1 DEF Run
  <2> QED BY <1>1, <1>4, <1>13, <2>1, <2>2 DEF SeedFixture
<1>14. CASE BootListener \/ StartListener
  <2>1. wire' = wire /\ spare' = spare
    BY <1>14 DEF BootListener, StartListener
  <2>2. boxes' \in B
    BY <1>1, <1>5, <1>6, <1>14 DEF BootListener, StartListener, Boxes
  <2>3. NoListener => trial' \in Run
    <3>1. {"close", "decide"} \subseteq Steps /\ "threw" \in Outcomes
      BY <1>4 DEF Steps
    <3>2. (IF trial.cut THEN "close" ELSE "decide") \in Steps /\ (IF trial.cut THEN "threw" ELSE trial.outcome) \in Outcomes
      BY <1>3, <3>1
    <3> QED BY <1>1, <3>2 DEF NoListener, Run
  <2>4. "listening" \in Steps
    BY DEF Steps
  <2>5. trial' \in Run
    BY <1>4, <1>8, <1>14, <2>3, <2>4 DEF BootListener, StartListener
  <2> QED BY <1>1, <2>1, <2>2, <2>5
<1>15. CASE RunSetup
  <2>1. wire' \in W /\ spare' \in S /\ Seen("setup") \in SUBSET Legs /\ boxes' = boxes
    BY <1>7, <1>15 DEF RunSetup, Legs
  <2>2. {"close", "control", "decide"} \subseteq Steps /\ "threw" \in Outcomes
    BY <1>4 DEF Steps
  <2>3. trial' \in Run
    <3>1. CASE trial' = [trial EXCEPT !.pc = "close", !.outcome = "threw", !.seen = Seen("setup")]
      BY <1>1, <2>1, <2>2, <3>1 DEF Run
    <3>2. ASSUME NEW done \in BOOLEAN,
                 trial' = [trial EXCEPT !.setup = done, !.seen = Seen("setup"),
                                   !.pc = IF done THEN "control" ELSE "decide"]
          PROVE  trial' \in Run
      BY <1>1, <2>1, <2>2, <3>2 DEF Run
    <3> QED BY <1>15, <3>1, <3>2 DEF RunSetup
  <2> QED BY <1>1, <2>1, <2>3
<1>16. ASSUME NEW leg \in Controls, SendControl(leg)
       PROVE  trial' \in Run /\ boxes' \in B /\ wire' \in W /\ spare' \in S
  <2>1. wire' \in W /\ spare' \in S /\ Seen(leg) \in SUBSET Legs /\ boxes' = boxes
    BY <1>7, <1>16 DEF SendControl, Legs, Controls
  <2>2. {"close", "gate"} \subseteq Steps /\ DrainOf[leg] \in Steps /\ "threw" \in Outcomes
    BY <1>4 DEF Steps, DrainOf, Controls
  <2>3. trial' \in Run
    <3>1. CASE trial' = [trial EXCEPT !.pc = "close", !.outcome = "threw", !.seen = Seen(leg)]
      BY <1>1, <2>1, <2>2, <3>1 DEF Run
    <3>2. CASE trial' = [trial EXCEPT !.pc = DrainOf[leg], !.seen = Seen(leg)]
      BY <1>1, <2>1, <2>2, <3>2 DEF Run
    <3>3. ASSUME NEW found \in BOOLEAN,
                 trial' = [trial EXCEPT !.pc = "gate", !.control = Fold(leg, TRUE, found),
                           !.extra = IF leg = "extra" THEN @ + 1 ELSE @,
                           !.seen = IF found THEN @ \union {leg} ELSE @]
          PROVE  trial' \in Run
      <4>1. Fold(leg, TRUE, found) \in Seeing
        BY <1>9
      <4>2. (IF found THEN trial.seen \union {leg} ELSE trial.seen) \in SUBSET Legs
            /\ (IF leg = "extra" THEN trial.extra + 1 ELSE trial.extra) \in Nat
        BY <1>3 DEF Legs, Controls
      <4> QED BY <1>1, <2>2, <3>3, <4>1, <4>2 DEF Run
    <3>4. CASE trial' = [trial EXCEPT !.pc = "gate", !.control = Fold(leg, FALSE, FALSE),
                         !.extra = IF leg = "extra" THEN @ + 1 ELSE @, !.seen = Seen(leg)]
      <4>1. Fold(leg, FALSE, FALSE) \in Seeing
        BY <1>9
      <4>2. (IF leg = "extra" THEN trial.extra + 1 ELSE trial.extra) \in Nat
        BY <1>3
      <4> QED BY <1>1, <2>1, <2>2, <3>4, <4>1, <4>2 DEF Run
    <3> QED BY <1>16, <3>1, <3>2, <3>3, <3>4 DEF SendControl
  <2> QED BY <1>1, <2>1, <2>3
<1>17. ASSUME NEW leg \in Controls, DrainControl(leg)
       PROVE  trial' \in Run /\ boxes' \in B /\ wire' \in W /\ spare' \in S
  <2>1. boxes' = boxes /\ spare' = spare /\ (wire' = wire \/ wire' = [wire EXCEPT !.log = {}])
    BY <1>17 DEF DrainControl
  <2>2. [wire EXCEPT !.log = {}] \in W
    BY <1>1 DEF W
  <2>3. ASSUME NEW r \in BOOLEAN, NEW f \in BOOLEAN,
               trial' = [trial EXCEPT !.pc = "gate", !.control = Fold(leg, r, f),
                         !.extra = IF leg = "extra" THEN @ + 1 ELSE @]
        PROVE  trial' \in Run
    <3>1. Fold(leg, r, f) \in Seeing /\ (IF leg = "extra" THEN trial.extra + 1 ELSE trial.extra) \in Nat
          /\ "gate" \in Steps
      BY <1>3, <1>9 DEF Steps
    <3> QED BY <1>1, <2>3, <3>1 DEF Run
  <2>4. (wire.log # {}) \in BOOLEAN
    OBVIOUS
  <2>5. \/ Answers("threw")
        \/ trial' = [trial EXCEPT !.pc = "gate", !.control = Fold(leg, TRUE, wire.log # {}),
                         !.extra = IF leg = "extra" THEN @ + 1 ELSE @]
        \/ trial' = [trial EXCEPT !.pc = "gate", !.control = Fold(leg, FALSE, FALSE),
                         !.extra = IF leg = "extra" THEN @ + 1 ELSE @]
    BY <1>17 DEF DrainControl
  <2> QED BY <1>1, <1>4, <2>1, <2>2, <2>3, <2>4, <2>5
<1>18. CASE ClearLog \/ PollExploit
  <2>1. boxes' = boxes /\ spare' = spare /\ (wire' = wire \/ wire' = [wire EXCEPT !.log = {}])
    BY <1>18 DEF ClearLog, PollExploit
  <2>2. [wire EXCEPT !.log = {}] \in W
    BY <1>1 DEF W
  <2>3. {"exploit", "decide"} \subseteq Steps
    BY DEF Steps
  <2>4. [ran |-> TRUE, found |-> (wire.log # {})] \in Seeing
    BY DEF Seeing
  <2>5. trial' = [trial EXCEPT !.pc = "decide", !.exploit = [ran |-> TRUE, found |-> wire.log # {}]] => trial' \in Run
    BY <1>1, <2>3, <2>4 DEF Run
  <2>6. trial' \in Run
    BY <1>4, <1>18, <2>3, <2>5 DEF ClearLog, PollExploit
  <2> QED BY <1>1, <2>1, <2>2, <2>6
<1>19. CASE SendExploit
  <2>1. wire' \in W /\ spare' \in S /\ Seen("exploit") \in SUBSET Legs /\ boxes' = boxes
    BY <1>7, <1>19 DEF SendExploit, Legs
  <2>2. {"close", "poll", "decide"} \subseteq Steps /\ "threw" \in Outcomes
    BY <1>4 DEF Steps
  <2>3. trial' \in Run
    <3>1. CASE trial' = [trial EXCEPT !.pc = "close", !.outcome = "threw", !.seen = Seen("exploit")]
      BY <1>1, <2>1, <2>2, <3>1 DEF Run
    <3>2. CASE trial' = [trial EXCEPT !.pc = "poll", !.seen = Seen("exploit")]
      BY <1>1, <2>1, <2>2, <3>2 DEF Run
    <3>3. ASSUME NEW found \in BOOLEAN,
                 trial' = [trial EXCEPT !.pc = "decide", !.exploit = [ran |-> TRUE, found |-> found],
                           !.seen = IF found THEN @ \union {"exploit"} ELSE Seen("exploit")]
          PROVE  trial' \in Run
      <4> DEFINE shown == IF found THEN trial.seen \union {"exploit"} ELSE Seen("exploit")
      <4>1. [ran |-> TRUE, found |-> found] \in Seeing /\ shown \in SUBSET Legs
        BY <1>3, <2>1 DEF Seeing, Legs
      <4>2. trial' = [trial EXCEPT !.pc = "decide", !.exploit = [ran |-> TRUE, found |-> found],
                                   !.seen = shown]
        BY <3>3
      <4> HIDE DEF shown
      <4> QED BY <1>1, <2>2, <4>1, <4>2 DEF Run
    <3>4. CASE trial' = [trial EXCEPT !.pc = "decide", !.seen = Seen("exploit")]
      BY <1>1, <2>1, <2>2, <3>4 DEF Run
    <3> QED BY <1>19, <3>1, <3>2, <3>3, <3>4 DEF SendExploit
  <2> QED BY <1>1, <2>1, <2>3
<1>20. CASE CallbackArrives
  <2>1. trial' = trial /\ boxes' = boxes /\ spare' = spare
    BY <1>20 DEF CallbackArrives
  <2>2. PICK leg \in wire.flying : wire' = [wire EXCEPT !.flying = @ \ {leg}, !.log = IF Oob THEN @ \union {leg} ELSE @]
    BY <1>20 DEF CallbackArrives
  <2>3. wire.flying \ {leg} \in SUBSET Legs /\ (IF Oob THEN wire.log \union {leg} ELSE wire.log) \in SUBSET Legs
    BY <1>1 DEF W
  <2>4. wire' \in W
    BY <1>1, <2>2, <2>3 DEF W
  <2> QED BY <1>1, <2>1, <2>4
<1>21. CASE TearTargetDown
  <2>1. boxes' \in B /\ spare' = spare
    BY <1>1, <1>6, <1>21 DEF TearTargetDown, Boxes
  <2>2. wire' \in W
    BY <1>1, <1>21 DEF TearTargetDown, W
  <2>3. "over" \in Steps /\ (IF boxes["target"] = "up" /\ boxes'["target"] = "orphan" THEN "threw" ELSE trial.outcome) \in Outcomes
    BY <1>3, <1>4 DEF Steps
  <2>4. trial' \in Run
    BY <1>1, <1>21, <2>3 DEF TearTargetDown, Run
  <2> QED BY <1>1, <2>1, <2>2, <2>4
<1>22. CASE Cancel
  <2>1. spare.abort > 0 => spare.abort - 1 \in Nat
    BY <1>1 DEF S
  <2>2. spare' \in S /\ trial' \in Run
    BY <1>1, <1>22, <2>1 DEF Cancel, S, Run
  <2> QED BY <1>1, <1>22, <2>2 DEF Cancel
<1>23. CASE UNCHANGED trialVars
  BY <1>1, <1>23 DEF trialVars
<1> QED
  BY <1>10, <1>11, <1>12, <1>13, <1>14, <1>15, <1>16, <1>17, <1>18, <1>19, <1>20, <1>21, <1>22, <1>23 DEF TrialNext

LEMMA TrialFitNext == TrialTypeOK /\ TrialFit /\ [TrialNext]_trialVars => TrialFit'
<1> SUFFICES ASSUME TrialTypeOK, TrialFit, [TrialNext]_trialVars PROVE TrialFit'
  OBVIOUS
<1>1. /\ trial \in Run /\ boxes \in [Boxes -> {"none", "up", "orphan", "gone"}]
      /\ wire \in [flying : SUBSET Legs, late : SUBSET Legs, log : SUBSET Legs]
      /\ spare \in [late : Nat, abort : Nat]
  BY TrialTypes
<1> USE DEF TrialFit, BoxesFit, Boxes, Ending, Early, Judged, Oob
<1>2. CASE AuthorizeTarget
  BY <1>1, <1>2 DEF Run, AuthorizeTarget, To, Answers, Failing, Torn, NoListener, AfterFixture, MayCallOut, Reasons, Refusal
<1>3. CASE ProvisionTrialTarget
  BY <1>1, <1>3 DEF Run, ProvisionTrialTarget, To, Answers, Failing, Torn, NoListener, AfterFixture, MayCallOut, Reasons, Refusal
<1>4. CASE PreviewTarget
  BY <1>1, <1>4 DEF Run, PreviewTarget, To, Answers, Failing, Torn, NoListener, AfterFixture, MayCallOut, Reasons, Refusal
<1>5. CASE BootBrowser
  BY <1>1, <1>5 DEF Run, BootBrowser, To, Answers, Failing, Torn, NoListener, AfterFixture, MayCallOut, Reasons, Refusal
<1>6. CASE RenderLegs
  BY <1>1, <1>6 DEF Run, RenderLegs, To, Answers, Failing, Torn, NoListener, AfterFixture, MayCallOut, Reasons, Refusal
<1>7. CASE SeedFixture
  BY <1>1, <1>7 DEF Run, SeedFixture, To, Answers, Failing, Torn, NoListener, AfterFixture, MayCallOut, Reasons, Refusal
<1>8. CASE BootListener
  <2>1. trial.pc = "listen" /\ wire' = wire
    BY <1>8 DEF BootListener
  <2>2. CASE boxes' = [boxes EXCEPT !["listener"] = "up"] /\ To("listening")
    <3>1. trial'.pc = "listening" /\ trial'.outcome = trial.outcome
      BY <1>1, <2>2 DEF Run, To
    <3> QED
      BY <1>1, <2>1, <2>2, <3>1
  <2>3. CASE boxes' \in {boxes, [boxes EXCEPT !["listener"] = "orphan"]} /\ NoListener
    <3>1. \/ trial'.pc = "close" /\ trial'.outcome = "threw"
          \/ trial'.pc = "decide" /\ trial'.outcome = trial.outcome
      BY <1>1, <2>3 DEF Run, NoListener
    <3>2. boxes'["listener"] # "up" /\ \A b \in Boxes : b # "listener" => boxes'[b] = boxes[b]
      BY <1>1, <2>1, <2>3
    <3> QED
      BY <1>1, <2>1, <3>1, <3>2
  <2> QED
    BY <1>8, <2>2, <2>3 DEF BootListener
<1>9. CASE StartListener
  <2>1. AfterFixture(TRUE, TRUE) \in {"setup", "control"} /\ Failing \notin Judged
    BY DEF AfterFixture, Failing
  <2>2. CASE ~trial.cut /\ To(AfterFixture(TRUE, TRUE)) /\ UNCHANGED boxes
    BY <1>1, <1>9, <2>1, <2>2 DEF Run, StartListener, To
  <2>3. CASE Torn("listener") /\ NoListener
    <3>1. \/ trial'.pc = "close" /\ trial'.outcome = "threw"
          \/ trial'.pc = "decide" /\ trial'.outcome = trial.outcome
      BY <1>1, <2>3 DEF Run, NoListener
    <3>2. boxes'["listener"] # "up" /\ \A b \in Boxes : b # "listener" => boxes'[b] = boxes[b]
      BY <1>1, <2>3 DEF Torn
    <3>3. trial.pc = "listening" /\ wire' = wire
      BY <1>9 DEF StartListener
    <3>4. wire.flying = {}
      BY <3>3
    <3> QED
      BY <1>1, <3>1, <3>2, <3>3, <3>4
  <2>4. CASE Torn("listener") /\ Answers(Failing)
    BY <1>1, <1>9, <2>1, <2>4 DEF Run, StartListener, Torn, Answers
  <2> QED
    BY <1>9, <2>2, <2>3, <2>4 DEF StartListener
<1>10. CASE RunSetup
  <2>1. /\ trial.pc = "setup" /\ boxes' = boxes
        /\ wire'.flying # {} => wire.flying # {} \/ Oob
    BY <1>1, <1>10 DEF RunSetup, MayCallOut
  <2>2. \/ trial'.pc = "close" /\ trial'.outcome = "threw"
        \/ trial'.pc \in {"control", "decide"} /\ trial'.outcome = trial.outcome
    BY <1>1, <1>10 DEF Run, RunSetup
  <2> QED
    BY <1>1, <2>1, <2>2
<1>11. CASE PassGate
  BY <1>1, <1>11 DEF Run, PassGate, To, Answers, Failing, Torn, NoListener, AfterFixture, MayCallOut, Reasons, Refusal
<1>12. CASE ClearLog
  <2>1. trial.pc = "clear" /\ boxes' = boxes /\ wire'.flying = wire.flying
    BY <1>1, <1>12 DEF ClearLog
  <2>2. \/ trial'.pc = "close" /\ trial'.outcome \notin Judged
        \/ trial'.pc \in {"exploit", "decide"} /\ trial'.outcome = trial.outcome
    BY <1>1, <1>12 DEF Run, ClearLog, To, Answers, Failing
  <2> QED
    BY <1>1, <2>1, <2>2
<1>13. CASE SendExploit
  <2>1. /\ trial.pc = "exploit" /\ boxes' = boxes
        /\ wire'.flying # {} => wire.flying # {} \/ Oob
    BY <1>1, <1>13 DEF SendExploit, MayCallOut
  <2>2. \/ trial'.pc = "close" /\ trial'.outcome = "threw"
        \/ trial'.pc \in {"poll", "decide"} /\ trial'.outcome = trial.outcome
    BY <1>1, <1>13 DEF Run, SendExploit
  <2> QED
    BY <1>1, <2>1, <2>2
<1>14. CASE PollExploit
  BY <1>1, <1>14 DEF Run, PollExploit, To, Answers, Failing, Torn, NoListener, AfterFixture, MayCallOut, Reasons, Refusal
<1>15. CASE CallbackArrives
  BY <1>1, <1>15 DEF Run, CallbackArrives, To, Answers, Failing, Torn, NoListener, AfterFixture, MayCallOut, Reasons, Refusal
<1>16. CASE Judge
  BY <1>1, <1>16 DEF Run, Judge, To, Answers, Failing, Torn, NoListener, AfterFixture, MayCallOut, Reasons, Refusal
<1>17. CASE CloseListener
  BY <1>1, <1>17 DEF Run, CloseListener, To, Answers, Failing, Torn, NoListener, AfterFixture, MayCallOut, Reasons, Refusal
<1>18. CASE TearTargetDown
  BY <1>1, <1>18 DEF Run, TearTargetDown, To, Answers, Failing, Torn, NoListener, AfterFixture, MayCallOut, Reasons, Refusal
<1>19. CASE Cancel
  BY <1>1, <1>19 DEF Run, Cancel, To, Answers, Failing, Torn, NoListener, AfterFixture, MayCallOut, Reasons, Refusal
<1>20. ASSUME NEW leg \in Controls, SendControl(leg) \/ DrainControl(leg) PROVE TrialFit'
  <2>1. /\ trial.pc \in {"control", "extra", "drain", "drainExtra"} /\ boxes' = boxes
    <3>1. leg \in {"control", "extra"} /\ DrainOf[leg] \in {"drain", "drainExtra"}
      BY DEF DrainOf, Controls
    <3> QED
      BY <1>20, <3>1 DEF SendControl, DrainControl
  <2>2. CASE SendControl(leg)
    <3>1. \/ trial'.pc = "close" /\ trial'.outcome = "threw"
          \/ trial'.pc \in {"gate", "drain", "drainExtra"} /\ trial'.outcome = trial.outcome
      <4>1. DrainOf[leg] \in {"drain", "drainExtra"}
        BY <1>20 DEF DrainOf, Controls
      <4> QED
        BY <1>1, <2>2, <4>1 DEF Run, SendControl
    <3>2. wire'.flying # {} => wire.flying # {} \/ Oob
      BY <1>1, <2>2 DEF SendControl, MayCallOut
    <3> QED
      BY <1>1, <2>1, <3>1, <3>2
  <2>3. CASE DrainControl(leg)
    <3>1. \/ trial'.pc = "close" /\ trial'.outcome = "threw"
          \/ trial'.pc = "gate" /\ trial'.outcome = trial.outcome
      BY <1>1, <2>3 DEF Run, DrainControl, Answers
    <3>2. wire'.flying = wire.flying
      BY <1>1, <2>3 DEF DrainControl
    <3> QED
      BY <1>1, <2>1, <3>1, <3>2
  <2> QED
    BY <1>20, <2>2, <2>3
<1>21. CASE UNCHANGED trialVars
  BY <1>21 DEF trialVars
<1> QED
  BY <1>2, <1>3, <1>4, <1>5, <1>6, <1>7, <1>8, <1>9, <1>10, <1>11, <1>12, <1>13, <1>14, <1>15, <1>16, <1>17, <1>18, <1>19, <1>20, <1>21 DEF TrialNext

\* No step changes the recipe, starts listening for another one, or brings a listener up elsewhere.
LEMMA ListensNext == TrialTypeOK /\ ListensForOob /\ [TrialNext]_trialVars => ListensForOob'
<1> SUFFICES ASSUME TrialTypeOK, ListensForOob, [TrialNext]_trialVars PROVE ListensForOob'
  OBVIOUS
<1>1. trial \in Run /\ boxes \in [Boxes -> {"none", "up", "orphan", "gone"}]
  BY TrialTypes
<1> USE DEF ListensForOob, Boxes
<1>2. CASE AuthorizeTarget
  BY <1>1, <1>2 DEF Run, AuthorizeTarget, To, Answers, Failing, Torn, NoListener, AfterFixture, Refusal
<1>3. CASE ProvisionTrialTarget
  BY <1>1, <1>3 DEF Run, ProvisionTrialTarget, To, Answers, Failing, Torn, NoListener, AfterFixture, Refusal
<1>4. CASE PreviewTarget
  BY <1>1, <1>4 DEF Run, PreviewTarget, To, Answers, Failing, Torn, NoListener, AfterFixture, Refusal
<1>5. CASE BootBrowser
  BY <1>1, <1>5 DEF Run, BootBrowser, To, Answers, Failing, Torn, NoListener, AfterFixture, Refusal
<1>6. CASE RenderLegs
  BY <1>1, <1>6 DEF Run, RenderLegs, To, Answers, Failing, Torn, NoListener, AfterFixture, Refusal
<1>7. CASE SeedFixture
  BY <1>1, <1>7 DEF Run, SeedFixture, To, Answers, Failing, Torn, NoListener, AfterFixture, Refusal
<1>8. CASE BootListener
  BY <1>1, <1>8 DEF Run, BootListener, To, Answers, Failing, Torn, NoListener, AfterFixture, Refusal
<1>9. CASE StartListener
  BY <1>1, <1>9 DEF Run, StartListener, To, Answers, Failing, Torn, NoListener, AfterFixture, Refusal
<1>10. CASE RunSetup
  BY <1>1, <1>10 DEF Run, RunSetup, To, Answers, Failing, Torn, NoListener, AfterFixture, Refusal
<1>11. CASE PassGate
  BY <1>1, <1>11 DEF Run, PassGate, To, Answers, Failing, Torn, NoListener, AfterFixture, Refusal
<1>12. CASE ClearLog
  BY <1>1, <1>12 DEF Run, ClearLog, To, Answers, Failing, Torn, NoListener, AfterFixture, Refusal
<1>13. CASE SendExploit
  BY <1>1, <1>13 DEF Run, SendExploit, To, Answers, Failing, Torn, NoListener, AfterFixture, Refusal
<1>14. CASE PollExploit
  BY <1>1, <1>14 DEF Run, PollExploit, To, Answers, Failing, Torn, NoListener, AfterFixture, Refusal
<1>15. CASE CallbackArrives
  BY <1>1, <1>15 DEF Run, CallbackArrives, To, Answers, Failing, Torn, NoListener, AfterFixture, Refusal
<1>16. CASE Judge
  BY <1>1, <1>16 DEF Run, Judge, To, Answers, Failing, Torn, NoListener, AfterFixture, Refusal
<1>17. CASE CloseListener
  BY <1>1, <1>17 DEF Run, CloseListener, To, Answers, Failing, Torn, NoListener, AfterFixture, Refusal
<1>18. CASE TearTargetDown
  BY <1>1, <1>18 DEF Run, TearTargetDown, To, Answers, Failing, Torn, NoListener, AfterFixture, Refusal
<1>19. CASE Cancel
  BY <1>1, <1>19 DEF Run, Cancel, To, Answers, Failing, Torn, NoListener, AfterFixture, Refusal
<1>20. ASSUME NEW leg \in Controls, SendControl(leg) \/ DrainControl(leg) PROVE ListensForOob'
  <2>1. boxes' = boxes /\ DrainOf[leg] \in {"drain", "drainExtra"}
    <3>1. DrainOf[leg] \in {"drain", "drainExtra"}
      BY <1>20 DEF DrainOf, Controls
    <3>2. boxes' = boxes
      BY <1>20 DEF SendControl, DrainControl
    <3> QED
      BY <3>1, <3>2
  <2>2. trial'.recipe = trial.recipe /\ trial'.pc # "listen"
    BY <1>1, <1>20, <2>1 DEF Run, SendControl, DrainControl, Answers
  <2> QED
    BY <2>1, <2>2
<1>21. CASE UNCHANGED trialVars
  BY <1>21 DEF trialVars
<1> QED
  BY <1>2, <1>3, <1>4, <1>5, <1>6, <1>7, <1>8, <1>9, <1>10, <1>11, <1>12, <1>13, <1>14, <1>15, <1>16, <1>17, <1>18, <1>19, <1>20, <1>21 DEF TrialNext

\* A leg that calls out in time is on its way to a listener that is up.
LEMMA InTime ==
    ASSUME TrialTypeOK, NEW leg \in Legs, MayCallOut(leg), wire'.late = {}
    PROVE  /\ wire.late = {} /\ wire'.log = wire.log
           /\ \/ wire'.flying = wire.flying
              \/ Oob /\ wire'.flying = wire.flying \union {leg}
<1>1. wire \in [flying : SUBSET Legs, late : SUBSET Legs, log : SUBSET Legs]
  BY TrialTypes
<1> QED
  BY <1>1 DEF MayCallOut

\* A folded control is clean only when this leg and the ones before it were.
LEMMA FoldIsClean ==
    ASSUME TrialTypeOK, NEW leg \in {"control", "extra"}, NEW r \in BOOLEAN, NEW f \in BOOLEAN,
           Fold(leg, r, f).ran, ~Fold(leg, r, f).found
    PROVE  r /\ ~f /\ (leg = "control" \/ CleanControl)
<1>1. trial.control.ran \in BOOLEAN /\ trial.control.found \in BOOLEAN
  BY TrialTypes DEF Run, Seeing
<1>2. CASE leg = "control"
  BY <1>2 DEF Fold
<1>3. CASE leg = "extra"
  <2> DEFINE ran == trial.control.ran /\ r
             found == trial.control.found \/ f
  <2>1. ran \in BOOLEAN /\ found \in BOOLEAN
    OBVIOUS
  <2>2. Fold(leg, r, f) = [ran |-> ran, found |-> found]
    <3>1. leg # "control"
      BY <1>3
    <3> QED
      BY <3>1, Zenon DEF Fold
  <2>3. ran /\ ~found
    <3> HIDE DEF ran, found
    <3>1. Fold(leg, r, f).ran = ran /\ Fold(leg, r, f).found = found
      BY <2>2
    <3> QED
      BY <2>1, <3>1
  <2> QED
    BY <1>1, <2>3 DEF CleanControl
<1> QED
  BY <1>2, <1>3

LEMMA EvidenceNext ==
    ASSUME TrialTypeOK, TrialFit, ListensForOob, wire.late = {} => Evidence,
           [TrialNext]_trialVars, wire'.late = {}
    PROVE  Evidence'
<1>1. /\ trial \in Run /\ boxes \in [Boxes -> {"none", "up", "orphan", "gone"}]
      /\ wire \in [flying : SUBSET Legs, late : SUBSET Legs, log : SUBSET Legs]
  BY TrialTypes
<1>100. ASSUME trial'.pc = "close", trial'.outcome \notin Judged PROVE Evidence'
  BY <1>100 DEF Evidence, Ending, Early, Judged
<1>101. "threw" \notin Judged /\ Failing \notin Judged /\ \A r \in Reasons : r \notin Judged
  BY DEF Failing, Judged, Reasons
<1>102. ASSUME NEW r, r \notin Judged, Answers(r) PROVE Evidence'
  <2>1. trial'.pc = "close" /\ trial'.outcome = r
    BY <1>1, <1>102 DEF Run, Answers
  <2> QED
    BY <1>100, <1>102, <2>1
<1> USE DEF Evidence, TrialFit, Silence, Noise, CleanControl, NotRun, Early, Ending, Oob
<1>2. CASE AuthorizeTarget
  <2>1. CASE To("provision")
    BY <1>1, <1>2, <2>1 DEF Run, AuthorizeTarget, To
  <2> QED
    BY <1>2, <1>101, <1>102, <2>1, RefusalsAreReasons DEF AuthorizeTarget
<1>3. CASE ProvisionTrialTarget
  <2>1. trial.pc = "provision" /\ wire' = wire
    BY <1>3 DEF ProvisionTrialTarget
  <2>2. CASE To(IF trial.recipe.browser THEN "render" ELSE "preview")
    <3>1. /\ trial'.pc \in {"render", "preview"} /\ trial'.seen = trial.seen
          /\ trial'.control = trial.control /\ trial'.exploit = trial.exploit
      BY <1>1, <2>2 DEF Run, To
    <3> QED
      BY <2>1, <3>1
  <2>3. ASSUME NEW reason \in {"COULD_NOT_DEPLOY", "TARGET_UNAVAILABLE"},
               Answers(IF trial.cut THEN "threw" ELSE reason)
        PROVE  Evidence'
    BY <1>101, <1>102, <2>3 DEF Reasons
  <2> QED
    BY <1>3, <2>2, <2>3 DEF ProvisionTrialTarget
<1>4. CASE PreviewTarget
  BY <1>1, <1>4 DEF Run, PreviewTarget, To, Answers, Failing, Torn, NoListener, AfterFixture, Reasons, Refusal
<1>5. CASE BootBrowser
  BY <1>1, <1>5 DEF Run, BootBrowser, To, Answers, Failing, Torn, NoListener, AfterFixture, Reasons, Refusal
<1>6. CASE RenderLegs
  <2>1. CASE Answers(Failing)
    BY <1>101, <1>102, <2>1
  <2>2. ASSUME NEW control \in Seeing, NEW exploit \in Seeing,
               trial' = [trial EXCEPT !.pc = "decide", !.fixture = control.ran,
                           !.control = control, !.exploit = exploit,
                           !.seen = {leg \in {"control", "exploit"} :
                                       IF leg = "control" THEN control.found
                                                          ELSE exploit.found}]
        PROVE  Evidence'
    <3>1. /\ trial'.pc = "decide" /\ trial'.control = control /\ trial'.exploit = exploit
          /\ trial'.seen = {leg \in {"control", "exploit"} :
                                       IF leg = "control" THEN control.found ELSE exploit.found}
      BY <1>1, <2>2 DEF Run
    <3>2. ~control.found => trial'.seen = IF exploit.found THEN {"exploit"} ELSE {}
      BY <3>1
    <3> QED
      BY <3>1, <3>2
  <2> QED
    BY <1>6, <2>1, <2>2 DEF RenderLegs, Seeing
<1>7. CASE SeedFixture
  <2>1. trial.pc = "fixture" /\ wire' = wire
    BY <1>7 DEF SeedFixture
  <2>2. CASE Answers("threw")
    BY <1>101, <1>102, <2>2
  <2>3. CASE \E seeded \in BOOLEAN :
               trial' = [trial EXCEPT !.fixture = seeded,
                           !.pc = IF seeded /\ trial.recipe.oob THEN "listen"
                                  ELSE AfterFixture(seeded, TRUE)]
    <3>1. /\ trial'.pc \in {"listen", "decide", "setup", "control"} /\ trial'.seen = trial.seen
          /\ trial'.control = trial.control /\ trial'.exploit = trial.exploit
      BY <1>1, <2>3 DEF Run, AfterFixture
    <3> QED
      BY <2>1, <3>1
  <2> QED
    BY <1>7, <2>2, <2>3 DEF SeedFixture
<1>8. CASE BootListener
  BY <1>1, <1>8 DEF Run, BootListener, To, Answers, Failing, Torn, NoListener, AfterFixture, Reasons, Refusal
<1>9. CASE StartListener
  <2>1. trial.pc = "listening" /\ wire' = wire
    BY <1>9 DEF StartListener
  <2>2. CASE To(AfterFixture(TRUE, TRUE))
    <3>1. /\ trial'.pc \in {"setup", "control"} /\ trial'.seen = trial.seen
          /\ trial'.control = trial.control /\ trial'.exploit = trial.exploit
      BY <1>1, <2>2 DEF Run, To, AfterFixture
    <3> QED
      BY <2>1, <3>1
  <2>3. CASE NoListener
    <3>1. \/ trial'.pc = "close" /\ trial'.outcome = "threw"
          \/ trial'.pc = "decide" /\ trial'.control = trial.control
      BY <1>1, <2>3 DEF Run, NoListener
    <3> QED
      BY <1>100, <1>101, <2>1, <3>1
  <2>4. CASE Answers(Failing)
    BY <1>101, <1>102, <2>4
  <2> QED
    BY <1>9, <2>2, <2>3, <2>4 DEF StartListener
<1>10. CASE RunSetup
  <2>1. /\ trial.pc = "setup" /\ boxes' = boxes /\ MayCallOut("setup") /\ "setup" \in Legs
    BY <1>10 DEF RunSetup, Legs
  <2>2. /\ wire.late = {} /\ wire'.log = wire.log
        /\ wire'.flying = wire.flying \/ (Oob /\ wire'.flying = wire.flying \union {"setup"})
    BY <2>1, InTime
  <2>3. \/ trial'.pc = "close" /\ trial'.outcome = "threw"
        \/ /\ trial'.pc = "control" /\ trial'.seen = Seen("setup") /\ trial'.exploit = trial.exploit
        \/ trial'.pc = "decide" /\ trial'.setup = FALSE
    BY <1>1, <1>10 DEF Run, RunSetup
  <2>4. CASE trial'.pc = "control" /\ trial'.seen = Seen("setup") /\ trial'.exploit = trial.exploit
    <3>1. (trial.seen = {} /\ wire'.flying = {} /\ wire'.log = {}) \/ (Oob /\ wire'.flying \union wire'.log # {})
      BY <2>1, <2>2
    <3>2. (trial'.seen = {} /\ wire'.flying = {} /\ wire'.log = {}) \/ (Oob' /\ wire'.flying \union wire'.log # {})
      BY <2>1, <2>4, <3>1 DEF Seen
    <3> QED
      BY <2>1, <2>2, <2>4, <3>2
  <2> QED
    BY <1>100, <1>101, <2>1, <2>3, <2>4
<1>11. ASSUME NEW leg \in Controls, SendControl(leg) PROVE Evidence'
  <2>1. /\ trial.pc = leg /\ boxes' = boxes /\ MayCallOut(leg) /\ leg \in Legs
        /\ leg \in {"control", "extra"} /\ DrainOf[leg] = IF leg = "control" THEN "drain" ELSE "drainExtra"
    <3>1. leg \in {"control", "extra"}
      BY DEF Controls
    <3>2. DrainOf[leg] = IF leg = "control" THEN "drain" ELSE "drainExtra"
      BY <3>1 DEF DrainOf
    <3> QED
      BY <1>11, <3>1, <3>2 DEF SendControl, Legs
  <2>2. /\ wire.late = {} /\ wire'.log = wire.log
        /\ wire'.flying = wire.flying \/ (Oob /\ wire'.flying = wire.flying \union {leg})
    BY <2>1, InTime
  <2>3. \/ trial'.pc = "close" /\ trial'.outcome = "threw"
        \/ /\ Oob /\ trial'.pc = DrainOf[leg] /\ trial'.seen = Seen(leg)
           /\ trial'.exploit = trial.exploit /\ trial'.control = trial.control
        \/ \E found \in BOOLEAN :
             /\ ~Oob /\ trial'.pc = "gate" /\ trial'.control = Fold(leg, TRUE, found)
             /\ trial'.exploit = trial.exploit
             /\ trial'.seen = IF found THEN trial.seen \union {leg} ELSE trial.seen
        \/ trial'.pc = "gate" /\ trial'.control = Fold(leg, FALSE, FALSE) /\ trial'.exploit = trial.exploit
    BY <1>1, <1>11 DEF Run, SendControl
  <2>4. CASE /\ Oob /\ trial'.pc = DrainOf[leg] /\ trial'.seen = Seen(leg)
             /\ trial'.exploit = trial.exploit /\ trial'.control = trial.control
    <3>1. ASSUME leg = "control" \/ CleanControl
          PROVE  \/ trial'.seen = {} /\ wire'.flying = {} /\ wire'.log = {}
                 \/ wire'.flying \union wire'.log # {}
      <4>1. \/ trial.seen = {} /\ wire'.flying = {} /\ wire'.log = {}
            \/ wire'.flying \union wire'.log # {}
        BY <2>1, <2>2, <3>1
      <4> QED
        BY <2>4, <4>1 DEF Seen
    <3> QED
      BY <2>1, <2>2, <2>4, <3>1
  <2>5. ASSUME NEW found \in BOOLEAN,
               /\ ~Oob /\ trial'.pc = "gate" /\ trial'.control = Fold(leg, TRUE, found)
               /\ trial'.exploit = trial.exploit
               /\ trial'.seen = IF found THEN trial.seen \union {leg} ELSE trial.seen
        PROVE  Evidence'
    <3>1. CleanControl' => ~found /\ (leg = "control" \/ CleanControl)
      BY <2>1, <2>5, FoldIsClean
    <3>2. CleanControl' => Silence'
      BY <2>1, <2>2, <2>5, <3>1
    <3> QED
      BY <2>1, <2>2, <2>5, <3>2
  <2>6. CASE trial'.pc = "gate" /\ trial'.control = Fold(leg, FALSE, FALSE) /\ trial'.exploit = trial.exploit
    <3>1. ~CleanControl'
      BY <2>1, <2>6, FoldIsClean
    <3> QED
      BY <2>1, <2>2, <2>6, <3>1
  <2> QED
    BY <1>100, <1>101, <2>3, <2>4, <2>5, <2>6
<1>12. ASSUME NEW leg \in Controls, DrainControl(leg) PROVE Evidence'
  <2>1. /\ leg \in {"control", "extra"} /\ boxes' = boxes /\ wire.flying \subseteq wire.late
        /\ trial.pc = IF leg = "control" THEN "drain" ELSE "drainExtra"
    BY <1>12 DEF DrainControl, Controls, DrainOf, WindowOver
  <2>2. /\ wire.late = {} /\ wire'.flying = wire.flying /\ wire'.log \in {wire.log, {}}
    BY <1>1, <1>12 DEF DrainControl
  <2>3. \/ trial'.pc = "close" /\ trial'.outcome = "threw"
        \/ /\ trial'.pc = "gate" /\ trial'.control = Fold(leg, TRUE, wire.log # {})
           /\ trial'.exploit = trial.exploit /\ trial'.seen = trial.seen /\ wire'.log = {}
        \/ trial'.pc = "gate" /\ trial'.control = Fold(leg, FALSE, FALSE) /\ trial'.exploit = trial.exploit
    BY <1>1, <1>12 DEF Run, DrainControl, Answers
  <2>4. CASE /\ trial'.pc = "gate" /\ trial'.control = Fold(leg, TRUE, wire.log # {})
             /\ trial'.exploit = trial.exploit /\ trial'.seen = trial.seen /\ wire'.log = {}
    <3>0. (wire.log # {}) \in BOOLEAN
      OBVIOUS
    <3>1. CleanControl' => wire.log = {} /\ (leg = "control" \/ CleanControl)
      BY <2>1, <2>4, <3>0, FoldIsClean
    <3>2. CleanControl' => Silence'
      BY <2>1, <2>2, <2>4, <3>1
    <3> QED
      BY <2>1, <2>2, <2>4, <3>2
  <2>5. CASE trial'.pc = "gate" /\ trial'.control = Fold(leg, FALSE, FALSE) /\ trial'.exploit = trial.exploit
    <3>1. ~CleanControl'
      BY <2>1, <2>5, FoldIsClean
    <3> QED
      BY <2>1, <2>2, <2>5, <3>1
  <2> QED
    BY <1>100, <1>101, <2>3, <2>4, <2>5
<1>13. CASE PassGate
  BY <1>1, <1>13 DEF Run, PassGate, To, Answers, Failing, Torn, WindowOver, decideOutcome, Legs, Boxes
<1>14. CASE ClearLog
  <2>1. trial.pc = "clear" /\ boxes' = boxes /\ wire.late = {} /\ wire'.flying = wire.flying
        /\ wire'.log \in {wire.log, {}}
    BY <1>1, <1>14 DEF ClearLog
  <2>2. CASE To("exploit") \/ To("decide")
    <3>1. /\ trial'.pc \in {"exploit", "decide"} /\ trial'.seen = trial.seen
          /\ trial'.exploit = trial.exploit
      BY <1>1, <2>2 DEF Run, To
    <3> QED
      BY <2>1, <3>1
  <2> QED
    BY <1>14, <1>101, <1>102, <2>2 DEF ClearLog
<1>15. CASE PollExploit
  <2>1. /\ trial.pc = "poll" /\ boxes' = boxes /\ wire' = wire
        /\ wire.log # {} \/ wire.flying = {}
    BY <1>15 DEF PollExploit, WindowOver
  <2>2. \/ Answers("threw")
        \/ trial'.pc = "decide" /\ trial'.exploit = trial.exploit
        \/ /\ trial'.pc = "decide" /\ trial'.exploit = [ran |-> TRUE, found |-> wire.log # {}]
           /\ trial'.seen = trial.seen
    BY <1>1, <1>15 DEF Run, PollExploit, To
  <2>3. CASE /\ trial'.pc = "decide" /\ trial'.exploit = [ran |-> TRUE, found |-> wire.log # {}]
             /\ trial'.seen = trial.seen
    <3>1. trial.seen = IF wire.log # {} THEN {"exploit"} ELSE {}
      BY <2>1
    <3>2. trial'.exploit.found = (wire.log # {})
      BY <2>3
    <3> QED
      BY <2>3, <3>1, <3>2
  <2> QED
    BY <1>101, <1>102, <2>1, <2>2, <2>3
<1>16. CASE CallbackArrives
  BY <1>1, <1>16 DEF Run, CallbackArrives, To, Answers, Failing, Torn, WindowOver, decideOutcome, Legs, Boxes
<1>17. CASE Judge
  BY <1>1, <1>17 DEF Run, Judge, To, Answers, Failing, Torn, WindowOver, decideOutcome, Legs, Boxes
<1>18. CASE CloseListener
  BY <1>1, <1>18 DEF Run, CloseListener, To, Answers, Failing, Torn, WindowOver, decideOutcome, Legs, Boxes
<1>19. CASE TearTargetDown
  BY <1>1, <1>19 DEF Run, TearTargetDown, To, Answers, Failing, Torn, WindowOver, decideOutcome, Legs, Boxes
<1>20. CASE Cancel
  BY <1>1, <1>20 DEF Run, Cancel, To, Answers, Failing, Torn, WindowOver, decideOutcome, Legs, Boxes
<1>21. CASE SendExploit
  <2>1. /\ trial.pc = "exploit" /\ boxes' = boxes /\ MayCallOut("exploit") /\ "exploit" \in Legs
    BY <1>21 DEF SendExploit, Legs
  <2>2. /\ wire.late = {} /\ wire'.log = wire.log
        /\ wire'.flying = wire.flying \/ (Oob /\ wire'.flying = wire.flying \union {"exploit"})
    BY <2>1, InTime
  <2>3. trial.seen = {} /\ wire.flying = {} /\ wire.log = {} /\ trial.exploit = NotRun
    BY <2>1, <2>2
  <2>4. \/ trial'.pc = "close" /\ trial'.outcome = "threw"
        \/ Oob /\ trial'.pc = "poll" /\ trial'.seen = Seen("exploit") /\ trial'.exploit = trial.exploit
        \/ \E found \in BOOLEAN :
             /\ trial'.pc = "decide" /\ trial'.exploit = [ran |-> TRUE, found |-> found]
             /\ trial'.seen = IF found THEN trial.seen \union {"exploit"} ELSE Seen("exploit")
             /\ ~Oob \/ trial'.recipe.followUp
        \/ trial'.pc = "decide" /\ trial'.exploit = trial.exploit
    BY <1>1, <1>21 DEF Run, SendExploit
  <2>5. CASE Oob /\ trial'.pc = "poll" /\ trial'.seen = Seen("exploit") /\ trial'.exploit = trial.exploit
    <3>1. trial'.seen = wire'.flying /\ wire'.flying \in {{}, {"exploit"}}
      BY <2>2, <2>3, <2>5 DEF Seen
    <3> QED
      BY <2>1, <2>2, <2>3, <2>5, <3>1
  <2>6. ASSUME NEW found \in BOOLEAN,
               /\ trial'.pc = "decide" /\ trial'.exploit = [ran |-> TRUE, found |-> found]
               /\ trial'.seen = IF found THEN trial.seen \union {"exploit"} ELSE Seen("exploit")
               /\ ~Oob \/ trial'.recipe.followUp
        PROVE  Evidence'
    <3>1. Oob => trial.recipe.oob
      BY DEF ListensForOob, Oob
    <3>2. trial'.recipe = trial.recipe
      BY <1>1, <1>21 DEF Run, SendExploit
    <3>3. CASE found
      BY <2>3, <2>6, <3>3
    <3>4. CASE ~found
      <4>1. trial'.seen \subseteq wire'.flying
        BY <2>3, <2>6, <3>4 DEF Seen
      <4>2. trial'.seen \subseteq Unasked(trial'.recipe)
        BY <2>2, <2>3, <2>6, <3>1, <3>2, <4>1 DEF Unasked
      <4> QED
        BY <2>6, <3>4, <4>2
    <3> QED
      BY <3>3, <3>4
  <2>7. CASE trial'.pc = "decide" /\ trial'.exploit = trial.exploit
    <3>1. ~trial'.exploit.ran
      BY <2>3, <2>7
    <3> QED
      BY <2>7, <3>1
  <2>8. CASE trial'.pc = "close" /\ trial'.outcome = "threw"
    BY <1>100, <1>101, <2>8
  <2> QED
    BY <2>4, <2>5, <2>6, <2>7, <2>8
<1>22. CASE UNCHANGED trialVars
  BY <1>22 DEF trialVars
<1> QED
  BY <1>2, <1>3, <1>4, <1>5, <1>6, <1>7, <1>8, <1>9, <1>10, <1>11, <1>12, <1>13, <1>14, <1>15, <1>16, <1>17, <1>18, <1>19, <1>20, <1>21, <1>22 DEF TrialNext

LEMMA TrialInvNext == TrialInv /\ [TrialNext]_trialVars => TrialInv'
<1> SUFFICES ASSUME TrialInv, [TrialNext]_trialVars PROVE TrialInv'
  OBVIOUS
<1>1. TrialTypeOK /\ TrialFit /\ ListensForOob /\ (wire.late = {} => Evidence)
  BY DEF TrialInv
<1>2. TrialTypeOK'
  BY <1>1, TrialTypeNext
<1>3. TrialFit'
  BY <1>1, TrialFitNext
<1>4. ASSUME wire'.late = {} PROVE Evidence'
  BY <1>1, <1>4, EvidenceNext
<1>5. ListensForOob'
  BY <1>1, ListensNext
<1> QED
  BY <1>2, <1>3, <1>4, <1>5 DEF TrialInv

\* Every field of a run, its sandboxes and its wire stays within its type
\* (reproduce.ts, decide.ts).
THEOREM TrialTypeCorrect == TrialSpec => []TrialTypeOK
<1>1. TrialInit => TrialTypeOK
  BY TrialInvInit DEF TrialInv
<1> QED
  BY <1>1, TrialTypeNext, PTL DEF TrialSpec

\* For any recipes, however many callbacks are late and however often the run
\* is cancelled: a run judged without a late callback is REPRODUCED only when
\* the exploit alone made the canary show and NOT_REPRODUCED only when nothing
\* it was asked about did; and a run that is over has let go of every sandbox it knew of
\* (decide.ts:1-11, reproduce.ts's finally block).
THEOREM TrialsAreEarned == TrialSpec => []TrialsAreSound
<1>1. TrialInv => TrialsAreSound
  <2> SUFFICES ASSUME TrialInv PROVE TrialsAreSound
    OBVIOUS
  <2>1. TrialTypeOK /\ TrialFit /\ (wire.late = {} => Evidence)
    BY DEF TrialInv
  <2>2. DOMAIN boxes = Boxes
    BY <2>1, TrialTypes
  <2>3. VerdictIsEarned
    BY <2>1 DEF VerdictIsEarned, Evidence, Ending
  <2>4. RunLeavesNothing
    BY <2>1, <2>2 DEF RunLeavesNothing, TrialFit, BoxesFit, Boxes, Ending
  <2> QED
    BY <2>3, <2>4 DEF TrialsAreSound
<1> QED
  BY <1>1, TrialInvInit, TrialInvNext, PTL DEF TrialSpec

(***************************************************************************)
(* The tools that reach the target, for any calls and sandboxes.           *)
(***************************************************************************)
Granted == {"preview", "send", "boot", "inspect", "run"}
Calling == {"idle", "resolve", "grant", "tear", "over"} \union Granted
Call == [pc : Calling, tool : Tools, box : 0..Reruns, since : BOOLEAN, reached : BOOLEAN]
Helper == {"none", "up", "orphan", "gone"}

\* A call that passed the check was made under the grant, for a grant that is
\* gone stays gone; and only a call on its way to tearing it down has a helper.
CallFits(c) ==
    /\ link.granted /\ probe[c].pc # "idle" => probe[c].since
    /\ probe[c].pc \in Granted \/ probe[c].reached => probe[c].since
    /\ helper[c] = "up" => probe[c].pc \in {"inspect", "run", "tear"}

ProbeInv == ProbeTypeOK /\ \A c \in ProbeCall : CallFits(c)

LEMMA ProbeTypes ==
    ProbeTypeOK <=> /\ link \in [sandbox : 0..Reruns, live : BOOLEAN, granted : BOOLEAN]
                    /\ probe \in [ProbeCall -> Call]
                    /\ helper \in [ProbeCall -> Helper]
<1>1. Calling = {"idle", "resolve", "grant", "preview", "send", "boot", "inspect", "run", "tear", "over"}
  BY DEF Calling, Granted
<1> QED
  BY <1>1 DEF ProbeTypeOK, Call, Helper

LEMMA ProbeInvInit == ProbeInit => ProbeInv
<1> SUFFICES ASSUME ProbeInit PROVE ProbeInv
  OBVIOUS
<1>1. 0 \in 0..Reruns /\ 1 \in 0..Reruns
  BY RerunAssumption
<1>2. ProbeTypeOK
  BY <1>1, ProbeTypes DEF ProbeInit, Call, Calling, Tools, Helper
<1>3. \A c \in ProbeCall : CallFits(c)
  BY DEF ProbeInit, CallFits, Granted
<1> QED
  BY <1>2, <1>3 DEF ProbeInv

\* A step of one call: what it makes of its record and of its helper.
LEMMA CallSteps ==
    ASSUME ProbeInv, NEW c \in ProbeCall, link' = link,
           NEW made \in Call, probe' = [probe EXCEPT ![c] = made],
           NEW box \in Helper, helper' = [helper EXCEPT ![c] = box],
           link.granted /\ made.pc # "idle" => made.since,
           made.pc \in Granted \/ made.reached => made.since,
           box = "up" => made.pc \in {"inspect", "run", "tear"}
    PROVE  ProbeInv'
<1>1. /\ link \in [sandbox : 0..Reruns, live : BOOLEAN, granted : BOOLEAN]
      /\ probe \in [ProbeCall -> Call] /\ helper \in [ProbeCall -> Helper]
  BY ProbeTypes DEF ProbeInv
<1>2. probe' \in [ProbeCall -> Call] /\ helper' \in [ProbeCall -> Helper] /\ link' = link
  BY <1>1
<1>3. ProbeTypeOK'
  BY <1>1, <1>2, ProbeTypes DEF ProbeTypeOK, Call, Helper, Calling, Granted
<1>4. ASSUME NEW d \in ProbeCall PROVE CallFits(d)'
  <2>1. CASE d = c
    <3>1. probe'[d] = made /\ helper'[d] = box
      BY <1>1, <2>1
    <3> QED
      BY <3>1 DEF CallFits
  <2>2. CASE d # c
    <3>1. probe'[d] = probe[d] /\ helper'[d] = helper[d]
      BY <1>1, <2>2
    <3> QED
      BY <3>1 DEF CallFits, ProbeInv
  <2> QED
    BY <2>1, <2>2
<1> QED
  BY <1>3, <1>4 DEF ProbeInv

LEMMA ProbeInvNext == ProbeInv /\ [ProbeNext]_probeVars => ProbeInv'
<1> SUFFICES ASSUME ProbeInv, [ProbeNext]_probeVars PROVE ProbeInv'
  OBVIOUS
<1>1. /\ link \in [sandbox : 0..Reruns, live : BOOLEAN, granted : BOOLEAN]
      /\ probe \in [ProbeCall -> Call] /\ helper \in [ProbeCall -> Helper]
      /\ \A c \in ProbeCall : CallFits(c)
  BY ProbeTypes DEF ProbeInv
<1>2. ASSUME NEW c \in ProbeCall,
             \/ CallTool(c) \/ Resolve(c) \/ CheckGrant(c) \/ AskPreview(c) \/ SendRequest(c)
             \/ BootHelper(c) \/ InspectHelper(c) \/ RunTool(c) \/ TearHelper(c)
      PROVE  ProbeInv'
  <2>1. /\ probe[c] \in Call /\ helper[c] \in Helper /\ CallFits(c)
        /\ link.granted \in BOOLEAN /\ link.sandbox \in 0..Reruns
        /\ probe[c].since \in BOOLEAN /\ probe[c].reached \in BOOLEAN
    BY <1>1 DEF Call
  <2>2. link' = link
    BY <1>2 DEF CallTool, Resolve, CheckGrant, AskPreview, SendRequest, BootHelper,
                InspectHelper, RunTool, TearHelper
  <2>3. helper = [helper EXCEPT ![c] = helper[c]]
    BY <1>1
  <2>4. ASSUME NEW pc \in Calling, ProbeTo(c, pc), NEW box \in Helper,
               helper' = [helper EXCEPT ![c] = box],
               pc \in Granted => probe[c].since, probe[c].pc # "idle",
               box = "up" => pc \in {"inspect", "run", "tear"}
        PROVE  ProbeInv'
    <3> DEFINE made == [probe[c] EXCEPT !.pc = pc]
    <3>1. made \in Call /\ made.pc = pc /\ made.since = probe[c].since /\ made.reached = probe[c].reached
      BY <2>1, <2>4 DEF Call
    <3>2. probe' = [probe EXCEPT ![c] = made]
      BY <1>1, <2>4 DEF ProbeTo
    <3>3. (link.granted /\ made.pc # "idle" => made.since) /\ (made.pc \in Granted \/ made.reached => made.since)
      BY <2>1, <2>4, <3>1 DEF CallFits
    <3> HIDE DEF made
    <3> QED
      BY <2>2, <2>4, <3>1, <3>2, <3>3, CallSteps
  <2>5. /\ {"preview", "send", "boot", "inspect", "run"} = Granted /\ Granted \subseteq Calling
        /\ {"grant", "tear", "over"} \subseteq Calling /\ {"grant", "tear", "over"} \cap Granted = {}
        /\ {"up", "gone", "orphan"} \subseteq Helper
    BY DEF Granted, Calling, Helper
  <2>6. CASE CallTool(c)
    <3>1. PICK tool \in Tools :
             probe' = [probe EXCEPT ![c] = [pc |-> "resolve", tool |-> tool, box |-> 0,
                                            since |-> link.granted, reached |-> FALSE]]
      BY <2>6 DEF CallTool
    <3> DEFINE made == [pc |-> "resolve", tool |-> tool, box |-> 0, since |-> link.granted, reached |-> FALSE]
    <3>2. made \in Call
      BY <2>1, RerunAssumption DEF Call, Calling
    <3>3. helper[c] # "up" /\ helper' = helper
      BY <2>1, <2>6 DEF CallFits, CallTool, ProbeAt
    <3>4. made.pc \notin Granted /\ ~made.reached /\ made.since = link.granted
      BY DEF Granted
    <3> HIDE DEF made
    <3> QED
      BY <2>1, <2>2, <2>3, <3>1, <3>2, <3>3, <3>4, CallSteps DEF made
  <2>7. CASE Resolve(c)
    <3>1. CASE Answered(c)
      BY <2>1, <2>3, <2>4, <2>5, <2>7, <3>1 DEF Resolve, Answered, CallFits, ProbeAt
    <3>2. CASE probe' = [probe EXCEPT ![c].pc = "grant", ![c].box = link.sandbox]
      <4> DEFINE made == [probe[c] EXCEPT !.pc = "grant", !.box = link.sandbox]
      <4>1. made \in Call /\ made.pc = "grant" /\ made.since = probe[c].since /\ made.reached = probe[c].reached
        BY <2>1, <2>5 DEF Call
      <4>2. probe' = [probe EXCEPT ![c] = made]
        BY <1>1, <3>2
      <4>3. helper[c] # "up" /\ helper' = helper /\ probe[c].pc = "resolve"
        BY <2>1, <2>7 DEF CallFits, Resolve, ProbeAt
      <4>4. (link.granted => made.since) /\ (made.reached => made.since) /\ made.pc \notin Granted
        BY <2>1, <2>5, <4>1, <4>3 DEF CallFits
      <4> HIDE DEF made
      <4> QED
        BY <2>1, <2>2, <2>3, <4>1, <4>2, <4>3, <4>4, CallSteps
    <3> QED
      BY <2>7, <3>1, <3>2 DEF Resolve
  <2>8. CASE CheckGrant(c)
    BY <2>1, <2>3, <2>4, <2>5, <2>8 DEF CheckGrant, Answered, CallFits, ProbeAt
  <2>9. CASE AskPreview(c)
    BY <2>1, <2>3, <2>4, <2>5, <2>9 DEF AskPreview, Answered, CallFits, ProbeAt
  <2>10. CASE SendRequest(c)
    <3>1. CASE Answered(c)
      BY <2>1, <2>3, <2>4, <2>5, <2>10, <3>1 DEF SendRequest, Answered, CallFits, ProbeAt
    <3>2. CASE probe' = [probe EXCEPT ![c].pc = "over", ![c].reached = TRUE]
      <4> DEFINE made == [probe[c] EXCEPT !.pc = "over", !.reached = TRUE]
      <4>1. made \in Call /\ made.pc = "over" /\ made.since = probe[c].since
        BY <2>1, <2>5 DEF Call
      <4>2. probe' = [probe EXCEPT ![c] = made]
        BY <1>1, <3>2
      <4>3. helper[c] # "up" /\ helper' = helper /\ probe[c].since
        BY <2>1, <2>5, <2>10 DEF CallFits, SendRequest, ProbeAt
      <4> HIDE DEF made
      <4> QED
        BY <2>1, <2>2, <2>3, <4>1, <4>2, <4>3, CallSteps
    <3> QED
      BY <2>10, <3>1, <3>2 DEF SendRequest
  <2>11. CASE BootHelper(c)
    <3>1. probe[c].since /\ helper[c] # "up" /\ probe[c].pc = "boot"
      BY <2>1, <2>5, <2>11 DEF CallFits, BootHelper, ProbeAt
    <3> QED
      BY <2>1, <2>3, <2>4, <2>5, <2>11, <3>1 DEF BootHelper, Answered
  <2>12. CASE InspectHelper(c)
    BY <2>1, <2>3, <2>4, <2>5, <2>12 DEF InspectHelper, CallFits, ProbeAt
  <2>13. CASE RunTool(c)
    <3> DEFINE made == [probe[c] EXCEPT !.pc = "tear", !.reached = (probe[c].reached \/ StillRuns(c))]
    <3>1. (probe[c].reached \/ StillRuns(c)) \in BOOLEAN
      OBVIOUS
    <3>2. made \in Call /\ made.pc = "tear" /\ made.since = probe[c].since
      BY <2>1, <2>5, <3>1 DEF Call
    <3>3. probe' = [probe EXCEPT ![c] = made]
      BY <1>1, <2>13 DEF RunTool
    <3>4. helper' = helper /\ probe[c].since
      BY <2>1, <2>5, <2>13 DEF CallFits, RunTool, ProbeAt
    <3> HIDE DEF made
    <3> QED
      BY <2>1, <2>2, <2>3, <3>2, <3>3, <3>4, CallSteps
  <2>14. CASE TearHelper(c)
    BY <2>1, <2>3, <2>4, <2>5, <2>14 DEF TearHelper, Answered, ProbeAt
  <2> QED
    BY <1>2, <2>6, <2>7, <2>8, <2>9, <2>10, <2>11, <2>12, <2>13, <2>14
<1>3. CASE EndSandbox \/ NameAnother \/ RevokeGrant
  <2>1. probe' = probe /\ helper' = helper /\ (link'.granted => link.granted)
        /\ link' \in [sandbox : 0..Reruns, live : BOOLEAN, granted : BOOLEAN]
    <3>1. CASE NameAnother
      <4>1. link.sandbox + 1 \in 0..Reruns
        BY <3>1, RerunAssumption DEF NameAnother
      <4> QED
        BY <1>1, <3>1, <4>1 DEF NameAnother
    <3>2. CASE EndSandbox \/ RevokeGrant
      BY <1>1, <3>2 DEF EndSandbox, RevokeGrant
    <3> QED
      BY <1>3, <3>1, <3>2
  <2>2. ProbeTypeOK'
    BY <1>1, <2>1, ProbeTypes DEF ProbeTypeOK, Call, Helper, Calling, Granted
  <2>3. \A c \in ProbeCall : CallFits(c)'
    BY <1>1, <2>1 DEF CallFits
  <2> QED
    BY <2>2, <2>3 DEF ProbeInv
<1>4. CASE UNCHANGED probeVars
  <2>1. link' = link /\ probe' = probe /\ helper' = helper
    BY <1>4 DEF probeVars
  <2> QED
    BY <1>1, <2>1, ProbeTypes DEF ProbeInv, ProbeTypeOK, CallFits, Call, Helper, Calling, Granted
<1> QED
  BY <1>2, <1>3, <1>4 DEF ProbeNext

\* For any calls of the agent and any sandboxes its session comes to name: a
\* call made after the revocation of the grant reaches no sandbox, and a call
\* that is over runs no sandbox of its own (probe-target.ts, probe-browser.ts,
\* workbench-probe.ts).
THEOREM ProbesStayContained == ProbeSpec => []ProbesAreContained
<1>1. ProbeInv => ProbesAreContained
  BY DEF ProbeInv, CallFits, ProbesAreContained, ProbeAt
<1> QED
  BY <1>1, ProbeInvInit, ProbeInvNext, PTL DEF ProbeSpec

-----------------------------------------------------------------------------
(***************************************************************************)
(* Intake, for any messages, senders, settings and requests at once.       *)
(***************************************************************************)
Request == {Idle} \union [phase : {"read", "fetch", "lock", "insert", "notify"},
                          item : Item, limits : Config]
Counted == {j \in Item : row[j] \in {"queued", "dropped"}}

DoorTypeOK ==
    /\ row \in [Item -> {"none", "listed", "queued", "dropped"}]
    /\ old \subseteq {j \in Item : row[j] # "none"}
    /\ config \in Config
    /\ handler \in [Handler -> Request]
    /\ lock \in [Locks -> Handler \union {"free"}]
    /\ due \subseteq Item /\ notices \subseteq Item
    /\ most \in [sender : Nat, domain : Nat]

\* No request read limits above the highest in force so far.
LimitsFit ==
    /\ config.sender <= most.sender /\ config.domain <= most.domain
    /\ \A h \in Handler : handler[h] # Idle =>
         handler[h].limits.sender <= most.sender /\ handler[h].limits.domain <= most.domain

\* What shares both a lock and a channel with an item, and what of it spent a slot.
Mates(i) == {j \in Item : Sent[j].channel = Sent[i].channel /\ LockOf(j) = LockOf(i)}
Rivals(i) == Mates(i) \intersect Recent(i)

\* There is room for the item beside the slots spent under its lock.
Room(i, limits) ==
    /\ Sent[i].domain \notin Exempt =>
         Cardinality({j \in Rivals(i) : Sent[j].domain = Sent[i].domain}) < limits.domain
    /\ Cardinality({j \in Rivals(i) : Sent[j].key = Sent[i].key /\ Sent[j].domain = Sent[i].domain})
         < limits.sender
    /\ Sent[i].channel = "upload" =>
         /\ Cardinality({j \in Rivals(i) : Sent[j].key = Sent[i].key}) < limits.sender
         /\ Cardinality({j \in Rivals(i) : Sent[j].address = Sent[i].address}) < AddressCap

\* Between its count and its insert a request holds its lock, and the room it
\* counted is still there.
RoomIsKept ==
    \A h \in Handler : At(h, "insert") =>
        /\ lock[LockOf(handler[h].item)] = h
        /\ Room(handler[h].item, handler[h].limits)

DoorInv == /\ DoorTypeOK /\ LimitsFit /\ RoomIsKept /\ CapsHold
           /\ IsFiniteSet(Counted)

LEMMA SentTypes ==
    \A i \in Item : /\ Sent[i] \in ItemKind /\ LockOf(i) \in Locks
                    /\ Sent[i].channel \in {"email", "upload"}
BY SentAssumption DEF ItemKind, LockOf, Locks

LEMMA DoorInit == IntakeInit => DoorInv
<1> SUFFICES ASSUME IntakeInit PROVE DoorInv
  OBVIOUS
<1>1. config \in Config /\ most \in [sender : Nat, domain : Nat]
  BY DEF IntakeInit, Config
<1>2. due \subseteq Item
  BY IntakeWorldAssumption DEF IntakeInit, IntakeWorld
<1>3. DoorTypeOK
  BY <1>1, <1>2 DEF IntakeInit, DoorTypeOK, Request
<1>4. LimitsFit
  BY DEF IntakeInit, LimitsFit
<1>5. RoomIsKept
  BY DEF IntakeInit, RoomIsKept, At, Idle
<1>6. Counted = {} /\ \A channel \in {"email", "upload"} : Spending(channel) = {}
  BY DEF IntakeInit, Counted, Spending
<1>7. IsFiniteSet({}) /\ Cardinality({}) = 0
  BY FS_EmptySet
<1>8. CapsHold
  <2>1. ASSUME NEW channel \in {"email", "upload"}, NEW i \in Item
        PROVE  /\ {j \in Spending(channel) : Sent[j].domain = Sent[i].domain} = {}
               /\ {j \in Spending(channel) : Sent[j].key = Sent[i].key
                                             /\ Sent[j].domain = Sent[i].domain} = {}
               /\ {j \in Spending(channel) : Sent[j].key = Sent[i].key} = {}
               /\ {j \in Spending(channel) : Sent[j].address = Sent[i].address} = {}
    BY <1>6
  <2>2. most.sender = 1 /\ most.domain = 1
    BY DEF IntakeInit
  <2>3. 0 <= AddressCap /\ 0 <= most.sender /\ 0 <= most.domain
    BY <2>2, AddressCapAssumption
  <2> QED BY <1>7, <2>1, <2>3 DEF CapsHold
<1> QED BY <1>3, <1>4, <1>5, <1>6, <1>7, <1>8 DEF DoorInv

\* A set below its cap takes one more; a smaller set stays within it.
LEMMA OneMore ==
    ASSUME NEW S, IsFiniteSet(S), NEW i, NEW n \in Nat, Cardinality(S) < n,
           NEW T \in SUBSET (S \union {i})
    PROVE  IsFiniteSet(T) /\ Cardinality(T) <= n
<1>1. IsFiniteSet(S \union {i}) /\ Cardinality(S \union {i}) \in Nat
      /\ Cardinality(S) \in Nat /\ Cardinality(S \union {i}) <= Cardinality(S) + 1
  BY FS_AddElement, FS_CardinalityType
<1>2. IsFiniteSet(T) /\ Cardinality(T) \in Nat /\ Cardinality(T) <= Cardinality(S \union {i})
  BY <1>1, FS_Subset, FS_CardinalityType
<1> QED BY <1>1, <1>2

LEMMA NoMore ==
    ASSUME NEW S, IsFiniteSet(S), NEW n, NEW m \in Nat, n \in Nat, Cardinality(S) <= n, n <= m,
           NEW T \in SUBSET S
    PROVE  IsFiniteSet(T) /\ Cardinality(T) <= m
<1>1. Cardinality(S) \in Nat /\ IsFiniteSet(T) /\ Cardinality(T) \in Nat
      /\ Cardinality(T) <= Cardinality(S)
  BY FS_Subset, FS_CardinalityType
<1> QED BY <1>1

\* The counts only fall when nothing new spends a slot and no cap falls.
LEMMA CapsStay ==
    ASSUME CapsHold, IsFiniteSet(Counted), most \in [sender : Nat, domain : Nat],
           most' \in [sender : Nat, domain : Nat],
           most.sender <= most'.sender, most.domain <= most'.domain,
           \A channel \in {"email", "upload"} : Spending(channel)' \subseteq Spending(channel)
    PROVE  CapsHold'
<1>1. ASSUME NEW channel \in {"email", "upload"}, NEW S \in SUBSET Spending(channel)
      PROVE  IsFiniteSet(S)
  BY FS_Subset DEF Spending, Counted
<1>2. ASSUME NEW channel \in {"email", "upload"}, NEW i \in Item, Sent[i].domain \notin Exempt
      PROVE  Cardinality({j \in Spending(channel)' : Sent[j].domain = Sent[i].domain}) <= most'.domain
  <2> DEFINE S == {j \in Spending(channel) : Sent[j].domain = Sent[i].domain}
  <2> DEFINE T == {j \in Spending(channel)' : Sent[j].domain = Sent[i].domain}
  <2>1. IsFiniteSet(S) /\ T \in SUBSET S /\ Cardinality(S) <= most.domain
    BY <1>1, <1>2 DEF CapsHold
  <2> HIDE DEF S, T
  <2>2. Cardinality(T) <= most'.domain
    BY <2>1, NoMore
  <2> QED BY <2>2 DEF T
<1>3. ASSUME NEW channel \in {"email", "upload"}, NEW i \in Item
      PROVE  Cardinality({j \in Spending(channel)' : /\ Sent[j].key = Sent[i].key
                                                     /\ Sent[j].domain = Sent[i].domain}) <= most'.sender
  <2> DEFINE S == {j \in Spending(channel) : /\ Sent[j].key = Sent[i].key
                                             /\ Sent[j].domain = Sent[i].domain}
  <2> DEFINE T == {j \in Spending(channel)' : /\ Sent[j].key = Sent[i].key
                                              /\ Sent[j].domain = Sent[i].domain}
  <2>1. IsFiniteSet(S) /\ T \in SUBSET S /\ Cardinality(S) <= most.sender
    BY <1>1, <1>3 DEF CapsHold
  <2> HIDE DEF S, T
  <2>2. Cardinality(T) <= most'.sender
    BY <2>1, NoMore
  <2> QED BY <2>2 DEF T
<1>4. ASSUME NEW i \in Item
      PROVE  Cardinality({j \in Spending("upload")' : Sent[j].key = Sent[i].key}) <= most'.sender
  <2> DEFINE S == {j \in Spending("upload") : Sent[j].key = Sent[i].key}
  <2> DEFINE T == {j \in Spending("upload")' : Sent[j].key = Sent[i].key}
  <2>1. IsFiniteSet(S) /\ T \in SUBSET S /\ Cardinality(S) <= most.sender
    BY <1>1, <1>4 DEF CapsHold
  <2> HIDE DEF S, T
  <2>2. Cardinality(T) <= most'.sender
    BY <2>1, NoMore
  <2> QED BY <2>2 DEF T
<1>5. ASSUME NEW i \in Item
      PROVE  Cardinality({j \in Spending("upload")' : Sent[j].address = Sent[i].address}) <= AddressCap
  <2> DEFINE S == {j \in Spending("upload") : Sent[j].address = Sent[i].address}
  <2> DEFINE T == {j \in Spending("upload")' : Sent[j].address = Sent[i].address}
  <2>1. IsFiniteSet(S) /\ T \in SUBSET S /\ Cardinality(S) <= AddressCap
    BY <1>1, <1>5 DEF CapsHold
  <2> HIDE DEF S, T
  <2>2. Cardinality(T) <= AddressCap
    BY <2>1, NoMore, AddressCapAssumption
  <2> QED BY <2>2 DEF T
<1> QED BY <1>2, <1>3, <1>4, <1>5 DEF CapsHold

\* The room of an item is still there when none of its rivals is new.
LEMMA RoomStays ==
    ASSUME NEW i \in Item, NEW limits \in Config, Room(i, limits), IsFiniteSet(Counted),
           Rivals(i)' \subseteq Rivals(i)
    PROVE  Room(i, limits)'
<1>1. limits.domain \in Nat /\ limits.sender \in Nat /\ AddressCap \in Nat
  BY AddressCapAssumption DEF Config
<1>2. \A S \in SUBSET Rivals(i) : IsFiniteSet(S) /\ Cardinality(S) \in Nat
  BY FS_Subset, FS_CardinalityType DEF Rivals, Recent, Counted
<1>3. ASSUME NEW S \in SUBSET Rivals(i), NEW T \in SUBSET S, NEW n \in Nat, Cardinality(S) < n
      PROVE  Cardinality(T) < n
  <2>1. IsFiniteSet(S) /\ Cardinality(S) \in Nat
    BY <1>2
  <2>2. Cardinality(T) \in Nat /\ Cardinality(T) <= Cardinality(S)
    BY <2>1, FS_Subset, FS_CardinalityType
  <2> QED BY <1>3, <2>1, <2>2
<1>4. Sent[i].domain \notin Exempt =>
         Cardinality({j \in Rivals(i)' : Sent[j].domain = Sent[i].domain}) < limits.domain
  <2> DEFINE S == {j \in Rivals(i) : Sent[j].domain = Sent[i].domain}
  <2> DEFINE T == {j \in Rivals(i)' : Sent[j].domain = Sent[i].domain}
  <2>1. S \in SUBSET Rivals(i) /\ T \in SUBSET S
    OBVIOUS
  <2>2. Sent[i].domain \notin Exempt => Cardinality(S) < limits.domain
    BY DEF Room
  <2> HIDE DEF S, T
  <2>3. Sent[i].domain \notin Exempt => Cardinality(T) < limits.domain
    BY <1>1, <1>3, <2>1, <2>2
  <2> QED BY <2>3 DEF T
<1>5. Cardinality({j \in Rivals(i)' : Sent[j].key = Sent[i].key /\ Sent[j].domain = Sent[i].domain})
         < limits.sender
  <2> DEFINE S == {j \in Rivals(i) : Sent[j].key = Sent[i].key /\ Sent[j].domain = Sent[i].domain}
  <2> DEFINE T == {j \in Rivals(i)' : Sent[j].key = Sent[i].key /\ Sent[j].domain = Sent[i].domain}
  <2>1. S \in SUBSET Rivals(i) /\ T \in SUBSET S /\ Cardinality(S) < limits.sender
    BY DEF Room
  <2> HIDE DEF S, T
  <2>2. Cardinality(T) < limits.sender
    BY <1>1, <1>3, <2>1
  <2> QED BY <2>2 DEF T
<1>6. ASSUME Sent[i].channel = "upload"
      PROVE  Cardinality({j \in Rivals(i)' : Sent[j].key = Sent[i].key}) < limits.sender
  <2> DEFINE S == {j \in Rivals(i) : Sent[j].key = Sent[i].key}
  <2> DEFINE T == {j \in Rivals(i)' : Sent[j].key = Sent[i].key}
  <2>1. S \in SUBSET Rivals(i) /\ T \in SUBSET S /\ Cardinality(S) < limits.sender
    BY <1>6 DEF Room
  <2> HIDE DEF S, T
  <2>2. Cardinality(T) < limits.sender
    BY <1>1, <1>3, <2>1
  <2> QED BY <2>2 DEF T
<1>7. ASSUME Sent[i].channel = "upload"
      PROVE  Cardinality({j \in Rivals(i)' : Sent[j].address = Sent[i].address}) < AddressCap
  <2> DEFINE S == {j \in Rivals(i) : Sent[j].address = Sent[i].address}
  <2> DEFINE T == {j \in Rivals(i)' : Sent[j].address = Sent[i].address}
  <2>1. S \in SUBSET Rivals(i) /\ T \in SUBSET S /\ Cardinality(S) < AddressCap
    BY <1>7 DEF Room
  <2> HIDE DEF S, T
  <2>2. Cardinality(T) < AddressCap
    BY <1>1, <1>3, <2>1
  <2> QED BY <2>2 DEF T
<1> QED BY <1>4, <1>5, <1>6, <1>7 DEF Room

\* The types, action by action.
LEMMA DoorTypeNext ==
    ASSUME DoorTypeOK, LimitsFit, [IntakeNext]_intakeVars
    PROVE  DoorTypeOK' /\ LimitsFit' /\ most.sender <= most'.sender /\ most.domain <= most'.domain
<1> USE DEF DoorTypeOK, LimitsFit
<1>t. most.sender \in Nat /\ most.domain \in Nat /\ config.sender \in Nat /\ config.domain \in Nat
  BY DEF Config
<1>r. ASSUME NEW h \in Handler, handler[h] # Idle
      PROVE  /\ handler[h].item \in Item /\ handler[h].limits \in Config
             /\ LockOf(handler[h].item) \in Locks
             /\ handler[h].limits.sender <= most.sender /\ handler[h].limits.domain <= most.domain
  BY <1>r, SentTypes DEF Request
<1>g. ASSUME NEW h \in Handler, handler[h] # Idle, Ends(h) \/ Goes(h, "fetch") \/ Goes(h, "lock")
                                                  \/ Goes(h, "insert") \/ Goes(h, "notify"),
             config' = config, most' = most
      PROVE  handler' \in [Handler -> Request] /\ LimitsFit'
  <2>1. CASE Ends(h)
    BY <1>g, <2>1 DEF Ends, Request
  <2>2. ASSUME NEW p \in {"fetch", "lock", "insert", "notify"}, Goes(h, p)
        PROVE  handler' \in [Handler -> Request] /\ LimitsFit'
    <3>1. handler' = [handler EXCEPT ![h] = [handler[h] EXCEPT !.phase = p]]
      BY <2>2 DEF Goes
    <3>2. /\ [handler[h] EXCEPT !.phase = p] \in Request
          /\ [handler[h] EXCEPT !.phase = p].limits = handler[h].limits
      BY <1>g DEF Request
    <3>3. handler' \in [Handler -> Request]
      BY <3>1, <3>2
    <3>4. \A k \in Handler : handler'[k] # Idle =>
              handler[k] # Idle /\ handler'[k].limits = handler[k].limits
      BY <1>g, <3>1, <3>2
    <3> QED BY <1>g, <3>3, <3>4
  <2> QED BY <1>g, <2>1, <2>2
<1>1. ASSUME NEW h \in Handler, NEW i \in Item, Arrive(h, i)
      PROVE  DoorTypeOK' /\ LimitsFit' /\ most' = most
  <2>1. CASE Sent[i].listed /\ row' = [row EXCEPT ![i] = IF @ = "none" THEN "listed" ELSE @]
             /\ due' = due \ {i} /\ UNCHANGED handler
    BY <1>1, <2>1 DEF Arrive
  <2>2. CASE Deliver(h, i) /\ UNCHANGED row
    <3> DEFINE q == [phase |-> "read", item |-> i, limits |-> config]
    <3>1. q \in Request /\ q.limits = config
      BY DEF Request
    <3>2. handler' = [handler EXCEPT ![h] = q] /\ due' \subseteq Item
      BY <2>2 DEF Deliver
    <3> HIDE DEF q
    <3>3. handler' \in [Handler -> Request]
      BY <3>1, <3>2
    <3>4. \A k \in Handler : handler'[k] # Idle =>
              \/ handler'[k].limits = config
              \/ handler[k] # Idle /\ handler'[k].limits = handler[k].limits
      BY <3>1, <3>2
    <3>5. UNCHANGED <<row, old, config, lock, notices, most>>
      BY <1>1, <2>2 DEF Arrive
    <3> QED BY <3>2, <3>3, <3>4, <3>5
  <2> QED BY <1>1, <2>1, <2>2 DEF Arrive
<1>2. ASSUME NEW h \in Handler, ParseForm(h)
      PROVE  DoorTypeOK' /\ LimitsFit' /\ most' = most
  <2>1. handler[h] # Idle
    BY <1>2 DEF ParseForm, At, Idle
  <2> QED BY <1>2, <1>g, <2>1 DEF ParseForm
<1>3. ASSUME NEW h \in Handler, CountEarly(h)
      PROVE  DoorTypeOK' /\ LimitsFit' /\ most' = most
  <2>1. handler[h] # Idle
    BY <1>3 DEF CountEarly, At, Idle
  <2> QED BY <1>3, <1>g, <2>1 DEF CountEarly
<1>4. ASSUME NEW h \in Handler, Fetch(h)
      PROVE  DoorTypeOK' /\ LimitsFit' /\ most' = most
  <2>1. handler[h] # Idle
    BY <1>4 DEF Fetch, At, Idle
  <2> QED BY <1>4, <1>g, <2>1 DEF Fetch
<1>5. ASSUME NEW h \in Handler, Count(h)
      PROVE  DoorTypeOK' /\ LimitsFit' /\ most' = most
  <2>1. handler[h] # Idle
    BY <1>5 DEF Count, At, Idle
  <2>2. handler' \in [Handler -> Request] /\ LimitsFit'
    BY <1>5, <1>g, <2>1 DEF Count
  <2>3. lock' \in [Locks -> Handler \union {"free"}]
    BY <1>5, <1>r, <2>1 DEF Count
  <2> QED BY <1>5, <2>2, <2>3 DEF Count
<1>6. ASSUME NEW h \in Handler, Insert(h)
      PROVE  DoorTypeOK' /\ LimitsFit' /\ most' = most
  <2>1. handler[h] # Idle
    BY <1>6 DEF Insert, At, Idle
  <2>2. handler' \in [Handler -> Request] /\ LimitsFit'
    BY <1>6, <1>g, <2>1 DEF Insert
  <2>3. lock' \in [Locks -> Handler \union {"free"}]
    BY <1>6, <1>r, <2>1 DEF Insert
  <2>4. PICK v \in {"none", "listed", "queued", "dropped"} :
          row' = [row EXCEPT ![handler[h].item] = v] /\ v # "none"
    <3>1. handler[h].item \in Item
      BY <1>r, <2>1
    <3> QED BY <1>6, <3>1 DEF Insert
  <2>5. row' \in [Item -> {"none", "listed", "queued", "dropped"}]
        /\ {j \in Item : row[j] # "none"} \subseteq {j \in Item : row'[j] # "none"}
    BY <2>4
  <2> QED BY <1>6, <2>2, <2>3, <2>5 DEF Insert
<1>7. ASSUME NEW h \in Handler, Notify(h)
      PROVE  DoorTypeOK' /\ LimitsFit' /\ most' = most
  <2>1. handler[h] # Idle
    BY <1>7 DEF Notify, At, Idle
  <2>2. handler' \in [Handler -> Request] /\ LimitsFit'
    BY <1>7, <1>g, <2>1 DEF Notify
  <2>3. notices' \subseteq Item
    BY <1>7, <1>r, <2>1 DEF Notify
  <2> QED BY <1>7, <2>2, <2>3 DEF Notify
<1>8. ASSUME NEW h \in Handler, Dies(h)
      PROVE  DoorTypeOK' /\ LimitsFit' /\ most' = most
  <2>1. handler' \in [Handler -> Request] /\ LimitsFit'
    BY <1>8, <1>g DEF Dies
  <2>2. due' \subseteq Item
    BY <1>8, <1>r DEF Dies
  <2>3. lock' \in [Locks -> Handler \union {"free"}]
    BY <1>8 DEF Dies
  <2> QED BY <1>8, <2>1, <2>2, <2>3 DEF Dies
<1>9. ASSUME EditConfig
      PROVE  DoorTypeOK' /\ LimitsFit' /\ most.sender <= most'.sender /\ most.domain <= most'.domain
  <2>1. PICK limits \in [sender : 1 .. 2, domain : 1 .. 2, roomy : BOOLEAN] :
         /\ config' = limits
         /\ most' = [sender |-> IF limits.sender > most.sender THEN limits.sender ELSE most.sender,
                     domain |-> IF limits.domain > most.domain THEN limits.domain ELSE most.domain]
    BY <1>9 DEF EditConfig
  <2>2. limits.sender \in Nat \ {0} /\ limits.domain \in Nat \ {0} /\ limits \in Config
    BY DEF Config
  <2>3. /\ most' \in [sender : Nat, domain : Nat]
        /\ most.sender <= most'.sender /\ most.domain <= most'.domain
        /\ limits.sender <= most'.sender /\ limits.domain <= most'.domain
    BY <1>t, <2>1, <2>2
  <2>4. UNCHANGED <<row, old, handler, lock, due, notices>>
    BY <1>9 DEF EditConfig
  <2>5. \A h \in Handler : handler[h] # Idle =>
          handler[h].limits.sender \in Nat /\ handler[h].limits.domain \in Nat
    BY <1>r DEF Config
  <2>6. most'.sender \in Nat /\ most'.domain \in Nat
    BY <2>3
  <2> QED BY <1>t, <2>1, <2>2, <2>3, <2>4, <2>5, <2>6
<1>10. ASSUME DayPasses
       PROVE  DoorTypeOK' /\ LimitsFit' /\ most' = most
  BY <1>10 DEF DayPasses
<1>11. ASSUME UNCHANGED intakeVars
       PROVE  DoorTypeOK' /\ LimitsFit' /\ most' = most
  BY <1>11 DEF intakeVars
<1> QED BY <1>t, <1>1, <1>2, <1>3, <1>4, <1>5, <1>6, <1>7, <1>8, <1>9, <1>10, <1>11
        DEF IntakeNext, Handle

Spent == {"queued", "dropped"}

\* Nothing new spends a slot.
SpendsNothing ==
    /\ \A j \in Item : row'[j] \in Spent => row[j] \in Spent
    /\ old \subseteq old'

LEMMA CountsOnlyFall ==
    ASSUME SpendsNothing
    PROVE  /\ Counted' \subseteq Counted
           /\ \A channel \in {"email", "upload"} : Spending(channel)' \subseteq Spending(channel)
           /\ \A i \in Item : Rivals(i)' \subseteq Rivals(i)
BY DEF SpendsNothing, Spent, Counted, Spending, Rivals, Recent, Mates

\* Only an insert spends a slot.
LEMMA OthersSpendNothing ==
    ASSUME DoorTypeOK, [IntakeNext]_intakeVars, \A h \in Handler : ~Insert(h)
    PROVE  SpendsNothing
<1>1. CASE UNCHANGED intakeVars
  BY <1>1 DEF intakeVars, SpendsNothing
<1>2. ASSUME NEW h \in Handler, NEW i \in Item, Arrive(h, i)
      PROVE  SpendsNothing
  <2>1. row' = row \/ row' = [row EXCEPT ![i] = IF @ = "none" THEN "listed" ELSE @]
    BY <1>2 DEF Arrive
  <2>2. old' = old
    BY <1>2 DEF Arrive
  <2> QED BY <2>1, <2>2 DEF SpendsNothing, Spent, DoorTypeOK
<1>3. ASSUME NEW h \in Handler, \/ ParseForm(h) \/ CountEarly(h) \/ Fetch(h) \/ Count(h) \/ Notify(h)
                                \/ Dies(h)
      PROVE  SpendsNothing
  BY <1>3 DEF ParseForm, CountEarly, Fetch, Count, Notify, Dies, SpendsNothing
<1>4. CASE EditConfig
  BY <1>4 DEF EditConfig, SpendsNothing
<1>5. CASE DayPasses
  BY <1>5 DEF DayPasses, SpendsNothing, DoorTypeOK
<1> QED BY <1>1, <1>2, <1>3, <1>4, <1>5 DEF IntakeNext, Handle

\* A request that counted before keeps its room.
LEMMA HolderKeepsRoom ==
    ASSUME DoorInv, NEW h \in Handler, At(h, "insert"), handler'[h] = handler[h],
           lock'[LockOf(handler[h].item)] = h,
           Rivals(handler[h].item)' \subseteq Rivals(handler[h].item)
    PROVE  /\ lock'[LockOf(handler'[h].item)] = h
           /\ Room(handler[h].item, handler[h].limits)'
<1>1. handler[h].item \in Item /\ handler[h].limits \in Config
  BY DEF DoorInv, DoorTypeOK, Request, At, Idle
<1>2. PICK i \in Item, limits \in Config : i = handler[h].item /\ limits = handler[h].limits
  BY <1>1
<1>3. i = handler'[h].item /\ limits = handler'[h].limits
  BY <1>2
<1>4. Rivals(i)' \subseteq Rivals(i)
  <2>1. Rivals(i) = Rivals(handler[h].item)
    BY <1>2
  <2>2. Rivals(i)' = Rivals(handler[h].item)'
    BY <1>3 DEF Rivals, Recent, Mates
  <2> QED BY <2>1, <2>2
<1>5. Room(i, limits)
  BY <1>2 DEF DoorInv, RoomIsKept
<1>6. Room(i, limits)'
  BY <1>4, <1>5, RoomStays DEF DoorInv
<1>7. Room(i, limits)' <=> Room(handler[h].item, handler[h].limits)'
  BY <1>3 DEF Room, Rivals, Recent, Mates
<1> QED BY <1>3, <1>6, <1>7

\* A count that finds room under the lock leaves it there until the insert.
LEMMA CountFindsRoom ==
    ASSUME DoorInv, NEW h \in Handler, NEW i \in Item, NEW limits \in Config,
           ~OverLimit(i, limits), ~AddressOver(i)
    PROVE  Room(i, limits)
<1>1. limits.domain \in Nat /\ limits.sender \in Nat /\ AddressCap \in Nat
  BY AddressCapAssumption DEF Config
<1>2. ASSUME NEW S \in SUBSET Recent(i), NEW T \in SUBSET S
      PROVE  Cardinality(S) \in Nat /\ Cardinality(T) \in Nat /\ Cardinality(T) <= Cardinality(S)
  <2>1. IsFiniteSet(S)
    BY FS_Subset DEF DoorInv, Recent, Counted
  <2> QED BY <2>1, FS_Subset, FS_CardinalityType
<1>3. Sent[i].domain \notin Exempt =>
         Cardinality({j \in Rivals(i) : Sent[j].domain = Sent[i].domain}) < limits.domain
  <2> DEFINE S == {j \in Recent(i) : Sent[j].domain = Sent[i].domain}
  <2> DEFINE T == {j \in Rivals(i) : Sent[j].domain = Sent[i].domain}
  <2>1. S \in SUBSET Recent(i) /\ T \in SUBSET S
    BY DEF Rivals
  <2>2. Sent[i].domain \notin Exempt => ~(Cardinality(S) >= limits.domain)
    BY DEF OverLimit
  <2> HIDE DEF S, T
  <2>3. Sent[i].domain \notin Exempt => Cardinality(T) < limits.domain
    BY <1>1, <1>2, <2>1, <2>2
  <2> QED BY <2>3 DEF T
<1>4. Cardinality({j \in Rivals(i) : Sent[j].key = Sent[i].key /\ Sent[j].domain = Sent[i].domain})
         < limits.sender
  <2> DEFINE S == {j \in Recent(i) : Sent[j].key = Sent[i].key}
  <2> DEFINE T == {j \in Rivals(i) : Sent[j].key = Sent[i].key /\ Sent[j].domain = Sent[i].domain}
  <2>1. S \in SUBSET Recent(i) /\ T \in SUBSET S /\ ~(Cardinality(S) >= limits.sender)
    BY DEF Rivals, OverLimit
  <2> HIDE DEF S, T
  <2>2. Cardinality(T) < limits.sender
    BY <1>1, <1>2, <2>1
  <2> QED BY <2>2 DEF T
<1>5. Cardinality({j \in Rivals(i) : Sent[j].key = Sent[i].key}) < limits.sender
  <2> DEFINE S == {j \in Recent(i) : Sent[j].key = Sent[i].key}
  <2> DEFINE T == {j \in Rivals(i) : Sent[j].key = Sent[i].key}
  <2>1. S \in SUBSET Recent(i) /\ T \in SUBSET S /\ ~(Cardinality(S) >= limits.sender)
    BY DEF Rivals, OverLimit
  <2> HIDE DEF S, T
  <2>2. Cardinality(T) < limits.sender
    BY <1>1, <1>2, <2>1
  <2> QED BY <2>2 DEF T
<1>6. ASSUME Sent[i].channel = "upload"
      PROVE  Cardinality({j \in Rivals(i) : Sent[j].address = Sent[i].address}) < AddressCap
  <2> DEFINE S == {j \in Recent(i) : Sent[j].address = Sent[i].address}
  <2> DEFINE T == {j \in Rivals(i) : Sent[j].address = Sent[i].address}
  <2>1. S \in SUBSET Recent(i) /\ T \in SUBSET S /\ ~(Cardinality(S) >= AddressCap)
    BY <1>6 DEF Rivals, AddressOver
  <2> HIDE DEF S, T
  <2>2. Cardinality(T) < AddressCap
    BY <1>1, <1>2, <2>1
  <2> QED BY <2>2 DEF T
<1> QED BY <1>3, <1>4, <1>5, <1>6 DEF Room

\* An insert spends one slot, within the room its request counted.
LEMMA InsertSpends ==
    ASSUME DoorInv, NEW h \in Handler, Insert(h), NEW i \in Item, i = handler[h].item
    PROVE  /\ CapsHold' /\ IsFiniteSet(Counted')
           /\ \A k \in Item : i \notin Mates(k) => Rivals(k)' \subseteq Rivals(k)
<1> USE DEF DoorInv
<1>1. /\ \A j \in Item : j # i => row'[j] = row[j]
      /\ row[i] # "none" => row'[i] = row[i]
      /\ old' = old /\ most' = most
  BY DEF Insert, DoorTypeOK
<1>2. Counted' \subseteq Counted \union {i}
  BY <1>1 DEF Counted
<1>3. IsFiniteSet(Counted')
  <2>1. IsFiniteSet(Counted \union {i})
    BY FS_AddElement
  <2> QED BY <1>2, <2>1, FS_Subset
<1>4. \A k \in Item : i \notin Mates(k) => Rivals(k)' \subseteq Rivals(k)
  BY <1>1 DEF Rivals, Mates, Recent
<1>5. CASE row[i] # "none"
  <2>1. SpendsNothing
    BY <1>1, <1>5 DEF SpendsNothing, DoorTypeOK
  <2>2. CapsHold'
    <3>1. most' \in [sender : Nat, domain : Nat] /\ most.sender <= most'.sender /\ most.domain <= most'.domain
      BY <1>1 DEF DoorTypeOK
    <3> QED BY <2>1, <3>1, CountsOnlyFall, CapsStay DEF DoorTypeOK
  <2> QED BY <1>3, <1>4, <2>2
<1>6. CASE row[i] = "none"
  <2> DEFINE limits == handler[h].limits
  <2>1. /\ Room(i, limits) /\ limits \in Config
        /\ limits.sender <= most.sender /\ limits.domain <= most.domain
    BY DEF Insert, RoomIsKept, At, Idle, LimitsFit, DoorTypeOK, Request
  <2> HIDE DEF limits
  <2>2. /\ limits.sender \in Nat /\ limits.domain \in Nat /\ most.sender \in Nat /\ most.domain \in Nat
        /\ AddressCap \in Nat /\ Sent[i].channel \in {"email", "upload"}
    BY <2>1, AddressCapAssumption, SentTypes DEF Config, DoorTypeOK
  <2>3. ASSUME NEW channel \in {"email", "upload"}
        PROVE  /\ channel = Sent[i].channel =>
                     Spending(channel)' \subseteq Spending(channel) \union {i}
               /\ channel # Sent[i].channel => Spending(channel)' \subseteq Spending(channel)
               /\ i \notin Spending(channel)
    BY <1>1, <1>6 DEF Spending
  <2>4. /\ \A j \in Spending(Sent[i].channel) : Sent[j].domain = Sent[i].domain => j \in Rivals(i)
        /\ Sent[i].channel = "upload" => Spending("upload") \subseteq Rivals(i)
    BY <1>6 DEF Spending, Rivals, Mates, Recent, LockOf
  <2>5. ASSUME NEW S \in SUBSET Rivals(i) PROVE IsFiniteSet(S) /\ Cardinality(S) \in Nat
    BY FS_Subset, FS_CardinalityType DEF Rivals, Recent, Counted
  <2>6. ASSUME NEW channel \in {"email", "upload"}, NEW S \in SUBSET Spending(channel)
        PROVE  IsFiniteSet(S) /\ Cardinality(S) \in Nat
    BY FS_Subset, FS_CardinalityType DEF Spending, Counted
  <2>7. ASSUME NEW S \in SUBSET Rivals(i), NEW n \in Nat, NEW m \in Nat, Cardinality(S) < n, n <= m,
               NEW T \in SUBSET (S \union {i})
        PROVE  Cardinality(T) <= m
    <3>1. IsFiniteSet(S) /\ Cardinality(S) < m /\ Cardinality(S) \in Nat
      BY <2>5, <2>7
    <3> QED BY <3>1, <2>7, OneMore
  <2>8. ASSUME NEW channel \in {"email", "upload"}, NEW k \in Item, Sent[k].domain \notin Exempt
        PROVE  Cardinality({j \in Spending(channel)' : Sent[j].domain = Sent[k].domain}) <= most.domain
    <3> DEFINE S == {j \in Spending(channel) : Sent[j].domain = Sent[k].domain}
    <3> DEFINE T == {j \in Spending(channel)' : Sent[j].domain = Sent[k].domain}
    <3>1. CASE channel = Sent[i].channel /\ Sent[k].domain = Sent[i].domain
      <4> DEFINE R == {j \in Rivals(i) : Sent[j].domain = Sent[i].domain}
      <4>1. R \in SUBSET Rivals(i) /\ T \in SUBSET (R \union {i}) /\ Cardinality(R) < limits.domain
        BY <2>1, <2>3, <2>4, <2>8, <3>1 DEF Room
      <4> HIDE DEF R, T
      <4>2. Cardinality(T) <= most.domain
        BY <2>1, <2>2, <2>7, <4>1
      <4> QED BY <4>2 DEF T
    <3>2. CASE ~(channel = Sent[i].channel /\ Sent[k].domain = Sent[i].domain)
      <4>1. S \in SUBSET Spending(channel) /\ T \in SUBSET S /\ Cardinality(S) <= most.domain
        BY <2>3, <2>8, <3>2 DEF CapsHold
      <4> HIDE DEF S, T
      <4>2. Cardinality(T) <= most.domain
        BY <2>2, <2>6, <4>1, NoMore
      <4> QED BY <4>2 DEF T
    <3> QED BY <3>1, <3>2
  <2>9. ASSUME NEW channel \in {"email", "upload"}, NEW k \in Item
        PROVE  Cardinality({j \in Spending(channel)' : /\ Sent[j].key = Sent[k].key
                                                       /\ Sent[j].domain = Sent[k].domain}) <= most.sender
    <3> DEFINE S == {j \in Spending(channel) : /\ Sent[j].key = Sent[k].key
                                               /\ Sent[j].domain = Sent[k].domain}
    <3> DEFINE T == {j \in Spending(channel)' : /\ Sent[j].key = Sent[k].key
                                                /\ Sent[j].domain = Sent[k].domain}
    <3>1. CASE channel = Sent[i].channel /\ Sent[k].key = Sent[i].key /\ Sent[k].domain = Sent[i].domain
      <4> DEFINE R == {j \in Rivals(i) : Sent[j].key = Sent[i].key /\ Sent[j].domain = Sent[i].domain}
      <4>1. R \in SUBSET Rivals(i) /\ T \in SUBSET (R \union {i}) /\ Cardinality(R) < limits.sender
        BY <2>1, <2>3, <2>4, <3>1 DEF Room
      <4> HIDE DEF R, T
      <4>2. Cardinality(T) <= most.sender
        BY <2>1, <2>2, <2>7, <4>1
      <4> QED BY <4>2 DEF T
    <3>2. CASE ~(channel = Sent[i].channel /\ Sent[k].key = Sent[i].key /\ Sent[k].domain = Sent[i].domain)
      <4>1. S \in SUBSET Spending(channel) /\ T \in SUBSET S /\ Cardinality(S) <= most.sender
        BY <2>3, <2>9, <3>2 DEF CapsHold
      <4> HIDE DEF S, T
      <4>2. Cardinality(T) <= most.sender
        BY <2>2, <2>6, <4>1, NoMore
      <4> QED BY <4>2 DEF T
    <3> QED BY <3>1, <3>2
  <2>10. ASSUME NEW k \in Item
         PROVE  Cardinality({j \in Spending("upload")' : Sent[j].key = Sent[k].key}) <= most.sender
    <3> DEFINE S == {j \in Spending("upload") : Sent[j].key = Sent[k].key}
    <3> DEFINE T == {j \in Spending("upload")' : Sent[j].key = Sent[k].key}
    <3>1. CASE Sent[i].channel = "upload" /\ Sent[k].key = Sent[i].key
      <4> DEFINE R == {j \in Rivals(i) : Sent[j].key = Sent[i].key}
      <4>1. R \in SUBSET Rivals(i) /\ T \in SUBSET (R \union {i}) /\ Cardinality(R) < limits.sender
        BY <2>1, <2>3, <2>4, <3>1 DEF Room
      <4> HIDE DEF R, T
      <4>2. Cardinality(T) <= most.sender
        BY <2>1, <2>2, <2>7, <4>1
      <4> QED BY <4>2 DEF T
    <3>2. CASE ~(Sent[i].channel = "upload" /\ Sent[k].key = Sent[i].key)
      <4>1. S \in SUBSET Spending("upload") /\ T \in SUBSET S /\ Cardinality(S) <= most.sender
        BY <2>3, <2>10, <3>2 DEF CapsHold
      <4> HIDE DEF S, T
      <4>2. Cardinality(T) <= most.sender
        BY <2>2, <2>6, <4>1, NoMore
      <4> QED BY <4>2 DEF T
    <3> QED BY <3>1, <3>2
  <2>11. ASSUME NEW k \in Item
         PROVE  Cardinality({j \in Spending("upload")' : Sent[j].address = Sent[k].address}) <= AddressCap
    <3> DEFINE S == {j \in Spending("upload") : Sent[j].address = Sent[k].address}
    <3> DEFINE T == {j \in Spending("upload")' : Sent[j].address = Sent[k].address}
    <3>1. CASE Sent[i].channel = "upload" /\ Sent[k].address = Sent[i].address
      <4> DEFINE R == {j \in Rivals(i) : Sent[j].address = Sent[i].address}
      <4>1. R \in SUBSET Rivals(i) /\ T \in SUBSET (R \union {i}) /\ Cardinality(R) < AddressCap
        BY <2>1, <2>3, <2>4, <3>1 DEF Room
      <4> HIDE DEF R, T
      <4>2. Cardinality(T) <= AddressCap
        BY <2>2, <2>7, <4>1
      <4> QED BY <4>2 DEF T
    <3>2. CASE ~(Sent[i].channel = "upload" /\ Sent[k].address = Sent[i].address)
      <4>1. S \in SUBSET Spending("upload") /\ T \in SUBSET S /\ Cardinality(S) <= AddressCap
        BY <2>3, <2>11, <3>2 DEF CapsHold
      <4> HIDE DEF S, T
      <4>2. Cardinality(T) <= AddressCap
        BY <2>2, <2>6, <4>1, NoMore
      <4> QED BY <4>2 DEF T
    <3> QED BY <3>1, <3>2
  <2>12. CapsHold'
    BY <1>1, <2>8, <2>9, <2>10, <2>11 DEF CapsHold
  <2> QED BY <1>3, <1>4, <2>12
<1> QED BY <1>5, <1>6

\* What a request does to its own row.
LEMMA RequestMoves ==
    ASSUME DoorTypeOK, NEW h \in Handler, handler[h] # Idle
    PROVE  /\ \A p \in {"fetch", "lock", "insert", "notify"} : Goes(h, p) =>
                /\ handler'[h].phase = p
                /\ \A k \in Handler : k # h => handler'[k] = handler[k]
           /\ Ends(h) => /\ handler'[h].phase = "idle"
                         /\ \A k \in Handler : k # h => handler'[k] = handler[k]
<1>1. handler[h] \in [phase : {"read", "fetch", "lock", "insert", "notify"}, item : Item, limits : Config]
  BY DEF DoorTypeOK, Request
<1>2. ASSUME NEW p \in {"fetch", "lock", "insert", "notify"}, Goes(h, p)
      PROVE  /\ handler'[h].phase = p
             /\ \A k \in Handler : k # h => handler'[k] = handler[k]
  BY <1>1, <1>2 DEF Goes, DoorTypeOK
<1>3. ASSUME Ends(h)
      PROVE  /\ handler'[h].phase = "idle"
             /\ \A k \in Handler : k # h => handler'[k] = handler[k]
  BY <1>3 DEF Ends, Idle, DoorTypeOK
<1> QED BY <1>2, <1>3

LEMMA DoorNext == DoorInv /\ [IntakeNext]_intakeVars => DoorInv'
<1> SUFFICES ASSUME DoorInv, [IntakeNext]_intakeVars PROVE DoorInv'
  OBVIOUS
<1> USE DEF DoorInv
<1>1. DoorTypeOK' /\ LimitsFit' /\ most.sender <= most'.sender /\ most.domain <= most'.domain
  BY DoorTypeNext
<1>2. ASSUME \A h \in Handler : ~Insert(h)
      PROVE  CapsHold' /\ IsFiniteSet(Counted')
  <2>1. SpendsNothing
    BY <1>2, OthersSpendNothing
  <2>2. IsFiniteSet(Counted')
    BY <2>1, CountsOnlyFall, FS_Subset
  <2> QED BY <1>1, <2>1, <2>2, CountsOnlyFall, CapsStay DEF DoorTypeOK
<1>3. ASSUME NEW h \in Handler, Insert(h)
      PROVE  CapsHold' /\ IsFiniteSet(Counted')
  <2>1. handler[h].item \in Item
    BY <1>3 DEF Insert, At, Idle, DoorTypeOK, Request
  <2>2. PICK i \in Item : i = handler[h].item
    BY <2>1
  <2> QED BY <1>3, <2>2, InsertSpends
<1>4. ASSUME NEW k \in Handler, At(k, "insert")'
      PROVE  /\ lock'[LockOf(handler'[k].item)] = k
             /\ Room(handler[k].item, handler[k].limits)'
  <2>1. ASSUME \A h \in Handler : ~Insert(h), handler'[k] = handler[k], lock'[LockOf(handler[k].item)] = k
        PROVE  /\ lock'[LockOf(handler'[k].item)] = k
               /\ Room(handler[k].item, handler[k].limits)'
    <3>1. At(k, "insert") /\ handler[k].item \in Item
      BY <1>4, <2>1 DEF At, DoorTypeOK, Request, Idle
    <3>2. Rivals(handler[k].item)' \subseteq Rivals(handler[k].item)
      <4>1. PICK i \in Item : i = handler[k].item
        BY <3>1
      <4>2. Rivals(i)' \subseteq Rivals(i)
        BY <2>1, OthersSpendNothing, CountsOnlyFall
      <4>3. Rivals(handler[k].item)' = Rivals(i)' /\ Rivals(handler[k].item) = Rivals(i)
        BY <2>1, <4>1 DEF Rivals, Recent, Mates
      <4> QED BY <4>2, <4>3
    <3> QED BY <2>1, <3>1, <3>2, HolderKeepsRoom
  <2>2. At(k, "insert") => /\ handler[k].item \in Item /\ handler[k] # Idle
                           /\ lock[LockOf(handler[k].item)] = k /\ LockOf(handler[k].item) \in Locks
    BY SentTypes DEF At, DoorTypeOK, Request, Idle, RoomIsKept
  <2>3. CASE \E h \in Handler : Insert(h)
    <3>1. PICK h \in Handler : Insert(h)
      BY <2>3
    <3>2. /\ At(h, "insert") /\ handler[h].item \in Item
          /\ lock[LockOf(handler[h].item)] = h /\ LockOf(handler[h].item) \in Locks
      BY <3>1, SentTypes DEF Insert, At, DoorTypeOK, Request, Idle, RoomIsKept
    <3>3. k # h
      <4>1. handler[h] # Idle
        BY <3>2 DEF At, Idle
      <4>2. Goes(h, "notify") \/ Ends(h)
        BY <3>1 DEF Insert
      <4>3. handler'[h].phase # "insert"
        BY <4>1, <4>2, RequestMoves
      <4> QED BY <1>4, <4>3 DEF At
    <3>4. handler'[k] = handler[k] /\ At(k, "insert")
      BY <1>4, <3>1, <3>3 DEF Insert, Goes, Ends, At, DoorTypeOK
    <3>5. LockOf(handler[k].item) # LockOf(handler[h].item)
      BY <2>2, <3>2, <3>3, <3>4
    <3>6. lock'[LockOf(handler[k].item)] = k
      BY <2>2, <3>1, <3>4, <3>5 DEF Insert, DoorTypeOK
    <3>7. PICK i \in Item, j \in Item : i = handler[h].item /\ j = handler[k].item
      BY <2>2, <3>2, <3>4
    <3>8. i \notin Mates(j)
      BY <3>5, <3>7 DEF Mates
    <3>9. Rivals(j)' \subseteq Rivals(j)
      BY <3>1, <3>7, <3>8, InsertSpends
    <3>10. Rivals(handler[k].item)' = Rivals(j)' /\ Rivals(handler[k].item) = Rivals(j)
      BY <3>4, <3>7 DEF Rivals, Recent, Mates
    <3> QED BY <3>4, <3>6, <3>9, <3>10, HolderKeepsRoom
  <2>4. ASSUME NEW h \in Handler, NEW i \in Item, Arrive(h, i)
        PROVE  handler'[k] = handler[k] /\ lock' = lock
    BY <1>4, <2>4 DEF Arrive, Deliver, At, DoorTypeOK
  <2>5. ASSUME NEW h \in Handler, ParseForm(h) \/ CountEarly(h) \/ Fetch(h) \/ Notify(h)
        PROVE  handler'[k] = handler[k] /\ lock' = lock
    <3>1. handler[h] # Idle /\ lock' = lock
      BY <2>5 DEF ParseForm, CountEarly, Fetch, Notify, At, Idle
    <3>2. Goes(h, "lock") \/ Goes(h, "fetch") \/ Ends(h)
      BY <2>5 DEF ParseForm, CountEarly, Fetch, Notify
    <3>3. handler'[h].phase # "insert" /\ \A j \in Handler : j # h => handler'[j] = handler[j]
      BY <3>1, <3>2, RequestMoves
    <3> QED BY <1>4, <3>1, <3>3 DEF At
  <2>6. ASSUME NEW h \in Handler, Dies(h)
        PROVE  handler'[k] = handler[k] /\ lock'[LockOf(handler[k].item)] = k
    <3>1. k # h /\ handler'[k] = handler[k]
      BY <1>4, <2>6 DEF Dies, Ends, At, DoorTypeOK, Idle
    <3>2. At(k, "insert")
      BY <1>4, <3>1 DEF At
    <3> QED BY <2>2, <2>6, <3>1, <3>2 DEF Dies
  <2>7. ASSUME NEW h \in Handler, Count(h), \A g \in Handler : ~Insert(g)
        PROVE  /\ lock'[LockOf(handler'[k].item)] = k
               /\ Room(handler[k].item, handler[k].limits)'
    <3>1. CASE handler'[k] = handler[k]
      <4>1. At(k, "insert") /\ lock[LockOf(handler[k].item)] = k
        BY <1>4, <2>2, <3>1 DEF At
      <4>2. lock'[LockOf(handler[k].item)] = k
        <5>1. CASE lock' = lock
          BY <4>1, <5>1
        <5>2. CASE lock' = [lock EXCEPT ![LockOf(handler[h].item)] = h]
          <6>1. lock[LockOf(handler[h].item)] = "free"
            BY <2>7 DEF Count
          <6>2. LockOf(handler[k].item) # LockOf(handler[h].item)
            BY <4>1, <6>1, HandlerAssumption
          <6> QED BY <2>2, <4>1, <5>2, <6>2 DEF DoorTypeOK
        <5> QED BY <2>7, <5>1, <5>2 DEF Count
      <4> QED BY <2>1, <2>7, <3>1, <4>2
    <3>2. CASE handler'[k] # handler[k]
      <4>1. k = h /\ Goes(h, "insert")
        BY <1>4, <2>7, <3>2 DEF Count, Goes, Ends, At, DoorTypeOK, Idle
      <4>2. handler[h].item \in Item /\ handler[h].limits \in Config
        BY <2>7 DEF Count, At, DoorTypeOK, Request, Idle
      <4>3. PICK i \in Item, limits \in Config : i = handler[h].item /\ limits = handler[h].limits
        BY <4>2
      <4>4. i = handler'[h].item /\ limits = handler'[h].limits
        BY <4>1, <4>3 DEF Goes, DoorTypeOK, Request, Idle
      <4>5. ~OverLimit(i, limits) /\ ~AddressOver(i) /\ lock' = [lock EXCEPT ![LockOf(i)] = h]
        BY <2>7, <4>1, <4>3, <4>4 DEF Count, Goes, Ends, At, DoorTypeOK, Idle
      <4>6. Room(i, limits)
        BY <4>5, CountFindsRoom
      <4>7. Rivals(i)' \subseteq Rivals(i)
        BY <2>7, OthersSpendNothing, CountsOnlyFall
      <4>8. Room(i, limits)'
        BY <4>6, <4>7, RoomStays
      <4>9. Room(i, limits)' <=> Room(handler[h].item, handler[h].limits)'
        BY <4>4 DEF Room, Rivals, Recent, Mates
      <4>10. lock'[LockOf(i)] = h
        BY <4>5, SentTypes DEF DoorTypeOK
      <4> QED BY <4>1, <4>4, <4>8, <4>9, <4>10
    <3> QED BY <3>1, <3>2
  <2>8. CASE EditConfig \/ DayPasses \/ UNCHANGED intakeVars
    <3>1. handler'[k] = handler[k] /\ lock' = lock
      BY <2>8 DEF EditConfig, DayPasses, intakeVars
    <3>2. At(k, "insert")
      BY <1>4, <3>1 DEF At
    <3>3. CASE \A h \in Handler : ~Insert(h)
      BY <2>1, <2>2, <3>1, <3>2, <3>3
    <3> QED BY <2>3, <3>3
  <2>9. ASSUME handler'[k] = handler[k], lock' = lock \/ lock'[LockOf(handler[k].item)] = k
        PROVE  /\ lock'[LockOf(handler'[k].item)] = k
               /\ Room(handler[k].item, handler[k].limits)'
    <3>1. At(k, "insert")
      BY <1>4, <2>9 DEF At
    <3>2. lock'[LockOf(handler[k].item)] = k
      BY <2>2, <2>9, <3>1
    <3>3. CASE \A h \in Handler : ~Insert(h)
      BY <2>1, <2>9, <3>2, <3>3
    <3> QED BY <2>3, <3>3
  <2> QED BY <2>3, <2>4, <2>5, <2>6, <2>7, <2>8, <2>9 DEF IntakeNext, Handle
<1>5. RoomIsKept'
  BY <1>4 DEF RoomIsKept
<1> QED BY <1>1, <1>2, <1>3, <1>5

LEMMA DoorAlways == IntakeSpec => []DoorInv
<1>1. IntakeInit => DoorInv
  BY DoorInit
<1>2. DoorInv /\ [IntakeNext]_intakeVars => DoorInv'
  BY DoorNext
<1> QED BY <1>1, <1>2, PTL DEF IntakeSpec

\* Type correctness of the two public doors (the webhook and the upload form).
THEOREM DoorTypeCorrect == IntakeSpec => []IntakeTypeOK
<1>1. DoorInv => IntakeTypeOK
  BY DEF DoorInv, DoorTypeOK, IntakeTypeOK, Request, Idle
<1> QED BY <1>1, DoorAlways, PTL

\* No cap of the intake is ever passed (admitOutsideEmail, admitUpload).
THEOREM CapsAlwaysHold == IntakeSpec => []CapsHold
<1>1. DoorInv => CapsHold
  BY DEF DoorInv
<1> QED BY <1>1, DoorAlways, PTL

-----------------------------------------------------------------------------
(***************************************************************************)
(* Appeals, for any applicants, members, codes and tries.                  *)
(***************************************************************************)
MemberRow == [row : BOOLEAN, role : {"member", "read_only"}, verified : BOOLEAN,
              code : Nat, attempts : 0 .. MaxTries]
Submission == {Free} \union [phase : {"locked"}, c : Nat, seen : Code]
Filed == [status : {"OPEN", "ACKNOWLEDGED", "CLOSED"}, code : Nat]

AppealTypes ==
    /\ delivered \in BOOLEAN /\ proven \in BOOLEAN
    /\ code \in Seq(Code) /\ tries \in Seq(Nat) /\ Len(tries) = Len(code)
    /\ applicant \in [Applicant -> Submission]
    /\ \A a \in Applicant : applicant[a] # Free => applicant[a].c \in 1..Len(code)
    /\ appeal \in Seq(Filed)
    /\ \A k \in DOMAIN appeal : appeal[k].code \in 1..Len(code)
    /\ member \in [Member -> MemberRow]
    /\ desk \in [Member \union Owner -> {Free} \union [phase : {"verify"}, seen : MemberRow]
                                              \union [phase : {"resolve"}]]
    /\ appeals \in AppealWorld

\* A code that filed an appeal is spent, so no second appeal carries it.
FiledIsSpent == \A k \in DOMAIN appeal : ~code[appeal[k].code].hash

\* What was guessed is what the row counts.
TriesAreCounted ==
    \A c \in 1..Len(code) : /\ tries[c] = code[c].attempts /\ tries[c] <= MaxTries
                            /\ code[c].mailed => code[c].timed

CodesFit == Cardinality(CodesToday) <= MaxCodes

AppealInv == AppealTypes /\ FiledIsSpent /\ TriesAreCounted /\ CodesFit /\ CodeFilesOnce

LEMMA UsesFit ==
    ASSUME appeals \in AppealWorld, NEW field \in {"asks", "unproofs", "days", "invites", "edits"},
           Uses(field)
    PROVE  appeals' \in AppealWorld
<1>1. appeals[field] \in Nat /\ appeals[field] > 0 /\ appeals' = [appeals EXCEPT ![field] = @ - 1]
  BY DEF AppealWorld, Uses
<1>2. appeals[field] - 1 \in Nat
  BY <1>1
<1> QED BY <1>1, <1>2 DEF AppealWorld

LEMMA AppealsBegin == AppealInit => AppealInv
<1> SUFFICES ASSUME AppealInit PROVE AppealInv
  OBVIOUS
<1>1. AppealTypes
  <2>1. Nobody \in MemberRow /\ appeals \in AppealWorld
    BY CapAssumption, AppealWorldAssumption DEF AppealInit, MemberRow, Nobody
  <2>2. applicant \in [Applicant -> Submission] /\ \A a \in Applicant : applicant[a] = Free
    BY DEF AppealInit, Submission
  <2>3. code = <<>> /\ tries = <<>> /\ appeal = <<>>
    BY DEF AppealInit
  <2>4. code \in Seq(Code) /\ tries \in Seq(Nat) /\ Len(tries) = Len(code) /\ appeal \in Seq(Filed)
        /\ \A k \in DOMAIN appeal : appeal[k].code \in 1..Len(code)
    BY <2>3
  <2> QED BY <2>1, <2>2, <2>4 DEF AppealInit, AppealTypes
<1>2. FiledIsSpent /\ TriesAreCounted /\ CodeFilesOnce
  BY DEF AppealInit, FiledIsSpent, TriesAreCounted, CodeFilesOnce
<1>3. CodesToday = {}
  BY DEF AppealInit, CodesToday
<1>4. CodesFit
  BY <1>3, FS_EmptySet, CapAssumption DEF CodesFit
<1> QED BY <1>1, <1>2, <1>4 DEF AppealInv

LEMMA FunctionsAreSequences ==
    ASSUME NEW S, NEW n \in Nat, NEW f \in [1..n -> S]
    PROVE  f \in Seq(S) /\ Len(f) = n /\ DOMAIN f = 1..n
OBVIOUS

\* One code's row is rewritten.
LEMMA CodeUpdate ==
    ASSUME NEW s \in Seq(Code), NEW c \in 1..Len(s), NEW r \in Code, NEW t,
           t = [s EXCEPT ![c] = r]
    PROVE  /\ t \in Seq(Code) /\ Len(t) = Len(s) /\ DOMAIN t = 1..Len(s)
           /\ \A d \in 1..Len(s) : t[d] = IF d = c THEN r ELSE s[d]
OBVIOUS

\* Codes less than a day old never become more by themselves.
LEMMA CodesStay ==
    ASSUME CodesFit, code \in Seq(Code), CodesToday' \subseteq CodesToday
    PROVE  CodesFit'
<1>1. IsFiniteSet(1..Len(code))
  BY FS_Interval
<1>2. CodesToday \subseteq 1..Len(code)
  BY DEF CodesToday
<1>3. IsFiniteSet(CodesToday) /\ Cardinality(CodesToday) \in Nat
  BY <1>1, <1>2, FS_Subset, FS_CardinalityType
<1>4. Cardinality(CodesToday') \in Nat /\ Cardinality(CodesToday') <= Cardinality(CodesToday)
  BY <1>3, FS_Subset, FS_CardinalityType
<1>5. MaxCodes \in Nat
  BY CapAssumption
<1> QED BY <1>3, <1>4, <1>5 DEF CodesFit

\* A request writes a row of its own, mailed only within the day's count.
LEMMA RequestKeeps ==
    ASSUME AppealInv, NEW ip \in Address, RequestCode(ip)
    PROVE  AppealInv'
<1> USE DEF AppealInv
<1>0. (Eligible /\ Cardinality(CodesToday) < MaxCodes) \in BOOLEAN
  BY DEF Eligible
<1>1. PICK mails \in BOOLEAN, sent \in BOOLEAN :
        /\ mails = (Eligible /\ Cardinality(CodesToday) < MaxCodes)
        /\ sent => mails
        /\ code' = Append(code, [hash |-> mails, timed |-> mails, fresh |-> mails, today |-> TRUE,
                                 mailed |-> sent, attempts |-> 0, ip |-> ip])
  <2>1. PICK mails \in BOOLEAN : mails = (Eligible /\ Cardinality(CodesToday) < MaxCodes)
    BY <1>0
  <2>2. \E sent \in {mails, FALSE} :
            code' = Append(code, [hash |-> mails, timed |-> mails, fresh |-> mails, today |-> TRUE,
                                  mailed |-> sent, attempts |-> 0, ip |-> ip])
    BY <2>1, Zenon DEF RequestCode
  <2>3. PICK sent \in {mails, FALSE} :
            code' = Append(code, [hash |-> mails, timed |-> mails, fresh |-> mails, today |-> TRUE,
                                  mailed |-> sent, attempts |-> 0, ip |-> ip])
    BY <2>2
  <2>4. sent \in BOOLEAN /\ (sent => mails)
    BY <2>1, <2>3
  <2> QED BY <2>1, <2>3, <2>4
<1> DEFINE r == [hash |-> mails, timed |-> mails, fresh |-> mails, today |-> TRUE,
                 mailed |-> sent, attempts |-> 0, ip |-> ip]
<1>2. r \in Code /\ r.attempts = 0 /\ r.timed = mails /\ (r.mailed => r.timed)
  BY <1>1 DEF Code
<1>3. code' = Append(code, r) /\ tries' = Append(tries, 0)
      /\ UNCHANGED <<delivered, proven, applicant, appeal, member, desk>>
      /\ appeals' \in AppealWorld
  BY <1>1, UsesFit DEF RequestCode, AppealTypes
<1> HIDE DEF r
<1>4. /\ code' \in Seq(Code) /\ Len(code') = Len(code) + 1 /\ Len(code) \in Nat
      /\ \A c \in 1..Len(code) : code'[c] = code[c]
      /\ code'[Len(code) + 1] = r
      /\ tries' \in Seq(Nat) /\ Len(tries') = Len(tries) + 1
      /\ \A c \in 1..Len(code) : tries'[c] = tries[c]
      /\ tries'[Len(code) + 1] = 0
  BY <1>2, <1>3 DEF AppealTypes
<1>5. AppealTypes'
  BY <1>3, <1>4 DEF AppealTypes
<1>6. FiledIsSpent' /\ CodeFilesOnce'
  BY <1>3, <1>4 DEF FiledIsSpent, CodeFilesOnce, AppealTypes
<1>7. TriesAreCounted'
  <2>1. MaxTries \in Nat
    BY CapAssumption
  <2>2. ASSUME NEW c \in 1..Len(code')
        PROVE  /\ tries'[c] = code'[c].attempts /\ tries'[c] <= MaxTries
               /\ code'[c].mailed => code'[c].timed
    <3>1. CASE c \in 1..Len(code)
      BY <1>4, <3>1 DEF TriesAreCounted
    <3>2. CASE c = Len(code) + 1
      BY <1>2, <1>4, <2>1, <3>2
    <3> QED BY <1>4, <3>1, <3>2
  <2> QED BY <2>2 DEF TriesAreCounted
<1>8. CodesFit'
  <2>1. DOMAIN code' = 1..Len(code) + 1 /\ DOMAIN code = 1..Len(code)
    BY <1>4 DEF AppealTypes
  <2>2. CASE ~mails
    <3>1. CodesToday' \subseteq CodesToday
      BY <1>2, <1>4, <2>1, <2>2 DEF CodesToday
    <3> QED BY <3>1, CodesStay DEF AppealTypes
  <2>3. CASE mails
    <3>1. CodesToday' \subseteq CodesToday \union {Len(code) + 1}
      BY <1>4, <2>1 DEF CodesToday
    <3>2. IsFiniteSet(CodesToday)
      <4>1. IsFiniteSet(1..Len(code))
        BY FS_Interval
      <4> QED BY <2>1, <4>1, FS_Subset DEF CodesToday
    <3>3. Cardinality(CodesToday) < MaxCodes /\ MaxCodes \in Nat
      BY <1>1, <2>3, CapAssumption
    <3>4. Cardinality(CodesToday') <= MaxCodes
      BY <3>1, <3>2, <3>3, OneMore
    <3> QED BY <3>4 DEF CodesFit
  <2> QED BY <2>2, <2>3
<1> QED BY <1>5, <1>6, <1>7, <1>8

\* The rest of a submission: a wrong code is counted, a right one spent first.
LEMMA AnswerKeeps ==
    ASSUME AppealInv, NEW a \in Applicant, NEW right \in BOOLEAN, AnswerCode(a, right)
    PROVE  AppealInv'
<1> USE DEF AppealInv
<1> DEFINE c == applicant[a].c
<1> DEFINE usable == code[c].hash /\ code[c].fresh /\ code[c].attempts < MaxTries
<1>1. /\ c \in 1..Len(code) /\ DOMAIN code = 1..Len(code) /\ DOMAIN tries = 1..Len(code)
      /\ code[c] \in Code /\ tries[c] \in Nat /\ MaxTries \in Nat
      /\ DOMAIN appeal = 1..Len(appeal) /\ Len(appeal) \in Nat
  BY CapAssumption DEF AnswerCode, AppealTypes
<1>2. /\ applicant' = [applicant EXCEPT ![a] = Free]
      /\ UNCHANGED <<delivered, proven, member, desk, appeals>>
  BY DEF AnswerCode
<1>3. /\ applicant' \in [Applicant -> Submission]
      /\ \A b \in Applicant : applicant'[b] # Free => applicant'[b].c \in 1..Len(code)
  BY <1>2 DEF AppealTypes, Submission
<1>4. CASE ~usable
  <2>1. UNCHANGED <<code, appeal, tries>>
    BY <1>4 DEF AnswerCode, Current
  <2>2. AppealTypes'
    BY <1>2, <1>3, <2>1 DEF AppealTypes
  <2>3. CodesToday' = CodesToday
    BY <2>1 DEF CodesToday
  <2> QED BY <2>1, <2>2, <2>3 DEF FiledIsSpent, TriesAreCounted, CodesFit, CodeFilesOnce
<1>5. CASE usable /\ ~right
  <2> DEFINE r == [code[c] EXCEPT !.attempts = code[c].attempts + 1]
  <2>1. code' = [code EXCEPT ![c] = r] /\ tries' = [tries EXCEPT ![c] = @ + 1] /\ appeal' = appeal
    BY <1>5 DEF AnswerCode, Current
  <2>2. /\ r \in Code /\ r.attempts = code[c].attempts + 1 /\ r.hash = code[c].hash
        /\ r.mailed = code[c].mailed /\ r.timed = code[c].timed /\ r.today = code[c].today
    BY <1>1 DEF Code
  <2> HIDE DEF r, c
  <2>3. /\ code' \in Seq(Code) /\ Len(code') = Len(code) /\ DOMAIN code' = 1..Len(code)
        /\ \A d \in 1..Len(code) : code'[d] = IF d = c THEN r ELSE code[d]
    BY <1>1, <2>1, <2>2, CodeUpdate DEF AppealTypes
  <2>4. /\ tries' \in Seq(Nat) /\ Len(tries') = Len(tries)
        /\ \A d \in 1..Len(code) : tries'[d] = IF d = c THEN tries[c] + 1 ELSE tries[d]
    BY <1>1, <2>1 DEF AppealTypes
  <2>5. AppealTypes'
    BY <1>2, <1>3, <2>1, <2>3, <2>4 DEF AppealTypes
  <2>6. FiledIsSpent' /\ CodeFilesOnce'
    BY <2>1, <2>2, <2>3 DEF FiledIsSpent, CodeFilesOnce, AppealTypes
  <2>7. TriesAreCounted'
    <3>1. code[c].attempts < MaxTries /\ code[c].attempts \in Nat /\ tries[c] = code[c].attempts
      BY <1>1, <1>5 DEF c, TriesAreCounted, Code
    <3>2. ASSUME NEW d \in 1..Len(code')
          PROVE  /\ tries'[d] = code'[d].attempts /\ tries'[d] <= MaxTries
                 /\ code'[d].mailed => code'[d].timed
      <4>1. CASE d = c
        BY <1>1, <2>2, <2>3, <2>4, <3>1, <4>1 DEF TriesAreCounted
      <4>2. CASE d # c
        BY <2>3, <2>4, <3>2, <4>2 DEF TriesAreCounted
      <4> QED BY <4>1, <4>2
    <3> QED BY <3>2 DEF TriesAreCounted
  <2>8. CodesToday' \subseteq CodesToday
    BY <1>1, <2>2, <2>3 DEF CodesToday
  <2>9. CodesFit'
    BY <2>8, CodesStay DEF AppealTypes
  <2> QED BY <2>5, <2>6, <2>7, <2>9
<1>6. CASE usable /\ right
  <2> DEFINE r == [code[c] EXCEPT !.hash = FALSE]
  <2>1. /\ code' = code \/ code' = [code EXCEPT ![c] = r]
        /\ tries' = tries
        /\ \/ appeal' = appeal
           \/ /\ ~Active /\ code' = [code EXCEPT ![c] = r]
              /\ appeal' = Append(appeal, [status |-> "OPEN", code |-> c])
    BY <1>6 DEF AnswerCode, Current
  <2>2. /\ r \in Code /\ r.attempts = code[c].attempts /\ r.hash = FALSE
        /\ r.mailed = code[c].mailed /\ r.timed = code[c].timed /\ r.today = code[c].today
    BY <1>1 DEF Code
  <2>3. code[c].hash
    BY <1>6
  <2> HIDE DEF r, c
  <2>4. /\ code' \in Seq(Code) /\ Len(code') = Len(code) /\ DOMAIN code' = 1..Len(code)
        /\ \A d \in 1..Len(code) : code'[d] = code[d] \/ (d = c /\ code'[d] = r)
    <3>1. CASE code' = code
      BY <1>1, <3>1 DEF AppealTypes
    <3>2. CASE code' = [code EXCEPT ![c] = r]
      BY <1>1, <2>2, <3>2, CodeUpdate DEF AppealTypes
    <3> QED BY <2>1, <3>1, <3>2
  <2>5. TriesAreCounted'
    BY <2>1, <2>2, <2>4 DEF TriesAreCounted
  <2>6. CodesFit'
    <3>1. CodesToday' \subseteq CodesToday
      BY <1>1, <2>2, <2>4 DEF CodesToday
    <3> QED BY <3>1, CodesStay DEF AppealTypes
  <2>7. CASE appeal' = appeal
    <3>1. AppealTypes'
      BY <1>2, <1>3, <2>1, <2>4, <2>7 DEF AppealTypes
    <3>2. FiledIsSpent' /\ CodeFilesOnce'
      BY <2>2, <2>4, <2>7 DEF FiledIsSpent, CodeFilesOnce, AppealTypes
    <3> QED BY <2>5, <2>6, <3>1, <3>2
  <2>8. CASE /\ ~Active /\ code' = [code EXCEPT ![c] = r]
             /\ appeal' = Append(appeal, [status |-> "OPEN", code |-> c])
    <3> DEFINE f == [status |-> "OPEN", code |-> c]
    <3>1. f \in Filed /\ f.code = c
      BY <1>1 DEF Filed
    <3> HIDE DEF f
    <3>2. appeal' = Append(appeal, f)
      BY <2>8 DEF f
    <3>3. /\ appeal' \in Seq(Filed) /\ Len(appeal') = Len(appeal) + 1
          /\ DOMAIN appeal' = 1..Len(appeal) + 1
          /\ \A k \in 1..Len(appeal) : appeal'[k] = appeal[k]
          /\ appeal'[Len(appeal) + 1] = f
      BY <1>1, <3>1, <3>2 DEF AppealTypes
    <3>4. \A k \in 1..Len(appeal) : appeal[k].status = "CLOSED" /\ appeal[k].code # c
                                    /\ appeal[k].code \in 1..Len(code)
      BY <1>1, <2>3, <2>8 DEF Active, FiledIsSpent, AppealTypes
    <3>5. AppealTypes'
      <4>1. \A k \in DOMAIN appeal' : appeal'[k].code \in 1..Len(code')
        BY <1>1, <2>4, <3>1, <3>3, <3>4
      <4>2. UNCHANGED <<delivered, proven, member, desk, appeals, tries>>
        BY <1>2, <2>1
      <4> QED BY <1>3, <2>4, <3>3, <4>1, <4>2 DEF AppealTypes
    <3>6. FiledIsSpent'
      <4>1. code'[c] = r
        BY <1>1, <2>8 DEF AppealTypes
      <4>2. ASSUME NEW k \in 1..Len(appeal) + 1
            PROVE  ~code'[appeal'[k].code].hash
        <5>1. CASE k = Len(appeal) + 1
          BY <2>2, <3>1, <3>3, <4>1, <5>1
        <5>2. CASE k \in 1..Len(appeal)
          BY <1>1, <2>2, <2>4, <3>3, <3>4, <5>2 DEF FiledIsSpent
        <5> QED BY <1>1, <5>1, <5>2
      <4> QED BY <3>3, <4>2 DEF FiledIsSpent
    <3>7. CodeFilesOnce'
      <4>1. ASSUME NEW j \in 1..Len(appeal) + 1, NEW k \in 1..Len(appeal) + 1, j < k
            PROVE  appeal'[j].code # appeal'[k].code /\ appeal'[j].status = "CLOSED"
        <5>1. j \in 1..Len(appeal)
          BY <1>1, <4>1
        <5>2. CASE k = Len(appeal) + 1
          BY <3>1, <3>3, <3>4, <5>1, <5>2
        <5>3. CASE k \in 1..Len(appeal)
          BY <1>1, <3>3, <4>1, <5>1, <5>3 DEF CodeFilesOnce
        <5> QED BY <1>1, <5>2, <5>3
      <4> QED BY <3>3, <4>1 DEF CodeFilesOnce
    <3> QED BY <2>5, <2>6, <3>5, <3>6, <3>7
  <2> QED BY <2>1, <2>7, <2>8
<1> QED BY <1>4, <1>5, <1>6

\* The codes stand as they are and the appeals do too.
LEMMA LettersStay ==
    ASSUME AppealInv, UNCHANGED <<code, appeal, tries>>
    PROVE  FiledIsSpent' /\ TriesAreCounted' /\ CodesFit' /\ CodeFilesOnce'
<1>1. CodesToday' = CodesToday
  BY DEF CodesToday
<1> QED BY <1>1 DEF AppealInv, FiledIsSpent, TriesAreCounted, CodesFit, CodeFilesOnce

\* Time only makes codes older.
LEMMA TimeKeeps ==
    ASSUME AppealInv, (\E c \in DOMAIN code : ExpireCode(c)) \/ NextDay
    PROVE  AppealInv'
<1> USE DEF AppealInv
<1>1. /\ code' \in Seq(Code) /\ Len(code') = Len(code)
      /\ DOMAIN code' = 1..Len(code) /\ DOMAIN code = 1..Len(code)
      /\ \A d \in 1..Len(code) : /\ code'[d].hash = code[d].hash
                                 /\ code'[d].attempts = code[d].attempts
                                 /\ code'[d].mailed = code[d].mailed /\ code'[d].timed = code[d].timed
                                 /\ code'[d].today => code[d].today
  <2>1. ASSUME NEW c \in DOMAIN code, ExpireCode(c)
        PROVE  <1>1!:
    <3> DEFINE r == [code[c] EXCEPT !.fresh = FALSE]
    <3>1. c \in 1..Len(code) /\ code[c] \in Code /\ code' = [code EXCEPT ![c] = r]
      BY <2>1 DEF ExpireCode, AppealTypes
    <3>2. /\ r \in Code /\ r.hash = code[c].hash /\ r.attempts = code[c].attempts
          /\ r.mailed = code[c].mailed /\ r.timed = code[c].timed /\ r.today = code[c].today
      BY <3>1 DEF Code
    <3> HIDE DEF r
    <3> QED BY <3>1, <3>2, CodeUpdate DEF AppealTypes
  <2>2. CASE NextDay
    <3>1. DOMAIN code = 1..Len(code) /\ Len(code) \in Nat /\ \A d \in 1..Len(code) : code[d] \in Code
      BY DEF AppealTypes
    <3>2. code' = [d \in DOMAIN code |-> [code[d] EXCEPT !.today = FALSE, !.fresh = FALSE]]
      BY <2>2 DEF NextDay
    <3>3. ASSUME NEW d \in 1..Len(code)
          PROVE  /\ code'[d] \in Code /\ code'[d].hash = code[d].hash
                 /\ code'[d].attempts = code[d].attempts /\ code'[d].today = FALSE
                 /\ code'[d].mailed = code[d].mailed /\ code'[d].timed = code[d].timed
      BY <3>1, <3>2 DEF Code
    <3>4. code' \in [1..Len(code) -> Code]
      BY <3>1, <3>2, <3>3
    <3>5. code' \in Seq(Code) /\ Len(code') = Len(code) /\ DOMAIN code' = 1..Len(code)
      BY <3>1, <3>4, FunctionsAreSequences
    <3> QED BY <3>1, <3>3, <3>5
  <2> QED BY <2>1, <2>2
<1>2. /\ UNCHANGED <<delivered, proven, applicant, appeal, member, desk, tries>>
      /\ appeals' \in AppealWorld
  BY UsesFit DEF ExpireCode, NextDay, AppealTypes
<1>3. AppealTypes'
  BY <1>1, <1>2 DEF AppealTypes
<1>4. FiledIsSpent' /\ TriesAreCounted' /\ CodeFilesOnce'
  BY <1>1, <1>2 DEF FiledIsSpent, TriesAreCounted, CodeFilesOnce, AppealTypes
<1>5. CodesFit'
  <2>1. CodesToday' \subseteq CodesToday
    BY <1>1 DEF CodesToday
  <2> QED BY <2>1, CodesStay DEF AppealTypes
<1> QED BY <1>3, <1>4, <1>5

\* A member's row and what a desk read of it.
LEMMA MembersMove ==
    ASSUME AppealTypes, NEW m \in Member
    PROVE  /\ \A right \in BOOLEAN, role \in {"member", "read_only"} :
                Invite(m) \/ VerifyMember(m, right) \/ SetRole(m, role) \/ RemoveMember(m) =>
                    /\ member' \in [Member -> MemberRow] /\ appeals' \in AppealWorld
                    /\ desk' = desk \/ desk' = [desk EXCEPT ![m] = Free]
           /\ ReadMember(m) => desk' = [desk EXCEPT ![m] = [phase |-> "verify", seen |-> member[m]]]
<1> USE DEF AppealTypes
<1>1. /\ member[m] \in MemberRow /\ MaxTries \in Nat /\ Nobody \in MemberRow
      /\ appeals.invites \in Nat
  BY CapAssumption DEF MemberRow, Nobody, AppealWorld
<1>2. ASSUME Invite(m)
      PROVE  member' \in [Member -> MemberRow] /\ appeals' \in AppealWorld /\ desk' = desk
  <2>1. member' = [member EXCEPT ![m] = [row |-> TRUE, role |-> @.role, verified |-> @.verified,
                                         code |-> appeals.invites, attempts |-> 0]]
        /\ UNCHANGED desk /\ appeals' \in AppealWorld
    BY <1>2, UsesFit DEF Invite
  <2>2. [row |-> TRUE, role |-> member[m].role, verified |-> member[m].verified,
         code |-> appeals.invites, attempts |-> 0] \in MemberRow
    BY <1>1 DEF MemberRow
  <2>3. member' \in [Member -> MemberRow]
    BY <2>1, <2>2
  <2> QED BY <2>1, <2>3
<1>3. ASSUME NEW right \in BOOLEAN, VerifyMember(m, right)
      PROVE  /\ member' \in [Member -> MemberRow] /\ appeals' \in AppealWorld
             /\ desk' = [desk EXCEPT ![m] = Free]
  <2> DEFINE seen == desk[m].seen
  <2>1. seen \in MemberRow
    BY <1>3 DEF VerifyMember, Free
  <2>2. UNCHANGED appeals /\ desk' = [desk EXCEPT ![m] = Free]
    BY <1>3 DEF VerifyMember
  <2>3. \/ member' = member
        \/ member' = [member EXCEPT ![m].verified = TRUE, ![m].code = 0, ![m].attempts = 0]
        \/ /\ ~(seen.attempts >= MaxTries)
           /\ member' = [member EXCEPT ![m].attempts = seen.attempts + 1]
    BY <1>3 DEF VerifyMember
  <2> HIDE DEF AppealTypes, seen
  <2>m. member \in [Member -> MemberRow]
    BY DEF AppealTypes
  <2>4. [member EXCEPT ![m].verified = TRUE, ![m].code = 0, ![m].attempts = 0]
          \in [Member -> MemberRow]
    <3>1. 0 \in 0..MaxTries /\ 0 \in Nat
      BY <1>1
    <3>2. [member EXCEPT ![m].verified = TRUE] \in [Member -> MemberRow]
      BY <1>1, <2>m DEF MemberRow
    <3>3. [member EXCEPT ![m].verified = TRUE, ![m].code = 0] \in [Member -> MemberRow]
      BY <1>1, <3>1, <3>2 DEF MemberRow
    <3> QED BY <1>1, <3>1, <3>3 DEF MemberRow
  <2>5. ~(seen.attempts >= MaxTries) =>
            [member[m] EXCEPT !.attempts = seen.attempts + 1] \in MemberRow
    <3>1. /\ member[m] \in [row : BOOLEAN, role : {"member", "read_only"}, verified : BOOLEAN,
                            code : Nat, attempts : 0 .. MaxTries]
          /\ seen.attempts \in 0..MaxTries
      BY <1>1, <2>1 DEF MemberRow
    <3>2. ~(seen.attempts >= MaxTries) => seen.attempts + 1 \in 0..MaxTries
      BY <1>1, <3>1
    <3> QED BY <3>1, <3>2 DEF MemberRow
  <2>6. member' \in [Member -> MemberRow]
    <3>1. ~(seen.attempts >= MaxTries) =>
              [member EXCEPT ![m].attempts = seen.attempts + 1] \in [Member -> MemberRow]
      BY <2>m, <2>5
    <3>2. CASE member' = member
      BY <2>m, <3>2
    <3>3. CASE member' = [member EXCEPT ![m].verified = TRUE, ![m].code = 0, ![m].attempts = 0]
      <4> DEFINE w == [member EXCEPT ![m].verified = TRUE, ![m].code = 0, ![m].attempts = 0]
      <4>1. w \in [Member -> MemberRow] /\ member' = w
        BY <2>4, <3>3
      <4> HIDE DEF w
      <4> QED BY <4>1
    <3>4. CASE ~(seen.attempts >= MaxTries) /\ member' = [member EXCEPT ![m].attempts = seen.attempts + 1]
      BY <3>1, <3>4
    <3> QED BY <2>3, <3>2, <3>3, <3>4
  <2> QED BY <2>2, <2>6 DEF AppealTypes
<1>4. ASSUME NEW role \in {"member", "read_only"}, SetRole(m, role)
      PROVE  member' \in [Member -> MemberRow] /\ appeals' \in AppealWorld /\ desk' = desk
  <2>1. member' = [member EXCEPT ![m].role = role] /\ UNCHANGED desk /\ appeals' \in AppealWorld
    BY <1>4, UsesFit DEF SetRole
  <2>2. [member[m] EXCEPT !.role = role] \in MemberRow
    BY <1>1 DEF MemberRow
  <2> QED BY <2>1, <2>2
<1>5. ASSUME RemoveMember(m)
      PROVE  member' \in [Member -> MemberRow] /\ appeals' \in AppealWorld /\ desk' = desk
  <2>1. member' = [member EXCEPT ![m] = Nobody] /\ UNCHANGED desk /\ appeals' \in AppealWorld
    BY <1>5, UsesFit DEF RemoveMember
  <2> HIDE DEF AppealTypes
  <2>2. member' \in [Member -> MemberRow]
    <3>1. member \in [Member -> MemberRow]
      BY DEF AppealTypes
    <3> QED BY <1>1, <2>1, <3>1
  <2> QED BY <2>1, <2>2
<1>6. ReadMember(m) => desk' = [desk EXCEPT ![m] = [phase |-> "verify", seen |-> member[m]]]
  BY DEF ReadMember
<1> QED BY <1>2, <1>3, <1>4, <1>5, <1>6

\* What reviewers and members do leaves the letters alone, but for the status
\* of an appeal, which only moves forward.
LEMMA DesksKeep ==
    ASSUME AppealInv, NEW m \in Member \union Owner,
           \/ CheckWriter(m) \/ ResolveAppeal(m)
           \/ m \in Member /\ \/ Invite(m) \/ ReadMember(m)
                              \/ \E right \in BOOLEAN : VerifyMember(m, right)
                              \/ \E role \in {"member", "read_only"} : SetRole(m, role)
                              \/ RemoveMember(m)
    PROVE  AppealInv'
<1> USE DEF AppealInv
<1>1. /\ UNCHANGED <<delivered, proven, code, applicant, tries>>
      /\ appeals' \in AppealWorld /\ member' \in [Member -> MemberRow]
      /\ \/ desk' = desk \/ desk' = [desk EXCEPT ![m] = Free]
         \/ m \in Member /\ desk' = [desk EXCEPT ![m] = [phase |-> "verify", seen |-> member[m]]]
         \/ desk' = [desk EXCEPT ![m] = [phase |-> "resolve"]]
  <2>1. CASE CheckWriter(m) \/ ResolveAppeal(m)
    BY <2>1 DEF CheckWriter, ResolveAppeal, AppealTypes
  <2>2. CASE m \in Member /\ \/ Invite(m) \/ ReadMember(m)
                             \/ \E right \in BOOLEAN : VerifyMember(m, right)
                             \/ \E role \in {"member", "read_only"} : SetRole(m, role)
                             \/ RemoveMember(m)
    <3>1. UNCHANGED <<delivered, proven, code, applicant, tries>>
      BY <2>2 DEF Invite, ReadMember, VerifyMember, SetRole, RemoveMember
    <3>2. CASE ReadMember(m)
      BY <2>2, <3>1, <3>2 DEF ReadMember, AppealTypes
    <3> QED BY <2>2, <3>1, <3>2, MembersMove
  <2> QED BY <2>1, <2>2
<1>2. desk' \in [Member \union Owner -> {Free} \union [phase : {"verify"}, seen : MemberRow]
                                               \union [phase : {"resolve"}]]
  <2>1. desk \in [Member \union Owner -> {Free} \union [phase : {"verify"}, seen : MemberRow]
                                                \union [phase : {"resolve"}]]
    BY DEF AppealTypes
  <2>2. m \in Member => [phase |-> "verify", seen |-> member[m]] \in [phase : {"verify"}, seen : MemberRow]
    BY DEF AppealTypes
  <2>3. [phase |-> "resolve"] \in [phase : {"resolve"}]
    OBVIOUS
  <2> QED BY <1>1, <2>1, <2>2, <2>3
<1>3. CASE appeal' = appeal
  <2>1. AppealTypes'
    BY <1>1, <1>2, <1>3 DEF AppealTypes
  <2> QED BY <1>1, <1>3, <2>1, LettersStay
<1>4. CASE appeal' # appeal
  <2>1. PICK k \in DOMAIN appeal, status \in {"ACKNOWLEDGED", "CLOSED"} :
          appeal[k].status # "CLOSED" /\ appeal' = [appeal EXCEPT ![k].status = status]
    BY <1>4 DEF CheckWriter, ResolveAppeal, Invite, ReadMember, VerifyMember, SetRole, RemoveMember
  <2> DEFINE r == [appeal[k] EXCEPT !.status = status]
  <2>2. /\ DOMAIN appeal = 1..Len(appeal) /\ appeal[k] \in Filed
        /\ r \in Filed /\ r.code = appeal[k].code /\ r.status = status
    <3>1. DOMAIN appeal = 1..Len(appeal) /\ appeal[k] \in Filed
      BY DEF AppealTypes
    <3> QED BY <3>1 DEF Filed
  <2>3. appeal' = [appeal EXCEPT ![k] = r]
    BY <2>1
  <2> HIDE DEF r
  <2>4. /\ appeal' \in Seq(Filed) /\ Len(appeal') = Len(appeal) /\ DOMAIN appeal' = DOMAIN appeal
        /\ \A j \in DOMAIN appeal : appeal'[j].code = appeal[j].code
        /\ \A j \in DOMAIN appeal : j # k => appeal'[j] = appeal[j]
    BY <2>2, <2>3 DEF AppealTypes
  <2>5. AppealTypes'
    BY <1>1, <1>2, <2>4 DEF AppealTypes
  <2>6. CodeFilesOnce'
    <3>1. ASSUME NEW i \in DOMAIN appeal, NEW j \in DOMAIN appeal, i < j
          PROVE  appeal'[i].code # appeal'[j].code /\ appeal'[i].status = "CLOSED"
      <4>1. i # k
        BY <2>1, <3>1 DEF CodeFilesOnce
      <4> QED BY <2>4, <3>1, <4>1 DEF CodeFilesOnce
    <3> QED BY <2>4, <3>1 DEF CodeFilesOnce
  <2>7. FiledIsSpent'
    BY <1>1, <2>4 DEF FiledIsSpent
  <2>8. TriesAreCounted' /\ CodesToday' = CodesToday
    BY <1>1 DEF TriesAreCounted, CodesToday
  <2> QED BY <2>5, <2>6, <2>7, <2>8 DEF CodesFit
<1> QED BY <1>3, <1>4

LEMMA AppealsGoOn == AppealInv /\ [AppealNext]_appealVars => AppealInv'
<1> SUFFICES ASSUME AppealInv, [AppealNext]_appealVars PROVE AppealInv'
  OBVIOUS
<1>1. ASSUME NEW a \in Applicant, ChooseCode(a)
      PROVE  AppealInv'
  <2>1. PICK c \in DOMAIN code :
          applicant' = [applicant EXCEPT ![a] = [phase |-> "locked", c |-> c, seen |-> code[c]]]
    BY <1>1 DEF ChooseCode
  <2> DEFINE q == [phase |-> "locked", c |-> c, seen |-> code[c]]
  <2>2. q \in Submission /\ q.c = c /\ c \in 1..Len(code)
    BY DEF Submission, AppealInv, AppealTypes
  <2>3. applicant' = [applicant EXCEPT ![a] = q]
    BY <2>1
  <2> HIDE DEF q
  <2>4. UNCHANGED <<delivered, proven, code, appeal, member, desk, tries, appeals>>
    BY <1>1 DEF ChooseCode
  <2>5. AppealTypes'
    BY <2>2, <2>3, <2>4 DEF AppealInv, AppealTypes
  <2> QED BY <2>4, <2>5, LettersStay DEF AppealInv
<1>2. CASE Delivered \/ Unprove \/ Reprove
  <2>1. UNCHANGED <<code, applicant, appeal, member, desk, tries>> /\ appeals' \in AppealWorld
        /\ delivered' \in BOOLEAN /\ proven' \in BOOLEAN
    BY <1>2, UsesFit DEF Delivered, Unprove, Reprove, AppealInv, AppealTypes
  <2>2. AppealTypes'
    BY <2>1 DEF AppealInv, AppealTypes
  <2> QED BY <2>1, <2>2, LettersStay DEF AppealInv
<1>3. CASE UNCHANGED appealVars
  <2>1. UNCHANGED <<delivered, proven, code, applicant, appeal, member, desk, tries, appeals>>
    BY <1>3 DEF appealVars
  <2>2. AppealTypes'
    BY <2>1 DEF AppealInv, AppealTypes
  <2> QED BY <2>1, <2>2, LettersStay DEF AppealInv
<1> QED BY <1>1, <1>2, <1>3, RequestKeeps, AnswerKeeps, TimeKeeps, DesksKeep DEF AppealNext

\* Type correctness of the appeals and of the allowlist (lib/appeals, lib/auth).
THEOREM AppealTypeCorrect == AppealSpec => []AppealTypeOK
<1>1. AppealInv => AppealTypeOK
  <2> SUFFICES ASSUME AppealInv PROVE AppealTypeOK
    OBVIOUS
  <2>1. \A k \in DOMAIN appeal : appeal[k] \in Filed /\ appeal[k].code \in DOMAIN code
    BY DEF AppealInv, AppealTypes
  <2>2. \A m \in Member \union Owner : desk[m].phase \in {"idle", "verify", "resolve"}
    BY DEF AppealInv, AppealTypes, Free
  <2> QED BY <2>1, <2>2 DEF AppealInv, AppealTypes, AppealTypeOK, Filed, MemberRow
<1>2. AppealSpec => []AppealInv
  BY AppealsBegin, AppealsGoOn, PTL DEF AppealSpec
<1> QED BY <1>1, <1>2, PTL

\* What strangers make the program do stays within its counts: the caps of the
\* two doors, one appeal by code, and so many guesses.
THEOREM OutsideStaysBounded == IntakeSpec /\ AppealSpec => []OutsideIsBounded
<1>1. AppealInv => CodeFilesOnce /\ GuessesAreBounded
  <2> SUFFICES ASSUME AppealInv PROVE CodeFilesOnce /\ GuessesAreBounded
    OBVIOUS
  <2>1. DOMAIN code = 1..Len(code) /\ MaxCodes \in Nat
    BY CapAssumption DEF AppealInv, AppealTypes
  <2>2. IsFiniteSet(CodesToday) /\ Cardinality(CodesToday) <= MaxCodes
    <3>1. IsFiniteSet(1..Len(code))
      BY FS_Interval
    <3> QED BY <2>1, <3>1, FS_Subset DEF AppealInv, CodesFit, CodesToday
  <2>3. {c \in DOMAIN code : code[c].today /\ code[c].mailed} \in SUBSET CodesToday
    BY <2>1 DEF AppealInv, TriesAreCounted, CodesToday
  <2>4. Cardinality(CodesToday) \in Nat
    BY <2>2, FS_CardinalityType
  <2>5. Cardinality({c \in DOMAIN code : code[c].today /\ code[c].mailed}) <= MaxCodes
    BY <2>1, <2>2, <2>3, <2>4, NoMore
  <2> QED BY <2>1, <2>5 DEF AppealInv, GuessesAreBounded, TriesAreCounted
<1>2. AppealSpec => []AppealInv
  BY AppealsBegin, AppealsGoOn, PTL DEF AppealSpec
<1>3. CapsHold /\ IntakeTypeOK /\ AppealTypeOK /\ CodeFilesOnce /\ GuessesAreBounded => OutsideIsBounded
  BY DEF OutsideIsBounded
<1> QED BY <1>1, <1>2, <1>3, DoorTypeCorrect, CapsAlwaysHold, AppealTypeCorrect, PTL

-----------------------------------------------------------------------------
(***************************************************************************)
(* ImageBuild, for any targets, services, builds and faults.               *)
(***************************************************************************)
Part == Service \union {NoService}
Making == {"create", "stage", "clone", "code", "push", "name", "register", "reclaim"}
TokenPhases == {"clone", "dead"}
BuildRow == [phase : Making \union {"teardown", "finish", "over", "dead"}, t : Target,
             todo : SUBSET Part, made : SUBSET Part, tries : Nat,
             box : {"none", "up", "gone"}, token : {"none", "live", "asked", "revoked"}, ok : BOOLEAN]
AllFiles == UNION {Files(names) : names \in SUBSET Service}
JobRow == [state : {"none", "planning", "building", "built", "configured", "failed", "unsupported"},
           files : AllFiles, plan : {Refused} \union {Classify(f) : f \in AllFiles} \union Proposals,
           by : Build \union {0}, attempts : 0..MaxAttempts, ids : SUBSET Id]

\* A build at work has a service left, and its token was asked back where code runs.
Fit(r) == /\ r.phase \in Making => r.todo # {}
          /\ r.token = "live" => r.phase \in TokenPhases

BuildsOK == /\ build \in [Build -> {FreeSlot} \union BuildRow]
            /\ \A b \in Build : build[b] # FreeSlot => Fit(build[b])

\* A row's plan is what its files come to or a saved one, its build is its own, and a state
\* that may be claimed has an attempt left.
JobFits(t) ==
    /\ job[t].plan \in {Refused, Classify(job[t].files)} \union Proposals
    /\ job[t].by # 0 => /\ job[t].state = "building"
                        /\ build[job[t].by] # FreeSlot
                        /\ TargetOf(job[t].by) = t
    /\ job[t].state \in {"planning", "building", "built"} /\ job[t].by = 0
          => job[t].attempts < MaxAttempts
JobsOK == job \in [Target -> JobRow] /\ \A t \in Target : JobFits(t)

\* A tag and a snapshot carry a name of the target of the build behind them.
TagFits(x) == /\ x.by \in Build /\ build[x.by] # FreeSlot
              /\ x.ref[1] \in NamesOf(TargetOf(x.by))
RegistryOK == \A x \in registry : TagFits(x)

SnapshotFits(id) ==
    /\ snapshot[id].st # "absent" => build[id[1]] # FreeSlot
    /\ snapshot[id].st = "active" =>
         /\ snapshot[id].holds \in Build /\ build[snapshot[id].holds] # FreeSlot
         /\ NameOf(id) \in NamesOf(TargetOf(snapshot[id].holds))
SnapshotsOK ==
    /\ snapshot \in [Id -> [st : {"absent", "pulling", "active", "error", "deleting"},
                            holds : Build \union {0}]]
    /\ \A id \in Id : SnapshotFits(id)

ImageInv == BuildsOK /\ JobsOK /\ RegistryOK /\ SnapshotsOK

\* A build that has begun stays one, of its target.
Kept == \A b \in Build : build[b] # FreeSlot => build'[b] # FreeSlot /\ build'[b].t = build[b].t

LEMMA Parts == \A id \in Id : id[1] \in Build /\ id[2] \in Part /\ id = <<id[1], id[2]>>
  BY DEF Id, Part

LEMMA Unfree == \A r \in BuildRow : r # FreeSlot
  BY DEF BuildRow, FreeSlot, Making

\* What the classifier decided on is read back and provisioned.
LEMMA MeshIsUsable ==
    ASSUME NEW files \in AllFiles, NEW plan, plan = Classify(files), plan.strategy = "compose-mesh"
    PROVE  /\ DOMAIN plan.services \in SUBSET Service /\ DOMAIN plan.services # {}
           /\ (\A n \in DOMAIN plan.services : plan.services[n].build # "stray") => Parses(plan)
           /\ (\A n \in DOMAIN plan.services : plan.services[n].start # "host") => BuiltParses(Built(plan))
           /\ Provisions(Built(plan))
  <1> DEFINE f == files.compose
             app == CHOOSE n \in AppOf(f, files.hint) : TRUE
             mesh == [n \in Entries(f) |-> MeshService(f, n, app)]
  <1>1. Refused.strategy = "not-flattenable" /\ Thrown.strategy = "thrown"
        /\ [strategy |-> "dockerfile"].strategy = "dockerfile"
    BY DEF Refused, Thrown
  <1>2. ComposeSynth(f).strategy = "compose-synth"
    BY DEF ComposeSynth
  <1>3. Meshes(f, files.hint) /\ plan = ComposeMesh(f, files.hint)
    BY <1>1, <1>2 DEF Classify, Resolved
  <1>4. plan = [strategy |-> "compose-mesh", app |-> app, services |-> mesh]
    BY <1>3 DEF ComposeMesh
  <1>5. plan.services = mesh /\ plan.app = app /\ DOMAIN mesh = Entries(f)
    BY <1>4
  <1>6. AppOf(f, files.hint) # {}
    BY <1>3, FS_EmptySet DEF Meshes
  <1>7. app \in FrontDoors(f)
    BY <1>6 DEF AppOf, Published
  <1>8. app \in Entries(f) /\ f[app].port # "none" /\ Entries(f) \subseteq DOMAIN f
    BY <1>7 DEF FrontDoors, Entries
  <1>9. DOMAIN f \subseteq Service
    <2>1. PICK names \in SUBSET Service : files \in Files(names)
      BY DEF AllFiles
    <2> QED
      BY <2>1 DEF Files
  <1>10. \A n \in Entries(f) : /\ mesh[n].role = "app" <=> n = app
                               /\ mesh[n].peers \subseteq Entries(f)
    BY DEF MeshService, Peers
  <1>11. mesh[app].port
    BY <1>8 DEF MeshService
  <1>12. AppsOf(mesh) = {app} /\ Known(mesh)
    BY <1>5, <1>8, <1>10 DEF AppsOf, Known
  <1> HIDE DEF mesh, app, f
  <1>13. ASSUME \A n \in DOMAIN plan.services : plan.services[n].build # "stray" PROVE Parses(plan)
    <2>1. mesh # NoCompose
      <3>1. DOMAIN NoCompose = {}
        BY DEF NoCompose
      <3> QED
        BY <3>1, <1>5, <1>8
    <2> QED
      BY <1>5, <1>11, <1>12, <1>13, <2>1 DEF Parses, MeshParses
  <1>14. /\ DOMAIN Built(plan) = Entries(f)
         /\ \A n \in Entries(f) : /\ Built(plan)[n].role = mesh[n].role
                                  /\ Built(plan)[n].port = mesh[n].port
                                  /\ Built(plan)[n].peers = mesh[n].peers
                                  /\ Built(plan)[n].host = (mesh[n].start = "host")
    BY <1>5 DEF Built
  <1>15. AppsOf(Built(plan)) = {app} /\ Known(Built(plan)) /\ Built(plan)[app].port
    BY <1>5, <1>8, <1>11, <1>12, <1>14 DEF AppsOf, Known
  <1>16. Cardinality({app}) = 1
    BY FS_Singleton
  <1>17. Provisions(Built(plan))
    BY <1>15, <1>16 DEF Provisions
  <1>18. ASSUME \A n \in DOMAIN plan.services : plan.services[n].start # "host" PROVE BuiltParses(Built(plan))
    BY <1>5, <1>14, <1>15, <1>16, <1>18 DEF BuiltParses
  <1> QED
    BY <1>5, <1>8, <1>9, <1>13, <1>17, <1>18

\* What the agent saved is read back and provisioned, too.
LEMMA ProposalIsUsable ==
    ASSUME NEW plan \in Proposals, plan.strategy = "compose-mesh"
    PROVE  /\ DOMAIN plan.services \in SUBSET Service /\ DOMAIN plan.services # {}
           /\ (\A n \in DOMAIN plan.services : plan.services[n].build # "stray") => Parses(plan)
           /\ (\A n \in DOMAIN plan.services : plan.services[n].start # "host") => BuiltParses(Built(plan))
           /\ Provisions(Built(plan))
  <1> DEFINE mesh == plan.services
  <1>1. Parses(plan) /\ DOMAIN mesh \subseteq Service
    <2>1. [strategy |-> "agent-authored"].strategy # "compose-mesh"
      OBVIOUS
    <2> QED
      BY <2>1, ProposalsAssumption
  <1>2. AppsOf(mesh) = {plan.app} /\ Known(mesh) /\ mesh[plan.app].port
    BY <1>1 DEF Parses, MeshParses
  <1>3. plan.app \in DOMAIN mesh
    BY <1>2 DEF AppsOf
  <1>4. /\ DOMAIN Built(plan) = DOMAIN mesh
        /\ \A n \in DOMAIN mesh : /\ Built(plan)[n].role = mesh[n].role
                                  /\ Built(plan)[n].port = mesh[n].port
                                  /\ Built(plan)[n].peers = mesh[n].peers
                                  /\ Built(plan)[n].host = (mesh[n].start = "host")
    BY DEF Built
  <1> HIDE DEF mesh
  <1>5. AppsOf(Built(plan)) = {plan.app} /\ Known(Built(plan)) /\ Built(plan)[plan.app].port
    BY <1>2, <1>3, <1>4 DEF AppsOf, Known
  <1>6. Cardinality({plan.app}) = 1
    BY FS_Singleton
  <1>7. Provisions(Built(plan))
    BY <1>5, <1>6 DEF Provisions
  <1>8. ASSUME \A n \in DOMAIN mesh : mesh[n].start # "host" PROVE BuiltParses(Built(plan))
    BY <1>4, <1>5, <1>6, <1>8 DEF BuiltParses
  <1> QED
    BY <1>1, <1>3, <1>7, <1>8 DEF mesh

LEMMA ImagesFit ==
    ASSUME NEW t \in Target, job[t].files \in AllFiles, job[t].plan \in {Refused, Classify(job[t].files)} \union Proposals
    PROVE  Images_(job[t].plan) \in SUBSET Part /\ Images_(job[t].plan) # {}
  <1>1. CASE job[t].plan.strategy = "compose-mesh"
    <2>1. job[t].plan = Classify(job[t].files) \/ job[t].plan \in Proposals
      BY <1>1 DEF Refused
    <2> QED
      BY <1>1, <2>1, MeshIsUsable, ProposalIsUsable DEF Images_, Part
  <1>2. CASE job[t].plan.strategy # "compose-mesh"
    BY <1>2 DEF Images_, Part
  <1> QED
    BY <1>1, <1>2

-----------------------------------------------------------------------------
LEMMA BuildWrite ==
    ASSUME BuildsOK, NEW b \in Build, NEW r \in BuildRow, Fit(r), Set(b, r),
           build[b] # FreeSlot => r.t = build[b].t
    PROVE  BuildsOK' /\ Kept
  <1>1. build' = [build EXCEPT ![b] = r]
    BY DEF Set
  <1>2. build' \in [Build -> {FreeSlot} \union BuildRow]
    BY <1>1 DEF BuildsOK
  <1>3. \A c \in Build : build'[c] = IF c = b THEN r ELSE build[c]
    BY <1>1 DEF BuildsOK
  <1>4. r # FreeSlot
    BY Unfree
  <1> QED
    BY <1>2, <1>3, <1>4 DEF BuildsOK, Kept, Fit

\* A step of a build writes its own row, which keeps its target.
Advances(b) == build[b] # FreeSlot /\ \E r \in BuildRow : Fit(r) /\ r.t = build[b].t /\ Set(b, r)

LEMMA WentOn ==
    ASSUME BuildsOK, NEW b \in Build, build[b] # FreeSlot, NEW phase, GoTo(b, phase),
           phase \in Making \union {"teardown", "finish", "over", "dead"},
           phase \in Making => build[b].phase \in Making,
           phase \in TokenPhases \/ build[b].phase \notin TokenPhases
    PROVE  Advances(b)
  <1> DEFINE r == [build[b] EXCEPT !.phase = phase]
  <1>1. build[b] \in BuildRow
    BY DEF BuildsOK
  <1>2. r \in BuildRow /\ r.phase = phase /\ r.t = build[b].t /\ r.todo = build[b].todo
        /\ r.token = build[b].token
    BY <1>1 DEF BuildRow
  <1>3. Fit(r)
    BY <1>2 DEF BuildsOK, Fit
  <1> QED
    BY <1>2, <1>3 DEF GoTo, Advances

LEMMA DriverAdvances ==
    ASSUME BuildsOK, NEW b \in Build, Driver(b) \/ Abandon(b) \/ Crash(b) \/ Expire(b)
    PROVE  UNCHANGED build \/ Advances(b)
  <1> DEFINE slot == build[b]
             busy == slot \in BuildRow /\ slot # FreeSlot /\ Fit(slot)
  <1>1. slot.phase # "free" => busy
    BY DEF BuildsOK, FreeSlot
  <1>2. slot.box = "up" => busy
    BY DEF BuildsOK, FreeSlot
  <1> USE DEF Making, TokenPhases
  <1>3. CASE CreateSandbox(b)
    <2>1. busy
      BY <1>1, <1>3 DEF CreateSandbox
    <2>2. CASE GoTo(b, "finish")
      BY <1>3, <2>1, <2>2, WentOn DEF CreateSandbox
    <2>3. CASE Set(b, [slot EXCEPT !.box = "up", !.phase = "stage"])
      <3> DEFINE r == [slot EXCEPT !.box = "up", !.phase = "stage"]
      <3>1. r \in BuildRow /\ r.phase = "stage" /\ r.t = slot.t /\ r.todo = slot.todo /\ r.token = slot.token
        BY <2>1 DEF BuildRow
      <3>2. Fit(r)
        BY <1>3, <2>1, <3>1 DEF Fit, CreateSandbox
      <3> QED
        BY <2>1, <2>3, <3>1, <3>2 DEF Advances
    <2> QED
      BY <1>3, <2>2, <2>3 DEF CreateSandbox
  <1>4. CASE Stage(b)
    <2>1. busy
      BY <1>1, <1>4 DEF Stage
    <2>2. CASE GoTo(b, "code")
      BY <1>4, <2>1, <2>2, WentOn DEF Stage
    <2>3. CASE Set(b, [slot EXCEPT !.token = "live", !.phase = "clone"])
      <3> DEFINE r == [slot EXCEPT !.token = "live", !.phase = "clone"]
      <3>1. r \in BuildRow /\ r.phase = "clone" /\ r.t = slot.t /\ r.todo = slot.todo
        BY <2>1 DEF BuildRow
      <3>2. Fit(r)
        BY <1>4, <2>1, <3>1 DEF Fit, Stage
      <3> QED
        BY <2>1, <2>3, <3>1, <3>2 DEF Advances
    <2> QED
      BY <1>4, <2>2, <2>3 DEF Stage
  <1>5. CASE Clone(b)
    <2>1. busy
      BY <1>1, <1>5 DEF Clone
    <2>2. PICK cloned \in BOOLEAN, after \in {"revoked", "asked"} :
             Set(b, [slot EXCEPT !.token = after, !.phase = IF cloned THEN "code" ELSE "teardown"])
      BY <1>5 DEF Clone
    <2> DEFINE phase == IF cloned THEN "code" ELSE "teardown"
               r == [slot EXCEPT !.token = after, !.phase = phase]
    <2>3. phase \in {"code", "teardown"}
      OBVIOUS
    <2>4. Set(b, r)
      BY <2>2
    <2> HIDE DEF phase
    <2>5. r \in BuildRow /\ r.phase = phase /\ r.t = slot.t /\ r.todo = slot.todo /\ r.token = after
      BY <2>1, <2>3 DEF BuildRow
    <2>6. Fit(r)
      BY <1>5, <2>1, <2>5 DEF Fit, Clone
    <2> QED
      BY <2>1, <2>4, <2>5, <2>6 DEF Advances
  <1>6. CASE RunCode(b)
    BY <1>1, <1>6, WentOn DEF RunCode
  <1>7. CASE Push(b)
    BY <1>1, <1>7, WentOn DEF Push
  <1>8. CASE FreeName(b)
    <2>1. busy
      BY <1>1, <1>8 DEF FreeName
    <2> DEFINE r == [slot EXCEPT !.phase = "register", !.tries = 0]
    <2>2. r \in BuildRow /\ r.phase = "register" /\ r.t = slot.t /\ r.todo = slot.todo /\ r.token = slot.token
      BY <2>1 DEF BuildRow
    <2>3. Fit(r)
      BY <1>8, <2>1, <2>2 DEF Fit, FreeName
    <2> QED
      BY <1>8, <2>1, <2>2, <2>3 DEF Advances, FreeName
  <1>9. CASE Register(b)
    <2>1. busy /\ slot.phase = "register"
      BY <1>1, <1>9 DEF Register
    <2>2. CASE GoTo(b, "reclaim")
      BY <2>1, <2>2, WentOn
    <2>3. CASE Set(b, [slot EXCEPT !.phase = "teardown"])
      BY <2>1, <2>3, WentOn DEF GoTo
    <2>4. CASE Set(b, [slot EXCEPT !.tries = @ + 1])
      <3> DEFINE r == [slot EXCEPT !.tries = @ + 1]
      <3>1. r \in BuildRow /\ r.phase = slot.phase /\ r.t = slot.t /\ r.todo = slot.todo /\ r.token = slot.token
        BY <2>1 DEF BuildRow
      <3>2. Fit(r)
        BY <2>1, <3>1 DEF Fit
      <3> QED
        BY <2>1, <2>4, <3>1, <3>2 DEF Advances
    <2>5. CASE GoTo(b, "teardown")
      BY <2>1, <2>5, WentOn
    <2> QED
      BY <1>9, <2>2, <2>3, <2>4, <2>5 DEF Register
  <1>10. CASE Reclaim(b)
    <2>1. busy /\ slot.phase = "reclaim"
      BY <1>1, <1>10 DEF Reclaim
    <2> DEFINE s == Service_(b)
               phase == IF slot.todo = {s} THEN "teardown" ELSE "code"
               ok == slot.todo = {s}
               r == [slot EXCEPT !.todo = @ \ {s}, !.made = @ \union {s}, !.ok = ok, !.phase = phase]
    <2>2. s \in slot.todo /\ s \in Part
      BY <2>1 DEF Fit, Service_, BuildRow
    <2>3. Set(b, r)
      BY <1>10 DEF Reclaim, Next_
    <2>4. ok \in BOOLEAN /\ phase \in {"teardown", "code"}
      OBVIOUS
    <2>5. slot.todo \ {s} \in SUBSET Part /\ slot.made \union {s} \in SUBSET Part
      BY <2>1, <2>2 DEF BuildRow
    <2> HIDE DEF ok, phase, s
    <2>6. r \in BuildRow /\ r.phase = phase /\ r.t = slot.t /\ r.todo = slot.todo \ {s} /\ r.token = slot.token
      BY <2>1, <2>4, <2>5 DEF BuildRow
    <2>7. phase = "code" => slot.todo \ {s} # {}
      BY <2>2 DEF phase
    <2>8. Fit(r)
      BY <2>1, <2>4, <2>6, <2>7 DEF Fit
    <2> QED
      BY <2>1, <2>3, <2>6, <2>8 DEF Advances
  <1>11. CASE Teardown(b)
    <2>1. busy /\ slot.phase = "teardown"
      BY <1>1, <1>11 DEF Teardown
    <2>2. CASE GoTo(b, "finish")
      BY <2>1, <2>2, WentOn
    <2>3. CASE Set(b, [slot EXCEPT !.phase = "finish", !.box = "gone"])
      <3> DEFINE r == [slot EXCEPT !.phase = "finish", !.box = "gone"]
      <3>1. r \in BuildRow /\ r.phase = "finish" /\ r.t = slot.t /\ r.token = slot.token
        BY <2>1 DEF BuildRow
      <3> QED
        BY <2>1, <2>3, <3>1 DEF Advances, Fit
    <2> QED
      BY <1>11, <2>2, <2>3 DEF Teardown
  <1>12. CASE Finish(b)
    BY <1>1, <1>12, WentOn DEF Finish
  <1>13. CASE Throws(b, {"stage", "code", "push"})
    BY <1>1, <1>13, WentOn DEF Throws
  <1>14. CASE Crash(b)
    BY <1>1, <1>14, WentOn DEF Crash, Running
  <1>15. CASE Expire(b)
    <2>1. busy
      BY <1>2, <1>15 DEF Expire
    <2> DEFINE r == [slot EXCEPT !.box = "gone"]
    <2>2. r \in BuildRow /\ r.phase = slot.phase /\ r.t = slot.t /\ r.todo = slot.todo /\ r.token = slot.token
      BY <2>1 DEF BuildRow
    <2>3. Fit(r)
      BY <2>1, <2>2 DEF Fit
    <2> QED
      BY <1>15, <2>1, <2>2, <2>3 DEF Advances, Expire
  <1> QED
    BY <1>3, <1>4, <1>5, <1>6, <1>7, <1>8, <1>9, <1>10, <1>11, <1>12, <1>13, <1>14, <1>15
       DEF Driver, Abandon

\* Begin takes the lowest free number.
BeginFree == {b \in Build : build[b] = FreeSlot}
Taken_(b) == b \in BeginFree /\ \A y \in BeginFree : b <= y

LEMMA BeginsOne ==
    ASSUME NEW t \in Target, Begin(t), Parses(job[t].plan)
    PROVE  \E b \in Build :
             /\ build[b] = FreeSlot /\ Set(b, NewBuild(t))
             /\ job' = [job EXCEPT ![t] = [job[t] EXCEPT !.attempts = @ + 1, !.by = b]]
  <1> DEFINE b == CHOOSE x \in BeginFree : \A y \in BeginFree : x <= y
  <1>1. BeginFree # {}
    BY DEF Begin, BeginFree
  <1>2. /\ job' = [job EXCEPT ![t] = [[job[t] EXCEPT !.attempts = @ + 1] EXCEPT !.by = b]]
        /\ Set(b, NewBuild(t))
    BY DEF Begin, BeginFree
  <1>3. \E x \in BeginFree : \A y \in BeginFree : x <= y
    <2>1. BeginFree \in SUBSET Nat
      BY BuildAssumption DEF BeginFree
    <2> DEFINE R == OpToRel(<, Nat)
    <2>2. IsWellFoundedOn(R, Nat)
      BY NatLessThanWellFounded
    <2>3. PICK x \in BeginFree : \A y \in BeginFree : ~(<<y, x>> \in R)
      BY <1>1, <2>1, <2>2, WFMin
    <2>5. BeginFree \subseteq Nat
      BY <2>1
    <2>4. \A y \in BeginFree : y < x => <<y, x>> \in R
      BY <2>1 DEF OpToRel
    <2> HIDE DEF R
    <2>6. \A y \in BeginFree : x <= y
      <3> SUFFICES ASSUME NEW y \in BeginFree PROVE x <= y
        OBVIOUS
      <3>1. x \in Nat /\ y \in Nat /\ ~(y < x)
        BY <2>3, <2>4, <2>5
      <3> QED
        BY <3>1
    <2> QED
      BY <2>3, <2>6
  <1>4. b \in BeginFree
    BY <1>3
  <1> QED
    BY <1>2, <1>4 DEF BeginFree

LEMMA NewBuildFits ==
    ASSUME JobsOK, NEW t \in Target PROVE NewBuild(t) \in BuildRow /\ Fit(NewBuild(t)) /\ NewBuild(t).t = t
  <1>1. job[t].files \in AllFiles /\ job[t].plan \in {Refused, Classify(job[t].files)} \union Proposals
    BY DEF JobsOK, JobFits, JobRow
  <1>2. Images_(job[t].plan) \in SUBSET Part /\ Images_(job[t].plan) # {}
    BY <1>1, ImagesFit
  <1> QED
    BY <1>2 DEF NewBuild, BuildRow, Fit, Making

LEMMA BuildStep ==
    ASSUME BuildsOK, JobsOK, [ImageNext]_imageVars PROVE BuildsOK' /\ Kept
  <1>1. CASE UNCHANGED build
    BY <1>1 DEF BuildsOK, Kept
  <1>2. ASSUME NEW b \in Build, Advances(b) PROVE BuildsOK' /\ Kept
    BY <1>2, BuildWrite DEF Advances
  <1>3. ASSUME NEW t \in Target, Begin(t) PROVE BuildsOK' /\ Kept
    <2>1. CASE ~Parses(job[t].plan)
      BY <1>1, <1>3, <2>1 DEF Begin
    <2>2. CASE Parses(job[t].plan)
      BY <1>3, <2>2, BeginsOne, NewBuildFits, BuildWrite
    <2> QED
      BY <2>1, <2>2
  <1>4. CASE UNCHANGED imageVars
    BY <1>1, <1>4 DEF imageVars
  <1>5. ASSUME NEW t \in Target, Plan(t) \/ Retry(t) \/ Verify(t) PROVE UNCHANGED build
    BY <1>5 DEF Plan, Retry, Verify
  <1>6. ASSUME NEW id \in Id, Pull(id) \/ Propagate(id) PROVE UNCHANGED build
    BY <1>6 DEF Pull, Propagate
  <1>7. CASE SweepGuard \/ SweepList \/ SweepDelete
    BY <1>1, <1>7 DEF SweepGuard, SweepList, SweepDelete
  <1> QED
    BY <1>1, <1>2, <1>3, <1>4, <1>5, <1>6, <1>7, DriverAdvances DEF ImageNext

-----------------------------------------------------------------------------
\* The rows.
LEMMA JobWrite ==
    ASSUME JobsOK, Kept, NEW t \in Target, NEW j \in JobRow, job' = [job EXCEPT ![t] = j],
           j.plan \in {Refused, Classify(j.files)} \union Proposals,
           j.by # 0 => j.state = "building" /\ build'[j.by] # FreeSlot /\ build'[j.by].t = t,
           j.state \in {"planning", "building", "built"} /\ j.by = 0 => j.attempts < MaxAttempts
    PROVE  JobsOK'
  <1>1. job' \in [Target -> JobRow]
    BY DEF JobsOK
  <1>2. job'[t] = j
    BY DEF JobsOK
  <1>3. JobFits(t)'
    BY <1>2 DEF JobFits, TargetOf
  <1>4. ASSUME NEW u \in Target, u # t PROVE JobFits(u)'
    <2>1. job'[u] = job[u] /\ JobFits(u) /\ job[u] \in JobRow
      BY <1>4 DEF JobsOK
    <2>2. job[u].by # 0 => job[u].by \in Build
      BY <2>1 DEF JobRow
    <2> QED
      BY <2>1, <2>2 DEF JobFits, Kept, TargetOf
  <1> QED
    BY <1>1, <1>3, <1>4 DEF JobsOK

LEMMA JobsSame == ASSUME JobsOK, Kept, UNCHANGED job PROVE JobsOK'
  <1>1. ASSUME NEW u \in Target PROVE JobFits(u)'
    <2>1. job'[u] = job[u] /\ JobFits(u) /\ job[u] \in JobRow
      BY DEF JobsOK
    <2>2. job[u].by # 0 => job[u].by \in Build
      BY <2>1 DEF JobRow
    <2> QED
      BY <2>1, <2>2 DEF JobFits, Kept, TargetOf
  <1> QED
    BY <1>1 DEF JobsOK

\* A row that is let go of: its state may be claimed again, or has failed.
LEMMA FailedFits ==
    ASSUME NEW j \in JobRow PROVE /\ Failed(j) \in JobRow /\ Failed(j).by = 0
                                  /\ Failed(j).plan = j.plan /\ Failed(j).files = j.files
                                  /\ Failed(j).state \in {"planning", "building", "built"}
                                       => Failed(j).attempts < MaxAttempts
  <1>1. CASE j.attempts >= MaxAttempts
    <2> DEFINE k == [j EXCEPT !.state = "failed", !.by = 0]
    <2>1. Failed(j) = k
      BY <1>1 DEF Failed
    <2>2. k \in JobRow /\ k.by = 0 /\ k.plan = j.plan /\ k.files = j.files /\ k.state = "failed"
      BY DEF JobRow
    <2> QED
      BY <2>1, <2>2
  <1>2. CASE ~(j.attempts >= MaxAttempts)
    <2> DEFINE k == [j EXCEPT !.by = 0]
    <2>1. Failed(j) = k
      BY <1>2 DEF Failed
    <2>2. k \in JobRow /\ k.by = 0 /\ k.plan = j.plan /\ k.files = j.files /\ k.attempts = j.attempts
      BY DEF JobRow
    <2>3. j.attempts < MaxAttempts
      BY <1>2, BuildAssumption DEF JobRow
    <2> QED
      BY <2>1, <2>2, <2>3
  <1> QED
    BY <1>1, <1>2

LEMMA FailWrite ==
    ASSUME JobsOK, Kept, NEW t \in Target, NEW j \in JobRow, job' = [job EXCEPT ![t] = Failed(j)],
           j.plan = job[t].plan, j.files = job[t].files
    PROVE  JobsOK'
  <1>1. j.plan \in {Refused, Classify(j.files)} \union Proposals
    BY DEF JobsOK, JobFits
  <1> QED
    BY <1>1, FailedFits, JobWrite

LEMMA MoreFits ==
    ASSUME NEW j \in JobRow, j.attempts < MaxAttempts
    PROVE  LET k == [j EXCEPT !.attempts = @ + 1]
           IN  /\ k \in JobRow /\ k.plan = j.plan /\ k.files = j.files /\ k.state = j.state
               /\ k.by = j.by /\ k.ids = j.ids
  <1>1. j.attempts + 1 \in 0..MaxAttempts
    BY BuildAssumption DEF JobRow
  <1> QED
    BY <1>1 DEF JobRow

LEMMA JobsStep ==
    ASSUME BuildsOK, JobsOK, Kept, BuildsOK', [ImageNext]_imageVars PROVE JobsOK'
  <1>a. 0 < MaxAttempts /\ 0 \in 0..MaxAttempts /\ 0 \in Build \union {0} /\ 0 \notin Build
    BY BuildAssumption
  <1>0. \A t \in Target : job[t] \in JobRow /\ JobFits(t)
    BY DEF JobsOK
  <1>1. ASSUME NEW t \in Target, Plan(t) PROVE JobsOK'
    <2> DEFINE j == [job[t] EXCEPT !.attempts = @ + 1]
    <2>0. PICK plan \in PlansFor(job[t].files) :
             job' = [job EXCEPT ![t] =
                    CASE plan = Thrown  -> Failed(j)
                      [] plan = Refused -> [j EXCEPT !.state = "unsupported"]
                      [] OTHER -> [j EXCEPT !.state = "building", !.plan = plan, !.attempts = 0]]
      BY <1>1 DEF Plan
    <2>1. job[t].state = "planning" /\ job[t].by = 0 /\ job[t].attempts < MaxAttempts
      BY <1>0, <1>1 DEF Plan, JobFits
    <2>2. j \in JobRow /\ j.plan = job[t].plan /\ j.files = job[t].files /\ j.by = 0
      BY <1>0, <2>1, MoreFits
    <2>3. CASE job' = [job EXCEPT ![t] = Failed(j)]
      BY <2>2, <2>3, FailWrite
    <2>4. CASE job' = [job EXCEPT ![t] = [j EXCEPT !.state = "unsupported"]]
      <3> DEFINE k == [j EXCEPT !.state = "unsupported"]
      <3>1. k \in JobRow /\ k.plan = j.plan /\ k.files = j.files /\ k.state = "unsupported" /\ k.by = 0
        BY <2>2 DEF JobRow
      <3>2. k.plan \in {Refused, Classify(k.files)} \union Proposals
        BY <1>0, <2>2, <3>1 DEF JobFits
      <3> HIDE DEF k, j
      <3> QED
        BY <2>4, <3>1, <3>2, JobWrite DEF k
    <2>5. ASSUME plan # Thrown, plan # Refused,
                 job' = [job EXCEPT ![t] = [j EXCEPT !.state = "building", !.plan = plan, !.attempts = 0]]
          PROVE  JobsOK'
      <3> DEFINE k == [j EXCEPT !.state = "building", !.plan = plan, !.attempts = 0]
      <3>1. /\ plan = Classify(job[t].files) \/ plan \in Proposals
            /\ plan \in {Classify(f) : f \in AllFiles} \union Proposals
        BY <1>0, <2>5 DEF JobRow, PlansFor
      <3> HIDE DEF j
      <3>2. k \in JobRow /\ k.plan = plan /\ k.files = j.files /\ k.state = "building" /\ k.by = 0 /\ k.attempts = 0
        BY <1>a, <2>2, <3>1 DEF JobRow
      <3>3. k.plan \in {Refused, Classify(k.files)} \union Proposals
        BY <2>2, <3>1, <3>2
      <3> HIDE DEF k
      <3> QED
        BY <1>a, <2>5, <3>2, <3>3, JobWrite DEF k
    <2>6. Thrown # Refused
      <3>1. Thrown.strategy # Refused.strategy
        BY DEF Thrown, Refused
      <3> QED
        BY <3>1
    <2>7. job' = [job EXCEPT ![t] =
                    CASE plan = Thrown  -> Failed(j)
                      [] plan = Refused -> [j EXCEPT !.state = "unsupported"]
                      [] OTHER -> [j EXCEPT !.state = "building", !.plan = plan, !.attempts = 0]]
      BY <2>0
    <2> HIDE DEF j
    <2>8. CASE plan = Thrown
      BY <2>3, <2>6, <2>7, <2>8
    <2>9. CASE plan = Refused
      BY <2>4, <2>6, <2>7, <2>9
    <2>10. CASE plan # Thrown /\ plan # Refused
      BY <2>5, <2>7, <2>10
    <2> QED
      BY <2>8, <2>9, <2>10
  <1>2. ASSUME NEW t \in Target, Begin(t) PROVE JobsOK'
    <2>1. job[t].attempts < MaxAttempts /\ job[t].state = "building" /\ job[t].by = 0
      BY <1>0, <1>2 DEF Begin, JobFits
    <2> DEFINE j == [job[t] EXCEPT !.attempts = @ + 1]
    <2>2. j \in JobRow /\ j.plan = job[t].plan /\ j.files = job[t].files /\ j.state = "building"
      BY <1>0, <2>1, MoreFits
    <2>3. CASE ~Parses(job[t].plan)
      <3>1. job' = [job EXCEPT ![t] = Failed(j)]
        BY <1>2, <2>3 DEF Begin
      <3> QED
        BY <2>2, <3>1, FailWrite
    <2>4. CASE Parses(job[t].plan)
      <3>1. PICK b \in Build :
              /\ build[b] = FreeSlot /\ Set(b, NewBuild(t))
              /\ job' = [job EXCEPT ![t] = [job[t] EXCEPT !.attempts = @ + 1, !.by = b]]
        BY <1>2, <2>4, BeginsOne
      <3> DEFINE k == [job[t] EXCEPT !.attempts = @ + 1, !.by = b]
      <3>2. k \in JobRow /\ k.plan = j.plan /\ k.files = j.files /\ k.state = "building" /\ k.by = b
        <4>1. k = [j EXCEPT !.by = b]
          BY <1>0 DEF JobRow
        <4> QED
          BY <2>2, <4>1 DEF JobRow
      <3>3. build'[b] = NewBuild(t) /\ NewBuild(t) # FreeSlot /\ NewBuild(t).t = t
        BY <3>1, NewBuildFits, Unfree DEF Set, BuildsOK
      <3>4. k.plan \in {Refused, Classify(k.files)} \union Proposals
        BY <1>0, <2>2, <3>2 DEF JobFits
      <3>5. b # 0
        BY <1>a
      <3> HIDE DEF k, j
      <3> QED
        BY <3>1, <3>2, <3>3, <3>4, <3>5, JobWrite DEF k
    <2> QED
      BY <2>3, <2>4
  <1>3. ASSUME NEW t \in Target, Retry(t) PROVE JobsOK'
    <2> DEFINE k == [job[t] EXCEPT !.state = "planning", !.attempts = 0, !.ids = {}]
    <2>1. job' = [job EXCEPT ![t] = k] /\ job[t].state = "failed" /\ job[t].by = 0
      BY <1>0, <1>3 DEF Retry, JobFits, JobsOK
    <2>2. k \in JobRow /\ k.plan = job[t].plan /\ k.files = job[t].files /\ k.by = 0
          /\ k.attempts = 0
      BY <1>a, <1>0, <2>1 DEF JobRow
    <2>3. k.plan \in {Refused, Classify(k.files)} \union Proposals
      BY <1>0, <2>2 DEF JobFits
    <2> HIDE DEF k
    <2> QED
      BY <1>a, <2>1, <2>2, <2>3, JobWrite
  <1>4. ASSUME NEW t \in Target, Verify(t) PROVE JobsOK'
    <2> DEFINE j == [job[t] EXCEPT !.attempts = @ + 1]
    <2>1. job[t].state = "built" /\ job[t].by = 0 /\ job[t].attempts < MaxAttempts
      BY <1>0, <1>4 DEF Verify, JobFits
    <2>2. j \in JobRow /\ j.plan = job[t].plan /\ j.files = job[t].files /\ j.by = 0
      BY <1>0, <2>1, MoreFits
    <2>3. CASE job' = [job EXCEPT ![t] = Failed(j)]
      BY <2>2, <2>3, FailWrite
    <2>4. CASE job' = [job EXCEPT ![t] = [j EXCEPT !.state = "configured"]]
      <3> DEFINE k == [j EXCEPT !.state = "configured"]
      <3>1. k \in JobRow /\ k.plan = j.plan /\ k.files = j.files /\ k.state = "configured" /\ k.by = 0
        BY <2>2 DEF JobRow
      <3>2. k.plan \in {Refused, Classify(k.files)} \union Proposals
        BY <1>0, <2>2, <3>1 DEF JobFits
      <3> HIDE DEF k, j
      <3> QED
        BY <2>4, <3>1, <3>2, JobWrite DEF k
    <2> QED
      BY <1>4, <2>3, <2>4 DEF Verify
  <1>5. ASSUME NEW b \in Build, build[b] # FreeSlot, NEW t, t = TargetOf(b),
               job' = [job EXCEPT ![t] = Failed(job[t])]
        PROVE  JobsOK'
    <2>1. t \in Target
      BY <1>5 DEF BuildsOK, BuildRow, TargetOf
    <2> QED
      BY <1>0, <1>5, <2>1, FailWrite
  <1>6. ASSUME NEW b \in Build, Finish(b) PROVE JobsOK'
    <2> DEFINE t == TargetOf(b)
               k == [job[t] EXCEPT !.state = "built", !.by = 0, !.attempts = 0,
                                   !.ids = {b} \X build[b].made]
    <2>1. build[b] # FreeSlot /\ build[b] \in BuildRow
      BY <1>6 DEF Finish, BuildsOK, FreeSlot
    <2>2. t \in Target /\ build[b].made \in SUBSET Part
      BY <2>1 DEF BuildRow, TargetOf
    <2>3. CASE job' = [job EXCEPT ![t] = k]
      <3>1. {b} \X build[b].made \in SUBSET Id
        BY <2>2 DEF Id, Part
      <3>2. k \in JobRow /\ k.plan = job[t].plan /\ k.files = job[t].files /\ k.by = 0 /\ k.attempts = 0
        BY <1>a, <1>0, <2>2, <3>1 DEF JobRow
      <3>3. k.plan \in {Refused, Classify(k.files)} \union Proposals
        BY <1>0, <2>2, <3>2 DEF JobFits
      <3> HIDE DEF k, t
      <3> QED
        BY <1>a, <2>2, <2>3, <3>2, <3>3, JobWrite
    <2> QED
      BY <1>5, <1>6, <2>1, <2>3, JobsSame DEF Finish
  <1>7. ASSUME NEW b \in Build, Driver(b), ~Finish(b) PROVE UNCHANGED job
    BY <1>7 DEF Driver, CreateSandbox, Stage, Clone, RunCode, Push, FreeName, Register, Reclaim,
               Teardown, Throws
  <1>8. ASSUME NEW b \in Build, Abandon(b) \/ Crash(b) PROVE JobsOK'
    <2>1. build[b] # FreeSlot
      BY <1>8 DEF Abandon, Crash, Running, FreeSlot
    <2>2. UNCHANGED job \/ job' = [job EXCEPT ![TargetOf(b)] = Failed(job[TargetOf(b)])]
      BY <1>8 DEF Abandon, Crash, JobsOK
    <2> QED
      BY <1>5, <2>1, <2>2, JobsSame
  <1>9. ASSUME NEW b \in Build, Expire(b) PROVE UNCHANGED job
    BY <1>9 DEF Expire
  <1>10. ASSUME NEW id \in Id, Pull(id) \/ Propagate(id) PROVE UNCHANGED job
    BY <1>10 DEF Pull, Propagate
  <1>11. CASE SweepGuard \/ SweepList \/ SweepDelete \/ UNCHANGED imageVars
    BY <1>11, JobsSame DEF SweepGuard, SweepList, SweepDelete, imageVars
  <1> QED
    BY <1>1, <1>2, <1>3, <1>4, <1>6, <1>7, <1>8, <1>9, <1>10, <1>11, JobsSame DEF ImageNext

-----------------------------------------------------------------------------
\* The registry and the snapshots.
LEMMA TagStays ==
    ASSUME Kept, NEW x, TagFits(x) PROVE TagFits(x)'
  BY DEF Kept, TagFits, TargetOf

LEMMA TagsStep ==
    ASSUME BuildsOK, RegistryOK, Kept, [ImageNext]_imageVars PROVE RegistryOK'
  <1>1. CASE registry' \in SUBSET registry
    BY <1>1, TagStays DEF RegistryOK
  <1>2. ASSUME NEW b \in Build, Push(b) PROVE RegistryOK'
    <2> DEFINE s == Service_(b)
               x == [ref |-> Ref(b, s), by |-> b]
    <2>1. build[b] # FreeSlot
      BY <1>2 DEF Push, FreeSlot
    <2>2. s \in Part
      BY <1>2, <2>1 DEF Service_, Push, BuildsOK, Fit, Making, BuildRow
    <2>3. x.by = b /\ x.ref[1] \in NamesOf(TargetOf(b))
      BY <2>2 DEF Ref, Name, NamesOf, Part
    <2>4. TagFits(x)
      BY <2>1, <2>3 DEF TagFits
    <2>5. registry' \subseteq registry \union {x}
      BY <1>2 DEF Push
    <2> HIDE DEF x
    <2> QED
      BY <2>4, <2>5, TagStays DEF RegistryOK
  <1>3. ASSUME NEW t \in Target, Plan(t) \/ Begin(t) \/ Retry(t) \/ Verify(t) PROVE UNCHANGED registry
    BY <1>3 DEF Plan, Begin, Retry, Verify
  <1>4. ASSUME NEW b \in Build, Driver(b) \/ Abandon(b) \/ Crash(b) \/ Expire(b), ~Push(b)
        PROVE  registry' \in SUBSET registry
    BY <1>4 DEF Driver, CreateSandbox, Stage, Clone, RunCode, FreeName, Register, Reclaim, Teardown,
               Finish, Throws, Abandon, Crash, Expire
  <1>5. ASSUME NEW id \in Id, Pull(id) \/ Propagate(id) PROVE UNCHANGED registry
    BY <1>5 DEF Pull, Propagate
  <1>6. CASE SweepGuard \/ SweepList \/ SweepDelete \/ UNCHANGED imageVars
    BY <1>1, <1>6 DEF SweepGuard, SweepList, SweepDelete, imageVars
  <1> QED
    BY <1>1, <1>2, <1>3, <1>4, <1>5, <1>6 DEF ImageNext

SnapRow == [st : {"absent", "pulling", "active", "error", "deleting"}, holds : Build \union {0}]

\* A snapshot that is neither gone nor active keeps what is known of it.
LEMMA SnapshotsWritten ==
    ASSUME SnapshotsOK, Kept, snapshot' \in [Id -> SnapRow],
           \A id \in Id : \/ snapshot'[id] = snapshot[id]
                          \/ snapshot'[id].st = "absent"
                          \/ snapshot'[id].st # "active" /\ build'[id[1]] # FreeSlot
                          \/ SnapshotFits(id)'
    PROVE  SnapshotsOK'
  <1>1. ASSUME NEW id \in Id, snapshot'[id] = snapshot[id] PROVE SnapshotFits(id)'
    <2>1. SnapshotFits(id) /\ id[1] \in Build /\ snapshot[id] \in SnapRow
      BY Parts DEF SnapshotsOK, SnapRow
    <2>2. snapshot[id].st # "absent" => NameOf(id)' = NameOf(id)
      BY <2>1 DEF SnapshotFits, Kept, TargetOf, NameOf, Name
    <2> QED
      BY <1>1, <2>1, <2>2 DEF SnapshotFits, Kept, TargetOf
  <1>2. ASSUME NEW id \in Id PROVE SnapshotFits(id)'
    BY <1>1, <1>2 DEF SnapshotFits
  <1> QED
    BY <1>2 DEF SnapshotsOK, SnapRow

\* A step of a build deletes snapshots of its own name only.
OwnNameOnly ==
    \A id \in Id, b \in Build :
       /\ snapshot[id].st \notin {"absent", "deleting"} /\ snapshot'[id].st = "deleting"
       /\ build'[b] # build[b]
       => /\ build[b] # FreeSlot /\ build[id[1]] # FreeSlot
          /\ NameOf(id) \in NamesOf(TargetOf(b))

LEMMA SnapshotsStep ==
    ASSUME BuildsOK, RegistryOK, SnapshotsOK, Kept, [ImageNext]_imageVars
    PROVE  SnapshotsOK' /\ OwnNameOnly
  <1>0. snapshot \in [Id -> SnapRow]
    BY DEF SnapshotsOK, SnapRow
  <1>1. CASE UNCHANGED snapshot
    <2>1. SnapshotsOK'
      BY <1>0, <1>1, SnapshotsWritten
    <2> QED
      BY <1>1, <2>1 DEF OwnNameOnly
  <1>2. ASSUME NEW b \in Build, FreeName(b), ~UNCHANGED snapshot PROVE SnapshotsOK' /\ OwnNameOnly
    <2> DEFINE stale == Named(Name(b, Service_(b)))
    <2>1. snapshot' = [id \in Id |-> IF id \in stale THEN [st |-> "deleting", holds |-> 0]
                                     ELSE snapshot[id]]
      BY <1>2 DEF FreeName
    <2>2. \A id \in stale : id \in Id /\ snapshot[id].st # "absent" /\ NameOf(id) = Name(b, Service_(b))
      BY DEF Named
    <2>3. \A id \in stale : NameOf(id) \in NamesOf(TargetOf(b))
      <3>1. Service_(b) \in Part
        BY <1>2 DEF Service_, FreeName, BuildsOK, Fit, Making, BuildRow, FreeSlot
      <3> QED
        BY <2>2, <3>1 DEF Name, NamesOf, Part
    <2>4. \A id \in stale : build[id[1]] # FreeSlot /\ build'[id[1]] # FreeSlot
      BY <2>2, Parts DEF SnapshotsOK, SnapshotFits, Kept
    <2>5. build[b] # FreeSlot
      BY <1>2 DEF FreeName, FreeSlot
    <2>6. \A c \in Build : c # b => build'[c] = build[c]
      BY <1>2 DEF FreeName, Set, BuildsOK
    <2> HIDE DEF stale
    <2>7. snapshot' \in [Id -> SnapRow]
      BY <1>0, <2>1 DEF SnapRow
    <2>8. SnapshotsOK'
      BY <2>1, <2>2, <2>4, <2>7, SnapshotsWritten
    <2>9. OwnNameOnly
      BY <2>1, <2>3, <2>4, <2>5, <2>6 DEF OwnNameOnly
    <2> QED
      BY <2>8, <2>9
  <1>3. ASSUME NEW b \in Build, Register(b), ~UNCHANGED snapshot PROVE SnapshotsOK' /\ OwnNameOnly
    <2> DEFINE s == Service_(b)
    <2>1. snapshot' = [snapshot EXCEPT ![<<b, s>>] = [st |-> "pulling", holds |-> 0]]
      BY <1>3 DEF Register
    <2>2. build[b] # FreeSlot
      BY <1>3 DEF Register, FreeSlot
    <2>3. snapshot' \in [Id -> SnapRow]
      BY <1>0, <2>1 DEF SnapRow
    <2>4. \A id \in Id : \/ snapshot'[id] = snapshot[id]
                         \/ id = <<b, s>> /\ snapshot'[id].st = "pulling"
      BY <1>0, <2>1
    <2>5. build'[b] # FreeSlot
      BY <2>2 DEF Kept
    <2>6. \A id \in Id : id = <<b, s>> => id[1] = b
      OBVIOUS
    <2>7. SnapshotsOK'
      BY <2>3, <2>4, <2>5, <2>6, SnapshotsWritten
    <2> QED
      BY <2>4, <2>7 DEF OwnNameOnly
  <1>4. ASSUME NEW i \in Id, Pull(i) PROVE SnapshotsOK' /\ OwnNameOnly
    <2> DEFINE found == {x \in registry : x.ref = RefOf(i)}
               slot == IF found = {} THEN [st |-> "error", holds |-> 0]
                      ELSE [st |-> "active", holds |-> (CHOOSE x \in found : TRUE).by]
    <2>1. snapshot' = [snapshot EXCEPT ![i] = slot] /\ snapshot[i].st = "pulling" /\ UNCHANGED build
      BY <1>4 DEF Pull
    <2>2. build[i[1]] # FreeSlot /\ build'[i[1]] # FreeSlot
      BY <2>1 DEF SnapshotsOK, SnapshotFits
    <2>3. \A id \in Id : id # i => snapshot'[id] = snapshot[id]
      BY <1>0, <2>1
    <2>4. snapshot'[i] = slot
      BY <1>0, <2>1
    <2>5. CASE found = {}
      <3>1. slot = [st |-> "error", holds |-> 0]
        BY <2>5
      <3>2. slot \in SnapRow /\ slot.st = "error"
        BY <3>1 DEF SnapRow
      <3> HIDE DEF slot
      <3>3. snapshot' \in [Id -> SnapRow]
        BY <1>0, <2>1, <3>2
      <3>4. SnapshotsOK'
        BY <2>2, <2>3, <2>4, <3>2, <3>3, SnapshotsWritten
      <3> QED
        BY <2>3, <2>4, <3>2, <3>4 DEF OwnNameOnly
    <2>6. CASE found # {}
      <3>1. PICK x \in found : slot = [st |-> "active", holds |-> x.by]
        BY <2>6
      <3>2. x.by \in Build /\ build[x.by] # FreeSlot /\ x.ref[1] \in NamesOf(TargetOf(x.by))
            /\ x.ref = RefOf(i)
        BY DEF RegistryOK, TagFits
      <3>3. x.ref[1] = NameOf(i)
        BY <3>2 DEF RefOf, Ref, NameOf
      <3>4. slot \in SnapRow /\ slot.st = "active" /\ slot.holds = x.by
        BY <3>1, <3>2 DEF SnapRow
      <3> HIDE DEF slot, found
      <3>5. snapshot' \in [Id -> SnapRow]
        BY <1>0, <2>1, <3>4
      <3>6. SnapshotFits(i)'
        BY <2>1, <2>2, <2>4, <3>2, <3>3, <3>4 DEF SnapshotFits, TargetOf, NameOf, Name
      <3>7. SnapshotsOK'
        BY <2>3, <3>5, <3>6, SnapshotsWritten
      <3> QED
        BY <2>1, <3>7 DEF OwnNameOnly
    <2> QED
      BY <2>5, <2>6
  <1>5. ASSUME NEW i \in Id, Propagate(i) PROVE SnapshotsOK' /\ OwnNameOnly
    <2>1. snapshot' = [snapshot EXCEPT ![i].st = "absent"] /\ UNCHANGED build
      BY <1>5 DEF Propagate
    <2>2. snapshot' \in [Id -> SnapRow]
      BY <1>0, <2>1 DEF SnapRow
    <2>3. \A id \in Id : snapshot'[id] = snapshot[id] \/ snapshot'[id].st = "absent"
      BY <1>0, <2>1 DEF SnapRow
    <2>4. SnapshotsOK'
      BY <2>2, <2>3, SnapshotsWritten
    <2> QED
      BY <2>1, <2>4 DEF OwnNameOnly
  <1>6. ASSUME NEW t \in Target, Plan(t) \/ Begin(t) \/ Retry(t) \/ Verify(t) PROVE UNCHANGED snapshot
    BY <1>6 DEF Plan, Begin, Retry, Verify
  <1>7. ASSUME NEW b \in Build, Driver(b) \/ Abandon(b) \/ Crash(b) \/ Expire(b),
               ~FreeName(b), ~Register(b)
        PROVE  UNCHANGED snapshot
    BY <1>7 DEF Driver, CreateSandbox, Stage, Clone, RunCode, Push, Reclaim, Teardown,
               Finish, Throws, Abandon, Crash, Expire
  <1>8. CASE SweepGuard \/ SweepList \/ SweepDelete \/ UNCHANGED imageVars
    BY <1>1, <1>8 DEF SweepGuard, SweepList, SweepDelete, imageVars
  <1> QED
    BY <1>1, <1>2, <1>3, <1>4, <1>5, <1>6, <1>7, <1>8 DEF ImageNext

-----------------------------------------------------------------------------
\* Two targets that meet in a name are of two repositories.
LEMMA OneRepositoryApart ==
    ASSUME NEW t \in Target, NEW u \in Target, RepoOf[t] = RepoOf[u],
           NEW s \in Part, NEW q \in Part, SnapshotName(t, s) = SnapshotName(u, q)
    PROVE  t = u
  <1> DEFINE w == SlugOf[RepoOf[t]]
             Any == Word \union Target \union Service
             n == Len(w) + 1
  <1>1. w \in Seq(Any) /\ w = SlugOf[RepoOf[u]] /\ n \in Nat
    <2>1. w \in Seq(Word)
      BY NamesAssumption
    <2> QED
      BY <2>1
  <1> HIDE DEF w, Any
  <1>2. ASSUME NEW x \in Target, RepoOf[x] = RepoOf[t], NEW r \in Part,
               SlugOf[RepoOf[x]] = w
        PROVE  /\ x \in Upload => /\ Len(SnapshotName(x, r)) >= n
                                 /\ SnapshotName(x, r)[n] = x
               /\ x \notin Upload => \/ Len(SnapshotName(x, r)) < n
                                     \/ SnapshotName(x, r)[n] \in Service
    <2>1. CASE x \in Upload
      <3>1. Slug(x) = Append(w, x) /\ x \in Any
        BY <1>2, <2>1 DEF Slug, Any
      <3>2. Slug(x) \in Seq(Any) /\ Len(Slug(x)) = n /\ Slug(x)[n] = x
        BY <1>1, <3>1
      <3>3. CASE r = NoService
        BY <1>1, <2>1, <3>2, <3>3 DEF SnapshotName
      <3>4. CASE r # NoService
        <4>1. r \in Service /\ r \in Any /\ SnapshotName(x, r) = Append(Slug(x), r)
          BY <3>4 DEF SnapshotName, Part, Any
        <4> QED
          BY <1>1, <2>1, <3>2, <4>1
      <3> QED
        BY <3>3, <3>4
    <2>2. CASE x \notin Upload
      <3>1. Slug(x) = w
        BY <1>2, <2>2 DEF Slug
      <3>2. CASE r = NoService
        BY <1>1, <2>2, <3>1, <3>2 DEF SnapshotName
      <3>3. CASE r # NoService
        <4>1. r \in Service /\ r \in Any /\ SnapshotName(x, r) = Append(w, r)
          BY <3>1, <3>3 DEF SnapshotName, Part, Any
        <4> QED
          BY <1>1, <2>2, <4>1
      <3> QED
        BY <3>2, <3>3
    <2> QED
      BY <2>1, <2>2
  <1>3. /\ t \in Upload => Len(SnapshotName(t, s)) >= n /\ SnapshotName(t, s)[n] = t
        /\ t \notin Upload => Len(SnapshotName(t, s)) < n \/ SnapshotName(t, s)[n] \in Service
    BY <1>1, <1>2 DEF w
  <1>4. /\ u \in Upload => Len(SnapshotName(u, q)) >= n /\ SnapshotName(u, q)[n] = u
        /\ u \notin Upload => Len(SnapshotName(u, q)) < n \/ SnapshotName(u, q)[n] \in Service
    BY <1>1, <1>2
  <1>5. Len(SnapshotName(t, s)) \in Nat
    <2>1. Slug(t) \in Seq(Any)
      BY <1>1 DEF Slug, w, Any
    <2> QED
      BY <2>1 DEF SnapshotName, Part, Any
  <1>6. CASE t \notin Upload /\ u \notin Upload
    BY <1>6, NamesAssumption
  <1>7. CASE t \in Upload /\ u \in Upload
    BY <1>3, <1>4, <1>7
  <1>8. CASE (t \in Upload) # (u \in Upload)
    <2>1. SnapshotName(t, s)[n] \in Upload /\ SnapshotName(t, s)[n] \in Service
      BY <1>1, <1>3, <1>4, <1>5, <1>8
    <2> QED
      BY <2>1, NamesAssumption
  <1> QED
    BY <1>6, <1>7, <1>8

LEMMA NamesApart ==
    ASSUME NEW t \in Target, NEW u \in Target, NamesOf(t) \intersect NamesOf(u) # {}
    PROVE  Own(t, u)
  <1>1. PICK s \in Part, q \in Part : SnapshotName(t, s) = SnapshotName(u, q)
    BY DEF NamesOf, Part
  <1> QED
    BY <1>1, OneRepositoryApart DEF Own, Collide

LEMMA ImageStarts == ImageInit => ImageInv
  <1> SUFFICES ASSUME ImageInit PROVE ImageInv
    OBVIOUS
  <1>1. BuildsOK
    BY DEF ImageInit, BuildsOK
  <1>2. PICK w \in Worlds :
          job = [t \in Target |-> [state |-> IF t \in w.rows THEN "planning" ELSE "none",
                                  files |-> w.files[t], plan |-> Refused, by |-> 0,
                                  attempts |-> 0, ids |-> {}]]
    BY DEF ImageInit
  <1>3. \A t \in Target : w.files[t] \in AllFiles
    BY WorldsAssumption DEF AllFiles
  <1>4. 0 \in 0..MaxAttempts /\ 0 < MaxAttempts
    BY BuildAssumption
  <1>5. \A t \in Target : job[t] \in JobRow
    BY <1>2, <1>3, <1>4 DEF JobRow
  <1>6. \A t \in Target : JobFits(t)
    BY <1>2, <1>4 DEF JobFits
  <1>7. JobsOK
    BY <1>2, <1>5, <1>6 DEF JobsOK
  <1>8. RegistryOK
    BY DEF ImageInit, RegistryOK
  <1>9. SnapshotsOK
    BY DEF ImageInit, SnapshotsOK, SnapshotFits
  <1> QED
    BY <1>1, <1>7, <1>8, <1>9 DEF ImageInv

LEMMA ImageStep == ImageInv /\ [ImageNext]_imageVars => ImageInv' /\ OwnNameOnly
  BY BuildStep, JobsStep, TagsStep, SnapshotsStep DEF ImageInv

\* What the invariant says of the rows, the builds and the snapshots.
LEMMA ImageTyped == ImageInv => ImageTypeOK
  <1> SUFFICES ASSUME ImageInv PROVE ImageTypeOK
    OBVIOUS
  <1>1. ASSUME NEW t \in Target
        PROVE  /\ [state |-> job[t].state, by |-> job[t].by, attempts |-> job[t].attempts] \in Rows
               /\ \A n \in DOMAIN job[t].files.compose : job[t].files.compose[n] \in Declaration
               /\ job[t].ids \subseteq Id
               /\ job[t].by # 0 => job[t].state = "building" /\ TargetOf(job[t].by) = t
    <2>1. job[t] \in JobRow /\ JobFits(t)
      BY DEF ImageInv, JobsOK
    <2>2. [state |-> job[t].state, by |-> job[t].by, attempts |-> job[t].attempts] \in Rows
      BY <2>1 DEF JobRow, Rows
    <2>3. PICK names \in SUBSET Service : job[t].files.compose \in [names -> Declaration]
      BY <2>1 DEF JobRow, AllFiles, Files
    <2>4. \A n \in DOMAIN job[t].files.compose : job[t].files.compose[n] \in Declaration
      BY <2>3
    <2>5. job[t].ids \subseteq Id
      BY <2>1 DEF JobRow
    <2> QED
      BY <2>1, <2>2, <2>4, <2>5 DEF JobFits
  <1>2. \A id \in Id : snapshot[id].st \in {"absent", "pulling", "active", "error", "deleting"}
    BY DEF ImageInv, SnapshotsOK
  <1>3. \A x \in registry : x.by \in Build /\ build[x.by] # FreeSlot
    BY DEF ImageInv, RegistryOK, TagFits
  <1> QED
    BY <1>1, <1>2, <1>3 DEF ImageTypeOK

LEMMA TokensGo == ImageInv => TokenIsAskedBack
  <1> SUFFICES ASSUME ImageInv, NEW b \in Build, build[b].token = "live"
               PROVE  build[b].phase \in TokenPhases
    BY DEF TokenIsAskedBack, TokenPhases
  <1> QED
    BY DEF ImageInv, BuildsOK, Fit, FreeSlot

LEMMA PlansWork == ImageInv => PlanIsUsable
  <1> SUFFICES ASSUME ImageInv, NEW t \in Target, NEW plan, plan = job[t].plan,
                      plan.strategy = "compose-mesh"
               PROVE  /\ (\A n \in DOMAIN plan.services : plan.services[n].build # "stray") => Parses(plan)
                      /\ (\A n \in DOMAIN plan.services : plan.services[n].start # "host")
                            => BuiltParses(Built(plan))
                      /\ Provisions(Built(plan))
    BY DEF PlanIsUsable
  <1>1. job[t].files \in AllFiles /\ plan \in {Refused, Classify(job[t].files)} \union Proposals
    BY DEF ImageInv, JobsOK, JobRow, JobFits
  <1>2. plan = Classify(job[t].files) \/ plan \in Proposals
    BY <1>1 DEF Refused
  <1> QED
    BY <1>1, <1>2, MeshIsUsable, ProposalIsUsable

LEMMA NamedSo == \A id \in Id : NameOf(id) \in NamesOf(TargetOf(id[1]))
  BY Parts DEF NameOf, Name, NamesOf, Part

LEMMA MarkersMatch == ImageInv => SnapshotCarriesItsMarker
  <1> SUFFICES ASSUME ImageInv, NEW id \in Id, snapshot[id].st = "active"
               PROVE  Own(TargetOf(snapshot[id].holds), TargetOf(id[1]))
    BY DEF SnapshotCarriesItsMarker
  <1>1. SnapshotFits(id) /\ id[1] \in Build
    BY Parts DEF ImageInv, SnapshotsOK
  <1>2. \A b \in Build : build[b] # FreeSlot => TargetOf(b) \in Target
    BY DEF ImageInv, BuildsOK, BuildRow, TargetOf
  <1>3. NameOf(id) \in NamesOf(TargetOf(id[1]))
    BY NamedSo
  <1> QED
    BY <1>1, <1>2, <1>3, NamesApart DEF SnapshotFits

LEMMA OwnOnly == ImageInv /\ OwnNameOnly => OnlyOwnSnapshots
  <1>1. ImageInv => \A b \in Build : build[b] # FreeSlot => TargetOf(b) \in Target
    BY DEF ImageInv, BuildsOK, BuildRow, TargetOf
  <1> QED
    BY <1>1, Parts, NamedSo, NamesApart DEF OwnNameOnly, OnlyOwnSnapshots

\* What an image is and whose it is, however builds of one target overlap, lose
\* their row, crash and are swept: a snapshot holds an image of its own target, a
\* build takes down its own target's snapshots only, GitHub has been asked for the
\* clone's token before the repository's code runs, and a plan, the classifier's or
\* the agent's, can be built and provisioned (daytona-build-driver.ts, registry.ts,
\* classify.ts, worker.ts).  Of the targets of two repositories that meet in one
\* name nothing is said: the code keeps only the targets of one repository apart.
THEOREM ImagesStaySound == ImageInit /\ [][ImageNext]_imageVars => ImagesAreSound
  <1> DEFINE AllTrue == /\ ImageTypeOK /\ SnapshotCarriesItsMarker
                        /\ TokenIsAskedBack /\ PlanIsUsable
  <1>1. ImageInit => ImageInv
    BY ImageStarts
  <1>2. ImageInv /\ [ImageNext]_imageVars => ImageInv' /\ OnlyOwnSnapshots
    BY ImageStep, OwnOnly
  <1>3. ImageInv => AllTrue
    BY ImageTyped, MarkersMatch, TokensGo, PlansWork
  <1> QED
    BY <1>1, <1>2, <1>3, PTL DEF ImagesAreSound
=============================================================================
