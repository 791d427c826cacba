------------------------------ MODULE CodeReview -----------------------------
(***************************************************************************)
(* The agentic review of one report's source: lib/analysis/code-review.ts, *)
(* the tool lib/mcp/review.ts its agent calls, and the button that asks    *)
(* for one.  A run is known by its row; its capability token is its own    *)
(* until it is overwritten with "closed:<id>".  What the agent reads and   *)
(* finds is left out: a finding is the row and the call that wrote it.     *)
(***************************************************************************)
EXTENDS Naturals

CONSTANTS
    Runs,          \* bound: code_review_run rows of the report
    Reviewing,     \* worker processes at the code-review loop
    ToolCall,      \* calls of the agent's tool
    ReviewFaults   \* bound: failed calls, lost answers and deaths, together

ASSUME CodeReviewAssumption == Runs \in Nat \ {0} /\ ReviewFaults \in Nat

VARIABLES
    review,     \* the rows: status, whether the token is still the run's own, older than 15 minutes
    turn,       \* each run's session and turn at the harness
    reading,    \* each worker: the step it is at, its run and the status it will record
    call,       \* each tool call: what its lookup found
    findings,   \* the runs that code_review_finding holds a finding of
    trouble     \* faults so far

reviewVars == <<review, turn, reading, call, findings, trouble>>

Live == {"PENDING", "RUNNING"}
Ended == {"DONE", "FAILED", "TIMED_OUT"}
NoReview == [status |-> "ABSENT", own |-> FALSE, old |-> FALSE]
AtRest == [pc |-> "idle", run |-> 0, status |-> "FAILED"]
NotCalled == [pc |-> "idle", run |-> 0]

CodeReviewInit ==
    /\ review = [r \in 1..Runs |-> NoReview]
    /\ turn = [r \in 1..Runs |-> "none"]
    /\ reading = [w \in Reviewing |-> AtRest]
    /\ call = [c \in ToolCall |-> NotCalled]
    /\ findings = {} /\ trouble = 0

Trouble == trouble < ReviewFaults /\ trouble' = trouble + 1
WorkerAt(w, pc) == reading[w].pc = pc
On(w, pc) == reading' = [reading EXCEPT ![w].pc = pc]
\* The catch of executeRun: whatever threw, the run is closed as failed.
Throw(w, to) == Trouble /\ reading' = [reading EXCEPT ![w].pc = to, ![w].status = "FAILED"]

-----------------------------------------------------------------------------

\* The insert against the partial unique index; a conflict returns the live run.
EnqueueReview ==
    \E r \in 1..Runs :
        /\ review[r].status = "ABSENT" /\ \A q \in 1..Runs : q < r => review[q].status \in Ended
        /\ review' = [review EXCEPT ![r] = [status |-> "PENDING", own |-> TRUE, old |-> FALSE]]
        /\ UNCHANGED <<turn, reading, call, findings, trouble>>

\* Fifteen minutes pass for a row that waits, or from its claim on.
Ages(r) ==
    /\ review[r].status \in Live /\ ~review[r].old
    /\ review' = [review EXCEPT ![r].old = TRUE]
    /\ UNCHANGED <<turn, reading, call, findings, trouble>>

ClaimReview(w) ==
    /\ WorkerAt(w, "idle")
    /\ \E r \in 1..Runs :
         /\ review[r].status = "PENDING"
         /\ review' = [review EXCEPT ![r].status = "RUNNING", ![r].old = FALSE]
         /\ reading' = [reading EXCEPT ![w] = [pc |-> "load", run |-> r, status |-> "FAILED"]]
    /\ UNCHANGED <<turn, call, findings, trouble>>

\* A report whose repository was disconnected meanwhile is closed as failed.
LoadInput(w) ==
    /\ WorkerAt(w, "load")
    /\ \/ On(w, "read") /\ UNCHANGED trouble
       \/ Throw(w, "close")
    /\ UNCHANGED <<review, turn, call, findings>>

ReadSource(w) ==
    /\ WorkerAt(w, "read")
    /\ \/ On(w, "session") /\ UNCHANGED trouble
       \/ Throw(w, "close")
    /\ UNCHANGED <<review, turn, call, findings>>

\* A session whose answer is lost stays at the harness and nobody prompts it.
OpenSession(w) ==
    /\ WorkerAt(w, "session")
    /\ \/ /\ On(w, "prompt") /\ UNCHANGED trouble
          /\ turn' = [turn EXCEPT ![reading[w].run] = "open"]
       \/ Throw(w, "close") /\ turn' \in {turn, [turn EXCEPT ![reading[w].run] = "open"]}
    /\ UNCHANGED <<review, call, findings>>

\* A turn whose answer is lost runs on with the token in its prompt.
StartTurn(w) ==
    /\ WorkerAt(w, "prompt")
    /\ \/ /\ On(w, "poll") /\ UNCHANGED trouble
          /\ turn' = [turn EXCEPT ![reading[w].run] = "running"]
       \/ Throw(w, "delete") /\ turn' \in {turn, [turn EXCEPT ![reading[w].run] = "running"]}
    /\ UNCHANGED <<review, call, findings>>

EndTurn(r) ==
    /\ turn[r] = "running" /\ \A c \in ToolCall : call[c].run # r
    /\ turn' \in {[turn EXCEPT ![r] = "done"], [turn EXCEPT ![r] = "error"]}
    /\ UNCHANGED <<review, reading, call, findings, trouble>>

PollTurn(w) ==
    /\ WorkerAt(w, "poll")
    /\ \/ /\ turn[reading[w].run] \in {"done", "error"} /\ UNCHANGED trouble
          /\ reading' = [reading EXCEPT ![w].pc = "delete", ![w].status =
                             IF turn[reading[w].run] = "done" THEN "DONE" ELSE "FAILED"]
       \/ /\ turn[reading[w].run] = "running" /\ UNCHANGED trouble  \* past the deadline
          /\ reading' = [reading EXCEPT ![w].pc = "delete", ![w].status = "TIMED_OUT"]
       \/ Throw(w, "delete")
    /\ UNCHANGED <<review, turn, call, findings>>

\* A delete that fails is swallowed and the turn, if it runs, runs on.
DeleteSession(w) ==
    /\ WorkerAt(w, "delete") /\ On(w, "close")
    /\ \/ turn' = [turn EXCEPT ![reading[w].run] = "gone"] /\ UNCHANGED trouble
       \/ Trouble /\ UNCHANGED turn
    /\ UNCHANGED <<review, call, findings>>

\* Mutant: the update names the run only.
CloseRun_ById(w) ==
    /\ WorkerAt(w, "close")
    /\ reading' = [reading EXCEPT ![w] = AtRest]
    /\ \/ /\ UNCHANGED trouble
          /\ review' = [review EXCEPT ![reading[w].run].status = reading[w].status,
                                      ![reading[w].run].own = FALSE]
       \/ Trouble /\ UNCHANGED review
    /\ UNCHANGED <<turn, call, findings>>

\* A failed update is swallowed too: the row stays RUNNING for the sweep.
CloseRun(w) ==
    /\ WorkerAt(w, "close")
    /\ reading' = [reading EXCEPT ![w] = AtRest]
    /\ LET r == reading[w].run IN
       \/ /\ UNCHANGED trouble
          /\ review' = IF review[r].status = "RUNNING" /\ review[r].own
                       THEN [review EXCEPT ![r].status = reading[w].status, ![r].own = FALSE]
                       ELSE review
       \/ Trouble /\ UNCHANGED review
    /\ UNCHANGED <<turn, call, findings>>

WorkerEnds(w) ==
    /\ ~WorkerAt(w, "idle") /\ Trouble
    /\ reading' = [reading EXCEPT ![w] = AtRest]
    /\ UNCHANGED <<review, turn, call, findings>>

SweepReviews ==
    /\ \E r \in 1..Runs : review[r].status \in Live /\ review[r].old
    /\ review' = [r \in 1..Runs |->
                    IF review[r].status \in Live /\ review[r].old
                    THEN [review[r] EXCEPT !.status = "TIMED_OUT", !.own = FALSE] ELSE review[r]]
    /\ UNCHANGED <<turn, reading, call, findings, trouble>>

-----------------------------------------------------------------------------
(* reportCodeReviewFindings: the lookup by the token, then the insert.      *)
LookUpRun(c) ==
    /\ call[c].pc = "idle"
    /\ \E r \in 1..Runs :
         /\ turn[r] = "running" /\ review[r].own
         /\ call' = [call EXCEPT ![c] = [pc |-> "found", run |-> r]]
    /\ UNCHANGED <<review, turn, reading, findings, trouble>>

RecordFindings(c) ==
    /\ call[c].pc = "found"
    /\ findings' = findings \union {call[c].run}
    /\ call' = [call EXCEPT ![c] = NotCalled]
    /\ UNCHANGED <<review, turn, reading, trouble>>

ReviewNext ==
    \/ EnqueueReview \/ SweepReviews
    \/ \E r \in 1..Runs : Ages(r) \/ EndTurn(r)
    \/ \E w \in Reviewing :
         \/ ClaimReview(w) \/ LoadInput(w) \/ ReadSource(w) \/ OpenSession(w) \/ StartTurn(w)
         \/ PollTurn(w) \/ DeleteSession(w) \/ CloseRun(w) \/ WorkerEnds(w)
    \/ \E c \in ToolCall : LookUpRun(c) \/ RecordFindings(c)

ReviewSpec == CodeReviewInit /\ [][ReviewNext]_reviewVars

-----------------------------------------------------------------------------
(* One review at a time.                                                   *)
OneLiveReview ==
    \A r, q \in 1..Runs : r # q => review[r].status \notin Live \/ review[q].status \notin Live

(* A run that ended is over: no worker, sweep or late call gives it another *)
(* status or a live token (code-review.ts: closeRun "cannot overwrite a    *)
(* TIMED_OUT the sweeper already recorded"), a call that comes after its    *)
(* end finds nothing, and only a turn that finished ends DONE.              *)
ReviewIsClosed ==
    /\ [][\A r \in 1..Runs : review[r].status \in Ended =>
             /\ review'[r] = review[r]
             /\ \A c \in ToolCall : call[c].pc = "idle" => call'[c].run # r]_reviewVars
    /\ [][\A r \in 1..Runs : review[r].status # "DONE" /\ review'[r].status = "DONE"
             => turn[r] \in {"done", "gone"}]_reviewVars
    /\ []OneLiveReview

=============================================================================
