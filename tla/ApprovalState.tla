---------------------------- MODULE ApprovalState ----------------------------
(***************************************************************************)
(* The rows the approval path shares: one report with its verdict          *)
(* revisions, supersessions, decisions, re-check runs, submissions and its *)
(* one agent_session row, and the turns the harness holds for it.          *)
(* AgentPoller and Review (with the submission worker) each add the        *)
(* actions of one component; Approval adds re-checks and composes them.    *)
(*                                                                         *)
(* Abstractions.  A transaction that locks the report or the session row   *)
(* is one step.  A lease is named by its holder: owner and fence together  *)
(* identify one claim (JobQueueProofs shows it for the same pattern), and  *)
(* a holder claims nothing else before it has stopped.  A verdict's text   *)
(* is the turn that drafted it, 0 for the one the server synthesizes, so   *)
(* two drafts agree exactly when one turn wrote both; its hash follows.    *)
(* A capability is the number of the harness session it was minted for.    *)
(* Backoff is not modelled: what is claimable may be claimed now or later. *)
(***************************************************************************)
EXTENDS Naturals, Sequences, FiniteSets

CONSTANTS
    Poller, Submitter, Runner,  \* processes of each kind
    Nobody, Lapsed,             \* lease_owner IS NULL; an expired lease
    SubmitAttempts,             \* MAX_ATTEMPTS of approval_submission
    RunAttempts,                \* RECHECK_MAX_ATTEMPTS
    MaxRechecks,                \* bound: re-checks a reviewer asks for
    Worlds,                     \* bound: the settings a run combines (see World)
    MaxTurns,                   \* bound: turns the harness starts
    MaxLapses                   \* bound: crashes, stalls, handed-back claims

AllForms == {"draft",   \* publish_verdict with outcome, summary and findings
             "bare",    \* publish_verdict with the capability alone
             "gated",   \* a gated call the poller answers itself
             "odd"}     \* anything it can only refuse

ASSUME ProcessAssumption ==
    /\ Nobody # Lapsed
    /\ {Nobody, Lapsed} \cap (Poller \union Submitter \union Runner) = {}

\* How the agent's turns may ask for attention, how many pollers overlap,
\* whether submissions are worked on, and how often a re-check is asked for.
World == [forms : SUBSET AllForms, pollers : Nat, submits : BOOLEAN, rechecks : 0 .. MaxRechecks]

ASSUME WorldAssumption == Worlds \subseteq World
ASSUME BoundAssumption ==
    /\ {SubmitAttempts, RunAttempts, MaxTurns} \subseteq Nat \ {0}
    /\ {MaxRechecks, MaxLapses} \subseteq Nat

VARIABLES
    report,         \* report.state
    verdict,        \* the verdict rows, by revision
    superseded,     \* revisions named by a verdict_supersession row
    decision,       \* the approval_decision row of each revision
    outbox,         \* revisions with an outbound_delivery row
    session,        \* the agent_session row
    run,            \* the REVIEWER_GUIDANCE investigation_run rows
    submission,     \* the approval_submission row of each decided revision
    turns,          \* the harness's turns
    sessions,       \* how many harness sessions were created
    poller, submitter, runner,  \* each process's next step and what it has read
    overdue,        \* the first investigation is past its deadline
    lapses,
    world           \* the setting

record == <<report, verdict, superseded, decision, outbox>>
harness == <<turns, sessions>>
procs == <<poller, submitter, runner>>
clock == <<overdue, lapses, world>>
vars == <<record, session, run, submission, harness, procs, clock>>

-----------------------------------------------------------------------------
Closed == {"DELIVERED", "DENIED", "OUT_OF_SCOPE", "CANCELLED", "EXPIRED"}
ReportStates == Closed \union
    {"TRIAGING", "REPRODUCING", "ANALYSIS_ONLY", "AWAITING_APPROVAL", "DELIVERING"}

\* Mutant: only a first investigation is still open.
Investigating_First == {"TRIAGING"}
Investigating == {"TRIAGING", "REPRODUCING"}

TurnOver == {"DONE_NO_ACTION", "ERROR", "CANCELLED"}
TurnOpen == {"RUNNING", "INVESTIGATING"}
TurnStatus == TurnOver \union TurnOpen \union {"AWAITING_APPROVAL_HARNESS"}
RunStatus == {"PENDING", "RUNNING", "AWAITING_APPROVAL", "SUPERSEDED", "DONE",
              "ERROR", "CANCELLED"}
RunFinished == {"DONE", "ERROR", "CANCELLED", "SUPERSEDED"}

Rev == 1 .. MaxRechecks + 2   \* one more than WithinBounds lets appear
TurnId == 1 .. MaxTurns
Kinds == {"DEFINITE", "ANALYSIS_ONLY"}   \* (NOT_)REPRODUCED against the rest
Synth == 0

\* The pending verdict and the harness call it answers; Synth: no call.
Pending == [rev : Rev \union {0}, call : TurnId \union {Synth}]
NoPending == [rev |-> 0, call |-> Synth]

\* The columns a poller's lease carries.
Snapshot == [sess : Nat, turn : TurnId, status : TurnStatus, pend : Pending]
Session == [sess : Nat, turn : TurnId, status : TurnStatus, pend : Pending,
            holder : Poller \union {Nobody}]
Seen(s) == [sess |-> s.sess, turn |-> s.turn, status |-> s.status, pend |-> s.pend]

Verdict == [by : TurnId \union {Synth}, kind : Kinds]
Outcomes == {"APPROVED", "DENIED"}
Decision == [outcome : Outcomes \union {"NONE"}, call : TurnId \union {Synth}]
Undecided == [outcome |-> "NONE", call |-> Synth]
SubmissionRow == [state : {"NONE", "PENDING", "SUBMITTED", "FAILED"}, attempts : Nat,
                  holder : Submitter \union {Nobody}]
RunRow == [status : RunStatus, attempts : Nat, holder : Runner \union {Nobody, Lapsed},
           sess : Nat]

\* answers: the call a user.tool_approval turn replies to, 0 for a message.
Turn == [sess : Nat, status : {"running", "awaiting", "done", "error", "cancelled", "lost"},
         form : AllForms, kind : Kinds, answers : TurnId \union {0}, allow : BOOLEAN]
Started(sess, answers, allow) ==
    [sess |-> sess, status |-> "running", form |-> "odd", kind |-> "ANALYSIS_ONLY",
     answers |-> answers, allow |-> allow]

PollPhases == {"check", "ask", "follow", "park", "find", "create", "handover",
               "draft", "abandon", "verify", "end"}
NotPolling == [phase |-> "idle"]
Polling == [phase : PollPhases, seen : Snapshot, rev : Rev \union {0},
            next : TurnId \union {0}, as : TurnOver \union {"open"}]

NotSubmitting == [phase |-> "idle"]
Submitting == [phase : {"check", "refuse", "find", "create", "mark"}, rev : Rev,
               sess : Nat, turn : TurnId \union {0}, next : TurnId \union {0}]

NotRunning == [phase |-> "idle"]
Running == [phase : {"check", "fail", "start", "rewrite", "clean", "release"},
            k : Nat, sess : Nat, turn : TurnId \union {0}, old : Nat]

TypeOK ==
    /\ report \in ReportStates
    /\ verdict \in Seq(Verdict)
    /\ superseded \subseteq Rev
    /\ decision \in [Rev -> Decision]
    /\ outbox \subseteq Rev
    /\ session \in Session
    /\ run \in Seq(RunRow)
    /\ submission \in [Rev -> SubmissionRow]
    /\ turns \in Seq(Turn)
    /\ sessions \in Nat
    /\ poller \in [Poller -> Polling \union {NotPolling}]
    /\ submitter \in [Submitter -> Submitting \union {NotSubmitting}]
    /\ runner \in [Runner -> Running \union {NotRunning}]
    /\ overdue \in BOOLEAN
    /\ lapses \in Nat
    /\ world \in World

\* trueforge-driver.ts leaves the report here: one session, its first turn.
Init ==
    /\ report = "TRIAGING"
    /\ verdict = <<>>
    /\ superseded = {}
    /\ decision = [r \in Rev |-> Undecided]
    /\ outbox = {}
    /\ session = [sess |-> 1, turn |-> 1, status |-> "RUNNING", pend |-> NoPending,
                  holder |-> Nobody]
    /\ run = <<>>
    /\ submission = [r \in Rev |-> [state |-> "NONE", attempts |-> 0, holder |-> Nobody]]
    /\ turns = <<Started(1, 0, FALSE)>>
    /\ sessions = 1
    /\ poller = [p \in Poller |-> NotPolling]
    /\ submitter = [s \in Submitter |-> NotSubmitting]
    /\ runner = [r \in Runner |-> NotRunning]
    /\ overdue = FALSE
    /\ lapses = 0
    /\ world \in Worlds

-----------------------------------------------------------------------------
\* Shared by several components.

MoveTo(state) == report' = state

\* updateInvestigationRunStatus: by the harness session the run was given.
RunsOf(sess, status) ==
    [k \in DOMAIN run |-> IF run[k].sess = sess THEN [run[k] EXCEPT !.status = status]
                                               ELSE run[k]]

\* findTurnByInput: the turns of this session that already carry the answer.
Answers(sess, call, allow) ==
    {t \in DOMAIN turns : /\ turns[t].sess = sess
                          /\ turns[t].status # "lost"
                          /\ turns[t].answers = call
                          /\ turns[t].allow = allow}

Alive(sess) == \E t \in DOMAIN turns : turns[t].sess = sess /\ turns[t].status # "lost"

Forgotten(gone) == [t \in DOMAIN turns |->
    IF turns[t].sess = gone THEN [turns[t] EXCEPT !.status = "lost"] ELSE turns[t]]

Lapse == lapses < MaxLapses /\ lapses' = lapses + 1 /\ UNCHANGED <<overdue, world>>
==============================================================================
