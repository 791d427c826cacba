------------------------------- MODULE Boards -------------------------------
(***************************************************************************)
(* The lists a report appears on: the board and its columns, the inbox,    *)
(* the home counts, the sidebar, the cards themselves                      *)
(* (src/lib/reports/queue.ts, columns.ts, lib/home/summary.ts,             *)
(* components/queue-board.tsx, api/mobile/v1/).                            *)
(*                                                                         *)
(* One report is watched through its whole life (CaseFile);                *)
(* the others come and go around it and push it past the limits.  A list   *)
(* takes several statements, and commits happen between them.              *)
(***************************************************************************)
EXTENDS CaseFile

CONSTANTS
    Neighbours,    \* the other reports
    ColumnLimit,   \* COLUMN_LIMIT: cards of a column
    IndexLimit,    \* INDEX_LIMIT: rows of the index
    Reads,         \* bound: reads of a list
    Commits        \* bound: commits while a read is in flight

Watched == "watched"
Reports == Neighbours \union {Watched}
ASSUME BoardsAssumption == /\ IsFiniteSet(Neighbours) /\ Watched \notin Neighbours
                           /\ ColumnLimit \in Nat /\ IndexLimit \in Nat
                           /\ Reads \in Nat /\ Commits \in Nat

VARIABLES board,   \* the report's gate and the other reports' rows
          reader   \* one list being read

\* COLUMNS; phaseOf.
Columns == [triaging |-> {"TRIAGING", "NEEDS_DECISION"},
            analysisOnly |-> {"REPRODUCING", "ANALYSIS_ONLY"},
            awaitingApproval |-> {"AWAITING_APPROVAL"},
            delivered |-> {"DELIVERING", "DELIVERED"},
            closed |-> {"DENIED", "OUT_OF_SCOPE", "CANCELLED", "EXPIRED"}]
PhaseOf(state) == CHOOSE key \in DOMAIN Columns : state \in Columns[key]

NoAnswer == [kind |-> "none"]
\* place: the order of change, the newest first; 0 for a report not yet filed.
BoardsInit(mail, gated, rechecks) ==
    /\ CaseInit(mail, rechecks)
    /\ board = [gate |-> gated, state |-> [o \in Neighbours |-> "NONE"],
                place |-> [r \in Reports |-> IF r = Watched THEN 1 ELSE 0],
                hidden |-> FALSE, dead |-> FALSE]
    /\ reader = [at |-> "idle", reads |-> 0, commits |-> 0, answer |-> NoAnswer]

ReportState == IF board.gate THEN "NEEDS_DECISION" ELSE case.state

-----------------------------------------------------------------------------
(* The columns of one row as the queries select them.                      *)

\* pendingVerdictIdSql: the pair is set and nobody has answered.
PendingVerdict == IF case.pending # 0 /\ case.decision[case.pending] = "NONE"
                  THEN case.pending ELSE 0
LatestOutcome == IF Newest = 0 THEN "NONE" ELSE Draft(Newest).kind
LatestSuperseded == Newest \in case.superseded
LatestDelivery == IF Newest # 0 /\ case.decision[Newest] = "APPROVED"
                  THEN case.delivery.state ELSE "NONE"
HandoffFailed == /\ Newest # 0 /\ case.decision[Newest] # "NONE"
                 /\ case.handoff.state = "FAILED" /\ case.handoff.attempts >= SubmitAttempts
                 /\ LatestDelivery = "NONE"
SessionErrored == case.turn = "ERROR"

\* awaitingVerdictId of a card, awaitingReviewSql, the sidebar's order and
\* the home count: four spellings of waiting on a reviewer.
CardAwaiting == IF \/ ReportState = "AWAITING_APPROVAL"
                   \/ ReportState = "ANALYSIS_ONLY" /\ LatestOutcome = "ANALYSIS_ONLY"
                THEN PendingVerdict ELSE 0
AwaitingReview == /\ PendingVerdict # 0
                  /\ \/ ReportState = "AWAITING_APPROVAL"
                     \/ ReportState = "ANALYSIS_ONLY" /\ LatestOutcome = "ANALYSIS_ONLY"
SidebarFirst == ReportState \in {"AWAITING_APPROVAL", "ANALYSIS_ONLY"} /\ PendingVerdict # 0
HomeAwaiting == ReportState \in {"AWAITING_APPROVAL", "ANALYSIS_ONLY"} /\ case.pending # 0

\* Card: what the status line says, in the order it is decided.
Running == {"TRIAGING", "REPRODUCING", "DELIVERING"}
StalledFirstRun == /\ ReportState = "TRIAGING" /\ ~LatestSuperseded
                   /\ (board.dead \/ SessionErrored)
Stalled == LatestDelivery = "FAILED" \/ HandoffFailed
RecheckFailed == LatestSuperseded /\ case.run = "ERROR"
Spins == ~Stalled /\ ~StalledFirstRun /\ ReportState \in Running /\ ~RecheckFailed

\* matchesFilter: the chips of the reports index; the open count of the web's
\* home and of the phone's queue.
Chips == [open |-> ReportState \notin Terminal, closed |-> ReportState \in Terminal,
          waiting |-> CardAwaiting # 0]
HomeOpen == ReportState \notin Terminal
QueueOpen == PhaseOf(ReportState) \notin {"delivered", "closed"}

\* STATE_TO_PHASE of the phone, the sections of its queue tab, the rail of its
\* home and the pill of its inbox.
PhonePhase ==
    CASE ReportState \in {"TRIAGING", "NEEDS_DECISION"} -> "triaging"
      [] ReportState = "REPRODUCING" -> "reproducing"
      [] ReportState = "ANALYSIS_ONLY" -> "analysis"
      [] ReportState = "AWAITING_APPROVAL" -> "approval"
      [] ReportState \in {"DELIVERING", "DELIVERED"} -> "delivered"
      [] OTHER -> "closed"
Section == [approval |-> "awaitingApproval", reproducing |-> "analysisOnly",
            analysis |-> "analysisOnly", triaging |-> "triaging"]
Shared(phase) == IF phase = "reproducing" THEN {"REPRODUCING"}
                 ELSE IF phase = "analysis" THEN {"ANALYSIS_ONLY"}
                 ELSE Columns[Section[phase]]
InSections == {phase \in DOMAIN Section : ReportState \in Shared(phase)}
Rail == PhaseOf(ReportState) = "awaitingApproval"
Pill == IF CardAwaiting # 0 \/ ReportState = "AWAITING_APPROVAL" THEN "approval"
        ELSE IF LatestDelivery = "FAILED" THEN "failed"
        ELSE PhonePhase

-----------------------------------------------------------------------------
(* The rows a statement finds.                                             *)

RowNow(r) == IF r = Watched
             THEN [state |-> ReportState, visible |-> ~board.hidden,
                   awaits |-> AwaitingReview]
             ELSE [state |-> board.state[r], visible |-> TRUE, awaits |-> FALSE]
Now == [place |-> board.place, row |-> [r \in Reports |-> RowNow(r)]]
VisibleIn(db) == {r \in Reports : db.place[r] # 0 /\ db.row[r].visible}

\* Of these rows those changed last, up to a limit.
Listed(db, rows, limit) ==
    {r \in rows : Cardinality({q \in rows : db.place[q] < db.place[r]}) < limit}

\* The counts of listQueue.
InColumn(db, key) == {r \in VisibleIn(db) : db.row[r].state \in Columns[key]}
Totals(db) == [key \in DOMAIN Columns |-> Cardinality(InColumn(db, key))]
\* Column: "n of m shown", under a column that stopped at the limit.
SaysMore(answer, key) == answer.totals[key] > Cardinality(answer.cards[key])
CardsFor(db, key) == Listed(db, InColumn(db, key), ColumnLimit)

\* listAwaitingReview, uncapped; listAllReports.
NeedsYou(db) == {r \in VisibleIn(db) : db.row[r].awaits \/ db.row[r].state = "NEEDS_DECISION"}
AllReports(db) == Listed(db, VisibleIn(db), IndexLimit)

-----------------------------------------------------------------------------
(* One list.  All its statements share a repeatable read transaction.      *)

Sees_Committed(snap) ==  \* mutant: each statement sees the latest commit
    Now
Sees(snap) == snap

\* The first statement: the counts of the board, the inbox's waiting rows.
ReadFirst(kind) ==
    /\ reader.at = "idle" /\ reader.reads < Reads
    /\ reader' = [at |-> "between", kind |-> kind, snap |-> Now, reads |-> reader.reads + 1,
                  commits |-> 0, answer |-> NoAnswer,
                  first |-> IF kind = "board" THEN Totals(Now) ELSE NeedsYou(Now)]
    /\ UNCHANGED <<case, board>>

\* The others: the cards of each column; the rest of the inbox.
ReadRest ==
    /\ reader.at = "between"
    /\ LET db == Sees(reader.snap) IN
         reader' = [reader EXCEPT !.at = "idle", !.answer =
           IF reader.kind = "board"
           THEN [kind |-> "board", totals |-> reader.first, of |-> reader.snap,
                 cards |-> [key \in DOMAIN Columns |-> CardsFor(db, key)]]
           ELSE [kind |-> "inbox", needs |-> reader.first, of |-> reader.snap,
                 earlier |-> AllReports(db) \ reader.first,
                 truncated |-> Cardinality(AllReports(db)) >= IndexLimit]]
    /\ UNCHANGED <<case, board>>

-----------------------------------------------------------------------------
(* The commits.                                                            *)

MayCommit == /\ reader.answer = NoAnswer
             /\ reader.at = "idle" \/ reader.commits < Commits
Counted == reader' = [reader EXCEPT !.commits = IF reader.at = "idle" THEN 0 ELSE @ + 1]

\* The report moves to the front, those it was behind move back by one.
ToFront(r) ==
    LET place == board.place
        Passed(q) == place[q] # 0 /\ (place[r] = 0 \/ place[q] < place[r])
    IN [q \in Reports |-> IF q = r THEN 1 ELSE IF Passed(q) THEN place[q] + 1 ELSE place[q]]

\* transitionReport stamps updated_at with the state.
Shifts(state) == IF state = ReportState THEN board.place ELSE ToFront(Watched)

\* What CaseFile follows, once a reviewer has let the report past the gate.
CaseMoves ==
    \/ ~board.dead /\ \/ \E kind \in Kinds : ParkVerdict(kind)
                      \/ \E how \in Ends : EndWithoutVerdict(how)
    \/ Publish \/ RunMoves \/ Submit \/ Send \/ Retire
    \/ \E what \in {"delivered", "bounced", "complained"} : Receipt(what)
    \/ \E r \in Revision : \/ MayDecide(r) /\ \E o \in {"APPROVED", "DENIED"} :
                                  case' = Decided_As(r, o)
                           \/ MayRecheck(r) /\ case.rechecks > 0 /\ case' = Rechecked(r)
    \/ RetryRecheck \/ CancelRecheck \/ RetryHeld \/ CancelHeld
WatchedMoves ==
    /\ MayCommit
    /\ \/ ~board.gate /\ CaseMoves
       \/ board.gate /\ case' \in {case, [case EXCEPT !.state = "DENIED"]}
    /\ board' = [board EXCEPT !.gate = FALSE, !.place = Shifts(case'.state)]
    /\ Counted

\* A first delivery whose job runs out of attempts starts no session.
JobDies == /\ MayCommit /\ ReportState = "TRIAGING" /\ ~board.dead
           /\ board' = [board EXCEPT !.dead = TRUE] /\ case' = [case EXCEPT !.turn = "NONE"]
           /\ Counted

OtherMoves(o) ==
    /\ MayCommit
    /\ \/ board.state[o] = "NONE" /\ \E s \in {"TRIAGING", "NEEDS_DECISION"} :
            board' = [board EXCEPT !.state[o] = s, !.place = ToFront(o)]
       \/ board.state[o] = "NEEDS_DECISION" /\
            board' = [board EXCEPT !.state[o] = "DENIED", !.place = ToFront(o)]
    /\ Counted /\ UNCHANGED case

\* hide-reports.ts hides a report, or shows it again.
Hide == /\ MayCommit
        /\ board' = [board EXCEPT !.hidden = ~@]
        /\ Counted /\ UNCHANGED case

BoardsNext == \/ \E kind \in {"board", "inbox"} : ReadFirst(kind)
              \/ ReadRest \/ WatchedMoves \/ JobDies \/ Hide
              \/ \E o \in Neighbours : OtherMoves(o)

-----------------------------------------------------------------------------
\* A list that was read is one moment of the program (queue.ts: "what makes
\* the board a single moment rather than seven"): no column shows cards its
\* total does not count or hides cards without saying so, every report is on
\* exactly one column, and the inbox has everyone who waits, once, however
\* old (inbox/route.ts: "Within one snapshot a report is either awaiting or
\* not, never both").
Got == reader.answer
BoardIsOneMoment ==
    Got.kind = "board" =>
        /\ \A key \in DOMAIN Columns :
              /\ Cardinality(Got.cards[key]) =
                   IF Got.totals[key] < ColumnLimit THEN Got.totals[key] ELSE ColumnLimit
              /\ \A r \in Got.cards[key] : Got.of.row[r].state \in Columns[key]
        /\ \A r \in VisibleIn(Got.of) :
              \/ \E key \in DOMAIN Columns : r \in Got.cards[key]
              \/ SaysMore(Got, PhaseOf(Got.of.row[r].state))
InboxIsOneMoment ==
    Got.kind = "inbox" =>
        /\ Got.needs \intersect Got.earlier = {}
        /\ \A r \in VisibleIn(Got.of) :
              \/ r \in Got.needs \union Got.earlier
              \/ Got.truncated /\ ~Got.of.row[r].awaits

\* A card, the inbox, the sidebar and the case page agree on who waits for a
\* reviewer (queue.ts: "two spellings of waiting that disagree is a screen
\* telling somebody there is nothing to do").  The home count and the phone's
\* rail and pill alone go on with a report whose answer is on its way to the
\* harness, and the rail alone leaves out a waiting ANALYSIS_ONLY verdict.
Answered == PendingShown /\ case.decision[case.pending] = "APPROVED"
OneWaiting ==
    /\ CardAwaiting = AwaitingVerdict
    /\ AwaitingReview <=> CardAwaiting # 0
    /\ SidebarFirst <=> AwaitingReview
    /\ Chips.waiting <=> AwaitingReview
    /\ HomeAwaiting <=> (AwaitingReview \/ Answered)
    /\ Rail => AwaitingReview \/ Answered
    /\ AwaitingReview => Rail \/ ReportState = "ANALYSIS_ONLY"
    /\ Pill = "approval" <=> AwaitingReview \/ Rail

\* What is open on one screen is open on the other, and stands in one section
\* of the phone's queue; a report being delivered counts at home and not there.
OneOpen == /\ Chips.open <=> HomeOpen
           /\ HomeOpen <=> QueueOpen \/ ReportState = "DELIVERING"
           /\ QueueOpen <=> Cardinality(InSections) = 1
           /\ InSections = {} \/ InSections = {PhonePhase}

\* A card that spins is a report something is working on or will be
\* (queue-board.tsx: "The states something is actively doing, as opposed to
\* one that is waiting"), or one whose mail has gone out: that card goes on
\* spinning until the provider's receipt, which nothing here works on.
AwaitsReceipt == case.mail /\ case.delivery.state = "SENT"
WorkedOn == \/ case.state = "TRIAGING" /\ ~board.dead
            \/ case.state = "REPRODUCING" /\ case.run \in {"PENDING", "RUNNING"}
            \/ Sendable \/ AwaitsReceipt
SpinnerIsTrue == Spins => WorkedOn

ListsAreTrue == BoardIsOneMoment /\ InboxIsOneMoment /\ OneWaiting /\ OneOpen
                /\ SpinnerIsTrue
=============================================================================
