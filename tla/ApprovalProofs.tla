--------------------------- MODULE ApprovalProofs ---------------------------
(***************************************************************************)
(* Proofs about Approval, for any processes, attempts, re-checks, turns    *)
(* and settings of the world.                                              *)
(***************************************************************************)
EXTENDS Approval, FiniteSetTheorems, TLAPS

USE ProcessAssumption, WorldAssumption, BoundAssumption

-----------------------------------------------------------------------------
(* Rows and processes are replaced one at a time, and rows are appended.   *)

LEMMA Replaced ==
    ASSUME NEW P, NEW S, NEW f \in [P -> S], NEW p \in P, NEW new \in S, NEW g,
           g = [f EXCEPT ![p] = new]
    PROVE  g[p] = new /\ g \in [P -> S] /\ \A q \in P : q # p => g[q] = f[q]
  OBVIOUS

LEMMA OneRow ==
    ASSUME NEW S, NEW e \in S
    PROVE  <<e>> \in Seq(S) /\ Len(<<e>>) = 1 /\ 1 \in DOMAIN <<e>> /\ <<e>>[1] = e
  OBVIOUS

LEMMA Appended ==
    ASSUME NEW S, NEW s \in Seq(S), NEW e \in S, NEW g, g = Append(s, e)
    PROVE  /\ g \in Seq(S) /\ Len(g) = Len(s) + 1 /\ g[Len(s) + 1] = e
           /\ DOMAIN g = 1 .. Len(s) + 1 /\ \A i \in DOMAIN s : i \in DOMAIN g /\ g[i] = s[i]
  OBVIOUS

LEMMA RowWrite ==
    ASSUME NEW S, NEW s \in Seq(S), NEW e \in S, NEW i \in DOMAIN s, NEW g, g = [s EXCEPT ![i] = e]
    PROVE  /\ g \in Seq(S) /\ Len(g) = Len(s) /\ DOMAIN g = DOMAIN s /\ g[i] = e
           /\ \A j \in DOMAIN s : j # i => g[j] = s[j]
  OBVIOUS

LEMMA RowsWrite ==
    ASSUME NEW S, NEW s \in Seq(S), NEW g, g = [i \in DOMAIN s |-> g[i]],
           \A i \in DOMAIN s : g[i] \in S
    PROVE  g \in Seq(S) /\ Len(g) = Len(s) /\ DOMAIN g = DOMAIN s
  OBVIOUS

-----------------------------------------------------------------------------
(* Type correctness, with what the rows and the processes refer to.        *)

\* A process that is about to use a turn, a run or an outcome has one.
Fits ==
    /\ Len(verdict) \in Rev \union {0}
    /\ Len(turns) <= MaxTurns
    /\ session.turn \in DOMAIN turns
    /\ \A p \in Poller : poller[p] # NotPolling =>
         /\ poller[p].seen.turn \in DOMAIN turns
         /\ poller[p].phase = "end" => poller[p].as \in TurnOver
         /\ poller[p].phase = "handover" => poller[p].next \in DOMAIN turns
    /\ \A s \in Submitter : submitter[s].phase = "mark" => submitter[s].next \in DOMAIN turns
    /\ \A r \in Runner : runner[r] # NotRunning =>
         /\ runner[r].k \in DOMAIN run
         /\ runner[r].phase = "rewrite" => runner[r].turn \in DOMAIN turns
    /\ \A r \in Rev : submission[r].holder # Nobody => submission[r].attempts > 0

Typed == TypeOK /\ Fits

LEMMA TypeInit == Init => Typed
<1> SUFFICES ASSUME Init PROVE Typed
  OBVIOUS
<1>1. Started(1, 0, FALSE) \in Turn
  BY DEF Started, Turn, AllForms, Kinds
<1>2. turns = <<Started(1, 0, FALSE)>> /\ turns \in Seq(Turn) /\ Len(turns) = 1 /\ 1 \in DOMAIN turns
  BY <1>1, OneRow DEF Init
<1>3. session \in Session
  BY DEF Init, Session, TurnId, TurnStatus, TurnOpen, NoPending, Pending, Synth
<1>4. verdict \in Seq(Verdict) /\ run \in Seq(RunRow) /\ Len(verdict) = 0
  BY DEF Init
<1>5. decision \in [Rev -> Decision]
  BY DEF Init, Decision, Undecided, Synth
<1>6. submission \in [Rev -> SubmissionRow]
  BY DEF Init, SubmissionRow
<1>7. world \in World
  BY DEF Init
<1>8. poller \in [Poller -> Polling \union {NotPolling}]
      /\ submitter \in [Submitter -> Submitting \union {NotSubmitting}]
      /\ runner \in [Runner -> Running \union {NotRunning}]
  BY DEF Init
<1>9. TypeOK
  BY <1>2, <1>3, <1>4, <1>5, <1>6, <1>7, <1>8 DEF Init, TypeOK, ReportStates
<1>10. Fits
  BY <1>2, <1>4 DEF Init, Fits, NotPolling, NotSubmitting, NotRunning
<1> QED
  BY <1>9, <1>10 DEF Typed

\* What a process at a step is.
LEMMA PollerFields ==
    ASSUME Typed, NEW p \in Poller, poller[p].phase # "idle" \/ poller[p] # NotPolling
    PROVE  /\ poller[p] \in Polling /\ poller[p] # NotPolling /\ poller[p].phase \in PollPhases
           /\ poller[p].seen \in Snapshot /\ poller[p].rev \in Rev \union {0}
           /\ poller[p].next \in TurnId \union {0} /\ poller[p].as \in TurnOver \union {"open"}
           /\ poller[p].seen.turn \in DOMAIN turns /\ poller[p].seen.turn \in TurnId
           /\ poller[p].seen.sess \in Nat
  BY DEF Typed, TypeOK, Fits, Polling, NotPolling, PollPhases, Snapshot

LEMMA SubmitterFields ==
    ASSUME Typed, NEW s \in Submitter, submitter[s].phase # "idle" \/ submitter[s] # NotSubmitting
    PROVE  /\ submitter[s] \in Submitting /\ submitter[s] # NotSubmitting
           /\ submitter[s].rev \in Rev /\ submitter[s].sess \in Nat
           /\ submission[submitter[s].rev] \in SubmissionRow
           /\ decision[submitter[s].rev] \in Decision
  BY DEF Typed, TypeOK, Submitting, NotSubmitting

LEMMA RunnerFields ==
    ASSUME Typed, NEW r \in Runner, runner[r].phase # "idle" \/ runner[r] # NotRunning
    PROVE  /\ runner[r] \in Running /\ runner[r] # NotRunning
           /\ runner[r].k \in DOMAIN run /\ run[runner[r].k] \in RunRow
           /\ runner[r].sess \in Nat /\ runner[r].old \in Nat
           /\ runner[r].turn \in TurnId \union {0}
  BY DEF Typed, TypeOK, Fits, Running, NotRunning

LEMMA TurnFields ==
    ASSUME Typed, NEW t \in DOMAIN turns
    PROVE  t \in TurnId /\ turns[t] \in Turn
  BY DEF Typed, TypeOK, Fits, TurnId

\* The parts of the type invariant, after a step.
PollerOK == poller' \in [Poller -> Polling \union {NotPolling}]
SubmitterOK == submitter' \in [Submitter -> Submitting \union {NotSubmitting}]
RunnerOK == runner' \in [Runner -> Running \union {NotRunning}]

\* A poller that goes on, and one that stops.
PBecomes(p, phase, rev, next, as) ==
    /\ PollerOK
    /\ poller'[p].phase = phase /\ poller'[p].rev = rev /\ poller'[p].next = next
    /\ poller'[p].as = as /\ poller'[p].seen = poller[p].seen
    /\ poller'[p] # NotPolling
    /\ \A q \in Poller : q # p => poller'[q] = poller[q]

PStops(p) ==
    /\ PollerOK
    /\ poller'[p] = NotPolling
    /\ \A q \in Poller : q # p => poller'[q] = poller[q]

LEMMA PollerReplaced ==
    ASSUME Typed, NEW p \in Poller, NEW new \in Polling, poller' = [poller EXCEPT ![p] = new]
    PROVE  /\ poller'[p] = new /\ poller' \in [Poller -> Polling \union {NotPolling}]
           /\ \A q \in Poller : q # p => poller'[q] = poller[q]
<1>1. poller \in [Poller -> Polling \union {NotPolling}] /\ new \in Polling \union {NotPolling}
  BY DEF Typed, TypeOK
<1> QED
  BY <1>1, Replaced

LEMMA PollerWrite ==
    ASSUME Typed, NEW p \in Poller, poller[p].phase # "idle",
           NEW phase \in PollPhases, NEW rev \in Rev \union {0}, NEW next \in TurnId \union {0},
           NEW as \in TurnOver \union {"open"},
           poller' = [poller EXCEPT ![p].phase = phase, ![p].rev = rev, ![p].next = next,
                                    ![p].as = as]
    PROVE  PBecomes(p, phase, rev, next, as)
<1> DEFINE new == [poller[p] EXCEPT !.phase = phase, !.rev = rev, !.next = next, !.as = as]
<1>1. poller[p] \in Polling
  BY PollerFields
<1>2. /\ new \in Polling /\ new.phase = phase /\ new.rev = rev /\ new.next = next
      /\ new.as = as /\ new.seen = poller[p].seen
  BY <1>1 DEF Polling
<1>3. new # NotPolling
  BY <1>2 DEF NotPolling, PollPhases
<1>4. poller' = [poller EXCEPT ![p] = new]
  BY <1>1 DEF Typed, TypeOK, Polling
<1> HIDE DEF new
<1>5. /\ poller'[p] = new /\ poller' \in [Poller -> Polling \union {NotPolling}]
      /\ \A q \in Poller : q # p => poller'[q] = poller[q]
  BY <1>2, <1>4, PollerReplaced
<1> QED
  BY <1>2, <1>3, <1>5 DEF PBecomes, PollerOK

LEMMA PollerMoves ==
    ASSUME Typed, NEW p \in Poller, poller[p].phase # "idle"
    PROVE  /\ \A phase \in PollPhases :
                Go(p, phase) => PBecomes(p, phase, poller[p].rev, poller[p].next, poller[p].as)
           /\ \A as \in TurnOver :
                Ending(p, as) => PBecomes(p, "end", poller[p].rev, poller[p].next, as)
           /\ \A t \in TurnId :
                poller' = [poller EXCEPT ![p].phase = "handover", ![p].next = t]
                => PBecomes(p, "handover", poller[p].rev, t, poller[p].as)
           /\ \A rev \in Rev :
                poller' = [poller EXCEPT ![p].phase = "verify", ![p].rev = rev]
                => PBecomes(p, "verify", rev, poller[p].next, poller[p].as)
<1>0. poller[p] \in Polling /\ poller \in [Poller -> Polling \union {NotPolling}]
  BY PollerFields DEF Typed, TypeOK
<1>1. ASSUME NEW phase \in PollPhases, Go(p, phase)
      PROVE  PBecomes(p, phase, poller[p].rev, poller[p].next, poller[p].as)
  <2>1. poller' = [poller EXCEPT ![p].phase = phase, ![p].rev = poller[p].rev,
                                 ![p].next = poller[p].next, ![p].as = poller[p].as]
    BY <1>0, <1>1 DEF Go, Polling
  <2> QED
    BY <2>1, PollerWrite, PollerFields
<1>2. ASSUME NEW as \in TurnOver, Ending(p, as)
      PROVE  PBecomes(p, "end", poller[p].rev, poller[p].next, as)
  <2>1. poller' = [poller EXCEPT ![p].phase = "end", ![p].rev = poller[p].rev,
                                 ![p].next = poller[p].next, ![p].as = as]
    BY <1>0, <1>2 DEF Ending, Polling
  <2> QED
    BY <2>1, PollerWrite, PollerFields DEF PollPhases
<1>3. ASSUME NEW t \in TurnId, poller' = [poller EXCEPT ![p].phase = "handover", ![p].next = t]
      PROVE  PBecomes(p, "handover", poller[p].rev, t, poller[p].as)
  <2>1. poller' = [poller EXCEPT ![p].phase = "handover", ![p].rev = poller[p].rev,
                                 ![p].next = t, ![p].as = poller[p].as]
    BY <1>0, <1>3 DEF Polling
  <2> QED
    BY <2>1, PollerWrite, PollerFields DEF PollPhases
<1>4. ASSUME NEW rev \in Rev, poller' = [poller EXCEPT ![p].phase = "verify", ![p].rev = rev]
      PROVE  PBecomes(p, "verify", rev, poller[p].next, poller[p].as)
  <2>1. poller' = [poller EXCEPT ![p].phase = "verify", ![p].rev = rev,
                                 ![p].next = poller[p].next, ![p].as = poller[p].as]
    BY <1>0, <1>4 DEF Polling
  <2> QED
    BY <2>1, PollerWrite, PollerFields DEF PollPhases
<1> QED
  BY <1>1, <1>2, <1>3, <1>4

LEMMA PollerStops ==
    ASSUME Typed, NEW p \in Poller, Done(p)
    PROVE  PStops(p)
  BY DEF Typed, TypeOK, Done, PStops, PollerOK

-----------------------------------------------------------------------------
(* What each component's steps leave alone.                                *)

LEMMA PollerFrames ==
    ASSUME NEW p \in Poller, PollStep(p) \/ PollCrash(p)
    PROVE  /\ UNCHANGED <<superseded, decision, outbox, submission, submitter, runner>>
           /\ UNCHANGED <<sessions, overdue, world>>
           /\ UNCHANGED turns \/ CreateTurn(p)
           /\ UNCHANGED verdict \/ DraftStored(p) \/ EndInvestigation(p)
           /\ \/ UNCHANGED <<report, run>>
              \/ Abandon(p) \/ Verify(p) \/ EndOutOfScope(p) \/ EndInvestigation(p) \/ EndElsewhere(p)
           /\ \/ UNCHANGED session
              \/ Claim(p) \/ Follow(p) \/ Park(p) \/ HandOver(p) \/ Abandon(p) \/ Verify(p)
              \/ VerifyRefused(p) \/ EndOutOfScope(p) \/ EndInvestigation(p) \/ EndElsewhere(p)
           /\ UNCHANGED lapses \/ PollCrash(p)
  BY DEF PollStep, PollCrash, Claim, CheckReport, Ask, Follow, Park, FindTurn, CreateTurn,
         ResumeThrows, HandOver, DraftStored, DraftRepeated, DraftRefused, DraftConflicts, Abandon,
         Verify, VerifyRefused, VerifyThrows, EndOutOfScope, EndInvestigation, EndElsewhere,
         EndSession, LeaseLost, Lapse, record, harness, others, clock

LEMMA ClockFrames ==
    ASSUME ExpireDead \/ ExpireStalled \/ Deadline
    PROVE  /\ UNCHANGED <<report, verdict, superseded, decision, outbox, run, submission>>
           /\ UNCHANGED <<turns, sessions, poller, submitter, runner, world>>
           /\ UNCHANGED session \/ session' = [session EXCEPT !.holder = Nobody]
  BY DEF ExpireDead, ExpireStalled, Deadline, Lapse, record, harness, procs, clock

LEMMA ReviewFrames ==
    ASSUME ReviewNext
    PROVE  UNCHANGED <<verdict, superseded, run, turns, sessions, poller, submitter, runner,
                       overdue, lapses, world>>
  BY DEF ReviewNext, Deliver, Retire, Approve, Deny, ApproveSynthesized, Publish, rest, harness,
         procs, clock

LEMMA SubmissionFrames ==
    ASSUME SubmissionNext
    PROVE  /\ UNCHANGED <<report, verdict, superseded, decision, outbox, run, sessions>>
           /\ UNCHANGED <<poller, runner, overdue, world>>
           /\ UNCHANGED turns \/ \E s \in Submitter : CreateAnswer(s)
           /\ UNCHANGED session \/ \E s \in Submitter : MarkSubmitted(s)
  BY DEF SubmissionNext, SubmitStep, SubmitExpire, SubmitBury, SubmitClaim, SubmitCheck,
         SubmitRefuse, FindAnswer, CreateAnswer, MarkSubmitted, SubmitFails, SubmitLost, HandBack,
         SubmitCrash, Lapse, aside, record, clock

LEMMA RecheckFrames ==
    ASSUME RecheckNext
    PROVE  /\ UNCHANGED <<verdict, decision, outbox, submission, poller, submitter, overdue, world>>
           /\ UNCHANGED superseded \/ \E r \in DOMAIN verdict : RequestRecheck(r)
           /\ UNCHANGED report \/ CancelRecheck \/ \E r \in DOMAIN verdict : RequestRecheck(r)
           /\ \/ UNCHANGED session
              \/ \E r \in DOMAIN verdict : RequestRecheck(r)
              \/ \E r \in Runner : Rewrite(r)
           /\ \/ UNCHANGED turns
              \/ \E r \in Runner : RunStart(r) \/ CleanUp(r) \/ RunFails(r) \/ RunLost(r)
           /\ UNCHANGED runner \/ \E r \in Runner : RunStep(r) \/ RunCrash(r)
           /\ \/ UNCHANGED run \/ RetryRecheck \/ CancelRecheck
              \/ \E r \in DOMAIN verdict : RequestRecheck(r)
              \/ \E k \in DOMAIN run : RunExpire(k) \/ SweepRelease(k) \/ SweepFail(k)
              \/ \E r \in Runner : RunClaim(r) \/ Rewrite(r) \/ ReleaseRun(r) \/ RunFails(r)
  BY DEF RecheckNext, RetryRecheck, CancelRecheck, RequestRecheck, RunExpire, SweepRelease,
         SweepFail, RunStep, RunClaim, RunCheck, RunStart, Rewrite, CleanUp, ReleaseRun, RunFails,
         RunLost, RunCrash, Lapse, away, harness, clock

LEMMA HarnessFrames ==
    ASSUME HarnessNext
    PROVE  /\ UNCHANGED <<report, verdict, superseded, decision, outbox, session, run, submission>>
           /\ UNCHANGED <<sessions, poller, submitter, runner, overdue, world>>
  BY DEF HarnessNext, Forget, Propose, Stop, Lapse, record, procs, clock

-----------------------------------------------------------------------------
(* The turns: there are never fewer, one that stopped running never runs   *)
(* again and keeps its form, and what a turn answers is settled when it    *)
(* starts.                                                                 *)

TurnsKept ==
    \A t \in DOMAIN turns :
        /\ t \in DOMAIN turns'
        /\ turns'[t].answers = turns[t].answers /\ turns'[t].allow = turns[t].allow
        /\ turns[t].status # "running" => /\ turns'[t].status # "running"
                                          /\ turns'[t].form = turns[t].form

TurnsOK == turns' \in Seq(Turn) /\ Len(turns') <= MaxTurns /\ TurnsKept

LEMMA OneTurnMore ==
    ASSUME Typed, NEW sess \in Nat, NEW answers \in TurnId \union {0}, NEW allow \in BOOLEAN,
           Len(turns) < MaxTurns, turns' = Append(turns, Started(sess, answers, allow))
    PROVE  /\ TurnsOK /\ Len(turns') = Len(turns) + 1 /\ Len(turns') \in DOMAIN turns'
           /\ Len(turns') \in TurnId /\ Len(turns') \notin DOMAIN turns
           /\ turns'[Len(turns')] = Started(sess, answers, allow)
           /\ \A t \in DOMAIN turns' : t # Len(turns') => t \in DOMAIN turns /\ turns'[t] = turns[t]
<1>1. Started(sess, answers, allow) \in Turn
  BY DEF Started, Turn, AllForms, Kinds
<1>2. turns \in Seq(Turn)
  BY DEF Typed, TypeOK
<1> DEFINE new == Started(sess, answers, allow)
<1> HIDE DEF new
<1>3. /\ turns' \in Seq(Turn) /\ Len(turns') = Len(turns) + 1 /\ turns'[Len(turns) + 1] = new
      /\ DOMAIN turns' = 1 .. Len(turns) + 1
      /\ \A i \in DOMAIN turns : i \in DOMAIN turns' /\ turns'[i] = turns[i]
  BY <1>1, <1>2, Appended DEF new
<1>4. Len(turns) \in Nat /\ DOMAIN turns = 1 .. Len(turns)
  BY <1>2
<1> QED
  BY <1>3, <1>4 DEF TurnsOK, TurnsKept, TurnId, new

LEMMA TurnsForgotten ==
    ASSUME Typed, NEW gone \in Nat, turns' = Forgotten(gone)
    PROVE  TurnsOK /\ DOMAIN turns' = DOMAIN turns
<1>1. turns \in Seq(Turn) /\ Len(turns) <= MaxTurns
  BY DEF Typed, TypeOK, Fits
<1>2. /\ DOMAIN turns' = DOMAIN turns /\ turns' = [t \in DOMAIN turns |-> turns'[t]]
      /\ \A t \in DOMAIN turns :
           turns'[t] = IF turns[t].sess = gone THEN [turns[t] EXCEPT !.status = "lost"] ELSE turns[t]
  BY DEF Forgotten
<1>3. \A t \in DOMAIN turns :
        /\ turns'[t] \in Turn /\ turns'[t].answers = turns[t].answers
        /\ turns'[t].allow = turns[t].allow /\ turns'[t].form = turns[t].form
        /\ turns[t].status # "running" => turns'[t].status # "running"
  <2> TAKE t \in DOMAIN turns
  <2>1. turns[t] \in Turn
    BY <1>1
  <2> QED
    BY <1>2, <2>1 DEF Turn
<1>4. turns' \in Seq(Turn) /\ Len(turns') = Len(turns)
  BY <1>1, <1>2, <1>3, RowsWrite
<1> QED
  BY <1>1, <1>2, <1>3, <1>4 DEF TurnsOK, TurnsKept

LEMMA TurnsUnchanged == ASSUME Typed, UNCHANGED turns PROVE TurnsOK
  BY DEF Typed, TypeOK, Fits, TurnsOK, TurnsKept

LEMMA TurnsNext == ASSUME Typed, Next PROVE TurnsOK
<1>1. ASSUME NEW p \in Poller, CreateTurn(p) PROVE TurnsOK
  <2>1. poller[p].seen.sess \in Nat /\ poller[p].seen.turn \in TurnId
    BY <1>1, PollerFields DEF CreateTurn, At
  <2>2. PICK allow \in BOOLEAN :
          turns' = Append(turns, Started(poller[p].seen.sess, poller[p].seen.turn, allow))
    BY <1>1 DEF CreateTurn
  <2> QED
    BY <1>1, <2>1, <2>2, OneTurnMore DEF CreateTurn
<1>2. ASSUME NEW s \in Submitter, CreateAnswer(s) PROVE TurnsOK
  <2>1. submitter[s].sess \in Nat /\ decision[submitter[s].rev] \in Decision
    BY <1>2, SubmitterFields DEF CreateAnswer, In
  <2>2. decision[submitter[s].rev].call \in TurnId \union {0}
        /\ Allows(submitter[s].rev) \in BOOLEAN
    BY <2>1 DEF Decision, Synth, Allows
  <2> QED
    BY <1>2, <2>1, <2>2, OneTurnMore DEF CreateAnswer
<1>3. ASSUME NEW r \in Runner, RunStart(r) \/ CleanUp(r) \/ RunFails(r) \/ RunLost(r) PROVE TurnsOK
  <2>0. sessions \in Nat /\ sessions + 1 \in Nat
    BY DEF Typed, TypeOK
  <2>1. CASE RunStart(r)
    BY <2>0, <2>1, OneTurnMore DEF RunStart
  <2>2. CASE ~RunStart(r)
    <3>1. runner[r].phase # "idle"
      BY <1>3, <2>2 DEF CleanUp, RunFails, RunLost, Is
    <3>2. runner[r].old \in Nat /\ runner[r].sess \in Nat
      BY <3>1, RunnerFields
    <3>3. turns' \in {turns, Forgotten(runner[r].old), Forgotten(runner[r].sess)}
      BY <1>3, <2>2 DEF CleanUp, RunFails, RunLost
    <3> QED
      BY <3>2, <3>3, TurnsForgotten, TurnsUnchanged
  <2> QED
    BY <2>1, <2>2
<1>4. CASE HarnessNext
  <2>1. CASE Forget
    BY <2>1, TurnsForgotten DEF Forget
  <2>2. ASSUME NEW t \in DOMAIN turns, Propose(t) \/ Stop(t) PROVE TurnsOK
    <3>0. turns \in Seq(Turn) /\ Len(turns) <= MaxTurns /\ turns[t] \in Turn
      BY TurnFields DEF Typed, TypeOK, Fits
    <3>1. PICK new \in Turn : /\ turns' = [turns EXCEPT ![t] = new]
                              /\ new.answers = turns[t].answers /\ new.allow = turns[t].allow
      <4>1. CASE Propose(t)
        <5>1. PICK f \in world.forms, kind \in Kinds :
                turns' = [turns EXCEPT ![t].status = "awaiting", ![t].form = f, ![t].kind = kind]
          BY <4>1 DEF Propose
        <5>2. f \in AllForms
          BY DEF Typed, TypeOK, World
        <5> DEFINE new == [turns[t] EXCEPT !.status = "awaiting", !.form = f, !.kind = kind]
        <5>3. new \in Turn /\ new.answers = turns[t].answers /\ new.allow = turns[t].allow
          BY <3>0, <5>2 DEF Turn
        <5>4. turns' = [turns EXCEPT ![t] = new]
          BY <3>0, <5>1 DEF Turn
        <5> QED
          BY <5>3, <5>4
      <4>2. CASE Stop(t)
        <5>1. PICK status \in {"done", "error", "cancelled"} :
                turns' = [turns EXCEPT ![t].status = status]
          BY <4>2 DEF Stop
        <5> DEFINE new == [turns[t] EXCEPT !.status = status]
        <5>2. new \in Turn /\ new.answers = turns[t].answers /\ new.allow = turns[t].allow
          BY <3>0 DEF Turn
        <5>3. turns' = [turns EXCEPT ![t] = new]
          BY <3>0, <5>1
        <5> QED
          BY <5>2, <5>3
      <4> QED
        BY <2>2, <4>1, <4>2
    <3>2. turns[t].status = "running"
      BY <2>2 DEF Propose, Stop
    <3>3. /\ turns' \in Seq(Turn) /\ Len(turns') = Len(turns) /\ DOMAIN turns' = DOMAIN turns
          /\ turns'[t] = new /\ \A u \in DOMAIN turns : u # t => turns'[u] = turns[u]
      BY <3>0, <3>1, RowWrite
    <3> QED
      BY <3>0, <3>1, <3>2, <3>3 DEF TurnsOK, TurnsKept
  <2> QED
    BY <1>4, <2>1, <2>2 DEF HarnessNext
<1>5. UNCHANGED turns \/ HarnessNext
      \/ (\E p \in Poller : CreateTurn(p)) \/ (\E s \in Submitter : CreateAnswer(s))
      \/ (\E r \in Runner : RunStart(r) \/ CleanUp(r) \/ RunFails(r) \/ RunLost(r))
  BY PollerFrames, ClockFrames, ReviewFrames, SubmissionFrames, RecheckFrames DEF Next, PollerNext
<1> QED
  BY <1>1, <1>2, <1>3, <1>4, <1>5, TurnsUnchanged

-----------------------------------------------------------------------------
(* The report's own rows.                                                  *)

RecordOK ==
    /\ report' \in ReportStates
    /\ verdict' \in Seq(Verdict) /\ Len(verdict') \in Rev \union {0}
    /\ superseded' \subseteq Rev
    /\ decision' \in [Rev -> Decision]
    /\ outbox' \subseteq Rev

LEMMA RevFacts ==
    ASSUME Typed
    PROVE  /\ MaxRechecks \in Nat /\ 1 \in Rev /\ DOMAIN verdict = 1 .. Len(verdict)
           /\ Len(verdict) \in Nat /\ DOMAIN verdict \subseteq Rev
           /\ Rev \subseteq Nat \ {0}
           /\ \A r \in DOMAIN verdict : verdict[r] \in Verdict
           /\ verdict = <<>> <=> Len(verdict) = 0
  BY DEF Typed, TypeOK, Fits, Rev

LEMMA SessionFields ==
    ASSUME Typed
    PROVE  /\ session \in Session /\ session.sess \in Nat /\ session.turn \in TurnId
           /\ session.status \in TurnStatus /\ session.pend \in Pending
           /\ session.pend.rev \in Rev \union {0} /\ session.pend.call \in TurnId \union {0}
           /\ session.holder \in Poller \union {Nobody}
  BY DEF Typed, TypeOK, Session, Pending, Synth

\* What a drafted or synthesized revision adds.
LEMMA OneVerdictMore ==
    ASSUME Typed, NEW v \in Verdict, Len(verdict) + 1 \in Rev, verdict' = Append(verdict, v)
    PROVE  /\ verdict' \in Seq(Verdict) /\ Len(verdict') = Len(verdict) + 1
           /\ verdict'[Len(verdict')] = v
  BY DEF Typed, TypeOK

LEMMA RecordNext == ASSUME Typed, Next PROVE RecordOK
<1>0. /\ report \in ReportStates /\ verdict \in Seq(Verdict) /\ Len(verdict) \in Rev \union {0}
      /\ superseded \subseteq Rev /\ decision \in [Rev -> Decision] /\ outbox \subseteq Rev
  BY DEF Typed, TypeOK, Fits
<1>1. CASE UNCHANGED record
  BY <1>0, <1>1 DEF record, RecordOK
<1>2. ASSUME NEW p \in Poller, DraftStored(p) PROVE RecordOK
  <2>1. poller[p].seen.turn \in TurnId /\ poller[p].seen.turn \in DOMAIN turns
    BY <1>2, PollerFields DEF DraftStored, At
  <2>2. [by |-> poller[p].seen.turn, kind |-> Asked(p).kind] \in Verdict
    BY <2>1, TurnFields DEF Asked, Turn, Verdict
  <2> QED
    BY <1>0, <1>2, <2>2, OneVerdictMore DEF DraftStored, RecordOK
<1>3. ASSUME NEW p \in Poller, Abandon(p) \/ Verify(p) \/ EndOutOfScope(p) \/ EndElsewhere(p)
      PROVE  RecordOK
  <2>1. UNCHANGED <<verdict, superseded, decision, outbox>>
    BY <1>3 DEF Abandon, Verify, EndOutOfScope, EndElsewhere, EndSession
  <2>2. report' \in ReportStates
    BY <1>0, <1>3 DEF Abandon, Verify, EndOutOfScope, EndElsewhere, MoveTo, ReportStates, Closed
  <2> QED
    BY <1>0, <2>1, <2>2 DEF RecordOK
<1>4. ASSUME NEW p \in Poller, EndInvestigation(p) PROVE RecordOK
  <2>1. report' = "ANALYSIS_ONLY" /\ UNCHANGED <<superseded, decision, outbox>>
    BY <1>4 DEF EndInvestigation, MoveTo, EndSession
  <2>2. [by |-> Synth, kind |-> "ANALYSIS_ONLY"] \in Verdict
    BY DEF Verdict, Kinds
  <2> DEFINE v == [by |-> Synth, kind |-> "ANALYSIS_ONLY"]
  <2>3. verdict' = <<v>> \/ UNCHANGED verdict
    BY <1>4 DEF EndInvestigation
  <2> HIDE DEF v
  <2>4. verdict' \in Seq(Verdict) /\ Len(verdict') \in Rev \union {0}
    <3>1. CASE verdict' = <<v>>
      BY <2>2, <3>1, OneRow, RevFacts DEF v
    <3>2. CASE UNCHANGED verdict
      BY <1>0, <3>2
    <3> QED
      BY <2>3, <3>1, <3>2
  <2> QED
    BY <1>0, <2>1, <2>4 DEF RecordOK, ReportStates
<1>5. CASE ReviewNext
  <2>0. UNCHANGED <<verdict, superseded>>
    BY <1>5, ReviewFrames
  <2>1. ASSUME NEW r \in DOMAIN verdict, NEW outcome \in Outcomes, Decides(r, outcome)
        PROVE  decision' \in [Rev -> Decision]
    <3>1. [outcome |-> outcome, call |-> session.pend.call] \in Decision
      BY SessionFields DEF Decision, Synth
    <3> QED
      BY <1>0, <2>1, <3>1, RevFacts DEF Decides
  <2>2. ASSUME NEW r, Enqueue(r), r \in Rev PROVE report' \in ReportStates /\ outbox' \subseteq Rev
    BY <1>0, <2>2 DEF Enqueue, MoveTo, ReportStates
  <2>3. CASE Deliver \/ Retire
    BY <1>0, <2>0, <2>3 DEF Deliver, Retire, MoveTo, RecordOK, ReportStates, Closed
  <2>4. ASSUME NEW r \in DOMAIN verdict, Approve(r) PROVE RecordOK
    BY <1>0, <2>0, <2>1, <2>4 DEF Approve, RecordOK, Outcomes
  <2>5. ASSUME NEW r \in DOMAIN verdict, Deny(r) PROVE RecordOK
    BY <1>0, <2>0, <2>1, <2>5 DEF Deny, MoveTo, RecordOK, Outcomes, ReportStates, Closed
  <2>6. ASSUME NEW r \in DOMAIN verdict, ApproveSynthesized(r) PROVE RecordOK
    BY <1>0, <2>0, <2>1, <2>2, <2>6, RevFacts DEF ApproveSynthesized, RecordOK, Outcomes
  <2>7. ASSUME NEW c, Publish(c) PROVE RecordOK
    <3>1. session.pend.rev \in Rev
      BY <2>7, SessionFields DEF Publish, Approved
    <3> QED
      BY <1>0, <2>0, <2>2, <2>7, <3>1 DEF Publish, RecordOK
  <2> QED
    BY <1>5, <2>3, <2>4, <2>5, <2>6, <2>7 DEF ReviewNext
<1>6. CASE CancelRecheck
  BY <1>0, <1>6 DEF CancelRecheck, MoveTo, RecordOK, ReportStates, away
<1>7. ASSUME NEW r \in DOMAIN verdict, RequestRecheck(r) PROVE RecordOK
  BY <1>0, <1>7, RevFacts DEF RequestRecheck, MoveTo, RecordOK, ReportStates, away
<1>8. UNCHANGED record \/ ReviewNext \/ CancelRecheck
      \/ (\E r \in DOMAIN verdict : RequestRecheck(r))
      \/ (\E p \in Poller : \/ DraftStored(p) \/ EndInvestigation(p)
                            \/ Abandon(p) \/ Verify(p) \/ EndOutOfScope(p) \/ EndElsewhere(p))
  BY PollerFrames, ClockFrames, SubmissionFrames, RecheckFrames, HarnessFrames
     DEF Next, PollerNext, record
<1> QED
  BY <1>1, <1>2, <1>3, <1>4, <1>5, <1>6, <1>7, <1>8

-----------------------------------------------------------------------------
(* The session row.                                                        *)

SessionOK == session' \in Session /\ session'.turn \in DOMAIN turns'

LEMMA SessionSame ==
    ASSUME Typed, TurnsOK, session' \in Session, session'.turn = session.turn
    PROVE  SessionOK
  BY DEF SessionOK, Typed, Fits, TurnsOK, TurnsKept

LEMMA SessionNext == ASSUME Typed, Next PROVE SessionOK
<1>0. session \in Session /\ session.turn \in DOMAIN turns /\ TurnsOK
  BY TurnsNext, SessionFields DEF Typed, Fits
<1>1. CASE UNCHANGED session
  BY <1>0, <1>1, SessionSame
<1>2. CASE session' = [session EXCEPT !.holder = Nobody]
  BY <1>0, <1>2, SessionSame DEF Session
<1>3. ASSUME NEW p \in Poller, Claim(p) PROVE SessionOK
  BY <1>0, <1>3, SessionSame DEF Claim, Session
<1>4. ASSUME NEW p \in Poller, Follow(p) \/ Abandon(p) \/ VerifyRefused(p) \/ Park(p) PROVE SessionOK
  <2>1. \E status \in TurnStatus :
          session' = [session EXCEPT !.status = status, !.holder = Nobody]
    BY <1>0, <1>4 DEF Follow, Abandon, VerifyRefused, Park, Release, TurnStatus, TurnOver, TurnOpen, Session
  <2> QED
    BY <1>0, <2>1, SessionSame DEF Session
<1>5. ASSUME NEW p \in Poller, HandOver(p) PROVE SessionOK
  <2>1. poller[p].next \in DOMAIN turns
    BY <1>5, PollerFields DEF HandOver, At, Typed, Fits
  <2>2. poller[p].next \in TurnId /\ poller[p].next \in DOMAIN turns'
    BY <1>0, <2>1, TurnFields DEF TurnsOK, TurnsKept
  <2>3. session' = [session EXCEPT !.turn = poller[p].next, !.status = "RUNNING", !.holder = Nobody]
    BY <1>0, <1>5 DEF HandOver, Release, Session
  <2> QED
    BY <1>0, <2>2, <2>3 DEF SessionOK, Session, TurnStatus, TurnOpen
<1>6. ASSUME NEW p \in Poller, NEW pend \in Pending, NEW status \in TurnStatus,
             Release([session EXCEPT !.status = status, !.pend = pend])
      PROVE  SessionOK
  <2>1. session' = [session EXCEPT !.status = status, !.pend = pend, !.holder = Nobody]
    BY <1>0, <1>6 DEF Release, Session
  <2> QED
    BY <1>0, <2>1, SessionSame DEF Session
<1>7. ASSUME NEW p \in Poller, Verify(p) PROVE SessionOK
  <2>1. poller[p].seen.turn \in TurnId
    BY <1>7, PollerFields DEF Verify, At
  <2>2. Call(p) \in Pending
    BY <1>7, <2>1, RevFacts DEF Call, Newest, Pending, Typed, Fits
  <2> QED
    BY <1>6, <1>7, <2>2 DEF Verify, TurnStatus
<1>8. ASSUME NEW p \in Poller, EndOutOfScope(p) \/ EndInvestigation(p) \/ EndElsewhere(p)
      PROVE  SessionOK
  <2>1. poller[p].as \in TurnStatus
    BY <1>8, PollerFields DEF EndOutOfScope, EndInvestigation, EndElsewhere, At, Typed, Fits, TurnStatus
  <2>2. NoPending \in Pending /\ [rev |-> 1, call |-> Synth] \in Pending
    BY RevFacts DEF NoPending, Pending
  <2>3. \E pend \in Pending : Release([session EXCEPT !.status = poller[p].as, !.pend = pend])
    BY <1>8, <2>2 DEF EndOutOfScope, EndInvestigation, EndElsewhere, EndSession
  <2> QED
    BY <1>6, <2>1, <2>3
<1>9. CASE ReviewNext
  <2>1. session' \in {session, [session EXCEPT !.pend = NoPending]}
    BY <1>9 DEF ReviewNext, Deliver, Retire, Approve, Deny, ApproveSynthesized, Publish, Enqueue
  <2>2. NoPending \in Pending
    BY DEF NoPending, Pending
  <2> QED
    BY <1>0, <2>1, <2>2, SessionSame DEF Session
<1>10. ASSUME NEW s \in Submitter, MarkSubmitted(s) PROVE SessionOK
  <2>1. submitter[s].next \in DOMAIN turns
    BY <1>10 DEF MarkSubmitted, In, Typed, Fits
  <2>2. submitter[s].next \in TurnId /\ submitter[s].next \in DOMAIN turns'
    BY <1>0, <2>1, TurnFields DEF TurnsOK, TurnsKept
  <2>3. NoPending \in Pending /\ session.pend \in Pending
    BY SessionFields DEF NoPending, Pending
  <2>4. \E pend \in Pending :
          session' = [session EXCEPT !.turn = submitter[s].next, !.status = "RUNNING",
                                     !.holder = Nobody, !.pend = pend]
    BY <1>10, <2>3 DEF MarkSubmitted
  <2> QED
    BY <1>0, <2>2, <2>4 DEF SessionOK, Session, TurnStatus, TurnOpen
<1>11. ASSUME NEW r \in DOMAIN verdict, RequestRecheck(r) PROVE SessionOK
  <2>1. NoPending \in Pending
    BY DEF NoPending, Pending
  <2> QED
    BY <1>0, <1>11, <2>1, SessionSame DEF RequestRecheck, Session, TurnStatus, TurnOver
<1>12. ASSUME NEW r \in Runner, Rewrite(r) PROVE SessionOK
  <2>1. runner[r].turn \in DOMAIN turns /\ runner[r].sess \in Nat
    BY <1>12, RunnerFields DEF Rewrite, Is, Typed, Fits
  <2>2. runner[r].turn \in TurnId /\ runner[r].turn \in DOMAIN turns'
    BY <1>0, <2>1, TurnFields DEF TurnsOK, TurnsKept
  <2>3. NoPending \in Pending
    BY DEF NoPending, Pending
  <2> QED
    BY <1>12, <2>1, <2>2, <2>3 DEF Rewrite, SessionOK, Session, TurnStatus, TurnOpen
<1>13. UNCHANGED session \/ session' = [session EXCEPT !.holder = Nobody] \/ ReviewNext
       \/ (\E p \in Poller : \/ Claim(p) \/ Follow(p) \/ Abandon(p) \/ VerifyRefused(p) \/ Park(p)
                             \/ HandOver(p) \/ Verify(p)
                             \/ EndOutOfScope(p) \/ EndInvestigation(p) \/ EndElsewhere(p))
       \/ (\E s \in Submitter : MarkSubmitted(s))
       \/ (\E r \in DOMAIN verdict : RequestRecheck(r))
       \/ (\E r \in Runner : Rewrite(r))
  BY PollerFrames, ClockFrames, SubmissionFrames, RecheckFrames, HarnessFrames DEF Next, PollerNext
<1> QED
  BY <1>1, <1>2, <1>3, <1>4, <1>5, <1>7, <1>8, <1>9, <1>10, <1>11, <1>12, <1>13

-----------------------------------------------------------------------------
(* The runs.                                                               *)

RunsOK == run' \in Seq(RunRow) /\ \A k \in DOMAIN run : k \in DOMAIN run'

LEMMA RunFacts ==
    ASSUME Typed
    PROVE  /\ run \in Seq(RunRow) /\ Len(run) \in Nat /\ DOMAIN run = 1 .. Len(run)
           /\ run # <<>> => Latest \in DOMAIN run
           /\ \A k \in DOMAIN run : run[k] \in RunRow
  BY DEF Typed, TypeOK, Latest

LEMMA RunWritten ==
    ASSUME Typed, NEW k \in DOMAIN run, NEW new \in RunRow, run' = [run EXCEPT ![k] = new]
    PROVE  /\ RunsOK /\ Len(run') = Len(run) /\ DOMAIN run' = DOMAIN run /\ run'[k] = new
           /\ \A j \in DOMAIN run : j # k => run'[j] = run[j]
<1>1. /\ run' \in Seq(RunRow) /\ Len(run') = Len(run) /\ DOMAIN run' = DOMAIN run /\ run'[k] = new
      /\ \A j \in DOMAIN run : j # k => run'[j] = run[j]
  BY RunFacts, RowWrite
<1> QED
  BY <1>1 DEF RunsOK

\* One run changes; it keeps its type.
RunSet == \E k \in DOMAIN run, new \in RunRow : run' = [run EXCEPT ![k] = new]

\* Several change at once, each to a row of the type.
RunsSet == /\ run' = [k \in DOMAIN run |-> run'[k]]
           /\ \A k \in DOMAIN run : run'[k] \in RunRow

LEMMA RunsSetOK == ASSUME Typed, RunsSet PROVE RunsOK /\ Len(run') = Len(run)
<1>1. run' \in Seq(RunRow) /\ Len(run') = Len(run) /\ DOMAIN run' = DOMAIN run
  BY RunFacts, RowsWrite DEF RunsSet
<1> QED
  BY <1>1 DEF RunsOK

LEMMA RunsOfSets ==
    ASSUME Typed, NEW sess, NEW status \in RunStatus, run' = RunsOf(sess, status)
    PROVE  RunsSet
<1>1. /\ run' = [k \in DOMAIN run |-> run'[k]]
      /\ \A k \in DOMAIN run :
           run'[k] = IF run[k].sess = sess THEN [run[k] EXCEPT !.status = status] ELSE run[k]
  BY DEF RunsOf
<1>2. \A k \in DOMAIN run : run[k] \in RunRow
  BY RunFacts
<1> QED
  BY <1>1, <1>2 DEF RunsSet, RunRow

LEMMA RunsNext == ASSUME Typed, Next PROVE RunsOK
<1>0. /\ run \in Seq(RunRow)
      /\ run # <<>> => Latest \in DOMAIN run
      /\ \A k \in DOMAIN run : run[k] \in RunRow
  BY RunFacts
<1>1. CASE UNCHANGED run
  BY <1>0, <1>1 DEF RunsOK
<1>2. ASSUME NEW p \in Poller, Abandon(p) PROVE RunsOK
  <2>1. CASE UNCHANGED run
    BY <1>1, <2>1
  <2>2. CASE report = "REPRODUCING"
    <3>1. /\ run' = [k \in DOMAIN run |-> run'[k]]
          /\ \A k \in DOMAIN run :
               run'[k] = IF run[k].status = "RUNNING"
                         THEN [run[k] EXCEPT !.status = "ERROR", !.holder = Nobody] ELSE run[k]
      BY <1>2, <2>2 DEF Abandon
    <3>2. ASSUME NEW row \in RunRow
          PROVE  [row EXCEPT !.status = "ERROR", !.holder = Nobody] \in RunRow
      BY DEF RunRow, RunStatus
    <3>3. \A k \in DOMAIN run : run'[k] \in RunRow
      BY <1>0, <3>1, <3>2
    <3> QED
      BY <3>1, <3>3, RunsSetOK DEF RunsSet
  <2> QED
    BY <1>2, <2>1, <2>2 DEF Abandon
<1>3. ASSUME NEW p \in Poller,
             Verify(p) \/ EndOutOfScope(p) \/ EndInvestigation(p) \/ EndElsewhere(p)
      PROVE  RunsOK
  <2>1. CASE Verify(p)
    BY <2>1, RunsOfSets, RunsSetOK DEF Verify, RunStatus
  <2>2. CASE ~Verify(p)
    <3>1. poller[p].as \in TurnOver
      BY <1>3, <2>2, PollerFields DEF EndOutOfScope, EndInvestigation, EndElsewhere, At, Typed, Fits
    <3>2. \E status \in RunStatus : run' = RunsOf(poller[p].seen.sess, status)
      BY <1>3, <2>2, <3>1
         DEF EndOutOfScope, EndInvestigation, EndElsewhere, EndSession, TurnOver, RunStatus
    <3> QED
      BY <3>2, RunsOfSets, RunsSetOK
  <2> QED
    BY <2>1, <2>2
<1>4. CASE RetryRecheck \/ CancelRecheck
  <2>1. run # <<>> /\ Latest \in DOMAIN run /\ run[Latest] \in RunRow
    BY <1>0, <1>4 DEF RetryRecheck, CancelRecheck
  <2>2. /\ [Ended("PENDING") EXCEPT !.attempts = 0] \in RunRow
        /\ Ended("CANCELLED") \in RunRow
    BY <2>1 DEF Ended, RunRow, RunStatus
  <2> QED
    BY <1>4, <2>1, <2>2, RunWritten DEF RetryRecheck, CancelRecheck, SetRun
<1>5. ASSUME NEW k \in DOMAIN run, RunExpire(k) \/ SweepRelease(k) \/ SweepFail(k) PROVE RunsOK
  <2>1. /\ [run[k] EXCEPT !.holder = Lapsed] \in RunRow
        /\ [run[k] EXCEPT !.status = "PENDING", !.holder = Nobody] \in RunRow
        /\ [run[k] EXCEPT !.status = "ERROR", !.holder = Nobody] \in RunRow
    BY <1>0 DEF RunRow, RunStatus
  <2>2. CASE RunExpire(k)
    <3>1. run' = [run EXCEPT ![k] = [run[k] EXCEPT !.holder = Lapsed]]
      BY <1>0, <2>2 DEF RunExpire
    <3> QED
      BY <2>1, <3>1, RunWritten
  <2> QED
    BY <1>5, <2>1, <2>2, RunWritten DEF SweepRelease, SweepFail, SetRun
<1>6. ASSUME NEW r \in Runner, RunClaim(r) PROVE RunsOK
  <2>1. PICK k \in DOMAIN run :
          SetRun(k, [run[k] EXCEPT !.status = "RUNNING", !.attempts = @ + 1, !.holder = r])
    BY <1>6 DEF RunClaim
  <2>2. [run[k] EXCEPT !.status = "RUNNING", !.attempts = @ + 1, !.holder = r] \in RunRow
    <3>1. run[k].attempts + 1 \in Nat
      BY <1>0 DEF RunRow
    <3> QED
      BY <1>0, <3>1 DEF RunRow, RunStatus
  <2> QED
    BY <2>1, <2>2, RunWritten DEF SetRun
<1>7. ASSUME NEW r \in Runner, Rewrite(r) \/ ReleaseRun(r) \/ RunFails(r) PROVE RunsOK
  <2>1. /\ runner[r].k \in DOMAIN run /\ run[runner[r].k] \in RunRow /\ runner[r].sess \in Nat
    BY <1>7, RunnerFields DEF Rewrite, ReleaseRun, RunFails, Is
  <2>2. /\ [run[runner[r].k] EXCEPT !.sess = runner[r].sess] \in RunRow
        /\ [run[runner[r].k] EXCEPT !.status = "RUNNING", !.holder = Nobody] \in RunRow
        /\ [run[runner[r].k] EXCEPT !.status = "ERROR", !.holder = Nobody] \in RunRow
    BY <2>1 DEF RunRow, RunStatus
  <2> QED
    BY <1>7, <2>1, <2>2, RunWritten DEF Rewrite, ReleaseRun, RunFails, Write, SetRun
<1>8. ASSUME NEW r \in DOMAIN verdict, RequestRecheck(r) PROVE RunsOK
  <2> DEFINE old == [k \in DOMAIN run |->
                        IF k = Latest /\ run[k].status \notin RunFinished
                        THEN [run[k] EXCEPT !.status = "SUPERSEDED"] ELSE run[k]]
             new == [status |-> "PENDING", attempts |-> 0, holder |-> Nobody, sess |-> 0]
  <2>1. old \in Seq(RunRow) /\ DOMAIN old = DOMAIN run
    <3>1. \A k \in DOMAIN run : old[k] \in RunRow
      BY <1>0 DEF RunRow, RunStatus
    <3>2. old = [k \in DOMAIN run |-> old[k]]
      OBVIOUS
    <3> HIDE DEF old
    <3> QED
      BY <1>0, <3>1, <3>2, RowsWrite
  <2>2. new \in RunRow
    BY DEF RunRow, RunStatus
  <2>3. run' = Append(old, new)
    BY <1>8 DEF RequestRecheck
  <2> HIDE DEF old, new
  <2> QED
    BY <2>1, <2>2, <2>3, Appended DEF RunsOK
<1>9. UNCHANGED run \/ RetryRecheck \/ CancelRecheck
      \/ (\E p \in Poller : \/ Abandon(p) \/ Verify(p)
                            \/ EndOutOfScope(p) \/ EndInvestigation(p) \/ EndElsewhere(p))
      \/ (\E k \in DOMAIN run : RunExpire(k) \/ SweepRelease(k) \/ SweepFail(k))
      \/ (\E r \in DOMAIN verdict : RequestRecheck(r))
      \/ (\E r \in Runner : RunClaim(r) \/ Rewrite(r) \/ ReleaseRun(r) \/ RunFails(r))
  BY PollerFrames, ClockFrames, ReviewFrames, SubmissionFrames, RecheckFrames, HarnessFrames
     DEF Next, PollerNext
<1> QED
  BY <1>1, <1>2, <1>3, <1>4, <1>5, <1>6, <1>7, <1>8, <1>9

-----------------------------------------------------------------------------
(* The submissions and the workers that tell the harness.                  *)

RowOK(row) == row \in SubmissionRow /\ (row.holder # Nobody => row.attempts > 0)

SubmissionsOK == /\ submission' \in [Rev -> SubmissionRow]
                 /\ \A r \in Rev : RowOK(submission'[r])

LEMMA SubmissionWritten ==
    ASSUME Typed, NEW r \in Rev, NEW new, RowOK(new), submission' = [submission EXCEPT ![r] = new]
    PROVE  SubmissionsOK
  BY DEF Typed, TypeOK, Fits, RowOK, SubmissionsOK

LEMMA SubmissionFacts ==
    ASSUME Typed, NEW r \in Rev
    PROVE  /\ submission \in [Rev -> SubmissionRow] /\ submission[r] \in SubmissionRow
           /\ RowOK(submission[r])
  BY DEF Typed, TypeOK, Fits, RowOK

LEMMA SettleOK ==
    ASSUME Typed, NEW s \in Submitter, submitter[s].phase # "idle",
           NEW state \in {"PENDING", "SUBMITTED", "FAILED"}, Settle(s, state)
    PROVE  SubmissionsOK
<1> DEFINE r == submitter[s].rev
           new == [submission[r] EXCEPT !.state = state, !.holder = Nobody]
<1>1. r \in Rev /\ submission \in [Rev -> SubmissionRow] /\ submission[r] \in SubmissionRow
  BY SubmitterFields, SubmissionFacts
<1>2. RowOK(new)
  BY <1>1 DEF RowOK, SubmissionRow
<1>3. submission' = [submission EXCEPT ![r] = new]
  BY <1>1 DEF Settle, SubmissionRow
<1> HIDE DEF new, r
<1> QED
  BY <1>1, <1>2, <1>3, SubmissionWritten

LEMMA SubmissionsNext == ASSUME Typed, Next PROVE SubmissionsOK
<1>1. CASE UNCHANGED submission
  BY <1>1, SubmissionFacts DEF SubmissionsOK, Typed, TypeOK
<1>2. ASSUME NEW r \in DOMAIN verdict, Submits(r) PROVE SubmissionsOK
  <2>1. r \in Rev /\ RowOK(submission[r]) /\ submission \in [Rev -> SubmissionRow]
    BY RevFacts, SubmissionFacts
  <2>2. RowOK([submission[r] EXCEPT !.state = "PENDING"])
    BY <2>1 DEF RowOK, SubmissionRow
  <2>3. submission' = [submission EXCEPT ![r] = [submission[r] EXCEPT !.state = "PENDING"]]
    BY <1>2, <2>1 DEF Submits
  <2> QED
    BY <2>1, <2>2, <2>3, SubmissionWritten
<1>3. ASSUME NEW s \in Submitter, SubmitClaim(s) PROVE SubmissionsOK
  <2>1. PICK r \in Rev : submission' = [submission EXCEPT ![r].attempts = @ + 1, ![r].holder = s]
    BY <1>3 DEF SubmitClaim
  <2> DEFINE new == [submission[r] EXCEPT !.attempts = @ + 1, !.holder = s]
  <2>2. submission \in [Rev -> SubmissionRow] /\ submission[r] \in SubmissionRow
    BY SubmissionFacts
  <2>3. RowOK(new)
    <3>1. submission[r].attempts + 1 \in Nat /\ submission[r].attempts + 1 > 0
      BY <2>2 DEF SubmissionRow
    <3> QED
      BY <2>2, <3>1 DEF RowOK, SubmissionRow
  <2>4. submission' = [submission EXCEPT ![r] = new]
    BY <2>1, <2>2 DEF SubmissionRow
  <2> HIDE DEF new
  <2> QED
    BY <2>3, <2>4, SubmissionWritten
<1>4. ASSUME NEW s \in Submitter, SubmitRefuse(s) \/ MarkSubmitted(s) \/ SubmitFails(s)
      PROVE  SubmissionsOK
  <2>1. submitter[s].phase # "idle"
    BY <1>4 DEF SubmitRefuse, MarkSubmitted, SubmitFails, In
  <2>2. \E state \in {"PENDING", "SUBMITTED", "FAILED"} : Settle(s, state)
    BY <1>4 DEF SubmitRefuse, MarkSubmitted, SubmitFails
  <2> QED
    BY <2>1, <2>2, SettleOK
<1>5. ASSUME NEW s \in Submitter, HandBack(s) PROVE SubmissionsOK
  <2> DEFINE r == submitter[s].rev
             new == [submission[r] EXCEPT !.attempts = @ - 1, !.holder = Nobody]
  <2>1. r \in Rev /\ submission \in [Rev -> SubmissionRow] /\ submission[r] \in SubmissionRow
        /\ RowOK(submission[r])
    BY <1>5, SubmitterFields, SubmissionFacts DEF HandBack
  <2>2. submission[r].holder = s /\ submission[r].holder # Nobody
    BY <1>5 DEF HandBack, Holds, Row
  <2>3. submission[r].attempts \in Nat /\ submission[r].attempts > 0
    BY <2>1, <2>2 DEF RowOK, SubmissionRow
  <2>4. submission[r].attempts - 1 \in Nat
    BY <2>3
  <2>5. RowOK(new)
    BY <2>1, <2>4 DEF RowOK, SubmissionRow
  <2>6. submission' = [submission EXCEPT ![r] = new]
    BY <1>5, <2>1 DEF HandBack, SubmissionRow
  <2> HIDE DEF new, r
  <2> QED
    BY <2>1, <2>5, <2>6, SubmissionWritten
<1>6. ASSUME NEW r \in Rev, SubmitExpire(r) \/ SubmitBury(r) PROVE SubmissionsOK
  <2>1. submission \in [Rev -> SubmissionRow] /\ RowOK(submission[r])
    BY SubmissionFacts
  <2>2. /\ RowOK([submission[r] EXCEPT !.holder = Nobody])
        /\ SubmitBury(r) => RowOK([submission[r] EXCEPT !.state = "FAILED"])
    BY <2>1 DEF RowOK, SubmissionRow, SubmitBury
  <2>3. CASE SubmitExpire(r)
    <3>1. submission' = [submission EXCEPT ![r] = [submission[r] EXCEPT !.holder = Nobody]]
      BY <2>1, <2>3 DEF SubmitExpire
    <3> QED
      BY <2>2, <3>1, SubmissionWritten
  <2>4. CASE SubmitBury(r)
    <3>1. submission' = [submission EXCEPT ![r] = [submission[r] EXCEPT !.state = "FAILED"]]
      BY <2>1, <2>4 DEF SubmitBury
    <3> QED
      BY <2>2, <2>4, <3>1, SubmissionWritten
  <2> QED
    BY <1>6, <2>3, <2>4
<1>7. UNCHANGED submission \/ (\E r \in DOMAIN verdict : Submits(r))
      \/ (\E s \in Submitter : \/ SubmitClaim(s) \/ HandBack(s)
                               \/ SubmitRefuse(s) \/ MarkSubmitted(s) \/ SubmitFails(s))
      \/ (\E r \in Rev : SubmitExpire(r) \/ SubmitBury(r))
  <2>1. SubmissionNext => \/ UNCHANGED submission
                          \/ (\E s \in Submitter : \/ SubmitClaim(s) \/ HandBack(s)
                                \/ SubmitRefuse(s) \/ MarkSubmitted(s) \/ SubmitFails(s))
                          \/ (\E r \in Rev : SubmitExpire(r) \/ SubmitBury(r))
    BY DEF SubmissionNext, SubmitStep, SubmitCheck, FindAnswer, CreateAnswer, SubmitLost, SubmitCrash
  <2>2. ReviewNext => UNCHANGED submission \/ (\E r \in DOMAIN verdict : Submits(r))
    BY DEF ReviewNext, Deliver, Retire, Approve, Deny, ApproveSynthesized, Publish
  <2> QED
    BY <2>1, <2>2, PollerFrames, ClockFrames, RecheckFrames, HarnessFrames DEF Next, PollerNext
<1> QED
  BY <1>1, <1>2, <1>3, <1>4, <1>5, <1>6, <1>7

SubmittersOK ==
    /\ submitter' \in [Submitter -> Submitting \union {NotSubmitting}]
    /\ \A s \in Submitter : submitter'[s].phase = "mark" => submitter'[s].next \in DOMAIN turns'

LEMMA SubmitterWritten ==
    ASSUME Typed, TurnsOK, NEW s \in Submitter, NEW new \in Submitting \union {NotSubmitting},
           new.phase = "mark" => new.next \in DOMAIN turns',
           submitter' = [submitter EXCEPT ![s] = new]
    PROVE  SubmittersOK
<1>1. submitter \in [Submitter -> Submitting \union {NotSubmitting}]
  BY DEF Typed, TypeOK
<1>2. /\ submitter' \in [Submitter -> Submitting \union {NotSubmitting}] /\ submitter'[s] = new
      /\ \A q \in Submitter : q # s => submitter'[q] = submitter[q]
  BY <1>1, Replaced
<1> QED
  BY <1>2 DEF SubmittersOK, Typed, Fits, TurnsOK, TurnsKept

LEMMA SubmittersNext == ASSUME Typed, Next PROVE SubmittersOK
<1>0. TurnsOK
  BY TurnsNext
<1>1. CASE UNCHANGED submitter
  BY <1>0, <1>1 DEF SubmittersOK, Typed, TypeOK, Fits, TurnsOK, TurnsKept
<1>2. ASSUME NEW s \in Submitter, Leaves(s) PROVE SubmittersOK
  BY <1>0, <1>2, SubmitterWritten DEF Leaves, NotSubmitting
<1>3. ASSUME NEW s \in Submitter, SubmitClaim(s) PROVE SubmittersOK
  <2>1. PICK r \in Rev : submitter' = [submitter EXCEPT ![s] =
                [phase |-> "check", rev |-> r, sess |-> 0, turn |-> 0, next |-> 0]]
    BY <1>3 DEF SubmitClaim
  <2> DEFINE new == [phase |-> "check", rev |-> r, sess |-> 0, turn |-> 0, next |-> 0]
  <2>2. new \in Submitting /\ new.phase # "mark"
    BY DEF Submitting
  <2>3. submitter' = [submitter EXCEPT ![s] = new]
    BY <2>1
  <2> HIDE DEF new
  <2> QED
    BY <1>0, <2>2, <2>3, SubmitterWritten
<1>4. ASSUME NEW s \in Submitter, SubmitCheck(s) PROVE SubmittersOK
  <2>1. submitter[s] \in Submitting /\ submitter \in [Submitter -> Submitting \union {NotSubmitting}]
    BY <1>4, SubmitterFields DEF SubmitCheck, In, Typed, TypeOK
  <2> DEFINE new == [submitter[s] EXCEPT
            !.phase = IF StillPending(submitter[s].rev) THEN "find" ELSE "refuse",
            !.sess = session.sess, !.turn = session.turn]
  <2>2. new \in Submitting /\ new.phase # "mark"
    BY <2>1, SessionFields DEF Submitting
  <2>3. submitter' = [submitter EXCEPT ![s] = new]
    BY <1>4, <2>1 DEF SubmitCheck, Submitting
  <2> HIDE DEF new
  <2> QED
    BY <1>0, <2>2, <2>3, SubmitterWritten
<1>5. ASSUME NEW s \in Submitter, FindAnswer(s) \/ CreateAnswer(s) PROVE SubmittersOK
  <2>1. submitter[s] \in Submitting /\ submitter \in [Submitter -> Submitting \union {NotSubmitting}]
        /\ submitter[s].sess \in Nat /\ decision[submitter[s].rev] \in Decision
    BY <1>5, SubmitterFields DEF FindAnswer, CreateAnswer, In, Typed, TypeOK
  <2>2. CASE Goes(s, "create")
    <3>1. [submitter[s] EXCEPT !.phase = "create"] \in Submitting
      BY <2>1 DEF Submitting
    <3>2. submitter' = [submitter EXCEPT ![s] = [submitter[s] EXCEPT !.phase = "create"]]
      BY <2>1, <2>2 DEF Goes
    <3>3. [submitter[s] EXCEPT !.phase = "create"].phase # "mark"
      BY <2>1 DEF Submitting
    <3> QED
      BY <1>0, <3>1, <3>2, <3>3, SubmitterWritten
  <2>3. ASSUME NEW t \in TurnId, t \in DOMAIN turns',
               submitter' = [submitter EXCEPT ![s].phase = "mark", ![s].next = t]
        PROVE  SubmittersOK
    <3> DEFINE new == [submitter[s] EXCEPT !.phase = "mark", !.next = t]
    <3>1. new \in Submitting /\ new.next = t
      BY <2>1 DEF Submitting
    <3>2. submitter' = [submitter EXCEPT ![s] = new]
      BY <2>1, <2>3 DEF Submitting
    <3> HIDE DEF new
    <3> QED
      BY <1>0, <2>3, <3>1, <3>2, SubmitterWritten
  <2>4. CASE FindAnswer(s)
    <3>1. Goes(s, "create") \/ \E t \in DOMAIN turns :
            submitter' = [submitter EXCEPT ![s].phase = "mark", ![s].next = t]
      BY <2>4 DEF FindAnswer, Answers
    <3>2. \A t \in DOMAIN turns : t \in TurnId /\ t \in DOMAIN turns'
      BY <1>0, TurnFields DEF TurnsOK, TurnsKept
    <3> QED
      BY <2>2, <2>3, <3>1, <3>2
  <2>5. CASE CreateAnswer(s)
    <3>1. decision[submitter[s].rev].call \in TurnId \union {0}
          /\ Allows(submitter[s].rev) \in BOOLEAN
      BY <2>1 DEF Decision, Synth, Allows
    <3>2. Len(turns') \in TurnId /\ Len(turns') \in DOMAIN turns'
      BY <2>1, <2>5, <3>1, OneTurnMore DEF CreateAnswer
    <3> QED
      BY <2>3, <2>5, <3>2 DEF CreateAnswer
  <2> QED
    BY <1>5, <2>4, <2>5
<1>6. UNCHANGED submitter
      \/ (\E s \in Submitter : \/ Leaves(s) \/ SubmitClaim(s) \/ SubmitCheck(s)
                               \/ FindAnswer(s) \/ CreateAnswer(s))
  <2>1. SubmissionNext => \/ UNCHANGED submitter
                          \/ (\E s \in Submitter : \/ Leaves(s) \/ SubmitClaim(s) \/ SubmitCheck(s)
                                                   \/ FindAnswer(s) \/ CreateAnswer(s))
    BY DEF SubmissionNext, SubmitStep, SubmitExpire, SubmitBury, SubmitRefuse, MarkSubmitted,
           SubmitFails, SubmitLost, HandBack, SubmitCrash
  <2> QED
    BY <2>1, ReviewFrames, PollerFrames, ClockFrames, RecheckFrames, HarnessFrames
       DEF Next, PollerNext
<1> QED
  BY <1>1, <1>2, <1>3, <1>4, <1>5, <1>6

-----------------------------------------------------------------------------
(* The runners and the pollers.                                            *)

RunnersOK ==
    /\ runner' \in [Runner -> Running \union {NotRunning}]
    /\ \A r \in Runner : runner'[r] # NotRunning =>
         /\ runner'[r].k \in DOMAIN run'
         /\ runner'[r].phase = "rewrite" => runner'[r].turn \in DOMAIN turns'

LEMMA RunnerWritten ==
    ASSUME Typed, TurnsOK, RunsOK, NEW r \in Runner, NEW new \in Running \union {NotRunning},
           new # NotRunning => /\ new.k \in DOMAIN run
                               /\ new.phase = "rewrite" => new.turn \in DOMAIN turns',
           runner' = [runner EXCEPT ![r] = new]
    PROVE  RunnersOK
<1>1. runner \in [Runner -> Running \union {NotRunning}]
  BY DEF Typed, TypeOK
<1>2. /\ runner' \in [Runner -> Running \union {NotRunning}] /\ runner'[r] = new
      /\ \A q \in Runner : q # r => runner'[q] = runner[q]
  BY <1>1, Replaced
<1> QED
  BY <1>2 DEF RunnersOK, RunsOK, Typed, Fits, TurnsOK, TurnsKept

LEMMA RunnersNext == ASSUME Typed, Next PROVE RunnersOK
<1>0. TurnsOK /\ RunsOK
  BY TurnsNext, RunsNext
<1>1. CASE UNCHANGED runner
  BY <1>0, <1>1 DEF RunnersOK, RunsOK, Typed, TypeOK, Fits, TurnsOK, TurnsKept
<1>2. ASSUME NEW r \in Runner, Quits(r) PROVE RunnersOK
  BY <1>0, <1>2, RunnerWritten DEF Quits
<1>3. ASSUME NEW r \in Runner, RunClaim(r) PROVE RunnersOK
  <2>1. PICK k \in DOMAIN run : runner' = [runner EXCEPT ![r] =
                [phase |-> "check", k |-> k, sess |-> 0, turn |-> 0, old |-> 0]]
    BY <1>3 DEF RunClaim
  <2> DEFINE new == [phase |-> "check", k |-> k, sess |-> 0, turn |-> 0, old |-> 0]
  <2>2. new \in Running /\ new.k = k /\ new.phase # "rewrite"
    BY RunFacts DEF Running
  <2>3. runner' = [runner EXCEPT ![r] = new]
    BY <2>1
  <2> HIDE DEF new
  <2> QED
    BY <1>0, <2>2, <2>3, RunnerWritten
<1>4. ASSUME NEW r \in Runner, NEW phase \in {"start", "fail", "release"}, To(r, phase),
             runner[r].phase # "idle"
      PROVE  RunnersOK
  <2>1. runner[r] \in Running /\ runner[r].k \in DOMAIN run
    BY <1>4, RunnerFields
  <2> DEFINE new == [runner[r] EXCEPT !.phase = phase]
  <2>2. new \in Running /\ new.k = runner[r].k /\ new.phase # "rewrite"
    BY <2>1 DEF Running
  <2>3. runner' = [runner EXCEPT ![r] = new]
    BY <1>4, <2>1 DEF To
  <2> HIDE DEF new
  <2> QED
    BY <1>0, <2>1, <2>2, <2>3, RunnerWritten
<1>5. ASSUME NEW r \in Runner, RunStart(r) PROVE RunnersOK
  <2>1. runner[r] \in Running /\ runner[r].k \in DOMAIN run /\ sessions + 1 \in Nat
        /\ runner \in [Runner -> Running \union {NotRunning}]
    BY <1>5, RunnerFields DEF RunStart, Is, Typed, TypeOK
  <2>2. Len(turns') \in DOMAIN turns' /\ Len(turns') \in TurnId /\ sessions' \in Nat
    BY <1>5, <2>1, OneTurnMore DEF RunStart
  <2> DEFINE new == [runner[r] EXCEPT !.phase = "rewrite", !.sess = sessions', !.turn = Len(turns')]
  <2>3. new \in Running /\ new.k = runner[r].k /\ new.turn = Len(turns')
    BY <2>1, <2>2 DEF Running
  <2>4. runner' = [runner EXCEPT ![r] = new]
    BY <1>5, <2>1 DEF RunStart, Running
  <2> HIDE DEF new
  <2> QED
    BY <1>0, <2>1, <2>2, <2>3, <2>4, RunnerWritten
<1>6. ASSUME NEW r \in Runner, Rewrite(r) PROVE RunnersOK
  <2>1. runner[r] \in Running /\ runner[r].k \in DOMAIN run /\ session.sess \in Nat
        /\ runner \in [Runner -> Running \union {NotRunning}]
    BY <1>6, RunnerFields, SessionFields DEF Rewrite, Is, Typed, TypeOK
  <2> DEFINE new == [runner[r] EXCEPT !.phase = "clean", !.old = session.sess]
  <2>2. new \in Running /\ new.k = runner[r].k /\ new.phase # "rewrite"
    BY <2>1 DEF Running
  <2>3. runner' = [runner EXCEPT ![r] = new]
    BY <1>6, <2>1 DEF Rewrite, Running
  <2> HIDE DEF new
  <2> QED
    BY <1>0, <2>1, <2>2, <2>3, RunnerWritten
<1>7. ASSUME NEW r \in Runner, RunCheck(r) \/ CleanUp(r) PROVE RunnersOK
  <2>1. runner[r].phase # "idle" /\ \E phase \in {"start", "fail", "release"} : To(r, phase)
    BY <1>7 DEF RunCheck, CleanUp, Is
  <2> QED
    BY <1>4, <2>1
<1>8. UNCHANGED runner
      \/ (\E r \in Runner : \/ Quits(r) \/ RunClaim(r) \/ RunStart(r) \/ Rewrite(r)
                            \/ RunCheck(r) \/ CleanUp(r))
  <2>1. RecheckNext => \/ UNCHANGED runner
                       \/ (\E r \in Runner : \/ Quits(r) \/ RunClaim(r) \/ RunStart(r)
                                             \/ Rewrite(r) \/ RunCheck(r) \/ CleanUp(r))
    BY DEF RecheckNext, RetryRecheck, CancelRecheck, RequestRecheck, RunExpire, SweepRelease,
           SweepFail, RunStep, ReleaseRun, RunFails, RunLost, RunCrash
  <2> QED
    BY <2>1, ReviewFrames, PollerFrames, ClockFrames, SubmissionFrames, HarnessFrames
       DEF Next, PollerNext
<1> QED
  BY <1>1, <1>2, <1>3, <1>5, <1>6, <1>7, <1>8

PollersOK ==
    /\ poller' \in [Poller -> Polling \union {NotPolling}]
    /\ \A p \in Poller : poller'[p] # NotPolling =>
         /\ poller'[p].seen.turn \in DOMAIN turns'
         /\ poller'[p].phase = "end" => poller'[p].as \in TurnOver
         /\ poller'[p].phase = "handover" => poller'[p].next \in DOMAIN turns'

\* How a poller goes on, field by field.
Goal(p) ==
    \/ \E phase \in PollPhases \ {"end", "handover"} :
         PBecomes(p, phase, poller[p].rev, poller[p].next, poller[p].as)
    \/ \E as \in TurnOver : PBecomes(p, "end", poller[p].rev, poller[p].next, as)
    \/ \E t \in DOMAIN turns' : PBecomes(p, "handover", poller[p].rev, t, poller[p].as)
    \/ \E rev \in Rev : PBecomes(p, "verify", rev, poller[p].next, poller[p].as)

\* What a claim reads.
Claims(p) == /\ PollerOK
             /\ poller'[p] = [phase |-> "check", seen |-> Seen(session), rev |-> 0,
                              next |-> 0, as |-> "open"]
             /\ poller'[p] # NotPolling
             /\ \A q \in Poller : q # p => poller'[q] = poller[q]

LEMMA ClaimReads == ASSUME Typed, NEW p \in Poller, Claim(p) PROVE Claims(p)
<1> DEFINE new == [phase |-> "check", seen |-> Seen(session), rev |-> 0, next |-> 0, as |-> "open"]
<1>1. Seen(session) \in Snapshot
  BY SessionFields DEF Seen, Snapshot
<1>2. new \in Polling /\ new # NotPolling
  BY <1>1 DEF Polling, PollPhases, NotPolling
<1>3. poller' = [poller EXCEPT ![p] = new]
  BY DEF Claim
<1> HIDE DEF new
<1>4. /\ poller'[p] = new /\ poller' \in [Poller -> Polling \union {NotPolling}]
      /\ \A q \in Poller : q # p => poller'[q] = poller[q]
  BY <1>2, <1>3, PollerReplaced
<1> QED
  BY <1>2, <1>4 DEF Claims, PollerOK, new

\* Every step of a poller claims, goes on or stops.
LEMMA PollerGoes ==
    ASSUME Typed, NEW p \in Poller, PollStep(p) \/ PollCrash(p)
    PROVE  Claim(p) \/ Goal(p) \/ PStops(p)
<1>0. /\ poller[p].phase # "idle" =>
           /\ \A phase \in PollPhases \ {"end", "handover"} : Go(p, phase) => Goal(p)
           /\ \A as \in TurnOver : Ending(p, as) => Goal(p)
      /\ Done(p) => PStops(p)
  BY PollerMoves, PollerStops DEF Goal
<1>1. CASE CheckReport(p) \/ Ask(p) \/ DraftRefused(p) \/ DraftConflicts(p)
  <2>1. poller[p].phase # "idle"
    BY <1>1 DEF CheckReport, Ask, DraftRefused, DraftConflicts, At
  <2>2. \/ \E phase \in PollPhases \ {"end", "handover"} : Go(p, phase)
        \/ \E as \in TurnOver : Ending(p, as)
    BY <1>1 DEF CheckReport, Ask, Attend, DraftRefused, DraftConflicts, PollPhases, TurnOver
  <2> QED
    BY <1>0, <2>1, <2>2
<1>2. CASE FindTurn(p)
  <2>1. poller[p].phase # "idle" /\ TurnsOK
    BY <1>2, TurnsNext DEF FindTurn, At, Next, PollerNext
  <2>2. \/ Go(p, "create")
        \/ \E t \in DOMAIN turns : poller' = [poller EXCEPT ![p].phase = "handover", ![p].next = t]
    BY <1>2 DEF FindTurn, Answers
  <2>3. \A t \in DOMAIN turns : t \in TurnId /\ t \in DOMAIN turns'
    BY <2>1, TurnFields DEF TurnsOK, TurnsKept
  <2> QED
    BY <1>0, <2>1, <2>2, <2>3, PollerMoves DEF Goal, PollPhases
<1>3. CASE CreateTurn(p)
  <2>1. poller[p].phase # "idle" /\ poller[p].seen.sess \in Nat /\ poller[p].seen.turn \in TurnId
    BY <1>3, PollerFields DEF CreateTurn, At
  <2>2. Len(turns') \in TurnId /\ Len(turns') \in DOMAIN turns'
    BY <1>3, <2>1, OneTurnMore DEF CreateTurn
  <2>3. poller' = [poller EXCEPT ![p].phase = "handover", ![p].next = Len(turns')]
    BY <1>3 DEF CreateTurn
  <2> QED
    BY <2>1, <2>2, <2>3, PollerMoves DEF Goal
<1>4. CASE DraftStored(p) \/ DraftRepeated(p)
  <2>1. poller[p].phase # "idle"
    BY <1>4 DEF DraftStored, DraftRepeated, At
  <2>2. \E rev \in Rev : poller' = [poller EXCEPT ![p].phase = "verify", ![p].rev = rev]
    <3>1. CASE DraftStored(p)
      <4>1. verdict \in Seq(Verdict)
        BY DEF Typed, TypeOK
      <4>2. Len(verdict') = Len(verdict) + 1
        BY <3>1, <4>1 DEF DraftStored
      <4> QED
        BY <3>1, <4>2 DEF DraftStored
    <3>2. CASE DraftRepeated(p)
      <4>1. Standing \in Rev
        <5>1. FollowUps # {} => (CHOOSE r \in FollowUps : TRUE) \in FollowUps
          OBVIOUS
        <5>2. FollowUps \subseteq Rev
          BY RevFacts DEF FollowUps
        <5> QED
          BY <3>2, <5>1, <5>2, RevFacts DEF Standing, DraftRepeated
      <4> QED
        BY <3>2, <4>1 DEF DraftRepeated
    <3> QED
      BY <1>4, <3>1, <3>2
  <2> QED
    BY <2>1, <2>2, PollerMoves DEF Goal
<1>5. CASE ~(\/ CheckReport(p) \/ Ask(p) \/ DraftRefused(p) \/ DraftConflicts(p) \/ FindTurn(p)
             \/ CreateTurn(p) \/ DraftStored(p) \/ DraftRepeated(p) \/ Claim(p))
  <2>1. Done(p)
    BY <1>5 DEF PollStep, PollCrash, Follow, Park, ResumeThrows, HandOver, Abandon, Verify,
                VerifyRefused, VerifyThrows, EndOutOfScope, EndInvestigation, EndElsewhere,
                EndSession, LeaseLost
  <2> QED
    BY <1>0, <2>1
<1> QED
  BY <1>1, <1>2, <1>3, <1>4, <1>5

LEMMA PollersNext == ASSUME Typed, Next PROVE PollersOK
<1>0. TurnsOK
  BY TurnsNext
<1>1. CASE UNCHANGED poller
  BY <1>0, <1>1 DEF PollersOK, Typed, TypeOK, Fits, TurnsOK, TurnsKept
<1>2. ASSUME NEW p \in Poller, Claim(p) PROVE PollersOK
  <2>1. Claims(p)
    BY <1>2, ClaimReads
  <2>2. poller'[p].seen.turn \in DOMAIN turns' /\ poller'[p].phase = "check"
    BY <1>0, <2>1 DEF Claims, Seen, Typed, Fits, TurnsOK, TurnsKept
  <2> QED
    BY <1>0, <2>1, <2>2 DEF Claims, PollerOK, PollersOK, Typed, Fits, TurnsOK, TurnsKept
<1>3. ASSUME NEW p \in Poller, Goal(p), poller[p] # NotPolling PROVE PollersOK
  <2>1. \A q \in Poller : poller[q] # NotPolling =>
           /\ poller[q].seen.turn \in DOMAIN turns'
           /\ poller[q].phase = "end" => poller[q].as \in TurnOver
           /\ poller[q].phase = "handover" => poller[q].next \in DOMAIN turns'
    BY <1>0 DEF Typed, Fits, TurnsOK, TurnsKept
  <2>2. /\ PollerOK /\ poller'[p].seen = poller[p].seen
        /\ \A q \in Poller : q # p => poller'[q] = poller[q]
    BY <1>3 DEF Goal, PBecomes
  <2>3. /\ poller'[p].phase = "end" => poller'[p].as \in TurnOver
        /\ poller'[p].phase = "handover" => poller'[p].next \in DOMAIN turns'
    BY <1>3 DEF Goal, PBecomes
  <2> QED
    BY <1>3, <2>1, <2>2, <2>3 DEF PollersOK, PollerOK
<1>4. ASSUME NEW p \in Poller, PStops(p) PROVE PollersOK
  BY <1>0, <1>4 DEF PStops, PollerOK, PollersOK, Typed, Fits, TurnsOK, TurnsKept
<1>5. UNCHANGED poller \/ \E p \in Poller : Claim(p) \/ (Goal(p) /\ poller[p] # NotPolling) \/ PStops(p)
  <2>1. ASSUME NEW p \in Poller, PollStep(p) \/ PollCrash(p)
        PROVE  Claim(p) \/ (Goal(p) /\ poller[p] # NotPolling) \/ PStops(p)
    <3>1. poller[p] = NotPolling => Claim(p)
      BY <2>1 DEF PollStep, PollCrash, CheckReport, Ask, Follow, Park, FindTurn, CreateTurn,
                  ResumeThrows, HandOver, DraftStored, DraftRepeated, DraftRefused, DraftConflicts,
                  Abandon, Verify, VerifyRefused, VerifyThrows, EndOutOfScope, EndInvestigation,
                  EndElsewhere, LeaseLost, At, NotPolling, PollPhases
    <3> QED
      BY <2>1, <3>1, PollerGoes
  <2> QED
    BY <2>1, ReviewFrames, ClockFrames, SubmissionFrames, RecheckFrames, HarnessFrames
       DEF Next, PollerNext
<1> QED
  BY <1>1, <1>2, <1>3, <1>4, <1>5

\* The rest: counters and the clock.
LEMMA ClockNext ==
    ASSUME Typed, Next
    PROVE  sessions' \in Nat /\ overdue' \in BOOLEAN /\ lapses' \in Nat /\ world' = world
<1>1. sessions \in Nat /\ overdue \in BOOLEAN /\ lapses \in Nat
  BY DEF Typed, TypeOK
<1>2. sessions + 1 \in Nat /\ lapses + 1 \in Nat
  BY <1>1
<1>3. sessions' \in {sessions, sessions + 1}
  BY ReviewFrames, PollerFrames, ClockFrames, SubmissionFrames, HarnessFrames
     DEF Next, PollerNext, RecheckNext, RetryRecheck, CancelRecheck, RequestRecheck, RunExpire,
         SweepRelease, SweepFail, RunStep, RunClaim, RunCheck, RunStart, Rewrite, CleanUp,
         ReleaseRun, RunFails, RunLost, RunCrash, harness
<1>4. overdue' \in {overdue, TRUE} /\ world' = world
  BY ReviewFrames, PollerFrames, ClockFrames, SubmissionFrames, RecheckFrames, HarnessFrames
     DEF Next, PollerNext, Deadline, ExpireDead, ExpireStalled, Lapse, clock
<1>5. UNCHANGED lapses \/ Lapse
  BY ReviewFrames
     DEF Next, PollerNext, PollStep, PollCrash, Claim, CheckReport, Ask, Follow, Park, FindTurn,
         CreateTurn, ResumeThrows, HandOver, DraftStored, DraftRepeated, DraftRefused,
         DraftConflicts, Abandon, Verify, VerifyRefused, VerifyThrows, EndOutOfScope,
         EndInvestigation, EndElsewhere, EndSession, LeaseLost, ExpireDead, ExpireStalled, Deadline,
         SubmissionNext, SubmitStep, SubmitExpire, SubmitBury, SubmitClaim, SubmitCheck,
         SubmitRefuse, FindAnswer, CreateAnswer, MarkSubmitted, SubmitFails, SubmitLost, HandBack,
         SubmitCrash, RecheckNext, RetryRecheck, CancelRecheck, RequestRecheck, RunExpire,
         SweepRelease, SweepFail, RunStep, RunClaim, RunCheck, RunStart, Rewrite, CleanUp,
         ReleaseRun, RunFails, RunLost, RunCrash, HarnessNext, Forget, Propose, Stop, others, clock
<1> QED
  BY <1>1, <1>2, <1>3, <1>4, <1>5 DEF Lapse

LEMMA TypeNext == ASSUME Typed, Next PROVE Typed'
<1>1. RecordOK /\ SessionOK /\ TurnsOK /\ RunsOK
  BY RecordNext, SessionNext, TurnsNext, RunsNext
<1>2. SubmissionsOK /\ SubmittersOK /\ RunnersOK /\ PollersOK
  BY SubmissionsNext, SubmittersNext, RunnersNext, PollersNext
<1>3. sessions' \in Nat /\ overdue' \in BOOLEAN /\ lapses' \in Nat /\ world' \in World
  BY ClockNext DEF Typed, TypeOK
<1>4. TypeOK'
  BY <1>1, <1>2, <1>3
     DEF TypeOK, RecordOK, SessionOK, TurnsOK, RunsOK, SubmissionsOK, SubmittersOK, RunnersOK,
         PollersOK
<1>5. Fits'
  BY <1>1, <1>2
     DEF Fits, RecordOK, SessionOK, TurnsOK, RunsOK, SubmissionsOK, RowOK, SubmittersOK, RunnersOK,
         PollersOK
<1> QED
  BY <1>4, <1>5 DEF Typed

LEMMA TypeStutters == ASSUME Typed, UNCHANGED vars PROVE Typed'
  BY DEF Typed, TypeOK, Fits, vars, record, harness, procs, clock

\* The report, the verdicts, the runs, the turns, the processes and their calls keep
\* their types, whatever the pollers, the reviewer and the worker do.
THEOREM TypeCorrect == Spec => []TypeOK
<1>1. Typed /\ [Next]_vars => Typed'
  BY TypeNext, TypeStutters
<1>2. Typed => TypeOK
  BY DEF Typed
<1> QED
  BY <1>1, <1>2, TypeInit, PTL DEF Spec

-----------------------------------------------------------------------------
(* The report, its verdicts, their supersessions and decisions, and what   *)
(* was queued: the rows the human gate is about.                           *)

\* The only verdict that stands, if any does, is the newest; only a standing
\* verdict was decided; and only an approved one was ever queued.
Recorded ==
    /\ superseded \subseteq 1 .. Len(verdict)
    /\ \A r \in 1 .. Len(verdict) : r # Len(verdict) => r \in superseded
    /\ session.pend.rev \in 0 .. Len(verdict)
    /\ \A r \in Rev : decision[r].outcome = "NONE" => decision[r] = Undecided
    /\ \A r \in Rev : decision[r] # Undecided => r \in 1 .. Len(verdict) /\ r \notin superseded
    /\ \A r \in outbox : decision[r].outcome = "APPROVED"
    /\ outbox # {} => report \in {"DELIVERING", "DELIVERED", "CANCELLED", "EXPIRED"}
    /\ report \in {"DELIVERING", "DELIVERED"} => outbox # {}

\* The steps that write these rows; the others may only clear what is pending.
LEMMA RecordSteps ==
    ASSUME Typed, Next
    PROVE  \/ UNCHANGED record /\ session'.pend \in {session.pend, NoPending}
           \/ \E p \in Poller : \/ DraftStored(p) \/ Abandon(p) \/ Verify(p)
                                \/ EndOutOfScope(p) \/ EndInvestigation(p)
           \/ CancelRecheck \/ Deliver \/ Retire
           \/ \E r \in DOMAIN verdict :
                Approve(r) \/ Deny(r) \/ ApproveSynthesized(r) \/ RequestRecheck(r)
           \/ \E c \in 1 .. sessions : Publish(c)
<1> DEFINE Quiet == UNCHANGED record /\ session'.pend \in {session.pend, NoPending}
<1>0. session \in Session
  BY SessionFields
<1>1. ASSUME NEW p \in Poller, PollStep(p) \/ PollCrash(p)
      PROVE  Quiet \/ DraftStored(p) \/ Abandon(p) \/ Verify(p) \/ EndOutOfScope(p)
             \/ EndInvestigation(p)
  <2>1. CASE EndElsewhere(p)
    <3>1. session' = [session EXCEPT !.status = poller[p].as, !.pend = NoPending, !.holder = Nobody]
      BY <1>0, <2>1 DEF EndElsewhere, EndSession, Release, Session
    <3> QED
      BY <1>0, <2>1, <3>1 DEF EndElsewhere, EndSession, record, Session
  <2>2. CASE UNCHANGED session /\ ~EndElsewhere(p)
    BY <1>1, <2>2, PollerFrames DEF record
  <2>3. CASE Claim(p) \/ Follow(p) \/ Park(p) \/ HandOver(p) \/ VerifyRefused(p)
    BY <1>0, <2>3 DEF Claim, Follow, Park, HandOver, VerifyRefused, Release, record, Session
  <2> QED
    BY <1>1, <2>1, <2>2, <2>3, PollerFrames DEF record
<1>2. CASE ExpireDead \/ ExpireStalled \/ Deadline
  BY <1>0, <1>2, ClockFrames DEF record, Session
<1>3. CASE SubmissionNext
  <2>1. ASSUME NEW s \in Submitter, MarkSubmitted(s) PROVE session'.pend \in {session.pend, NoPending}
    BY <1>0, <2>1 DEF MarkSubmitted, Session
  <2> QED
    BY <1>3, <2>1, SubmissionFrames DEF record
<1>4. CASE RecheckNext
  <2>1. ASSUME NEW r \in Runner, Rewrite(r) PROVE session'.pend = NoPending
    BY <2>1 DEF Rewrite
  <2>2. Quiet \/ CancelRecheck \/ \E r \in DOMAIN verdict : RequestRecheck(r)
    BY <1>4, <2>1, RecheckFrames DEF record
  <2> QED
    BY <2>2
<1>5. CASE HarnessNext
  BY <1>5, HarnessFrames DEF record
<1> QED
  BY <1>1, <1>2, <1>3, <1>4, <1>5 DEF Next, PollerNext, ReviewNext

LEMMA RecordedInit == Init => Recorded
  BY DEF Init, Recorded, NoPending, Undecided, Synth

\* Whatever stands, stands at the end.
LEMMA NewestStands ==
    ASSUME Typed, Recorded, NEW r \in DOMAIN verdict, r \notin superseded
    PROVE  /\ r = Len(verdict)
           /\ \A q \in Rev : decision[q] # Undecided => q = r
  BY RevFacts DEF Recorded

\* A draft is a new revision only when nothing stands.
LEMMA NothingStands ==
    ASSUME Typed, Recorded, Standing = 0
    PROVE  superseded = 1 .. Len(verdict)
<1>1. superseded # {} => FollowUps = {}
  <2>1. FollowUps # {} => (CHOOSE r \in FollowUps : TRUE) \in FollowUps
    OBVIOUS
  <2>2. \A r \in FollowUps : r # 0
    BY RevFacts DEF FollowUps
  <2> QED
    BY <2>1, <2>2 DEF Standing
<1>2. superseded = {} => verdict = <<>>
  BY DEF Standing
<1>3. CASE superseded = {}
  BY <1>2, <1>3, RevFacts
<1>4. CASE superseded # {}
  <2>1. \A r \in 1 .. Len(verdict) : r > 1 => r \in superseded
    <3>1. DOMAIN verdict = 1 .. Len(verdict) /\ FollowUps = {}
      BY <1>1, <1>4, RevFacts
    <3> QED
      BY <3>1 DEF FollowUps
  <2>2. Len(verdict) \in Nat /\ superseded \subseteq 1 .. Len(verdict)
    BY RevFacts DEF Recorded
  <2>3. 1 \in superseded
    <3>1. PICK r \in superseded : TRUE
      BY <1>4
    <3>2. r \in 1 .. Len(verdict)
      BY <2>2, <3>1
    <3>3. CASE Len(verdict) = 1
      BY <2>2, <3>1, <3>2, <3>3
    <3>4. CASE Len(verdict) # 1
      BY <2>2, <3>2, <3>4 DEF Recorded
    <3> QED
      BY <3>3, <3>4
  <2>4. \A r \in 1 .. Len(verdict) : r \in superseded
    BY <2>1, <2>2, <2>3
  <2> QED
    BY <2>2, <2>4
<1> QED
  BY <1>3, <1>4

LEMMA RecordedNext == ASSUME Typed, Recorded, Next PROVE Recorded'
<1>0. /\ session \in Session /\ decision \in [Rev -> Decision] /\ Len(verdict) \in Nat
      /\ outbox \subseteq Rev
  BY RevFacts DEF Typed, TypeOK
<1>1. CASE UNCHANGED record /\ session'.pend \in {session.pend, NoPending}
  BY <1>0, <1>1 DEF Recorded, record, NoPending
<1>2. ASSUME NEW p \in Poller, DraftStored(p) PROVE Recorded'
  <2>1. Len(verdict') = Len(verdict) + 1
    BY <1>2 DEF DraftStored, Typed, TypeOK
  <2>2. superseded = 1 .. Len(verdict)
    BY <1>2, NothingStands DEF DraftStored
  <2>3. UNCHANGED <<report, superseded, decision, outbox, session>>
    BY <1>2 DEF DraftStored
  <2> QED
    BY <1>0, <2>1, <2>2, <2>3 DEF Recorded
<1>3. ASSUME NEW p \in Poller, Abandon(p) \/ EndOutOfScope(p) PROVE Recorded'
  <2>1. /\ UNCHANGED <<verdict, superseded, decision, outbox>>
        /\ \/ UNCHANGED report
           \/ report \in {"TRIAGING", "REPRODUCING"} /\ report' \in {"ANALYSIS_ONLY", "OUT_OF_SCOPE"}
    BY <1>3 DEF Abandon, EndOutOfScope, EndSession, MoveTo
  <2>2. session'.pend \in {session.pend, NoPending}
    BY <1>0, <1>3 DEF Abandon, EndOutOfScope, EndSession, Release, Session
  <2> QED
    BY <1>0, <2>1, <2>2 DEF Recorded, NoPending
<1>4. ASSUME NEW p \in Poller, Verify(p) PROVE Recorded'
  <2>1. /\ UNCHANGED <<verdict, superseded, decision, outbox>>
        /\ report \in {"TRIAGING", "REPRODUCING", "ANALYSIS_ONLY", "AWAITING_APPROVAL"}
        /\ report' \in {"ANALYSIS_ONLY", "AWAITING_APPROVAL"}
    BY <1>4 DEF Verify, MayRecord, MoveTo, Investigating
  <2>2. session' = [session EXCEPT !.status = "AWAITING_APPROVAL_HARNESS", !.pend = Call(p),
                                   !.holder = Nobody]
    BY <1>0, <1>4 DEF Verify, Release, Session
  <2>3. session'.pend.rev = Len(verdict)
    BY <1>0, <2>2 DEF Call, Newest, Session
  <2> QED
    BY <1>0, <2>1, <2>3 DEF Recorded
<1>5. ASSUME NEW p \in Poller, EndInvestigation(p) PROVE Recorded'
  <2>1. /\ UNCHANGED <<superseded, decision, outbox>>
        /\ report \in {"TRIAGING", "REPRODUCING"} /\ report' = "ANALYSIS_ONLY"
    BY <1>5 DEF EndInvestigation, EndSession, MoveTo, Investigating
  <2>2. CASE verdict = <<>>
    <3>1. verdict' = <<[by |-> Synth, kind |-> "ANALYSIS_ONLY"]>>
      BY <1>5, <2>2 DEF EndInvestigation
    <3>2. Len(verdict') = 1 /\ Len(verdict) = 0
      BY <2>2, <3>1
    <3>3. session'.pend = [rev |-> 1, call |-> Synth]
      BY <1>0, <1>5, <2>2 DEF EndInvestigation, EndSession, Release, Session
    <3> QED
      BY <1>0, <2>1, <3>2, <3>3 DEF Recorded
  <2>3. CASE verdict # <<>>
    <3>1. UNCHANGED verdict /\ session'.pend = NoPending
      BY <1>0, <1>5, <2>3 DEF EndInvestigation, EndSession, Release, Session
    <3> QED
      BY <1>0, <2>1, <3>1 DEF Recorded, NoPending
  <2> QED
    BY <2>2, <2>3
<1>6. CASE CancelRecheck
  BY <1>0, <1>6 DEF CancelRecheck, MoveTo, Recorded, away
<1>7. CASE Deliver \/ Retire
  BY <1>0, <1>7 DEF Deliver, Retire, MoveTo, Recorded, rest, Closed
<1>8. ASSUME NEW r \in DOMAIN verdict, NEW outcome \in Outcomes, Decidable(r), Decides(r, outcome)
      PROVE  /\ decision' \in [Rev -> Decision] /\ decision'[r].outcome = outcome
             /\ \A q \in Rev : q # r => decision'[q] = decision[q]
             /\ decision'[r] # Undecided /\ r \in Rev /\ r \in 1 .. Len(verdict)
             /\ r \notin superseded
             /\ report \in {"AWAITING_APPROVAL", "ANALYSIS_ONLY"} /\ outbox = {}
  <2>1. [outcome |-> outcome, call |-> session.pend.call] \in Decision
    BY SessionFields DEF Decision, Synth
  <2>2. r \in Rev /\ r \in 1 .. Len(verdict)
    BY RevFacts
  <2> QED
    BY <1>0, <1>8, <2>1, <2>2 DEF Decides, Decidable, Reviewable, Undecided, Outcomes, Recorded
<1>9. ASSUME NEW r \in DOMAIN verdict, Approve(r) PROVE Recorded'
  <2>1. /\ Decidable(r) /\ Decides(r, "APPROVED")
        /\ UNCHANGED <<report, outbox, session, verdict, superseded>>
    BY <1>9 DEF Approve, rest
  <2> QED
    BY <1>8, <2>1 DEF Recorded, Outcomes
<1>10. ASSUME NEW r \in DOMAIN verdict, Deny(r) PROVE Recorded'
  <2>1. /\ Decidable(r) /\ Decides(r, "DENIED") /\ report' = "DENIED"
        /\ UNCHANGED <<outbox, session, verdict, superseded>>
    BY <1>10 DEF Deny, MoveTo, rest
  <2> QED
    BY <1>8, <2>1 DEF Recorded, Outcomes
<1>11. ASSUME NEW r \in DOMAIN verdict, ApproveSynthesized(r) PROVE Recorded'
  <2>1. /\ Decidable(r) /\ Decides(r, "APPROVED") /\ report' = "DELIVERING"
        /\ outbox' = outbox \union {r} /\ UNCHANGED <<verdict, superseded>>
        /\ session'.pend = NoPending
    BY <1>0, <1>11 DEF ApproveSynthesized, Enqueue, MoveTo, rest, Session
  <2>2. outbox' = {r}
    BY <1>8, <2>1 DEF Outcomes
  <2> QED
    BY <1>0, <1>8, <2>1, <2>2 DEF Recorded, Outcomes, NoPending
<1>12. ASSUME NEW r \in DOMAIN verdict, RequestRecheck(r) PROVE Recorded'
  <2>1. /\ superseded' = superseded \union {r} /\ decision[r] = Undecided
        /\ report \in {"AWAITING_APPROVAL", "ANALYSIS_ONLY"} /\ report' = "REPRODUCING"
        /\ UNCHANGED <<verdict, decision, outbox>> /\ session'.pend = NoPending
    BY <1>0, <1>12 DEF RequestRecheck, MayRecheck, MoveTo, away, Session
  <2>2. r \in 1 .. Len(verdict)
    BY RevFacts
  <2>3. /\ superseded' \subseteq 1 .. Len(verdict')
        /\ \A q \in 1 .. Len(verdict') : q # Len(verdict') => q \in superseded'
        /\ session'.pend.rev \in 0 .. Len(verdict')
    <3>1. Len(verdict') = Len(verdict) /\ session'.pend.rev = 0
      BY <2>1 DEF NoPending
    <3>2. /\ superseded \subseteq 1 .. Len(verdict)
          /\ \A q \in 1 .. Len(verdict) : q # Len(verdict) => q \in superseded
      BY DEF Recorded
    <3>3. superseded' = superseded \union {r} /\ Len(verdict) \in Nat
      BY <1>0, <2>1
    <3>4. superseded' \subseteq 1 .. Len(verdict')
      BY <2>2, <3>1, <3>2, <3>3
    <3>5. \A q \in 1 .. Len(verdict') : q # Len(verdict') => q \in superseded'
      BY <3>1, <3>2, <3>3
    <3> QED
      BY <3>1, <3>3, <3>4, <3>5
  <2>4. /\ \A q \in Rev : decision'[q].outcome = "NONE" => decision'[q] = Undecided
        /\ \A q \in Rev : decision'[q] # Undecided => q \in 1 .. Len(verdict') /\ q \notin superseded'
    BY <2>1 DEF Recorded
  <2>5. outbox' = {} /\ report' = "REPRODUCING"
    BY <2>1 DEF Recorded
  <2> QED
    BY <2>3, <2>4, <2>5 DEF Recorded
<1>13. ASSUME NEW c, Publish(c) PROVE Recorded'
  <2>1. /\ outbox' = outbox \union {session.pend.rev} /\ report' = "DELIVERING"
        /\ report \in {"AWAITING_APPROVAL", "ANALYSIS_ONLY"}
        /\ decision[session.pend.rev].outcome = "APPROVED"
        /\ UNCHANGED <<verdict, superseded, decision>> /\ session'.pend = NoPending
    BY <1>0, <1>13 DEF Publish, Approved, Enqueue, Reviewable, MoveTo, rest, Session
  <2> QED
    BY <1>0, <2>1 DEF Recorded, NoPending
<1> QED
  BY <1>1, <1>2, <1>3, <1>4, <1>5, <1>6, <1>7, <1>9, <1>10, <1>11, <1>12, <1>13, RecordSteps

LEMMA RecordedStutters == ASSUME Recorded, UNCHANGED vars PROVE Recorded'
  BY DEF Recorded, vars, record

Gated == Typed /\ Recorded

LEMMA GatedAlways == Spec => []Gated
<1>1. Init => Gated
  BY TypeInit, RecordedInit DEF Gated
<1>2. Gated /\ [Next]_vars => Gated'
  BY TypeNext, RecordedNext, TypeStutters, RecordedStutters DEF Gated
<1> QED
  BY <1>1, <1>2, PTL DEF Spec

\* Whatever is queued for delivery was approved by a human, was not superseded, and is
\* the newest text on record (publishVerdict and decide, for any number of re-checks).
THEOREM HumansDecide == Spec => []HumanGate
<1>1. Gated => HumanGate
  <2> SUFFICES ASSUME Gated PROVE HumanGate
    OBVIOUS
  <2>1. ASSUME NEW r \in outbox
        PROVE  decision[r].outcome = "APPROVED" /\ r \notin superseded /\ r = Len(verdict)
    <3>1. r \in Rev /\ decision[r].outcome = "APPROVED"
      BY DEF Gated, Typed, TypeOK, Recorded
    <3>2. r \in 1 .. Len(verdict) /\ r \notin superseded
      BY <3>1 DEF Gated, Recorded, Undecided
    <3> QED
      BY <3>1, <3>2 DEF Gated, Recorded
  <2> QED
    BY <2>1 DEF HumanGate, Gated, Recorded
<1> QED
  BY <1>1, GatedAlways, PTL

LEMMA AtMostOne ==
    ASSUME NEW S, NEW e, S = {} \/ S = {e}
    PROVE  Cardinality(S) <= 1
<1>1. Cardinality({}) = 0 /\ Cardinality({e}) = 1
  BY FS_EmptySet, FS_Singleton
<1>2. CASE S = {}
  <2>1. Cardinality(S) = 0
    BY <1>1, <1>2
  <2> QED
    BY <2>1
<1>3. CASE S = {e}
  <2>1. Cardinality(S) = 1
    BY <1>1, <1>3
  <2> QED
    BY <2>1
<1> QED
  BY <1>2, <1>3

\* decide and requestRecheck exclude each other: a superseded verdict is never decided
\* and no report collects two decisions.
THEOREM OneDecision == Spec => []OneAnswer
<1>1. Gated => OneAnswer
  <2> SUFFICES ASSUME Gated PROVE OneAnswer
    OBVIOUS
  <2>1. superseded \cap Decided = {}
    BY DEF Gated, Recorded, Decided
  <2>2. Decided \subseteq {Len(verdict)}
    BY DEF Gated, Recorded, Decided
  <2>3. Cardinality(Decided) <= 1
    <3>1. Decided = {} \/ Decided = {Len(verdict)}
      BY <2>2
    <3> QED
      BY <3>1, AtMostOne
  <2> QED
    BY <2>1, <2>3 DEF OneAnswer
<1> QED
  BY <1>1, GatedAlways, PTL

\* However often a call is polled, drafted and re-checked, one verdict at most stands
\* for a human to decide (draftVerdictFromPendingCall, requestRecheck).
THEOREM OneStands == Spec => []OneStandingVerdict
<1>1. Gated => OneStandingVerdict
  <2> SUFFICES ASSUME Gated PROVE OneStandingVerdict
    OBVIOUS
  <2>1. DOMAIN verdict \ superseded \subseteq {Len(verdict)}
    BY RevFacts DEF Gated, Recorded
  <2>2. DOMAIN verdict \ superseded = {} \/ DOMAIN verdict \ superseded = {Len(verdict)}
    BY <2>1
  <2> QED
    BY <2>2, AtMostOne DEF OneStandingVerdict
<1> QED
  BY <1>1, GatedAlways, PTL

-----------------------------------------------------------------------------
(* The refinement: what the path does to the report is what it promises.   *)

answers == [r \in Rev |-> decision[r].outcome]

LEMMA PromiseInit == Init => Promise!Init
  BY DEF Init, Promise!Init, Undecided

LEMMA PromiseNext == ASSUME Gated, Next PROVE [Promise!Next]_(Promise!vars)
<1> DEFINE Same == UNCHANGED <<report, answers, superseded, outbox>>
<1>0. /\ session \in Session /\ decision \in [Rev -> Decision] /\ Typed /\ Recorded
      /\ DOMAIN verdict \subseteq Rev
  BY RevFacts DEF Gated, Typed, TypeOK
<1>1. Same => UNCHANGED Promise!vars
  BY DEF Promise!vars, answers
<1>2. UNCHANGED decision => UNCHANGED answers
  BY DEF answers
<1>3. /\ report \in {"TRIAGING", "REPRODUCING"} /\ report' \in {"ANALYSIS_ONLY", "AWAITING_APPROVAL"}
      /\ UNCHANGED <<answers, superseded, outbox>>
      => Promise!Next
  BY DEF Promise!Next, Promise!Conclude, Promise!UnderReview, answers
<1>4. CASE UNCHANGED record
  BY <1>1, <1>2, <1>4 DEF record
<1>5. ASSUME NEW p \in Poller, DraftStored(p) PROVE Same
  BY <1>2, <1>5 DEF DraftStored
<1>6. ASSUME NEW p \in Poller, Abandon(p) \/ EndInvestigation(p) PROVE Same \/ Promise!Next
  <2>1. UNCHANGED <<superseded, decision, outbox>>
    BY <1>6 DEF Abandon, EndInvestigation, EndSession
  <2>2. UNCHANGED report \/ (report \in {"TRIAGING", "REPRODUCING"} /\ report' = "ANALYSIS_ONLY")
    BY <1>6 DEF Abandon, EndInvestigation, MoveTo, Investigating
  <2> QED
    BY <1>2, <1>3, <2>1, <2>2
<1>7. ASSUME NEW p \in Poller, EndOutOfScope(p) PROVE Promise!Next
  <2>1. /\ UNCHANGED <<superseded, decision, outbox>>
        /\ report = "TRIAGING" /\ report' = "OUT_OF_SCOPE"
    BY <1>7 DEF EndOutOfScope, EndSession, MoveTo
  <2> QED
    BY <1>2, <2>1 DEF Promise!Next, Promise!Conclude, answers
<1>8. ASSUME NEW p \in Poller, Verify(p) PROVE Same \/ Promise!Next
  <2>1. UNCHANGED <<superseded, decision, outbox>>
    BY <1>8 DEF Verify
  <2>2. \/ report \in {"TRIAGING", "REPRODUCING"} /\ report' \in {"ANALYSIS_ONLY", "AWAITING_APPROVAL"}
        \/ report = "ANALYSIS_ONLY" /\ report' \in {"ANALYSIS_ONLY", "AWAITING_APPROVAL"}
        \/ report = "AWAITING_APPROVAL" /\ report' = "AWAITING_APPROVAL"
    BY <1>8 DEF Verify, MayRecord, MoveTo, Investigating
  <2>3. CASE report = "ANALYSIS_ONLY" /\ report' = "AWAITING_APPROVAL"
    BY <1>2, <2>1, <2>3 DEF Promise!Next, Promise!Conclude, answers
  <2> QED
    BY <1>2, <1>3, <2>1, <2>2, <2>3
<1>9. CASE CancelRecheck
  <2>1. /\ UNCHANGED <<superseded, decision, outbox>>
        /\ report = "REPRODUCING" /\ report' = "ANALYSIS_ONLY"
    BY <1>9 DEF CancelRecheck, MoveTo, away
  <2> QED
    BY <1>2, <1>3, <2>1
<1>10. CASE Deliver \/ Retire
  <2>1. UNCHANGED <<superseded, decision, outbox>>
    BY <1>10 DEF Deliver, Retire, rest
  <2> QED
    BY <1>2, <1>10, <2>1 DEF Deliver, Retire, MoveTo, Closed, Promise!Next, Promise!Deliver,
                             Promise!Retire, Promise!Closed, answers
<1>11. ASSUME NEW r \in DOMAIN verdict, NEW outcome \in Outcomes, Decidable(r), Decides(r, outcome)
       PROVE  Promise!Decide(r, outcome) /\ outbox = {} /\ r \in Rev
  <2>1. r \in Rev /\ r \notin superseded /\ decision[r] = Undecided
        /\ report \in {"AWAITING_APPROVAL", "ANALYSIS_ONLY"}
    BY <1>0, <1>11 DEF Decidable, Reviewable
  <2>2. \A q \in Rev : decision[q] = Undecided
    BY <1>0, <2>1, NewestStands
  <2>3. \A q \in Rev : answers[q] = "NONE"
    BY <2>2 DEF answers, Undecided
  <2>4. answers' = [answers EXCEPT ![r] = outcome]
    BY <1>0, <1>11, <2>1 DEF answers, Decides, Decision
  <2>5. outbox = {}
    BY <1>0, <2>1 DEF Recorded
  <2> QED
    BY <2>1, <2>3, <2>4, <2>5 DEF Promise!Decide, Promise!Nothing, Promise!UnderReview, answers
<1>12. ASSUME NEW r \in DOMAIN verdict, Approve(r) \/ Deny(r) PROVE Promise!Next
  <2>1. CASE Approve(r)
    <3>1. Promise!Decide(r, "APPROVED") /\ r \in Rev
      BY <1>11, <2>1 DEF Approve, Outcomes
    <3>2. UNCHANGED <<report, superseded, outbox>>
      BY <2>1 DEF Approve, rest
    <3> QED
      BY <3>1, <3>2 DEF Promise!Next, Promise!Approve
  <2>2. CASE Deny(r)
    <3>1. Promise!Decide(r, "DENIED") /\ r \in Rev
      BY <1>11, <2>2 DEF Deny, Outcomes
    <3>2. UNCHANGED <<superseded, outbox>> /\ report' = "DENIED"
      BY <2>2 DEF Deny, MoveTo, rest
    <3> QED
      BY <3>1, <3>2 DEF Promise!Next, Promise!Deny
  <2> QED
    BY <1>12, <2>1, <2>2
<1>13. ASSUME NEW r \in Rev, Enqueue(r) PROVE Promise!Queue(r)
  <2>1. report \in {"AWAITING_APPROVAL", "ANALYSIS_ONLY"} /\ outbox = {}
    BY <1>0, <1>13 DEF Enqueue, Reviewable, Recorded
  <2>2. outbox' = {r} /\ report' = "DELIVERING"
    BY <1>13, <2>1 DEF Enqueue, MoveTo
  <2> QED
    BY <2>1, <2>2 DEF Promise!Queue, Promise!UnderReview
<1>14. ASSUME NEW r \in DOMAIN verdict, ApproveSynthesized(r) PROVE Promise!Next
  <2>1. Promise!Decide(r, "APPROVED") /\ r \in Rev
    BY <1>11, <1>14 DEF ApproveSynthesized, Outcomes
  <2>2. Promise!Queue(r) /\ UNCHANGED superseded
    BY <1>13, <1>14, <2>1 DEF ApproveSynthesized, rest
  <2> QED
    BY <2>1, <2>2 DEF Promise!Next, Promise!ApproveAndSend
<1>15. ASSUME NEW c, Publish(c) PROVE Promise!Next
  <2>1. session.pend.rev \in Rev /\ session.pend.rev \notin superseded
        /\ decision[session.pend.rev].outcome = "APPROVED"
        /\ UNCHANGED <<decision, superseded>>
    BY <1>0, <1>15, SessionFields DEF Publish, Approved, rest
  <2>2. Promise!Queue(session.pend.rev)
    BY <1>13, <1>15, <2>1 DEF Publish
  <2>3. answers[session.pend.rev] = "APPROVED" /\ UNCHANGED answers
    BY <1>2, <2>1 DEF answers
  <2> QED
    BY <2>1, <2>2, <2>3 DEF Promise!Next, Promise!Send, answers
<1>16. ASSUME NEW r \in DOMAIN verdict, RequestRecheck(r) PROVE Promise!Next
  <2>1. /\ r \in Rev /\ r \notin superseded /\ decision[r] = Undecided
        /\ report \in {"AWAITING_APPROVAL", "ANALYSIS_ONLY"} /\ report' = "REPRODUCING"
        /\ superseded' = superseded \union {r} /\ UNCHANGED <<decision, outbox>>
    BY <1>0, <1>16 DEF RequestRecheck, MayRecheck, MoveTo, away
  <2>2. answers[r] = "NONE" /\ UNCHANGED answers
    BY <1>2, <2>1 DEF answers, Undecided
  <2> QED
    BY <2>1, <2>2 DEF Promise!Next, Promise!Supersede, Promise!UnderReview, answers
<1> QED
  BY <1>0, <1>1, <1>4, <1>5, <1>6, <1>7, <1>8, <1>9, <1>10, <1>12, <1>14, <1>15, <1>16, RecordSteps

LEMMA PromiseStutters == ASSUME UNCHANGED vars PROVE UNCHANGED Promise!vars
  BY DEF vars, record, Promise!vars

\* Pollers, reviewer, re-checks and submission together implement ApprovalPromise: what
\* reaches the outbox was approved first, and a decision is never taken back.
THEOREM PathKeepsPromise == Spec => KeepsPromise
<1>1. Gated /\ [Next]_vars => [Promise!Next]_(Promise!vars)
  BY PromiseNext, PromiseStutters
<1> QED
  BY <1>1, PromiseInit, GatedAlways, PTL DEF Spec, KeepsPromise, Promise!Spec

-----------------------------------------------------------------------------
(* What is put before the reviewer, and what the harness is told.          *)

\* A turn that has asked for something, and so keeps its form.
Spoken(t) == t \in DOMAIN turns /\ turns[t].status # "running"

\* A poller acts on the call it read; while it holds the session, the
\* revision it drafted is the one that stands.
Attends(p) ==
    /\ poller[p].phase \in {"find", "create", "draft", "verify"} =>
         turns[poller[p].seen.turn].status # "running"
    /\ poller[p].phase \in {"find", "create"} => turns[poller[p].seen.turn].form = "gated"
    /\ poller[p].phase = "draft" => turns[poller[p].seen.turn].form = "draft"
    /\ poller[p].phase = "verify" =>
         \/ turns[poller[p].seen.turn].form = "bare"
         \/ Held(p) => /\ poller[p].rev # 0 /\ poller[p].rev = Len(verdict)
                       /\ poller[p].rev \notin superseded

\* PendingIsStanding, with the call that explains the exception.
PendingExplained ==
    session.pend.rev # 0 =>
        \/ session.pend.rev = Len(verdict) /\ session.pend.rev \notin superseded
        \/ /\ session.pend.rev \in superseded /\ session.pend.call # Synth
           /\ turns[session.pend.call].form = "bare"

Informed ==
    /\ \A p \in Poller : Attends(p)
    /\ PendingExplained
    /\ session.pend.call # Synth => Spoken(session.pend.call)
    /\ \A r \in Rev : decision[r].call # Synth => Spoken(decision[r].call)
    /\ \A t \in DOMAIN turns : turns[t].answers # 0 => Spoken(turns[t].answers)
    /\ AllowsOnlyApproved

LEMMA InformedInit == Init => Informed
<1> SUFFICES ASSUME Init PROVE Informed
  OBVIOUS
<1>1. turns = <<Started(1, 0, FALSE)>> /\ DOMAIN turns = {1}
  BY DEF Init
<1>2. turns[1].answers = 0
  BY <1>1 DEF Started
<1>3. \A p \in Poller : Attends(p)
  BY DEF Init, Attends, NotPolling
<1>4. session.pend = NoPending /\ \A r \in Rev : decision[r] = Undecided
  BY DEF Init
<1>5. /\ PendingExplained /\ (session.pend.call # Synth => Spoken(session.pend.call))
      /\ \A r \in Rev : decision[r].call # Synth => Spoken(decision[r].call)
  BY <1>4 DEF PendingExplained, NoPending, Undecided, Synth
<1> QED
  BY <1>1, <1>2, <1>3, <1>5 DEF Informed, AllowsOnlyApproved

SpokenNext(t) == t \in DOMAIN turns' /\ turns'[t].status # "running"

LEMMA SpokenStays ==
    ASSUME TurnsOK, NEW t, Spoken(t)
    PROVE  SpokenNext(t) /\ turns'[t].form = turns[t].form
  BY DEF TurnsOK, TurnsKept, Spoken, SpokenNext

\* Who may start a turn, and what it answers.
LEMMA NewTurns ==
    ASSUME Typed, Next, NEW t \in DOMAIN turns', t \notin DOMAIN turns
    PROVE  \/ turns'[t].answers = 0
           \/ \E p \in Poller : CreateTurn(p) /\ turns'[t].answers = poller[p].seen.turn
           \/ \E s \in Submitter : /\ CreateAnswer(s)
                                   /\ turns'[t].answers = decision[submitter[s].rev].call
                                   /\ turns'[t].allow = Allows(submitter[s].rev)
<1>1. ASSUME NEW p \in Poller, CreateTurn(p) PROVE turns'[t].answers = poller[p].seen.turn
  <2>1. poller[p].seen.sess \in Nat /\ poller[p].seen.turn \in TurnId
    BY <1>1, PollerFields DEF CreateTurn, At
  <2>2. PICK allow \in BOOLEAN :
          turns' = Append(turns, Started(poller[p].seen.sess, poller[p].seen.turn, allow))
    BY <1>1 DEF CreateTurn
  <2>3. turns'[t] = Started(poller[p].seen.sess, poller[p].seen.turn, allow)
    BY <1>1, <2>1, <2>2, OneTurnMore DEF CreateTurn
  <2> QED
    BY <2>3 DEF Started
<1>2. ASSUME NEW s \in Submitter, CreateAnswer(s)
      PROVE  /\ turns'[t].answers = decision[submitter[s].rev].call
             /\ turns'[t].allow = Allows(submitter[s].rev)
  <2>1. submitter[s].sess \in Nat /\ decision[submitter[s].rev] \in Decision
    BY <1>2, SubmitterFields DEF CreateAnswer, In
  <2>2. decision[submitter[s].rev].call \in TurnId \union {0}
        /\ Allows(submitter[s].rev) \in BOOLEAN
    BY <2>1 DEF Decision, Synth, Allows
  <2>3. turns'[t] = Started(submitter[s].sess, decision[submitter[s].rev].call,
                            Allows(submitter[s].rev))
    BY <1>2, <2>1, <2>2, OneTurnMore DEF CreateAnswer
  <2> QED
    BY <2>3 DEF Started
<1>3. ASSUME NEW r \in Runner, RunStart(r) \/ CleanUp(r) \/ RunFails(r) \/ RunLost(r)
      PROVE  turns'[t].answers = 0
  <2>0. sessions \in Nat /\ sessions + 1 \in Nat
    BY DEF Typed, TypeOK
  <2>1. CASE RunStart(r)
    <3>1. turns'[t] = Started(sessions', 0, FALSE)
      BY <2>0, <2>1, OneTurnMore DEF RunStart
    <3> QED
      BY <3>1 DEF Started
  <2>2. CASE ~RunStart(r)
    <3>1. runner[r].phase # "idle"
      BY <1>3, <2>2 DEF CleanUp, RunFails, RunLost, Is
    <3>2. runner[r].old \in Nat /\ runner[r].sess \in Nat
      BY <3>1, RunnerFields
    <3>3. turns' \in {turns, Forgotten(runner[r].old), Forgotten(runner[r].sess)}
      BY <1>3, <2>2 DEF CleanUp, RunFails, RunLost
    <3> QED
      BY <3>2, <3>3, TurnsForgotten
  <2> QED
    BY <2>1, <2>2
<1>4. HarnessNext => DOMAIN turns' = DOMAIN turns
  <2>1. Forget => DOMAIN turns' = DOMAIN turns
    BY TurnsForgotten DEF Forget
  <2>2. \A u \in DOMAIN turns : Propose(u) \/ Stop(u) => DOMAIN turns' = DOMAIN turns
    BY DEF Propose, Stop
  <2> QED
    BY <2>1, <2>2 DEF HarnessNext
<1>5. UNCHANGED turns \/ HarnessNext
      \/ (\E p \in Poller : CreateTurn(p)) \/ (\E s \in Submitter : CreateAnswer(s))
      \/ (\E r \in Runner : RunStart(r) \/ CleanUp(r) \/ RunFails(r) \/ RunLost(r))
  BY PollerFrames, ClockFrames, ReviewFrames, SubmissionFrames, RecheckFrames DEF Next, PollerNext
<1> QED
  BY <1>1, <1>2, <1>3, <1>4, <1>5

\* A decision is made once, and on what is pending.
LEMMA DecisionSteps ==
    ASSUME Typed, Recorded, Next, NEW r \in Rev
    PROVE  \/ decision'[r] = decision[r]
           \/ decision[r] = Undecided /\ decision'[r].call = session.pend.call
<1>0. decision \in [Rev -> Decision]
  BY DEF Typed, TypeOK
<1>1. ASSUME NEW q \in DOMAIN verdict, NEW outcome, Decidable(q), Decides(q, outcome)
      PROVE  \/ decision'[r] = decision[r]
             \/ decision[r] = Undecided /\ decision'[r].call = session.pend.call
  BY <1>0, <1>1 DEF Decidable, Decides
<1>2. UNCHANGED decision
      \/ \E q \in DOMAIN verdict : Decidable(q) /\ \E outcome \in Outcomes : Decides(q, outcome)
  <2>1. ReviewNext => UNCHANGED decision
          \/ \E q \in DOMAIN verdict : Decidable(q) /\ \E outcome \in Outcomes : Decides(q, outcome)
    BY DEF ReviewNext, Deliver, Retire, Approve, Deny, ApproveSynthesized, Publish, Outcomes
  <2> QED
    BY <2>1, PollerFrames, ClockFrames, SubmissionFrames, RecheckFrames, HarnessFrames
       DEF Next, PollerNext
<1> QED
  BY <1>1, <1>2

\* The lease is taken by Claim alone.
LEMMA HolderSteps ==
    ASSUME Typed, Next, NEW p \in Poller, session'.holder = p
    PROVE  session.holder = p \/ Claim(p)
<1>0. session \in Session /\ p # Nobody
  BY SessionFields
<1>1. ASSUME NEW q \in Poller, \/ Follow(q) \/ Park(q) \/ HandOver(q) \/ Abandon(q) \/ Verify(q)
                               \/ VerifyRefused(q) \/ EndOutOfScope(q) \/ EndInvestigation(q)
                               \/ EndElsewhere(q)
      PROVE  FALSE
  <2>1. CASE Follow(q) \/ Park(q) \/ Abandon(q) \/ VerifyRefused(q) \/ HandOver(q) \/ Verify(q)
    BY <1>0, <2>1 DEF Follow, Park, Abandon, VerifyRefused, HandOver, Verify, Release, Session
  <2>2. CASE EndOutOfScope(q) \/ EndInvestigation(q) \/ EndElsewhere(q)
    <3>1. \E pend : Release([session EXCEPT !.status = poller[q].as, !.pend = pend])
      BY <2>2 DEF EndOutOfScope, EndInvestigation, EndElsewhere, EndSession
    <3> QED
      BY <1>0, <3>1 DEF Release, Session
  <2> QED
    BY <1>1, <2>1, <2>2
<1>2. ASSUME NEW q \in Poller, Claim(q) PROVE Claim(p)
  BY <1>0, <1>2 DEF Claim, Session
<1>3. CASE ReviewNext
  BY <1>0, <1>3 DEF ReviewNext, Deliver, Retire, Approve, Deny, ApproveSynthesized, Publish, Enqueue,
                    Session
<1>4. ASSUME NEW s \in Submitter, MarkSubmitted(s) PROVE FALSE
  BY <1>0, <1>4 DEF MarkSubmitted, Session
<1>5. ASSUME NEW r \in DOMAIN verdict, RequestRecheck(r) PROVE FALSE
  BY <1>0, <1>5 DEF RequestRecheck, Session
<1>6. ASSUME NEW r \in Runner, Rewrite(r) PROVE FALSE
  BY <1>0, <1>6 DEF Rewrite
<1>7. session' = [session EXCEPT !.holder = Nobody] => FALSE
  BY <1>0 DEF Session
<1> QED
  BY <1>1, <1>2, <1>3, <1>4, <1>5, <1>6, <1>7, PollerFrames, ClockFrames, SubmissionFrames,
     RecheckFrames, HarnessFrames DEF Next, PollerNext

\* What supersedes or adds a verdict, as a poller that holds the session sees it.
LEMMA HeldVerdicts ==
    ASSUME Typed, Recorded, Next, NEW p \in Poller, Held(p), Held(p)', Len(verdict) # 0,
           Len(verdict) \notin superseded
    PROVE  UNCHANGED <<verdict, superseded>>
<1>0. session \in Session /\ p # Nobody
  BY SessionFields
<1>1. ASSUME NEW r \in DOMAIN verdict, RequestRecheck(r) PROVE FALSE
  BY <1>0, <1>1 DEF RequestRecheck, Session, Held
<1>2. ASSUME NEW q \in Poller, DraftStored(q) PROVE FALSE
  <2>1. superseded = 1 .. Len(verdict)
    BY <1>2, NothingStands DEF DraftStored
  <2> QED
    BY <2>1, RevFacts
<1>3. ASSUME NEW q \in Poller, EndInvestigation(q) PROVE FALSE
  <2>1. \E pend : Release([session EXCEPT !.status = poller[q].as, !.pend = pend])
    BY <1>3 DEF EndInvestigation, EndSession
  <2> QED
    BY <1>0, <2>1 DEF Release, Session, Held
<1> QED
  BY <1>1, <1>2, <1>3, PollerFrames, ClockFrames, ReviewFrames, SubmissionFrames, RecheckFrames,
     HarnessFrames DEF Next, PollerNext

LEMMA AttendsKept ==
    ASSUME Typed, Recorded, Next, NEW p \in Poller, Attends(p), poller'[p] = poller[p], ~Claim(p)
    PROVE  Attends(p)'
<1>0. TurnsOK
  BY TurnsNext
<1>1. CASE poller[p].phase \notin {"find", "create", "draft", "verify"}
  BY <1>1 DEF Attends
<1>2. CASE poller[p].phase \in {"find", "create", "draft", "verify"}
  <2>1. Spoken(poller[p].seen.turn)
    BY <1>2, PollerFields DEF Attends, Spoken
  <2>2. SpokenNext(poller[p].seen.turn)
        /\ turns'[poller[p].seen.turn].form = turns[poller[p].seen.turn].form
    BY <1>0, <2>1, SpokenStays
  <2>3. turns'[poller'[p].seen.turn].status # "running"
        /\ turns'[poller'[p].seen.turn].form = turns[poller[p].seen.turn].form
    BY <2>2 DEF SpokenNext
  <2>4. CASE turns[poller[p].seen.turn].form = "bare" \/ poller[p].phase # "verify"
    BY <2>3, <2>4 DEF Attends
  <2>5. CASE turns[poller[p].seen.turn].form # "bare" /\ poller[p].phase = "verify"
    <3>1. CASE ~Held(p)'
      BY <2>3, <2>5, <3>1 DEF Attends
    <3>2. CASE Held(p)'
      <4>1. Held(p)
        BY <3>2, HolderSteps DEF Held
      <4>2. poller[p].rev # 0 /\ poller[p].rev = Len(verdict) /\ poller[p].rev \notin superseded
        BY <2>5, <4>1 DEF Attends
      <4>3. UNCHANGED <<verdict, superseded>>
        BY <3>2, <4>1, <4>2, HeldVerdicts
      <4> QED
        BY <2>3, <2>5, <4>2, <4>3 DEF Attends
    <3> QED
      BY <3>1, <3>2
  <2> QED
    BY <2>4, <2>5
<1> QED
  BY <1>1, <1>2

\* What Ask hands over.
LEMMA AskAttends == ASSUME Typed, NEW p \in Poller, Ask(p) PROVE Attends(p)'
<1>0. poller[p].phase = "ask" /\ poller[p].seen.turn \in DOMAIN turns /\ UNCHANGED turns
  BY PollerFields DEF Ask, At, harness
<1>1. Asked(p) \in Turn
  BY <1>0, TurnFields DEF Asked
<1>2. CASE Asked(p).status = "awaiting" /\ Asked(p).form # "odd"
  <2>1. Asked(p).form \in {"gated", "draft", "bare"}
    BY <1>1, <1>2 DEF Turn, AllForms
  <2>2. \E phase \in {"find", "park", "draft", "verify"} :
          /\ Go(p, phase)
          /\ phase = "find" => Asked(p).form = "gated"
          /\ phase = "draft" => Asked(p).form = "draft"
          /\ phase = "verify" => Asked(p).form = "bare"
    <3>1. Attend(p, Asked(p).form)
      BY <1>2 DEF Ask
    <3>2. CASE Asked(p).form = "gated"
      BY <3>1, <3>2 DEF Attend
    <3>3. CASE Asked(p).form # "gated" /\ IsRecorded(poller[p].seen)
      BY <2>1, <3>1, <3>3 DEF Attend
    <3>4. CASE Asked(p).form # "gated" /\ ~IsRecorded(poller[p].seen)
      <4>1. CASE Asked(p).form = "draft"
        BY <3>1, <3>4, <4>1 DEF Attend
      <4>2. CASE Asked(p).form = "bare"
        BY <3>1, <3>4, <4>2 DEF Attend
      <4> QED
        BY <2>1, <3>4, <4>1, <4>2
    <3> QED
      BY <3>2, <3>3, <3>4
  <2>3. \E phase \in {"find", "park", "draft", "verify"} :
          /\ poller'[p].phase = phase /\ poller'[p].seen = poller[p].seen
          /\ phase = "find" => Asked(p).form = "gated"
          /\ phase = "draft" => Asked(p).form = "draft"
          /\ phase = "verify" => Asked(p).form = "bare"
    BY <1>0, <2>2, PollerMoves DEF PBecomes, PollPhases
  <2> QED
    BY <1>0, <1>2, <2>3 DEF Attends, Asked
<1>3. CASE ~(Asked(p).status = "awaiting" /\ Asked(p).form # "odd")
  <2>1. Go(p, "follow") \/ \E as \in TurnOver : Ending(p, as)
    <3>1. CASE Asked(p).status = "running"
      BY <3>1 DEF Ask, TurnOver
    <3>2. CASE Asked(p).status = "awaiting"
      <4>1. Attend(p, Asked(p).form) /\ Asked(p).form = "odd"
        BY <1>3, <3>2 DEF Ask
      <4> QED
        BY <4>1 DEF Attend, TurnOver
    <3>3. CASE Asked(p).status \notin {"running", "awaiting"}
      BY <3>3 DEF Ask, TurnOver
    <3> QED
      BY <3>1, <3>2, <3>3
  <2>2. poller'[p].phase \in {"follow", "end"}
    BY <1>0, <2>1, PollerMoves DEF PBecomes, PollPhases
  <2> QED
    BY <2>2 DEF Attends
<1> QED
  BY <1>2, <1>3

\* The revision a draft stores or finds is the one that stands.
LEMMA DraftAttends ==
    ASSUME Typed, Recorded, NEW p \in Poller, Attends(p), DraftStored(p) \/ DraftRepeated(p)
    PROVE  Attends(p)'
<1>0. poller[p].phase = "draft" /\ poller[p].seen.turn \in DOMAIN turns
      /\ UNCHANGED <<turns, superseded>> /\ Len(verdict) \in Nat
  BY PollerFields, RevFacts DEF DraftStored, DraftRepeated, At, harness, record
<1>1. turns[poller[p].seen.turn].status # "running"
  BY <1>0 DEF Attends
<1>2. CASE DraftStored(p)
  <2>1. Len(verdict') = Len(verdict) + 1 /\ superseded = 1 .. Len(verdict)
    BY <1>2, NothingStands DEF DraftStored, Typed, TypeOK
  <2>2. Len(verdict') \in Rev
    BY <1>2, <2>1 DEF DraftStored
  <2>3. poller'[p].phase = "verify" /\ poller'[p].rev = Len(verdict') /\ poller'[p].seen = poller[p].seen
    BY <1>0, <1>2, <2>2, PollerMoves DEF DraftStored, PBecomes
  <2>4. Len(verdict') # 0 /\ Len(verdict') \notin superseded
    BY <1>0, <2>1
  <2> QED
    BY <1>0, <1>1, <2>3, <2>4 DEF Attends
<1>3. CASE DraftRepeated(p)
  <2>1. Standing \in DOMAIN verdict /\ Standing \notin superseded
    <3>1. FollowUps # {} => (CHOOSE r \in FollowUps : TRUE) \in FollowUps
      OBVIOUS
    <3>2. CASE superseded # {} /\ FollowUps # {}
      BY <3>1, <3>2 DEF Standing, FollowUps
    <3>3. CASE ~(superseded # {} /\ FollowUps # {})
      <4>1. superseded = {} /\ verdict # <<>> /\ Standing = 1
        BY <1>3, <3>3 DEF DraftRepeated, Standing
      <4> QED
        BY <4>1, RevFacts
    <3> QED
      BY <3>2, <3>3
  <2>2. Standing = Len(verdict) /\ Standing \in Rev /\ Standing # 0
    BY <2>1, NewestStands, RevFacts
  <2>3. poller'[p].phase = "verify" /\ poller'[p].rev = Standing /\ poller'[p].seen = poller[p].seen
    BY <1>0, <1>3, <2>2, PollerMoves DEF DraftRepeated, PBecomes
  <2>4. UNCHANGED verdict
    BY <1>3 DEF DraftRepeated, record
  <2> QED
    BY <1>0, <1>1, <2>1, <2>2, <2>3, <2>4 DEF Attends
<1> QED
  BY <1>2, <1>3

LEMMA AttendsNext ==
    ASSUME Typed, Recorded, Next, NEW p \in Poller, Attends(p)
    PROVE  Attends(p)'
<1>1. CASE PollStep(p) \/ PollCrash(p)
  <2>1. CASE Ask(p)
    BY <2>1, AskAttends
  <2>2. CASE DraftStored(p) \/ DraftRepeated(p)
    BY <2>2, DraftAttends
  <2>3. CASE FindTurn(p)
    <3>1. poller[p].phase = "find" /\ UNCHANGED turns
      BY <2>3 DEF FindTurn, At, harness
    <3>2. Go(p, "create")
          \/ \E t \in DOMAIN turns : poller' = [poller EXCEPT ![p].phase = "handover", ![p].next = t]
      BY <2>3 DEF FindTurn, Answers
    <3>3. \A t \in DOMAIN turns : t \in TurnId
      BY TurnFields
    <3>4. poller'[p].phase \in {"create", "handover"} /\ poller'[p].seen = poller[p].seen
      BY <3>1, <3>2, <3>3, PollerMoves DEF PBecomes, PollPhases
    <3> QED
      BY <3>1, <3>4 DEF Attends
  <2>4. CASE Claim(p)
    BY <2>4, ClaimReads DEF Claims, Attends
  <2>5. CASE CheckReport(p) \/ CreateTurn(p) \/ DraftRefused(p) \/ DraftConflicts(p)
    <3>1. poller[p].phase # "idle" /\ poller[p] \in Polling
          /\ poller \in [Poller -> Polling \union {NotPolling}]
      BY <2>5, PollerFields DEF CheckReport, CreateTurn, DraftRefused, DraftConflicts, At, Typed, TypeOK
    <3>2. poller'[p].phase \in {"end", "ask", "handover", "abandon"}
      BY <2>5, <3>1 DEF CheckReport, CreateTurn, DraftRefused, DraftConflicts, Go, Ending, Polling
    <3> QED
      BY <3>2 DEF Attends
  <2>6. CASE Done(p)
    BY <2>6, PollerStops DEF PStops, NotPolling, Attends
  <2> QED
    BY <1>1, <2>1, <2>2, <2>3, <2>4, <2>5, <2>6
       DEF PollStep, PollCrash, Follow, Park, ResumeThrows, HandOver, Abandon, Verify,
           VerifyRefused, VerifyThrows, EndOutOfScope, EndInvestigation, EndElsewhere,
           EndSession, LeaseLost
<1>2. CASE ~(PollStep(p) \/ PollCrash(p))
  <2>1. poller'[p] = poller[p]
    <3>1. ASSUME NEW q \in Poller, PollStep(q) \/ PollCrash(q) PROVE poller'[p] = poller[p]
      BY <1>2, <3>1, PollerGoes, ClaimReads DEF Claims, Goal, PBecomes, PStops
    <3> QED
      BY <3>1, ReviewFrames, ClockFrames, SubmissionFrames, RecheckFrames, HarnessFrames
         DEF Next, PollerNext
  <2>2. ~Claim(p)
    BY <1>2 DEF PollStep
  <2> QED
    BY <2>1, <2>2, AttendsKept
<1> QED
  BY <1>1, <1>2

LEMMA PendingNext ==
    ASSUME Typed, Recorded, Informed, Next
    PROVE  PendingExplained' /\ (session'.pend.call # Synth => SpokenNext(session'.pend.call))
<1>0. session \in Session /\ TurnsOK /\ Len(verdict) \in Nat
  BY SessionFields, TurnsNext, RevFacts
<1>1. session'.pend = NoPending
      => PendingExplained' /\ (session'.pend.call # Synth => SpokenNext(session'.pend.call))
  BY DEF PendingExplained, NoPending
<1>2. ASSUME UNCHANGED <<superseded>>, session'.pend = session.pend,
             \/ Len(verdict') = Len(verdict)
             \/ superseded = 1 .. Len(verdict)
      PROVE  PendingExplained' /\ (session'.pend.call # Synth => SpokenNext(session'.pend.call))
  <2>1. session'.pend.call # Synth => SpokenNext(session'.pend.call)
                                      /\ turns'[session.pend.call].form = turns[session.pend.call].form
    BY <1>0, <1>2, SpokenStays DEF Informed
  <2>2. CASE session.pend.rev = 0
    BY <1>2, <2>1, <2>2 DEF PendingExplained
  <2>3. CASE session.pend.rev # 0 /\ session.pend.rev = Len(verdict) /\ session.pend.rev \notin superseded
    <3>1. superseded # 1 .. Len(verdict)
      BY <1>0, <2>3
    <3> QED
      BY <1>2, <2>1, <2>3, <3>1 DEF PendingExplained
  <2>4. CASE /\ session.pend.rev # 0 /\ session.pend.rev \in superseded
             /\ session.pend.call # Synth /\ turns[session.pend.call].form = "bare"
    BY <1>2, <2>1, <2>4 DEF PendingExplained
  <2> QED
    BY <2>2, <2>3, <2>4 DEF Informed, PendingExplained
<1>3. CASE UNCHANGED record /\ session'.pend \in {session.pend, NoPending}
  BY <1>1, <1>2, <1>3 DEF record
<1>4. ASSUME NEW p \in Poller, DraftStored(p)
      PROVE  PendingExplained' /\ (session'.pend.call # Synth => SpokenNext(session'.pend.call))
  <2>1. superseded = 1 .. Len(verdict)
    BY <1>4, NothingStands DEF DraftStored
  <2> QED
    BY <1>2, <1>4, <2>1 DEF DraftStored
<1>5. ASSUME NEW p \in Poller, Abandon(p)
      PROVE  PendingExplained' /\ (session'.pend.call # Synth => SpokenNext(session'.pend.call))
  BY <1>0, <1>2, <1>5 DEF Abandon, Release, Session
<1>6. ASSUME NEW p \in Poller, Verify(p)
      PROVE  PendingExplained' /\ (session'.pend.call # Synth => SpokenNext(session'.pend.call))
  <2>1. session'.pend = Call(p)
    BY <1>0, <1>6 DEF Verify, Release, Session
  <2>2. /\ session'.pend.rev = Len(verdict) /\ session'.pend.call = poller[p].seen.turn
        /\ UNCHANGED <<verdict, superseded, turns>> /\ Len(verdict) # 0
    BY <1>6, <2>1, RevFacts DEF Verify, Call, Newest, harness
  <2>3. Held(p) /\ poller[p].phase = "verify" /\ Attends(p)
    BY <1>6 DEF Verify, At, Informed
  <2>4. poller[p].seen.turn \in DOMAIN turns /\ poller[p].seen.turn # Synth
        /\ turns[poller[p].seen.turn].status # "running"
    BY <2>3, PollerFields DEF Attends, TurnId, Synth
  <2>5. \/ Len(verdict) \notin superseded
        \/ turns[poller[p].seen.turn].form = "bare"
    BY <2>3 DEF Attends
  <2> QED
    BY <2>2, <2>4, <2>5 DEF PendingExplained, SpokenNext
<1>7. ASSUME NEW p \in Poller, EndOutOfScope(p) \/ EndInvestigation(p)
      PROVE  PendingExplained' /\ (session'.pend.call # Synth => SpokenNext(session'.pend.call))
  <2>1. CASE session'.pend = NoPending
    BY <1>1, <2>1
  <2>2. CASE EndInvestigation(p) /\ verdict = <<>>
    <3>1. session'.pend = [rev |-> 1, call |-> Synth]
      BY <1>0, <2>2 DEF EndInvestigation, EndSession, Release, Session
    <3>2. Len(verdict') = 1 /\ Len(verdict) = 0 /\ UNCHANGED superseded
      BY <2>2 DEF EndInvestigation, EndSession
    <3>3. 1 \notin superseded
      BY <3>2 DEF Recorded
    <3> QED
      BY <3>1, <3>2, <3>3 DEF PendingExplained
  <2>3. CASE session'.pend # NoPending /\ ~(EndInvestigation(p) /\ verdict = <<>>)
    BY <1>0, <1>7, <2>3 DEF EndOutOfScope, EndInvestigation, EndSession, Release, Session
  <2> QED
    BY <2>1, <2>2, <2>3
<1>8. CASE CancelRecheck \/ Deliver \/ Retire \/ (\E r \in DOMAIN verdict : Approve(r) \/ Deny(r))
  BY <1>2, <1>8 DEF CancelRecheck, Deliver, Retire, Approve, Deny, rest, away
<1>9. CASE (\E r \in DOMAIN verdict : ApproveSynthesized(r) \/ RequestRecheck(r))
           \/ (\E c \in 1 .. sessions : Publish(c))
  BY <1>0, <1>1, <1>9 DEF ApproveSynthesized, Publish, Enqueue, RequestRecheck, Session
<1> QED
  BY <1>3, <1>4, <1>5, <1>6, <1>7, <1>8, <1>9, RecordSteps

LEMMA InformedNext == ASSUME Typed, Recorded, Informed, Next PROVE Informed'
<1>0. TurnsOK /\ decision \in [Rev -> Decision]
  BY TurnsNext DEF Typed, TypeOK
<1>1. \A p \in Poller : Attends(p)'
  BY AttendsNext DEF Informed
<1>2. PendingExplained' /\ (session'.pend.call # Synth => SpokenNext(session'.pend.call))
  BY PendingNext
<1>3. ASSUME NEW r \in Rev, decision'[r].call # Synth PROVE SpokenNext(decision'[r].call)
  <2>1. Spoken(decision'[r].call)
    BY <1>3, DecisionSteps DEF Informed
  <2> QED
    BY <1>0, <2>1, SpokenStays
<1>4. ASSUME NEW t \in DOMAIN turns', turns'[t].answers # 0 PROVE SpokenNext(turns'[t].answers)
  <2>1. CASE t \in DOMAIN turns
    <3>1. turns'[t].answers = turns[t].answers
      BY <1>0, <2>1 DEF TurnsOK, TurnsKept
    <3>2. Spoken(turns'[t].answers)
      BY <1>4, <2>1, <3>1 DEF Informed
    <3> QED
      BY <1>0, <3>2, SpokenStays
  <2>2. CASE t \notin DOMAIN turns
    <3>1. Spoken(turns'[t].answers)
      <4>1. ASSUME NEW p \in Poller, CreateTurn(p) PROVE Spoken(poller[p].seen.turn)
        BY <4>1, PollerFields DEF CreateTurn, At, Informed, Attends, Spoken
      <4>2. ASSUME NEW s \in Submitter, CreateAnswer(s), decision[submitter[s].rev].call # 0
            PROVE  Spoken(decision[submitter[s].rev].call)
        BY <4>2, SubmitterFields DEF CreateAnswer, In, Informed, Synth
      <4> QED
        BY <1>4, <2>2, <4>1, <4>2, NewTurns
    <3> QED
      BY <1>0, <3>1, SpokenStays
  <2> QED
    BY <2>1, <2>2
<1>5. ASSUME NEW a, \E r \in Rev : decision[r] = [outcome |-> "APPROVED", call |-> a]
      PROVE  \E r \in Rev : decision'[r] = [outcome |-> "APPROVED", call |-> a]
  BY <1>5, DecisionSteps DEF Undecided
<1>6. AllowsOnlyApproved'
  <2> SUFFICES ASSUME NEW t \in DOMAIN turns', turns'[t].answers # 0, turns'[t].allow,
                      turns'[turns'[t].answers].form # "gated"
               PROVE  \E r \in Rev :
                        decision'[r] = [outcome |-> "APPROVED", call |-> turns'[t].answers]
    BY DEF AllowsOnlyApproved
  <2>1. CASE t \in DOMAIN turns
    <3>1. turns'[t].answers = turns[t].answers /\ turns'[t].allow = turns[t].allow
      BY <1>0, <2>1 DEF TurnsOK, TurnsKept
    <3>2. Spoken(turns[t].answers)
      BY <2>1, <3>1 DEF Informed
    <3>3. turns'[turns[t].answers].form = turns[turns[t].answers].form
      BY <1>0, <3>2, SpokenStays
    <3>4. \E r \in Rev : decision[r] = [outcome |-> "APPROVED", call |-> turns[t].answers]
      BY <2>1, <3>1, <3>3 DEF Informed, AllowsOnlyApproved
    <3> QED
      BY <1>5, <3>1, <3>4
  <2>2. CASE t \notin DOMAIN turns
    <3>1. ASSUME NEW p \in Poller, CreateTurn(p), turns'[t].answers = poller[p].seen.turn PROVE FALSE
      <4>1. Spoken(poller[p].seen.turn) /\ turns[poller[p].seen.turn].form = "gated"
        BY <3>1, PollerFields DEF CreateTurn, At, Informed, Attends, Spoken
      <4> QED
        BY <1>0, <3>1, <4>1, SpokenStays
    <3>2. ASSUME NEW s \in Submitter, CreateAnswer(s),
                 turns'[t].answers = decision[submitter[s].rev].call,
                 turns'[t].allow = Allows(submitter[s].rev)
          PROVE  \E r \in Rev : decision[r] = [outcome |-> "APPROVED", call |-> turns'[t].answers]
      <4>1. submitter[s].rev \in Rev /\ decision[submitter[s].rev] \in Decision
        BY <3>2, SubmitterFields DEF CreateAnswer, In
      <4>2. decision[submitter[s].rev].outcome = "APPROVED"
        BY <3>2 DEF Allows
      <4> QED
        BY <3>2, <4>1, <4>2 DEF Decision
    <3> QED
      BY <1>5, <2>2, <3>1, <3>2, NewTurns
  <2> QED
    BY <2>1, <2>2
<1> QED
  BY <1>1, <1>2, <1>3, <1>4, <1>6 DEF Informed, Spoken, SpokenNext

LEMMA InformedStutters == ASSUME Informed, UNCHANGED vars PROVE Informed'
  BY DEF Informed, Attends, Held, PendingExplained, Spoken, AllowsOnlyApproved, vars, record, harness,
         procs

LEMMA InformedAlways == Spec => [](Gated /\ Informed)
<1>1. Init => Gated /\ Informed
  BY TypeInit, RecordedInit, InformedInit DEF Gated
<1>2. Gated /\ Informed /\ [Next]_vars => (Gated /\ Informed)'
  BY TypeNext, RecordedNext, InformedNext, TypeStutters, RecordedStutters, InformedStutters DEF Gated
<1> QED
  BY <1>1, <1>2, PTL DEF Spec

\* What the session row puts before the reviewer is the newest revision and can be
\* decided, unless a re-check's agent called with its capability alone
\* (handleVerifiedPendingCall takes the newest revision for the run's own).
THEOREM PendingCanBeDecided == Spec => []PendingIsStanding
<1>1. Gated /\ Informed => PendingIsStanding
  BY DEF Informed, PendingExplained, PendingIsStanding
<1> QED
  BY <1>1, InformedAlways, PTL

\* One verdict at most stands, it is the one the reviewer is shown, and it is answered
\* once: what the run "approval" checks with two pollers and one re-check.
THEOREM OnlyTheNewestStands == Spec => []VerdictStands
<1>1. PendingIsStanding /\ OneStandingVerdict /\ OneAnswer => VerdictStands
  BY DEF VerdictStands
<1> QED
  BY <1>1, PendingCanBeDecided, OneStands, OneDecision, PTL

\* A turn that tells the harness to go ahead with a publish_verdict call answers a call
\* a human approved (resumeApprovalTurn, approval-submission/worker.ts).
THEOREM OnlyApprovedIsAllowed == Spec => []AllowsOnlyApproved
<1>1. Informed => AllowsOnlyApproved
  BY DEF Informed
<1> QED
  BY <1>1, InformedAlways, PTL

-----------------------------------------------------------------------------
(* A re-check in progress: something is left that finishes it.             *)

\* A runner that has rewritten the session left a turn for a poller to follow.
Finishing ==
    /\ SomethingFinishesIt
    /\ \A r \in Runner :
         runner[r].phase \in {"clean", "release"} /\ runner[r].k = Latest /\ report = "REPRODUCING"
         => session.status \notin TurnOver

LEMMA FinishingInit == Init => Finishing
  BY DEF Init, Finishing, SomethingFinishesIt

\* While the report is re-checked nothing ends the session's turn.
LEMMA StatusSteps ==
    ASSUME Typed, Next, report = "REPRODUCING", report' = "REPRODUCING"
    PROVE  session'.status = session.status \/ session'.status \notin TurnOver
<1>0. session \in Session
  BY SessionFields
<1>1. ASSUME NEW p \in Poller, PollStep(p) \/ PollCrash(p)
      PROVE  session'.status = session.status \/ session'.status \notin TurnOver
  <2>1. CASE UNCHANGED session
    BY <2>1
  <2>2. CASE Claim(p) \/ Follow(p) \/ Park(p) \/ HandOver(p)
    BY <1>0, <2>2 DEF Claim, Follow, Park, HandOver, Release, Session, TurnOver
  <2>3. ~(Abandon(p) \/ Verify(p) \/ EndOutOfScope(p) \/ EndInvestigation(p) \/ EndElsewhere(p))
    BY DEF Abandon, Verify, EndOutOfScope, EndInvestigation, EndElsewhere, MoveTo, Investigating
  <2>4. ~VerifyRefused(p)
    BY DEF VerifyRefused, MayRecord, Investigating
  <2> QED
    BY <1>1, <2>1, <2>2, <2>3, <2>4, PollerFrames
<1>2. CASE ExpireDead \/ ExpireStalled \/ Deadline
  BY <1>0, <1>2, ClockFrames DEF Session
<1>3. CASE ReviewNext
  BY <1>0, <1>3 DEF ReviewNext, Deliver, Retire, Approve, Deny, ApproveSynthesized, Publish, Enqueue,
                    MoveTo, Session
<1>4. ASSUME NEW s \in Submitter, MarkSubmitted(s) PROVE session'.status \notin TurnOver
  BY <1>0, <1>4 DEF MarkSubmitted, Session, TurnOver
<1>5. ASSUME NEW r \in Runner, Rewrite(r) PROVE session'.status \notin TurnOver
  BY <1>5 DEF Rewrite, TurnOver
<1>6. \A r \in DOMAIN verdict : ~RequestRecheck(r)
  BY DEF RequestRecheck, MayRecheck
<1> QED
  BY <1>1, <1>2, <1>3, <1>4, <1>5, <1>6, SubmissionFrames, RecheckFrames, HarnessFrames
     DEF Next, PollerNext

\* A re-check begins with a run that is queued.
LEMMA RecheckBegins ==
    ASSUME Typed, Next, report # "REPRODUCING", report' = "REPRODUCING"
    PROVE  /\ Len(run') = Len(run) + 1 /\ run'[Len(run')].status = "PENDING"
           /\ UNCHANGED runner
<1>1. PICK r \in DOMAIN verdict : RequestRecheck(r)
  <2>1. \A p \in Poller : ~(DraftStored(p) \/ Abandon(p) \/ Verify(p) \/ EndOutOfScope(p)
                            \/ EndInvestigation(p))
    BY DEF DraftStored, Abandon, Verify, EndOutOfScope, EndInvestigation, MoveTo
  <2>2. ~(CancelRecheck \/ Deliver \/ Retire)
    BY DEF CancelRecheck, Deliver, Retire, MoveTo
  <2>3. \A r \in DOMAIN verdict : ~(Approve(r) \/ Deny(r) \/ ApproveSynthesized(r))
    BY DEF Approve, Deny, ApproveSynthesized, Enqueue, MoveTo
  <2>4. \A c \in 1 .. sessions : ~Publish(c)
    BY DEF Publish, Enqueue, MoveTo
  <2> QED
    BY <2>1, <2>2, <2>3, <2>4, RecordSteps DEF record
<1> DEFINE old == [k \in DOMAIN run |->
                      IF k = Latest /\ run[k].status \notin RunFinished
                      THEN [run[k] EXCEPT !.status = "SUPERSEDED"] ELSE run[k]]
           new == [status |-> "PENDING", attempts |-> 0, holder |-> Nobody, sess |-> 0]
<1>2. old \in Seq(RunRow) /\ Len(old) = Len(run)
  <2>1. \A k \in DOMAIN run : old[k] \in RunRow
    BY RunFacts DEF RunRow, RunStatus
  <2>2. old = [k \in DOMAIN run |-> old[k]]
    OBVIOUS
  <2> HIDE DEF old
  <2> QED
    BY RunFacts, <2>1, <2>2, RowsWrite
<1>3. new \in RunRow /\ new.status = "PENDING"
  BY DEF RunRow, RunStatus
<1>4. run' = Append(old, new) /\ UNCHANGED runner
  BY <1>1 DEF RequestRecheck
<1> HIDE DEF old, new
<1>5. Len(run') = Len(old) + 1 /\ run'[Len(old) + 1] = new
  BY <1>2, <1>3, <1>4, Appended
<1> QED
  BY <1>2, <1>3, <1>4, <1>5

\* What may become of the newest run meanwhile.
Unfinished(row) == \/ row.status \in {"PENDING", "ERROR"}
                   \/ row.status = "RUNNING" /\ row.holder # Nobody

LEMMA RunSteps ==
    ASSUME Typed, Next, report = "REPRODUCING", report' = "REPRODUCING", run # <<>>
    PROVE  /\ Len(run') = Len(run)
           /\ \/ Unfinished(run[Latest]) => Unfinished(run'[Latest])
              \/ session'.status \notin TurnOver
              \/ \E r \in Runner : ReleaseRun(r) /\ runner[r].k = Latest
<1>0. /\ Latest \in DOMAIN run /\ Nobody # Lapsed /\ Nobody \notin Runner
      /\ \A k \in DOMAIN run : run[k] \in RunRow
  BY RunFacts
<1>1. CASE UNCHANGED run
  BY <1>1
<1>2. ASSUME NEW p \in Poller, \/ Abandon(p) \/ Verify(p)
                               \/ EndOutOfScope(p) \/ EndInvestigation(p) \/ EndElsewhere(p)
      PROVE  FALSE
  BY <1>2 DEF Abandon, Verify, EndOutOfScope, EndInvestigation, EndElsewhere, MoveTo, Investigating
<1>3. ASSUME NEW k \in DOMAIN run, NEW new \in RunRow, run' = [run EXCEPT ![k] = new],
             Unfinished(run[k]) => Unfinished(new)
      PROVE  Len(run') = Len(run) /\ (Unfinished(run[Latest]) => Unfinished(run'[Latest]))
  <2>1. Len(run') = Len(run) /\ run'[k] = new /\ \A j \in DOMAIN run : j # k => run'[j] = run[j]
    BY <1>3, RunWritten
  <2> QED
    BY <1>0, <1>3, <2>1
<1>4. CASE RetryRecheck
  <2>1. run' = [run EXCEPT ![Latest] = [Ended("PENDING") EXCEPT !.attempts = 0]]
    BY <1>4 DEF RetryRecheck, SetRun
  <2>2. [Ended("PENDING") EXCEPT !.attempts = 0] \in RunRow
        /\ Unfinished([Ended("PENDING") EXCEPT !.attempts = 0])
    BY <1>0 DEF Ended, RunRow, RunStatus, Unfinished
  <2> QED
    BY <1>0, <1>3, <2>1, <2>2
<1>5. ASSUME NEW k \in DOMAIN run, RunExpire(k) \/ SweepRelease(k) \/ SweepFail(k)
      PROVE  Len(run') = Len(run) /\ (Unfinished(run[Latest]) => Unfinished(run'[Latest]))
  <2>1. /\ [run[k] EXCEPT !.holder = Lapsed] \in RunRow
        /\ [run[k] EXCEPT !.status = "PENDING", !.holder = Nobody] \in RunRow
        /\ [run[k] EXCEPT !.status = "ERROR", !.holder = Nobody] \in RunRow
        /\ Unfinished([run[k] EXCEPT !.status = "PENDING", !.holder = Nobody])
        /\ Unfinished([run[k] EXCEPT !.status = "ERROR", !.holder = Nobody])
        /\ Unfinished(run[k]) => Unfinished([run[k] EXCEPT !.holder = Lapsed])
    BY <1>0 DEF RunRow, RunStatus, Unfinished
  <2>2. CASE RunExpire(k)
    <3>1. run' = [run EXCEPT ![k] = [run[k] EXCEPT !.holder = Lapsed]]
      BY <1>0, <2>2 DEF RunExpire
    <3> QED
      BY <1>3, <2>1, <3>1
  <2> QED
    BY <1>3, <1>5, <2>1, <2>2 DEF SweepRelease, SweepFail, SetRun
<1>6. ASSUME NEW r \in Runner, RunClaim(r)
      PROVE  Len(run') = Len(run) /\ (Unfinished(run[Latest]) => Unfinished(run'[Latest]))
  <2>1. PICK k \in DOMAIN run :
          SetRun(k, [run[k] EXCEPT !.status = "RUNNING", !.attempts = @ + 1, !.holder = r])
    BY <1>6 DEF RunClaim
  <2> DEFINE new == [run[k] EXCEPT !.status = "RUNNING", !.attempts = @ + 1, !.holder = r]
  <2>2. run[k].attempts + 1 \in Nat
    BY <1>0 DEF RunRow
  <2>3. new \in RunRow /\ new.status = "RUNNING" /\ new.holder = r
    BY <1>0, <2>2 DEF RunRow, RunStatus
  <2>4. run' = [run EXCEPT ![k] = new]
    BY <2>1 DEF SetRun
  <2> HIDE DEF new
  <2>5. Unfinished(new)
    BY <1>0, <2>3 DEF Unfinished
  <2> QED
    BY <1>3, <2>3, <2>4, <2>5
<1>7. ASSUME NEW r \in Runner, Rewrite(r) \/ RunFails(r) \/ (ReleaseRun(r) /\ runner[r].k # Latest)
      PROVE  /\ Len(run') = Len(run)
             /\ \/ Unfinished(run[Latest]) => Unfinished(run'[Latest])
                \/ session'.status \notin TurnOver
  <2>1. /\ runner[r].k \in DOMAIN run /\ run[runner[r].k] \in RunRow /\ runner[r].sess \in Nat
    BY <1>7, RunnerFields DEF Rewrite, ReleaseRun, RunFails, Is
  <2>2. /\ [run[runner[r].k] EXCEPT !.sess = runner[r].sess] \in RunRow
        /\ [run[runner[r].k] EXCEPT !.status = "RUNNING", !.holder = Nobody] \in RunRow
        /\ [run[runner[r].k] EXCEPT !.status = "ERROR", !.holder = Nobody] \in RunRow
        /\ Unfinished([run[runner[r].k] EXCEPT !.status = "ERROR", !.holder = Nobody])
    BY <2>1 DEF RunRow, RunStatus, Unfinished
  <2>3. CASE Rewrite(r)
    <3>1. session'.status \notin TurnOver
      BY <2>3 DEF Rewrite, TurnOver
    <3>2. Len(run') = Len(run)
      BY <2>1, <2>2, <2>3, RunWritten DEF Rewrite, SetRun
    <3> QED
      BY <3>1, <3>2
  <2>4. CASE RunFails(r)
    BY <1>3, <2>1, <2>2, <2>4 DEF RunFails, Write, SetRun
  <2>5. CASE ReleaseRun(r) /\ runner[r].k # Latest
    <3>1. run' = [run EXCEPT ![runner[r].k] =
                    [run[runner[r].k] EXCEPT !.status = "RUNNING", !.holder = Nobody]]
      BY <2>5 DEF ReleaseRun, Write, SetRun
    <3>2. Len(run') = Len(run) /\ run'[Latest] = run[Latest]
      BY <1>0, <2>1, <2>2, <2>5, <3>1, RunWritten
    <3> QED
      BY <3>2
  <2> QED
    BY <1>7, <2>3, <2>4, <2>5
<1>8. ASSUME NEW r \in Runner, ReleaseRun(r) PROVE Len(run') = Len(run)
  <2>1. runner[r].k \in DOMAIN run /\ run[runner[r].k] \in RunRow
    BY <1>8, RunnerFields DEF ReleaseRun, Is
  <2>2. [run[runner[r].k] EXCEPT !.status = "RUNNING", !.holder = Nobody] \in RunRow
    BY <2>1 DEF RunRow, RunStatus
  <2> QED
    BY <1>8, <2>1, <2>2, RunWritten DEF ReleaseRun, Write, SetRun
<1>9. ~CancelRecheck /\ \A r \in DOMAIN verdict : ~RequestRecheck(r)
  BY DEF CancelRecheck, RequestRecheck, MayRecheck, MoveTo
<1>10. UNCHANGED run \/ RetryRecheck
       \/ (\E k \in DOMAIN run : RunExpire(k) \/ SweepRelease(k) \/ SweepFail(k))
       \/ (\E r \in Runner : RunClaim(r) \/ Rewrite(r) \/ ReleaseRun(r) \/ RunFails(r))
  BY <1>2, <1>9, PollerFrames, ClockFrames, ReviewFrames, SubmissionFrames, RecheckFrames,
     HarnessFrames DEF Next, PollerNext
<1>11. Unfinished([Ended("PENDING") EXCEPT !.attempts = 0])
  BY <1>0 DEF Ended, RunRow, Unfinished
<1> QED
  BY <1>0, <1>1, <1>3, <1>4, <1>5, <1>6, <1>7, <1>8, <1>10

\* A runner past its rewrite got there by it, or stays.
LEMMA RunnerSteps ==
    ASSUME Typed, Next, NEW r \in Runner, runner'[r].phase \in {"clean", "release"}
    PROVE  \/ Rewrite(r)
           \/ runner[r].phase \in {"clean", "release"} /\ runner'[r].k = runner[r].k
<1>0. runner \in [Runner -> Running \union {NotRunning}]
  BY DEF Typed, TypeOK
<1>1. ASSUME NEW q \in Runner, RunStep(q) \/ RunCrash(q), q # r PROVE runner'[r] = runner[r]
  BY <1>0, <1>1 DEF RunStep, RunCrash, RunClaim, RunCheck, RunStart, Rewrite, CleanUp, ReleaseRun,
                    RunFails, RunLost, Quits, To
<1>2. CASE RunStep(r) \/ RunCrash(r)
  <2>1. CASE RunClaim(r)
    <3>1. PICK k \in DOMAIN run : runner' = [runner EXCEPT ![r] =
                  [phase |-> "check", k |-> k, sess |-> 0, turn |-> 0, old |-> 0]]
      BY <2>1 DEF RunClaim
    <3> QED
      BY <1>0, <3>1
  <2>2. CASE ReleaseRun(r) \/ RunFails(r) \/ RunLost(r) \/ RunCrash(r)
    BY <1>0, <2>2 DEF ReleaseRun, RunFails, RunLost, RunCrash, Quits, NotRunning
  <2>3. CASE RunCheck(r) \/ RunStart(r) \/ CleanUp(r)
    <3>1. runner[r] \in Running
      BY <2>3, RunnerFields DEF RunCheck, RunStart, CleanUp, Is
    <3>2. CASE RunCheck(r)
      BY <1>0, <3>1, <3>2 DEF RunCheck, To, Running
    <3>3. CASE RunStart(r)
      BY <1>0, <3>1, <3>3 DEF RunStart, Running
    <3>4. CASE CleanUp(r)
      BY <1>0, <3>1, <3>4 DEF CleanUp, Is, To, Running
    <3> QED
      BY <2>3, <3>2, <3>3, <3>4
  <2> QED
    BY <1>2, <2>1, <2>2, <2>3 DEF RunStep
<1> QED
  BY <1>1, <1>2, PollerFrames, ClockFrames, ReviewFrames, SubmissionFrames, RecheckFrames,
     HarnessFrames DEF Next, PollerNext

LEMMA FinishingNext == ASSUME Typed, Finishing, Next PROVE Finishing'
<1>0. Len(run) \in Nat /\ (run # <<>> <=> Len(run) # 0) /\ (run' # <<>> <=> Len(run') # 0)
  <2>1. run' \in Seq(RunRow)
    BY RunsNext DEF RunsOK
  <2> QED
    BY <2>1, RunFacts
<1>1. CASE report' # "REPRODUCING"
  BY <1>1 DEF Finishing, SomethingFinishesIt
<1>2. CASE report # "REPRODUCING" /\ report' = "REPRODUCING"
  <2>1. Len(run') = Len(run) + 1 /\ run'[Len(run')].status = "PENDING" /\ UNCHANGED runner
    BY <1>2, RecheckBegins
  <2>2. SomethingFinishesIt'
    BY <1>0, <2>1 DEF SomethingFinishesIt, Latest
  <2>3. \A r \in Runner : runner[r].phase \in {"clean", "release"} => runner[r].k \in 1 .. Len(run)
    BY RunnerFields, RunFacts
  <2>4. \A r \in Runner : runner'[r].phase \in {"clean", "release"} => runner'[r].k # Len(run')
    BY <1>0, <2>1, <2>3
  <2> QED
    BY <2>2, <2>4 DEF Finishing, Latest
<1>3. CASE report = "REPRODUCING" /\ report' = "REPRODUCING"
  <2>1. run # <<>> /\ (Unfinished(run[Latest]) \/ session.status \notin TurnOver)
    BY <1>3 DEF Finishing, SomethingFinishesIt, Unfinished
  <2>2. session'.status = session.status \/ session'.status \notin TurnOver
    BY <1>3, StatusSteps
  <2>3. Len(run') = Len(run)
    BY <1>3, <2>1, RunSteps
  <2>4. Unfinished(run'[Latest]) \/ session'.status \notin TurnOver
    <3>1. CASE session.status \notin TurnOver
      BY <2>2, <3>1
    <3>2. CASE session.status \in TurnOver
      <4>1. ASSUME NEW r \in Runner, ReleaseRun(r), runner[r].k = Latest PROVE FALSE
        BY <1>3, <3>2, <4>1 DEF ReleaseRun, Is, Finishing
      <4> QED
        BY <1>3, <2>1, <3>2, <4>1, RunSteps
    <3> QED
      BY <3>1, <3>2
  <2>5. SomethingFinishesIt'
    BY <1>0, <2>1, <2>3, <2>4 DEF SomethingFinishesIt, Latest, Unfinished
  <2>6. ASSUME NEW r \in Runner, runner'[r].phase \in {"clean", "release"}, runner'[r].k = Len(run')
        PROVE  session'.status \notin TurnOver
    <3>1. CASE Rewrite(r)
      BY <3>1 DEF Rewrite, TurnOver
    <3>2. CASE ~Rewrite(r)
      <4>1. runner[r].phase \in {"clean", "release"} /\ runner[r].k = Latest
        BY <2>3, <2>6, <3>2, RunnerSteps DEF Latest
      <4> QED
        BY <1>3, <2>2, <4>1 DEF Finishing
    <3> QED
      BY <3>1, <3>2
  <2> QED
    BY <2>5, <2>6 DEF Finishing, Latest
<1> QED
  BY <1>1, <1>2, <1>3

LEMMA FinishingStutters == ASSUME Finishing, UNCHANGED vars PROVE Finishing'
  BY DEF Finishing, SomethingFinishesIt, Latest, vars, record, procs

\* A report in REPRODUCING always has something left that could finish it: a run queued,
\* claimed or failed, or a turn a poller follows (abandonVerdictConflict).
THEOREM NothingIsLeftHanging == Spec => []SomethingFinishesIt
<1>1. Init => Typed /\ Finishing
  BY TypeInit, FinishingInit
<1>2. Typed /\ Finishing /\ [Next]_vars => (Typed /\ Finishing)'
  BY TypeNext, FinishingNext, TypeStutters, FinishingStutters
<1>3. Typed /\ Finishing => SomethingFinishesIt
  BY DEF Finishing
<1> QED
  BY <1>1, <1>2, <1>3, PTL DEF Spec
=============================================================================
