---------------------------- MODULE ReviewerChat ----------------------------
(***************************************************************************)
(* The reviewer's chat: src/lib/reviewer-chat/queue.ts (the thread queue)  *)
(* and src/lib/reviewer-chat/worker.ts (one claim runs one agent turn).    *)
(*                                                                         *)
(* A question joins the report's active thread, or opens one bound to the  *)
(* verdict of the moment.  A worker leases a thread, asks the harness the  *)
(* thread's oldest open question and stores the answer under its lease.    *)
(* A worker's call may throw, hang past its lease or die with the process; *)
(* a lease is told apart by its fence alone, since a claim the daemon gave *)
(* up waiting for goes on under the same owner.                            *)
(*                                                                         *)
(* Abstractions.  One report.  An input the harness is given is the        *)
(* question and what had been said when it was built; the texts, their     *)
(* redaction and the session's manifest are left out.  A claim takes the   *)
(* first claimable thread: the lock it skips is held for one statement.    *)
(***************************************************************************)
EXTENDS Naturals, Sequences

CONSTANTS
    Workers,
    MaxThreads,     \* bound: threads of the report
    MaxSessions,    \* bound: harness sessions in use
    MaxTurns,       \* bound: harness turns
    Budgets,        \* bound: how often the reviewers and the operators act
    MAX_ATTEMPTS

\* Questions, resubmissions, shutdowns before work, verdicts and supersessions.
Budget == [asks : Nat, resubmits : Nat, stops : Nat, verdicts : Nat, supersedes : Nat]

ASSUME ChatAssumption ==
    /\ {MaxThreads, MaxSessions, MaxTurns} \subseteq Nat
    /\ MAX_ATTEMPTS \in Nat \ {0}
    /\ Budgets \subseteq Budget

VARIABLES
    threads,    \* reviewer_chat_thread, by age
    line,       \* its rows by updated_at
    asked,      \* the questions in their order: the thread each was put to
    answers,    \* the agent messages: which turn answered the question
    verdict,    \* the latest revision and those superseded
    turns,      \* the harness: its turns, in the order it started them
    work,       \* what each worker holds
    budget      \* what is left of it

vars == <<threads, line, asked, answers, verdict, turns, work, budget>>

Tid == 1 .. MaxThreads
None == 0
Active == {"OPEN", "RUNNING"}
Statuses == Active \union {"DONE", "ERROR", "CANCELLED"}

Thread == [status : Statuses, verdict : Nat, live : BOOLEAN,
           fence : Nat, attempts : 0 .. MAX_ATTEMPTS, session : 0 .. MaxSessions]
Input == [q : Nat, others : SUBSET Nat, told : SUBSET Nat]
Turn == [session : 1 .. MaxSessions, input : Input,
         status : {"running", "done", "error"}]

Unread == [q |-> None, others |-> {}, told |-> {}]
Idle == [at |-> "idle"]
Busy == [at : {"load", "session", "attach", "turn", "poll", "answer"},
         t : Tid, q : Nat, fence : Nat, session : 0 .. MaxSessions,
         input : Input \union {Unread}, turn : 0 .. MaxTurns]

Init == /\ threads = <<>>
        /\ line = <<>>
        /\ asked = <<>>
        /\ answers = <<>>
        /\ verdict = [latest |-> 0, superseded |-> {}]
        /\ turns = <<>>
        /\ work = [w \in Workers |-> Idle]
        /\ budget \in Budgets

-----------------------------------------------------------------------------
(* The queue.                                                              *)

Known == DOMAIN threads
On(t) == {r \in DOMAIN asked : asked[r] = t}
Open(t) == {r \in On(t) : answers[r] = None}

\* The unique indexes: one active thread per verdict, or per report without one.
Clash(t) == \E u \in Known \ {t} : /\ threads[u].status \in Active
                                   /\ threads[u].verdict = threads[t].verdict

Spend(field) == budget[field] > 0 /\ budget' = [budget EXCEPT ![field] = @ - 1]

\* updated_at moves to now.
Place(t) == CHOOSE i \in DOMAIN line : line[i] = t
Touch(t) == line' = [i \in DOMAIN line |-> IF i < Place(t) THEN line[i]
                                           ELSE IF i = Len(line) THEN t ELSE line[i + 1]]
Write(t, row) == threads' = [threads EXCEPT ![t] = row] /\ Touch(t)

Fresh(v) == [status |-> "OPEN", verdict |-> v, live |-> FALSE,
             fence |-> 0, attempts |-> 0, session |-> None]

Oldest(ts) == CHOOSE t \in ts : \A u \in ts : t <= u

\* enqueueMessage(): the oldest active thread, else a new one.
Ask ==
    /\ Spend("asks")
    /\ answers' = Append(answers, None)
    /\ LET active == {t \in Known : threads[t].status \in Active}
       IN  IF active # {}
           THEN asked' = Append(asked, Oldest(active)) /\ UNCHANGED <<threads, line>>
           ELSE /\ Len(threads) < MaxThreads
                /\ threads' = Append(threads, Fresh(verdict.latest))
                /\ line' = Append(line, Len(threads) + 1)
                /\ asked' = Append(asked, Len(threads) + 1)
    /\ UNCHANGED <<verdict, turns, work>>

\* The same request id again: only a thread in ERROR is reset, and the reset
\* is refused by the unique index when another thread is active.
Resubmit(r) ==
    /\ r \in DOMAIN asked
    /\ threads[asked[r]].status = "ERROR"
    /\ ~Clash(asked[r])
    /\ Spend("resubmits")
    /\ Write(asked[r], [threads[asked[r]] EXCEPT !.status = "OPEN", !.attempts = 0])
    /\ UNCHANGED <<asked, answers, verdict, turns, work>>

\* Mutant: a thread in ERROR waits for a resubmission.
Claimable_NoRetry(t) == /\ threads[t].status \in Active
                        /\ threads[t].attempts < MAX_ATTEMPTS
                        /\ ~threads[t].live
                        /\ Open(t) # {}

\* The where clause of claim().
Claimable(t) == /\ threads[t].status \in {"OPEN", "RUNNING", "ERROR"}
                /\ threads[t].attempts < MAX_ATTEMPTS
                /\ ~threads[t].live
                /\ Open(t) # {}

\* The first claimable row; the index may refuse it, and then nothing is claimed.
Head_ == LET ready == {i \in DOMAIN line : Claimable(line[i])}
         IN  IF ready = {} THEN None ELSE line[Oldest(ready)]

Claim(w) ==
    /\ work[w] = Idle
    /\ Head_ # None
    /\ ~Clash(Head_)
    /\ LET t == Head_ IN
       /\ Write(t, [threads[t] EXCEPT !.status = "RUNNING", !.live = TRUE,
                                      !.attempts = @ + 1, !.fence = @ + 1])
       /\ work' = [work EXCEPT ![w] =
              [at |-> "load", t |-> t, q |-> Oldest(Open(t)), fence |-> threads[t].fence + 1,
               session |-> threads[t].session, input |-> Unread, turn |-> None]]
    /\ UNCHANGED <<asked, answers, verdict, turns, budget>>

\* Mutant: a lease is not told apart from the one that replaced it.
Held_NoFence(w) == LET r == threads[work[w].t] IN r.status = "RUNNING" /\ r.live

\* heldBy() and updateHeld()
Held(w) == LET r == threads[work[w].t]
           IN  r.fence = work[w].fence /\ r.status = "RUNNING" /\ r.live

\* fail() and cancel(): under the lease, or LeaseLostError; either ends the run.
Leave(w) == work' = [work EXCEPT ![w] = Idle]
End(w, status) ==
    /\ Leave(w)
    /\ IF Held(w)
       THEN Write(work[w].t, [threads[work[w].t] EXCEPT !.status = status, !.live = FALSE])
       ELSE UNCHANGED <<threads, line>>

\* releaseUnstarted(): the daemon is stopping.
ReleaseUnstarted(w) ==
    /\ work[w] # Idle /\ work[w].at = "load"
    /\ Spend("stops")
    /\ IF Held(w)
       THEN Write(work[w].t, [threads[work[w].t] EXCEPT !.status = "OPEN", !.live = FALSE,
                                                        !.attempts = @ - 1])
       ELSE UNCHANGED <<threads, line>>
    /\ Leave(w)
    /\ UNCHANGED <<asked, answers, verdict, turns>>

Expire(t) ==
    /\ threads[t].live
    /\ threads' = [threads EXCEPT ![t].live = FALSE]
    /\ UNCHANGED <<line, asked, answers, verdict, turns, work, budget>>

\* A lease that died on the last attempt is an error, any other is handed back.
Swept(t) == IF threads[t].attempts >= MAX_ATTEMPTS THEN "ERROR" ELSE "OPEN"

\* sweepExpiredLeases()
Sweep(t) ==
    /\ threads[t].status = "RUNNING" /\ ~threads[t].live
    /\ Write(t, [threads[t] EXCEPT !.status = Swept(t)])
    /\ UNCHANGED <<asked, answers, verdict, turns, work, budget>>

-----------------------------------------------------------------------------
(* The worker.                                                             *)

At(w, s) == work[w] # Idle /\ work[w].at = s
Go(w, record) == work' = [work EXCEPT ![w] = record]

\* loadWork(): the verdict must still be the thread's, and standing.
Load(w) ==
    /\ At(w, "load")
    /\ LET t == work[w].t
           now == [q |-> work[w].q,
                   others |-> On(t) \ {work[w].q},
                   told |-> On(t) \ Open(t)]
       IN  IF threads[t].verdict \in verdict.superseded
           THEN End(w, "CANCELLED")
           ELSE /\ Go(w, [work[w] EXCEPT !.input = now,
                            !.at = IF work[w].session = None THEN "session" ELSE "turn"])
                /\ UNCHANGED <<threads, line>>
    /\ UNCHANGED <<asked, answers, verdict, turns, budget>>

\* Session ids that nothing refers to any more are used again.
Unused == (1 .. MaxSessions) \ ({threads[t].session : t \in Known}
                                 \union {turns[n].session : n \in DOMAIN turns}
                                 \union {work[w].session : w \in {v \in Workers : work[v] # Idle}})

CreateSession(w) ==
    /\ At(w, "session")
    /\ Unused # {}
    /\ Go(w, [work[w] EXCEPT !.at = "attach", !.session = Oldest(Unused)])
    /\ UNCHANGED <<threads, line, asked, answers, verdict, turns, budget>>

\* attachSession(): under the lease, or the session is deleted again.
Attach(w) ==
    /\ At(w, "attach")
    /\ IF Held(w)
       THEN /\ Write(work[w].t, [threads[work[w].t] EXCEPT !.session = work[w].session])
            /\ Go(w, [work[w] EXCEPT !.at = "turn"])
       ELSE Leave(w) /\ UNCHANGED <<threads, line>>
    /\ UNCHANGED <<asked, answers, verdict, turns, budget>>

\* Mutant: a turn of the session is taken for this question's.
Same_AnyTurn(w, n) == turns[n].session = work[w].session

\* findTurnByInput(): a turn of this session with this very input.
Same(w, n) == turns[n].session = work[w].session /\ turns[n].input = work[w].input

Polling(w, n) == [work[w] EXCEPT !.at = "poll", !.turn = n, !.session = None, !.input = Unread]

StartTurn(w) ==
    /\ At(w, "turn")
    /\ IF \E n \in DOMAIN turns : Same(w, n)
       THEN /\ \E n \in DOMAIN turns :
                 Same(w, n) /\ Go(w, Polling(w, n))
            /\ UNCHANGED turns
       ELSE /\ Len(turns) < MaxTurns
            /\ turns' = Append(turns, [session |-> work[w].session, input |-> work[w].input,
                                       status |-> "running"])
            /\ Go(w, Polling(w, Len(turns) + 1))
    /\ UNCHANGED <<threads, line, asked, answers, verdict, budget>>

\* The harness.
TurnEnds(n) ==
    /\ turns[n].status = "running"
    /\ \E s \in {"done", "error"} : turns' = [turns EXCEPT ![n].status = s]
    /\ UNCHANGED <<threads, line, asked, answers, verdict, work, budget>>

\* pollTurn()
Poll(w) ==
    /\ At(w, "poll")
    /\ turns[work[w].turn].status # "running"
    /\ IF turns[work[w].turn].status = "done"
       THEN Go(w, [work[w] EXCEPT !.at = "answer"]) /\ UNCHANGED <<threads, line>>
       ELSE End(w, "ERROR")
    /\ UNCHANGED <<asked, answers, verdict, turns, budget>>

\* complete(): the answer, once, and the release, in one transaction.
Complete(w) ==
    /\ At(w, "answer")
    /\ IF Held(w)
       THEN /\ answers' = [answers EXCEPT ![work[w].q] = IF @ = None THEN work[w].turn ELSE @]
            /\ Write(work[w].t, [threads[work[w].t] EXCEPT !.live = FALSE,
                 !.status = IF Open(work[w].t) \subseteq {work[w].q} THEN "DONE" ELSE "OPEN"])
       ELSE UNCHANGED <<threads, line, answers>>
    /\ Leave(w)
    /\ UNCHANGED <<asked, verdict, turns, budget>>

\* A provider call throws, or its deadline passes.
Throw(w) ==
    /\ work[w] # Idle /\ work[w].at # "attach"
    /\ End(w, "ERROR")
    /\ UNCHANGED <<asked, answers, verdict, turns, budget>>

\* A turn that asks for an action, or answers with nothing, breaks an invariant.
Unfit(w) ==
    /\ At(w, "answer")
    /\ End(w, "CANCELLED")
    /\ UNCHANGED <<asked, answers, verdict, turns, budget>>

\* The process dies, or a heartbeat finds the lease lost.
Die(w) ==
    /\ work[w] # Idle
    /\ Leave(w)
    /\ UNCHANGED <<threads, line, asked, answers, verdict, turns, budget>>

\* publish_verdict, and a re-check that supersedes the verdict.
Publish == /\ Spend("verdicts")
           /\ verdict' = [verdict EXCEPT !.latest = @ + 1]
           /\ UNCHANGED <<threads, line, asked, answers, turns, work>>

Supersede == /\ verdict.latest \notin verdict.superseded \union {0}
             /\ Spend("supersedes")
             /\ verdict' = [verdict EXCEPT !.superseded = @ \union {verdict.latest}]
             /\ UNCHANGED <<threads, line, asked, answers, turns, work>>

-----------------------------------------------------------------------------

Step(w) == \/ Load(w) \/ CreateSession(w) \/ Attach(w) \/ StartTurn(w) \/ Poll(w)
           \/ Complete(w)

Next == \/ Ask \/ \E r \in DOMAIN asked : Resubmit(r)
        \/ \E w \in Workers : \/ Claim(w) \/ ReleaseUnstarted(w) \/ Step(w)
                              \/ Throw(w) \/ Unfit(w) \/ Die(w)
        \/ \E t \in Known : Expire(t) \/ Sweep(t)
        \/ \E n \in DOMAIN turns : TurnEnds(n)
        \/ Publish \/ Supersede

Spec == Init /\ [][Next]_vars

\* A lease that nobody renews.
Abandoned(t) == ~\E w \in Workers : /\ work[w] # Idle
                                    /\ work[w].t = t /\ work[w].fence = threads[t].fence

-----------------------------------------------------------------------------

TypeOK == /\ threads \in Seq(Thread) /\ Len(threads) <= MaxThreads
          /\ line \in Seq(Known) /\ Len(line) = Len(threads)
          /\ \A t \in Known : \E i \in DOMAIN line : line[i] = t
          /\ asked \in Seq(Tid)
          /\ answers \in Seq(0 .. MaxTurns) /\ Len(answers) = Len(asked)
          /\ verdict \in [latest : Nat, superseded : SUBSET Nat]
          /\ turns \in Seq(Turn) /\ Len(turns) <= MaxTurns
          /\ work \in [Workers -> {Idle} \union Busy]
          /\ budget \in Budget

\* An answer is the end of a turn that was asked this question, on this
\* thread's session: no retry, late worker or found turn mixes two up.
AnswerIsItsOwn ==
    \A r \in DOMAIN asked : answers[r] # None =>
        LET turn == turns[answers[r]]
        IN  /\ turn.input.q = r /\ turn.status = "done"
            /\ turn.session = threads[asked[r]].session

\* Only the lease of the moment ends or answers a thread's run: the fence keeps
\* out a worker whose lease was taken over, whoever's name both go by.
OnlyHolderWrites ==
    \A w \in Workers :
         (work[w] # Idle /\ work'[w] = Idle /\ threads' # threads)
             => threads[work[w].t].fence = work[w].fence

\* No question gets another one's answer and no worker but the holder gives
\* one: the two together, of every step.
AnswersAreSound == [][(TypeOK /\ AnswerIsItsOwn)' /\ OnlyHolderWrites]_vars

Settled(r) == \/ answers[r] # None
              \/ threads[asked[r]].status = "CANCELLED"
              \/ threads[asked[r]].status = "ERROR" /\ threads[asked[r]].attempts = MAX_ATTEMPTS

\* Two ways a question waits for ever: the queue's head is refused by the index,
\* or the thread's attempts were spent on the questions before it.
Wedged == Head_ # None /\ Clash(Head_)
Spent(t) == threads[t].status = "OPEN" /\ threads[t].attempts = MAX_ATTEMPTS

\* A question is answered, refused or reported as failed, whatever its provider
\* and its workers do, but for those two ways.
QuestionSettles ==
    \A r \in 1 .. MaxTurns :
        (r \in DOMAIN asked) ~> (r \in DOMAIN asked /\ (Settled(r) \/ Wedged \/ Spent(asked[r])))

=============================================================================
