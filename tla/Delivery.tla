------------------------------- MODULE Delivery -------------------------------
(***************************************************************************)
(* The outbox that carries an approved verdict to the reporter:            *)
(* src/lib/delivery (queue, worker, the three channel arms, retry), the    *)
(* provider's receipts (src/lib/email/receipts.ts) and the operator's      *)
(* retirement of a report (src/lib/reports/retire.ts).                     *)
(*                                                                         *)
(* An approved verdict becomes one outbox row.  A worker claims it under a *)
(* lease and a fence, re-checks everything the approval rested on, looks   *)
(* for its own earlier send, calls the provider and commits.               *)
(*                                                                         *)
(* Abstractions.  Leases, backoff and time as in JobQueue.  A verdict is   *)
(* its bytes, "approved" or "altered"; the hash, the decision, the marker  *)
(* and the frozen target are compared together.  A comment, an advisory    *)
(* edit and a mail are all a copy of the bytes that exists elsewhere.      *)
(***************************************************************************)
EXTENDS Naturals, FiniteSets

CONSTANTS
    Delivery,       \* approved verdicts, each with its report and outbox row
    Worker,         \* processes calling deliverOnce or deliverById
    OwnerOf,        \* the owner string each worker claims under
    NoOwner,        \* lease_owner IS NULL
    MaxAttempts,    \* outbound_delivery.max_attempts
    RetryBudget,    \* the attempts a reviewer's retry adds (8 in the code)
    Worlds          \* bound: the settings a run combines (see World)

Channels == {"github", "advisory", "email"}

\* Which workers run, which arms an approval may be routed to, how many times
\* a reviewer retries or a tick's deadline fires right after a claim, and
\* whether rows are corrupted, grants changed and reports retired meanwhile.
World == [workers : SUBSET Worker, routes : SUBSET Channels, faults : Nat, upsets : BOOLEAN]

ASSUME WorldAssumption == Worlds \subseteq World
ASSUME BudgetAssumption == /\ MaxAttempts \in Nat \ {0}
                           /\ RetryBudget \in Nat \ {0}
ASSUME OwnerAssumption == \A w \in Worker : OwnerOf[w] # NoOwner

VARIABLES
    row,        \* the outbound_delivery rows
    report,     \* each report's state, from the approval on
    stored,     \* what the verdict row holds
    grant,      \* the repository connection or the recipient's authorisation
    worker,     \* each worker's program counter and what it has read
    copies,     \* how many copies of which bytes exist at the destination
    late,       \* calls their caller gave up on that may still take effect
    overdue,    \* history: posts that took effect with their caller gone
    key,        \* the age of the provider's idempotency key
    fate,       \* what became of an accepted mail
    hooks,      \* receipts the provider may send, or send again
    applied,    \* history: receipts that found their row
    log,        \* the attempt numbers of the delivery_attempt rows
    records,    \* history: how many attempts were to be recorded
    world       \* the setting, with the faults still to happen

provider == <<late, overdue, key, fate, hooks, applied>>
journal == <<log, records>>
vars == <<row, report, stored, grant, worker, copies, provider,
          journal, world>>

Bytes == {"approved", "altered"}
Receipts == {"delivered", "bounced", "complained"}
Owners == {OwnerOf[w] : w \in Worker} \union {NoOwner}

Row == [state : {"ABSENT", "PENDING", "SENT", "FAILED"},
        channel : Channels \union {"none"}, attempts : Nat, max : Nat,
        fence : Nat, owner : Owners, lease : {"none", "live", "expired"},
        hold : BOOLEAN,        \* requires_human_review
        stamped : BOOLEAN,     \* provider_message_id is set
        confirmed : BOOLEAN,   \* delivered_at is set
        backoff : BOOLEAN]     \* next_attempt_at is still in the future

Absent == [state |-> "ABSENT", channel |-> "none", attempts |-> 0, max |-> MaxAttempts,
           fence |-> 0, owner |-> NoOwner, lease |-> "none", hold |-> FALSE,
           stamped |-> FALSE, confirmed |-> FALSE, backoff |-> FALSE]

(***************************************************************************)
(* A worker's phase names what it does next: claimed (the verdict and its  *)
(* approval), report, grant, look (for an earlier send), call, stamp,      *)
(* commit; refusing and failing are the two ways it gives up.              *)
(***************************************************************************)
Phases == {"claimed", "report", "grant", "look", "call", "stamp", "commit",
           "refusing", "failing"}
Idle == [phase |-> "idle"]
Busy == [phase : Phases, d : Delivery, fence : Nat, attempt : Nat, bytes : Bytes,
         why : {"ok", "evidence", "moved", "grant", "provider"}, hold : BOOLEAN]

\* Mutant: the owner string alone is taken as proof of ownership.
Held_NoFence(w) == /\ worker[w] # Idle
                   /\ row[worker[w].d].owner = OwnerOf[w]
                   /\ row[worker[w].d].lease = "live"

\* heldBy(lease)
Held(w) == /\ worker[w] # Idle
           /\ LET r == row[worker[w].d] IN
                /\ r.owner = OwnerOf[w]
                /\ r.fence = worker[w].fence
                /\ r.lease = "live"

Unleased(r) == [r EXCEPT !.owner = NoOwner, !.lease = "none"]
Write(d, r) == row' = [row EXCEPT ![d] = r]
Go(w, phase) == worker' = [worker EXCEPT ![w].phase = phase]
Refuses(w, why, hold) ==
    worker' = [worker EXCEPT ![w] = [@ EXCEPT !.phase = "refusing", !.why = why, !.hold = hold]]
Stop(w) == worker' = [worker EXCEPT ![w] = Idle]

\* A comment or an advisory edit is its own receipt; a mail is only accepted.
CompletesReport(d) == row[d].channel # "email"

-----------------------------------------------------------------------------

Init == /\ row = [d \in Delivery |-> Absent]
        /\ report = [d \in Delivery |-> "APPROVED"]
        /\ stored = [d \in Delivery |-> "approved"]
        /\ grant = [d \in Delivery |-> "granted"]
        /\ worker = [w \in Worker |-> Idle]
        /\ copies = [d \in Delivery |-> [b \in Bytes |-> 0]]
        /\ late = {}
        /\ overdue = [d \in Delivery |-> 0]
        /\ key = [d \in Delivery |-> "fresh"]
        /\ fate = [d \in Delivery |-> "none"]
        /\ hooks = [d \in Delivery |-> {}]
        /\ applied = [d \in Delivery |-> {}]
        /\ log = [d \in Delivery |-> {}]
        /\ records = [d \in Delivery |-> 0]
        /\ world \in Worlds

\* enqueueApprovedVerdictDelivery(): the row and DELIVERING in one transaction.
Enqueue(d, arm) ==
    /\ report[d] = "APPROVED"
    /\ arm = "email" => grant[d] = "granted"
    /\ Write(d, [Absent EXCEPT !.state = "PENDING", !.channel = arm])
    /\ report' = [report EXCEPT ![d] = "DELIVERING"]
    /\ UNCHANGED <<stored, grant, worker, copies, provider, journal, world>>

\* Mutant: the last attempt is never made.
Claimable_TooFew(d) == /\ row[d].state = "PENDING"
                       /\ ~row[d].hold
                       /\ row[d].attempts + 1 < row[d].max
                       /\ ~row[d].backoff
                       /\ row[d].lease # "live"

Claimable(d) == /\ row[d].state = "PENDING"
                /\ ~row[d].hold
                /\ row[d].attempts < row[d].max
                /\ ~row[d].backoff
                /\ row[d].lease # "live"

Claim(w, d) ==
    /\ w \in world.workers
    /\ worker[w] = Idle
    /\ Claimable(d)
    /\ Write(d, [row[d] EXCEPT !.owner = OwnerOf[w], !.lease = "live",
                               !.attempts = @ + 1, !.fence = @ + 1])
    /\ worker' = [worker EXCEPT ![w] =
                    [phase |-> "claimed", d |-> d, fence |-> row[d].fence + 1,
                     attempt |-> row[d].attempts + 1, bytes |-> "approved",
                     why |-> "ok", hold |-> FALSE]]
    /\ UNCHANGED <<report, stored, grant, copies, provider, journal, world>>

\* The tick's deadline fired while claim() ran: hand the attempt back.
ReleaseUnstarted(w) ==
    /\ worker[w].phase = "claimed"
    /\ world.faults > 0
    /\ LET d == worker[w].d IN
         Write(d, IF Held(w)
                  THEN [Unleased(row[d]) EXCEPT !.attempts = IF @ > 0 THEN @ - 1 ELSE 0]
                  ELSE row[d])
    /\ world' = [world EXCEPT !.faults = @ - 1]
    /\ Stop(w)
    /\ UNCHANGED <<report, stored, grant, copies, provider, journal>>

\* A read that moves the worker on and writes nothing.
Reading == UNCHANGED <<row, report, stored, grant, copies, provider, journal,
                       world>>

\* Mutant: the approval's hash is trusted to still match.
Gate_TrustsRow(w) ==
    LET d == worker[w].d IN
    /\ worker[w].phase = "claimed"
    /\ worker' = [worker EXCEPT ![w] = [@ EXCEPT !.phase = "report", !.bytes = stored[d]]]
    /\ Reading

\* The stored payload must still be the one that was approved.
Gate(w) ==
    LET d == worker[w].d IN
    /\ worker[w].phase = "claimed"
    /\ IF stored[d] = "approved"
       THEN worker' = [worker EXCEPT ![w] = [@ EXCEPT !.phase = "report", !.bytes = stored[d]]]
       ELSE Refuses(w, "evidence", FALSE)
    /\ Reading

\* A report that moved on must not receive a late send.
CheckReport(w) ==
    /\ worker[w].phase = "report"
    /\ IF report[worker[w].d] = "DELIVERING" THEN Go(w, "grant")
                                             ELSE Refuses(w, "moved", FALSE)
    /\ Reading

\* activeRepository() or isVerifiedEmailRecipient(), by what the database
\* knows; only the issue arm refuses without holding the row.
CheckGrant(w) ==
    /\ worker[w].phase = "grant"
    /\ IF grant[worker[w].d] # "revoked"
       THEN Go(w, "look")
       ELSE Refuses(w, "grant", row[worker[w].d].channel # "github")
    /\ Reading

\* Looking for an earlier send.  A mail leaves only its stamp, and beyond the
\* key's window no retry is safe.  A comment or advisory is read back under a
\* freshly minted token, which GitHub refuses once the App is gone.
Look(w) ==
    LET d == worker[w].d IN
    /\ worker[w].phase = "look"
    /\ IF row[d].channel = "email"
       THEN CASE row[d].stamped -> Go(w, "commit")
              [] ~row[d].stamped /\ key[d] = "fresh" -> Go(w, "call")
              [] ~row[d].stamped /\ key[d] # "fresh" -> Refuses(w, "provider", TRUE)
       ELSE CASE grant[d] # "granted" -> Refuses(w, "grant", TRUE)
              [] grant[d] = "granted" /\ copies[d][worker[w].bytes] > 0 -> Go(w, "commit")
              [] grant[d] = "granted" /\ copies[d][worker[w].bytes] = 0 -> Go(w, "call")
    /\ Reading

\* A request taking effect at the provider: one idempotency key, one mail.
TakesEffect(d, b) ==
    copies' = IF row[d].channel = "email" /\ copies[d][b] > 0 /\ key[d] # "gone"
              THEN copies
              ELSE [copies EXCEPT ![d][b] = @ + 1]

\* A post that takes effect when its caller gave up on it or lost its row:
\* the next attempt may have listed the comments by then.
Outlives(d) == overdue' = IF row[d].channel = "email" THEN overdue
                                                      ELSE [overdue EXCEPT ![d] = @ + 1]

\* The provider call.  It may take effect and its answer be lost; it may be
\* refused for good, and a refused mail may still have gone out.  A stalled
\* process may send it after its lease ran out.
Call(w, effect, answer) ==
    LET d == worker[w].d IN
    /\ worker[w].phase = "call"
    /\ answer = "ok" => effect
    /\ answer = "refused" => CASE row[d].channel = "github" -> FALSE
                               [] row[d].channel = "advisory" -> ~effect
                               [] row[d].channel = "email" -> TRUE
    /\ IF effect THEN TakesEffect(d, worker[w].bytes) ELSE UNCHANGED copies
    /\ IF effect /\ ~Held(w) THEN Outlives(d) ELSE UNCHANGED overdue
    /\ CASE answer = "ok" -> Go(w, IF row[d].channel = "email" THEN "stamp" ELSE "commit")
         [] answer = "error" -> Go(w, "failing")
         [] answer = "refused" -> Refuses(w, "provider", TRUE)
    /\ UNCHANGED <<row, report, stored, grant, late, key, fate, hooks, applied,
                   journal, world>>

\* The caller gives up (a timeout, an abort, a crash) on a request the
\* provider has not handled yet; at most one such request is in the air.
GiveUp(w) ==
    /\ worker[w].phase = "call"
    /\ late = {}
    /\ late' = {<<worker[w].d, worker[w].bytes>>}
    /\ Go(w, "failing")
    /\ UNCHANGED <<row, report, stored, grant, copies, overdue, key, fate, hooks, applied,
                   journal, world>>

LandLate(d, b) ==
    /\ <<d, b>> \in late
    /\ late' = late \ {<<d, b>>}
    /\ TakesEffect(d, b)
    /\ Outlives(d)
    /\ UNCHANGED <<row, report, stored, grant, worker, key, fate, hooks, applied,
                   journal, world>>

\* provider_message_id, written under the lease the moment the send returns.
\* When a write's answer is lost the row has changed but the worker throws.
Stamp(w, acked) ==
    /\ worker[w].phase = "stamp"
    /\ Held(w)
    /\ Write(worker[w].d, [row[worker[w].d] EXCEPT !.stamped = TRUE])
    /\ Go(w, IF acked THEN "commit" ELSE "failing")
    /\ UNCHANGED <<report, stored, grant, copies, provider, journal, world>>

\* recordAttempt(): insert, or nothing when (delivery, attempt) is there.
Record(w) ==
    /\ log' = [log EXCEPT ![worker[w].d] = @ \union {worker[w].attempt}]
    /\ records' = [records EXCEPT ![worker[w].d] = @ + 1]

\* Mutant: a provider's acceptance is taken for a receipt.
Commit_AcceptanceIsReceipt(w, acked) ==
    LET d == worker[w].d IN
    /\ worker[w].phase = "commit"
    /\ Held(w)
    /\ report[d] = "DELIVERING"
    /\ Write(d, [Unleased(row[d]) EXCEPT !.state = "SENT", !.confirmed = TRUE])
    /\ report' = [report EXCEPT ![d] = "DELIVERED"]
    /\ Record(w)
    /\ IF acked THEN Stop(w) ELSE Go(w, "failing")
    /\ UNCHANGED <<stored, grant, copies, provider, world>>

\* recordAttempt, markSent and, for a channel whose acceptance is the
\* receipt, DELIVERING to DELIVERED: one transaction.
Commit(w, acked) ==
    LET d == worker[w].d IN
    /\ worker[w].phase = "commit"
    /\ Held(w)
    /\ CompletesReport(d) => report[d] = "DELIVERING"
    /\ Write(d, [Unleased(row[d]) EXCEPT !.state = "SENT",
                                         !.confirmed = @ \/ CompletesReport(d)])
    /\ report' = IF CompletesReport(d) THEN [report EXCEPT ![d] = "DELIVERED"] ELSE report
    /\ Record(w)
    /\ IF acked THEN Stop(w) ELSE Go(w, "failing")
    /\ UNCHANGED <<stored, grant, copies, provider, world>>

\* The report moved on under the transaction, which rolls back and throws.
CommitConflict(w) ==
    /\ worker[w].phase = "commit"
    /\ Held(w)
    /\ CompletesReport(worker[w].d)
    /\ report[worker[w].d] # "DELIVERING"
    /\ Go(w, "failing")
    /\ Reading

\* refuseDelivery()
Refuse(w) ==
    LET d == worker[w].d IN
    /\ worker[w].phase = "refusing"
    /\ Held(w)
    /\ Write(d, [Unleased(row[d]) EXCEPT !.state = "FAILED", !.hold = @ \/ worker[w].hold])
    /\ Record(w)
    /\ Stop(w)
    /\ UNCHANGED <<report, stored, grant, copies, provider, world>>

\* Anything the worker does may throw before it takes effect.
Throws(w) ==
    /\ worker[w].phase \in Phases \ {"failing"}
    /\ Go(w, "failing")
    /\ Reading

\* fail(): back to the queue, or FAILED on the last attempt.
Fail(w) ==
    LET d == worker[w].d IN
    /\ worker[w].phase = "failing"
    /\ Held(w)
    /\ Write(d, [Unleased(row[d]) EXCEPT
                   !.state = IF row[d].attempts >= row[d].max THEN "FAILED" ELSE "PENDING",
                   !.backoff = TRUE])
    /\ Record(w)
    /\ Stop(w)
    /\ UNCHANGED <<report, stored, grant, copies, provider, world>>

\* A write or a heartbeat finds the lease gone: LeaseLostError, and nothing
\* is recorded.
LeaseLost(w) ==
    /\ worker[w].phase \in {"call", "stamp", "commit", "refusing", "failing"}
    /\ ~Held(w)
    /\ Stop(w)
    /\ Reading

Crash(w) ==
    /\ worker[w] # Idle
    /\ Stop(w)
    /\ Reading

Leasing == UNCHANGED <<report, stored, grant, worker, copies, provider, journal, world>>

Expire(d) ==
    /\ row[d].lease = "live"
    /\ Write(d, [row[d] EXCEPT !.lease = "expired"])
    /\ Leasing

Elapse(d) ==
    /\ row[d].backoff
    /\ Write(d, [row[d] EXCEPT !.backoff = FALSE])
    /\ Leasing

Dead(d) == row[d].state = "PENDING" /\ row[d].lease = "expired"

\* sweepExpiredLeases(): two statements by one clock and about different
\* rows, so that it makes no difference which of them comes first.
SweepBury ==
    /\ row' = [d \in Delivery |-> IF Dead(d) /\ row[d].attempts >= row[d].max
                                  THEN [Unleased(row[d]) EXCEPT !.state = "FAILED"]
                                  ELSE row[d]]
    /\ Leasing

SweepRelease ==
    /\ row' = [d \in Delivery |-> IF Dead(d) /\ row[d].attempts < row[d].max
                                  THEN Unleased(row[d])
                                  ELSE row[d]]
    /\ Leasing

-----------------------------------------------------------------------------
(***************************************************************************)
(* The provider and its receipts.  A webhook that found its row may come   *)
(* again; one that did not is answered 202 and never does.                 *)
(***************************************************************************)
MailSettles(d, outcome) ==
    /\ row[d].channel = "email"
    /\ fate[d] = "none"
    /\ copies[d] # [b \in Bytes |-> 0]
    /\ fate' = [fate EXCEPT ![d] = outcome]
    /\ hooks' = [hooks EXCEPT ![d] = @ \union {outcome}]
    /\ UNCHANGED <<row, report, stored, grant, worker, copies, late, overdue, key, applied,
                   journal, world>>

\* The reader marks the mail as spam, after it was delivered.
Complain(d) ==
    /\ fate[d] = "delivered"
    /\ hooks' = [hooks EXCEPT ![d] = @ \union {"complained"}]
    /\ UNCHANGED <<row, report, stored, grant, worker, copies, late, overdue, key, fate, applied,
                   journal, world>>

Applies(d, e) ==
    /\ e \in hooks[d]
    /\ row[d].stamped
    /\ applied' = [applied EXCEPT ![d] = @ \union {e}]
    /\ UNCHANGED <<stored, grant, worker, copies, late, overdue, key, fate, hooks,
                   journal, world>>

\* A bounce takes SENT back; a complaint only flags.  No lease is asked for.
HoldingReceipt(d, e) ==
    /\ e \in {"bounced", "complained"}
    /\ Applies(d, e)
    /\ Write(d, [row[d] EXCEPT !.state = IF e = "bounced" THEN "FAILED" ELSE @, !.hold = TRUE])
    /\ UNCHANGED report

\* The one event that completes a mailed report, if it still waits for it.
DeliveredReceipt(d) ==
    /\ Applies(d, "delivered")
    /\ IF report[d] = "DELIVERING"
       THEN /\ Write(d, [row[d] EXCEPT !.confirmed = TRUE])
            /\ report' = [report EXCEPT ![d] = "DELIVERED"]
       ELSE UNCHANGED <<row, report>>

\* The event overtook the write of provider_message_id.
UnmatchedReceipt(d, e) ==
    /\ e \in hooks[d]
    /\ ~row[d].stamped
    /\ hooks' = [hooks EXCEPT ![d] = @ \ {e}]
    /\ UNCHANGED <<row, report, stored, grant, worker, copies, late, overdue, key, fate, applied,
                   journal, world>>

\* The 23 hours after which no retry is sent, and the hour after which the
\* provider forgets the key: a call begun in the window ends within the hour.
Age(d) ==
    /\ row[d].channel = "email"
    /\ row[d].state # "ABSENT"
    /\ \/ key[d] = "fresh" /\ key' = [key EXCEPT ![d] = "stale"]
       \/ /\ key[d] = "stale"
          /\ ~\E w \in Worker : worker[w].phase = "call" /\ worker[w].d = d
          /\ \A b \in Bytes : <<d, b>> \notin late
          /\ key' = [key EXCEPT ![d] = "gone"]
    /\ UNCHANGED <<row, report, stored, grant, worker, copies, late, overdue, fate, hooks, applied,
                   journal, world>>

-----------------------------------------------------------------------------
(* The reviewer, the operator and the world. *)

\* retryHeldDelivery(): attempts go on counting, the ceiling moves.
Retry(d) ==
    /\ world.faults > 0
    /\ report[d] = "DELIVERING"
    /\ row[d].state = "FAILED"
    /\ row[d].hold
    /\ ~row[d].stamped
    /\ Write(d, [Unleased(row[d]) EXCEPT !.state = "PENDING", !.hold = FALSE, !.backoff = FALSE,
                                         !.max = row[d].attempts + RetryBudget])
    /\ world' = [world EXCEPT !.faults = @ - 1]
    /\ UNCHANGED <<report, stored, grant, worker, copies, provider, journal>>

\* cancelHeldReport()
CancelHeld(d) ==
    /\ report[d] = "DELIVERING"
    /\ row[d].state = "FAILED"
    /\ row[d].hold
    /\ report' = [report EXCEPT ![d] = "CANCELLED"]
    /\ UNCHANGED <<row, stored, grant, worker, copies, provider, journal, world>>

\* retireReports(), by hand: any report that is not terminal.
Retire(d) ==
    /\ world.upsets
    /\ report[d] \notin {"DELIVERED", "CANCELLED"}
    /\ report' = [report EXCEPT ![d] = "CANCELLED"]
    /\ UNCHANGED <<row, stored, grant, worker, copies, provider, journal, world>>

\* An uninstalled App may be unseen for a while: its webhook was dropped.
Regrant(d, to) ==
    /\ world.upsets
    /\ to = "unseen" => row[d].channel \in {"github", "advisory"} /\ grant[d] = "granted"
    /\ grant' = [grant EXCEPT ![d] = to]
    /\ UNCHANGED <<row, report, stored, worker, copies, provider, journal, world>>

\* Stored corruption, which the hash is there to notice.
Alter(d) ==
    /\ world.upsets
    /\ stored' = [stored EXCEPT ![d] = "altered"]
    /\ UNCHANGED <<row, report, grant, worker, copies, provider, journal, world>>

-----------------------------------------------------------------------------

Step(w) == \/ ReleaseUnstarted(w)
           \/ Gate(w)
           \/ CheckReport(w)
           \/ CheckGrant(w)
           \/ Look(w)
           \/ \E effect \in BOOLEAN, answer \in {"ok", "error", "refused"} : Call(w, effect, answer)
           \/ GiveUp(w)
           \/ \E acked \in BOOLEAN : Stamp(w, acked) \/ Commit(w, acked)
           \/ CommitConflict(w)
           \/ Refuse(w)
           \/ Throws(w)
           \/ Fail(w)
           \/ LeaseLost(w)

Sweep == SweepBury \/ SweepRelease

Outside(d) == \/ \E b \in Bytes : LandLate(d, b)
              \/ \E outcome \in {"delivered", "bounced"} : MailSettles(d, outcome)
              \/ Complain(d)
              \/ \E e \in Receipts : HoldingReceipt(d, e) \/ UnmatchedReceipt(d, e)
              \/ DeliveredReceipt(d)
              \/ Age(d)
              \/ Retry(d)
              \/ CancelHeld(d)
              \/ Retire(d)
              \/ \E to \in {"granted", "unseen", "revoked"} : Regrant(d, to)
              \/ Alter(d)

Next == \/ \E d \in Delivery, arm \in world.routes : Enqueue(d, arm)
        \/ \E d \in Delivery : Expire(d) \/ Elapse(d) \/ Outside(d)
        \/ \E w \in Worker, d \in Delivery : Claim(w, d)
        \/ \E w \in Worker : Step(w) \/ Crash(w)
        \/ Sweep

Spec == Init /\ [][Next]_vars

(***************************************************************************)
(* Fairness: the delivery loop and its sweeper run for ever (runLoop,      *)
(* runSweeper), time passes, and a worker's operation returns or throws.   *)
(* A claimable row is claimed in the end, because claim() takes the oldest *)
(* next_attempt_at first.  Nothing is assumed of reviewers or webhooks.    *)
(***************************************************************************)
Fairness == /\ \A w \in Worker : WF_vars(Step(w))
            /\ \A d \in Delivery : /\ SF_vars(\E w \in Worker : Claim(w, d))
                                   /\ WF_vars(Expire(d))
                                   /\ WF_vars(Elapse(d))
            /\ WF_vars(SweepBury) /\ WF_vars(SweepRelease)

FairSpec == Spec /\ Fairness

-----------------------------------------------------------------------------

TypeOK == /\ row \in [Delivery -> Row]
          /\ \A d \in Delivery : row[d].attempts <= row[d].max
          /\ report \in [Delivery -> {"APPROVED", "DELIVERING", "DELIVERED", "CANCELLED"}]
          /\ stored \in [Delivery -> Bytes]
          /\ grant \in [Delivery -> {"granted", "unseen", "revoked"}]
          /\ worker \in [Worker -> {Idle} \union Busy]
          /\ copies \in [Delivery -> [Bytes -> Nat]]
          /\ late \subseteq Delivery \X Bytes
          /\ overdue \in [Delivery -> Nat]
          /\ key \in [Delivery -> {"fresh", "stale", "gone"}]
          /\ fate \in [Delivery -> {"none", "delivered", "bounced"}]
          /\ hooks \in [Delivery -> SUBSET Receipts]
          /\ applied \in [Delivery -> SUBSET Receipts]
          /\ log \in [Delivery -> SUBSET Nat]
          /\ records \in [Delivery -> Nat]
          /\ world \in World

(***************************************************************************)
(* Nothing but the bytes a human approved ever leaves, however the stored  *)
(* verdict is corrupted between the approval and the send.                 *)
(***************************************************************************)
OnlyApprovedBytes == \A d \in Delivery : copies[d]["altered"] = 0

(***************************************************************************)
(* Crashes, lost answers, takeovers and retries never send a verdict       *)
(* twice, "a crashed attempt cannot post twice" (worker.ts:120), but for   *)
(* one further comment or advisory edit per post that outlived its caller; *)
(* a mail is protected by its key, and is never sent beyond its window.    *)
(***************************************************************************)
AtMostOneCopy == \A d \in Delivery : copies[d]["approved"] <= 1 + overdue[d]

\* The copy is where it belongs: posted, or accepted by the reader's server.
Arrived(d) == /\ copies[d]["approved"] > 0
              /\ row[d].channel = "email" => fate[d] = "delivered"

(***************************************************************************)
(* A report closed as DELIVERED was: its comment exists, or its mail was   *)
(* accepted by the reader's server and not merely by our provider.         *)
(***************************************************************************)
DeliveredIsReal == \A d \in Delivery : report[d] = "DELIVERED" => Arrived(d)

(***************************************************************************)
(* Every attempt that ended leaves its own delivery_attempt row: no two    *)
(* share a number, so the append-only insert never silently drops one      *)
(* (retry.ts:82-83), through hand-backs and reviewer retries.              *)
(***************************************************************************)
NoRecordDropped == \A d \in Delivery : Cardinality(log[d]) = records[d]

(***************************************************************************)
(* A bounce that reached its row stays before a human: no retry, sweep or  *)
(* worker that was still busy with the row clears the hold it set.         *)
(***************************************************************************)
BounceStaysHeld == \A d \in Delivery : "bounced" \in applied[d] => row[d].hold

(***************************************************************************)
(* The outbox keeps its promise (DeliveryPromise).                         *)
(***************************************************************************)
Promise == INSTANCE DeliveryPromise WITH
             outbox <- [d \in Delivery |-> row[d].state],
             copies <- [d \in Delivery |-> copies[d]["approved"]],
             arrived <- {d \in Delivery : Arrived(d)}

KeepsPromise == Promise!Spec

(***************************************************************************)
(* Every row that can be worked on is settled in the end, unless a         *)
(* webhook holds it for a human first.                                     *)
(***************************************************************************)
EventuallySettled ==
    \A d \in Delivery : row[d].state = "PENDING"
                          ~> (row[d].state \in {"SENT", "FAILED"} \/ row[d].hold)

=============================================================================
