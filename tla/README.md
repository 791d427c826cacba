# BountyDesk in TLA+

BountyDesk takes vulnerability reports (GitHub issues, security advisories,
mail, uploads), has an agent reproduce each one in a sandbox, puts the
agent's verdict before a human reviewer, and sends the approved verdict back
on the channel the report came in by.  The program is one Next.js
application and a worker daemon around one Postgres database.  Every
long-running step is a row in a table that works as a queue: a process leases
the row, works, and commits under a fence.  These modules model those queues,
the approval they serve, the gates and sandboxes around them and the screens
a reviewer decides on; TLC checks them on small instances, and TLAPS proves
the properties that matter most for every value of the constants.

## 1. Inventory

Paths are below `src/`.  "Hard" names what makes a part difficult to test.

| Component | State it keeps | Operations | Hard | What makes it correct |
|---|---|---|---|---|
| Inbound jobs, `lib/jobs` | `inbound_job`: state, attempts, fence, lease, backoff | enqueue, claim, renew, releaseUnstarted, releaseAfterDeadline, advance, complete, fail, abandon, sweep; `runOnce` | takeover by a worker with the same owner string, crash between work and its record, deadlines that cost no attempt, a sweep in two statements | one holder; the recorded state never ahead of the work; a bounded number of starts; no job lost |
| Delivery outbox, `lib/delivery`, `lib/email/receipts.ts` | `outbound_delivery`, `delivery_attempt` | enqueue on approval, claim, gates, provider call, stamp, commit, refuse, fail, sweep, retry, cancel, receipts; retirement | a send that is not transactional with its record; lost answers; webhooks against a worker's lease | only approved bytes, at most one copy, DELIVERED only of what arrived |
| Review decision, `lib/review/decide.ts`; approval submission, `lib/approval-submission`; publication, `lib/mcp/publish-verdict.ts`, `lib/verdicts` | `decision`, `approval_submission`, `verdict`, supersession, the pending tuple | decide, submit the decision to the agent harness, draft, revise, synthesise, publish | two reviewers; a verdict superseded while it is read; the harness calls back before the submission commits | nothing is delivered without an approval of exactly that verdict, and it is answered once |
| Agent sessions, `lib/agent-sessions`; runs and re-checks, `lib/investigation-runs` | `agent_session`, `investigation_run` | poll, release, end without verdict, abandon on conflict; request, retry and cancel a re-check | network calls between claim and commit; re-check against decision | a turn's outcome is recorded once; a verdict under re-check can not be approved; something is left to finish the report |
| Build onboarding, `lib/build-onboarding` | onboarding queue with a human gate, target profile | enqueue (upsert), plan, build, propose, approve, configure, rotate, sweep snapshots | upsert resets a row that is leased; the profile write is not fenced | nothing is configured unapproved, and it is what was approved |
| Image builds, same directory | job row, tags, snapshots, build sandbox | plan and validate a compose file, build, register, pull, reclaim, sweep images | a build that lost its claim runs on under fixed names | what is configured boots what was planned |
| GitHub App, `lib/github` | installations, grants, bindings | webhooks, reconciliation, binding | events dropped, late and out of order | a removed repository receives nothing, and nothing re-opens it |
| Scope guard, `lib/scope-guard` | profile, grants, audit log | allow, ban, check, probe, grant, append | a copy written back late, names resolved twice, concurrent appends | no request leaves the scope; one approval, one write |
| Intake, `lib/email/outside-intake.ts`, `lib/upload` | queued items, daily counts, limits | screen, count, queue, drop, edit limits | counts read before the lock | no cap is passed |
| Triage gate, uploads, contact codes, `lib/triage`, `lib/upload` | held report, upload build, codes | hold, release, deny, duplicate, expire; build, bind; send and prove a code | two answers at the gate; a build that outlives its lease | no report falls through; held reports start no analysis |
| Retests, `lib/retests` | child reports | check, create, release, read the result | two transactions per retest, grants that move | a refusal is a repeat, a child has its own course |
| Appeals and members | codes, appeals, allowlist | request a code, file, resolve; invite, verify, change a role | the same code twice, guesses | one code files one appeal; guesses are counted |
| Analysis driver, `lib/analysis`, `lib/sandbox` | session row, sandboxes | claim, provision single or mesh, start a turn, tear down | a turn accepted whose commit fails; a snapshot parked between read and create | every sandbox is in a row or known lost |
| Reproduction and probes | oracle run, sandboxes, listener | authorise, provision, fire, judge, tear down; four agent tools | one canary for all legs; a grant revoked under a probe | REPRODUCED only by the exploit; no probe past a revocation |
| Owner advisories, `lib/delivery/advisory.ts` | advisory row | request, find or create, update, settle | a lost answer after the create | one draft with the verdict the row names |
| Code review | review runs, tool tokens | claim, turn, tool call, close, sweep | three writers end one row | one review at a time; an ended one takes no call |
| Reviewer chat, `lib/reviewer-chat` | threads with leases | post, put again, claim, reply, fail, sweep | one active turn per thread; claims given up that go on | every answer is its own question's |
| Harness settings, `lib/trueforge` | manifests and providers the harness holds | bootstrap, scripts, settings form | concurrent creates and updates | what was reported applied is held |
| Worker daemon, `lib/worker-daemon`; tick routes | heartbeat | one loop and one sweeper per queue; stop, restart | a claim that timed out and still runs | a healthy answer means the loops turn |
| Case page, approval dialog, phone, boards | what a screen holds | poll, decide, sign, list | a screen one poll behind the rows | the screen offers what the server accepts, the phone signs what it showed |
| Clients, auth, push, scans, registry, schema | none, or opaque | HTTP, formatting, queries | | |

Components talk through the database alone: an inbound job creates a report
and an agent session; the poller moves the report to AWAITING_APPROVAL and
leaves a pending tuple (verdict, hash, thread, tool call) on the session; the
decision reads the tuple and either publishes (a synthesised verdict) or
leaves a submission row; the harness, told of the approval, calls back
`publish_verdict`, which puts the report at DELIVERING together with its
outbox row; delivery closes the report.

## 2. Modules and plan

| Module | Subject | Run | Proofs |
|---|---|---|---|
| `JobLifecycle`, `JobQueue` | what the inbound queue promises; the queue, its worker and sweeper | `jobs` | `JobQueueProofs` |
| `DeliveryPromise`, `Delivery` | what the outbox promises; outbox, arms, receipts, retirement | `delivery` | `DeliveryProofs` |
| `ApprovalPromise`, `ApprovalState`, `AgentPoller`, `Review`, `Approval` | what the approval path promises; its rows; poller and harness turns; decision and submission; re-checks and the composition | `approval`, `approval_live` | `ApprovalProofs` |
| `TargetProposal`, `Onboarding` | what a proposal's gate promises; the onboarding queue | `onboarding` | `OnboardingProofs` |
| `GitHubGrants`, `ScopeGuard` | installations and hooks against reconciliation; the guard, its grants and its log | `permissions` | `GatesAndScreensProofs` |
| `ReviewerChat`, `WorkerDaemon` | the chat queue; the daemon's loops and health | `chat` | `AgentsProofs` |
| `UploadBuild`, `Retests` | the gate, the codes and the upload build; retests | `uploads`, `material_already_retested` | `UploadProofs` |
| `AnalysisTurn` | the analysis driver and its sandboxes | `analysis` | `AgentsProofs` |
| `ImageBuild` | plans and image builds | `sandboxes` | `PartsProofs` |
| `Reproduction`, `OwnerAdvisory`, `HarnessSettings`, `Intake`, `Appeals`, `CodeReview` | oracle and probes; the owner's advisory; the harness's settings; the two doors; appeals and members; code reviews | `sandboxes` | `PartsProofs` |
| `CaseFile`, `ReviewDesk`, `CaseControls`, `Boards` | the rows a view reads; dialog and phone; the page's controls; the lists | `desk` | `GatesAndScreensProofs` |

`MC<Name>` instantiates a module, or composes several that share a run, for
TLC; `AnalysisTurn` has its instance in `MCReviewerChat`.  `MCParts` holds the
parts of `sandboxes` side by side: they share nothing, so each behaviour picks
one and leaves the others alone, which checks them without multiplying their
states.

The parts meet at rows.  `JobQueue` ends a job where the agent session
starts, which is `ApprovalState`'s Init; `Approval` ends where the report is
put at DELIVERING with its outbox row, which is `Delivery`'s `Enqueue`.  Each
promise module is the interface between them: `Delivery` may assume of an
approved verdict what `ApprovalPromise` guarantees.  `GitHubGrants` is the
grant `Delivery` reads as an input, `AnalysisTurn` what `JobQueue` calls one
idempotent effect.

The plan was to model in this order and to prove in the same one; the
modelling is complete but for what section 8 names, and every safety property
of a passing run is proved.  Section 9 has the rest.

## 3. What is modelled

### JobQueue

`job[j]` is the `inbound_job` row, `worker[w]` a process inside `runOnce`:
what it remembers of the row, and how far it got.  One action per queue
operation; `Begin`, `Perform`, `StepFails`, `Recover` are `runOnce`'s body and
its catch block.  `Held` is `heldBy(lease)`: owner, fence and an unexpired
lease, the WHERE clause of every write after the claim.  A lost reply is an
`Advance` or `Complete` whose `acked` is FALSE: the row has changed and the
worker goes to its catch block.  `Expire` may turn any live lease at any time,
so a stalled worker is one whose lease expired while it goes on.  `Crash`
forgets a worker.  `sweepExpiredLeases` is two actions, as it is two
statements, the second by the application's clock (`AppClockAhead`).  The
step bodies are idempotent effects recorded in `performed`; `starts` and
`unburied` are history.

### Delivery

`row[d]` is the `outbound_delivery` row, with the channel the approval was
routed to, `report[d]` its report from the approval on, `stored[d]` what the
verdict row holds, `grant[d]` the repository connection or the recipient's
authorisation.  A worker passes, in `deliverClaimed`'s order, the evidence
gate (`Gate`), the report's state (`CheckReport`), the arm's grant
(`CheckGrant`), the look for an earlier send (`Look`), the call (`Call`), the
stamp of a mail (`Stamp`) and the commit (`Commit`); between any two of them
anything else may happen.  `copies[d]` counts what exists at the destination:
`Call` decides separately whether the request takes effect and what the
caller hears.  `GiveUp` and `LandLate` are a request that takes effect after
its caller stopped waiting.  `key[d]` is the age of the provider's idempotency
key: `fresh` until the 23 hours of `IDEMPOTENCY_WINDOW_MS`, `gone` when the
provider has forgotten it.  Receipts (`HoldingReceipt`, `DeliveredReceipt`,
`UnmatchedReceipt`) ask for no lease.  `Retry`, `CancelHeld` and `Retire` are
the reviewer and the operator.

A call may outlive its caller on every arm: the 10 s timeout gives up on a
request that is still under way, and a stalled process sends one under a lease
it has lost.  The provider's idempotency key protects a mail from both.  GitHub
has no such key: a comment or an advisory edit that takes effect with its
caller gone may come after the next attempt looked for it.  `overdue[d]` counts
these, as history, and the promise allows one further copy for each
of them and for nothing else (section 7).

### Approval

`ApprovalState` declares the rows of one report: `report`, the `verdict`
revisions, `superseded`, the `decision` and `submission` of each revision,
`outbox`, the one `session` row, the re-check `run` rows, and the `turns` the
harness holds.  A transaction that locks the report or the session row is one
step; everything a process does outside one, and every network call, is
between steps, so the program counters in `poller`, `submitter` and `runner`
carry what each has read and may act on late.

- `AgentPoller` is `pollOnce`: `Claim`, `CheckReport`, `Ask`, then `Follow` a
  running turn, `Attend` to a proposed call, draft (`DraftStored`,
  `DraftRepeated`, `DraftRefused`, `DraftConflicts`), `Verify` the pending
  call, `Abandon` on a conflict, or end the session with or without a
  synthesised verdict.  Drafting runs outside the lease, as in the code.  With
  it is what the agent platform (external) can do: a turn proposes a call in
  one of four `Forms`, ends, or its session is lost.  The forms are those the
  poller's code tells apart: `draft` (publish_verdict with its fields), `bare`
  (the capability alone), `gated` (a call the poller answers itself) and `odd`
  (anything it can only refuse).
- `Review` is `decide`, `publishVerdict` as the harness calls it (at any time,
  for any call it holds), and the submission worker that tells the harness of
  a decision: find or create the turn, hand the session over, settle the row;
  hand-backs, failures and the sweep.
- `Approval` adds `requestRecheck`, `retryRecheck`, `cancelRecheck`,
  `runRecheckOnce` and its sweep, and composes the parts.

A verdict's text is the turn that drafted it and a capability the harness
session it was minted for; a lease is named by its holder, owner and fence
together identifying one claim, as `JobQueueProofs` proves of the same
pattern.  `lapses` counts the crashes and stalls of all processes.

Left out because the code cannot reach them: `decide`'s replay of a
synthesised approval (the first one enqueued in the same transaction), the
submission worker's branch for a decision without a harness call (`decide`
writes no submission for one).  Left out as a bound: a session whose first
turn was not started, which is only rescheduled or ended by the same deadline.

### Onboarding, ImageBuild

`Onboarding` carries `row[r]` through `onboardOnce` branch by branch.  A
claim is a worker's copy of the row; the driver's `build` and the agent's
`turn` are detached from it and run on when a heartbeat fails.  The reviewer's
`Approve` sees the proposal of the moment; `profile` and `link` are what
`configureTarget` writes, unfenced as in the code; `sweeper` is the snapshot
sweep, which reads what is pinned and deletes later.  `TargetProposal` is the
promise: nothing is pinned that no reviewer approved for that repository.

`ImageBuild` looks inside one build: what is staged becomes a plan (`Plan`: the
classifier, the review's refusal, the agent's proposal or a turn that throws;
four validators) or a refusal, then the driver boots its sandbox, mints its
token, clones, asks for the token back (`revokeInstallationToken` is best
effort: the build goes on whether GitHub took it back or not), builds, pushes
under fixed tags, registers and pulls snapshots, two builds at a time, while a
claim is lost, a call fails or the image sweep deletes the tags it listed.  A
name is the sequence of its words: the code joins owner, repository, upload and
service with one and the same hyphen.

### GitHubGrants, ScopeGuard

`GitHubGrants`: `gh` is the truth at GitHub, `sent` its hooks, `applied` the
delivery ids the database has seen, `db` the installation, repository and
onboarding rows.  `Deliver(n)` is one webhook transaction of any hook, in any
order, twice or never; `Reconcile` is one statement of the pass, which may
stop anywhere.

`ScopeGuard`: a call runs `Step` by step through loading the profile, its row
lock, the check, the resolver, the grant, the pinned connection and the
append under the advisory lock; `saves` are the pruned copies a read writes
back without waiting.  The resolver answers what it likes, each time anew.

### Outside: Intake, UploadBuild, Retests, Appeals

`Intake` is a request at one of the two public doors: read the limits, count
early, fetch, lock, count again and insert; `lock` is the advisory lock by
the name the code derives (the sender's domain, one for all uploads); `due`
is what the provider still has to deliver, again if it was not told.
`UploadBuild` holds a report at NEEDS_DECISION until one of the reviewer's
four answers or the sweep, with its notices and the codes that prove an
uploader's address (`mailbox` those of sends that succeeded, `strays` those
of a send that threw after the provider had taken the mail), and carries
released material through the build loop's lease and fence to a bound, pinned
profile, a fallback or quarantine.  `Retests` is a request in its two
transactions, of a commit or of material, the child's own course and what the
panel offers; the refusals of a target without a port or a readiness path
write nothing and are left out.  `Appeals` is codes, filing and resolving, and
the member codes of the reviewer allowlist.

### Analysis: AnalysisTurn, Reproduction, OwnerAdvisory, CodeReview

`AnalysisTurn` is the driver of one report's session row under two overlapping
attempts: the claim token, provisioning with each of its clean-ups, the turn
under the row lock, and teardown; `box` are Daytona's sandboxes, and `cause`
records why nobody answers for one.  `Reproduction` is one run of the canary
oracle (`trial`), its three sandboxes and `wire`, on which callbacks are late
or early; and, beside it, the four tools by which an agent reaches a target
while its grant is revoked.  `OwnerAdvisory` is the request, the claim with
its hold, the search for the marker, the two writes and the settle.
`CodeReview` is the queue of review runs, the worker's turn and its clean-up,
the sweep, and the agent's tool.

### ReviewerChat, WorkerDaemon, HarnessSettings

`ReviewerChat` has the threads in the order of age and, in `line`, of their
last change, which is the order of claims.  A worker holds what it read of its
thread; a claim the daemon gave up waiting for goes on beside its successor.
`WorkerDaemon` counts time in units of 15 seconds: a loop's call returns,
throws, is timed out or hangs; `beat` is the heartbeat, from which `/healthz`
answers, and the platform restarts what stays unhealthy.  `HarnessSettings`
has the bootstrap, the scripts and the settings form write manifests and
providers at once.

### Screens: CaseFile, ReviewDesk, CaseControls, Boards

`CaseFile` is the rows `readCase` reads, moved one commit at a time, with the
view, the panels and the poll interval derived from them; a first run that
ends without a draft leaves a verdict the server wrote, or, when its review
had no source to read, an out-of-scope report.  `ReviewDesk` has a
tab and a phone that are each one commit behind: the poll, the dialog with
its optimistic write and its refetch, the phone's compare-then-post.
`CaseControls` states twice which control a report has, once as the page
draws it (`Offers`) and once as the server action decides (`Accepts`).
`Boards` reads the lists in their several statements while other reports move;
`place` is the order of their last change, which is the order of every list.

## 4. Runs

| Run | Question | Bounds, and why they are enough |
|---|---|---|
| `jobs` | Do fence and lease keep one holder, an honest state and the retry budget, does the queue implement its lifecycle, and does an accepted job settle? | 2 workers with one owner string, 1 job (jobs share nothing but the sweeper), 3 attempts (first, middle, last), 1 hand-back, the sweeper's clock ahead; 221 200 states |
| `delivery` | Do only approved bytes leave, is the promise kept, does every claimable row settle? | each of the three channels, 2 workers, 2 attempts and a reviewer's retry with a budget of 1 (3 in all), 1 fault, 1 call under way after its caller gave up; the settings combine them so that each hazard meets each other one it can; 510 398 states |
| `approval` | Is anything queued that no human decided, does one verdict stand, can every REPRODUCING report still finish, is the promise kept? | `Overlap`: 2 pollers and the submission worker, forms draft, bare and odd; `Rechecked`: 1 poller, 1 re-check with its retry and cancel, draft and bare; 3 turns (the first, the answer or re-check, its follow-up), 1 lapse, 2 attempts; 2 227 263 states |
| `approval_live` | Does an investigation end and a submission settle, and does no answer but a human's allow a call? | 1 poller, forms draft, gated and odd, so also the calls the poller answers itself; 382 114 states |
| `onboarding` | Is nothing pinned unapproved, and does an onboarding come to rest? | first time, refused or rebuild; 2 workers under one owner, 2 attempts, 2 builds, 1 turn, and 1 each of retry, hand-back, revocation, sweep; 354 132 states |
| `permissions` | Does nothing re-open a repository by itself, does a revocation land, is the scope kept? | 2 installations (a reinstall), 3 events, 1 binding, 1 stopped pass; 3 calls of the guard, addresses of 3 bits with one banned block, 1 temporary entry, a host or a block; 950 064 states |
| `chat` | Is every answer its own question's, does a question settle, does the heartbeat tell the truth? | budgets for two questions, a new verdict, or a question put again; 2 workers, 2 threads, 6 turns; one loop of each kind, the re-check's budget below its longest claim, 1 deploy, 1 outage; 108 151 states |
| `uploads` | Does no report fall between gate, build and analysis, are retests sound? | two reviewers at the gate; 3 codes; one build by 2 workers with 2 attempts; one retest; two originals with two requests; 523 085 states |
| `analysis` | Is every sandbox in a row or lost for a reason, does an attempt settle? | settings of crashes, aborts, refusals and parked snapshots; 2 attempts, an app and a database; 261 550 states |
| `sandboxes` | Are images, oracle, probes, advisories, settings, doors, appeals and code reviews sound? | one part at a time: about 5 400 compose files of up to 3 services; every recipe with up to 2 extra controls and 2 late callbacks; 2 probes; 2 senders and 2 revisions; 2 applies and a form; 2 requests over 10 messages; caps of 2 and 1; 2 review runs with 2 faults; 1 064 528 states |
| `desk` | Does a screen show what is so, offer what is accepted, list everyone once, and catch up? | 2 revisions, the first without a reproduction and the second with one (any of the three outcomes behind the page's controls), 2 attempts, 1 re-check, limits of 1 card, 1 neighbour, 1 read with 1 commit inside it; 1 877 811 states |
| `material_already_retested` | `retest.ts:367`: material is compared "for this verdict" | violated: finding |

Rows of different reports never meet in `Delivery` or `Approval` except in a
sweep, which handles each by itself; one delivery and one report are enough.
Workers are symmetric under a shared owner string.  The counters named `Max…`,
the settings and the budgets bound retries, re-checks, turns and crashes,
which the code leaves unbounded; every other counter is bounded by the
attempts.  A submission worker meets no re-check, since a decided verdict is
never superseded (`OneAnswer`, proved), so the two settings of `approval` each
leave the other's process out.  Deadlock is checked where time never stops
(jobs, deliveries); where a report may come to rest with its bounds spent, it
is not.

Every property is shown to say something: for each, PROJECT.json has a mutant
of the code's definition (a dropped guard, a swapped order, a missing reset)
under which the same run violates it.

## 5. Fairness

Stated in the module that needs it, and only of what the code keeps doing.
`runLoop` and `runSweeper` run for ever, so a worker's step and a sweep are
weakly fair; leases and backoffs run out, since time passes.  A claimable row
is claimed in the end: a claim is strongly fair in `JobQueue`, `Delivery` and
`Onboarding`, because a row may cease to be claimable for a moment (a backoff)
and `claim()` takes the oldest first.  The other queues need only weak
fairness of the claim.  An analysis attempt
takes its next step (each call has a deadline), Daytona ends what outlives its
TTL; the reconcile pass is run again; the page asks again and its calls
return.  In `WorkerDaemon` time passes (`Tick`, strongly fair, since what is
due comes first) and the platform restarts what stays unhealthy.  Nothing is
assumed of crashes, hand-backs, reviewers, webhooks, providers or the harness
answering well, and the parts of `sandboxes` assume no fairness at all.

## 6. Proofs

The proofs hold for every value of the constants: any number of processes,
rows, attempts, retries, turns, calls and bounds.  They rest on the
assumptions the modules name, which only say what a constant is (a set is
finite, a bound is a natural number, a sentinel is not a member, a stored name
is unique because an index makes it so).  No theorem states a hypothesis of
its own.

| Module | Theorem | Property |
|---|---|---|
| `JobQueueProofs` | `TypeCorrect` | `TypeOK`, and only open jobs carry leases |
| | `AtMostOneHolder` | `OneHolder` |
| | `OnlyTheHolderMoves` | `OnlyHolderMoves` |
| | `HolderKnows` | `HolderKnowsState` |
| | `NothingSkipped` | `NoStepSkipped` |
| | `OnlyTheSweepStrands` | `OnlySweepStrands` |
| | `StartsAreBudgeted` | `StartBudget` |
| | `QueueImplementsLifecycle` | `ImplementsLifecycle`: refinement of `JobLifecycle` |
| `DeliveryProofs` | `TypeCorrect` | `TypeOK` |
| | `ApprovedBytesOnly` | `OnlyApprovedBytes` |
| | `OneCopyOnly` | `AtMostOneCopy` |
| | `DeliveredMeansArrived` | `DeliveredIsReal` |
| | `BouncesStayHeld` | `BounceStaysHeld` |
| | `OutboxKeepsPromise` | `KeepsPromise`: refinement of `DeliveryPromise` |
| `ApprovalProofs` | `TypeCorrect` | `TypeOK` |
| | `HumansDecide` | `HumanGate` |
| | `OneDecision`, `OneStands`, `PendingCanBeDecided` | the three parts of `VerdictStands` |
| | `OnlyTheNewestStands` | `VerdictStands` |
| | `OnlyApprovedIsAllowed` | `AllowsOnlyApproved` |
| | `NothingIsLeftHanging` | `SomethingFinishesIt` |
| | `PathKeepsPromise` | `KeepsPromise`: refinement of `ApprovalPromise` |
| `OnboardingProofs` | `TypeCorrect`, `NoneStranded` | the two parts of `OnboardingRests` that are safety |
| | `HolderIsCurrent` | what its refinement rests on |
| | `OnboardingKeepsPromise` | `KeepsPromise`: refinement of `TargetProposal` |
| `GatesAndScreensProofs` | `IntakeStaysShut` | `NothingOpensByItself` |
| | `ScopeTypeCorrect`, `ScopeHolds` | `ScopeTypeOK`, `ScopeIsKept` |
| | `ScreensSafe`, `ScreensTyped` | what the next five rest on; `ScreensTypeOK` |
| | `FreshViewIsTrue` | `FreshViewTellsTruth` |
| | `PhoneIsTrue` | `PhoneSignsWhatItShowed` |
| | `PageIsTrue` | `PageMeansIt` |
| | `ListsAreOneMoment` | `ListsMeanIt` |
| | `QuietPagesAreStill` | `QuietIsStill`, the action half of `PageIsCurrent` |
| `UploadProofs` | `UploadTypeCorrect`, `NothingIsLost` | `TypeOK`, `NothingFallsThrough` |
| | `AdviceComesInTime` | `AdviceIsInTime`, the action half of `ReleasedIsAnalysed` |
| | `RetestsStaySound` | `RetestsAreSound` |
| `AgentsProofs` | `TurnsStaySafe` | `TurnsAreSafe` |
| | `AnswersStaySound` | `AnswersAreSound` |
| | `HealthHasACause` | `OnlyWithACause`, the action half of `HealthIsTrue` |
| `PartsProofs` | `TrialTypeCorrect`, `TrialsAreEarned` | `TrialTypeOK`, `TrialsAreSound` |
| | `ProbesStayContained` | `ProbesAreContained` |
| | `AdvisoryTypeCorrect`, `OwnerGetsOneDraft` | `AdvisoryTypeOK`, `AdvisoriesAreSound` |
| | `SettingsTypeCorrect`, `SettingsAreHeld` | `HarnessTypeOK`, `SettingsHold` |
| | `ReviewTypeCorrect`, `EndedRunsStayClosed` | `ReviewTypeOK`, `ReviewIsClosed` |
| | `ImagesStaySound` | `ImagesAreSound` |
| | `DoorTypeCorrect`, `CapsAlwaysHold`, `AppealTypeCorrect`, `OutsideStaysBounded` | `OutsideIsBounded` and what it rests on |

Three properties say less than a comment of the code does, because the code
does less; section 7 quotes the comments.  `AtMostOneCopy` is one copy and one
more for each post that took effect with its caller gone.  `OnlyWithACause`
counts as a cause a silent loop whose stall budget is below its longest gap,
which the re-check loop is.  `OnlyOwnSnapshots` and
`SnapshotCarriesItsMarker` except two repositories that meet in one name
(`Collide`): `repoSlug` maps the slash to a hyphen and a service is joined to
the slug by the same hyphen.

### The inductive invariants

Each is the conjunction of named parts and is proved action by action, one
lemma for the type of each variable first.  TLC checked each on the run of its
component before it was proved.

*Jobs.*  `Typed` is the type invariant with `LeasedIsOpen`.  `OneHolder` alone
is not inductive: a worker that lost its lease could hold it again if its
fence came back, so `Fenced` bounds every remembered fence by its row's, and
`Distinct` says that two workers on one job remember different fences; a
claim raises the fence, so both are kept, and `Held` then fixes the worker.
`HolderKnowsState` adds that a remembered state changes only with the row's
while the lease is held.  `ReadyDone` (work the state implies is recorded
before the write) carries `NoStepSkipped` and the refinement.  `GraceLeft`
ties the mark of the extra attempt to the attempts used up; `Budget` counts
the starts, with the workers that claimed and have not begun, against attempts
and hand-backs, which is what makes `StartBudget` inductive.

*Delivery.*  `Clean` (whoever passed the gate carries the approved bytes, and
so does a request still under way) is enough for `OnlyApprovedBytes`.  One copy
needs the whole of `Inv`: `RowInv` says what a row's state, stamp, hold, key
and receipts say of the copies at the destination (an absent row has none, a
stamp, a receipt or DELIVERED means there is one, an applied bounce holds the
row); `WorkerInv` what a worker at each step still knows: it stamps only what
is out, calls under a key the provider has not forgotten, and, where there is
no key and as long as it holds the row, only while nothing is out but what came
late; `OwnFences` that two workers on one row never share a fence; `LateInv`
that a mail still under way has a remembered key.  The refinement maps the
row's state, the approved copies and what arrived; its step proof uses `Inv`
where a commit claims an arrival.

*Approval.*  `Typed` is `TypeOK` with `Fits` (indices point into the sequences
that exist).  `Recorded` says that every revision but the newest is superseded,
that a decided one is not, and that what is in the outbox was approved; it
gives `HumanGate`, `OneAnswer`, `OneStandingVerdict` and the refinement.  What
the reviewer is shown needs `Informed`: a pending tuple is explained by the
form of the call behind it (`PendingExplained`), every call named by a row or a
turn was really made (`Spoken`), and a poller that attends to one acts on its
form and, while it holds the session, has the newest verdict in hand
(`Attends`).  The exception `PendingIsStanding` names is the re-check's bare
call, which the attempted proof found (section 7).  `Finishing` adds to
`SomethingFinishesIt` what a runner past its rewrite knows: as long as the
report is REPRODUCING the session has not ended under it.

*Onboarding.*  `ClaimsFit` says of each phase of a claim which state it was
made in, that a claim past the gate carries an approved image, and where an
advance may lead; `RowsFit` that a proposal records a build, an approved row an
approved one, a proposal starts with a fresh budget (without which an approval
could strand it), and a spent row still has a lease.  `OwnFences` and
`HolderKnows` are those of the job queue, though a fence is only one that no
live claim carries, which exists by counting (`FreshFence`).  Each action's
proof shows that its row and its claim satisfy the two frames `RowStays` and
`ClaimStays`; one lemma does the rest.

*GitHub grants.*  `NothingOpensByItself` is an action property; besides types
its proof needs `RemovalUnbinds` (a bound repository is granted, under a known
installation) and `HooksFit` (which hooks name an installation), and one lemma
per hook and per statement of the pass.

*The gate, the codes and the builds.*  Duplicates: `LinksAreOpen` says that a
link under way holds the row it starts from, which waits at the gate and is
linked to nothing, and that the other row is not linked to it; so of two links
in opposite directions the second to be written finds its own row closed, or
the first one's lock.  Codes: `SlotsFit` counts the codes of sends that succeeded
together with the requests that may still send one against the slots taken,
which is what makes `CodesWithinCap` inductive (a slot is taken before the
mail and given back after it).  Builds: `BuildFits` says of one report what
its row, its upload row, its pinned build, its queued analysis and its verdict
may be together, of which the deciding part is that nothing is queued or judged
while a build may still run; `ClaimFits` that a worker about to record success
has a bound report.  A worker whose lease was taken over is harmless because
its rotation needs the current claim, and a current claim excludes a verdict.

*Retests.*  `RowsTyped` and `OnePerMaterial` (two children of one verdict
differ in their material) are kept because the insert is under the original's
lock and looks again; `PushesAreCommits` gives `SuggestionCanStart`.

*Scope guard.*  `RowsFit` says what a call at each step has learnt: above all
that a pinned address `Suits` the name that was judged, the fact a changing
resolver threatens.  `CopiesFit` bounds what a loaded or saved copy may
contain, `LogFits` ties a call's verdict to the log and the tail it read to
the lock it holds, and `GrantsFit` gives every spent write a grant of its own,
an injection, from which `OneWritePerApproval` follows by cardinality.

*Oracle and probes.*  `TrialFit` and `BoxesFit` say what has run at each step
and which sandboxes it knows of; `Evidence` follows the callbacks from step to
step: quiet when the exploit is sent, and seen by the judge just when the
exploit's leg was, unless a follow-up is asked in its place (`Unasked`; for
that, `ListensForOob`).  It holds when no callback was late (`wire.late = {}`),
and the property says the same of its verdicts.  `CallFits` is enough for the
probes because a revoked grant never returns.

*Owner advisories.*  `SentCarriesItsVerdict` is kept only with `SendersInv`
(while no sender outlived its hold, one at most is out, and what it has read
is the row's) and `DraftsInv` (while the owner did not take up a draft early
either, there is one advisory, and none when a sender is about to create).

*Settings.*  `HeldOrAhead`: what a run reported is held, and what it has done
without having reported it is held too.  `SendsWhatWasTyped`: a form in the
act of saving sends the key typed, or for a blank the redacted one, which the
harness takes as "keep".

*Code reviews.*  `RowsInOrder` (rows are used in order, at most the newest is
live), `RunsAreHeld` (a worker's run was claimed, and by nobody else),
`DoneWasSeen` (only a turn seen done is recorded as such).

*Images.*  A rebuild replaces its predecessor's tag and snapshot, so neither is
its build's for long: what is kept is whose they are.  `TagFits` and
`SnapshotFits` say that a tag, a snapshot and the image it holds bear a name of
the target of a build that has begun, and `Kept` that such a build's target
never changes.  `JobFits` says that a row's plan is what its files come to
(`MeshIsUsable` proves the four validators agree on every such plan), that the
build it waits for is its own, and that a state which can be claimed has an
attempt left; `Fit` that a build at work has a service left to build.

*Doors.*  The caps are not inductive: a request counts before it inserts.
`RoomIsKept` says that between the two it holds its lock and the room it
counted beside its rivals under that lock is still there; `LimitsFit` that no
request read limits above the highest so far; counts are cardinalities of
finite sets (`FS_` theorems).

*Appeals.*  `FiledIsSpent` (a code that filed an appeal has no hash left) makes
`CodeFilesOnce` inductive; `TriesAreCounted` equates the attempts on the row
with the wrong codes entered.

*Analysis.*  `TurnInv`.  `LeaksHaveACause` (stated of one attempt and one
service at a time, `LooseHaveACause`) is not inductive by itself: a step that
ends an attempt or hands its sandboxes to the row must know which sandboxes
the attempt answers for.  `BootedBy` says it from the attempt's place in the
code: it has booted nothing yet, or everything of its group, and at the last
two places the whole group was proven and what is built was started, which is
`NothingRunsUnproven` before the step.  `OneTurn` (the recorded turn is the
newest of the recorded session) gives `TurnIsNeverSuperseded`.

*Chat.*  `ChatInv`.  An answer is right because of what the worker holds when
it writes: `Fits` says of each place in the code that the question is its
thread's, the input is the question's, the turn was asked it, and, while the
worker's fence is its thread's (`Current`), that the session is the thread's.
`OneLease` keeps two workers of one thread on different fences, so a step of
one leaves the other's `Fits`.  `RunsWereClaimed` (a running thread has an
attempt to give back) keeps `attempts` a natural number in `ReleaseUnstarted`.
The claim takes the head of the line, which must be a thread: that the least of
some places is one of them rests on the well-foundedness of `<`.

*Health.*  `DaemonInv`.  Silence is bounded by what a loop still owes:
`WithinBudget` says that the age of its beat and the wait and the longest call
before the next one are together within its budget, if that budget was chosen
to cover them (`Covered`), and of a call under way that it has not run past its
longest; a hung call is excepted, and a stopped loop belongs to a process that
is stopping.  `FailingSinceOk` says a run of failures is no older than the last
success.

*The report and its screens.*  What a screen says is a function of the rows, so
each property needs to know which rows can stand together; `RowsInv` says it.
`PendingIsNewest` and `SupersededIsOpen`: what waits is the newest draft, and
no re-check took it back.  `DecidedIsNewest` and `DeniedIsOver`: a decision is
the newest draft's, and a denial ends the report.  `RecheckIsOpen`,
`RunsAreOpen`, `AwaitingIsPending`, `AnalysisIsPending` and `TriageIsFirst` say
what a state of the report tells of its rows.  `HandoffFits` and `DeliveryFits`:
a hand-over follows a decision, a send an approval that no longer waits, and a
row open to a worker has an attempt left.  With them, `Latest` is the newest
draft (`ViewIsRows`), and the four parts of `FreshViewTellsTruth` follow.
`RowsFollow` says of every commit what the rows beside the report's must
know: what was denied stays denied, a send is never taken back, and it carries
the draft that was pending.  Hence `DeskFits` (what was posted is the newest
verdict, a closed gate is a denied report), from which the page and the server
agree control by control (`ControlsAgree`), and `BoardFits`.  A list is one
moment since every statement reads the snapshot in `ReaderFits`; that
a column shows all it counts or stops at its limit is that the ranks of the
rows by `place`, which are apart (`PlacesApart`), are `0 .. n - 1`, a bijection
(`ListedSize`).  `PhoneSignsWhatItShowed` needs of `PhoneFits` that what is
posted is what was tapped.  `QuietIsStill` needs `RowsInv` only: a page stops
asking before the end only when a send or a hand-over of the decided verdict is
given up or held (`QuietRows`), and what may still move then is not shown
(`SameView`).

### What stays with TLC, and why

Every invariant and every action property a passing run checks, and the action
half of `HealthIsTrue`, `OnboardingRests`, `ReleasedIsAnalysed` and
`PageIsCurrent`, is stated by a theorem.  What remains is liveness:
`EventuallySettled` (twice), `LeavesTriage`, `SubmissionSettles`,
`RevocationLands`, `QuestionSettles`, `AttemptSettles`, and the second halves
of `HealthIsTrue` (a wedge is cleared), `OnboardingRests`, `ReleasedIsAnalysed`
and `PageIsCurrent` (a visible tab catches up).  The prover has neither
fairness nor ENABLED.

## 7. Where the code and its comments disagree

One disagreement has a run of its own: `material_already_retested`
(`retest.ts:380` against `:367`).  The others were met while modelling or
while proving; each can be followed action by action in the module named, or
checked by stating the sentence quoted as an invariant of its run.

Found by proofs that failed:

- A re-check's call with the capability alone (`bare`) makes
  `handleVerifiedPendingCall` (`poller.ts:252-395`) put the superseded revision
  before the reviewer; the comment there says the driver prepared the newest
  one.  `decide` and `requestRecheck` both refuse it, so the report waits until
  it is retired.  `PendingIsStanding` names the exception.  (`AgentPoller`)
- `requestRecheck` supersedes the parent run but leaves its lease
  (`recheck.ts:445`).  A second claim of run 1 still at its `createTurn` passes
  `heldBy` (`investigation-runs/queue.ts:548-594`) after run 2 rewrote the
  session, and replaces run 2's session by run 1's; run 2 stays RUNNING with no
  lease.  TLC's trace has 31 steps.  (`Approval`)
- `lifecycle.ts:36-37`: "a stale positive delivery cannot re-open intake by
  itself".  A late `unarchived` re-opens intake on a repository archived again;
  and a binding moved by a reinstall's `created` to an installation we hold
  suspended or deleted is re-opened by a late `added` or `created` of the
  other.  `NothingOpensByItself` names both.  (`GitHubGrants`)
- Three reports are closed in favour of each other, in a circle:
  `markDuplicateAtGate` reads the original without a lock (`gate.ts:276`) and
  does not read it again when its write has waited for the original's row.
  With `r1 -> r2` read but not written, `r2 -> r3` is linked, `r3 -> r1` is
  read, and both are written.  Nobody reads any of the three, although
  `gate.ts:283` refuses a report that "is itself a duplicate; link the original
  instead".  TLC finds it with three reports; of two the deadlock saves one,
  which is what `NoMutualDuplicates` states.  (`UploadBuild`)

Jobs, delivery, approval:

- `sweepExpiredLeases` clears, in its second statement, an exhausted job's
  lease that the first had not buried: the job stays open for ever
  (`jobs/queue.ts:413`, against `:391-394`).
- A bounce applied between the stamp and `markSent` sets FAILED and the hold,
  and is overwritten by SENT; neither retry nor cancel then fits
  (`delivery/queue.ts:345`, against `receipts.ts:110`).
- A comment may be posted twice when a request takes effect after the next
  attempt has listed the comments, where `worker.ts:119-120` says "a crashed
  attempt cannot post twice": `AtMostOneCopy` counts such posts in `overdue`,
  and is violated without that term.  A report retired after `CheckReport` still
  receives its send (`worker.ts:392-394`).  `githubArm` refuses a disconnected
  repository without holding the row, where `advisory-arm.ts:99-101` says it
  holds it.
- A poller that read its turn before a re-check and drafts after it stores the
  superseded turn as revision 2 (`publish-verdict.ts:422-423`); the sweep
  returns a run whose session is rewritten, and its next claim erases a pending
  verdict (`investigation-runs/queue.ts:566`, against `:398-399`);
  `cancelRecheck` parks a report at ANALYSIS_ONLY with nothing to approve
  (`recheck.ts:253`, against `poller.ts:124-126`).
- A `bare` call in a first investigation is refused by an exception on every
  poll and never reaches the deadline check: with `"bare"` in `approval_live`,
  `LeavesTriage` fails (`poller.ts:291`).  A refused submission is claimed
  again until its budget is gone (`approval-submission/queue.ts:63`, against
  `:192`).  A session lost between approval and submission clears the pending
  tuple, and the approved report can not be published, decided or re-checked
  (`poller.ts:176`, against `decide.ts:302-304`).

Onboarding and images:

- The driver's build takes no abort signal, so a failed heartbeat leads to two
  builds under one snapshot name (`daytona-build-driver.ts:172`, against
  `:646`); a stale build's reclaim deletes its successor's tag; the image sweep
  deletes what a build pushed after it listed; `repoSlug` is not
  collision-free (`:1048`, against `:1046`), and a service is joined to it by a
  hyphen too (`:487`): the service web of `acme/shop` and the one image of
  `acme/shop-web` take down each other's snapshot (`:646`).
- The clone's token is "revoked right after it, before the repository's own
  build steps run" (`daytona-build-driver.ts:230-231`), but
  `revokeInstallationToken` (`app-auth.ts:204-221`) swallows an error and does
  not look at the status: the steps may run while GitHub still honours the
  token.  `TokenIsAskedBack` says what is kept, that it was asked back.
- `flatten` drops an image-only service without ports silently and ignores
  `privileged` and host networking; a mesh whose `command` is docker, or a plan
  with a stray `dockerfile` key, passes one validator and is refused by another
  after the approval (`PlanIsUsable` excepts both); a mesh rebuild that half
  fails has replaced the earlier services; a command's deadline may outlive the
  sandbox's TTL.

GitHub and scope:

- An App installed between the pass's two reads is tombstoned for ever
  (`reconcile.ts:323`, against `:29`).
- "temporary entries may only be public hosts" (`scope.ts:180`; `:132` "are
  public-only"), but `classify` calls every address block public
  (`scope.ts:541-581`): a temporary block over a banned one is accepted, kept
  by sanitizing and matched by `check`.  `MatchIsAcceptable` is stated of the
  permanent blocks and of the address that is dialled; blocks of a single
  address are left out.
- `addTemporary` after a lapse saves nothing and is audited as added
  (`scope.ts:184`); the third test of `scope-profile.test.ts` never triggers
  the prune; the audit's order may differ from the order of commits.

Chat and daemon:

- A question asked while a thread is in ERROR opens a second one; the claim of
  the first then throws on the unique index at every tick, for every report
  (`reviewer-chat/queue.ts:303`, against `worker.ts:271`).
- `health.ts:20` does not hold of all loops: `investigation-recheck` has no
  entry in `budgets` and may be called stale inside a claim that is well (the
  third cause of `UnhealthyHasACause`), a failed jobs or build claim of more
  than 180 s restarts the worker, sweeps under `atMostEvery` report success
  while they fail, and `github-reconcile` may exceed its 60 s.

Outside:

- "The cap bounds mail that went out" (`upload/intake.ts:449`; `:474` "Codes
  that actually went out"), but a send that threw after the provider had taken
  the mail is refunded all the same: these are the `strays`, and
  `CodesWithinCap` counts only the sends that succeeded.
- `startContactVerification` clears a proof given between its two reads
  (`upload/intake.ts:461`, against `:440`); a build's handle may stay in
  UPLOAD_AGENT (`agent-plan.ts:81`, against `:110`); the cap by mailbox is
  counted under a lock by domain (`outside-intake.ts:154` and `:234`);
  `verifyCode` takes no lock (`reviewers.ts:242`); an acknowledgement may
  follow a report marked as spam (`gate.ts:56`, `:165`).
- Retests: a crash before the second transaction leaves the child at the gate;
  a child may be bound to another target (`retest.ts:28-30`);
  `canOfferRetest` ignores `isPrivate`, and the push suggestion's comments
  claim private repositories are left out.

Analysis:

- An abort during `getSandbox` leaves the sandbox to its TTL
  (`provision.ts:665`, against `:604`); a crash between the claim and the
  session row leaves a claim nothing sweeps (`trueforge-driver.ts:122`).
- `reproduce`: a failed teardown replaces the verdict, a failed setup reads
  NO_APPROVED_ORACLE, failed deletes COULD_NOT_DEPLOY, and `clearLog` erases
  what arrived; no live path calls it.  A recipe with both a listener and a
  follow-up would be NOT_REPRODUCED by its follow-up although the exploit
  called out (`reproduce.ts:574-583`; no recipe in the tree has both, and
  `VerdictIsEarned` excepts it as `Unasked`).  A report bound to another target
  by its reviewer is reproduced against that one.  `probe-target.ts:20-22` asks
  for an approval that the poller's `autoApproveWriteProbe` gives.
- Owner advisories: a stalled sender settles a row requested again as SENT
  with the old bytes; an owner who publishes the draft early gets a twin; a row
  whose sender always crashes is claimed for ever; a rebound report keeps its
  `ghsaId`, which the new repository does not know.
- Code review: "any failure leaves zero findings" (`code-review.ts:28`) is not
  so; a `closeRun` whose error is swallowed leaves the token live; an insert
  may follow the close.
- Settings: a restart's bootstrap overwrites the provider saved on the screen;
  two forms lose each other's models; a model an agent uses can be removed;
  drift compares names only.

Screens:

- The phone offers Approve and Deny on a decided verdict
  (`VerdictReview.tsx:58`, `:62`); a dialog opened on revision 1 signs
  revision 2 (`actions.ts:45`); "Approve failed" hides other conflicts; a
  second "Verdict awaiting approval" push may be of an older revision; a
  sign-out while offline leaves the push token registered.
- The page draws Bind for a revoked grant, Retry for a bounced mail and Notify
  for a revoked grant; the server takes a re-check of a reproduced verdict the
  page does not offer; a delivery refused without a hold reads "failed,
  retrying" and is polled for ever; "Nothing produces a delivery row from
  here" (`status-query.ts`) forgets a harness already told.
- The card of an e-mailed report whose mail is out spins, as if something were
  "actively doing" it (`queue-board.tsx:50`), until the provider's receipt,
  which nothing here works on: `SpinnerIsTrue` counts `AwaitsReceipt`.  A
  status answer that arrives after a later one (`live-keys.ts:32`) shows the
  older view until the next poll; no property forbids that moment.
- The home count of waiting reports includes approved ones with a pending
  tuple; `connections.ts:127` claims a predicate it does not share; the phone's
  rail, its pills and the web count differ, as they are two snapshots and lists
  of the first 20 or 200.

## 8. Not modelled, and why

The components PROJECT.json lists as `not_modelled` are data and input/output
without state of their own: HTTP clients, scans, recipes, a text similarity,
push notices, cookies, migrations, deployment, the benchmark.  `partly` are:
the report's event log, whose sequence numbers (a retry on a unique index) are
left out; the boards' sorting and wording; the read-only MCP tools; layout and
navigation of the screens.

Of modelled parts the following is abstracted: report contents, message
wording, what a manifest, a recipe or a response says, mirrored tool calls and
summaries, and time, which is the freedom of a lease, a backoff, a key or a
deadline to run out at any moment (`WorkerDaemon`, whose subject it is, counts
it).  The header of each module names its own abstractions.

## 9. What comes next

1. The safety halves of the liveness properties, as `OnboardingProofs` and
   `UploadProofs` have them, for `AttemptSettles` and `QuestionSettles`.
2. More of the report's event log and of the boards.
