---------------------------- MODULE UploadBuild ----------------------------
(***************************************************************************)
(* A report from outside, from the gate to its analysis.                   *)
(*                                                                         *)
(* At the gate it waits for a person: the intake job's hold                *)
(* (src/lib/triage/gate.ts holdForDecision), the reviewer's four answers,  *)
(* the fixed notices (src/lib/email/notice.ts), the expiry sweep           *)
(* (src/lib/reports/expiry.ts) and the one-time codes that prove an        *)
(* uploader's address (src/lib/upload/intake.ts).  A gate action is one    *)
(* transaction under the report's row lock; marking a duplicate is two     *)
(* steps: it reads the other report without a lock and its foreign key     *)
(* then waits for whoever holds that report's row.                         *)
(*                                                                         *)
(* Material a reviewer released is then built: src/lib/upload/gate.ts      *)
(* (approveUploadTarget), src/lib/upload/build.ts (the build loop),        *)
(* agent-plan.ts (the onboarding agent's handle), src/lib/targets/bind.ts, *)
(* the connectionless profile writes of src/lib/targets/configure.ts,      *)
(* quarantine.ts, and src/lib/retests/retest.ts, whose children take the   *)
(* same path.                                                              *)
(*                                                                         *)
(* Abstractions.  The provider keeps one copy per idempotency key, so mail *)
(* is a set of kinds.  A code is its number; its expiry may come at any    *)
(* time, and so may thirty days.  The attempt number is the fence, and it  *)
(* names the build that attempt makes: two builds of one material never    *)
(* share a digest, since each bakes in its own marker.  Leases and time as *)
(* in JobQueue.                                                            *)
(***************************************************************************)
EXTENDS Naturals, FiniteSets

CONSTANTS
    Report,
    Reviewer,       \* gate actions in progress
    Asker,          \* requests for a code in progress
    NoReport,       \* duplicate_of_report_id IS NULL
    Codes,          \* bound: codes generated, 1..n
    maxCodeSends,
    MAX_CODE_ATTEMPTS,
    Scenarios       \* bounds: what comes in, and how much goes wrong

\* first: the reports that exist at the start and their kinds.
Scenario == [first : [Report -> {"absent", "email", "upload"}],
             crashes : Nat, expiries : Nat, approvals : Nat, lapses : Nat, binds : Nat,
             quarantines : Nat, retests : Nat, failedSends : Nat, guesses : Nat, asks : Nat]

ASSUME GateAssumption ==
    /\ Codes \subseteq Nat \ {0}
    /\ maxCodeSends \in Nat /\ MAX_CODE_ATTEMPTS \in Nat
    /\ Scenarios \subseteq Scenario
    /\ NoReport \notin Report
    /\ IsFiniteSet(Asker)

VARIABLES
    report,     \* the report rows
    trail,      \* session_event: the types recorded
    mail,       \* the notices that left the provider
    hold,       \* the intake job's next step
    reviewer,   \* the gate actions in progress
    code,       \* the report's pending code
    asker,      \* the requests for a code in progress
    mailbox,    \* the codes mailed by a send that succeeded
    strays,     \* the codes mailed by a send that reported failure
    queued,     \* reports with a gate-analysis job
    budget      \* what is left of the scenario

States == {"ABSENT", "NEEDS_DECISION", "TRIAGING", "ANALYSIS_ONLY", "OUT_OF_SCOPE",
           "DENIED", "EXPIRED"}
Terminal == {"OUT_OF_SCOPE", "DENIED", "EXPIRED"}
NoticeKinds == {"acknowledgement", "rejected", "duplicate"}
Events == {"triaged", "contact_verified"} \union NoticeKinds

ReportRow == [kind : {"absent", "email", "upload", "retest"}, state : States,
              dup : Report \union {NoReport},
              closed : {"no", "rejected", "spam", "duplicate"},
              verified : BOOLEAN,
              material : BOOLEAN,
              target : {"none", "own", "other"}]

Filed(kind) == [kind |-> kind,
                state |-> IF kind = "absent" THEN "ABSENT" ELSE "NEEDS_DECISION",
                dup |-> NoReport, closed |-> "no", verified |-> kind = "email",
                material |-> kind \in {"upload", "retest"}, target |-> "none"]

HoldSteps == {"none", "attach", "notice", "record", "read", "write"}
NoCode == [live |-> 0, attempts |-> 0, slots |-> 0]
Idle == [at |-> "idle"]

GateInit ==
    /\ budget \in Scenarios
    /\ report = [r \in Report |-> Filed(budget.first[r])]
    /\ hold = [r \in Report |-> IF budget.first[r] = "email" THEN "attach" ELSE "none"]
    /\ trail = [r \in Report |-> {}]
    /\ mail = [r \in Report |-> {}]
    /\ reviewer = [v \in Reviewer |-> Idle]
    /\ code = [r \in Report |-> NoCode]
    /\ asker = [a \in Asker |-> Idle]
    /\ mailbox = [r \in Report |-> {}]
    /\ strays = [r \in Report |-> {}]
    /\ queued = {}

GateTypeOK ==
    /\ report \in [Report -> ReportRow]
    /\ trail \in [Report -> SUBSET Events]
    /\ mail \in [Report -> SUBSET NoticeKinds]
    /\ hold \in [Report -> HoldSteps]
    /\ \A v \in Reviewer : reviewer[v] = Idle \/ reviewer[v].at \in {"link", "reply", "record"}
    /\ code \in [Report -> [live : Codes \union {0}, attempts : 0 .. MAX_CODE_ATTEMPTS,
                            slots : 0 .. maxCodeSends]]
    /\ \A a \in Asker : asker[a] = Idle \/ asker[a].at \in {"reserve", "start", "mail", "refund"}
    /\ mailbox \in [Report -> SUBSET Codes]
    /\ strays \in [Report -> SUBSET Codes]
    /\ queued \subseteq Report

gateVars == <<report, trail, mail, hold, reviewer, code, asker, mailbox, strays, queued,
             budget>>
contact == <<code, asker, mailbox, strays>>
notices == <<mail, trail>>

Spend(field) == budget[field] > 0 /\ budget' = [budget EXCEPT ![field] = @ - 1]

\* A report's row is locked for longer than one step only while a duplicate is linked.
LockedBy(v, r) == reviewer[v].at = "link" /\ reviewer[v].r = r
Free(r) == ~ \E v \in Reviewer : LockedBy(v, r)

Set(r, row) == report' = [report EXCEPT ![r] = row]
Note(r, events) == trail' = [trail EXCEPT ![r] = @ \union events]

-----------------------------------------------------------------------------
(* The intake job of an outside email: parseEmail()'s attachment, then     *)
(* holdForDecision().                                                      *)

Next_(r, step) == hold' = [hold EXCEPT ![r] = step]

\* attachEmailTarget(): the report is already visible when its material arrives.
Attach(r) == /\ hold[r] = "attach" /\ Free(r)
             /\ \E has \in BOOLEAN : Set(r, [report[r] EXCEPT !.material = @ \/ has])
             /\ Next_(r, "notice")
             /\ UNCHANGED <<notices, reviewer, contact, queued, budget>>

\* sendNotice("acknowledgement"): whatever the report's state is by now.
Acknowledge(r) ==
    /\ hold[r] = "notice"
    /\ \/ /\ "acknowledgement" \in trail[r] \/ ~report[r].verified
          /\ Next_(r, "read") /\ UNCHANGED mail
       \/ /\ "acknowledgement" \notin trail[r] /\ report[r].verified
          /\ \/ mail' = [mail EXCEPT ![r] = @ \union {"acknowledgement"}] /\ Next_(r, "record")
             \/ Next_(r, "read") /\ UNCHANGED mail     \* refused for good
    /\ UNCHANGED <<report, trail, reviewer, contact, queued, budget>>

RecordAck(r) == /\ hold[r] = "record" /\ Free(r)
                /\ Note(r, {"acknowledgement"})
                /\ Next_(r, "read")
                /\ UNCHANGED <<report, mail, reviewer, contact, queued, budget>>

ReadGate(r) == /\ hold[r] = "read"
               /\ Next_(r, IF report[r].state = "NEEDS_DECISION" /\ "triaged" \notin trail[r]
                           THEN "write" ELSE "none")
               /\ UNCHANGED <<report, notices, reviewer, contact, queued, budget>>

\* The triage turn has taken its minutes.
RecordTriage(r) == /\ hold[r] = "write" /\ Free(r)
                   /\ Note(r, IF report[r].state = "NEEDS_DECISION" THEN {"triaged"} ELSE {})
                   /\ Next_(r, "none")
                   /\ UNCHANGED <<report, mail, reviewer, contact, queued, budget>>

\* A crash, or a send that failed for now: the job starts over.
RetryHold(r) == /\ hold[r] \in {"notice", "record", "read", "write"}
                /\ Spend("crashes")
                /\ Next_(r, "attach")
                /\ UNCHANGED <<report, notices, reviewer, contact, queued>>

HoldForDecision(r) == \/ Attach(r) \/ Acknowledge(r) \/ RecordAck(r) \/ ReadGate(r)
                      \/ RecordTriage(r)

-----------------------------------------------------------------------------
(* The reviewer.                                                           *)

AtGate(r) == Free(r) /\ report[r].state = "NEEDS_DECISION"

Become(v, act) == reviewer' = [reviewer EXCEPT ![v] = act]

\* releaseForAnalysis()
Release(r) == /\ AtGate(r)
              /\ Set(r, [report[r] EXCEPT !.state = "TRIAGING"])
              /\ queued' = queued \union {r}
              /\ UNCHANGED <<notices, hold, reviewer, contact, budget>>

\* denyAtGate(): an upload is answered by nobody.
Deny(r) == /\ AtGate(r) /\ report[r].kind # "email"
           /\ Set(r, [report[r] EXCEPT !.state = "DENIED", !.closed = "rejected"])
           /\ UNCHANGED <<notices, hold, reviewer, contact, queued, budget>>

\* rejectAtGate(): a reject goes on to its reply; so does one whose reply is
\* still owed.
RejectAtGate(v, r) ==
    /\ reviewer[v] = Idle /\ report[r].kind = "email"
    /\ \/ AtGate(r) /\ Set(r, [report[r] EXCEPT !.state = "DENIED", !.closed = "rejected"])
       \/ report[r].closed = "rejected" /\ "rejected" \notin trail[r] /\ UNCHANGED report
    /\ Become(v, [at |-> "reply", r |-> r, kind |-> "rejected"])
    /\ UNCHANGED <<notices, hold, contact, queued, budget>>

MarkSpam(r) == /\ AtGate(r) /\ report[r].kind = "email"
               /\ Set(r, [report[r] EXCEPT !.state = "DENIED", !.closed = "spam"])
               /\ UNCHANGED <<notices, hold, reviewer, contact, queued, budget>>

\* Mutant: the other report may itself be a duplicate.
BeginDuplicate_AnyOriginal(v, r, o) ==
    /\ reviewer[v] = Idle /\ o # r
    /\ AtGate(r)
    /\ report[o].state # "ABSENT"
    /\ Become(v, [at |-> "link", r |-> r, o |-> o])
    /\ UNCHANGED <<report, notices, hold, contact, queued, budget>>

\* markDuplicateAtGate(): the lock, and the unlocked read of the original.
BeginDuplicate(v, r, o) ==
    /\ reviewer[v] = Idle /\ o # r
    /\ AtGate(r)
    /\ report[o].state # "ABSENT" /\ report[o].dup = NoReport
    /\ Become(v, [at |-> "link", r |-> r, o |-> o])
    /\ UNCHANGED <<report, notices, hold, contact, queued, budget>>

\* The write waits for the original's row, whose key it references.
LinkDuplicate(v) ==
    /\ reviewer[v].at = "link"
    /\ Free(reviewer[v].o)
    /\ LET r == reviewer[v].r IN
         /\ Set(r, [report[r] EXCEPT !.dup = reviewer[v].o, !.state = "DENIED",
                                     !.closed = "duplicate"])
         /\ Become(v, [at |-> "reply", r |-> r, kind |-> "duplicate"])
    /\ UNCHANGED <<notices, hold, contact, queued, budget>>

\* The database ends a circle of waits, in which each is waited for by another,
\* by failing one of them.
Waits(v, u) == reviewer[v].at = "link" /\ LockedBy(u, reviewer[v].o)
Deadlocked(v) == \E ring \in SUBSET Reviewer :
                    v \in ring /\ \A u \in ring : \E x \in ring : Waits(x, u)
AbortDuplicate(v) == /\ Deadlocked(v)
                     /\ Become(v, Idle)
                     /\ UNCHANGED <<report, notices, hold, contact, queued, budget>>

\* Closed as this duplicate already: only the reply is left to send.
ResendDuplicate(v, r) ==
    /\ reviewer[v] = Idle
    /\ report[r].closed = "duplicate" /\ "duplicate" \notin trail[r]
    /\ Become(v, [at |-> "reply", r |-> r, kind |-> "duplicate"])
    /\ UNCHANGED <<report, notices, hold, contact, queued, budget>>

\* sendNotice() once the close has committed.
Reply(v) ==
    /\ reviewer[v].at = "reply"
    /\ LET r == reviewer[v].r  kind == reviewer[v].kind IN
         \/ /\ kind \notin trail[r] /\ report[r].kind = "email" /\ report[r].verified
            /\ mail' = [mail EXCEPT ![r] = @ \union {kind}]
            /\ Become(v, [reviewer[v] EXCEPT !.at = "record"])
         \/ Become(v, Idle) /\ UNCHANGED mail       \* already sent, refused or failed
    /\ UNCHANGED <<report, trail, hold, contact, queued, budget>>

RecordReply(v) ==
    /\ reviewer[v].at = "record" /\ Free(reviewer[v].r)
    /\ Note(reviewer[v].r, {reviewer[v].kind})
    /\ Become(v, Idle)
    /\ UNCHANGED <<report, mail, hold, contact, queued, budget>>

\* The request dies before its reply, or between the reply and its event.
DropReply(v) == /\ reviewer[v].at \in {"link", "reply", "record"}
                /\ Spend("crashes")
                /\ Become(v, Idle)
                /\ UNCHANGED <<report, notices, hold, contact, queued>>

GateAction(v) == \/ \E r \in Report : \/ RejectAtGate(v, r) \/ ResendDuplicate(v, r)
                                      \/ \E o \in Report : BeginDuplicate(v, r, o)
                 \/ LinkDuplicate(v) \/ AbortDuplicate(v)
                 \/ Reply(v) \/ RecordReply(v) \/ DropReply(v)

\* sweepExpiredReports(): nobody came.
Expire(r) == /\ Free(r) /\ report[r].state \in {"NEEDS_DECISION", "TRIAGING"}
             /\ Spend("expiries")
             /\ Set(r, [report[r] EXCEPT !.state = "EXPIRED"])
             /\ UNCHANGED <<notices, hold, reviewer, contact, queued>>

-----------------------------------------------------------------------------
(* An uploader proves the address given with the upload.                   *)

Ask(a, act) == asker' = [asker EXCEPT ![a] = act]

\* sendContactCode(): an address that is proven gets no new code.
AskCode(a, r) ==
    /\ asker[a] = Idle /\ report[r].kind = "upload" /\ ~report[r].verified
    /\ Spend("asks")
    /\ Ask(a, [at |-> "reserve", r |-> r, c |-> 0])
    /\ UNCHANGED <<report, notices, hold, reviewer, code, mailbox, strays, queued>>

\* A slot, under the report's row lock.
Reserve(a) ==
    /\ asker[a].at = "reserve" /\ Free(asker[a].r)
    /\ LET r == asker[a].r IN
         IF code[r].slots < maxCodeSends
         THEN /\ code' = [code EXCEPT ![r].slots = @ + 1]
              /\ Ask(a, [asker[a] EXCEPT !.at = "start"])
         ELSE UNCHANGED code /\ Ask(a, Idle)
    /\ UNCHANGED <<report, notices, hold, reviewer, mailbox, strays, queued, budget>>

Held == {asker[a].c : a \in {b \in Asker : asker[b] # Idle}} \union {code[r].live : r \in Report}
        \union UNION {mailbox[r] \union strays[r] : r \in Report}

\* startContactVerification(): a fresh code, and the earlier proof is gone.
StartVerification(a) ==
    /\ asker[a].at = "start" /\ Free(asker[a].r)
    /\ \E c \in Codes \ Held :
         /\ \A d \in Codes \ Held : c <= d
         /\ LET r == asker[a].r IN
              /\ code' = [code EXCEPT ![r].live = c, ![r].attempts = 0]
              /\ Set(r, [report[r] EXCEPT !.verified = FALSE])
              /\ Ask(a, [asker[a] EXCEPT !.at = "mail", !.c = c])
    /\ UNCHANGED <<notices, hold, reviewer, mailbox, strays, queued, budget>>

\* sendVerificationEmail(): a send that throws may have mailed the code all the
\* same, when the provider took it and its answer is lost.
MailCode(a) ==
    /\ asker[a].at = "mail"
    /\ LET r == asker[a].r  c == asker[a].c IN
         \/ /\ mailbox' = [mailbox EXCEPT ![r] = @ \union {c}]
            /\ Ask(a, Idle)
            /\ UNCHANGED <<strays, budget>>
         \/ /\ Spend("failedSends")
            /\ Ask(a, [asker[a] EXCEPT !.at = "refund"])
            /\ UNCHANGED strays \/ strays' = [strays EXCEPT ![r] = @ \union {c}]
            /\ UNCHANGED mailbox
    /\ UNCHANGED <<report, notices, hold, reviewer, code, queued>>

\* The failed send gives its slot back, whether or not the code went out.
Refund(a) ==
    /\ asker[a].at = "refund" /\ Free(asker[a].r)
    /\ code' = [code EXCEPT ![asker[a].r].slots = @ - 1]
    /\ Ask(a, Idle)
    /\ UNCHANGED <<report, notices, hold, reviewer, mailbox, strays, queued, budget>>

DropAsk(a) == /\ asker[a] # Idle
              /\ Spend("crashes")
              /\ Ask(a, Idle)
              /\ UNCHANGED <<report, notices, hold, reviewer, code, mailbox, strays, queued>>

\* confirmContactCode() with a code that was mailed.
Confirm(r, c) ==
    /\ Free(r) /\ report[r].kind = "upload" /\ ~report[r].verified
    /\ c \in mailbox[r] \union strays[r] /\ c = code[r].live
    /\ code[r].attempts < MAX_CODE_ATTEMPTS
    /\ Set(r, [report[r] EXCEPT !.verified = TRUE])
    /\ code' = [code EXCEPT ![r].live = 0, ![r].attempts = 0]
    /\ Note(r, {"contact_verified"})
    /\ UNCHANGED <<mail, hold, reviewer, asker, mailbox, strays, queued, budget>>

\* A wrong code, or one that a later code replaced.
Guess(r) ==
    /\ Free(r) /\ report[r].kind = "upload" /\ ~report[r].verified
    /\ code[r].live # 0 /\ code[r].attempts < MAX_CODE_ATTEMPTS
    /\ Spend("guesses")
    /\ code' = [code EXCEPT ![r].attempts = @ + 1]
    /\ UNCHANGED <<report, notices, hold, reviewer, asker, mailbox, strays, queued>>

SendCode(a) == Reserve(a) \/ StartVerification(a) \/ MailCode(a) \/ Refund(a)
Contact == \/ \E a \in Asker : SendCode(a) \/ DropAsk(a) \/ \E r \in Report : AskCode(a, r)
           \/ \E r \in Report : Guess(r) \/ \E c \in Codes : Confirm(r, c)

GateNext == \/ \E r \in Report : \/ HoldForDecision(r) \/ RetryHold(r)
                                 \/ Release(r) \/ Deny(r) \/ MarkSpam(r) \/ Expire(r)
            \/ \E v \in Reviewer : GateAction(v)
            \/ Contact

-----------------------------------------------------------------------------
(* The build.                                                              *)

CONSTANTS
    Builder,                \* processes calling buildUploadOnce
    MAX_BUILD_ATTEMPTS,
    MaxClaims               \* bound: claims of one upload

ASSUME BuildAssumption == MAX_BUILD_ATTEMPTS \in Nat \ {0} /\ MaxClaims \in Nat

VARIABLES
    intake,     \* build_state, build_attempts and the lease of the upload rows
    profile,    \* the build each upload's profile pins, 0 without a profile
    handle,     \* the target_onboarding row the agent works under
    builder,    \* each worker's claim and its next step
    starter,    \* retests between their two transactions
    verdict     \* the analysis: its outcome and the build it ran against

buildVars == <<intake, profile, handle, builder, starter, verdict>>
vars == <<gateVars, buildVars>>

Attempts == 0 .. MaxClaims
Undrafted == [outcome |-> "none", build |-> 0]
Verdict == [outcome : {"none", "REPRODUCED", "NOT_REPRODUCED", "ANALYSIS_ONLY"}, build : Attempts]
BuildStates == {"none", "PENDING", "BUILDING", "BUILT", "FAILED"}
IntakeRow == [state : BuildStates, attempts : Attempts, lease : {"none", "live", "expired"}]

Claimed == [at : {"giveup", "bound", "profile", "plan", "agent", "build", "configure", "rotate",
                  "bind", "done", "failed", "skipped"},
            r : Report, attempt : Attempts]

Init == /\ GateInit
        /\ intake = [r \in Report |-> [state |-> "none", attempts |-> 0, lease |-> "none"]]
        /\ profile = [r \in Report |-> 0]
        /\ handle = [r \in Report |-> "none"]
        /\ builder = [w \in Builder |-> Idle]
        /\ starter = {}
        /\ verdict = [r \in Report |-> Undrafted]

TypeOK == /\ GateTypeOK
          /\ intake \in [Report -> IntakeRow]
          /\ profile \in [Report -> Attempts]
          /\ handle \in [Report -> {"none", "UPLOAD_AGENT", "UPLOAD_DONE"}]
          /\ builder \in [Builder -> Claimed \union {Idle}]
          /\ starter \subseteq Report
          /\ verdict \in [Report -> Verdict]

-----------------------------------------------------------------------------
(* The reviewer's release, and a retest, which releases itself.            *)

Released(r) == intake' = [intake EXCEPT ![r] = [state |-> "PENDING", attempts |-> 0, lease |-> "none"]]

\* approveUploadTarget()
Approvable(r) == AtGate(r) /\ report[r].material /\ intake[r].state = "none"

Approve(r) ==
    /\ Approvable(r)
    /\ Spend("approvals")
    /\ Released(r)
    /\ Set(r, [report[r] EXCEPT !.state = "TRIAGING"])
    /\ UNCHANGED <<notices, hold, reviewer, contact, queued>>
    /\ UNCHANGED <<profile, handle, builder, starter, verdict>>

\* startRetest(): the child and its material, at the gate.
StartRetest(r) ==
    /\ report[r].state = "ABSENT"
    /\ Spend("retests")
    /\ Set(r, Filed("retest"))
    /\ starter' = starter \union {r}
    /\ UNCHANGED <<notices, hold, reviewer, contact, queued>>
    /\ UNCHANGED <<intake, profile, handle, builder, verdict>>

\* Its second transaction; a child somebody else has answered stays as it is.
ReleaseRetest(r) ==
    /\ r \in starter /\ Free(r)
    /\ starter' = starter \ {r}
    /\ IF Approvable(r)
       THEN Released(r) /\ Set(r, [report[r] EXCEPT !.state = "TRIAGING"])
       ELSE UNCHANGED <<intake, report>>
    /\ UNCHANGED <<notices, hold, reviewer, contact, queued, budget>>
    /\ UNCHANGED <<profile, handle, builder, verdict>>

\* The request dies between the two: the child waits at the gate.
DropRetest(r) == /\ r \in starter
                 /\ Spend("crashes")
                 /\ starter' = starter \ {r}
                 /\ UNCHANGED <<report, notices, hold, reviewer, contact, queued>>
                 /\ UNCHANGED <<intake, profile, handle, builder, verdict>>

-----------------------------------------------------------------------------
(* The build loop.                                                         *)

Go(w, at) == builder' = [builder EXCEPT ![w].at = at]
Fixed == UNCHANGED <<notices, hold, reviewer, contact>>

\* claim()
Claim(w) ==
    /\ builder[w] = Idle
    /\ \E r \in Report :
         /\ \/ intake[r].state = "PENDING"
            \/ intake[r].state = "BUILDING" /\ intake[r].lease = "expired"
         /\ intake[r].attempts < MaxClaims
         /\ LET n == intake[r].attempts + 1 IN
              /\ intake' = [intake EXCEPT ![r] = [state |-> "BUILDING", attempts |-> n, lease |-> "live"]]
              /\ builder' = [builder EXCEPT ![w] =
                               [at |-> IF n > MAX_BUILD_ATTEMPTS THEN "giveup" ELSE "bound",
                                r |-> r, attempt |-> n]]
    /\ UNCHANGED <<report, queued, budget, profile, handle, starter, verdict>> /\ Fixed

\* buildAndBind(): the report's own profile is an earlier attempt's success.
ReadBound(w) ==
    /\ builder[w].at = "bound"
    /\ Go(w, CASE report[builder[w].r].target = "own" -> "done"
               [] report[builder[w].r].target = "other" -> "skipped"
               [] OTHER -> "profile")
    /\ UNCHANGED <<report, queued, budget, intake, profile, handle, starter, verdict>> /\ Fixed

ReadProfile(w) ==
    /\ builder[w].at = "profile"
    /\ Go(w, IF profile[builder[w].r] # 0 THEN "bind" ELSE "plan")
    /\ UNCHANGED <<report, queued, budget, intake, profile, handle, starter, verdict>> /\ Fixed

\* The material has its own Dockerfile, goes to the agent, or cannot be planned.
Plan(w) ==
    /\ builder[w].at = "plan"
    /\ \/ Go(w, "build") /\ UNCHANGED handle
       \/ Go(w, "agent") /\ handle' = [handle EXCEPT ![builder[w].r] = "UPLOAD_AGENT"]
       \/ Go(w, "skipped") /\ UNCHANGED handle
    /\ UNCHANGED <<report, queued, budget, intake, profile, starter, verdict>> /\ Fixed

\* agentBuildPlan() ends: a plan, a thin recipe instead, or neither.
AgentDone(w) ==
    /\ builder[w].at = "agent"
    /\ handle' = [handle EXCEPT ![builder[w].r] = "UPLOAD_DONE"]
    /\ Go(w, "build") \/ Go(w, "skipped")
    /\ UNCHANGED <<report, queued, budget, intake, profile, starter, verdict>> /\ Fixed

Build(w) ==
    /\ builder[w].at = "build"
    /\ Go(w, "configure") \/ Go(w, "failed")
    /\ UNCHANGED <<report, queued, budget, intake, profile, handle, starter, verdict>> /\ Fixed

\* configureConnectionlessTarget(): the first to insert the profile wins.
Configure(w) ==
    /\ builder[w].at = "configure"
    /\ LET r == builder[w].r IN
         IF profile[r] = 0
         THEN profile' = [profile EXCEPT ![r] = builder[w].attempt] /\ Go(w, "bind")
         ELSE UNCHANGED profile /\ Go(w, "rotate")
    /\ UNCHANGED <<report, queued, budget, intake, handle, starter, verdict>> /\ Fixed

HoldsCurrentLease(w) == /\ intake[builder[w].r].state = "BUILDING"
                        /\ intake[builder[w].r].attempts = builder[w].attempt

\* rotateConnectionlessTarget(): only the holder of the current claim.
Rotate(w) ==
    /\ builder[w].at = "rotate"
    /\ LET r == builder[w].r IN
         IF profile[r] # 0 /\ HoldsCurrentLease(w)
         THEN profile' = [profile EXCEPT ![r] = builder[w].attempt] /\ Go(w, "bind")
         ELSE UNCHANGED profile /\ Go(w, "failed")
    /\ UNCHANGED <<report, queued, budget, intake, handle, starter, verdict>> /\ Fixed

\* The refusals of bindTarget() that depend on the report.
Bindable(r) == /\ report[r].state \notin Terminal \union {"NEEDS_DECISION"}
               /\ report[r].target = "none"

Bind(w) ==
    /\ builder[w].at = "bind" /\ Free(builder[w].r)
    /\ LET r == builder[w].r IN
         IF Bindable(r) /\ profile[r] # 0
         THEN Set(r, [report[r] EXCEPT !.target = "own"]) /\ Go(w, "done")
         ELSE UNCHANGED report /\ Go(w, "failed")
    /\ UNCHANGED <<queued, budget, intake, profile, handle, starter, verdict>> /\ Fixed

\* A reviewer picks some other target by hand.
BindOther(r) ==
    /\ Free(r) /\ report[r].state # "ABSENT" /\ Bindable(r)
    /\ Spend("binds")
    /\ Set(r, [report[r] EXCEPT !.target = "other"])
    /\ UNCHANGED <<queued, buildVars>> /\ Fixed

Outcome(w) ==
    CASE builder[w].at = "done" -> "BUILT"
      [] builder[w].at \in {"giveup", "skipped"} -> "FAILED"
      [] OTHER -> IF \/ report[builder[w].r].kind = "retest"
                     \/ builder[w].attempt >= MAX_BUILD_ATTEMPTS THEN "FAILED" ELSE "PENDING"

\* Mutant: a failed build is recorded and its analysis is not queued.
Finish_NoJob(w) ==
    /\ builder[w].at \in {"giveup", "done", "failed", "skipped"}
    /\ builder' = [builder EXCEPT ![w] = Idle]
    /\ LET r == builder[w].r IN
         IF HoldsCurrentLease(w)
         THEN /\ intake' = [intake EXCEPT ![r].state = Outcome(w), ![r].lease = "none"]
              /\ queued' = IF Outcome(w) = "BUILT" THEN queued \union {r} ELSE queued
         ELSE UNCHANGED <<intake, queued>>
    /\ UNCHANGED <<report, budget, profile, handle, starter, verdict>> /\ Fixed

\* finish(): the outcome and, unless it is tried again, the analysis job.
Finish(w) ==
    /\ builder[w].at \in {"giveup", "done", "failed", "skipped"}
    /\ builder' = [builder EXCEPT ![w] = Idle]
    /\ LET r == builder[w].r IN
         IF HoldsCurrentLease(w)
         THEN /\ intake' = [intake EXCEPT ![r].state = Outcome(w), ![r].lease = "none"]
              /\ queued' = IF Outcome(w) = "PENDING" THEN queued ELSE queued \union {r}
         ELSE UNCHANGED <<intake, queued>>
    /\ UNCHANGED <<report, budget, profile, handle, starter, verdict>> /\ Fixed

\* The process dies, or a shutdown aborts the build: the row stays BUILDING.
Crash(w) == /\ builder[w] # Idle
            /\ Spend("crashes")
            /\ builder' = [builder EXCEPT ![w] = Idle]
            /\ UNCHANGED <<report, queued, intake, profile, handle, starter, verdict>> /\ Fixed

Held_(r) == \E w \in Builder : builder[w] # Idle /\ builder[w].r = r /\ HoldsCurrentLease(w)

\* Sixty minutes: a build that runs on has been slow, one that died has not.
Lapse(r) ==
    /\ intake[r].state = "BUILDING" /\ intake[r].lease = "live"
    /\ IF Held_(r) THEN Spend("lapses") ELSE UNCHANGED budget
    /\ intake' = [intake EXCEPT ![r].lease = "expired"]
    /\ UNCHANGED <<report, queued, profile, handle, builder, starter, verdict>> /\ Fixed

BuildStep(w) == \/ ReadBound(w) \/ ReadProfile(w) \/ Plan(w) \/ AgentDone(w) \/ Build(w)
                \/ Configure(w) \/ Rotate(w) \/ Bind(w) \/ Finish(w)

-----------------------------------------------------------------------------
(* After the build.                                                        *)

Ends(r, state, outcome, n) ==
    /\ Set(r, [report[r] EXCEPT !.state = state])
    /\ verdict' = [verdict EXCEPT ![r] = [outcome |-> outcome, build |-> n]]

\* The analysis job: a reproduction against the bound target, or the static
\* review, which finds nothing to read in some material.  A target a reviewer
\* bound by hand is reproduced against as well; it is no build of this report.
\* A report that has left TRIAGING gets none (parseGateRelease()).
Analyse(r) ==
    /\ r \in queued /\ Free(r)
    /\ queued' = queued \ {r}
    /\ \/ report[r].state # "TRIAGING" /\ UNCHANGED <<report, verdict>>
       \/ /\ report[r].state = "TRIAGING" /\ report[r].target = "own"
          /\ \E outcome \in {"REPRODUCED", "NOT_REPRODUCED", "ANALYSIS_ONLY"} :
               Ends(r, "ANALYSIS_ONLY", outcome, profile[r])
       \/ /\ report[r].state = "TRIAGING" /\ report[r].target = "other"
          /\ \E outcome \in {"REPRODUCED", "NOT_REPRODUCED", "ANALYSIS_ONLY"} :
               Ends(r, "ANALYSIS_ONLY", outcome, 0)
       \/ /\ report[r].state = "TRIAGING" /\ report[r].target # "own"
          /\ \/ Ends(r, "ANALYSIS_ONLY", "ANALYSIS_ONLY", 0)
             \/ Ends(r, "OUT_OF_SCOPE", "none", 0)
    /\ UNCHANGED <<budget, intake, profile, handle, builder, starter>> /\ Fixed

\* deriveRetestResult(): what the panel shows of a child.
RetestResult(r) ==
    CASE verdict[r].outcome = "REPRODUCED" -> "NOT_FIXED"
      [] verdict[r].outcome = "NOT_REPRODUCED" -> "FIXED"
      [] verdict[r].outcome = "ANALYSIS_ONLY" -> "INCONCLUSIVE"
      [] OTHER -> IF intake[r].state = "FAILED" \/ report[r].state \in Terminal
                  THEN "INCONCLUSIVE" ELSE "open"

\* quarantineStaleTargetProfile(): an operator takes the profile away.
Quarantine(r) ==
    /\ profile[r] # 0 /\ Free(r)
    /\ report[r].target = "own" => report[r].state = "TRIAGING" /\ verdict[r] = Undrafted
    /\ Spend("quarantines")
    /\ profile' = [profile EXCEPT ![r] = 0]
    /\ IF report[r].target = "own"
       THEN \E to \in {"ANALYSIS_ONLY", "OUT_OF_SCOPE"} :
              Set(r, [report[r] EXCEPT !.state = to, !.target = "none"])
       ELSE UNCHANGED report
    /\ UNCHANGED <<queued, intake, handle, builder, starter, verdict>> /\ Fixed

BuildNext == \/ \E r \in Report : \/ Approve(r) \/ StartRetest(r) \/ ReleaseRetest(r) \/ DropRetest(r)
                                  \/ BindOther(r) \/ Lapse(r) \/ Analyse(r) \/ Quarantine(r)
             \/ \E w \in Builder : Claim(w) \/ BuildStep(w) \/ Crash(w)

Next == (GateNext /\ UNCHANGED buildVars) \/ BuildNext

\* The build loop and the job queue keep running; a lease whose holder is gone
\* runs out.  Nothing is assumed of people.
Fairness == /\ \A w \in Builder : WF_vars(Claim(w)) /\ WF_vars(BuildStep(w))
            /\ \A r \in Report : WF_vars(Lapse(r) /\ ~Held_(r)) /\ WF_vars(Analyse(r))
            /\ \A v \in Reviewer : WF_vars((LinkDuplicate(v) \/ AbortDuplicate(v)) /\ UNCHANGED buildVars)

Spec == Init /\ [][Next]_vars /\ Fairness

-----------------------------------------------------------------------------
(* Properties.                                                             *)

\* Two reviewers who link reports to each other at the same moment do not
\* close both: of two reports at least one is not closed in favour of the
\* other, so somebody still reads it (markDuplicateAtGate()).  A circle of three
\* does close: the read of the original is not repeated after the wait.
NoMutualDuplicates == \A r, o \in Report : ~(report[r].dup = o /\ report[o].dup = r)

\* The triage advice of holdForDecision() is recorded only on a report that
\* still waits for the decision it is advice for.
AdviceIsInTime == \A r \in Report : "triaged" \in trail'[r] \ trail[r]
                                         => report[r].state = "NEEDS_DECISION"

\* Of the codes a report's contact is mailed, at most maxCodeSends are of sends
\* that succeeded, however its requests race, fail and give slots back: beyond
\* the cap go only the codes of sends that reported failure (sendContactCode()).
CodesWithinCap == \A r \in Report : Cardinality(mailbox[r]) <= maxCodeSends

\* A verdict that says whether the bug reproduces keeps the build it is about:
\* a slow worker whose claim was taken over does not repoint the profile after
\* the analysis ran on it (bindConnectionlessTargetFromBuild).  Only a report
\* somebody bound to another target by hand has a verdict about none of its own.
JudgedIsPinned == \A r \in Report :
    verdict[r].outcome \in {"REPRODUCED", "NOT_REPRODUCED"}
      => IF report[r].target = "other" THEN verdict[r].build = 0
         ELSE profile[r] = verdict[r].build /\ profile[r] # 0

\* A build recorded as BUILT left the report bound to a pinned profile of its
\* own; only a quarantine, which takes the report out of TRIAGING, undoes it.
BuiltIsBound == \A r \in Report :
    intake[r].state = "BUILT" /\ report[r].state = "TRIAGING"
      => report[r].target = "own" /\ profile[r] # 0

\* What a reviewer released is analysed, whatever fails on the way and
\* whichever workers die ("Whatever happens, the report then gets the same
\* analysis run", src/lib/upload/build.ts:24), unless somebody takes the report
\* out of triage first; and a retest comes to a result.
ReleasedIsAnalysed ==
    /\ [][AdviceIsInTime]_gateVars
    /\ \A r \in Report : intake[r].state = "PENDING" ~>
         /\ report[r].state # "TRIAGING"
         /\ report[r].kind = "retest" => RetestResult(r) # "open"

\* No report is lost between the gate and its target: no two are closed in
\* favour of each other, a build that is BUILT is bound, a verdict keeps the
\* build it is about, and no contact is mailed more codes than its cap by sends
\* that succeed.
NothingFallsThrough ==
    TypeOK /\ NoMutualDuplicates /\ BuiltIsBound /\ JudgedIsPinned /\ CodesWithinCap
=============================================================================
