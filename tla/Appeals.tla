------------------------------- MODULE Appeals -------------------------------
(***************************************************************************)
(* A reporter contests a delivered verdict (lib/appeals/appeals.ts): the   *)
(* report's contact asks for one-time codes, files an appeal with one, and *)
(* reviewers move it forward.  Who may is the reviewer allowlist           *)
(* (lib/auth/reviewers.ts), whose members prove their address by a code of *)
(* the same kind.  One report, one delivered verdict.  It is the third     *)
(* door to the outside, beside the two of Intake.                          *)
(***************************************************************************)
EXTENDS Intake, Sequences

CONSTANTS
    Applicant,      \* submissions under way at once
    Owner,          \* REVIEWER_EMAILS
    Member,         \* addresses an owner may add
    Address,        \* client addresses
    PerAddress,     \* APPEAL_LIMITS.perAddressPerDay (10)
    MaxCodes,       \* APPEAL_LIMITS.maxCodesPerReportPerDay (3)
    MaxTries,       \* MAX_CODE_ATTEMPTS (5)
    AppealWorlds    \* bound: the settings a run combines (see AppealWorld)

\* How many codes are asked for, how often the contact loses its proof or a
\* day passes, how many codes a member is sent, and how often roles change.
AppealWorld == [asks : Nat, unproofs : Nat, days : Nat, invites : Nat, edits : Nat]

ASSUME OwnerAssumption == Owner \cap Member = {}
ASSUME CapAssumption == {PerAddress, MaxCodes, MaxTries} \subseteq Nat \ {0}
ASSUME AppealWorldAssumption == AppealWorlds \subseteq AppealWorld

VARIABLES
    delivered,      \* the verdict's delivered_at is set
    proven,         \* the contact is the proven recipient
    code,           \* the appeal_code rows, oldest first
    applicant,      \* each submission's next step and the row it chose
    appeal,         \* the appeal rows, oldest first
    member,         \* the reviewer rows
    desk,           \* each member's request and what it has read
    tries,          \* history: wrong codes entered, by appeal_code row
    appeals         \* the setting, with the events still to happen

appealVars == <<delivered, proven, code, applicant, appeal, member, desk, tries, appeals>>

\* hash: code_hash is set; timed: expires_at is set; today: less than a day old.
Code == [hash : BOOLEAN, timed : BOOLEAN, fresh : BOOLEAN, today : BOOLEAN, mailed : BOOLEAN,
         attempts : Nat, ip : Address]

Nobody == [row |-> FALSE, role |-> "member", verified |-> FALSE, code |-> 0, attempts |-> 0]
Free == [phase |-> "idle"]
Uses(field) == appeals[field] > 0 /\ appeals' = [appeals EXCEPT ![field] = @ - 1]

AppealInit ==
    /\ appeals \in AppealWorlds
    /\ delivered = FALSE
    /\ proven = TRUE
    /\ code = <<>>
    /\ applicant = [a \in Applicant |-> Free]
    /\ appeal = <<>>
    /\ member = [m \in Member |-> Nobody]
    /\ desk = [m \in Member \union Owner |-> Free]
    /\ tries = <<>>

-----------------------------------------------------------------------------
(* The contact. *)

Eligible == delivered /\ proven

\* A spent code still counts: expires_at stays set.
CodesToday == {c \in DOMAIN code : code[c].today /\ code[c].timed}

\* requestAppealCode, in one transaction under a global lock: every request
\* writes a row, also the ones nothing is mailed for.  The mail goes out
\* after the response and may be lost.
RequestCode(ip) ==
    /\ Uses("asks")
    /\ Cardinality({c \in DOMAIN code : code[c].today /\ code[c].ip = ip}) < PerAddress
    /\ LET mails == Eligible /\ Cardinality(CodesToday) < MaxCodes
       IN \E sent \in {mails, FALSE} :
            code' = Append(code, [hash |-> mails, timed |-> mails, fresh |-> mails,
                                  today |-> TRUE, mailed |-> sent, attempts |-> 0, ip |-> ip])
    /\ tries' = Append(tries, 0)
    /\ UNCHANGED <<delivered, proven, applicant, appeal, member, desk>>

\* submitAppeal: the newest row whose hash is set, for update: a submission
\* that finds it locked waits.
ChooseCode(a) ==
    /\ applicant[a] = Free
    /\ \E c \in DOMAIN code :
         /\ code[c].hash
         /\ \A later \in DOMAIN code : later > c => ~code[later].hash
         /\ applicant' = [applicant EXCEPT ![a] = [phase |-> "locked", c |-> c, seen |-> code[c]]]
    /\ UNCHANGED <<delivered, proven, code, appeal, member, desk, tries, appeals>>

\* Once it has the lock the database reads the row again.
Current(a) == code[applicant[a].c]

Active == \E k \in DOMAIN appeal : appeal[k].status # "CLOSED"

\* The rest of the transaction.  A wrong code is counted.  A right one is
\* spent first, also when the appeal is then refused; only a second appeal
\* on the verdict rolls it back.
AnswerCode(a, right) ==
    /\ applicant[a] # Free
    /\ applicant' = [applicant EXCEPT ![a] = Free]
    /\ LET c == applicant[a].c
           now == Current(a)
           usable == now.hash /\ now.fresh /\ now.attempts < MaxTries
           files == Eligible /\ ~Active
           rollsBack == Eligible /\ Active
       IN /\ right => code[c].mailed
          /\ IF ~usable THEN UNCHANGED <<code, appeal, tries>>
             ELSE IF ~right
             THEN /\ code' = [code EXCEPT ![c].attempts = now.attempts + 1]
                  /\ tries' = [tries EXCEPT ![c] = @ + 1]
                  /\ UNCHANGED appeal
             ELSE /\ code' = IF rollsBack THEN code ELSE [code EXCEPT ![c].hash = FALSE]
                  /\ appeal' = IF files THEN Append(appeal, [status |-> "OPEN", code |-> c])
                                        ELSE appeal
                  /\ UNCHANGED tries
    /\ UNCHANGED <<delivered, proven, member, desk, appeals>>

-----------------------------------------------------------------------------
(* The allowlist, and what a member does with it. *)

\* isReviewerWriter
Writes(m) ==
    m \notin Owner => member[m].row /\ member[m].verified /\ member[m].role # "read_only"

\* startVerification: the row is read, then written by address.  An owner's
\* second request overwrites the code; a verified member stays verified.
Invite(m) ==
    /\ Uses("invites")
    /\ ~(member[m].row /\ member[m].verified)
    /\ member' = [member EXCEPT ![m] = [row |-> TRUE, role |-> @.role, verified |-> @.verified,
                                        code |-> appeals.invites, attempts |-> 0]]
    /\ UNCHANGED <<delivered, proven, code, applicant, appeal, desk, tries>>

\* verifyCode reads the row; nothing locks it.  A code that has expired is
\* refused here: one that has not been answered yet may still be.
ReadMember(m) ==
    /\ desk[m] = Free
    /\ member[m].row /\ ~member[m].verified /\ member[m].code # 0
    /\ desk' = [desk EXCEPT ![m] = [phase |-> "verify", seen |-> member[m]]]
    /\ UNCHANGED <<delivered, proven, code, applicant, appeal, member, tries, appeals>>

\* It judges the code against what it read and writes by address.
VerifyMember(m, right) ==
    /\ desk[m].phase = "verify"
    /\ desk' = [desk EXCEPT ![m] = Free]
    /\ LET seen == desk[m].seen
       IN member' = IF ~member[m].row \/ seen.attempts >= MaxTries THEN member
                    ELSE IF right THEN [member EXCEPT ![m].verified = TRUE, ![m].code = 0,
                                                      ![m].attempts = 0]
                    ELSE [member EXCEPT ![m].attempts = seen.attempts + 1]
    /\ UNCHANGED <<delivered, proven, code, applicant, appeal, tries, appeals>>

SetRole(m, role) ==
    /\ Uses("edits")
    /\ member[m].row
    /\ member' = [member EXCEPT ![m].role = role]
    /\ UNCHANGED <<delivered, proven, code, applicant, appeal, desk, tries>>

RemoveMember(m) ==
    /\ Uses("edits")
    /\ member[m].row
    /\ member' = [member EXCEPT ![m] = Nobody]
    /\ UNCHANGED <<delivered, proven, code, applicant, appeal, desk, tries>>

\* resolveAppeal: the role, then one conditional update.
CheckWriter(m) ==
    /\ desk[m] = Free
    /\ Writes(m)
    /\ appeal # <<>>
    /\ desk' = [desk EXCEPT ![m] = [phase |-> "resolve"]]
    /\ UNCHANGED <<delivered, proven, code, applicant, appeal, member, tries, appeals>>

\* Forward only: OPEN to ACKNOWLEDGED, either to CLOSED.
ResolveAppeal(m) ==
    /\ desk[m].phase = "resolve"
    /\ desk' = [desk EXCEPT ![m] = Free]
    /\ \E k \in DOMAIN appeal :
         \/ /\ appeal[k].status = "OPEN"
            /\ appeal' = [appeal EXCEPT ![k].status = "ACKNOWLEDGED"]
         \/ /\ appeal[k].status # "CLOSED"
            /\ appeal' = [appeal EXCEPT ![k].status = "CLOSED"]
         \/ UNCHANGED appeal
    /\ UNCHANGED <<delivered, proven, code, applicant, member, tries, appeals>>

-----------------------------------------------------------------------------
(* Time, the delivery and the contact's proof. *)

\* CODE_TTL_MS is ten minutes.
ExpireCode(c) ==
    /\ code[c].fresh
    /\ code' = [code EXCEPT ![c].fresh = FALSE]
    /\ UNCHANGED <<delivered, proven, applicant, appeal, member, desk, tries, appeals>>

NextDay ==
    /\ Uses("days")
    /\ code' = [c \in DOMAIN code |-> [code[c] EXCEPT !.today = FALSE, !.fresh = FALSE]]
    /\ UNCHANGED <<delivered, proven, applicant, appeal, member, desk, tries>>

\* The transport's receipt sets delivered_at, for good.
Delivered ==
    /\ ~delivered
    /\ delivered' = TRUE
    /\ UNCHANGED <<proven, code, applicant, appeal, member, desk, tries, appeals>>

\* startContactVerification clears the proof; the code it mailed restores it.
Unprove ==
    /\ proven
    /\ Uses("unproofs")
    /\ proven' = FALSE
    /\ UNCHANGED <<delivered, code, applicant, appeal, member, desk, tries>>

Reprove ==
    /\ ~proven
    /\ proven' = TRUE
    /\ UNCHANGED <<delivered, code, applicant, appeal, member, desk, tries, appeals>>

AppealNext ==
    \/ \E ip \in Address : RequestCode(ip)
    \/ \E c \in DOMAIN code : ExpireCode(c)
    \/ \E a \in Applicant : ChooseCode(a) \/ \E right \in BOOLEAN : AnswerCode(a, right)
    \/ \E m \in Member : \/ Invite(m) \/ ReadMember(m)
                         \/ \E right \in BOOLEAN : VerifyMember(m, right)
                         \/ \E role \in {"member", "read_only"} : SetRole(m, role)
                         \/ RemoveMember(m)
    \/ \E m \in Member \union Owner : CheckWriter(m) \/ ResolveAppeal(m)
    \/ NextDay \/ Delivered \/ Unprove \/ Reprove

AppealSpec == AppealInit /\ [][AppealNext]_appealVars

-----------------------------------------------------------------------------

AppealTypeOK ==
    /\ delivered \in BOOLEAN /\ proven \in BOOLEAN
    /\ code \in Seq(Code) /\ tries \in Seq(Nat) /\ Len(tries) = Len(code)
    /\ \A a \in Applicant : applicant[a] = Free \/ applicant[a].c \in DOMAIN code
    /\ \A k \in DOMAIN appeal : /\ appeal[k].status \in {"OPEN", "ACKNOWLEDGED", "CLOSED"}
                                /\ appeal[k].code \in DOMAIN code
    /\ member \in [Member -> [row : BOOLEAN, role : {"member", "read_only"}, verified : BOOLEAN,
                              code : Nat, attempts : 0 .. MaxTries]]
    /\ \A m \in Member \union Owner : desk[m].phase \in {"idle", "verify", "resolve"}

(***************************************************************************)
(* submitAppeal, "Single use: spent before anything else can fail": a code *)
(* files one appeal at most, also when two submissions carry it at once    *)
(* and the first appeal was closed in between, and an appeal that is not   *)
(* closed is the only one on the verdict.                                  *)
(***************************************************************************)
CodeFilesOnce ==
    \A j, k \in DOMAIN appeal : j < k => /\ appeal[j].code # appeal[k].code
                                         /\ appeal[j].status = "CLOSED"

(***************************************************************************)
(* MAX_CODE_ATTEMPTS and maxCodesPerReportPerDay: in a day a report's      *)
(* contact is mailed so many codes at most, and each of them takes so many *)
(* wrong answers, however the submissions overlap.                         *)
(***************************************************************************)
GuessesAreBounded ==
    /\ Cardinality({c \in DOMAIN code : code[c].today /\ code[c].mailed}) <= MaxCodes
    /\ \A c \in DOMAIN code : tries[c] <= MaxTries

\* What strangers can make the program do stays within its counts: no cap of
\* the intake is passed (outside-intake.ts, upload/intake.ts), and one code
\* files one appeal and takes so many guesses (appeals.ts: submitAppeal).
OutsideIsBounded ==
    IntakeTypeOK /\ AppealTypeOK /\ CapsHold /\ CodeFilesOnce /\ GuessesAreBounded

=============================================================================
