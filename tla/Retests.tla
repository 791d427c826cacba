------------------------------ MODULE Retests ------------------------------
(***************************************************************************)
(* Fix-verification retests as the original reports see them:              *)
(* src/lib/retests/retest.ts and push-suggestion.ts, with the panel and    *)
(* the server action that start one.                                       *)
(*                                                                         *)
(* An original is a report with an approved REPRODUCED verdict; that       *)
(* verdict is its last, so it stands for both.  Material is known by its   *)
(* identity anchor.  What the child's build goes through is in UploadBuild;*)
(* here it ends, and only the target the child runs against matters.       *)
(***************************************************************************)
EXTENDS Naturals

CONSTANTS
    Original, Connected,           \* reports; those bound through a repository
    Material, KindOf,              \* material by its anchor; archive, image or git
    NoMaterial,
    Starter,                       \* requests to start a retest
    MaxChildren,                   \* bound: child reports
    MaxChanges                     \* bound: changes of originals and choices about children together

ASSUME RetestAssumption ==
    /\ Connected \subseteq Original
    /\ KindOf \in [Material -> {"archive", "image", "git"}]
    /\ NoMaterial \notin Material
    /\ MaxChildren \in Nat \ {0} /\ MaxChanges \in Nat

VARIABLES
    original,   \* each original's state, its repository's grant, the commit last pushed
    child,      \* the child reports with their retest and upload_intake rows
    asking,    \* each request: what it read and where it is
    changes     \* changes and moves so far

retestVars == <<original, child, asking, changes>>

Child == 1 .. MaxChildren
NoChild == [state |-> "ABSENT", build |-> "none", target |-> "none", outcome |-> "none"]
Unasked == [pc |-> "idle"]
Retestable == {"DELIVERING", "DELIVERED"}

RetestTypeOK ==
    /\ \A o \in Original : /\ original[o].state \in Retestable \union {"CANCELLED"}
                           /\ original[o].pushed \in Material \union {NoMaterial}
    /\ changes \in 0..MaxChanges
    /\ \A c \in Child : child[c].target \in {"none", "own", "other"}
    /\ \A s \in Starter : asking[s].pc \in {"idle", "open", "approve", "refused"}

RetestInit ==
    /\ original \in [Original -> [state : {"DELIVERING"}, grant : {TRUE}, private : BOOLEAN, contents : BOOLEAN,
                                  pushed : {NoMaterial}]]
    /\ changes = 0
    /\ \A o \in Original : /\ original[o].private => o \in Connected
                           /\ original[o].private \/ original[o].contents
    /\ child = [c \in Child |-> NoChild]
    /\ asking = [s \in Starter |-> Unasked]

Children == {c \in Child : child[c].state # "ABSENT"}
Put(c, r) == child' = [child EXCEPT ![c] = r]

-----------------------------------------------------------------------------
(***************************************************************************)
(* What changes around a retest: the delivery lands or is cancelled, the   *)
(* repository's grant comes and goes, a commit is pushed.                  *)
(***************************************************************************)
ChangeOriginal(o, r) ==
    /\ changes < MaxChanges /\ changes' = changes + 1
    /\ original' = [original EXCEPT ![o] = r]
    /\ UNCHANGED <<child, asking>>

DeliveryMoves(o) ==
    /\ original[o].state = "DELIVERING"
    /\ \E to \in {"DELIVERED", "CANCELLED"} : ChangeOriginal(o, [original[o] EXCEPT !.state = to])
Regrant(o) == o \in Connected /\ ChangeOriginal(o, [original[o] EXCEPT !.grant = ~@])
Pushed(o) ==
    /\ o \in Connected
    /\ \E m \in Material : /\ KindOf[m] = "git" /\ m # original[o].pushed
                           /\ ChangeOriginal(o, [original[o] EXCEPT !.pushed = m])

-----------------------------------------------------------------------------
(***************************************************************************)
(* startRetest: the checks, read outside any transaction, then the child   *)
(* and its rows in one, then its approval in another.                      *)
(***************************************************************************)
\* startGitRetest clones from the connected repository, a private one only with
\* Contents granted; startUploadRetest is for a report without a repository.
AcceptsCommit(o, m) == /\ o \in Connected /\ KindOf[m] = "git"
                       /\ original[o].private => original[o].contents
                       /\ original[o].grant
AcceptsUpload(o) == o \notin Connected
\* Left out: the refusals for what the original target's settings hold (no port,
\* no readiness path, none that validate).  A refusal writes nothing, so
\* here more retests start than do.
Accepts(o, m) == original[o].state \in Retestable /\ (AcceptsCommit(o, m) \/ AcceptsUpload(o))

AskRetest(s, o, m) ==
    /\ asking[s].pc \in {"idle", "refused"} /\ Accepts(o, m)
    /\ asking' = [asking EXCEPT ![s] = [pc |-> "open", o |-> o, m |-> m]]
    /\ UNCHANGED <<original, child, changes>>

SameMaterial(c, m) == child[c].m = m
\* The condition as the query builder writes it out: and() joins its terms
\* without parentheses, so only the archive's term is limited to the verdict.
Retested(o, m) ==
    \E c \in Children :
        IF o \in Connected THEN child[c].o = o /\ SameMaterial(c, m)
        ELSE \/ child[c].o = o /\ KindOf[m] = "archive" /\ SameMaterial(c, m)
             \/ KindOf[m] \in {"image", "git"} /\ SameMaterial(c, m)

NewChild(ask) == [state |-> "NEEDS_DECISION", build |-> "none", target |-> "none", outcome |-> "none",
                  o |-> ask.o, m |-> ask.m]

\* Mutant: the request's own snapshot decides, not what the lock protects.
OpenRetest_AsRead(s) ==
    /\ asking[s].pc = "open"
    /\ \E c \in Child : /\ child[c].state = "ABSENT" /\ (c = 1 \/ c - 1 \in Children)
                        /\ Put(c, NewChild(asking[s]))
                        /\ asking' = [asking EXCEPT ![s] = [pc |-> "approve", c |-> c]]
    /\ UNCHANGED <<original, changes>>

\* Under the advisory lock of the original verdict; nothing an earlier check
\* read is read again.
OpenRetest(s) ==
    /\ asking[s].pc = "open"
    /\ IF Retested(asking[s].o, asking[s].m)
       THEN asking' = [asking EXCEPT ![s].pc = "refused"] /\ UNCHANGED child
       ELSE \E c \in Child :
                /\ child[c].state = "ABSENT" /\ (c = 1 \/ c - 1 \in Children)
                /\ Put(c, NewChild(asking[s]))
                /\ asking' = [asking EXCEPT ![s] = [pc |-> "approve", c |-> c]]
    /\ UNCHANGED <<original, changes>>

ReleasedChild(c) == [child[c] EXCEPT !.state = "TRIAGING", !.build = "PENDING"]

\* A child that somebody answered at the gate in between is left as it is:
\* the transition to DENIED fails and is swallowed.
ApproveChild(s) ==
    /\ asking[s].pc = "approve"
    /\ LET c == asking[s].c IN
       IF child[c].state = "NEEDS_DECISION" THEN Put(c, ReleasedChild(c)) ELSE UNCHANGED child
    /\ asking' = [asking EXCEPT ![s] = Unasked]
    /\ UNCHANGED <<original, changes>>

\* The request dies, or its second transaction throws: nobody closes the child.
Drop(s) ==
    /\ asking[s].pc \in {"open", "approve"}
    /\ asking' = [asking EXCEPT ![s] = Unasked]
    /\ UNCHANGED <<original, child, changes>>

-----------------------------------------------------------------------------
(***************************************************************************)
(* The child is a report like any other.                                   *)
(***************************************************************************)
MoveChild(c, r) ==
    /\ changes < MaxChanges /\ changes' = changes + 1
    /\ Put(c, r) /\ UNCHANGED <<original, asking>>

AnswerChild(c) ==
    /\ child[c].state = "NEEDS_DECISION"
    /\ \/ MoveChild(c, ReleasedChild(c))
       \/ MoveChild(c, [child[c] EXCEPT !.state = "TRIAGING"])
       \/ MoveChild(c, [child[c] EXCEPT !.state = "DENIED"])

\* A build that fails is final for a retest, and one that loses its report's
\* target to a reviewer's choice binds nothing.
BuildChild(c) ==
    /\ child[c].build = "PENDING"
    /\ \/ MoveChild(c, [child[c] EXCEPT !.build = "FAILED"])
       \/ MoveChild(c, [child[c] EXCEPT !.build = "BUILT", !.target = IF @ = "none" THEN "own" ELSE @])

BindChild(c) ==
    /\ child[c].state \in {"TRIAGING", "DRAFTED"} /\ child[c].target = "none"
    /\ MoveChild(c, [child[c] EXCEPT !.target = "other"])

\* A verdict of the first run or of a re-check; without a target it can only
\* be an analysis, which a result reads like an inconclusive one.
DraftChild(c) ==
    /\ child[c].state \in {"TRIAGING", "DRAFTED"} /\ child[c].build # "PENDING"
    /\ child[c].outcome # "REPRODUCED"
    /\ \E outcome \in {"REPRODUCED", "NOT_REPRODUCED", "INCONCLUSIVE"} :
         /\ child[c].target = "none" => outcome = "INCONCLUSIVE"
         /\ Put(c, [child[c] EXCEPT !.state = "DRAFTED", !.outcome = outcome])
    /\ UNCHANGED <<original, asking, changes>>

CloseChild(c) ==
    /\ child[c].state = "DRAFTED"
    /\ MoveChild(c, [child[c] EXCEPT !.state = "DENIED"])

RetestNext ==
    \/ \E o \in Original : DeliveryMoves(o) \/ Regrant(o) \/ Pushed(o)
    \/ \E s \in Starter : \/ \E o \in Original, m \in Material : AskRetest(s, o, m)
                          \/ OpenRetest(s) \/ ApproveChild(s) \/ Drop(s)
    \/ \E c \in Children : \/ AnswerChild(c) \/ BuildChild(c) \/ BindChild(c) \/ DraftChild(c)
                       \/ CloseChild(c)

RetestsSpec == RetestInit /\ [][RetestNext]_retestVars

-----------------------------------------------------------------------------
(***************************************************************************)
(* What the case file shows of them.                                       *)
(***************************************************************************)

\* canOfferRetest: the panel has its form, for a commit or for material.
Offered(o) == original[o].state \in Retestable /\ (o \in Connected => original[o].grant)
PanelStarts(o) == {m \in Material : Offered(o) /\ (o \in Connected => KindOf[m] = "git")}

\* readPushSuggestion: one click on a commit, where the target's pin is older.
Suggested(o) ==
    /\ o \in Connected /\ ~original[o].private /\ original[o].pushed # NoMaterial
    /\ original[o].state \in Retestable /\ original[o].grant
    /\ ~\E c \in Children : child[c].o = o /\ SameMaterial(c, original[o].pushed)

-----------------------------------------------------------------------------
(***************************************************************************)
(* Properties                                                              *)
(***************************************************************************)
\* One retest per verdict and material, whatever requests run at once and
\* wherever one dies (retest.ts: the lock "serializes concurrent retests").
OnePerMaterial ==
    \A c, d \in Children : c # d => child[c].o # child[d].o \/ ~SameMaterial(c, child[d].m)

\* A commit the case file suggests is one startRetest takes and no earlier
\* retest of the verdict has, and what the panel can start is accepted but for a
\* private repository whose Contents were not granted.
SuggestionCanStart ==
    \A o \in Original :
        /\ Suggested(o) => Accepts(o, original[o].pushed) /\ ~Retested(o, original[o].pushed)
        /\ \A m \in PanelStarts(o) :
              Accepts(o, m) \/ (original[o].private /\ ~original[o].contents)

\* The two together.
RetestsAreSound == RetestTypeOK /\ OnePerMaterial /\ SuggestionCanStart

\* A request is refused as a repeat only for a retest of the same verdict
\* (retest.ts:367: "compare the material's identity anchor against prior
\* retests for this verdict").
RefusalIsARepeat ==
    \A s \in Starter : asking[s].pc = "refused" =>
        \E c \in Children : child[c].o = asking[s].o /\ SameMaterial(c, asking[s].m)

=============================================================================
