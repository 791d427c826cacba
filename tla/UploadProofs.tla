---------------------------- MODULE UploadProofs ----------------------------
(***************************************************************************)
(* Proofs about Retests and UploadBuild, checked by TLAPS for every value  *)
(* of the constants.                                                       *)
(***************************************************************************)
EXTENDS UploadBuild, Retests, FiniteSetTheorems, TLAPS

-----------------------------------------------------------------------------
(* Retests.                                                                *)

ChildRow == [state : {"NEEDS_DECISION", "TRIAGING", "DRAFTED", "DENIED"},
             build : {"none", "PENDING", "BUILT", "FAILED"},
             target : {"none", "own", "other"},
             outcome : {"none", "REPRODUCED", "NOT_REPRODUCED", "INCONCLUSIVE"},
             o : Original, m : Material]
OriginalRow == [state : Retestable \union {"CANCELLED"}, grant : BOOLEAN, private : BOOLEAN,
                contents : BOOLEAN, pushed : Material \union {NoMaterial}]
Request == [pc : {"open", "refused"}, o : Original, m : Material]
Approving == [pc : {"approve"}, c : Child]

\* The rows and the requests, in full.
RowsTyped ==
    /\ original \in [Original -> OriginalRow]
    /\ changes \in 0 .. MaxChanges
    /\ child \in [Child -> {NoChild} \union ChildRow]
    /\ asking \in [Starter -> {Unasked} \union Request \union Approving]

\* Only commits are pushed.
PushesAreCommits ==
    \A o \in Original : original[o].pushed # NoMaterial =>
        original[o].pushed \in Material /\ KindOf[original[o].pushed] = "git"

RetestInv == RowsTyped /\ PushesAreCommits /\ OnePerMaterial

\* What every step keeps of the children: the verdict and the material of one
\* that exists.
ChildrenKept == \A c \in Children : c \in Children' /\ child'[c].o = child[c].o
                                                    /\ child'[c].m = child[c].m
NoNewChild == Children' \subseteq Children

\* Children that keep their verdict and their material stay one per material.
LEMMA KeptChildren == ASSUME OnePerMaterial, ChildrenKept, NoNewChild
                      PROVE  OnePerMaterial'
  BY DEF OnePerMaterial, ChildrenKept, NoNewChild, SameMaterial

\* One child's row is replaced by one that keeps both.
LEMMA PutKeeps ==
  ASSUME child \in [Child -> {NoChild} \union ChildRow], NEW c \in Children,
         NEW r \in ChildRow, Put(c, r), r.o = child[c].o, r.m = child[c].m
  PROVE  /\ child' \in [Child -> {NoChild} \union ChildRow]
         /\ ChildrenKept /\ NoNewChild
  <1>1. c \in Child /\ child' = [child EXCEPT ![c] = r]
    BY DEF Children, Put
  <1>2. child' \in [Child -> {NoChild} \union ChildRow]
    BY <1>1
  <1>3. r.state # "ABSENT"
    BY DEF ChildRow
  <1>4. \A d \in Child : child'[d] = IF d = c THEN r ELSE child[d]
    BY <1>1
  <1> QED BY <1>1, <1>2, <1>3, <1>4 DEF ChildrenKept, NoNewChild, Children

LEMMA SameChildren == ASSUME UNCHANGED child
                      PROVE  ChildrenKept /\ NoNewChild
  BY DEF ChildrenKept, NoNewChild, Children

\* A child that exists has a row.
LEMMA ChildHasRow == ASSUME child \in [Child -> {NoChild} \union ChildRow], NEW c \in Children
                     PROVE  c \in Child /\ child[c] \in ChildRow
  BY DEF Children, NoChild

\* What happens to one child leaves it the child it was.
LEMMA ChildMoves ==
  ASSUME RowsTyped, NEW c \in Children,
         AnswerChild(c) \/ BuildChild(c) \/ BindChild(c) \/ DraftChild(c) \/ CloseChild(c)
  PROVE  /\ RowsTyped' /\ ChildrenKept /\ NoNewChild /\ UNCHANGED original
  <1> DEFINE k == child[c]
  <1>1. c \in Child /\ k \in ChildRow
    BY ChildHasRow DEF RowsTyped
  <1>2. ASSUME NEW r \in ChildRow, r.o = k.o, r.m = k.m, Put(c, r),
               UNCHANGED <<original, asking>>, changes' \in 0 .. MaxChanges
        PROVE  /\ RowsTyped' /\ ChildrenKept /\ NoNewChild /\ UNCHANGED original
    BY <1>2, <1>1, PutKeeps DEF RowsTyped
  <1>3. ASSUME NEW r \in ChildRow, r.o = k.o, r.m = k.m, MoveChild(c, r)
        PROVE  /\ RowsTyped' /\ ChildrenKept /\ NoNewChild /\ UNCHANGED original
    <2>1. changes' \in 0 .. MaxChanges
      BY <1>3, RetestAssumption DEF MoveChild, RowsTyped
    <2> QED BY <1>3, <1>2, <2>1 DEF MoveChild
  <1>4. CASE AnswerChild(c)
    <2>1. PICK r \in {ReleasedChild(c), [k EXCEPT !.state = "TRIAGING"], [k EXCEPT !.state = "DENIED"]} :
             MoveChild(c, r)
      BY <1>4 DEF AnswerChild
    <2>2. r \in ChildRow /\ r.o = k.o /\ r.m = k.m
      BY <1>1 DEF ChildRow, ReleasedChild
    <2> QED BY <2>1, <2>2, <1>3
  <1>5. CASE BuildChild(c)
    <2>1. PICK r \in {[k EXCEPT !.build = "FAILED"],
                      [k EXCEPT !.build = "BUILT", !.target = IF @ = "none" THEN "own" ELSE @]} :
             MoveChild(c, r)
      BY <1>5 DEF BuildChild
    <2>2. r \in ChildRow /\ r.o = k.o /\ r.m = k.m
      BY <1>1 DEF ChildRow
    <2> QED BY <2>1, <2>2, <1>3
  <1>6. CASE BindChild(c)
    <2>1. PICK r \in {[k EXCEPT !.target = "other"]} : MoveChild(c, r)
      BY <1>6 DEF BindChild
    <2>2. r \in ChildRow /\ r.o = k.o /\ r.m = k.m
      BY <1>1 DEF ChildRow
    <2> QED BY <2>1, <2>2, <1>3
  <1>7. CASE DraftChild(c)
    <2>1. PICK outcome \in {"REPRODUCED", "NOT_REPRODUCED", "INCONCLUSIVE"} :
             Put(c, [k EXCEPT !.state = "DRAFTED", !.outcome = outcome])
      BY <1>7 DEF DraftChild
    <2>2. PICK r \in {[k EXCEPT !.state = "DRAFTED", !.outcome = outcome]} : Put(c, r)
      BY <2>1
    <2>3. r \in ChildRow /\ r.o = k.o /\ r.m = k.m
      BY <1>1 DEF ChildRow
    <2>4. UNCHANGED <<original, asking>> /\ changes' \in 0 .. MaxChanges
      BY <1>7 DEF DraftChild, RowsTyped
    <2> QED BY <2>2, <2>3, <2>4, <1>2
  <1>8. CASE CloseChild(c)
    <2>1. PICK r \in {[k EXCEPT !.state = "DENIED"]} : MoveChild(c, r)
      BY <1>8 DEF CloseChild
    <2>2. r \in ChildRow /\ r.o = k.o /\ r.m = k.m
      BY <1>1 DEF ChildRow
    <2> QED BY <2>1, <2>2, <1>3
  <1> QED BY <1>4, <1>5, <1>6, <1>7, <1>8

\* What changes around the originals touches no child, and pushes commits only.
LEMMA OriginalMoves ==
  ASSUME RowsTyped, PushesAreCommits, NEW o \in Original,
         DeliveryMoves(o) \/ Regrant(o) \/ Pushed(o)
  PROVE  RowsTyped' /\ PushesAreCommits' /\ UNCHANGED child
  <1> DEFINE k == original[o]
  <1>1. k \in OriginalRow
    BY DEF RowsTyped
  <1>2. ASSUME NEW r \in OriginalRow, ChangeOriginal(o, r),
               r.pushed = k.pushed \/ (r.pushed \in Material /\ KindOf[r.pushed] = "git")
        PROVE  RowsTyped' /\ PushesAreCommits' /\ UNCHANGED child
    <2>1. original' = [original EXCEPT ![o] = r] /\ UNCHANGED <<child, asking>>
      BY <1>2 DEF ChangeOriginal
    <2>2. changes' \in 0 .. MaxChanges
      BY <1>2, RetestAssumption DEF ChangeOriginal, RowsTyped
    <2>3. original' \in [Original -> OriginalRow]
      BY <2>1, <1>2 DEF RowsTyped
    <2>4. \A x \in Original : original'[x] = IF x = o THEN r ELSE original[x]
      BY <2>1 DEF RowsTyped
    <2>5. PushesAreCommits'
      BY <2>4, <1>2 DEF PushesAreCommits
    <2> QED BY <2>1, <2>2, <2>3, <2>5 DEF RowsTyped
  <1>3. CASE DeliveryMoves(o)
    <2>1. PICK to \in {"DELIVERED", "CANCELLED"} : ChangeOriginal(o, [k EXCEPT !.state = to])
      BY <1>3 DEF DeliveryMoves
    <2>2. PICK r \in {[k EXCEPT !.state = to]} : ChangeOriginal(o, r)
      BY <2>1
    <2>3. r \in OriginalRow /\ r.pushed = k.pushed
      BY <1>1 DEF OriginalRow, Retestable
    <2> QED BY <2>2, <2>3, <1>2
  <1>4. CASE Regrant(o)
    <2>1. PICK r \in {[k EXCEPT !.grant = ~@]} : ChangeOriginal(o, r)
      BY <1>4 DEF Regrant
    <2>2. r \in OriginalRow /\ r.pushed = k.pushed
      BY <1>1 DEF OriginalRow
    <2> QED BY <2>1, <2>2, <1>2
  <1>5. CASE Pushed(o)
    <2>1. PICK m \in Material : KindOf[m] = "git" /\ ChangeOriginal(o, [k EXCEPT !.pushed = m])
      BY <1>5 DEF Pushed
    <2>2. PICK r \in {[k EXCEPT !.pushed = m]} : ChangeOriginal(o, r)
      BY <2>1
    <2>3. r \in OriginalRow /\ r.pushed = m
      BY <1>1 DEF OriginalRow
    <2> QED BY <2>1, <2>2, <2>3, <1>2
  <1> QED BY <1>3, <1>4, <1>5

\* A verdict and a material nothing was retested with have no child yet, though
\* the condition compares less than the two.
LEMMA NotRetested ==
  ASSUME NEW o \in Original, NEW m \in Material, ~Retested(o, m), NEW c \in Children
  PROVE  ~(child[c].o = o /\ child[c].m = m)
  <1>1. KindOf[m] \in {"archive", "image", "git"}
    BY RetestAssumption
  <1> QED BY <1>1 DEF Retested, SameMaterial

\* The new child is of the request's verdict and material.
LEMMA NewChildIsAsked ==
  ASSUME NEW ask \in Request
  PROVE  NewChild(ask) \in ChildRow /\ NewChild(ask).o = ask.o /\ NewChild(ask).m = ask.m
  BY DEF NewChild, Request, ChildRow

\* Where a request stands.
LEMMA RequestFields ==
  ASSUME RowsTyped, NEW s \in Starter
  PROVE  /\ asking[s].pc \in {"idle", "open", "approve", "refused"}
         /\ asking[s].pc = "open" => asking[s] \in Request
         /\ asking[s].pc = "approve" => asking[s].c \in Child
  BY DEF RowsTyped, Unasked, Request, Approving

LEMMA RequestMoves ==
  ASSUME RetestInv, NEW s \in Starter,
         \/ \E o \in Original, m \in Material : AskRetest(s, o, m)
         \/ OpenRetest(s) \/ ApproveChild(s) \/ Drop(s)
  PROVE  RowsTyped' /\ OnePerMaterial' /\ UNCHANGED original
  <1> USE DEF RetestInv
  <1>1. ASSUME UNCHANGED <<original, child, changes>>,
               NEW a \in {Unasked} \union Request \union Approving,
               asking' = [asking EXCEPT ![s] = a]
        PROVE  RowsTyped' /\ OnePerMaterial' /\ UNCHANGED original
    BY <1>1, SameChildren, KeptChildren DEF RowsTyped
  <1>2. ASSUME NEW o \in Original, NEW m \in Material, AskRetest(s, o, m)
        PROVE  RowsTyped' /\ OnePerMaterial' /\ UNCHANGED original
    BY <1>2, <1>1 DEF AskRetest, Request
  <1>3. CASE OpenRetest(s)
    <2>1. asking[s] \in Request
      BY <1>3, RequestFields DEF OpenRetest
    <2>2. CASE Retested(asking[s].o, asking[s].m)
      <3>1. [asking[s] EXCEPT !.pc = "refused"] \in Request
        BY <2>1 DEF Request
      <3>2. asking' = [asking EXCEPT ![s] = [asking[s] EXCEPT !.pc = "refused"]]
        BY <1>3, <2>2 DEF OpenRetest
      <3> QED BY <1>3, <2>2, <3>1, <3>2, <1>1 DEF OpenRetest
    <2>3. CASE ~Retested(asking[s].o, asking[s].m)
      <3>1. PICK c \in Child : /\ child[c].state = "ABSENT"
                               /\ Put(c, NewChild(asking[s]))
                               /\ asking' = [asking EXCEPT ![s] = [pc |-> "approve", c |-> c]]
        BY <1>3, <2>3 DEF OpenRetest
      <3>2. PICK r \in ChildRow : /\ r.o = asking[s].o /\ r.m = asking[s].m
                                  /\ child' = [child EXCEPT ![c] = r]
        BY <2>1, <3>1, NewChildIsAsked DEF Put
      <3>3. UNCHANGED <<original, changes>>
        BY <1>3 DEF OpenRetest
      <3>4. RowsTyped'
        BY <3>1, <3>2, <3>3 DEF RowsTyped, Approving
      <3>5. \A d \in Child : child'[d] = IF d = c THEN r ELSE child[d]
        BY <3>2 DEF RowsTyped
      <3>6. Children' = Children \union {c}
        BY <3>5 DEF Children, ChildRow
      <3>7. \A d \in Children : ~(child[d].o = r.o /\ child[d].m = r.m)
        BY <2>1, <2>3, <3>2, NotRetested DEF Request
      <3>8. \A d \in Children : d # c
        BY <3>1 DEF Children
      <3>9. OnePerMaterial'
        BY <3>5, <3>6, <3>7, <3>8 DEF OnePerMaterial, SameMaterial, Children
      <3> QED BY <3>3, <3>4, <3>9
    <2> QED BY <2>2, <2>3
  <1>4. CASE ApproveChild(s)
    <2> DEFINE c == asking[s].c
    <2>1. c \in Child
      BY <1>4, RequestFields DEF ApproveChild
    <2>2. asking' \in [Starter -> {Unasked} \union Request \union Approving]
      BY <1>4 DEF ApproveChild, RowsTyped
    <2>3. CASE child[c].state = "NEEDS_DECISION"
      <3>1. c \in Children /\ child[c] \in ChildRow
        BY <2>1, <2>3, ChildHasRow DEF Children, RowsTyped
      <3>2. PICK r \in {ReleasedChild(c)} : Put(c, r)
        BY <1>4, <2>3 DEF ApproveChild
      <3>3. r \in ChildRow /\ r.o = child[c].o /\ r.m = child[c].m
        BY <3>1 DEF ChildRow, ReleasedChild
      <3>4. child' \in [Child -> {NoChild} \union ChildRow] /\ ChildrenKept /\ NoNewChild
        BY <3>1, <3>2, <3>3, PutKeeps DEF RowsTyped
      <3> QED BY <1>4, <2>2, <3>4, KeptChildren DEF ApproveChild, RowsTyped
    <2>4. CASE child[c].state # "NEEDS_DECISION"
      <3>1. UNCHANGED <<original, child, changes>>
        BY <1>4, <2>4 DEF ApproveChild
      <3> QED BY <3>1, <2>2, SameChildren, KeptChildren DEF RowsTyped
    <2> QED BY <2>3, <2>4
  <1>5. CASE Drop(s)
    BY <1>5, <1>1 DEF Drop
  <1> QED BY <1>2, <1>3, <1>4, <1>5

LEMMA RetestInvStarts == RetestInit => RetestInv
  <1> SUFFICES ASSUME RetestInit
               PROVE  RetestInv
    OBVIOUS
  <1>1. original \in [Original -> OriginalRow] /\ \A o \in Original : original[o].pushed = NoMaterial
    BY DEF RetestInit, OriginalRow, Retestable
  <1>2. RowsTyped
    BY <1>1, RetestAssumption DEF RetestInit, RowsTyped
  <1>3. PushesAreCommits
    BY <1>1 DEF PushesAreCommits
  <1>4. Children = {}
    BY DEF RetestInit, Children, NoChild
  <1> QED BY <1>2, <1>3, <1>4 DEF RetestInv, OnePerMaterial

LEMMA RetestInvKept == RetestInv /\ [RetestNext]_retestVars => RetestInv'
  <1> SUFFICES ASSUME RetestInv, [RetestNext]_retestVars
               PROVE  RetestInv'
    OBVIOUS
  <1>1. ASSUME UNCHANGED original
        PROVE  PushesAreCommits'
    BY <1>1 DEF RetestInv, PushesAreCommits
  <1>2. ASSUME NEW o \in Original, DeliveryMoves(o) \/ Regrant(o) \/ Pushed(o)
        PROVE  RetestInv'
    BY <1>2, OriginalMoves, SameChildren, KeptChildren DEF RetestInv
  <1>3. ASSUME NEW s \in Starter,
               \/ \E o \in Original, m \in Material : AskRetest(s, o, m)
               \/ OpenRetest(s) \/ ApproveChild(s) \/ Drop(s)
        PROVE  RetestInv'
    BY <1>3, <1>1, RequestMoves DEF RetestInv
  <1>4. ASSUME NEW c \in Children,
               AnswerChild(c) \/ BuildChild(c) \/ BindChild(c) \/ DraftChild(c) \/ CloseChild(c)
        PROVE  RetestInv'
    BY <1>4, <1>1, ChildMoves, KeptChildren DEF RetestInv
  <1>5. CASE UNCHANGED retestVars
    BY <1>5, <1>1, SameChildren, KeptChildren DEF RetestInv, RowsTyped, retestVars
  <1> QED BY <1>2, <1>3, <1>4, <1>5 DEF RetestNext

\* What is suggested or offered can be started, from the types and the pushes.
LEMMA SuggestionsStart == RetestInv => SuggestionCanStart
  <1> SUFFICES ASSUME RetestInv, NEW o \in Original
               PROVE  /\ Suggested(o) => /\ Accepts(o, original[o].pushed)
                                         /\ ~Retested(o, original[o].pushed)
                      /\ \A m \in PanelStarts(o) :
                            Accepts(o, m) \/ (original[o].private /\ ~original[o].contents)
    BY DEF SuggestionCanStart
  <1>1. Suggested(o) => Accepts(o, original[o].pushed)
    BY DEF Suggested, Accepts, AcceptsCommit, RetestInv, PushesAreCommits
  <1>2. Suggested(o) => ~Retested(o, original[o].pushed)
    BY DEF Suggested, Retested
  <1>3. \A m \in PanelStarts(o) :
           Accepts(o, m) \/ (original[o].private /\ ~original[o].contents)
    BY DEF PanelStarts, Offered, Accepts, AcceptsCommit, AcceptsUpload
  <1> QED BY <1>1, <1>2, <1>3

\* One retest per verdict and material, and what the case file suggests or the
\* panel offers can be started, for any reports, materials, requests and
\* children (src/lib/retests/retest.ts, push-suggestion.ts).
THEOREM RetestsStaySound == RetestsSpec => []RetestsAreSound
  <1>1. RetestInv => RetestTypeOK
    <2> SUFFICES ASSUME RetestInv PROVE RetestTypeOK
      OBVIOUS
    <2>1. \A c \in Child : child[c].target \in {"none", "own", "other"}
      BY DEF RetestInv, RowsTyped, NoChild, ChildRow
    <2>2. \A s \in Starter : asking[s].pc \in {"idle", "open", "approve", "refused"}
      BY RequestFields DEF RetestInv
    <2>3. \A o \in Original : /\ original[o].state \in Retestable \union {"CANCELLED"}
                              /\ original[o].pushed \in Material \union {NoMaterial}
      BY DEF RetestInv, RowsTyped, OriginalRow
    <2> QED BY <2>1, <2>2, <2>3 DEF RetestInv, RowsTyped, RetestTypeOK
  <1>2. RetestInv => RetestsAreSound
    BY <1>1, SuggestionsStart DEF RetestInv, RetestsAreSound
  <1> QED BY <1>2, RetestInvStarts, RetestInvKept, PTL DEF RetestsSpec

-----------------------------------------------------------------------------
(* UploadBuild: the inductive invariant.                                   *)

Linking == [at : {"link"}, r : Report, o : Report]
Replying == [at : {"reply", "record"}, r : Report, kind : {"rejected", "duplicate"}]
Asking == [at : {"reserve", "start"}, r : Report, c : {0}]
          \union [at : {"mail", "refund"}, r : Report, c : Codes]
CodeRow == [live : Codes \union {0}, attempts : 0 .. MAX_CODE_ATTEMPTS, slots : 0 .. maxCodeSends]

GateTyped ==
    /\ report \in [Report -> ReportRow]
    /\ trail \in [Report -> SUBSET Events]
    /\ mail \in [Report -> SUBSET NoticeKinds]
    /\ hold \in [Report -> HoldSteps]
    /\ queued \subseteq Report

ReviewersTyped == reviewer \in [Reviewer -> {Idle} \union Linking \union Replying]

\* A duplicate is linked from a report that waits at the gate, under its lock, to
\* another one that is not linked to it; a linked report is closed.
LinkFits(b, from, to) == /\ b.r # b.o
                         /\ from.state = "NEEDS_DECISION" /\ from.dup = NoReport
                         /\ to.dup # b.r
OneLinker(f, v) == \A u \in Reviewer : f[u].at = "link" /\ f[u].r = f[v].r => u = v
LinksAreOpen ==
    \A v \in Reviewer : reviewer[v].at = "link" =>
        /\ LinkFits(reviewer[v], report[reviewer[v].r], report[reviewer[v].o])
        /\ OneLinker(reviewer, v)
LinkedAreClosed == \A r \in Report : report[r].dup # NoReport => report[r].state = "DENIED"
LinksInv == ReviewersTyped /\ LinksAreOpen /\ LinkedAreClosed /\ NoMutualDuplicates

\* Every code of a send that succeeded, and every request that may still send
\* one, has a slot.
Holding(r) == {a \in Asker : asker[a] # Idle /\ asker[a].r = r
                              /\ asker[a].at \in {"start", "mail", "refund"}}
ContactTyped ==
    /\ code \in [Report -> CodeRow]
    /\ asker \in [Asker -> {Idle} \union Asking]
    /\ mailbox \in [Report -> SUBSET Codes] /\ strays \in [Report -> SUBSET Codes]
SlotsFit(r) == /\ IsFiniteSet(mailbox[r])
               /\ Cardinality(mailbox[r]) + Cardinality(Holding(r)) <= code[r].slots
CodesInv == ContactTyped /\ \A r \in Report : SlotsFit(r)

\* What a report's row x, its upload row i, its pinned build p, its queued
\* analysis (waits is empty without one) and its verdict d may be together.
BuildFits(x, i, p, waits, d) ==
    /\ x.state \in {"ABSENT", "NEEDS_DECISION"} =>
         i.state = "none" /\ x.target = "none" /\ d = Undrafted /\ waits = {}
    /\ x.target = "own" => p # 0
    /\ i.state = "BUILT" /\ x.state = "TRIAGING" => x.target = "own"
    /\ waits # {} \/ d # Undrafted => i.state \in {"none", "BUILT", "FAILED"}
    /\ d.outcome \in {"REPRODUCED", "NOT_REPRODUCED"} => \/ x.target = "own" /\ p = d.build
                                                         \/ x.target = "other" /\ d.build = 0

\* A worker's claim b on a report with row x and upload row i.
ClaimFits(b, x, i) == /\ b.attempt # 0 /\ i.state # "none"
                      /\ b.at = "done" /\ x.state = "TRIAGING" => x.target = "own"

BuildTyped ==
    /\ intake \in [Report -> IntakeRow]
    /\ profile \in [Report -> Attempts]
    /\ handle \in [Report -> {"none", "UPLOAD_AGENT", "UPLOAD_DONE"}]
    /\ builder \in [Builder -> Claimed \union {Idle}]
    /\ starter \subseteq Report
    /\ verdict \in [Report -> Verdict]
RowFits(r) == BuildFits(report[r], intake[r], profile[r], queued \cap {r}, verdict[r])
ClaimsFit == \A w \in Builder : builder[w] # Idle =>
                 ClaimFits(builder[w], report[builder[w].r], intake[builder[w].r])
BuildInv == BuildTyped /\ (\A r \in Report : RowFits(r)) /\ ClaimsFit

UploadInv == GateTyped /\ LinksInv /\ CodesInv /\ BuildInv

-----------------------------------------------------------------------------
(* Links.                                                                  *)

\* Nobody begins to link.
NoNewLink == \A v \in Reviewer : reviewer'[v].at = "link" => reviewer'[v] = reviewer[v]

\* A row nobody has locked changes and stays linked, and closed, as it was.
RowLinkStays(r, y) ==
    /\ y \in ReportRow /\ Set(r, y) /\ y.dup = report[r].dup
    /\ report[r].state = "DENIED" => y.state = "DENIED"
    /\ Free(r) \/ report[r].state = "ABSENT"

LEMMA SetRow ==
  ASSUME report \in [Report -> ReportRow], NEW r \in Report, NEW y \in ReportRow, Set(r, y)
  PROVE  /\ report' \in [Report -> ReportRow]
         /\ \A x \in Report : report'[x] = IF x = r THEN y ELSE report[x]
  BY DEF Set

LEMMA LinkerFields ==
  ASSUME ReviewersTyped, NEW v \in Reviewer, reviewer[v].at = "link"
  PROVE  reviewer[v] \in Linking /\ reviewer[v].r \in Report /\ reviewer[v].o \in Report
  BY DEF ReviewersTyped, Idle, Linking, Replying

LEMMA LinksKept ==
  ASSUME GateTyped, LinksInv, ReviewersTyped', NoNewLink,
         UNCHANGED report \/ \E r \in Report, y \in ReportRow : RowLinkStays(r, y)
  PROVE  LinksInv'
  <1>1. \A v \in Reviewer : reviewer'[v].at = "link" /\ OneLinker(reviewer, v)
                              => OneLinker(reviewer', v)
    BY DEF OneLinker, NoNewLink
  <1>2. CASE UNCHANGED report
    <2>1. LinksAreOpen'
      BY <1>2, <1>1, LinkerFields DEF LinksInv, LinksAreOpen, NoNewLink, LinkFits
    <2>2. LinkedAreClosed' /\ NoMutualDuplicates'
      BY <1>2 DEF LinksInv, LinkedAreClosed, NoMutualDuplicates
    <2> QED BY <2>1, <2>2 DEF LinksInv
  <1>3. ASSUME NEW r \in Report, NEW y \in ReportRow, RowLinkStays(r, y)
        PROVE  LinksInv'
    <2>1. \A x \in Report : report'[x] = IF x = r THEN y ELSE report[x]
      BY <1>3, SetRow DEF RowLinkStays, GateTyped
    <2>2. \A x \in Report : report'[x].dup = report[x].dup
      BY <1>3, <2>1 DEF RowLinkStays
    <2>3. LinkedAreClosed'
      BY <1>3, <2>1, <2>2 DEF RowLinkStays, LinksInv, LinkedAreClosed
    <2>4. NoMutualDuplicates'
      BY <2>2 DEF LinksInv, NoMutualDuplicates
    <2>5. ASSUME NEW v \in Reviewer, reviewer'[v].at = "link"
          PROVE  /\ LinkFits(reviewer[v], report'[reviewer[v].r], report'[reviewer[v].o])
                 /\ reviewer'[v] = reviewer[v]
                 /\ OneLinker(reviewer', v)
      <3>1. reviewer'[v] = reviewer[v] /\ reviewer[v].at = "link"
        BY <2>5 DEF NoNewLink
      <3>2. reviewer[v].r \in Report /\ reviewer[v].o \in Report
        BY <3>1, LinkerFields DEF LinksInv
      <3>3. LinkFits(reviewer[v], report[reviewer[v].r], report[reviewer[v].o])
        BY <3>1 DEF LinksInv, LinksAreOpen
      <3>4. reviewer[v].r # r
        BY <3>1, <3>3, <1>3 DEF RowLinkStays, Free, LockedBy, LinkFits
      <3>5. report'[reviewer[v].r] = report[reviewer[v].r]
        BY <3>2, <3>4, <2>1
      <3>6. LinkFits(reviewer[v], report'[reviewer[v].r], report'[reviewer[v].o])
        BY <3>2, <3>3, <3>5, <2>2 DEF LinkFits
      <3> QED BY <3>1, <3>2, <3>6, <1>1 DEF LinksInv, LinksAreOpen
    <2>6. LinksAreOpen'
      BY <2>5 DEF LinksAreOpen
    <2> QED BY <2>3, <2>4, <2>6 DEF LinksInv
  <1> QED BY <1>2, <1>3

\* markDuplicateAtGate() takes the lock only where nobody holds it.
LEMMA LinksBegun ==
  ASSUME GateTyped, LinksInv, NEW v \in Reviewer, NEW r \in Report, NEW o \in Report,
         BeginDuplicate(v, r, o)
  PROVE  LinksInv'
  <1> DEFINE b == [at |-> "link", r |-> r, o |-> o]
  <1>1. b \in Linking /\ b.at = "link" /\ b.r = r /\ b.o = o
    BY DEF Linking
  <1>2. UNCHANGED report /\ reviewer' = [reviewer EXCEPT ![v] = b]
    BY DEF BeginDuplicate, Become
  <1>3. reviewer[v] = Idle /\ Free(r) /\ o # r
        /\ report[r].state = "NEEDS_DECISION" /\ report[o].dup = NoReport
    BY DEF BeginDuplicate, AtGate
  <1> HIDE DEF b
  <1>4. ReviewersTyped'
    BY <1>1, <1>2 DEF LinksInv, ReviewersTyped
  <1>5. \A u \in Reviewer : reviewer'[u] = IF u = v THEN b ELSE reviewer[u]
    BY <1>2 DEF LinksInv, ReviewersTyped
  <1>6. report[r].dup = NoReport
    BY <1>3 DEF LinksInv, LinkedAreClosed
  <1>7. LinkFits(b, report[b.r], report[b.o])
    BY <1>1, <1>3, <1>6, GateAssumption DEF LinkFits
  <1>8. \A u \in Reviewer : u # v => ~(reviewer'[u].at = "link" /\ reviewer'[u].r = r)
    BY <1>3, <1>5 DEF Free, LockedBy
  <1>9. ASSUME NEW u \in Reviewer, reviewer'[u].at = "link"
        PROVE  /\ LinkFits(reviewer'[u], report[reviewer'[u].r], report[reviewer'[u].o])
               /\ OneLinker(reviewer', u)
    <2>1. CASE u = v
      BY <2>1, <1>1, <1>5, <1>7, <1>8 DEF OneLinker
    <2>2. CASE u # v
      <3>1. reviewer'[u] = reviewer[u] /\ reviewer[u].at = "link"
        BY <2>2, <1>5, <1>9
      <3>2. reviewer[u].r # r
        BY <2>2, <3>1, <1>8
      <3>3. LinkFits(reviewer[u], report[reviewer[u].r], report[reviewer[u].o]) /\ OneLinker(reviewer, u)
        BY <3>1 DEF LinksInv, LinksAreOpen
      <3>4. OneLinker(reviewer', u)
        BY <3>1, <3>2, <3>3, <1>1, <1>5 DEF OneLinker
      <3> QED BY <3>1, <3>3, <3>4
    <2> QED BY <2>1, <2>2
  <1>10. LinksAreOpen'
    BY <1>2, <1>9 DEF LinksAreOpen
  <1>11. LinkedAreClosed' /\ NoMutualDuplicates'
    BY <1>2 DEF LinksInv, LinkedAreClosed, NoMutualDuplicates
  <1> QED BY <1>4, <1>10, <1>11 DEF LinksInv

\* The write: while its report was locked, nobody could link the other one to it.
LEMMA LinksWritten ==
  ASSUME GateTyped, LinksInv, NEW v \in Reviewer, LinkDuplicate(v)
  PROVE  /\ LinksInv'
         /\ \E r \in Report, y \in ReportRow :
              Set(r, y) /\ y.state = "DENIED" /\ y.target = report[r].target
  <1> DEFINE r == reviewer[v].r
             o == reviewer[v].o
             y == [report[r] EXCEPT !.dup = o, !.state = "DENIED", !.closed = "duplicate"]
             b == [at |-> "reply", r |-> r, kind |-> "duplicate"]
  <1>1. reviewer[v].at = "link" /\ Free(o) /\ Set(r, y)
        /\ reviewer' = [reviewer EXCEPT ![v] = b]
    BY DEF LinkDuplicate, Become
  <1>2. r \in Report /\ o \in Report
    BY <1>1, LinkerFields DEF LinksInv
  <1>3. r # o /\ report[r].dup = NoReport /\ report[o].dup # r
    BY <1>1 DEF LinksInv, LinksAreOpen, LinkFits
  <1>4. OneLinker(reviewer, v)
    BY <1>1 DEF LinksInv, LinksAreOpen
  <1>5. report[r] \in ReportRow
    BY <1>2 DEF GateTyped
  <1>6. y \in ReportRow /\ y.dup = o /\ y.state = "DENIED" /\ y.target = report[r].target
    BY <1>2, <1>5 DEF ReportRow, States
  <1>7. b \in Replying /\ b.at = "reply"
    BY <1>2 DEF Replying
  <1> HIDE DEF r, o, y, b
  <1>8. \A x \in Report : report'[x] = IF x = r THEN y ELSE report[x]
    BY <1>1, <1>2, <1>6, SetRow DEF GateTyped
  <1>9. \A u \in Reviewer : reviewer'[u] = IF u = v THEN b ELSE reviewer[u]
    BY <1>1 DEF LinksInv, ReviewersTyped
  <1>10. ReviewersTyped'
    BY <1>1, <1>7 DEF LinksInv, ReviewersTyped
  <1>11. LinkedAreClosed'
    BY <1>6, <1>8 DEF LinksInv, LinkedAreClosed
  <1>12. NoMutualDuplicates'
    BY <1>2, <1>3, <1>6, <1>8 DEF LinksInv, NoMutualDuplicates
  <1>13. ASSUME NEW u \in Reviewer, reviewer'[u].at = "link"
         PROVE  /\ LinkFits(reviewer'[u], report'[reviewer'[u].r], report'[reviewer'[u].o])
                /\ OneLinker(reviewer', u)
    <2>1. u # v /\ reviewer'[u] = reviewer[u]
      BY <1>7, <1>9, <1>13
    <2>2. reviewer[u].r \in Report /\ reviewer[u].o \in Report
      BY <2>1, <1>13, LinkerFields DEF LinksInv
    <2>3. reviewer[u].r # r /\ reviewer[u].r # o
      BY <2>1, <1>1, <1>4, <1>13 DEF LockedBy, Free, OneLinker, r
    <2>4. report'[reviewer[u].r] = report[reviewer[u].r]
      BY <2>2, <2>3, <1>8
    <2>5. LinkFits(reviewer[u], report[reviewer[u].r], report[reviewer[u].o]) /\ OneLinker(reviewer, u)
      BY <2>1, <1>13 DEF LinksInv, LinksAreOpen
    <2>6. report'[reviewer[u].o].dup # reviewer[u].r
      BY <2>2, <2>3, <2>5, <1>6, <1>8 DEF LinkFits
    <2>7. OneLinker(reviewer', u)
      BY <2>1, <2>5, <1>7, <1>9 DEF OneLinker
    <2>8. LinkFits(reviewer[u], report'[reviewer[u].r], report'[reviewer[u].o])
      BY <2>4, <2>5, <2>6 DEF LinkFits
    <2> QED BY <2>1, <2>7, <2>8
  <1>14. LinksAreOpen'
    BY <1>13 DEF LinksAreOpen
  <1>15. LinksInv'
    BY <1>10, <1>11, <1>12, <1>14 DEF LinksInv
  <1> QED BY <1>1, <1>2, <1>6, <1>15

-----------------------------------------------------------------------------
(* Codes.                                                                  *)

LEMMA AskerFields ==
  ASSUME ContactTyped, NEW a \in Asker, asker[a] # Idle
  PROVE  /\ asker[a] \in Asking /\ asker[a].r \in Report
         /\ asker[a].at \in {"reserve", "start", "mail", "refund"}
         /\ asker[a].at \in {"mail", "refund"} => asker[a].c \in Codes
  BY DEF ContactTyped, Idle, Asking

\* A request at another step.
LEMMA AskingMoves ==
  ASSUME NEW x \in Asking
  PROVE  /\ x.at = "reserve" => /\ [x EXCEPT !.at = "start"] \in Asking
                                /\ [x EXCEPT !.at = "start"].at = "start"
                                /\ [x EXCEPT !.at = "start"].r = x.r
         /\ x.at = "mail" => /\ [x EXCEPT !.at = "refund"] \in Asking
                             /\ [x EXCEPT !.at = "refund"].r = x.r
         /\ \A c \in Codes : /\ [x EXCEPT !.at = "mail", !.c = c] \in Asking
                             /\ [x EXCEPT !.at = "mail", !.c = c].r = x.r
  <1>1. CASE x \in [at : {"reserve", "start"}, r : Report, c : {0}]
    <2>1. [x EXCEPT !.at = "start"] \in [at : {"reserve", "start"}, r : Report, c : {0}]
      BY <1>1
    <2>2. ASSUME NEW c \in Codes
          PROVE  /\ [x EXCEPT !.at = "mail", !.c = c] \in [at : {"mail", "refund"}, r : Report, c : Codes]
                 /\ [x EXCEPT !.at = "mail", !.c = c].r = x.r
      BY <1>1
    <2> QED BY <1>1, <2>1, <2>2 DEF Asking
  <1>2. CASE x \in [at : {"mail", "refund"}, r : Report, c : Codes]
    <2>1. [x EXCEPT !.at = "refund"] \in [at : {"mail", "refund"}, r : Report, c : Codes]
      BY <1>2
    <2>2. ASSUME NEW c \in Codes
          PROVE  /\ [x EXCEPT !.at = "mail", !.c = c] \in [at : {"mail", "refund"}, r : Report, c : Codes]
                 /\ [x EXCEPT !.at = "mail", !.c = c].r = x.r
      BY <1>2
    <2> QED BY <1>2, <2>1, <2>2 DEF Asking
  <1> QED BY <1>1, <1>2 DEF Asking

LEMMA HoldingIsFinite == ASSUME NEW r \in Report
                         PROVE  IsFiniteSet(Holding(r)) /\ Cardinality(Holding(r)) \in Nat
  <1>1. Holding(r) \subseteq Asker
    BY DEF Holding
  <1> QED BY <1>1, GateAssumption, FS_Subset, FS_CardinalityType

\* One request of a report changes; the others hold what they held.
LEMMA OthersHold ==
  ASSUME ContactTyped, NEW a \in Asker, NEW b \in {Idle} \union Asking, Ask(a, b)
  PROVE  /\ asker' \in [Asker -> {Idle} \union Asking]
         /\ \A x \in Asker : asker'[x] = IF x = a THEN b ELSE asker[x]
         /\ \A r \in Report : Holding(r) \ {a} = Holding(r)' \ {a}
  <1>1. asker' \in [Asker -> {Idle} \union Asking]
    BY DEF Ask, ContactTyped
  <1>2. \A x \in Asker : asker'[x] = IF x = a THEN b ELSE asker[x]
    BY DEF Ask, ContactTyped
  <1>3. \A r \in Report : Holding(r) \ {a} = Holding(r)' \ {a}
    BY <1>2 DEF Holding
  <1> QED BY <1>1, <1>2, <1>3

\* A request that held a slot gives it up, one that held none takes it.
LEMMA HoldingLess ==
  ASSUME NEW S, NEW T, NEW a, IsFiniteSet(S), S \ {a} = T \ {a}, a \notin T
  PROVE  /\ IsFiniteSet(T) /\ Cardinality(T) <= Cardinality(S)
         /\ Cardinality(T) \in Nat /\ Cardinality(S) \in Nat
         /\ a \in S => Cardinality(T) = Cardinality(S) - 1
  <1>1. T \subseteq S /\ T = S \ {a}
    OBVIOUS
  <1>2. IsFiniteSet(T) /\ Cardinality(T) <= Cardinality(S) /\ Cardinality(T) \in Nat
        /\ Cardinality(S) \in Nat
    BY <1>1, FS_Subset, FS_CardinalityType
  <1>3. a \in S => Cardinality(T) = Cardinality(S) - 1
    BY <1>1, FS_RemoveElement
  <1> QED BY <1>2, <1>3

LEMMA HoldingMore ==
  ASSUME NEW S, NEW T, NEW a, IsFiniteSet(S), S \ {a} = T \ {a}
  PROVE  /\ IsFiniteSet(T) /\ Cardinality(T) \in Nat /\ Cardinality(S) \in Nat
         /\ Cardinality(T) <= Cardinality(S) + 1
         /\ a \in S => Cardinality(T) <= Cardinality(S)
  <1>1. T \subseteq S \union {a}
    OBVIOUS
  <1>2. IsFiniteSet(S \union {a}) /\ Cardinality(S \union {a}) <= Cardinality(S) + 1
        /\ Cardinality(S) \in Nat
    BY FS_AddElement, FS_CardinalityType
  <1>3. IsFiniteSet(T) /\ Cardinality(T) <= Cardinality(S \union {a})
    BY <1>1, <1>2, FS_Subset
  <1>4. Cardinality(T) \in Nat /\ Cardinality(S \union {a}) \in Nat
    BY <1>2, <1>3, FS_CardinalityType
  <1>5. a \in S => T \subseteq S
    OBVIOUS
  <1>6. a \in S => Cardinality(T) <= Cardinality(S)
    BY <1>5, FS_Subset
  <1> QED BY <1>2, <1>3, <1>4, <1>6

LEMMA CodeFields ==
  ASSUME ContactTyped, NEW r \in Report
  PROVE  /\ code[r] \in CodeRow /\ code[r].slots \in Nat /\ code[r].slots <= maxCodeSends
         /\ code[r].attempts \in 0 .. MAX_CODE_ATTEMPTS
         /\ mailbox[r] \subseteq Codes
  BY GateAssumption DEF ContactTyped, CodeRow

\* The two columns that a new code and a confirmed one write.
LEMMA CodeWritten ==
  ASSUME code \in [Report -> CodeRow], NEW r \in Report, NEW c \in Codes \union {0}
  PROVE  /\ [code EXCEPT ![r].live = c, ![r].attempts = 0]
            = [code EXCEPT ![r] = [live |-> c, attempts |-> 0, slots |-> code[r].slots]]
         /\ [live |-> c, attempts |-> 0, slots |-> code[r].slots] \in CodeRow
  <1> DEFINE d == [live |-> c, attempts |-> 0, slots |-> code[r].slots]
             m == [code EXCEPT ![r].live = c]
             n == [m EXCEPT ![r].attempts = 0]
  <1>1. d \in CodeRow
    BY GateAssumption DEF CodeRow
  <1>2. m[r] = [live |-> c, attempts |-> code[r].attempts, slots |-> code[r].slots]
        /\ DOMAIN m = Report /\ \A x \in Report : x # r => m[x] = code[x]
    BY DEF CodeRow
  <1> HIDE DEF m
  <1>3. n[r] = d /\ DOMAIN n = Report /\ \A x \in Report : x # r => n[x] = code[x]
    BY <1>2
  <1>4. [code EXCEPT ![r].live = c, ![r].attempts = 0] = n
    BY DEF m
  <1> HIDE DEF n, d
  <1>5. n = [code EXCEPT ![r] = d]
    <2>1. n = [x \in Report |-> n[x]]
      BY <1>3 DEF n
    <2> QED BY <1>3, <2>1
  <1> QED BY <1>1, <1>4, <1>5 DEF d

\* A report whose slots and mailbox stay, and whose slots nobody new holds.
LEMMA SlotsKept ==
  ASSUME CodesInv, NEW a \in Asker, NEW b \in {Idle} \union Asking, Ask(a, b),
         NEW r \in Report, mailbox'[r] = mailbox[r], code'[r].slots = code[r].slots,
         a \in Holding(r)' => a \in Holding(r)
  PROVE  SlotsFit(r)'
  <1> DEFINE S == Holding(r)
             T == Holding(r)'
  <1>1. IsFiniteSet(S) /\ S \ {a} = T \ {a}
    BY HoldingIsFinite, OthersHold DEF CodesInv
  <1>2. IsFiniteSet(mailbox[r]) /\ Cardinality(mailbox[r]) \in Nat
        /\ Cardinality(mailbox[r]) + Cardinality(S) <= code[r].slots
    BY FS_CardinalityType DEF CodesInv, SlotsFit
  <1>3. code[r].slots \in Nat
    BY CodeFields DEF CodesInv
  <1>4. a \in T => a \in S
    OBVIOUS
  <1> HIDE DEF S, T
  <1>5. Cardinality(T) <= Cardinality(S) /\ Cardinality(T) \in Nat /\ Cardinality(S) \in Nat
    <2>1. CASE a \in T
      BY <2>1, <1>1, <1>4, HoldingMore
    <2>2. CASE a \notin T
      BY <2>2, <1>1, HoldingLess
    <2> QED BY <2>1, <2>2
  <1>6. Cardinality(mailbox[r]) + Cardinality(T) <= code[r].slots
    BY <1>2, <1>3, <1>5
  <1> QED BY <1>2, <1>6 DEF SlotsFit, T

LEMMA SameSlots ==
  ASSUME CodesInv, UNCHANGED <<asker, mailbox>>, NEW r \in Report, code'[r].slots = code[r].slots
  PROVE  SlotsFit(r)'
  <1>1. Holding(r)' = Holding(r)
    BY DEF Holding
  <1> QED BY <1>1 DEF SlotsFit, CodesInv

LEMMA SameContact == ASSUME CodesInv, UNCHANGED contact
                     PROVE  CodesInv'
  BY SameSlots DEF CodesInv, ContactTyped, contact

LEMMA AskCodeFits ==
  ASSUME CodesInv, NEW a \in Asker, NEW r \in Report, AskCode(a, r)
  PROVE  CodesInv'
  <1> DEFINE b == [at |-> "reserve", r |-> r, c |-> 0]
  <1>1. b \in Asking /\ b.at = "reserve"
    BY DEF Asking
  <1>2. Ask(a, b) /\ UNCHANGED <<code, mailbox, strays>>
    BY DEF AskCode
  <1> HIDE DEF b
  <1>3. ContactTyped'
    BY <1>1, <1>2, OthersHold DEF CodesInv, ContactTyped
  <1>4. \A x \in Report : a \notin Holding(x)'
    BY <1>1, <1>2, OthersHold DEF CodesInv, Holding
  <1> QED BY <1>1, <1>2, <1>3, <1>4, SlotsKept DEF CodesInv

LEMMA DropAskFits ==
  ASSUME CodesInv, NEW a \in Asker, Ask(a, Idle), UNCHANGED <<code, mailbox, strays>>
  PROVE  CodesInv'
  <1>1. ContactTyped'
    BY OthersHold DEF CodesInv, ContactTyped
  <1>2. \A x \in Report : a \notin Holding(x)'
    BY OthersHold DEF CodesInv, Holding
  <1> QED BY <1>1, <1>2, SlotsKept DEF CodesInv

\* A request moves on and keeps its report and, if it has one, its slot.
LEMMA AskMovesOn ==
  ASSUME CodesInv, NEW a \in Asker, asker[a] # Idle, NEW b \in Asking, Ask(a, b), b.r = asker[a].r,
         b.at \in {"start", "mail", "refund"} => asker[a].at \in {"start", "mail", "refund"},
         UNCHANGED mailbox, strays' \in [Report -> SUBSET Codes], code' \in [Report -> CodeRow],
         \A r \in Report : code'[r].slots = code[r].slots
  PROVE  CodesInv'
  <1>1. ContactTyped'
    BY OthersHold DEF CodesInv, ContactTyped
  <1>2. \A r \in Report : a \in Holding(r)' => a \in Holding(r)
    BY OthersHold DEF CodesInv, Holding
  <1> QED BY <1>1, <1>2, SlotsKept DEF CodesInv

LEMMA ReserveFits ==
  ASSUME CodesInv, NEW a \in Asker, Reserve(a)
  PROVE  CodesInv'
  <1>1. asker[a].at = "reserve" /\ asker[a] # Idle /\ UNCHANGED <<mailbox, strays>>
    BY DEF Reserve, Idle
  <1>2. PICK r \in Report : r = asker[a].r
    BY <1>1, AskerFields DEF CodesInv
  <1>3. PICK b \in Asking : b = [asker[a] EXCEPT !.at = "start"] /\ b.r = r
    BY <1>1, <1>2, AskerFields, AskingMoves DEF CodesInv
  <1>4. CASE code[r].slots < maxCodeSends
    <2>1. code' = [code EXCEPT ![r].slots = @ + 1] /\ Ask(a, b)
      BY <1>2, <1>3, <1>4 DEF Reserve
    <2>2. code[r] \in CodeRow /\ code[r].slots \in Nat
      BY <1>2, CodeFields DEF CodesInv
    <2>3. [code[r] EXCEPT !.slots = @ + 1] \in CodeRow
      BY <1>4, <2>2, GateAssumption DEF CodeRow
    <2>4. code' \in [Report -> CodeRow] /\ code'[r].slots = code[r].slots + 1
          /\ \A x \in Report \ {r} : code'[x] = code[x]
      BY <1>2, <2>1, <2>2, <2>3 DEF CodesInv, ContactTyped, CodeRow
    <2>5. \A x \in Asker : asker'[x] = IF x = a THEN b ELSE asker[x]
      BY <1>3, <2>1, OthersHold DEF CodesInv
    <2>6. ContactTyped'
      BY <1>1, <1>3, <2>1, <2>4, OthersHold DEF CodesInv, ContactTyped
    <2>7. ASSUME NEW x \in Report, x # r PROVE SlotsFit(x)'
      <3>1. a \notin Holding(x)'
        BY <1>3, <2>5, <2>7 DEF Holding
      <3> QED BY <1>1, <1>3, <2>1, <2>4, <2>7, <3>1, SlotsKept
    <2>8. SlotsFit(r)'
      <3>1. PICK S : S = Holding(r)
        OBVIOUS
      <3>2. PICK T : T = Holding(r)'
        OBVIOUS
      <3>3. IsFiniteSet(S) /\ S \ {a} = T \ {a}
        BY <1>3, <2>1, <3>1, <3>2, HoldingIsFinite, OthersHold DEF CodesInv
      <3>4. Cardinality(T) <= Cardinality(S) + 1 /\ Cardinality(T) \in Nat /\ Cardinality(S) \in Nat
        BY <3>3, HoldingMore
      <3>5. IsFiniteSet(mailbox[r]) /\ Cardinality(mailbox[r]) \in Nat
            /\ Cardinality(mailbox[r]) + Cardinality(S) <= code[r].slots
        BY <1>2, <3>1, FS_CardinalityType DEF CodesInv, SlotsFit
      <3>6. Cardinality(mailbox[r]) + Cardinality(T) <= code'[r].slots
        BY <2>2, <2>4, <3>4, <3>5
      <3> QED BY <1>1, <3>2, <3>5, <3>6 DEF SlotsFit
    <2> QED BY <2>6, <2>7, <2>8 DEF CodesInv
  <1>5. CASE ~(code[r].slots < maxCodeSends)
    <2>1. Ask(a, Idle) /\ UNCHANGED code
      BY <1>2, <1>5 DEF Reserve
    <2> QED BY <1>1, <2>1, DropAskFits
  <1> QED BY <1>4, <1>5

\* startContactVerification() writes the code and keeps the slots.
LEMMA StartFits ==
  ASSUME CodesInv, NEW a \in Asker, StartVerification(a)
  PROVE  CodesInv'
  <1>1. asker[a].at = "start" /\ asker[a] # Idle /\ UNCHANGED <<mailbox, strays>>
    BY DEF StartVerification, Idle
  <1>2. PICK r \in Report : r = asker[a].r
    BY <1>1, AskerFields DEF CodesInv
  <1>3. PICK c \in Codes : /\ code' = [code EXCEPT ![r].live = c, ![r].attempts = 0]
                           /\ Ask(a, [asker[a] EXCEPT !.at = "mail", !.c = c])
    BY <1>2 DEF StartVerification
  <1>4. PICK b \in Asking : b = [asker[a] EXCEPT !.at = "mail", !.c = c] /\ b.r = r
    BY <1>1, <1>2, AskerFields, AskingMoves DEF CodesInv
  <1>5. code[r] \in CodeRow
    BY <1>2, CodeFields DEF CodesInv
  <1>6. PICK d \in CodeRow : d.slots = code[r].slots /\ code' = [code EXCEPT ![r] = d]
    <2> DEFINE d == [live |-> c, attempts |-> 0, slots |-> code[r].slots]
    <2>1. d \in CodeRow /\ [code EXCEPT ![r].live = c, ![r].attempts = 0] = [code EXCEPT ![r] = d]
      BY CodeWritten DEF CodesInv, ContactTyped
    <2>2. d.slots = code[r].slots
      OBVIOUS
    <2> HIDE DEF d
    <2> QED BY <1>3, <2>1, <2>2
  <1>7. code' \in [Report -> CodeRow] /\ \A x \in Report : code'[x].slots = code[x].slots
    BY <1>2, <1>6 DEF CodesInv, ContactTyped
  <1>8. strays' \in [Report -> SUBSET Codes]
    BY <1>1 DEF CodesInv, ContactTyped
  <1> QED BY <1>1, <1>2, <1>3, <1>4, <1>7, <1>8, AskMovesOn

\* A code that is mailed moves its slot from the request to the mailbox.
LEMMA MailFits ==
  ASSUME CodesInv, NEW a \in Asker, MailCode(a)
  PROVE  CodesInv'
  <1>1. asker[a].at = "mail" /\ asker[a] # Idle /\ UNCHANGED code
    BY DEF MailCode, Idle
  <1>2. PICK r \in Report : r = asker[a].r
    BY <1>1, AskerFields DEF CodesInv
  <1>3. PICK c \in Codes : c = asker[a].c
    BY <1>1, AskerFields DEF CodesInv
  <1>4. CASE mailbox' = [mailbox EXCEPT ![r] = @ \union {c}] /\ Ask(a, Idle) /\ UNCHANGED strays
    <2>1. mailbox' \in [Report -> SUBSET Codes] /\ mailbox'[r] = mailbox[r] \union {c}
          /\ \A x \in Report \ {r} : mailbox'[x] = mailbox[x]
      BY <1>2, <1>3, <1>4 DEF CodesInv, ContactTyped
    <2>2. ContactTyped'
      BY <1>1, <1>4, <2>1, OthersHold DEF CodesInv, ContactTyped
    <2>3. \A x \in Report : a \notin Holding(x)'
      BY <1>4, OthersHold DEF CodesInv, Holding
    <2>4. \A x \in Report \ {r} : SlotsFit(x)'
      BY <1>1, <1>4, <2>1, <2>3, SlotsKept
    <2>5. SlotsFit(r)'
      <3>1. PICK S : S = Holding(r)
        OBVIOUS
      <3>2. PICK T : T = Holding(r)'
        OBVIOUS
      <3>3. IsFiniteSet(S) /\ S \ {a} = T \ {a} /\ a \notin T /\ a \in S
        BY <1>1, <1>2, <1>4, <2>3, <3>1, <3>2, HoldingIsFinite, OthersHold DEF CodesInv, Holding
      <3>4. Cardinality(T) = Cardinality(S) - 1 /\ Cardinality(T) \in Nat /\ Cardinality(S) \in Nat
        BY <3>3, HoldingLess
      <3>5. IsFiniteSet(mailbox[r]) /\ Cardinality(mailbox[r]) \in Nat
            /\ Cardinality(mailbox[r]) + Cardinality(S) <= code[r].slots
        BY <1>2, <3>1, FS_CardinalityType DEF CodesInv, SlotsFit
      <3>6. IsFiniteSet(mailbox'[r]) /\ Cardinality(mailbox'[r]) <= Cardinality(mailbox[r]) + 1
            /\ Cardinality(mailbox'[r]) \in Nat
        <4>1. PICK M : M = mailbox[r]
          OBVIOUS
        <4>2. IsFiniteSet(M) /\ Cardinality(M) \in Nat
          BY <3>5, <4>1
        <4>3. IsFiniteSet(M \union {c})
              /\ Cardinality(M \union {c}) = IF c \in M THEN Cardinality(M) ELSE Cardinality(M) + 1
          BY <4>2, FS_AddElement
        <4>4. Cardinality(M \union {c}) \in Nat /\ Cardinality(M \union {c}) <= Cardinality(M) + 1
          BY <4>2, <4>3
        <4> QED BY <2>1, <4>1, <4>3, <4>4
      <3>7. code[r].slots \in Nat
        BY <1>2, CodeFields DEF CodesInv
      <3>8. Cardinality(mailbox'[r]) + Cardinality(T) <= code'[r].slots
        BY <1>1, <3>4, <3>5, <3>6, <3>7
      <3> QED BY <3>2, <3>6, <3>8 DEF SlotsFit
    <2> QED BY <2>2, <2>4, <2>5 DEF CodesInv
  <1>5. CASE /\ Ask(a, [asker[a] EXCEPT !.at = "refund"]) /\ UNCHANGED mailbox
             /\ UNCHANGED strays \/ strays' = [strays EXCEPT ![r] = @ \union {c}]
    <2>1. PICK b \in Asking : b = [asker[a] EXCEPT !.at = "refund"] /\ b.r = asker[a].r
      BY <1>1, AskerFields, AskingMoves DEF CodesInv
    <2>2. code' \in [Report -> CodeRow] /\ strays' \in [Report -> SUBSET Codes]
      BY <1>1, <1>2, <1>3, <1>5 DEF CodesInv, ContactTyped
    <2> QED BY <1>1, <1>5, <2>1, <2>2, AskMovesOn
  <1> QED BY <1>2, <1>3, <1>4, <1>5 DEF MailCode

\* A refund gives a slot back that the request held.
LEMMA RefundFits ==
  ASSUME CodesInv, NEW a \in Asker, Refund(a)
  PROVE  CodesInv'
  <1>1. asker[a].at = "refund" /\ asker[a] # Idle /\ UNCHANGED <<mailbox, strays>> /\ Ask(a, Idle)
    BY DEF Refund, Idle
  <1>2. PICK r \in Report : r = asker[a].r
    BY <1>1, AskerFields DEF CodesInv
  <1>3. code' = [code EXCEPT ![r].slots = @ - 1]
    BY <1>2 DEF Refund
  <1>4. code[r] \in CodeRow /\ code[r].slots \in Nat /\ code[r].slots <= maxCodeSends
    BY <1>2, CodeFields DEF CodesInv
  <1>5. \A x \in Report : a \notin Holding(x)'
    BY <1>1, OthersHold DEF CodesInv, Holding
  <1>6. PICK S : S = Holding(r)
    OBVIOUS
  <1>7. PICK T : T = Holding(r)'
    OBVIOUS
  <1>8. IsFiniteSet(S) /\ S \ {a} = T \ {a} /\ a \notin T /\ a \in S
    BY <1>1, <1>2, <1>5, <1>6, <1>7, HoldingIsFinite, OthersHold DEF CodesInv, Holding
  <1>9. Cardinality(T) = Cardinality(S) - 1 /\ Cardinality(T) \in Nat /\ Cardinality(S) \in Nat
    BY <1>8, HoldingLess
  <1>10. IsFiniteSet(mailbox[r]) /\ Cardinality(mailbox[r]) \in Nat
         /\ Cardinality(mailbox[r]) + Cardinality(S) <= code[r].slots
    BY <1>2, <1>6, FS_CardinalityType DEF CodesInv, SlotsFit
  <1>11. code[r].slots - 1 \in 0 .. maxCodeSends
    BY <1>4, <1>9, <1>10, GateAssumption
  <1>12. PICK d \in CodeRow : d.slots = code[r].slots - 1 /\ code' = [code EXCEPT ![r] = d]
    <2> DEFINE d == [code[r] EXCEPT !.slots = @ - 1]
    <2>1. d \in CodeRow /\ d.slots = code[r].slots - 1
      BY <1>4, <1>11 DEF CodeRow
    <2>2. code' = [code EXCEPT ![r] = d]
      BY <1>3
    <2> QED BY <2>1, <2>2
  <1>13. code' \in [Report -> CodeRow] /\ code'[r].slots = code[r].slots - 1
         /\ \A x \in Report \ {r} : code'[x] = code[x]
    BY <1>2, <1>12 DEF CodesInv, ContactTyped
  <1>14. ContactTyped'
    BY <1>1, <1>13, OthersHold DEF CodesInv, ContactTyped
  <1>15. \A x \in Report \ {r} : SlotsFit(x)'
    BY <1>1, <1>5, <1>13, SlotsKept
  <1>16. Cardinality(mailbox[r]) + Cardinality(T) <= code'[r].slots
    BY <1>4, <1>9, <1>10, <1>13
  <1>17. SlotsFit(r)'
    BY <1>1, <1>7, <1>10, <1>16 DEF SlotsFit
  <1> QED BY <1>14, <1>15, <1>17 DEF CodesInv

\* A code that is confirmed or missed keeps every slot.
LEMMA GuessFits ==
  ASSUME CodesInv, NEW r \in Report, Guess(r) \/ \E c \in Codes : Confirm(r, c)
  PROVE  CodesInv'
  <1>1. UNCHANGED <<asker, mailbox, strays>>
    BY DEF Guess, Confirm
  <1>2. code[r] \in CodeRow /\ code[r].attempts \in 0 .. MAX_CODE_ATTEMPTS
    BY CodeFields DEF CodesInv
  <1>3. PICK d \in CodeRow : d.slots = code[r].slots /\ code' = [code EXCEPT ![r] = d]
    <2>1. CASE Guess(r)
      <3> DEFINE d == [code[r] EXCEPT !.attempts = @ + 1]
      <3>1. code[r].attempts < MAX_CODE_ATTEMPTS /\ code' = [code EXCEPT ![r] = d]
        BY <2>1 DEF Guess
      <3>2. d \in CodeRow /\ d.slots = code[r].slots
        BY <1>2, <3>1, GateAssumption DEF CodeRow
      <3> QED BY <3>1, <3>2
    <2>2. CASE \E c \in Codes : Confirm(r, c)
      <3>1. code' = [code EXCEPT ![r].live = 0, ![r].attempts = 0]
        BY <2>2 DEF Confirm
      <3> QED BY <3>1, CodeWritten DEF CodesInv, ContactTyped
    <2> QED BY <2>1, <2>2
  <1>4. code' \in [Report -> CodeRow] /\ \A x \in Report : code'[x].slots = code[x].slots
    BY <1>3 DEF CodesInv, ContactTyped
  <1> QED BY <1>1, <1>4, SameSlots DEF CodesInv, ContactTyped

-----------------------------------------------------------------------------
(* Builds.                                                                 *)

LEMMA BuildFields ==
  ASSUME BuildTyped, NEW r \in Report
  PROVE  /\ intake[r] \in IntakeRow /\ intake[r].state \in BuildStates
         /\ intake[r].attempts \in Attempts
         /\ profile[r] \in Attempts /\ verdict[r] \in Verdict
  BY DEF BuildTyped, IntakeRow

LEMMA BuilderFields ==
  ASSUME BuildTyped, NEW w \in Builder, builder[w] # Idle
  PROVE  /\ builder[w] \in Claimed /\ builder[w].r \in Report
         /\ builder[w].attempt \in Attempts
  BY DEF BuildTyped, Claimed

\* A claim stays fit while its report's upload row is not forgotten and its
\* report is neither put into triage nor loses its target there.
ClaimStays(x, i, y, j) ==
    i.state # "none" =>
        /\ j.state # "none"
        /\ y.state = "TRIAGING" => x.state = "TRIAGING" /\ (x.target = "own" => y.target = "own")
ReportStays(r) == ClaimStays(report[r], intake[r], report'[r], intake'[r])

LEMMA ClaimsKept ==
  ASSUME BuildInv, \A r \in Report : ReportStays(r),
         \A w \in Builder :
            \/ builder'[w] \in {builder[w], Idle}
            \/ builder'[w].r \in Report
                 /\ ClaimFits(builder'[w], report'[builder'[w].r], intake'[builder'[w].r])
  PROVE  ClaimsFit'
  <1> SUFFICES ASSUME NEW w \in Builder, builder'[w] # Idle, builder'[w] = builder[w]
               PROVE  ClaimFits(builder[w], report'[builder[w].r], intake'[builder[w].r])
    BY DEF ClaimsFit
  <1>1. PICK r \in Report : r = builder[w].r
    BY BuilderFields DEF BuildInv
  <1>2. ClaimFits(builder[w], report[r], intake[r])
    BY <1>1 DEF BuildInv, ClaimsFit
  <1>3. ReportStays(r)
    OBVIOUS
  <1> QED BY <1>1, <1>2, <1>3 DEF ReportStays, ClaimStays, ClaimFits

\* A report closes, or stays where it is, on the same target.
LEMMA BuildKept ==
  ASSUME GateTyped, BuildInv, UNCHANGED <<buildVars, queued>>,
         \/ UNCHANGED report
         \/ \E r \in Report, y \in ReportRow :
              /\ Set(r, y) /\ y.target = report[r].target
              /\ y.state = report[r].state \/ y.state \in Terminal
  PROVE  BuildInv'
  <1>1. \A x \in Report : /\ report'[x] \in ReportRow
                          /\ report'[x].target = report[x].target
                          /\ report'[x].state = report[x].state \/ report'[x].state \in Terminal
   BY SetRow DEF GateTyped
  <1>2. UNCHANGED <<intake, profile, handle, builder, starter, verdict>>
    BY DEF buildVars
  <1>3. ASSUME NEW x \in Report PROVE RowFits(x)' /\ ReportStays(x)
    <2>1. BuildFits(report[x], intake[x], profile[x], queued \cap {x}, verdict[x])
      BY DEF BuildInv, RowFits
    <2>2. PICK y \in ReportRow : /\ y = report'[x] /\ y.target = report[x].target
                                 /\ y.state = report[x].state \/ y.state \in Terminal
      BY <1>1
    <2>3. /\ BuildFits(y, intake[x], profile[x], queued \cap {x}, verdict[x])
          /\ ClaimStays(report[x], intake[x], y, intake[x])
      BY <2>1, <2>2 DEF BuildFits, ClaimStays, Terminal
    <2> QED BY <1>2, <2>2, <2>3 DEF RowFits, ReportStays
  <1>4. ClaimsFit'
    BY <1>2, <1>3, ClaimsKept
  <1> QED BY <1>2, <1>3, <1>4 DEF BuildInv, BuildTyped

-----------------------------------------------------------------------------
(* The gate keeps the invariant.                                           *)

\* What most of the gate's actions do: at most one row moves, which nobody has
\* locked, to another state of the gate or out of it, and nobody begins to link.
LEMMA QuietGate ==
  ASSUME UploadInv, CodesInv', UNCHANGED <<buildVars, queued>>,
         trail' \in [Report -> SUBSET Events], mail' \in [Report -> SUBSET NoticeKinds],
         hold' \in [Report -> HoldSteps], ReviewersTyped', NoNewLink,
         \/ UNCHANGED report
         \/ \E r \in Report, y \in ReportRow :
              /\ Set(r, y) /\ Free(r)
              /\ y.dup = report[r].dup /\ y.target = report[r].target
              /\ \/ y.state = report[r].state
                 \/ report[r].state \in {"NEEDS_DECISION", "TRIAGING"} /\ y.state \in {"DENIED", "EXPIRED"}
  PROVE  UploadInv'
  <1>1. GateTyped'
    BY SetRow DEF UploadInv, GateTyped
  <1>2. LinksInv'
    <2>1. UNCHANGED report \/ \E r \in Report, y \in ReportRow : RowLinkStays(r, y)
      BY DEF RowLinkStays
    <2> QED BY <2>1, LinksKept DEF UploadInv
  <1>3. BuildInv'
    BY BuildKept DEF UploadInv, Terminal
  <1> QED BY <1>1, <1>2, <1>3 DEF UploadInv

LEMMA ReportFields ==
  ASSUME GateTyped, NEW r \in Report
  PROVE  report[r] \in ReportRow /\ report[r].state \in States
         /\ trail[r] \subseteq Events /\ mail[r] \subseteq NoticeKinds
  BY DEF GateTyped, ReportRow

\* A reviewer's next step, other than to link.
LEMMA Becomes ==
  ASSUME ReviewersTyped, NEW v \in Reviewer, NEW b \in {Idle} \union Replying, Become(v, b)
  PROVE  ReviewersTyped' /\ NoNewLink
  <1>1. \A u \in Reviewer : reviewer'[u] = IF u = v THEN b ELSE reviewer[u]
    BY DEF Become, ReviewersTyped
  <1>2. b.at # "link"
    BY DEF Idle, Replying
  <1> QED BY <1>1, <1>2 DEF Become, ReviewersTyped, NoNewLink

LEMMA SameReviewers == ASSUME ReviewersTyped, UNCHANGED reviewer
                       PROVE  ReviewersTyped' /\ NoNewLink
  BY DEF ReviewersTyped, NoNewLink

LEMMA NoteTyped ==
  ASSUME GateTyped, NEW r \in Report, NEW events \in SUBSET Events, Note(r, events)
  PROVE  trail' \in [Report -> SUBSET Events]
  BY DEF GateTyped, Note

\* holdForDecision() and its retries.
LEMMA HoldFits ==
  ASSUME UploadInv, UNCHANGED buildVars, NEW r \in Report, HoldForDecision(r) \/ RetryHold(r)
  PROVE  UploadInv'
  <1>1. UNCHANGED <<contact, reviewer, queued>>
    BY DEF HoldForDecision, RetryHold, Attach, Acknowledge, RecordAck, ReadGate, RecordTriage
  <1>2. CodesInv' /\ ReviewersTyped' /\ NoNewLink
    BY <1>1, SameContact, SameReviewers DEF UploadInv, LinksInv
  <1>3. hold' \in [Report -> HoldSteps]
    BY DEF HoldForDecision, RetryHold, Attach, Acknowledge, RecordAck, ReadGate, RecordTriage,
           Next_, HoldSteps, UploadInv, GateTyped
  <1>4. mail' \in [Report -> SUBSET NoticeKinds]
    BY DEF HoldForDecision, RetryHold, Attach, Acknowledge, RecordAck, ReadGate, RecordTriage,
           NoticeKinds, UploadInv, GateTyped, notices
  <1>5. trail' \in [Report -> SUBSET Events]
    <2>1. {"acknowledgement"} \in SUBSET Events /\ {"triaged"} \in SUBSET Events /\ {} \in SUBSET Events
      BY DEF Events, NoticeKinds
    <2>2. CASE UNCHANGED trail
      BY <2>2 DEF UploadInv, GateTyped
    <2>3. CASE RecordAck(r) \/ RecordTriage(r)
      BY <2>1, <2>3, NoteTyped DEF UploadInv, RecordAck, RecordTriage
    <2> QED BY <2>2, <2>3 DEF HoldForDecision, RetryHold, Attach, Acknowledge, ReadGate, notices
  <1>6. CASE Attach(r)
    <2>1. PICK has \in BOOLEAN : Set(r, [report[r] EXCEPT !.material = @ \/ has])
      BY <1>6 DEF Attach
    <2>2. Free(r)
      BY <1>6 DEF Attach
    <2>3. PICK y \in ReportRow : /\ Set(r, y) /\ y.dup = report[r].dup
                                 /\ y.target = report[r].target /\ y.state = report[r].state
      <3> DEFINE y == [report[r] EXCEPT !.material = @ \/ has]
      <3>1. report[r] \in ReportRow
        BY ReportFields DEF UploadInv
      <3>2. (report[r].material \/ has) \in BOOLEAN
        OBVIOUS
      <3>3. y \in ReportRow /\ y.dup = report[r].dup /\ y.target = report[r].target
            /\ y.state = report[r].state
        BY <3>1, <3>2 DEF ReportRow
      <3> QED BY <2>1, <3>3
    <2> QED BY <1>1, <1>2, <1>3, <1>4, <1>5, <2>2, <2>3, QuietGate
  <1>7. CASE UNCHANGED report
    BY <1>1, <1>2, <1>3, <1>4, <1>5, <1>7, QuietGate
  <1> QED BY <1>6, <1>7 DEF HoldForDecision, RetryHold, Acknowledge, RecordAck, ReadGate, RecordTriage

\* A step on one report r: its row becomes y, its upload row i, its pinned build
\* p, its verdict d, its analysis is queued or not, and a worker may have a claim
\* on it.
RowMove(r, y, i, p, waits, d) ==
    /\ report' = [report EXCEPT ![r] = y] /\ (y = report[r] \/ RowLinkStays(r, y))
    /\ intake' = [intake EXCEPT ![r] = i] /\ profile' = [profile EXCEPT ![r] = p]
    /\ verdict' = [verdict EXCEPT ![r] = d]
    /\ queued' = (queued \ {r}) \union waits
    /\ handle' \in [Report -> {"none", "UPLOAD_AGENT", "UPLOAD_DONE"}] /\ starter' \subseteq Report
    /\ builder' \in [Builder -> Claimed \union {Idle}]
    /\ BuildFits(y, i, p, waits, d) /\ ClaimStays(report[r], intake[r], y, i)
    /\ \A w \in Builder : \/ builder'[w] \in {builder[w], Idle}
                          \/ builder'[w].r = r /\ ClaimFits(builder'[w], y, i)
    /\ Fixed

LEMMA RowMoves ==
  ASSUME UploadInv, NEW r \in Report, NEW y \in ReportRow, NEW i \in IntakeRow,
         NEW p \in Attempts, NEW waits \in SUBSET {r}, NEW d \in Verdict,
         RowMove(r, y, i, p, waits, d)
  PROVE  UploadInv'
  <1> USE DEF RowMove
  <1>1. /\ report \in [Report -> ReportRow] /\ queued \subseteq Report
        /\ BuildTyped /\ ReviewersTyped
    BY DEF UploadInv, GateTyped, LinksInv, BuildInv
  <1>2. GateTyped'
    BY <1>1 DEF UploadInv, GateTyped, Fixed, notices
  <1>3. LinksInv'
    <2>1. ReviewersTyped' /\ NoNewLink
      BY <1>1, SameReviewers DEF Fixed
    <2>2. CASE y = report[r]
      <3>1. UNCHANGED report
        BY <1>1, <2>2
      <3> QED BY <2>1, <3>1, LinksKept DEF UploadInv
    <2>3. CASE RowLinkStays(r, y)
      BY <2>1, <2>3, LinksKept DEF UploadInv
    <2> QED BY <2>2, <2>3
  <1>4. CodesInv'
    BY SameContact DEF UploadInv, Fixed
  <1>5. BuildTyped'
    BY <1>1 DEF BuildTyped
  <1>6. /\ report'[r] = y /\ intake'[r] = i /\ profile'[r] = p /\ verdict'[r] = d
        /\ queued' \cap {r} = waits
    BY <1>1 DEF BuildTyped
  <1>7. \A x \in Report \ {r} : /\ report'[x] = report[x] /\ intake'[x] = intake[x]
                                /\ profile'[x] = profile[x] /\ verdict'[x] = verdict[x]
                                /\ queued' \cap {x} = queued \cap {x}
    BY <1>1 DEF BuildTyped
  <1>8. ASSUME NEW x \in Report PROVE RowFits(x)' /\ ReportStays(x)
    <2>1. CASE x = r
      BY <1>6, <2>1 DEF RowFits, BuildFits, ReportStays
    <2>2. CASE x # r
      <3>1. RowFits(x)
        BY DEF UploadInv, BuildInv
      <3>2. RowFits(x)'
        BY <1>7, <2>2, <3>1 DEF RowFits, BuildFits
      <3>3. ReportStays(x)
        BY <1>7, <2>2 DEF ReportStays, ClaimStays
      <3> QED BY <3>2, <3>3
    <2> QED BY <2>1, <2>2
  <1>9. ClaimsFit'
    <2>1. \A w \in Builder :
            \/ builder'[w] \in {builder[w], Idle}
            \/ builder'[w].r \in Report
                 /\ ClaimFits(builder'[w], report'[builder'[w].r], intake'[builder'[w].r])
      BY <1>6
    <2> QED BY <1>8, <2>1, ClaimsKept DEF UploadInv
  <1> QED BY <1>2, <1>3, <1>4, <1>5, <1>8, <1>9 DEF UploadInv, BuildInv

LEMMA RowBecomes ==
  ASSUME NEW x \in ReportRow, NEW s \in States
  PROVE  /\ [x EXCEPT !.state = s] \in ReportRow
         /\ [x EXCEPT !.state = s].dup = x.dup /\ [x EXCEPT !.state = s].target = x.target
         /\ [x EXCEPT !.state = s].state = s
  BY DEF ReportRow

LEMMA RowCloses ==
  ASSUME NEW x \in ReportRow, NEW s \in States, NEW c \in {"no", "rejected", "spam", "duplicate"}
  PROVE  /\ [x EXCEPT !.state = s, !.closed = c] \in ReportRow
         /\ [x EXCEPT !.state = s, !.closed = c].dup = x.dup
         /\ [x EXCEPT !.state = s, !.closed = c].target = x.target
         /\ [x EXCEPT !.state = s, !.closed = c].state = s
  <1> DEFINE y == [x EXCEPT !.state = s]
  <1>1. y \in ReportRow /\ y.dup = x.dup /\ y.target = x.target /\ y.state = s
    BY RowBecomes
  <1>2. [x EXCEPT !.state = s, !.closed = c] = [y EXCEPT !.closed = c]
    OBVIOUS
  <1> HIDE DEF y
  <1>3. /\ [y EXCEPT !.closed = c] \in ReportRow /\ [y EXCEPT !.closed = c].dup = y.dup
        /\ [y EXCEPT !.closed = c].target = y.target /\ [y EXCEPT !.closed = c].state = y.state
    BY <1>1 DEF ReportRow
  <1> QED BY <1>1, <1>2, <1>3 DEF y

\* A report is closed at the gate, or expires.
LEMMA CloseFits ==
  ASSUME UploadInv, UNCHANGED buildVars, NEW r \in Report, Deny(r) \/ MarkSpam(r) \/ Expire(r)
  PROVE  UploadInv'
  <1>1. UNCHANGED <<notices, hold, reviewer, contact, queued>>
    BY DEF Deny, MarkSpam, Expire
  <1>2. CodesInv' /\ ReviewersTyped' /\ NoNewLink
    BY <1>1, SameContact, SameReviewers DEF UploadInv, LinksInv
  <1>3. report[r] \in ReportRow
    BY ReportFields DEF UploadInv
  <1>4. Free(r) /\ report[r].state \in {"NEEDS_DECISION", "TRIAGING"}
    BY DEF Deny, MarkSpam, Expire, AtGate
  <1>5. PICK y \in ReportRow : /\ Set(r, y) /\ y.dup = report[r].dup
                               /\ y.target = report[r].target
                               /\ y.state \in {"DENIED", "EXPIRED"}
    <2>1. CASE Deny(r)
      <3> DEFINE y == [report[r] EXCEPT !.state = "DENIED", !.closed = "rejected"]
      <3>1. /\ y \in ReportRow /\ y.dup = report[r].dup /\ y.target = report[r].target
            /\ y.state = "DENIED"
        BY <1>3, RowCloses DEF States
      <3>2. Set(r, y)
        BY <2>1 DEF Deny
      <3> HIDE DEF y
      <3> QED BY <3>1, <3>2
    <2>2. CASE MarkSpam(r)
      <3> DEFINE y == [report[r] EXCEPT !.state = "DENIED", !.closed = "spam"]
      <3>1. /\ y \in ReportRow /\ y.dup = report[r].dup /\ y.target = report[r].target
            /\ y.state = "DENIED"
        BY <1>3, RowCloses DEF States
      <3>2. Set(r, y)
        BY <2>2 DEF MarkSpam
      <3> HIDE DEF y
      <3> QED BY <3>1, <3>2
    <2>3. CASE Expire(r)
      <3> DEFINE y == [report[r] EXCEPT !.state = "EXPIRED"]
      <3>1. /\ y \in ReportRow /\ y.dup = report[r].dup /\ y.target = report[r].target
            /\ y.state = "EXPIRED"
        BY <1>3, RowBecomes DEF States
      <3>2. Set(r, y)
        BY <2>3 DEF Expire
      <3> HIDE DEF y
      <3> QED BY <3>1, <3>2
    <2> QED BY <2>1, <2>2, <2>3
  <1>6. /\ trail' \in [Report -> SUBSET Events] /\ mail' \in [Report -> SUBSET NoticeKinds]
        /\ hold' \in [Report -> HoldSteps]
    BY <1>1 DEF UploadInv, GateTyped, notices
  <1> QED BY <1>1, <1>2, <1>4, <1>5, <1>6, QuietGate

\* releaseForAnalysis() queues an analysis no build waits for.
LEMMA ReleaseFits ==
  ASSUME UploadInv, UNCHANGED buildVars, NEW r \in Report, Release(r)
  PROVE  UploadInv'
  <1>1. /\ Free(r) /\ report[r].state = "NEEDS_DECISION"
        /\ queued' = queued \union {r} /\ UNCHANGED <<notices, hold, reviewer, contact>>
    BY DEF Release, AtGate
  <1>2. report[r] \in ReportRow
    BY ReportFields DEF UploadInv
  <1>3. PICK y \in ReportRow : /\ Set(r, y) /\ y.dup = report[r].dup
                               /\ y.target = report[r].target /\ y.state = "TRIAGING"
    BY <1>2 DEF Release, ReportRow, States
  <1>4. PICK i \in IntakeRow, p \in Attempts, d \in Verdict :
           i = intake[r] /\ p = profile[r] /\ d = verdict[r]
    BY BuildFields DEF UploadInv, BuildInv
  <1>5. BuildFits(report[r], i, p, queued \cap {r}, d)
    BY <1>4 DEF UploadInv, BuildInv, RowFits
  <1>6. i.state = "none" /\ report[r].target = "none" /\ d = Undrafted
    BY <1>1, <1>5 DEF BuildFits
  <1>7. BuildFits(y, i, p, {r}, d) /\ ClaimStays(report[r], intake[r], y, i)
    BY <1>3, <1>4, <1>6 DEF BuildFits, ClaimStays, Undrafted
  <1>8. RowLinkStays(r, y)
    BY <1>1, <1>3 DEF RowLinkStays
  <1>9. /\ UNCHANGED <<intake, profile, handle, builder, starter, verdict>> /\ BuildTyped
        /\ Fixed
    BY <1>1 DEF buildVars, UploadInv, BuildInv, Fixed
  <1>10. /\ intake' = [intake EXCEPT ![r] = i] /\ profile' = [profile EXCEPT ![r] = p]
         /\ verdict' = [verdict EXCEPT ![r] = d]
    BY <1>4, <1>9 DEF BuildTyped
  <1>11. RowMove(r, y, i, p, {r}, d)
    BY <1>1, <1>3, <1>7, <1>8, <1>9, <1>10 DEF Set, BuildTyped, RowMove
  <1> QED BY <1>11, RowMoves

\* The reviewer's answers, other than to link.
LEMMA AnswerFits ==
  ASSUME UploadInv, UNCHANGED buildVars, NEW v \in Reviewer,
         \/ \E r \in Report : RejectAtGate(v, r) \/ ResendDuplicate(v, r)
         \/ AbortDuplicate(v) \/ Reply(v) \/ RecordReply(v) \/ DropReply(v)
  PROVE  UploadInv'
  <1>1. UNCHANGED <<hold, contact, queued>>
    BY DEF RejectAtGate, ResendDuplicate, AbortDuplicate, Reply, RecordReply, DropReply
  <1>2. CodesInv' /\ hold' \in [Report -> HoldSteps]
    BY <1>1, SameContact DEF UploadInv, GateTyped
  <1>3. reviewer[v] \in {Idle} \union Linking \union Replying
    BY DEF UploadInv, LinksInv, ReviewersTyped
  <1>4. Idle.at = "idle"
    BY DEF Idle
  <1>5. reviewer[v].at \in {"reply", "record"} =>
           /\ reviewer[v] \in Replying /\ reviewer[v].r \in Report
           /\ reviewer[v].kind \in {"rejected", "duplicate"}
           /\ [reviewer[v] EXCEPT !.at = "record"] \in Replying
    BY <1>3, <1>4 DEF Linking, Replying
  <1>6. PICK b \in {Idle} \union Replying : Become(v, b)
    <2>1. ASSUME NEW r \in Report, RejectAtGate(v, r) \/ ResendDuplicate(v, r)
          PROVE  \E b \in {Idle} \union Replying : Become(v, b)
      <3>1. /\ [at |-> "reply", r |-> r, kind |-> "rejected"] \in Replying
            /\ [at |-> "reply", r |-> r, kind |-> "duplicate"] \in Replying
        BY DEF Replying
      <3> QED BY <2>1, <3>1 DEF RejectAtGate, ResendDuplicate
    <2>2. CASE AbortDuplicate(v) \/ Reply(v) \/ RecordReply(v) \/ DropReply(v)
      BY <1>5, <2>2 DEF AbortDuplicate, Reply, RecordReply, DropReply
    <2> QED BY <2>1, <2>2
  <1>7. ReviewersTyped' /\ NoNewLink
    BY <1>6, Becomes DEF UploadInv, LinksInv
  <1>8. mail' \in [Report -> SUBSET NoticeKinds]
    <2>1. CASE UNCHANGED mail
      BY <2>1 DEF UploadInv, GateTyped
    <2>2. CASE Reply(v)
      BY <1>5, <2>2 DEF Reply, NoticeKinds, UploadInv, GateTyped
    <2> QED BY <2>1, <2>2 DEF RejectAtGate, ResendDuplicate, AbortDuplicate, RecordReply, DropReply,
                              notices
  <1>9. trail' \in [Report -> SUBSET Events]
    <2>1. CASE UNCHANGED trail
      BY <2>1 DEF UploadInv, GateTyped
    <2>2. CASE RecordReply(v)
      <3>1. reviewer[v].r \in Report /\ {reviewer[v].kind} \in SUBSET Events
        BY <1>5, <2>2 DEF RecordReply, Events, NoticeKinds
      <3> QED BY <2>2, <3>1, NoteTyped DEF RecordReply, UploadInv
    <2> QED BY <2>1, <2>2 DEF RejectAtGate, ResendDuplicate, AbortDuplicate, Reply, DropReply, notices
  <1>10. \/ UNCHANGED report
         \/ \E r \in Report, y \in ReportRow :
              /\ Set(r, y) /\ Free(r)
              /\ y.dup = report[r].dup /\ y.target = report[r].target
              /\ report[r].state = "NEEDS_DECISION" /\ y.state = "DENIED"
    <2>1. ASSUME NEW r \in Report, RejectAtGate(v, r), AtGate(r),
                 Set(r, [report[r] EXCEPT !.state = "DENIED", !.closed = "rejected"])
          PROVE  \E y \in ReportRow :
                   /\ Set(r, y) /\ Free(r)
                   /\ y.dup = report[r].dup /\ y.target = report[r].target
                   /\ report[r].state = "NEEDS_DECISION" /\ y.state = "DENIED"
      <3>1. report[r] \in ReportRow
        BY ReportFields DEF UploadInv
      <3> DEFINE y == [report[r] EXCEPT !.state = "DENIED", !.closed = "rejected"]
      <3>2. /\ y \in ReportRow /\ y.dup = report[r].dup /\ y.target = report[r].target
            /\ y.state = "DENIED"
        BY <3>1, RowCloses DEF States
      <3>3. Set(r, y) /\ Free(r) /\ report[r].state = "NEEDS_DECISION"
        BY <2>1 DEF AtGate
      <3> HIDE DEF y
      <3> QED BY <3>2, <3>3
    <2>2. \/ UNCHANGED report
          \/ \E r \in Report : /\ RejectAtGate(v, r) /\ AtGate(r)
                               /\ Set(r, [report[r] EXCEPT !.state = "DENIED", !.closed = "rejected"])
      BY DEF RejectAtGate, ResendDuplicate, AbortDuplicate, Reply, RecordReply, DropReply
    <2> QED BY <2>1, <2>2
  <1> QED BY <1>1, <1>2, <1>7, <1>8, <1>9, <1>10, QuietGate

\* markDuplicateAtGate(), its lock and its write.
LEMMA DuplicateFits ==
  ASSUME UploadInv, UNCHANGED buildVars, NEW v \in Reviewer,
         LinkDuplicate(v) \/ \E r, o \in Report : BeginDuplicate(v, r, o)
  PROVE  UploadInv'
  <1>1. UNCHANGED <<notices, hold, contact, queued>>
    BY DEF LinkDuplicate, BeginDuplicate
  <1>2. CodesInv'
    BY <1>1, SameContact DEF UploadInv
  <1>3. CASE LinkDuplicate(v)
    <2>1. LinksInv'
      BY <1>3, LinksWritten DEF UploadInv
    <2>2. PICK r \in Report, y \in ReportRow :
             Set(r, y) /\ y.state = "DENIED" /\ y.target = report[r].target
      BY <1>3, LinksWritten DEF UploadInv
    <2>3. GateTyped'
      BY <1>1, <2>2, SetRow DEF UploadInv, GateTyped, notices
    <2>4. BuildInv'
      BY <1>1, <2>2, BuildKept DEF UploadInv, Terminal
    <2> QED BY <1>2, <2>1, <2>3, <2>4 DEF UploadInv
  <1>4. CASE \E r, o \in Report : BeginDuplicate(v, r, o)
    <2>1. LinksInv'
      BY <1>4, LinksBegun DEF UploadInv
    <2>2. UNCHANGED report
      BY <1>4 DEF BeginDuplicate
    <2>3. GateTyped'
      BY <1>1, <2>2 DEF UploadInv, GateTyped, notices
    <2>4. BuildInv'
      BY <1>1, <2>2, BuildKept DEF UploadInv
    <2> QED BY <1>2, <2>1, <2>3, <2>4 DEF UploadInv
  <1> QED BY <1>3, <1>4

\* The one-time codes.
LEMMA ContactFits ==
  ASSUME UploadInv, UNCHANGED buildVars, Contact
  PROVE  UploadInv'
  <1>1. UNCHANGED <<mail, hold, reviewer, queued>>
    BY DEF Contact, SendCode, DropAsk, AskCode, Guess, Confirm, Reserve, StartVerification, MailCode,
           Refund, notices
  <1>2. CodesInv'
    <2>1. ASSUME NEW a \in Asker, SendCode(a) \/ DropAsk(a) \/ \E r \in Report : AskCode(a, r)
          PROVE  CodesInv'
      BY <2>1, ReserveFits, StartFits, MailFits, RefundFits, DropAskFits, AskCodeFits
         DEF SendCode, DropAsk, UploadInv
    <2> QED BY <2>1, GuessFits DEF Contact, UploadInv
  <1>3. ReviewersTyped' /\ NoNewLink
    BY <1>1, SameReviewers DEF UploadInv, LinksInv
  <1>4. mail' \in [Report -> SUBSET NoticeKinds] /\ hold' \in [Report -> HoldSteps]
    BY <1>1 DEF UploadInv, GateTyped
  <1>5. ASSUME NEW r \in Report, NEW proven \in BOOLEAN, Free(r),
               Set(r, [report[r] EXCEPT !.verified = proven]), trail' \in [Report -> SUBSET Events]
        PROVE  UploadInv'
    <2>1. report[r] \in ReportRow
      BY ReportFields DEF UploadInv
    <2>2. \E y \in ReportRow : /\ Set(r, y) /\ y.dup = report[r].dup
                               /\ y.target = report[r].target /\ y.state = report[r].state
      BY <1>5, <2>1 DEF ReportRow
    <2> QED BY <1>1, <1>2, <1>3, <1>4, <1>5, <2>2, QuietGate
  <1>6. CASE UNCHANGED <<report, trail>>
    BY <1>1, <1>2, <1>3, <1>4, <1>6, QuietGate DEF UploadInv, GateTyped
  <1>7. ASSUME NEW a \in Asker, StartVerification(a) PROVE UploadInv'
    <2>1. asker[a].r \in Report
      BY <1>7, AskerFields DEF StartVerification, UploadInv, CodesInv, Idle
    <2>2. /\ Free(asker[a].r) /\ UNCHANGED trail
          /\ Set(asker[a].r, [report[asker[a].r] EXCEPT !.verified = FALSE])
      BY <1>7 DEF StartVerification, notices
    <2> QED BY <2>1, <2>2, <1>5 DEF UploadInv, GateTyped
  <1>8. ASSUME NEW r \in Report, NEW c \in Codes, Confirm(r, c) PROVE UploadInv'
    <2>1. trail' \in [Report -> SUBSET Events]
      BY <1>8, NoteTyped DEF Confirm, Events, UploadInv
    <2> QED BY <1>5, <1>8, <2>1 DEF Confirm
  <1> QED BY <1>6, <1>7, <1>8 DEF Contact, SendCode, DropAsk, AskCode, Guess, Reserve, MailCode, Refund,
                                  notices

-----------------------------------------------------------------------------
(* The build loop and the analysis keep the invariant.                     *)

LEMMA RowParts ==
  ASSUME UploadInv, NEW r \in Report
  PROVE  /\ report[r] \in ReportRow /\ intake[r] \in IntakeRow /\ profile[r] \in Attempts
         /\ verdict[r] \in Verdict /\ intake[r].attempts \in Attempts
         /\ report = [report EXCEPT ![r] = report[r]] /\ intake = [intake EXCEPT ![r] = intake[r]]
         /\ profile = [profile EXCEPT ![r] = profile[r]]
         /\ verdict = [verdict EXCEPT ![r] = verdict[r]]
         /\ \E waits \in SUBSET {r} :
               /\ waits = queued \cap {r}
               /\ BuildFits(report[r], intake[r], profile[r], waits, verdict[r])
  <1>1. GateTyped /\ BuildTyped /\ RowFits(r)
    BY DEF UploadInv, BuildInv
  <1>2. /\ report[r] \in ReportRow /\ intake[r] \in IntakeRow /\ profile[r] \in Attempts
        /\ verdict[r] \in Verdict /\ intake[r].attempts \in Attempts
    BY <1>1, ReportFields, BuildFields
  <1>3. /\ report = [report EXCEPT ![r] = report[r]] /\ intake = [intake EXCEPT ![r] = intake[r]]
        /\ profile = [profile EXCEPT ![r] = profile[r]]
        /\ verdict = [verdict EXCEPT ![r] = verdict[r]]
    BY <1>1 DEF GateTyped, BuildTyped
  <1>4. BuildFits(report[r], intake[r], profile[r], queued \cap {r}, verdict[r])
    BY <1>1 DEF RowFits
  <1>5. PICK waits \in SUBSET {r} : waits = queued \cap {r}
    OBVIOUS
  <1>6. BuildFits(report[r], intake[r], profile[r], waits, verdict[r])
    BY <1>4, <1>5
  <1> QED BY <1>2, <1>3, <1>5, <1>6

\* What a busy worker's claim says of its report.
LEMMA ClaimParts ==
  ASSUME UploadInv, NEW w \in Builder, builder[w] # Idle
  PROVE  /\ builder[w] \in Claimed /\ builder[w].r \in Report /\ builder[w].attempt \in Attempts
         /\ ClaimFits(builder[w], report[builder[w].r], intake[builder[w].r])
  BY BuilderFields DEF UploadInv, BuildInv, ClaimsFit

\* A step that moves no report, upload row or verdict: it may pin a build on r
\* that is not judged on another one, and a worker may go on with its claim.
LEMMA WorkerMoves ==
  ASSUME UploadInv, Fixed, UNCHANGED <<report, queued, intake, verdict>>,
         NEW r \in Report, NEW p \in Attempts, profile' = [profile EXCEPT ![r] = p],
         \/ p = profile[r]
         \/ /\ p # 0
            /\ report[r].target = "own" => verdict[r].outcome \notin {"REPRODUCED", "NOT_REPRODUCED"},
         handle' \in [Report -> {"none", "UPLOAD_AGENT", "UPLOAD_DONE"}], starter' \subseteq Report,
         builder' \in [Builder -> Claimed \union {Idle}],
         \A w \in Builder : \/ builder'[w] \in {builder[w], Idle}
                            \/ builder'[w].r = r /\ ClaimFits(builder'[w], report[r], intake[r])
  PROVE  UploadInv'
  <1>1. PICK waits \in SUBSET {r} : /\ waits = queued \cap {r}
                                    /\ BuildFits(report[r], intake[r], profile[r], waits, verdict[r])
    BY RowParts
  <1>2. BuildFits(report[r], intake[r], p, waits, verdict[r])
    BY <1>1 DEF BuildFits
  <1>3. ClaimStays(report[r], intake[r], report[r], intake[r])
    BY DEF ClaimStays
  <1>4. queued' = (queued \ {r}) \union waits
    BY <1>1
  <1>5. PICK y \in ReportRow, i \in IntakeRow, d \in Verdict :
           /\ y = report[r] /\ i = intake[r] /\ d = verdict[r]
           /\ report' = [report EXCEPT ![r] = y] /\ intake' = [intake EXCEPT ![r] = i]
           /\ verdict' = [verdict EXCEPT ![r] = d]
    BY RowParts
  <1>6. /\ BuildFits(y, i, p, waits, d) /\ ClaimStays(report[r], intake[r], y, i)
        /\ \A w \in Builder : \/ builder'[w] \in {builder[w], Idle}
                              \/ builder'[w].r = r /\ ClaimFits(builder'[w], y, i)
    BY <1>2, <1>3, <1>5
  <1>7. RowMove(r, y, i, p, waits, d)
    BY <1>4, <1>5, <1>6 DEF RowMove
  <1> QED BY <1>7, RowMoves

\* A worker's next step on the claim it has.
LEMMA GoesOn ==
  ASSUME UploadInv, NEW w \in Builder, builder[w] # Idle, NEW at, Go(w, at),
         at \in {"giveup", "bound", "profile", "plan", "agent", "build", "configure", "rotate",
                 "bind", "done", "failed", "skipped"}
  PROVE  /\ builder' \in [Builder -> Claimed \union {Idle}]
         /\ \A v \in Builder \ {w} : builder'[v] = builder[v]
         /\ builder'[w].at = at /\ builder'[w].r = builder[w].r
         /\ builder'[w].attempt = builder[w].attempt
  <1>1. builder[w] \in Claimed /\ builder \in [Builder -> Claimed \union {Idle}]
    BY ClaimParts DEF UploadInv, BuildInv, BuildTyped
  <1>2. [builder[w] EXCEPT !.at = at] \in Claimed
    BY <1>1 DEF Claimed
  <1>3. builder' = [builder EXCEPT ![w] = [builder[w] EXCEPT !.at = at]]
    BY DEF Go
  <1> QED BY <1>1, <1>2, <1>3 DEF Claimed

\* The steps of a build that leave the report as it is.
LEMMA StepFits ==
  ASSUME UploadInv, NEW w \in Builder,
         \/ ReadBound(w) \/ ReadProfile(w) \/ Plan(w) \/ AgentDone(w) \/ Build(w)
         \/ Configure(w) \/ Rotate(w)
  PROVE  UploadInv'
  <1>1. builder[w] # Idle
    BY DEF Idle, ReadBound, ReadProfile, Plan, AgentDone, Build, Configure, Rotate
  <1>2. PICK r \in Report : r = builder[w].r
    BY <1>1, ClaimParts
  <1>3. /\ builder[w].attempt \in Attempts /\ builder[w].attempt # 0 /\ intake[r].state # "none"
    BY <1>1, <1>2, ClaimParts DEF ClaimFits
  <1>4. UNCHANGED <<report, queued, intake, verdict, starter>> /\ Fixed
    BY DEF ReadBound, ReadProfile, Plan, AgentDone, Build, Configure, Rotate
  <1>5. starter' \subseteq Report
    BY <1>4 DEF UploadInv, BuildInv, BuildTyped
  <1>6. handle' \in [Report -> {"none", "UPLOAD_AGENT", "UPLOAD_DONE"}]
    BY DEF ReadBound, ReadProfile, Plan, AgentDone, Build, Configure, Rotate,
           UploadInv, BuildInv, BuildTyped
  <1>7. PICK at \in {"profile", "plan", "agent", "build", "configure", "rotate", "bind", "done",
                     "failed", "skipped"} :
           Go(w, at) /\ (at = "done" => report[r].target = "own")
    BY <1>2 DEF ReadBound, ReadProfile, Plan, AgentDone, Build, Configure, Rotate
  <1>8. /\ builder' \in [Builder -> Claimed \union {Idle}]
        /\ \A v \in Builder \ {w} : builder'[v] = builder[v]
        /\ builder'[w].at = at /\ builder'[w].r = r
        /\ builder'[w].attempt = builder[w].attempt
    BY <1>1, <1>2, <1>7, GoesOn
  <1>9. ClaimFits(builder'[w], report[r], intake[r])
    BY <1>3, <1>7, <1>8 DEF ClaimFits
  <1>10. \A v \in Builder : \/ builder'[v] \in {builder[v], Idle}
                            \/ builder'[v].r = r /\ ClaimFits(builder'[v], report[r], intake[r])
    BY <1>8, <1>9
  <1>11. PICK waits \in SUBSET {r} : BuildFits(report[r], intake[r], profile[r], waits, verdict[r])
    BY RowParts
  <1>12. PICK p \in Attempts :
            /\ profile' = [profile EXCEPT ![r] = p]
            /\ \/ p = profile[r]
               \/ /\ p # 0
                  /\ report[r].target = "own"
                       => verdict[r].outcome \notin {"REPRODUCED", "NOT_REPRODUCED"}
    <2>1. CASE UNCHANGED profile
      BY <2>1, RowParts
    <2>2. CASE Configure(w) /\ profile[r] = 0
      <3>1. report[r].target # "own"
        BY <1>11, <2>2 DEF BuildFits
      <3> QED BY <1>2, <1>3, <2>2, <3>1 DEF Configure
    <2>3. CASE Rotate(w) /\ HoldsCurrentLease(w)
      <3>1. verdict[r].outcome = "none"
        BY <1>2, <1>11, <2>3 DEF BuildFits, HoldsCurrentLease, Undrafted
      <3>2. profile' = [profile EXCEPT ![r] = builder[w].attempt] \/ UNCHANGED profile
        BY <1>2, <2>3 DEF Rotate
      <3> QED BY <1>3, <2>1, <3>1, <3>2
    <2> QED BY <1>2, <2>1, <2>2, <2>3 DEF ReadBound, ReadProfile, Plan, AgentDone, Build, Configure, Rotate
  <1> QED BY <1>4, <1>5, <1>6, <1>8, <1>10, <1>12, WorkerMoves

\* A worker gets its claim, or lets it go.
LEMMA BuilderPut ==
  ASSUME UploadInv, NEW w \in Builder, NEW b \in Claimed \union {Idle},
         builder' = [builder EXCEPT ![w] = b]
  PROVE  /\ builder' \in [Builder -> Claimed \union {Idle}] /\ builder'[w] = b
         /\ \A v \in Builder \ {w} : builder'[v] = builder[v]
  BY DEF UploadInv, BuildInv, BuildTyped

\* A crash, and a retest's request that dies between its two transactions.
LEMMA DropFits ==
  ASSUME UploadInv, (\E w \in Builder : Crash(w)) \/ \E r \in Report : DropRetest(r)
  PROVE  UploadInv'
  <1>1. UNCHANGED <<report, queued, intake, profile, handle, verdict>> /\ Fixed
    BY DEF Crash, DropRetest, Fixed
  <1>2. starter' \subseteq Report /\ handle' \in [Report -> {"none", "UPLOAD_AGENT", "UPLOAD_DONE"}]
    BY <1>1 DEF Crash, DropRetest, UploadInv, BuildInv, BuildTyped
  <1>3. builder' \in [Builder -> Claimed \union {Idle}]
        /\ \A w \in Builder : builder'[w] \in {builder[w], Idle}
    <2>1. CASE \E w \in Builder : Crash(w)
      BY <2>1, BuilderPut DEF Crash
    <2>2. CASE \E r \in Report : DropRetest(r)
      BY <2>2 DEF DropRetest, UploadInv, BuildInv, BuildTyped
    <2> QED BY <2>1, <2>2
  <1>4. PICK r \in Report : TRUE
    BY ClaimParts DEF Crash
  <1>5. profile' = [profile EXCEPT ![r] = profile[r]] /\ profile[r] \in Attempts
    BY <1>1, RowParts
  <1> QED BY <1>1, <1>2, <1>3, <1>5, WorkerMoves

\* A release for a build: approveUploadTarget(), and a retest's own.
LEMMA ReleasedFits ==
  ASSUME UploadInv, Fixed, NEW r \in Report, Approvable(r), Released(r),
         Set(r, [report[r] EXCEPT !.state = "TRIAGING"]),
         UNCHANGED <<queued, profile, handle, builder, verdict>>, starter' \subseteq Report
  PROVE  UploadInv'
  <1> DEFINE i == [state |-> "PENDING", attempts |-> 0, lease |-> "none"]
  <1>1. PICK waits \in SUBSET {r} : /\ waits = queued \cap {r}
                                    /\ BuildFits(report[r], intake[r], profile[r], waits, verdict[r])
    BY RowParts
  <1>2. report[r].state = "NEEDS_DECISION" /\ Free(r) /\ intake[r].state = "none"
    BY DEF Approvable, AtGate
  <1>3. waits = {} /\ verdict[r] = Undrafted /\ report[r].target = "none"
    BY <1>1, <1>2 DEF BuildFits
  <1>4. PICK y \in ReportRow : /\ report' = [report EXCEPT ![r] = y] /\ y.state = "TRIAGING"
                               /\ y.dup = report[r].dup /\ y.target = report[r].target
    <2> DEFINE y == [report[r] EXCEPT !.state = "TRIAGING"]
    <2>1. /\ y \in ReportRow /\ y.dup = report[r].dup /\ y.target = report[r].target
          /\ y.state = "TRIAGING"
      <3>1. report[r] \in ReportRow
        BY RowParts
      <3> QED BY <3>1, RowBecomes DEF States
    <2>2. report' = [report EXCEPT ![r] = y]
      BY DEF Set
    <2> HIDE DEF y
    <2> QED BY <2>1, <2>2
  <1>5. i \in IntakeRow /\ i.state = "PENDING" /\ intake' = [intake EXCEPT ![r] = i]
    BY BuildAssumption DEF Released, IntakeRow, BuildStates, Attempts
  <1> HIDE DEF i
  <1>6. RowLinkStays(r, y)
    BY <1>2, <1>4 DEF RowLinkStays, Set
  <1>7. BuildFits(y, i, profile[r], waits, verdict[r]) /\ ClaimStays(report[r], intake[r], y, i)
    BY <1>2, <1>3, <1>4, <1>5 DEF BuildFits, ClaimStays, Undrafted
  <1>8. queued' = (queued \ {r}) \union waits
    BY <1>1
  <1>9. PICK p \in Attempts, d \in Verdict :
           /\ p = profile[r] /\ profile' = [profile EXCEPT ![r] = p]
           /\ d = verdict[r] /\ verdict' = [verdict EXCEPT ![r] = d]
    BY RowParts
  <1>10. /\ handle' \in [Report -> {"none", "UPLOAD_AGENT", "UPLOAD_DONE"}]
         /\ builder' \in [Builder -> Claimed \union {Idle}]
    BY DEF UploadInv, BuildInv, BuildTyped
  <1>11. BuildFits(y, i, p, waits, d)
    BY <1>7, <1>9
  <1>12. RowMove(r, y, i, p, waits, d)
    BY <1>4, <1>5, <1>6, <1>7, <1>8, <1>9, <1>10, <1>11 DEF RowMove
  <1> QED BY <1>5, <1>12, RowMoves

\* A step on report rows only, which builds nothing and judges nothing.
LEMMA ReportMoves ==
  ASSUME UploadInv, Fixed, UNCHANGED <<queued, intake, profile, handle, verdict>>,
         starter' \subseteq Report, builder' \in [Builder -> Claimed \union {Idle}],
         NEW r \in Report, NEW y \in ReportRow, Set(r, y), RowLinkStays(r, y),
         \A waits \in SUBSET {r} : BuildFits(report[r], intake[r], profile[r], waits, verdict[r])
                                => BuildFits(y, intake[r], profile[r], waits, verdict[r]),
         ClaimStays(report[r], intake[r], y, intake[r]),
         \A w \in Builder : \/ builder'[w] \in {builder[w], Idle}
                            \/ builder'[w].r = r /\ ClaimFits(builder'[w], y, intake[r])
  PROVE  UploadInv'
  <1>1. PICK waits \in SUBSET {r} : /\ waits = queued \cap {r}
                                    /\ BuildFits(report[r], intake[r], profile[r], waits, verdict[r])
    BY RowParts
  <1>2. BuildFits(y, intake[r], profile[r], waits, verdict[r])
    BY <1>1
  <1>3. queued' = (queued \ {r}) \union waits
    BY <1>1
  <1>4. PICK i \in IntakeRow, p \in Attempts, d \in Verdict :
           /\ i = intake[r] /\ intake' = [intake EXCEPT ![r] = i]
           /\ p = profile[r] /\ profile' = [profile EXCEPT ![r] = p]
           /\ d = verdict[r] /\ verdict' = [verdict EXCEPT ![r] = d]
    BY RowParts
  <1>5. handle' \in [Report -> {"none", "UPLOAD_AGENT", "UPLOAD_DONE"}]
    BY DEF UploadInv, BuildInv, BuildTyped
  <1>6. /\ BuildFits(y, i, p, waits, d) /\ ClaimStays(report[r], intake[r], y, i)
        /\ \A w \in Builder : \/ builder'[w] \in {builder[w], Idle}
                              \/ builder'[w].r = r /\ ClaimFits(builder'[w], y, i)
    BY <1>2, <1>4
  <1>7. RowMove(r, y, i, p, waits, d)
    BY <1>3, <1>4, <1>5, <1>6 DEF RowMove, Set
  <1> QED BY <1>7, RowMoves

\* startRetest() and the child's release.
LEMMA RetestFits ==
  ASSUME UploadInv, NEW r \in Report, Approve(r) \/ StartRetest(r) \/ ReleaseRetest(r)
  PROVE  UploadInv'
  <1>1. starter' \subseteq Report /\ Fixed
    BY DEF Approve, StartRetest, ReleaseRetest, Fixed, UploadInv, BuildInv, BuildTyped
  <1>2. CASE Approve(r)
    BY <1>1, <1>2, ReleasedFits DEF Approve
  <1>3. CASE StartRetest(r)
    <2> DEFINE y == Filed("retest")
    <2>1. /\ y \in ReportRow /\ y.dup = NoReport /\ y.target = "none"
          /\ y.state = "NEEDS_DECISION"
      BY DEF Filed, ReportRow, States
    <2> HIDE DEF y
    <2>2. report[r].state = "ABSENT" /\ Set(r, y)
      BY <1>3 DEF StartRetest, y
    <2>3. report[r].dup = NoReport
      <3>1. report[r].dup # NoReport => report[r].state = "DENIED"
        BY DEF UploadInv, LinksInv, LinkedAreClosed
      <3> QED BY <2>2, <3>1
    <2>4. RowLinkStays(r, y)
      BY <2>1, <2>2, <2>3 DEF RowLinkStays
    <2>5. ASSUME NEW waits \in SUBSET {r},
                 BuildFits(report[r], intake[r], profile[r], waits, verdict[r])
          PROVE  BuildFits(y, intake[r], profile[r], waits, verdict[r])
      BY <2>1, <2>2, <2>5 DEF BuildFits, Undrafted
    <2>6. intake[r].state = "none"
      BY <2>2, RowParts DEF BuildFits
    <2>7. ClaimStays(report[r], intake[r], y, intake[r])
      BY <2>6 DEF ClaimStays
    <2>8. UNCHANGED <<queued, intake, profile, handle, builder, verdict>>
          /\ builder' \in [Builder -> Claimed \union {Idle}]
      BY <1>3 DEF StartRetest, UploadInv, BuildInv, BuildTyped
    <2> QED BY <1>1, <2>1, <2>2, <2>4, <2>5, <2>7, <2>8, ReportMoves
  <1>4. CASE ReleaseRetest(r)
    <2>1. CASE Approvable(r)
      BY <1>1, <1>4, <2>1, ReleasedFits DEF ReleaseRetest
    <2>2. CASE ~Approvable(r)
      <3>1. UNCHANGED <<report, queued, intake, profile, handle, builder, verdict>>
        BY <1>4, <2>2 DEF ReleaseRetest
      <3>2. profile' = [profile EXCEPT ![r] = profile[r]] /\ profile[r] \in Attempts
        BY <3>1, RowParts
      <3>3. /\ handle' \in [Report -> {"none", "UPLOAD_AGENT", "UPLOAD_DONE"}]
            /\ builder' \in [Builder -> Claimed \union {Idle}]
        BY <3>1 DEF UploadInv, BuildInv, BuildTyped
      <3> QED BY <1>1, <3>1, <3>2, <3>3, WorkerMoves
    <2> QED BY <2>1, <2>2
  <1> QED BY <1>2, <1>3, <1>4

\* bindTarget(), by the worker that built the material and by a reviewer.
LEMMA BindFits ==
  ASSUME UploadInv,
         (\E w \in Builder : Bind(w)) \/ \E r \in Report : BindOther(r)
  PROVE  UploadInv'
  <1>1. ASSUME NEW r \in Report, NEW target \in {"own", "other"}, Free(r), Bindable(r),
               report[r].state # "ABSENT", target = "own" => profile[r] # 0,
               Set(r, [report[r] EXCEPT !.target = target]), Fixed,
               UNCHANGED <<queued, intake, profile, handle, starter, verdict>>,
               builder' \in [Builder -> Claimed \union {Idle}],
               \A w \in Builder : \/ builder'[w] \in {builder[w], Idle}
                                  \/ /\ builder'[w].r = r /\ builder'[w].attempt # 0
                                     /\ intake[r].state # "none" /\ target = "own"
        PROVE  UploadInv'
    <2>1. PICK y \in ReportRow : /\ Set(r, y) /\ y.target = target
                                 /\ y.state = report[r].state /\ y.dup = report[r].dup
      <3> DEFINE y == [report[r] EXCEPT !.target = target]
      <3>1. report[r] \in ReportRow
        BY RowParts
      <3>2. y \in ReportRow /\ y.target = target /\ y.state = report[r].state /\ y.dup = report[r].dup
        BY <3>1 DEF ReportRow
      <3>3. Set(r, y)
        BY <1>1
      <3> HIDE DEF y
      <3> QED BY <3>2, <3>3
    <2>2. report[r].target = "none" /\ report[r].state # "NEEDS_DECISION"
      BY <1>1 DEF Bindable
    <2>3. RowLinkStays(r, y)
      BY <1>1, <2>1 DEF RowLinkStays
    <2>4. ASSUME NEW waits \in SUBSET {r},
                 BuildFits(report[r], intake[r], profile[r], waits, verdict[r])
          PROVE  BuildFits(y, intake[r], profile[r], waits, verdict[r])
      BY <1>1, <2>1, <2>2, <2>4 DEF BuildFits
    <2>5. ClaimStays(report[r], intake[r], y, intake[r])
      BY <2>1, <2>2 DEF ClaimStays
    <2>6. \A w \in Builder : \/ builder'[w] \in {builder[w], Idle}
                             \/ builder'[w].r = r /\ ClaimFits(builder'[w], y, intake[r])
      BY <1>1, <2>1 DEF ClaimFits
    <2>7. starter' \subseteq Report
      BY <1>1 DEF UploadInv, BuildInv, BuildTyped
    <2> QED BY <1>1, <2>1, <2>3, <2>4, <2>5, <2>6, <2>7, ReportMoves
  <1>2. ASSUME NEW w \in Builder, Bind(w) PROVE UploadInv'
    <2>1. builder[w] # Idle /\ Fixed
      BY <1>2 DEF Bind, Idle
    <2>2. PICK r \in Report : r = builder[w].r
      BY <2>1, ClaimParts
    <2>3. builder[w].attempt # 0 /\ intake[r].state # "none"
      BY <2>1, <2>2, ClaimParts DEF ClaimFits
    <2>4. report[r].state # "ABSENT"
      BY <2>3, RowParts DEF BuildFits
    <2>5. UNCHANGED <<queued, intake, profile, handle, starter, verdict>>
      BY <1>2 DEF Bind
    <2>6. CASE Go(w, "done")
      <3>1. /\ builder' \in [Builder -> Claimed \union {Idle}]
            /\ \A v \in Builder \ {w} : builder'[v] = builder[v]
            /\ builder'[w].r = r /\ builder'[w].attempt # 0
        BY <2>1, <2>2, <2>3, <2>6, GoesOn
      <3>2. builder'[w].at = "done"
        BY <2>1, <2>6, GoesOn
      <3>3. ~Go(w, "failed")
        <4>1. Go(w, "failed") => builder'[w].at = "failed"
          BY <2>1, GoesOn
        <4> QED BY <3>2, <4>1
      <3>4. /\ Bindable(r) /\ profile[r] # 0 /\ Free(r)
            /\ Set(r, [report[r] EXCEPT !.target = "own"])
        BY <1>2, <2>2, <3>3 DEF Bind
      <3> QED BY <1>1, <2>1, <2>3, <2>4, <2>5, <3>1, <3>4
    <2>7. CASE Go(w, "failed")
      <3>1. /\ builder' \in [Builder -> Claimed \union {Idle}]
            /\ \A v \in Builder \ {w} : builder'[v] = builder[v]
            /\ builder'[w].r = r /\ builder'[w].attempt # 0 /\ builder'[w].at = "failed"
        BY <2>1, <2>2, <2>3, <2>7, GoesOn
      <3>2. ~Go(w, "done")
        <4>1. Go(w, "done") => builder'[w].at = "done"
          BY <2>1, GoesOn
        <4> QED BY <3>1, <4>1
      <3>3. UNCHANGED report
        BY <1>2, <3>2 DEF Bind
      <3>4. \A v \in Builder : \/ builder'[v] \in {builder[v], Idle}
                               \/ builder'[v].r = r /\ ClaimFits(builder'[v], report[r], intake[r])
        BY <2>3, <3>1 DEF ClaimFits
      <3>5. profile' = [profile EXCEPT ![r] = profile[r]] /\ profile[r] \in Attempts
        BY <2>5, RowParts
      <3>6. starter' \subseteq Report
            /\ handle' \in [Report -> {"none", "UPLOAD_AGENT", "UPLOAD_DONE"}]
        BY <2>5 DEF UploadInv, BuildInv, BuildTyped
      <3> QED BY <2>1, <2>5, <3>1, <3>3, <3>4, <3>5, <3>6, WorkerMoves
    <2> QED BY <1>2, <2>6, <2>7 DEF Bind
  <1>3. ASSUME NEW r \in Report, BindOther(r) PROVE UploadInv'
    <2>1. /\ Free(r) /\ Bindable(r) /\ report[r].state # "ABSENT"
          /\ Set(r, [report[r] EXCEPT !.target = "other"]) /\ Fixed
          /\ UNCHANGED <<queued, intake, profile, handle, builder, starter, verdict>>
      BY <1>3 DEF BindOther, buildVars
    <2>2. builder' \in [Builder -> Claimed \union {Idle}]
      BY <2>1 DEF UploadInv, BuildInv, BuildTyped
    <2> QED BY <1>1, <2>1, <2>2
  <1> QED BY <1>2, <1>3

\* A step on an upload row only, which may queue its analysis.
LEMMA IntakeMoves ==
  ASSUME UploadInv, Fixed, UNCHANGED <<report, profile, handle, starter, verdict>>,
         builder' \in [Builder -> Claimed \union {Idle}],
         NEW r \in Report, NEW i \in IntakeRow, intake' = [intake EXCEPT ![r] = i],
         NEW waits \in SUBSET {r}, queued' = (queued \ {r}) \union waits,
         intake[r].state # "none", i.state # "none",
         BuildFits(report[r], i, profile[r], waits, verdict[r]),
         \A w \in Builder : \/ builder'[w] \in {builder[w], Idle}
                            \/ builder'[w].r = r /\ ClaimFits(builder'[w], report[r], i)
  PROVE  UploadInv'
  <1>1. PICK y \in ReportRow, p \in Attempts, d \in Verdict :
           /\ y = report[r] /\ report' = [report EXCEPT ![r] = y]
           /\ p = profile[r] /\ profile' = [profile EXCEPT ![r] = p]
           /\ d = verdict[r] /\ verdict' = [verdict EXCEPT ![r] = d]
    BY RowParts
  <1>2. ClaimStays(report[r], intake[r], y, i)
    BY <1>1 DEF ClaimStays
  <1>3. starter' \subseteq Report /\ handle' \in [Report -> {"none", "UPLOAD_AGENT", "UPLOAD_DONE"}]
    BY DEF UploadInv, BuildInv, BuildTyped
  <1>4. /\ BuildFits(y, i, p, waits, d)
        /\ \A w \in Builder : \/ builder'[w] \in {builder[w], Idle}
                              \/ builder'[w].r = r /\ ClaimFits(builder'[w], y, i)
    BY <1>1
  <1>5. RowMove(r, y, i, p, waits, d)
    BY <1>1, <1>2, <1>3, <1>4 DEF RowMove
  <1> QED BY <1>5, RowMoves

\* claim() in build.ts
LEMMA ClaimIsFit ==
  ASSUME UploadInv, NEW w \in Builder, Claim(w)
  PROVE  UploadInv'
  <1>1. PICK r \in Report :
          LET n == intake[r].attempts + 1 IN
            /\ intake[r].state \in {"PENDING", "BUILDING"} /\ intake[r].attempts < MaxClaims
            /\ intake' = [intake EXCEPT ![r] = [state |-> "BUILDING", attempts |-> n, lease |-> "live"]]
            /\ builder' = [builder EXCEPT ![w] =
                             [at |-> IF n > MAX_BUILD_ATTEMPTS THEN "giveup" ELSE "bound",
                              r |-> r, attempt |-> n]]
    BY DEF Claim
  <1>2. PICK n \in Attempts : n = intake[r].attempts + 1 /\ n # 0
    BY <1>1, RowParts, BuildAssumption DEF Attempts
  <1>3. PICK at \in {"giveup", "bound"} : at = IF n > MAX_BUILD_ATTEMPTS THEN "giveup" ELSE "bound"
    OBVIOUS
  <1> DEFINE i == [state |-> "BUILDING", attempts |-> n, lease |-> "live"]
             b == [at |-> at, r |-> r, attempt |-> n]
  <1>4. i \in IntakeRow /\ i.state = "BUILDING"
    BY DEF IntakeRow, BuildStates
  <1>5. b \in Claimed /\ b.r = r /\ b.attempt # 0 /\ b.at # "done"
    BY <1>2 DEF Claimed
  <1>6. intake' = [intake EXCEPT ![r] = i] /\ builder' = [builder EXCEPT ![w] = b]
    BY <1>1, <1>2, <1>3
  <1> HIDE DEF i, b
  <1>7. /\ builder' \in [Builder -> Claimed \union {Idle}]
        /\ builder'[w] = b /\ \A v \in Builder \ {w} : builder'[v] = builder[v]
    BY <1>5, <1>6, BuilderPut
  <1>8. PICK waits \in SUBSET {r} : /\ waits = queued \cap {r}
                                    /\ BuildFits(report[r], intake[r], profile[r], waits, verdict[r])
    BY RowParts
  <1>9. BuildFits(report[r], i, profile[r], waits, verdict[r])
    BY <1>1, <1>4, <1>8 DEF BuildFits
  <1>10. \A v \in Builder : \/ builder'[v] \in {builder[v], Idle}
                            \/ builder'[v].r = r /\ ClaimFits(builder'[v], report[r], i)
    BY <1>4, <1>5, <1>7 DEF ClaimFits
  <1>11. /\ Fixed /\ UNCHANGED <<report, queued, profile, handle, starter, verdict>>
         /\ queued' = (queued \ {r}) \union waits
    BY <1>8 DEF Claim
  <1> QED BY <1>1, <1>4, <1>6, <1>7, <1>9, <1>10, <1>11, IntakeMoves

\* finish() in build.ts
LEMMA FinishFits ==
  ASSUME UploadInv, NEW w \in Builder, Finish(w)
  PROVE  UploadInv'
  <1>1. builder[w] # Idle /\ Fixed
    BY DEF Finish, Idle
  <1>2. PICK r \in Report : r = builder[w].r
    BY <1>1, ClaimParts
  <1>3. ClaimFits(builder[w], report[r], intake[r])
    BY <1>1, <1>2, ClaimParts
  <1>4. /\ builder' \in [Builder -> Claimed \union {Idle}]
        /\ \A v \in Builder : builder'[v] \in {builder[v], Idle}
    BY BuilderPut DEF Finish
  <1>5. UNCHANGED <<report, profile, handle, starter, verdict>>
    BY DEF Finish
  <1>6. PICK waits \in SUBSET {r} : /\ waits = queued \cap {r}
                                    /\ BuildFits(report[r], intake[r], profile[r], waits, verdict[r])
    BY RowParts
  <1>7. CASE HoldsCurrentLease(w)
    <2>1. PICK s \in {"BUILT", "FAILED", "PENDING"} : s = Outcome(w)
      BY DEF Outcome
    <2>2. s = "BUILT" => builder[w].at = "done"
      BY <2>1 DEF Outcome
    <2>3. /\ intake[r].state = "BUILDING"
          /\ intake' = [intake EXCEPT ![r].state = s, ![r].lease = "none"]
          /\ queued' = IF s = "PENDING" THEN queued ELSE queued \union {r}
      BY <1>2, <1>7, <2>1 DEF Finish, HoldsCurrentLease
    <2> DEFINE i == [intake[r] EXCEPT !.state = s, !.lease = "none"]
    <2>4. i \in IntakeRow /\ i.state = s
      BY RowParts DEF IntakeRow, BuildStates
    <2>5. intake' = [intake EXCEPT ![r] = i]
      <3>1. intake \in [Report -> IntakeRow]
        BY DEF UploadInv, BuildInv, BuildTyped
      <3> DEFINE j == [intake[r] EXCEPT !.state = s]
                 f == [intake EXCEPT ![r] = j]
      <3>2. intake' = [f EXCEPT ![r] = [f[r] EXCEPT !.lease = "none"]]
        BY <2>3
      <3>3. f[r] = j /\ f \in [Report -> IntakeRow]
        BY <2>1, <3>1 DEF IntakeRow, BuildStates
      <3>4. i = [j EXCEPT !.lease = "none"]
        OBVIOUS
      <3> HIDE DEF i, j
      <3> QED BY <3>1, <3>2, <3>3, <3>4
    <2> HIDE DEF i
    <2>6. waits = {} /\ verdict[r] = Undrafted
      BY <1>6, <2>3 DEF BuildFits
    <2>7. PICK q \in SUBSET {r} : q = IF s = "PENDING" THEN {} ELSE {r}
      OBVIOUS
    <2>8. queued' = (queued \ {r}) \union q
      BY <1>6, <2>3, <2>6, <2>7
    <2>9. BuildFits(report[r], i, profile[r], q, verdict[r])
      BY <1>3, <1>6, <2>2, <2>3, <2>4, <2>6, <2>7 DEF BuildFits, ClaimFits
    <2>10. intake[r].state # "none" /\ i.state # "none"
      BY <2>1, <2>3, <2>4
    <2> QED BY <1>1, <1>4, <1>5, <2>4, <2>5, <2>8, <2>9, <2>10, IntakeMoves
  <1>8. CASE ~HoldsCurrentLease(w)
    <2>1. UNCHANGED <<intake, queued>>
      BY <1>8 DEF Finish
    <2>2. profile' = [profile EXCEPT ![r] = profile[r]] /\ profile[r] \in Attempts
      BY <1>5, RowParts
    <2>3. starter' \subseteq Report
          /\ handle' \in [Report -> {"none", "UPLOAD_AGENT", "UPLOAD_DONE"}]
      BY <1>5 DEF UploadInv, BuildInv, BuildTyped
    <2> QED BY <1>1, <1>4, <1>5, <2>1, <2>2, <2>3, WorkerMoves
  <1> QED BY <1>7, <1>8

\* A lease that runs out.
LEMMA LapseFits ==
  ASSUME UploadInv, NEW r \in Report, Lapse(r)
  PROVE  UploadInv'
  <1> DEFINE i == [intake[r] EXCEPT !.lease = "expired"]
  <1>1. /\ intake[r].state = "BUILDING" /\ Fixed /\ intake' = [intake EXCEPT ![r] = i]
        /\ UNCHANGED <<report, queued, profile, handle, builder, starter, verdict>>
    BY DEF Lapse
  <1>2. i \in IntakeRow /\ i.state = "BUILDING"
    BY <1>1, RowParts DEF IntakeRow
  <1> HIDE DEF i
  <1>3. PICK waits \in SUBSET {r} : /\ waits = queued \cap {r}
                                    /\ BuildFits(report[r], intake[r], profile[r], waits, verdict[r])
    BY RowParts
  <1>4. BuildFits(report[r], i, profile[r], waits, verdict[r])
    BY <1>1, <1>2, <1>3 DEF BuildFits
  <1>5. /\ queued' = (queued \ {r}) \union waits /\ builder' \in [Builder -> Claimed \union {Idle}]
        /\ \A w \in Builder : builder'[w] = builder[w]
    BY <1>1, <1>3 DEF UploadInv, BuildInv, BuildTyped
  <1> QED BY <1>1, <1>2, <1>4, <1>5, IntakeMoves

\* The analysis job: the report goes on to its end with a verdict, or is left as
\* it is when it has left triage.
LEMMA AnalyseFits ==
  ASSUME UploadInv, NEW r \in Report, Analyse(r)
  PROVE  UploadInv'
  <1>1. /\ r \in queued /\ Free(r) /\ queued' = queued \ {r} /\ Fixed
        /\ UNCHANGED <<intake, profile, handle, builder, starter>>
    BY DEF Analyse
  <1>2. BuildFits(report[r], intake[r], profile[r], {r}, verdict[r])
    <2>1. BuildFits(report[r], intake[r], profile[r], queued \cap {r}, verdict[r])
      BY DEF UploadInv, BuildInv, RowFits
    <2>2. queued \cap {r} = {r}
      BY <1>1
    <2> QED BY <2>1, <2>2
  <1>3. PICK i \in IntakeRow, p \in Attempts :
           /\ i = intake[r] /\ intake' = [intake EXCEPT ![r] = i]
           /\ p = profile[r] /\ profile' = [profile EXCEPT ![r] = p]
    BY <1>1, RowParts
  <1>4. /\ starter' \subseteq Report /\ handle' \in [Report -> {"none", "UPLOAD_AGENT", "UPLOAD_DONE"}]
        /\ builder' \in [Builder -> Claimed \union {Idle}]
        /\ \A w \in Builder : builder'[w] \in {builder[w], Idle}
        /\ queued' = (queued \ {r}) \union {}
    BY <1>1 DEF UploadInv, BuildInv, BuildTyped
  <1>5. CASE UNCHANGED <<report, verdict>>
    <2>1. PICK y \in ReportRow, d \in Verdict :
             /\ y = report[r] /\ report' = [report EXCEPT ![r] = y]
             /\ d = verdict[r] /\ verdict' = [verdict EXCEPT ![r] = d]
      BY <1>5, RowParts
    <2>2. BuildFits(y, i, p, {}, d) /\ ClaimStays(report[r], intake[r], y, i)
      BY <1>2, <1>3, <2>1 DEF BuildFits, ClaimStays
    <2>3. RowMove(r, y, i, p, {}, d)
      BY <1>1, <1>3, <1>4, <2>1, <2>2 DEF RowMove
    <2> QED BY <2>3, RowMoves
  <1>6. ASSUME NEW state \in {"ANALYSIS_ONLY", "OUT_OF_SCOPE"}, NEW d \in Verdict,
               report[r].state = "TRIAGING",
               d.outcome \in {"REPRODUCED", "NOT_REPRODUCED"}
                 => \/ report[r].target = "own" /\ d.build = profile[r]
                    \/ report[r].target = "other" /\ d.build = 0,
               Ends(r, state, d.outcome, d.build)
        PROVE  UploadInv'
    <2> DEFINE y == [report[r] EXCEPT !.state = state]
    <2>1. report[r] \in ReportRow /\ state \in States
      BY RowParts DEF States
    <2>2. /\ y \in ReportRow /\ y.state = state /\ y.dup = report[r].dup
          /\ y.target = report[r].target
      BY <2>1, RowBecomes
    <2>3. Set(r, y) /\ verdict' = [verdict EXCEPT ![r] = d]
      BY <1>6 DEF Ends, Verdict
    <2> HIDE DEF y
    <2>4. RowLinkStays(r, y)
      BY <1>1, <1>6, <2>2, <2>3 DEF RowLinkStays
    <2>5. BuildFits(y, i, p, {}, d)
      BY <1>2, <1>3, <1>6, <2>2 DEF BuildFits
    <2>6. ClaimStays(report[r], intake[r], y, i)
      BY <1>3, <2>2 DEF ClaimStays
    <2>7. RowMove(r, y, i, p, {}, d)
      BY <1>1, <1>3, <1>4, <2>3, <2>4, <2>5, <2>6 DEF RowMove, Set
    <2> QED BY <2>2, <2>7, RowMoves
  <1>7. CASE report[r].state = "TRIAGING" /\ report[r].target = "own"
    <2>1. PICK outcome \in {"REPRODUCED", "NOT_REPRODUCED", "ANALYSIS_ONLY"} :
             Ends(r, "ANALYSIS_ONLY", outcome, profile[r])
      BY <1>7 DEF Analyse
    <2>2. PICK d \in Verdict : d.outcome = outcome /\ d.build = profile[r]
      <3>1. [outcome |-> outcome, build |-> profile[r]] \in Verdict
        BY RowParts DEF Verdict
      <3> QED BY <3>1
    <2>3. Ends(r, "ANALYSIS_ONLY", d.outcome, d.build)
      BY <2>1, <2>2
    <2> QED BY <1>6, <1>7, <2>2, <2>3
  <1>8. CASE report[r].state = "TRIAGING" /\ report[r].target # "own"
    <2>1. PICK state \in {"ANALYSIS_ONLY", "OUT_OF_SCOPE"},
               outcome \in {"none", "REPRODUCED", "NOT_REPRODUCED", "ANALYSIS_ONLY"} :
             /\ Ends(r, state, outcome, 0)
             /\ outcome \in {"REPRODUCED", "NOT_REPRODUCED"} => report[r].target = "other"
      BY <1>8 DEF Analyse
    <2>2. PICK d \in Verdict : d.outcome = outcome /\ d.build = 0
      <3>1. [outcome |-> outcome, build |-> 0] \in Verdict
        BY BuildAssumption DEF Verdict, Attempts
      <3> QED BY <3>1
    <2>3. Ends(r, state, d.outcome, d.build)
      BY <2>1, <2>2
    <2> QED BY <1>6, <1>8, <2>1, <2>2, <2>3
  <1> QED BY <1>5, <1>7, <1>8 DEF Analyse

\* quarantineStaleTargetProfile()
LEMMA QuarantineFits ==
  ASSUME UploadInv, NEW r \in Report, Quarantine(r)
  PROVE  UploadInv'
  <1>1. /\ Free(r) /\ profile' = [profile EXCEPT ![r] = 0] /\ 0 \in Attempts /\ Fixed
        /\ report[r].target = "own" => report[r].state = "TRIAGING" /\ verdict[r] = Undrafted
        /\ UNCHANGED <<queued, intake, handle, builder, starter, verdict>>
    BY BuildAssumption DEF Quarantine, Attempts
  <1>2. PICK waits \in SUBSET {r} : /\ waits = queued \cap {r}
                                    /\ BuildFits(report[r], intake[r], profile[r], waits, verdict[r])
    BY RowParts
  <1>3. PICK i \in IntakeRow, d \in Verdict :
           /\ i = intake[r] /\ intake' = [intake EXCEPT ![r] = i]
           /\ d = verdict[r] /\ verdict' = [verdict EXCEPT ![r] = d]
    BY <1>1, RowParts
  <1>4. /\ starter' \subseteq Report /\ handle' \in [Report -> {"none", "UPLOAD_AGENT", "UPLOAD_DONE"}]
        /\ builder' \in [Builder -> Claimed \union {Idle}]
        /\ \A w \in Builder : builder'[w] \in {builder[w], Idle}
        /\ queued' = (queued \ {r}) \union waits
    BY <1>1, <1>2 DEF UploadInv, BuildInv, BuildTyped
  <1>5. PICK y \in ReportRow :
           /\ report' = [report EXCEPT ![r] = y] /\ y.dup = report[r].dup
           /\ IF report[r].target = "own"
              THEN y.state \in {"ANALYSIS_ONLY", "OUT_OF_SCOPE"} /\ y.target = "none"
              ELSE y = report[r]
    <2>1. report[r] \in ReportRow /\ report = [report EXCEPT ![r] = report[r]]
      BY RowParts
    <2>2. CASE report[r].target # "own"
      BY <2>1, <2>2 DEF Quarantine
    <2>3. CASE report[r].target = "own"
      <3>1. PICK to \in {"ANALYSIS_ONLY", "OUT_OF_SCOPE"} :
               Set(r, [report[r] EXCEPT !.state = to, !.target = "none"])
        BY <2>3 DEF Quarantine
      <3>2. to \in States
        BY DEF States
      <3> DEFINE x == [report[r] EXCEPT !.state = to]
                 y == [x EXCEPT !.target = "none"]
      <3>3. x \in ReportRow /\ x.state = to /\ x.dup = report[r].dup
        BY <2>1, <3>2, RowBecomes
      <3>4. [report[r] EXCEPT !.state = to, !.target = "none"] = y
        OBVIOUS
      <3> HIDE DEF x
      <3>5. y \in ReportRow /\ y.state = to /\ y.dup = report[r].dup /\ y.target = "none"
        BY <3>3 DEF ReportRow
      <3>6. report' = [report EXCEPT ![r] = y]
        BY <3>1, <3>4 DEF Set
      <3> HIDE DEF y
      <3> QED BY <2>3, <3>5, <3>6
    <2> QED BY <2>2, <2>3
  <1>6. y = report[r] \/ RowLinkStays(r, y)
    BY <1>1, <1>5 DEF RowLinkStays, Set
  <1>7. BuildFits(y, i, 0, waits, d)
    BY <1>1, <1>2, <1>3, <1>5 DEF BuildFits, Undrafted
  <1>8. ClaimStays(report[r], intake[r], y, i)
    BY <1>3, <1>5 DEF ClaimStays
  <1>9. RowMove(r, y, i, 0, waits, d)
    BY <1>1, <1>3, <1>4, <1>5, <1>6, <1>7, <1>8 DEF RowMove
  <1> QED BY <1>1, <1>9, RowMoves

-----------------------------------------------------------------------------
(* The theorems.                                                           *)

LEMMA UploadInvStarts == Init => UploadInv
  <1> SUFFICES ASSUME Init PROVE UploadInv
    OBVIOUS
  <1>1. \A kind \in {"absent", "email", "upload"} :
           /\ Filed(kind) \in ReportRow /\ Filed(kind).dup = NoReport
           /\ Filed(kind).target = "none" /\ Filed(kind).state \in {"ABSENT", "NEEDS_DECISION"}
    BY DEF Filed, ReportRow, States
  <1>2. budget \in Scenario /\ budget.first \in [Report -> {"absent", "email", "upload"}]
    BY GateAssumption DEF Init, GateInit, Scenario
  <1>3. /\ report \in [Report -> ReportRow]
        /\ \A r \in Report : /\ report[r].dup = NoReport /\ report[r].target = "none"
                             /\ report[r].state \in {"ABSENT", "NEEDS_DECISION"}
    BY <1>1, <1>2 DEF Init, GateInit
  <1>4. GateTyped
    BY <1>2, <1>3 DEF Init, GateInit, GateTyped, HoldSteps
  <1>5. LinksInv
    <2>1. \A v \in Reviewer : reviewer[v].at # "link"
      BY DEF Init, GateInit, Idle
    <2>2. ReviewersTyped
      BY DEF Init, GateInit, ReviewersTyped
    <2>3. NoMutualDuplicates
      BY <1>3, GateAssumption DEF NoMutualDuplicates
    <2> QED BY <1>3, <2>1, <2>2, <2>3 DEF LinksInv, LinksAreOpen, LinkedAreClosed
  <1>6. CodesInv
    <2>1. NoCode \in CodeRow /\ NoCode.slots = 0
      BY GateAssumption DEF NoCode, CodeRow
    <2>2. ContactTyped /\ \A r \in Report : code[r].slots = 0 /\ mailbox[r] = {}
      BY <2>1 DEF Init, GateInit, ContactTyped
    <2>3. \A r \in Report : Holding(r) = {}
      BY DEF Init, GateInit, Holding
    <2> QED BY <2>2, <2>3, FS_EmptySet DEF CodesInv, SlotsFit
  <1>7. BuildInv
    <2>1. 0 \in Attempts
      BY BuildAssumption DEF Attempts
    <2>2. BuildTyped
      BY <2>1 DEF Init, BuildTyped, IntakeRow, BuildStates, Undrafted, Verdict
    <2>3. \A r \in Report : RowFits(r)
      BY <1>3 DEF Init, GateInit, RowFits, BuildFits, Undrafted
    <2> QED BY <2>2, <2>3 DEF Init, BuildInv, ClaimsFit
  <1> QED BY <1>4, <1>5, <1>6, <1>7 DEF UploadInv

\* A step that changes nothing keeps the invariant.
LEMMA UploadInvStutters == ASSUME UploadInv, UNCHANGED vars PROVE UploadInv'
  <1>1. UNCHANGED <<buildVars, queued, contact, report, trail, mail, hold, reviewer>>
    BY DEF vars, gateVars, contact
  <1>2. CodesInv' /\ ReviewersTyped' /\ NoNewLink
    BY <1>1, SameContact, SameReviewers DEF UploadInv, LinksInv
  <1> QED BY <1>1, <1>2, QuietGate DEF UploadInv, GateTyped

LEMMA UploadInvKept == UploadInv /\ [Next]_vars => UploadInv'
  <1> SUFFICES ASSUME UploadInv, [Next]_vars PROVE UploadInv'
    OBVIOUS
  <1>1. CASE GateNext /\ UNCHANGED buildVars
    <2>1. ASSUME NEW r \in Report,
                 \/ HoldForDecision(r) \/ RetryHold(r)
                 \/ Release(r) \/ Deny(r) \/ MarkSpam(r) \/ Expire(r)
          PROVE  UploadInv'
      BY <1>1, <2>1, HoldFits, ReleaseFits, CloseFits
    <2>2. ASSUME NEW v \in Reviewer, GateAction(v) PROVE UploadInv'
      BY <1>1, <2>2, AnswerFits, DuplicateFits DEF GateAction
    <2>3. CASE Contact
      BY <1>1, <2>3, ContactFits
    <2> QED BY <1>1, <2>1, <2>2, <2>3 DEF GateNext
  <1>2. CASE BuildNext
    <2>1. ASSUME NEW r \in Report,
                 \/ Approve(r) \/ StartRetest(r) \/ ReleaseRetest(r) \/ DropRetest(r)
                 \/ BindOther(r) \/ Lapse(r) \/ Analyse(r) \/ Quarantine(r)
          PROVE  UploadInv'
      BY <2>1, RetestFits, DropFits, BindFits, LapseFits, AnalyseFits, QuarantineFits
    <2>2. ASSUME NEW w \in Builder, Claim(w) \/ BuildStep(w) \/ Crash(w) PROVE UploadInv'
      BY <2>2, ClaimIsFit, StepFits, BindFits, FinishFits, DropFits DEF BuildStep
    <2> QED BY <1>2, <2>1, <2>2 DEF BuildNext
  <1>3. CASE UNCHANGED vars
    BY <1>3, UploadInvStutters
  <1> QED BY <1>1, <1>2, <1>3 DEF Next

\* The claims of the invariant that are properties.
LEMMA UploadInvSays == UploadInv => NothingFallsThrough
  <1> SUFFICES ASSUME UploadInv PROVE NothingFallsThrough
    OBVIOUS
  <1>1. TypeOK
    <2>1. \A v \in Reviewer : reviewer[v] = Idle \/ reviewer[v].at \in {"link", "reply", "record"}
      BY DEF UploadInv, LinksInv, ReviewersTyped, Linking, Replying
    <2>2. \A a \in Asker : asker[a] = Idle \/ asker[a].at \in {"reserve", "start", "mail", "refund"}
      BY AskerFields DEF UploadInv, CodesInv
    <2>3. GateTypeOK
      BY <2>1, <2>2 DEF UploadInv, GateTyped, CodesInv, ContactTyped, CodeRow, GateTypeOK
    <2> QED BY <2>3 DEF UploadInv, BuildInv, BuildTyped, TypeOK
  <1>2. NoMutualDuplicates
    BY DEF UploadInv, LinksInv
  <1>3. ASSUME NEW r \in Report, intake[r].state = "BUILT", report[r].state = "TRIAGING"
        PROVE  report[r].target = "own" /\ profile[r] # 0
    BY <1>3, RowParts DEF BuildFits
  <1>4. ASSUME NEW r \in Report, verdict[r].outcome \in {"REPRODUCED", "NOT_REPRODUCED"}
        PROVE  IF report[r].target = "other" THEN verdict[r].build = 0
               ELSE profile[r] = verdict[r].build /\ profile[r] # 0
    BY <1>4, RowParts DEF BuildFits
  <1>5. ASSUME NEW r \in Report PROVE Cardinality(mailbox[r]) <= maxCodeSends
    <2>1. code[r].slots \in 0 .. maxCodeSends
      BY DEF UploadInv, CodesInv, ContactTyped, CodeRow
    <2>2. Cardinality(mailbox[r]) \in Nat /\ Cardinality(Holding(r)) \in Nat
      BY HoldingIsFinite, FS_CardinalityType DEF UploadInv, CodesInv, SlotsFit
    <2>3. Cardinality(mailbox[r]) + Cardinality(Holding(r)) <= code[r].slots
      BY DEF UploadInv, CodesInv, SlotsFit
    <2> QED BY <2>1, <2>2, <2>3, GateAssumption
  <1> QED BY <1>1, <1>2, <1>3, <1>4, <1>5
          DEF NothingFallsThrough, BuiltIsBound, JudgedIsPinned, CodesWithinCap

\* The types of the gate, the codes and the builds.
THEOREM UploadTypeCorrect == Spec => []TypeOK
  <1>1. UploadInv => TypeOK
    BY UploadInvSays DEF NothingFallsThrough
  <1> QED BY <1>1, UploadInvStarts, UploadInvKept, PTL DEF Spec

\* Between the gate and its target no report is lost: two reviewers do not close
\* two reports in favour of each other, a build that is BUILT is bound, a verdict
\* keeps the build it is about, and no contact is mailed more codes than its cap
\* by sends that succeed, for every number of reports, reviewers, requests, builders and attempts.
THEOREM NothingIsLost == Spec => []NothingFallsThrough
  BY UploadInvStarts, UploadInvKept, UploadInvSays, PTL DEF Spec

\* The advice of holdForDecision() is written under the row lock, only while the
\* decision is still open.
THEOREM AdviceComesInTime == Spec => [][AdviceIsInTime]_gateVars
  <1>1. UploadInv /\ [Next]_vars => [AdviceIsInTime]_gateVars
    <2> SUFFICES ASSUME UploadInv, [Next]_vars, NEW r \in Report, "triaged" \in trail'[r] \ trail[r]
                 PROVE  report[r].state = "NEEDS_DECISION"
      BY DEF AdviceIsInTime
    <2>1. trail \in [Report -> SUBSET Events]
      BY DEF UploadInv, GateTyped
    <2>2. ~UNCHANGED trail
      OBVIOUS
    <2>3. ASSUME NEW x \in Report, NEW events, Note(x, events)
          PROVE  x = r /\ "triaged" \in events
      BY <2>1, <2>3 DEF Note
    <2>4. GateNext
      BY <2>2 DEF Next, BuildNext, BuildStep, vars, gateVars, Fixed, notices, Approve, StartRetest,
                  ReleaseRetest, DropRetest, BindOther, Lapse, Analyse, Quarantine, Claim, ReadBound,
                  ReadProfile, Plan, AgentDone, Build, Configure, Rotate, Bind, Finish, Crash
    <2>5. ASSUME NEW v \in Reviewer, RecordReply(v) PROVE FALSE
      <3>1. reviewer[v].r \in Report /\ reviewer[v].kind \in {"rejected", "duplicate"}
        BY <2>5 DEF RecordReply, UploadInv, LinksInv, ReviewersTyped, Idle, Linking, Replying
      <3>2. Note(reviewer[v].r, {reviewer[v].kind})
        BY <2>5 DEF RecordReply
      <3>3. "triaged" \in {reviewer[v].kind}
        BY <2>3, <3>1, <3>2
      <3> QED BY <3>1, <3>3
    <2>6. ASSUME NEW x \in Report, RecordAck(x) \/ RecordTriage(x) \/ \E c \in Codes : Confirm(x, c)
          PROVE  report[r].state = "NEEDS_DECISION"
      <3>1. CASE RecordAck(x) \/ \E c \in Codes : Confirm(x, c)
        <4>1. Note(x, {"acknowledgement"}) \/ Note(x, {"contact_verified"})
          BY <3>1 DEF RecordAck, Confirm
        <4> QED BY <2>3, <4>1
      <3>2. CASE RecordTriage(x)
        <4>1. Note(x, IF report[x].state = "NEEDS_DECISION" THEN {"triaged"} ELSE {})
          BY <3>2 DEF RecordTriage
        <4> QED BY <2>3, <4>1
      <3> QED BY <2>6, <3>1, <3>2
    <2> QED BY <2>2, <2>4, <2>5, <2>6
            DEF GateNext, HoldForDecision, Attach, Acknowledge, ReadGate, RetryHold, Release, Deny,
                MarkSpam, Expire, GateAction, RejectAtGate, ResendDuplicate, BeginDuplicate,
                LinkDuplicate, AbortDuplicate, Reply, DropReply, Contact, SendCode, DropAsk, AskCode,
                Guess, Reserve, StartVerification, MailCode, Refund, notices
  <1> QED BY <1>1, UploadInvStarts, UploadInvKept, PTL DEF Spec

=============================================================================
