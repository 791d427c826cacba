----------------------- MODULE GatesAndScreensProofs -----------------------
(***************************************************************************)
(* Proofs about the two gates of MCPermissions (whose reports are let in   *)
(* and what a tool call may reach) and about MCReviewDesk: a report's rows *)
(* and the screens on it.                                                  *)
(***************************************************************************)
EXTENDS GitHubGrants, ScopeGuard, MCReviewDesk, FiniteSetTheorems, TLAPS

(***************************************************************************)
(* GitHubGrants, for any installations, events, hooks and passes.          *)
(***************************************************************************)
\* What a hook is about: an installation, unless it is about the repository.
AboutRepo == {"archived", "unarchived", "visibility", "gone"}
HooksFit == \A n \in 1 .. Len(sent) : sent[n].action \notin AboutRepo => sent[n].i \in Inst

GrantsInv == TypeOK /\ RemovalUnbinds /\ HooksFit

DbFits(d) == /\ d \in Tables
             /\ d.repo.bound => d.repo.active /\ d.repo.inst \in Inst
             /\ d.repo.inst \in Inst => d.inst[d.repo.inst].known

LEMMA GrantsInvInit == GrantsInit => GrantsInv
<1>. SUFFICES ASSUME GrantsInit PROVE GrantsInv
  OBVIOUS
<1>. USE GrantsAssumption
<1>1. gh \in GitHub /\ sent = <<>> /\ Len(sent) = 0 /\ sent \in Seq(Hook) /\ applied = {}
      /\ binds = 0 /\ aborts = 0
  BY DEF GrantsInit
<1>2. db \in Tables /\ db.repo.inst = NoInst /\ ~db.repo.bound
  BY DEF GrantsInit, Tables, InstRow, RepoRow
<1>3. pass \in Pass /\ pass.at = "idle" /\ pass.i = NoInst
  BY DEF GrantsInit, Resting, Pass, Stages, InstStates
<1>. QED
  BY <1>1, <1>2, <1>3 DEF GrantsInv, TypeOK, RemovalUnbinds, HooksFit

-----------------------------------------------------------------------------
(* What the handlers do to tables that fit.                                *)

LEMMA UpsertFits ==
    ASSUME NEW d, DbFits(d), NEW i \in Inst, NEW c \in BOOLEAN
    PROVE  /\ DbFits(Upsert(d, i, c))
           /\ Upsert(d, i, c).repo = d.repo
           /\ Upsert(d, i, c).onboarding = d.onboarding
           /\ Upsert(d, i, c).inst[i].known
           /\ \A j \in Inst : /\ Upsert(d, i, c).inst[j].suspended = d.inst[j].suspended
                              /\ Upsert(d, i, c).inst[j].deleted = d.inst[j].deleted
                              /\ d.inst[j].known => Upsert(d, i, c).inst[j].known
<1> DEFINE e == Upsert(d, i, c)
<1>1. d \in Tables
  BY DEF DbFits
<1>2. e = [d EXCEPT !.inst = [d.inst EXCEPT ![i] = [d.inst[i] EXCEPT !.known = TRUE, !.contents = c]]]
  BY <1>1 DEF Upsert, Tables, InstRow
<1>3. e.repo = d.repo /\ e.onboarding = d.onboarding
      /\ e.inst = [d.inst EXCEPT ![i] = [d.inst[i] EXCEPT !.known = TRUE, !.contents = c]]
  BY <1>1, <1>2 DEF Tables
<1>4. e.inst \in [Inst -> InstRow]
  BY <1>1, <1>3 DEF Tables, InstRow
<1>5. e \in Tables
  BY <1>1, <1>2, <1>3, <1>4 DEF Tables
<1>6. e.inst[i].known
      /\ \A j \in Inst : /\ e.inst[j].suspended = d.inst[j].suspended
                         /\ e.inst[j].deleted = d.inst[j].deleted
                         /\ d.inst[j].known => e.inst[j].known
  BY <1>1, <1>3 DEF Tables, InstRow
<1>. HIDE DEF e
<1>7. DbFits(e)
  BY <1>3, <1>5, <1>6 DEF DbFits
<1>. QED
  BY <1>3, <1>6, <1>7 DEF e

LEMMA QueueFits ==
    ASSUME NEW d, DbFits(d), NEW i \in Inst
    PROVE  DbFits(Queue(d, i)) /\ Queue(d, i).repo = d.repo /\ Queue(d, i).inst = d.inst
  BY DEF DbFits, Queue, Tables, RepoRow, InstRow

LEMMA GrantRepoFits ==
    ASSUME NEW d, DbFits(d), NEW i \in Inst, NEW p \in BOOLEAN, d.inst[i].known
    PROVE  /\ DbFits(GrantRepo(d, i, p))
           /\ GrantRepo(d, i, p).inst = d.inst
           /\ GrantRepo(d, i, p).repo.inst = i
           /\ GrantRepo(d, i, p).repo.bound = d.repo.bound
           /\ GrantRepo(d, i, p).repo.archived = d.repo.archived
<1> DEFINE e == [d EXCEPT !.repo.inst = i, !.repo.active = TRUE, !.repo.private = p]
<1>1. DbFits(e) /\ e.inst = d.inst /\ e.repo.inst = i /\ e.repo.bound = d.repo.bound
      /\ e.repo.archived = d.repo.archived
  BY DEF DbFits, Tables, RepoRow, InstRow
<1>2. GrantRepo(d, i, p) = Queue(e, i)
  BY DEF GrantRepo
<1>. HIDE DEF e
<1>. QED
  BY <1>1, <1>2, QueueFits

LEMMA RevokeRepoFits ==
    ASSUME NEW d, DbFits(d)
    PROVE  /\ DbFits(RevokeRepo(d))
           /\ RevokeRepo(d).inst = d.inst /\ RevokeRepo(d).onboarding = d.onboarding
           /\ RevokeRepo(d).repo.inst = d.repo.inst
           /\ ~RevokeRepo(d).repo.bound
  BY GrantsAssumption DEF DbFits, RevokeRepo, Tables, RepoRow, InstRow

LEMMA UnconfigureFits ==
    ASSUME NEW d, DbFits(d), NEW i \in Inst
    PROVE  /\ DbFits(Unconfigure(d, i))
           /\ Unconfigure(d, i).inst = d.inst /\ Unconfigure(d, i).onboarding = d.onboarding
           /\ Unconfigure(d, i).repo.inst = d.repo.inst
           /\ Unconfigure(d, i).repo.active = d.repo.active
           /\ Unconfigure(d, i).repo.archived = d.repo.archived
           /\ Unconfigure(d, i).repo.bound => d.repo.bound
           /\ d.repo.inst = i => ~Unconfigure(d, i).repo.bound
  BY DEF DbFits, Unconfigure, Tables, RepoRow, InstRow

\* What a mark on an installation leaves.
LEMMA MarkFits ==
    ASSUME NEW d, DbFits(d), NEW i \in Inst, NEW e,
           \/ e = [d EXCEPT !.inst[i].suspended = TRUE]
           \/ e = [d EXCEPT !.inst[i].deleted = TRUE]
           \/ e = [d EXCEPT !.inst[i].suspended = FALSE]
    PROVE  /\ DbFits(e) /\ e.repo = d.repo /\ e.onboarding = d.onboarding
           /\ \A j \in Inst : e.inst[j].known = d.inst[j].known
           /\ e # [d EXCEPT !.inst[i].suspended = FALSE] =>
                \A j \in Inst : /\ d.inst[j].deleted => e.inst[j].deleted
                                /\ d.inst[j].suspended => e.inst[j].suspended
<1>1. d \in Tables /\ d.inst \in [Inst -> InstRow]
  BY DEF DbFits, Tables
<1>2. PICK r \in InstRow :
          /\ e = [d EXCEPT !.inst = [d.inst EXCEPT ![i] = r]]
          /\ r.known = d.inst[i].known
          /\ \/ (d.inst[i].deleted => r.deleted) /\ (d.inst[i].suspended => r.suspended)
             \/ e = [d EXCEPT !.inst[i].suspended = FALSE]
  <2>1. CASE e = [d EXCEPT !.inst[i].suspended = TRUE]
    <3>1. [d.inst[i] EXCEPT !.suspended = TRUE] \in InstRow
      BY <1>1 DEF InstRow
    <3>. QED
      BY <1>1, <2>1, <3>1 DEF InstRow, Tables
  <2>2. CASE e = [d EXCEPT !.inst[i].deleted = TRUE]
    <3>1. [d.inst[i] EXCEPT !.deleted = TRUE] \in InstRow
      BY <1>1 DEF InstRow
    <3>. QED
      BY <1>1, <2>2, <3>1 DEF InstRow, Tables
  <2>3. CASE e = [d EXCEPT !.inst[i].suspended = FALSE]
    <3>1. [d.inst[i] EXCEPT !.suspended = FALSE] \in InstRow
      BY <1>1 DEF InstRow
    <3>. QED
      BY <1>1, <2>3, <3>1 DEF InstRow, Tables
  <2>. QED
    BY <2>1, <2>2, <2>3
<1>3. e.inst = [d.inst EXCEPT ![i] = r] /\ e.repo = d.repo /\ e.onboarding = d.onboarding
  BY <1>1, <1>2 DEF Tables
<1>4. e \in Tables
  BY <1>1, <1>2, <1>3 DEF Tables
<1>5. \A j \in Inst : e.inst[j] = IF j = i THEN r ELSE d.inst[j]
  BY <1>1, <1>3
<1>6. \A j \in Inst : e.inst[j].known = d.inst[j].known
  BY <1>2, <1>5
<1>7. DbFits(e)
  BY <1>3, <1>4, <1>6 DEF DbFits
<1>. QED
  BY <1>2, <1>3, <1>5, <1>6, <1>7

\* Tables whose grant is no better are not admitted where the first were not.
LEMMA NoBetter ==
    ASSUME NEW d, NEW e, DbFits(d), DbFits(e),
           e.repo.inst = d.repo.inst,
           e.repo.bound => d.repo.bound,
           d.repo.archived => e.repo.archived,
           \A j \in Inst : /\ d.inst[j].deleted => e.inst[j].deleted
                           /\ d.inst[j].suspended => e.inst[j].suspended
    PROVE  Admissible(e) => Admissible(d)
  BY DEF Admissible, Bindable, Alive, DbFits, Tables, RepoRow, InstRow

\* A hook keeps the tables fit, and what it opens it opens by lifting a mark or
\* by moving a binding to another installation.
LEMMA HandledFits ==
    ASSUME NEW d, DbFits(d), NEW h \in Hook, h.action \notin AboutRepo => h.i \in Inst
    PROVE  /\ DbFits(Handled(d, h))
           /\ Admissible(Handled(d, h)) /\ ~Admissible(d) =>
                \/ h.action \in {"unarchived", "unsuspend"}
                \/ d.repo.bound /\ Handled(d, h).repo.inst # d.repo.inst
<1> DEFINE u == Upsert(d, h.i, h.contents)
<1>1. h.action \in Actions /\ h.contents \in BOOLEAN /\ h.private \in BOOLEAN /\ h.repo \in BOOLEAN
  BY DEF Hook
<1>2. h.action \notin AboutRepo =>
        /\ h.i \in Inst /\ DbFits(u) /\ u.repo = d.repo /\ u.inst[h.i].known
        /\ \A j \in Inst : /\ u.inst[j].suspended = d.inst[j].suspended
                           /\ u.inst[j].deleted = d.inst[j].deleted
                           /\ d.inst[j].known => u.inst[j].known
  <2> DEFINE c == h.contents
             i == h.i
  <2>1. SUFFICES ASSUME h.action \notin AboutRepo PROVE <1>2!2
    OBVIOUS
  <2>2. i \in Inst /\ c \in BOOLEAN
    BY <1>1, <2>1
  <2>3. u = Upsert(d, i, c)
    OBVIOUS
  <2>. HIDE DEF c, u, i
  <2>4. /\ DbFits(u) /\ u.repo = d.repo /\ u.inst[i].known
        /\ \A j \in Inst : /\ u.inst[j].suspended = d.inst[j].suspended
                           /\ u.inst[j].deleted = d.inst[j].deleted
                           /\ d.inst[j].known => u.inst[j].known
    BY <2>2, <2>3, UpsertFits
  <2>. QED
    BY <2>2, <2>4 DEF i
<1>3. h.action \notin AboutRepo => (Admissible(u) => Admissible(d))
  BY <1>2, NoBetter
<1>. HIDE DEF u
<1>4. CASE h.action \in {"created", "added"}
  <2>1. Handled(d, h) = Maybe(u, h)
    BY <1>4 DEF Handled, u
  <2>2. CASE h.repo
    <3> DEFINE g == GrantRepo(u, h.i, h.private)
    <3>1. /\ DbFits(g) /\ g.inst = u.inst /\ g.repo.inst = h.i
          /\ g.repo.bound = d.repo.bound /\ g.repo.archived = d.repo.archived
      BY <1>1, <1>2, <1>4, GrantRepoFits DEF AboutRepo
    <3>2. Handled(d, h) = g
      BY <2>1, <2>2 DEF Maybe
    <3>. HIDE DEF g
    <3>3. Admissible(g) => d.repo.bound
      BY <3>1 DEF Admissible
    <3>4. d.repo.inst = h.i => (Admissible(g) => Admissible(d))
      BY <1>2, <1>4, <3>1, NoBetter DEF AboutRepo
    <3>. QED
      BY <3>1, <3>2, <3>3, <3>4
  <2>3. CASE ~h.repo
    BY <1>2, <1>3, <1>4, <2>1, <2>3 DEF Maybe, AboutRepo
  <2>. QED
    BY <2>2, <2>3
<1>5. CASE h.action = "new_permissions_accepted"
  <2>1. Handled(d, h) = IF u.repo.private THEN Queue(u, h.i) ELSE u
    BY <1>5 DEF Handled, u
  <2>2. h.i \in Inst /\ DbFits(u)
    BY <1>2, <1>5 DEF AboutRepo
  <2>3. DbFits(Queue(u, h.i)) /\ Queue(u, h.i).repo = u.repo /\ Queue(u, h.i).inst = u.inst
    BY <2>2, QueueFits
  <2>4. Admissible(Queue(u, h.i)) => Admissible(u)
    BY <2>2, <2>3, NoBetter
  <2>. QED
    BY <1>3, <1>5, <2>1, <2>2, <2>3, <2>4 DEF AboutRepo
<1>6. CASE h.action \in {"suspend", "deleted"}
  <2> DEFINE e == IF h.action = "suspend" THEN [u EXCEPT !.inst[h.i].suspended = TRUE]
                  ELSE [u EXCEPT !.inst[h.i].deleted = TRUE]
  <2>1. Handled(d, h) = Unconfigure(e, h.i)
    BY <1>6 DEF Handled, u
  <2>2. h.i \in Inst /\ DbFits(u) /\ u.repo = d.repo
    BY <1>2, <1>6 DEF AboutRepo
  <2>3. DbFits(e) /\ e.repo = u.repo
    BY <2>2, MarkFits
  <2>. HIDE DEF e
  <2>4. DbFits(Unconfigure(e, h.i)) /\ Unconfigure(e, h.i).inst = e.inst
        /\ Unconfigure(e, h.i).repo.inst = e.repo.inst
        /\ (e.repo.inst = h.i => ~Unconfigure(e, h.i).repo.bound)
    BY <2>2, <2>3, UnconfigureFits
  <2>5. Admissible(Unconfigure(e, h.i)) => Unconfigure(e, h.i) = e /\ e.repo.inst # h.i
    BY <2>4 DEF Admissible, Unconfigure
  <2>6. Admissible(e) /\ e.repo.inst # h.i => Admissible(u)
    <3>1. \A j \in Inst : j # h.i => e.inst[j] = u.inst[j]
      BY <2>2 DEF e, DbFits, Tables
    <3>. QED
      BY <2>3, <3>1 DEF Admissible, Bindable, Alive
  <2>. QED
    BY <1>3, <1>6, <2>1, <2>4, <2>5, <2>6 DEF AboutRepo
<1>7. CASE h.action = "unsuspend"
  <2>1. Handled(d, h) = IF u.inst[h.i].deleted THEN u ELSE [u EXCEPT !.inst[h.i].suspended = FALSE]
    BY <1>7 DEF Handled, u
  <2>2. h.i \in Inst /\ DbFits(u)
    BY <1>2, <1>7 DEF AboutRepo
  <2>. QED
    BY <1>7, <2>1, <2>2, MarkFits
<1>8. CASE h.action = "removed"
  <2>1. Handled(d, h) = RevokeRepo(u)
    BY <1>8 DEF Handled, u
  <2>. QED
    BY <1>2, <1>8, <2>1, RevokeRepoFits DEF Admissible, AboutRepo
<1>9. CASE h.action = "gone"
  <2>1. Handled(d, h) = RevokeRepo(d)
    BY <1>9 DEF Handled
  <2>. QED
    BY <2>1, RevokeRepoFits DEF Admissible
<1>10. CASE h.action = "visibility"
  <2>1. Handled(d, h) = IF d.repo.inst = NoInst THEN d ELSE [d EXCEPT !.repo.private = h.private]
    BY <1>10 DEF Handled
  <2>2. DbFits([d EXCEPT !.repo.private = h.private])
    BY <1>1 DEF DbFits, Tables, RepoRow
  <2>3. Admissible([d EXCEPT !.repo.private = h.private]) => Admissible(d)
    BY DEF Admissible, Bindable, Alive, DbFits, Tables, RepoRow
  <2>. QED
    BY <2>1, <2>2, <2>3
<1>11. CASE h.action \in {"archived", "unarchived"}
  <2> DEFINE a == h.action = "archived"
  <2>1. a \in BOOLEAN
    OBVIOUS
  <2>2. Handled(d, h) = IF d.repo.inst = NoInst THEN d ELSE [d EXCEPT !.repo.archived = a]
    BY <1>11 DEF Handled
  <2>. HIDE DEF a
  <2>3. DbFits([d EXCEPT !.repo.archived = a])
    BY <2>1 DEF DbFits, Tables, RepoRow
  <2>4. a => ~Admissible([d EXCEPT !.repo.archived = a])
    BY DEF Admissible, Bindable, DbFits, Tables, RepoRow
  <2>5. h.action = "archived" => a
    BY DEF a
  <2>. QED
    BY <1>11, <2>2, <2>3, <2>4, <2>5
<1>. QED
  BY <1>1, <1>4, <1>5, <1>6, <1>7, <1>8, <1>9, <1>10, <1>11 DEF Actions

-----------------------------------------------------------------------------
(* The steps.                                                              *)

LEMMA TablesFit == GrantsInv => DbFits(db)
  BY DEF GrantsInv, TypeOK, RemovalUnbinds, DbFits

\* An event at GitHub sends a hook that fits and leaves our tables alone.
LEMMA ChangeKeeps ==
    ASSUME GrantsInv, NEW g \in GitHub, NEW action \in Actions, NEW i \in Inst \union {NoInst},
           action \notin AboutRepo => i \in Inst,
           Change(g, action, i)
    PROVE  GrantsInv' /\ db' = db /\ pass' = pass
<1> DEFINE has == i \in g.has
           contents == i # NoInst /\ g.contents[i]
           private == g.private
           h == [action |-> action, i |-> i, repo |-> has, contents |-> contents, private |-> private]
<1>1. gh' = g /\ sent' = Append(sent, h) /\ Len(sent) < MaxEvents
      /\ UNCHANGED <<applied, db, pass, binds, aborts>>
  BY DEF Change
<1>2. has \in BOOLEAN /\ contents \in BOOLEAN /\ private \in BOOLEAN
  BY DEF GitHub
<1>. HIDE DEF has, contents, private
<1>3. h \in Hook /\ h.action = action /\ h.i = i
  BY <1>2 DEF Hook
<1>. HIDE DEF h
<1>4. sent \in Seq(Hook) /\ Len(sent) \in Nat /\ applied \subseteq 1 .. Len(sent)
  BY DEF GrantsInv, TypeOK
<1>5. sent' \in Seq(Hook) /\ Len(sent') = Len(sent) + 1
      /\ \A n \in 1 .. Len(sent') : sent'[n] = IF n = Len(sent') THEN h ELSE sent[n]
  BY <1>1, <1>3, <1>4
<1>6. Len(sent') <= MaxEvents /\ applied' \subseteq 1 .. Len(sent')
  BY <1>1, <1>4, <1>5, GrantsAssumption
<1>7. TypeOK'
  BY <1>1, <1>5, <1>6 DEF GrantsInv, TypeOK
<1>8. HooksFit'
  <2>1. \A n \in 1 .. Len(sent') : n # Len(sent') => n \in 1 .. Len(sent)
    BY <1>4, <1>5
  <2>. QED
    BY <1>3, <1>5, <2>1 DEF GrantsInv, HooksFit
<1>9. RemovalUnbinds'
  BY <1>1 DEF GrantsInv, RemovalUnbinds
<1>. QED
  BY <1>1, <1>7, <1>8, <1>9 DEF GrantsInv

GitHubStep == \/ \E i \in Inst : \/ InstallApp(i) \/ UninstallApp(i) \/ SuspendApp(i)
                                \/ UnsuspendApp(i) \/ AcceptContents(i)
                                \/ SelectRepo(i) \/ DeselectRepo(i)
              \/ LoseRepo \/ FlipArchive \/ FlipVisibility

LEMMA GitHubKeeps ==
    ASSUME GrantsInv, GitHubStep
    PROVE  GrantsInv' /\ db' = db /\ pass' = pass
<1>1. gh \in GitHub
  BY DEF GrantsInv, TypeOK
<1>2. ASSUME NEW i \in Inst,
             \/ InstallApp(i) \/ UninstallApp(i) \/ SuspendApp(i) \/ UnsuspendApp(i)
             \/ AcceptContents(i) \/ SelectRepo(i) \/ DeselectRepo(i)
      PROVE  \E g \in GitHub, action \in Actions \ AboutRepo : Change(g, action, i)
  <2>1. CASE InstallApp(i)
    <3>1. PICK has \in {{}, {i}}, contents \in BOOLEAN :
            Change([gh EXCEPT !.inst[i] = "live", !.has = has, !.contents[i] = contents], "created", i)
      BY <2>1 DEF InstallApp
    <3>2. [gh EXCEPT !.inst[i] = "live", !.has = has, !.contents[i] = contents] \in GitHub
      BY <1>1 DEF GitHub, InstStates
    <3>. QED
      BY <3>1, <3>2 DEF Actions, AboutRepo
  <2>2. CASE UninstallApp(i)
    <3>1. [gh EXCEPT !.inst[i] = "gone", !.has = {}] \in GitHub
      BY <1>1 DEF GitHub, InstStates
    <3>. QED
      BY <2>2, <3>1 DEF UninstallApp, Actions, AboutRepo
  <2>3. CASE SuspendApp(i)
    <3>1. [gh EXCEPT !.inst[i] = "suspended"] \in GitHub
      BY <1>1 DEF GitHub, InstStates
    <3>. QED
      BY <2>3, <3>1 DEF SuspendApp, Actions, AboutRepo
  <2>4. CASE UnsuspendApp(i)
    <3>1. [gh EXCEPT !.inst[i] = "live"] \in GitHub
      BY <1>1 DEF GitHub, InstStates
    <3>. QED
      BY <2>4, <3>1 DEF UnsuspendApp, Actions, AboutRepo
  <2>5. CASE AcceptContents(i)
    <3>1. [gh EXCEPT !.contents[i] = TRUE] \in GitHub
      BY <1>1 DEF GitHub
    <3>. QED
      BY <2>5, <3>1 DEF AcceptContents, Actions, AboutRepo
  <2>6. CASE SelectRepo(i)
    <3>1. [gh EXCEPT !.has = {i}] \in GitHub
      BY <1>1 DEF GitHub
    <3>. QED
      BY <2>6, <3>1 DEF SelectRepo, Actions, AboutRepo
  <2>7. CASE DeselectRepo(i)
    <3>1. [gh EXCEPT !.has = {}] \in GitHub
      BY <1>1 DEF GitHub
    <3>. QED
      BY <2>7, <3>1 DEF DeselectRepo, Actions, AboutRepo
  <2>. QED
    BY <1>2, <2>1, <2>2, <2>3, <2>4, <2>5, <2>6, <2>7
<1>3. LoseRepo \/ FlipArchive \/ FlipVisibility
        => \E g \in GitHub, action \in Actions \cap AboutRepo : Change(g, action, NoInst)
  <2>1. [gh EXCEPT !.has = {}] \in GitHub
    BY <1>1 DEF GitHub
  <2>2. [gh EXCEPT !.archived = ~gh.archived] \in GitHub
    BY <1>1 DEF GitHub
  <2>3. [gh EXCEPT !.private = ~gh.private] \in GitHub
    BY <1>1 DEF GitHub
  <2>4. CASE LoseRepo
    BY <2>1, <2>4 DEF LoseRepo, Actions, AboutRepo
  <2>5. CASE FlipArchive
    BY <2>2, <2>5 DEF FlipArchive, Actions, AboutRepo
  <2>6. CASE FlipVisibility
    BY <2>3, <2>6 DEF FlipVisibility, Actions, AboutRepo
  <2>. QED
    BY <2>4, <2>5, <2>6
<1>4. PICK g \in GitHub, action \in Actions, i \in Inst \union {NoInst} :
        Change(g, action, i) /\ (action \notin AboutRepo => i \in Inst)
  BY <1>2, <1>3 DEF GitHubStep
<1>. QED
  BY <1>4, ChangeKeeps

\* A hook applied.
LEMMA DeliverKeeps ==
    ASSUME GrantsInv, NEW n \in 1 .. MaxEvents, Deliver(n)
    PROVE  GrantsInv' /\ GrantNeverOpens
<1>1. n \in 1 .. Len(sent) /\ sent[n] \in Hook /\ (sent[n].action \notin AboutRepo => sent[n].i \in Inst)
  BY DEF Deliver, GrantsInv, TypeOK, HooksFit
<1>2. DbFits(db)
  BY TablesFit
<1>3. CASE Fresh(n)
  <2>1. db' = Handled(db, sent[n]) /\ n \in applied' \ applied
    BY <1>3 DEF Deliver, Fresh
  <2>2. DbFits(db') /\ GrantNeverOpens
    BY <1>1, <1>2, <2>1, HandledFits DEF GrantNeverOpens, Opens
  <2>. QED
    BY <1>1, <2>2 DEF Deliver, DbFits, GrantsInv, TypeOK, RemovalUnbinds, HooksFit
<1>4. CASE ~Fresh(n)
  BY <1>1, <1>4 DEF Deliver, Fresh, GrantsInv, TypeOK, RemovalUnbinds, HooksFit,
                    GrantNeverOpens, Opens, Admissible, Bindable, Alive
<1>. QED
  BY <1>3, <1>4

PassFits(p) == p \in Pass /\ (p.at \in {"sync", "active", "revoke"} <=> p.i \in Inst)

\* What a step of the pass may do to the tables.
OnlyWorse(was, now) ==
    /\ now.onboarding = was.onboarding
    /\ now.repo.inst = was.repo.inst
    /\ now.repo.bound => was.repo.bound
    /\ was.repo.archived => now.repo.archived
    /\ \A j \in Inst : /\ was.inst[j].deleted => now.inst[j].deleted
                       /\ was.inst[j].suspended => now.inst[j].suspended

LEMMA WorseByParts ==
    ASSUME NEW was, NEW now,
           now.onboarding = was.onboarding,
           now.repo.inst = was.repo.inst,
           now.repo.bound => was.repo.bound,
           was.repo.archived => now.repo.archived,
           \A j \in Inst : was.inst[j].deleted => now.inst[j].deleted,
           \A j \in Inst : was.inst[j].suspended => now.inst[j].suspended
    PROVE  OnlyWorse(was, now)
  BY DEF OnlyWorse

LEMMA UnconfigureWorse ==
    ASSUME NEW d, NEW e, DbFits(e), NEW i \in Inst, NEW f, f = Unconfigure(e, i),
           e.repo = d.repo, e.onboarding = d.onboarding,
           \A j \in Inst : d.inst[j].deleted => e.inst[j].deleted,
           \A j \in Inst : d.inst[j].suspended => e.inst[j].suspended
    PROVE  DbFits(f) /\ OnlyWorse(d, f)
<1>1. /\ DbFits(f)
      /\ f.inst = e.inst
      /\ f.onboarding = e.onboarding
      /\ f.repo.inst = e.repo.inst
      /\ f.repo.archived = e.repo.archived
      /\ (f.repo.bound => e.repo.bound)
  BY UnconfigureFits
<1>2. f.repo.bound => d.repo.bound
  BY <1>1
<1>3. d.repo.archived => f.repo.archived
  BY <1>1
<1>4. \A j \in Inst : d.inst[j].deleted => f.inst[j].deleted
  BY <1>1
<1>5. \A j \in Inst : d.inst[j].suspended => f.inst[j].suspended
  BY <1>1
<1>6. f.onboarding = d.onboarding /\ f.repo.inst = d.repo.inst
  BY <1>1
<1>7. OnlyWorse(d, f)
  BY <1>2, <1>3, <1>4, <1>5, <1>6, WorseByParts
<1>. QED
  BY <1>1, <1>7

LEMMA OnlyWorseSuffices ==
    ASSUME GrantsInv, PassFits(pass'), DbFits(db'), OnlyWorse(db, db'), Quiet
    PROVE  GrantsInv' /\ ~Opens /\ ReconcileOnlyRevokes
<1>1. DbFits(db)
  BY TablesFit
<1>2. ~Opens
  BY <1>1, NoBetter DEF Opens, OnlyWorse
<1>3. ReconcileOnlyRevokes
  BY <1>2 DEF ReconcileOnlyRevokes, OnlyWorse
<1>4. GrantsInv'
  BY DEF Quiet, PassFits, DbFits, GrantsInv, TypeOK, RemovalUnbinds, HooksFit
<1>. QED
  BY <1>2, <1>3, <1>4

LEMMA DoneFits ==
    ASSUME PassFits(pass), NEW i \in Inst
    PROVE  PassFits(Done(i))
<1>1. Done(i) \in Pass
  BY DEF PassFits, Done, Pass, Stages
<1>2. Done(i).at = "each" /\ Done(i).i = NoInst
  BY DEF PassFits, Done, Pass
<1>. QED
  BY <1>1, <1>2, GrantsAssumption DEF PassFits

LEMMA RestingFits == PassFits(Resting)
<1>1. Resting \in Pass
  BY DEF Resting, Pass, Stages, InstStates
<1>2. Resting.at = "idle" /\ Resting.i = NoInst
  BY DEF Resting
<1>. QED
  BY <1>1, <1>2, GrantsAssumption DEF PassFits

LEMMA ReconcileKeeps ==
    ASSUME GrantsInv, Reconcile
    PROVE  GrantsInv' /\ ~Opens /\ ReconcileOnlyRevokes
<1>1. PassFits(pass) /\ DbFits(db) /\ gh \in GitHub
  BY TablesFit DEF GrantsInv, TypeOK, PassFits
<1>. USE DEF Pass_
<1>2. CASE ListInstallations
  <2>1. [Resting EXCEPT !.at = "rows", !.live = gh.inst] \in Pass
    BY <1>1 DEF Resting, Pass, Stages, InstStates, GitHub
  <2>2. PassFits([Resting EXCEPT !.at = "rows", !.live = gh.inst])
    BY <2>1, GrantsAssumption DEF PassFits, Resting
  <2>3. PassFits(pass') /\ db' = db /\ Quiet
    BY <1>2, <2>2 DEF ListInstallations
  <2>. QED
    BY <1>1, <2>3, OnlyWorseSuffices DEF OnlyWorse
<1>3. CASE ReadRows
  <2> DEFINE rows == RowsToCheck
             paused == {i \in Inst : db.inst[i].suspended}
             p == [pass EXCEPT !.at = "each", !.todo = rows, !.paused = paused]
  <2>1. rows \subseteq Inst /\ paused \subseteq Inst
    BY DEF RowsToCheck
  <2>2. pass.i \notin Inst
    BY <1>1, <1>3 DEF ReadRows, PassFits
  <2>. HIDE DEF rows, paused
  <2>3. p \in Pass /\ p.at = "each" /\ p.i = pass.i
    BY <1>1, <2>1 DEF PassFits, Pass, Stages
  <2>4. PassFits(pass') /\ db' = db /\ Quiet
    BY <1>3, <2>2, <2>3 DEF ReadRows, PassFits, rows, paused
  <2>. QED
    BY <1>1, <2>4, OnlyWorseSuffices DEF OnlyWorse
<1>4. CASE SyncFacts
  <2> DEFINE priv == IF pass.has /\ db.repo.inst = pass.i THEN pass.private ELSE db.repo.private
             e == [db EXCEPT !.inst[pass.i].contents = pass.contents, !.repo.private = priv]
  <2>1. pass.i \in Inst /\ pass.contents \in BOOLEAN
    BY <1>1, <1>4 DEF SyncFacts, PassFits, Pass
  <2>2. priv \in BOOLEAN
    BY <1>1 DEF PassFits, Pass, DbFits, Tables, RepoRow
  <2>3. db' = e /\ Quiet /\ pass' = [pass EXCEPT !.at = "active"] /\ pass.at = "sync"
    BY <1>4 DEF SyncFacts
  <2>. HIDE DEF priv
  <2>4. e \in Tables
    <3>1. db \in Tables
      BY <1>1 DEF DbFits
    <3>2. [db.inst[pass.i] EXCEPT !.contents = pass.contents] \in InstRow
      BY <2>1, <3>1 DEF Tables, InstRow
    <3>3. [db.repo EXCEPT !.private = priv] \in RepoRow
      BY <2>2, <3>1 DEF Tables, RepoRow
    <3>. QED
      BY <2>1, <3>1, <3>2, <3>3 DEF Tables
  <2>5. /\ e.repo.inst = db.repo.inst /\ e.repo.bound = db.repo.bound
        /\ e.repo.active = db.repo.active /\ e.repo.archived = db.repo.archived
        /\ e.onboarding = db.onboarding
    BY <1>1 DEF DbFits, Tables, RepoRow
  <2>6. \A i \in Inst : /\ e.inst[i].known = db.inst[i].known
                       /\ e.inst[i].deleted = db.inst[i].deleted
                       /\ e.inst[i].suspended = db.inst[i].suspended
    BY <1>1 DEF DbFits, Tables, InstRow
  <2>. HIDE DEF e
  <2>7. DbFits(e) /\ OnlyWorse(db, e)
    BY <1>1, <2>4, <2>5, <2>6 DEF DbFits, OnlyWorse
  <2>8. PassFits(pass')
    BY <1>1, <2>1, <2>3 DEF PassFits, Pass, Stages
  <2>. QED
    BY <2>3, <2>7, <2>8, OnlyWorseSuffices
<1>5. CASE ReadActive
  <2>1. pass.i \in Inst /\ pass.at = "active"
    BY <1>1, <1>5 DEF ReadActive, PassFits
  <2>2. PassFits([pass EXCEPT !.at = "revoke"])
    BY <1>1, <2>1 DEF PassFits, Pass, Stages
  <2>3. PassFits(pass') /\ db' = db /\ Quiet
    BY <1>1, <1>5, <2>1, <2>2, DoneFits DEF ReadActive
  <2>. QED
    BY <1>1, <2>3, OnlyWorseSuffices DEF OnlyWorse
<1>6. CASE RevokeGone
  <2>1. pass.i \in Inst
    BY <1>1, <1>6 DEF RevokeGone, PassFits
  <2>2. PassFits(pass') /\ db' = RevokeRepo(db) /\ Quiet
    BY <1>1, <1>6, <2>1, DoneFits DEF RevokeGone
  <2>3. RevokeRepo(db).repo.archived = db.repo.archived
    BY <1>1 DEF RevokeRepo, DbFits, Tables, RepoRow
  <2>. QED
    BY <1>1, <2>2, <2>3, RevokeRepoFits, OnlyWorseSuffices DEF OnlyWorse
<1>7. CASE EndPass
  <2>1. PassFits(pass') /\ db' = db /\ Quiet
    BY <1>7, RestingFits DEF EndPass
  <2>. QED
    BY <1>1, <2>1, OnlyWorseSuffices DEF OnlyWorse
<1>8. ASSUME NEW i \in Inst, Tombstone(i) \/ MarkSuspended(i) \/ Skip(i) \/ ListRepos(i)
      PROVE  GrantsInv' /\ ~Opens /\ ReconcileOnlyRevokes
  <2>1. ASSUME NEW e, \/ e = [db EXCEPT !.inst[i].deleted = TRUE]
                      \/ e = [db EXCEPT !.inst[i].suspended = TRUE],
               db' = Unconfigure(e, i), pass' = Done(i), Quiet
        PROVE  GrantsInv' /\ ~Opens /\ ReconcileOnlyRevokes
    <3>1. DbFits(e) /\ e.repo = db.repo /\ e.onboarding = db.onboarding
      BY <1>1, <2>1, MarkFits
    <3>3. /\ \A j \in Inst : db.inst[j].deleted => e.inst[j].deleted
          /\ \A j \in Inst : db.inst[j].suspended => e.inst[j].suspended
      <4>1. db \in Tables /\ db.inst \in [Inst -> InstRow]
        BY <1>1 DEF DbFits, Tables
      <4>2. CASE e = [db EXCEPT !.inst[i].deleted = TRUE]
        <5>1. e.inst = [db.inst EXCEPT ![i] = [db.inst[i] EXCEPT !.deleted = TRUE]]
          BY <4>1, <4>2 DEF Tables
        <5>. QED
          BY <4>1, <5>1 DEF InstRow
      <4>3. CASE e = [db EXCEPT !.inst[i].suspended = TRUE]
        <5>1. e.inst = [db.inst EXCEPT ![i] = [db.inst[i] EXCEPT !.suspended = TRUE]]
          BY <4>1, <4>3 DEF Tables
        <5>. QED
          BY <4>1, <5>1 DEF InstRow
      <4>. QED
        BY <2>1, <4>2, <4>3
    <3>2. DbFits(Unconfigure(e, i)) /\ OnlyWorse(db, Unconfigure(e, i))
      BY <3>1, <3>3, UnconfigureWorse
    <3>. QED
      BY <1>1, <2>1, <3>2, DoneFits, OnlyWorseSuffices
  <2>2. ASSUME db' = db, pass' = Done(i), Quiet
        PROVE  GrantsInv' /\ ~Opens /\ ReconcileOnlyRevokes
    BY <1>1, <2>2, DoneFits, OnlyWorseSuffices DEF OnlyWorse
  <2>3. CASE Tombstone(i)
    BY <2>1, <2>3 DEF Tombstone
  <2>4. CASE MarkSuspended(i)
    BY <2>1, <2>2, <2>4 DEF MarkSuspended
  <2>5. CASE Skip(i)
    BY <2>2, <2>5 DEF Skip
  <2>6. CASE ListRepos(i)
    <3> DEFINE has == i \in gh.has
               p == [pass EXCEPT !.at = "sync", !.i = i, !.has = has,
                                 !.private = gh.private, !.contents = gh.contents[i]]
    <3>1. has \in BOOLEAN /\ gh.private \in BOOLEAN /\ gh.contents[i] \in BOOLEAN
      BY <1>1 DEF GitHub
    <3>2. pass' = p /\ db' = db /\ Quiet
      BY <2>6 DEF ListRepos
    <3>. HIDE DEF has
    <3>3. p \in Pass /\ p.at = "sync" /\ p.i = i
      BY <1>1, <3>1 DEF PassFits, Pass, Stages
    <3>4. PassFits(pass')
      BY <3>2, <3>3 DEF PassFits
    <3>. QED
      BY <1>1, <3>2, <3>4, OnlyWorseSuffices DEF OnlyWorse
  <2>. QED
    BY <1>8, <2>3, <2>4, <2>5, <2>6
<1>. QED
  BY <1>2, <1>3, <1>4, <1>5, <1>6, <1>7, <1>8 DEF Reconcile

\* A pass cut short, an operator, the onboarding worker.
LEMMA OthersKeep ==
    ASSUME GrantsInv,
           AbortPass \/ OperatorBinds \/ ApproveOnboarding \/ WorkerBinds \/ OnboardingFails
    PROVE  GrantsInv' /\ GrantNeverOpens
<1>1. PassFits(pass) /\ DbFits(db)
  BY TablesFit DEF GrantsInv, TypeOK, PassFits
<1>2. CASE AbortPass
  <2>1. PassFits(pass') /\ db' = db /\ UNCHANGED <<gh, sent, applied, binds>>
        /\ aborts' = aborts + 1 /\ aborts < MaxAborts
    BY <1>2, RestingFits DEF AbortPass, Pass_
  <2>2. aborts' \in 0..MaxAborts
    BY <2>1, GrantsAssumption DEF GrantsInv, TypeOK
  <2>3. GrantsInv'
    BY <2>1, <2>2 DEF GrantsInv, TypeOK, PassFits, RemovalUnbinds, HooksFit
  <2>. QED
    BY <2>1, <2>3 DEF GrantNeverOpens, Opens, Admissible, Bindable, Alive
<1>3. ASSUME DbFits(db'), binds' \in 0..MaxBinds, UNCHANGED <<gh, sent, applied, pass, aborts>>
      PROVE  GrantsInv'
  BY <1>3 DEF GrantsInv, TypeOK, DbFits, RemovalUnbinds, HooksFit
<1>4. binds \in 0..MaxBinds /\ (binds < MaxBinds => binds + 1 \in 0..MaxBinds)
  BY GrantsAssumption DEF GrantsInv, TypeOK
<1>5. Bindable(db) => /\ DbFits([db EXCEPT !.repo.bound = TRUE])
                      /\ DbFits([db EXCEPT !.repo.bound = TRUE, !.onboarding = "configured"])
  BY <1>1 DEF Bindable, DbFits, Tables, RepoRow
<1>6. ASSUME NEW o \in {"approved", "failed"}
      PROVE  /\ DbFits([db EXCEPT !.onboarding = o])
             /\ Admissible([db EXCEPT !.onboarding = o]) => Admissible(db)
  BY <1>1, <1>6 DEF DbFits, Tables, Admissible, Bindable, Alive
<1>7. CASE OperatorBinds
  BY <1>3, <1>4, <1>5, <1>7 DEF OperatorBinds, GrantNeverOpens, OperatorStep
<1>8. CASE ApproveOnboarding
  BY <1>3, <1>4, <1>6, <1>8 DEF ApproveOnboarding, GrantNeverOpens, Opens
<1>9. CASE WorkerBinds
  BY <1>3, <1>4, <1>5, <1>9 DEF WorkerBinds, GrantNeverOpens, OperatorStep
<1>10. CASE OnboardingFails
  BY <1>3, <1>4, <1>6, <1>10 DEF OnboardingFails, GrantNeverOpens, Opens
<1>. QED
  BY <1>2, <1>7, <1>8, <1>9, <1>10

LEMMA GrantsStep ==
    ASSUME GrantsInv, [GrantsNext]_grantsVars
    PROVE  GrantsInv' /\ GrantNeverOpens
<1>1. CASE GitHubStep
  BY <1>1, GitHubKeeps DEF GrantNeverOpens, Opens, Admissible, Bindable, Alive
<1>2. ASSUME NEW n \in 1 .. MaxEvents, Deliver(n) PROVE GrantsInv' /\ GrantNeverOpens
  BY <1>2, DeliverKeeps
<1>3. CASE Reconcile
  BY <1>3, ReconcileKeeps DEF GrantNeverOpens
<1>4. CASE AbortPass \/ OperatorBinds \/ ApproveOnboarding \/ WorkerBinds \/ OnboardingFails
  BY <1>4, OthersKeep
<1>5. CASE UNCHANGED grantsVars
  BY <1>5 DEF grantsVars, GrantsInv, TypeOK, RemovalUnbinds, HooksFit,
              GrantNeverOpens, Opens, Admissible, Bindable, Alive
<1>. QED
  BY <1>1, <1>2, <1>3, <1>4, <1>5 DEF GrantsNext, GitHubStep

\* lifecycle.ts: every revocation clears the binding and no webhook sets it;
\* reconcile.ts: a pass only revokes.
THEOREM IntakeStaysShut == GrantsSpec => NothingOpensByItself
<1>1. GrantsInv /\ [GrantsNext]_grantsVars =>
        GrantsInv' /\ [(TypeOK /\ RemovalUnbinds)' /\ GrantNeverOpens /\ ReconcileOnlyRevokes]_grantsVars
  <2>1. SUFFICES ASSUME GrantsInv, [GrantsNext]_grantsVars
                 PROVE  GrantsInv' /\ GrantNeverOpens /\ ReconcileOnlyRevokes
    BY DEF GrantsInv
  <2>2. GrantsInv' /\ GrantNeverOpens
    BY <2>1, GrantsStep
  <2>3. ReconcileOnlyRevokes
    <3>1. CASE Reconcile
      BY <2>1, <3>1, ReconcileKeeps
    <3>2. CASE ~Reconcile
      BY <3>2 DEF ReconcileOnlyRevokes
    <3>. QED
      BY <3>1, <3>2
  <2>. QED
    BY <2>2, <2>3
<1>. QED
  BY GrantsInvInit, <1>1, PTL DEF GrantsSpec, NothingOpensByItself

-----------------------------------------------------------------------------
(***************************************************************************)
(* ScopeGuard, for any calls, names, widths, banned blocks and scenarios.  *)
(***************************************************************************)

LEMMA KindsApart == Name \cap Address = {} /\ Name \cap Block = {} /\ Address \cap Block = {}
<1>1. ASSUME NEW x \in Address, x \in Block PROVE FALSE
  BY <1>1, ScopeAssumption DEF Address, Block
<1>. QED
  BY <1>1, ScopeAssumption

LEMMA ClassType == \A h \in Host : ClassOf(h) \in Class
<1>1. "reserved" \in Class
  BY DEF Class, Hard
<1>2. ASSUME NEW h \in Host PROVE ClassOf(h) \in Class
  <2>1. CASE h \in Name
    BY <2>1, ScopeAssumption DEF ClassOf
  <2>2. CASE h \notin Name /\ h \in Address
    BY <1>1, <2>2, ScopeAssumption DEF ClassOf
  <2>. QED
    BY <1>2, <2>1, <2>2 DEF Host
<1>. QED
  BY <1>2

\* What two blocks share they overlap in.
LEMMA SharedIsOverlap ==
    ASSUME NEW b \in Bits \X (0..Width), NEW e \in Block, NEW a \in Address,
           Contains(e, a), Contains(b, a)
    PROVE  Overlaps(e, b)
<1>1. e[2] \in Nat /\ b[2] \in Nat
  BY ScopeAssumption DEF Block
<1>2. CASE e[2] <= b[2]
  BY <1>1, <1>2 DEF Contains, Overlaps
<1>3. CASE ~(e[2] <= b[2])
  BY <1>1, <1>3 DEF Contains, Overlaps
<1>. QED
  BY <1>2, <1>3

\* What the check allows itself to dial for a target.
Suits(h, a) == /\ a \in Address /\ ClassOf(a) \notin Hard
               /\ h \in Address => a = h
               /\ ClassOf(h) = "public" <=> ClassOf(a) = "public"

LEMMA AgreedSuits ==
    ASSUME NEW h \in Name, ClassOf(h) \notin Hard,
           NEW answers \in SUBSET Address, Agree(h, answers), NEW a \in answers
    PROVE  Suits(h, a)
<1>1. ClassOf(h) \in Class /\ ClassOf(a) \in Class
  BY ClassType DEF Host
<1>2. h \notin Address
  BY KindsApart
<1>3. ClassOf(a) \in {ClassOf(x) : x \in answers}
  OBVIOUS
<1>4. ClassOf(a) \notin Hard
  BY <1>3 DEF Agree
<1>5. ClassOf(h) = "public" => ClassOf(a) \notin {"private", "loopback"}
  BY <1>3 DEF Agree
<1>6. ClassOf(h) \in {"private", "loopback"} => ClassOf(a) # "public"
  BY <1>3 DEF Agree
<1>. HIDE DEF ClassOf
<1>. QED
  BY <1>1, <1>2, <1>4, <1>5, <1>6 DEF Suits, Class

-----------------------------------------------------------------------------
(* The inductive invariant.                                                *)

\* A block that allowed something: no banned address, and it holds one only as a
\* temporary entry of the copy it was found in.
ByFits(by, mem, pin) == by # None /\ IsBlock(by) =>
    /\ pin \in Address /\ ClassOf(pin) \notin Hard
    /\ Acceptable(by) \/ \E t \in mem.temp : t.entry = by

\* A call on its own.
RowFits(k) ==
    /\ k \in CallRow /\ IsRequest(k)
    /\ k.phase = "apply" => k.tool \in Mutations /\ k.mem \in Copies
    /\ k.phase = "check" => k.tool \in Checks /\ k.mem \in Copies
    /\ k.phase = "start" => k.by = None
    /\ k.phase = "lookup" => /\ k.tool \in Checks /\ k.by = k.arg
                             /\ k.arg \in Name /\ ClassOf(k.arg) \notin Hard
    /\ k.phase \in {"authorize", "dial"} => k.tool = "probe" /\ Suits(k.arg, k.pin)
    /\ k.phase \in {"verify", "consume"} => k.token \in Call
    /\ k.phase \in {"verify", "consume"} /\ k.tool = "probe" => Suits(k.arg, k.pin)
    /\ k.phase = "mint" => k.tool = "request_intrusive_approval"
    /\ k.phase \in {"mint", "audit", "append", "answered"} => k.verdict # None
    /\ k.phase # "failed"
    /\ k.dialed # None => /\ k.tool = "probe" /\ Suits(k.arg, k.dialed)
                          /\ k.phase \in {"audit", "append", "answered", "dead"}
    /\ k.phase \in {"apply", "check"} => \A e \in k.mem.allow : Acceptable(e)
    /\ ByFits(k.by, k.mem, k.pin)

\* A copy of the scope that may still be written back is the row it was read
\* from, less what the checks drop.
CopyFits(m, seen) ==
    /\ seen <= profile.at
    /\ seen = profile.at => m.allow = {e \in profile.allow : Acceptable(e)}

SavesFit(ss) == /\ ss \subseteq [by : Call, mem : Copies, seen : Nat]
                /\ \A s \in ss : CopyFits(s.mem, s.seen)

CopiesFit == /\ \A c \in Call : call[c].phase \in {"apply", "check"} => CopyFits(call[c].mem, call[c].seen)
             /\ SavesFit(saves)

Logged(k, c) == \E i \in DOMAIN log : log[i] = [by |-> c, verdict |-> k.verdict]

LogFits == \A c \in Call : /\ call[c].phase = "append" => chainLock = c /\ call[c].tail = Len(log)
                           /\ call[c].phase = "answered" => Logged(call[c], c)

\* A write that may be made or was.
Spends(k) == k.writes /\ (k.phase = "dial" \/ k.dialed # None)
Late == {"audit", "append", "answered", "dead"}

GrantsFit ==
    /\ \A c \in Call : grant[c].target # None => call[c].phase \in Late
    /\ \A c \in Call : call[c].phase = "consume" => grant[call[c].token].target = call[c].arg
    /\ \A c \in Call : Spends(call[c]) => /\ call[c].token \in Call
                                          /\ grant[call[c].token].used
                                          /\ grant[call[c].token].target = call[c].arg
    /\ \A c, d \in Call : Spends(call[c]) /\ Spends(call[d]) /\ call[c].token = call[d].token => c = d

RowsFit == \A c \in Call : RowFits(call[c])
ScopeInv == ScopeTypeOK /\ RowsFit /\ CopiesFit /\ LogFits /\ GrantsFit

LEMMA ScopeInvInit == ScopeInit => ScopeInv
<1>. SUFFICES ASSUME ScopeInit PROVE ScopeInv
  OBVIOUS
<1>1. PICK w \in Worlds : /\ profile = [allow |-> w.allow, temp |-> w.temp, at |-> 0]
                          /\ call = [c \in Call |-> NewCall(w.calls[c])]
  BY DEF ScopeInit
<1>2. w.allow \subseteq Entry /\ w.temp \subseteq Temporary /\ \A c \in Call : IsRequest(w.calls[c])
  BY <1>1, ScopeAssumption DEF Temporary
<1>3. ASSUME NEW c \in Call
      PROVE  RowFits(call[c]) /\ call[c].phase = "start" /\ call[c].dialed = None
  <2>1. call[c] = NewCall(w.calls[c]) /\ IsRequest(w.calls[c])
    BY <1>1, <1>2
  <2> DEFINE k == NewCall(w.calls[c])
  <2>2. /\ k.phase = "start" /\ k.mem = None /\ k.by = None /\ k.pin = None /\ k.dialed = None
        /\ k.verdict = None /\ k.tail = 0 /\ k.seen = 0
        /\ k.tool = w.calls[c].tool /\ k.arg = w.calls[c].arg /\ k.writes = w.calls[c].writes
        /\ k.token = w.calls[c].token
    BY DEF NewCall
  <2>3. k \in CallRow
    BY <2>1 DEF NewCall, IsRequest, CallRow, Phases
  <2>. HIDE DEF k
  <2>4. IsRequest(k)
    BY <2>1, <2>2 DEF IsRequest
  <2>5. RowFits(k)
    BY <2>2, <2>3, <2>4 DEF RowFits, ByFits
  <2>. QED
    BY <2>1, <2>2, <2>5 DEF k
<1>4. call \in [Call -> CallRow]
  BY <1>1, <1>3 DEF RowFits
<1>5. ScopeTypeOK
  BY <1>1, <1>2, <1>4 DEF ScopeTypeOK, ScopeInit, NoGrant
<1>6. RowsFit
  BY <1>3 DEF RowsFit
<1>7. CopiesFit
  BY <1>3 DEF CopiesFit, SavesFit, ScopeInit
<1>8. LogFits
  BY <1>3 DEF LogFits
<1>9. GrantsFit
  BY <1>3 DEF GrantsFit, Spends, ScopeInit, NoGrant
<1>. QED
  BY <1>5, <1>6, <1>7, <1>8, <1>9 DEF ScopeInv

-----------------------------------------------------------------------------
(* What follows from it.                                                   *)

LEMMA OneWriteEach == ScopeInv => OneWritePerApproval
<1>. SUFFICES ASSUME ScopeInv, NEW h PROVE
        Cardinality({c \in Call : call[c].dialed # None /\ call[c].writes /\ call[c].arg = h})
            <= Cardinality({k \in Call : grant[k].target = h})
  BY DEF OneWritePerApproval
<1> DEFINE S == {c \in Call : call[c].dialed # None /\ call[c].writes /\ call[c].arg = h}
           T == {k \in Call : grant[k].target = h}
           f == [c \in S |-> call[c].token]
<1>1. IsFiniteSet(T)
  BY ScopeAssumption, FS_Subset
<1>2. \A c \in S : call[c].token \in T
  BY DEF ScopeInv, GrantsFit, Spends
<1>3. \A c, d \in S : call[c].token = call[d].token => c = d
  BY DEF ScopeInv, GrantsFit, Spends
<1>4. f \in Injection(S, T)
  BY <1>2, <1>3 DEF Injection, IsInjective
<1>5. IsFiniteSet(S)
  BY ScopeAssumption, FS_Subset
<1>. HIDE DEF S, T, f
<1>6. Cardinality(S) <= Cardinality(T)
  BY <1>1, <1>4, FS_Injection
<1>. QED
  BY <1>6 DEF S, T

LEMMA InvSays ==
    ScopeInv => ScopeTypeOK /\ OneWritePerApproval /\ JudgedIsDialed /\ MutationIsLogged /\ MatchIsAcceptable
<1>. SUFFICES ASSUME ScopeInv
              PROVE  ScopeTypeOK /\ OneWritePerApproval /\ JudgedIsDialed /\ MutationIsLogged /\ MatchIsAcceptable
  OBVIOUS
<1>1. JudgedIsDialed
  BY DEF ScopeInv, RowsFit, RowFits, Suits, JudgedIsDialed
<1>2. MutationIsLogged
  BY DEF ScopeInv, RowsFit, RowFits, LogFits, Logged, MutationIsLogged, Over
<1>3. ASSUME NEW c \in Call, call[c].by # None, IsBlock(call[c].by)
      PROVE  /\ \A b \in Banned, a \in Address :
                   Contains(call[c].by, a) /\ Contains(b, a)
                     => \E t \in call[c].mem.temp : t.entry = call[c].by
             /\ \A b \in Banned : ~Contains(b, call[c].pin)
  <2>1. /\ call[c].pin \in Address /\ ClassOf(call[c].pin) \notin Hard
        /\ Acceptable(call[c].by) \/ \E t \in call[c].mem.temp : t.entry = call[c].by
    BY <1>3 DEF ScopeInv, RowsFit, RowFits, ByFits
  <2>2. call[c].by \in Block /\ Banned \subseteq Bits \X (0..Width)
    BY <1>3, ScopeAssumption DEF IsBlock
  <2>3. ASSUME NEW b \in Banned, NEW a \in Address, Contains(call[c].by, a), Contains(b, a)
        PROVE  ~Acceptable(call[c].by)
    <3>1. Overlaps(call[c].by, b)
      BY <2>2, <2>3, SharedIsOverlap
    <3>. QED
      BY <1>3, <3>1 DEF Acceptable
  <2>4. \A b \in Banned : ~Contains(b, call[c].pin)
    BY <2>1, KindsApart DEF ClassOf, Hard
  <2>. QED
    BY <2>1, <2>3, <2>4
<1>4. MatchIsAcceptable
  BY <1>3 DEF MatchIsAcceptable
<1>. QED
  BY <1>1, <1>2, <1>4, OneWriteEach DEF ScopeInv

-----------------------------------------------------------------------------
(* Frames: what a step leaves alone stays as it was.                       *)

\* A step of one call.
Moves(c, r) == call' = [call EXCEPT ![c] = r]

LEMMA RowMoves ==
    ASSUME ScopeInv, NEW c \in Call, NEW r, RowFits(r), Moves(c, r)
    PROVE  /\ call' \in [Call -> CallRow] /\ RowsFit'
           /\ call'[c] = r /\ \A d \in Call \ {c} : call'[d] = call[d]
<1>1. call \in [Call -> CallRow] /\ r \in CallRow
  BY DEF ScopeInv, ScopeTypeOK, RowFits
<1>2. call' \in [Call -> CallRow] /\ call'[c] = r /\ \A d \in Call \ {c} : call'[d] = call[d]
  BY <1>1 DEF Moves
<1>3. ASSUME NEW d \in Call PROVE RowFits(call'[d])
  BY <1>2 DEF ScopeInv, RowsFit
<1>. QED
  BY <1>2, <1>3 DEF RowsFit

LEMMA CopiesStay ==
    ASSUME ScopeInv, NEW c \in Call, NEW r, RowFits(r), Moves(c, r),
           r.phase \notin {"apply", "check"}, profile' = profile, SavesFit(saves')
    PROVE  CopiesFit' /\ PruneErasesNothing
<1>1. call'[c] = r /\ \A d \in Call \ {c} : call'[d] = call[d]
  BY RowMoves
<1>2. \A d \in Call : call'[d].phase \in {"apply", "check"} => CopyFits(call'[d].mem, call'[d].seen)
  BY <1>1 DEF ScopeInv, CopiesFit
<1>4. CopiesFit'
  BY <1>2 DEF CopiesFit, SavesFit, CopyFits
<1>. QED
  BY <1>4 DEF PruneErasesNothing

LEMMA LogStays ==
    ASSUME ScopeInv, NEW c \in Call, NEW r, RowFits(r), Moves(c, r),
           r.phase \notin {"append", "answered"}, log' = log,
           \A d \in Call \ {c} : chainLock = d => chainLock' = d
    PROVE  LogFits'
<1>1. call'[c] = r /\ \A d \in Call \ {c} : call'[d] = call[d]
  BY RowMoves
<1>2. ASSUME NEW d \in Call
      PROVE  /\ call'[d].phase = "append" => chainLock' = d /\ call'[d].tail = Len(log')
             /\ call'[d].phase = "answered" => Logged(call[d], d) /\ call'[d] = call[d]
  BY <1>1 DEF ScopeInv, LogFits
<1>. QED
  BY <1>2 DEF LogFits, Logged

\* A grant may be minted by the call that moves, or used by it for the first time.
LEMMA GrantsStay ==
    ASSUME ScopeInv, NEW c \in Call, NEW r, RowFits(r), Moves(c, r),
           r.writes = call[c].writes, r.token = call[c].token, r.arg = call[c].arg,
           r.phase = "consume" => grant[r.token].target = r.arg,
           \/ Spends(r) => Spends(call[c])
           \/ /\ r.token \in Call /\ grant[r.token].target = r.arg
              /\ ~grant[r.token].used /\ grant'[r.token].used,
           call[c].phase \in Late => r.phase \in Late,
           \A k \in Call : /\ grant[k].target # None => grant'[k].target = grant[k].target
                           /\ grant'[k].target = grant[k].target \/ (k = c /\ r.phase \in Late)
                           /\ grant[k].used => grant'[k].used
    PROVE  GrantsFit'
<1>1. call'[c] = r /\ \A d \in Call \ {c} : call'[d] = call[d]
  BY RowMoves
<1>2. \A d \in Call : call[d].arg # None
  <2>1. \A d \in Call : call[d].arg \in Entry
    BY DEF ScopeInv, RowsFit, RowFits, IsRequest
  <2>. QED
    BY <2>1, ScopeAssumption
<1>3. \A d \in Call : call'[d].token = call[d].token /\ call'[d].arg = call[d].arg
  BY <1>1
<1>4. \A d \in Call : call[d].phase = "consume" => call[d].token \in Call
  BY DEF ScopeInv, RowsFit, RowFits
<1>5. r.phase = "consume" => r.token \in Call
  BY DEF RowFits
<1>6. \A d \in Call : call[d].phase \in Late => call'[d].phase \in Late
  BY <1>1
<1>7. \A d \in Call : grant'[d].target # None => call'[d].phase \in Late
  BY <1>1, <1>6 DEF ScopeInv, GrantsFit
<1>8. ASSUME NEW d \in Call, call'[d].phase = "consume"
      PROVE  grant'[call'[d].token].target = call'[d].arg
  <2>1. call[d].token \in Call /\ grant[call[d].token].target = call[d].arg
    BY <1>1, <1>4, <1>5, <1>8 DEF ScopeInv, GrantsFit
  <2>. QED
    BY <1>2, <1>3, <2>1
<1>9. ASSUME NEW d \in Call, Spends(call'[d])
      PROVE  /\ call'[d].token \in Call
             /\ grant'[call'[d].token].used
             /\ grant'[call'[d].token].target = call'[d].arg
  <2>1. CASE Spends(call[d])
    BY <1>2, <1>3, <2>1 DEF ScopeInv, GrantsFit
  <2>2. CASE ~Spends(call[d])
    <3>1. d = c
      BY <1>1, <1>9, <2>2
    <3>. QED
      BY <1>1, <1>2, <1>3, <1>9, <2>2, <3>1
  <2>. QED
    BY <2>1, <2>2
<1>10. ASSUME NEW d \in Call, NEW e \in Call, Spends(call'[d]), Spends(call'[e]),
              call'[d].token = call'[e].token
       PROVE  d = e
  <2>1. CASE Spends(call[d]) /\ Spends(call[e])
    BY <1>3, <1>10, <2>1 DEF ScopeInv, GrantsFit
  <2>2. CASE ~Spends(call[d]) /\ Spends(call[e])
    BY <1>1, <1>3, <1>10, <2>2 DEF ScopeInv, GrantsFit
  <2>3. CASE Spends(call[d]) /\ ~Spends(call[e])
    BY <1>1, <1>3, <1>10, <2>3 DEF ScopeInv, GrantsFit
  <2>4. CASE ~Spends(call[d]) /\ ~Spends(call[e])
    BY <1>1, <1>10, <2>4
  <2>. QED
    BY <2>1, <2>2, <2>3, <2>4
<1>. QED
  BY <1>7, <1>8, <1>9, <1>10 DEF GrantsFit, Spends

\* A step of a call that is over before its audit row and touches no table.
LEMMA CallOnly ==
    ASSUME ScopeInv, NEW c \in Call, NEW r, RowFits(r), Moves(c, r),
           call[c].phase \notin Late,
           r.phase \notin {"apply", "check", "append", "answered", "consume"},
           r.writes = call[c].writes, r.token = call[c].token, r.arg = call[c].arg,
           Spends(r) => Spends(call[c]),
           UNCHANGED <<profile, rowLock, lapsed, grant, log, chainLock>>, SavesFit(saves')
    PROVE  ScopeInv' /\ PruneErasesNothing
<1>1. call' \in [Call -> CallRow] /\ RowsFit'
  BY RowMoves
<1>2. ScopeTypeOK'
  BY <1>1 DEF ScopeInv, ScopeTypeOK, SavesFit
<1>3. CopiesFit' /\ PruneErasesNothing
  BY CopiesStay
<1>4. LogFits'
  BY LogStays
<1>5. GrantsFit'
  BY GrantsStay
<1>. QED
  BY <1>1, <1>2, <1>3, <1>4, <1>5 DEF ScopeInv

-----------------------------------------------------------------------------
(* What the steps make of a call.                                          *)

LEMMA RowDecides ==
    ASSUME NEW k, RowFits(k), NEW v \in Verdicts, NEW r, r = [k EXCEPT !.phase = "audit", !.verdict = v]
    PROVE  /\ RowFits(r) /\ r.phase = "audit" /\ r.dialed = k.dialed
           /\ r.writes = k.writes /\ r.token = k.token /\ r.arg = k.arg
<1>1. k \in CallRow /\ IsRequest(k) /\ v # None
  BY ScopeAssumption DEF RowFits
<1>2. /\ r.tool = k.tool /\ r.arg = k.arg /\ r.writes = k.writes /\ r.token = k.token
      /\ r.phase = "audit" /\ r.mem = k.mem /\ r.by = k.by /\ r.pin = k.pin /\ r.dialed = k.dialed
      /\ r.verdict = v
  BY <1>1 DEF CallRow
<1>3. r \in CallRow
  BY <1>1 DEF CallRow, Phases
<1>4. IsRequest(r)
  BY <1>1, <1>2 DEF IsRequest
<1>. QED
  BY <1>1, <1>2, <1>3, <1>4 DEF RowFits

LEMMA RowGoes ==
    ASSUME NEW k, RowFits(k), NEW phase \in Phases, NEW r, r = [k EXCEPT !.phase = phase]
    PROVE  /\ r \in CallRow /\ IsRequest(r)
           /\ r.tool = k.tool /\ r.arg = k.arg /\ r.writes = k.writes /\ r.token = k.token
           /\ r.phase = phase /\ r.mem = k.mem /\ r.seen = k.seen /\ r.by = k.by /\ r.pin = k.pin
           /\ r.dialed = k.dialed /\ r.verdict = k.verdict /\ r.tail = k.tail
<1>1. k \in CallRow /\ IsRequest(k)
  BY DEF RowFits
<1>2. /\ r.tool = k.tool /\ r.arg = k.arg /\ r.writes = k.writes /\ r.token = k.token
      /\ r.phase = phase /\ r.mem = k.mem /\ r.seen = k.seen /\ r.by = k.by /\ r.pin = k.pin
      /\ r.dialed = k.dialed /\ r.verdict = k.verdict /\ r.tail = k.tail
  BY <1>1 DEF CallRow
<1>. QED
  BY <1>1, <1>2 DEF CallRow, IsRequest

LEMMA Decided ==
    ASSUME ScopeInv, NEW c \in Call, NEW v \in Verdicts, Decide(c, v), call[c].phase \notin Late,
           UNCHANGED <<profile, rowLock, lapsed, grant, log, chainLock>>, SavesFit(saves')
    PROVE  ScopeInv' /\ PruneErasesNothing
<1> DEFINE r == [call[c] EXCEPT !.phase = "audit", !.verdict = v]
<1>1. RowFits(call[c])
  BY DEF ScopeInv, RowsFit
<1>2. Moves(c, r)
  BY DEF Decide, Set, Moves
<1> DEFINE k == call[c]
<1>5. RowFits(k) /\ r = [k EXCEPT !.phase = "audit", !.verdict = v]
  BY <1>1
<1>. HIDE DEF r, k
<1>6. /\ RowFits(r) /\ r.phase = "audit" /\ r.dialed = k.dialed
      /\ r.writes = k.writes /\ r.token = k.token /\ r.arg = k.arg
  BY <1>5, RowDecides
<1>3. /\ RowFits(r) /\ r.phase = "audit" /\ r.dialed = call[c].dialed
      /\ r.writes = call[c].writes /\ r.token = call[c].token /\ r.arg = call[c].arg
  BY <1>6 DEF k
<1>4. Spends(r) => Spends(call[c])
  BY <1>3 DEF Spends
<1>. QED
  BY <1>2, <1>3, <1>4, CallOnly

LEMMA SavesStay == ScopeInv => SavesFit(saves)
  BY DEF ScopeInv, CopiesFit

LEMMA AuthorizeKeeps ==
    ASSUME ScopeInv, NEW c \in Call, Authorize(c)
    PROVE  ScopeInv' /\ PruneErasesNothing
<1>1. RowFits(call[c]) /\ call[c].phase = "authorize"
  BY DEF ScopeInv, RowsFit, Authorize
<1>2. CASE ~NeedsGrant(c) /\ Go(c, "dial")
  <2> DEFINE r == [call[c] EXCEPT !.phase = "dial"]
  <2>1. Moves(c, r)
    BY <1>2 DEF Go, Set, Moves
  <2>. HIDE DEF r
  <2>2. /\ r \in CallRow /\ IsRequest(r)
        /\ r.tool = call[c].tool /\ r.arg = call[c].arg /\ r.writes = call[c].writes
        /\ r.token = call[c].token /\ r.phase = "dial" /\ r.by = call[c].by /\ r.pin = call[c].pin
        /\ r.mem = call[c].mem /\ r.dialed = call[c].dialed
    BY <1>1, RowGoes DEF r, Phases
  <2>3. RowFits(r)
    BY <1>1, <2>2 DEF RowFits
  <2>4. ~Spends(r)
    BY <1>1, <1>2, <2>2 DEF Spends, NeedsGrant, RowFits
  <2>. QED
    BY <1>1, <2>1, <2>2, <2>3, <2>4, CallOnly, SavesStay DEF Authorize, Late
<1>3. CASE Decide(c, "denied")
  BY <1>1, <1>3, Decided, SavesStay DEF Authorize, Late, Verdicts
<1>4. CASE call[c].token # None /\ Go(c, "verify")
  <2> DEFINE r == [call[c] EXCEPT !.phase = "verify"]
  <2>1. Moves(c, r)
    BY <1>4 DEF Go, Set, Moves
  <2>. HIDE DEF r
  <2>2. /\ r \in CallRow /\ IsRequest(r)
        /\ r.tool = call[c].tool /\ r.arg = call[c].arg /\ r.writes = call[c].writes
        /\ r.token = call[c].token /\ r.phase = "verify" /\ r.by = call[c].by /\ r.pin = call[c].pin
        /\ r.mem = call[c].mem /\ r.dialed = call[c].dialed
    BY <1>1, RowGoes DEF r, Phases
  <2>3. RowFits(r)
    BY <1>1, <1>4, <2>2 DEF RowFits, IsRequest
  <2>4. Spends(r) => Spends(call[c])
    BY <2>2 DEF Spends
  <2>. QED
    BY <1>1, <2>1, <2>2, <2>3, <2>4, CallOnly, SavesStay DEF Authorize, Late
<1>. QED
  BY <1>2, <1>3, <1>4 DEF Authorize

LEMMA PresentKeeps ==
    ASSUME ScopeInv, NEW c \in Call, Present(c)
    PROVE  ScopeInv' /\ PruneErasesNothing
<1> DEFINE r == [call[c] EXCEPT !.phase = "verify"]
<1>1. RowFits(call[c]) /\ call[c].phase = "start" /\ call[c].tool = "verify_grant" /\ Moves(c, r)
  BY DEF ScopeInv, RowsFit, Present, Go, Set, Moves
<1>. HIDE DEF r
<1>2. /\ r \in CallRow /\ IsRequest(r)
      /\ r.tool = call[c].tool /\ r.arg = call[c].arg /\ r.writes = call[c].writes
      /\ r.token = call[c].token /\ r.phase = "verify" /\ r.by = call[c].by /\ r.pin = call[c].pin
      /\ r.mem = call[c].mem /\ r.dialed = call[c].dialed
  BY <1>1, RowGoes DEF r, Phases
<1>3. RowFits(r)
  BY <1>1, <1>2 DEF RowFits, IsRequest
<1>4. Spends(r) => Spends(call[c])
  BY <1>2 DEF Spends
<1>. QED
  BY <1>1, <1>2, <1>3, <1>4, CallOnly, SavesStay DEF Present, Late

LEMMA DialKeeps ==
    ASSUME ScopeInv, NEW c \in Call, Dial(c)
    PROVE  ScopeInv' /\ PruneErasesNothing
<1>1. PICK v \in {"allowed", "denied"} :
        Moves(c, [call[c] EXCEPT !.phase = "audit", !.dialed = call[c].pin, !.verdict = v])
  BY DEF Dial, Set, Moves
<1> DEFINE r == [call[c] EXCEPT !.phase = "audit", !.dialed = call[c].pin, !.verdict = v]
<1>2. RowFits(call[c]) /\ call[c].phase = "dial"
  BY DEF ScopeInv, RowsFit, Dial
<1>3. call[c] \in CallRow /\ IsRequest(call[c]) /\ v # None /\ v \in Verdicts /\ call[c].pin \in Address
  BY <1>2, ScopeAssumption DEF RowFits, Verdicts, Suits
<1>4. /\ r.tool = call[c].tool /\ r.arg = call[c].arg /\ r.writes = call[c].writes
      /\ r.token = call[c].token /\ r.phase = "audit" /\ r.by = call[c].by
      /\ r.mem = call[c].mem /\ r.pin = call[c].pin /\ r.dialed = call[c].pin /\ r.verdict = v
  BY <1>3 DEF CallRow
<1>5. r \in CallRow
  BY <1>3 DEF CallRow, Phases
<1>. HIDE DEF r
<1>6. RowFits(r)
  BY <1>2, <1>3, <1>4, <1>5 DEF RowFits, IsRequest
<1>7. Spends(r) => Spends(call[c])
  BY <1>2, <1>4 DEF Spends
<1>8. Moves(c, r)
  BY <1>1 DEF r
<1>. QED
  BY <1>2, <1>4, <1>6, <1>7, <1>8, CallOnly, SavesStay DEF Dial, Late

LEMMA Allowed ==
    ASSUME ScopeInv, NEW c \in Call, call[c].phase \in {"check", "lookup"},
           NEW e \in Entry, IsBlock(e) => Acceptable(e) \/ \E t \in call[c].mem.temp : t.entry = e,
           NEW a, Suits(call[c].arg, a), Allow(c, e, a),
           UNCHANGED <<profile, rowLock, lapsed, grant, log, chainLock>>, SavesFit(saves')
    PROVE  ScopeInv' /\ PruneErasesNothing
<1> DEFINE k == call[c]
           r == [k EXCEPT !.phase = AfterCheck(c), !.by = e, !.pin = a, !.verdict = "allowed"]
<1>1. RowFits(k) /\ k.phase \in {"check", "lookup"} /\ Suits(k.arg, a)
  BY DEF ScopeInv, RowsFit
<1>2. Moves(c, r)
  BY DEF Allow, Set, Moves
<1>3. k.tool \in Checks /\ k.dialed = None /\ k \in CallRow /\ a \in Address /\ "allowed" # None
  BY <1>1, ScopeAssumption DEF RowFits, Verdicts, Suits
<1>4. /\ AfterCheck(c) \in {"audit", "authorize", "mint"}
      /\ AfterCheck(c) = "authorize" => k.tool = "probe"
      /\ AfterCheck(c) = "mint" => k.tool = "request_intrusive_approval"
  BY <1>3 DEF AfterCheck, Checks
<1> DEFINE p == AfterCheck(c)
<1>. HIDE DEF k, p
<1>5. /\ r.tool = k.tool /\ r.arg = k.arg /\ r.writes = k.writes /\ r.token = k.token
      /\ r.phase = p /\ r.by = e /\ r.mem = k.mem /\ r.pin = a /\ r.dialed = k.dialed
      /\ r.verdict = "allowed"
  BY <1>3 DEF CallRow, p
<1>6. r \in CallRow
  <2>1. p \in Phases
    BY <1>4 DEF Phases, p
  <2>2. e \in Entry \union {None} /\ a \in Address \union {None} /\ "allowed" \in Verdicts
    BY <1>3 DEF Verdicts
  <2>. QED
    BY <1>3, <2>1, <2>2 DEF CallRow, p
<1>. HIDE DEF r
<1>7. IsRequest(r)
  BY <1>1, <1>5 DEF IsRequest, RowFits
<1>10. ByFits(e, k.mem, a)
  BY <1>1 DEF ByFits, Suits, k
<1>8. RowFits(r)
  BY <1>1, <1>3, <1>4, <1>5, <1>6, <1>7, <1>10 DEF RowFits, p
<1>9. ~Spends(r)
  BY <1>3, <1>4, <1>5 DEF Spends, p
<1>. QED
  BY <1>1, <1>2, <1>4, <1>5, <1>8, <1>9, CallOnly DEF Late, k, p

LEMMA LookupKeeps ==
    ASSUME ScopeInv, NEW c \in Call, Lookup(c)
    PROVE  ScopeInv' /\ PruneErasesNothing
<1>1. RowFits(call[c]) /\ call[c].phase = "lookup" /\ SavesFit(saves')
  BY SavesStay DEF ScopeInv, RowsFit, Lookup
<1>2. PICK answers \in SUBSET Address :
        IF Agree(call[c].arg, answers) THEN \E a \in answers : Allow(c, call[c].by, a)
        ELSE Decide(c, "denied")
  BY DEF Lookup
<1>3. UNCHANGED <<profile, rowLock, lapsed, grant, log, chainLock>>
  BY DEF Lookup
<1>4. CASE ~Agree(call[c].arg, answers)
  BY <1>1, <1>2, <1>3, <1>4, Decided DEF Late, Verdicts
<1>5. CASE Agree(call[c].arg, answers)
  <2>1. PICK a \in answers : Allow(c, call[c].by, a)
    BY <1>2, <1>5
  <2>2. call[c].arg \in Name /\ ClassOf(call[c].arg) \notin Hard /\ call[c].by = call[c].arg
    BY <1>1 DEF RowFits
  <2>3. Suits(call[c].arg, a)
    BY <1>5, <2>2, AgreedSuits
  <2>4. call[c].by \in Entry /\ ~IsBlock(call[c].by)
    BY <2>2, KindsApart DEF IsBlock, Entry, Host
  <2>. QED
    BY <1>1, <1>3, <2>1, <2>3, <2>4, Allowed
<1>. QED
  BY <1>4, <1>5

LEMMA PrunedFits ==
    ASSUME NEW m \in Copies, NEW seen, CopyFits(m, seen), NEW n, n = [m EXCEPT !.temp = Live(@)]
    PROVE  n \in Copies /\ n.allow = m.allow /\ n.temp \subseteq m.temp /\ CopyFits(n, seen)
<1>1. n.allow = m.allow /\ n.temp \subseteq m.temp
  BY DEF Copies, Live
<1>2. n \in Copies
  BY DEF Copies, Live
<1>. QED
  BY <1>1, <1>2 DEF CopyFits

LEMMA CheckKeeps ==
    ASSUME ScopeInv, NEW c \in Call, Check(c)
    PROVE  ScopeInv' /\ PruneErasesNothing
<1> DEFINE h == call[c].arg
           mem == call[c].mem
           m == [mem EXCEPT !.temp = Live(@)]
           named == {e \in m.allow : Matches(e, h)}
           found == IF named # {} THEN named ELSE {t.entry : t \in {u \in m.temp : Matches(u.entry, h)}}
<1>1. RowFits(call[c]) /\ call[c].phase = "check"
  BY DEF ScopeInv, RowsFit, Check
<1>2. UNCHANGED <<profile, rowLock, lapsed, grant, log, chainLock>>
  BY DEF Check
<1>3. mem \in Copies /\ CopyFits(mem, call[c].seen) /\ call[c].seen \in Nat
  BY <1>1 DEF ScopeInv, CopiesFit, RowFits, CallRow
<1>4. m \in Copies /\ m.allow = mem.allow /\ CopyFits(m, call[c].seen)
  BY <1>3, PrunedFits
<1>5. h \in Host /\ call[c].tool \in Checks
  BY <1>1 DEF RowFits, IsRequest, Checks
<1>6. ASSUME NEW e \in found PROVE e \in Entry /\ (Acceptable(e) \/ \E t \in mem.temp : t.entry = e)
  <2>1. CASE named # {}
    <3>1. e \in m.allow
      BY <1>6, <2>1
    <3>. QED
      BY <1>1, <1>4, <3>1 DEF RowFits, Copies
  <2>2. CASE named = {}
    <3>1. PICK u \in m.temp : e = u.entry
      BY <1>6, <2>2
    <3>2. e \in Entry
      BY <1>4, <3>1 DEF Copies, Temporary
    <3>3. u \in mem.temp
      BY <1>3, <3>1, PrunedFits
    <3>. QED
      BY <3>1, <3>2, <3>3
  <2>. QED
    BY <2>1, <2>2
<1>7. CASE ClassOf(h) \in Hard
  <2>1. Decide(c, "denied") /\ saves' = saves
    BY <1>7 DEF Check
  <2>. QED
    BY <1>1, <1>2, <2>1, Decided, SavesStay DEF Late, Verdicts
<1>8. CASE ClassOf(h) \notin Hard
  <2>1. /\ saves' = IF m = mem THEN saves
                    ELSE saves \union {[by |-> c, mem |-> m, seen |-> call[c].seen]}
        /\ CASE found = {} -> Decide(c, "denied")
             [] found # {} /\ h \in Address -> \E e \in found : Allow(c, e, h)
             [] OTHER -> Set(c, [call[c] EXCEPT !.phase = "lookup", !.by = h])
    BY <1>8 DEF Check
  <2>. HIDE DEF m, mem, found
  <2>2. SavesFit(saves')
    BY <1>3, <1>4, <2>1, SavesStay DEF SavesFit
  <2>3. CASE found = {}
    BY <1>1, <1>2, <2>1, <2>2, <2>3, Decided DEF Late, Verdicts
  <2>4. CASE found # {} /\ h \in Address
    <3>1. PICK e \in found : Allow(c, e, h)
      BY <2>1, <2>4
    <3>2. Suits(h, h)
      BY <1>8, <2>4 DEF Suits
    <3>3. e \in Entry /\ (Acceptable(e) \/ \E t \in call[c].mem.temp : t.entry = e)
      BY <1>6 DEF mem
    <3>. QED
      BY <1>1, <1>2, <2>2, <3>1, <3>2, <3>3, Allowed
  <2>5. CASE found # {} /\ h \notin Address
    <3> DEFINE k == call[c]
               r == [k EXCEPT !.phase = "lookup", !.by = h]
    <3>1. Moves(c, r)
      BY <2>1, <2>5 DEF Set, Moves
    <3>2. h \in Name /\ h \in Entry /\ ~IsBlock(h)
      BY <1>5, <2>5, KindsApart DEF Host, Entry, IsBlock
    <3>3. k \in CallRow /\ IsRequest(k) /\ k.phase = "check" /\ k.tool \in Checks /\ k.dialed = None
      BY <1>1, <1>5 DEF RowFits
    <3>. HIDE DEF k
    <3>4. /\ r.tool = k.tool /\ r.arg = k.arg /\ r.writes = k.writes /\ r.token = k.token
          /\ r.phase = "lookup" /\ r.by = h /\ r.mem = k.mem /\ r.dialed = k.dialed
      BY <3>3 DEF CallRow
    <3>5. r \in CallRow
      BY <3>2, <3>3 DEF CallRow, Phases
    <3>. HIDE DEF r
    <3>8. ByFits(h, r.mem, r.pin) /\ r.by = r.arg
      BY <3>2, <3>4 DEF ByFits, k
    <3>6. RowFits(r)
      BY <1>8, <3>2, <3>3, <3>4, <3>5, <3>8 DEF RowFits, IsRequest, k
    <3>7. ~Spends(r)
      BY <3>3, <3>4 DEF Spends
    <3>. QED
      BY <1>1, <1>2, <2>2, <3>1, <3>4, <3>6, <3>7, CallOnly DEF Late, k
  <2>. QED
    BY <2>3, <2>4, <2>5
<1>. QED
  BY <1>7, <1>8

-----------------------------------------------------------------------------
(* The row of the profile is read and written back.                        *)

LEMMA SanitizedFits ==
    ScopeInv => Sanitized \in Copies /\ CopyFits(Sanitized, profile.at)
                /\ \A e \in Sanitized.allow : Acceptable(e)
  BY DEF ScopeInv, ScopeTypeOK, Sanitized, Copies, CopyFits, Live

\* A call reads the row into memory.
LEMMA ReadKeeps ==
    ASSUME ScopeInv, NEW c \in Call, NEW p \in {"apply", "check"}, call[c].phase = "start",
           p = "apply" => call[c].tool \in Mutations, p = "check" => call[c].tool \in Checks,
           Set(c, [call[c] EXCEPT !.phase = p, !.mem = Sanitized, !.seen = profile.at]),
           rowLock' \in Call \union {None},
           UNCHANGED <<profile, saves, lapsed, grant, log, chainLock>>
    PROVE  ScopeInv' /\ PruneErasesNothing
<1> DEFINE k == call[c]
           r == [k EXCEPT !.phase = p, !.mem = Sanitized, !.seen = profile.at]
<1>1. RowFits(k) /\ k.phase = "start"
  BY DEF ScopeInv, RowsFit
<1>2. Moves(c, r)
  BY DEF Set, Moves
<1> DEFINE z == Sanitized
<1>3. z \in Copies /\ CopyFits(z, profile.at) /\ \A e \in z.allow : Acceptable(e)
  BY SanitizedFits
<1>4. profile.at \in Nat /\ k \in CallRow /\ k.dialed = None
  BY <1>1 DEF ScopeInv, ScopeTypeOK, RowFits
<1>. HIDE DEF k, z
<1>5. /\ r.tool = k.tool /\ r.arg = k.arg /\ r.writes = k.writes /\ r.token = k.token
      /\ r.phase = p /\ r.by = k.by /\ r.dialed = k.dialed /\ r.mem = z /\ r.seen = profile.at
  BY <1>4 DEF CallRow, z
<1>6. r \in CallRow
  BY <1>3, <1>4 DEF CallRow, Phases, z
<1>. HIDE DEF r
<1>15. r.by = None /\ ByFits(None, r.mem, r.pin)
  BY <1>1, <1>5 DEF RowFits, ByFits
<1>7. RowFits(r)
  BY <1>1, <1>3, <1>4, <1>5, <1>6, <1>15 DEF RowFits, IsRequest, k
<1>8. ~Spends(r)
  BY <1>4, <1>5 DEF Spends
<1>9. /\ call' \in [Call -> CallRow] /\ RowsFit'
      /\ call'[c] = r /\ \A d \in Call \ {c} : call'[d] = call[d]
  BY <1>2, <1>7, RowMoves
<1>10. \A d \in Call : call'[d].phase \in {"apply", "check"} => CopyFits(call'[d].mem, call'[d].seen)
  BY <1>3, <1>5, <1>9 DEF ScopeInv, CopiesFit
<1>11. CopiesFit' /\ PruneErasesNothing
  BY <1>10, SavesStay DEF CopiesFit, SavesFit, CopyFits, PruneErasesNothing
<1>12. LogFits'
  BY <1>2, <1>5, <1>7, LogStays
<1>13. GrantsFit'
  BY <1>1, <1>2, <1>5, <1>7, <1>8, GrantsStay DEF Late, k
<1>14. ScopeTypeOK'
  BY <1>9 DEF ScopeInv, ScopeTypeOK
<1>. QED
  BY <1>9, <1>11, <1>12, <1>13, <1>14 DEF ScopeInv

LEMMA LockRowKeeps ==
    ASSUME ScopeInv, NEW c \in Call, LockRow(c)
    PROVE  ScopeInv' /\ PruneErasesNothing
  BY ReadKeeps DEF LockRow

LEMMA LoadKeeps ==
    ASSUME ScopeInv, NEW c \in Call, Load(c)
    PROVE  ScopeInv' /\ PruneErasesNothing
<1>1. rowLock' \in Call \union {None}
  BY DEF Load, ScopeInv, ScopeTypeOK
<1>. QED
  BY <1>1, ReadKeeps DEF Load

ProfileRow == [allow : SUBSET Entry, temp : SUBSET Temporary, at : Nat]

\* The row as somebody would leave it, with a change to one set of entries.
LeavesRow(row, entries) ==
    /\ row \in ProfileRow
    /\ row = profile \/ row.at = profile.at + 1
    /\ \A e \in (profile.allow \ row.allow) \union (row.allow \ profile.allow) :
          ~Acceptable(e) \/ e \in entries

LEMMA PersistLeaves ==
    ASSUME ScopeInv, NEW m \in Copies, NEW seen \in Nat, CopyFits(m, seen),
           NEW n \in Copies, NEW entries,
           \A e \in (m.allow \ n.allow) \union (n.allow \ m.allow) : e \in entries,
           NEW row, row = Persist(profile, n, seen)
    PROVE  LeavesRow(row, entries)
<1>1. profile \in ProfileRow
  BY DEF ScopeInv, ScopeTypeOK, ProfileRow
<1>2. CASE profile.at # seen
  BY <1>1, <1>2 DEF Persist, LeavesRow
<1>3. CASE profile.at = seen
  <2>1. m.allow = {e \in profile.allow : Acceptable(e)}
    BY <1>3 DEF CopyFits
  <2>2. row = [allow |-> n.allow, temp |-> n.temp, at |-> profile.at + 1]
    BY <1>3 DEF Persist
  <2>3. row \in ProfileRow /\ row.allow = n.allow /\ row.at = profile.at + 1
    BY <1>1, <2>2 DEF ProfileRow, Copies
  <2>4. ASSUME NEW e \in (profile.allow \ row.allow) \union (row.allow \ profile.allow), Acceptable(e)
        PROVE  e \in entries
    BY <2>1, <2>3, <2>4
  <2>. QED
    BY <2>3, <2>4 DEF LeavesRow
<1>. QED
  BY <1>2, <1>3

\* Once the row was left so, older copies are stale.
LEMMA CopiesAge ==
    ASSUME ScopeInv, NEW entries, LeavesRow(profile', entries), NEW m, NEW seen \in Nat, CopyFits(m, seen)
    PROVE  /\ seen <= profile'.at
           /\ seen = profile'.at => m.allow = {e \in profile'.allow : Acceptable(e)}
<1>1. profile.at \in Nat
  BY DEF ScopeInv, ScopeTypeOK
<1>. QED
  BY <1>1 DEF LeavesRow, CopyFits

LEMMA LandKeeps ==
    ASSUME ScopeInv, NEW s \in saves, Land(s)
    PROVE  ScopeInv' /\ PruneErasesNothing
<1>1. s.mem \in Copies /\ s.seen \in Nat /\ CopyFits(s.mem, s.seen)
  BY SavesStay DEF SavesFit
<1>2. LeavesRow(profile', {})
  BY <1>1, PersistLeaves DEF Land
<1>3. UNCHANGED <<rowLock, lapsed, grant, log, chainLock, call>> /\ saves' \subseteq saves
  BY DEF Land
<1>4. ScopeTypeOK'
  BY <1>2, <1>3 DEF ScopeInv, ScopeTypeOK, LeavesRow, ProfileRow
<1>5. ASSUME NEW d \in Call, call'[d].phase \in {"apply", "check"}
      PROVE  /\ call'[d].seen <= profile'.at
             /\ call'[d].seen = profile'.at => call'[d].mem.allow = {e \in profile'.allow : Acceptable(e)}
  <2>1. call[d].seen \in Nat /\ CopyFits(call[d].mem, call[d].seen)
    BY <1>3, <1>5 DEF ScopeInv, ScopeTypeOK, CopiesFit, CallRow
  <2>. QED
    BY <1>2, <1>3, <2>1, CopiesAge
<1>6. ASSUME NEW t \in saves'
      PROVE  /\ t.seen <= profile'.at
             /\ t.seen = profile'.at => t.mem.allow = {e \in profile'.allow : Acceptable(e)}
  <2>1. t.seen \in Nat /\ CopyFits(t.mem, t.seen)
    BY <1>3, SavesStay DEF SavesFit
  <2>. QED
    BY <1>2, <2>1, CopiesAge
<1>7. CopiesFit'
  BY <1>3, <1>5, <1>6, SavesStay DEF CopiesFit, SavesFit, CopyFits
<1>8. RowsFit' /\ LogFits' /\ GrantsFit'
  BY <1>3 DEF ScopeInv, RowsFit, LogFits, Logged, GrantsFit
<1>9. PruneErasesNothing
  BY <1>2 DEF LeavesRow, PruneErasesNothing
<1>. QED
  BY <1>4, <1>7, <1>8, <1>9 DEF ScopeInv

LEMMA UnchangedLeaves == ScopeInv => \A entries : LeavesRow(profile, entries)
  BY DEF ScopeInv, ScopeTypeOK, LeavesRow, ProfileRow

\* What a mutation leaves, whether it says yes or no.
LEMMA ApplyLeaves ==
    ASSUME ScopeInv, NEW c \in Call, Apply(c)
    PROVE  /\ LeavesRow(profile', {call[c].arg})
           /\ Decide(c, "mutated") \/ Decide(c, "denied")
<1> DEFINE e == call[c].arg
           mem == call[c].mem
           seen == call[c].seen
<1>1. /\ RowFits(call[c]) /\ call[c].phase = "apply" /\ call[c].tool \in Mutations /\ e \in Entry
      /\ mem \in Copies /\ seen \in Nat /\ CopyFits(mem, seen)
  BY DEF ScopeInv, RowsFit, Apply, RowFits, CopiesFit, CallRow
<1>2. Decide(c, "mutated") \/ Decide(c, "denied")
  BY DEF Apply
<1>3. CASE call[c].tool = "scope_add"
  <2>1. profile' = IF Added(c).ok THEN Added(c).row ELSE profile
    BY <1>3 DEF Apply
  <2> DEFINE n == [mem EXCEPT !.allow = @ \union {e}]
  <2>2. n \in Copies /\ n.allow = mem.allow \union {e}
    BY <1>1 DEF Copies
  <2>3. Added(c).row = Persist(profile, n, seen)
    BY DEF Added
  <2>. HIDE DEF n, mem, seen, e
  <2>4. LeavesRow(Added(c).row, {e})
    BY <1>1, <2>2, <2>3, PersistLeaves
  <2>. QED
    BY <1>2, <2>1, <2>4, UnchangedLeaves DEF e
<1>4. CASE call[c].tool = "scope_remove"
  <2>1. profile' = IF Removed(c).ok THEN Removed(c).row ELSE profile
    BY <1>4 DEF Apply
  <2> DEFINE n == [allow |-> mem.allow \ {e}, temp |-> {t \in mem.temp : t.entry # e}]
  <2>2. n \in Copies /\ n.allow = mem.allow \ {e}
    BY <1>1 DEF Copies
  <2>3. Removed(c).row = Persist(profile, n, seen)
    BY DEF Removed
  <2>. HIDE DEF n, mem, seen, e
  <2>4. LeavesRow(Removed(c).row, {e})
    BY <1>1, <2>2, <2>3, PersistLeaves
  <2>. QED
    BY <1>2, <2>1, <2>4, UnchangedLeaves DEF e
<1>5. CASE call[c].tool = "scope_add_temporary"
  <2>1. profile' = TemporarilyAdded(c).row
    BY <1>5 DEF Apply
  <2> DEFINE m == [mem EXCEPT !.temp = Live(@)]
             pruned == IF m = mem THEN profile ELSE Persist(profile, m, seen)
             n == [m EXCEPT !.temp = @ \union {[entry |-> e, by |-> c]}]
  <2>2. m \in Copies /\ m.allow = mem.allow /\ CopyFits(m, seen)
    BY <1>1, PrunedFits
  <2>3. \/ TemporarilyAdded(c).row = pruned
        \/ TemporarilyAdded(c).row = Persist(pruned, n, seen)
    BY DEF TemporarilyAdded
  <2>. HIDE DEF m, mem, seen, e
  <2>4. LeavesRow(pruned, {e})
    BY <1>1, <2>2, UnchangedLeaves, PersistLeaves
  <2>5. CASE TemporarilyAdded(c).row = pruned
    BY <1>2, <2>1, <2>4, <2>5 DEF e
  <2>6. CASE TemporarilyAdded(c).row = Persist(pruned, n, seen)
    <3>1. n \in Copies /\ n.allow = m.allow
      BY <1>1, <2>2, <2>6 DEF Copies, Temporary
    <3>2. CASE pruned = profile
      <4>. HIDE DEF n
      <4>1. LeavesRow(TemporarilyAdded(c).row, {e})
        BY <1>1, <2>2, <2>6, <3>1, <3>2, PersistLeaves
      <4>. QED
        BY <1>2, <2>1, <4>1 DEF e
    <3>3. CASE pruned # profile
      <4>1. profile.at \in Nat /\ seen <= profile.at
        BY <1>1 DEF ScopeInv, ScopeTypeOK, CopyFits
      <4>2. pruned.at = profile.at + 1
        BY <2>4, <3>3 DEF LeavesRow
      <4>3. pruned.at # seen
        BY <1>1, <4>1, <4>2
      <4>. HIDE DEF pruned, n
      <4>4. TemporarilyAdded(c).row = pruned
        BY <2>6, <4>3 DEF Persist
      <4>. QED
        BY <1>2, <2>1, <2>4, <4>4 DEF e
    <3>. QED
      BY <3>2, <3>3
  <2>. QED
    BY <2>3, <2>5, <2>6
<1>. QED
  BY <1>1, <1>3, <1>4, <1>5 DEF Mutations

LEMMA ApplyKeeps ==
    ASSUME ScopeInv, NEW c \in Call, Apply(c)
    PROVE  ScopeInv' /\ PruneErasesNothing
<1>1. /\ LeavesRow(profile', {call[c].arg})
      /\ UNCHANGED <<saves, lapsed, grant, log, chainLock>> /\ rowLock' = None
      /\ RowFits(call[c]) /\ call[c].phase = "apply"
  BY ApplyLeaves DEF Apply, ScopeInv, RowsFit
<1>2. PICK v \in Verdicts : Decide(c, v)
  BY ApplyLeaves DEF Verdicts
<1> DEFINE k == call[c]
           r == [k EXCEPT !.phase = "audit", !.verdict = v]
<1>3. Moves(c, r) /\ RowFits(k) /\ r = [k EXCEPT !.phase = "audit", !.verdict = v]
  BY <1>1, <1>2 DEF Decide, Set, Moves
<1>. HIDE DEF k, r
<1>4. /\ RowFits(r) /\ r.phase = "audit" /\ r.dialed = k.dialed
      /\ r.writes = k.writes /\ r.token = k.token /\ r.arg = k.arg
  BY <1>3, RowDecides
<1>5. /\ call' \in [Call -> CallRow] /\ RowsFit'
      /\ call'[c] = r /\ \A d \in Call \ {c} : call'[d] = call[d]
  BY <1>3, <1>4, RowMoves
<1>6. ScopeTypeOK'
  BY <1>1, <1>5 DEF ScopeInv, ScopeTypeOK, LeavesRow, ProfileRow
<1>7. ASSUME NEW d \in Call, call'[d].phase \in {"apply", "check"}
      PROVE  /\ call'[d].seen <= profile'.at
             /\ call'[d].seen = profile'.at => call'[d].mem.allow = {e \in profile'.allow : Acceptable(e)}
  <2>1. call'[d] = call[d] /\ call[d].seen \in Nat /\ CopyFits(call[d].mem, call[d].seen)
    BY <1>4, <1>5, <1>7 DEF ScopeInv, ScopeTypeOK, CopiesFit, CallRow
  <2>. QED
    BY <1>1, <2>1, CopiesAge
<1>8. ASSUME NEW t \in saves'
      PROVE  /\ t.seen <= profile'.at
             /\ t.seen = profile'.at => t.mem.allow = {e \in profile'.allow : Acceptable(e)}
  <2>1. t.seen \in Nat /\ CopyFits(t.mem, t.seen)
    BY <1>1, SavesStay DEF SavesFit
  <2>. QED
    BY <1>1, <2>1, CopiesAge
<1>9. CopiesFit'
  BY <1>1, <1>7, <1>8, SavesStay DEF CopiesFit, SavesFit, CopyFits
<1>10. LogFits'
  BY <1>1, <1>3, <1>4, LogStays
<1>11. GrantsFit'
  BY <1>1, <1>3, <1>4, GrantsStay DEF Late, Spends, k
<1>12. PruneErasesNothing
  BY <1>1, <1>4, <1>5 DEF LeavesRow, PruneErasesNothing
<1>. QED
  BY <1>5, <1>6, <1>9, <1>10, <1>11, <1>12 DEF ScopeInv

-----------------------------------------------------------------------------
(* Grants.                                                                 *)

\* A call goes on, and the other facts are told apart by the step.
LEMMA GoMoves ==
    ASSUME ScopeInv, NEW c \in Call, NEW p \in Phases, Go(c, p)
    PROVE  \E r : /\ Moves(c, r) /\ r = [call[c] EXCEPT !.phase = p]
                  /\ r \in CallRow /\ IsRequest(r)
                  /\ r.tool = call[c].tool /\ r.arg = call[c].arg
                  /\ r.writes = call[c].writes /\ r.token = call[c].token
                  /\ r.phase = p /\ r.mem = call[c].mem /\ r.seen = call[c].seen /\ r.by = call[c].by
                  /\ r.pin = call[c].pin /\ r.dialed = call[c].dialed
                  /\ r.verdict = call[c].verdict /\ r.tail = call[c].tail
<1> DEFINE k == call[c]
           r == [k EXCEPT !.phase = p]
<1>1. RowFits(k) /\ Moves(c, r) /\ r = [k EXCEPT !.phase = p]
  BY DEF ScopeInv, RowsFit, Go, Set, Moves
<1>. HIDE DEF k, r
<1>2. /\ r \in CallRow /\ IsRequest(r)
      /\ r.tool = k.tool /\ r.arg = k.arg /\ r.writes = k.writes /\ r.token = k.token
      /\ r.phase = p /\ r.mem = k.mem /\ r.seen = k.seen /\ r.by = k.by /\ r.pin = k.pin
      /\ r.dialed = k.dialed /\ r.verdict = k.verdict /\ r.tail = k.tail
  BY <1>1, RowGoes
<1>. QED
  BY <1>1, <1>2 DEF k

LEMMA GrantTyped ==
    ScopeInv => grant \in [Call -> [target : Host \union {None}, over : BOOLEAN, used : BOOLEAN,
                                    lock : Call \union {None}]]
  BY DEF ScopeInv, ScopeTypeOK

LEMMA MintKeeps ==
    ASSUME ScopeInv, NEW c \in Call, Mint(c)
    PROVE  ScopeInv' /\ PruneErasesNothing
<1>1. RowFits(call[c]) /\ call[c].phase = "mint"
  BY DEF ScopeInv, RowsFit, Mint
<1>2. PICK r : /\ Moves(c, r) /\ r \in CallRow /\ IsRequest(r)
               /\ r.tool = call[c].tool /\ r.arg = call[c].arg
               /\ r.writes = call[c].writes /\ r.token = call[c].token
               /\ r.phase = "audit" /\ r.by = call[c].by /\ r.mem = call[c].mem
               /\ r.pin = call[c].pin /\ r.dialed = call[c].dialed
               /\ r.verdict = call[c].verdict
  BY GoMoves DEF Mint, Phases
<1>3. RowFits(r) /\ ~Spends(r)
  BY <1>1, <1>2 DEF RowFits, Spends
<1>4. /\ call' \in [Call -> CallRow] /\ RowsFit'
      /\ call'[c] = r /\ \A d \in Call \ {c} : call'[d] = call[d]
  BY <1>2, <1>3, RowMoves
<1>5. /\ UNCHANGED <<profile, rowLock, saves, lapsed, log, chainLock>>
      /\ grant' = [grant EXCEPT ![c].target = call[c].arg]
  BY DEF Mint
<1>6. grant[c].target = None
  BY <1>1, GrantTyped DEF ScopeInv, GrantsFit, Late
<1>7. /\ \A k \in Call \ {c} : grant'[k] = grant[k]
      /\ grant'[c].target = call[c].arg /\ grant'[c].used = grant[c].used
  BY <1>5, GrantTyped
<1>8. \A k \in Call : /\ grant[k].target # None => grant'[k].target = grant[k].target
                      /\ grant'[k].used = grant[k].used
  BY <1>6, <1>7
<1>9. call[c].arg \in Host
  BY <1>1 DEF RowFits, IsRequest
<1>10. ScopeTypeOK'
  BY <1>4, <1>5, <1>9, GrantTyped DEF ScopeInv, ScopeTypeOK
<1>11. CopiesFit' /\ PruneErasesNothing
  BY <1>2, <1>3, <1>5, SavesStay, CopiesStay
<1>12. LogFits'
  BY <1>2, <1>3, <1>5, LogStays
<1>13. \A k \in Call : grant'[k].target = grant[k].target \/ (k = c /\ r.phase \in Late)
  BY <1>2, <1>7 DEF Late
<1>14. GrantsFit'
  BY <1>1, <1>2, <1>3, <1>8, <1>13, GrantsStay DEF Late
<1>. QED
  BY <1>4, <1>10, <1>11, <1>12, <1>14 DEF ScopeInv

LEMMA LockGrantKeeps ==
    ASSUME ScopeInv, NEW c \in Call, LockGrant(c)
    PROVE  ScopeInv' /\ PruneErasesNothing
<1>1. RowFits(call[c]) /\ call[c].phase = "verify" /\ call[c].token \in Call
  BY DEF ScopeInv, RowsFit, RowFits, LockGrant
<1>2. UNCHANGED <<profile, rowLock, saves, lapsed, log, chainLock>>
  BY DEF LockGrant
<1> DEFINE t == call[c].token
<1>3. CASE Decide(c, "denied") /\ UNCHANGED grant
  BY <1>1, <1>2, <1>3, Decided, SavesStay DEF Late, Verdicts
<1>4. CASE /\ grant[t].target = call[c].arg
           /\ grant' = [grant EXCEPT ![t].lock = c] /\ Go(c, "consume")
  <2>1. PICK r : /\ Moves(c, r) /\ r \in CallRow /\ IsRequest(r)
                 /\ r.tool = call[c].tool /\ r.arg = call[c].arg
                 /\ r.writes = call[c].writes /\ r.token = call[c].token
                 /\ r.phase = "consume" /\ r.by = call[c].by /\ r.pin = call[c].pin
                 /\ r.mem = call[c].mem /\ r.dialed = call[c].dialed
    BY <1>4, GoMoves DEF Phases
  <2>2. RowFits(r)
    BY <1>1, <2>1 DEF RowFits
  <2>3. call' \in [Call -> CallRow] /\ RowsFit'
    BY <2>1, <2>2, RowMoves
  <2>4. \A k \in Call : grant'[k].target = grant[k].target /\ grant'[k].used = grant[k].used
    BY <1>1, <1>4, GrantTyped
  <2>5. ScopeTypeOK'
    BY <1>1, <1>2, <1>4, <2>3, GrantTyped DEF ScopeInv, ScopeTypeOK
  <2>6. CopiesFit' /\ PruneErasesNothing
    BY <1>2, <2>1, <2>2, SavesStay, CopiesStay
  <2>7. LogFits'
    BY <1>2, <2>1, <2>2, LogStays
  <2>8. Spends(r) => Spends(call[c])
    BY <2>1 DEF Spends
  <2>9. GrantsFit'
    BY <1>1, <1>4, <2>1, <2>2, <2>4, <2>8, GrantsStay DEF Late
  <2>. QED
    BY <2>3, <2>5, <2>6, <2>7, <2>9 DEF ScopeInv
<1>. QED
  BY <1>3, <1>4 DEF LockGrant

LEMMA ConsumeKeeps ==
    ASSUME ScopeInv, NEW c \in Call, Consume(c)
    PROVE  ScopeInv' /\ PruneErasesNothing
<1> DEFINE t == call[c].token
<1>1. RowFits(call[c]) /\ call[c].phase = "consume" /\ t \in Call /\ grant[t].target = call[c].arg
  BY DEF ScopeInv, RowsFit, RowFits, GrantsFit, Consume
<1>2. /\ UNCHANGED <<profile, rowLock, saves, lapsed, log, chainLock>>
      /\ grant' = [grant EXCEPT ![t].used = TRUE, ![t].lock = None]
  BY DEF Consume
<1>3. \A k \in Call : /\ grant'[k].target = grant[k].target
                      /\ grant[k].used => grant'[k].used
  BY <1>1, <1>2, GrantTyped
<1>4. grant'[t].used
  BY <1>1, <1>2, GrantTyped
<1>5. grant' \in [Call -> [target : Host \union {None}, over : BOOLEAN, used : BOOLEAN,
                           lock : Call \union {None}]]
  BY <1>1, <1>2, GrantTyped
<1>6. ASSUME NEW v \in Verdicts, Decide(c, v) PROVE ScopeInv' /\ PruneErasesNothing
  <2> DEFINE k == call[c]
             r == [k EXCEPT !.phase = "audit", !.verdict = v]
  <2>1. Moves(c, r) /\ RowFits(k) /\ r = [k EXCEPT !.phase = "audit", !.verdict = v]
    BY <1>1, <1>6 DEF Decide, Set, Moves
  <2>. HIDE DEF k, r
  <2>2. /\ RowFits(r) /\ r.phase = "audit" /\ r.dialed = k.dialed
        /\ r.writes = k.writes /\ r.token = k.token /\ r.arg = k.arg
    BY <2>1, RowDecides
  <2>3. call' \in [Call -> CallRow] /\ RowsFit'
    BY <2>1, <2>2, RowMoves
  <2>4. ScopeTypeOK'
    BY <1>2, <1>5, <2>3 DEF ScopeInv, ScopeTypeOK
  <2>5. CopiesFit' /\ PruneErasesNothing
    BY <1>2, <2>1, <2>2, SavesStay, CopiesStay
  <2>6. LogFits'
    BY <1>2, <2>1, <2>2, LogStays
  <2>7. GrantsFit'
    BY <1>1, <1>3, <2>1, <2>2, GrantsStay DEF Late, Spends, k
  <2>. QED
    BY <2>3, <2>4, <2>5, <2>6, <2>7 DEF ScopeInv
<1>7. CASE ~grant[t].used /\ call[c].tool = "probe" /\ Go(c, "dial")
  <2>1. PICK r : /\ Moves(c, r) /\ r \in CallRow /\ IsRequest(r)
                 /\ r.tool = call[c].tool /\ r.arg = call[c].arg
                 /\ r.writes = call[c].writes /\ r.token = call[c].token
                 /\ r.phase = "dial" /\ r.by = call[c].by /\ r.pin = call[c].pin
                 /\ r.mem = call[c].mem /\ r.dialed = call[c].dialed
    BY <1>7, GoMoves DEF Phases
  <2>2. RowFits(r)
    BY <1>1, <1>7, <2>1 DEF RowFits
  <2>3. call' \in [Call -> CallRow] /\ RowsFit'
    BY <2>1, <2>2, RowMoves
  <2>4. ScopeTypeOK'
    BY <1>2, <1>5, <2>3 DEF ScopeInv, ScopeTypeOK
  <2>5. CopiesFit' /\ PruneErasesNothing
    BY <1>2, <2>1, <2>2, SavesStay, CopiesStay
  <2>6. LogFits'
    BY <1>2, <2>1, <2>2, LogStays
  <2>7. GrantsFit'
    BY <1>1, <1>3, <1>4, <1>7, <2>1, <2>2, GrantsStay DEF Late
  <2>. QED
    BY <2>3, <2>4, <2>5, <2>6, <2>7 DEF ScopeInv
<1>. QED
  BY <1>6, <1>7 DEF Consume, Verdicts

-----------------------------------------------------------------------------
(* The audit log.                                                          *)

LEMMA LockChainKeeps ==
    ASSUME ScopeInv, NEW c \in Call, LockChain(c)
    PROVE  ScopeInv' /\ PruneErasesNothing
<1> DEFINE k == call[c]
           r == [k EXCEPT !.phase = "append", !.tail = Len(log)]
<1>1. RowFits(k) /\ k.phase = "audit" /\ Moves(c, r) /\ k \in CallRow
  BY DEF ScopeInv, RowsFit, RowFits, LockChain, Set, Moves
<1>2. /\ UNCHANGED <<profile, rowLock, saves, lapsed, grant, log>>
      /\ chainLock = None /\ chainLock' = c
  BY DEF LockChain
<1>3. Len(log) \in Nat
  BY DEF ScopeInv, ScopeTypeOK
<1>. HIDE DEF k
<1>4. /\ r.tool = k.tool /\ r.arg = k.arg /\ r.writes = k.writes /\ r.token = k.token
      /\ r.phase = "append" /\ r.by = k.by /\ r.mem = k.mem /\ r.pin = k.pin /\ r.dialed = k.dialed
      /\ r.verdict = k.verdict /\ r.tail = Len(log)
  BY <1>1 DEF CallRow
<1>5. r \in CallRow
  BY <1>1, <1>3 DEF CallRow, Phases
<1>. HIDE DEF r
<1>6. RowFits(r)
  BY <1>1, <1>4, <1>5 DEF RowFits, IsRequest
<1>7. /\ call' \in [Call -> CallRow] /\ RowsFit'
      /\ call'[c] = r /\ \A d \in Call \ {c} : call'[d] = call[d]
  BY <1>1, <1>6, RowMoves
<1>8. ScopeTypeOK'
  BY <1>2, <1>7 DEF ScopeInv, ScopeTypeOK
<1>9. CopiesFit' /\ PruneErasesNothing
  BY <1>1, <1>2, <1>4, <1>6, SavesStay, CopiesStay
<1>10. \A d \in Call : call[d].phase # "append"
  BY <1>2, ScopeAssumption DEF ScopeInv, LogFits
<1>11. LogFits'
  BY <1>2, <1>4, <1>7, <1>10 DEF ScopeInv, LogFits, Logged
<1>12. GrantsFit'
  BY <1>1, <1>2, <1>4, <1>6, GrantsStay DEF Late, Spends, k
<1>. QED
  BY <1>7, <1>8, <1>9, <1>11, <1>12 DEF ScopeInv

LEMMA AppendKeeps ==
    ASSUME ScopeInv, NEW c \in Call, Append_(c)
    PROVE  ScopeInv' /\ PruneErasesNothing
<1>1. /\ RowFits(call[c]) /\ call[c].phase = "append" /\ chainLock = c /\ call[c].tail = Len(log)
      /\ log \in Seq([by : Call, verdict : Verdicts]) /\ Len(log) \in Nat
  BY DEF ScopeInv, ScopeTypeOK, RowsFit, LogFits, Append_
<1> DEFINE entry == [by |-> c, verdict |-> call[c].verdict]
<1>2. /\ UNCHANGED <<profile, rowLock, saves, lapsed, grant>> /\ chainLock' = None
      /\ log' = Append(log, entry) /\ Go(c, "answered")
  BY <1>1 DEF Append_
<1>3. PICK r : /\ Moves(c, r) /\ r \in CallRow /\ IsRequest(r)
               /\ r.tool = call[c].tool /\ r.arg = call[c].arg
               /\ r.writes = call[c].writes /\ r.token = call[c].token
               /\ r.phase = "answered" /\ r.by = call[c].by /\ r.pin = call[c].pin
               /\ r.mem = call[c].mem /\ r.dialed = call[c].dialed /\ r.verdict = call[c].verdict
  BY <1>2, GoMoves DEF Phases
<1>4. RowFits(r)
  BY <1>1, <1>3 DEF RowFits
<1>5. /\ call' \in [Call -> CallRow] /\ RowsFit'
      /\ call'[c] = r /\ \A d \in Call \ {c} : call'[d] = call[d]
  BY <1>3, <1>4, RowMoves
<1>6. entry \in [by : Call, verdict : Verdicts]
  BY <1>1 DEF RowFits, CallRow
<1>. HIDE DEF entry
<1>7. log' \in Seq([by : Call, verdict : Verdicts])
  BY <1>1, <1>2, <1>6
<1>8. ScopeTypeOK'
  BY <1>2, <1>5, <1>7 DEF ScopeInv, ScopeTypeOK
<1>9. CopiesFit' /\ PruneErasesNothing
  BY <1>2, <1>3, <1>4, SavesStay, CopiesStay
<1>10. /\ \A i \in DOMAIN log : i \in DOMAIN log' /\ log'[i] = log[i]
       /\ Len(log) + 1 \in DOMAIN log' /\ log'[Len(log) + 1] = entry
  BY <1>1, <1>2, <1>6
<1>11. \A d \in Call \ {c} : call[d].phase # "append"
  BY <1>1 DEF ScopeInv, LogFits
<1>12. ASSUME NEW d \in Call, call'[d].phase = "answered"
       PROVE  \E i \in DOMAIN log' : log'[i] = [by |-> d, verdict |-> call'[d].verdict]
  <2>1. CASE d = c
    BY <1>3, <1>5, <1>10, <2>1 DEF entry
  <2>2. CASE d # c
    <3>1. PICK i \in DOMAIN log : log[i] = [by |-> d, verdict |-> call[d].verdict]
      BY <1>5, <1>12, <2>2 DEF ScopeInv, LogFits, Logged
    <3>. QED
      BY <1>5, <1>10, <2>2, <3>1
  <2>. QED
    BY <2>1, <2>2
<1>13. LogFits'
  BY <1>3, <1>5, <1>11, <1>12 DEF LogFits, Logged
<1>14. GrantsFit'
  BY <1>1, <1>2, <1>3, <1>4, GrantsStay DEF Late, Spends
<1>. QED
  BY <1>5, <1>8, <1>9, <1>13, <1>14 DEF ScopeInv

-----------------------------------------------------------------------------
(* What may happen at any time.                                            *)

LEMMA CrashKeeps ==
    ASSUME ScopeInv, NEW c \in Call, Crash(c)
    PROVE  ScopeInv' /\ PruneErasesNothing
<1>1. /\ RowFits(call[c]) /\ UNCHANGED <<profile, lapsed, log>> /\ Go(c, "dead")
      /\ rowLock' = IF rowLock = c THEN None ELSE rowLock
      /\ chainLock' = IF chainLock = c THEN None ELSE chainLock
      /\ saves' = {s \in saves : s.by # c}
      /\ grant' = [k \in Call |-> IF grant[k].lock = c THEN [grant[k] EXCEPT !.lock = None] ELSE grant[k]]
  BY DEF ScopeInv, RowsFit, Crash
<1>2. PICK r : /\ Moves(c, r) /\ r \in CallRow /\ IsRequest(r)
               /\ r.tool = call[c].tool /\ r.arg = call[c].arg
               /\ r.writes = call[c].writes /\ r.token = call[c].token
               /\ r.phase = "dead" /\ r.by = call[c].by /\ r.mem = call[c].mem
               /\ r.pin = call[c].pin /\ r.dialed = call[c].dialed
  BY <1>1, GoMoves DEF Phases
<1>3. RowFits(r)
  BY <1>1, <1>2 DEF RowFits
<1>4. /\ call' \in [Call -> CallRow] /\ RowsFit'
      /\ call'[c] = r /\ \A d \in Call \ {c} : call'[d] = call[d]
  BY <1>2, <1>3, RowMoves
<1>5. grant' \in [Call -> [target : Host \union {None}, over : BOOLEAN, used : BOOLEAN,
                           lock : Call \union {None}]]
  BY <1>1, GrantTyped
<1>6. \A k \in Call : grant'[k].target = grant[k].target /\ grant'[k].used = grant[k].used
  BY <1>1, GrantTyped
<1>7. SavesFit(saves')
  BY <1>1, SavesStay DEF SavesFit
<1>8. ScopeTypeOK'
  BY <1>1, <1>4, <1>5, <1>7 DEF ScopeInv, ScopeTypeOK, SavesFit
<1>9. CopiesFit' /\ PruneErasesNothing
  BY <1>1, <1>2, <1>3, <1>7, CopiesStay
<1>10. LogFits'
  BY <1>1, <1>2, <1>3, LogStays
<1>11. Spends(r) => Spends(call[c])
  BY <1>2 DEF Spends
<1>12. GrantsFit'
  BY <1>2, <1>3, <1>6, <1>11, GrantsStay DEF Late
<1>. QED
  BY <1>4, <1>8, <1>9, <1>10, <1>12 DEF ScopeInv

LEMMA LapseKeeps ==
    ASSUME ScopeInv, Lapse, UNCHANGED <<profile, rowLock, saves, log, chainLock, call>>
    PROVE  ScopeInv' /\ PruneErasesNothing
<1>1. lapsed' \subseteq Temporary
  BY DEF Lapse, Live, ScopeInv, ScopeTypeOK
<1>2. /\ grant' \in [Call -> [target : Host \union {None}, over : BOOLEAN, used : BOOLEAN,
                              lock : Call \union {None}]]
      /\ \A k \in Call : grant'[k].target = grant[k].target /\ grant'[k].used = grant[k].used
  <2>1. CASE UNCHANGED grant
    BY <2>1, GrantTyped
  <2>2. ASSUME NEW k \in Call, grant' = [grant EXCEPT ![k].over = TRUE]
        PROVE  /\ grant' \in [Call -> [target : Host \union {None}, over : BOOLEAN, used : BOOLEAN,
                                       lock : Call \union {None}]]
               /\ \A d \in Call : grant'[d].target = grant[d].target /\ grant'[d].used = grant[d].used
    BY <2>2, GrantTyped
  <2>. QED
    BY <2>1, <2>2 DEF Lapse
<1>3. \A k \in Call : call[k].phase = "consume" \/ Spends(call[k]) => call[k].token \in Call
  BY DEF ScopeInv, RowsFit, RowFits, GrantsFit
<1>4. GrantsFit'
  BY <1>2, <1>3 DEF ScopeInv, GrantsFit, Spends
<1>5. ScopeTypeOK'
  BY <1>1, <1>2 DEF ScopeInv, ScopeTypeOK
<1>. QED
  BY <1>4, <1>5 DEF ScopeInv, RowsFit, CopiesFit, SavesFit, CopyFits, LogFits, Logged, PruneErasesNothing

LEMMA ScopeStep ==
    ASSUME ScopeInv, [ScopeNext]_scopeVars
    PROVE  ScopeInv' /\ PruneErasesNothing
<1>1. ASSUME NEW c \in Call, Step(c) PROVE ScopeInv' /\ PruneErasesNothing
  BY <1>1, LockRowKeeps, ApplyKeeps, LoadKeeps, CheckKeeps, LookupKeeps, MintKeeps, PresentKeeps,
     AuthorizeKeeps, LockGrantKeeps, ConsumeKeeps, DialKeeps, LockChainKeeps, AppendKeeps DEF Step
<1>2. CASE UNCHANGED scopeVars
  BY <1>2 DEF scopeVars, ScopeInv, ScopeTypeOK, RowsFit, CopiesFit, SavesFit, CopyFits, LogFits, Logged,
              GrantsFit, PruneErasesNothing
<1>. QED
  BY <1>1, <1>2, CrashKeeps, LandKeeps, LapseKeeps DEF ScopeNext

\* The types of the profile, the calls, the saves, the grants and the log.
THEOREM ScopeTypeCorrect == ScopeSpec => []ScopeTypeOK
<1>1. ScopeInv /\ [ScopeNext]_scopeVars => ScopeInv'
  BY ScopeStep
<1>2. ScopeInv => ScopeTypeOK
  BY DEF ScopeInv
<1>. QED
  BY ScopeInvInit, <1>1, <1>2, PTL DEF ScopeSpec

\* grants.ts, scope.ts and audit.ts: what a tool call may reach, of every step.
THEOREM ScopeHolds == ScopeSpec => ScopeIsKept
<1>1. ScopeInv /\ [ScopeNext]_scopeVars =>
        ScopeInv' /\ [/\ (ScopeTypeOK /\ OneWritePerApproval /\ JudgedIsDialed /\ MutationIsLogged
                             /\ MatchIsAcceptable)'
                      /\ PruneErasesNothing]_scopeVars
  <2>1. SUFFICES ASSUME ScopeInv, [ScopeNext]_scopeVars
                 PROVE  ScopeInv' /\ PruneErasesNothing
                        /\ (ScopeTypeOK /\ OneWritePerApproval /\ JudgedIsDialed /\ MutationIsLogged
                              /\ MatchIsAcceptable)'
    OBVIOUS
  <2>2. ScopeInv' /\ PruneErasesNothing
    BY <2>1, ScopeStep
  <2>3. (ScopeInv => ScopeTypeOK /\ OneWritePerApproval /\ JudgedIsDialed /\ MutationIsLogged
                       /\ MatchIsAcceptable)'
    BY InvSays, PTL
  <2>. QED
    BY <2>2, <2>3
<1>. QED
  BY ScopeInvInit, <1>1, PTL DEF ScopeSpec, ScopeIsKept

(***************************************************************************)
(* MCReviewDesk, for any bounds, kinds of draft, ends and neighbours.      *)
(***************************************************************************)
\* The columns of the report's rows.
CaseStates == {"TRIAGING", "REPRODUCING", "ANALYSIS_ONLY", "AWAITING_APPROVAL", "DELIVERING"}
              \union Terminal
DraftRow == [kind : AllKinds, call : BOOLEAN]
HandoffRow == [state : {"NONE", "PENDING", "SUBMITTED", "FAILED"},
               attempts : 0 .. SubmitAttempts, told : BOOLEAN]
DeliveryRow == [state : {"NONE", "PENDING", "SENT", "FAILED"}, attempts : 0 .. SendAttempts,
                held : BOOLEAN, stamped : BOOLEAN, receipt : BOOLEAN]
RunStates == {"NONE", "PENDING", "RUNNING", "AWAITING_APPROVAL"} \union AllEnds
TurnStates == {"NONE", "RUNNING", "AWAITING_APPROVAL_HARNESS"} \union AllEnds
CaseRow == [state : CaseStates, drafts : Seq(DraftRow), pending : Nat, superseded : SUBSET Nat,
            decision : [Revision -> {"NONE", "APPROVED", "DENIED"}], run : RunStates,
            turn : TurnStates, handoff : HandoffRow, delivery : DeliveryRow, mail : BOOLEAN,
            rechecks : Nat]
RowsTyped == case \in CaseRow /\ Newest <= MaxRevisions

\* Whatever is pending is the newest draft, and a re-check took no decided one.
PendingIsNewest == case.pending # 0 => case.pending = Newest /\ Newest \notin case.superseded
SupersededIsOpen == \A r \in case.superseded : r \in 1 .. Newest /\ r \notin DecidedOn
DecidedIsNewest == \A r \in DecidedOn : r = Newest /\ case.state \notin {"TRIAGING", "REPRODUCING"}
DeniedIsOver == \A r \in Revision : case.decision[r] = "DENIED" => case.state = "DENIED"

\* What a state of the report says of its rows.
TriageIsFirst == case.state = "TRIAGING" => case.drafts = <<>> /\ case.run = "NONE"
RecheckIsOpen == case.state = "REPRODUCING" => /\ Newest \in case.superseded
                                               /\ case.run \in {"PENDING", "RUNNING", "ERROR"}
RunsAreOpen == case.run \in {"PENDING", "RUNNING"} => case.state \in {"REPRODUCING"} \union Terminal
AwaitingIsPending == case.state = "AWAITING_APPROVAL" => case.pending # 0
AnalysisIsPending == case.state = "ANALYSIS_ONLY" /\ case.pending # 0 =>
                        Draft(case.pending).kind = "ANALYSIS_ONLY"

\* A hand-over follows a decision, a send an approval that is no longer pending.
HandoffFits == /\ case.handoff.state = "NONE" <=> case.handoff = NoHandoff
               /\ case.handoff # NoHandoff => Newest \in DecidedOn
               /\ case.handoff.state = "SUBMITTED" => case.handoff.told
               /\ case.handoff.state = "PENDING" => case.handoff.attempts < SubmitAttempts
DeliveryFits == /\ case.delivery.state = "NONE" <=> case.delivery = NoDelivery
                /\ case.delivery # NoDelivery => /\ Newest \in Revision /\ case.pending = 0
                                                 /\ case.decision[Newest] = "APPROVED"
                /\ case.state \in {"DELIVERING", "DELIVERED"} => case.delivery # NoDelivery
                /\ case.delivery.state = "PENDING" =>
                     /\ ~case.delivery.held /\ ~case.delivery.stamped
                     /\ case.delivery.attempts < SendAttempts
                /\ case.delivery.state = "SENT" /\ case.state = "DELIVERING" => case.mail

RowsInv == /\ RowsTyped
           /\ PendingIsNewest /\ SupersededIsOpen /\ DecidedIsNewest /\ DeniedIsOver
           /\ TriageIsFirst /\ RecheckIsOpen /\ RunsAreOpen
           /\ AwaitingIsPending /\ AnalysisIsPending
           /\ HandoffFits /\ DeliveryFits

\* The phone compares what it tapped on and posts that; both screens send
\* only what can be chosen on them.
PhoneFits == /\ phone = [view |-> phone.view, at |-> phone.at, tapped |-> phone.tapped,
                         posts |-> phone.posts, outcome |-> phone.outcome]
             /\ phone.at = "posting" => phone.posts = phone.tapped
             /\ phone.at \in {"idle", "prompt", "posting", "changed"}
             /\ phone.at \in {"prompt", "posting"} => phone.outcome \in {"APPROVED", "DENIED"}
DialogFits(d) == /\ {"at", "chose", "sent", "outcome", "result"} \subseteq DOMAIN d
                 /\ d.at \in {"closed", "open", "confirming", "sending"}
                 /\ d.at \in {"confirming", "sending"} =>
                      d.outcome \in {"APPROVED", "DENIED", "RECHECK"}
TabFits == {"view", "fetch", "dialog"} \subseteq DOMAIN tab /\ DialogFits(tab.dialog)

\* What the page's other rows are.
DeskRow == [channel : Channels, gate : BOOLEAN, material : BOOLEAN,
            build : {"NONE", "PENDING", "BUILT", "FAILED"},
            closed : {"NONE", "spam", "rejected", "duplicate"}, reply : {"NONE", "SENT", "UNSENT"},
            target : {"none", "unowned", "owned"}, grant : BOOLEAN, posted : Nat,
            advisory : {"NONE", "PENDING", "SENT", "FAILED"},
            appeal : {"NONE", "OPEN", "ACKNOWLEDGED", "CLOSED"}]
\* A report at the gate has no rows yet, one closed there is denied, and what
\* was posted is the newest verdict.
DeskFits == /\ desk \in DeskRow
            /\ desk.gate => case.state = "TRIAGING"
            /\ desk.closed # "NONE" => case.state = "DENIED" /\ ~desk.gate
            /\ IF case.delivery = NoDelivery THEN desk.posted = 0 ELSE desk.posted = Newest

\* The places of the reports that are there are apart, and each of them is in
\* a state some column has.
FiledStates == {"TRIAGING", "NEEDS_DECISION", "DENIED"}
PlacesApart(place) == \A q, r \in Reports : place[q] = place[r] /\ place[q] # 0 => q = r
BoardRow == [gate : BOOLEAN, state : [Neighbours -> FiledStates \union {"NONE"}],
             place : [Reports -> Nat], hidden : BOOLEAN, dead : BOOLEAN]
BoardFits == /\ board \in BoardRow /\ PlacesApart(board.place)
             /\ board.gate => case.state = "TRIAGING"
             /\ \A o \in Neighbours : board.place[o] = 0 <=> board.state[o] = "NONE"

\* A snapshot in which every report that is there is in a column.
Snapshot(moment) ==
    /\ moment.place \in [Reports -> Nat] /\ PlacesApart(moment.place)
    /\ \A r \in VisibleIn(moment) : moment.row[r].state \in CaseStates \union {"NEEDS_DECISION"}
ReaderFits == /\ {"at", "commits", "answer"} \subseteq DOMAIN reader
              /\ reader.at = "between" =>
                   /\ {"kind", "snap", "first"} \subseteq DOMAIN reader
                   /\ reader.kind \in {"board", "inbox"} /\ Snapshot(reader.snap)
                   /\ reader.first = IF reader.kind = "board" THEN Totals(reader.snap)
                                                              ELSE NeedsYou(reader.snap)
              /\ reader.at \in {"idle", "between"}
              /\ BoardIsOneMoment /\ InboxIsOneMoment

-----------------------------------------------------------------------------
(* The rows of the report.                                                 *)

USE CaseFileAssumption

\* What an initial case file is: nothing drafted, nothing under way.
LEMMA RowsStart ==
    ASSUME NEW mail \in BOOLEAN, NEW n \in Nat, CaseInit(mail, n)
    PROVE  RowsInv
  <1>1. NoHandoff \in HandoffRow /\ NoDelivery \in DeliveryRow
    BY DEF NoHandoff, NoDelivery, HandoffRow, DeliveryRow
  <1>2. <<>> \in Seq(DraftRow) /\ Len(<<>>) = 0
    OBVIOUS
  <1>3. case \in CaseRow
    BY <1>1, <1>2 DEF CaseInit, CaseRow, CaseStates, RunStates, TurnStates
  <1>4. Newest = 0
    BY <1>2 DEF CaseInit, Newest
  <1> QED
    BY <1>2, <1>3, <1>4
       DEF CaseInit, RowsInv, RowsTyped, PendingIsNewest, SupersededIsOpen, DecidedIsNewest,
           DeniedIsOver, TriageIsFirst, RecheckIsOpen, RunsAreOpen, AwaitingIsPending,
           AnalysisIsPending, HandoffFits, DeliveryFits, DecidedOn, NoHandoff, NoDelivery,
           Revision, Terminal

\* A step that leaves the drafts, what is pending, what was superseded and what
\* was decided alone keeps what relates them.
SameVerdicts == /\ case'.drafts = case.drafts /\ case'.pending = case.pending
                /\ case'.superseded = case.superseded /\ case'.decision = case.decision

LEMMA RowDrafted ==
    ASSUME NEW c \in CaseRow, NEW drafts \in Seq(DraftRow), NEW pending \in Nat,
           NEW state \in CaseStates, NEW run \in RunStates, NEW turn \in TurnStates
    PROVE  [c EXCEPT !.drafts = drafts, !.pending = pending, !.state = state,
                     !.run = run, !.turn = turn] \in CaseRow
  BY DEF CaseRow

LEMMA ParkFits ==
    ASSUME RowsInv, NEW kind \in AllKinds, ParkVerdict(kind)
    PROVE  RowsInv'
  <1> DEFINE draft == [kind |-> kind, call |-> TRUE]
  <1> USE DEF RowsInv, RowsTyped
  <1>1. draft \in DraftRow
    BY DEF DraftRow
  <1>2. /\ case'.drafts = Append(case.drafts, draft) /\ case'.pending = Newest + 1
        /\ case'.state = IF kind = "ANALYSIS_ONLY" THEN "ANALYSIS_ONLY" ELSE "AWAITING_APPROVAL"
        /\ case'.run = IF case.run = "NONE" THEN "NONE" ELSE "AWAITING_APPROVAL"
        /\ case'.superseded = case.superseded /\ case'.decision = case.decision
        /\ case'.handoff = case.handoff /\ case'.delivery = case.delivery
    BY DEF ParkVerdict, CaseRow
  <1>3. Newest \in Nat /\ Newest' = Newest + 1 /\ Newest' <= MaxRevisions
    BY <1>1, <1>2 DEF ParkVerdict, CaseRow, Newest
  <1>4. Draft(case.pending)'.kind = kind
    BY <1>1, <1>2, <1>3 DEF CaseRow, Newest, Draft, draft
  <1>5. case' \in CaseRow
    <2>1. Append(case.drafts, draft) \in Seq(DraftRow)
      BY <1>1 DEF CaseRow
    <2> DEFINE state == IF kind = "ANALYSIS_ONLY" THEN "ANALYSIS_ONLY" ELSE "AWAITING_APPROVAL"
               run == IF case.run = "NONE" THEN "NONE" ELSE "AWAITING_APPROVAL"
               drafts == Append(case.drafts, draft)
    <2>2. case' = [case EXCEPT !.drafts = drafts, !.pending = Newest + 1, !.state = state,
                               !.run = run, !.turn = "AWAITING_APPROVAL_HARNESS"]
      BY DEF ParkVerdict, CaseRow
    <2>3. state \in CaseStates /\ run \in RunStates /\ drafts \in Seq(DraftRow)
          /\ "AWAITING_APPROVAL_HARNESS" \in TurnStates
      BY <2>1 DEF CaseStates, RunStates, TurnStates
    <2> HIDE DEF state, run, drafts
    <2>4. case \in CaseRow /\ Newest + 1 \in Nat
      BY <1>3
    <2> HIDE DEF RowsInv, RowsTyped
    <2> QED
      BY <2>2, <2>3, <2>4, RowDrafted
  <1>6. case.state \in {"TRIAGING", "REPRODUCING"} /\ DecidedOn = {}
    BY DEF ParkVerdict, Working, DecidedIsNewest
  <1>7. case.handoff = NoHandoff /\ case.delivery = NoDelivery
    BY <1>6 DEF HandoffFits, DeliveryFits, DecidedOn
  <1>8. DecidedOn' = {}
    BY <1>2, <1>6 DEF DecidedOn
  <1>9. PendingIsNewest' /\ SupersededIsOpen' /\ DecidedIsNewest' /\ DeniedIsOver'
    BY <1>2, <1>3, <1>5, <1>6, <1>8
       DEF PendingIsNewest, SupersededIsOpen, DecidedIsNewest, DeniedIsOver, DecidedOn, Revision, CaseRow
  <1>10. TriageIsFirst' /\ RecheckIsOpen' /\ RunsAreOpen' /\ AwaitingIsPending' /\ AnalysisIsPending'
    BY <1>2, <1>3, <1>4 DEF TriageIsFirst, RecheckIsOpen, RunsAreOpen, AwaitingIsPending, AnalysisIsPending
  <1>11. HandoffFits' /\ DeliveryFits'
    BY <1>2, <1>7 DEF HandoffFits, DeliveryFits, NoHandoff, NoDelivery
  <1> QED
    BY <1>3, <1>5, <1>9, <1>10, <1>11

LEMMA EndFits ==
    ASSUME RowsInv, NEW how \in AllEnds, EndWithoutVerdict(how)
    PROVE  RowsInv'
  <1> DEFINE run == IF case.run = "NONE" THEN "NONE" ELSE how
             first == case.drafts = <<>>
             drafts == IF first THEN <<[kind |-> "ANALYSIS_ONLY", call |-> FALSE]>> ELSE case.drafts
             pending == IF first THEN 1 ELSE 0
             over == [case EXCEPT !.turn = how, !.run = run]
  <1> USE DEF RowsInv, RowsTyped
  <1>1. /\ run \in RunStates \ {"PENDING", "RUNNING"} /\ how \in TurnStates
        /\ drafts \in Seq(DraftRow) /\ pending \in Nat
    <2>1. [kind |-> "ANALYSIS_ONLY", call |-> FALSE] \in DraftRow
      BY DEF DraftRow, AllKinds
    <2>2. run \in RunStates \ {"PENDING", "RUNNING"} /\ how \in TurnStates
      BY DEF EndWithoutVerdict, Working, TriageIsFirst, RunStates, TurnStates, AllEnds
    <2> QED
      BY <2>1, <2>2 DEF CaseRow
  <1>2. /\ case.state \in {"TRIAGING", "REPRODUCING"} /\ DecidedOn = {}
        /\ case.handoff = NoHandoff /\ case.delivery = NoDelivery
    <2>1. case.state \in {"TRIAGING", "REPRODUCING"} /\ DecidedOn = {}
      BY DEF EndWithoutVerdict, Working, DecidedIsNewest
    <2> QED
      BY <2>1 DEF HandoffFits, DeliveryFits, DecidedOn
  <1>3. Newest \in Nat /\ (Newest = 0 <=> case.drafts = <<>>)
    BY DEF CaseRow, Newest
  <1>4. case.pending = 0
    BY <1>2, <1>3 DEF PendingIsNewest, TriageIsFirst, RecheckIsOpen, CaseRow
  <1>5. case.superseded # {} => ~first
    BY <1>3 DEF SupersededIsOpen
  <1>6. CASE case' = [over EXCEPT !.drafts = drafts, !.pending = pending,
                                  !.state = "ANALYSIS_ONLY"]
    <2>1. /\ case'.drafts = drafts /\ case'.pending = pending /\ case'.state = "ANALYSIS_ONLY"
          /\ case'.run = run /\ case'.superseded = case.superseded
          /\ case'.decision = case.decision
          /\ case'.handoff = case.handoff /\ case'.delivery = case.delivery
      BY <1>6 DEF CaseRow
    <2>2. case' \in CaseRow
      <3>1. over \in CaseRow
        BY <1>1 DEF CaseRow
      <3>2. "ANALYSIS_ONLY" \in CaseStates
        BY DEF CaseStates
      <3> HIDE DEF over, drafts, pending
      <3> QED
        BY <1>1, <1>6, <3>1, <3>2 DEF CaseRow
    <2>3. /\ Newest' = IF first THEN 1 ELSE Newest
          /\ Newest' \in Nat /\ Newest' <= MaxRevisions
          /\ first => Draft(case.pending)'.kind = "ANALYSIS_ONLY"
      BY <1>3, <2>1 DEF Newest, Draft
    <2>4. DecidedOn' = {}
      BY <1>2, <2>1 DEF DecidedOn
    <2>5. PendingIsNewest' /\ SupersededIsOpen' /\ DecidedIsNewest' /\ DeniedIsOver'
      BY <1>2, <1>5, <2>1, <2>3, <2>4
         DEF PendingIsNewest, SupersededIsOpen, DecidedIsNewest, DeniedIsOver, DecidedOn, Revision
    <2>6. /\ TriageIsFirst' /\ RecheckIsOpen' /\ RunsAreOpen'
          /\ AwaitingIsPending' /\ AnalysisIsPending'
      BY <1>1, <2>1, <2>3
         DEF TriageIsFirst, RecheckIsOpen, RunsAreOpen, AwaitingIsPending, AnalysisIsPending
    <2>7. HandoffFits' /\ DeliveryFits'
      BY <1>2, <2>1 DEF HandoffFits, DeliveryFits, NoHandoff, NoDelivery
    <2> QED
      BY <2>2, <2>3, <2>5, <2>6, <2>7
  <1>7. CASE /\ case.state = "TRIAGING" /\ first
             /\ case' = [case EXCEPT !.turn = how, !.run = run, !.state = "OUT_OF_SCOPE"]
    <2>1. /\ case'.drafts = case.drafts /\ case'.pending = case.pending
          /\ case'.state = "OUT_OF_SCOPE"
          /\ case'.run = run /\ case'.superseded = case.superseded
          /\ case'.decision = case.decision
          /\ case'.handoff = case.handoff /\ case'.delivery = case.delivery
      BY <1>7 DEF CaseRow
    <2>2. case' \in CaseRow
      BY <1>1, <1>7 DEF CaseRow, CaseStates, Terminal
    <2>3. Newest' = Newest /\ DecidedOn' = {}
      BY <1>2, <2>1 DEF Newest, DecidedOn
    <2>4. PendingIsNewest' /\ SupersededIsOpen' /\ DecidedIsNewest' /\ DeniedIsOver'
      BY <1>2, <2>1, <2>3
         DEF PendingIsNewest, SupersededIsOpen, DecidedIsNewest, DeniedIsOver, DecidedOn
    <2>5. /\ TriageIsFirst' /\ RecheckIsOpen' /\ RunsAreOpen'
          /\ AwaitingIsPending' /\ AnalysisIsPending'
      BY <1>1, <2>1
         DEF TriageIsFirst, RecheckIsOpen, RunsAreOpen, AwaitingIsPending, AnalysisIsPending
    <2>6. HandoffFits' /\ DeliveryFits'
      BY <1>2, <2>1 DEF HandoffFits, DeliveryFits, NoHandoff, NoDelivery
    <2> QED
      BY <1>3, <2>2, <2>3, <2>4, <2>5, <2>6
  <1> QED
    <2>1. over = [case EXCEPT !.turn = how, !.run = IF @ = "NONE" THEN @ ELSE how]
      BY DEF CaseRow
    <2>2. over.drafts = case.drafts
      BY DEF CaseRow
    <2>3. [over EXCEPT !.state = "OUT_OF_SCOPE"] =
             [case EXCEPT !.turn = how, !.run = run, !.state = "OUT_OF_SCOPE"]
      OBVIOUS
    <2>4. [over EXCEPT !.drafts = IF @ = <<>> THEN <<[kind |-> "ANALYSIS_ONLY", call |-> FALSE]>>
                                              ELSE @,
                       !.pending = pending, !.state = "ANALYSIS_ONLY"] =
             [over EXCEPT !.drafts = drafts, !.pending = pending, !.state = "ANALYSIS_ONLY"]
      BY <2>2
    <2> HIDE DEF over
    <2> QED
      BY <1>6, <1>7, <2>1, <2>3, <2>4 DEF EndWithoutVerdict

LEMMA VerdictsKept ==
    ASSUME RowsInv, SameVerdicts,
           \/ case'.state = case.state
           \/ case'.state \in Terminal
           \/ case.state = "REPRODUCING" /\ case'.state = "ANALYSIS_ONLY",
           case.state = "DENIED" => case'.state = "DENIED"
    PROVE  /\ Newest' = Newest /\ DecidedOn' = DecidedOn
           /\ PendingIsNewest' /\ SupersededIsOpen' /\ DecidedIsNewest' /\ DeniedIsOver'
           /\ AwaitingIsPending' /\ AnalysisIsPending'
  <1>1. /\ Newest' = Newest /\ DecidedOn' = DecidedOn
        /\ \A r : Draft(r)' = case.drafts[r]
    BY DEF SameVerdicts, Newest, DecidedOn, Draft
  <1>2. case.state = "REPRODUCING" => case.pending = 0
    BY DEF RowsInv, RecheckIsOpen, PendingIsNewest
  <1>3. PendingIsNewest' /\ SupersededIsOpen' /\ DecidedIsNewest' /\ DeniedIsOver'
    BY <1>1 DEF RowsInv, SameVerdicts, PendingIsNewest, SupersededIsOpen, DecidedIsNewest,
                DeniedIsOver, Terminal
  <1>4. AwaitingIsPending' /\ AnalysisIsPending'
    BY <1>1, <1>2 DEF RowsInv, SameVerdicts, AwaitingIsPending, AnalysisIsPending, Terminal, Draft
  <1> QED
    BY <1>1, <1>3, <1>4

\* The harness forgets a session, a job dies.
LEMMA TurnFits ==
    ASSUME RowsInv, NEW turn \in TurnStates, case' = [case EXCEPT !.turn = turn]
    PROVE  RowsInv'
  <1>1. case \in CaseRow
    BY DEF RowsInv, RowsTyped
  <1>2. /\ SameVerdicts /\ case'.state = case.state /\ case'.run = case.run
        /\ case'.handoff = case.handoff /\ case'.delivery = case.delivery
        /\ case'.mail = case.mail
    BY <1>1 DEF CaseRow, SameVerdicts
  <1>3. case' \in CaseRow
    BY <1>1 DEF CaseRow
  <1> QED
    BY <1>2, <1>3, VerdictsKept
       DEF RowsInv, RowsTyped, SameVerdicts, TriageIsFirst, RecheckIsOpen, RunsAreOpen,
           HandoffFits, DeliveryFits

\* A report that is not over ends.
LEMMA EndedFits ==
    ASSUME RowsInv, NEW state \in {"DENIED", "CANCELLED"}, case.state \notin Terminal,
           case' = [case EXCEPT !.state = state]
    PROVE  RowsInv'
  <1>1. case \in CaseRow
    BY DEF RowsInv, RowsTyped
  <1>2. /\ SameVerdicts /\ case'.state = state /\ case'.run = case.run
        /\ case'.handoff = case.handoff /\ case'.delivery = case.delivery
        /\ case'.mail = case.mail
    BY <1>1 DEF CaseRow, SameVerdicts
  <1>3. case' \in CaseRow
    BY <1>1 DEF CaseRow, CaseStates, Terminal
  <1>4. state \in Terminal \ {"DELIVERED"} /\ case.state # "DENIED"
    BY DEF Terminal
  <1>5. state \notin {"TRIAGING", "REPRODUCING", "DELIVERING", "DELIVERED"}
    OBVIOUS
  <1>6. TriageIsFirst' /\ RecheckIsOpen' /\ RunsAreOpen' /\ HandoffFits' /\ DeliveryFits'
    BY <1>2, <1>4, <1>5, VerdictsKept
       DEF RowsInv, SameVerdicts, TriageIsFirst, RecheckIsOpen, RunsAreOpen, HandoffFits, DeliveryFits
  <1> QED
    BY <1>2, <1>3, <1>4, <1>6, VerdictsKept DEF RowsInv, RowsTyped, SameVerdicts

\* The claims of a re-check, its failure, its retry and its end.
LEMMA RunFits ==
    ASSUME RowsInv, RunMoves \/ RetryRecheck \/ CancelRecheck
    PROVE  RowsInv'
  <1>1. case \in CaseRow
    BY DEF RowsInv, RowsTyped
  <1>2. PICK run \in RunStates \ {"NONE"} : case'.run = run
    BY <1>1 DEF RunMoves, RetryRecheck, CancelRecheck, CaseRow, RunStates, AllEnds
  <1>3. /\ SameVerdicts /\ case'.handoff = case.handoff /\ case'.delivery = case.delivery
        /\ case'.mail = case.mail
    BY <1>1 DEF RunMoves, RetryRecheck, CancelRecheck, CaseRow, SameVerdicts
  <1>4. case' \in CaseRow
    <2>1. {"PENDING", "RUNNING", "ERROR", "CANCELLED"} \subseteq RunStates
          /\ "ANALYSIS_ONLY" \in CaseStates
      BY DEF RunStates, AllEnds, CaseStates
    <2>2. CASE RunMoves
      BY <1>1, <2>1, <2>2 DEF RunMoves, CaseRow
    <2>3. CASE RetryRecheck
      <3>1. case.rechecks - 1 \in Nat
        BY <1>1, <2>3 DEF RetryRecheck, CaseRow
      <3> QED
        BY <1>1, <2>1, <2>3, <3>1 DEF RetryRecheck, CaseRow
    <2>4. CASE CancelRecheck
      BY <1>1, <2>1, <2>4 DEF CancelRecheck, CaseRow
    <2> QED
      BY <2>2, <2>3, <2>4
  <1>5. \/ /\ case'.state = case.state /\ case.state \in Terminal \union {"REPRODUCING"}
           /\ case'.run \in {"PENDING", "RUNNING", "ERROR"}
        \/ /\ case.state = "REPRODUCING" /\ case'.state = "ANALYSIS_ONLY"
           /\ case'.run = "CANCELLED"
    BY <1>1 DEF RunMoves, RetryRecheck, CancelRecheck, MayRetryRecheck, MayCancelRecheck,
                CaseRow, RowsInv, RunsAreOpen
  <1>6. /\ TriageIsFirst' /\ RecheckIsOpen' /\ RunsAreOpen' /\ HandoffFits' /\ DeliveryFits'
    BY <1>3, <1>5, VerdictsKept
       DEF RowsInv, SameVerdicts, TriageIsFirst, RecheckIsOpen, RunsAreOpen, HandoffFits,
           DeliveryFits, Terminal
  <1> QED
    BY <1>3, <1>4, <1>5, <1>6, VerdictsKept DEF RowsInv, RowsTyped, SameVerdicts

\* One attempt of the submission worker.
LEMMA SubmitFits ==
    ASSUME RowsInv, Submit
    PROVE  RowsInv'
  <1>1. case \in CaseRow
    BY DEF RowsInv, RowsTyped
  <1> DEFINE Attempt(handoff) ==
               /\ case' = [case EXCEPT !.handoff = handoff] /\ handoff.state # "NONE"
               /\ handoff.state = "SUBMITTED" => handoff.told
               /\ handoff.state = "PENDING" => handoff.attempts < SubmitAttempts
  <1>2. PICK handoff \in HandoffRow : Attempt(handoff)
    <2>1. case.handoff \in HandoffRow /\ Submittable
      BY <1>1 DEF Submit, CaseRow
    <2> DEFINE n == case.handoff.attempts + 1
               failed == IF n >= SubmitAttempts THEN "FAILED" ELSE "PENDING"
    <2>2. n \in 0 .. SubmitAttempts
      BY <2>1 DEF Submittable, HandoffRow
    <2>3. CASE case' = [case EXCEPT !.handoff =
                          [state |-> "SUBMITTED", attempts |-> n, told |-> TRUE]]
      <3> DEFINE handoff == [state |-> "SUBMITTED", attempts |-> n, told |-> TRUE]
      <3>1. handoff \in HandoffRow /\ handoff.state = "SUBMITTED" /\ handoff.told
        BY <2>2 DEF HandoffRow
      <3>2. case' = [case EXCEPT !.handoff = handoff]
        BY <2>3
      <3> HIDE DEF handoff
      <3> QED
        BY <3>1, <3>2
    <2>4. ASSUME NEW told \in {case.handoff.told, TRUE},
                 case' = [case EXCEPT !.handoff = [state |-> failed, attempts |-> n, told |-> told]]
          PROVE  \E handoff \in HandoffRow : Attempt(handoff)
      <3> DEFINE handoff == [state |-> failed, attempts |-> n, told |-> told]
      <3>1. failed \in {"FAILED", "PENDING"} /\ (failed = "PENDING" => n < SubmitAttempts)
        BY <2>2
      <3>2. handoff \in HandoffRow /\ handoff.state = failed /\ handoff.attempts = n
        BY <2>1, <2>2, <2>4, <3>1 DEF HandoffRow
      <3>3. case' = [case EXCEPT !.handoff = handoff]
        BY <2>4
      <3> HIDE DEF handoff, failed
      <3> QED
        BY <3>1, <3>2, <3>3
    <2>5. CASE case' = [case EXCEPT !.handoff = [@ EXCEPT !.state = "FAILED", !.attempts = n]]
      <3> DEFINE handoff == [case.handoff EXCEPT !.state = "FAILED", !.attempts = n]
      <3>1. handoff \in HandoffRow /\ handoff.state = "FAILED"
        BY <2>1, <2>2 DEF HandoffRow
      <3>2. case' = [case EXCEPT !.handoff = handoff]
        BY <2>5
      <3> QED
        BY <3>1, <3>2
    <2> QED
      BY <2>3, <2>4, <2>5 DEF Submit
  <1>3. /\ SameVerdicts /\ case'.handoff = handoff /\ case'.delivery = case.delivery
        /\ case'.mail = case.mail /\ case'.state = case.state /\ case'.run = case.run
    BY <1>1, <1>2 DEF CaseRow, SameVerdicts
  <1>4. case' \in CaseRow
    BY <1>1, <1>2 DEF CaseRow
  <1>5. HandoffFits'
    <2>1. case.handoff # NoHandoff /\ handoff # NoHandoff
      BY <1>2 DEF Submit, Submittable, NoHandoff
    <2> QED
      BY <1>2, <1>3, <2>1, VerdictsKept DEF RowsInv, HandoffFits
  <1>6. TriageIsFirst' /\ RecheckIsOpen' /\ RunsAreOpen' /\ DeliveryFits'
    BY <1>3, VerdictsKept
       DEF RowsInv, SameVerdicts, TriageIsFirst, RecheckIsOpen, RunsAreOpen, DeliveryFits
  <1> QED
    BY <1>3, <1>4, <1>5, <1>6, VerdictsKept DEF RowsInv, RowsTyped, SameVerdicts

\* A send and a hand-over that have just been queued.
LEMMA SendQueued ==
    ASSUME NEW queued, queued = [NoDelivery EXCEPT !.state = "PENDING"]
    PROVE  /\ queued \in DeliveryRow /\ queued # NoDelivery /\ queued.state = "PENDING"
           /\ queued.attempts = 0 /\ ~queued.held /\ ~queued.stamped
           /\ NoDelivery.state = "NONE"
  <1>1. NoDelivery \in DeliveryRow
    BY DEF NoDelivery, DeliveryRow
  <1>2. queued \in DeliveryRow /\ queued.state = "PENDING"
    BY <1>1 DEF DeliveryRow
  <1>3. /\ queued.attempts = 0 /\ ~queued.held /\ ~queued.stamped
        /\ NoDelivery.state = "NONE"
    BY DEF NoDelivery
  <1> QED
    BY <1>2, <1>3

LEMMA HandoffQueued ==
    ASSUME NEW queued, queued = [NoHandoff EXCEPT !.state = "PENDING"]
    PROVE  /\ queued \in HandoffRow /\ queued # NoHandoff /\ queued.state = "PENDING"
           /\ queued.attempts = 0 /\ NoHandoff.state = "NONE"
  <1>1. NoHandoff \in HandoffRow
    BY DEF NoHandoff, HandoffRow
  <1>2. queued \in HandoffRow /\ queued.state = "PENDING"
    BY <1>1 DEF HandoffRow
  <1>3. queued.attempts = 0 /\ NoHandoff.state = "NONE"
    BY DEF NoHandoff
  <1> QED
    BY <1>2, <1>3

LEMMA RowEnqueued ==
    ASSUME NEW c \in CaseRow, NEW queued \in DeliveryRow
    PROVE  [c EXCEPT !.state = "DELIVERING", !.pending = 0, !.delivery = queued] \in CaseRow
  <1>1. "DELIVERING" \in CaseStates
    BY DEF CaseStates
  <1> QED
    BY <1>1 DEF CaseRow

\* A verdict goes to the outbox: at the decision itself or at publication.
LEMMA EnqueuedFits ==
    ASSUME RowsInv, NEW c \in CaseRow, case' = Enqueued(c),
           case.pending # 0, Reviewable(case.pending),
           c.drafts = case.drafts, c.superseded = case.superseded, c.run = case.run,
           c.handoff = case.handoff, c.decision[case.pending] = "APPROVED",
           \A r \in Revision : r # case.pending => c.decision[r] = case.decision[r]
    PROVE  RowsInv'
  <1> DEFINE queued == [NoDelivery EXCEPT !.state = "PENDING"]
  <1>1. /\ queued \in DeliveryRow /\ queued # NoDelivery /\ queued.state = "PENDING"
        /\ queued.attempts = 0 /\ ~queued.held /\ ~queued.stamped
    BY SendQueued
  <1>2. case' \in CaseRow
    <2>1. case' = [c EXCEPT !.state = "DELIVERING", !.pending = 0, !.delivery = queued]
      BY DEF Enqueued
    <2> HIDE DEF queued
    <2>2. [c EXCEPT !.state = "DELIVERING", !.pending = 0, !.delivery = queued] \in CaseRow
      BY <1>1, RowEnqueued
    <2> QED
      BY <2>1, <2>2
  <1>3. /\ case'.drafts = case.drafts /\ case'.superseded = case.superseded
        /\ case'.run = case.run /\ case'.handoff = case.handoff
        /\ case'.decision = c.decision /\ case'.pending = 0
        /\ case'.state = "DELIVERING" /\ case'.delivery = queued
    BY DEF Enqueued, CaseRow
  <1>4. /\ case.state \in {"AWAITING_APPROVAL", "ANALYSIS_ONLY"} /\ Newest' = Newest
        /\ case.pending = Newest /\ Newest \in Revision /\ Newest \notin case.superseded
    BY <1>3 DEF Reviewable, RowsInv, RowsTyped, PendingIsNewest, Newest, CaseRow, Revision
  <1>5. DecidedOn' = DecidedOn \union {Newest}
    BY <1>3, <1>4 DEF DecidedOn
  <1>6. \A r \in Revision : case'.decision[r] # "DENIED"
    BY <1>3, <1>4 DEF RowsInv, DeniedIsOver
  <1>7. PendingIsNewest' /\ SupersededIsOpen' /\ DecidedIsNewest' /\ DeniedIsOver'
    BY <1>3, <1>4, <1>5, <1>6
       DEF RowsInv, PendingIsNewest, SupersededIsOpen, DecidedIsNewest, DeniedIsOver
  <1>8. /\ TriageIsFirst' /\ RecheckIsOpen' /\ RunsAreOpen'
        /\ AwaitingIsPending' /\ AnalysisIsPending'
    BY <1>3, <1>4
       DEF RowsInv, TriageIsFirst, RecheckIsOpen, RunsAreOpen, AwaitingIsPending,
           AnalysisIsPending, Terminal
  <1>9. HandoffFits'
    BY <1>3, <1>4, <1>5 DEF RowsInv, HandoffFits
  <1>10. DeliveryFits'
    <2>1. 0 < SendAttempts
      OBVIOUS
    <2> HIDE DEF queued
    <2> QED
      BY <1>1, <1>3, <1>4, <2>1 DEF DeliveryFits
  <1> QED
    BY <1>2, <1>4, <1>7, <1>8, <1>9, <1>10 DEF RowsInv, RowsTyped

LEMMA PublishFits ==
    ASSUME RowsInv, Publish
    PROVE  RowsInv'
  BY EnqueuedFits DEF Publish, Publishable, RowsInv, RowsTyped

\* A send that is under way moves on.
LEMMA SendMoves ==
    ASSUME RowsInv, case.delivery # NoDelivery, case' \in CaseRow, SameVerdicts,
           case'.run = case.run, case'.handoff = case.handoff, case'.mail = case.mail,
           \/ case'.state = case.state
           \/ case.state = "DELIVERING" /\ case'.state = "DELIVERED",
           case'.delivery.state # "NONE",
           case'.delivery.state = "PENDING" => /\ ~case'.delivery.held /\ ~case'.delivery.stamped
                                               /\ case'.delivery.attempts < SendAttempts,
           case'.delivery.state = "SENT" /\ case'.state = "DELIVERING" => case.mail
    PROVE  RowsInv'
  <1>1. case'.state \in Terminal \/ case'.state = case.state
    BY DEF Terminal
  <1>2. case'.delivery # NoDelivery
    BY DEF NoDelivery
  <1>3. TriageIsFirst' /\ RecheckIsOpen' /\ RunsAreOpen' /\ HandoffFits'
    BY <1>1, VerdictsKept
       DEF RowsInv, SameVerdicts, TriageIsFirst, RecheckIsOpen, RunsAreOpen, HandoffFits, Terminal
  <1>4. DeliveryFits'
    BY <1>1, <1>2, VerdictsKept DEF RowsInv, SameVerdicts, DeliveryFits
  <1> QED
    BY <1>1, <1>3, <1>4, VerdictsKept DEF RowsInv, RowsTyped, SameVerdicts

LEMMA SendFits ==
    ASSUME RowsInv, Send
    PROVE  RowsInv'
  <1> DEFINE d == [case.delivery EXCEPT !.attempts = @ + 1]
             Moved(to, state) == case' = [case EXCEPT !.state = state, !.delivery = to]
  <1>1. case \in CaseRow /\ case.delivery \in DeliveryRow /\ case.state \in CaseStates
    BY DEF RowsInv, RowsTyped, CaseRow
  <1>2. /\ Sendable /\ case.delivery # NoDelivery
        /\ ~case.delivery.held /\ ~case.delivery.stamped
    BY DEF Send, Sendable, NoDelivery, RowsInv, DeliveryFits
  <1>3. /\ d \in DeliveryRow /\ d.state = "PENDING" /\ ~d.held /\ ~d.stamped
        /\ d.attempts = case.delivery.attempts + 1
    BY <1>1, <1>2 DEF Sendable, DeliveryRow
  <1>4. ASSUME NEW to \in DeliveryRow, NEW state \in CaseStates, Moved(to, state),
               \/ state = case.state
               \/ case.state = "DELIVERING" /\ state = "DELIVERED",
               to.state # "NONE",
               to.state = "PENDING" => ~to.held /\ ~to.stamped /\ to.attempts < SendAttempts,
               to.state = "SENT" /\ state = "DELIVERING" => case.mail
        PROVE  RowsInv'
    <2>1. /\ case' \in CaseRow /\ SameVerdicts /\ case'.run = case.run
          /\ case'.handoff = case.handoff /\ case'.mail = case.mail
          /\ case'.state = state /\ case'.delivery = to
      BY <1>1, <1>4 DEF CaseRow, SameVerdicts
    <2> QED
      BY <1>2, <1>4, <2>1, SendMoves
  <1>5. case = [case EXCEPT !.state = case.state]
    BY <1>1 DEF CaseRow
  <1> QED
    <2>1. CASE /\ case.state = "DELIVERING" /\ case.mail
               /\ case' = [case EXCEPT !.delivery = [d EXCEPT !.state = "SENT", !.stamped = TRUE]]
      <3> DEFINE to == [d EXCEPT !.state = "SENT", !.stamped = TRUE]
      <3>1. to \in DeliveryRow /\ to.state = "SENT"
        BY <1>3 DEF DeliveryRow
      <3>2. Moved(to, case.state)
        BY <1>5, <2>1
      <3> HIDE DEF to, Moved
      <3> QED
        BY <1>1, <1>4, <2>1, <3>1, <3>2
    <2>2. CASE /\ case.state = "DELIVERING"
               /\ case' = [case EXCEPT !.state = "DELIVERED",
                             !.delivery = [d EXCEPT !.state = "SENT", !.receipt = TRUE]]
      <3> DEFINE to == [d EXCEPT !.state = "SENT", !.receipt = TRUE]
      <3>1. to \in DeliveryRow /\ to.state = "SENT" /\ "DELIVERED" \in CaseStates
        BY <1>3 DEF DeliveryRow, CaseStates, Terminal
      <3>2. Moved(to, "DELIVERED")
        BY <2>2
      <3> HIDE DEF to, Moved
      <3> QED
        BY <1>1, <1>4, <2>2, <3>1, <3>2
    <2>3. CASE d.attempts < SendAttempts /\ case' = [case EXCEPT !.delivery = d]
      <3>1. Moved(d, case.state)
        BY <1>5, <2>3
      <3> HIDE DEF d, Moved
      <3> QED
        BY <1>1, <1>3, <1>4, <2>3, <3>1
    <2>4. ASSUME NEW to \in DeliveryRow, to.state = "FAILED",
                 case' = [case EXCEPT !.delivery = to]
          PROVE  RowsInv'
      <3>1. Moved(to, case.state)
        BY <1>5, <2>4
      <3> HIDE DEF Moved
      <3> QED
        BY <1>1, <1>4, <2>4, <3>1
    <2>5. CASE case' = [case EXCEPT !.delivery = [d EXCEPT !.state = "FAILED"]]
      <3>1. [d EXCEPT !.state = "FAILED"] \in DeliveryRow
            /\ [d EXCEPT !.state = "FAILED"].state = "FAILED"
        BY <1>3 DEF DeliveryRow
      <3> HIDE DEF d
      <3> QED
        BY <2>4, <2>5, <3>1
    <2>6. ASSUME NEW hold \in BOOLEAN,
                 case' = [case EXCEPT !.delivery = [d EXCEPT !.state = "FAILED", !.held = hold]]
          PROVE  RowsInv'
      <3>1. [d EXCEPT !.state = "FAILED", !.held = hold] \in DeliveryRow
            /\ [d EXCEPT !.state = "FAILED", !.held = hold].state = "FAILED"
        BY <1>3 DEF DeliveryRow
      <3> HIDE DEF d
      <3> QED
        BY <2>4, <2>6, <3>1
    <2> QED
      BY <2>1, <2>2, <2>3, <2>5, <2>6 DEF Send

LEMMA ReceiptFits ==
    ASSUME RowsInv, NEW what \in {"delivered", "bounced", "complained"}, Receipt(what)
    PROVE  RowsInv'
  <1>1. case \in CaseRow /\ case.delivery \in DeliveryRow /\ case.mail
    BY DEF RowsInv, RowsTyped, CaseRow, Receipt
  <1>2. case.delivery # NoDelivery /\ case.delivery.state \notin {"NONE", "PENDING"}
    BY DEF Receipt, NoDelivery, RowsInv, DeliveryFits
  <1>3. CASE case' = case
    BY <1>3
       DEF RowsInv, RowsTyped, Newest, PendingIsNewest, SupersededIsOpen, DecidedOn,
           DecidedIsNewest, DeniedIsOver, TriageIsFirst, RecheckIsOpen, RunsAreOpen,
           AwaitingIsPending, AnalysisIsPending, HandoffFits, DeliveryFits, Draft
  <1>4. CASE /\ case.state = "DELIVERING"
             /\ case' = [case EXCEPT !.delivery.receipt = TRUE, !.state = "DELIVERED"]
    <2>1. /\ case' \in CaseRow /\ SameVerdicts /\ case'.run = case.run
          /\ case'.handoff = case.handoff /\ case'.mail = case.mail
          /\ case'.state = "DELIVERED" /\ case'.delivery.state = case.delivery.state
      BY <1>1, <1>4 DEF CaseRow, DeliveryRow, CaseStates, Terminal, SameVerdicts
    <2> QED
      BY <1>2, <1>4, <2>1, SendMoves
  <1>5. CASE case' = [case EXCEPT !.delivery.state = "FAILED", !.delivery.held = TRUE]
    <2>1. /\ case' \in CaseRow /\ SameVerdicts /\ case'.run = case.run
          /\ case'.handoff = case.handoff /\ case'.mail = case.mail
          /\ case'.state = case.state /\ case'.delivery.state = "FAILED"
      BY <1>1, <1>5 DEF CaseRow, DeliveryRow, SameVerdicts
    <2> QED
      BY <1>2, <1>5, <2>1, SendMoves
  <1>6. CASE case' = [case EXCEPT !.delivery.held = TRUE]
    <2>1. /\ case' \in CaseRow /\ SameVerdicts /\ case'.run = case.run
          /\ case'.handoff = case.handoff /\ case'.mail = case.mail
          /\ case'.state = case.state /\ case'.delivery.state = case.delivery.state
      BY <1>1, <1>6 DEF CaseRow, DeliveryRow, SameVerdicts
    <2> QED
      BY <1>1, <1>2, <1>6, <2>1, SendMoves
  <1> QED
    BY <1>3, <1>4, <1>5, <1>6 DEF Receipt

\* A reviewer retries a held send, or ends a report whose send is held.
LEMMA RetryHeldFits ==
    ASSUME RowsInv, RetryHeld
    PROVE  RowsInv'
  <1> DEFINE again == [NoDelivery EXCEPT !.state = "PENDING"]
  <1>1. case \in CaseRow /\ case.rechecks - 1 \in Nat
    BY DEF RowsInv, RowsTyped, CaseRow, RetryHeld
  <1>2. /\ again \in DeliveryRow /\ again.state = "PENDING" /\ ~again.held /\ ~again.stamped
        /\ again.attempts < SendAttempts
    <2>1. 0 < SendAttempts
      OBVIOUS
    <2>2. /\ again \in DeliveryRow /\ again.state = "PENDING" /\ ~again.held
          /\ ~again.stamped /\ again.attempts = 0
      BY SendQueued
    <2> HIDE DEF again
    <2> QED
      BY <2>1, <2>2
  <1>3. case' = [case EXCEPT !.delivery = again, !.rechecks = case.rechecks - 1]
    BY DEF RetryHeld
  <1> HIDE DEF again
  <1>4. /\ case' \in CaseRow /\ SameVerdicts /\ case'.run = case.run
        /\ case'.handoff = case.handoff /\ case'.mail = case.mail
        /\ case'.state = case.state /\ case'.delivery = again
    BY <1>1, <1>2, <1>3 DEF CaseRow, SameVerdicts
  <1>5. case.delivery # NoDelivery
    BY DEF RetryHeld, MayRetryHeld, NoDelivery
  <1> QED
    BY <1>2, <1>4, <1>5, SendMoves

LEMMA RetireFits ==
    ASSUME RowsInv, Retire \/ CancelHeld
    PROVE  RowsInv'
  BY EndedFits DEF Retire, CancelHeld, MayCancelHeld, Terminal

\* What a reviewer may answer is the newest verdict, and nothing follows it yet.
LEMMA AnswerableIsOpen ==
    ASSUME RowsInv, case.pending # 0, case.decision[case.pending] = "NONE"
    PROVE  /\ case.pending = Newest /\ Newest \in Revision /\ Newest \notin case.superseded
           /\ DecidedOn = {}
           /\ case.handoff = NoHandoff /\ case.delivery = NoDelivery
  <1>1. case.pending = Newest /\ Newest \in Revision /\ Newest \notin case.superseded
    BY DEF RowsInv, RowsTyped, CaseRow, PendingIsNewest, Newest, Revision
  <1>2. DecidedOn = {}
    BY <1>1 DEF RowsInv, DecidedIsNewest, DecidedOn
  <1> QED
    BY <1>1, <1>2 DEF RowsInv, HandoffFits, DeliveryFits

LEMMA DecideFits ==
    ASSUME RowsInv, NEW r, MayDecide(r), NEW outcome \in {"APPROVED", "DENIED"},
           case' = Decided_As(r, outcome)
    PROVE  RowsInv'
  <1> DEFINE queued == [NoHandoff EXCEPT !.state = "PENDING"]
             decision == [case.decision EXCEPT ![r] = outcome]
             c == [case EXCEPT !.decision = decision]
  <1>1. case \in CaseRow
    BY DEF RowsInv, RowsTyped
  <1>2. /\ r = case.pending /\ r # 0 /\ case.decision[r] = "NONE" /\ Reviewable(r)
        /\ case.state \in {"AWAITING_APPROVAL", "ANALYSIS_ONLY"}
    BY <1>1 DEF MayDecide, Reviewable, CaseRow
  <1>3. /\ r = Newest /\ r \in Revision /\ r \notin case.superseded /\ DecidedOn = {}
        /\ case.handoff = NoHandoff /\ case.delivery = NoDelivery
    BY <1>2, AnswerableIsOpen
  <1>4. /\ queued \in HandoffRow /\ queued # NoHandoff /\ queued.state = "PENDING"
        /\ queued.attempts = 0
    BY HandoffQueued
  <1>5. /\ decision \in [Revision -> {"NONE", "APPROVED", "DENIED"}]
        /\ decision[r] = outcome
        /\ \A q \in Revision : q # r => decision[q] = case.decision[q]
    BY <1>1, <1>3 DEF CaseRow
  <1>6. c = [case EXCEPT !.decision[r] = outcome]
    OBVIOUS
  <1> HIDE DEF decision
  <1>7. /\ c \in CaseRow /\ c.drafts = case.drafts /\ c.superseded = case.superseded
        /\ c.run = case.run /\ c.handoff = case.handoff /\ c.decision = decision
        /\ c.pending = case.pending /\ c.delivery = case.delivery /\ c.state = case.state
    BY <1>1, <1>5 DEF CaseRow
  <1> HIDE DEF c, queued
  <1>8. ASSUME NEW state \in {case.state, "DENIED"}, NEW handoff \in {NoHandoff, queued},
               case' = [c EXCEPT !.state = state, !.handoff = handoff],
               outcome = "DENIED" => state = "DENIED"
        PROVE  RowsInv'
    <2>1. handoff \in HandoffRow /\ state \in CaseStates
      BY <1>1, <1>4, <1>3, <1>8 DEF CaseStates, Terminal, CaseRow
    <2>2. /\ case' \in CaseRow /\ case'.drafts = case.drafts
          /\ case'.superseded = case.superseded /\ case'.run = case.run
          /\ case'.handoff = handoff /\ case'.decision = decision
          /\ case'.pending = case.pending /\ case'.delivery = NoDelivery
          /\ case'.state = state
      BY <1>3, <1>7, <1>8, <2>1 DEF CaseRow
    <2>3. Newest' = Newest /\ DecidedOn' = {Newest} /\ \A q : Draft(q)' = Draft(q)
      BY <1>3, <1>5, <2>2 DEF Newest, DecidedOn, Draft
    <2>4. PendingIsNewest' /\ SupersededIsOpen' /\ DecidedIsNewest' /\ DeniedIsOver'
      <3>1. \A q \in Revision : q # r => decision[q] = "NONE"
        BY <1>3, <1>5 DEF DecidedOn
      <3> QED
        BY <1>2, <1>3, <1>5, <1>8, <2>2, <2>3, <3>1
           DEF RowsInv, PendingIsNewest, SupersededIsOpen, DecidedIsNewest, DeniedIsOver
    <2>5. /\ TriageIsFirst' /\ RecheckIsOpen' /\ RunsAreOpen'
          /\ AwaitingIsPending' /\ AnalysisIsPending'
      BY <1>2, <2>2, <2>3
         DEF RowsInv, TriageIsFirst, RecheckIsOpen, RunsAreOpen, AwaitingIsPending,
             AnalysisIsPending, Terminal
    <2>6. HandoffFits'
      <3>1. NoHandoff.state = "NONE"
        BY DEF NoHandoff
      <3> QED
        BY <1>4, <1>8, <2>2, <2>3, <3>1 DEF HandoffFits
    <2>7. DeliveryFits'
      BY <1>2, <2>2, <2>3 DEF DeliveryFits, NoDelivery
    <2> QED
      BY <1>3, <2>2, <2>3, <2>4, <2>5, <2>6, <2>7 DEF RowsInv, RowsTyped
  <1>9. CASE case' = Enqueued(c) /\ outcome = "APPROVED"
    BY <1>2, <1>5, <1>7, <1>9, EnqueuedFits
  <1>10. CASE case' = [c EXCEPT !.handoff = queued] /\ outcome = "APPROVED"
    <2>1. c = [c EXCEPT !.state = case.state]
      BY <1>7 DEF CaseRow
    <2> QED
      BY <1>8, <1>10, <2>1
  <1> QED
    <2>1. CASE outcome = "DENIED" /\ Draft(r).call
      <3>1. case' = [c EXCEPT !.state = "DENIED", !.handoff = queued]
        BY <1>6, <2>1 DEF Decided_As, queued
      <3> QED
        BY <1>8, <2>1, <3>1
    <2>2. CASE outcome = "DENIED" /\ ~Draft(r).call
      <3>1. case' = [c EXCEPT !.state = "DENIED", !.handoff = NoHandoff]
        BY <1>3, <1>6, <2>2 DEF Decided_As
      <3> QED
        BY <1>8, <2>2, <3>1
    <2>3. CASE outcome = "APPROVED" /\ Draft(r).call
      <3>1. case' = [c EXCEPT !.handoff = queued]
        BY <1>6, <2>3 DEF Decided_As, queued
      <3> QED
        BY <1>10, <2>3, <3>1
    <2>4. CASE outcome = "APPROVED" /\ ~Draft(r).call
      BY <1>6, <1>9, <2>4 DEF Decided_As
    <2> QED
      BY <2>1, <2>2, <2>3, <2>4

LEMMA RowRechecked ==
    ASSUME NEW c \in CaseRow, NEW superseded \in SUBSET Nat, NEW rechecks \in Nat
    PROVE  [c EXCEPT !.superseded = superseded, !.run = "PENDING", !.pending = 0,
                     !.turn = "CANCELLED", !.state = "REPRODUCING", !.rechecks = rechecks]
             \in CaseRow
  <1>1. "PENDING" \in RunStates /\ "CANCELLED" \in TurnStates /\ "REPRODUCING" \in CaseStates
    BY DEF RunStates, TurnStates, AllEnds, CaseStates
  <1> QED
    BY <1>1 DEF CaseRow

LEMMA RecheckFits ==
    ASSUME RowsInv, NEW r, MayRecheck(r), case.rechecks > 0, case' = Rechecked(r)
    PROVE  RowsInv'
  <1>1. case \in CaseRow /\ case.rechecks - 1 \in Nat
    BY DEF RowsInv, RowsTyped, CaseRow
  <1>2. /\ r = Newest /\ r \in Revision /\ DecidedOn = {}
        /\ case.handoff = NoHandoff /\ case.delivery = NoDelivery
    BY AnswerableIsOpen DEF MayRecheck
  <1>3. /\ case'.drafts = case.drafts /\ case'.superseded = case.superseded \union {r}
        /\ case'.run = "PENDING" /\ case'.handoff = case.handoff
        /\ case'.decision = case.decision /\ case'.pending = 0
        /\ case'.delivery = case.delivery /\ case'.state = "REPRODUCING"
    BY <1>1 DEF Rechecked, CaseRow
  <1>4. case' \in CaseRow
    <2> DEFINE superseded == case.superseded \union {r}
               rechecks == case.rechecks - 1
    <2>1. superseded \in SUBSET Nat /\ rechecks \in Nat
      BY <1>1, <1>2 DEF CaseRow, Revision
    <2>2. case' = [case EXCEPT !.superseded = superseded, !.run = "PENDING", !.pending = 0,
                     !.turn = "CANCELLED", !.state = "REPRODUCING", !.rechecks = rechecks]
      BY DEF Rechecked
    <2>3. case \in CaseRow
      BY <1>1
    <2> HIDE DEF superseded, rechecks
    <2>4. [case EXCEPT !.superseded = superseded, !.run = "PENDING", !.pending = 0,
                !.turn = "CANCELLED", !.state = "REPRODUCING", !.rechecks = rechecks]
            \in CaseRow
      BY <2>1, <2>3, RowRechecked
    <2> QED
      BY <2>2, <2>4
  <1>5. Newest' = Newest /\ DecidedOn' = {}
    BY <1>2, <1>3 DEF Newest, DecidedOn
  <1>6. PendingIsNewest' /\ SupersededIsOpen' /\ DecidedIsNewest' /\ DeniedIsOver'
    BY <1>2, <1>3, <1>5
       DEF RowsInv, PendingIsNewest, SupersededIsOpen, DecidedIsNewest, DeniedIsOver, DecidedOn,
           Revision
  <1>7. /\ TriageIsFirst' /\ RecheckIsOpen' /\ RunsAreOpen'
        /\ AwaitingIsPending' /\ AnalysisIsPending'
    BY <1>2, <1>3, <1>5
       DEF TriageIsFirst, RecheckIsOpen, RunsAreOpen, AwaitingIsPending, AnalysisIsPending
  <1>8. HandoffFits' /\ DeliveryFits'
    BY <1>2, <1>3 DEF HandoffFits, DeliveryFits, NoHandoff, NoDelivery
  <1> QED
    BY <1>4, <1>5, <1>6, <1>7, <1>8 DEF RowsInv, RowsTyped

\* Every commit on the rows, and what it does to the rows beside them: what was
\* denied stays denied, a send is never taken back, and the verdict it carries
\* is the one that was pending.
RowsMove == \/ \E kind \in AllKinds : ParkVerdict(kind)
            \/ \E how \in AllEnds : EndWithoutVerdict(how)
            \/ SessionLost \/ Publish \/ RunMoves \/ Submit \/ Send
            \/ \E what \in {"delivered", "bounced", "complained"} : Receipt(what)
            \/ \E r : MayDecide(r) /\ \E o \in {"APPROVED", "DENIED"} : case' = Decided_As(r, o)
            \/ \E r : MayRecheck(r) /\ case.rechecks > 0 /\ case' = Rechecked(r)
            \/ RetryRecheck \/ CancelRecheck \/ RetryHeld \/ CancelHeld \/ Retire
            \/ UNCHANGED case

RowsFollow ==
    /\ case'.mail = case.mail
    /\ case.state = "DENIED" => case'.state = "DENIED"
    /\ \/ /\ case.delivery # NoDelivery /\ case'.delivery # NoDelivery /\ Newest' = Newest
          /\ (case'.state = "DELIVERING" => case.state = "DELIVERING")
       \/ case.delivery = NoDelivery /\ case'.delivery = NoDelivery /\ case'.state # "DELIVERING"
       \/ /\ case.delivery = NoDelivery /\ case'.delivery # NoDelivery
          /\ case.pending = Newest /\ Newest' = Newest
          /\ case.state # "DELIVERING" /\ case'.state = "DELIVERING"

LEMMA RowsUnchanged ==
    ASSUME RowsInv, UNCHANGED case
    PROVE  RowsInv' /\ RowsFollow
  <1>1. Newest' = Newest /\ DecidedOn' = DecidedOn
    BY DEF Newest, DecidedOn
  <1>2. RowsInv'
    BY <1>1
       DEF RowsInv, RowsTyped, PendingIsNewest, SupersededIsOpen,
           DecidedIsNewest, DeniedIsOver, TriageIsFirst, RecheckIsOpen, RunsAreOpen,
           AwaitingIsPending, AnalysisIsPending, HandoffFits, DeliveryFits, Draft
  <1> QED
    BY <1>1, <1>2 DEF RowsFollow, RowsInv, DeliveryFits

LEMMA RowsMoveFits ==
    ASSUME RowsInv, RowsMove
    PROVE  RowsInv' /\ RowsFollow
  <1> USE DEF RowsFollow
  <1>1. case \in CaseRow
    BY DEF RowsInv, RowsTyped
  <1>2. case.delivery = NoDelivery => case.state # "DELIVERING"
    BY DEF RowsInv, DeliveryFits
  <1>3. Working => case.delivery = NoDelivery /\ case.state \notin Terminal \union {"DELIVERING"}
    BY DEF RowsInv, DecidedIsNewest, DeliveryFits, DecidedOn, Working, Terminal
  <1>4. ASSUME RowsInv', case'.mail = case.mail, SameVerdicts, case'.delivery = case.delivery,
               case.state = "DENIED" => case'.state = "DENIED",
               case'.state = "DELIVERING" => case.state = "DELIVERING"
        PROVE  RowsInv' /\ RowsFollow
    <2>1. Newest' = Newest
      BY <1>4 DEF SameVerdicts, Newest
    <2> QED
      BY <1>2, <1>4, <2>1
  <1>5. ASSUME NEW kind \in AllKinds, ParkVerdict(kind)
        PROVE  RowsInv' /\ RowsFollow
    <2>1. /\ case'.mail = case.mail /\ case'.delivery = case.delivery
          /\ case'.state # "DELIVERING" /\ Working
      BY <1>1, <1>5 DEF ParkVerdict, CaseRow
    <2> QED
      BY <1>3, <1>5, <2>1, ParkFits DEF Terminal
  <1>6. ASSUME NEW how \in AllEnds, EndWithoutVerdict(how)
        PROVE  RowsInv' /\ RowsFollow
    <2>1. /\ case'.mail = case.mail /\ case'.delivery = case.delivery
          /\ case'.state # "DELIVERING" /\ Working
      BY <1>1, <1>6 DEF EndWithoutVerdict, CaseRow
    <2> QED
      BY <1>3, <1>6, <2>1, EndFits DEF Terminal
  <1>7. CASE SessionLost
    <2>1. RowsInv'
      BY <1>7, TurnFits DEF SessionLost, TurnStates, AllEnds
    <2>2. /\ case'.mail = case.mail /\ SameVerdicts /\ case'.delivery = case.delivery
          /\ case'.state = case.state
      BY <1>1, <1>7 DEF SessionLost, CaseRow, SameVerdicts
    <2> QED
      BY <1>4, <2>1, <2>2
  <1>8. ASSUME NEW c \in CaseRow, case' = Enqueued(c), c.drafts = case.drafts,
               c.mail = case.mail, case.pending = Newest,
               case.state \in {"AWAITING_APPROVAL", "ANALYSIS_ONLY"},
               case.delivery = NoDelivery
        PROVE  RowsFollow
    <2>1. /\ case'.mail = case.mail /\ Newest' = Newest /\ case'.state = "DELIVERING"
          /\ case'.delivery = [NoDelivery EXCEPT !.state = "PENDING"]
      BY <1>8 DEF Enqueued, CaseRow, Newest
    <2>2. case'.delivery # NoDelivery
      BY <2>1, SendQueued
    <2> QED
      BY <1>8, <2>1, <2>2
  <1>9. CASE Publish
    <2>1. /\ case.state \in {"AWAITING_APPROVAL", "ANALYSIS_ONLY"} /\ case.pending = Newest
          /\ case.delivery = NoDelivery /\ case' = Enqueued(case)
      BY <1>9 DEF Publish, Publishable, Reviewable, RowsInv, PendingIsNewest, DeliveryFits
    <2> QED
      BY <1>1, <1>8, <1>9, <2>1, PublishFits
  <1>10. CASE RunMoves \/ RetryRecheck \/ CancelRecheck
    <2>1. /\ case'.mail = case.mail /\ SameVerdicts /\ case'.delivery = case.delivery
          /\ \/ case'.state = case.state
             \/ case.state = "REPRODUCING" /\ case'.state = "ANALYSIS_ONLY"
      BY <1>1, <1>10
         DEF RunMoves, RetryRecheck, CancelRecheck, MayCancelRecheck, CaseRow, SameVerdicts
    <2> QED
      BY <1>4, <1>10, <2>1, RunFits
  <1>11. CASE Submit
    <2>1. /\ case'.mail = case.mail /\ SameVerdicts /\ case'.delivery = case.delivery
          /\ case'.state = case.state
      BY <1>1, <1>11 DEF Submit, CaseRow, SameVerdicts
    <2> QED
      BY <1>4, <1>11, <2>1, SubmitFits
  <1>12. ASSUME case.delivery # NoDelivery, case'.delivery.state # "NONE",
                case'.mail = case.mail, case'.drafts = case.drafts,
                \/ case'.state = case.state
                \/ case.state = "DELIVERING" /\ case'.state = "DELIVERED"
         PROVE  RowsFollow
    BY <1>12 DEF NoDelivery, Newest
  <1>13. CASE Send
    <2>1. case.delivery \in DeliveryRow /\ case.delivery.state = "PENDING"
          /\ case.delivery # NoDelivery
      <3>1. case.delivery \in DeliveryRow
        BY <1>1 DEF CaseRow
      <3>2. case.delivery.state = "PENDING"
        BY <1>13 DEF Send, Sendable
      <3> QED
        BY <3>1, <3>2 DEF NoDelivery
    <2>2. /\ case'.delivery.state # "NONE" /\ case'.mail = case.mail
          /\ case'.drafts = case.drafts
          /\ \/ case'.state = case.state
             \/ case.state = "DELIVERING" /\ case'.state = "DELIVERED"
      <3> DEFINE d == [case.delivery EXCEPT !.attempts = @ + 1]
             Sent == [state : {"PENDING", "SENT", "FAILED"}, attempts : Nat, held : BOOLEAN,
                      stamped : BOOLEAN, receipt : BOOLEAN]
      <3>1. d \in Sent
        BY <2>1 DEF DeliveryRow
      <3>2. \/ case' = [case EXCEPT !.delivery = [d EXCEPT !.state = "SENT", !.stamped = TRUE]]
            \/ /\ case.state = "DELIVERING"
               /\ case' = [case EXCEPT !.state = "DELIVERED",
                             !.delivery = [d EXCEPT !.state = "SENT", !.receipt = TRUE]]
            \/ case' = [case EXCEPT !.delivery = d]
            \/ case' = [case EXCEPT !.delivery = [d EXCEPT !.state = "FAILED"]]
            \/ \E hold \in BOOLEAN :
                 case' = [case EXCEPT !.delivery = [d EXCEPT !.state = "FAILED", !.held = hold]]
        BY <1>13 DEF Send
      <3> HIDE DEF d
      <3>3. /\ [d EXCEPT !.state = "SENT", !.stamped = TRUE] \in Sent
            /\ [d EXCEPT !.state = "SENT", !.receipt = TRUE] \in Sent
            /\ [d EXCEPT !.state = "FAILED"] \in Sent
            /\ \A hold \in BOOLEAN : [d EXCEPT !.state = "FAILED", !.held = hold] \in Sent
        BY <3>1
      <3>4. /\ case'.mail = case.mail /\ case'.drafts = case.drafts
            /\ case'.delivery \in Sent
            /\ \/ case'.state = case.state
               \/ case.state = "DELIVERING" /\ case'.state = "DELIVERED"
        <4> HIDE DEF Sent
        <4> QED
          BY <1>1, <3>1, <3>2, <3>3 DEF CaseRow
      <3> QED
        BY <3>4
    <2> QED
      BY <1>12, <1>13, <2>1, <2>2, SendFits
  <1>14. ASSUME NEW what \in {"delivered", "bounced", "complained"}, Receipt(what)
         PROVE  RowsInv' /\ RowsFollow
    <2>1. /\ case.delivery # NoDelivery /\ case.delivery.state # "NONE"
          /\ case.delivery \in DeliveryRow
      BY <1>1, <1>14 DEF Receipt, NoDelivery, RowsInv, DeliveryFits, CaseRow
    <2>2. /\ case'.delivery.state # "NONE" /\ case'.mail = case.mail
          /\ case'.drafts = case.drafts
          /\ \/ case'.state = case.state
             \/ case.state = "DELIVERING" /\ case'.state = "DELIVERED"
      BY <1>1, <1>14, <2>1 DEF Receipt, CaseRow, DeliveryRow
    <2> QED
      BY <1>12, <1>14, <2>1, <2>2, ReceiptFits
  <1>15. ASSUME NEW r, MayDecide(r), NEW o \in {"APPROVED", "DENIED"}, case' = Decided_As(r, o)
         PROVE  RowsInv' /\ RowsFollow
    <2> DEFINE decision == [case.decision EXCEPT ![r] = o]
               c == [case EXCEPT !.decision = decision]
               told == IF Draft(r).call THEN [NoHandoff EXCEPT !.state = "PENDING"]
                                        ELSE case.handoff
    <2>1. /\ case.pending = r /\ r # 0 /\ case.decision[r] = "NONE"
          /\ case.state \in {"AWAITING_APPROVAL", "ANALYSIS_ONLY"}
      BY <1>1, <1>15 DEF MayDecide, Reviewable, CaseRow
    <2>2. case.pending = Newest /\ r \in Revision /\ case.delivery = NoDelivery
      BY <2>1, AnswerableIsOpen
    <2>3. decision \in [Revision -> {"NONE", "APPROVED", "DENIED"}]
      BY <1>1, <2>2 DEF CaseRow
    <2> HIDE DEF decision
    <2>4. /\ c \in CaseRow /\ c.drafts = case.drafts /\ c.mail = case.mail
          /\ c.delivery = case.delivery /\ c.state = case.state
      BY <1>1, <2>3 DEF CaseRow
    <2>5. \/ case' = [c EXCEPT !.state = "DENIED", !.handoff = told]
          \/ case' = [c EXCEPT !.handoff = told]
          \/ case' = Enqueued(c)
      BY <1>15 DEF Decided_As, decision
    <2> HIDE DEF c, told
    <2>6. CASE case' = Enqueued(c)
      BY <1>8, <1>15, <2>1, <2>2, <2>4, <2>6, DecideFits
    <2>7. CASE \/ case' = [c EXCEPT !.state = "DENIED", !.handoff = told]
               \/ case' = [c EXCEPT !.handoff = told]
      <3>1. /\ case'.delivery = NoDelivery /\ case'.mail = case.mail
            /\ case'.state \in {"DENIED", case.state}
        BY <2>2, <2>4, <2>7 DEF CaseRow
      <3> QED
        BY <1>15, <2>1, <2>2, <3>1, DecideFits
    <2> QED
      BY <2>5, <2>6, <2>7
  <1>16. ASSUME NEW r, MayRecheck(r), case.rechecks > 0, case' = Rechecked(r)
         PROVE  RowsInv' /\ RowsFollow
    <2>1. case.delivery = NoDelivery /\ case.state # "DENIED"
      BY <1>16, AnswerableIsOpen DEF MayRecheck
    <2>2. /\ case'.mail = case.mail /\ case'.delivery = case.delivery
          /\ case'.state = "REPRODUCING"
      BY <1>1, <1>16 DEF Rechecked, CaseRow
    <2> QED
      BY <1>16, <2>1, <2>2, RecheckFits
  <1>17. CASE RetryHeld
    <2>1. case.delivery # NoDelivery
      BY <1>17 DEF RetryHeld, MayRetryHeld, NoDelivery
    <2>2. /\ case'.delivery = [NoDelivery EXCEPT !.state = "PENDING"]
          /\ case'.mail = case.mail /\ case'.drafts = case.drafts /\ case'.state = case.state
      BY <1>1, <1>17 DEF RetryHeld, CaseRow
    <2>3. case'.delivery.state # "NONE"
      BY <2>2, SendQueued
    <2> QED
      BY <1>12, <1>17, <2>1, <2>2, <2>3, RetryHeldFits
  <1>18. CASE CancelHeld \/ Retire
    <2>1. /\ case'.mail = case.mail /\ SameVerdicts /\ case'.delivery = case.delivery
          /\ case'.state = "CANCELLED" /\ case.state # "DENIED"
      BY <1>1, <1>18
         DEF CancelHeld, MayCancelHeld, Retire, CaseRow, SameVerdicts, Terminal
    <2> QED
      BY <1>4, <1>18, <2>1, RetireFits
  <1> QED
    BY <1>5, <1>6, <1>7, <1>9, <1>10, <1>11, <1>13, <1>14, <1>15, <1>16, <1>17, <1>18,
       RowsUnchanged DEF RowsMove

-----------------------------------------------------------------------------
(* The rows beside the report's: the page's and the lists'.                *)

LEMMA DeskStart ==
    ASSUME NEW f \in Filings, ControlsInit(f.channel, f.gate, f.material)
    PROVE  RowsInv /\ DeskFits
  <1>1. f.channel \in Channels /\ f.gate \in BOOLEAN /\ f.material \in BOOLEAN
    <2>1. CASE f \in [channel : {"email", "upload"}, gate : {TRUE}, material : BOOLEAN]
      BY <2>1 DEF Channels
    <2>2. CASE f = [channel |-> "email", gate |-> FALSE, material |-> FALSE]
      BY <2>2 DEF Channels
    <2>3. CASE f = [channel |-> "github", gate |-> FALSE, material |-> FALSE]
      BY <2>3 DEF Channels
    <2>4. CASE f = [channel |-> "advisory", gate |-> TRUE, material |-> FALSE]
      BY <2>4 DEF Channels
    <2> QED
      BY <2>1, <2>2, <2>3, <2>4 DEF Filings
  <1>2. RowsInv
    BY RowsStart DEF ControlsInit
  <1>3. case.state = "TRIAGING" /\ case.delivery = NoDelivery
    BY DEF ControlsInit, CaseInit
  <1>4. desk \in DeskRow /\ desk.closed = "NONE" /\ desk.posted = 0
    BY <1>1 DEF ControlsInit, DeskRow
  <1> QED
    BY <1>2, <1>3, <1>4 DEF DeskFits

\* At the gate, and until the first verdict, nothing on the rows moves but by
\* the agent or by a reviewer who ends the report.
LEMMA TriageIsQuiet ==
    ASSUME RowsInv, case.state = "TRIAGING"
    PROVE  /\ case.pending = 0 /\ case.run = "NONE" /\ Newest = 0
           /\ case.handoff = NoHandoff /\ case.delivery = NoDelivery
           /\ case.superseded = {} /\ DecidedOn = {}
  <1>1. case.drafts = <<>> /\ case.run = "NONE" /\ Newest = 0
    BY DEF RowsInv, TriageIsFirst, Newest
  <1>2. case.superseded = {}
    BY <1>1 DEF RowsInv, SupersededIsOpen
  <1>3. DecidedOn = {}
    BY DEF RowsInv, DecidedIsNewest
  <1> QED
    BY <1>1, <1>2, <1>3 DEF RowsInv, PendingIsNewest, HandoffFits, DeliveryFits, Revision

LEMMA DeskMoved ==
    ASSUME DeskFits, RowsFollow, desk' \in DeskRow, desk'.closed = desk.closed,
           desk'.gate => desk.gate /\ case'.state = "TRIAGING",
           desk'.posted = IF case'.state = "DELIVERING" /\ case.state # "DELIVERING"
                          THEN case.pending ELSE desk.posted
    PROVE  DeskFits'
  BY DEF DeskFits, RowsFollow

LEMMA ElsewhereFits ==
    ASSUME RowsInv, DeskFits, Elsewhere
    PROVE  RowsInv' /\ DeskFits'
  <1>1. desk \in DeskRow /\ case \in CaseRow
    BY DEF DeskFits, RowsInv, RowsTyped
  <1>2. desk.gate => case.state = "TRIAGING"
    BY DEF DeskFits
  <1>3. ASSUME RowsMove, UNCHANGED desk, ~desk.gate,
               case'.state = "DELIVERING" => case.state = "DELIVERING"
        PROVE  RowsInv' /\ DeskFits'
    <2>1. RowsInv' /\ RowsFollow
      BY <1>3, RowsMoveFits
    <2> QED
      BY <1>1, <1>3, <2>1, DeskMoved
  <1>4. ASSUME UNCHANGED case, desk' \in DeskRow, desk'.closed = desk.closed,
               desk'.posted = desk.posted, desk'.gate = desk.gate
        PROVE  RowsInv' /\ DeskFits'
    <2>1. RowsInv' /\ RowsFollow
      BY <1>4, RowsUnchanged
    <2> QED
      BY <1>2, <1>4, <2>1, DeskMoved
  <1>5. CASE AgentMoves
    <2>1. ~desk.gate /\ UNCHANGED desk
      BY <1>5 DEF AgentMoves, AtGate
    <2>2. \/ \E kind \in AllKinds : ParkVerdict(kind)
          \/ \E how \in AllEnds : EndWithoutVerdict(how)
      BY <1>5 DEF AgentMoves, Outcomes, AllKinds
    <2>3. case'.state # "DELIVERING"
      BY <1>1, <2>2 DEF ParkVerdict, EndWithoutVerdict, CaseRow
    <2> QED
      BY <1>3, <2>1, <2>2, <2>3 DEF RowsMove
  <1>6. CASE WorkerMoves
    <2>1. ~desk.gate
      <3>1. case.run \in {"PENDING", "RUNNING"} \/ case.handoff.state # "NONE"
            \/ case.delivery.state # "NONE"
        BY <1>6 DEF WorkerMoves, RunMoves, Submit, Submittable, Send, Sendable
      <3>2. NoHandoff.state = "NONE" /\ NoDelivery.state = "NONE"
        BY DEF NoHandoff, NoDelivery
      <3> QED
        BY <1>2, <3>1, <3>2, TriageIsQuiet
    <2>2. case'.state = "DELIVERING" => case.state = "DELIVERING"
      BY <1>1, <1>6 DEF WorkerMoves, RunMoves, Submit, Send, CaseRow
    <2> QED
      BY <1>3, <1>6, <2>1, <2>2 DEF WorkerMoves, RowsMove
  <1>7. CASE Publishes
    <2>1. RowsInv' /\ RowsFollow
      BY <1>7, RowsMoveFits DEF Publishes, RowsMove
    <2>2. ~desk.gate /\ case.pending \in Nat
      BY <1>1, <1>2, <1>7, TriageIsQuiet DEF Publishes, Publish, Publishable, CaseRow
    <2>3. /\ desk' \in DeskRow /\ desk'.closed = desk.closed /\ desk'.gate = desk.gate
          /\ desk'.posted = IF case'.state = "DELIVERING" /\ case.state # "DELIVERING"
                            THEN case.pending ELSE desk.posted
      BY <1>1, <1>7, <2>2 DEF Publishes, Posting, DeskRow
    <2> QED
      BY <2>1, <2>2, <2>3, DeskMoved
  <1>8. CASE MailMoves
    <2>1. ~desk.gate
      BY <1>2, <1>8, TriageIsQuiet DEF MailMoves, Receipt, NoDelivery
    <2>2. case'.state = "DELIVERING" => case.state = "DELIVERING"
      BY <1>1, <1>8 DEF MailMoves, Receipt, CaseRow
    <2> QED
      BY <1>3, <1>8, <2>1, <2>2 DEF MailMoves, RowsMove
  <1>9. CASE BuildMoves
    <2>1. /\ desk' \in DeskRow /\ desk'.closed = desk.closed /\ desk'.posted = desk.posted
          /\ desk'.gate = desk.gate
      BY <1>1, <1>9 DEF BuildMoves, DeskRow
    <2> QED
      BY <1>4, <1>9, <2>1 DEF BuildMoves
  <1>10. CASE GrantMoves \/ SenderMoves \/ AppealMoves
    <2>1. /\ desk' \in DeskRow /\ desk'.closed = desk.closed /\ desk'.posted = desk.posted
          /\ desk'.gate = desk.gate
      BY <1>1, <1>10 DEF GrantMoves, SenderMoves, AppealMoves, DeskRow
    <2> QED
      BY <1>4, <1>10, <2>1 DEF GrantMoves, SenderMoves, AppealMoves
  <1>11. CASE Closes
    <2>1. RowsInv' /\ RowsFollow
      BY <1>11, RowsMoveFits DEF Closes, RowsMove
    <2>2. /\ desk' \in DeskRow /\ desk'.closed = desk.closed /\ desk'.posted = desk.posted
          /\ ~desk'.gate /\ case'.state = "CANCELLED"
      BY <1>1, <1>11 DEF Closes, Retire, DeskRow, CaseRow
    <2> QED
      BY <2>1, <2>2, DeskMoved
  <1> QED
    BY <1>5, <1>6, <1>7, <1>8, <1>9, <1>10, <1>11 DEF Elsewhere

\* A click, by the group its control is in.
LEMMA ClickMeans ==
    ASSUME NEW c \in Control, Click(c)
    PROVE  \/ c \in Gate /\ GateAccepts(c) /\ ClickGate(c)
           \/ c \in Resends /\ Replied /\ UNCHANGED case
           \/ c = "bind" /\ ClickBind
           \/ /\ c \in {"reproduce", "recheck"} /\ Verdict # 0 /\ MayRecheck(Verdict)
              /\ case.rechecks > 0 /\ case' = Rechecked(Verdict) /\ UNCHANGED desk
           \/ /\ c \in {"approve", "deny"} /\ Verdict # 0 /\ MayDecide(Verdict)
              /\ case' = Decided_As(Verdict, IF c = "approve" THEN "APPROVED" ELSE "DENIED")
              /\ Posting
           \/ (RetryRecheck \/ CancelRecheck \/ RetryHeld \/ CancelHeld) /\ UNCHANGED desk
           \/ desk' = [desk EXCEPT !.advisory = "PENDING"] /\ UNCHANGED case
           \/ /\ \E to \in {"CLOSED", "ACKNOWLEDGED"} : desk' = [desk EXCEPT !.appeal = to]
              /\ UNCHANGED case
  <1>1. ASSUME c \in Gate
        PROVE  GateAccepts(c) /\ ClickGate(c)
    BY <1>1 DEF Click, Accepts, Gate, Resends, Targets, VerdictControls, Runs, Held, Owners,
                Appealing
  <1>2. ASSUME c \in Resends
        PROVE  Replied /\ UNCHANGED case
    BY <1>2 DEF Click, Accepts, Gate, Resends, Targets, VerdictControls, Runs, Held, Owners,
                Appealing
  <1>3. ASSUME c = "bind"
        PROVE  ClickBind
    BY <1>3 DEF Click, Accepts, Gate, Resends, Targets, VerdictControls, Runs, Held, Owners,
                Appealing
  <1>4. ASSUME c \in {"reproduce", "recheck"}
        PROVE  /\ Verdict # 0 /\ MayRecheck(Verdict)
               /\ case.rechecks > 0 /\ case' = Rechecked(Verdict) /\ UNCHANGED desk
    BY <1>4 DEF Click, Accepts, Gate, Resends, Targets, VerdictControls, Runs, Held, Owners,
                Appealing
  <1>5. ASSUME c \in {"approve", "deny"}
        PROVE  /\ Verdict # 0 /\ MayDecide(Verdict)
               /\ case' = Decided_As(Verdict, IF c = "approve" THEN "APPROVED" ELSE "DENIED")
               /\ Posting
    BY <1>5 DEF Click, Accepts, Gate, Resends, Targets, VerdictControls, Runs, Held, Owners,
                Appealing
  <1>6. ASSUME c \in Runs \union Held
        PROVE  (RetryRecheck \/ CancelRecheck \/ RetryHeld \/ CancelHeld) /\ UNCHANGED desk
    BY <1>6 DEF Click, Accepts, Gate, Resends, Targets, VerdictControls, Runs, Held, Owners,
                Appealing
  <1>7. ASSUME c \in Owners
        PROVE  desk' = [desk EXCEPT !.advisory = "PENDING"] /\ UNCHANGED case
    BY <1>7 DEF Click, Accepts, Gate, Resends, Targets, VerdictControls, Runs, Held, Owners,
                Appealing
  <1>8. ASSUME c \in Appealing
        PROVE  /\ \E to \in {"CLOSED", "ACKNOWLEDGED"} : desk' = [desk EXCEPT !.appeal = to]
               /\ UNCHANGED case
    <2>1. /\ desk' = [desk EXCEPT !.appeal = IF c = "close" THEN "CLOSED" ELSE "ACKNOWLEDGED"]
          /\ UNCHANGED case
      BY <1>8 DEF Click, Accepts, Gate, Resends, Targets, VerdictControls, Runs, Held, Owners,
                Appealing
    <2> QED
      BY <2>1
  <1>9. \/ c \in Gate \/ c \in Resends \/ c = "bind" \/ c \in {"reproduce", "recheck"}
        \/ c \in {"approve", "deny"} \/ c \in Runs \union Held \/ c \in Owners
        \/ c \in Appealing
    BY DEF Control, Targets, VerdictControls
  <1> QED
    BY <1>1, <1>2, <1>3, <1>4, <1>5, <1>6, <1>7, <1>8, <1>9

LEMMA ClickFits ==
    ASSUME RowsInv, DeskFits, NEW c \in Control, Click(c)
    PROVE  RowsInv' /\ DeskFits'
  <1>1. desk \in DeskRow /\ case \in CaseRow
    BY DEF DeskFits, RowsInv, RowsTyped
  <1>2. desk.gate => case.state = "TRIAGING"
    BY DEF DeskFits
  <1>3. ASSUME RowsMove, UNCHANGED desk, ~desk.gate,
               case'.state = "DELIVERING" => case.state = "DELIVERING"
        PROVE  RowsInv' /\ DeskFits'
    <2>1. RowsInv' /\ RowsFollow
      BY <1>3, RowsMoveFits
    <2> QED
      BY <1>1, <1>3, <2>1, DeskMoved
  <1>4. ASSUME UNCHANGED case, desk' \in DeskRow, desk'.closed = desk.closed,
               desk'.posted = desk.posted, desk'.gate => desk.gate
        PROVE  RowsInv' /\ DeskFits'
    <2>1. RowsInv' /\ RowsFollow
      BY <1>4, RowsUnchanged
    <2> QED
      BY <1>2, <1>4, <2>1, DeskMoved
  <1>5. CASE c \in Gate /\ GateAccepts(c) /\ ClickGate(c)
    <2>1. desk.gate /\ case.state = "TRIAGING"
      BY <1>1, <1>2, <1>5 DEF GateAccepts, State, AtGate, CaseRow, CaseStates, Terminal
    <2>2. CASE Released
      BY <1>1, <1>4, <2>2 DEF Released, DeskRow
    <2>3. CASE desk' = [desk EXCEPT !.gate = FALSE, !.build = "PENDING"] /\ UNCHANGED case
      BY <1>1, <1>4, <2>3 DEF DeskRow
    <2>4. ASSUME Denied, desk' \in DeskRow, ~desk'.gate, desk'.posted = desk.posted
          PROVE  RowsInv' /\ DeskFits'
      <3>1. RowsInv'
        BY <2>1, <2>4, EndedFits DEF Denied, Terminal
      <3>2. case'.state = "DENIED" /\ case'.delivery = NoDelivery /\ desk.posted = 0
        BY <1>1, <2>1, <2>4, TriageIsQuiet DEF Denied, CaseRow, DeskFits
      <3> QED
        BY <2>4, <3>1, <3>2 DEF DeskFits
    <2>5. CASE \E closed \in {"spam", "rejected"} :
                 Denied /\ desk' = [desk EXCEPT !.gate = FALSE, !.closed = closed]
      BY <1>1, <2>4, <2>5 DEF DeskRow
    <2>6. CASE \E closed \in {"rejected", "duplicate"}, reply \in {"SENT", "UNSENT"} :
                 /\ Denied
                 /\ desk' = [desk EXCEPT !.gate = FALSE, !.reply = reply, !.closed = closed]
      BY <1>1, <2>4, <2>6 DEF DeskRow
    <2> QED
      BY <1>5, <2>2, <2>3, <2>5, <2>6 DEF ClickGate, Gate
  <1>6. CASE Replied /\ UNCHANGED case
    BY <1>1, <1>4, <1>6 DEF Replied, DeskRow
  <1>7. CASE ClickBind
    BY <1>1, <1>4, <1>7 DEF ClickBind, DeskRow
  <1>8. CASE MayRecheck(Verdict) /\ case.rechecks > 0 /\ case' = Rechecked(Verdict)
             /\ UNCHANGED desk
    <2>1. ~desk.gate
      BY <1>2, <1>8 DEF MayRecheck
    <2>2. case'.state = "REPRODUCING"
      BY <1>1, <1>8 DEF Rechecked, CaseRow
    <2> QED
      BY <1>3, <1>8, <2>1, <2>2 DEF RowsMove
  <1>9. ASSUME MayDecide(Verdict), NEW o \in {"APPROVED", "DENIED"},
               case' = Decided_As(Verdict, o), Posting
        PROVE  RowsInv' /\ DeskFits'
    <2>1. RowsInv' /\ RowsFollow
      BY <1>9, RowsMoveFits DEF RowsMove
    <2>2. ~desk.gate /\ case.pending \in Nat
      BY <1>1, <1>2, <1>9 DEF MayDecide, Reviewable, CaseRow
    <2>3. /\ desk' \in DeskRow /\ desk'.closed = desk.closed /\ desk'.gate = desk.gate
          /\ desk'.posted = IF case'.state = "DELIVERING" /\ case.state # "DELIVERING"
                            THEN case.pending ELSE desk.posted
      BY <1>1, <1>9, <2>2 DEF Posting, DeskRow
    <2> QED
      BY <2>1, <2>2, <2>3, DeskMoved
  <1>10. CASE (RetryRecheck \/ CancelRecheck \/ RetryHeld \/ CancelHeld) /\ UNCHANGED desk
    <2>1. ~desk.gate
      BY <1>2, <1>10
         DEF RetryRecheck, MayRetryRecheck, CancelRecheck, MayCancelRecheck, RetryHeld,
             CancelHeld, MayCancelHeld
    <2>2. case'.state = "DELIVERING" => case.state = "DELIVERING"
      BY <1>1, <1>10 DEF RetryRecheck, CancelRecheck, RetryHeld, CancelHeld, CaseRow
    <2> QED
      BY <1>3, <1>10, <2>1, <2>2 DEF RowsMove
  <1>11. CASE desk' = [desk EXCEPT !.advisory = "PENDING"] /\ UNCHANGED case
    BY <1>1, <1>4, <1>11 DEF DeskRow
  <1>12. CASE \E to \in {"CLOSED", "ACKNOWLEDGED"} : desk' = [desk EXCEPT !.appeal = to]
              /\ UNCHANGED case
    BY <1>1, <1>4, <1>12 DEF DeskRow
  <1> QED
    BY <1>5, <1>6, <1>7, <1>8, <1>9, <1>10, <1>11, <1>12, ClickMeans

-----------------------------------------------------------------------------
(* What a fresh page says of these rows.                                   *)

\* readCase's choices come down to the newest verdict and the rows as they are.
LEMMA ViewIsRows ==
    ASSUME RowsInv
    PROVE  /\ Latest = Newest /\ Newest \in Nat
           /\ DecisionShown = "NONE" <=> DecidedOn = {}
           /\ HandoffShown = case.handoff /\ DeliveryShown = case.delivery
           /\ AwaitingVerdict \in {0, Newest}
           /\ AwaitingVerdict # 0 <=> MayDecide(Newest)
           /\ \A r : MayDecide(r) => r = Newest /\ r # 0
           /\ SupersededShown => Newest # 0 /\ DecidedOn = {} /\ case.pending = 0
  <1>1. case \in CaseRow /\ Newest \in Nat /\ Newest <= MaxRevisions
    BY DEF RowsInv, RowsTyped, CaseRow, Newest
  <1>2. Latest = Newest
    BY DEF Latest, PendingShown, RowsInv, PendingIsNewest
  <1>3. DecisionShown = "NONE" <=> DecidedOn = {}
    BY <1>1, <1>2 DEF DecisionShown, DecidedOn, RowsInv, DecidedIsNewest, Revision
  <1>4. HandoffShown = case.handoff
    BY <1>3 DEF HandoffShown, RowsInv, HandoffFits
  <1>5. DeliveryShown = case.delivery
    BY <1>1, <1>2 DEF DeliveryShown, DecisionShown, RowsInv, DeliveryFits, Revision
  <1>6. SupersededShown => Newest # 0 /\ DecidedOn = {} /\ case.pending = 0
    BY <1>2 DEF SupersededShown, RowsInv, SupersededIsOpen, DecidedIsNewest, PendingIsNewest
  <1>7. AwaitingVerdict \in {0, Newest}
    BY DEF AwaitingVerdict, PendingShown, RowsInv, PendingIsNewest
  <1>8. \A r : MayDecide(r) => r = Newest /\ r # 0
    BY <1>1 DEF MayDecide, RowsInv, PendingIsNewest, CaseRow
  <1>9. AwaitingVerdict # 0 <=> MayDecide(Newest)
    <2>1. case.pending # 0 => Newest \in DOMAIN case.drafts
      BY <1>1 DEF RowsInv, PendingIsNewest, CaseRow, Newest
    <2> QED
      BY <1>1, <1>2, <1>8, <2>1
         DEF AwaitingVerdict, PendingShown, DecisionShown, MayDecide, RowsInv, PendingIsNewest
  <1> QED
    BY <1>1, <1>2, <1>3, <1>4, <1>5, <1>6, <1>7, <1>8, <1>9

LEMMA ButtonsAreLive ==
    ASSUME RowsInv
    PROVE  ButtonIsLive
  BY ViewIsRows DEF ButtonIsLive, Revision

LEMMA ControlsDoMatch ==
    ASSUME RowsInv
    PROVE  ControlsMatch
  <1>1. case.state = "REPRODUCING" => Latest # 0
    BY ViewIsRows DEF RowsInv, RecheckIsOpen, SupersededIsOpen
  <1> QED
    BY <1>1, ViewIsRows
       DEF ControlsMatch, OffersDelivery, MayCancelHeld, OffersRecheck, MayRetryRecheck,
           MayCancelRecheck

LEMMA StepsAreInOrder ==
    ASSUME RowsInv
    PROVE  StepsInOrder
  <1>1. DecisionShown # "NONE" => ~ApprovalBlocked /\ Latest # 0
    BY ViewIsRows DEF ApprovalBlocked, ActiveRecheck, RecheckOver, RecheckIs, DecisionShown
  <1>2. ApprovalStep = "done" <=> DecisionShown # "NONE"
    BY <1>1 DEF ApprovalStep
  <1>3. DecisionShown # "NONE" => VerdictStep = "done"
    BY <1>1 DEF VerdictStep
  <1>4. case.state \in {"DELIVERING", "DELIVERED"} => DecisionShown # "NONE"
    BY ViewIsRows DEF RowsInv, DeliveryFits, DecidedOn
  <1>5. HandoffShown # NoHandoff => DecisionShown # "NONE"
    BY DEF HandoffShown
  <1>6. DeliveryStep \in {"current", "done"} => DecisionShown # "NONE"
    BY <1>4, <1>5 DEF DeliveryStep
  <1>7. AwaitingVerdict # 0 => ~SupersededShown
    BY ViewIsRows DEF MayDecide
  <1>8. Investigation = "current" => SupersededShown
    BY DEF Investigation, ActiveRecheck, RecheckIs
  <1> QED
    BY <1>2, <1>3, <1>6, <1>7, <1>8 DEF StepsInOrder

LEMMA OverIsReallyOver ==
    ASSUME RowsInv
    PROVE  OverIsOver
  <1>1. case.delivery \in DeliveryRow /\ case.handoff \in HandoffRow
    BY DEF RowsInv, RowsTyped, CaseRow
  <1>2. HandoffShown = case.handoff /\ DeliveryShown = case.delivery
    BY ViewIsRows
  <1>3. ~NoDelivery.held /\ NoDelivery.state = "NONE"
    BY DEF NoDelivery
  <1>4. DeliveryNote = "held" => DeliveryShown # NoDelivery /\ ~Sendable
    BY <1>1, <1>2, <1>3 DEF DeliveryNote, DeliveryRow, Sendable
  <1>5. DeliveryNote = "failed" => \/ DeliveryExhausted
                                   \/ HandoffExhausted
    BY <1>1, <1>2 DEF DeliveryNote, DeliveryRow
  <1>6. DeliveryExhausted => DeliveryShown # NoDelivery /\ ~Sendable
    BY <1>2, <1>3 DEF DeliveryExhausted, Sendable
  <1>7. HandoffExhausted => DeliveryShown = NoDelivery /\ ~Submittable
    BY <1>1, <1>2 DEF HandoffExhausted, Submittable, HandoffRow
  <1>8. DeliveryNote = "handing off" => Submittable \/ case.handoff.told
    <2>1. DeliveryNote = "handing off" => /\ HandoffShown # NoHandoff
                                          /\ HandoffShown.state # "FAILED"
      BY <1>1, <1>2 DEF DeliveryNote, DeliveryRow
    <2> QED
      BY <1>1, <1>2, <2>1 DEF RowsInv, HandoffFits, HandoffRow, Submittable
  <1> QED
    BY <1>4, <1>5, <1>6, <1>7, <1>8 DEF OverIsOver

LEMMA RowsTellTruth ==
    ASSUME RowsInv
    PROVE  FreshViewTellsTruth
  BY ButtonsAreLive, ControlsDoMatch, StepsAreInOrder, OverIsReallyOver DEF FreshViewTellsTruth

\* The page's own state is the report's, but at the gate.
LEMMA StateIs ==
    ASSUME RowsInv, DeskFits
    PROVE  /\ State = "NEEDS_DECISION" <=> desk.gate
           /\ \A s \in {"ANALYSIS_ONLY", "DELIVERING", "DELIVERED", "DENIED"} :
                State = s <=> case.state = s
  BY DEF State, AtGate, RowsInv, RowsTyped, CaseRow, CaseStates, Terminal, DeskFits

\* What may be asked again is what may be decided.
LEMMA AskedIsAnswerable ==
    ASSUME RowsInv
    PROVE  /\ (Verdict # 0 /\ MayDecide(Verdict)) <=> AwaitingVerdict # 0
           /\ (Verdict # 0 /\ MayRecheck(Verdict)) <=> AwaitingVerdict # 0
           /\ AwaitingVerdict # 0 => AwaitingVerdict = Verdict
           /\ AwaitingVerdict # 0 /\ case.state = "ANALYSIS_ONLY" =>
                Draft(Verdict).kind = "ANALYSIS_ONLY"
  <1>1. Verdict = Newest
    BY ViewIsRows DEF Verdict
  <1>2. MayDecide(Newest) => MayRecheck(Newest)
    BY ViewIsRows DEF MayDecide, MayRecheck, Reviewable
  <1>3. MayRecheck(Newest) => MayDecide(Newest)
    <2>1. case.pending # 0 => Newest \in DOMAIN case.drafts
      BY DEF RowsInv, RowsTyped, PendingIsNewest, CaseRow, Newest
    <2> QED
      BY <2>1 DEF MayDecide, MayRecheck, Reviewable, RowsInv, AnalysisIsPending
  <1>4. MayDecide(Newest) /\ case.state = "ANALYSIS_ONLY" => Draft(Newest).kind = "ANALYSIS_ONLY"
    BY DEF MayDecide, Reviewable
  <1> QED
    BY <1>1, <1>2, <1>3, <1>4, ViewIsRows

ControlAgrees(c) == /\ Offers(c) => Accepts(c) \/ KnownToRefuse(c)
                    /\ Accepts(c) => Offers(c) \/ KnownToHide(c)

\* The page and the server agree, control by control.
LEMMA ControlsAgree ==
    ASSUME RowsInv, DeskFits, NEW c \in Control
    PROVE  ControlAgrees(c)
  <1> USE DEF ControlAgrees
  <1>1. CASE c \in Gate
    <2>1. (Offers(c) <=> GateOffers(c)) /\ (Accepts(c) <=> GateAccepts(c))
      BY <1>1 DEF Offers, Accepts, Gate, Resends, VerdictControls, Held, Owners, Appealing
    <2>2. c = "build" /\ c \in GateOf(desk.channel) => desk.channel \in {"email", "upload"}
      BY DEF GateOf, Resends
    <2> QED
      BY <1>1, <2>1, <2>2 DEF GateOffers, GateAccepts, CanBuild, KnownToHide
  <1>2. CASE c \in Resends
    <2>1. (Offers(c) <=> ResendOffers(c)) /\ (Accepts(c) <=> ResendAccepts(c))
      BY <1>2 DEF Offers, Accepts, Gate, Resends, VerdictControls, Held, Owners, Appealing
    <2>2. desk.closed # "NONE" => State = "DENIED"
      BY StateIs DEF DeskFits
    <2>3. c \in GateOf(desk.channel) => desk.channel = "email"
      BY <1>2 DEF GateOf, Resends
    <2> QED
      BY <1>2, <2>1, <2>2, <2>3 DEF ResendOffers, ResendAccepts, KnownToHide, Resends
  <1>3. CASE c = "bind"
    BY <1>3 DEF Offers, Accepts, Gate, Resends, VerdictControls, Held, Owners, Appealing,
                BindOffered, MayBind
  <1>4. CASE c = "reproduce"
    <2>1. /\ Offers(c) <=> ReproduceOffered
          /\ Accepts(c) <=> Verdict # 0 /\ MayRecheck(Verdict)
      BY <1>4 DEF Offers, Accepts, Gate, Resends, VerdictControls, Held, Owners, Appealing
    <2>2. AwaitingVerdict # 0 => ~Investigating
      BY AskedIsAnswerable DEF Investigating
    <2> QED
      BY <1>4, <2>1, <2>2, AskedIsAnswerable, StateIs DEF ReproduceOffered, KnownToHide
  <1>5. CASE c \in VerdictControls
    <2>1. /\ Offers(c) <=> VerdictOffers(c)
          /\ Accepts(c) <=> IF c = "recheck" THEN Verdict # 0 /\ MayRecheck(Verdict)
                                             ELSE Verdict # 0 /\ MayDecide(Verdict)
      BY <1>5 DEF Offers, Accepts, Gate, Resends, VerdictControls, Held, Owners, Appealing
    <2> QED
      BY <1>5, <2>1, AskedIsAnswerable DEF VerdictOffers, MayAskRecheck, KnownToHide
  <1>6. CASE c \in Runs
    <2>1. /\ Offers(c) <=> (IF c = "retryRecheck" THEN "retry" ELSE "cancel") \in OffersRecheck
          /\ Accepts(c) <=> IF c = "retryRecheck" THEN MayRetryRecheck ELSE MayCancelRecheck
      BY <1>6 DEF Offers, Accepts, Gate, Resends, VerdictControls, Runs, Held, Owners, Appealing
    <2> QED
      BY <2>1, ControlsDoMatch DEF ControlsMatch
  <1>7. CASE c \in Held
    <2>1. /\ Offers(c) <=> OffersDelivery
          /\ Accepts(c) <=> IF c = "retryDelivery" THEN MayRetryHeld /\ State = "DELIVERING"
                                                   ELSE MayCancelHeld
      BY <1>7 DEF Offers, Accepts, Gate, Resends, VerdictControls, Held, Owners, Appealing
    <2>2. OffersDelivery <=> MayCancelHeld
      BY ControlsDoMatch DEF ControlsMatch
    <2> QED
      BY <1>7, <2>1, <2>2, StateIs DEF MayCancelHeld, MayRetryHeld, KnownToRefuse, Held
  <1>8. CASE c \in Owners
    <2>1. (Offers(c) <=> NotifyOffered) /\ (Accepts(c) <=> MayNotify)
      BY <1>8 DEF Offers, Accepts, Gate, Resends, VerdictControls, Held, Owners, Appealing
    <2>2. State = "DELIVERED" => case.delivery # NoDelivery
      BY StateIs DEF RowsInv, DeliveryFits
    <2>3. State = "DELIVERED" => desk.posted = Verdict
      BY <2>2, ViewIsRows DEF DeskFits, Verdict
    <2> QED
      BY <1>8, <2>1, <2>3 DEF NotifyOffered, MayNotify, KnownToRefuse, Owners
  <1>9. CASE c \in Appealing
    BY <1>9 DEF Offers, Accepts, Gate, Resends, VerdictControls, Held, Owners, Appealing,
                AppealOffers, MayResolve
  <1> QED
    BY <1>1, <1>2, <1>3, <1>4, <1>5, <1>6, <1>7, <1>8, <1>9 DEF Control, Targets

LEMMA DeskMeansIt ==
    ASSUME RowsInv, DeskFits
    PROVE  ControlsMeanIt
  <1>1. NotifiesWhatItShows
    <2>1. State = "DELIVERED" => case.delivery # NoDelivery
      BY StateIs DEF RowsInv, DeliveryFits
    <2> QED
      BY <2>1, ViewIsRows DEF NotifiesWhatItShows, NotifyOffered, DeskFits, Verdict
  <1> QED
    BY <1>1, ControlsAgree
       DEF ControlsMeanIt, OfferedIsAccepted, AcceptedIsOffered, ControlAgrees

-----------------------------------------------------------------------------
(* The lists.                                                              *)

\* The rows changed last, up to a limit: all of them, or as many as the limit.
LEMMA ListedSize ==
    ASSUME NEW moment, NEW S, IsFiniteSet(S), \A r \in S : moment.place[r] \in Nat,
           \A q, r \in S : moment.place[q] = moment.place[r] => q = r, NEW n \in Nat
    PROVE  /\ Cardinality(S) \in Nat /\ Listed(moment, S, n) \subseteq S
           /\ Cardinality(Listed(moment, S, n)) = IF Cardinality(S) < n THEN Cardinality(S) ELSE n
           /\ Cardinality(S) <= n => Listed(moment, S, n) = S
  <1> DEFINE Before(r) == {q \in S : moment.place[q] < moment.place[r]}
             rank == [r \in S |-> Cardinality(Before(r))]
             m == Cardinality(S)
             listed == Listed(moment, S, n)
             k == IF m < n THEN m ELSE n
  <1>1. m \in Nat
    BY FS_CardinalityType
  <1>2. ASSUME NEW r \in S
        PROVE  IsFiniteSet(Before(r)) /\ rank[r] \in 0 .. m - 1
    <2>1. Before(r) \in SUBSET S /\ Before(r) # S
      BY <1>2
    <2>2. IsFiniteSet(Before(r)) /\ Cardinality(Before(r)) <= m /\ Cardinality(Before(r)) # m
      BY <2>1, FS_Subset
    <2>3. Cardinality(Before(r)) \in Nat
      BY <2>2, FS_CardinalityType
    <2> QED
      BY <1>1, <1>2, <2>2, <2>3
  <1>3. ASSUME NEW q \in S, NEW r \in S, moment.place[q] < moment.place[r]
        PROVE  rank[q] < rank[r]
    <2>1. Before(q) \in SUBSET Before(r) /\ q \in Before(r) /\ q \notin Before(q)
      BY <1>3
    <2>2. IsFiniteSet(Before(r)) /\ IsFiniteSet(Before(q))
      BY <1>2
    <2>3. Cardinality(Before(q)) <= Cardinality(Before(r))
          /\ Cardinality(Before(q)) # Cardinality(Before(r))
      BY <2>1, <2>2, FS_Subset
    <2>4. Cardinality(Before(q)) \in Nat /\ Cardinality(Before(r)) \in Nat
      BY <2>2, FS_CardinalityType
    <2>5. rank[q] = Cardinality(Before(q)) /\ rank[r] = Cardinality(Before(r))
      OBVIOUS
    <2> HIDE DEF rank, Before
    <2> QED
      BY <2>3, <2>4, <2>5
  <1>4. \A q, r \in S : rank[q] = rank[r] => q = r
    <2>3. \A r \in S : rank[r] \in 0 .. m - 1
      BY <1>2
    <2> HIDE DEF rank, m
    <2>1. \A r \in S : rank[r] \in Int /\ moment.place[r] \in Nat
      BY <1>1, <2>3
    <2>2. \A q, r \in S : moment.place[q] < moment.place[r] => rank[q] < rank[r]
      BY <1>3
    <2> QED
      BY <2>1, <2>2
  <1>5. rank \in Surjection(S, 0 .. m - 1)
    <2>1. rank \in [S -> 0 .. m - 1]
      BY <1>2
    <2>2. rank \in Injection(S, 0 .. m - 1)
      BY <1>4, <2>1 DEF Injection, IsInjective
    <2>3. IsFiniteSet(0 .. m - 1) /\ Cardinality(0 .. m - 1) = m
      BY <1>1, FS_Interval
    <2> QED
      BY <2>2, <2>3, FS_Injection
  <1>6. listed = {r \in S : rank[r] < n}
    BY DEF Listed
  <1>7. k \in Nat /\ k <= m /\ IsFiniteSet(0 .. k - 1) /\ Cardinality(0 .. k - 1) = k
    <2>1. k \in Nat /\ k <= m
      BY <1>1
    <2> HIDE DEF k
    <2> QED
      BY <2>1, FS_Interval
  <1>10. \A r \in S : rank[r] \in 0 .. m - 1
    BY <1>2
  <1>11. \A x \in Int : x \in 0 .. k - 1 <=> x \in 0 .. m - 1 /\ x < n
    BY <1>1
  <1> HIDE DEF rank, listed, k, m
  <1>8. Cardinality(listed) = k
    <2> DEFINE f == [r \in listed |-> rank[r]]
    <2>1. f \in [listed -> 0 .. k - 1]
      BY <1>6, <1>10, <1>11
    <2>2. \A t \in 0 .. k - 1 : \E r \in listed : f[r] = t
      BY <1>1, <1>5, <1>6, <1>11 DEF Surjection
    <2>3. f \in Bijection(listed, 0 .. k - 1)
      BY <1>4, <1>6, <2>1, <2>2 DEF Bijection, Injection, Surjection, IsInjective
    <2>4. IsFiniteSet(listed)
      BY <1>6, FS_Subset
    <2> QED
      BY <1>7, <2>3, <2>4, FS_Bijection DEF ExistsBijection
  <1>9. m <= n => listed = S
    BY <1>1, <1>6, <1>10
  <1> QED
    BY <1>1, <1>6, <1>8, <1>9 DEF listed, k, m

\* The columns share no state, and each state a report can be in has one.
LEMMA PhaseIs ==
    ASSUME NEW state \in CaseStates \union {"NEEDS_DECISION"}
    PROVE  /\ PhaseOf(state) \in DOMAIN Columns /\ state \in Columns[PhaseOf(state)]
           /\ \A key \in DOMAIN Columns : state \in Columns[key] => key = PhaseOf(state)
           /\ PhaseOf(state) = "awaitingApproval" <=> state = "AWAITING_APPROVAL"
           /\ PhaseOf(state) \in {"delivered", "closed"} <=>
                state \in Terminal \union {"DELIVERING"}
  <1>1. \E key \in DOMAIN Columns : state \in Columns[key]
    BY DEF Columns, CaseStates, Terminal
  <1>2. PhaseOf(state) \in DOMAIN Columns /\ state \in Columns[PhaseOf(state)]
    BY <1>1 DEF PhaseOf
  <1>3. \A key, other \in DOMAIN Columns :
           state \in Columns[key] /\ state \in Columns[other] => key = other
    BY DEF Columns
  <1> QED
    BY <1>2, <1>3 DEF Columns, Terminal

\* A report that moves to the front keeps the places apart.
LEMMA FrontFits ==
    ASSUME board.place \in [Reports -> Nat], PlacesApart(board.place), NEW r \in Reports
    PROVE  /\ ToFront(r) \in [Reports -> Nat] /\ PlacesApart(ToFront(r))
           /\ ToFront(r)[r] # 0
           /\ \A q \in Reports : q # r => (ToFront(r)[q] = 0 <=> board.place[q] = 0)
  <1> DEFINE place == board.place
             Passed(q) == place[q] # 0 /\ (place[r] = 0 \/ place[q] < place[r])
             front == ToFront(r)
  <1>1. front = [q \in Reports |-> IF q = r THEN 1
                                   ELSE IF Passed(q) THEN place[q] + 1 ELSE place[q]]
    BY DEF ToFront
  <1>2. place \in [Reports -> Nat] /\ \A q, s \in Reports : place[q] = place[s] /\ place[q] # 0 => q = s
    BY DEF PlacesApart
  <1> HIDE DEF front, place
  <1>3. front \in [Reports -> Nat] /\ front[r] = 1
    BY <1>1, <1>2
  <1>4. ASSUME NEW q \in Reports, q # r
        PROVE  /\ front[q] = 0 <=> place[q] = 0
               /\ front[q] # 1
    BY <1>1, <1>2, <1>4
  <1>5. ASSUME NEW q \in Reports, NEW s \in Reports, q # r, s # r, front[q] = front[s],
               front[q] # 0
        PROVE  q = s
    BY <1>1, <1>2, <1>5
  <1>6. PlacesApart(front)
    BY <1>3, <1>4, <1>5 DEF PlacesApart
  <1> QED
    BY <1>3, <1>4, <1>6 DEF front, place

LEMMA BoardStart ==
    ASSUME NEW mail \in BOOLEAN, NEW gated \in BOOLEAN, NEW n \in Nat,
           BoardsInit(mail, gated, n)
    PROVE  RowsInv /\ BoardFits /\ ReaderFits
  <1>1. RowsInv
    BY RowsStart DEF BoardsInit
  <1>2. case.state = "TRIAGING"
    BY DEF BoardsInit, CaseInit
  <1>3. board \in BoardRow
    BY DEF BoardsInit, BoardRow
  <1>4. /\ board.place = [r \in Reports |-> IF r = Watched THEN 1 ELSE 0]
        /\ board.state = [o \in Neighbours |-> "NONE"]
    BY DEF BoardsInit
  <1>5. PlacesApart(board.place) /\ \A o \in Neighbours : board.place[o] = 0
    BY <1>4, BoardsAssumption DEF PlacesApart, Reports
  <1>6. BoardFits
    BY <1>2, <1>3, <1>4, <1>5 DEF BoardFits
  <1>7. ReaderFits
    BY DEF BoardsInit, ReaderFits, BoardIsOneMoment, InboxIsOneMoment, Got, NoAnswer
  <1> QED
    BY <1>1, <1>6, <1>7

\* Every report there is, from one snapshot.
LEMMA SnapshotIsTaken ==
    ASSUME RowsInv, BoardFits
    PROVE  Snapshot(Now)
  <1>1. case.state \in CaseStates /\ board \in BoardRow
    BY DEF RowsInv, RowsTyped, CaseRow, BoardFits
  <1>2. /\ Now.place = board.place
        /\ \A r \in Reports : Now.row[r] = RowNow(r)
    BY DEF Now
  <1>3. \A s, v, w : [state |-> s, visible |-> v, awaits |-> w].state = s
    OBVIOUS
  <1>4. ASSUME NEW r \in Reports
        PROVE  Now.place[r] # 0 => Now.row[r].state \in CaseStates \union {"NEEDS_DECISION"}
    <2>1. CASE r = Watched
      <3> DEFINE visible == ~board.hidden
                 awaits == AwaitingReview
      <3>3. RowNow(r) = [state |-> ReportState, visible |-> visible, awaits |-> awaits]
        BY <2>1, Zenon DEF RowNow
      <3> HIDE DEF visible, awaits
      <3>4. RowNow(r).state = ReportState
        BY <1>3, <3>3, Zenon
      <3>1. Now.row[r].state = ReportState
        BY <1>2, <1>4, <3>4
      <3>2. ReportState \in CaseStates \union {"NEEDS_DECISION"}
        BY <1>1 DEF ReportState
      <3> QED
        BY <3>1, <3>2
    <2>2. CASE r # Watched
      <3>1. r \in Neighbours /\ board.state[r] \in FiledStates \union {"NONE"}
        <4>1. r \in Neighbours
          BY <2>2 DEF Reports
        <4>2. board.state \in [Neighbours -> FiledStates \union {"NONE"}]
          BY <1>1 DEF BoardRow
        <4> QED
          BY <4>1, <4>2
      <3>2. Now.row[r].state = board.state[r]
        <4>1. RowNow(r) = [state |-> board.state[r], visible |-> TRUE, awaits |-> FALSE]
          BY <2>2, Zenon DEF RowNow
        <4>2. RowNow(r).state = board.state[r]
          BY <1>3, <4>1, Zenon
        <4> QED
          BY <1>2, <1>4, <4>2
      <3>3. board.place[r] # 0 => board.state[r] # "NONE"
        BY <3>1 DEF BoardFits
      <3> QED
        BY <1>2, <1>4, <3>1, <3>2, <3>3 DEF FiledStates, CaseStates, Terminal
    <2> QED
      BY <2>1, <2>2
  <1> QED
    BY <1>1, <1>2, <1>4 DEF Snapshot, VisibleIn, BoardFits, BoardRow

\* A list over a snapshot: each column stops at its limit and says so, and the
\* index leaves nobody out who waits.
LEMMA SnapshotIsListed ==
    ASSUME NEW moment, Snapshot(moment), NEW rows \in SUBSET VisibleIn(moment), NEW n \in Nat
    PROVE  /\ Cardinality(rows) \in Nat /\ Listed(moment, rows, n) \subseteq rows
           /\ Cardinality(Listed(moment, rows, n)) =
                IF Cardinality(rows) < n THEN Cardinality(rows) ELSE n
           /\ Cardinality(rows) <= n => Listed(moment, rows, n) = rows
  <1>1. IsFiniteSet(Reports)
    BY BoardsAssumption, FS_AddElement DEF Reports
  <1>2. IsFiniteSet(rows)
    BY <1>1, FS_Subset DEF VisibleIn
  <1>3. /\ \A r \in rows : moment.place[r] \in Nat
        /\ \A q, r \in rows : moment.place[q] = moment.place[r] => q = r
    BY DEF VisibleIn, Snapshot, PlacesApart
  <1> QED
    BY <1>2, <1>3, ListedSize

LEMMA BoardIsRead ==
    ASSUME Snapshot(reader.snap), reader'.answer.kind = "board", ReadRest,
           reader'.answer.totals = Totals(reader.snap), reader'.answer.of = reader.snap,
           reader'.answer.cards = [key \in DOMAIN Columns |-> CardsFor(reader.snap, key)]
    PROVE  BoardIsOneMoment'
  <1> DEFINE moment == reader.snap
             answer == reader'.answer
  <1>1. ASSUME NEW key \in DOMAIN Columns
        PROVE  /\ InColumn(moment, key) \in SUBSET VisibleIn(moment)
               /\ answer.totals[key] = Cardinality(InColumn(moment, key))
               /\ answer.cards[key] = Listed(moment, InColumn(moment, key), ColumnLimit)
    BY <1>1 DEF InColumn, Totals, CardsFor
  <1>2. ASSUME NEW key \in DOMAIN Columns
        PROVE  /\ answer.totals[key] \in Nat /\ answer.cards[key] \subseteq InColumn(moment, key)
               /\ Cardinality(answer.cards[key]) =
                    IF answer.totals[key] < ColumnLimit THEN answer.totals[key] ELSE ColumnLimit
               /\ answer.totals[key] <= ColumnLimit => answer.cards[key] = InColumn(moment, key)
    BY <1>1, BoardsAssumption, SnapshotIsListed
  <1>3. ASSUME NEW r \in VisibleIn(moment)
        PROVE  LET key == PhaseOf(moment.row[r].state)
               IN key \in DOMAIN Columns /\ r \in InColumn(moment, key)
    BY PhaseIs DEF Snapshot, InColumn
  <1>4. ASSUME NEW r \in VisibleIn(moment)
        PROVE  \/ \E key \in DOMAIN Columns : r \in answer.cards[key]
               \/ LET key == PhaseOf(moment.row[r].state)
                  IN answer.totals[key] > Cardinality(answer.cards[key])
    <2> DEFINE key == PhaseOf(moment.row[r].state)
    <2>1. key \in DOMAIN Columns /\ r \in InColumn(moment, key)
      BY <1>3
    <2> HIDE DEF key
    <2> SUFFICES ASSUME r \notin answer.cards[key]
                 PROVE  answer.totals[key] > Cardinality(answer.cards[key])
      BY <2>1 DEF key
    <2> QED
      BY <1>2, <2>1, BoardsAssumption
  <1>5. \A key \in DOMAIN Columns : \A r \in answer.cards[key] :
           moment.row[r].state \in Columns[key]
    BY <1>2 DEF InColumn
  <1> QED
    BY <1>2, <1>4, <1>5 DEF BoardIsOneMoment, Got, SaysMore

LEMMA InboxIsRead ==
    ASSUME Snapshot(reader.snap), reader'.answer.kind = "inbox", ReadRest,
           reader'.answer.needs = NeedsYou(reader.snap), reader'.answer.of = reader.snap,
           reader'.answer.earlier = AllReports(reader.snap) \ NeedsYou(reader.snap),
           reader'.answer.truncated = (Cardinality(AllReports(reader.snap)) >= IndexLimit)
    PROVE  InboxIsOneMoment'
  <1> DEFINE moment == reader.snap
             shown == AllReports(moment)
             visible == VisibleIn(moment)
  <1>1. /\ Cardinality(visible) \in Nat /\ IndexLimit \in Nat
        /\ Cardinality(shown) = IF Cardinality(visible) < IndexLimit THEN Cardinality(visible)
                                                                     ELSE IndexLimit
        /\ Cardinality(visible) <= IndexLimit => shown = visible
    BY BoardsAssumption, SnapshotIsListed DEF AllReports
  <1>2. \A r \in visible : moment.row[r].awaits => r \in NeedsYou(moment)
    BY DEF NeedsYou
  <1> HIDE DEF shown
  <1>3. \A r \in visible : r \in shown \/ Cardinality(shown) >= IndexLimit
    BY <1>1
  <1> QED
    BY <1>2, <1>3 DEF InboxIsOneMoment, Got, shown

LEMMA ReadFits ==
    ASSUME RowsInv, BoardFits, ReaderFits,
           ReadRest \/ \E kind \in {"board", "inbox"} : ReadFirst(kind)
    PROVE  RowsInv' /\ BoardFits' /\ ReaderFits'
  <1>1. UNCHANGED <<case, board>>
    BY DEF ReadFirst, ReadRest
  <1>2. RowsInv'
    BY <1>1, RowsUnchanged
  <1>3. BoardFits'
    BY <1>1 DEF BoardFits, PlacesApart
  <1>4. ASSUME NEW kind \in {"board", "inbox"}, ReadFirst(kind)
        PROVE  ReaderFits'
    <2>1. /\ reader'.at = "between" /\ reader'.kind = kind /\ reader'.snap = Now
          /\ reader'.answer = NoAnswer
          /\ reader'.first = IF kind = "board" THEN Totals(Now) ELSE NeedsYou(Now)
          /\ DOMAIN reader' = {"at", "kind", "snap", "reads", "commits", "answer", "first"}
      BY <1>4 DEF ReadFirst
    <2>2. Snapshot(Now)
      BY SnapshotIsTaken
    <2>3. BoardIsOneMoment' /\ InboxIsOneMoment'
      BY <2>1 DEF BoardIsOneMoment, InboxIsOneMoment, Got, NoAnswer
    <2> QED
      BY <2>1, <2>2, <2>3 DEF ReaderFits, Snapshot, VisibleIn, Totals, NeedsYou, InColumn
  <1>5. CASE ReadRest
    <2> DEFINE moment == reader.snap
               answer == IF reader.kind = "board"
                         THEN [kind |-> "board", totals |-> reader.first, of |-> reader.snap,
                               cards |-> [key \in DOMAIN Columns |-> CardsFor(moment, key)]]
                         ELSE [kind |-> "inbox", needs |-> reader.first, of |-> reader.snap,
                               earlier |-> AllReports(moment) \ reader.first,
                               truncated |-> Cardinality(AllReports(moment)) >= IndexLimit]
    <2>1. /\ {"at", "commits", "answer", "kind", "snap", "first"} \subseteq DOMAIN reader
          /\ Snapshot(moment) /\ reader.kind \in {"board", "inbox"}
          /\ reader.first = IF reader.kind = "board" THEN Totals(moment) ELSE NeedsYou(moment)
      BY <1>5 DEF ReaderFits, ReadRest
    <2>2. reader' = [reader EXCEPT !.at = "idle", !.answer = answer]
      BY <1>5 DEF ReadRest, Sees
    <2> HIDE DEF answer
    <2>3. /\ reader'.answer = answer /\ reader'.at = "idle"
          /\ {"at", "commits", "answer"} \subseteq DOMAIN reader'
      BY <2>1, <2>2
    <2>4. CASE reader.kind = "board"
      <3>1. /\ reader'.answer.kind = "board" /\ reader'.answer.totals = Totals(moment)
            /\ reader'.answer.of = reader.snap
            /\ reader'.answer.cards = [key \in DOMAIN Columns |-> CardsFor(moment, key)]
        BY <2>1, <2>3, <2>4 DEF answer
      <3>2. BoardIsOneMoment'
        BY <1>5, <2>1, <3>1, BoardIsRead
      <3>3. InboxIsOneMoment'
        BY <3>1 DEF InboxIsOneMoment, Got
      <3> QED
        BY <1>2, <1>3, <2>3, <3>2, <3>3 DEF ReaderFits
    <2>5. CASE reader.kind = "inbox"
      <3>1. /\ reader'.answer.kind = "inbox" /\ reader'.answer.needs = NeedsYou(moment)
            /\ reader'.answer.of = reader.snap
            /\ reader'.answer.earlier = AllReports(moment) \ NeedsYou(moment)
            /\ reader'.answer.truncated = (Cardinality(AllReports(moment)) >= IndexLimit)
        BY <2>1, <2>3, <2>5 DEF answer
      <3>2. InboxIsOneMoment'
        BY <1>5, <2>1, <3>1, InboxIsRead
      <3>3. BoardIsOneMoment'
        BY <3>1 DEF BoardIsOneMoment, Got
      <3> QED
        BY <1>2, <1>3, <2>3, <3>2, <3>3 DEF ReaderFits
    <2> QED
      BY <2>1, <2>4, <2>5
  <1> QED
    BY <1>2, <1>3, <1>4, <1>5

\* A commit while a list is read leaves what the list has found alone.
LEMMA CountedFits ==
    ASSUME ReaderFits, Counted
    PROVE  ReaderFits'
  <1>1. /\ reader'.at = reader.at /\ reader'.answer = reader.answer
        /\ DOMAIN reader' = DOMAIN reader
        /\ reader.at = "between" => /\ reader'.kind = reader.kind
                                    /\ reader'.snap = reader.snap
                                    /\ reader'.first = reader.first
    BY DEF Counted, ReaderFits
  <1>2. BoardIsOneMoment' /\ InboxIsOneMoment'
    BY <1>1 DEF ReaderFits, BoardIsOneMoment, InboxIsOneMoment, Got, SaysMore
  <1>3. CASE reader.at = "between"
    BY <1>1, <1>2, <1>3 DEF ReaderFits, Snapshot, VisibleIn, Totals, NeedsYou, InColumn
  <1>4. CASE reader.at # "between"
    BY <1>1, <1>2, <1>4 DEF ReaderFits
  <1> QED
    BY <1>3, <1>4

LEMMA WatchedFits ==
    ASSUME RowsInv, BoardFits, WatchedMoves
    PROVE  RowsInv' /\ BoardFits'
  <1>1. case \in CaseRow /\ board \in BoardRow /\ PlacesApart(board.place)
    BY DEF RowsInv, RowsTyped, BoardFits
  <1>2. RowsInv'
    <2>1. CASE CaseMoves
      <3>1. RowsMove
        BY <2>1, CaseFileAssumption DEF CaseMoves, Kinds, RowsMove
      <3> QED
        BY <3>1, RowsMoveFits DEF RowsFollow
    <2>2. CASE UNCHANGED case
      BY <2>2, RowsUnchanged
    <2>3. CASE board.gate /\ case' = [case EXCEPT !.state = "DENIED"]
      <3>1. case.state \notin Terminal
        BY <2>3 DEF BoardFits, Terminal
      <3> QED
        BY <2>3, <3>1, EndedFits
    <2> QED
      BY <2>1, <2>2, <2>3 DEF WatchedMoves
  <1>3. board' = [board EXCEPT !.gate = FALSE, !.place = Shifts(case'.state)]
    BY DEF WatchedMoves
  <1>4. /\ Shifts(case'.state) \in [Reports -> Nat] /\ PlacesApart(Shifts(case'.state))
        /\ \A o \in Neighbours : Shifts(case'.state)[o] = 0 <=> board.place[o] = 0
    BY <1>1, FrontFits, BoardsAssumption DEF Shifts, Reports, BoardRow
  <1>5. /\ board' \in BoardRow /\ ~board'.gate /\ board'.state = board.state
        /\ board'.place = Shifts(case'.state)
    BY <1>1, <1>3, <1>4 DEF BoardRow
  <1>6. PlacesApart(board.place)'
    BY <1>4, <1>5 DEF PlacesApart
  <1> QED
    BY <1>2, <1>4, <1>5, <1>6 DEF BoardFits

LEMMA BoardsFit ==
    ASSUME RowsInv, BoardFits, ReaderFits, BoardsNext
    PROVE  RowsInv' /\ BoardFits' /\ ReaderFits'
  <1>1. case \in CaseRow /\ board \in BoardRow /\ PlacesApart(board.place)
    BY DEF RowsInv, RowsTyped, BoardFits
  <1>2. CASE WatchedMoves
    BY <1>2, WatchedFits, CountedFits DEF WatchedMoves
  <1>3. CASE JobDies
    <2>1. RowsInv'
      BY <1>3, TurnFits DEF JobDies, TurnStates
    <2>2. case'.state = case.state
      BY <1>1, <1>3 DEF JobDies, CaseRow
    <2>3. /\ board' \in BoardRow /\ board'.gate = board.gate /\ board'.state = board.state
          /\ board'.place = board.place
      BY <1>1, <1>3 DEF JobDies, BoardRow
    <2> QED
      BY <1>3, <2>1, <2>2, <2>3, CountedFits DEF JobDies, BoardFits, PlacesApart
  <1>4. CASE Hide
    <2>1. RowsInv'
      BY <1>4, RowsUnchanged DEF Hide
    <2>2. /\ board' \in BoardRow /\ board'.gate = board.gate /\ board'.state = board.state
          /\ board'.place = board.place
      BY <1>1, <1>4 DEF Hide, BoardRow
    <2> QED
      BY <1>4, <2>1, <2>2, CountedFits DEF Hide, BoardFits, PlacesApart
  <1>5. ASSUME NEW o \in Neighbours, OtherMoves(o)
        PROVE  RowsInv' /\ BoardFits' /\ ReaderFits'
    <2>1. PICK s \in FiledStates :
             board' = [board EXCEPT !.state[o] = s, !.place = ToFront(o)]
      BY <1>5 DEF OtherMoves, FiledStates
    <2>2. /\ ToFront(o) \in [Reports -> Nat] /\ PlacesApart(ToFront(o)) /\ ToFront(o)[o] # 0
          /\ \A q \in Reports : q # o => (ToFront(o)[q] = 0 <=> board.place[q] = 0)
      BY <1>1, FrontFits DEF Reports, BoardRow
    <2>3. /\ board' \in BoardRow /\ board'.gate = board.gate /\ board'.place = ToFront(o)
          /\ board'.state = [board.state EXCEPT ![o] = s]
      BY <1>1, <2>1, <2>2 DEF BoardRow
    <2>4. \A q \in Neighbours : board'.place[q] = 0 <=> board'.state[q] = "NONE"
      BY <1>1, <2>2, <2>3 DEF BoardFits, BoardRow, Reports, FiledStates
    <2>5. PlacesApart(board.place)'
      BY <2>2, <2>3 DEF PlacesApart
    <2>6. RowsInv' /\ UNCHANGED case
      BY <1>5, RowsUnchanged DEF OtherMoves
    <2> QED
      BY <1>5, <2>3, <2>4, <2>5, <2>6, CountedFits DEF OtherMoves, BoardFits
  <1> QED
    BY <1>2, <1>3, <1>4, <1>5, ReadFits DEF BoardsNext

\* What a list says of one report, from its rows.
LEMMA ReportStateIs ==
    ASSUME RowsInv, BoardFits
    PROVE  /\ ReportState \in CaseStates \union {"NEEDS_DECISION"}
           /\ ReportState = "NEEDS_DECISION" <=> board.gate
           /\ ~board.gate => ReportState = case.state
           /\ board.gate => case.pending = 0 /\ case.delivery = NoDelivery
           /\ case.pending # 0 => case.pending = Newest
           /\ PendingVerdict # 0 => case.pending # 0
  <1>1. case.state \in CaseStates
    BY DEF RowsInv, RowsTyped, CaseRow
  <1>2. board.gate => case.state = "TRIAGING"
    BY DEF BoardFits
  <1> QED
    BY <1>1, <1>2, TriageIsQuiet
       DEF ReportState, CaseStates, Terminal, PendingVerdict, RowsInv, PendingIsNewest

LEMMA WaitingIsOne ==
    ASSUME RowsInv, BoardFits
    PROVE  OneWaiting
  <1>1. case.pending \in Nat /\ case.decision \in [Revision -> {"NONE", "APPROVED", "DENIED"}]
    BY DEF RowsInv, RowsTyped, CaseRow
  <1>2. case.pending # 0 => case.pending = Newest /\ Newest # 0 /\ Newest \in Revision
    BY <1>1, CaseFileAssumption DEF RowsInv, PendingIsNewest, RowsTyped, CaseRow, Revision, Newest
  <1>3. /\ AwaitingVerdict = IF PendingShown /\ case.decision[case.pending] = "NONE"
                             THEN case.pending ELSE 0
        /\ PendingShown <=> case.pending # 0 /\ Reviewable(case.pending)
    BY DEF AwaitingVerdict, DecisionShown, Latest, PendingShown
  <1>4. PendingVerdict = IF case.pending # 0 /\ case.decision[case.pending] = "NONE"
                         THEN case.pending ELSE 0
    BY DEF PendingVerdict
  <1>5. case.pending # 0 => LatestOutcome = Draft(case.pending).kind
    BY <1>2 DEF LatestOutcome
  <1>6. /\ board.gate => case.pending = 0 /\ ReportState = "NEEDS_DECISION"
        /\ ~board.gate => ReportState = case.state
    BY ReportStateIs
  <1>7. /\ case.state = "AWAITING_APPROVAL" => case.pending # 0
        /\ case.state = "ANALYSIS_ONLY" /\ case.pending # 0 =>
              Draft(case.pending).kind = "ANALYSIS_ONLY"
    BY DEF RowsInv, AwaitingIsPending, AnalysisIsPending
  <1>8. CardAwaiting = AwaitingVerdict /\ (AwaitingReview <=> CardAwaiting # 0)
        /\ (SidebarFirst <=> AwaitingReview)
    BY <1>3, <1>4, <1>5, <1>6, <1>7 DEF CardAwaiting, AwaitingReview, SidebarFirst, Reviewable
  <1>9. Chips.waiting <=> CardAwaiting # 0
    <2> DEFINE open == ReportState \notin Terminal
               closed == ReportState \in Terminal
               waiting == CardAwaiting # 0
    <2>1. Chips = [open |-> open, closed |-> closed, waiting |-> waiting]
      BY DEF Chips
    <2> HIDE DEF open, closed, waiting
    <2>2. Chips.waiting = waiting
      BY <2>1
    <2> QED
      BY <2>2, Zenon DEF waiting
  <1>10. case.pending # 0 /\ ReportState \in {"AWAITING_APPROVAL", "ANALYSIS_ONLY"} =>
            case.decision[case.pending] \in {"NONE", "APPROVED"}
    BY <1>1, <1>2, <1>6 DEF RowsInv, DeniedIsOver
  <1>11. HomeAwaiting <=> (AwaitingReview \/ Answered)
    BY <1>3, <1>4, <1>5, <1>6, <1>7, <1>10
       DEF HomeAwaiting, AwaitingReview, Answered, Reviewable
  <1>12. Rail <=> ReportState = "AWAITING_APPROVAL"
    BY ReportStateIs, PhaseIs DEF Rail
  <1>13. /\ Rail => AwaitingReview \/ Answered
         /\ AwaitingReview => Rail \/ ReportState = "ANALYSIS_ONLY"
    BY <1>3, <1>4, <1>6, <1>7, <1>10, <1>12 DEF AwaitingReview, Answered, Reviewable
  <1>14. Pill = "approval" <=> AwaitingReview \/ Rail
    BY <1>8, <1>12 DEF Pill, PhonePhase
  <1> QED
    BY <1>8, <1>9, <1>11, <1>13, <1>14 DEF OneWaiting

LEMMA OpenIsOne ==
    ASSUME RowsInv, BoardFits
    PROVE  OneOpen
  <1>1. ReportState \in CaseStates \union {"NEEDS_DECISION"}
    BY ReportStateIs
  <1>2. QueueOpen <=> ReportState \notin Terminal \union {"DELIVERING"}
    BY <1>1, PhaseIs DEF QueueOpen
  <1>3. Chips.open <=> HomeOpen
    <2> DEFINE open == ReportState \notin Terminal
               closed == ReportState \in Terminal
               waiting == CardAwaiting # 0
    <2>1. Chips = [open |-> open, closed |-> closed, waiting |-> waiting]
      BY DEF Chips
    <2> HIDE DEF open, closed, waiting
    <2>2. Chips.open = open
      BY <2>1
    <2> QED
      BY <2>2, Zenon DEF open, HomeOpen
  <1>4. HomeOpen <=> QueueOpen \/ ReportState = "DELIVERING"
    BY <1>2 DEF HomeOpen, Terminal
  <1>5. InSections = IF QueueOpen THEN {PhonePhase} ELSE {}
    <2>1. /\ Shared("approval") = {"AWAITING_APPROVAL"} /\ Shared("reproducing") = {"REPRODUCING"}
          /\ Shared("analysis") = {"ANALYSIS_ONLY"}
          /\ Shared("triaging") = {"TRIAGING", "NEEDS_DECISION"}
      BY DEF Shared, Section, Columns
    <2>2. DOMAIN Section = {"approval", "reproducing", "analysis", "triaging"}
      BY DEF Section
    <2>3. \A phase : phase \in InSections <=> phase \in DOMAIN Section
                                              /\ ReportState \in Shared(phase)
      BY DEF InSections
    <2>4. CASE QueueOpen
      <3>1. ReportState \in {"TRIAGING", "NEEDS_DECISION", "REPRODUCING", "ANALYSIS_ONLY",
                             "AWAITING_APPROVAL"}
        BY <1>1, <1>2, <2>4 DEF CaseStates, Terminal
      <3>2. \A phase : phase \in InSections <=> phase = PhonePhase
        BY <2>1, <2>2, <2>3, <3>1 DEF PhonePhase
      <3> QED
        BY <2>4, <3>2
    <2>5. CASE ~QueueOpen
      <3>1. \A phase : phase \notin InSections
        BY <1>2, <2>1, <2>2, <2>3, <2>5 DEF Terminal
      <3> QED
        BY <2>5, <3>1
    <2> QED
      BY <2>4, <2>5
  <1>6. Cardinality({PhonePhase}) = 1 /\ Cardinality({}) = 0
    BY FS_Singleton, FS_EmptySet
  <1>7. QueueOpen <=> Cardinality(InSections) = 1
    BY <1>5, <1>6
  <1> QED
    BY <1>3, <1>4, <1>5, <1>7 DEF OneOpen

LEMMA SpinnersAreTrue ==
    ASSUME RowsInv, BoardFits
    PROVE  SpinnerIsTrue
  <1> SUFFICES ASSUME Spins
               PROVE  WorkedOn
    BY DEF SpinnerIsTrue
  <1>1. ReportState = case.state /\ case.state \in {"TRIAGING", "REPRODUCING", "DELIVERING"}
    BY ReportStateIs DEF Spins, Running
  <1>2. CASE case.state = "TRIAGING"
    <2>1. ~LatestSuperseded
      BY <1>2, TriageIsQuiet DEF LatestSuperseded
    <2> QED
      BY <1>1, <1>2, <2>1 DEF Spins, StalledFirstRun, WorkedOn
  <1>3. CASE case.state = "REPRODUCING"
    BY <1>3 DEF RowsInv, RecheckIsOpen, Spins, RecheckFailed, LatestSuperseded, WorkedOn
  <1>4. CASE case.state = "DELIVERING"
    <2>1. /\ case.delivery # NoDelivery /\ Newest \in Revision
          /\ case.decision[Newest] = "APPROVED"
      BY <1>4 DEF RowsInv, DeliveryFits
    <2>2. LatestDelivery = case.delivery.state
      BY <2>1 DEF LatestDelivery, Revision
    <2>3. case.delivery.state \in {"NONE", "PENDING", "SENT", "FAILED"}
      BY DEF RowsInv, RowsTyped, CaseRow, DeliveryRow
    <2>4. case.delivery.state # "NONE"
      BY <2>1 DEF RowsInv, DeliveryFits
    <2>5. CASE case.delivery.state = "SENT"
      BY <1>4, <2>5 DEF RowsInv, DeliveryFits, AwaitsReceipt, WorkedOn
    <2>6. CASE case.delivery.state = "PENDING"
      BY <2>6 DEF RowsInv, DeliveryFits, Sendable, WorkedOn
    <2> QED
      BY <2>2, <2>3, <2>4, <2>5, <2>6 DEF Spins, Stalled
  <1> QED
    BY <1>1, <1>2, <1>3, <1>4

LEMMA BoardMeansIt ==
    ASSUME RowsInv, BoardFits, ReaderFits
    PROVE  ListsAreTrue
  BY WaitingIsOne, OpenIsOne, SpinnersAreTrue DEF ListsAreTrue, ReaderFits

-----------------------------------------------------------------------------
(* The report and the screens on it.                                       *)

\* What no step leaves: the rows fit each other, each screen sends what was
\* chosen on it, and the rows beside the report's fit the report.
ScreensInv == /\ screen \in {"tab", "phone", "controls", "boards"}
              /\ RowsInv /\ TabFits /\ PhoneFits /\ PhoneSignsWhatItShowed
              /\ screen = "controls" => DeskFits
              /\ screen = "boards" => BoardFits /\ ReaderFits

LEMMA ScreensStart ==
    ASSUME Init
    PROVE  ScreensInv
  <1>1. PhoneFits /\ PhoneSignsWhatItShowed
    BY DEF Init, PhoneInit, PhoneFits, PhoneSignsWhatItShowed
  <1>2. TabFits
    BY DEF Init, TabInit, TabFits, DialogFits, Closed
  <1>3. CASE screen \in {"tab", "phone"}
    <2>1. \E mail \in BOOLEAN : CaseInit(mail, Rechecks)
      BY <1>3 DEF Init
    <2> QED
      BY <1>1, <1>2, <1>3, <2>1, RowsStart, RechecksAssumption DEF ScreensInv
  <1>4. CASE screen = "controls"
    BY <1>1, <1>2, <1>4, DeskStart DEF Init, ScreensInv
  <1>5. CASE screen = "boards"
    BY <1>1, <1>2, <1>5, BoardStart, RechecksAssumption DEF Init, ScreensInv
  <1> QED
    BY <1>3, <1>4, <1>5 DEF Init

\* What a step changes of a dialog.
LEMMA DialogMoves ==
    ASSUME NEW d, DialogFits(d)
    PROVE  /\ DialogFits([d EXCEPT !.at = "open"])
           /\ \A result : DialogFits([d EXCEPT !.result = result])
           /\ \A named : d.at = "confirming" =>
                 DialogFits([d EXCEPT !.at = "sending", !.sent = named, !.result = "none"])
           /\ \A shown : \A outcome \in {"APPROVED", "DENIED", "RECHECK"} :
                 DialogFits([d EXCEPT !.outcome = outcome, !.chose = shown])
  BY DEF DialogFits

LEMMA DialogsFit ==
    /\ DialogFits(Closed) /\ DialogFits([Closed EXCEPT !.at = "open"])
    /\ DialogFits([Closed EXCEPT !.at = "open", !.result = "asked"])
    /\ \A d : DialogFits(Kept(d, "closed"))
    /\ \A d, shown : \A outcome \in {"APPROVED", "DENIED", "RECHECK"} :
          DialogFits([Kept(d, "confirming") EXCEPT !.outcome = outcome, !.chose = shown])
  <1>1. DialogFits(Closed) /\ \A d : DialogFits(Kept(d, "closed"))
    BY DEF DialogFits, Closed, Kept
  <1>2. /\ DialogFits([Closed EXCEPT !.at = "open"])
        /\ DialogFits([Closed EXCEPT !.at = "open", !.result = "asked"])
    BY DEF DialogFits, Closed
  <1>3. ASSUME NEW d, NEW shown, NEW outcome \in {"APPROVED", "DENIED", "RECHECK"}
        PROVE  DialogFits([Kept(d, "confirming") EXCEPT !.outcome = outcome, !.chose = shown])
    BY DEF DialogFits, Closed, Kept
  <1> QED
    BY <1>1, <1>2, <1>3

\* The tab's steps.
LEMMA TabMoves ==
    ASSUME RowsInv, TabFits, TabStep
    PROVE  /\ RowsInv' /\ TabFits' /\ UNCHANGED phone
           /\ \A s \in signed' \ signed : s.on # "phone"
  <1> DEFINE d == tab.dialog
             Shown(dialog) == /\ {"view", "fetch", "dialog"} \subseteq DOMAIN tab'
                              /\ tab'.dialog = dialog /\ DialogFits(dialog)
  <1>1. {"view", "fetch", "dialog"} \subseteq DOMAIN tab /\ DialogFits(d)
    BY DEF TabFits
  <1>2. ASSUME UNCHANGED <<case, phone, signed>>, \E dialog : Shown(dialog)
        PROVE  /\ RowsInv' /\ TabFits' /\ UNCHANGED phone
               /\ \A s \in signed' \ signed : s.on # "phone"
    BY <1>2, RowsUnchanged DEF TabFits, DialogFits
  <1>3. CASE Ask \/ Focus
    <2>1. Shown(d)
      BY <1>1, <1>3 DEF Ask, Focus
    <2> QED
      BY <1>2, <1>3, <2>1 DEF Ask, Focus
  <1>4. CASE Answer
    <2>1. \E dialog \in {Closed, d} : Shown(dialog)
      BY <1>1, <1>4, DialogsFit DEF Answer, Shows
    <2> QED
      BY <1>2, <1>4, <2>1 DEF Answer
  <1>5. CASE Open
    <2>1. Shown([d EXCEPT !.at = "open"])
      BY <1>1, <1>5, DialogMoves DEF Open
    <2> QED
      BY <1>2, <1>5, <2>1 DEF Open
  <1>6. CASE Choose
    <2>1. PICK outcome \in {"APPROVED", "DENIED", "RECHECK"} :
             tab' = [tab EXCEPT !.dialog = [Kept(d, "confirming") EXCEPT
                        !.outcome = outcome, !.chose = tab.view.awaiting]]
      BY <1>6 DEF Choose
    <2>2. Shown([Kept(d, "confirming") EXCEPT !.outcome = outcome, !.chose = tab.view.awaiting])
      BY <1>1, <2>1, DialogsFit
    <2> QED
      BY <1>2, <1>6, <2>2 DEF Choose
  <1>7. CASE Back
    <2>1. Shown(Kept(d, "closed"))
      BY <1>1, <1>7, DialogsFit DEF Back
    <2> QED
      BY <1>2, <1>7, <2>1 DEF Back
  <1>8. CASE Confirm
    <2>1. Shown([d EXCEPT !.at = "sending", !.sent = tab.view.awaiting, !.result = "none"])
      BY <1>1, <1>8, DialogMoves DEF Confirm
    <2> QED
      BY <1>2, <1>8, <2>1 DEF Confirm
  <1>9. CASE Lost
    <2>1. Shown([d EXCEPT !.result = "lost"])
      BY <1>1, <1>9, DialogMoves DEF Lost
    <2> QED
      BY <1>2, <1>9, <2>1 DEF Lost
  <1>10. CASE Returns
    <2>1. \E dialog \in {Closed, [Closed EXCEPT !.at = "open", !.result = "asked"],
                        [Closed EXCEPT !.at = "open"]} : Shown(dialog)
      BY <1>1, <1>10, DialogsFit DEF Returns
    <2> QED
      BY <1>2, <1>10, <2>1 DEF Returns
  <1>11. CASE Arrives
    <2>1. d.outcome \in {"APPROVED", "DENIED", "RECHECK"} /\ UNCHANGED phone
      BY <1>1, <1>11 DEF Arrives, DialogFits
    <2>2. \E result \in {"ok", "refused"} : tab' = [tab EXCEPT !.dialog = [d EXCEPT !.result = result]]
      BY <1>11 DEF Arrives
    <2>3. TabFits'
      <3>1. \A result \in {"ok", "refused"} : DialogFits([d EXCEPT !.result = result])
        BY <1>1, DialogMoves
      <3>2. \E dialog : Shown(dialog)
        BY <1>1, <2>2, <3>1
      <3> QED
        BY <3>2 DEF TabFits, DialogFits
    <2>4. RowsMove
      BY <1>11, <2>1 DEF Arrives, RowsMove
    <2>5. \A s \in signed' \ signed : s.on # "phone"
      BY <1>11 DEF Arrives
    <2> QED
      BY <2>1, <2>3, <2>4, <2>5, RowsMoveFits
  <1> QED
    BY <1>3, <1>4, <1>5, <1>6, <1>7, <1>8, <1>9, <1>10, <1>11 DEF TabStep

\* What others sign is not signed on the phone.
LEMMA PhoneStays ==
    ASSUME PhoneFits, PhoneSignsWhatItShowed, UNCHANGED phone,
           \A s \in signed' \ signed : s.on # "phone"
    PROVE  PhoneFits' /\ PhoneSignsWhatItShowed'
  BY DEF PhoneFits, PhoneSignsWhatItShowed

\* The phone's steps.
LEMMA PhoneMoves ==
    ASSUME RowsInv, PhoneFits, PhoneSignsWhatItShowed, PhoneStep
    PROVE  RowsInv' /\ UNCHANGED tab /\ PhoneFits' /\ PhoneSignsWhatItShowed'
  <1>1. CASE Refresh \/ Tap \/ Prompted \/ Reread
    <2>1. UNCHANGED <<case, tab, signed>>
      BY <1>1 DEF Refresh, Tap, Prompted, Reread
    <2>2. PhoneFits'
      <3>1. CASE Refresh
        BY <3>1 DEF Refresh, PhoneFits
      <3>2. CASE Tap
        BY <3>2 DEF Tap, PhoneFits
      <3>3. CASE Prompted
        BY <3>3 DEF Prompted, PhoneFits
      <3>4. CASE Reread
        BY <3>4 DEF Reread, PhoneFits
      <3> QED
        BY <1>1, <3>1, <3>2, <3>3, <3>4
    <2> QED
      BY <2>1, <2>2, RowsUnchanged DEF PhoneSignsWhatItShowed
  <1>2. CASE Post
    <2>1. /\ phone.posts = phone.tapped /\ phone.outcome \in {"APPROVED", "DENIED"}
          /\ PhoneFits' /\ UNCHANGED tab
      BY <1>2 DEF Post, PhoneFits
    <2>2. RowsMove
      BY <1>2, <2>1 DEF Post, RowsMove
    <2>3. \A s \in signed' \ signed : s.verdict = s.chose
      BY <1>2, <2>1 DEF Post
    <2> QED
      BY <2>1, <2>2, <2>3, RowsMoveFits DEF PhoneSignsWhatItShowed
  <1> QED
    BY <1>1, <1>2 DEF PhoneStep

LEMMA ScreensStep ==
    ASSUME ScreensInv, [Next]_vars
    PROVE  ScreensInv'
  <1>1. RowsInv /\ TabFits /\ PhoneFits /\ PhoneSignsWhatItShowed
    BY DEF ScreensInv
  <1>2. ASSUME UNCHANGED <<tab, phone, signed>>
        PROVE  TabFits' /\ PhoneFits' /\ PhoneSignsWhatItShowed'
    BY <1>1, <1>2 DEF TabFits, DialogFits, PhoneFits, PhoneSignsWhatItShowed
  <1>3. CASE screen \in {"tab", "phone"} /\ (Agent \/ Workers \/ Provider \/ Others) /\ Still
    <2>1. RowsMove
      BY <1>3, CaseFileAssumption DEF Agent, Kinds, Workers, Provider, Others, RowsMove
    <2>2. UNCHANGED <<tab, phone, signed, screen>>
      BY <1>3 DEF Still, NoLists
    <2> QED
      BY <1>1, <1>2, <1>3, <2>1, <2>2, RowsMoveFits DEF ScreensInv
  <1>4. CASE screen = "tab" /\ TabStep /\ NoLists
    BY <1>1, <1>4, TabMoves, PhoneStays DEF NoLists, ScreensInv
  <1>5. CASE screen = "phone" /\ PhoneStep /\ NoLists
    <2>1. TabFits'
      BY <1>1, <1>5, PhoneMoves DEF TabFits, DialogFits
    <2> QED
      BY <1>1, <1>5, <2>1, PhoneMoves DEF NoLists, ScreensInv
  <1>6. CASE screen = "controls" /\ ControlsNext /\ UNCHANGED <<tab, phone, signed>> /\ NoLists
    <2>1. RowsInv' /\ DeskFits'
      BY <1>1, <1>6, ClickFits, ElsewhereFits DEF ControlsNext, ScreensInv
    <2> QED
      BY <1>2, <1>6, <2>1 DEF NoLists, ScreensInv
  <1>7. CASE screen = "boards" /\ BoardsNext /\ UNCHANGED <<tab, phone, signed, desk, screen>>
    BY <1>1, <1>2, <1>7, BoardsFit DEF ScreensInv
  <1>8. CASE UNCHANGED vars
    <2>1. RowsInv'
      BY <1>1, <1>8, RowsUnchanged DEF vars
    <2>2. DeskFits => DeskFits'
      <3>1. Newest' = Newest
        BY <1>8 DEF vars, Newest
      <3> QED
        BY <1>8, <3>1 DEF vars, DeskFits
    <2>3. BoardFits => BoardFits'
      BY <1>8 DEF vars, BoardFits, PlacesApart
    <2>4. ReaderFits => ReaderFits'
      BY <1>8 DEF vars, ReaderFits, BoardIsOneMoment, InboxIsOneMoment, Got, SaysMore, Snapshot,
                  VisibleIn, Totals, NeedsYou, InColumn
    <2> QED
      BY <1>2, <1>8, <2>1, <2>2, <2>3, <2>4 DEF vars, ScreensInv
  <1> QED
    BY <1>3, <1>4, <1>5, <1>6, <1>7, <1>8 DEF Next

\* A page that has stopped asking about a report that is not over: it was
\* decided, and its send or its hand-over is given up or held.
LEMMA QuietRows ==
    ASSUME RowsInv, ~Polls, case.state \notin Terminal
    PROVE  /\ DecidedOn # {} /\ ~Working /\ case.run \notin {"PENDING", "RUNNING"} /\ ~Sendable
           /\ \/ /\ case.delivery # NoDelivery /\ DecisionShown = "APPROVED"
                 /\ DeliveryExhausted \/ DeliveryShown.held
              \/ HandoffExhausted /\ ~Submittable
  <1>1. HandoffShown = case.handoff /\ DeliveryShown = case.delivery /\ Latest = Newest
    BY ViewIsRows
  <1>2. case.delivery.state # "PENDING"
        /\ (DeliveryExhausted \/ DeliveryShown.held \/ HandoffExhausted)
    BY <1>1 DEF Polls
  <1>3. DeliveryExhausted \/ DeliveryShown.held => case.delivery # NoDelivery
    BY <1>1 DEF DeliveryExhausted, NoDelivery
  <1>4. case.delivery # NoDelivery => DecidedOn # {} /\ DecisionShown = "APPROVED"
    BY <1>1 DEF RowsInv, DeliveryFits, DecidedOn, DecisionShown, Revision
  <1>5. HandoffExhausted => DecidedOn # {} /\ ~Submittable
    <2>1. HandoffExhausted => case.handoff # NoHandoff
      BY <1>1 DEF HandoffExhausted, NoHandoff
    <2>2. case.handoff.attempts \in Nat
      BY DEF RowsInv, RowsTyped, CaseRow, HandoffRow
    <2> QED
      BY <1>1, <2>1, <2>2 DEF HandoffExhausted, Submittable, RowsInv, HandoffFits
  <1>6. DecidedOn # {}
    BY <1>2, <1>3, <1>4, <1>5
  <1>7. case.state \notin {"TRIAGING", "REPRODUCING"}
    BY <1>6 DEF RowsInv, DecidedIsNewest
  <1> QED
    BY <1>2, <1>3, <1>4, <1>5, <1>6, <1>7 DEF Working, Sendable, RowsInv, RunsAreOpen

\* What the view shows of rows that differ in the turn, or in a hand-over that
\* a given-up or held send has made idle.
LEMMA SameView ==
    ASSUME case'.state = case.state, case'.drafts = case.drafts, case'.pending = case.pending,
           case'.superseded = case.superseded, case'.decision = case.decision,
           case'.delivery = case.delivery, case'.run = case.run,
           \/ case'.handoff = case.handoff
           \/ /\ DecisionShown = "APPROVED" /\ case.delivery # NoDelivery
              /\ DeliveryExhausted \/ DeliveryShown.held
    PROVE  LiveView' = LiveView
  <1>1. /\ Newest' = Newest /\ (\A r : Draft(r)' = Draft(r))
        /\ (PendingShown' <=> PendingShown)
    BY DEF Newest, Draft, PendingShown, Reviewable
  <1>2. Latest' = Latest
    BY <1>1 DEF Latest
  <1>3. DecisionShown' = DecisionShown
    BY <1>2 DEF DecisionShown
  <1>4. AwaitingVerdict' = AwaitingVerdict /\ DeliveryShown' = DeliveryShown
    BY <1>1, <1>3 DEF AwaitingVerdict, DeliveryShown
  <1>5. (SupersededShown' <=> SupersededShown) /\ (ApprovalBlocked' <=> ApprovalBlocked)
        /\ (DeliveryExhausted' <=> DeliveryExhausted)
    BY <1>2, <1>4
       DEF SupersededShown, ApprovalBlocked, ActiveRecheck, RecheckOver, RecheckIs,
           DeliveryExhausted
  <1>6. \/ HandoffShown' = HandoffShown
        \/ /\ DecisionShown = "APPROVED" /\ DeliveryShown # NoDelivery
           /\ DeliveryExhausted \/ DeliveryShown.held
    BY <1>3 DEF HandoffShown, DeliveryShown
  <1>7. HandoffExhausted' <=> HandoffExhausted
    BY <1>4, <1>6 DEF HandoffExhausted
  <1>8. Polls' <=> Polls
    BY <1>4, <1>5, <1>7 DEF Polls
  <1>9. DeliveryNote' = DeliveryNote
    <2>1. CASE HandoffShown' = HandoffShown
      BY <1>3, <1>4, <1>5, <1>7, <2>1 DEF DeliveryNote
    <2>2. CASE /\ DecisionShown = "APPROVED"
               /\ DeliveryExhausted \/ DeliveryShown.held
      BY <1>3, <1>4, <1>5, <2>2 DEF DeliveryNote
    <2> QED
      BY <1>6, <2>1, <2>2
  <1> DEFINE over == case.state \in Terminal \/ DeliveryNote \in {"failed", "held"}
  <1>10. over' <=> over
    BY <1>9
  <1>11. (SupersededShown' = SupersededShown) /\ (Polls' = Polls) /\ (over' = over)
    <2>1. \A p, q \in BOOLEAN : (p <=> q) => p = q
      OBVIOUS
    <2>2. SupersededShown \in BOOLEAN /\ SupersededShown' \in BOOLEAN
      BY DEF SupersededShown
    <2>3. Polls \in BOOLEAN /\ Polls' \in BOOLEAN
      BY DEF Polls
    <2>4. over \in BOOLEAN /\ over' \in BOOLEAN
      OBVIOUS
    <2> HIDE DEF over
    <2> QED
      BY <1>5, <1>8, <1>10, <2>1, <2>2, <2>3, <2>4
  <1>12. LiveView = [state |-> case.state, shown |-> Latest, awaiting |-> AwaitingVerdict,
                     decision |-> DecisionShown, superseded |-> SupersededShown,
                     polls |-> Polls, over |-> over]
    BY Zenon DEF LiveView
  <1>13. LiveView' = [state |-> case'.state, shown |-> Latest', awaiting |-> AwaitingVerdict',
                      decision |-> DecisionShown', superseded |-> SupersededShown',
                      polls |-> Polls', over |-> over']
    BY Zenon DEF LiveView
  <1> HIDE DEF over
  <1> QED
    BY <1>2, <1>3, <1>4, <1>11, <1>12, <1>13, Zenon

LEMMA QuietStep ==
    ASSUME RowsInv
    PROVE  QuietIsStill
  <1> SUFFICES ASSUME ~Polls, case.state \notin Terminal, ByItself
               PROVE  LiveView' = LiveView
    BY DEF QuietIsStill
  <1>1. case \in CaseRow
    BY DEF RowsInv, RowsTyped
  <1>2. ~RunMoves /\ ~Send
    BY QuietRows DEF RunMoves, Send
  <1>3. ~(\E kind \in Kinds : ParkVerdict(kind)) /\ ~(\E how \in Ends : EndWithoutVerdict(how))
    BY QuietRows DEF ParkVerdict, EndWithoutVerdict
  <1>4. CASE SessionLost
    <2>1. /\ case'.state = case.state /\ case'.drafts = case.drafts
          /\ case'.pending = case.pending /\ case'.superseded = case.superseded
          /\ case'.decision = case.decision /\ case'.delivery = case.delivery
          /\ case'.run = case.run /\ case'.handoff = case.handoff
      BY <1>1, <1>4 DEF SessionLost, CaseRow
    <2> QED
      BY <2>1, SameView
  <1>5. CASE Submit
    <2>1. /\ case'.state = case.state /\ case'.drafts = case.drafts
          /\ case'.pending = case.pending /\ case'.superseded = case.superseded
          /\ case'.decision = case.decision /\ case'.delivery = case.delivery
          /\ case'.run = case.run
      BY <1>1, <1>5 DEF Submit, CaseRow
    <2>2. /\ DecisionShown = "APPROVED" /\ case.delivery # NoDelivery
          /\ DeliveryExhausted \/ DeliveryShown.held
      BY <1>5, QuietRows DEF Submit
    <2> QED
      BY <2>1, <2>2, SameView
  <1> QED
    BY <1>2, <1>3, <1>4, <1>5 DEF ByItself, Workers, Agent

-----------------------------------------------------------------------------
(* What holds in every state of the report and of the screens on it.       *)

\* The rows of a report fit each other after any interleaving of the agent,
\* the workers, the mail provider and the reviewers, and each screen sends
\* what was chosen on it.
THEOREM ScreensSafe == Spec => []ScreensInv
  <1>1. Init => ScreensInv
    BY ScreensStart
  <1>2. ScreensInv /\ [Next]_vars => ScreensInv'
    BY ScreensStep
  <1> QED
    BY <1>1, <1>2, PTL DEF Spec

\* The rows are of their types, and the dialog, the phone and the screen are
\* in a state they have.
THEOREM ScreensTyped == Spec => []ScreensTypeOK
  <1>1. ScreensInv => ScreensTypeOK
    <2> SUFFICES ASSUME ScreensInv
                 PROVE  ScreensTypeOK
      OBVIOUS
    <2>1. case \in CaseRow /\ Newest <= MaxRevisions /\ Newest \in Nat
      BY DEF ScreensInv, RowsInv, RowsTyped, CaseRow, Newest
    <2>2. case.pending \in 0 .. MaxRevisions
      BY <2>1 DEF ScreensInv, RowsInv, PendingIsNewest, CaseRow
    <2>3. DOMAIN case.decision = Revision /\ case.handoff \in HandoffRow
          /\ case.delivery \in DeliveryRow
      BY <2>1 DEF CaseRow
    <2> QED
      BY <2>2, <2>3
         DEF ScreensTypeOK, ScreensInv, HandoffRow, DeliveryRow, TabFits, DialogFits, PhoneFits
  <1> QED
    BY <1>1, ScreensSafe, PTL

\* A page drawn from the rows tells the truth (case.ts, case-view.ts): its
\* approval button is there exactly while decide would take the verdict behind
\* it, its lifecycle reads in order, and what reads as over is over.
THEOREM FreshViewIsTrue == Spec => []FreshViewTellsTruth
  <1>1. ScreensInv => FreshViewTellsTruth
    BY RowsTellTruth DEF ScreensInv
  <1> QED
    BY <1>1, ScreensSafe, PTL

\* The phone signs the verdict it was tapped on, whatever the refetch behind
\* the prompt brought (VerdictReview.tsx).
THEOREM PhoneIsTrue == Spec => []PhoneSignsWhatItShowed
  <1>1. ScreensInv => PhoneSignsWhatItShowed
    BY DEF ScreensInv
  <1> QED
    BY <1>1, ScreensSafe, PTL

\* Each control of the case page is drawn while the server would accept it,
\* but for the refusals and the hidden controls named, and an owner is
\* notified of the verdict on screen (review/actions.ts).
THEOREM PageIsTrue == Spec => []PageMeansIt
  <1>1. ScreensInv => PageMeansIt
    BY DeskMeansIt DEF ScreensInv, PageMeansIt
  <1> QED
    BY <1>1, ScreensSafe, PTL

\* A list is one moment of the program whatever commits while it is read, the
\* lists agree on who waits and on what is open, and a card that spins is
\* worked on (queue.ts, queue-board.tsx).
THEOREM ListsAreOneMoment == Spec => []ListsMeanIt
  <1>1. ScreensInv => ListsMeanIt
    BY BoardMeansIt DEF ScreensInv, ListsMeanIt
  <1> QED
    BY <1>1, ScreensSafe, PTL

\* A page that has stopped asking misses nothing the agent or a worker does by
\* itself (status-query.ts, caseRefetchInterval).
THEOREM QuietPagesAreStill == Spec => [][QuietIsStill]_vars
  <1>1. ScreensInv /\ [Next]_vars => [QuietIsStill]_vars
    BY QuietStep DEF ScreensInv
  <1> QED
    BY <1>1, ScreensSafe, PTL DEF Spec
=============================================================================
