----------------------------- MODULE GitHubGrants -----------------------------
(***************************************************************************)
(* Who may act on a repository: src/lib/github/lifecycle.ts (the App's     *)
(* webhooks), src/lib/github/reconcile.ts (the backstop that asks GitHub)  *)
(* and the operator's binding of a target (src/lib/targets).               *)
(*                                                                         *)
(* GitHub changes and sends a hook about it.  Hooks arrive in any order,   *)
(* twice or never; each is one transaction, made idempotent by the         *)
(* delivery id recorded beside it.  A reconcile pass is many calls and     *)
(* statements, and anything may happen between two of them.                *)
(*                                                                         *)
(* Abstractions.  One repository.  An account has one live installation at *)
(* a time; a reinstall has a new id.  Names are left out.  A list GitHub   *)
(* pages is one read, which fails as a whole.  Onboarding is reduced to    *)
(* the states a grant can meet (see Onboarding).                           *)
(***************************************************************************)
EXTENDS Naturals, Sequences

CONSTANTS
    Inst,       \* installation ids
    NoInst,     \* no installation
    MaxEvents,  \* bound: what happens at GitHub
    MaxBinds,   \* bound: what an operator does
    MaxAborts   \* bound: reconcile passes that do not run to their end

ASSUME GrantsAssumption == NoInst \notin Inst /\ MaxEvents \in Nat /\ MaxBinds \in Nat /\ MaxAborts \in Nat

VARIABLES
    gh,         \* the truth at GitHub
    sent,       \* the hooks GitHub has sent; the index is the delivery id
    applied,    \* lifecycle_delivery: ids already applied
    db,         \* github_installation, connected_repository, target_onboarding
    pass,       \* the reconcile pass and what it has read
    binds,
    aborts

grantsVars == <<gh, sent, applied, db, pass, binds, aborts>>

InstStates == {"absent", "live", "suspended", "gone"}
GitHub == [inst : [Inst -> InstStates],
           has : SUBSET Inst,           \* installations that select the repository
           contents : [Inst -> BOOLEAN],
           archived : BOOLEAN, private : BOOLEAN]

Actions == {"created", "new_permissions_accepted", "suspend", "unsuspend", "deleted",
            "added", "removed", "archived", "unarchived", "visibility", "gone"}
Hook == [action : Actions, i : Inst \union {NoInst},
         repo : BOOLEAN,                \* the payload lists the repository
         contents : BOOLEAN, private : BOOLEAN]

InstRow == [known : BOOLEAN, suspended : BOOLEAN, deleted : BOOLEAN, contents : BOOLEAN]
RepoRow == [inst : Inst \union {NoInst},        \* NoInst: no row yet
            active : BOOLEAN, archived : BOOLEAN, private : BOOLEAN,
            bound : BOOLEAN]                    \* target_profile_id is set
Tables == [inst : [Inst -> InstRow], repo : RepoRow,
           onboarding : {"none", "queued", "approved", "configured", "failed"}]

Stages == {"idle", "rows", "each", "sync", "active", "revoke"}
Pass == [at : Stages, live : [Inst -> InstStates], todo : SUBSET Inst, paused : SUBSET Inst,
         i : Inst \union {NoInst}, has : BOOLEAN, private : BOOLEAN, contents : BOOLEAN]

Resting == [at |-> "idle", live |-> [i \in Inst |-> "absent"], todo |-> {}, paused |-> {},
            i |-> NoInst, has |-> FALSE, private |-> FALSE, contents |-> FALSE]

GrantsInit ==
    /\ gh \in {g \in GitHub : /\ g.inst = [i \in Inst |-> "absent"] /\ g.has = {}
                              /\ g.contents = [i \in Inst |-> FALSE] /\ ~g.archived}
    /\ sent = <<>>
    /\ applied = {}
    /\ db = [inst |-> [i \in Inst |-> [known |-> FALSE, suspended |-> FALSE,
                                       deleted |-> FALSE, contents |-> FALSE]],
             repo |-> [inst |-> NoInst, active |-> FALSE, archived |-> FALSE,
                       private |-> FALSE, bound |-> FALSE],
             onboarding |-> "none"]
    /\ pass = Resting
    /\ binds = 0
    /\ aborts = 0

-----------------------------------------------------------------------------
(* The gate.                                                               *)

\* The installation and the repository are fit for a target.
Alive(d, i) == d.inst[i].known /\ ~d.inst[i].suspended /\ ~d.inst[i].deleted
Bindable(d) == /\ d.repo.inst \in Inst
               /\ d.repo.active
               /\ ~d.repo.archived
               /\ Alive(d, d.repo.inst)

\* activeRepository(): intake and delivery both ask it.
Admissible(d) == Bindable(d) /\ d.repo.bound

\* What GitHub grants right now, through the installation the row names.
Grants == \E i \in gh.has : i = db.repo.inst /\ gh.inst[i] = "live"

-----------------------------------------------------------------------------
(* The webhook handlers, as what one transaction does to the tables.       *)

Upsert(d, i, contents) == [d EXCEPT !.inst[i].known = TRUE, !.inst[i].contents = contents]

\* enqueueOnboardable(): unbound, granted, and public or readable.
Queue(d, i) ==
    IF /\ Alive(d, i)
       /\ d.repo.inst = i /\ d.repo.active /\ ~d.repo.bound
       /\ d.repo.private => d.inst[i].contents
       /\ d.onboarding \in {"none", "failed"}
    THEN [d EXCEPT !.onboarding = "queued"] ELSE d

\* grantRepositories(): the row moves to this installation, bound or not.
GrantRepo(d, i, private) ==
    Queue([d EXCEPT !.repo.inst = i, !.repo.active = TRUE, !.repo.private = private], i)

\* revokeRepositories(): by repository id, whichever installation it is.
RevokeRepo(d) == IF d.repo.inst = NoInst THEN d
                 ELSE [d EXCEPT !.repo.active = FALSE, !.repo.bound = FALSE]

\* unconfigureInstallationRepositories()
Unconfigure(d, i) == IF d.repo.inst = i THEN [d EXCEPT !.repo.bound = FALSE] ELSE d

Maybe(d, h) == IF h.repo THEN GrantRepo(d, h.i, h.private) ELSE d

\* handleInstallation(), handleInstallationRepositories(), handleRepository().
Handled(d, h) ==
    CASE h.action = "created" -> Maybe(Upsert(d, h.i, h.contents), h)
      [] h.action = "new_permissions_accepted" ->
            LET u == Upsert(d, h.i, h.contents)
            IN  IF u.repo.private THEN Queue(u, h.i) ELSE u
      [] h.action = "suspend" ->
            Unconfigure([Upsert(d, h.i, h.contents) EXCEPT !.inst[h.i].suspended = TRUE], h.i)
      [] h.action = "unsuspend" ->
            LET u == Upsert(d, h.i, h.contents)
            IN  IF u.inst[h.i].deleted THEN u ELSE [u EXCEPT !.inst[h.i].suspended = FALSE]
      [] h.action = "deleted" ->
            Unconfigure([Upsert(d, h.i, h.contents) EXCEPT !.inst[h.i].deleted = TRUE], h.i)
      [] h.action = "added" -> Maybe(Upsert(d, h.i, h.contents), h)
      [] h.action = "removed" -> RevokeRepo(Upsert(d, h.i, h.contents))
      [] h.action = "gone" -> RevokeRepo(d)
      [] h.action = "visibility" -> IF d.repo.inst = NoInst THEN d
                                    ELSE [d EXCEPT !.repo.private = h.private]
      [] h.action \in {"archived", "unarchived"} ->
            IF d.repo.inst = NoInst THEN d
            ELSE [d EXCEPT !.repo.archived = (h.action = "archived")]

\* The lifecycle_delivery row makes a redelivery a no-op.
Fresh(n) == n \notin applied

\* handleLifecycle(): the id and the change in one transaction.
Deliver(n) ==
    /\ n \in 1 .. Len(sent)
    /\ applied' = applied \union {n}
    /\ db' = IF Fresh(n) THEN Handled(db, sent[n]) ELSE db
    /\ UNCHANGED <<gh, sent, pass, binds, aborts>>

-----------------------------------------------------------------------------
(* GitHub.                                                                 *)

Change(g, action, i) ==
    /\ Len(sent) < MaxEvents
    /\ gh' = g
    /\ sent' = Append(sent, [action |-> action, i |-> i, repo |-> i \in g.has,
                             contents |-> i # NoInst /\ g.contents[i], private |-> g.private])
    /\ UNCHANGED <<applied, db, pass, binds, aborts>>

Installed == {i \in Inst : gh.inst[i] \in {"live", "suspended"}}

InstallApp(i) ==
    /\ gh.inst[i] = "absent"
    /\ Installed = {}
    /\ \E has \in {{}, {i}}, contents \in BOOLEAN :
         Change([gh EXCEPT !.inst[i] = "live", !.has = has, !.contents[i] = contents], "created", i)

UninstallApp(i) ==
    /\ i \in Installed
    /\ Change([gh EXCEPT !.inst[i] = "gone", !.has = {}], "deleted", i)

SuspendApp(i) == /\ gh.inst[i] = "live"
                 /\ Change([gh EXCEPT !.inst[i] = "suspended"], "suspend", i)

UnsuspendApp(i) == /\ gh.inst[i] = "suspended"
                   /\ Change([gh EXCEPT !.inst[i] = "live"], "unsuspend", i)

AcceptContents(i) ==
    /\ gh.inst[i] = "live" /\ ~gh.contents[i]
    /\ Change([gh EXCEPT !.contents[i] = TRUE], "new_permissions_accepted", i)

SelectRepo(i) == /\ gh.inst[i] = "live" /\ i \notin gh.has
                 /\ Change([gh EXCEPT !.has = {i}], "added", i)

DeselectRepo(i) == /\ i \in gh.has /\ gh.inst[i] = "live"
                   /\ Change([gh EXCEPT !.has = {}], "removed", i)

\* A transferred or deleted repository leaves every installation.
LoseRepo == gh.has # {} /\ Change([gh EXCEPT !.has = {}], "gone", NoInst)

FlipArchive == /\ gh.has # {}
               /\ Change([gh EXCEPT !.archived = ~@],
                         IF gh.archived THEN "unarchived" ELSE "archived", NoInst)

FlipVisibility == /\ gh.has # {}
                  /\ Change([gh EXCEPT !.private = ~@], "visibility", NoInst)

-----------------------------------------------------------------------------
(* The reconcile pass.                                                     *)

Pass_(p) == pass' = p
Quiet == UNCHANGED <<gh, sent, applied, binds, aborts>>

\* fetchLiveInstallations(): the truth as of now; a failed read ends the pass.
ListInstallations ==
    /\ pass.at = "idle"
    /\ Pass_([Resting EXCEPT !.at = "rows", !.live = gh.inst])
    /\ Quiet /\ UNCHANGED db

\* The installations the database still considers alive.
RowsToCheck == {i \in Inst : db.inst[i].known /\ ~db.inst[i].deleted}

ReadRows ==
    /\ pass.at = "rows"
    /\ Pass_([pass EXCEPT !.at = "each", !.todo = RowsToCheck,
                          !.paused = {i \in Inst : db.inst[i].suspended}])
    /\ Quiet /\ UNCHANGED db

Done(i) == [pass EXCEPT !.at = "each", !.todo = @ \ {i}, !.i = NoInst,
                        !.has = FALSE, !.private = FALSE, !.contents = FALSE]

\* tombstoneInstallation(): GitHub does not list it any more.
Tombstone(i) ==
    /\ pass.at = "each" /\ i \in pass.todo
    /\ pass.live[i] \in {"absent", "gone"}
    /\ db' = Unconfigure([db EXCEPT !.inst[i].deleted = TRUE], i)
    /\ Pass_(Done(i)) /\ Quiet

\* Mutant: a mark that GitHub no longer shows is lifted.
Skip_Lifts(i) ==
    /\ pass.at = "each" /\ i \in pass.todo
    /\ pass.live[i] = "live"
    /\ i \in pass.paused
    /\ db' = [db EXCEPT !.inst[i].suspended = FALSE]
    /\ Pass_(Done(i)) /\ Quiet

\* suspendInstallation(), unless the row said so already.
MarkSuspended(i) ==
    /\ pass.at = "each" /\ i \in pass.todo
    /\ pass.live[i] = "suspended"
    /\ db' = IF i \in pass.paused THEN db
             ELSE Unconfigure([db EXCEPT !.inst[i].suspended = TRUE], i)
    /\ Pass_(Done(i)) /\ Quiet

\* A suspension in our row is left alone; a list that fails withdraws nothing.
Skip(i) ==
    /\ pass.at = "each" /\ i \in pass.todo
    /\ pass.live[i] = "live"
    /\ i \in pass.paused \/ gh.inst[i] # "live"
    /\ Pass_(Done(i)) /\ Quiet /\ UNCHANGED db

\* fetchLiveRepos()
ListRepos(i) ==
    /\ pass.at = "each" /\ i \in pass.todo \ pass.paused
    /\ pass.live[i] = "live" /\ gh.inst[i] = "live"
    /\ Pass_([pass EXCEPT !.at = "sync", !.i = i, !.has = (i \in gh.has),
                          !.private = gh.private, !.contents = gh.contents[i]])
    /\ Quiet /\ UNCHANGED db

\* syncAccessFacts(): facts, never a grant.
SyncFacts ==
    /\ pass.at = "sync"
    /\ db' = [db EXCEPT !.inst[pass.i].contents = pass.contents,
                !.repo.private = IF pass.has /\ db.repo.inst = pass.i THEN pass.private ELSE @]
    /\ Pass_([pass EXCEPT !.at = "active"]) /\ Quiet

\* Mutant: the repositories that are still listed are the ones revoked.
ReadActive_Inverted ==
    /\ pass.at = "active"
    /\ Pass_(IF db.repo.inst = pass.i /\ db.repo.active /\ pass.has
             THEN [pass EXCEPT !.at = "revoke"] ELSE Done(pass.i))
    /\ Quiet /\ UNCHANGED db

\* The rows still active under this installation, less what GitHub listed.
ReadActive ==
    /\ pass.at = "active"
    /\ Pass_(IF db.repo.inst = pass.i /\ db.repo.active /\ ~pass.has
             THEN [pass EXCEPT !.at = "revoke"] ELSE Done(pass.i))
    /\ Quiet /\ UNCHANGED db

\* revokeRepos(): by repository id.
RevokeGone ==
    /\ pass.at = "revoke"
    /\ db' = RevokeRepo(db)
    /\ Pass_(Done(pass.i)) /\ Quiet

EndPass ==
    /\ pass.at = "each" /\ pass.todo = {}
    /\ Pass_(Resting) /\ Quiet /\ UNCHANGED db

\* The worker stops, a list fails or a statement throws: the rest is not done.
AbortPass ==
    /\ pass.at # "idle"
    /\ aborts < MaxAborts
    /\ aborts' = aborts + 1
    /\ Pass_(Resting)
    /\ UNCHANGED <<gh, sent, applied, db, binds>>

-----------------------------------------------------------------------------
(* Operators and the onboarding worker.                                    *)

\* configureTarget() on an operator's request.
OperatorBinds ==
    /\ binds < MaxBinds
    /\ Bindable(db)
    /\ db' = [db EXCEPT !.repo.bound = TRUE]
    /\ binds' = binds + 1
    /\ UNCHANGED <<gh, sent, applied, pass, aborts>>

\* A reviewer approves what onboarding proposes.
ApproveOnboarding ==
    /\ db.onboarding = "queued"
    /\ binds < MaxBinds
    /\ db' = [db EXCEPT !.onboarding = "approved"]
    /\ binds' = binds + 1
    /\ UNCHANGED <<gh, sent, applied, pass, aborts>>

\* The worker binds what was approved, under a grant that is live now.
WorkerBinds ==
    /\ db.onboarding = "approved"
    /\ Bindable(db)
    /\ db' = [db EXCEPT !.repo.bound = TRUE, !.onboarding = "configured"]
    /\ UNCHANGED <<gh, sent, applied, pass, binds, aborts>>

\* Its attempts run out: the build, or the grant, was not there.
OnboardingFails ==
    /\ db.onboarding \in {"queued", "approved"}
    /\ db' = [db EXCEPT !.onboarding = "failed"]
    /\ UNCHANGED <<gh, sent, applied, pass, binds, aborts>>

-----------------------------------------------------------------------------

Reconcile == \/ ListInstallations \/ ReadRows \/ SyncFacts \/ ReadActive \/ RevokeGone \/ EndPass
             \/ \E i \in Inst : Tombstone(i) \/ MarkSuspended(i) \/ Skip(i) \/ ListRepos(i)

GrantsNext ==
    \/ \E i \in Inst : \/ InstallApp(i) \/ UninstallApp(i) \/ SuspendApp(i)
                       \/ UnsuspendApp(i) \/ AcceptContents(i)
                       \/ SelectRepo(i) \/ DeselectRepo(i)
    \/ LoseRepo \/ FlipArchive \/ FlipVisibility
    \/ \E n \in 1 .. MaxEvents : Deliver(n)
    \/ Reconcile \/ AbortPass
    \/ OperatorBinds \/ ApproveOnboarding \/ WorkerBinds \/ OnboardingFails

GrantsSpec == GrantsInit /\ [][GrantsNext]_grantsVars

-----------------------------------------------------------------------------

TypeOK == /\ gh \in GitHub
          /\ sent \in Seq(Hook) /\ Len(sent) <= MaxEvents
          /\ applied \subseteq 1 .. Len(sent)
          /\ db \in Tables
          /\ pass \in Pass
          /\ pass.at \in {"sync", "active", "revoke"} <=> pass.i \in Inst
          /\ binds \in 0..MaxBinds /\ aborts \in 0..MaxAborts

Opens == ~Admissible(db) /\ Admissible(db')
OperatorStep == OperatorBinds \/ WorkerBinds

\* A grant, new or late, of the installation a repository is under never
\* opens intake: "no webhook ever sets" the binding, and every removal clears
\* it.  What opens it is an operator, the lifting of a mark (an archive, a
\* suspension), or a reinstall that takes the binding along.
GrantNeverOpens ==
    Opens => \/ OperatorStep
             \/ \E n \in 1 .. Len(sent) :
                  /\ n \in applied' \ applied
                  /\ sent[n].action \in {"unarchived", "unsuspend"}
             \/ db.repo.bound /\ db'.repo.inst # db.repo.inst

\* Reconcile is one-way-safe: no pass, however stale what it read, opens
\* intake or lifts a mark.
ReconcileOnlyRevokes ==
    Reconcile => /\ ~Opens
                 /\ db'.onboarding = db.onboarding
                 /\ db'.repo.bound => db.repo.bound
                 /\ \A i \in Inst : /\ db.inst[i].deleted => db'.inst[i].deleted
                                    /\ db.inst[i].suspended => db'.inst[i].suspended

\* The window a lost hook leaves open is closed: once GitHub is quiet, a
\* repository that intake admits is one that GitHub still grants.
RevocationLands == <>[](Admissible(db) => Grants)

\* A binding is an operator's for as long as the repository is granted: every
\* removal clears both, and what is granted is under a known installation.
RemovalUnbinds ==
    /\ db.repo.bound => db.repo.active /\ db.repo.inst \in Inst
    /\ db.repo.inst \in Inst => db.inst[db.repo.inst].known

\* No grant and no pass of reconcile opens intake by itself: of every step.
NothingOpensByItself ==
    [][(TypeOK /\ RemovalUnbinds)' /\ GrantNeverOpens /\ ReconcileOnlyRevokes]_grantsVars
===============================================================================
