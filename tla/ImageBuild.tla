----------------------------- MODULE ImageBuild -----------------------------
(***************************************************************************)
(* From a repository's files to a plan, and from the plan to the images a  *)
(* sandbox boots.                                                          *)
(*                                                                         *)
(* Planning: classify.ts, build-plan.ts, mesh-build-plan.ts, the start     *)
(* command of daytona-build-driver.ts, parseBuiltServices() of worker.ts   *)
(* and the checks provisionMesh() opens with.  The same shape is validated *)
(* four times, by four functions that do not know each other.              *)
(*                                                                         *)
(* Building: daytona-build-driver.ts and registry.ts, with what they ask   *)
(* of Daytona, driven by the rows of onboarding and upload builds and      *)
(* swept by sweepOrphanImages().  Every build of a target pushes under the *)
(* same image name and registers under the same snapshot name, because a   *)
(* rebuild is meant to replace its predecessor; nothing but the row's      *)
(* claim keeps two of them apart, and the driver ignores the signal a lost *)
(* claim raises.                                                           *)
(*                                                                         *)
(* Abstractions.  A compose file is a function from the names it declares  *)
(* to what each service says: which kind of image it names, whether its    *)
(* build context stays in the repository, whether its port is published or *)
(* exposed, the services its depends_on, environment and command name,     *)
(* whether it mounts the Docker socket, whether it asks for a property the *)
(* mesh cannot give, and what its command comes to.  Text and ports are    *)
(* not kept, nor the reason a repository is refused for.                   *)
(* An image is known by the build that pushed it and its marker by that    *)
(* build's target: a target's commit does not move.  A mesh pushes under a *)
(* tag of its own, a single image under a fixed one.  The image of a build *)
(* that is over counts as a day old for the sweep.  The queue's leases,    *)
(* the reviewer and the snapshot sweep are in Onboarding; a crash here is  *)
(* seen once the lease has run out.                                        *)
(***************************************************************************)
EXTENDS Naturals, FiniteSets, Sequences

CONSTANTS
    Service,        \* names a compose file may declare
    NoService,      \* no meshAppServiceHint
    Target,         \* rows with a build: connected repositories and uploads
    Upload,         \* those whose source ref is an upload's
    RepoOf,         \* the repository name a row carries
    Word, SlugOf,   \* repoSlug(): the words a repository's name comes to
    Private,        \* rows whose source is cloned with a read token
    Build,          \* bound: driver builds, numbered
    MaxAttempts,    \* MAX_ATTEMPTS
    MaxRegisters,       \* creates of one snapshot before a 409 is final
    Proposals,      \* bound: plans the build agent may save for a repository
    Worlds          \* bound: what the targets' repositories hold, and how many
                    \* faults of each kind a behaviour has

ASSUME BuildAssumption == /\ Build \subseteq Nat \ {0}
                          /\ MaxAttempts \in Nat \ {0} /\ MaxRegisters \in Nat \ {0}
                          /\ Upload \subseteq Target /\ Private \subseteq Target

\* An onboarded repository has one row (target_onboarding_repo_id_key), and no
\* service is called by the hash of an upload's source ref.
ASSUME NamesAssumption ==
    /\ \A t \in Target : SlugOf[RepoOf[t]] \in Seq(Word)
    /\ \A t, u \in Target \ Upload : RepoOf[t] = RepoOf[u] => t = u
    /\ Upload \intersect Service = {}

-----------------------------------------------------------------------------
(* Planning: what the classifier makes of a compose file, and what each of *)
(* the four validators accepts.                                            *)

Images == {"none",        \* no image key
           "bundled",     \* an engine with a recipe: mariadb, mysql, percona
           "datastore",   \* an engine without one: postgres, redis
           "stock",       \* any other image
           "unresolved"}  \* a variable with no default
Contexts == {"none", "inside",
             "outside",   \* absolute, or resolved above the repository
             "stray"}     \* inside, but its dockerfile key climbs out of the context
Starts == {"default",     \* neither command nor entrypoint
           "argv",        \* a word list
           "host",        \* a word list that starts with docker or podman
           "unusable"}    \* composeArgv() gives a reason

Declaration == [image : Images, build : Contexts, port : {"none", "published", "exposed"},
                needs : SUBSET Service, socket : BOOLEAN, odd : BOOLEAN, start : Starts]

\* A repository's files: its first compose file, empty when it has none,
\* whether it has a Dockerfile at its root, and the app a hint names.
NoCompose == [n \in {} |-> n]
Files(names) == [compose : [names -> Declaration], dockerfile : BOOLEAN,
                 hint : Service \union {NoService}]
ASSUME WorldsAssumption ==
    \A w \in Worlds, t \in Target : \E names \in SUBSET Service : w.files[t] \in Files(names)

Refused == [strategy |-> "not-flattenable"]
Thrown == [strategy |-> "thrown"]

\* engineForImage()
IsEngine(d) == d.image \in {"bundled", "datastore"}

(***************************************************************************)
(* parseComposeTopology(): one app and its datastores as one image.        *)
(***************************************************************************)
Stores(f) == {n \in DOMAIN f : f[n].image = "bundled"}
Apps(f) == {n \in DOMAIN f : /\ ~IsEngine(f[n])
                             /\ f[n].port # "none" \/ f[n].build # "none"}

Flattens(f) == /\ \A n \in DOMAIN f : f[n].image # "datastore"
               /\ Cardinality(Apps(f)) = 1
               /\ Stores(f) # {}
               /\ \A n \in Apps(f) : f[n].build # "none"

(***************************************************************************)
(* parseComposeMesh(): every service a linked sandbox of its own.          *)
(***************************************************************************)
\* mountsDockerSocket()
Entries(f) == {n \in DOMAIN f : ~f[n].socket}
FrontDoors(f) == {n \in Entries(f) : ~IsEngine(f[n]) /\ f[n].port # "none"}
Published(f) == {n \in FrontDoors(f) : f[n].port = "published"}

\* The services that may be the probed one: a singleton, or a refusal.
AppOf(f, hint) ==
    IF hint # NoService THEN FrontDoors(f) \cap {hint}
    ELSE IF Cardinality(FrontDoors(f)) = 1 THEN FrontDoors(f)
    ELSE Published(f)

CanRun(d) == /\ ~d.odd                                       \* unsupportedServiceProperty()
             /\ d.build # "none" \/ d.image \notin {"none", "unresolved"}
             /\ d.start # "unusable"                         \* composeArgv()

Meshes(f, hint) == /\ Cardinality(Entries(f)) >= 2
                   /\ Cardinality(AppOf(f, hint)) = 1
                   /\ \A n \in Entries(f) : CanRun(f[n])

\* servicePeers(): every service it names, but itself and the dropped ones.
Peers(f, n) == (f[n].needs \cap Entries(f)) \ {n}

MeshService(f, n, app) ==
    [role |-> IF n = app THEN "app" ELSE "dependency",
     port |-> f[n].port # "none" \/ IsEngine(f[n]),          \* datastorePortForImage()
     build |-> f[n].build,
     start |-> f[n].start,
     peers |-> Peers(f, n)]

ComposeMesh(f, hint) ==
    LET app == CHOOSE n \in AppOf(f, hint) : TRUE
    IN  [strategy |-> "compose-mesh", app |-> app,
         services |-> [n \in Entries(f) |-> MeshService(f, n, app)]]

ComposeSynth(f) ==
    LET app == CHOOSE n \in Apps(f) : TRUE
    IN  [strategy |-> "compose-synth", app |-> app, stores |-> Stores(f), build |-> f[app].build]

\* resolveComposePath() throws on a context outside the repository.
Leaves(plan) == CASE plan.strategy = "compose-synth" -> plan.build = "outside"
                  [] plan.strategy = "compose-mesh" ->
                        \E n \in DOMAIN plan.services : plan.services[n].build = "outside"
Resolved(plan) == IF Leaves(plan) THEN Thrown ELSE plan

\* classify()
Classify(files) ==
    LET f == files.compose IN
    IF f # NoCompose
    THEN IF Flattens(f) THEN Resolved(ComposeSynth(f))
         ELSE IF Meshes(f, files.hint) THEN Resolved(ComposeMesh(f, files.hint))
         ELSE Refused
    ELSE IF files.dockerfile THEN [strategy |-> "dockerfile"]
    ELSE Refused

(***************************************************************************)
(* parseBuildPlan(), before the build.                                     *)
(***************************************************************************)
AppsOf(services) == {n \in DOMAIN services : services[n].role = "app"}
Known(services) == \A n \in DOMAIN services : services[n].peers \subseteq DOMAIN services

\* parseMeshServices()
MeshParses(plan) == /\ plan.services # NoCompose
                    /\ \A n \in DOMAIN plan.services : plan.services[n].build # "stray"
                    /\ AppsOf(plan.services) = {plan.app}
                    /\ Known(plan.services)
                    /\ plan.services[plan.app].port

Parses(plan) == CASE plan.strategy = "compose-mesh"  -> MeshParses(plan)
                  [] plan.strategy = "compose-synth" -> plan.stores # {} /\ plan.build # "stray"
                  [] OTHER -> TRUE

\* What the agent's tools save has been through parseBuildPlan().
ASSUME ProposalsAssumption ==
    \A plan \in Proposals :
       /\ Parses(plan)
       /\ \/ plan = [strategy |-> "agent-authored"]
          \/ /\ plan.strategy = "compose-mesh"
             /\ plan.services # NoCompose /\ DOMAIN plan.services \subseteq Service

\* A repository the classifier gives up on is reviewed and then handed to the
\* agent, which saves a plan, saves none, or throws with its turn.
PlansFor(files) == IF Classify(files) = Refused THEN {Refused, Thrown} \union Proposals
                   ELSE {Classify(files)}

(***************************************************************************)
(* What buildMesh() hands on, and who checks it again.                     *)
(***************************************************************************)
\* meshStartCommand(): the compose argv replaces the image's own, or does not.
Built(plan) == [n \in DOMAIN plan.services |->
                  [role |-> plan.services[n].role, port |-> plan.services[n].port,
                   peers |-> plan.services[n].peers,
                   marked |-> plan.services[n].build # "none",
                   host |-> plan.services[n].start = "host"]]

\* parseBuiltServices() and assertSafeMeshStartCommand(), after the approval.
BuiltParses(services) == /\ Cardinality(AppsOf(services)) = 1
                         /\ Known(services)
                         /\ \A n \in DOMAIN services : ~services[n].host

\* The checks of provisionMesh().
Provisions(services) == /\ Cardinality(AppsOf(services)) = 1
                        /\ \A n \in AppsOf(services) : services[n].port
                        /\ Known(services)

-----------------------------------------------------------------------------
(* Building.                                                               *)

VARIABLES
    job,        \* each target's row
    build,      \* the driver's builds
    registry,   \* the tags of the origin registry: who pushed them last
    snapshot,   \* Daytona's snapshots, by the build and service that made them
    sweeper,    \* the image sweep and the tags it is about to delete
    budget      \* faults left

imageVars == <<job, build, registry, snapshot, sweeper, budget>>

\* snapshotSlug()
Slug(t) == IF t \in Upload THEN Append(SlugOf[RepoOf[t]], t) ELSE SlugOf[RepoOf[t]]

\* onboarding-<slug>[-<service>], as words: the hyphen that joins a service to
\* a slug is the one that joins the words of a slug.
SnapshotName(t, s) == IF s = NoService THEN Slug(t) ELSE Append(Slug(t), s)

Images_(plan) == IF plan.strategy = "compose-mesh" THEN DOMAIN plan.services ELSE {NoService}
Id == Build \X (Service \union {NoService})

\* The target and plan a build was given; the names that follow from them.
TargetOf(b) == build[b].t
Name(b, s) == SnapshotName(TargetOf(b), s)
Ref(b, s) == <<Name(b, s), IF s = NoService THEN 0 ELSE b>>     \* bountydesk-<random>
NameOf(id) == Name(id[1], id[2])
RefOf(id) == Ref(id[1], id[2])

FreeSlot == [phase |-> "free", box |-> "none", token |-> "none"]
NewBuild(t) == [phase |-> "create", t |-> t, todo |-> Images_(job[t].plan), made |-> {},
                tries |-> 0, box |-> "none", token |-> "none", ok |-> FALSE]

Running(b) == build[b].phase \notin {"free", "over", "dead"}
Has(field) == budget[field] > 0
Spend(field) == budget' = [budget EXCEPT ![field] = @ - 1]
Set(b, r) == build' = [build EXCEPT ![b] = r]
GoTo(b, phase) == Set(b, [build[b] EXCEPT !.phase = phase])
Service_(b) == CHOOSE s \in build[b].todo : TRUE

ImageInit == /\ \E w \in Worlds :
                   /\ job = [t \in Target |-> [state |-> IF t \in w.rows THEN "planning" ELSE "none", files |-> w.files[t],
                                               plan |-> Refused, by |-> 0, attempts |-> 0, ids |-> {}]]
                   /\ budget = w.budget
             /\ build = [b \in Build |-> FreeSlot]
             /\ registry = {}
             /\ snapshot = [id \in Id |-> [st |-> "absent", holds |-> 0]]
             /\ sweeper = [phase |-> "idle", refs |-> {}]

-----------------------------------------------------------------------------
(* The row: PENDING_PLAN, PENDING_BUILD, a failed attempt, a retry.        *)

\* fail(): the attempts of a state run out, or it is claimed again.
Failed(j) == IF j.attempts >= MaxAttempts THEN [j EXCEPT !.state = "failed", !.by = 0]
             ELSE [j EXCEPT !.by = 0]

Plan(t) ==
    LET j == [job[t] EXCEPT !.attempts = @ + 1]
    IN  /\ job[t].state = "planning"
        /\ \E plan \in PlansFor(job[t].files) :
              job' = [job EXCEPT ![t] =
                 CASE plan = Thrown  -> Failed(j)
                   [] plan = Refused -> [j EXCEPT !.state = "unsupported"]
                   [] OTHER -> [j EXCEPT !.state = "building", !.plan = plan, !.attempts = 0]]
        /\ UNCHANGED <<build, registry, snapshot, sweeper, budget>>

\* buildablePlan() and the call of the driver, the lowest free number.
Begin(t) ==
    LET j == [job[t] EXCEPT !.attempts = @ + 1]
        free == {b \in Build : build[b] = FreeSlot}
    IN  /\ job[t].state = "building" /\ job[t].by = 0
        /\ IF ~Parses(job[t].plan)
           THEN job' = [job EXCEPT ![t] = Failed(j)] /\ UNCHANGED build
           ELSE /\ free # {}
                /\ LET b == CHOOSE x \in free : \A y \in free : x <= y
                   IN  /\ job' = [job EXCEPT ![t] = [j EXCEPT !.by = b]]
                       /\ Set(b, NewBuild(t))
        /\ UNCHANGED <<registry, snapshot, sweeper, budget>>

Retry(t) == /\ job[t].state = "failed"
            /\ Has("retries") /\ Spend("retries")
            /\ job' = [job EXCEPT ![t].state = "planning", ![t].attempts = 0, ![t].ids = {}]
            /\ UNCHANGED <<build, registry, snapshot, sweeper>>

\* The claim is lost and the build runs on: the driver takes no signal.
Abandon(b) == /\ Running(b) /\ job[TargetOf(b)].by = b
              /\ Has("losses") /\ Spend("losses")
              /\ job' = [job EXCEPT ![TargetOf(b)] = Failed(@)]
              /\ UNCHANGED <<build, registry, snapshot, sweeper>>

\* The process dies: no finally runs.
Crash(b) == /\ Running(b)
            /\ Has("crashes") /\ Spend("crashes")
            /\ GoTo(b, "dead")
            /\ job' = IF job[TargetOf(b)].by = b THEN [job EXCEPT ![TargetOf(b)] = Failed(@)] ELSE job
            /\ UNCHANGED <<registry, snapshot, sweeper>>

-----------------------------------------------------------------------------
(* build(): the sandbox, the source, one service after another.            *)

\* What throws inside the try; what runs in the sandbox throws once it is gone.
Throws(b, phases) ==
    /\ build[b].phase \in phases
    /\ \/ Has("faults") /\ Spend("faults")
       \/ build[b].box = "gone" /\ UNCHANGED budget
    /\ GoTo(b, "teardown")
    /\ UNCHANGED <<job, registry, snapshot, sweeper>>

\* createBuildSandbox() leaves nothing behind when it throws.
CreateSandbox(b) ==
    /\ build[b].phase = "create"
    /\ \/ /\ Set(b, [build[b] EXCEPT !.box = "up", !.phase = "stage"])
          /\ UNCHANGED budget
       \/ /\ Has("faults") /\ Spend("faults")
          /\ GoTo(b, "finish")
    /\ UNCHANGED <<job, registry, snapshot, sweeper>>

\* readToken(), then stageSource(); a refusal of the token throws first.
Stage(b) ==
    /\ build[b].phase = "stage" /\ build[b].box = "up"
    /\ IF TargetOf(b) \in Private
       THEN Set(b, [build[b] EXCEPT !.token = "live", !.phase = "clone"])
       ELSE GoTo(b, "code")
    /\ UNCHANGED <<job, registry, snapshot, sweeper, budget>>

\* Mutant: the token goes when the sandbox goes.
Clone_Keeps(b) ==
    /\ build[b].phase = "clone"
    /\ build[b].box = "up"
    /\ GoTo(b, "code")
    /\ UNCHANGED <<job, registry, snapshot, sweeper, budget>>

\* The clone, then the finally that asks GitHub to revoke: what that comes to is
\* not looked at, so a token may outlive it ("asked") and the build goes on.
Clone(b) ==
    /\ build[b].phase = "clone"
    /\ \E cloned \in BOOLEAN, token \in {"revoked", "asked"} :
          /\ cloned => build[b].box = "up"
          /\ Set(b, [build[b] EXCEPT !.token = token,
                                     !.phase = IF cloned THEN "code" ELSE "teardown"])
          /\ IF token = "revoked" /\ (cloned \/ build[b].box = "gone") THEN UNCHANGED budget
             ELSE Has("faults") /\ Spend("faults")
    /\ UNCHANGED <<job, registry, snapshot, sweeper>>

\* The image of the next service: the repository's own steps run here.
RunCode(b) == /\ build[b].phase = "code" /\ build[b].box = "up"
              /\ GoTo(b, "push")
              /\ UNCHANGED <<job, registry, snapshot, sweeper, budget>>

\* push(): the tag now names this build's image, even when the digest is
\* never read back.
Push(b) ==
    LET r == Ref(b, Service_(b))
    IN  /\ build[b].phase = "push" /\ build[b].box = "up"
        /\ registry' = {x \in registry : x.ref # r} \union {[ref |-> r, by |-> b]}
        /\ \/ GoTo(b, "name") /\ UNCHANGED budget
           \/ GoTo(b, "teardown") /\ Has("faults") /\ Spend("faults")
        /\ UNCHANGED <<job, snapshot, sweeper>>

Named(n) == {id \in Id : snapshot[id].st \notin {"absent", "deleting"} /\ NameOf(id) = n}

\* deleteSnapshotByName(): whoever made them; a failed delete is swallowed.
FreeName(b) ==
    LET old == Named(Name(b, Service_(b)))
    IN  /\ build[b].phase = "name"
        /\ \/ /\ snapshot' = [id \in Id |-> IF id \in old THEN [st |-> "deleting", holds |-> 0]
                                            ELSE snapshot[id]]
              /\ UNCHANGED budget
           \/ old # {} /\ UNCHANGED snapshot /\ Has("faults") /\ Spend("faults")
        /\ Set(b, [build[b] EXCEPT !.phase = "register", !.tries = 0])
        /\ UNCHANGED <<job, registry, sweeper>>

Taken(n) == \E id \in Id : snapshot[id].st # "absent" /\ NameOf(id) = n

\* createSnapshot(), waiting out a 409 a few times; any other error throws,
\* whether or not Daytona made the snapshot.
Register(b) ==
    LET s == Service_(b)
        made == [snapshot EXCEPT ![<<b, s>>] = [st |-> "pulling", holds |-> 0]]
    IN  /\ build[b].phase = "register"
        /\ \/ /\ Taken(Name(b, s))
              /\ Set(b, IF build[b].tries + 1 < MaxRegisters
                        THEN [build[b] EXCEPT !.tries = @ + 1]
                        ELSE [build[b] EXCEPT !.phase = "teardown"])
              /\ UNCHANGED <<snapshot, budget>>
           \/ /\ ~Taken(Name(b, s))
              /\ snapshot' = made /\ GoTo(b, "reclaim")
              /\ UNCHANGED budget
           \/ /\ Has("faults") /\ Spend("faults")
              /\ GoTo(b, "teardown")
              /\ \/ UNCHANGED snapshot
                 \/ ~Taken(Name(b, s)) /\ snapshot' = made
        /\ UNCHANGED <<job, registry, sweeper>>

\* One service is done; after the last one the result is returned.
Next_(b) == LET s == Service_(b) IN
            [build[b] EXCEPT !.todo = @ \ {s}, !.made = @ \union {s},
                             !.ok = (build[b].todo = {s}),
                             !.phase = IF build[b].todo = {s} THEN "teardown" ELSE "code"]

\* reclaimOriginImage(): the tag is deleted once the snapshot is active; an
\* error, a timeout or a refused delete leaves it and changes nothing else.
Reclaim(b) ==
    LET s == Service_(b)
    IN  /\ build[b].phase = "reclaim"
        /\ \/ /\ snapshot[<<b, s>>].st = "active"
              /\ registry' = {x \in registry : x.ref # Ref(b, s)}
              /\ UNCHANGED budget
           \/ snapshot[<<b, s>>].st # "active" /\ UNCHANGED <<registry, budget>>
           \/ UNCHANGED registry /\ Has("faults") /\ Spend("faults")
        /\ Set(b, Next_(b))
        /\ UNCHANGED <<job, snapshot, sweeper>>

\* The finally; a refused delete is swallowed and leaves the sandbox to its TTL.
Teardown(b) ==
    /\ build[b].phase = "teardown"
    /\ \/ Set(b, [build[b] EXCEPT !.phase = "finish", !.box = "gone"]) /\ UNCHANGED budget
       \/ GoTo(b, "finish") /\ Has("faults") /\ Spend("faults")
    /\ UNCHANGED <<job, registry, snapshot, sweeper>>

\* advance() or fail(), if the row is still this build's.
Finish(b) ==
    LET j == job[TargetOf(b)]
    IN  /\ build[b].phase = "finish"
        /\ GoTo(b, "over")
        /\ job' = IF j.by # b THEN job
                  ELSE [job EXCEPT ![TargetOf(b)] =
                          IF build[b].ok
                          THEN [j EXCEPT !.state = "built", !.by = 0, !.attempts = 0,
                                         !.ids = {b} \X build[b].made]
                          ELSE Failed(j)]
        /\ UNCHANGED <<registry, snapshot, sweeper, budget>>

-----------------------------------------------------------------------------
(* After the approval: verifyAndWrite().                                   *)

Shape(t) == Built(job[t].plan)
Marked(t) == {id \in job[t].ids : \/ id[2] = NoService
                                  \/ Shape(t)[id[2]].marked}

Boots(t) == /\ job[t].plan.strategy = "compose-mesh" => BuiltParses(Shape(t)) /\ Provisions(Shape(t))
            /\ \A id \in job[t].ids : snapshot[id].st = "active"
            /\ \A id \in Marked(t) : TargetOf(snapshot[id].holds) = t      \* buildMarkerCheck()

Verify(t) ==
    LET j == [job[t] EXCEPT !.attempts = @ + 1]
    IN  /\ job[t].state = "built"
        /\ \A id \in job[t].ids : snapshot[id].st # "pulling"     \* ensureSnapshotActive()
        /\ \/ Boots(t) /\ job' = [job EXCEPT ![t] = [j EXCEPT !.state = "configured"]]
           \/ ~Boots(t) /\ job' = [job EXCEPT ![t] = Failed(j)]
        /\ UNCHANGED <<build, registry, snapshot, sweeper, budget>>

-----------------------------------------------------------------------------
(* sweepOrphanImages().                                                    *)

\* Refs the profiles and the live rows name; a single image's ref is on its
\* profile only.
Protected == {RefOf(id) : id \in UNION {job[t].ids : t \in {u \in Target :
                 \/ job[u].state = "configured"
                 \/ job[u].state = "built" /\ job[u].plan.strategy = "compose-mesh"}}}

Quiet == \A t \in Target : job[t].state # "building"

SweepGuard == /\ sweeper.phase = "idle"
              /\ Has("sweeps") /\ Spend("sweeps")
              /\ Quiet
              /\ sweeper' = [phase |-> "list", refs |-> {}]
              /\ UNCHANGED <<job, build, registry, snapshot>>

SweepList == /\ sweeper.phase = "list"
             /\ sweeper' = [phase |-> "delete",
                            refs |-> {x.ref : x \in {y \in registry : ~Running(y.by)}} \ Protected]
             /\ UNCHANGED <<job, build, registry, snapshot, budget>>

\* Deleting by tag deletes what the tag names now.
SweepDelete == /\ sweeper.phase = "delete"
               /\ IF sweeper.refs = {} THEN sweeper' = [phase |-> "idle", refs |-> {}] /\ UNCHANGED registry
                  ELSE \E r \in sweeper.refs :
                         /\ registry' = {x \in registry : x.ref # r}
                         /\ sweeper' = [sweeper EXCEPT !.refs = @ \ {r}]
               /\ UNCHANGED <<job, build, snapshot, budget>>

-----------------------------------------------------------------------------
(* Daytona.                                                                *)

\* A snapshot pulls its image once, from whatever its ref names then.
Pull(id) ==
    LET found == {x \in registry : x.ref = RefOf(id)}
    IN  /\ snapshot[id].st = "pulling"
        /\ snapshot' = [snapshot EXCEPT ![id] =
              IF found = {} THEN [st |-> "error", holds |-> 0]
              ELSE [st |-> "active", holds |-> (CHOOSE x \in found : TRUE).by]]
        /\ UNCHANGED <<job, build, registry, sweeper, budget>>

\* A delete frees the name some time after it was answered.
Propagate(id) == /\ snapshot[id].st = "deleting"
                 /\ snapshot' = [snapshot EXCEPT ![id].st = "absent"]
                 /\ UNCHANGED <<job, build, registry, sweeper, budget>>

Expire(b) == /\ build[b].box = "up"
             /\ \/ ~Running(b) /\ UNCHANGED budget
                \/ Running(b) /\ Has("faults") /\ Spend("faults")
             /\ Set(b, [build[b] EXCEPT !.box = "gone"])
             /\ UNCHANGED <<job, registry, snapshot, sweeper>>

-----------------------------------------------------------------------------
Driver(b) == \/ CreateSandbox(b) \/ Stage(b) \/ Clone(b) \/ RunCode(b) \/ Push(b)
             \/ FreeName(b) \/ Register(b) \/ Reclaim(b) \/ Teardown(b) \/ Finish(b)
             \/ Throws(b, {"stage", "code", "push"})

ImageNext == \/ \E t \in Target : Plan(t) \/ Begin(t) \/ Retry(t) \/ Verify(t)
             \/ \E b \in Build : Driver(b) \/ Abandon(b) \/ Crash(b) \/ Expire(b)
             \/ \E id \in Id : Pull(id) \/ Propagate(id)
             \/ SweepGuard \/ SweepList \/ SweepDelete

-----------------------------------------------------------------------------
(* Properties.                                                             *)

Rows == [state : {"none", "planning", "building", "built", "configured", "failed", "unsupported"},
         by : Build \union {0}, attempts : 0..MaxAttempts]

\* What the rows, the builds and Daytona's snapshots look like; a row that a
\* build works for is in PENDING_BUILD and the build is for it.
ImageTypeOK == /\ \A t \in Target :
                     /\ [state |-> job[t].state, by |-> job[t].by, attempts |-> job[t].attempts] \in Rows
                     /\ \A n \in DOMAIN job[t].files.compose :
                          job[t].files.compose[n] \in Declaration
                     /\ job[t].ids \subseteq Id
                     /\ job[t].by # 0 => job[t].state = "building" /\ TargetOf(job[t].by) = t
               /\ \A id \in Id : snapshot[id].st \in {"absent", "pulling", "active", "error", "deleting"}
               /\ \A x \in registry : x.by \in Build /\ build[x.by] # FreeSlot

\* Two repositories may meet in one name: repoSlug() and the hyphen before a
\* service keep neither apart.  Nothing below is said of two that do.
NamesOf(t) == {SnapshotName(t, s) : s \in Service \union {NoService}}
Collide(t, u) == RepoOf[t] # RepoOf[u] /\ NamesOf(t) \intersect NamesOf(u) # {}
Own(t, u) == t = u \/ Collide(t, u)

\* Once active, a snapshot holds an image of the target its build was for,
\* whatever order builds pushed, registered and reclaimed in, and whichever
\* of them had lost its row.
SnapshotCarriesItsMarker ==
    \A id \in Id : snapshot[id].st = "active" => Own(TargetOf(snapshot[id].holds), TargetOf(id[1]))

\* A step of a build takes down only snapshots of its own target: an upload's
\* build never replaces what the repository's onboarded target boots from.
OnlyOwnSnapshots ==
    \A id \in Id, b \in Build :
       /\ snapshot[id].st \notin {"absent", "deleting"} /\ snapshot'[id].st = "deleting"
       /\ build'[b] # build[b]
       => Own(TargetOf(b), TargetOf(id[1]))

\* GitHub has been asked to take back the token a private source was cloned with
\* before the repository's own build steps run and before the build ends, on
\* every path; only a dead process leaves one that nobody asked for.
TokenIsAskedBack ==
    \A b \in Build : build[b].token = "live" => build[b].phase \in {"clone", "dead"}

\* The four validators of a plan agree: what the classifier decided is read
\* back, and what was built from it is read back and provisioned, unless a
\* dockerfile key climbs out of its context or a command runs docker.
PlanIsUsable ==
    \A t \in Target :
        LET plan == job[t].plan IN
        plan.strategy = "compose-mesh" =>
            /\ (\A n \in DOMAIN plan.services : plan.services[n].build # "stray") => Parses(plan)
            /\ (\A n \in DOMAIN plan.services : plan.services[n].start # "host") => BuiltParses(Built(plan))
            /\ Provisions(Built(plan))

\* All of it, of every step an image takes.
ImagesAreSound ==
    [][imageVars' # imageVars =>
          /\ (ImageTypeOK /\ SnapshotCarriesItsMarker /\ TokenIsAskedBack /\ PlanIsUsable)'
          /\ OnlyOwnSnapshots]_imageVars
=============================================================================
