-------------------------- MODULE HarnessSettings --------------------------
(***************************************************************************)
(* The settings of the TrueForge harness and everything that writes them:  *)
(* the bootstrap that runs whenever the harness starts                     *)
(* (scripts/bootstrap-trueforge.mjs), the operator's scripts, and the      *)
(* settings screen (src/app/(app)/settings over src/lib/trueforge).        *)
(*                                                                         *)
(* Connectors, skills and agents are declared by a release of this         *)
(* repository and held under their names; the model provider and the       *)
(* sandbox provider hold a key and a body and are replaced whole.  A key   *)
(* is a number, 0 none; a stored key is read back redacted.                *)
(***************************************************************************)
EXTENDS Integers, Sequences, FiniteSets

CONSTANTS
    Connector, Skill, Agent,   \* what a release declares
    Managed,                   \* MANAGED_AGENT_NAME, the one agent of the screen
    Applier,                   \* runs of the bootstrap, a script, or the screen's buttons
    Editor,                    \* settings forms operators have open
    Keys                       \* keys in the world; the first is the bootstrap's environment

ASSUME HarnessAssumption ==
    /\ IsFiniteSet(Connector) /\ IsFiniteSet(Skill) /\ IsFiniteSet(Agent)
    /\ Managed \in Agent /\ Keys \in Nat \ {0}

VARIABLES
    held,       \* the release whose manifest the harness holds under each name, 0 none
    provider,   \* each credentialed surface: its key and its body
    applier,    \* each run: its plan, where it is, what it has reported
    editor,     \* each form: the surface, the body it shows, the key typed into it
    known       \* keys handed out, and the last key each surface was deliberately given

harnessVars == <<held, provider, applier, editor, known>>

Declared == Connector \union Skill \union Agent
Release == 2                 \* the one whose code runs; 1 is an earlier deployment
Surface == {"model", "sandbox"}
Body == {"seed", "bare"}      \* bare: without the model the agents name
Redacted == -1
EnvKey == 1
Plans == {"bootstrap", "agent:apply", "connectors", "skills", "agent"}

Unedited == [pc |-> "open", on |-> "model", body |-> "seed", typed |-> 0, send |-> 0]

HarnessTypeOK ==
    /\ held \in [Declared -> 0..Release]
    /\ provider \in [Surface -> [key : 0..Keys, body : Body]]
    /\ applier \in [Applier -> [pc : {"idle", "next", "list", "update", "applied", "failed"},
                                plan : Plans \union {"none"}, todo : Seq(Declared)]]
    /\ editor \in [Editor -> [pc : {"open", "save", "put"}, on : Surface, body : Body,
                              typed : 0..Keys, send : Redacted..Keys]]
    /\ known \in [made : 0..Keys, given : [Surface -> 0..Keys]]

\* A fresh harness, or one an earlier release has set up.
HarnessInit ==
    /\ \E old \in {0, 1} :
         /\ held = [n \in Declared |-> old]
         /\ provider = [s \in Surface |-> [key |-> old, body |-> "seed"]]
         /\ known = [made |-> EnvKey, given |-> [s \in Surface |-> old]]
    /\ applier = [a \in Applier |-> [pc |-> "idle", plan |-> "none", todo |-> <<>>]]
    /\ editor = [e \in Editor |-> Unedited]

-----------------------------------------------------------------------------
(***************************************************************************)
(* The harness: what it refuses, and what a submitted key means to it.     *)
(***************************************************************************)
\* An agent that names an unregistered skill, connector or model is refused.
Resolves == /\ \A n \in Connector \union Skill : held[n] # 0
            /\ provider["model"].key # 0 /\ provider["model"].body # "bare"

\* A redacted key is the stored one, anything else a rotation.
Settle(s, key, body) ==
    provider' = [provider EXCEPT ![s] = [key |-> IF key = Redacted THEN @.key ELSE key,
                                         body |-> body]]

-----------------------------------------------------------------------------
(***************************************************************************)
(* applyManaged, the scripts and the bootstrap: one plan, item by item, in *)
(* dependency order; the first error ends it.                              *)
(***************************************************************************)
Listing(S) == {q \in [1..Cardinality(S) -> S] : \A i, j \in 1..Cardinality(S) : q[i] = q[j] => i = j}
InOrder(S) == CHOOSE q \in Listing(S) : TRUE
Todo == [connectors |-> InOrder(Connector),
         skills |-> InOrder(Skill),
         agent |-> <<Managed>>]
ManifestsOf(plan) ==
    CASE plan = "bootstrap" -> Todo.connectors \o Todo.skills \o InOrder(Agent)
      [] plan = "agent:apply" -> Todo.connectors \o <<Managed>> \o InOrder(Agent \ {Managed})
      [] OTHER -> Todo[plan]

Moves(a, pc) == applier' = [applier EXCEPT ![a].pc = pc]
Ticked(a) == applier' = [applier EXCEPT ![a].pc = "next", ![a].todo = Tail(@)]
NextOf(a) == Head(applier[a].todo)

StartApply(a) ==
    /\ applier[a].pc = "idle"
    /\ \E plan \in Plans \ {"bootstrap"} :
         applier' = [applier EXCEPT ![a] = [pc |-> "next", plan |-> plan, todo |-> ManifestsOf(plan)]]
    /\ UNCHANGED <<held, provider, editor, known>>

\* The bootstrap replaces the model provider, then the sandbox provider, whose
\* failure alone does not end it.
Bootstrap(a) ==
    /\ applier[a].pc = "idle"
    /\ \E configured \in {{"model"}, Surface} :
         /\ provider' = [s \in Surface |-> IF s \in configured
                                           THEN [key |-> EnvKey, body |-> "seed"] ELSE provider[s]]
         /\ known' = [known EXCEPT !.given = [s \in Surface |-> IF s \in configured
                                                                THEN EnvKey ELSE @[s]]]
    /\ applier' = [applier EXCEPT ![a] = [pc |-> "next", plan |-> "bootstrap",
                                          todo |-> ManifestsOf("bootstrap")]]
    /\ UNCHANGED <<held, editor>>

\* createOrUpdate of a connector or a skill, by its name.
PutManifest(a) ==
    /\ applier[a].pc = "next" /\ applier[a].todo # <<>> /\ NextOf(a) \notin Agent
    /\ held' = [held EXCEPT ![NextOf(a)] = Release]
    /\ Ticked(a)
    /\ UNCHANGED <<provider, editor, known>>

\* create answers 409 for a name that exists; the update needs the listed id.
CreateAgent(a) ==
    /\ applier[a].pc = "next" /\ applier[a].todo # <<>> /\ NextOf(a) \in Agent
    /\ Resolves
    /\ IF held[NextOf(a)] = 0
       THEN held' = [held EXCEPT ![NextOf(a)] = Release] /\ Ticked(a)
       ELSE Moves(a, "list") /\ UNCHANGED held
    /\ UNCHANGED <<provider, editor, known>>

ListAgents(a) ==
    /\ applier[a].pc = "list"
    /\ held[NextOf(a)] # 0 /\ Moves(a, "update")
    /\ UNCHANGED <<held, provider, editor, known>>

UpdateAgent(a) ==
    /\ applier[a].pc = "update" /\ Resolves
    /\ held' = [held EXCEPT ![NextOf(a)] = Release]
    /\ Ticked(a)
    /\ UNCHANGED <<provider, editor, known>>

ReportApplied(a) ==
    /\ applier[a].pc = "next" /\ applier[a].todo = <<>>
    /\ Moves(a, "applied")
    /\ UNCHANGED <<held, provider, editor, known>>

\* An unreachable harness, a refused manifest, or an answer lost after the write;
\* starting again is another run.
ApplyFails(a) ==
    /\ applier[a].pc \in {"next", "list", "update"} /\ applier[a].todo # <<>>
    /\ Moves(a, "failed")
    /\ held' \in {held, [held EXCEPT ![NextOf(a)] = Release]}
    /\ held' # held => NextOf(a) \notin Agent \/ Resolves
    /\ UNCHANGED <<provider, editor, known>>

-----------------------------------------------------------------------------
(***************************************************************************)
(* The two forms with a credential.                                        *)
(***************************************************************************)
\* readHarness filled the form some time ago: the list of models and the
\* intervals live in it until they are saved, whatever the harness holds by
\* then; a provider keeps at least one model, and no key crosses to the browser.
EditForm(e) ==
    /\ editor[e].pc = "open"
    /\ \E s \in Surface, body \in Body, fresh \in BOOLEAN :
         /\ body = "bare" => s = "model"
         /\ fresh => known.made < Keys
         /\ editor' = [editor EXCEPT ![e] = [pc |-> "save", on |-> s, body |-> body, send |-> 0,
                                             typed |-> IF fresh THEN known.made + 1 ELSE 0]]
         /\ known' = [known EXCEPT !.made = IF fresh THEN @ + 1 ELSE @]
    /\ UNCHANGED <<held, provider, applier>>

\* Mutant: what is stored is sent as a key of its own.
resolveApiKey_Copied(typed, stored) == IF typed # 0 THEN typed ELSE stored

\* The typed key, or what is stored, which is only ever read redacted.
resolveApiKey(typed, stored) == IF typed # 0 THEN typed ELSE IF stored # 0 THEN Redacted ELSE 0

\* storedModelProviderKey, storedSandboxKey: nothing typed and nothing stored
\* is refused here.
ReadStoredKey(e) ==
    /\ editor[e].pc = "save"
    /\ LET key == resolveApiKey(editor[e].typed, provider[editor[e].on].key)
       IN editor' = [editor EXCEPT ![e] = IF key = 0 THEN Unedited
                                          ELSE [@ EXCEPT !.pc = "put", !.send = key]]
    /\ UNCHANGED <<held, provider, applier, known>>

\* The PUT is a full replace; what the form shows stays as it was typed.
PutProvider(e) ==
    /\ editor[e].pc = "put"
    /\ Settle(editor[e].on, editor[e].send, editor[e].body)
    /\ known' = [known EXCEPT !.given[editor[e].on] = IF editor[e].typed # 0
                                                      THEN editor[e].typed ELSE @]
    /\ editor' = [editor EXCEPT ![e] = Unedited]
    /\ UNCHANGED <<held, applier>>

SaveFails(e) ==
    /\ editor[e].pc \in {"save", "put"}
    /\ editor' = [editor EXCEPT ![e] = Unedited]
    /\ UNCHANGED <<held, provider, applier, known>>

HarnessNext ==
    \/ \E a \in Applier : \/ StartApply(a) \/ Bootstrap(a) \/ PutManifest(a) \/ CreateAgent(a)
                          \/ ListAgents(a) \/ UpdateAgent(a) \/ ReportApplied(a)
                          \/ ApplyFails(a)
    \/ \E e \in Editor : EditForm(e) \/ ReadStoredKey(e) \/ PutProvider(e) \/ SaveFails(e)

HarnessSpec == HarnessInit /\ [][HarnessNext]_harnessVars

-----------------------------------------------------------------------------
(***************************************************************************)
(* Properties                                                              *)
(***************************************************************************)
\* reconcile, for one name: the screen's label of it.
Drift(n) == IF held[n] # 0 THEN "managed" ELSE "missing"

\* What an apply reported as applied is shown as managed and is this release's
\* manifest, whatever applied, failed or was already there beside it.
AppliedIsHeld ==
    \A a \in Applier : applier[a].pc = "applied" =>
        \A i \in DOMAIN ManifestsOf(applier[a].plan) :
            LET n == ManifestsOf(applier[a].plan)[i]
            IN Drift(n) = "managed" /\ held[n] = Release

\* A save whose key field was left blank keeps the working key, also when
\* another form rotated it between the read and the write (desired.ts:147-153).
BlankKeepsTheKey == \A s \in Surface : provider[s].key = known.given[s]

\* What a settings write reported is what the harness holds: the two together.
SettingsHold == AppliedIsHeld /\ BlankKeepsTheKey
=============================================================================
