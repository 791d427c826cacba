---------------------------- MODULE MCParts ---------------------------------
(***************************************************************************)
(* The parts that are checked for safety only, side by side; each          *)
(* behaviour moves one part and the others stay in one initial state.      *)
(*   image   ImageBuild: either one repository with any compose file of    *)
(*           the catalogue below and nothing going wrong, or a repository  *)
(*           and a retest of it with two plain plans and a few faults      *)
(*   trial   Reproduction: every recipe with up to two extra controls      *)
(*   probe   Reproduction, the agent's probes: two calls of one session's agent                      *)
(*   owner   OwnerAdvisory: two revisions of one report                    *)
(*   set     HarnessSettings: two runs of an apply and one form            *)
(*   door    Intake: a few messages and uploads, two requests at once      *)
(*   desk    Appeals: one report's appeals and members                     *)
(*   review  CodeReview: two runs, two workers, two calls of the tool       *)
(***************************************************************************)
EXTENDS ImageBuild, Reproduction, OwnerAdvisory, HarnessSettings, Appeals, CodeReview, TLC

VARIABLE part

CONSTANTS web, db, aux,     \* services
          repo, retest, other,
          c1, s1, g1, g2, w1, w2, f1,
          h1, h2, a1, a2, o1, r1, n1, n2, tc1, tc2

-----------------------------------------------------------------------------
Plain == [image |-> "none", build |-> "inside", port |-> "published",
          needs |-> {}, socket |-> FALSE, odd |-> FALSE, start |-> "default"]
Store == [Plain EXCEPT !.image = "datastore", !.build = "none", !.port = "none"]

Single == [compose |-> NoCompose, dockerfile |-> TRUE, hint |-> NoService]
Mesh == [compose |-> [n \in {web, db} |-> IF n = web THEN [Plain EXCEPT !.needs = {db}] ELSE Store],
         dockerfile |-> FALSE, hint |-> NoService]
\* The catalogue: an app, a datastore and a third service of many kinds.
WebKinds == [image : {"none"}, build : {"none", "inside", "stray"}, port : {"none", "published"},
             needs : {{}, {db, aux}}, socket : {FALSE}, odd : {FALSE}, start : {"default"}]
            \union {[Plain EXCEPT !.build = "outside"], [Plain EXCEPT !.start = "unusable"],
                    [Plain EXCEPT !.image = "stock", !.build = "none"],
                    [Plain EXCEPT !.image = "unresolved", !.build = "none"], [Plain EXCEPT !.image = "unresolved"]}
DbKinds == {Store, [Store EXCEPT !.image = "bundled"], [Store EXCEPT !.odd = TRUE]}
AuxKinds == [image : {"none", "stock"}, build : {"none", "inside"}, port : {"none", "published"},
             needs : {{web}}, socket : {FALSE}, odd : {FALSE}, start : {"argv", "host"}]
            \union {[Plain EXCEPT !.socket = TRUE], [Plain EXCEPT !.port = "exposed"]}
Catalogue == [compose : {NoCompose} \union [{web} -> WebKinds]
                        \union {web :> w @@ db :> d : w \in WebKinds, d \in DbKinds}
                        \union {web :> w @@ db :> d @@ aux :> a :
                                    w \in WebKinds, d \in DbKinds, a \in AuxKinds},
              dockerfile : {FALSE}, hint : {NoService}]

MCRepoOf == [t \in Target |-> IF t = other THEN other ELSE repo]
MCSlugOf == [r \in {repo, other} |-> <<r>>]

\* The agent's image, and its mesh of an app and a database run by docker.
MCProposals == {[strategy |-> "agent-authored"],
                [strategy |-> "compose-mesh", app |-> web,
                 services |-> [n \in {web, db} |-> MeshService(Mesh.compose, n, web)]]}

NoFaults == [faults |-> 0, crashes |-> 0, losses |-> 0, retries |-> 0, sweeps |-> 0]

One(f, b) == [rows |-> {repo}, files |-> [t \in Target |-> f], budget |-> b]
Both(f, b) == [One(f, b) EXCEPT !.rows = Target]
Planning == {One(f, NoFaults) : f \in Catalogue \union {[Single EXCEPT !.dockerfile = FALSE]}}
Building == {One(Mesh, [NoFaults EXCEPT !.faults = 1, !.losses = 1]),
             One(Single, [NoFaults EXCEPT !.losses = 1, !.crashes = 1]),
             One(Single, [NoFaults EXCEPT !.faults = 1, !.retries = 1, !.sweeps = 1]),
             Both(Single, NoFaults)}
MCWorlds == Planning \union Building

MCRecipes == {r \in [oob : BOOLEAN, followUp : BOOLEAN, setup : BOOLEAN, browser : BOOLEAN,
                     extras : 0..2] :
                r.browser => ~(r.oob \/ r.followUp \/ r.setup \/ r.extras > 0)}

Mail(key, domain, big) ==
    [channel |-> "email", key |-> key, domain |-> domain, address |-> "none",
     proven |-> TRUE, big |-> big, listed |-> FALSE]
Form(key, domain, address, big) ==
    [channel |-> "upload", key |-> key, domain |-> domain, address |-> address,
     proven |-> FALSE, big |-> big, listed |-> FALSE]

\* One mailbox under two spellings, two senders of a firm, a forged and a
\* listed sender; uploads that share a mailbox, a domain or an address.
Post == [m1 |-> Mail("ann", "gmail", FALSE),   m2 |-> Mail("ann", "googlemail", FALSE),
         m3 |-> Mail("bob", "firm", FALSE),    m4 |-> Mail("cy", "firm", TRUE),
         m5 |-> [Mail("dan", "firm", FALSE) EXCEPT !.proven = FALSE],
         m6 |-> [Mail("eve", "firm", FALSE) EXCEPT !.listed = TRUE],
         u1 |-> Form("ann", "gmail", "x", FALSE), u2 |-> Form("ann", "googlemail", "y", FALSE),
         u3 |-> Form("bob", "firm", "x", FALSE),  u4 |-> Form("cy", "shop", "x", TRUE)]
FreeMail == {"gmail", "googlemail"}

NoMail == [items |-> {}, edits |-> 0, crashes |-> 0, again |-> 0, days |-> 0]
NoAppeal == [asks |-> 0, unproofs |-> 0, days |-> 0, invites |-> 0, edits |-> 0]

Doors == {[NoMail EXCEPT !.items = {"m3", "m4", "m5", "m6"}, !.crashes = 1, !.again = 1],
          [NoMail EXCEPT !.items = {"m1", "m2", "m3"}, !.edits = 1, !.days = 1],
          [NoMail EXCEPT !.items = {"u1", "u2", "u3", "u4"}, !.edits = 1, !.crashes = 1]}
Desks == {[NoAppeal EXCEPT !.asks = 3],
          [NoAppeal EXCEPT !.asks = 2, !.days = 1],
          [NoAppeal EXCEPT !.asks = 1, !.unproofs = 1],
          [NoAppeal EXCEPT !.asks = 1, !.invites = 2, !.edits = 2]}

IntakeSettings == Doors \union {NoMail}
AppealSettings == Desks \union {NoAppeal}

-----------------------------------------------------------------------------
Parts == {"image", "trial", "probe", "owner", "set", "door", "desk", "review"}

AllInit ==
    /\ part \in Parts
    /\ TrialInit /\ ProbeInit /\ AdvisoryInit /\ HarnessInit
    /\ IntakeInit /\ AppealInit /\ CodeReviewInit
    /\ part # "trial" => trial.recipe = CHOOSE r \in Recipes : r.browser
    /\ part # "probe" => link.sandbox = 0
    /\ part # "set" => known.given["model"] = 0
    /\ (intake = NoMail <=> part # "door") /\ (appeals = NoAppeal <=> part # "desk")
    /\ ImageInit
    /\ part # "image" => job[repo].files.compose = NoCompose /\ job[repo].files.dockerfile
                          /\ job[retest].state = "none" /\ budget.losses = 1 /\ budget.crashes = 1

AllVars == <<imageVars, trialVars, probeVars, advisoryVars, harnessVars,
             intakeVars, appealVars, reviewVars, part>>
AllNext ==
    /\ UNCHANGED part
    /\ \/ part = "image" /\ ImageNext
       \/ part = "trial" /\ TrialNext
       \/ part = "probe" /\ ProbeNext
       \/ part = "owner" /\ AdvisoryNext
       \/ part = "set" /\ HarnessNext
       \/ part = "door" /\ IntakeNext
       \/ part = "desk" /\ AppealNext
       \/ part = "review" /\ ReviewNext
    /\ part # "image" => UNCHANGED imageVars
    /\ part # "trial" => UNCHANGED trialVars
    /\ part # "probe" => UNCHANGED probeVars
    /\ part # "owner" => UNCHANGED advisoryVars
    /\ part # "set" => UNCHANGED harnessVars
    /\ part # "door" => UNCHANGED intakeVars
    /\ part # "desk" => UNCHANGED appealVars
    /\ part # "review" => UNCHANGED reviewVars
AllSpec == AllInit /\ [][AllNext]_AllVars

=============================================================================
