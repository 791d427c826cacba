---------------------------- MODULE Reproduction ----------------------------
(***************************************************************************)
(* One run of the canary oracle: src/lib/sandbox/reproduce.ts with the     *)
(* out-of-band listener (ssrf-listener.ts), the browser oracle             *)
(* (browser-probe.ts), the decision rule (src/lib/reproduction/decide.ts)  *)
(* and the authorisation of the target (authorize-reproduction.ts).        *)
(*                                                                         *)
(* The canary is one secret per run, so a callback says that some leg made *)
(* the target call out and not which leg: wire and log hold the legs the   *)
(* code cannot tell apart.  A callback is in time when it reaches the      *)
(* listener within the settle window after its leg was answered; Lateness  *)
(* bounds those that are not, which wire.late remembers.  A request that   *)
(* is lost, timed out or sent to a sandbox past its TTL is one failure.    *)
(***************************************************************************)
EXTENDS Naturals

CONSTANTS
    Recipes,    \* [oob, followUp, setup, browser : BOOLEAN, extras : Nat]
    Lateness,   \* callbacks that outlive the settle window
    Cancels      \* cancellations of the run, 0 or 1

ASSUME RecipeAssumption ==
    Recipes \subseteq [oob : BOOLEAN, followUp : BOOLEAN, setup : BOOLEAN,
                       browser : BOOLEAN, extras : Nat]
ASSUME TrialBoundAssumption == Lateness \in Nat /\ Cancels \in Nat

VARIABLES
    trial,   \* the run: program counter, recipe, results of its legs, outcome
    boxes,   \* its sandboxes: the target, the listener and the browser
    wire,    \* callbacks on their way to the listener, late ones, and its log
    spare    \* what the environment may still do

trialVars == <<trial, boxes, wire, spare>>

Legs == {"setup", "control", "extra", "exploit"}
Reasons == {"NO_BOUND_TARGET", "POLICY_REFUSED", "COULD_NOT_DEPLOY",
            "NO_APPROVED_ORACLE", "TARGET_UNAVAILABLE"}
Judged == {"REPRODUCED", "NOT_REPRODUCED"}
NotRun == [ran |-> FALSE, found |-> FALSE]
Steps == {"authorize", "provision", "render", "rendered", "preview", "fixture", "listen",
          "listening", "setup", "control", "drain", "gate", "extra", "clear", "exploit",
          "drainExtra", "poll", "decide", "close", "teardown", "over"}

TrialTypeOK ==
    /\ trial \in [pc : Steps, recipe : Recipes, cut : BOOLEAN, fixture : BOOLEAN,
                  setup : BOOLEAN, control : [ran : BOOLEAN, found : BOOLEAN],
                  exploit : [ran : BOOLEAN, found : BOOLEAN], extra : Nat,
                  outcome : Reasons \union Judged \union {"none", "threw"},
                  seen : SUBSET Legs]
    /\ boxes \in [{"target", "listener", "browser"} -> {"none", "up", "orphan", "gone"}]
    /\ wire \in [flying : SUBSET Legs, late : SUBSET Legs, log : SUBSET Legs]
    /\ spare \in [late : Nat, abort : Nat]

TrialInit ==
    /\ \E recipe \in Recipes :
         trial = [pc |-> "authorize", recipe |-> recipe, cut |-> FALSE, fixture |-> FALSE,
                  setup |-> TRUE, control |-> NotRun, exploit |-> NotRun, extra |-> 0,
                  outcome |-> "none", seen |-> {}]
    /\ boxes = [b \in {"target", "listener", "browser"} |-> "none"]
    /\ wire = [flying |-> {}, late |-> {}, log |-> {}]
    /\ spare = [late |-> Lateness, abort |-> Cancels]

Oob == boxes["listener"] = "up"      \* oobSession is set
To(pc) == trial' = [trial EXCEPT !.pc = pc]

\* analysisOnly and every other return inside the try: the finally block is next.
Answers(outcome) == trial' = [trial EXCEPT !.pc = "close", !.outcome = outcome]

\* Whatever is thrown there: an abort rethrows, the rest is never a guessed verdict.
Failing == IF trial.cut THEN "threw" ELSE "TARGET_UNAVAILABLE"

\* teardownSandbox: deleted, or left behind by a delete that failed.
Torn(b) == \E state \in {"gone", "orphan"} : boxes' = [boxes EXCEPT ![b] = state]

-----------------------------------------------------------------------------
(***************************************************************************)
(* The target: authorised, provisioned, and reached by a preview URL.      *)
(***************************************************************************)
\* The first thing a profile lacks decides the reason.
Refusal == [profile |-> "NO_BOUND_TARGET", privateGrant |-> "POLICY_REFUSED",
            image |-> "COULD_NOT_DEPLOY", port |-> "NO_APPROVED_ORACLE",
            manifest |-> "COULD_NOT_DEPLOY", recipe |-> "NO_APPROVED_ORACLE",
            oracleReady |-> "NO_APPROVED_ORACLE", snapshotId |-> "TARGET_UNAVAILABLE"]

AuthorizeTarget ==
    /\ trial.pc = "authorize"
    /\ \/ trial.cut /\ Answers("threw")
       \/ ~trial.cut /\ To("provision")
       \/ ~trial.cut /\ \E lack \in DOMAIN Refusal : Answers(Refusal[lack])
    /\ UNCHANGED <<boxes, wire, spare>>

\* provisionTarget cleans up after itself: it leaves a sandbox behind when the
\* delete fails, the create's answer is lost, or the abort comes between its
\* two try blocks.
ProvisionTrialTarget ==
    /\ trial.pc = "provision"
    /\ \/ /\ ~trial.cut
          /\ To(IF trial.recipe.browser THEN "render" ELSE "preview")
          /\ boxes' = [boxes EXCEPT !["target"] = "up"]
       \/ /\ \E reason \in {"COULD_NOT_DEPLOY", "TARGET_UNAVAILABLE"} :
               Answers(IF trial.cut THEN "threw" ELSE reason)
          /\ UNCHANGED boxes
       \/ /\ Answers(IF trial.cut THEN "threw" ELSE "COULD_NOT_DEPLOY")
          /\ boxes' = [boxes EXCEPT !["target"] = "orphan"]
    /\ UNCHANGED <<wire, spare>>

PreviewTarget ==
    /\ trial.pc = "preview"
    /\ \/ ~trial.cut /\ To("fixture")
       \/ Answers(Failing)
    /\ UNCHANGED <<boxes, wire, spare>>

-----------------------------------------------------------------------------
(***************************************************************************)
(* The browser oracle: one offline sandbox renders both legs, and is torn  *)
(* down before its result is read.                                         *)
(***************************************************************************)
BootBrowser ==
    /\ trial.pc = "render"
    /\ \/ /\ ~trial.cut
          /\ boxes' = [boxes EXCEPT !["browser"] = "up"]
          /\ To("rendered")
       \/ /\ boxes' \in {boxes, [boxes EXCEPT !["browser"] = "orphan"]}
          /\ Answers(Failing)
    /\ UNCHANGED <<wire, spare>>

\* runBrowserProbe fails closed on egress, marker, driver or parse; its
\* finally block's delete, when it fails, replaces the observations.
\* runBrowserOracle: the control page having loaded is the fixture.
RenderLegs ==
    /\ trial.pc = "rendered"
    /\ Torn("browser")
    /\ \/ Answers(Failing)
       \/ /\ ~trial.cut
          /\ boxes'["browser"] = "gone"
          /\ \E control, exploit \in [ran : BOOLEAN, found : BOOLEAN] :
               trial' = [trial EXCEPT !.pc = "decide", !.fixture = control.ran,
                           !.control = control, !.exploit = exploit,
                           !.seen = {leg \in {"control", "exploit"} :
                                       IF leg = "control" THEN control.found
                                                          ELSE exploit.found}]
    /\ UNCHANGED <<wire, spare>>

-----------------------------------------------------------------------------
(***************************************************************************)
(* Fixture, listener and setup: what the control and the exploit rest on.  *)
(***************************************************************************)
AfterFixture(seeded, ready) ==
    CASE ~seeded \/ ~ready -> "decide"
      [] seeded /\ ready /\ trial.recipe.setup -> "setup"
      [] OTHER -> "control"

SeedFixture ==
    /\ trial.pc = "fixture"
    /\ \/ trial.cut /\ Answers("threw")
       \/ /\ ~trial.cut
          /\ \E seeded \in BOOLEAN :
               trial' = [trial EXCEPT !.fixture = seeded,
                           !.pc = IF seeded /\ trial.recipe.oob THEN "listen"
                                  ELSE AfterFixture(seeded, TRUE)]
    /\ UNCHANGED <<boxes, wire, spare>>

NoListener == trial' = [trial EXCEPT !.setup = FALSE,
                                     !.pc = IF trial.cut THEN "close" ELSE "decide",
                                     !.outcome = IF trial.cut THEN "threw" ELSE @]

\* startOobListener up to createSandbox: a create that threw may have made the
\* sandbox, which is swept by its parent label, best effort.
BootListener ==
    /\ trial.pc = "listen"
    /\ \/ /\ ~trial.cut
          /\ boxes' = [boxes EXCEPT !["listener"] = "up"]
          /\ To("listening")
       \/ /\ boxes' \in {boxes, [boxes EXCEPT !["listener"] = "orphan"]}
          /\ NoListener
    /\ UNCHANGED <<wire, spare>>

\* ... and from there: isolation, marker and start.  A refused listener is
\* torn down; a delete that fails is thrown at reproduce unless it aborts.
StartListener ==
    /\ trial.pc = "listening"
    /\ \/ /\ ~trial.cut
          /\ To(AfterFixture(TRUE, TRUE))
          /\ UNCHANGED boxes
       \/ /\ Torn("listener")
          /\ \/ boxes'["listener"] = "gone" /\ NoListener
             \/ boxes'["listener"] = "orphan" /\ Answers(Failing)
    /\ UNCHANGED <<wire, spare>>

\* A leg of a listening run may make the target call back, answered or not,
\* within the settle window or later than it.
MayCallOut(leg) ==
    \/ UNCHANGED <<wire, spare>>
    \/ Oob /\ wire' = [wire EXCEPT !.flying = @ \union {leg}] /\ UNCHANGED spare
    \/ /\ Oob /\ spare.late > 0
       /\ wire' = [wire EXCEPT !.flying = @ \union {leg}, !.late = @ \union {leg}]
       /\ spare' = [spare EXCEPT !.late = @ - 1]

Seen(leg) == IF leg \in wire'.flying THEN trial.seen \union {leg} ELSE trial.seen

\* runSetup: every step must be a 2xx whose captures are found and safe.
RunSetup ==
    /\ trial.pc = "setup"
    /\ MayCallOut("setup")
    /\ \/ /\ trial.cut
          /\ trial' = [trial EXCEPT !.pc = "close", !.outcome = "threw", !.seen = Seen("setup")]
       \/ \E done \in BOOLEAN :
            trial' = [trial EXCEPT !.setup = done, !.seen = Seen("setup"),
                                   !.pc = IF done THEN "control" ELSE "decide"]
    /\ UNCHANGED boxes

-----------------------------------------------------------------------------
(***************************************************************************)
(* The controls, the gate, and the exploit.                                *)
(***************************************************************************)
\* One control leg's result folds into the one control decideOutcome sees.
Fold(leg, ran, found) ==
    IF leg = "control" THEN [ran |-> ran, found |-> found]
    ELSE [ran |-> trial.control.ran /\ ran, found |-> trial.control.found \/ found]

Controls == {"control", "extra"}
DrainOf == [control |-> "drain", extra |-> "drainExtra"]

\* runLeg: an unaccepted status or a lost request is a leg that did not run.
\* A listening run asks the log, any other the response.
SendControl(leg) ==
    /\ leg \in Controls /\ trial.pc = leg
    /\ MayCallOut(leg)
    /\ \/ /\ trial.cut
          /\ trial' = [trial EXCEPT !.pc = "close", !.outcome = "threw", !.seen = Seen(leg)]
       \/ /\ ~trial.cut /\ Oob
          /\ trial' = [trial EXCEPT !.pc = DrainOf[leg], !.seen = Seen(leg)]
       \/ /\ ~trial.cut /\ ~Oob
          /\ \E found \in BOOLEAN :
               trial' = [trial EXCEPT !.pc = "gate", !.control = Fold(leg, TRUE, found),
                           !.extra = IF leg = "extra" THEN @ + 1 ELSE @,
                           !.seen = IF found THEN @ \union {leg} ELSE @]
       \/ /\ ~trial.cut
          /\ trial' = [trial EXCEPT !.pc = "gate", !.control = Fold(leg, FALSE, FALSE),
                         !.extra = IF leg = "extra" THEN @ + 1 ELSE @, !.seen = Seen(leg)]
    /\ UNCHANGED boxes

\* Mutant: the drain reads at once.
WindowOver_Never == TRUE

\* The settle window is over: what is in time has arrived.
WindowOver == wire.flying \subseteq wire.late

\* The draining read waits the whole window and moves the log aside.
DrainControl(leg) ==
    /\ leg \in Controls /\ trial.pc = DrainOf[leg]
    /\ WindowOver
    /\ LET folded(ran, found) ==
             trial' = [trial EXCEPT !.pc = "gate", !.control = Fold(leg, ran, found),
                         !.extra = IF leg = "extra" THEN @ + 1 ELSE @]
       IN \/ trial.cut /\ Answers("threw") /\ UNCHANGED wire
          \/ /\ ~trial.cut /\ folded(TRUE, wire.log # {})
             /\ wire' = [wire EXCEPT !.log = {}]
          \/ ~trial.cut /\ folded(FALSE, FALSE) /\ UNCHANGED wire
    /\ UNCHANGED <<boxes, spare>>

CleanControl == trial.control.ran /\ ~trial.control.found

\* Once the primary control is clean every additional one runs, whatever the
\* ones before it said; the folded result opens the way to the exploit.
PassGate ==
    /\ trial.pc = "gate"
    /\ LET more == trial.extra < trial.recipe.extras /\ (trial.extra > 0 \/ CleanControl)
       IN To(CASE more -> "extra"
               [] ~more /\ ~CleanControl -> "decide"
               [] ~more /\ CleanControl /\ Oob -> "clear"
               [] ~more /\ CleanControl /\ ~Oob -> "exploit")
    /\ UNCHANGED <<boxes, wire, spare>>

\* clearLog erases whatever arrived since the drain, read or not.
ClearLog ==
    /\ trial.pc = "clear"
    /\ \/ ~trial.cut /\ To("exploit") /\ wire' = [wire EXCEPT !.log = {}]
       \/ ~trial.cut /\ To("decide") /\ UNCHANGED wire
       \/ Answers(Failing) /\ UNCHANGED wire
    /\ UNCHANGED <<boxes, spare>>

\* runExploitWithFollowUp answers by its own second request; in a listening
\* run without one the log decides, whatever the exploit's status.
SendExploit ==
    /\ trial.pc = "exploit"
    /\ MayCallOut("exploit")
    /\ \/ /\ trial.cut
          /\ trial' = [trial EXCEPT !.pc = "close", !.outcome = "threw", !.seen = Seen("exploit")]
       \/ /\ ~trial.cut /\ Oob /\ ~trial.recipe.followUp
          /\ trial' = [trial EXCEPT !.pc = "poll", !.seen = Seen("exploit")]
       \/ /\ ~trial.cut /\ (~Oob \/ trial.recipe.followUp)
          /\ \E found \in BOOLEAN :
               trial' = [trial EXCEPT !.pc = "decide", !.exploit = [ran |-> TRUE, found |-> found],
                           !.seen = IF found THEN @ \union {"exploit"} ELSE Seen("exploit")]
       \/ /\ ~trial.cut
          /\ trial' = [trial EXCEPT !.pc = "decide", !.seen = Seen("exploit")]
    /\ UNCHANGED boxes

\* The exploit's read polls until something is logged or the window is over.
PollExploit ==
    /\ trial.pc = "poll"
    /\ wire.log # {} \/ WindowOver
    /\ \/ trial.cut /\ Answers("threw")
       \/ ~trial.cut /\ To("decide")
       \/ /\ ~trial.cut
          /\ trial' = [trial EXCEPT !.pc = "decide",
                         !.exploit = [ran |-> TRUE, found |-> wire.log # {}]]
    /\ UNCHANGED <<boxes, wire, spare>>

CallbackArrives ==
    /\ \E leg \in wire.flying :
         wire' = [wire EXCEPT !.flying = @ \ {leg},
                              !.log = IF Oob THEN @ \union {leg} ELSE @]
    /\ trial.pc # "over"
    /\ UNCHANGED <<trial, boxes, spare>>

-----------------------------------------------------------------------------
(***************************************************************************)
(* The outcome, and the sandboxes on the way out.                          *)
(***************************************************************************)
decideOutcome(run) ==
    CASE ~run.fixture -> "ANALYSIS_ONLY"
      [] run.fixture /\ (~run.control.ran \/ ~run.exploit.ran) -> "ANALYSIS_ONLY"
      [] run.fixture /\ run.control.ran /\ run.exploit.ran /\ run.control.found
           -> "ANALYSIS_ONLY"
      [] OTHER -> IF run.exploit.found THEN "REPRODUCED" ELSE "NOT_REPRODUCED"

Judge ==
    /\ trial.pc = "decide"
    /\ LET decision == decideOutcome([fixture |-> trial.fixture /\ trial.setup,
                                      control |-> trial.control, exploit |-> trial.exploit])
       IN Answers(CASE decision # "ANALYSIS_ONLY" -> decision
                    [] decision = "ANALYSIS_ONLY" /\ trial.fixture -> "NO_APPROVED_ORACLE"
                    [] OTHER -> "TARGET_UNAVAILABLE")
    /\ UNCHANGED <<boxes, wire, spare>>

\* The listener's close is caught and logged.
CloseListener ==
    /\ trial.pc = "close"
    /\ To("teardown")
    /\ IF Oob THEN Torn("listener") ELSE UNCHANGED boxes
    /\ UNCHANGED <<wire, spare>>

\* The target's teardown throws, in place of any outcome, unless the run was
\* already failing on its abort.
TearTargetDown ==
    /\ trial.pc = "teardown"
    /\ IF boxes["target"] = "up" THEN Torn("target") ELSE UNCHANGED boxes
    /\ trial' = [trial EXCEPT !.pc = "over",
                   !.outcome = IF boxes["target"] = "up" /\ boxes'["target"] = "orphan"
                               THEN "threw" ELSE @]
    /\ wire' = [wire EXCEPT !.flying = {}, !.log = {}]
    /\ UNCHANGED spare

Cancel ==
    /\ trial.pc # "over" /\ spare.abort > 0
    /\ trial' = [trial EXCEPT !.cut = TRUE]
    /\ spare' = [spare EXCEPT !.abort = @ - 1]
    /\ UNCHANGED <<boxes, wire>>

TrialNext ==
    \/ AuthorizeTarget \/ ProvisionTrialTarget \/ PreviewTarget
    \/ BootBrowser \/ RenderLegs
    \/ SeedFixture \/ BootListener \/ StartListener \/ RunSetup
    \/ \E leg \in Controls : SendControl(leg)
    \/ \E leg \in Controls : DrainControl(leg)
    \/ PassGate \/ ClearLog \/ SendExploit \/ PollExploit
    \/ CallbackArrives \/ Judge \/ CloseListener \/ TearTargetDown \/ Cancel

TrialSpec == TrialInit /\ [][TrialNext]_trialVars

-----------------------------------------------------------------------------
(***************************************************************************)
(* Properties                                                              *)
(***************************************************************************)
\* A judged run is evidence: when no callback outlived the settle window,
\* REPRODUCED means that the exploit, and no setup step or control, made the
\* canary show, and NOT_REPRODUCED that nothing did (decide.ts:1-11,
\* ssrf-listener.ts:230-239).  Of a recipe that has both a listener and a
\* follow-up, and no shipped one does, the follow-up alone is asked: the
\* exploit's own callback is then not evidence.
Unasked(recipe) == IF recipe.oob /\ recipe.followUp THEN {"exploit"} ELSE {}
VerdictIsEarned ==
    trial.pc = "over" /\ wire.late = {} =>
        /\ trial.outcome = "REPRODUCED" => trial.seen = {"exploit"}
        /\ trial.outcome = "NOT_REPRODUCED" => trial.seen \subseteq Unasked(trial.recipe)

\* A run that is over has let go of every sandbox it knew of, and one with a
\* verdict has left no target and no browser behind.
RunLeavesNothing ==
    trial.pc = "over" =>
        /\ \A b \in DOMAIN boxes : boxes[b] # "up"
        /\ trial.outcome \in Judged => \A b \in {"target", "browser"} : boxes[b] # "orphan"

\* A run's verdict is evidence and a run leaves nothing behind: the two together.
TrialsAreSound == VerdictIsEarned /\ RunLeavesNothing

-----------------------------------------------------------------------------
(***************************************************************************)
(* The tools by which the agent reaches the target of its session:         *)
(* probe_target, probe_target_write, probe_browser and probe_workbench     *)
(* (src/lib/mcp/probe-*.ts, src/lib/sandbox/browser-probe.ts and           *)
(* workbench-probe.ts).  The calls take no signal and no lease: the turn   *)
(* that made one may be over, its sandbox deleted and its repository       *)
(* disconnected before the call is.  What a response says is left out.     *)
(***************************************************************************)
CONSTANTS
    ProbeCall,   \* tool calls of one session's agent
    Reruns       \* sandboxes the session's row comes to name, one after another

ASSUME RerunAssumption == Reruns \in Nat \ {0}

VARIABLES
    link,    \* the session row's sandbox, whether it still runs, and the repository's grant
    probe,   \* each call: where it is, its tool, the sandbox it read from the row
    helper   \* each call's own sandbox, beside the target

probeVars == <<link, probe, helper>>

Tools == {"read", "write", "post", "browser", "workbench"}
Helped == {"browser", "workbench"}

ProbeTypeOK ==
    /\ link \in [sandbox : 0..Reruns, live : BOOLEAN, granted : BOOLEAN]
    /\ probe \in [ProbeCall -> [pc : {"idle", "resolve", "grant", "preview", "send", "boot",
                                      "inspect", "run", "tear", "over"},
                                tool : Tools, box : 0..Reruns, since : BOOLEAN,
                                reached : BOOLEAN]]
    /\ helper \in [ProbeCall -> {"none", "up", "orphan", "gone"}]

ProbeInit ==
    /\ link \in [sandbox : {0, 1}, live : {TRUE}, granted : {TRUE}]
    /\ probe = [c \in ProbeCall |-> [pc |-> "idle", tool |-> "read", box |-> 0,
                                     since |-> FALSE, reached |-> FALSE]]
    /\ helper = [c \in ProbeCall |-> "none"]

ProbeAt(c, pc) == probe[c].pc = pc
ProbeTo(c, pc) == probe' = [probe EXCEPT ![c].pc = pc]
Answered(c) == ProbeTo(c, "over")

\* The sandbox a call named is the one that runs: an old one is deleted.
StillRuns(c) == link.live /\ probe[c].box = link.sandbox

-----------------------------------------------------------------------------
\* The schemas: probe_target takes GET and HEAD, probe_target_write a POST.
\* since remembers whether the call was made under a grant.
CallTool(c) ==
    /\ ProbeAt(c, "idle")
    /\ \E tool \in Tools :
         probe' = [probe EXCEPT ![c] = [pc |-> "resolve", tool |-> tool, box |-> 0,
                                        since |-> link.granted, reached |-> FALSE]]
    /\ UNCHANGED <<link, helper>>

\* A path off the origin, a POST that came through the other tool, an unknown
\* capability, and a session without a sandbox are refused.
Resolve(c) ==
    /\ ProbeAt(c, "resolve")
    /\ \/ Answered(c)
       \/ /\ probe[c].tool # "post" /\ link.sandbox # 0
          /\ probe' = [probe EXCEPT ![c].pc = "grant", ![c].box = link.sandbox]
    /\ UNCHANGED <<link, helper>>

\* Mutant: the tools with a sandbox of their own trust the row.
CheckGrant_Direct(c) ==
    /\ ProbeAt(c, "grant")
    /\ IF link.granted \/ probe[c].tool \in Helped
       THEN ProbeTo(c, IF probe[c].tool \in Helped THEN "boot" ELSE "preview")
       ELSE Answered(c)
    /\ UNCHANGED <<link, helper>>

\* hasActiveRepositoryGrant, read afresh: no revocation touches the row.
CheckGrant(c) ==
    /\ ProbeAt(c, "grant")
    /\ IF link.granted THEN ProbeTo(c, IF probe[c].tool \in Helped THEN "boot" ELSE "preview")
                       ELSE Answered(c)
    /\ UNCHANGED <<link, helper>>

AskPreview(c) ==
    /\ ProbeAt(c, "preview")
    /\ Answered(c) \/ (StillRuns(c) /\ ProbeTo(c, "send"))
    /\ UNCHANGED <<link, helper>>

\* resolveTargetUrl refuses a path that leaves the preview's origin.
SendRequest(c) ==
    /\ ProbeAt(c, "send")
    /\ \/ Answered(c)
       \/ StillRuns(c) /\ probe' = [probe EXCEPT ![c].pc = "over", ![c].reached = TRUE]
    /\ UNCHANGED <<link, helper>>

\* createSandbox links the helper to the target, which must exist; a create
\* whose answer is lost leaves a sandbox nobody can name.
BootHelper(c) ==
    /\ ProbeAt(c, "boot")
    /\ \/ Answered(c) /\ UNCHANGED helper
       \/ StillRuns(c) /\ ProbeTo(c, "inspect") /\ helper' = [helper EXCEPT ![c] = "up"]
       \/ StillRuns(c) /\ Answered(c) /\ helper' = [helper EXCEPT ![c] = "orphan"]
    /\ UNCHANGED link

\* Nothing runs in it before its isolation and its build are proven.
InspectHelper(c) ==
    /\ ProbeAt(c, "inspect")
    /\ ProbeTo(c, "run") \/ ProbeTo(c, "tear")
    /\ UNCHANGED <<link, helper>>

RunTool(c) ==
    /\ ProbeAt(c, "run")
    /\ probe' = [probe EXCEPT ![c].pc = "tear", ![c].reached = @ \/ StillRuns(c)]
    /\ UNCHANGED <<link, helper>>

\* The finally block; a delete that fails is the call's error.
TearHelper(c) ==
    /\ ProbeAt(c, "tear")
    /\ Answered(c)
    /\ \E state \in {"gone", "orphan"} : helper' = [helper EXCEPT ![c] = state]
    /\ UNCHANGED link

-----------------------------------------------------------------------------
\* The poller, publish_verdict or the TTL ends the sandbox; the row keeps its id.
EndSandbox ==
    /\ link.sandbox # 0 /\ link.live
    /\ link' = [link EXCEPT !.live = FALSE]
    /\ UNCHANGED <<probe, helper>>

\* A re-check boots a new one and rewrites the row.
NameAnother ==
    /\ link.sandbox \in 1..(Reruns - 1) /\ ~link.live
    /\ link' = [link EXCEPT !.sandbox = @ + 1, !.live = TRUE]
    /\ UNCHANGED <<probe, helper>>

\* Disconnected, archived, repointed, suspended.
RevokeGrant ==
    /\ link.granted
    /\ link' = [link EXCEPT !.granted = FALSE]
    /\ UNCHANGED <<probe, helper>>

ProbeNext ==
    \/ \E c \in ProbeCall :
         \/ CallTool(c) \/ Resolve(c) \/ CheckGrant(c) \/ AskPreview(c) \/ SendRequest(c)
         \/ BootHelper(c) \/ InspectHelper(c) \/ RunTool(c) \/ TearHelper(c)
    \/ EndSandbox \/ NameAnother \/ RevokeGrant

ProbeSpec == ProbeInit /\ [][ProbeNext]_probeVars

-----------------------------------------------------------------------------
\* A call made after the revocation reaches no sandbox, by whatever tool; and
\* a call that is over runs no sandbox of its own, unless its delete failed or
\* nobody could name it.
ProbesAreContained ==
    \A c \in ProbeCall :
        /\ probe[c].reached => probe[c].since
        /\ ProbeAt(c, "over") => helper[c] # "up"

=============================================================================
