---------------------------- MODULE TargetProposal ----------------------------
(***************************************************************************)
(* What onboarding promises about a repository's target, whatever worker,  *)
(* build or retry carries it out: a repository becomes a live target only  *)
(* through a proposal a reviewer approved, and the image a profile pins is *)
(* always one that a reviewer approved for that repository at some time.   *)
(*                                                                         *)
(* It says nothing of leases, fences, attempts, builds or snapshots.       *)
(***************************************************************************)
EXTENDS Naturals

CONSTANTS Repo, Image, NoImage     \* NoImage is not an Image

VARIABLES
    phase,      \* where each repository's onboarding stands
    offered,    \* the image a proposal rests on
    blessed,    \* images a reviewer approved, ever
    pinned      \* the image the target profile boots

vars == <<phase, offered, blessed, pinned>>

Phases == {"none", "building", "proposed", "approved", "configured", "failed", "refused"}

\* A repository that nobody has worked on, or one that has a history.
Init == /\ phase \in [Repo -> {"none", "configured", "failed", "refused"}]
        /\ offered \in [Repo -> Image \union {NoImage}]
        /\ blessed \in [Repo -> SUBSET Image]
        /\ pinned \in [Repo -> Image \union {NoImage}]
        /\ \A r \in Repo : /\ pinned[r] \in blessed[r] \union {NoImage}
                           /\ phase[r] = "none" => blessed[r] = {}

Move(r, from, to) == /\ phase[r] \in from
                     /\ phase' = [phase EXCEPT ![r] = to]

\* Work starts, or starts over once it has come to rest without a target.
Start(r) == /\ Move(r, {"none", "failed", "refused"}, "building")
            /\ offered' = [offered EXCEPT ![r] = NoImage]
            /\ UNCHANGED <<blessed, pinned>>

Refuse(r) == Move(r, {"building"}, "refused") /\ UNCHANGED <<offered, blessed, pinned>>

\* A build or a verification that keeps failing gives the proposal up.
GiveUp(r) == /\ Move(r, {"building", "approved"}, "failed")
             /\ UNCHANGED <<offered, blessed, pinned>>

Builds(r, i) == /\ phase[r] = "building"
               /\ offered' = [offered EXCEPT ![r] = i]
               /\ UNCHANGED <<phase, blessed, pinned>>

Propose(r) == /\ Move(r, {"building"}, "proposed")
              /\ offered[r] # NoImage
              /\ UNCHANGED <<offered, blessed, pinned>>

\* The human gate.
Approve(r) == /\ Move(r, {"proposed"}, "approved")
              /\ blessed' = [blessed EXCEPT ![r] = @ \union {offered[r]}]
              /\ UNCHANGED <<offered, pinned>>

Pin(r, i) == /\ i \in blessed[r]
             /\ pinned' = [pinned EXCEPT ![r] = i]
             /\ UNCHANGED <<phase, offered, blessed>>

Configure(r) == /\ Move(r, {"approved"}, "configured")
                /\ pinned[r] # NoImage
                /\ UNCHANGED <<offered, blessed, pinned>>

Next == \E r \in Repo : \/ Start(r) \/ Refuse(r) \/ GiveUp(r) \/ Propose(r)
                        \/ Approve(r) \/ Configure(r)
                        \/ \E i \in Image : Builds(r, i) \/ Pin(r, i)

Spec == Init /\ [][Next]_vars
===============================================================================
