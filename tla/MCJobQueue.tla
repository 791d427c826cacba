---------------------------- MODULE MCJobQueue ----------------------------
(* Instances of JobQueue for TLC. *)
EXTENDS JobQueue, TLC

CONSTANTS w1, w2, w3, j1, j2

\* All workers claim under one owner string, as a claim the daemon gave up
\* on and the one that replaced it do: only the fence tells them apart.
SharedOwner == [w \in {w1, w2, w3} |-> "daemon"]

OneAnalysis == [j \in {j1} |-> "analysis"]
Gated == (j1 :> "advisory") @@ (j2 :> "outside")

===========================================================================
