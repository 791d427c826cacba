----------------------------- MODULE MCApproval -----------------------------
(* Instances of Approval for TLC. *)
EXTENDS Approval, TLC

\* Processes of a kind are interchangeable.
Symmetry == Permutations(Poller) \union Permutations(Submitter) \union Permutations(Runner)

\* Pollers overlap while the reviewer's answers are submitted; a re-check
\* meets a poller that may stall across it.
Overlap == [forms |-> {"draft", "bare", "odd"}, pollers |-> 2, submits |-> TRUE, rechecks |-> 0]
Rechecked == [forms |-> {"draft", "bare"}, pollers |-> 1, submits |-> FALSE, rechecks |-> 1]
Gated == [forms |-> {"draft", "gated", "odd"}, pollers |-> 1, submits |-> TRUE, rechecks |-> 0]

Settings == {Overlap, Rechecked}
LiveSettings == {Gated}
=============================================================================
