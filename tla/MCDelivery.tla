---------------------------- MODULE MCDelivery ----------------------------
(* Instances of Delivery for TLC. *)
EXTENDS Delivery, TLC

CONSTANTS w1, w2, d1

\* Both workers claim under one owner string, as successive claims of the
\* same daemon do: only the fence tells them apart.
SharedOwner == [w \in {w1, w2} |-> "daemon"]

\* Two workers overlap over GitHub, with a retry or a deadline, and over mail,
\* in peace; one worker meets the rest over mail.
Settings ==
    {[workers |-> {w1, w2}, routes |-> {"github", "advisory"}, faults |-> 1, upsets |-> TRUE],
     [workers |-> {w1, w2}, routes |-> {"email"}, faults |-> 0, upsets |-> FALSE],
     [workers |-> {w1}, routes |-> {"email"}, faults |-> 1, upsets |-> TRUE]}
===========================================================================
