---------------------------- MODULE JobLifecycle ----------------------------
(***************************************************************************)
(* What the inbound queue promises, with no workers, leases, fences,       *)
(* sweeps or clocks: an accepted delivery is worked on at most             *)
(* MaxAttempts + 1 times, moves forward only over steps whose work has     *)
(* been done, and ends once, DONE or DEAD_LETTER.  JobQueue implements it. *)
(***************************************************************************)
EXTENDS Naturals

CONSTANTS Job, Kind, MaxAttempts

VARIABLES state, performed, starts

vars == <<state, performed, starts>>

Stages == {"RECEIVED", "PARSED", "SESSION_CREATED", "RUNNING"}

\* ALLOWED_TRANSITIONS, as each kind of delivery uses it.
Successor(j, s) ==
    CASE s = "RECEIVED" -> "PARSED"
      [] s = "PARSED" -> IF Kind[j] = "analysis" THEN "SESSION_CREATED" ELSE "DONE"
      [] s = "SESSION_CREATED" -> "RUNNING"
      [] s = "RUNNING" -> "DONE"

NeedsWork(j, s) == \/ s \in {"RECEIVED", "RUNNING"}
                   \/ s = "PARSED" /\ Kind[j] # "advisory"

Init == /\ state = [j \in Job |-> "ABSENT"]
        /\ performed = [j \in Job |-> {}]
        /\ starts = [j \in Job |-> 0]

Accept(j) == /\ state[j] = "ABSENT"
             /\ state' = [state EXCEPT ![j] = "RECEIVED"]
             /\ UNCHANGED <<performed, starts>>

Start(j) == /\ starts[j] <= MaxAttempts
            /\ starts' = [starts EXCEPT ![j] = @ + 1]
            /\ UNCHANGED <<state, performed>>

Work(j, s) == /\ performed' = [performed EXCEPT ![j] = @ \union {s}]
              /\ UNCHANGED <<state, starts>>

Forward(j) == /\ state[j] \in Stages
              /\ NeedsWork(j, state[j]) => state[j] \in performed[j]
              /\ state' = [state EXCEPT ![j] = Successor(j, state[j])]
              /\ UNCHANGED <<performed, starts>>

\* A sweep may bury several jobs at once.
Bury(js) == /\ \A j \in js : state[j] \in Stages
            /\ state' = [j \in Job |-> IF j \in js THEN "DEAD_LETTER" ELSE state[j]]
            /\ UNCHANGED <<performed, starts>>

Next == \/ \E j \in Job : Accept(j) \/ Start(j) \/ Forward(j)
        \/ \E j \in Job, s \in Stages : Work(j, s)
        \/ \E js \in SUBSET Job : Bury(js)

Spec == Init /\ [][Next]_vars
=============================================================================
