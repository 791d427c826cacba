---------------------------- MODULE MCOnboarding ----------------------------
(* Instances of Onboarding for TLC. *)
EXTENDS Onboarding

CONSTANTS w1, w2, r1

\* Both workers claim under the daemon's owner string.
SharedOwner == [w \in Worker |-> "daemon"]

\* A first onboarding, which nobody retries.
FirstTime == /\ Fresh
             /\ retries = MaxRetries /\ sweeps = MaxSweeps
             /\ aborts = MaxAborts /\ revokes = MaxRevokes

\* A repository that was refused, and may be tried once more.
Refused == /\ row = [r \in Repo |-> [Absent EXCEPT !.state = "UNSUPPORTED", !.fence = 1,
                                        !.attempts = 1, !.commit = TRUE, !.plan = "refused"]]
           /\ worker = [w \in Worker |-> Idle]
           /\ build = [b \in Build |-> [st |-> IF b = 1 THEN "free" ELSE "over", r |-> r1]]
           /\ turn = [t \in Turn |-> [st |-> "over", r |-> r1]]
           /\ snapshot = [r \in Repo |-> 0]
           /\ profile = [r \in Repo |-> 0]
           /\ link = [r \in Repo |-> "granted"]
           /\ sweeper = [phase |-> "idle", safe |-> {}]
           /\ blessed = [r \in Repo |-> {}]
           /\ retries = 0 /\ sweeps = MaxSweeps /\ aborts = MaxAborts /\ revokes = MaxRevokes

(***************************************************************************)
(* A repository whose first onboarding wrote the profile and then spent    *)
(* its attempts without recording CONFIGURED, so that a retry rebuilds a   *)
(* target that already has a profile.  Only one of a sweep, a shutdown and *)
(* a revocation meets it, to keep the instance small.                      *)
(***************************************************************************)
Rebuild ==
    /\ row = [r \in Repo |-> [Absent EXCEPT !.state = "FAILED", !.attempts = MaxAttempts,
                                !.fence = 1, !.commit = TRUE, !.plan = "recipe",
                                !.image = 1, !.manifest = TRUE]]
    /\ worker = [w \in Worker |-> Idle]
    /\ build = [b \in Build |-> [st |-> IF b = 1 THEN "over" ELSE "free", r |-> r1]]
    /\ turn = [t \in Turn |-> [st |-> "free", r |-> r1]]
    /\ snapshot = [r \in Repo |-> 1]
    /\ profile = [r \in Repo |-> 1]
    /\ link = [r \in Repo |-> "bound"]
    /\ sweeper = [phase |-> "idle", safe |-> {}]
    /\ blessed = [r \in Repo |-> {1}]
    /\ retries = 0
    /\ \/ sweeps = 0 /\ aborts = MaxAborts /\ revokes = MaxRevokes
       \/ sweeps = MaxSweeps /\ aborts = 0 /\ revokes = MaxRevokes
       \/ sweeps = MaxSweeps /\ aborts = MaxAborts /\ revokes = 0

MCSpec == (FirstTime \/ Refused \/ Rebuild) /\ [][Next]_vars
MCFairSpec == MCSpec /\ Fairness
=============================================================================
