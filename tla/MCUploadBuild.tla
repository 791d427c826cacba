---------------------------- MODULE MCUploadBuild ----------------------------
(* Instances of UploadBuild and Retests for TLC, side by side. *)
EXTENDS UploadBuild, Retests

CONSTANTS r1, r2, v1, v2, a1, a2, w1, w2, t1, t2, k1, k2

VARIABLE part

Nothing == [first |-> [r \in Report |-> "absent"], crashes |-> 0, expiries |-> 0, approvals |-> 0,
            lapses |-> 0, binds |-> 0, quarantines |-> 0, retests |-> 0, failedSends |-> 0,
            guesses |-> 0, asks |-> 0]
Only(kind) == [r \in Report |-> IF r = r1 THEN kind ELSE "absent"]

\* An email and an upload at the gate and two reviewers; an uploader and two requests for
\* a code; an upload that is built, with two workers; a retest.
TwoAtGate == [Nothing EXCEPT !.first = [r \in Report |-> IF r = r1 THEN "email" ELSE "upload"],
                             !.crashes = 1, !.expiries = 1]
Codes3    == [Nothing EXCEPT !.first = Only("upload"), !.asks = 3, !.failedSends = 1,
                             !.guesses = 2, !.crashes = 1]
OneBuild  == [Nothing EXCEPT !.first = Only("upload"), !.approvals = 1, !.crashes = 2,
                             !.lapses = 2, !.binds = 1, !.quarantines = 1, !.expiries = 1]
OneRetest == [Nothing EXCEPT !.retests = 1, !.crashes = 1, !.lapses = 1]
Some == {TwoAtGate, Codes3, OneBuild, OneRetest, Nothing}

\* Retests: a report without a repository and one with, two requests at once.
Kinds == [archive |-> "archive", commit |-> "git"]
AllKinds == [archive |-> "archive", image |-> "image", commit |-> "git"]

UploadInit == /\ Init /\ RetestInit /\ part \in {"build", "retest"}
              /\ part = "retest" <=> budget = Nothing
              /\ part = "build" => \A o \in Original : ~original[o].private
UploadNext == \/ part = "build" /\ Next /\ UNCHANGED <<retestVars, part>>
              \/ part = "retest" /\ RetestNext /\ UNCHANGED <<vars, part>>
\* Retests alone: two reports without a repository, three materials.
RetestSpec == part = "retest" /\ UploadInit /\ [][UploadNext]_<<vars, retestVars, part>>
UploadSpec == UploadInit /\ [][UploadNext]_<<vars, retestVars, part>> /\ Fairness
===============================================================================
