--------------------------- MODULE OwnerAdvisory ---------------------------
(***************************************************************************)
(* Telling the repository's owner: src/lib/delivery/advisory.ts with the   *)
(* GitHub primitives of src/lib/github/advisory.ts.  One report, one row,  *)
(* any number of senders; the claim pushes next_attempt_at five minutes    *)
(* out and carries no lease, so a sender that outlives its hold overlaps   *)
(* the next one and settles whatever the row has become.                   *)
(*                                                                         *)
(* A verdict is the number of its revision; the marker in an advisory's    *)
(* description names the revision whose text it is.                        *)
(***************************************************************************)
EXTENDS Naturals, FiniteSets

CONSTANTS
    Sender,         \* claims of the advisory loop that may be in flight
    Revisions,      \* verdict revisions the report comes to deliver
    Advisories,     \* advisories the repository has room for in this model
    MaxSends,       \* MAX_ATTEMPTS
    Stalls, Deaths, OwnerMoves   \* senders that outlive a hold, or die; acts of the owner

ASSUME AdvisoryAssumption ==
    /\ Revisions \in Nat \ {0} /\ Advisories \in Nat \ {0} /\ MaxSends \in Nat \ {0}
    /\ Stalls \in Nat /\ Deaths \in Nat /\ OwnerMoves \in Nat

VARIABLES
    told,     \* the report: its delivered revision, whether DELIVERED, reproduced, connected
    notice,   \* the owner_advisory row
    sender,   \* the senders, with the row each one claimed
    ghsa,     \* the repository's advisories
    leeway    \* what the environment may still do, and whether the owner moved early

advisoryVars == <<told, notice, sender, ghsa, leeway>>

NoAdvisory == [rev |-> 0, state |-> "none"]
Unclaimed == [pc |-> "idle", rev |-> 0, ghsa |-> 0, sends |-> 0, outcome |-> "none"]

AdvisoryTypeOK ==
    /\ told \in [rev : 0..Revisions, delivered : BOOLEAN, reproduced : BOOLEAN,
                 connected : BOOLEAN]
    /\ notice \in [state : {"none", "PENDING", "SENT", "FAILED"}, rev : 0..Revisions,
                   ghsa : 0..Advisories, sends : 0..MaxSends, due : BOOLEAN]
    /\ sender \in [Sender -> [pc : {"idle", "source", "token", "find", "update", "create",
                                    "settle"},
                              rev : 0..Revisions, ghsa : 0..Advisories, sends : 0..MaxSends,
                              outcome : {"none", "SENT", "FAILED", "RETRY"}]]
    /\ ghsa \in [1..Advisories -> [rev : 0..Revisions,
                                   state : {"none", "draft", "published", "withdrawn"}]]
    /\ leeway \in [stall : 0..Stalls, death : 0..Deaths, owner : 0..OwnerMoves, early : BOOLEAN]

AdvisoryInit ==
    /\ told = [rev |-> 0, delivered |-> FALSE, reproduced |-> FALSE, connected |-> TRUE]
    /\ notice = [state |-> "none", rev |-> 0, ghsa |-> 0, sends |-> 0, due |-> FALSE]
    /\ sender = [s \in Sender |-> Unclaimed]
    /\ ghsa = [a \in 1..Advisories |-> NoAdvisory]
    /\ leeway = [stall |-> Stalls, death |-> Deaths, owner |-> OwnerMoves, early |-> FALSE]

-----------------------------------------------------------------------------
(***************************************************************************)
(* The report, its reviewer and the repository's owner.                    *)
(***************************************************************************)
\* The delivery worker, external to this module: a revision reaches the
\* reporter; a re-check takes the report out of DELIVERED.
DeliverRevision ==
    /\ ~told.delivered /\ told.rev < Revisions
    /\ \E reproduced \in BOOLEAN :
         told' = [told EXCEPT !.rev = @ + 1, !.delivered = TRUE, !.reproduced = reproduced]
    /\ UNCHANGED <<notice, sender, ghsa, leeway>>

ReopenReport ==
    /\ told.delivered /\ told.rev < Revisions
    /\ told' = [told EXCEPT !.delivered = FALSE]
    /\ UNCHANGED <<notice, sender, ghsa, leeway>>

DisconnectRepository ==
    /\ told.connected
    /\ told' = [told EXCEPT !.connected = FALSE]
    /\ UNCHANGED <<notice, sender, ghsa, leeway>>

MayAsk == notice.state \in {"none", "FAILED"}
          \/ (notice.state = "SENT" /\ notice.rev # told.rev)

\* The row keeps its ghsa_id, whatever the sender that is still out does.
RequestOwnerAdvisory ==
    /\ told.delivered /\ told.reproduced /\ told.connected /\ MayAsk
    /\ notice' = [notice EXCEPT !.state = "PENDING", !.rev = told.rev, !.sends = 0, !.due = TRUE]
    /\ UNCHANGED <<told, sender, ghsa, leeway>>

\* GitHub, external: the owner publishes the draft, or closes it.  early says
\* that this came before the row knew the advisory.
OwnerActs ==
    /\ leeway.owner > 0
    /\ \E a \in 1..Advisories, state \in {"published", "withdrawn"} :
         /\ ghsa[a].state = "draft"
         /\ ghsa' = [ghsa EXCEPT ![a].state = state]
         /\ leeway' = [leeway EXCEPT !.owner = @ - 1, !.early = @ \/ notice.ghsa # a]
    /\ UNCHANGED <<told, notice, sender>>

-----------------------------------------------------------------------------
(***************************************************************************)
(* adviseOnce                                                              *)
(***************************************************************************)
ClaimAdvisory(s) ==
    /\ sender[s].pc = "idle"
    /\ notice.state = "PENDING" /\ notice.due
    /\ LET sends == IF notice.sends < MaxSends THEN notice.sends + 1 ELSE MaxSends
       IN /\ notice' = [notice EXCEPT !.sends = sends, !.due = FALSE]
          /\ sender' = [sender EXCEPT ![s] = [Unclaimed EXCEPT !.pc = "source", !.rev = notice.rev,
                                                !.ghsa = notice.ghsa, !.sends = sends]]
    /\ UNCHANGED <<told, ghsa, leeway>>

\* next_attempt_at comes round: CLAIM_HOLD_MINUTES after a claim, a minute per
\* attempt after a settle.  A send is far shorter than its hold, unless stalled.
HoldLapses ==
    /\ notice.state = "PENDING" /\ ~notice.due
    /\ notice' = [notice EXCEPT !.due = TRUE]
    /\ IF \A s \in Sender : sender[s].pc = "idle"
       THEN UNCHANGED leeway
       ELSE leeway.stall > 0 /\ leeway' = [leeway EXCEPT !.stall = @ - 1]
    /\ UNCHANGED <<told, sender, ghsa>>

Sends(s, pc) == sender' = [sender EXCEPT ![s].pc = pc]
Concludes(s, outcome) == sender' = [sender EXCEPT ![s].pc = "settle", ![s].outcome = outcome]

\* 403, 404 and 422 wait for a human; a rate limit, an outage and the rest retry.
Declined(s) == \E outcome \in {"FAILED", "RETRY"} : Concludes(s, outcome)

\* The verdict's bytes, its report, its marker and its length; the grant, live.
CheckSource(s) ==
    /\ sender[s].pc = "source"
    /\ \/ told.connected /\ Sends(s, "token")
       \/ Concludes(s, "FAILED")
       \/ Concludes(s, "RETRY")
    /\ UNCHANGED <<told, notice, ghsa, leeway>>

MintToken(s) ==
    /\ sender[s].pc = "token"
    /\ Sends(s, IF sender[s].ghsa = 0 THEN "find" ELSE "update") \/ Declined(s)
    /\ UNCHANGED <<told, notice, ghsa, leeway>>

FindByMarker_Any(s) ==
    /\ sender[s].pc = "find"
    /\ \/ \E a \in 1..Advisories :
            /\ ghsa[a].state = "draft"
            /\ sender' = [sender EXCEPT ![s].ghsa = a, ![s].pc = "settle", ![s].outcome = "SENT"]
       \/ (\A a \in 1..Advisories : ghsa[a].state # "draft") /\ Sends(s, "create")
       \/ Declined(s)
    /\ UNCHANGED <<told, notice, ghsa, leeway>>

\* findAdvisoryByMarker pages through the drafts for any revision's marker.
FindByMarker(s) ==
    /\ sender[s].pc = "find"
    /\ \/ \E a \in 1..Advisories :
            /\ ghsa[a].state = "draft"
            /\ sender' = [sender EXCEPT ![s].ghsa = a,
                            ![s].pc = IF ghsa[a].rev = sender[s].rev THEN "settle" ELSE "update",
                            ![s].outcome = IF ghsa[a].rev = sender[s].rev THEN "SENT" ELSE @]
       \/ (\A a \in 1..Advisories : ghsa[a].state # "draft") /\ Sends(s, "create")
       \/ Declined(s)
    /\ UNCHANGED <<told, notice, ghsa, leeway>>

\* A write may be applied and its answer lost: that is a retry.
UpdateAdvisory(s) ==
    /\ sender[s].pc = "update"
    /\ LET a == sender[s].ghsa
       IN \/ /\ ghsa[a].state # "withdrawn"
             /\ ghsa' = [ghsa EXCEPT ![a].rev = sender[s].rev]
             /\ Concludes(s, "SENT") \/ Concludes(s, "RETRY")
          \/ Declined(s) /\ UNCHANGED ghsa
    /\ UNCHANGED <<told, notice, leeway>>

CreateAdvisory(s) ==
    /\ sender[s].pc = "create"
    /\ \/ \E a \in 1..Advisories :
            /\ ghsa[a].state = "none" /\ \A b \in 1..(a - 1) : ghsa[b].state # "none"
            /\ ghsa' = [ghsa EXCEPT ![a] = [rev |-> sender[s].rev, state |-> "draft"]]
            /\ \/ sender' = [sender EXCEPT ![s].ghsa = a, ![s].pc = "settle", ![s].outcome = "SENT"]
               \/ Concludes(s, "RETRY")
       \/ Declined(s) /\ UNCHANGED ghsa
    /\ UNCHANGED <<told, notice, leeway>>

RetryState(s) == IF sender[s].sends >= MaxSends THEN "FAILED" ELSE "PENDING"

\* The update is fenced by the row's id and PENDING, not by the claim.
SettleAdvisory(s) ==
    /\ sender[s].pc = "settle"
    /\ sender' = [sender EXCEPT ![s] = Unclaimed]
    /\ IF notice.state # "PENDING" THEN UNCHANGED notice
       ELSE notice' = CASE sender[s].outcome = "SENT" ->
                             [notice EXCEPT !.state = "SENT", !.ghsa = sender[s].ghsa]
                        [] sender[s].outcome = "FAILED" -> [notice EXCEPT !.state = "FAILED"]
                        [] OTHER -> [notice EXCEPT !.state = RetryState(s), !.due = FALSE]
    /\ UNCHANGED <<told, ghsa, leeway>>

SenderDies(s) ==
    /\ leeway.death > 0 /\ sender[s].pc # "idle"
    /\ sender' = [sender EXCEPT ![s] = Unclaimed]
    /\ leeway' = [leeway EXCEPT !.death = @ - 1]
    /\ UNCHANGED <<told, notice, ghsa>>

SenderSteps(s) ==
    \/ ClaimAdvisory(s) \/ CheckSource(s) \/ MintToken(s) \/ FindByMarker(s)
    \/ UpdateAdvisory(s) \/ CreateAdvisory(s) \/ SettleAdvisory(s)

AdvisoryNext ==
    \/ DeliverRevision \/ ReopenReport \/ DisconnectRepository
    \/ RequestOwnerAdvisory \/ OwnerActs \/ HoldLapses
    \/ \E s \in Sender : SenderSteps(s) \/ SenderDies(s)

AdvisorySpec == AdvisoryInit /\ [][AdvisoryNext]_advisoryVars

-----------------------------------------------------------------------------
(***************************************************************************)
(* Properties                                                              *)
(***************************************************************************)
Opened == {a \in 1..Advisories : ghsa[a].state # "none"}

\* A report has one advisory, whatever sender died or lost its answer and
\* whatever revision was asked for since, unless a sender outlived its hold or
\* the owner took the draft up before the row knew of it (advisory.ts:333-337).
NoTwinAdvisory ==
    leeway.stall = Stalls /\ ~leeway.early => Cardinality(Opened) <= 1

\* A row that says SENT names an advisory carrying the text of the row's own
\* verdict, unless a sender outlived its hold.
SentCarriesItsVerdict ==
    leeway.stall = Stalls /\ notice.state = "SENT" =>
        notice.ghsa # 0 /\ ghsa[notice.ghsa].rev = notice.rev

\* The owner gets one draft, with the verdict the row says it carries: the two
\* together.
AdvisoriesAreSound == NoTwinAdvisory /\ SentCarriesItsVerdict
=============================================================================
