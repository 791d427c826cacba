--------------------------- MODULE DeliveryProofs ---------------------------
(***************************************************************************)
(* Proofs about Delivery, for every set of verdicts and workers, any owner *)
(* strings, any ceilings, and any setting of the world.                    *)
(***************************************************************************)
EXTENDS Delivery, TLAPS

USE WorldAssumption, BudgetAssumption, OwnerAssumption

-----------------------------------------------------------------------------
(* Type correctness.                                                       *)

LEMMA RowFields ==
    ASSUME TypeOK, NEW d \in Delivery
    PROVE  row[d] \in Row
  BY DEF TypeOK

\* A worker that is not idle holds a claim.
LEMMA BusyFields ==
    ASSUME TypeOK, NEW w \in Worker, worker[w].phase # "idle" \/ worker[w] # Idle
    PROVE  /\ worker[w] \in Busy /\ worker[w] # Idle
           /\ worker[w].d \in Delivery
           /\ worker[w].fence \in Nat
           /\ worker[w].attempt \in Nat
           /\ worker[w].bytes \in Bytes
           /\ worker[w].hold \in BOOLEAN
           /\ worker[w].phase \in Phases
  BY DEF TypeOK, Idle, Busy, Phases

LEMMA UnleasedRow ==
    ASSUME NEW r \in Row
    PROVE  /\ Unleased(r) \in Row
           /\ Unleased(r).state = r.state
           /\ Unleased(r).channel = r.channel
           /\ Unleased(r).attempts = r.attempts
           /\ Unleased(r).max = r.max
           /\ Unleased(r).fence = r.fence
           /\ Unleased(r).lease = "none"
           /\ Unleased(r).hold = r.hold
           /\ Unleased(r).stamped = r.stamped
           /\ Unleased(r).confirmed = r.confirmed
  BY DEF Row, Unleased, Owners

LEMMA TypeInit == Init => TypeOK
<1> SUFFICES ASSUME Init PROVE TypeOK
  OBVIOUS
<1>1. Absent \in Row /\ Absent.attempts <= Absent.max
  BY DEF Absent, Row, Owners
<1>2. [b \in Bytes |-> 0] \in [Bytes -> Nat]
  OBVIOUS
<1>3. world \in World
  BY DEF Init
<1> QED
  BY <1>1, <1>2, <1>3 DEF Init, TypeOK, Bytes

LEMMA RowWrite ==
    ASSUME TypeOK, NEW d \in Delivery, NEW r \in Row, r.attempts <= r.max, Write(d, r)
    PROVE  /\ row' \in [Delivery -> Row]
           /\ \A e \in Delivery : row'[e].attempts <= row'[e].max
  BY DEF TypeOK, Write

LEMMA WorkerMoves ==
    ASSUME TypeOK, NEW w \in Worker, worker[w] # Idle
    PROVE  /\ \A p \in Phases : Go(w, p) => worker' \in [Worker -> {Idle} \union Busy]
           /\ \A why \in {"ok", "evidence", "moved", "grant", "provider"}, h \in BOOLEAN :
                 Refuses(w, why, h) => worker' \in [Worker -> {Idle} \union Busy]
           /\ Stop(w) => worker' \in [Worker -> {Idle} \union Busy]
<1>1. worker[w] \in Busy
  BY BusyFields
<1>2. \A p \in Phases : [worker[w] EXCEPT !.phase = p] \in Busy
  BY <1>1 DEF Busy
<1>3. \A why \in {"ok", "evidence", "moved", "grant", "provider"}, h \in BOOLEAN :
         [worker[w] EXCEPT !.phase = "refusing", !.why = why, !.hold = h] \in Busy
  BY <1>1 DEF Busy, Phases
<1> QED
  BY <1>1, <1>2, <1>3 DEF TypeOK, Go, Refuses, Stop

\* Look moves its worker on to commit, call or refusing.
LEMMA LookMoves ==
    ASSUME TypeOK, NEW w \in Worker, Look(w)
    PROVE  /\ worker[w] # Idle /\ Reading
           /\ \/ Go(w, "commit") /\ IF row[worker[w].d].channel = "email"
                                     THEN row[worker[w].d].stamped
                                     ELSE copies[worker[w].d][worker[w].bytes] > 0
              \/ Go(w, "call") /\ IF row[worker[w].d].channel = "email"
                                   THEN key[worker[w].d] = "fresh"
                                   ELSE copies[worker[w].d][worker[w].bytes] = 0
              \/ Refuses(w, "provider", TRUE)
              \/ Refuses(w, "grant", TRUE)
<1>1. worker[w] # Idle /\ Reading
  BY DEF Look, Idle
<1>2. CASE row[worker[w].d].channel = "email"
  BY <1>1, <1>2 DEF Look
<1>3. CASE row[worker[w].d].channel # "email" /\ grant[worker[w].d] # "granted"
  BY <1>1, <1>3 DEF Look
<1>4. CASE row[worker[w].d].channel # "email" /\ grant[worker[w].d] = "granted"
  <2>1. \/ copies[worker[w].d][worker[w].bytes] = 0
        \/ copies[worker[w].d][worker[w].bytes] > 0
    <3>1. copies[worker[w].d][worker[w].bytes] \in Nat
      BY <1>1, BusyFields DEF TypeOK
    <3> QED
      BY <3>1
  <2>2. CASE copies[worker[w].d][worker[w].bytes] = 0
    BY <1>1, <1>4, <2>2 DEF Look
  <2>3. CASE copies[worker[w].d][worker[w].bytes] > 0
    BY <1>1, <1>4, <2>3 DEF Look
  <2> QED
    BY <2>1, <2>2, <2>3
<1> QED
  BY <1>2, <1>3, <1>4

LEMMA TypeStep ==
    ASSUME TypeOK, [Next]_vars
    PROVE  TypeOK'
<1>1. ASSUME NEW d \in Delivery, NEW arm \in world.routes, Enqueue(d, arm) PROVE TypeOK'
  <2>1. arm \in Channels /\ MaxAttempts \in Nat
    BY DEF TypeOK, World
  <2>2. [Absent EXCEPT !.state = "PENDING", !.channel = arm] \in Row
    BY <2>1 DEF Absent, Row, Owners
  <2>3. [Absent EXCEPT !.state = "PENDING", !.channel = arm].attempts
           <= [Absent EXCEPT !.state = "PENDING", !.channel = arm].max
    BY <2>1 DEF Absent
  <2>4. /\ row' \in [Delivery -> Row]
        /\ \A e \in Delivery : row'[e].attempts <= row'[e].max
    BY <1>1, <2>2, <2>3, RowWrite DEF Enqueue
  <2> QED
    BY <1>1, <2>2, <2>3, <2>4 DEF TypeOK, Enqueue, provider, journal
<1>2. ASSUME NEW w \in Worker, NEW d \in Delivery, Claim(w, d) PROVE TypeOK'
  <2> DEFINE r == [row[d] EXCEPT !.owner = OwnerOf[w], !.lease = "live",
                                 !.attempts = @ + 1, !.fence = @ + 1]
             b == [phase |-> "claimed", d |-> d, fence |-> row[d].fence + 1,
                   attempt |-> row[d].attempts + 1, bytes |-> "approved",
                   why |-> "ok", hold |-> FALSE]
  <2>1. r \in Row /\ r.attempts <= r.max
    <3>1. row[d] \in Row /\ OwnerOf[w] \in Owners
      BY RowFields DEF Owners
    <3>2. row[d].attempts < row[d].max
      BY <1>2 DEF Claim, Claimable
    <3>3. row[d].attempts + 1 \in Nat /\ row[d].fence + 1 \in Nat
      BY <3>1 DEF Row
    <3>4. r \in Row /\ r.attempts = row[d].attempts + 1 /\ r.max = row[d].max
      BY <3>1, <3>3 DEF Row
    <3>5. row[d].attempts + 1 <= row[d].max
      BY <3>1, <3>2 DEF Row
    <3> QED
      BY <3>4, <3>5
  <2>2. b \in Busy
    BY RowFields DEF Busy, Row, Phases, Bytes
  <2>3. worker' \in [Worker -> {Idle} \union Busy]
    BY <1>2, <2>2 DEF Claim, TypeOK
  <2> QED
    BY <1>2, <2>1, <2>3, RowWrite DEF TypeOK, Claim, provider, journal
<1>3. ASSUME NEW w \in Worker, ReleaseUnstarted(w) PROVE TypeOK'
  <2> DEFINE d == worker[w].d
             r == [Unleased(row[d]) EXCEPT !.attempts = IF @ > 0 THEN @ - 1 ELSE 0]
  <2>1. worker[w] # Idle /\ d \in Delivery
    BY <1>3, BusyFields DEF ReleaseUnstarted, Idle
  <2>2. r \in Row /\ r.attempts <= r.max
    <3>1. row[d] \in Row /\ row[d].attempts <= row[d].max
      BY <2>1 DEF TypeOK
    <3>2. Unleased(row[d]) \in Row /\ Unleased(row[d]).attempts <= Unleased(row[d]).max
      BY <3>1, UnleasedRow
    <3> QED
      BY <3>2 DEF Row
  <2>3. worker' \in [Worker -> {Idle} \union Busy]
    BY <1>3, <2>1, WorkerMoves DEF ReleaseUnstarted
  <2>4. Write(d, IF Held(w) THEN r ELSE row[d])
    BY <1>3 DEF ReleaseUnstarted
  <2>5. /\ row' \in [Delivery -> Row]
        /\ \A e \in Delivery : row'[e].attempts <= row'[e].max
    <3> HIDE DEF r, d
    <3>1. CASE Held(w)
      BY <3>1, <2>1, <2>2, <2>4, RowWrite
    <3>2. CASE ~Held(w)
      BY <3>2, <2>1, <2>4, RowWrite DEF TypeOK
    <3> QED
      BY <3>1, <3>2
  <2>6. world' \in World
    <3>1. world \in World /\ world.faults - 1 \in Nat
      BY <1>3 DEF ReleaseUnstarted, TypeOK, World
    <3> QED
      BY <1>3, <3>1 DEF ReleaseUnstarted, World
  <2> QED
    BY <1>3, <2>3, <2>5, <2>6 DEF TypeOK, ReleaseUnstarted, provider, journal
<1>4. ASSUME NEW w \in Worker, Gate(w) PROVE TypeOK'
  <2>1. worker[w] \in Busy
    BY <1>4, BusyFields DEF Gate
  <2>2. [worker[w] EXCEPT !.phase = "report", !.bytes = stored[worker[w].d]] \in Busy
    BY <2>1 DEF Busy, Phases, TypeOK
  <2>3. worker' \in [Worker -> {Idle} \union Busy]
    <3>1. CASE stored[worker[w].d] = "approved"
      BY <1>4, <2>2, <3>1 DEF Gate, TypeOK
    <3>2. CASE stored[worker[w].d] # "approved"
      BY <1>4, <2>1, <3>2, BusyFields, WorkerMoves DEF Gate
    <3> QED
      BY <3>1, <3>2
  <2> QED
    BY <1>4, <2>3 DEF TypeOK, Gate, Reading, provider, journal
<1>5. ASSUME NEW w \in Worker, worker[w] # Idle, Reading,
             \/ Stop(w)
             \/ \E p \in Phases : Go(w, p)
             \/ \E why \in {"ok", "evidence", "moved", "grant", "provider"}, h \in BOOLEAN :
                   Refuses(w, why, h)
      PROVE  TypeOK'
  BY <1>5, WorkerMoves DEF TypeOK, Reading, provider, journal
<1>51. ASSUME NEW w \in Worker, CheckReport(w) PROVE TypeOK'
  BY <1>51, <1>5, BusyFields DEF CheckReport, Phases
<1>52. ASSUME NEW w \in Worker, CheckGrant(w) PROVE TypeOK'
  BY <1>52, <1>5, BusyFields DEF CheckGrant, Phases
<1>53. ASSUME NEW w \in Worker, Look(w) PROVE TypeOK'
  BY <1>53, <1>5, LookMoves DEF Phases
<1>54. ASSUME NEW w \in Worker, CommitConflict(w) PROVE TypeOK'
  BY <1>54, <1>5, BusyFields DEF CommitConflict, Phases
<1>55. ASSUME NEW w \in Worker, Throws(w) PROVE TypeOK'
  BY <1>55, <1>5, BusyFields DEF Throws, Phases
<1>56. ASSUME NEW w \in Worker, LeaseLost(w) \/ Crash(w) PROVE TypeOK'
  BY <1>56, <1>5, BusyFields DEF LeaseLost, Crash
<1>6. ASSUME NEW d \in Delivery, NEW b \in Bytes, TakesEffect(d, b)
      PROVE  copies' \in [Delivery -> [Bytes -> Nat]]
  BY <1>6 DEF TakesEffect, TypeOK
<1>61. ASSUME NEW d \in Delivery, Outlives(d) PROVE overdue' \in [Delivery -> Nat]
  BY <1>61 DEF Outlives, TypeOK
<1>7. ASSUME NEW w \in Worker, NEW effect \in BOOLEAN, NEW answer \in {"ok", "error", "refused"},
             Call(w, effect, answer)
      PROVE  TypeOK'
  <2>1. worker[w] # Idle /\ worker[w].d \in Delivery /\ worker[w].bytes \in Bytes
    BY <1>7, BusyFields DEF Call, Idle
  <2>2. worker' \in [Worker -> {Idle} \union Busy]
    <3>1. \/ Go(w, "stamp") \/ Go(w, "commit") \/ Go(w, "failing")
          \/ Refuses(w, "provider", TRUE)
      BY <1>7 DEF Call
    <3> QED
      BY <2>1, <3>1, WorkerMoves DEF Phases
  <2>3. copies' \in [Delivery -> [Bytes -> Nat]]
    <3>1. CASE effect
      BY <1>7, <2>1, <3>1, <1>6 DEF Call
    <3>2. CASE ~effect
      BY <1>7, <3>2 DEF Call, TypeOK
    <3> QED
      BY <3>1, <3>2
  <2>4. overdue' \in [Delivery -> Nat]
    <3>1. Outlives(worker[w].d) \/ overdue' = overdue
      BY <1>7 DEF Call
    <3> QED
      BY <2>1, <3>1, <1>61 DEF TypeOK
  <2>5. UNCHANGED <<row, report, stored, grant, late, key, fate, hooks, applied, journal, world>>
    BY <1>7 DEF Call
  <2> QED
    BY <2>2, <2>3, <2>4, <2>5 DEF TypeOK, journal
<1>8. ASSUME NEW w \in Worker, GiveUp(w) PROVE TypeOK'
  <2>1. worker[w] # Idle /\ worker[w].d \in Delivery /\ worker[w].bytes \in Bytes
    BY <1>8, BusyFields DEF GiveUp, Idle
  <2>2. worker' \in [Worker -> {Idle} \union Busy]
    BY <1>8, <2>1, WorkerMoves DEF GiveUp, Phases
  <2> QED
    BY <1>8, <2>1, <2>2 DEF TypeOK, GiveUp, journal
<1>9. ASSUME NEW d \in Delivery, NEW b \in Bytes, LandLate(d, b) PROVE TypeOK'
  <2>1. copies' \in [Delivery -> [Bytes -> Nat]] /\ overdue' \in [Delivery -> Nat]
    BY <1>9, <1>6, <1>61 DEF LandLate
  <2> QED
    BY <1>9, <2>1 DEF TypeOK, LandLate, journal
<1>10. ASSUME NEW w \in Worker, NEW acked \in BOOLEAN, Stamp(w, acked) PROVE TypeOK'
  <2> DEFINE d == worker[w].d
             r == [row[d] EXCEPT !.stamped = TRUE]
  <2>1. worker[w] # Idle /\ d \in Delivery
    BY <1>10, BusyFields DEF Stamp, Idle
  <2>2. r \in Row /\ r.attempts <= r.max
    <3>1. row[d] \in Row /\ row[d].attempts <= row[d].max
      BY <2>1 DEF TypeOK
    <3> QED
      BY <3>1 DEF Row
  <2>3. /\ row' \in [Delivery -> Row]
        /\ \A e \in Delivery : row'[e].attempts <= row'[e].max
    BY <1>10, <2>1, <2>2, RowWrite DEF Stamp
  <2>4. worker' \in [Worker -> {Idle} \union Busy]
    BY <1>10, <2>1, WorkerMoves DEF Stamp, Phases
  <2> QED
    BY <1>10, <2>3, <2>4 DEF TypeOK, Stamp, provider, journal
<1>11. ASSUME NEW w \in Worker, worker[w] # Idle, Record(w)
       PROVE  log' \in [Delivery -> SUBSET Nat] /\ records' \in [Delivery -> Nat]
  BY <1>11, BusyFields DEF Record, TypeOK
<1>12. ASSUME NEW w \in Worker, NEW acked \in BOOLEAN, Commit(w, acked) PROVE TypeOK'
  <2> DEFINE d == worker[w].d
             r == [Unleased(row[d]) EXCEPT !.state = "SENT", !.confirmed = @ \/ CompletesReport(d)]
  <2>1. worker[w] # Idle /\ d \in Delivery
    BY <1>12, BusyFields DEF Commit, Idle
  <2>2. r \in Row /\ r.attempts <= r.max
    <3>1. row[d] \in Row /\ row[d].attempts <= row[d].max
      BY <2>1 DEF TypeOK
    <3>2. Unleased(row[d]) \in Row /\ Unleased(row[d]).attempts <= Unleased(row[d]).max
      BY <3>1, UnleasedRow
    <3> QED
      BY <3>2 DEF Row, CompletesReport
  <2>3. /\ row' \in [Delivery -> Row]
        /\ \A e \in Delivery : row'[e].attempts <= row'[e].max
    BY <1>12, <2>1, <2>2, RowWrite DEF Commit
  <2>4. worker' \in [Worker -> {Idle} \union Busy]
    BY <1>12, <2>1, WorkerMoves DEF Commit, Phases
  <2>5. log' \in [Delivery -> SUBSET Nat] /\ records' \in [Delivery -> Nat]
    BY <1>12, <2>1, <1>11 DEF Commit
  <2> QED
    BY <1>12, <2>3, <2>4, <2>5 DEF TypeOK, Commit, provider
<1>13. ASSUME NEW w \in Worker, Refuse(w) PROVE TypeOK'
  <2> DEFINE d == worker[w].d
             r == [Unleased(row[d]) EXCEPT !.state = "FAILED", !.hold = @ \/ worker[w].hold]
  <2>1. worker[w] # Idle /\ d \in Delivery /\ worker[w].hold \in BOOLEAN
    BY <1>13, BusyFields DEF Refuse, Idle
  <2>2. r \in Row /\ r.attempts <= r.max
    <3>1. row[d] \in Row /\ row[d].attempts <= row[d].max
      BY <2>1 DEF TypeOK
    <3>2. Unleased(row[d]) \in Row /\ Unleased(row[d]).attempts <= Unleased(row[d]).max
      BY <3>1, UnleasedRow
    <3> QED
      BY <3>2, <2>1 DEF Row
  <2>3. /\ row' \in [Delivery -> Row]
        /\ \A e \in Delivery : row'[e].attempts <= row'[e].max
    BY <1>13, <2>1, <2>2, RowWrite DEF Refuse
  <2>4. worker' \in [Worker -> {Idle} \union Busy]
    BY <1>13, <2>1, WorkerMoves DEF Refuse
  <2>5. log' \in [Delivery -> SUBSET Nat] /\ records' \in [Delivery -> Nat]
    BY <1>13, <2>1, <1>11 DEF Refuse
  <2> QED
    BY <1>13, <2>3, <2>4, <2>5 DEF TypeOK, Refuse, provider
<1>14. ASSUME NEW w \in Worker, Fail(w) PROVE TypeOK'
  <2> DEFINE d == worker[w].d
             r == [Unleased(row[d]) EXCEPT
                     !.state = IF row[d].attempts >= row[d].max THEN "FAILED" ELSE "PENDING",
                     !.backoff = TRUE]
  <2>1. worker[w] # Idle /\ d \in Delivery
    BY <1>14, BusyFields DEF Fail, Idle
  <2>2. r \in Row /\ r.attempts <= r.max
    <3>1. row[d] \in Row /\ row[d].attempts <= row[d].max
      BY <2>1 DEF TypeOK
    <3>2. Unleased(row[d]) \in Row /\ Unleased(row[d]).attempts <= Unleased(row[d]).max
      BY <3>1, UnleasedRow
    <3> QED
      BY <3>2 DEF Row
  <2>3. /\ row' \in [Delivery -> Row]
        /\ \A e \in Delivery : row'[e].attempts <= row'[e].max
    BY <1>14, <2>1, <2>2, RowWrite DEF Fail
  <2>4. worker' \in [Worker -> {Idle} \union Busy]
    BY <1>14, <2>1, WorkerMoves DEF Fail
  <2>5. log' \in [Delivery -> SUBSET Nat] /\ records' \in [Delivery -> Nat]
    BY <1>14, <2>1, <1>11 DEF Fail
  <2> QED
    BY <1>14, <2>3, <2>4, <2>5 DEF TypeOK, Fail, provider
<1>15. ASSUME NEW d \in Delivery,
              \/ Write(d, [row[d] EXCEPT !.lease = "expired"])
              \/ Write(d, [row[d] EXCEPT !.backoff = FALSE])
              \/ Write(d, [row[d] EXCEPT !.confirmed = TRUE])
       PROVE  /\ row' \in [Delivery -> Row]
              /\ \A e \in Delivery : row'[e].attempts <= row'[e].max
  <2>1. row[d] \in Row /\ row[d].attempts <= row[d].max
    BY DEF TypeOK
  <2>2. /\ [row[d] EXCEPT !.lease = "expired"] \in Row
        /\ [row[d] EXCEPT !.backoff = FALSE] \in Row
        /\ [row[d] EXCEPT !.confirmed = TRUE] \in Row
    BY <2>1 DEF Row
  <2>3. \A r \in {[row[d] EXCEPT !.lease = "expired"], [row[d] EXCEPT !.backoff = FALSE],
                  [row[d] EXCEPT !.confirmed = TRUE]} : r.attempts <= r.max
    BY <2>1 DEF Row
  <2> QED
    BY <1>15, <2>2, <2>3, RowWrite
<1>16. ASSUME NEW d \in Delivery, Expire(d) \/ Elapse(d) PROVE TypeOK'
  BY <1>16, <1>15 DEF Expire, Elapse, Leasing, TypeOK, provider, journal
<1>17. ASSUME SweepBury \/ SweepRelease PROVE TypeOK'
  <2>1. ASSUME NEW d \in Delivery
        PROVE  /\ Unleased(row[d]) \in Row
               /\ Unleased(row[d]).attempts <= Unleased(row[d]).max
               /\ [Unleased(row[d]) EXCEPT !.state = "FAILED"] \in Row
               /\ [Unleased(row[d]) EXCEPT !.state = "FAILED"].attempts
                    <= [Unleased(row[d]) EXCEPT !.state = "FAILED"].max
    <3>1. row[d] \in Row /\ row[d].attempts <= row[d].max
      BY DEF TypeOK
    <3>2. Unleased(row[d]) \in Row /\ Unleased(row[d]).attempts <= Unleased(row[d]).max
      BY <3>1, UnleasedRow
    <3> QED
      BY <3>2 DEF Row
  <2>2. /\ row' \in [Delivery -> Row]
        /\ \A e \in Delivery : row'[e].attempts <= row'[e].max
    <3>1. CASE SweepBury
      BY <2>1, <3>1 DEF SweepBury, TypeOK
    <3>2. CASE SweepRelease
      BY <2>1, <3>2 DEF SweepRelease, TypeOK
    <3> QED
      BY <1>17, <3>1, <3>2
  <2> QED
    BY <1>17, <2>2 DEF SweepBury, SweepRelease, Leasing, TypeOK, provider, journal
<1>18. ASSUME NEW d \in Delivery, NEW outcome \in {"delivered", "bounced"}, MailSettles(d, outcome)
       PROVE  TypeOK'
  BY <1>18 DEF MailSettles, TypeOK, Receipts, journal
<1>19. ASSUME NEW d \in Delivery, Complain(d) PROVE TypeOK'
  BY <1>19 DEF Complain, TypeOK, Receipts, journal
<1>20. ASSUME NEW d \in Delivery, NEW e \in Receipts, HoldingReceipt(d, e) PROVE TypeOK'
  <2> DEFINE r == [row[d] EXCEPT !.state = IF e = "bounced" THEN "FAILED" ELSE @, !.hold = TRUE]
  <2>1. row[d] \in Row /\ row[d].attempts <= row[d].max
    BY DEF TypeOK
  <2>2. r \in Row /\ r.attempts <= r.max
    <3>1. CASE e = "bounced"
      BY <2>1, <3>1 DEF Row
    <3>2. CASE e # "bounced"
      BY <2>1, <3>2 DEF Row
    <3> QED
      BY <3>1, <3>2
  <2>3. /\ row' \in [Delivery -> Row]
        /\ \A i \in Delivery : row'[i].attempts <= row'[i].max
    BY <1>20, <2>2, RowWrite DEF HoldingReceipt
  <2>4. applied' \in [Delivery -> SUBSET Receipts]
    BY <1>20 DEF HoldingReceipt, Applies, TypeOK
  <2> QED
    BY <1>20, <2>3, <2>4 DEF HoldingReceipt, Applies, TypeOK, journal
<1>21. ASSUME NEW d \in Delivery, DeliveredReceipt(d) PROVE TypeOK'
  <2>1. applied' \in [Delivery -> SUBSET Receipts]
    BY <1>21 DEF DeliveredReceipt, Applies, TypeOK, Receipts
  <2>2. /\ row' \in [Delivery -> Row]
        /\ \A i \in Delivery : row'[i].attempts <= row'[i].max
        /\ report' \in [Delivery -> {"APPROVED", "DELIVERING", "DELIVERED", "CANCELLED"}]
    <3>1. CASE report[d] = "DELIVERING"
      BY <1>21, <1>15, <3>1 DEF DeliveredReceipt, TypeOK
    <3>2. CASE report[d] # "DELIVERING"
      BY <1>21, <3>2 DEF DeliveredReceipt, TypeOK
    <3> QED
      BY <3>1, <3>2
  <2> QED
    BY <1>21, <2>1, <2>2 DEF DeliveredReceipt, Applies, TypeOK, journal
<1>22. ASSUME NEW d \in Delivery, NEW e \in Receipts, UnmatchedReceipt(d, e) PROVE TypeOK'
  BY <1>22 DEF UnmatchedReceipt, TypeOK, journal
<1>23. ASSUME NEW d \in Delivery, Age(d) PROVE TypeOK'
  BY <1>23 DEF Age, TypeOK, journal
<1>24. ASSUME NEW d \in Delivery, Retry(d) PROVE TypeOK'
  <2> DEFINE r == [Unleased(row[d]) EXCEPT !.state = "PENDING", !.hold = FALSE, !.backoff = FALSE,
                                           !.max = row[d].attempts + RetryBudget]
  <2>1. row[d] \in Row /\ RetryBudget \in Nat
    BY RowFields
  <2>2. row[d].attempts + RetryBudget \in Nat /\ row[d].attempts <= row[d].attempts + RetryBudget
    BY <2>1 DEF Row
  <2>3. Unleased(row[d]) \in Row /\ Unleased(row[d]).attempts = row[d].attempts
    BY <2>1, UnleasedRow
  <2>4. r \in Row /\ r.attempts = row[d].attempts /\ r.max = row[d].attempts + RetryBudget
    BY <2>2, <2>3 DEF Row
  <2>5. /\ row' \in [Delivery -> Row]
        /\ \A i \in Delivery : row'[i].attempts <= row'[i].max
    BY <1>24, <2>2, <2>4, RowWrite DEF Retry
  <2>6. world' \in World
    <3>1. world \in World /\ world.faults - 1 \in Nat
      BY <1>24 DEF Retry, TypeOK, World
    <3> QED
      BY <1>24, <3>1 DEF Retry, World
  <2> QED
    BY <1>24, <2>5, <2>6 DEF Retry, TypeOK, provider, journal
<1>25. ASSUME NEW d \in Delivery, CancelHeld(d) \/ Retire(d) \/ Alter(d) PROVE TypeOK'
  BY <1>25 DEF CancelHeld, Retire, Alter, TypeOK, Bytes, provider, journal
<1>26. ASSUME NEW d \in Delivery, NEW to \in {"granted", "unseen", "revoked"}, Regrant(d, to)
       PROVE  TypeOK'
  BY <1>26 DEF Regrant, TypeOK, provider, journal
<1>27. CASE UNCHANGED vars
  BY <1>27 DEF vars, provider, journal, TypeOK
<1> QED
  BY <1>1, <1>2, <1>3, <1>4, <1>51, <1>52, <1>53, <1>54, <1>55, <1>56, <1>7, <1>8, <1>9, <1>10,
     <1>12, <1>13, <1>14, <1>16, <1>17, <1>18, <1>19, <1>20, <1>21, <1>22, <1>23, <1>24, <1>25,
     <1>26, <1>27
  DEF Next, Step, Sweep, Outside

\* TypeOK is an invariant of the outbox.
THEOREM TypeCorrect == Spec => []TypeOK
<1>1. Init => TypeOK
  BY TypeInit
<1>2. TypeOK /\ [Next]_vars => TypeOK'
  BY TypeStep
<1> QED
  BY <1>1, <1>2, PTL DEF Spec

-----------------------------------------------------------------------------
(* The invariants.                                                         *)

Busies == {w \in Worker : worker[w] # Idle}
Sent(d) == copies[d]["approved"] > 0

\* What the workers and the calls in the air carry has passed the gate.
Clean == /\ \A w \in Busies : worker[w].bytes = "approved"
         /\ late \subseteq Delivery \X {"approved"}
         /\ OnlyApprovedBytes

\* The worker goes on to phase p, or gives its claim up; nobody else moves.
Moved(w, p) == /\ worker'[w] # Idle
               /\ worker'[w].phase = p
               /\ worker'[w].d = worker[w].d
               /\ worker'[w].fence = worker[w].fence
               /\ worker'[w].bytes = worker[w].bytes
               /\ \A v \in Worker \ {w} : worker'[v] = worker[v]
Stopped(w) == /\ worker'[w] = Idle
              /\ \A v \in Worker \ {w} : worker'[v] = worker[v]

LEMMA Moves ==
    ASSUME TypeOK, NEW w \in Worker, worker[w] # Idle
    PROVE  /\ \A p \in Phases : Go(w, p) => Moved(w, p)
           /\ \A why, h : Refuses(w, why, h) => Moved(w, "refusing")
           /\ Stop(w) => Stopped(w)
<1>1. worker[w] \in Busy
  BY BusyFields
<1>2. ASSUME NEW p \in Phases, Go(w, p) PROVE Moved(w, p)
  <2>1. worker'[w] = [worker[w] EXCEPT !.phase = p]
    BY <1>2 DEF Go, TypeOK
  <2>2. \A v \in Worker \ {w} : worker'[v] = worker[v]
    BY <1>2 DEF Go, TypeOK
  <2>3. /\ worker'[w].phase = p /\ worker'[w].d = worker[w].d
        /\ worker'[w].fence = worker[w].fence /\ worker'[w].bytes = worker[w].bytes
    BY <1>1, <2>1 DEF Busy
  <2>4. worker'[w] # Idle
    BY <2>3 DEF Idle, Phases
  <2> QED
    BY <2>2, <2>3, <2>4 DEF Moved
<1>3. ASSUME NEW why, NEW h, Refuses(w, why, h) PROVE Moved(w, "refusing")
  <2>1. worker'[w] = [worker[w] EXCEPT !.phase = "refusing", !.why = why, !.hold = h]
    BY <1>3 DEF Refuses, TypeOK
  <2>2. \A v \in Worker \ {w} : worker'[v] = worker[v]
    BY <1>3 DEF Refuses, TypeOK
  <2>3. /\ worker'[w].phase = "refusing" /\ worker'[w].d = worker[w].d
        /\ worker'[w].fence = worker[w].fence /\ worker'[w].bytes = worker[w].bytes
    BY <1>1, <2>1 DEF Busy
  <2>4. worker'[w] # Idle
    BY <2>3 DEF Idle
  <2> QED
    BY <2>2, <2>3, <2>4 DEF Moved
<1>4. Stop(w) => Stopped(w)
  BY DEF Stop, Stopped, TypeOK
<1> QED
  BY <1>2, <1>3, <1>4

\* What a worker only reads, it reads before it calls, stamps or commits.
LEMMA ReadMoves ==
    ASSUME TypeOK, NEW w \in Worker,
           \/ CheckReport(w) \/ CheckGrant(w) \/ CommitConflict(w) \/ Throws(w)
           \/ LeaseLost(w) \/ Crash(w)
    PROVE  /\ worker[w] # Idle /\ Reading
           /\ Stopped(w) \/ \E p \in {"grant", "look", "refusing", "failing"} : Moved(w, p)
<1>1. worker[w] # Idle /\ Reading
  BY SMT DEF CheckReport, CheckGrant, CommitConflict, Throws, LeaseLost, Crash, Idle, Phases,
             Refuses
<1>2. CASE CheckReport(w)
  <2>1. Go(w, "grant") \/ Refuses(w, "moved", FALSE)
    BY <1>2, Zenon DEF CheckReport
  <2> QED
    BY <1>1, <2>1, Moves, Zenon DEF Phases
<1>3. CASE CheckGrant(w)
  <2>1. Go(w, "look") \/ Refuses(w, "grant", row[worker[w].d].channel # "github")
    BY <1>3, Zenon DEF CheckGrant
  <2> QED
    BY <1>1, <2>1, Moves, Zenon DEF Phases
<1>4. CASE CommitConflict(w) \/ Throws(w)
  BY <1>1, <1>4, Moves DEF CommitConflict, Throws, Phases
<1>5. CASE LeaseLost(w) \/ Crash(w)
  BY <1>1, <1>5, Moves DEF LeaseLost, Crash
<1> QED
  BY <1>1, <1>2, <1>3, <1>4, <1>5

\* The bytes a claim carries on are the ones Gate compared.
LEMMA GateMoves ==
    ASSUME TypeOK, Clean, NEW w \in Worker, Gate(w)
    PROVE  /\ worker[w] # Idle /\ Reading
           /\ Moved(w, "report") \/ Moved(w, "refusing")
<1>1. worker[w] # Idle /\ Reading
  BY SMT DEF Gate, Idle, Refuses
<1>2. CASE stored[worker[w].d] = "approved"
  <2>1. \A v \in Worker \ {w} : worker'[v] = worker[v]
    BY <1>2 DEF Gate, TypeOK
  <2>2. worker'[w] = [worker[w] EXCEPT !.phase = "report", !.bytes = "approved"]
    BY <1>2 DEF Gate, TypeOK
  <2>3. worker[w] \in Busy /\ worker[w].bytes = "approved"
    BY <1>1, BusyFields DEF Clean, Busies
  <2>4. /\ worker'[w].phase = "report" /\ worker'[w].bytes = worker[w].bytes
        /\ worker'[w].d = worker[w].d /\ worker'[w].fence = worker[w].fence
    BY <2>2, <2>3 DEF Busy
  <2>5. worker'[w] # Idle
    BY <2>4 DEF Idle
  <2> QED
    BY <1>1, <2>1, <2>4, <2>5 DEF Moved
<1>3. CASE stored[worker[w].d] # "approved"
  <2>1. Refuses(w, "evidence", FALSE)
    BY <1>3 DEF Gate
  <2> QED
    BY <1>1, <2>1, Moves
<1> QED
  BY <1>2, <1>3

LEMMA CleanInit == Init => Clean
  BY DEF Init, Clean, Busies, OnlyApprovedBytes, Bytes

LEMMA CleanStep ==
    ASSUME TypeOK, Clean, [Next]_vars
    PROVE  Clean'
<1>1. CASE UNCHANGED <<worker, late, copies>>
  BY <1>1 DEF Clean, OnlyApprovedBytes, Busies
<1>2. ASSUME NEW w \in Worker, NEW d \in Delivery, Claim(w, d) PROVE Clean'
  BY <1>2 DEF Claim, Clean, OnlyApprovedBytes, Busies, TypeOK, provider
<1>3. ASSUME NEW w \in Worker, worker[w] # Idle, UNCHANGED <<late, copies>>,
             Stopped(w) \/ \E p \in Phases : Moved(w, p)
      PROVE  Clean'
  BY <1>3 DEF Clean, OnlyApprovedBytes, Busies, Stopped, Moved
<1>4. ASSUME NEW w \in Worker, ReleaseUnstarted(w) \/ Refuse(w) \/ Fail(w) PROVE Clean'
  <2>1. worker[w] # Idle /\ Stop(w) /\ UNCHANGED <<late, copies>>
    BY <1>4 DEF ReleaseUnstarted, Refuse, Fail, provider, Idle
  <2> QED
    BY <2>1, <1>3, Moves
<1>41. ASSUME NEW w \in Worker,
              \/ CheckReport(w) \/ CheckGrant(w) \/ CommitConflict(w) \/ Throws(w)
              \/ LeaseLost(w) \/ Crash(w)
       PROVE  Clean'
  BY <1>41, <1>3, ReadMoves DEF Reading, provider, Phases
<1>5. ASSUME NEW w \in Worker, NEW acked \in BOOLEAN, Stamp(w, acked) \/ Commit(w, acked)
      PROVE  Clean'
  BY <1>5, <1>3, Moves DEF Stamp, Commit, provider, Idle, Phases
<1>6. ASSUME NEW w \in Worker, Gate(w) PROVE Clean'
  BY <1>6, <1>3, GateMoves DEF Reading, provider, Phases
<1>7. ASSUME NEW w \in Worker, Look(w) PROVE Clean'
  BY <1>7, <1>3, LookMoves, Moves DEF Reading, provider, Phases
<1>8. ASSUME NEW w \in Worker, NEW effect \in BOOLEAN, NEW answer \in {"ok", "error", "refused"},
             Call(w, effect, answer)
      PROVE  Clean'
  <2>1. worker[w] # Idle /\ worker[w].d \in Delivery /\ worker[w].bytes = "approved"
    BY <1>8, BusyFields DEF Call, Idle, Clean, Busies
  <2>2. \E p \in Phases : Moved(w, p)
    <3>1. \/ Go(w, "stamp") \/ Go(w, "commit") \/ Go(w, "failing")
          \/ Refuses(w, "provider", TRUE)
      BY <1>8 DEF Call
    <3> QED
      BY <2>1, <3>1, Moves DEF Phases
  <2>3. \A d \in Delivery : copies'[d]["altered"] = copies[d]["altered"]
    <3>1. copies \in [Delivery -> [Bytes -> Nat]] /\ "altered" \in Bytes /\ "approved" \in Bytes
      BY DEF TypeOK, Bytes
    <3>2. \/ copies' = copies
          \/ copies' = [copies EXCEPT ![worker[w].d]["approved"] = @ + 1]
      BY <1>8, <2>1 DEF Call, TakesEffect
    <3> QED
      BY <2>1, <3>1, <3>2
  <2> QED
    BY <1>8, <2>1, <2>2, <2>3 DEF Clean, OnlyApprovedBytes, Busies, Moved, Call, provider
<1>9. ASSUME NEW w \in Worker, GiveUp(w) PROVE Clean'
  <2>1. worker[w] # Idle /\ worker[w].d \in Delivery /\ worker[w].bytes = "approved"
    BY <1>9, BusyFields DEF GiveUp, Idle, Clean, Busies
  <2>2. Moved(w, "failing")
    BY <1>9, <2>1, Moves DEF GiveUp, Phases
  <2> QED
    BY <1>9, <2>1, <2>2 DEF Clean, OnlyApprovedBytes, Busies, Moved, GiveUp
<1>10. ASSUME NEW d \in Delivery, NEW b \in Bytes, LandLate(d, b) PROVE Clean'
  <2>1. b = "approved"
    BY <1>10 DEF LandLate, Clean
  <2>2. \A e \in Delivery : copies'[e]["altered"] = copies[e]["altered"]
    BY <1>10, <2>1 DEF LandLate, TakesEffect, TypeOK, Bytes
  <2> QED
    BY <1>10, <2>2 DEF Clean, OnlyApprovedBytes, Busies, LandLate
<1>11. ASSUME NEW d \in Delivery,
              \/ Expire(d) \/ Elapse(d) \/ Complain(d) \/ DeliveredReceipt(d) \/ Age(d)
              \/ Retry(d) \/ CancelHeld(d) \/ Retire(d) \/ Alter(d)
              \/ \E arm \in world.routes : Enqueue(d, arm)
              \/ \E outcome \in {"delivered", "bounced"} : MailSettles(d, outcome)
              \/ \E e \in Receipts : HoldingReceipt(d, e) \/ UnmatchedReceipt(d, e)
              \/ \E to \in {"granted", "unseen", "revoked"} : Regrant(d, to)
       PROVE  Clean'
  BY <1>11, <1>1
  DEF Expire, Elapse, Complain, DeliveredReceipt, Age, Retry, CancelHeld, Retire, Alter,
      Enqueue, MailSettles, HoldingReceipt, UnmatchedReceipt, Regrant, Applies, Leasing, provider
<1>12. ASSUME Sweep \/ UNCHANGED vars PROVE Clean'
  BY <1>12, <1>1 DEF Sweep, SweepBury, SweepRelease, Leasing, vars, provider
<1> QED
  BY <1>2, <1>4, <1>41, <1>5, <1>6, <1>7, <1>8, <1>9, <1>10, <1>11, <1>12 DEF Next, Step, Outside

\* Nothing but the bytes a human approved leaves, on any arm, whichever calls
\* land late.
THEOREM ApprovedBytesOnly == Spec => []OnlyApprovedBytes
<1>1. Init => TypeOK /\ Clean
  BY TypeInit, CleanInit
<1>2. TypeOK /\ Clean /\ [Next]_vars => TypeOK' /\ Clean'
  BY TypeStep, CleanStep
<1>3. Clean => OnlyApprovedBytes
  BY DEF Clean
<1> QED
  BY <1>1, <1>2, <1>3, PTL DEF Spec

-----------------------------------------------------------------------------
(***************************************************************************)
(* One copy, and one more for each post that outlived its caller; nothing  *)
(* closed as delivered that is not.                                        *)
(***************************************************************************)

Out(d) == copies[d]["approved"] > 0

\* One row, beside its report, its copies and what the provider knows of it.
RowInv(d) ==
    /\ report[d] = "APPROVED" => row[d].state = "ABSENT"
    /\ row[d].state = "ABSENT" => ~Out(d) /\ key[d] = "fresh" /\ overdue[d] = 0
    /\ row[d].channel = "email" => overdue[d] = 0
    /\ row[d].lease # "none" => row[d].state \in {"PENDING", "FAILED"}
    /\ row[d].stamped => Out(d)
    /\ fate[d] # "none" => Out(d) /\ row[d].channel = "email"
    /\ hooks[d] # {} => fate[d] # "none"
    /\ "delivered" \in hooks[d] => fate[d] = "delivered"
    /\ applied[d] # {} => row[d].stamped
    /\ "bounced" \in applied[d] => row[d].hold
    /\ key[d] # "fresh" => row[d].channel = "email"
    /\ report[d] = "DELIVERED" => Arrived(d)
    /\ copies[d]["approved"] <= 1 + overdue[d]

\* While a worker may still post, nobody in time has, whatever arrived late;
\* it mails only under a key the provider remembers.
WorkerInv(w) ==
    LET d == worker[w].d IN
    /\ row[d].state # "ABSENT"
    /\ worker[w].fence <= row[d].fence
    /\ worker[w].phase \in {"stamp", "commit"} => Out(d)
    /\ worker[w].phase = "call" => key[d] # "gone"
    /\ worker[w].phase = "call" /\ row[d].channel # "email" /\ Held(w)
         => copies[d]["approved"] <= overdue[d]

\* Of the workers with a claim on one row, at most one has a given fence.
OwnFences == \A v, w \in Busies : worker[v].d = worker[w].d /\ worker[v].fence = worker[w].fence
                                    => v = w

LateInv == \A d \in Delivery, b \in Bytes :
             <<d, b>> \in late => /\ row[d].state # "ABSENT"
                                  /\ key[d] # "gone"

Inv == /\ \A d \in Delivery : RowInv(d)
       /\ \A w \in Busies : WorkerInv(w)
       /\ OwnFences
       /\ LateInv

\* What nearly every step leaves alone, row by row and worker by worker.
RowFrame(d) ==
    /\ row'[d].channel = row[d].channel
    /\ row'[d].fence = row[d].fence
    /\ row'[d].state = "ABSENT" <=> row[d].state = "ABSENT"
    /\ row'[d].lease = "live" => row[d].lease = "live" /\ row'[d].owner = row[d].owner
    /\ row'[d].lease # "none" => row'[d].state \in {"PENDING", "FAILED"}
    /\ row[d].stamped => row'[d].stamped
    /\ row'[d].stamped => row[d].stamped \/ Out(d)

ReportFrame(d) ==
    /\ report'[d] = "APPROVED" => report[d] = "APPROVED"
    /\ report'[d] = "DELIVERED" => Arrived(d)
    /\ applied'[d] # {} => row[d].stamped
    /\ "bounced" \in applied'[d] => row'[d].hold

MailFrame(d) ==
    /\ fate[d] = "delivered" => fate'[d] = "delivered"
    /\ fate'[d] # "none" => Out(d) /\ row[d].channel = "email"
    /\ hooks'[d] # {} => fate'[d] # "none"
    /\ "delivered" \in hooks'[d] => fate'[d] = "delivered"

WorkerFrame(w) ==
    \/ worker'[w] \in {worker[w], Idle}
    \/ /\ worker[w] # Idle
       /\ worker'[w].d = worker[w].d
       /\ worker'[w].fence = worker[w].fence
       /\ worker'[w].phase # "call"
       /\ worker'[w].phase \in {"stamp", "commit"} => Out(worker[w].d)

Quiet == /\ \A d \in Delivery : RowFrame(d) /\ ReportFrame(d) /\ MailFrame(d)
         /\ \A w \in Worker : WorkerFrame(w)
         /\ late' \subseteq late
         /\ UNCHANGED <<copies, overdue, key>>

LEMMA InvInit == Init => Inv
  BY DEF Init, Inv, RowInv, WorkerInv, OwnFences, LateInv, Busies, Out, Absent, Bytes

LEMMA QuietKeeps ==
    ASSUME TypeOK, TypeOK', Inv, Quiet
    PROVE  Inv'
<1>1. ASSUME NEW d \in Delivery PROVE RowInv(d)'
  <2>1. RowInv(d) /\ RowFrame(d) /\ ReportFrame(d) /\ MailFrame(d)
    BY DEF Inv, Quiet
  <2>2. copies' = copies /\ key' = key /\ overdue' = overdue
    BY DEF Quiet
  <2> QED
    BY <2>1, <2>2 DEF RowInv, RowFrame, ReportFrame, MailFrame, Out, Arrived
<1>2. ASSUME NEW w \in Busies' PROVE WorkerInv(w)'
  <2>1. w \in Worker /\ worker'[w] # Idle /\ WorkerFrame(w)
    BY DEF Busies, Quiet
  <2>2. w \in Busies /\ worker'[w].d = worker[w].d /\ worker'[w].fence = worker[w].fence
    BY <2>1 DEF WorkerFrame, Busies
  <2>3. worker[w].d \in Delivery /\ WorkerInv(w) /\ RowFrame(worker[w].d)
    BY <2>2, BusyFields DEF Inv, Quiet, Busies
  <2>4. worker'[w].phase \in {"stamp", "commit"} => Out(worker[w].d)
    BY <2>1, <2>3 DEF WorkerFrame, WorkerInv
  <2>5. worker'[w].phase = "call" => worker'[w] = worker[w]
    BY <2>1 DEF WorkerFrame
  <2>6. Held(w)' => Held(w)
    BY <2>2, <2>3 DEF Held, RowFrame, Busies
  <2> QED
    BY <2>2, <2>3, <2>4, <2>5, <2>6 DEF WorkerInv, RowFrame, Out, Quiet
<1>3. OwnFences'
  BY DEF Inv, OwnFences, Quiet, WorkerFrame, Busies
<1>4. LateInv'
  BY DEF Inv, LateInv, Quiet, RowFrame
<1> QED
  BY <1>1, <1>2, <1>3, <1>4 DEF Inv

LEMMA Still ==
    ASSUME Inv, NEW d \in Delivery
    PROVE  /\ row'[d] = row[d] => RowFrame(d)
           /\ /\ row'[d] = row[d]
              /\ applied'[d] = applied[d]
              /\ report'[d] \in {report[d], "CANCELLED"}
              => ReportFrame(d)
           /\ fate'[d] = fate[d] /\ hooks'[d] = hooks[d] => MailFrame(d)
  BY DEF Inv, RowInv, RowFrame, ReportFrame, MailFrame

LEMMA WorkerStill ==
    ASSUME NEW w \in Worker,
           \/ Stopped(w)
           \/ worker[w] # Idle /\ \E p \in Phases \ {"call", "stamp", "commit"} : Moved(w, p)
           \/ worker[w] # Idle /\ Out(worker[w].d) /\ \E p \in {"stamp", "commit"} : Moved(w, p)
    PROVE  \A v \in Worker : WorkerFrame(v)
  BY DEF Stopped, Moved, WorkerFrame, Phases

\* A worker that holds its row gives it back, with what else it writes.
LEMMA GivesBack ==
    ASSUME TypeOK, Inv, NEW w \in Worker, worker[w] # Idle, NEW r \in Row,
           Write(worker[w].d, r),
           r.channel = row[worker[w].d].channel,
           r.fence = row[worker[w].d].fence,
           r.stamped = row[worker[w].d].stamped,
           row[worker[w].d].hold => r.hold,
           r.state # "ABSENT",
           r.lease = "none",
           UNCHANGED <<report, applied>>
           \/ (UNCHANGED applied /\ report' = [report EXCEPT ![worker[w].d] = "DELIVERED"]
               /\ Arrived(worker[w].d))
    PROVE  \A d \in Delivery : RowFrame(d) /\ ReportFrame(d)
<1>1. worker[w].d \in Delivery /\ WorkerInv(w) /\ row[worker[w].d] \in Row
  BY BusyFields, RowFields DEF Inv, Busies
<1>2. row'[worker[w].d] = r
  BY <1>1 DEF Write, TypeOK
<1>3. ASSUME NEW d \in Delivery, d # worker[w].d PROVE RowFrame(d) /\ ReportFrame(d)
  <2>1. row'[d] = row[d] /\ applied'[d] = applied[d] /\ report'[d] = report[d]
    BY <1>3 DEF Write, TypeOK
  <2> QED
    BY <2>1, Still
<1>4. RowFrame(worker[w].d)
  BY <1>1, <1>2 DEF RowFrame, WorkerInv
<1>5. ReportFrame(worker[w].d)
  BY <1>1, <1>2 DEF ReportFrame, Inv, RowInv, TypeOK
<1> QED
  BY <1>3, <1>4, <1>5

LEMMA QuietReads ==
    ASSUME TypeOK, Inv, Reading, \A v \in Worker : WorkerFrame(v)
    PROVE  Quiet
  BY Still DEF Reading, Quiet, provider

LEMMA QuietWorker ==
    ASSUME TypeOK, Clean, Inv, NEW w \in Worker,
           \/ ReleaseUnstarted(w) \/ Refuse(w) \/ Fail(w)
           \/ \E acked \in BOOLEAN : Stamp(w, acked) \/ Commit(w, acked)
    PROVE  Quiet
<1> DEFINE d == worker[w].d
<1>1. /\ worker[w] # Idle /\ d \in Delivery /\ row[d] \in Row /\ row[d].state # "ABSENT"
      /\ w \in Busies /\ WorkerInv(w)
  BY BusyFields, RowFields
  DEF ReleaseUnstarted, Refuse, Fail, Stamp, Commit, Idle, Inv, Busies, WorkerInv
<1>2. Unleased(row[d]) \in Row
  BY <1>1, UnleasedRow
<1>3. UNCHANGED <<late, copies, overdue, key, fate, hooks>>
  BY DEF ReleaseUnstarted, Refuse, Fail, Stamp, Commit, provider
<1>4. \A e \in Delivery : MailFrame(e)
  BY <1>3, Still
<1>5. ASSUME \A e \in Delivery : RowFrame(e) /\ ReportFrame(e), \A v \in Worker : WorkerFrame(v)
      PROVE  Quiet
  BY <1>3, <1>4, <1>5 DEF Quiet
<1>6. CASE ReleaseUnstarted(w)
  <2> DEFINE r == [Unleased(row[d]) EXCEPT !.attempts = IF @ > 0 THEN @ - 1 ELSE 0]
  <2>1. \A v \in Worker : WorkerFrame(v)
    BY <1>1, <1>6, Moves, WorkerStill DEF ReleaseUnstarted
  <2>2. CASE Held(w)
    <3>1. r \in Row
      BY <1>2 DEF Row
    <3>2. /\ r.channel = row[d].channel /\ r.fence = row[d].fence /\ r.stamped = row[d].stamped
          /\ r.hold = row[d].hold /\ r.state = row[d].state /\ r.lease = "none"
      BY <1>1, <1>2, UnleasedRow DEF Row
    <3>3. Write(d, r) /\ UNCHANGED <<report, applied>>
      BY <1>6, <2>2 DEF ReleaseUnstarted, provider
    <3> HIDE DEF r
    <3> QED
      BY <1>1, <3>1, <3>2, <3>3, <1>5, <2>1, GivesBack
  <2>3. CASE ~Held(w)
    <3>1. row' = row /\ UNCHANGED <<report, applied>>
      BY <1>1, <1>6, <2>3 DEF ReleaseUnstarted, Write, provider, TypeOK
    <3> QED
      BY <3>1, <1>5, <2>1, Still
  <2> QED
    BY <2>2, <2>3
<1>7. CASE Refuse(w)
  <2> DEFINE r == [Unleased(row[d]) EXCEPT !.state = "FAILED", !.hold = @ \/ worker[w].hold]
  <2>1. \A v \in Worker : WorkerFrame(v)
    BY <1>1, <1>7, Moves, WorkerStill DEF Refuse
  <2>2. r \in Row
    BY <1>1, <1>2, BusyFields DEF Row
  <2>3. /\ r.channel = row[d].channel /\ r.fence = row[d].fence /\ r.stamped = row[d].stamped
        /\ row[d].hold => r.hold
        /\ r.state = "FAILED" /\ r.lease = "none"
    BY <1>1, <1>2, UnleasedRow DEF Row
  <2>4. Write(d, r) /\ UNCHANGED <<report, applied>>
    BY <1>7 DEF Refuse, provider
  <2> HIDE DEF r
  <2> QED
    BY <1>1, <1>5, <2>1, <2>2, <2>3, <2>4, GivesBack
<1>8. CASE Fail(w)
  <2> DEFINE r == [Unleased(row[d]) EXCEPT
                     !.state = IF row[d].attempts >= row[d].max THEN "FAILED" ELSE "PENDING",
                     !.backoff = TRUE]
  <2>1. \A v \in Worker : WorkerFrame(v)
    BY <1>1, <1>8, Moves, WorkerStill DEF Fail
  <2>2. r \in Row
    BY <1>1, <1>2 DEF Row
  <2>3. /\ r.channel = row[d].channel /\ r.fence = row[d].fence /\ r.stamped = row[d].stamped
        /\ r.hold = row[d].hold /\ r.state # "ABSENT" /\ r.lease = "none"
    BY <1>1, <1>2, UnleasedRow DEF Row
  <2>4. Write(d, r) /\ UNCHANGED <<report, applied>>
    BY <1>8 DEF Fail, provider
  <2> HIDE DEF r
  <2> QED
    BY <1>1, <1>5, <2>1, <2>2, <2>3, <2>4, GivesBack
<1>9. ASSUME NEW acked \in BOOLEAN, Stamp(w, acked) PROVE Quiet
  <2>1. Out(d)
    BY <1>1, <1>9 DEF Stamp, WorkerInv
  <2>2. \A v \in Worker : WorkerFrame(v)
    <3>1. Moved(w, "commit") \/ Moved(w, "failing")
      BY <1>1, <1>9, Moves DEF Stamp, Phases
    <3> QED
      BY <1>1, <2>1, <3>1, WorkerStill DEF Phases
  <2>3. row' = [row EXCEPT ![d] = [row[d] EXCEPT !.stamped = TRUE]]
    BY <1>9 DEF Stamp, Write
  <2>4. \A e \in Delivery : RowFrame(e)
    <3>1. \A e \in Delivery : e # d => RowFrame(e)
      BY <2>3, Still DEF TypeOK
    <3>2. row'[d] = [row[d] EXCEPT !.stamped = TRUE]
      BY <1>1, <2>3 DEF TypeOK
    <3>3. RowFrame(d)
      BY <1>1, <2>1, <3>2 DEF RowFrame, Row, Inv, RowInv
    <3> QED
      BY <3>1, <3>3
  <2>5. \A e \in Delivery : ReportFrame(e)
    <3>1. \A e \in Delivery : row'[e].hold = row[e].hold
      BY <1>1, <2>3 DEF TypeOK, Row
    <3>2. UNCHANGED <<report, applied>>
      BY <1>9 DEF Stamp, provider
    <3> QED
      BY <3>1, <3>2 DEF ReportFrame, Inv, RowInv
  <2> QED
    BY <1>5, <2>2, <2>4, <2>5
<1>10. ASSUME NEW acked \in BOOLEAN, Commit(w, acked) PROVE Quiet
  <2> DEFINE r == [Unleased(row[d]) EXCEPT !.state = "SENT", !.confirmed = @ \/ CompletesReport(d)]
  <2>1. \A v \in Worker : WorkerFrame(v)
    <3>1. Stopped(w) \/ Moved(w, "failing")
      BY <1>1, <1>10, Moves DEF Commit, Phases
    <3> QED
      BY <1>1, <3>1, WorkerStill DEF Phases
  <2>2. r \in Row
    BY <1>1, <1>2 DEF Row, CompletesReport
  <2>3. /\ r.channel = row[d].channel /\ r.fence = row[d].fence /\ r.stamped = row[d].stamped
        /\ r.hold = row[d].hold /\ r.state = "SENT" /\ r.lease = "none"
    BY <1>1, <1>2, UnleasedRow DEF Row
  <2>4. Out(d)
    BY <1>1, <1>10 DEF Commit, WorkerInv
  <2>5. Write(d, r)
    BY <1>10 DEF Commit
  <2>6. \/ UNCHANGED <<report, applied>>
        \/ UNCHANGED applied /\ report' = [report EXCEPT ![d] = "DELIVERED"] /\ Arrived(d)
    BY <1>10, <2>4 DEF Commit, provider, CompletesReport, Arrived, Out
  <2> HIDE DEF r
  <2> QED
    BY <1>1, <1>5, <2>1, <2>2, <2>3, <2>5, <2>6, GivesBack
<1> QED
  BY <1>6, <1>7, <1>8, <1>9, <1>10

LEMMA QuietClock ==
    ASSUME TypeOK, Inv, \/ \E d \in Delivery : Expire(d) \/ Elapse(d)
                        \/ Sweep
    PROVE  Quiet
<1>1. Leasing
  BY DEF Expire, Elapse, Sweep, SweepBury, SweepRelease
<1>2. ASSUME \A e \in Delivery : RowFrame(e) /\ row'[e].hold = row[e].hold
      PROVE  Quiet
  <2>1. \A e \in Delivery : ReportFrame(e) /\ MailFrame(e)
    BY <1>1, <1>2, Still DEF Leasing, provider, ReportFrame, Inv, RowInv
  <2> QED
    BY <1>1, <1>2, <2>1 DEF Quiet, Leasing, provider, WorkerFrame
<1>3. ASSUME NEW d \in Delivery, Expire(d) \/ Elapse(d) PROVE Quiet
  <2>1. \A e \in Delivery : e # d => row'[e] = row[e]
    BY <1>3 DEF Expire, Elapse, Write, TypeOK
  <2>2. \/ row[d].lease = "live" /\ row'[d] = [row[d] EXCEPT !.lease = "expired"]
        \/ row'[d] = [row[d] EXCEPT !.backoff = FALSE]
    BY <1>3 DEF Expire, Elapse, Write, TypeOK
  <2>3. RowFrame(d) /\ row'[d].hold = row[d].hold
    BY <2>2, RowFields DEF RowFrame, Row, Inv, RowInv
  <2> QED
    BY <1>2, <2>1, <2>3, Still
<1>4. ASSUME Sweep PROVE Quiet
  <2>1. ASSUME NEW e \in Delivery PROVE RowFrame(e) /\ row'[e].hold = row[e].hold
    <3>1. \/ row'[e] = row[e]
          \/ row[e].state = "PENDING" /\ row'[e] = Unleased(row[e])
          \/ row[e].state = "PENDING" /\ row'[e] = [Unleased(row[e]) EXCEPT !.state = "FAILED"]
      <4>1. CASE SweepBury
        BY <4>1 DEF SweepBury, Dead
      <4>2. CASE SweepRelease
        BY <4>2 DEF SweepRelease, Dead
      <4> QED
        BY <1>4, <4>1, <4>2 DEF Sweep
    <3>2. row[e] \in Row /\ Unleased(row[e]) \in Row
      BY RowFields, UnleasedRow
    <3>3. CASE row'[e] = row[e]
      BY <3>3, Still
    <3>4. CASE row[e].state = "PENDING" /\ row'[e] = Unleased(row[e])
      BY <3>2, <3>4, UnleasedRow DEF RowFrame
    <3>5. CASE row[e].state = "PENDING" /\ row'[e] = [Unleased(row[e]) EXCEPT !.state = "FAILED"]
      BY <3>2, <3>5, UnleasedRow DEF RowFrame, Row
    <3> QED
      BY <3>1, <3>3, <3>4, <3>5
  <2> QED
    BY <1>2, <2>1
<1> QED
  BY <1>3, <1>4

LEMMA QuietWorld ==
    ASSUME TypeOK, Clean, Inv, NEW d \in Delivery,
           \/ \E outcome \in {"delivered", "bounced"} : MailSettles(d, outcome)
           \/ Complain(d)
           \/ \E e \in Receipts : HoldingReceipt(d, e) \/ UnmatchedReceipt(d, e)
           \/ DeliveredReceipt(d)
           \/ Retry(d) \/ CancelHeld(d) \/ Retire(d) \/ Alter(d)
           \/ \E to \in {"granted", "unseen", "revoked"} : Regrant(d, to)
    PROVE  Quiet
<1>1. UNCHANGED <<worker, late, copies, overdue, key>>
  BY DEF MailSettles, Complain, HoldingReceipt, UnmatchedReceipt, DeliveredReceipt, Applies,
         Retry, CancelHeld, Retire, Alter, Regrant, provider
<1>2. \A w \in Worker : WorkerFrame(w)
  BY <1>1 DEF WorkerFrame
<1>3. ASSUME UNCHANGED <<row, report, applied>>, \A e \in Delivery : MailFrame(e)
      PROVE  Quiet
  BY <1>1, <1>2, <1>3, Still DEF Quiet
<1>4. ASSUME UNCHANGED <<fate, hooks>>, \A e \in Delivery : RowFrame(e) /\ ReportFrame(e)
      PROVE  Quiet
  BY <1>1, <1>2, <1>4, Still DEF Quiet
<1>5. ASSUME NEW outcome \in {"delivered", "bounced"}, MailSettles(d, outcome) PROVE Quiet
  <2>1. Out(d) /\ row[d].channel = "email" /\ fate[d] = "none" /\ hooks[d] = {}
    <3>1. copies[d]["altered"] = 0 /\ copies[d] \in [Bytes -> Nat]
      BY DEF Clean, OnlyApprovedBytes, TypeOK
    <3>2. copies[d]["approved"] # 0
      BY <1>5, <3>1 DEF MailSettles, Bytes
    <3>3. copies[d]["approved"] \in Nat
      BY <3>1 DEF Bytes
    <3> QED
      BY <1>5, <3>2, <3>3 DEF MailSettles, Out, Inv, RowInv
  <2>2. /\ UNCHANGED <<row, report, applied>>
        /\ fate' = [fate EXCEPT ![d] = outcome]
        /\ hooks' = [hooks EXCEPT ![d] = {outcome}]
    BY <1>5, <2>1 DEF MailSettles
  <2>3. \A e \in Delivery : MailFrame(e)
    BY <2>1, <2>2 DEF MailFrame, Inv, RowInv, TypeOK
  <2> QED
    BY <1>3, <2>2, <2>3
<1>6. ASSUME Complain(d) PROVE Quiet
  <2>1. \A e \in Delivery : MailFrame(e)
    BY <1>6 DEF Complain, MailFrame, Inv, RowInv, TypeOK
  <2> QED
    BY <1>3, <1>6, <2>1 DEF Complain
<1>7. ASSUME NEW e \in Receipts, UnmatchedReceipt(d, e) PROVE Quiet
  <2>1. \A i \in Delivery : MailFrame(i)
    BY <1>7 DEF UnmatchedReceipt, MailFrame, Inv, RowInv, TypeOK
  <2> QED
    BY <1>3, <1>7, <2>1 DEF UnmatchedReceipt
<1>8. ASSUME NEW e \in Receipts, HoldingReceipt(d, e) PROVE Quiet
  <2>1. /\ e \in hooks[d] /\ row[d].stamped /\ UNCHANGED <<report, fate, hooks>>
        /\ applied' = [applied EXCEPT ![d] = @ \union {e}]
        /\ row' = [row EXCEPT ![d] = [row[d] EXCEPT
                     !.state = IF e = "bounced" THEN "FAILED" ELSE @, !.hold = TRUE]]
    BY <1>8 DEF HoldingReceipt, Applies, Write
  <2>2. \A i \in Delivery : i # d => row'[i] = row[i] /\ applied'[i] = applied[i]
    BY <2>1 DEF TypeOK
  <2>3. row'[d] = [row[d] EXCEPT !.state = IF e = "bounced" THEN "FAILED" ELSE @, !.hold = TRUE]
    BY <2>1 DEF TypeOK
  <2>4. row[d].state # "ABSENT" /\ row[d] \in Row
    BY <2>1, RowFields DEF Inv, RowInv
  <2>5. RowFrame(d) /\ row'[d].hold
    <3>1. CASE e = "bounced"
      BY <2>3, <2>4, <3>1 DEF RowFrame, Row
    <3>2. CASE e # "bounced"
      BY <2>3, <2>4, <3>2 DEF RowFrame, Row, Inv, RowInv
    <3> QED
      BY <3>1, <3>2
  <2>6. ReportFrame(d)
    BY <2>1, <2>5 DEF ReportFrame, Inv, RowInv
  <2> QED
    BY <1>4, <2>1, <2>2, <2>5, <2>6, Still
<1>9. ASSUME DeliveredReceipt(d) PROVE Quiet
  <2>1. /\ "delivered" \in hooks[d] /\ row[d].stamped /\ UNCHANGED <<fate, hooks>>
        /\ applied' = [applied EXCEPT ![d] = @ \union {"delivered"}]
    BY <1>9 DEF DeliveredReceipt, Applies
  <2>2. Arrived(d)
    BY <2>1 DEF Inv, RowInv, Out, Arrived
  <2>3. \/ UNCHANGED <<row, report>>
        \/ /\ row' = [row EXCEPT ![d] = [row[d] EXCEPT !.confirmed = TRUE]]
           /\ report' = [report EXCEPT ![d] = "DELIVERED"]
    BY <1>9 DEF DeliveredReceipt, Write
  <2>4. \A i \in Delivery : i # d => /\ row'[i] = row[i] /\ applied'[i] = applied[i]
                                     /\ report'[i] = report[i]
    BY <2>1, <2>3 DEF TypeOK
  <2>5. row'[d] = row[d] \/ row'[d] = [row[d] EXCEPT !.confirmed = TRUE]
    BY <2>3 DEF TypeOK
  <2>6. RowFrame(d) /\ row'[d].hold = row[d].hold
    BY <2>5, RowFields DEF RowFrame, Row, Inv, RowInv
  <2>7. report'[d] = report[d] \/ report'[d] = "DELIVERED"
    BY <2>3 DEF TypeOK
  <2>8. ReportFrame(d)
    BY <2>1, <2>2, <2>6, <2>7 DEF ReportFrame, Inv, RowInv, TypeOK
  <2> QED
    BY <1>4, <2>1, <2>4, <2>6, <2>8, Still
<1>10. ASSUME Retry(d) PROVE Quiet
  <2> DEFINE r == [Unleased(row[d]) EXCEPT !.state = "PENDING", !.hold = FALSE, !.backoff = FALSE,
                                           !.max = row[d].attempts + RetryBudget]
  <2>1. /\ row[d].state = "FAILED" /\ ~row[d].stamped /\ UNCHANGED <<report, applied, fate, hooks>>
        /\ row' = [row EXCEPT ![d] = r]
    BY <1>10 DEF Retry, Write, provider
  <2>2. \A i \in Delivery : i # d => row'[i] = row[i]
    BY <2>1 DEF TypeOK
  <2>3. row'[d] = r
    BY <2>1 DEF TypeOK
  <2>4. Unleased(row[d]) \in Row
    BY RowFields, UnleasedRow
  <2>5. RowFrame(d)
    BY <2>1, <2>3, <2>4, RowFields, UnleasedRow DEF RowFrame, Row
  <2>6. ReportFrame(d)
    BY <2>1 DEF ReportFrame, Inv, RowInv
  <2> QED
    BY <1>4, <2>1, <2>2, <2>5, <2>6, Still
<1>11. ASSUME CancelHeld(d) \/ Retire(d) \/ Alter(d) PROVE Quiet
  <2>1. UNCHANGED <<row, applied, fate, hooks>>
    BY <1>11 DEF CancelHeld, Retire, Alter, provider
  <2>2. \A i \in Delivery : report'[i] \in {report[i], "CANCELLED"}
    BY <1>11 DEF CancelHeld, Retire, Alter, TypeOK
  <2> QED
    BY <1>4, <2>1, <2>2, Still
<1>12. ASSUME NEW to \in {"granted", "unseen", "revoked"}, Regrant(d, to) PROVE Quiet
  BY <1>4, <1>12, Still DEF Regrant, provider
<1> QED
  BY <1>5, <1>6, <1>7, <1>8, <1>9, <1>10, <1>11, <1>12

LEMMA EnqueueKeeps ==
    ASSUME TypeOK, TypeOK', Inv, NEW d \in Delivery, NEW arm \in Channels, Enqueue(d, arm)
    PROVE  Inv'
<1> DEFINE r == [Absent EXCEPT !.state = "PENDING", !.channel = arm]
<1>1. /\ row[d].state = "ABSENT" /\ ~Out(d) /\ key[d] = "fresh"
      /\ ~row[d].stamped /\ fate[d] = "none" /\ hooks[d] = {} /\ applied[d] = {}
  BY DEF Enqueue, Inv, RowInv
<1>2. \A w \in Busies : worker[w].d # d
  BY <1>1 DEF Inv, WorkerInv
<1>3. /\ row' = [row EXCEPT ![d] = r]
      /\ report' = [report EXCEPT ![d] = "DELIVERING"]
      /\ UNCHANGED <<worker, copies, late, overdue, key, fate, hooks, applied>>
  BY DEF Enqueue, Write, provider
<1>4. \A e \in Delivery \ {d} : row'[e] = row[e] /\ report'[e] = report[e]
  BY <1>3 DEF TypeOK
<1>5. row'[d] = r /\ report'[d] = "DELIVERING"
  BY <1>3 DEF TypeOK
<1>6. r.state = "PENDING" /\ r.channel = arm /\ r.lease = "none" /\ ~r.stamped
  BY DEF Absent
<1> HIDE DEF r
<1>7. \A e \in Delivery : RowInv(e)'
  <2>1. RowInv(d)'
    BY <1>1, <1>3, <1>5, <1>6 DEF RowInv, Out, Arrived, Inv
  <2>2. \A e \in Delivery \ {d} : RowInv(e)'
    BY <1>3, <1>4 DEF RowInv, Out, Arrived, Inv
  <2> QED
    BY <2>1, <2>2
<1>8. \A w \in Busies' : WorkerInv(w)'
  <2> SUFFICES ASSUME NEW w \in Busies PROVE WorkerInv(w)'
    BY <1>3 DEF Busies
  <2>1. worker[w].d \in Delivery \ {d}
    BY <1>2, BusyFields DEF Busies
  <2> QED
    BY <1>3, <1>4, <2>1 DEF WorkerInv, Inv, Out, Held
<1>9. OwnFences' /\ LateInv'
  BY <1>1, <1>3, <1>4 DEF Inv, OwnFences, LateInv, Busies
<1> QED
  BY <1>7, <1>8, <1>9 DEF Inv

LEMMA ClaimKeeps ==
    ASSUME TypeOK, TypeOK', Inv, NEW w \in Worker, NEW d \in Delivery, Claim(w, d)
    PROVE  Inv'
<1> DEFINE r == [row[d] EXCEPT !.owner = OwnerOf[w], !.lease = "live",
                               !.attempts = @ + 1, !.fence = @ + 1]
<1>1. row[d] \in Row /\ row[d].state = "PENDING" /\ worker[w] = Idle /\ row[d].lease # "live"
  BY RowFields DEF Claim, Claimable
<1>2. row[d].fence \in Nat /\ row[d].fence + 1 \in Nat
  BY <1>1 DEF Row
<1>3. /\ row' = [row EXCEPT ![d] = r]
      /\ UNCHANGED <<report, copies, late, overdue, key, fate, hooks, applied>>
  BY DEF Claim, Write, provider
<1>4. /\ \A e \in Delivery \ {d} : row'[e] = row[e]
      /\ row'[d] = r
  BY <1>3 DEF TypeOK
<1>5. /\ r.state = "PENDING" /\ r.channel = row[d].channel /\ r.lease = "live"
      /\ r.stamped = row[d].stamped /\ r.fence = row[d].fence + 1 /\ r.hold = row[d].hold
  BY <1>1 DEF Row
<1>6. /\ \A v \in Worker \ {w} : worker'[v] = worker[v]
      /\ worker'[w].d = d /\ worker'[w].fence = row[d].fence + 1
      /\ worker'[w].phase = "claimed" /\ worker'[w] # Idle
  BY DEF Claim, TypeOK, Idle
<1> HIDE DEF r
<1>7. \A e \in Delivery : RowInv(e)'
  <2>1. RowInv(d)'
    BY <1>1, <1>3, <1>4, <1>5 DEF RowInv, Out, Arrived, Inv
  <2>2. \A e \in Delivery \ {d} : RowInv(e)'
    BY <1>3, <1>4 DEF RowInv, Out, Arrived, Inv
  <2> QED
    BY <2>1, <2>2
<1>8. \A v \in Busies : v # w /\ worker[v].d \in Delivery /\ WorkerInv(v)
                        /\ worker[v].fence \in Nat
  BY <1>1, BusyFields DEF Busies, Inv
<1>9. ASSUME NEW v \in Busies' PROVE WorkerInv(v)'
  <2>1. CASE v = w
    BY <1>2, <1>4, <1>5, <1>6, <2>1 DEF WorkerInv
  <2>2. CASE v # w
    <3>1. v \in Busies /\ worker'[v] = worker[v]
      BY <1>6, <2>2 DEF Busies
    <3>2. CASE worker[v].d = d
      <4>1. worker[v].fence <= row[d].fence
        BY <1>8, <3>1, <3>2 DEF WorkerInv
      <4>2. worker[v].fence # row[d].fence + 1 /\ worker[v].fence <= row[d].fence + 1
        BY <1>2, <1>8, <3>1, <4>1
      <4>3. ~Held(v)'
        BY <1>4, <1>5, <3>1, <3>2, <4>2 DEF Held
      <4> QED
        BY <1>3, <1>4, <1>5, <1>8, <3>1, <3>2, <4>2, <4>3 DEF WorkerInv, Out
    <3>3. CASE worker[v].d # d
      <4>1. row'[worker[v].d] = row[worker[v].d]
        BY <1>4, <1>8, <3>1, <3>3
      <4> QED
        BY <1>3, <1>8, <3>1, <4>1 DEF WorkerInv, Out, Held
    <3> QED
      BY <3>2, <3>3
  <2> QED
    BY <2>1, <2>2
<1>10. OwnFences'
  <2> SUFFICES ASSUME NEW u \in Busies', NEW v \in Busies', u # v,
                      worker'[u].d = worker'[v].d, worker'[u].fence = worker'[v].fence
               PROVE  FALSE
    BY DEF OwnFences
  <2>1. ASSUME NEW x \in Busies', x # w
        PROVE  x \in Busies /\ worker'[x] = worker[x]
               /\ (worker[x].d = d => worker[x].fence # row[d].fence + 1)
    <3>1. x \in Busies /\ worker'[x] = worker[x]
      BY <1>6, <2>1 DEF Busies
    <3>2. worker[x].d = d => worker[x].fence <= row[d].fence /\ worker[x].fence \in Nat
      BY <1>8, <3>1 DEF WorkerInv
    <3> QED
      BY <1>2, <3>1, <3>2
  <2> QED
    BY <1>6, <2>1 DEF Inv, OwnFences
<1>11. LateInv'
  BY <1>1, <1>3, <1>4, <1>5 DEF Inv, LateInv
<1> QED
  BY <1>7, <1>9, <1>10, <1>11 DEF Inv

\* Whoever holds a row is the only one to.
LEMMA OneHolds ==
    ASSUME TypeOK, Inv, NEW v \in Worker, NEW w \in Worker, Held(v), Held(w),
           worker[v].d = worker[w].d
    PROVE  v = w
  BY DEF Held, Inv, OwnFences, Busies

\* A mail is the one mail there is; a post is one more comment.
LEMMA OneCopy ==
    ASSUME TypeOK, Inv, NEW d \in Delivery, TakesEffect(d, "approved"), key[d] # "gone"
    PROVE  /\ copies'[d]["approved"] = IF row[d].channel = "email"
                                       THEN 1 ELSE copies[d]["approved"] + 1
           /\ copies'[d]["approved"] > 0
           /\ copies[d]["approved"] <= copies'[d]["approved"]
           /\ \A e \in Delivery \ {d} : copies'[e] = copies[e]
<1>1. /\ copies[d]["approved"] \in Nat
      /\ row[d].channel = "email" => copies[d]["approved"] <= 1
  BY DEF TypeOK, Bytes, Inv, RowInv
<1>2. CASE row[d].channel = "email" /\ copies[d]["approved"] > 0
  <2>1. copies' = copies
    BY <1>2 DEF TakesEffect
  <2>2. copies[d]["approved"] = 1
    BY <1>1, <1>2
  <2> QED
    BY <1>2, <2>1, <2>2
<1>3. CASE ~(row[d].channel = "email" /\ copies[d]["approved"] > 0)
  <2>1. row[d].channel = "email" => copies[d]["approved"] = 0
    BY <1>1, <1>3
  <2>2. copies' = [copies EXCEPT ![d]["approved"] = @ + 1]
    BY <1>3 DEF TakesEffect
  <2>3. /\ copies'[d]["approved"] = copies[d]["approved"] + 1
        /\ \A e \in Delivery \ {d} : copies'[e] = copies[e]
    BY <2>2 DEF TypeOK, Bytes
  <2> QED
    BY <1>1, <2>1, <2>3
<1> QED
  BY <1>2, <1>3

\* What is counted as overdue, and what is not.
LEMMA OneOverdue ==
    ASSUME TypeOK, NEW d \in Delivery, Outlives(d)
    PROVE  /\ overdue'[d] = IF row[d].channel = "email" THEN overdue[d] ELSE overdue[d] + 1
           /\ \A e \in Delivery \ {d} : overdue'[e] = overdue[e]
  BY DEF TypeOK, Outlives

LEMMA CopyKeeps ==
    ASSUME TypeOK, TypeOK', Inv, NEW d \in Delivery, row[d].state # "ABSENT",
           copies[d]["approved"] <= copies'[d]["approved"],
           copies'[d]["approved"] <= 1 + overdue'[d],
           row[d].channel = "email" => overdue'[d] = overdue[d],
           \A e \in Delivery \ {d} : copies'[e] = copies[e] /\ overdue'[e] = overdue[e],
           UNCHANGED <<row, report, key, fate, hooks, applied>>
    PROVE  /\ \A e \in Delivery : RowInv(e)'
           /\ \A e \in Delivery : Out(e) => Out(e)'
<1>1. ASSUME NEW e \in Delivery PROVE Out(e) => Out(e)'
  <2>1. copies[e]["approved"] \in Nat /\ copies'[e]["approved"] \in Nat
    BY DEF TypeOK, Bytes
  <2>2. copies[e]["approved"] <= copies'[e]["approved"]
    BY <2>1
  <2> QED
    BY <2>1, <2>2 DEF Out
<1>2. RowInv(d)'
  <2>1. RowInv(d) /\ (Out(d) => Out(d)') /\ (Arrived(d) => Arrived(d)')
    BY <1>1 DEF Inv, Arrived, Out
  <2> QED
    BY <2>1 DEF RowInv
<1>3. ASSUME NEW e \in Delivery \ {d} PROVE RowInv(e)'
  BY <1>3 DEF Inv, RowInv, Out, Arrived
<1> QED
  BY <1>1, <1>2, <1>3

LEMMA MovedFences ==
    ASSUME OwnFences, NEW w \in Busies, NEW p \in Phases, Moved(w, p)
    PROVE  OwnFences'
  BY DEF Moved, OwnFences, Busies

\* What a call changes: nothing, the one mail, a post in time or one overdue.
LEMMA CallLands ==
    ASSUME TypeOK, TypeOK', Clean, Inv, NEW w \in Worker, NEW effect \in BOOLEAN,
           NEW answer \in {"ok", "error", "refused"}, Call(w, effect, answer),
           NEW d \in Delivery, d = worker[w].d
    PROVE  /\ copies[d]["approved"] <= copies'[d]["approved"]
           /\ copies'[d]["approved"] <= 1 + overdue'[d]
           /\ effect => Out(d)'
           /\ row[d].channel = "email" => overdue'[d] = overdue[d]
           /\ row[d].channel # "email" /\ ~Held(w) /\ copies[d]["approved"] <= overdue[d]
                => copies'[d]["approved"] <= overdue'[d]
           /\ \A e \in Delivery \ {d} : copies'[e] = copies[e] /\ overdue'[e] = overdue[e]
<1>1. /\ w \in Busies /\ worker[w].bytes = "approved" /\ key[d] # "gone"
      /\ WorkerInv(w) /\ RowInv(d) /\ worker[w].phase = "call"
  BY BusyFields DEF Call, Idle, Busies, Clean, Inv, WorkerInv
<1>2. /\ copies[d]["approved"] \in Nat /\ copies'[d]["approved"] \in Nat
      /\ overdue[d] \in Nat /\ overdue'[d] \in Nat
  BY DEF TypeOK, Bytes
<1>3. copies[d]["approved"] <= 1 + overdue[d]
  BY <1>1 DEF RowInv
<1>4. CASE ~effect
  BY <1>2, <1>3, <1>4 DEF Call
<1>5. CASE effect
  <2>1. TakesEffect(d, "approved")
    BY <1>1, <1>5 DEF Call
  <2>2. CASE Held(w)
    <3>1. overdue' = overdue
      BY <1>5, <2>2 DEF Call
    <3>2. row[d].channel # "email" => copies[d]["approved"] <= overdue[d]
      BY <1>1, <2>2 DEF WorkerInv
    <3> QED
      BY <1>1, <1>2, <1>3, <2>1, <2>2, <3>1, <3>2, OneCopy DEF Out
  <2>3. CASE ~Held(w)
    <3>1. Outlives(d)
      BY <1>5, <2>3 DEF Call
    <3> QED
      BY <1>1, <1>2, <1>3, <2>1, <3>1, OneCopy, OneOverdue DEF Out
  <2> QED
    BY <2>2, <2>3
<1> QED
  BY <1>4, <1>5

LEMMA CallKeeps ==
    ASSUME TypeOK, TypeOK', Clean, Inv, NEW w \in Worker, NEW effect \in BOOLEAN,
           NEW answer \in {"ok", "error", "refused"}, Call(w, effect, answer)
    PROVE  Inv'
<1>1. PICK d \in Delivery : d = worker[w].d
  BY BusyFields DEF Call, Idle
<1>2. /\ worker[w] # Idle /\ worker[w].phase = "call" /\ w \in Busies
      /\ row[d].state # "ABSENT" /\ WorkerInv(w)
  BY <1>1, BusyFields DEF Call, Idle, Busies, Inv, WorkerInv
<1>3. UNCHANGED <<row, report, late, key, fate, hooks, applied>>
  BY DEF Call
<1>4. /\ copies[d]["approved"] <= copies'[d]["approved"]
      /\ copies'[d]["approved"] <= 1 + overdue'[d]
      /\ effect => Out(d)'
      /\ row[d].channel = "email" => overdue'[d] = overdue[d]
      /\ row[d].channel # "email" /\ ~Held(w) /\ copies[d]["approved"] <= overdue[d]
           => copies'[d]["approved"] <= overdue'[d]
      /\ \A e \in Delivery \ {d} : copies'[e] = copies[e] /\ overdue'[e] = overdue[e]
  BY <1>1, CallLands
<1>5. /\ \A e \in Delivery : RowInv(e)'
      /\ \A e \in Delivery : Out(e) => Out(e)'
  BY <1>2, <1>3, <1>4, CopyKeeps
<1>6. \E p \in {"stamp", "commit", "failing", "refusing"} :
         Moved(w, p) /\ (p \in {"stamp", "commit"} => effect)
  <2>1. \/ effect /\ Go(w, "stamp")
        \/ effect /\ Go(w, "commit")
        \/ Go(w, "failing")
        \/ Refuses(w, "provider", TRUE)
    BY DEF Call
  <2> QED
    BY <1>2, <2>1, Moves DEF Phases
<1>7. ASSUME NEW v \in Busies' PROVE WorkerInv(v)'
  <2>1. CASE v = w
    <3>1. /\ worker'[w].d = d /\ worker'[w].fence = worker[w].fence
          /\ worker'[w].phase # "call"
          /\ worker'[w].phase \in {"stamp", "commit"} => effect
      BY <1>1, <1>6 DEF Moved
    <3> QED
      BY <1>1, <1>2, <1>3, <1>4, <2>1, <3>1 DEF WorkerInv, Out
  <2>2. CASE v # w
    <3>1. v \in Busies /\ worker'[v] = worker[v] /\ worker[v].d \in Delivery /\ WorkerInv(v)
      BY <1>6, <2>2, BusyFields DEF Busies, Moved, Inv
    <3>2. Held(v)' <=> Held(v)
      BY <1>3, <3>1 DEF Held
    <3>3. ASSUME worker[v].phase = "call", row[worker[v].d].channel # "email", Held(v)
          PROVE  copies'[worker[v].d]["approved"] <= overdue'[worker[v].d]
      <4>1. copies[worker[v].d]["approved"] <= overdue[worker[v].d]
        BY <3>1, <3>3 DEF WorkerInv
      <4>2. CASE worker[v].d # d
        BY <1>4, <3>1, <4>1, <4>2
      <4>3. CASE worker[v].d = d
        <5>1. ~Held(w)
          BY <1>1, <2>2, <3>1, <3>3, <4>3, OneHolds DEF Busies
        <5> QED
          BY <1>4, <3>3, <4>1, <4>3, <5>1
      <4> QED
        BY <4>2, <4>3
    <3> QED
      BY <1>3, <1>5, <3>1, <3>2, <3>3 DEF WorkerInv
  <2> QED
    BY <2>1, <2>2
<1>8. OwnFences'
  BY <1>2, <1>6, MovedFences DEF Inv, Phases
<1>9. LateInv'
  BY <1>3 DEF Inv, LateInv
<1> QED
  BY <1>5, <1>7, <1>8, <1>9 DEF Inv

\* What a request that outlived its caller changes.
LEMMA LateLands ==
    ASSUME TypeOK, TypeOK', Clean, Inv, NEW d \in Delivery, NEW b \in Bytes, LandLate(d, b)
    PROVE  /\ copies[d]["approved"] <= copies'[d]["approved"]
           /\ copies'[d]["approved"] <= 1 + overdue'[d]
           /\ row[d].channel = "email" => overdue'[d] = overdue[d]
           /\ row[d].channel # "email" /\ copies[d]["approved"] <= overdue[d]
                => copies'[d]["approved"] <= overdue'[d]
           /\ \A e \in Delivery \ {d} : copies'[e] = copies[e] /\ overdue'[e] = overdue[e]
<1>1. b = "approved" /\ key[d] # "gone" /\ RowInv(d)
  BY DEF LandLate, Clean, Inv, LateInv
<1>2. TakesEffect(d, "approved") /\ Outlives(d)
  BY <1>1 DEF LandLate
<1>3. /\ copies[d]["approved"] \in Nat /\ copies'[d]["approved"] \in Nat
      /\ overdue[d] \in Nat /\ overdue'[d] \in Nat
  BY DEF TypeOK, Bytes
<1>4. copies[d]["approved"] <= 1 + overdue[d]
  BY <1>1 DEF RowInv
<1> QED
  BY <1>1, <1>2, <1>3, <1>4, OneCopy, OneOverdue

LEMMA LandLateKeeps ==
    ASSUME TypeOK, TypeOK', Clean, Inv, NEW d \in Delivery, NEW b \in Bytes, LandLate(d, b)
    PROVE  Inv'
<1>1. row[d].state # "ABSENT"
  BY DEF LandLate, Inv, LateInv
<1>2. UNCHANGED <<row, report, worker, key, fate, hooks, applied>> /\ late' \subseteq late
  BY DEF LandLate
<1>3. /\ copies[d]["approved"] <= copies'[d]["approved"]
      /\ copies'[d]["approved"] <= 1 + overdue'[d]
      /\ row[d].channel = "email" => overdue'[d] = overdue[d]
      /\ row[d].channel # "email" /\ copies[d]["approved"] <= overdue[d]
           => copies'[d]["approved"] <= overdue'[d]
      /\ \A e \in Delivery \ {d} : copies'[e] = copies[e] /\ overdue'[e] = overdue[e]
  BY LateLands
<1>4. /\ \A e \in Delivery : RowInv(e)'
      /\ \A e \in Delivery : Out(e) => Out(e)'
  BY <1>1, <1>2, <1>3, CopyKeeps
<1>5. ASSUME NEW v \in Busies' PROVE WorkerInv(v)'
  <2>1. v \in Busies /\ worker[v].d \in Delivery /\ WorkerInv(v)
    BY <1>2, BusyFields DEF Busies, Inv
  <2>2. Held(v)' <=> Held(v)
    BY <1>2 DEF Held
  <2>3. ASSUME worker[v].phase = "call", row[worker[v].d].channel # "email", Held(v)
        PROVE  copies'[worker[v].d]["approved"] <= overdue'[worker[v].d]
    BY <1>3, <2>1, <2>3 DEF WorkerInv
  <2> QED
    BY <1>2, <1>4, <2>1, <2>2, <2>3 DEF WorkerInv
<1>6. OwnFences' /\ LateInv'
  BY <1>2 DEF Inv, OwnFences, LateInv, Busies
<1> QED
  BY <1>4, <1>5, <1>6 DEF Inv

LEMMA GiveUpKeeps ==
    ASSUME TypeOK, TypeOK', Clean, Inv, NEW w \in Worker, GiveUp(w)
    PROVE  Inv'
<1>1. /\ worker[w] # Idle /\ worker[w].phase = "call" /\ worker[w].d \in Delivery
      /\ w \in Busies /\ WorkerInv(w)
  BY BusyFields DEF GiveUp, Idle, Busies, Inv
<1>2. /\ late' = {<<worker[w].d, worker[w].bytes>>}
      /\ UNCHANGED <<row, report, copies, overdue, key, fate, hooks, applied>>
  BY DEF GiveUp
<1>3. Moved(w, "failing")
  BY <1>1, Moves DEF GiveUp, Phases
<1>4. \A e \in Delivery : RowInv(e)'
  BY <1>2 DEF Inv, RowInv, Out, Arrived
<1>5. ASSUME NEW v \in Busies' PROVE WorkerInv(v)'
  <2>1. CASE v = w
    BY <1>1, <1>2, <1>3, <2>1 DEF WorkerInv, Moved, Out
  <2>2. CASE v # w
    BY <1>2, <1>3, <2>2 DEF WorkerInv, Moved, Out, Held, Inv, Busies
  <2> QED
    BY <2>1, <2>2
<1>6. OwnFences'
  BY <1>1, <1>3, MovedFences DEF Inv, Phases
<1>7. LateInv'
  BY <1>1, <1>2 DEF LateInv, WorkerInv
<1> QED
  BY <1>4, <1>5, <1>6, <1>7 DEF Inv

LEMMA AgeKeeps ==
    ASSUME TypeOK, TypeOK', Inv, NEW d \in Delivery, Age(d)
    PROVE  Inv'
<1>1. /\ row[d].channel = "email" /\ row[d].state # "ABSENT"
      /\ UNCHANGED <<row, report, worker, copies, late, overdue, fate, hooks, applied>>
      /\ \A e \in Delivery \ {d} : key'[e] = key[e]
      /\ key'[d] = "gone" => /\ ~\E w \in Worker : worker[w].phase = "call" /\ worker[w].d = d
                             /\ \A b \in Bytes : <<d, b>> \notin late
  BY DEF Age, TypeOK
<1>2. \A e \in Delivery : RowInv(e)'
  BY <1>1 DEF Inv, RowInv, Out, Arrived
<1>3. ASSUME NEW v \in Busies' PROVE WorkerInv(v)'
  <2>1. v \in Busies /\ v \in Worker /\ worker[v].d \in Delivery /\ WorkerInv(v)
    BY <1>1, BusyFields DEF Busies, Inv
  <2>2. worker[v].phase = "call" => key'[worker[v].d] # "gone"
    BY <1>1, <2>1 DEF WorkerInv
  <2> QED
    BY <1>1, <2>1, <2>2 DEF WorkerInv, Out, Held
<1>4. OwnFences' /\ LateInv'
  BY <1>1 DEF Inv, OwnFences, LateInv, Busies
<1> QED
  BY <1>2, <1>3, <1>4 DEF Inv

LEMMA LookKeeps ==
    ASSUME TypeOK, TypeOK', Clean, Inv, NEW w \in Worker, Look(w)
    PROVE  Inv'
<1> DEFINE d == worker[w].d
<1>1. /\ worker[w] # Idle /\ Reading /\ d \in Delivery /\ w \in Busies
      /\ worker[w].bytes = "approved" /\ WorkerInv(w) /\ copies[d]["approved"] \in Nat
  <2>1. worker[w] # Idle /\ Reading
    BY LookMoves
  <2>2. d \in Delivery /\ w \in Busies /\ worker[w].bytes = "approved"
    BY <2>1, BusyFields DEF Busies, Clean
  <2> QED
    BY <2>1, <2>2 DEF Inv, TypeOK, Bytes
<1>2. CASE Go(w, "commit") \/ Refuses(w, "provider", TRUE) \/ Refuses(w, "grant", TRUE)
  <2>1. Go(w, "commit") => Out(d)
    <3>1. ASSUME Go(w, "commit")
          PROVE  Moved(w, "commit") /\ ~Moved(w, "call") /\ ~Moved(w, "refusing")
      BY <1>1, <3>1, Moves DEF Moved, Phases
    <3>2. \/ ~Go(w, "commit")
          \/ IF row[d].channel = "email" THEN row[d].stamped ELSE copies[d]["approved"] > 0
      BY <1>1, <3>1, LookMoves, Moves DEF Phases
    <3> QED
      BY <1>1, <3>2 DEF Inv, RowInv, Out
  <2>2. Moved(w, "refusing") \/ (Moved(w, "commit") /\ Out(d))
    BY <1>1, <1>2, <2>1, Moves DEF Phases
  <2>3. \A v \in Worker : WorkerFrame(v)
    BY <1>1, <2>2, WorkerStill DEF Phases
  <2> QED
    BY <1>1, <2>3, QuietReads, QuietKeeps
<1>3. CASE Go(w, "call") /\ IF row[d].channel = "email" THEN key[d] = "fresh"
                                                         ELSE copies[d]["approved"] = 0
  <2>1. Moved(w, "call")
    BY <1>1, <1>3, Moves DEF Phases
  <2>2. UNCHANGED <<row, report, copies, late, overdue, key, fate, hooks, applied>>
    BY <1>1 DEF Reading, provider
  <2>3. \A e \in Delivery : RowInv(e)'
    BY <2>2 DEF Inv, RowInv, Out, Arrived
  <2>4. ASSUME NEW v \in Busies' PROVE WorkerInv(v)'
    <3>1. CASE v = w
      <4>1. key[d] # "gone"
        BY <1>1, <1>3 DEF Inv, RowInv
      <4>2. row[d].channel # "email" => copies[d]["approved"] <= overdue[d]
        BY <1>1, <1>3 DEF TypeOK
      <4> QED
        BY <1>1, <2>1, <2>2, <3>1, <4>1, <4>2 DEF WorkerInv, Moved, Out
    <3>2. CASE v # w
      BY <2>1, <2>2, <3>2 DEF WorkerInv, Moved, Out, Held, Inv, Busies
    <3> QED
      BY <3>1, <3>2
  <2>5. OwnFences'
    BY <1>1, <2>1, MovedFences DEF Inv, Phases
  <2>6. LateInv'
    BY <2>2 DEF LateInv, Inv
  <2> QED
    BY <2>3, <2>4, <2>5, <2>6 DEF Inv
<1> QED
  BY <1>1, <1>2, <1>3, LookMoves

LEMMA InvStep ==
    ASSUME TypeOK, Clean, Inv, [Next]_vars
    PROVE  Inv'
<1>1. TypeOK'
  BY TypeStep
<1>2. ASSUME Quiet PROVE Inv'
  BY <1>1, <1>2, QuietKeeps
<1>3. ASSUME NEW w \in Worker,
             \/ CheckReport(w) \/ CheckGrant(w) \/ CommitConflict(w) \/ Throws(w)
             \/ LeaseLost(w) \/ Crash(w) \/ Gate(w)
      PROVE  Inv'
  <2>1. worker[w] # Idle /\ Reading
    BY <1>3, ReadMoves, GateMoves
  <2>2. Stopped(w) \/ \E p \in Phases \ {"call", "stamp", "commit"} : Moved(w, p)
    BY <1>3, ReadMoves, GateMoves DEF Phases
  <2>3. \A v \in Worker : WorkerFrame(v)
    BY <2>1, <2>2, WorkerStill
  <2> QED
    BY <1>2, <2>1, <2>3, QuietReads
<1>4. ASSUME NEW d \in Delivery, NEW arm \in world.routes, Enqueue(d, arm) PROVE Inv'
  <2>1. arm \in Channels
    BY DEF TypeOK, World
  <2> QED
    BY <1>1, <1>4, <2>1, EnqueueKeeps
<1>5. ASSUME NEW w \in Worker,
             \/ ReleaseUnstarted(w) \/ Refuse(w) \/ Fail(w)
             \/ \E acked \in BOOLEAN : Stamp(w, acked) \/ Commit(w, acked)
      PROVE  Inv'
  BY <1>2, <1>5, QuietWorker
<1>6. ASSUME NEW d \in Delivery, Outside(d) PROVE Inv'
  <2>1. ASSUME NEW b \in Bytes, LandLate(d, b) PROVE Inv'
    BY <1>1, <2>1, LandLateKeeps
  <2>2. ASSUME Age(d) PROVE Inv'
    BY <1>1, <2>2, AgeKeeps
  <2> QED
    BY <1>2, <1>6, <2>1, <2>2, QuietWorld DEF Outside
<1>7. ASSUME \/ \E d \in Delivery : Expire(d) \/ Elapse(d)
             \/ Sweep
      PROVE  Inv'
  BY <1>2, <1>7, QuietClock
<1>8. ASSUME NEW w \in Worker, Step(w) PROVE Inv'
  <2>1. ASSUME NEW effect \in BOOLEAN, NEW answer \in {"ok", "error", "refused"},
               Call(w, effect, answer)
        PROVE  Inv'
    BY <1>1, <2>1, CallKeeps
  <2>2. ASSUME Look(w) \/ GiveUp(w) PROVE Inv'
    BY <1>1, <2>2, LookKeeps, GiveUpKeeps
  <2> QED
    BY <1>3, <1>5, <1>8, <2>1, <2>2 DEF Step
<1>9. ASSUME NEW w \in Worker, NEW d \in Delivery, Claim(w, d) PROVE Inv'
  BY <1>1, <1>9, ClaimKeeps
<1>10. CASE UNCHANGED vars
  BY <1>10 DEF vars, provider, Inv, RowInv, WorkerInv, OwnFences, LateInv, Busies, Out,
               Arrived, Held
<1> QED
  BY <1>3, <1>4, <1>6, <1>7, <1>8, <1>9, <1>10 DEF Next

LEMMA InvAlways == Spec => [](TypeOK /\ Clean /\ Inv)
<1>1. Init => TypeOK /\ Clean /\ Inv
  BY TypeInit, CleanInit, InvInit
<1>2. TypeOK /\ Clean /\ Inv /\ [Next]_vars => TypeOK' /\ Clean' /\ Inv'
  BY TypeStep, CleanStep, InvStep
<1> QED
  BY <1>1, <1>2, PTL DEF Spec

\* A verdict goes out once, whoever crashes, times out, takes over or retries,
\* and once more at most for each post that took effect with its caller gone:
\* "a crashed attempt cannot post twice" (worker.ts:120).
THEOREM OneCopyOnly == Spec => []AtMostOneCopy
<1>1. Inv => AtMostOneCopy
  BY DEF Inv, RowInv, AtMostOneCopy
<1> QED
  BY <1>1, InvAlways, PTL

\* A report is DELIVERED only when its comment exists or its mail arrived.
THEOREM DeliveredMeansArrived == Spec => []DeliveredIsReal
<1>1. Inv => DeliveredIsReal
  BY DEF Inv, RowInv, DeliveredIsReal
<1> QED
  BY <1>1, InvAlways, PTL

\* A bounce that reached its row stays before a human.
THEOREM BouncesStayHeld == Spec => []BounceStaysHeld
<1>1. Inv => BounceStaysHeld
  BY DEF Inv, RowInv, BounceStaysHeld
<1> QED
  BY <1>1, InvAlways, PTL

-----------------------------------------------------------------------------
(* Refinement: every step of the outbox is a step of its promise, or none. *)

Outbox == [d \in Delivery |-> row[d].state]
Approved == [d \in Delivery |-> copies[d]["approved"]]
Arrivals == {d \in Delivery : Arrived(d)}

\* Steps that move neither the copies nor what became of them.
SameMail == /\ UNCHANGED <<copies, overdue, fate>>
            /\ \A d \in Delivery : row'[d].channel = row[d].channel

LEMMA SameArrivals ==
    ASSUME SameMail
    PROVE  Approved' = Approved /\ Arrivals' = Arrivals /\ overdue' = overdue
  BY DEF SameMail, Approved, Arrivals, Arrived

LEMMA Stutters ==
    ASSUME SameMail, UNCHANGED report, \A d \in Delivery : row'[d].state = row[d].state
    PROVE  UNCHANGED Promise!vars
<1>1. Outbox' = Outbox
  BY DEF Outbox
<1> QED
  BY <1>1, SameArrivals DEF Promise!vars, Outbox, Approved, Arrivals

LEMMA FailsMany ==
    ASSUME SameMail, UNCHANGED report, NEW ds \in SUBSET Delivery,
           \A d \in ds : row[d].state # "ABSENT",
           \A d \in Delivery : row'[d].state = IF d \in ds THEN "FAILED" ELSE row[d].state
    PROVE  Promise!Next
<1>1. Promise!Fails(ds)
  BY SameArrivals DEF Promise!Fails, Outbox, Approved, Arrivals
<1> QED
  BY <1>1 DEF Promise!Next

\* One row of the outbox moves, to FAILED or from FAILED back to PENDING.
LEMMA RowMoves ==
    ASSUME SameMail, UNCHANGED report, NEW d \in Delivery, row[d].state # "ABSENT",
           \A e \in Delivery \ {d} : row'[e].state = row[e].state,
           \/ row'[d].state \in {row[d].state, "FAILED"}
           \/ row[d].state = "FAILED" /\ row'[d].state = "PENDING"
    PROVE  [Promise!Next]_(Promise!vars)
<1>1. CASE row'[d].state = row[d].state
  BY <1>1, Stutters
<1>2. CASE row'[d].state = "FAILED"
  BY <1>2, FailsMany
<1>3. CASE row[d].state = "FAILED" /\ row'[d].state = "PENDING"
  <2>1. Outbox' = [Outbox EXCEPT ![d] = "PENDING"] /\ Outbox[d] = "FAILED"
    BY <1>3 DEF Outbox
  <2>2. Promise!Reopen(d)
    BY <2>1, SameArrivals DEF Promise!Reopen, Outbox, Approved, Arrivals
  <2> QED
    BY <2>2 DEF Promise!Next
<1> QED
  BY <1>1, <1>2, <1>3

\* A mail is accepted, unless the provider recognises the key of the first.
LEMMA MailGoesOut ==
    ASSUME TypeOK, Inv, NEW d \in Delivery, row[d].state # "ABSENT",
           TakesEffect(d, "approved"), key[d] # "gone", row[d].channel = "email",
           UNCHANGED <<row, report, overdue, fate>>
    PROVE  [Promise!Next]_(Promise!vars)
<1>1. /\ copies'[d]["approved"] = 1
      /\ \A e \in Delivery \ {d} : copies'[e] = copies[e]
  BY OneCopy
<1>2. \A e \in Delivery \ {d} : Arrived(e)' <=> Arrived(e)
  BY <1>1 DEF Arrived
<1>3. Outbox' = Outbox /\ Outbox[d] # "ABSENT"
  BY DEF Outbox
<1>4. copies[d]["approved"] \in Nat /\ copies[d]["approved"] <= 1 /\ overdue[d] = 0
  BY DEF Inv, RowInv, TypeOK, Bytes
<1>5. CASE Out(d)
  <2>1. copies[d]["approved"] = 1
    BY <1>4, <1>5 DEF Out
  <2>2. Approved' = Approved
    BY <1>1, <2>1 DEF Approved
  <2>3. Arrived(d)' <=> Arrived(d)
    BY <1>1, <2>1 DEF Arrived
  <2>4. Arrivals' = Arrivals
    BY <1>2, <2>3 DEF Arrivals
  <2> QED
    BY <1>3, <2>2, <2>4 DEF Promise!vars, Outbox, Approved, Arrivals
<1>6. CASE ~Out(d)
  <2>1. copies[d]["approved"] = 0 /\ fate[d] = "none" /\ ~Arrived(d)
    BY <1>4, <1>6 DEF Out, Inv, RowInv, Arrived
  <2>2. Approved[d] = 0 /\ Approved' = [Approved EXCEPT ![d] = @ + 1]
    <3>1. \A e \in Delivery : copies'[e]["approved"] = IF e = d THEN 1 ELSE copies[e]["approved"]
      BY <1>1
    <3>2. Approved' = [Approved EXCEPT ![d] = 1] /\ Approved[d] = 0
      BY <2>1, <3>1 DEF Approved
    <3> QED
      BY <3>2
  <2>3. ~Arrived(d)'
    BY <2>1 DEF Arrived
  <2>4. Arrivals' = Arrivals
    BY <1>2, <2>1, <2>3 DEF Arrivals
  <2>5. Promise!GoOut(d, FALSE)
    BY <1>3, <1>4, <2>2, <2>4
    DEF Promise!GoOut, Promise!Another, Outbox, Approved, Arrivals
  <2> QED
    BY <2>5 DEF Promise!Next
<1> QED
  BY <1>5, <1>6

\* A post goes out, in time when nobody in time has sent one, or overdue.
LEMMA PostGoesOut ==
    ASSUME TypeOK, Inv, NEW d \in Delivery, row[d].state # "ABSENT",
           TakesEffect(d, "approved"), key[d] # "gone", row[d].channel # "email",
           \/ overdue' = overdue /\ copies[d]["approved"] <= overdue[d]
           \/ Outlives(d),
           UNCHANGED <<row, report, fate>>
    PROVE  Promise!Next
<1>1. /\ copies'[d]["approved"] = copies[d]["approved"] + 1
      /\ copies'[d]["approved"] > 0
      /\ \A e \in Delivery \ {d} : copies'[e] = copies[e]
  BY OneCopy
<1>2. Outbox' = Outbox /\ Outbox[d] # "ABSENT"
  BY DEF Outbox
<1>3. Approved' = [Approved EXCEPT ![d] = @ + 1]
  BY <1>1 DEF Approved
<1>4. Arrivals' = Arrivals \union {d}
  <2>1. \A e \in Delivery \ {d} : Arrived(e)' <=> Arrived(e)
    BY <1>1 DEF Arrived
  <2>2. Arrived(d)'
    BY <1>1 DEF Arrived
  <2> QED
    BY <2>1, <2>2 DEF Arrivals
<1>5. Promise!Another(d, TRUE)
  BY <1>2, <1>3, <1>4 DEF Promise!Another, Outbox, Approved, Arrivals
<1>6. CASE overdue' = overdue /\ copies[d]["approved"] <= overdue[d]
  <2>1. Approved[d] <= overdue[d]
    BY <1>6 DEF Approved
  <2>2. Promise!GoOut(d, TRUE)
    BY <1>5, <1>6, <2>1 DEF Promise!GoOut, Approved
  <2> QED
    BY <2>2 DEF Promise!Next
<1>7. CASE Outlives(d)
  <2>1. Promise!GoOutOverdue(d)
    BY <1>5, <1>7 DEF Promise!GoOutOverdue, Outlives
  <2> QED
    BY <2>1 DEF Promise!Next
<1> QED
  BY <1>6, <1>7

LEMMA ClosesRow ==
    ASSUME TypeOK, Inv, NEW w \in Worker, NEW acked \in BOOLEAN, Commit(w, acked)
    PROVE  Promise!Next
<1>1. PICK d \in Delivery : d = worker[w].d
  BY BusyFields DEF Commit
<1>2. /\ w \in Busies /\ WorkerInv(w) /\ row[d] \in Row /\ Unleased(row[d]) \in Row
      /\ Unleased(row[d]).channel = row[d].channel
  BY <1>1, BusyFields, RowFields, UnleasedRow DEF Commit, Idle, Busies, Inv
<1>3. row[d].state \in {"PENDING", "FAILED"}
  BY <1>1 DEF Commit, Held, Inv, RowInv
<1>4. Out(d) /\ copies[d]["approved"] > 0
  BY <1>1, <1>2 DEF Commit, WorkerInv, Out
<1>5. /\ \A e \in Delivery \ {d} : row'[e] = row[e]
      /\ row'[d] = [Unleased(row[d]) EXCEPT !.state = "SENT",
                                            !.confirmed = @ \/ CompletesReport(d)]
  BY <1>1 DEF Commit, Write, TypeOK
<1>6. row'[d].state = "SENT" /\ row'[d].channel = row[d].channel
  BY <1>2, <1>5 DEF Row
<1>7. SameMail
  BY <1>5, <1>6 DEF Commit, SameMail, provider
<1>8. Outbox' = [Outbox EXCEPT ![d] = "SENT"] /\ Outbox[d] \in {"PENDING", "FAILED"}
  BY <1>3, <1>5, <1>6 DEF Outbox
<1>9. Approved[d] > 0
  BY <1>4 DEF Approved
<1>10. /\ report' \in {report, [report EXCEPT ![d] = "DELIVERED"]}
       /\ report'[d] # report[d] => report[d] = "DELIVERING" /\ d \in Arrivals
  <2>1. CASE CompletesReport(d)
    BY <1>1, <1>4, <2>1 DEF Commit, CompletesReport, Arrivals, Arrived, Out
  <2>2. CASE ~CompletesReport(d)
    BY <1>1, <2>2 DEF Commit
  <2> QED
    BY <2>1, <2>2
<1>11. Promise!Sent(d)
  BY <1>7, <1>8, <1>9, <1>10, SameArrivals DEF Promise!Sent, Outbox, Approved, Arrivals
<1> QED
  BY <1>11 DEF Promise!Next

LEMMA EnqueuesRow ==
    ASSUME TypeOK, Inv, NEW d \in Delivery, NEW arm \in Channels, Enqueue(d, arm)
    PROVE  Promise!Next
<1> DEFINE r == [Absent EXCEPT !.state = "PENDING", !.channel = arm]
<1>1. row[d].state = "ABSENT" /\ ~Out(d) /\ ~Arrived(d)
  BY DEF Enqueue, Inv, RowInv, Out, Arrived
<1>2. /\ \A e \in Delivery \ {d} : row'[e] = row[e]
      /\ row'[d] = r
      /\ report' = [report EXCEPT ![d] = "DELIVERING"]
      /\ UNCHANGED <<copies, overdue, fate>>
  BY DEF Enqueue, Write, TypeOK, provider
<1>3. r.state = "PENDING"
  BY DEF Absent
<1> HIDE DEF r
<1>4. Outbox' = [Outbox EXCEPT ![d] = "PENDING"] /\ Outbox[d] = "ABSENT"
  BY <1>1, <1>2, <1>3 DEF Outbox
<1>5. Approved' = Approved
  BY <1>2 DEF Approved
<1>6. \A e \in Delivery : Arrived(e)' <=> Arrived(e)
  BY <1>1, <1>2 DEF Arrived, Out
<1>7. Arrivals' = Arrivals
  BY <1>6 DEF Arrivals
<1>8. Promise!Enqueue(d)
  BY <1>2, <1>4, <1>5, <1>7 DEF Enqueue, Promise!Enqueue, Outbox, Approved, Arrivals
<1> QED
  BY <1>8 DEF Promise!Next

\* The steps that end with the row as it was, or before it is tried again.
LEMMA WorkerKeepsPromise ==
    ASSUME TypeOK, Inv, NEW w \in Worker,
           ReleaseUnstarted(w) \/ Refuse(w) \/ Fail(w)
           \/ \E acked \in BOOLEAN : Stamp(w, acked)
    PROVE  [Promise!Next]_(Promise!vars)
<1>1. PICK d \in Delivery : d = worker[w].d
  BY BusyFields DEF ReleaseUnstarted, Refuse, Fail, Stamp
<1>2. /\ worker[w] # Idle /\ row[d] \in Row /\ Unleased(row[d]) \in Row
      /\ Unleased(row[d]).channel = row[d].channel /\ Unleased(row[d]).state = row[d].state
  BY RowFields, UnleasedRow DEF ReleaseUnstarted, Refuse, Fail, Stamp, Idle
<1>3. row[d].state # "ABSENT"
  BY <1>1, <1>2 DEF Inv, WorkerInv, Busies
<1>4. UNCHANGED <<report, copies, overdue, fate>>
  BY DEF ReleaseUnstarted, Refuse, Fail, Stamp, provider
<1>5. \A e \in Delivery \ {d} : row'[e] = row[e]
  BY <1>1 DEF ReleaseUnstarted, Refuse, Fail, Stamp, Write, TypeOK
<1>6. /\ row'[d].channel = row[d].channel
      /\ \/ row'[d].state \in {row[d].state, "FAILED"}
         \/ row[d].state = "FAILED" /\ row'[d].state = "PENDING"
  <2>1. CASE ReleaseUnstarted(w)
    <3>1. \/ row'[d] = row[d]
          \/ row'[d] = [Unleased(row[d]) EXCEPT !.attempts = IF @ > 0 THEN @ - 1 ELSE 0]
      BY <1>1, <2>1 DEF ReleaseUnstarted, Write, TypeOK
    <3> QED
      BY <1>2, <3>1 DEF Row
  <2>2. CASE Refuse(w)
    <3>1. row'[d] = [Unleased(row[d]) EXCEPT !.state = "FAILED", !.hold = @ \/ worker[w].hold]
      BY <1>1, <2>2 DEF Refuse, Write, TypeOK
    <3> QED
      BY <1>2, <3>1 DEF Row
  <2>3. CASE Fail(w)
    <3>1. row'[d] = [Unleased(row[d]) EXCEPT
                       !.state = IF row[d].attempts >= row[d].max THEN "FAILED" ELSE "PENDING",
                       !.backoff = TRUE]
      BY <1>1, <2>3 DEF Fail, Write, TypeOK
    <3>2. row[d].state \in {"PENDING", "FAILED"}
      BY <1>1, <2>3 DEF Fail, Held, Inv, RowInv
    <3> QED
      BY <1>2, <3>1, <3>2 DEF Row
  <2>4. ASSUME NEW acked \in BOOLEAN, Stamp(w, acked)
        PROVE  row'[d].channel = row[d].channel /\ row'[d].state = row[d].state
    <3>1. row'[d] = [row[d] EXCEPT !.stamped = TRUE]
      BY <1>1, <2>4 DEF Stamp, Write, TypeOK
    <3> QED
      BY <1>2, <3>1 DEF Row
  <2> QED
    BY <2>1, <2>2, <2>3, <2>4
<1>7. SameMail
  BY <1>4, <1>5, <1>6 DEF SameMail
<1> QED
  BY <1>3, <1>4, <1>5, <1>6, <1>7, RowMoves

LEMMA ReceiptKeepsPromise ==
    ASSUME TypeOK, Inv, NEW d \in Delivery,
           DeliveredReceipt(d) \/ \E e \in Receipts : HoldingReceipt(d, e)
    PROVE  [Promise!Next]_(Promise!vars)
<1>1. UNCHANGED <<copies, overdue, fate>> /\ row[d] \in Row /\ row[d].state # "ABSENT"
  BY RowFields DEF DeliveredReceipt, HoldingReceipt, Applies, Inv, RowInv
<1>2. ASSUME NEW e \in Receipts, HoldingReceipt(d, e) PROVE [Promise!Next]_(Promise!vars)
  <2>1. /\ \A i \in Delivery \ {d} : row'[i] = row[i]
        /\ row'[d] = [row[d] EXCEPT !.state = IF e = "bounced" THEN "FAILED" ELSE @,
                                    !.hold = TRUE]
        /\ UNCHANGED report
    BY <1>2 DEF HoldingReceipt, Write, TypeOK
  <2>2. row'[d].channel = row[d].channel /\ row'[d].state \in {row[d].state, "FAILED"}
    <3>1. CASE e = "bounced"
      BY <1>1, <2>1, <3>1 DEF Row
    <3>2. CASE e # "bounced"
      BY <1>1, <2>1, <3>2 DEF Row
    <3> QED
      BY <3>1, <3>2
  <2>3. SameMail
    BY <1>1, <2>1, <2>2 DEF SameMail
  <2> QED
    BY <1>1, <2>1, <2>2, <2>3, RowMoves
<1>3. ASSUME DeliveredReceipt(d) PROVE [Promise!Next]_(Promise!vars)
  <2>1. Arrived(d)
    BY <1>3 DEF DeliveredReceipt, Applies, Inv, RowInv, Out, Arrived
  <2>2. CASE report[d] # "DELIVERING"
    <3>1. UNCHANGED <<row, report>>
      BY <1>3, <2>2 DEF DeliveredReceipt
    <3> QED
      BY <1>1, <3>1, Stutters DEF SameMail
  <2>3. CASE report[d] = "DELIVERING"
    <3>1. /\ \A i \in Delivery \ {d} : row'[i] = row[i]
          /\ row'[d] = [row[d] EXCEPT !.confirmed = TRUE]
          /\ report' = [report EXCEPT ![d] = "DELIVERED"]
      BY <1>3, <2>3 DEF DeliveredReceipt, Write, TypeOK
    <3>2. row'[d].channel = row[d].channel /\ row'[d].state = row[d].state
      BY <1>1, <3>1 DEF Row
    <3>3. SameMail /\ Outbox' = Outbox
      BY <1>1, <3>1, <3>2 DEF SameMail, Outbox
    <3>4. d \in Arrivals
      BY <2>1 DEF Arrivals
    <3>5. Promise!Close(d)
      BY <2>3, <3>1, <3>3, <3>4, SameArrivals DEF Promise!Close, Outbox, Approved, Arrivals
    <3> QED
      BY <3>5 DEF Promise!Next
  <2> QED
    BY <2>2, <2>3
<1> QED
  BY <1>2, <1>3

LEMMA MailSettlesPromise ==
    ASSUME TypeOK, Clean, Inv, NEW d \in Delivery, NEW outcome \in {"delivered", "bounced"},
           MailSettles(d, outcome)
    PROVE  [Promise!Next]_(Promise!vars)
<1>1. copies[d]["approved"] > 0 /\ row[d].channel = "email" /\ ~Arrived(d)
  <2>1. copies[d]["altered"] = 0 /\ copies[d] \in [Bytes -> Nat]
    BY DEF Clean, OnlyApprovedBytes, TypeOK
  <2>2. copies[d]["approved"] # 0
    BY <2>1 DEF MailSettles, Bytes
  <2>3. copies[d]["approved"] \in Nat
    BY <2>1 DEF Bytes
  <2> QED
    BY <2>2, <2>3 DEF MailSettles, Arrived
<1>2. UNCHANGED <<row, report, copies, overdue>> /\ fate' = [fate EXCEPT ![d] = outcome]
  BY DEF MailSettles
<1>3. \A e \in Delivery \ {d} : Arrived(e)' <=> Arrived(e)
  BY <1>2 DEF Arrived, TypeOK
<1>4. Outbox' = Outbox /\ Approved' = Approved /\ Approved[d] > 0
  BY <1>1, <1>2 DEF Outbox, Approved
<1>5. CASE outcome = "delivered"
  <2>1. Arrived(d)'
    BY <1>1, <1>2, <1>5 DEF Arrived, TypeOK
  <2>2. Arrivals' = Arrivals \union {d}
    BY <1>3, <2>1 DEF Arrivals
  <2>3. Promise!Arrive(d)
    BY <1>2, <1>4, <2>2 DEF Promise!Arrive, Outbox, Approved, Arrivals
  <2> QED
    BY <2>3 DEF Promise!Next
<1>6. CASE outcome = "bounced"
  <2>1. ~Arrived(d)'
    BY <1>1, <1>2, <1>6 DEF Arrived, TypeOK
  <2>2. Arrivals' = Arrivals
    BY <1>1, <1>3, <2>1 DEF Arrivals
  <2> QED
    BY <1>2, <1>4, <2>2 DEF Promise!vars, Outbox, Approved, Arrivals
<1> QED
  BY <1>5, <1>6

\* The reviewer's and the operator's decisions.
LEMMA OperatorKeepsPromise ==
    ASSUME TypeOK, Inv, NEW d \in Delivery, Retry(d) \/ CancelHeld(d) \/ Retire(d)
    PROVE  [Promise!Next]_(Promise!vars)
<1>1. ASSUME Retry(d) PROVE [Promise!Next]_(Promise!vars)
  <2>1. Unleased(row[d]) \in Row /\ Unleased(row[d]).channel = row[d].channel
    BY RowFields, UnleasedRow
  <2>2. /\ row[d].state = "FAILED" /\ UNCHANGED <<report, copies, overdue, fate>>
        /\ \A e \in Delivery \ {d} : row'[e] = row[e]
        /\ row'[d] = [Unleased(row[d]) EXCEPT !.state = "PENDING", !.hold = FALSE,
                        !.backoff = FALSE, !.max = row[d].attempts + RetryBudget]
    BY <1>1 DEF Retry, Write, TypeOK, provider
  <2>3. row'[d].channel = row[d].channel /\ row'[d].state = "PENDING"
    BY <2>1, <2>2 DEF Row
  <2>4. SameMail
    BY <2>2, <2>3 DEF SameMail
  <2> QED
    BY <2>2, <2>3, <2>4, RowMoves
<1>2. ASSUME CancelHeld(d) \/ Retire(d) PROVE [Promise!Next]_(Promise!vars)
  <2>1. /\ UNCHANGED <<row, copies, overdue, fate>>
        /\ report[d] \in {"APPROVED", "DELIVERING"}
        /\ report' = [report EXCEPT ![d] = "CANCELLED"]
    BY <1>2 DEF CancelHeld, Retire, TypeOK, provider
  <2>2. SameMail /\ Outbox' = Outbox
    BY <2>1 DEF SameMail, Outbox
  <2>3. Promise!Cancel(d)
    BY <2>1, <2>2, SameArrivals DEF Promise!Cancel, Outbox, Approved, Arrivals
  <2> QED
    BY <2>3 DEF Promise!Next
<1> QED
  BY <1>1, <1>2

LEMMA PromiseStep ==
    ASSUME TypeOK, Clean, Inv, [Next]_vars
    PROVE  [Promise!Next]_(Promise!vars)
<1> DEFINE Kept == [Promise!Next]_(Promise!vars)
<1>1. ASSUME UNCHANGED <<report, copies, overdue, fate>>,
             \A d \in Delivery : row'[d].channel = row[d].channel /\ row'[d].state = row[d].state
      PROVE  Kept
  BY <1>1, Stutters DEF SameMail
<1>2. ASSUME UNCHANGED <<row, report, copies, overdue, fate>> PROVE Kept
  BY <1>1, <1>2
<1>3. ASSUME NEW d \in Delivery, NEW arm \in world.routes, Enqueue(d, arm) PROVE Kept
  <2>1. arm \in Channels
    BY DEF TypeOK, World
  <2> QED
    BY <1>3, <2>1, EnqueuesRow
<1>4. ASSUME NEW w \in Worker, NEW d \in Delivery, Claim(w, d) PROVE Kept
  <2>1. /\ \A e \in Delivery \ {d} : row'[e] = row[e]
        /\ row'[d] = [row[d] EXCEPT !.owner = OwnerOf[w], !.lease = "live",
                                    !.attempts = @ + 1, !.fence = @ + 1]
    BY <1>4 DEF Claim, Write, TypeOK
  <2>2. row'[d].channel = row[d].channel /\ row'[d].state = row[d].state
    BY <2>1, RowFields DEF Row
  <2> QED
    BY <1>1, <1>4, <2>1, <2>2 DEF Claim, provider
<1>5. ASSUME NEW w \in Worker, Step(w) \/ Crash(w) PROVE Kept
  <2>1. ASSUME CheckReport(w) \/ CheckGrant(w) \/ CommitConflict(w) \/ Throws(w)
               \/ LeaseLost(w) \/ Crash(w) \/ Gate(w) \/ Look(w)
        PROVE  Kept
    <3>1. Reading
      BY <2>1, ReadMoves, GateMoves, LookMoves
    <3> QED
      BY <1>2, <3>1 DEF Reading, provider
  <2>2. ASSUME GiveUp(w) PROVE Kept
    BY <1>2, <2>2 DEF GiveUp
  <2>3. ASSUME NEW effect \in BOOLEAN, NEW answer \in {"ok", "error", "refused"},
               Call(w, effect, answer)
        PROVE  Kept
    <3>1. PICK d \in Delivery : d = worker[w].d
      BY <2>3, BusyFields DEF Call
    <3>2. /\ w \in Busies /\ worker[w].bytes = "approved" /\ row[d].state # "ABSENT"
          /\ key[d] # "gone"
          /\ row[d].channel # "email" /\ Held(w) => copies[d]["approved"] <= overdue[d]
      BY <2>3, <3>1, BusyFields DEF Call, Idle, Busies, Clean, Inv, WorkerInv
    <3>3. UNCHANGED <<row, report, fate>>
      BY <2>3 DEF Call
    <3>4. IF effect THEN TakesEffect(d, "approved") ELSE copies' = copies
      BY <2>3, <3>1, <3>2 DEF Call
    <3>5. IF effect /\ ~Held(w) THEN Outlives(d) ELSE overdue' = overdue
      BY <2>3, <3>1 DEF Call
    <3>6. CASE effect /\ row[d].channel = "email"
      <4>1. overdue' = overdue
        BY <3>5, <3>6 DEF Outlives
      <4> QED
        BY <3>2, <3>3, <3>4, <3>6, <4>1, MailGoesOut
    <3>7. CASE effect /\ row[d].channel # "email"
      BY <3>2, <3>3, <3>4, <3>5, <3>7, PostGoesOut
    <3>8. CASE ~effect
      BY <1>2, <3>3, <3>4, <3>5, <3>8
    <3> QED
      BY <3>6, <3>7, <3>8
  <2>4. ASSUME NEW acked \in BOOLEAN, Commit(w, acked) PROVE Kept
    BY <2>4, ClosesRow
  <2>5. ASSUME ReleaseUnstarted(w) \/ Refuse(w) \/ Fail(w)
               \/ \E acked \in BOOLEAN : Stamp(w, acked)
        PROVE  Kept
    BY <2>5, WorkerKeepsPromise
  <2> HIDE DEF Kept
  <2> QED
    BY <1>5, <2>1, <2>2, <2>3, <2>4, <2>5 DEF Step
<1>6. ASSUME NEW d \in Delivery, Outside(d) PROVE Kept
  <2>1. ASSUME NEW b \in Bytes, LandLate(d, b) PROVE Kept
    <3>1. b = "approved" /\ row[d].state # "ABSENT" /\ key[d] # "gone"
      BY <2>1 DEF LandLate, Clean, Inv, LateInv
    <3>2. TakesEffect(d, "approved") /\ Outlives(d) /\ UNCHANGED <<row, report, fate>>
      BY <2>1, <3>1 DEF LandLate
    <3>3. CASE row[d].channel = "email"
      <4>1. overdue' = overdue
        BY <3>2, <3>3 DEF Outlives
      <4> QED
        BY <3>1, <3>2, <3>3, <4>1, MailGoesOut
    <3>4. CASE row[d].channel # "email"
      BY <3>1, <3>2, <3>4, PostGoesOut
    <3> QED
      BY <3>3, <3>4
  <2>2. ASSUME NEW outcome \in {"delivered", "bounced"}, MailSettles(d, outcome) PROVE Kept
    BY <2>2, MailSettlesPromise
  <2>3. ASSUME Complain(d) \/ Alter(d) \/ Age(d) \/ (\E e \in Receipts : UnmatchedReceipt(d, e))
               \/ \E to \in {"granted", "unseen", "revoked"} : Regrant(d, to)
        PROVE  Kept
    BY <1>2, <2>3 DEF Complain, Alter, Age, UnmatchedReceipt, Regrant, provider
  <2>4. ASSUME DeliveredReceipt(d) \/ \E e \in Receipts : HoldingReceipt(d, e) PROVE Kept
    BY <2>4, ReceiptKeepsPromise
  <2>5. ASSUME Retry(d) \/ CancelHeld(d) \/ Retire(d) PROVE Kept
    BY <2>5, OperatorKeepsPromise
  <2> HIDE DEF Kept
  <2> QED
    BY <1>6, <2>1, <2>2, <2>3, <2>4, <2>5 DEF Outside
<1>7. ASSUME NEW d \in Delivery, Expire(d) \/ Elapse(d) PROVE Kept
  <2>1. /\ \A e \in Delivery \ {d} : row'[e] = row[e]
        /\ \/ row'[d] = [row[d] EXCEPT !.lease = "expired"]
           \/ row'[d] = [row[d] EXCEPT !.backoff = FALSE]
    BY <1>7 DEF Expire, Elapse, Write, TypeOK
  <2>2. row'[d].channel = row[d].channel /\ row'[d].state = row[d].state
    BY <2>1, RowFields DEF Row
  <2> QED
    BY <1>1, <1>7, <2>1, <2>2 DEF Expire, Elapse, Leasing, provider
<1>8. ASSUME NEW d \in Delivery
      PROVE  LET u == Unleased(row[d])
                 f == [u EXCEPT !.state = "FAILED"] IN
             /\ u.channel = row[d].channel /\ u.state = row[d].state
             /\ f.channel = row[d].channel /\ f.state = "FAILED"
  <2>1. /\ Unleased(row[d]) \in Row /\ Unleased(row[d]).channel = row[d].channel
        /\ Unleased(row[d]).state = row[d].state
    BY RowFields, UnleasedRow
  <2> QED
    BY <2>1 DEF Row
<1>9. ASSUME SweepBury PROVE Kept
  <2>1. PICK ds \in SUBSET Delivery :
           ds = {d \in Delivery : Dead(d) /\ row[d].attempts >= row[d].max}
    OBVIOUS
  <2>2. \A d \in Delivery : /\ row'[d].channel = row[d].channel
                            /\ row'[d].state = IF d \in ds THEN "FAILED" ELSE row[d].state
    BY <1>8, <1>9, <2>1 DEF SweepBury
  <2>3. \A d \in ds : row[d].state # "ABSENT"
    BY <2>1 DEF Dead
  <2>4. SameMail /\ UNCHANGED report
    BY <1>9, <2>2 DEF SameMail, SweepBury, Leasing, provider
  <2> QED
    BY <2>2, <2>3, <2>4, FailsMany
<1>10. ASSUME SweepRelease PROVE Kept
  <2>1. \A d \in Delivery : row'[d].channel = row[d].channel /\ row'[d].state = row[d].state
    BY <1>8, <1>10 DEF SweepRelease
  <2> QED
    BY <1>1, <1>10, <2>1 DEF SweepRelease, Leasing, provider
<1>11. CASE UNCHANGED vars
  BY <1>2, <1>11 DEF vars, provider
<1> HIDE DEF Kept
<1>12. ASSUME Next PROVE Kept
  BY <1>3, <1>4, <1>5, <1>6, <1>7, <1>9, <1>10, <1>12 DEF Next, Sweep
<1> QED
  BY <1>11, <1>12 DEF Kept

(***************************************************************************)
(* The outbox keeps its promise, for any verdicts, workers, owners,        *)
(* attempts and settings, and however late a call lands.                   *)
(***************************************************************************)
THEOREM OutboxKeepsPromise == Spec => KeepsPromise
<1>1. Init => Promise!Init
  <2>1. ASSUME Init PROVE Promise!Init
    <3>1. \A d \in Delivery : row[d].state = "ABSENT" /\ copies[d]["approved"] = 0
      BY <2>1 DEF Init, Absent, Bytes
    <3>2. Arrivals = {}
      BY <3>1 DEF Arrivals, Arrived
    <3> QED
      BY <2>1, <3>1, <3>2 DEF Init, Promise!Init, Arrivals
  <2> QED
    BY <2>1
<1>2. TypeOK /\ Clean /\ Inv /\ [Next]_vars => [Promise!Next]_(Promise!vars)
  BY PromiseStep
<1> QED
  BY <1>1, <1>2, InvAlways, PTL DEF Spec, KeepsPromise, Promise!Spec

=============================================================================
