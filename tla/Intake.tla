-------------------------------- MODULE Intake --------------------------------
(***************************************************************************)
(* How a report gets in from outside: the Resend webhook                   *)
(* (app/api/intake/email), the screening of mail from senders nobody       *)
(* listed (lib/email/outside-intake.ts) and the public upload form         *)
(* (lib/upload/intake.ts).  The rows themselves are the count the daily    *)
(* limits are taken from.  A transaction counts and inserts under an       *)
(* advisory lock: one per sender's domain for mail, one for all uploads.   *)
(***************************************************************************)
EXTENDS Naturals, FiniteSets

CONSTANTS
    Item,           \* messages and uploads
    Sent,           \* what each of them is
    Handler,        \* requests being handled at once
    Exempt,         \* domains many unrelated senders share
    AddressCap,     \* UPLOAD_LIMITS.perAddressPerDay
    IntakeWorlds    \* bound: the settings a run combines (see IntakeWorld)

\* key: the mailbox, however it is spelled; proven: SPF, DKIM and alignment;
\* big: fits only when the owner has raised the size cap; listed: its sender
\* is a reviewer.
ItemKind == [channel : {"email", "upload"}, key : STRING, domain : STRING, address : STRING,
             proven : BOOLEAN, big : BOOLEAN, listed : BOOLEAN]

\* What is sent, how many limits the owner edits, and how often a request
\* dies, the provider delivers a message again unasked, or a day passes.
IntakeWorld == [items : SUBSET Item, edits : Nat, crashes : Nat, again : Nat, days : Nat]

ASSUME SentAssumption == Sent \in [Item -> ItemKind]
ASSUME IntakeWorldAssumption == IntakeWorlds \subseteq IntakeWorld
ASSUME HandlerAssumption == "free" \notin Handler
ASSUME AddressCapAssumption == AddressCap \in Nat

Config == [sender : Nat \ {0}, domain : Nat \ {0}, roomy : BOOLEAN]

VARIABLES
    row,        \* the inbound_job row of a message, the upload_intake of an upload
    old,        \* items whose row is more than a day old
    config,     \* outside_intake_config
    handler,    \* each request's next step and what it has read
    lock,       \* who holds the advisory lock of each name
    due,        \* what is still to be delivered
    notices,    \* senders told their message was too large, by message
    most,       \* history: the highest limits in force so far
    intake      \* the setting, with the events still to happen

intakeVars == <<row, old, config, handler, lock, due, notices, most, intake>>

Idle == [phase |-> "idle"]
At(h, phase) == handler[h].phase = phase
Goes(h, phase) == handler' = [handler EXCEPT ![h].phase = phase]
Ends(h) == handler' = [handler EXCEPT ![h] = Idle]
Of(h) == Sent[handler[h].item]
Spends(field) == intake[field] > 0 /\ intake' = [intake EXCEPT ![field] = @ - 1]

Locks == {Sent[i].domain : i \in Item} \union {"uploads"}

\* Mutant: uploads serialised by domain, as mail is.
LockOf_Domain(i) == Sent[i].domain

\* outside-email:<domain> or upload-intake
LockOf(i) == IF Sent[i].channel = "upload" THEN "uploads" ELSE Sent[i].domain

IntakeInit ==
    /\ intake \in IntakeWorlds
    /\ row = [i \in Item |-> "none"]
    /\ old = {}
    /\ config = [sender |-> 1, domain |-> 1, roomy |-> FALSE]
    /\ handler = [h \in Handler |-> Idle]
    /\ lock = [l \in Locks |-> "free"]
    /\ due = intake.items
    /\ notices = {}
    /\ most = [sender |-> 1, domain |-> 1]

-----------------------------------------------------------------------------
(* The count and the limits. *)

\* Rows of the last day that spent a slot, this item's own row apart.
\* A listed sender's row carries no outside marker.
Recent(i) == {j \in Item \ (old \union {i}) : /\ row[j] \in {"queued", "dropped"}
                                              /\ Sent[j].channel = Sent[i].channel}

OverLimit(i, limits) ==
    \/ Cardinality({j \in Recent(i) : Sent[j].key = Sent[i].key}) >= limits.sender
    \/ /\ Sent[i].domain \notin Exempt
       /\ Cardinality({j \in Recent(i) : Sent[j].domain = Sent[i].domain}) >= limits.domain

\* admitUpload() counts the client's address too.
AddressOver(i) ==
    /\ Sent[i].channel = "upload"
    /\ Cardinality({j \in Recent(i) : Sent[j].address = Sent[i].address}) >= AddressCap

TooLarge(i, limits) == Sent[i].big /\ ~limits.roomy

-----------------------------------------------------------------------------
(* One request. *)

Deliver(h, i) ==
    /\ handler' = [handler EXCEPT ![h] = [phase |-> "read", item |-> i, limits |-> config]]
    /\ due' = due \ {i}

\* The webhook or the form arrives: a listed sender's message is queued at
\* once, an upload is parsed, an outside message is counted before it is
\* fetched.  enqueue() leaves an existing row as it is.
Arrive(h, i) ==
    /\ handler[h] = Idle
    /\ IF i \in due THEN UNCHANGED intake
                    ELSE i \in intake.items /\ Sent[i].channel = "email" /\ Spends("again")
    /\ \/ /\ Sent[i].listed
          /\ row' = [row EXCEPT ![i] = IF @ = "none" THEN "listed" ELSE @]
          /\ due' = due \ {i}
          /\ UNCHANGED handler
       \/ /\ ~Sent[i].listed
          /\ Deliver(h, i)
          /\ UNCHANGED row
    /\ UNCHANGED <<old, config, lock, notices, most>>

\* parseUploadForm: a body over the cap is refused before any count.
ParseForm(h) ==
    /\ At(h, "read") /\ Of(h).channel = "upload"
    /\ IF TooLarge(handler[h].item, handler[h].limits) THEN Ends(h) ELSE Goes(h, "lock")
    /\ UNCHANGED <<row, old, config, lock, due, notices, most, intake>>

\* The early count: a flood costs a count, not a fetch each.
CountEarly(h) ==
    /\ At(h, "read") /\ Of(h).channel = "email"
    /\ IF OverLimit(handler[h].item, handler[h].limits) THEN Ends(h) ELSE Goes(h, "fetch")
    /\ UNCHANGED <<row, old, config, lock, due, notices, most, intake>>

\* The message and its headers are fetched: what is not proven is dropped.
Fetch(h) ==
    /\ At(h, "fetch")
    /\ IF Of(h).proven THEN Goes(h, "lock") ELSE Ends(h)
    /\ UNCHANGED <<row, old, config, lock, due, notices, most, intake>>

\* Resend does not answer (503), or the process dies; a transaction rolls back
\* and frees its lock.  The provider delivers the message again.
Dies(h) ==
    /\ handler[h] # Idle
    /\ Spends("crashes")
    /\ Ends(h)
    /\ due' = IF Of(h).channel = "email" THEN due \union {handler[h].item} ELSE due
    /\ lock' = [l \in Locks |-> IF lock[l] = h THEN "free" ELSE lock[l]]
    /\ UNCHANGED <<row, old, config, notices, most>>

\* The transaction takes its lock and counts what is committed by then.
Count(h) ==
    /\ At(h, "lock")
    /\ LET i == handler[h].item IN
         /\ lock[LockOf(i)] = "free"
         /\ IF OverLimit(i, handler[h].limits) \/ AddressOver(i)
            THEN Ends(h) /\ UNCHANGED lock
            ELSE Goes(h, "insert") /\ lock' = [lock EXCEPT ![LockOf(i)] = h]
    /\ UNCHANGED <<row, old, config, due, notices, most, intake>>

\* It inserts and commits.  A message over the size cap spends a terminal row.
Insert(h) ==
    /\ At(h, "insert")
    /\ LET i == handler[h].item
           dropped == Sent[i].channel = "email" /\ TooLarge(i, handler[h].limits)
       IN /\ row' = [row EXCEPT ![i] = IF @ # "none" THEN @
                                       ELSE IF dropped THEN "dropped" ELSE "queued"]
          /\ lock' = [lock EXCEPT ![LockOf(i)] = "free"]
          /\ IF dropped THEN Goes(h, "notify") ELSE Ends(h)
    /\ UNCHANGED <<old, config, due, notices, most, intake>>

\* The notice goes out after the commit; a failed send is swallowed.
Notify(h) ==
    /\ At(h, "notify")
    /\ notices' \in {notices, notices \union {handler[h].item}}
    /\ Ends(h)
    /\ UNCHANGED <<row, old, config, lock, due, most, intake>>

-----------------------------------------------------------------------------

\* upsertOutsideConfig: requests under way keep the limits they read.
EditConfig ==
    /\ Spends("edits")
    /\ \E limits \in [sender : 1 .. 2, domain : 1 .. 2, roomy : BOOLEAN] :
         /\ config' = limits
         /\ most' = [sender |-> IF limits.sender > most.sender THEN limits.sender ELSE most.sender,
                     domain |-> IF limits.domain > most.domain THEN limits.domain ELSE most.domain]
    /\ UNCHANGED <<row, old, handler, lock, due, notices>>

DayPasses ==
    /\ Spends("days")
    /\ old' = {i \in Item : row[i] # "none"}
    /\ UNCHANGED <<row, config, handler, lock, due, notices, most>>

Handle(h) == \/ ParseForm(h) \/ CountEarly(h) \/ Fetch(h) \/ Count(h) \/ Insert(h) \/ Notify(h)

IntakeNext == \/ \E h \in Handler : \/ \E i \in Item : Arrive(h, i)
                                    \/ Handle(h)
                                    \/ Dies(h)
              \/ EditConfig
              \/ DayPasses

IntakeSpec == IntakeInit /\ [][IntakeNext]_intakeVars

-----------------------------------------------------------------------------

IntakeTypeOK ==
    /\ row \in [Item -> {"none", "listed", "queued", "dropped"}]
    /\ old \subseteq Item /\ due \subseteq Item /\ notices \subseteq Item
    /\ config \in Config
    /\ \A h \in Handler : handler[h] # Idle =>
         /\ handler[h].phase \in {"read", "fetch", "lock", "insert", "notify"}
         /\ handler[h].item \in Item /\ handler[h].limits \in Config
    /\ \A l \in Locks : lock[l] = "free" \/ lock[l] \in Handler

Spending(channel) == {i \in Item \ old : /\ row[i] \in {"queued", "dropped"}
                                         /\ Sent[i].channel = channel}

(***************************************************************************)
(* admitOutsideEmail, dropOversized and admitUpload: however many requests *)
(* arrive together, die and come again, no domain and no client address    *)
(* spends more slots in a day than its limit, and no mailbox does, through *)
(* the form or from one domain.                                            *)
(***************************************************************************)
CapsHold ==
    /\ \A channel \in {"email", "upload"}, i \in Item :
         /\ Sent[i].domain \notin Exempt =>
              Cardinality({j \in Spending(channel) : Sent[j].domain = Sent[i].domain}) <= most.domain
         /\ Cardinality({j \in Spending(channel) : /\ Sent[j].key = Sent[i].key
                                                   /\ Sent[j].domain = Sent[i].domain}) <= most.sender
    /\ \A i \in Item :
         /\ Cardinality({j \in Spending("upload") : Sent[j].key = Sent[i].key}) <= most.sender
         /\ Cardinality({j \in Spending("upload") : Sent[j].address = Sent[i].address}) <= AddressCap

=============================================================================
