----------------------------- MODULE ScopeGuard -----------------------------
(***************************************************************************)
(* The scope-guard tools: app/api/mcp/scope-guard/route.ts with scope.ts,  *)
(* scope-profile.ts, grants.ts, egress.ts and audit.ts under lib/.         *)
(*                                                                         *)
(* Every call loads the scope of the one bound profile into memory, works  *)
(* on that copy, and at the end appends to the audit log in a transaction  *)
(* of its own.  A mutation holds the profile's row while it works; a read  *)
(* holds nothing, and if an entry lapses under it writes the pruned copy   *)
(* back without waiting, guarded by the row's updated_at.                  *)
(*                                                                         *)
(* Abstractions.  A host is a name or an address of Width bits; what a     *)
(* name is by its spelling is ClassOf.  Ports, wildcards, IPv6 and blocks  *)
(* of one address are left out, and so is the binding of a probe to the    *)
(* profile's baseUrl.  Two writes of a row never share a millisecond, as   *)
(* makePersist() assumes.  The human decision the harness asks for has     *)
(* been made when a call that needs it arrives.                            *)
(***************************************************************************)
EXTENDS Naturals, Sequences, FiniteSets

CONSTANTS
    Call,           \* tool calls
    NameClass,      \* classify() of the host names
    Width,          \* bits of an address: 32 in the code
    Banned,         \* BANNED_V4_CIDRS: base and number of bits that count
    AddressClass,   \* classify() of the addresses outside those blocks
    MaxTemporary,   \* MAX_TEMPORARY
    Worlds,         \* the calls made and the profile they find
    None

Name == DOMAIN NameClass
Bits == [1..Width -> {0, 1}]
Address == Bits \X {Width}
Block == Bits \X (0..(Width - 1))
Host == Name \union Address
Entry == Host \union Block

Hard == {"cloud_metadata", "link_local", "reserved"}
Class == Hard \union {"public", "private", "loopback"}
Verdicts == {"mutated", "allowed", "denied"}

Tools == {"scope_add", "scope_add_temporary", "scope_remove", "scope_check", "probe",
          "request_intrusive_approval", "verify_grant"}

\* A tool call names a host, and a mutation possibly a block; verify_grant
\* carries a token, a probe may.
IsRequest(a) == /\ a.tool \in Tools /\ a.arg \in Entry /\ a.writes \in BOOLEAN
                /\ a.token \in Call \union {None}
                /\ a.tool \in {"scope_check", "probe", "request_intrusive_approval"} => a.arg \in Host
                /\ a.tool = "verify_grant" => a.token \in Call

ASSUME ScopeAssumption ==
    /\ IsFiniteSet(Call) /\ None \notin Call \union Entry \union Verdicts
    /\ Width \in Nat /\ Banned \subseteq Bits \X (0..Width)
    /\ NameClass \in [Name -> Class] /\ Name \cap (Address \union Block) = {}
    /\ AddressClass \in [Address -> Class]
    /\ \A w \in Worlds : /\ w.allow \subseteq Entry
                          /\ w.temp \subseteq [entry : Entry, by : {None}]
                          /\ \A c \in Call : IsRequest(w.calls[c])

VARIABLES
    profile,    \* scope_rules and updated_at of the bound target profile
    rowLock,    \* the mutation that holds the profile's row
    saves,      \* writes of a pruned copy nobody waits for
    lapsed,     \* temporary entries whose time is over
    grant,      \* scope_guard_grant: per minting call, its two rows and their lock
    log,        \* scope_guard_audit
    chainLock,  \* the advisory lock
    call

scopeVars == <<profile, rowLock, saves, lapsed, grant, log, chainLock, call>>

-----------------------------------------------------------------------------
(* What an entry covers and who may be reached.                            *)

\* cidrContains()
Contains(block, a) == \A i \in 1..block[2] : block[1][i] = a[1][i]

\* cidrOverlaps(): the wider of the two masks.
Overlaps(b, c) == \A i \in 1..(IF b[2] <= c[2] THEN b[2] ELSE c[2]) : b[1][i] = c[1][i]

IsBlock(e) == e \in Block

\* classify()
ClassOf(h) == IF h \in Name THEN NameClass[h]
              ELSE IF \E b \in Banned : Contains(b, h) THEN "reserved"
              ELSE AddressClass[h]

\* classify() of an entry: it reads no block, and what it cannot read is public.
EntryClass(e) == IF IsBlock(e) THEN "public" ELSE ClassOf(e)

\* validateEntry(): a block by what it overlaps, anything else by its class.
Acceptable(e) == IF IsBlock(e) THEN \A b \in Banned : ~Overlaps(e, b)
                 ELSE ClassOf(e) \notin Hard

\* matches()
Matches(e, h) == IF IsBlock(e) THEN h \in Address /\ Contains(e, h) ELSE e = h

\* The class guards of check() on what a name resolves to.
Agree(h, answers) ==
    LET found == {ClassOf(a) : a \in answers} IN
    /\ answers # {}
    /\ found \cap Hard = {}
    /\ ClassOf(h) = "public" => found \cap {"private", "loopback"} = {}
    /\ ClassOf(h) \in {"private", "loopback"} => "public" \notin found

-----------------------------------------------------------------------------
(* Calls.                                                                  *)

Mutations == {"scope_add", "scope_add_temporary", "scope_remove"}
Checks == {"scope_check", "probe", "request_intrusive_approval"}

Phases == {"start", "apply", "check", "lookup", "mint", "authorize", "verify", "consume",
           "dial", "audit", "append", "answered", "failed", "dead"}

\* A temporary entry, and a copy of the scope in memory.
Temporary == [entry : Entry, by : Call \union {None}]
Copies == [allow : SUBSET Entry, temp : SUBSET Temporary]

NewCall(a) == [tool |-> a.tool, arg |-> a.arg, writes |-> a.writes, token |-> a.token,
               phase |-> "start", mem |-> None, seen |-> 0, by |-> None, pin |-> None,
               dialed |-> None, verdict |-> None, tail |-> 0]

NoGrant == [target |-> None, over |-> FALSE, used |-> FALSE, lock |-> None]

ScopeInit ==
    \E w \in Worlds :
        /\ profile = [allow |-> w.allow, temp |-> w.temp, at |-> 0]
        /\ call = [c \in Call |-> NewCall(w.calls[c])]
        /\ rowLock = None /\ chainLock = None
        /\ saves = {} /\ lapsed = {} /\ log = <<>>
        /\ grant = [c \in Call |-> NoGrant]

Set(c, r) == call' = [call EXCEPT ![c] = r]
Go(c, phase) == Set(c, [call[c] EXCEPT !.phase = phase])
Decide(c, verdict) == Set(c, [call[c] EXCEPT !.phase = "audit", !.verdict = verdict])
Live(temp) == temp \ lapsed

\* stateFromRaw(): what fails the checks of add(), or of addTemporary(), which
\* asks no block what it overlaps, or has lapsed is dropped.
Sanitized == [allow |-> {e \in profile.allow : Acceptable(e)},
              temp |-> {t \in Live(profile.temp) : EntryClass(t.entry) = "public"}]

-----------------------------------------------------------------------------
(* withScopeProfile(true): one transaction on a locked row.                *)

LockRow(c) == /\ call[c].phase = "start" /\ call[c].tool \in Mutations
              /\ rowLock = None
              /\ rowLock' = c
              /\ Set(c, [call[c] EXCEPT !.phase = "apply", !.mem = Sanitized, !.seen = profile.at])
              /\ UNCHANGED <<profile, saves, lapsed, grant, log, chainLock>>

\* makePersist(): the row is written if it is the one that was read.
Persist(row, mem, seen) == IF row.at # seen THEN row
                           ELSE [allow |-> mem.allow, temp |-> mem.temp, at |-> row.at + 1]

\* Scope.add(), addTemporary() and remove() on the copy in memory.
Added(c) == LET m == call[c].mem e == call[c].arg IN
            [ok |-> Acceptable(e) /\ e \notin m.allow,
             row |-> Persist(profile, [m EXCEPT !.allow = @ \union {e}], call[c].seen)]

Removed(c) == LET m == call[c].mem e == call[c].arg IN
              [ok |-> e \in m.allow \/ \E t \in m.temp : t.entry = e,
               row |-> Persist(profile, [allow |-> m.allow \ {e}, temp |-> {t \in m.temp : t.entry # e}],
                               call[c].seen)]

\* pruneTemporary() may save first; the second save then finds another row.
TemporarilyAdded(c) ==
    LET m == [call[c].mem EXCEPT !.temp = Live(@)]
        e == call[c].arg
        pruned == IF m = call[c].mem THEN profile ELSE Persist(profile, m, call[c].seen)
    IN  IF /\ EntryClass(e) = "public"
           /\ Cardinality(m.temp) < MaxTemporary
           /\ e \notin m.allow /\ \A t \in m.temp : t.entry # e
        THEN [ok |-> TRUE,
              row |-> Persist(pruned, [m EXCEPT !.temp = @ \union {[entry |-> e, by |-> c]}], call[c].seen)]
        ELSE [ok |-> FALSE, row |-> pruned]

Apply(c) ==
    LET r == CASE call[c].tool = "scope_add"           -> Added(c)
               [] call[c].tool = "scope_remove"        -> Removed(c)
               [] call[c].tool = "scope_add_temporary" -> TemporarilyAdded(c)
    IN  /\ call[c].phase = "apply"
        /\ profile' = IF r.ok \/ call[c].tool = "scope_add_temporary" THEN r.row ELSE profile
        /\ rowLock' = None
        /\ Decide(c, IF r.ok THEN "mutated" ELSE "denied")
        /\ UNCHANGED <<saves, lapsed, grant, log, chainLock>>

-----------------------------------------------------------------------------
(* withScopeProfile(false) and Scope.check().                              *)

Load(c) == /\ call[c].phase = "start" /\ call[c].tool \in Checks
           /\ Set(c, [call[c] EXCEPT !.phase = "check", !.mem = Sanitized, !.seen = profile.at])
           /\ UNCHANGED <<profile, rowLock, saves, lapsed, grant, log, chainLock>>

\* Where an allowed check goes on.
AfterCheck(c) == CASE call[c].tool = "scope_check" -> "audit"
                   [] call[c].tool = "probe"       -> "authorize"
                   [] OTHER                        -> "mint"

Allow(c, entry, address) ==
    Set(c, [call[c] EXCEPT !.phase = AfterCheck(c), !.by = entry, !.pin = address, !.verdict = "allowed"])

\* pruneTemporary(), the match, and the answer where no name is resolved.
Check(c) ==
    LET h == call[c].arg
        m == [call[c].mem EXCEPT !.temp = Live(@)]
        named == {e \in m.allow : Matches(e, h)}
        found == IF named # {} THEN named ELSE {t.entry : t \in {u \in m.temp : Matches(u.entry, h)}}
    IN  /\ call[c].phase = "check"
        /\ IF ClassOf(h) \in Hard THEN Decide(c, "denied") /\ UNCHANGED saves
           ELSE /\ saves' = IF m = call[c].mem THEN saves
                            ELSE saves \union {[by |-> c, mem |-> m, seen |-> call[c].seen]}
                /\ CASE found = {}     -> Decide(c, "denied")
                     [] found # {} /\ h \in Address -> \E e \in found : Allow(c, e, h)
                     [] OTHER          -> Set(c, [call[c] EXCEPT !.phase = "lookup", !.by = h])
        /\ UNCHANGED <<profile, rowLock, lapsed, grant, log, chainLock>>

\* The resolver answers what it likes, or throws.
Lookup(c) ==
    /\ call[c].phase = "lookup"
    /\ \E answers \in SUBSET Address :
          /\ Cardinality(answers) <= 2
          /\ IF Agree(call[c].arg, answers)
             THEN \E a \in answers : Allow(c, call[c].by, a)
             ELSE Decide(c, "denied")
    /\ UNCHANGED <<profile, rowLock, saves, lapsed, grant, log, chainLock>>

\* The write of a pruned copy reaches the row once nobody holds it.
Land(s) == /\ rowLock = None
           /\ saves' = saves \ {s}
           /\ profile' = Persist(profile, s.mem, s.seen)
           /\ UNCHANGED <<rowLock, lapsed, grant, log, chainLock, call>>

-----------------------------------------------------------------------------
(* Grants and probes.                                                      *)

\* mint(), once the target was found in scope again.
Mint(c) == /\ call[c].phase = "mint"
           /\ grant' = [grant EXCEPT ![c].target = call[c].arg]
           /\ Go(c, "audit")
           /\ UNCHANGED <<profile, rowLock, saves, lapsed, log, chainLock>>

\* Mutant: a grant is asked for when the caller sends one.
NeedsGrant_IfSent(c) == call[c].writes /\ call[c].token # None

\* authorizeConnect(): only what writes needs a grant.
NeedsGrant(c) == call[c].writes

Authorize(c) == /\ call[c].phase = "authorize"
                /\ IF ~NeedsGrant(c) THEN Go(c, "dial")
                   ELSE IF call[c].token = None THEN Decide(c, "denied")
                   ELSE Go(c, "verify")
                /\ UNCHANGED <<profile, rowLock, saves, lapsed, grant, log, chainLock>>

Present(c) == /\ call[c].phase = "start" /\ call[c].tool = "verify_grant"
              /\ Go(c, "verify")
              /\ UNCHANGED <<profile, rowLock, saves, lapsed, grant, log, chainLock>>

\* verify(): the issued row is locked; expiry and the target are looked at first.
LockGrant(c) ==
    LET k == call[c].token
    IN  /\ call[c].phase = "verify"
        /\ grant[k].lock = None
        /\ IF grant[k].target # call[c].arg \/ grant[k].over
           THEN Decide(c, "denied") /\ UNCHANGED grant
           ELSE grant' = [grant EXCEPT ![k].lock = c] /\ Go(c, "consume")
        /\ UNCHANGED <<profile, rowLock, saves, lapsed, log, chainLock>>

Consume(c) ==
    LET k == call[c].token
    IN  /\ call[c].phase = "consume"
        /\ grant' = [grant EXCEPT ![k].used = TRUE, ![k].lock = None]
        /\ IF grant[k].used THEN Decide(c, "denied")
           ELSE IF call[c].tool = "probe" THEN Go(c, "dial")
           ELSE Decide(c, "allowed")
        /\ UNCHANGED <<profile, rowLock, saves, lapsed, log, chainLock>>

\* httpProbe() and tcpProbe(): the pinned address answers or does not.
Dial(c) ==
    /\ call[c].phase = "dial"
    /\ \E verdict \in {"allowed", "denied"} :
          Set(c, [call[c] EXCEPT !.phase = "audit", !.dialed = call[c].pin, !.verdict = verdict])
    /\ UNCHANGED <<profile, rowLock, saves, lapsed, grant, log, chainLock>>

-----------------------------------------------------------------------------
(* append(), and what may happen at any time.                              *)

LockChain(c) == /\ call[c].phase = "audit"
                /\ chainLock = None
                /\ chainLock' = c
                /\ Set(c, [call[c] EXCEPT !.phase = "append", !.tail = Len(log)])
                /\ UNCHANGED <<profile, rowLock, saves, lapsed, grant, log>>

\* The unique index on seq refuses a second row of one number.
Append_(c) == /\ call[c].phase = "append"
              /\ chainLock' = None
              /\ IF Len(log) > call[c].tail THEN Go(c, "failed") /\ UNCHANGED log
                 ELSE /\ log' = Append(log, [by |-> c, verdict |-> call[c].verdict])
                      /\ Go(c, "answered")
              /\ UNCHANGED <<profile, rowLock, saves, lapsed, grant>>

Over(c) == call[c].phase \in {"answered", "failed", "dead"}

\* The process of a call dies: its transactions roll back, its save is lost.
Crash(c) == /\ ~Over(c)
            /\ \A d \in Call : call[d].phase # "dead"
            /\ Go(c, "dead")
            /\ rowLock' = IF rowLock = c THEN None ELSE rowLock
            /\ chainLock' = IF chainLock = c THEN None ELSE chainLock
            /\ saves' = {s \in saves : s.by # c}
            /\ grant' = [k \in Call |-> IF grant[k].lock = c THEN [grant[k] EXCEPT !.lock = None] ELSE grant[k]]
            /\ UNCHANGED <<profile, lapsed, log>>

Lapse == \/ \E t \in Live(profile.temp) :
               /\ lapsed' = lapsed \union {t}
               /\ UNCHANGED grant
         \/ \E k \in Call :
               /\ grant[k].target # None /\ ~grant[k].over
               /\ grant' = [grant EXCEPT ![k].over = TRUE]
               /\ UNCHANGED lapsed

Step(c) == \/ LockRow(c) \/ Apply(c)
           \/ Load(c) \/ Check(c) \/ Lookup(c)
           \/ Mint(c) \/ Present(c) \/ Authorize(c) \/ LockGrant(c) \/ Consume(c) \/ Dial(c)
           \/ LockChain(c) \/ Append_(c)

ScopeNext == \/ \E c \in Call : Step(c) \/ Crash(c)
             \/ \E s \in saves : Land(s)
             \/ Lapse /\ UNCHANGED <<profile, rowLock, saves, log, chainLock, call>>

ScopeSpec == ScopeInit /\ [][ScopeNext]_scopeVars

-----------------------------------------------------------------------------
(* Properties.                                                             *)

\* A target is written to at most once for every time a human approved it.
OneWritePerApproval ==
    \A h \in {call[c].arg : c \in Call} :
        Cardinality({c \in Call : call[c].dialed # None /\ call[c].writes /\ call[c].arg = h})
            <= Cardinality({k \in Call : grant[k].target = h})

\* Whatever the resolver answers and whenever, what is dialed is neither
\* hard-denied nor of another kind than the name that was in scope.
JudgedIsDialed ==
    \A c \in Call : call[c].dialed # None =>
        /\ ClassOf(call[c].dialed) \notin Hard
        /\ call[c].arg \in Address => call[c].dialed = call[c].arg
        /\ ClassOf(call[c].arg) = "public" <=> ClassOf(call[c].dialed) = "public"

\* A permanent entry comes and goes with the mutation that names it: a copy
\* read earlier and written back late erases and restores nothing.
PruneErasesNothing ==
    \A e \in (profile.allow \ profile'.allow) \union (profile'.allow \ profile.allow) :
       \/ ~Acceptable(e)
       \/ \E c \in Call : /\ call[c].phase = "apply" /\ call'[c].phase = "audit"
                          /\ call[c].arg = e

\* A mutation that was made is in the audit log once its call is over, unless
\* the process died between the two.
MutationIsLogged ==
    \A c \in Call : call[c].verdict = "mutated" /\ Over(c) /\ call[c].phase # "dead"
                        => \E i \in DOMAIN log : log[i] = [by |-> c, verdict |-> "mutated"]

\* No permanent block that holds a banned address allows anything, also when the
\* stored row has one; a temporary one may, and what any block allows is itself
\* never banned (check()).
MatchIsAcceptable ==
    \A c \in Call : call[c].by # None /\ IsBlock(call[c].by) =>
        /\ \A b \in Banned, a \in Address :
              Contains(call[c].by, a) /\ Contains(b, a)
                => \E t \in call[c].mem.temp : t.entry = call[c].by
        /\ \A b \in Banned : ~Contains(b, call[c].pin)

CallRow == [tool : Tools, arg : Entry, writes : BOOLEAN, token : Call \union {None},
            phase : Phases, mem : Copies \union {None}, seen : Nat,
            by : Entry \union {None}, pin : Address \union {None},
            dialed : Address \union {None},
            verdict : Verdicts \union {None}, tail : Nat]

ScopeTypeOK ==
    /\ profile \in [allow : SUBSET Entry, temp : SUBSET Temporary, at : Nat]
    /\ call \in [Call -> CallRow]
    /\ rowLock \in Call \union {None} /\ chainLock \in Call \union {None}
    /\ saves \subseteq [by : Call, mem : Copies, seen : Nat]
    /\ lapsed \subseteq Temporary
    /\ grant \in [Call -> [target : Host \union {None}, over : BOOLEAN, used : BOOLEAN,
                           lock : Call \union {None}]]
    /\ log \in Seq([by : Call, verdict : Verdicts])

\* One approval allows one write, what is dialed is what was judged, a mutation
\* is logged, only a temporary block may hold what is banned, and an entry changes by its own mutation
\* only: all of it, of every step.
ScopeIsKept == [][/\ (ScopeTypeOK /\ OneWritePerApproval /\ JudgedIsDialed /\ MutationIsLogged /\ MatchIsAcceptable)'
                  /\ PruneErasesNothing]_scopeVars
=============================================================================
