---------------------------- MODULE MCPermissions ----------------------------
(***************************************************************************)
(* GitHubGrants and ScopeGuard for TLC, side by side: each behaviour moves *)
(* one of them.  Whose reports are let in, with two installations of the   *)
(* App; and what a tool call may reach, with addresses of three bits, a    *)
(* public and a lab name, and scenarios of three calls.                    *)
(***************************************************************************)
EXTENDS GitHubGrants, ScopeGuard, TLC

CONSTANTS i1, i2, cdn, lab

VARIABLE part

vars == <<grantsVars, scopeVars, part>>

MCNameClass == cdn :> "public" @@ lab :> "private"
\* The three bits of a number.
Base(n) == <<n \div 4, (n \div 2) % 2, n % 2>>
Ip(n) == <<Base(n), 3>>
Cidr(n, bits) == <<Base(n), bits>>

MCBanned == {Cidr(2, 2)}
MCAddressClass == [a \in Address |-> CASE a = Ip(0) -> "loopback" [] a = Ip(1) -> "private" [] OTHER -> "public"]

Do(tool, arg) == [tool |-> tool, arg |-> arg, writes |-> FALSE, token |-> None]
Write(arg, token) == [Do("probe", arg) EXCEPT !.writes = TRUE, !.token = token]
Temp(e) == [entry |-> e, by |-> None]
World(allow, temp, a, b, c) == [allow |-> allow, temp |-> temp, calls |-> <<a, b, c>>]

Hosts == {cdn, lab, Ip(0), Ip(1), Ip(2), Ip(5)}
Blocks == {Cidr(4, 1), Cidr(0, 0), Cidr(0, 1), Cidr(0, 2)}

\* One check of every host under every block and both kinds of name.
Judging == {World({cdn, lab, b}, {}, Do("scope_add", b), Do("scope_check", h), Do("probe", h)) :
                b \in Blocks, h \in Hosts}
\* The same under a temporary block: stored, with whatever it holds, or added.
Lending == {World({lab}, temp, Do("scope_add_temporary", b), Do("scope_check", h), Do("probe", h)) :
                temp \in {{}, {Temp(Cidr(0, 1))}}, b \in {Cidr(0, 1), Cidr(4, 1)}, h \in {Ip(1), Ip(2)}}
\* Mutations of one entry meet a read whose temporary entry lapses.
Pruning == {World({lab}, {Temp(cdn)}, Do("scope_check", cdn), m, n) :
                m \in {Do("scope_add", Ip(5)), Do("scope_remove", lab), Do("scope_add_temporary", Ip(5))},
                n \in {Do("scope_remove", Ip(5)), Do("scope_add", lab), Do("scope_add_temporary", Ip(4))}}
\* An approval, and two who spend it.
Approving == {World({Ip(5), Ip(4)}, {}, Do("request_intrusive_approval", h), Write(Ip(5), k),
                    IF v THEN [Write(Ip(5), 1) EXCEPT !.tool = "verify_grant"] ELSE Write(Ip(5), 1)) :
                h \in {Ip(4), Ip(5)}, k \in {1, None}, v \in BOOLEAN}
Still == World({}, {}, Do("scope_check", cdn), Do("scope_check", cdn), Do("scope_check", cdn))
MCWorlds == Judging \union Lending \union Pruning \union Approving \union {Still}

Init == /\ GrantsInit /\ ScopeInit
        /\ \/ /\ part = "grants"
              /\ profile.allow = {}
           \/ /\ part = "scope"
              /\ profile.allow # {} /\ ~gh.private

Next == \/ part = "grants" /\ GrantsNext /\ UNCHANGED <<scopeVars, part>>
        \/ part = "scope" /\ ScopeNext /\ UNCHANGED <<grantsVars, part>>

Spec == Init /\ [][Next]_vars

\* The reconcile tick keeps coming and its passes do not fail for ever;
\* no hook has to arrive.
FairSpec == Spec /\ WF_grantsVars(part = "grants" /\ Reconcile)
=============================================================================
