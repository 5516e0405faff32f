------------------------------ MODULE MCAuthCheck ------------------------------
(* Instances of AuthCheck for TLC: one route that moves between two         *)
(* communities while its rules change, then disappears.                     *)
EXTENDS AuthCheck, TLC

CONSTANTS rt, cA, cB, alice, staff, t1, st, h1, h2

Ctl(c, deny) == [community |-> c, allowUsers |-> {alice}, allowGroups |-> {},
                 denyUsers |-> {}, denyGroups |-> deny]

Tab(c, login) == [ctls |-> [id \in Routes |-> c], login |-> login]

\* The route is in cA, then in cB.
MCMoves == <<Tab(Ctl(cA, {}), TRUE), Tab(Ctl(cB, {}), TRUE)>>

\* The route stays in cA.
MCStays == <<Tab(Ctl(cA, {}), TRUE)>>

\* The route leaves cA, joins cB with a rule that denies a group, and then
\* is withdrawn together with the login page's host.
MCRules == <<Tab(Ctl(cA, {}), TRUE), Tab(Ctl(None, {}), TRUE),
             Tab(Ctl(cB, {staff}), TRUE), Tab(None, FALSE)>>

User(gs, x) == [user |-> alice, groups |-> gs, id |-> t1, parent |-> None,
                ext |-> None, exp |-> x]

\* A subtoken of cB, presented as a token.
Sub(x) == [user |-> alice, groups |-> {}, id |-> st, parent |-> t1,
           ext |-> cB, exp |-> x]

MCTokens == {User({}, 1), User({staff}, 3), Sub(3)}

\* Payloads of one token minted at different times: the first expires within
\* the run.
MCRenewed == {User({}, 2), User({}, 6)}

MCSymmetry == Permutations(Handlers) \cup Permutations(SubIDs)
=============================================================================
