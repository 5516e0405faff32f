----------------------------- MODULE MCTokenCache -----------------------------
(* Instances of TokenCache for TLC: two token IDs' worth of credentials.   *)
EXTENDS TokenCache, TLC

CONSTANTS h1, h2, g1, w1, w2, x1, s1, id1, id2, k1, k2

\* w1 and x1 share the ID id1; only w1 carries the right secret.
MCIdOf == [t \in WATs |-> IF t = w2 THEN id2 ELSE id1]
MCNoCipher == [r \in Handlers |-> NoKey]
MCOneKey == [r \in Handlers |-> k1]
MCTwoKeys == [r \in Handlers |-> IF r = h1 THEN k1 ELSE k2]

\* Handlers with the same key are interchangeable.
MCSymmetry == Permutations(Handlers)
=============================================================================
