------------------------------ MODULE MCHeaderChain ------------------------------
(* Instances of HeaderChain for TLC.                                        *)
EXTENDS HeaderChain, FiniteSets

CONSTANTS xtoken, xtoken2, xsub, xsub2, dev

Arg(t, s, d, o, v, all) ==
    [TokenHeader |-> t, SubtokenHeader |-> s, DevHostHeader |-> d, OauthProxy |-> o,
     VersionHeader |-> v, AllAuthHeaders |-> all]

\* The defaults, another subtoken header, another token header, development.
MCArgs == {Arg(xtoken, xsub, None, FALSE, FALSE, FALSE),
           Arg(xtoken, xsub2, None, TRUE, TRUE, FALSE),
           Arg(xtoken2, xsub, None, TRUE, FALSE, FALSE),
           Arg(xtoken, xsub, dev, TRUE, TRUE, TRUE)}

MCRoutes == {[id |-> "plain", community |-> FALSE, noAuth |-> FALSE],
             [id |-> "shared", community |-> TRUE, noAuth |-> FALSE],
             [id |-> "health", community |-> FALSE, noAuth |-> TRUE]}

\* Up to three headers, or all of them.
MCClientHeaders ==
    {[n \in Names |-> IF n \in S THEN Sent(n) ELSE None] :
        S \in {T \in SUBSET Names : Cardinality(T) <= 3} \cup {Names}}
=============================================================================
