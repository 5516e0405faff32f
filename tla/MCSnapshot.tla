------------------------------- MODULE MCSnapshot -------------------------------
(* Instances of Snapshot for TLC.  Paths and hosts are sequences of         *)
(* characters; the root path is the empty one.                              *)
EXTENDS Snapshot

CONSTANTS app, local, i1, i2, i3

MCPaths == {<<>>, <<"a">>, <<"a", "b">>, <<"b">>}

MCNameChars == {"a", "1", "80"}

\* The hosts of [::1] and [1::], which share a name, and one with a character
\* that is dropped from the name unless the name is long.
v6a == [host |-> <<":", ":", "1">>, port |-> "80"]
v6b == [host |-> <<"1", ":", ":">>, port |-> "80"]
odd == [host |-> <<"~", "a", "a", "a">>, port |-> "80"]

MCDests == {v6a, v6b, odd}

Src(h, p, d, noAuth) == [host |-> h, prefix |-> p, dst |-> d, noAuth |-> noAuth]

\* The static file: a health page without authorization, for any host.
MCStatic == [id \in IDs |-> IF id = i1 THEN Src(local, <<"b">>, odd, TRUE) ELSE None]

Table(a, b, c) == [id \in IDs |-> IF id = i1 THEN a ELSE IF id = i2 THEN b ELSE c]

\* Every pair of hosts and paths, with destinations that are equal or share a
\* name, beside the static route or a published one with its ID.
MCAll ==
    {Table(a, b, c) :
        a \in {None, Src(app, <<"a">>, v6a, TRUE)},
        b \in {Src(h, p, v6a, FALSE) : h \in Hosts, p \in Paths} \cup {None},
        c \in {Src(h, p, v6b, FALSE) : h \in Hosts, p \in Paths}
                 \cup {Src(app, <<>>, v6a, FALSE), Src(app, <<>>, odd, FALSE), None}}

MCRequests == [host : Hosts, path : {<<>>, <<"a">>, <<"b">>, <<"a", "b">>, <<"a", "b", "c">>}]
=============================================================================
