----------------------------- MODULE TokenGrants -----------------------------
(***************************************************************************)
(* What token authentication promises to those who use it, with no cache,  *)
(* cipher, webhook, retry or crash in sight: at any instant a client is    *)
(* either let through as some credential or it is not, and it is let       *)
(* through only as a credential the Token Service accepts or, when the     *)
(* cache has a TTL, stopped accepting a bounded time ago.  TokenCache is   *)
(* shown to implement this module.                                         *)
(***************************************************************************)
EXTENDS Integers

CONSTANTS
    Clients,      \* who may ask
    Credentials,  \* what they may present
    Genuine,      \* the credentials the Token Service issued
    Bounded,      \* whether the staleness of a grant is bounded at all
    Window,       \* how long a revocation may go unnoticed when it is
    None          \* not let through

VARIABLES
    now,        \* the clock
    alive,      \* the credentials the Token Service accepts
    revokedAt,  \* when a credential stopped being accepted
    granted     \* as whom each client is let through at this instant

vars == <<now, alive, revokedAt, granted>>

\* A client may be let through as c at time t.
Grantable(c, t) ==
    /\ c \in Genuine
    /\ c \in alive \/ (Bounded => t - revokedAt[c] <= Window)

Init ==
    /\ now = 0
    /\ alive = Genuine
    /\ revokedAt = [c \in Credentials |-> 0]
    /\ granted = [r \in Clients |-> None]

\* A client is let through.
Grant(r) ==
    /\ granted[r] = None
    /\ \E c \in Genuine : /\ Grantable(c, now)
                          /\ granted' = [granted EXCEPT ![r] = c]
    /\ UNCHANGED <<now, alive, revokedAt>>

\* The request of a client is over.
Finish(r) ==
    /\ granted' = [granted EXCEPT ![r] = None]
    /\ UNCHANGED <<now, alive, revokedAt>>

Revoke(c) ==
    /\ c \in alive
    /\ alive' = alive \ {c}
    /\ revokedAt' = [revokedAt EXCEPT ![c] = now]
    /\ UNCHANGED <<now, granted>>

\* Time passes.  It may end the requests of any clients, and it does end
\* those whose grant would become too old.
Tick ==
    /\ now' = now + 1
    /\ \E over \in SUBSET Clients :
          /\ granted' = [r \in Clients |-> IF r \in over THEN None ELSE granted[r]]
          /\ \A r \in Clients \ over :
                granted[r] # None => Grantable(granted[r], now + 1)
    /\ UNCHANGED <<alive, revokedAt>>

Next ==
    \/ \E r \in Clients : Grant(r) \/ Finish(r)
    \/ \E c \in Genuine : Revoke(c)
    \/ Tick

Spec == Init /\ [][Next]_vars
=============================================================================
