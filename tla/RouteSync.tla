------------------------------- MODULE RouteSync -------------------------------
(***************************************************************************)
(* How routes travel from the Route Registry to the processes that enforce *)
(* them.  The cacher (internal/cacher) and the admin service's routes      *)
(* webhook fetch the registry's sources and publish them on a NATS stream  *)
(* that retains one message; every auth, xds and admin process follows the *)
(* stream through a durable consumer named after its host and swaps its    *)
(* controls when a message arrives (internal/wormhole/registry and         *)
(* internal/ctls/streams).                                                 *)
(*                                                                         *)
(* A fetch, the look at the last message and the publish are steps of      *)
(* their own, as are delivery, handling and acknowledgement, so publishers *)
(* and consumers interleave.  Processes and the NATS server may restart    *)
(* between any two steps, and the connection of a process may break, come  *)
(* back or be given up for good.                                           *)
(***************************************************************************)
EXTENDS Integers, Sequences

CONSTANTS
    Procs,         \* processes that run SubscribeToSources
    Cacher,        \* the cacher process
    Admins,        \* goroutines of AsyncFetchSources
    Sources,       \* the route lists the registry may hold
    Mixed,         \* a list whose elements keep fields of another answer's
    Static,        \* the controls of the static file alone
    None,          \* no message
    MaxRetry,      \* maxRetry: attempts of one registry request
    RestartModes,  \* subset of {"same", "new"}: the host name after a restart
    MaxChanges,    \* bound on changes of the registry
    MaxHooks,      \* bound on calls of the routes webhook
    MaxFaults,     \* bound on failed or lost calls
    MaxRestarts,   \* bound on restarts of the processes in Procs
    MaxLosses,     \* bound on restarts of the NATS server
    MaxInbox       \* bound on the messages buffered by a consumer

Publishers == {Cacher} \cup Admins

\* What may be published.
Lists == Sources \cup {Mixed}

ASSUME RouteSyncAssumption ==
    /\ Cacher \notin Admins
    /\ Sources # {} /\ Mixed \notin Sources
    /\ {Static, None} \cap Lists = {}
    /\ RestartModes \subseteq {"same", "new"}
    /\ MaxRetry \in Nat \ {0}
    /\ MaxInbox \in Nat \ {0}
    /\ {MaxChanges, MaxHooks, MaxFaults, MaxRestarts, MaxLosses} \subseteq Nat

VARIABLES
    reg,        \* what the registry answers now
    exists,     \* whether the stream exists on the server
    last,       \* its retained message, or None
    seq,        \* sequence number of the last message published
    pubPc,      \* where each PublishSources call stands
    pubVal,     \* the slice it decodes the sources into
    pubTry,     \* failed attempts of its registry request
    expired,    \* whether its context is done
    durable,    \* whether the durable consumer of a process exists
    floor,      \* its acknowledgement floor
    sent,       \* highest sequence number delivered and not timed out
    inbox,      \* messages delivered to the process, not yet acknowledged
    handled,    \* whether the callback has run on the head of the inbox
    view,       \* the controls the process enforces
    applied,    \* the sequence number they came from, 0 for the static file
    base,       \* the floor when the process started (history)
    conn,       \* its NATS connection: up, down (reconnecting) or closed
    budget      \* what is left of the environment's bounds

regVars  == <<reg>>
natsVars == <<exists, last, seq>>
pubVars  == <<pubPc, pubVal, pubTry, expired>>
consVars == <<durable, floor, sent>>
procVars == <<inbox, handled, view, applied, base, conn>>
vars     == <<regVars, natsVars, pubVars, consVars, procVars, budget>>

Msg == [seq : Nat, val : Lists]

\* One use of a bounded behaviour of the environment.
Spend(what) == budget[what] > 0 /\ budget' = [budget EXCEPT ![what] = @ - 1]

-----------------------------------------------------------------------------
(***************************************************************************)
(* Publishing: PublishSources, that is request, then PublishSingleMsg.     *)
(***************************************************************************)
\* InitializeRoutes creates the stream unless it exists.
EnsureStream == exists' = TRUE /\ UNCHANGED <<last, seq>>

PubGoto(p, l) == pubPc' = [pubPc EXCEPT ![p] = l]

\* PublishSources returns, and its locals end: l is "failed" for an error.
PubEnd(p, l) ==
    /\ PubGoto(p, l)
    /\ pubVal'  = [pubVal EXCEPT ![p] = None]
    /\ pubTry'  = [pubTry EXCEPT ![p] = 0]
    /\ expired' = [expired EXCEPT ![p] = FALSE]

\* PublishSources goes on: it compares or publishes with what it has.
PubKeep(p, l) == PubGoto(p, l) /\ UNCHANGED <<pubVal, pubTry, expired>>

\* StartService publishes once, then manageRoutes at every tick.
CacherTick ==
    /\ pubPc[Cacher] = "idle"
    /\ PubKeep(Cacher, "fetch")
    /\ UNCHANGED <<regVars, natsVars, consVars, procVars, budget>>

\* routesWebhookHandler: AsyncFetchSources starts a goroutine with a context
\* of asyncTimeout.
RoutesWebhook(a) ==
    /\ pubPc[a] = "idle"
    /\ Spend("hooks")
    /\ PubKeep(a, "fetch")
    /\ UNCHANGED <<regVars, natsVars, consVars, procVars>>

\* request: the registry answers with sources that pass validation.  Where the
\* slice already has elements, the JSON decoder sets the fields an answer has
\* and keeps the others.
FetchOK(p) ==
    /\ pubPc[p] = "fetch"
    /\ \E list \in {reg} \cup ({pubVal[p]} \ {None}) :
          pubVal' = [pubVal EXCEPT ![p] = list]
    /\ PubGoto(p, "last")
    /\ UNCHANGED <<regVars, natsVars, pubTry, expired, consVars, procVars, budget>>

\* request: the attempt fails, perhaps with an answer that decodes half way (a
\* URL that does not parse), and the loop sleeps waitRetry.  The sleep does not
\* look at the context, and it is as long as asyncTimeout: an admin goroutine
\* goes on with a context that is done.
FetchRetry(p) ==
    /\ pubPc[p] = "fetch" /\ pubTry[p] + 1 < MaxRetry
    /\ Spend("faults")
    /\ pubTry'  = [pubTry EXCEPT ![p] = @ + 1]
    /\ pubVal' \in {pubVal, [pubVal EXCEPT ![p] = Mixed]}
    /\ expired' = [expired EXCEPT ![p] = @ \/ p # Cacher]
    /\ UNCHANGED <<regVars, natsVars, pubPc, consVars, procVars>>

\* request: the last attempt fails, or an answer to any of them does not pass
\* validation, which ends the call at once.
FetchFail(p) ==
    /\ pubPc[p] = "fetch"
    /\ Spend("faults")
    /\ PubEnd(p, "failed")
    /\ UNCHANGED <<regVars, natsVars, consVars, procVars>>

\* Seeded fault: any retained message ends the call.
CompareAny(p) ==
    /\ pubPc[p] = "last"
    /\ IF exists /\ ~expired[p] /\ last # None THEN PubEnd(p, "idle") ELSE PubKeep(p, "publish")
    /\ UNCHANGED <<regVars, natsVars, consVars, procVars, budget>>

\* PublishSingleMsg, GetLastMsgForSubject: equal data ends the call; other
\* data, no message, or any error leads to the publish.
CompareLast(p) ==
    LET read == exists /\ ~expired[p] /\ last # None IN
    /\ pubPc[p] = "last"
    /\ \/ read /\ last.val = pubVal[p] /\ PubEnd(p, "idle") /\ UNCHANGED budget
       \/ (read => last.val # pubVal[p]) /\ PubKeep(p, "publish") /\ UNCHANGED budget
       \/ Spend("faults") /\ PubKeep(p, "publish")
    /\ UNCHANGED <<regVars, natsVars, consVars, procVars>>

\* PublishSingleMsg, js.Publish: the message replaces the retained one.  The
\* call fails on a context that is done, without a stream, or by a fault, in
\* which case the message may have been stored all the same.
StoreMsg(p) == /\ seq' = seq + 1
                /\ last' = [seq |-> seq + 1, val |-> pubVal[p]]
                /\ UNCHANGED exists

Publish(p) ==
    /\ pubPc[p] = "publish"
    /\ \/ exists /\ ~expired[p] /\ StoreMsg(p) /\ PubEnd(p, "idle") /\ UNCHANGED budget
       \/ /\ ~exists \/ expired[p]
          /\ PubEnd(p, "failed")
          /\ UNCHANGED <<natsVars, budget>>
       \/ /\ exists /\ ~expired[p] /\ Spend("faults")
          /\ PubEnd(p, "failed")
          /\ StoreMsg(p) \/ UNCHANGED natsVars
    /\ UNCHANGED <<regVars, consVars, procVars>>

\* The error of PublishSources.  AsyncFetchSources logs it.  The cacher keeps
\* ticking, or returns it (at once during StartService, after MaxFailures in
\* manageRoutes) and is started again, which initializes the stream.
PublishError(p) ==
    /\ pubPc[p] = "failed"
    /\ PubEnd(p, "idle")
    /\ \/ UNCHANGED natsVars
       \/ p = Cacher /\ EnsureStream
    /\ UNCHANGED <<regVars, consVars, procVars, budget>>

PublishStep(p) ==
    \/ FetchOK(p) \/ FetchRetry(p) \/ FetchFail(p)
    \/ CompareLast(p) \/ Publish(p) \/ PublishError(p)

-----------------------------------------------------------------------------
(***************************************************************************)
(* Consuming: SubscribeToSources, that is Consume with RefreshControls.    *)
(***************************************************************************)
\* The server pushes the retained message to a durable that has neither
\* acknowledged it nor has it outstanding.
Deliverable(p) == durable[p] /\ last # None /\ last.seq > floor[p] /\ last.seq > sent[p]

Deliver(p) ==
    /\ Deliverable(p) /\ conn[p] = "up"
    /\ Len(inbox[p]) < MaxInbox
    /\ inbox' = [inbox EXCEPT ![p] = Append(@, last)]
    /\ sent' = [sent EXCEPT ![p] = last.seq]
    /\ UNCHANGED <<regVars, natsVars, pubVars, durable, floor, handled, view,
                   applied, base, conn, budget>>

\* AckWait passes without an acknowledgement: the message may be delivered
\* again.
AckTimeout(p) ==
    /\ durable[p] /\ sent[p] > floor[p]
    /\ sent' = [sent EXCEPT ![p] = floor[p]]
    /\ UNCHANGED <<regVars, natsVars, pubVars, durable, floor, procVars, budget>>

\* Seeded fault: after an error of json.Unmarshal the handler goes on, and
\* updateCtls runs on an empty list.
RefreshFallthrough(p) ==
    /\ inbox[p] # <<>> /\ ~handled[p]
    /\ \E decoded \in BOOLEAN :
         /\ view' = [view EXCEPT ![p] = IF decoded THEN Head(inbox[p]).val ELSE Static]
         /\ applied' = [applied EXCEPT ![p] = IF decoded THEN Head(inbox[p]).seq ELSE 0]
    /\ handled' = [handled EXCEPT ![p] = TRUE]
    /\ UNCHANGED <<regVars, natsVars, pubVars, consVars, inbox, base, conn, budget>>

\* RefreshControls: updateCtls rebuilds the controls from the static file and
\* the message and swaps them.  What is published is a json.Marshal of the
\* same type, so the early return of a message that does not decode is not
\* taken.
RefreshControls(p) ==
    /\ inbox[p] # <<>> /\ ~handled[p]
    /\ view'    = [view EXCEPT ![p] = Head(inbox[p]).val]
    /\ applied' = [applied EXCEPT ![p] = Head(inbox[p]).seq]
    /\ handled' = [handled EXCEPT ![p] = TRUE]
    /\ UNCHANGED <<regVars, natsVars, pubVars, consVars, inbox, base, conn, budget>>

\* Seeded fault: the callback acknowledges before the handler has run.
AckEarly(p) ==
    /\ inbox[p] # <<>>
    /\ floor' = [floor EXCEPT ![p] = Head(inbox[p]).seq]
    /\ inbox' = [inbox EXCEPT ![p] = Tail(@)]
    /\ handled' = [handled EXCEPT ![p] = FALSE]
    /\ UNCHANGED <<regVars, natsVars, pubVars, durable, sent, view, applied, base, conn, budget>>

\* The callback acknowledges after the handler; an error is only logged.  An
\* acknowledgement made while the connection is down is buffered by the client
\* and may or may not reach the server; on a closed connection it is an error.
Ack(p) ==
    LET s == Head(inbox[p]).seq IN
    /\ inbox[p] # <<>> /\ handled[p]
    /\ \/ /\ conn[p] # "closed"
          /\ floor' = [floor EXCEPT ![p] = IF durable[p] /\ s > @ THEN s ELSE @]
          /\ UNCHANGED budget
       \/ conn[p] # "up" /\ UNCHANGED <<floor, budget>>
       \/ conn[p] = "up" /\ Spend("faults") /\ UNCHANGED floor
    /\ inbox' = [inbox EXCEPT ![p] = Tail(@)]
    /\ handled' = [handled EXCEPT ![p] = FALSE]
    /\ UNCHANGED <<regVars, natsVars, pubVars, durable, sent, view, applied, base, conn>>

ConsumeStep(p) == Deliver(p) \/ RefreshControls(p) \/ Ack(p)

SetConn(p, c) == conn' = [conn EXCEPT ![p] = c]

\* The connection breaks, perhaps with a message on its way: the server then
\* waits for an acknowledgement of what the client never received.
Disconnect(p) ==
    /\ conn[p] = "up"
    /\ Spend("faults")
    /\ SetConn(p, "down")
    /\ \/ UNCHANGED sent
       \/ Deliverable(p) /\ sent' = [sent EXCEPT ![p] = last.seq]
    /\ UNCHANGED <<regVars, natsVars, pubVars, durable, floor, inbox, handled,
                   view, applied, base>>

\* The client reconnects and Consume goes on.
Reconnect(p) ==
    /\ conn[p] = "down"
    /\ SetConn(p, "up")
    /\ UNCHANGED <<regVars, natsVars, pubVars, consVars, inbox, handled, view,
                   applied, base, budget>>

\* After maxRetries attempts the client closes the connection; the handler of
\* that event only logs and SubscribeToSources goes on waiting for its context.
GiveUp(p) ==
    /\ conn[p] = "down"
    /\ SetConn(p, "closed")
    /\ UNCHANGED <<regVars, natsVars, pubVars, consVars, inbox, handled, view,
                   applied, base, budget>>

-----------------------------------------------------------------------------
(***************************************************************************)
(* The environment.                                                        *)
(***************************************************************************)
RegistryChange(v) ==
    /\ v \in Sources \ {reg}
    /\ Spend("changes")
    /\ reg' = v
    /\ UNCHANGED <<natsVars, pubVars, consVars, procVars>>

\* Seeded fault: Initialize does not build the static controls.
RestartBare(p, mode) ==
    /\ Spend("restarts")
    /\ EnsureStream
    /\ inbox'   = [inbox EXCEPT ![p] = <<>>]
    /\ handled' = [handled EXCEPT ![p] = FALSE]
    /\ view'    = [view EXCEPT ![p] = None]
    /\ applied' = [applied EXCEPT ![p] = 0]
    /\ base'    = [base EXCEPT ![p] = floor[p]]
    /\ SetConn(p, "up")
    /\ UNCHANGED <<regVars, pubVars, consVars>>

\* A process restarts.  InitializeRoutes creates what is missing: a durable
\* that is new starts at the last message (DeliverLast), one that exists
\* resumes after what it acknowledged.  Initialize leaves the static controls.
Restart(p, mode) ==
    LET fresh == mode = "new" \/ ~durable[p]
        start == IF ~fresh THEN floor[p] ELSE IF last = None THEN seq ELSE last.seq - 1
    IN
    /\ Spend("restarts")
    /\ EnsureStream
    /\ durable' = [durable EXCEPT ![p] = TRUE]
    /\ floor'   = [floor EXCEPT ![p] = start]
    /\ base'    = [base EXCEPT ![p] = start]
    /\ sent'    = [sent EXCEPT ![p] = IF fresh THEN start ELSE @]
    /\ inbox'   = [inbox EXCEPT ![p] = <<>>]
    /\ handled' = [handled EXCEPT ![p] = FALSE]
    /\ view'    = [view EXCEPT ![p] = Static]
    /\ applied' = [applied EXCEPT ![p] = 0]
    /\ SetConn(p, "up")
    /\ UNCHANGED <<regVars, pubVars>>

\* The NATS server restarts: stream and consumers are kept in memory only.
NatsLoss ==
    /\ Spend("losses")
    /\ exists' = FALSE
    /\ last' = None
    /\ seq' = 0
    /\ durable' = [p \in Procs |-> FALSE]
    /\ UNCHANGED <<regVars, pubVars, floor, sent, procVars>>

-----------------------------------------------------------------------------
\* Lists are only ever compared for equality, so any one may be the first.
Init ==
    /\ reg = CHOOSE v \in Sources : TRUE
    /\ exists = TRUE /\ last = None /\ seq = 0
    /\ pubPc = [p \in Publishers |-> "idle"]
    /\ pubVal = [p \in Publishers |-> None]
    /\ pubTry = [p \in Publishers |-> 0]
    /\ expired = [p \in Publishers |-> FALSE]
    /\ durable = [p \in Procs |-> TRUE]
    /\ floor = [p \in Procs |-> 0]
    /\ sent = [p \in Procs |-> 0]
    /\ inbox = [p \in Procs |-> <<>>]
    /\ handled = [p \in Procs |-> FALSE]
    /\ view = [p \in Procs |-> Static]
    /\ applied = [p \in Procs |-> 0]
    /\ base = [p \in Procs |-> 0]
    /\ conn = [p \in Procs |-> "up"]
    /\ budget = [changes |-> MaxChanges, hooks |-> MaxHooks, faults |-> MaxFaults,
                 restarts |-> MaxRestarts, losses |-> MaxLosses]

Next ==
    \/ CacherTick
    \/ \E a \in Admins : RoutesWebhook(a)
    \/ \E p \in Publishers : PublishStep(p)
    \/ \E p \in Procs : ConsumeStep(p) \/ AckTimeout(p)
    \/ \E p \in Procs : Disconnect(p) \/ Reconnect(p) \/ GiveUp(p)
    \/ \E p \in Procs, m \in RestartModes : Restart(p, m)
    \/ \E v \in Sources : RegistryChange(v)
    \/ NatsLoss

Spec == Init /\ [][Next]_vars

\* The ticker of the cacher fires, every HTTP or NATS call returns, the
\* server delivers what is deliverable and the callback runs.  A broken
\* connection is retried, with either outcome.
Fairness ==
    /\ WF_vars(CacherTick \/ PublishStep(Cacher))
    /\ \A a \in Admins : WF_vars(PublishStep(a))
    /\ \A p \in Procs : /\ WF_vars(ConsumeStep(p)) /\ WF_vars(AckTimeout(p))
                        /\ WF_vars(Reconnect(p) \/ GiveUp(p))

FairSpec == Spec /\ Fairness

-----------------------------------------------------------------------------
(***************************************************************************)
(* Properties.                                                             *)
(***************************************************************************)
\* Types of the state.
TypeOK ==
    /\ reg \in Sources
    /\ exists \in BOOLEAN /\ seq \in Nat
    /\ last \in Msg \cup {None}
    /\ pubPc \in [Publishers -> {"idle", "fetch", "last", "publish", "failed"}]
    /\ pubVal \in [Publishers -> Lists \cup {None}]
    /\ pubTry \in [Publishers -> 0 .. MaxRetry - 1]
    /\ expired \in [Publishers -> BOOLEAN]
    /\ durable \in [Procs -> BOOLEAN]
    /\ floor \in [Procs -> Nat] /\ sent \in [Procs -> Nat]
    /\ inbox \in [Procs -> Seq(Msg)]
    /\ handled \in [Procs -> BOOLEAN]
    /\ view \in [Procs -> Lists \cup {Static}]
    /\ applied \in [Procs -> Nat] /\ base \in [Procs -> Nat]
    /\ conn \in [Procs -> {"up", "down", "closed"}]

\* A message a process has acknowledged since it started is one whose routes,
\* or later ones, it enforces: nothing is acknowledged and then not applied,
\* whatever is redelivered, discarded or restarted in between.
AckedWasApplied ==
    \A p \in Procs : floor[p] > base[p] => applied[p] >= floor[p]

\* While it runs, a process never goes back to the routes of an earlier
\* message, nor to the static file, however deliveries are repeated.
NeverBackwards ==
    [][\A p \in Procs : applied'[p] < applied[p] => budget'.restarts < budget.restarts]_vars

\* A process that the stream can still reach: its durable consumer exists, its
\* connection is not closed for good, and it has had a message since it
\* started or one is waiting that it has not acknowledged.
Attached(p) ==
    /\ durable[p] /\ conn[p] # "closed"
    /\ applied[p] # 0 \/ (last # None /\ last.seq > base[p])

\* Once the registry stops changing and the faults stop, every process that
\* is still attached to the stream enforces the registry's routes for good,
\* although publishers race between fetch and publish and may overwrite newer
\* sources with older ones or with a mixture of two answers, messages and
\* acknowledgements get lost with the connection, and the server may have lost the stream: Attached names all
\* the ways in which a process can stay behind.
Converges == <>[](\A p \in Procs : Attached(p) => view[p] = reg)

\* internal/wormhole/registry/registry.go, Initialize: "We will dynamically
\* fetch/update the controls during the Holepunch startup process".  A process
\* that enforces the static file only comes to enforce published routes.
StartupFetchesRoutes == \A p \in Procs : applied[p] = 0 ~> applied[p] # 0
=============================================================================
