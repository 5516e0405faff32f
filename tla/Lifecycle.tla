------------------------------- MODULE Lifecycle -------------------------------
(***************************************************************************)
(* One holepunch process from its start to its exit: the four commands of  *)
(* internal/cmd/holepunch, the servers they run (gRPC in internal/envoy,   *)
(* HTTP in internal/server), the goroutine that follows the routes, and    *)
(* the loop of the cacher with its count of failures.                      *)
(*                                                                         *)
(* The main goroutine, the server's goroutine, the subscriber and the      *)
(* handlers of requests are interleaved; a signal may arrive between any   *)
(* two steps.  What the process does for a request is in the other         *)
(* modules: here a request is in progress, answered or cut off.            *)
(***************************************************************************)
EXTENDS Integers, Sequences, FiniteSets

CONSTANTS
    Requests,     \* requests or, for xds, Envoy's streams that may be open at once
    Watches,      \* calls of Watch of the gRPC health service, likewise
    MaxFailures,  \* --max-failures of the cacher
    Window,       \* failureWindow
    MaxTime       \* bound on the clock

ASSUME LifecycleAssumption ==
    /\ IsFiniteSet(Requests) /\ IsFiniteSet(Watches)
    /\ Requests \cap Watches = {}
    /\ MaxFailures \in Nat \ {0}
    /\ Window \in Nat
    /\ MaxTime \in Nat

Kinds == {"auth", "admin", "xds", "cacher"}

VARIABLES
    kind,       \* the command
    pc,         \* where the main goroutine stands
    status,     \* exit status, -1 while the process runs
    cancelled,  \* whether the context of the process is done
    sub,        \* the subscriber goroutine
    serve,      \* the goroutine that serves, and what it left in errChan
    open,       \* requests and streams in progress
    cut,        \* requests the exit cut off
    failures,   \* manageRoutes' failures
    failedAt,   \* the times of all failed refreshes (history)
    now         \* the clock

cacheVars == <<failures, failedAt, now>>
vars == <<kind, pc, status, cancelled, sub, serve, open, cut, cacheVars>>

\* The process is gone, with what was in progress.
Exit(s) ==
    /\ pc' = "exited"
    /\ status' = s
    /\ cut' = open
    /\ open' = {}
    /\ sub' = "off"
    /\ serve' = "off"
    /\ UNCHANGED <<kind, cancelled>>

-----------------------------------------------------------------------------
(***************************************************************************)
(* Start.                                                                  *)
(***************************************************************************)
\* What each command does, in order, before its own work.
Stages(k) ==
    IF k = "xds" THEN <<"connect", "routes", "load">>
    ELSE <<"connect", "tokens", "routes", "load">>

\* Its own work.
Work(k) == IF k = "cacher" THEN "initial" ELSE "listen"

\* The main goroutine is done with stage s.
NextStage(s) ==
    LET st == Stages(kind)
        i  == CHOOSE j \in 1 .. Len(st) : st[j] = s
    IN  /\ pc' = IF i = Len(st) THEN Work(kind) ELSE st[i + 1]
        /\ UNCHANGED <<kind, status, cancelled, serve, open, cut>>

\* streams.Connect: retries in the background, so it seldom fails.
Connect ==
    /\ pc = "connect"
    /\ \/ NextStage("connect") /\ UNCHANGED sub
       \/ Exit(1)
    /\ UNCHANGED cacheVars

\* InitializeTokens: create the bucket or bind to it.  Both calls carry the
\* context.
InitializeTokens ==
    /\ pc = "tokens"
    /\ \/ ~cancelled /\ NextStage("tokens") /\ UNCHANGED sub
       \/ Exit(1)
    /\ UNCHANGED cacheVars

\* InitializeRoutes: stream and durable consumer, likewise.
InitializeRoutes ==
    /\ pc = "routes"
    /\ \/ ~cancelled /\ NextStage("routes") /\ UNCHANGED sub
       \/ Exit(1)
    /\ UNCHANGED cacheVars

\* loadAuthenticator and loadRegistry, fatal when key, file or URL are bad;
\* then the subscriber is started, except by the cacher.
Load ==
    /\ pc = "load"
    /\ \/ NextStage("load") /\ sub' = (IF kind = "cacher" THEN sub ELSE "start")
       \/ Exit(1)
    /\ UNCHANGED cacheVars

\* StartEnvoyAuth and RunServer: listen (and, for xds, initSnapshot), then
\* serve in a goroutine.
ListenGRPC ==
    /\ pc = "listen" /\ kind \in {"auth", "xds"}
    /\ \/ /\ pc' = "wait" /\ serve' = "on"
          /\ UNCHANGED <<kind, status, cancelled, sub, open, cut>>
       \/ Exit(1)
    /\ UNCHANGED cacheVars

\* AdminAPI: listening is left to the goroutine.
ListenHTTP ==
    /\ pc = "listen" /\ kind = "admin"
    /\ pc' = "wait" /\ serve' = "on"
    /\ UNCHANGED <<kind, status, cancelled, sub, open, cut, cacheVars>>

-----------------------------------------------------------------------------
(***************************************************************************)
(* Goroutines beside the main one.                                         *)
(***************************************************************************)
\* Seeded fault: the error of SubscribeToSources is logged and no more.
SubscribeLogged ==
    /\ pc # "exited"
    /\ \/ sub = "start" /\ sub' \in {"on", "failed"}
       \/ sub = "on" /\ cancelled /\ sub' = "off"
    /\ UNCHANGED <<kind, pc, status, cancelled, serve, open, cut, cacheVars>>

\* manageRegistryRefresh: Consume runs until the context is done; an error of
\* it ends the process on the spot, requests in progress or not.
Subscribe ==
    /\ pc # "exited"
    /\ \/ /\ \/ sub = "start" /\ sub' = "on"
             \/ sub = "on" /\ cancelled /\ sub' = "off"
          /\ UNCHANGED <<kind, pc, status, cancelled, serve, open, cut>>
       \/ sub = "start" /\ Exit(1)
    /\ UNCHANGED cacheVars

\* Serve or ListenAndServe returns an error, sent to errChan.
ServeError ==
    /\ pc = "wait" /\ serve = "on"
    /\ serve' = "error"
    /\ UNCHANGED <<kind, pc, status, cancelled, sub, open, cut, cacheVars>>

\* A request arrives; after an error of Serve connections may still be open.
Accept(q) ==
    /\ pc = "wait" /\ q \notin open
    /\ q \in Watches => kind \in {"auth", "xds"}
    /\ open' = open \cup {q}
    /\ UNCHANGED <<kind, pc, status, cancelled, sub, serve, cut, cacheVars>>

\* A handler (Check, or one of the admin API) answers.
Answer(q) ==
    /\ kind # "xds" /\ q \in open \cap Requests
    /\ open' = open \ {q}
    /\ UNCHANGED <<kind, pc, status, cancelled, sub, serve, cut, cacheVars>>

\* Seeded fault: the xDS server is given a context that is never done.
StreamEndDetached(q) ==
    /\ kind = "xds" /\ q \in open \cap Requests /\ FALSE
    /\ open' = open \ {q}
    /\ UNCHANGED <<kind, pc, status, cancelled, sub, serve, cut, cacheVars>>

\* A stream of Envoy ends when the context given to srv.NewServer is done.
StreamEnd(q) ==
    /\ kind = "xds" /\ q \in open \cap Requests /\ cancelled
    /\ open' = open \ {q}
    /\ UNCHANGED <<kind, pc, status, cancelled, sub, serve, cut, cacheVars>>

\* Envoy closes a stream.
Disconnect(q) ==
    /\ kind = "xds" /\ q \in open \cap Requests
    /\ open' = open \ {q}
    /\ UNCHANGED <<kind, pc, status, cancelled, sub, serve, cut, cacheVars>>

\* A Watch of the health service ends with the context of its own stream, when
\* its client closes it or is gone: no context of the process is behind it, and
\* nothing calls Shutdown of the health server.
WatchEnd(q) ==
    /\ q \in open \cap Watches
    /\ open' = open \ {q}
    /\ UNCHANGED <<kind, pc, status, cancelled, sub, serve, cut, cacheVars>>

-----------------------------------------------------------------------------
(***************************************************************************)
(* Stop.                                                                   *)
(***************************************************************************)
\* SIGINT or SIGTERM: the context of defaultInit is done.
Signal ==
    /\ pc # "exited" /\ ~cancelled
    /\ cancelled' = TRUE
    /\ UNCHANGED <<kind, pc, status, sub, serve, open, cut, cacheVars>>

\* waitForShutdown: whichever is ready, the context or errChan.
WaitForShutdown ==
    /\ pc = "wait"
    /\ \/ /\ cancelled
          /\ pc' = "stop" /\ serve' = "off"
          /\ UNCHANGED <<kind, status, cancelled, sub, open, cut>>
       \/ serve = "error" /\ Exit(1)
    /\ UNCHANGED cacheVars

\* Seeded fault: Stop in place of GracefulStop.
StopGRPC ==
    /\ pc = "stop" /\ kind \in {"auth", "xds"}
    /\ Exit(0)
    /\ UNCHANGED cacheVars

\* GracefulStop waits for the handlers and streams in progress.
GracefulStop ==
    /\ pc = "stop" /\ kind \in {"auth", "xds"}
    /\ open = {}
    /\ Exit(0)
    /\ UNCHANGED cacheVars

\* http.Server.Shutdown.  Its context is derived from the one that is done,
\* so it looks once: with every connection idle it succeeds, otherwise its
\* error ends the process.
Shutdown ==
    /\ pc = "stop" /\ kind = "admin"
    /\ \/ open = {} /\ Exit(0)
       \/ Exit(1)
    /\ UNCHANGED cacheVars

-----------------------------------------------------------------------------
(***************************************************************************)
(* The cacher.  PublishSources is RouteSync; on a context that is done it  *)
(* fails.                                                                  *)
(***************************************************************************)
\* StartService: the first publish must succeed.
InitialPublish ==
    /\ pc = "initial"
    /\ \/ /\ ~cancelled /\ pc' = "loop"
          /\ UNCHANGED <<kind, status, cancelled, sub, serve, open, cut>>
       \/ Exit(1)
    /\ UNCHANGED cacheVars

\* manageRoutes: the ticker.
RefreshTick ==
    /\ pc = "loop"
    /\ pc' = "publish"
    /\ UNCHANGED <<kind, status, cancelled, sub, serve, open, cut, cacheVars>>

\* manageRoutes: the context is done.
StopCacher ==
    /\ pc = "loop" /\ cancelled
    /\ Exit(0)
    /\ UNCHANGED cacheVars

\* Seeded fault: the window is forgotten.
AppendOnly(fs, t) == Append(fs, t)

\* appendFailure: the leading entries older than the window are dropped.
AppendFailure(fs, t) ==
    LET all  == Append(fs, t)
        kept == {i \in 1 .. Len(all) : all[i] >= t - Window}
        from == CHOOSE i \in kept : \A j \in kept : i <= j
    IN  SubSeq(all, from, Len(all))

PublishFailed ==
    /\ failures' = AppendFailure(failures, now)
    /\ failedAt' = Append(failedAt, now)
    /\ IF Len(failures') >= MaxFailures THEN Exit(1)
       ELSE /\ pc' = "loop"
            /\ UNCHANGED <<kind, status, cancelled, sub, serve, open, cut>>

\* manageRoutes: PublishSources returns.
Refresh ==
    /\ pc = "publish"
    /\ \/ /\ ~cancelled /\ pc' = "loop"
          /\ UNCHANGED <<kind, status, cancelled, sub, serve, open, cut,
                         failures, failedAt>>
       \/ PublishFailed
    /\ UNCHANGED now

Tick ==
    /\ kind = "cacher" /\ pc # "exited" /\ now < MaxTime
    /\ now' = now + 1
    /\ UNCHANGED <<kind, pc, status, cancelled, sub, serve, open, cut,
                   failures, failedAt>>

-----------------------------------------------------------------------------
Init ==
    /\ kind \in Kinds
    /\ pc = "connect" /\ status = -1 /\ cancelled = FALSE
    /\ sub = "none" /\ serve = "none"
    /\ open = {} /\ cut = {}
    /\ failures = <<>> /\ failedAt = <<>> /\ now = 0

Main ==
    \/ Connect \/ InitializeTokens \/ InitializeRoutes \/ Load
    \/ ListenGRPC \/ ListenHTTP
    \/ WaitForShutdown \/ GracefulStop \/ Shutdown
    \/ InitialPublish \/ RefreshTick \/ StopCacher \/ Refresh

Next ==
    \/ Main \/ Subscribe \/ ServeError \/ Signal \/ Tick
    \/ \E q \in Requests : Answer(q) \/ StreamEnd(q) \/ Disconnect(q)
    \/ \E q \in Watches : WatchEnd(q)
    \/ \E q \in Requests \cup Watches : Accept(q)

Spec == Init /\ [][Next]_vars

\* Every goroutine goes on, every handler answers (its calls have timeouts),
\* Envoy's streams end once their context is done, and of two ready cases a
\* select takes each with equal chance, so that the loop of the cacher does not
\* take its ticker for ever.  Nothing makes the client of a Watch end it.
Fairness ==
    /\ WF_vars(Main) /\ WF_vars(Subscribe) /\ SF_vars(StopCacher)
    /\ \A q \in Requests : WF_vars(Answer(q)) /\ WF_vars(StreamEnd(q))

FairSpec == Spec /\ Fairness

-----------------------------------------------------------------------------
(***************************************************************************)
(* Properties.                                                             *)
(***************************************************************************)
\* Types of the state.  A subscriber that has failed is not among them: the
\* process that holds one is gone.
TypeOK ==
    /\ kind \in Kinds
    /\ pc \in {"connect", "tokens", "routes", "load", "listen", "wait", "stop",
               "initial", "loop", "publish", "exited"}
    /\ status \in {-1, 0, 1} /\ (status = -1 <=> pc # "exited")
    /\ cancelled \in BOOLEAN
    /\ sub \in {"none", "start", "on", "off"}
    /\ serve \in {"none", "on", "error", "off"}
    /\ open \subseteq Requests \cup Watches /\ cut \subseteq Requests \cup Watches
    /\ failures \in Seq(0 .. MaxTime) /\ failedAt \in Seq(0 .. MaxTime)
    /\ now \in 0 .. MaxTime

\* A process that reports success was told to stop and has cut off no request
\* it had accepted, whatever arrived between the signal and the stop; where a
\* stop does not wait for requests (the admin server), the exit status says
\* so.
CleanExit == status = 0 => cancelled /\ cut = {}

\* The failed refreshes within the window that ends with the last one.
Recent == {i \in 1 .. Len(failedAt) : failedAt[i] >= failedAt[Len(failedAt)] - Window}

\* args/cacher.go, --max-failures: "maximum number of failed refreshes before
\* a reboot", counted over failureWindow.  The cacher gives up exactly when
\* that many refreshes have failed within the window, however failures and
\* successes alternate.
GivesUp ==
    failedAt # <<>> => (Cardinality(Recent) >= MaxFailures <=> status = 1)

\* GracefulStop is held up by nothing but clients that keep a Watch open.
HeldByWatch == pc = "stop" /\ open # {} /\ open \subseteq Watches

\* A process that is told to stop does, at any point of its start or its work:
\* requests and Envoy's streams do not hold GracefulStop up, nor the ticker the
\* cacher.  GracefulStop has no deadline, so a Watch of the health service does
\* for as long as its client keeps it; the process exits once the last ends.
StopsOnSignal == cancelled ~> pc = "exited" \/ HeldByWatch
=============================================================================
