------------------------------- MODULE Server -------------------------------
(***************************************************************************)
(* The HTTP server: main opens the connections, mounts the surfaces and    *)
(* serves until a signal or the loss of its metrics cancels the context;   *)
(* it then drains the requests in flight for as long as the grace lasts,   *)
(* closes the connections and flushes the telemetry.  Every request goes   *)
(* through the stack of middlewares, whose rate limiter keeps a bucket for *)
(* each client and forgets the idle ones.                                  *)
(***************************************************************************)
EXTENDS Integers

CONSTANTS
  Connections,  \* the TCP connections clients may hold at one time
  Hosts,        \* the clients, told apart by the host of their address
  Stranger,     \* no entry in the limiter's table
  Rps, Burst,   \* the limits configured, Rps being what a tick gives back
  TTL           \* ticks after which an idle client may be forgotten

ASSUME LimitsAssumption == Rps \in Nat /\ Burst \in Nat /\ TTL \in Nat
\* Nothing validates this one: the TTL is ten minutes, written in the code,
\* and the limits are free.
ASSUME RefillAssumption == Burst <= TTL * Rps
ASSUME StrangerAssumption == Stranger \notin [tokens : Int, idle : Int]

VARIABLES
  env,         \* "local" (development, test) or "deployed"
  metrics,     \* the metrics server: "off", "up", "failed" or "stopped"
  cancelled,   \* the context main derived and everything runs under
  main,        \* where run is
  outcome,     \* the error run will return, "nil" if none
  listener,    \* the goroutine of ListenAndServe
  pool,        \* the database pool: "none", "open", "closed"
  connection,  \* "free", "kept" open without a request, "running" its handler,
               \* or "holding" one of the pool's for it
  visitors     \* the limiter's table

\* History: a signal was received; what an ideal limiter, that forgets nobody,
\* would still grant to each client.
VARIABLES signalled, credit

process == <<env, metrics, cancelled, main, outcome, listener, signalled>>
limiter == <<visitors, credit>>
vars == <<process, pool, connection, limiter>>

Capped(n, top) == IF n < top THEN n ELSE top

InFlight == {c \in Connections : connection[c] \in {"running", "holding"}}

Init ==
  /\ env \in {"local", "deployed"}
  /\ metrics \in {"off", "up"}
  /\ cancelled = FALSE
  /\ main = "opening"
  /\ outcome = "nil"
  /\ listener = "none"
  /\ pool = "none"
  /\ connection = [c \in Connections |-> "free"]
  /\ visitors = [h \in Hosts |-> Stranger]
  /\ signalled = FALSE
  /\ credit = [h \in Hosts |-> Burst]

-----------------------------------------------------------------------------
(* The limiter: buckets refilled with time, evicted when a client comes.   *)

\* Rps tokens for each bucket, never more than Burst.
Tick ==
  /\ main # "exited"
  /\ visitors' = [h \in Hosts |->
       IF visitors[h] = Stranger THEN Stranger
       ELSE [tokens |-> Capped(visitors[h].tokens + Rps, Burst),
             idle |-> Capped(visitors[h].idle + 1, TTL + 1)]]
  /\ credit' = [h \in Hosts |-> Capped(credit[h] + Rps, Burst)]
  /\ UNCHANGED <<process, pool, connection>>

Newcomer == [tokens |-> Burst, idle |-> 0]

\* evictLocked.
Evicted(table) == [h \in Hosts |->
  IF table[h] # Stranger /\ table[h].idle > TTL THEN Stranger ELSE table[h]]

\* Broken on purpose: entered without a stamp, then evicted.
Entered_EvictedAfter(h) ==
  IF visitors[h] # Stranger THEN visitors
  ELSE Evicted([visitors EXCEPT ![h] = [tokens |-> Burst, idle |-> TTL + 1]])

\* The table in which the client is looked up: only a newcomer evicts, and
\* before it is entered.
Entered(h) ==
  IF visitors[h] # Stranger THEN visitors
  ELSE [Evicted(visitors) EXCEPT ![h] = Newcomer]

\* allow: a client that is refused is seen all the same.
Allow(h, allowed) ==
  LET table == Entered(h)
      bucket == IF table[h] = Stranger THEN Newcomer ELSE table[h]
      left == IF allowed THEN bucket.tokens - 1 ELSE bucket.tokens
  IN /\ allowed <=> bucket.tokens > 0
     /\ visitors' = IF table[h] = Stranger THEN table
                    ELSE [table EXCEPT ![h] = [tokens |-> left, idle |-> 0]]
     /\ credit' = IF allowed THEN [credit EXCEPT ![h] = @ - 1] ELSE credit

-----------------------------------------------------------------------------
(* Connections and requests.                                               *)

Turns(c, from, to) ==
  /\ main # "exited" /\ connection[c] = from
  /\ connection' = [connection EXCEPT ![c] = to]

\* Once Shutdown is called an answered connection is closed.
Kept == IF listener = "closed" THEN "free" ELSE "kept"

Accept(c) ==
  /\ listener = "up" /\ Turns(c, "free", "kept")
  /\ UNCHANGED <<process, pool, limiter>>

\* The client leaves, or Shutdown closes the idle connections.
CloseIdle(c) ==
  /\ Turns(c, "kept", "free")
  /\ UNCHANGED <<process, pool, limiter>>

\* CORS answers a preflight and MaxBody an oversized body before the limiter is
\* reached.
RefusedEarly(c) ==
  /\ Turns(c, "kept", Kept)
  /\ UNCHANGED <<process, pool, limiter>>

Throttled(c, h) ==
  /\ Turns(c, "kept", Kept)
  /\ Allow(h, FALSE)
  /\ UNCHANGED <<process, pool>>

\* The request, a probe like any other, reaches its handler.
Admitted(c, h) ==
  /\ Turns(c, "kept", "running")
  /\ Allow(h, TRUE)
  /\ UNCHANGED <<process, pool>>

\* A query of the handler keeps a connection of the pool; a pool that is closed
\* refuses it and the handler answers for itself.
Acquire(c) ==
  /\ pool = "open" /\ Turns(c, "running", "holding")
  /\ UNCHANGED <<process, pool, limiter>>

Release(c) ==
  /\ Turns(c, "holding", "running")
  /\ UNCHANGED <<process, pool, limiter>>

\* The handler returns, or panics and Recover answers for it; its deliberate
\* abort goes further up, and the connection is cut.
Answer(c) ==
  /\ Turns(c, "running", Kept) \/ Turns(c, "running", "free")
  /\ UNCHANGED <<process, pool, limiter>>

-----------------------------------------------------------------------------
(* run and serve.                                                          *)

Signal ==
  /\ ~signalled /\ main # "exited"
  /\ signalled' = TRUE
  /\ cancelled' = TRUE
  /\ UNCHANGED <<env, metrics, main, outcome, listener, pool, connection,
                 limiter>>

\* Broken on purpose: the failure is logged, wherever the service runs.
MetricsFail_Warns ==
  /\ metrics = "up" /\ main # "exited"
  /\ metrics' = "failed"
  /\ UNCHANGED <<env, cancelled, main, outcome, listener, signalled, pool,
                 connection, limiter>>

\* serveMetrics: the port is taken, or lost.
MetricsFail ==
  /\ metrics = "up" /\ main # "exited"
  /\ metrics' = "failed"
  /\ cancelled' = (cancelled \/ env = "deployed")
  /\ UNCHANGED <<env, main, outcome, listener, signalled, pool, connection,
                 limiter>>

\* It drains too; nobody waits for it.
MetricsStop ==
  /\ metrics = "up" /\ cancelled /\ main # "exited"
  /\ metrics' = "stopped"
  /\ UNCHANGED <<env, cancelled, main, outcome, listener, signalled, pool,
                 connection, limiter>>

Proceed(from, to) == main = from /\ main' = to

Fails(from, to) == Proceed(from, to) /\ outcome' = "error"

\* resources.Open: nothing unless a module requires it; the ping fails when
\* the context is cancelled.
Open ==
  /\ \/ /\ Proceed("opening", "mounting")
        /\ pool' = "none" \/ (~cancelled /\ pool' = "open")
        /\ UNCHANGED outcome
     \/ Fails("opening", "flushing") /\ UNCHANGED pool
  /\ UNCHANGED <<env, metrics, cancelled, listener, connection, signalled,
                 limiter>>

\* compose, the bootstrap account, then the server: it listens.
Mount ==
  /\ \/ Proceed("mounting", "serving") /\ listener' = "up" /\ UNCHANGED outcome
     \/ Fails("mounting", "closing") /\ UNCHANGED listener
  /\ UNCHANGED <<env, metrics, cancelled, pool, connection, signalled, limiter>>

ListenerFails ==
  /\ main = "serving" /\ listener = "up"
  /\ listener' = "failed"
  /\ UNCHANGED <<env, metrics, cancelled, main, outcome, pool, connection,
                 signalled, limiter>>

\* Run's select: with both ready, either.
ServingFails ==
  /\ listener = "failed"
  /\ Fails("serving", "closing")
  /\ UNCHANGED <<env, metrics, cancelled, listener, pool, connection, signalled,
                 limiter>>

Shutdown ==
  /\ cancelled
  /\ Proceed("serving", "draining")
  /\ listener' = "closed"
  /\ UNCHANGED <<env, metrics, cancelled, outcome, pool, connection, signalled,
                 limiter>>

\* Broken on purpose: the cancelled context is given to Shutdown, which
\* returns at once and whose error is lost.
Drained_CutOff ==
  /\ Proceed("draining", "closing")
  /\ UNCHANGED <<env, metrics, cancelled, outcome, listener, pool, connection,
                 signalled, limiter>>

Drained ==
  /\ Proceed("draining", "closing")
  /\ \A c \in Connections : connection[c] = "free"
  /\ UNCHANGED <<env, metrics, cancelled, outcome, listener, pool, connection,
                 signalled, limiter>>

\* The grace runs out: the handlers go on running.
GraceOver ==
  /\ Fails("draining", "closing")
  /\ UNCHANGED <<env, metrics, cancelled, listener, pool, connection, signalled,
                 limiter>>

\* Connections.Close: from its first instant the pool lends nothing any more...
ClosePool ==
  /\ main = "closing" /\ pool = "open"
  /\ pool' = "closed"
  /\ UNCHANGED <<process, connection, limiter>>

\* ... but it only returns once it was given everything back.
Closed ==
  /\ Proceed("closing", "flushing")
  /\ pool # "open"
  /\ \A c \in Connections : connection[c] # "holding"
  /\ UNCHANGED <<env, metrics, cancelled, outcome, listener, pool, connection,
                 signalled, limiter>>

\* stopObservability gives the exporters five seconds and only logs.
Flushed ==
  /\ Proceed("flushing", "exited")
  /\ cancelled' = TRUE
  /\ UNCHANGED <<env, metrics, outcome, listener, pool, connection, signalled,
                 limiter>>

-----------------------------------------------------------------------------
Handler(c) == Acquire(c) \/ Release(c) \/ Answer(c)
Main ==
  \/ Open \/ Mount \/ ServingFails \/ Shutdown \/ Drained \/ GraceOver
  \/ ClosePool \/ Closed \/ Flushed

Next ==
  \/ Tick \/ Signal \/ MetricsFail \/ MetricsStop \/ ListenerFails \/ Main
  \/ \E c \in Connections :
       \/ Accept(c) \/ CloseIdle(c) \/ RefusedEarly(c) \/ Handler(c)
       \/ \E h \in Hosts : Throttled(c, h) \/ Admitted(c, h)

Spec == Init /\ [][Next]_vars

\* main is scheduled and a query ends; no handler is supposed to return.
FairSpec ==
  Spec /\ WF_vars(Main) /\ \A c \in Connections : WF_vars(Release(c))

-----------------------------------------------------------------------------
(* Properties.                                                             *)

\* rate_limiter.go: forgetting idle clients, and entering new ones, never gives
\* a client more than a bucket nobody forgot would.
NeverOverTheBucket == \A h \in Hosts : credit[h] >= 0

\* httpserver.go, shutdown: a process that reports success let every request in
\* flight finish before it closed what their handlers use.
SuccessMeansDrained ==
  main \in {"closing", "flushing", "exited"} /\ outcome = "nil" =>
    InFlight = {}

\* observabilite.go: outside development a service without metrics ends, and a
\* signal ends it everywhere, whatever the handlers do.
EndsWhenAsked ==
  signalled \/ (env = "deployed" /\ metrics = "failed") ~> main = "exited"
=============================================================================
