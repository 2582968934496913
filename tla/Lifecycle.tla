----------------------------- MODULE Lifecycle -----------------------------
(***************************************************************************)
(* The life of a proxy process from the moment it listens: the accept loop *)
(* (ingress.go), one handler goroutine per client connection (handleConn   *)
(* of client_ingress.go), the registry of connections and its drain        *)
(* (lifecycle.go), the signal goroutine and Runtime.Shutdown (runtime.go), *)
(* and main, whose return ends the process and every goroutine in it (when *)
(* Embedded is TRUE another program called Runtime.Start and goes on).     *)
(*                                                                         *)
(* OutboundProxy is module Outbound; what matters of it here is whether    *)
(* it has a connection open and that Close fails the requests in flight.   *)
(***************************************************************************)
EXTENDS Naturals, FiniteSets

CONSTANTS Conn,      \* client connections
          Embedded   \* whether the process outlives Runtime.Start

VARIABLES
  h,        \* where the handler goroutine of a connection is
  csock,    \* the proxy's end of the connection: "none", "open", "closed"
  tracked,  \* GracefulShutdown.conns
  ln,       \* the listener is open
  ctx,      \* the context has been cancelled
  main,     \* Runtime.Start: "serve" (in Accept), "returned", "failed"
  spc,      \* where the signal goroutine (Runtime.Shutdown) is
  snap,     \* forceClose: the connections it copied and has yet to close
  pool      \* OutboundProxy has an open connection

lifeVars == <<h, csock, tracked, ln, ctx, main, spc, snap, pool>>
handlerVars == <<h, csock, tracked>>

Handling == {"serving", "forwarding", "returning"}

LifeInit ==
  /\ h = [x \in Conn |-> "absent"] /\ csock = [x \in Conn |-> "none"]
  /\ tracked = {} /\ ln = TRUE /\ ctx = FALSE /\ main = "serve"
  /\ spc = "wait" /\ snap = {} /\ pool = FALSE

\* The process runs; the goroutine of x is at l.
Running == main = "serve" \/ Embedded
At(x, l) == Running /\ h[x] = l
Goto(x, l) == h' = [h EXCEPT ![x] = l]

(***************************************************************************)
(* The accept loop, in the main goroutine.                                 *)
(***************************************************************************)
\* A client's connection is completed by the kernel and waits to be accepted.
Dial(x) ==
  /\ At(x, "absent") /\ ln
  /\ Goto(x, "queued") /\ csock' = [csock EXCEPT ![x] = "open"]
  /\ UNCHANGED <<tracked, ln, ctx, main, spc, snap, pool>>

\* Accept returns it and a goroutine is started for it.
Accept(x) ==
  /\ At(x, "queued") /\ main = "serve" /\ ln /\ Goto(x, "spawned")
  /\ UNCHANGED <<csock, tracked, ln, ctx, main, spc, snap, pool>>

\* The goroutine that closes the listener when the context is cancelled.  The
\* kernel resets what waits to be accepted.
CloseListener ==
  /\ Running /\ ctx /\ ln /\ ln' = FALSE
  /\ csock' = [x \in Conn |-> IF h[x] = "queued" THEN "closed" ELSE csock[x]]
  /\ h' = [x \in Conn |-> IF h[x] = "queued" THEN "done" ELSE h[x]]
  /\ UNCHANGED <<tracked, ctx, main, spc, snap, pool>>

\* Accept fails because the listener is closed: Start returns nil, main ends.
Return ==
  /\ main = "serve" /\ ~ln /\ main' = "returned"
  /\ UNCHANGED <<handlerVars, ln, ctx, spc, snap, pool>>

\* Accept fails otherwise: Start returns an error (its deferred cancel runs) or,
\* once the context is cancelled, nil.
AcceptError ==
  /\ main = "serve" /\ ln /\ ctx' = TRUE
  /\ main' = IF ctx THEN "returned" ELSE "failed"
  /\ UNCHANGED <<handlerVars, ln, spc, snap, pool>>

(***************************************************************************)
(* handleConn.                                                             *)
(***************************************************************************)
Track_Late(x) ==
  /\ At(x, "spawned") /\ Goto(x, "serving") /\ tracked' = tracked
  /\ UNCHANGED <<csock, ln, ctx, main, spc, snap, pool>>

Track(x) ==
  /\ At(x, "spawned") /\ Goto(x, "serving") /\ tracked' = tracked \cup {x}
  /\ UNCHANGED <<csock, ln, ctx, main, spc, snap, pool>>

\* A packet is read and handed to the dataplane ...
Forward(x) ==
  /\ At(x, "serving") /\ csock[x] = "open" /\ Goto(x, "forwarding")
  /\ UNCHANGED <<csock, tracked, ln, ctx, main, spc, snap, pool>>

\* ... which answers, over a connection of the pool opened for it if need be; the
\* answer is written, or the write fails ...
Answered(x) ==
  /\ At(x, "forwarding") /\ pool' = TRUE
  /\ \E l \in {"serving", "returning"} : Goto(x, l)
  /\ UNCHANGED <<csock, tracked, ln, ctx, main, spc, snap>>

\* ... or fails.
ForwardFailed(x) ==
  /\ At(x, "forwarding") /\ Goto(x, "returning")
  /\ UNCHANGED <<csock, tracked, ln, ctx, main, spc, snap, pool>>

\* The header or a packet is bad, the client leaves, a deadline passes, or the
\* connection was closed under the reader.
ReadFailed(x) ==
  /\ At(x, "serving") /\ Goto(x, "returning")
  /\ UNCHANGED <<csock, tracked, ln, ctx, main, spc, snap, pool>>

\* The deferred calls, last first: Untrack, then Close.
Untrack(x) ==
  /\ At(x, "returning") /\ Goto(x, "closing") /\ tracked' = tracked \ {x}
  /\ UNCHANGED <<csock, ln, ctx, main, spc, snap, pool>>

CloseClient(x) ==
  /\ At(x, "closing") /\ Goto(x, "done") /\ csock' = [csock EXCEPT ![x] = "closed"]
  /\ UNCHANGED <<tracked, ln, ctx, main, spc, snap, pool>>

Handler(x) == \/ Track(x) \/ Forward(x) \/ Answered(x) \/ ForwardFailed(x)
              \/ ReadFailed(x) \/ Untrack(x) \/ CloseClient(x)

(***************************************************************************)
(* The signal goroutine: Runtime.Shutdown and GracefulShutdown.Shutdown.   *)
(***************************************************************************)
ShutdownAt(l) == Running /\ spc = l

\* The context is cancelled first (Start failed): the goroutine ends.
SignalOff ==
  /\ ShutdownAt("wait") /\ ctx /\ spc' = "off"
  /\ UNCHANGED <<handlerVars, ln, ctx, main, snap, pool>>

\* SIGTERM or SIGINT arrives; the hot reloader and the stats server stop.
Signal ==
  /\ ShutdownAt("wait") /\ spc' = "outbound"
  /\ UNCHANGED <<handlerVars, ln, ctx, main, snap, pool>>

\* Outbound.Close.
CloseOutbound ==
  /\ ShutdownAt("outbound") /\ spc' = "cancel" /\ pool' = FALSE
  /\ UNCHANGED <<handlerVars, ln, ctx, main, snap>>

Cancel ==
  /\ ShutdownAt("cancel") /\ spc' = "drain" /\ ctx' = TRUE
  /\ UNCHANGED <<handlerVars, ln, main, snap, pool>>

Tick_Any ==
  /\ ShutdownAt("drain") /\ spc' = "done"
  /\ UNCHANGED <<handlerVars, ln, ctx, main, snap, pool>>

\* A tick of the 100 ms ticker that finds no connection registered.
Tick ==
  /\ ShutdownAt("drain") /\ tracked = {} /\ spc' = "done"
  /\ UNCHANGED <<handlerVars, ln, ctx, main, snap, pool>>

\* The 5 s deadline: forceClose copies the registry ...
Deadline ==
  /\ ShutdownAt("drain") /\ spc' = "force" /\ snap' = tracked
  /\ UNCHANGED <<handlerVars, ln, ctx, main, pool>>


\* ... and closes the copies one by one.
ForceClose ==
  /\ ShutdownAt("force")
  /\ \E x \in snap : snap' = snap \ {x} /\ csock' = [csock EXCEPT ![x] = "closed"]
  /\ UNCHANGED <<h, tracked, ln, ctx, main, spc, pool>>

ForceDone ==
  /\ ShutdownAt("force") /\ snap = {} /\ spc' = "done"
  /\ UNCHANGED <<handlerVars, ln, ctx, main, snap, pool>>

Shutdown == \/ SignalOff \/ Signal \/ CloseOutbound \/ Cancel \/ Tick \/ Deadline
            \/ ForceClose \/ ForceDone

LifeNext ==
  \/ \E x \in Conn : Dial(x) \/ Accept(x) \/ Handler(x)
  \/ CloseListener \/ Return \/ AcceptError
  \/ Shutdown

LifeSpec == LifeInit /\ [][LifeNext]_lifeVars

(***************************************************************************)
(* Fairness: goroutines run, timers fire (the ticker and the deadline, the *)
(* deadlines of ForwardPacket), a read on a closed connection fails.  A    *)
(* client is free to stay silent, and no signal need ever come.            *)
(***************************************************************************)
LifeFairness ==
  /\ WF_lifeVars(CloseListener) /\ WF_lifeVars(Return)
  /\ WF_lifeVars(CloseOutbound \/ Cancel \/ Deadline \/ ForceClose \/ ForceDone)
  /\ \A x \in Conn :
       /\ WF_lifeVars(Track(x)) /\ WF_lifeVars(Untrack(x) \/ CloseClient(x))
       /\ WF_lifeVars(Answered(x) \/ ForwardFailed(x))
       /\ WF_lifeVars(csock[x] = "closed" /\ ReadFailed(x))

LifeFairSpec == LifeSpec /\ LifeFairness

(***************************************************************************)
(* Properties.                                                             *)
(***************************************************************************)
\* Type invariant of the process.
LifeTypeOK ==
  /\ h \in [Conn -> Handling \cup {"absent", "queued", "spawned", "closing", "done"}]
  /\ csock \in [Conn -> {"none", "open", "closed"}]
  /\ tracked \subseteq Conn /\ snap \subseteq Conn
  /\ ln \in BOOLEAN /\ ctx \in BOOLEAN /\ pool \in BOOLEAN
  /\ main \in {"serve", "returned", "failed"}
  /\ spc \in {"wait", "off", "outbound", "cancel", "drain", "force", "done"}

\* A drain that ends before its deadline ends with no client in service: the
\* registry the ticker looks at misses no handler that has begun.  (Handlers
\* spawned and not yet registered are outside it.)
QuietDrain ==
  [][spc = "drain" /\ spc' = "done" => \A x \in Conn : h[x] \notin Handling]_lifeVars

\* A connection that the proxy has not closed is waiting to be accepted, on its
\* way to Track, registered, or on its way from Untrack to Close; and nothing is
\* registered that is not in service.  So forceClose can reach every client.
OpenIsReachable ==
  \A x \in Conn :
    /\ csock[x] = "open" => h[x] \in {"queued", "spawned", "closing"} \/ x \in tracked
    /\ x \in tracked => h[x] \in Handling

\* Every client that is registered when the drain deadline passes is let go: its
\* handler ends, whatever the client does (unless the process ends first).
ForcedClientsEnd ==
  \A x \in Conn : (spc = "force" /\ x \in snap) ~> (h[x] = "done" \/ ~Running)

\* A SIGTERM is never ignored: Runtime.Start returns.
SignalEndsStart == spc = "outbound" ~> main # "serve"

\* Runtime.Shutdown returns, within the drain timeout (unless the process ends).
ShutdownReturns == spc = "outbound" ~> spc = "done" \/ ~Running

\* lifecycle.go: Shutdown "waits drainTimeout for active connections to finish",
\* then closes the rest: a process does not end cleanly with clients in service
\* that were given neither.
DrainedBeforeExit ==
  main = "returned" /\ ~Running => \A x \in Conn : h[x] \in Handling => spc = "done"

=============================================================================
