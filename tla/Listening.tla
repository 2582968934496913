----------------------------- MODULE Listening ------------------------------
(***************************************************************************)
(* Accepting clients under --max-special-connections in                    *)
(* net/net-connections.c.  The listening sockets of the clients share one  *)
(* count of connections.  A socket that accepts the last one allowed is    *)
(* taken out of epoll, and its loop stops; the connection that closes at   *)
(* the limit signals JS_AUX to every listening job, which puts its socket  *)
(* back.  Accepting is done by the main thread, closing by cpu threads.    *)
(***************************************************************************)
EXTENDS Integers, FiniteSets

CONSTANTS Listener, max_special_connections,
          Cpu,          \* the threads of JC_CONNECTION
          MaxArrivals   \* how many clients come to each socket

VARIABLES
  backlog, arrived,     \* clients that wait in the kernel; that have come
  epoll,                \* the sockets with EVT_IN_EPOLL
  edge,                 \* those with an event that epoll has not reported yet
  run, aux,             \* listening jobs with JS_RUN, with JS_AUX pending
  main,                 \* [at, l]: where the main thread is
  active,               \* active_special_connections
  due,                  \* listening jobs each cpu thread has still to signal
  failed                \* accept failed with clients waiting
listenVars == <<backlog, arrived, epoll, edge, run, aux, main, active, due, failed>>

Idle == [at |-> "idle", l |-> CHOOSE l \in Listener : TRUE]
ListenInit ==
  /\ backlog = [l \in Listener |-> 0] /\ arrived = [l \in Listener |-> 0]
  /\ epoll = Listener /\ edge = {} /\ run = {} /\ aux = {}
  /\ main = Idle /\ active = 0 /\ due = [x \in Cpu |-> {}] /\ failed = FALSE

ClientArrives(l) ==
  /\ arrived[l] < MaxArrivals
  /\ backlog' = [backlog EXCEPT ![l] = @ + 1] /\ arrived' = [arrived EXCEPT ![l] = @ + 1]
  /\ edge' = IF l \in epoll THEN edge \cup {l} ELSE edge
  /\ UNCHANGED <<epoll, run, aux, main, active, due, failed>>

\* net_server_socket_read_write_gateway for the listening socket
ListenGateway(l) ==
  /\ main = Idle /\ l \in edge
  /\ edge' = edge \ {l} /\ run' = run \cup {l}
  /\ UNCHANGED <<backlog, arrived, epoll, aux, main, active, due, failed>>

\* do_listening_connection_job
ListenRun(l) ==
  /\ main = Idle /\ l \in run
  /\ run' = run \ {l} /\ main' = [at |-> "accept", l |-> l]
  /\ UNCHANGED <<backlog, arrived, epoll, edge, aux, active, due, failed>>
Aux(l) ==
  /\ main = Idle /\ l \in aux
  /\ aux' = aux \ {l} /\ epoll' = epoll \cup {l}
  /\ edge' = IF l \notin epoll /\ backlog[l] > 0 THEN edge \cup {l} ELSE edge
  /\ UNCHANGED <<backlog, arrived, run, main, active, due, failed>>

\* net_accept_new_connections: one turn of the loop, up to the atomic addition
\* of alloc_new_connection; a client may also be closed at once (the accept
\* rate, the limit on descriptors, a failing init_accepted)
Accept ==
  LET l == main.l IN
  /\ main.at = "accept"
  /\ IF l \notin epoll \/ backlog[l] = 0
     THEN main' = Idle /\ UNCHANGED <<backlog, active>>
     ELSE /\ backlog' = [backlog EXCEPT ![l] = @ - 1]
          /\ \/ active' = active + 1 /\ main' = [main EXCEPT !.at = "limit"]
             \/ UNCHANGED <<active, main>>
  /\ UNCHANGED <<arrived, epoll, edge, run, aux, due, failed>>
\* any error of accept ends the loop
AcceptFails ==
  /\ main.at = "accept" /\ main.l \in epoll /\ backlog[main.l] > 0
  /\ main' = Idle /\ failed' = TRUE
  /\ UNCHANGED <<backlog, arrived, epoll, edge, run, aux, active, due>>
\* the count is read again to decide whether the socket leaves epoll
Limit ==
  /\ main.at = "limit" /\ main' = [main EXCEPT !.at = "accept"]
  /\ IF active >= max_special_connections
     THEN epoll' = epoll \ {main.l} /\ edge' = edge \ {main.l}
     ELSE UNCHANGED <<epoll, edge>>
  /\ UNCHANGED <<backlog, arrived, run, aux, active, due, failed>>

\* cpu_server_close_connection of a client's connection
Close_Below(x) ==
  /\ due[x] = {} /\ active > 0
  /\ active' = active - 1
  /\ due' = [due EXCEPT ![x] = IF active < max_special_connections THEN Listener ELSE {}]
  /\ UNCHANGED <<backlog, arrived, epoll, edge, run, aux, main, failed>>
Close(x) ==
  /\ due[x] = {} /\ active > 0
  /\ active' = active - 1
  /\ due' = [due EXCEPT ![x] = IF active = max_special_connections THEN Listener ELSE {}]
  /\ UNCHANGED <<backlog, arrived, epoll, edge, run, aux, main, failed>>
Wake(x, l) ==
  /\ l \in due[x] /\ due' = [due EXCEPT ![x] = @ \ {l}] /\ aux' = aux \cup {l}
  /\ UNCHANGED <<backlog, arrived, epoll, edge, run, main, active, failed>>

ListenNext ==
  \/ Accept \/ AcceptFails \/ Limit
  \/ \E l \in Listener : ClientArrives(l) \/ ListenGateway(l) \/ ListenRun(l) \/ Aux(l)
  \/ \E x \in Cpu : Close(x) \/ \E l \in Listener : Wake(x, l)
ListenSpec == ListenInit /\ [][ListenNext]_listenVars
\* The main thread goes on with its events and jobs, the cpu threads end what they began, and clients
\* do not stay for ever.
ListenMain == Accept \/ Limit \/ \E l \in Listener : ListenGateway(l) \/ ListenRun(l) \/ Aux(l)
ListenFairSpec ==
  /\ ListenSpec /\ WF_listenVars(ListenMain)
  /\ \A x \in Cpu : WF_listenVars(Close(x)) /\ \A l \in Listener : WF_listenVars(Wake(x, l))

(***************************************************************************)
(* Properties.                                                             *)
(***************************************************************************)
\* Below the limit every listening socket is in epoll or about to be put back, however accepting
\* and closing interleave: the limit never leaves a socket deaf.
NoneDeaf ==
  active < max_special_connections =>
     \A l \in Listener : l \in epoll \/ l \in aux \/ \E x \in Cpu : l \in due[x]

\* The limit is passed by few connections for each listening socket: one that a socket accepts before
\* it leaves epoll, one after a signal that came too late, and one for each thread whose signal has
\* still to come.
LimitNearlyKept ==
  active <= max_special_connections - 1 + (2 + Cardinality(Cpu)) * Cardinality(Listener)

\* A client that waits is accepted in the end, also when the limit had been reached, unless an accept
\* failed.
ClientsAccepted == \A l \in Listener : backlog[l] > 0 ~> backlog[l] = 0 \/ failed

\* The limit on connections is nearly kept, and makes no listening socket deaf.
ListeningSafe == NoneDeaf /\ LimitNearlyKept
=============================================================================
