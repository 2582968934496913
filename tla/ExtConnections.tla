--------------------------- MODULE ExtConnections ---------------------------
(***************************************************************************)
(* The core of the original proxy (mtproto/mtproto-proxy.c): the table of  *)
(* external connections, which ties a client connection to the data-centre *)
(* connection its queries go to, and the engine thread that works on it.   *)
(*                                                                         *)
(* Two worlds meet here.  Network threads accept, parse, fail and free     *)
(* connections (net-connections.c) and leave work for the engine: packet   *)
(* jobs in the engine's FIFO queue, ready and close events in the queue of *)
(* the notification job (net-thread.c), which empties it whole each time   *)
(* it runs.  The engine thread does one piece of work at a time.  A job    *)
(* may so run after the close of its connection, and a descriptor is free  *)
(* for reuse only when no job or event refers to its connection.           *)
(*                                                                         *)
(* EXT_CONN_TABLE_SIZE exceeds MAX_CONNECTIONS and in_conn_id is always 0, *)
(* so the slot of OutExtConnections is in_fd and the hash on (in_fd, 0) is *)
(* the same table: ex is indexed by in_fd, and out_conn_id, which grows by *)
(* EXT_CONN_TABLE_SIZE each time the slot is taken, is <<slot, epoch>>.    *)
(***************************************************************************)
EXTENDS Naturals, Sequences, FiniteSets

CONSTANTS Fd,        \* descriptors
          MaxGen,    \* bound: connections made, numbered by their generation
          Secret,    \* proxy secrets; 0 stands for secret_id -1
          Key,       \* auth_key_ids; 0 in packets of a key exchange
          Ip,        \* client addresses
          MaxPkt,    \* bound: packets of clients
          MaxAns,    \* bound: packets of data centres
          NoEx, None

Gen == 1 .. MaxGen

VARIABLES
  conn,    \* connections, by generation
  next,    \* the next generation
  tab,     \* the table of external connections, its LRU list and its counters
  jobs,    \* the queue of JC_ENGINE
  events,  \* the queue of the notification job
  eng,     \* where the engine thread is: "idle", "drain" (in notification_event_run),
           \* "unlink" (in mtfront_client_close), "lru" (in check_all_conn_buffers)
  seen,    \* queries that reached the DC on a connection: <<out_conn_id, asker>>
  known,   \* out_conn_ids opened by a first query that neither end has closed
  got,     \* answers handed to client connections: <<connection, asker>>
  npkt, nans

netVars == <<next, npkt, nans>>
queueVars == <<jobs, events, eng>>
dcVars == <<seen, known, got>>
vars == <<conn, tab, netVars, queueVars, dcVars>>

NoConn == [kind |-> "none", fd |-> 0, hs |-> FALSE, err |-> FALSE, closed |-> FALSE,
           serr |-> FALSE, sec |-> 0, ip |-> 0, dropped |-> FALSE, tag |-> FALSE]

Init ==
  /\ conn = [g \in Gen |-> NoConn] /\ next = 1
  /\ tab = [ex |-> [f \in Fd |-> NoEx], epoch |-> [f \in Fd |-> 0], lru |-> <<>>,
            kref |-> [p \in Secret \X Key |-> 0], nKeys |-> [s \in Secret |-> 0],
            cref |-> [p \in Secret \X Ip |-> 0], nClients |-> [s \in Secret |-> 0]]
  /\ jobs = <<>> /\ events = <<>> /\ eng = "idle"
  /\ seen = [g \in Gen |-> {}] /\ known = [g \in Gen |-> {}] /\ got = {}
  /\ npkt = 0 /\ nans = 0

(***************************************************************************)
(* Connections as the engine sees them.                                    *)
(***************************************************************************)
Exists(g) == conn[g].kind \in {"in", "out"}

\* connection_get_by_fd_generation finds a connection until its socket has failed.
Found(g) == Exists(g) /\ ~conn[g].serr

\* fail_connection: the network threads do the rest.
Failing(c, G) == [g \in Gen |-> IF g \in G THEN [c[g] EXCEPT !.err = TRUE] ELSE c[g]]

(***************************************************************************)
(* The table.  Operators map a table to a table.                           *)
(***************************************************************************)
OutConnId(t, f) == <<f, t.epoch[f]>>

UntrackKey(t, f) ==
  LET p == t.ex[f].tkey IN
  IF p = None THEN t
  ELSE LET u == [t EXCEPT !.ex[f].tkey = None] IN
       IF t.kref[p] = 0 THEN u
       ELSE [u EXCEPT !.kref[p] = @ - 1,
                      !.nKeys[p[1]] = IF t.kref[p] = 1 THEN @ - 1 ELSE @]

TrackKey(t, f, s, k) ==
  IF t.ex[f].tkey = <<s, k>> THEN t
  ELSE LET u == UntrackKey(t, f) IN
       IF s = 0 \/ k = 0 THEN u
       ELSE [u EXCEPT !.ex[f].tkey = <<s, k>>, !.kref[<<s, k>>] = @ + 1,
                      !.nKeys[s] = IF u.kref[<<s, k>>] = 0 THEN @ + 1 ELSE @]

UntrackClient(t, f) ==
  LET p == t.ex[f].tcli IN
  IF p = None THEN t
  ELSE LET u == [t EXCEPT !.ex[f].tcli = None] IN
       IF t.cref[p] = 0 THEN u
       ELSE [u EXCEPT !.cref[p] = @ - 1,
                      !.nClients[p[1]] = IF t.cref[p] = 1 THEN @ - 1 ELSE @]

TrackClient(t, f, s, ip) ==
  IF s = 0 THEN UntrackClient(t, f)
  ELSE IF t.ex[f].tcli = <<s, ip>> THEN t
  ELSE LET u == UntrackClient(t, f) IN
       [u EXCEPT !.ex[f].tcli = <<s, ip>>, !.cref[<<s, ip>>] = @ + 1,
                 !.nClients[s] = IF u.cref[<<s, ip>>] = 0 THEN @ + 1 ELSE @]

LruDelete(t, f) == [t EXCEPT !.lru = SelectSeq(@, LAMBDA e : e # f)]

\* lru_insert_conn: only if the external connection is the connection's own.
LruInsert(t, g) ==
  LET f == conn[g].fd IN
  IF t.ex[f] # NoEx /\ t.ex[f].inGen = g
    THEN [t EXCEPT !.lru = Append(LruDelete(t, f).lru, f)] ELSE t

\* get_ext_connection_by_in_conn_id, mode 1.
Delete(t, f) ==
  [LruDelete(UntrackClient(UntrackKey(t, f), f), f) EXCEPT !.ex[f] = NoEx]

\* create_ext_connection: the slot is free (get_ext_connection_by_in_fd found none).
Create(t, g, d, k) ==
  LET f == conn[g].fd IN
  [t EXCEPT !.epoch[f] = @ + 1,
            !.ex[f] = [inGen |-> g, outFd |-> conn[d].fd, outGen |-> d, key |-> k,
                       tkey |-> None, tcli |-> None]]

\* The DC is sent RPC_CLOSE_CONN.
Told(kn, d, id) == [kn EXCEPT ![d] = @ \ {id}]

\* remove_ext_connection (Ex, 1): tell the DC, if the connection can be found.
NotifyRemoved(kn, f) ==
  LET e == tab.ex[f] IN
  IF Found(e.outGen) THEN Told(kn, e.outGen, OutConnId(tab, f)) ELSE kn

(***************************************************************************)
(* Network threads.                                                        *)
(***************************************************************************)
Free(f) == \A g \in Gen : Exists(g) => conn[g].fd # f

\* notification_event_insert_conn signals the job; it is queued unless it already is.
InsertEvent(t, g) ==
  /\ events' = Append(events, [t |-> t, g |-> g])
  /\ jobs' = IF \E i \in DOMAIN jobs : jobs[i].t = "notify" THEN jobs
             ELSE Append(jobs, [t |-> "notify"])
  /\ UNCHANGED eng

\* A client is accepted; its secret is found before its first packet.
Accept(f, s, ip) ==
  /\ next <= MaxGen /\ Free(f)
  /\ conn' = [conn EXCEPT ![next] =
                [NoConn EXCEPT !.kind = "in", !.fd = f, !.sec = s, !.ip = ip]]
  /\ next' = next + 1 /\ InsertEvent("ready", next)
  /\ UNCHANGED <<tab, npkt, nans, dcVars>>

\* create_new_connections: a connection to a DC, not yet shaken hands.
Dial(f) ==
  /\ next <= MaxGen /\ Free(f)
  /\ conn' = [conn EXCEPT ![next] = [NoConn EXCEPT !.kind = "out", !.fd = f]]
  /\ next' = next + 1 /\ UNCHANGED <<tab, npkt, nans, queueVars, dcVars>>

Handshaken(g) ==
  /\ conn[g].kind = "out" /\ ~conn[g].hs /\ ~conn[g].err
  /\ conn' = [conn EXCEPT ![g].hs = TRUE] /\ InsertEvent("ready", g)
  /\ UNCHANGED <<tab, netVars, dcVars>>

\* ext_rpcs_execute: a packet of a client is left for the engine; k is None in one
\* that forward_mtproto_packet refuses.
ext_rpcs_execute(g, k) ==
  /\ conn[g].kind = "in" /\ ~conn[g].err /\ npkt < MaxPkt
  /\ jobs' = Append(jobs, [t |-> "packet", g |-> g, k |-> k])
  /\ npkt' = npkt + 1 /\ UNCHANGED <<conn, tab, next, nans, events, eng, dcVars>>

\* rpcc_execute: an answer (or a simple ack) to query q; or the DC closes its end
\* of an external connection.  The DC may still answer what it was told is closed.
rpcc_execute(g, t, q) ==
  /\ conn[g].kind = "out" /\ conn[g].hs /\ ~conn[g].err /\ nans < MaxAns
  /\ q \in seen[g] /\ (t = "close" => q[1] \in known[g])
  /\ jobs' = Append(jobs, [t |-> t, g |-> g, q |-> q])
  /\ known' = IF t = "close" THEN Told(known, g, q[1]) ELSE known
  /\ nans' = nans + 1 /\ UNCHANGED <<conn, tab, next, npkt, events, eng, seen, got>>

\* The socket fails (fail_socket_connection), or a network thread gives up on the
\* connection (fail_connection: a flood, a bad packet, a timeout).
Fail(g, socket) ==
  /\ Exists(g) /\ ~conn[g].err
  /\ conn' = [conn EXCEPT ![g].err = TRUE, ![g].serr = socket]
  /\ UNCHANGED <<tab, netVars, queueVars, dcVars>>

\* do_connection_job, JS_ABORT: type->close leaves the event and the target.
Close(g) ==
  /\ Exists(g) /\ conn[g].err /\ ~conn[g].closed
  /\ conn' = [conn EXCEPT ![g].closed = TRUE] /\ InsertEvent("close", g)
  /\ UNCHANGED <<tab, netVars, dcVars>>

\* ... and its socket connection is aborted.
SocketAbort(g) ==
  /\ Exists(g) /\ conn[g].closed /\ ~conn[g].serr
  /\ conn' = [conn EXCEPT ![g].serr = TRUE]
  /\ UNCHANGED <<tab, netVars, queueVars, dcVars>>

\* cpu_server_free_connection: with the last reference the descriptor is closed.
Unreferenced(g) ==
  /\ \A i \in DOMAIN events : events[i].g # g
  /\ \A i \in DOMAIN jobs : jobs[i].t # "notify" => jobs[i].g # g

FreeConnection(g) ==
  /\ Exists(g) /\ conn[g].closed /\ conn[g].serr /\ Unreferenced(g)
  /\ conn' = [conn EXCEPT ![g].kind = "gone"]
  /\ UNCHANGED <<tab, netVars, queueVars, dcVars>>

(***************************************************************************)
(* The engine: packets of clients (do_rpcs_execute).                       *)
(***************************************************************************)
Run(t) == eng = "idle" /\ jobs # <<>> /\ Head(jobs).t = t /\ jobs' = Tail(jobs)

\* rpc_target_choose_random_connections looks at connections without an error;
\* five draws may all hit one whose ready event has not been handled yet.
Candidates == {d \in Gen : conn[d].kind = "out" /\ conn[d].hs /\ ~conn[d].err}
Tagged     == {d \in Candidates : conn[d].tag}
NoneChosen == Tagged = {} \/ Candidates # Tagged

\* forward_tcp_query up to the choice of a connection: the table after the LRU
\* update and, if the DC connection of Ex is gone, after the removal of Ex.
Kept(f) == /\ tab.ex[f] # NoEx /\ Found(tab.ex[f].outGen)
           /\ ~conn[tab.ex[f].outGen].closed
Looked(g, k) ==
  LET f == conn[g].fd
      t == LruInsert(tab, g)
  IN  IF tab.ex[f] = NoEx THEN t
      ELSE IF ~Kept(f) THEN Delete(t, f)
      ELSE IF k # 0 THEN [t EXCEPT !.ex[f].key = k] ELSE t
LookedKnown(f) == IF tab.ex[f] # NoEx /\ ~Kept(f) THEN NotifyRemoved(known, f) ELSE known

Send(t, g, d) ==
  LET f == conn[g].fd
      s == conn[g].sec
  IN  /\ tab' = TrackClient(TrackKey(t, f, s, t.ex[f].key), f, s, conn[g].ip)
      /\ seen' = [seen EXCEPT ![d] = @ \cup {<<OutConnId(t, f), g>>}]

Packet == Head(jobs)

\* forward_mtproto_packet finds a bad length or function: only the LRU list changes.
Ignore ==
  /\ Run("packet") /\ Packet.k = None /\ tab' = LruInsert(tab, Packet.g)
  /\ UNCHANGED <<conn, netVars, events, eng, dcVars>>

Forward ==
  /\ Run("packet") /\ Packet.k # None /\ Kept(conn[Packet.g].fd)
  /\ Send(Looked(Packet.g, Packet.k), Packet.g, tab.ex[conn[Packet.g].fd].outGen)
  /\ UNCHANGED <<conn, netVars, events, eng, known, got>>

ForwardNew ==
  /\ Run("packet") /\ Packet.k # None /\ ~Kept(conn[Packet.g].fd)
  /\ ~conn[Packet.g].dropped
  /\ LET f == conn[Packet.g].fd IN
     \E d \in Tagged :
       LET t == Create(Looked(Packet.g, Packet.k), Packet.g, d, Packet.k)
       IN  /\ Send(t, Packet.g, d)
           /\ known' = [LookedKnown(f) EXCEPT ![d] = @ \cup {OutConnId(t, f)}]
  /\ UNCHANGED <<conn, netVars, events, eng, got>>

\* Nowhere to forward: the connection is marked; or it was marked and is closed.
Drop ==
  /\ Run("packet") /\ Packet.k # None /\ ~Kept(conn[Packet.g].fd)
  /\ \/ NoneChosen /\ conn' = [conn EXCEPT ![Packet.g].dropped = TRUE]
     \/ /\ Tagged # {} /\ conn[Packet.g].dropped
        /\ conn' = Failing(conn, {Packet.g})
  /\ tab' = Looked(Packet.g, Packet.k) /\ known' = LookedKnown(conn[Packet.g].fd)
  /\ UNCHANGED <<netVars, events, eng, seen, got>>

(***************************************************************************)
(* The engine: packets of data centres (process_client_packet).            *)
(***************************************************************************)
\* find_ext_connection_by_out_conn_id.
Live(id) == tab.ex[id[1]] # NoEx /\ tab.epoch[id[1]] = id[2]

\* The client connection an answer is for: {} if it is dropped.
Addressee(c, id) ==
  {g \in Gen : Live(id) /\ tab.ex[id[1]].outGen = c /\ g = tab.ex[id[1]].inGen /\ Found(g)}

\* client_send_message: check_conn_buffers may fail the client before or after.
Answer ==
  /\ Run("answer")
  /\ \E g \in Addressee(Packet.g, Packet.q[1]) :
       \E sent, full \in BOOLEAN :
         /\ sent \/ full
         /\ got' = IF sent THEN got \cup {<<g, Packet.q[2]>>} ELSE got
         /\ conn' = IF full THEN Failing(conn, {g}) ELSE conn
  /\ UNCHANGED <<tab, netVars, events, eng, seen, known>>

DropAnswer ==
  /\ Run("answer") /\ Addressee(Packet.g, Packet.q[1]) = {}
  /\ known' = Told(known, Packet.g, Packet.q[1])
  /\ UNCHANGED <<conn, tab, netVars, events, eng, seen, got>>

\* remove_ext_connection (Ex, 2) fails the client.
Owner(f) == {g \in {tab.ex[f].inGen} : Found(g)}

CloseExt ==
  /\ Run("close")
  /\ IF Live(Packet.q[1])
       THEN LET f == Packet.q[1][1]
            IN  tab' = Delete(tab, f) /\ conn' = Failing(conn, Owner(f))
       ELSE UNCHANGED <<tab, conn>>
  /\ UNCHANGED <<netVars, events, eng, dcVars>>

(***************************************************************************)
(* The engine: events of connections (notification_event_run).             *)
(***************************************************************************)
Notified ==
  /\ Run("notify") /\ eng' = "drain"
  /\ UNCHANGED <<conn, tab, netVars, events, dcVars>>

Event(t, kind) ==
  /\ eng = "drain" /\ events # <<>> /\ Head(events).t = t
  /\ conn[Head(events).g].kind = kind
E0 == Head(events).g

\* mtproto_ext_rpc_ready.
ClientReady ==
  /\ Event("ready", "in") /\ events' = Tail(events)
  /\ tab' = LruInsert(tab, E0)
  /\ UNCHANGED <<conn, netVars, jobs, eng, dcVars>>

\* mtfront_client_ready.
DCReady ==
  /\ Event("ready", "out") /\ events' = Tail(events)
  /\ conn' = [conn EXCEPT ![E0].tag = TRUE]
  /\ UNCHANGED <<tab, netVars, jobs, eng, dcVars>>

\* mtproto_ext_rpc_close: whatever external connection its descriptor has.
ClientClose ==
  /\ Event("close", "in") /\ events' = Tail(events)
  /\ conn' = [conn EXCEPT ![E0].sec = 0]
  /\ LET f == conn[E0].fd
     IN  IF tab.ex[f] = NoEx THEN UNCHANGED <<tab, known>>
         ELSE tab' = Delete(tab, f) /\ known' = NotifyRemoved(known, f)
  /\ UNCHANGED <<netVars, jobs, eng, seen, got>>

\* mtfront_client_close walks the list of its external connections ...
Linked(g) == {f \in Fd : tab.ex[f] # NoEx /\ tab.ex[f].outFd = conn[g].fd}

DCClose ==
  /\ Event("close", "out")
  /\ IF conn[E0].tag THEN eng' = "unlink" /\ events' = events
                     ELSE eng' = eng /\ events' = Tail(events)
  /\ UNCHANGED <<conn, tab, netVars, jobs, dcVars>>

\* ... removing each and failing its client, then forgets the connection.
Unlink_KeepClient ==
  /\ eng = "unlink" /\ \E f \in Linked(E0) : tab' = Delete(tab, f)
  /\ UNCHANGED <<conn, netVars, queueVars, dcVars>>
Unlink ==
  /\ eng = "unlink"
  /\ \E f \in Linked(E0) : tab' = Delete(tab, f) /\ conn' = Failing(conn, Owner(f))
  /\ UNCHANGED <<netVars, queueVars, dcVars>>


Unlinked ==
  /\ eng = "unlink" /\ Linked(E0) = {}
  /\ conn' = [conn EXCEPT ![E0].tag = FALSE]
  /\ eng' = "drain" /\ events' = Tail(events)
  /\ UNCHANGED <<tab, netVars, jobs, dcVars>>

Drained ==
  /\ eng = "drain" /\ events = <<>> /\ eng' = "idle"
  /\ UNCHANGED <<conn, tab, netVars, jobs, events, dcVars>>

\* check_all_conn_buffers: the least recently used clients are failed until enough
\* memory is free.
FailOldest ==
  /\ eng \in {"idle", "lru"} /\ tab.lru # <<>> /\ eng' = "lru"
  /\ LET f == Head(tab.lru)
     IN  tab' = LruDelete(tab, f) /\ conn' = Failing(conn, Owner(f))
  /\ UNCHANGED <<netVars, jobs, events, dcVars>>

EnoughFree ==
  /\ eng = "lru" /\ eng' = "idle"
  /\ UNCHANGED <<conn, tab, netVars, jobs, events, dcVars>>

Engine ==
  \/ Ignore \/ Forward \/ ForwardNew \/ Drop \/ Answer \/ DropAnswer \/ CloseExt
  \/ Notified \/ ClientReady \/ DCReady \/ ClientClose \/ DCClose
  \/ Unlink \/ Unlinked \/ Drained \/ EnoughFree

Next ==
  \/ \E f \in Fd, s \in Secret, ip \in Ip : Accept(f, s, ip)
  \/ \E f \in Fd : Dial(f)
  \/ \E g \in Gen :
       \/ Handshaken(g) \/ Close(g) \/ SocketAbort(g) \/ FreeConnection(g)
       \/ \E k \in Key \cup {0, None} : ext_rpcs_execute(g, k)
       \/ \E t \in {"answer", "close"}, q \in seen[g] : rpcc_execute(g, t, q)
       \/ \E socket \in BOOLEAN : Fail(g, socket)
  \/ Engine \/ FailOldest

Spec == Init /\ [][Next]_vars

\* The engine thread takes its work, and failed connections are closed.
Fairness ==
  /\ WF_vars(Engine)
  /\ \A g \in Gen : /\ WF_vars(Close(g)) /\ WF_vars(SocketAbort(g))
                    /\ WF_vars(FreeConnection(g))
FairSpec == Spec /\ Fairness

(***************************************************************************)
(* Properties.                                                             *)
(***************************************************************************)
\* Type invariant of the connections, the table and the queues.
TypeOK ==
  /\ next \in 1 .. MaxGen + 1 /\ eng \in {"idle", "drain", "unlink", "lru"}
  /\ \A g \in Gen : conn[g].kind = "none" <=> g >= next
  /\ \A f \in Fd : tab.ex[f] = NoEx \/
       /\ tab.ex[f].inGen \in Gen /\ tab.ex[f].outGen \in Gen /\ tab.ex[f].outFd \in Fd
       /\ tab.ex[f].tkey = None \/ tab.ex[f].tkey \in Secret \X Key
       /\ tab.ex[f].tcli = None \/ tab.ex[f].tcli \in Secret \X Ip
  /\ tab.lru \in Seq(Fd)
  /\ eng = "unlink" => events # <<>> /\ Head(events).t = "close"

\* A client is handed only answers to its own queries, although descriptors are
\* reused and answers are handled after connections have come and gone.
OwnAnswers == \A p \in got : p[1] = p[2]

\* Every external connection leads to a DC connection that is ready and whose close
\* has not been handled, under its descriptor: no answer, no list of
\* mtfront_client_close and no query goes through a descriptor that was reused.
LinkedToLive ==
  \A f \in Fd : tab.ex[f] # NoEx =>
    LET d == tab.ex[f].outGen
    IN  Exists(d) /\ conn[d].kind = "out" /\ conn[d].tag /\ conn[d].fd = tab.ex[f].outFd

\* The head of the list of a descriptor is set up by one connection at a time:
\* mtfront_client_ready asserts that it is not set up yet.
OneTagPerFd ==
  \A g, h \in Gen : conn[g].tag /\ conn[h].tag /\ conn[g].fd = conn[h].fd => g = h

\* The statistics of a secret are exact: its keys and clients are those of its
\* external connections, each counted once however many connections share it.
CountersExact ==
  /\ \A p \in Secret \X Key :
       tab.kref[p] = Cardinality({f \in Fd : tab.ex[f] # NoEx /\ tab.ex[f].tkey = p})
  /\ \A p \in Secret \X Ip :
       tab.cref[p] = Cardinality({f \in Fd : tab.ex[f] # NoEx /\ tab.ex[f].tcli = p})
  /\ \A s \in Secret :
       /\ tab.nKeys[s] = Cardinality({k \in Key : tab.kref[<<s, k>>] > 0})
       /\ tab.nClients[s] = Cardinality({i \in Ip : tab.cref[<<s, i>>] > 0})

\* The LRU list holds live external connections, each once.
LruLive ==
  /\ \A i \in DOMAIN tab.lru : tab.ex[tab.lru[i]] # NoEx
  /\ \A i, j \in DOMAIN tab.lru : tab.lru[i] = tab.lru[j] => i = j

\* "there was at least one dropped inbound packet on this connection, have to close
\* it now instead of forwarding next queries": a connection with a dropped packet
\* has no external connection to forward through.
DroppedStaysDropped ==
  \A g \in Gen : Exists(g) /\ conn[g].dropped => tab.ex[conn[g].fd] = NoEx

\* A DC is told of every external connection the proxy has given up: what it holds
\* open on a working connection is in the table.
DCNotMisled ==
  \A g \in Gen : Found(g) /\ conn[g].tag /\ ~conn[g].closed =>
    \A id \in known[g] : Live(id) /\ tab.ex[id[1]].outGen = g

\* A failed connection is freed and its descriptor can be used again: no queue and
\* no table keeps it.
FailedIsFreed == \A g \in Gen : conn[g].err ~> conn[g].kind = "gone"

\* When the connection to the DC fails, a client that uses it is failed too, so that
\* it reconnects, or its next query finds another connection or none.
Orphan(g) == \E f \in Fd : /\ tab.ex[f] # NoEx /\ tab.ex[f].inGen = g
                          /\ conn[tab.ex[f].outGen].err
Served(g) == \E f \in Fd : /\ tab.ex[f] # NoEx /\ tab.ex[f].inGen = g
                          /\ ~conn[tab.ex[f].outGen].err
ClientsFollow ==
  \A g \in Gen : Orphan(g) ~> conn[g].err \/ conn[g].dropped \/ Served(g)

=============================================================================
