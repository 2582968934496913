------------------------------ MODULE Outbound ------------------------------
(***************************************************************************)
(* The pool of RPC connections to the Telegram data centres (DCs) and the  *)
(* request/answer exchange that client goroutines run over it:             *)
(* internal/proxy/outbound.go and the connection half of                   *)
(* internal/proxy/rpc_outbound.go.                                         *)
(*                                                                         *)
(* Goroutines: one per client (handleConn -> HandlePacket ->               *)
(* ForwardPacket), one readLoop and one watchConn per established          *)
(* connection, and the one that runs OutboundProxy.Close at shutdown.      *)
(* Every lock region whose body cannot block is one step; the region of    *)
(* reconnect holds p.mu while it dials, so p.mu is a variable.             *)
(*                                                                         *)
(* A client is named by its ext_conn_id: handleConn draws one per client   *)
(* connection and keeps it for every request.  A frame carries a serial    *)
(* number per client in place of its bytes.                                *)
(***************************************************************************)
EXTENDS Naturals, Sequences, FiniteSets

CONSTANTS Addr,       \* target addresses "host:port"
          Client,     \* ext_conn_ids
          Conn,       \* rpcOutboundConn objects (bounds the successful dials)
          MaxReq,     \* bound: packets one client sends
          MaxFrames,  \* bound: frames the DCs send for one client
          NoConn, NoAddr, NoOne, NoFrame

ASSUME OutboundAssumption ==
         /\ NoConn \notin Conn /\ NoAddr \notin Addr /\ NoOne \notin Client
         /\ MaxReq \in Nat /\ MaxFrames \in Nat
         /\ NoFrame \notin [op : {"ans", "ack", "close"}, id : Client, n : Nat]

VARIABLES
  conns,     \* p.conns
  mu,        \* who holds p.mu while dialling, or NoOne
  addr,      \* c.addr; NoAddr while the object does not exist
  closed,    \* whether the channel c.closed is closed
  sock,      \* c.conn: "none", "up", "reset" (by the peer), "shut" (by us)
  pending,   \* c.pending: the request number whose channel waits, 0 if none
  inbox,     \* frames the DC sent on c that readLoop has not read
  seen,      \* the ext_conn_ids the DC has received on c
  rpc,       \* where c's readLoop is
  hand,      \* the channel and the frame a handler has taken out of pending
  watched,   \* whether c's watchConn goroutine runs
  pc,        \* where a client's goroutine is
  target,    \* ForwardPacket's target
  held,      \* ForwardPacket's conn
  req,       \* the number of the client's current (or last) request
  ch,        \* content of the respCh of that request (capacity 1)
  replies,   \* serials of the answers written back to the client
  emitted,   \* number of frames the DCs have sent for the client
  todo,      \* OutboundProxy.Close: the connections still to be closed
  closing,   \* the connection whose Close has passed its select, or NoConn
  cpc,       \* where OutboundProxy.Close is
  panicked   \* a channel was closed twice: the process is gone

poolVars   == <<conns, mu>>
connVars   == <<addr, closed, sock, seen, watched>>
readVars   == <<inbox, rpc, hand>>
clientVars == <<pc, target, held, req>>
dataVars   == <<pending, ch, replies, emitted>>
closeVars  == <<todo, closing, cpc, panicked>>
vars == <<poolVars, connVars, readVars, clientVars, dataVars, closeVars>>

Op    == {"ans", "ack", "close"}
Frame == [op : Op, id : Client, n : Nat]

\* A client's goroutine outside ForwardPacket, and inside it.
Outside == {"idle", "gone"}
Inside  == {"lookup", "check", "relock", "connect", "register", "write", "wait"}

Init ==
  /\ conns = [a \in Addr |-> NoConn] /\ mu = NoOne
  /\ addr = [c \in Conn |-> NoAddr] /\ closed = [c \in Conn |-> FALSE]
  /\ sock = [c \in Conn |-> "none"] /\ watched = [c \in Conn |-> FALSE]
  /\ pending = [c \in Conn |-> [k \in Client |-> 0]]
  /\ inbox = [c \in Conn |-> <<>>] /\ seen = [c \in Conn |-> {}]
  /\ rpc = [c \in Conn |-> "none"] /\ hand = [c \in Conn |-> NoFrame]
  /\ pc = [k \in Client |-> "idle"] /\ target = [k \in Client |-> NoAddr]
  /\ held = [k \in Client |-> NoConn] /\ req = [k \in Client |-> 0]
  /\ ch = [k \in Client |-> NoFrame] /\ replies = [k \in Client |-> {}]
  /\ emitted = [k \in Client |-> 0]
  /\ todo = {} /\ closing = NoConn /\ cpc = "idle" /\ panicked = FALSE

\* The connection object exists and its closed channel is open.
Live(c) == addr[c] # NoAddr /\ ~closed[c]

\* A goroutine of the (still running) process is at a point of its code.
At(k, l)       == ~panicked /\ pc[k] = l
ReaderAt(c, l) == ~panicked /\ rpc[c] = l
CloserAt(l)    == ~panicked /\ cpc = l

(***************************************************************************)
(* A client's goroutine: the packet loop of handleConn and ForwardPacket.  *)
(***************************************************************************)
Goto(k, l) == pc' = [pc EXCEPT ![k] = l]

\* A packet is read and routed to some target of its cluster.
Submit(k, a) ==
  /\ At(k, "idle") /\ req[k] < MaxReq
  /\ Goto(k, "lookup") /\ target' = [target EXCEPT ![k] = a]
  /\ req' = [req EXCEPT ![k] = @ + 1] /\ held' = [held EXCEPT ![k] = NoConn]
  /\ UNCHANGED <<poolVars, connVars, readVars, dataVars, closeVars>>

\* getConnection: read the map under p.mu ...
Lookup(k) ==
  /\ At(k, "lookup") /\ mu = NoOne
  /\ Goto(k, "check") /\ held' = [held EXCEPT ![k] = conns[target[k]]]
  /\ UNCHANGED <<poolVars, connVars, readVars, target, req, dataVars, closeVars>>

\* ... and test the connection without it.
Check(k) ==
  /\ At(k, "check")
  /\ Goto(k, IF held[k] # NoConn /\ ~closed[held[k]] THEN "register" ELSE "relock")
  /\ UNCHANGED <<poolVars, connVars, readVars, target, held, req, dataVars,
                 closeVars>>

Relock_NoDoubleCheck(k) ==
  /\ At(k, "relock") /\ mu = NoOne /\ mu' = k /\ Goto(k, "connect")
  /\ UNCHANGED <<held, conns, connVars, readVars, target, req, dataVars, closeVars>>

\* reconnect: take p.mu and look again; on a miss keep p.mu and dial.
Relock(k) ==
  /\ At(k, "relock") /\ mu = NoOne
  /\ LET c == conns[target[k]] IN
       IF c # NoConn /\ ~closed[c]
         THEN Goto(k, "register") /\ held' = [held EXCEPT ![k] = c] /\ mu' = mu
         ELSE Goto(k, "connect") /\ mu' = k /\ held' = held
  /\ UNCHANGED <<conns, connVars, readVars, target, req, dataVars, closeVars>>

\* Connect succeeds: both goroutines of the connection and its watcher start,
\* the pool's entry is replaced and p.mu released.
ConnectOk(k, c) ==
  /\ At(k, "connect") /\ addr[c] = NoAddr
  /\ addr' = [addr EXCEPT ![c] = target[k]] /\ sock' = [sock EXCEPT ![c] = "up"]
  /\ rpc' = [rpc EXCEPT ![c] = "top"] /\ watched' = [watched EXCEPT ![c] = TRUE]
  /\ conns' = [conns EXCEPT ![target[k]] = c] /\ mu' = NoOne
  /\ held' = [held EXCEPT ![k] = c] /\ Goto(k, "register")
  /\ UNCHANGED <<closed, seen, inbox, hand, target, req, dataVars, closeVars>>

ConnectFail_KeepLock(k) ==
  /\ At(k, "connect") /\ mu' = mu /\ Goto(k, "gone")
  /\ UNCHANGED <<conns, connVars, readVars, target, held, req, dataVars, closeVars>>

\* The dial times out or the handshake fails.
ConnectFail(k) ==
  /\ At(k, "connect") /\ mu' = NoOne /\ Goto(k, "gone")
  /\ UNCHANGED <<conns, connVars, readVars, target, held, req, dataVars, closeVars>>

Register(k) ==
  /\ At(k, "register") /\ Goto(k, "write")
  /\ pending' = [pending EXCEPT ![held[k]][k] = req[k]]
  /\ ch' = [ch EXCEPT ![k] = NoFrame]
  /\ UNCHANGED <<poolVars, connVars, readVars, target, held, req, replies, emitted,
                 closeVars>>

\* The write is accepted; the DC sees it if the connection still stands.
WriteOk(k) ==
  /\ At(k, "write") /\ sock[held[k]] # "shut" /\ Goto(k, "wait")
  /\ seen' = IF sock[held[k]] = "up" THEN [seen EXCEPT ![held[k]] = @ \cup {k}]
                                     ELSE seen
  /\ UNCHANGED <<poolVars, addr, closed, sock, watched, readVars, target, held, req,
                 dataVars, closeVars>>

Unregister(k) == pending' = [pending EXCEPT ![held[k]][k] = 0]

WriteFail(k) ==
  /\ At(k, "write") /\ sock[held[k]] # "up" /\ Goto(k, "gone") /\ Unregister(k)
  /\ UNCHANGED <<poolVars, connVars, readVars, target, held, req, ch, replies,
                 emitted, closeVars>>

\* The three cases of ForwardPacket's select.  An answer is written back to the
\* client; an error makes handleConn return, which closes the client.
Receive(k) ==
  /\ At(k, "wait") /\ ch[k] # NoFrame
  /\ ch' = [ch EXCEPT ![k] = NoFrame]
  /\ IF ch[k].op = "close"
       THEN Goto(k, "gone") /\ replies' = replies
       ELSE Goto(k, "idle") /\ replies' = [replies EXCEPT ![k] = @ \cup {ch[k].n}]
  /\ UNCHANGED <<poolVars, connVars, readVars, target, held, req, pending, emitted,
                 closeVars>>

ConnClosed(k) ==
  /\ At(k, "wait") /\ closed[held[k]] /\ Goto(k, "gone")
  /\ UNCHANGED <<poolVars, connVars, readVars, target, held, req, dataVars,
                 closeVars>>

Timeout_Silent(k) ==
  /\ At(k, "wait") /\ Goto(k, "idle") /\ Unregister(k)
  /\ UNCHANGED <<poolVars, connVars, readVars, target, held, req, ch, replies,
                 emitted, closeVars>>

Timeout(k) ==
  /\ At(k, "wait") /\ Goto(k, "gone") /\ Unregister(k)
  /\ UNCHANGED <<poolVars, connVars, readVars, target, held, req, ch, replies,
                 emitted, closeVars>>

ClientStep(k) ==
  \/ \E a \in Addr : Submit(k, a)
  \/ Lookup(k) \/ Check(k) \/ Relock(k)
  \/ \E c \in Conn : ConnectOk(k, c)
  \/ ConnectFail(k) \/ Register(k) \/ WriteOk(k) \/ WriteFail(k)
  \/ Receive(k) \/ ConnClosed(k) \/ Timeout(k)

(***************************************************************************)
(* The data centre and the network.                                        *)
(***************************************************************************)
\* The DC sends a frame for a client it has heard of on this connection: any
\* number of answers, at any time, whether or not a request is outstanding.
DCSend(c, k, op) ==
  /\ ~panicked /\ sock[c] = "up" /\ k \in seen[c] /\ emitted[k] < MaxFrames
  /\ emitted' = [emitted EXCEPT ![k] = @ + 1]
  /\ inbox' = [inbox EXCEPT
                 ![c] = Append(@, [op |-> op, id |-> k, n |-> emitted[k] + 1])]
  /\ UNCHANGED <<poolVars, connVars, rpc, hand, clientVars, pending, ch, replies,
                 closeVars>>

Reset(c) ==
  /\ ~panicked /\ sock[c] = "up" /\ sock' = [sock EXCEPT ![c] = "reset"]
  /\ UNCHANGED <<poolVars, addr, closed, seen, watched, readVars, clientVars,
                 dataVars, closeVars>>

(***************************************************************************)
(* readLoop and its handlers.                                              *)
(***************************************************************************)
ReadTop(c) ==
  /\ ReaderAt(c, "top")
  /\ rpc' = [rpc EXCEPT ![c] = IF closed[c] THEN "done" ELSE "read"]
  /\ UNCHANGED <<poolVars, connVars, inbox, hand, clientVars, dataVars, closeVars>>

\* handleProxyAns and handleCloseExt take the waiting channel out of pending
\* under pendingMu ...
Take(c, f) ==
  IF pending[c][f.id] = 0
    THEN rpc' = [rpc EXCEPT ![c] = "top"] /\ UNCHANGED <<pending, hand>>
    ELSE /\ pending' = [pending EXCEPT ![c][f.id] = 0]
         /\ hand' = [hand EXCEPT ![c] = [k |-> f.id, n |-> pending[c][f.id], f |-> f]]
         /\ rpc' = [rpc EXCEPT ![c] = "send"]

Take_AnyClient(c, f) ==
  IF \A k \in Client : pending[c][k] = 0
    THEN rpc' = [rpc EXCEPT ![c] = "top"] /\ UNCHANGED <<pending, hand>>
    ELSE \E k \in Client :
           /\ pending[c][k] # 0 /\ pending' = [pending EXCEPT ![c][k] = 0]
           /\ hand' = [hand EXCEPT ![c] = [k |-> k, n |-> pending[c][k], f |-> f]]
           /\ rpc' = [rpc EXCEPT ![c] = "send"]

ReadFrame_AnyClient(c) ==
  /\ ReaderAt(c, "read") /\ inbox[c] # <<>>
  /\ inbox' = [inbox EXCEPT ![c] = Tail(@)]
  /\ IF Head(inbox[c]).op = "ack"
       THEN rpc' = [rpc EXCEPT ![c] = "top"] /\ UNCHANGED <<pending, hand>>
       ELSE Take_AnyClient(c, Head(inbox[c]))
  /\ UNCHANGED <<poolVars, connVars, clientVars, ch, replies, emitted, closeVars>>

\* A frame is read; RPC_SIMPLE_ACK, RPC_PONG and short frames change nothing.
ReadFrame(c) ==
  /\ ReaderAt(c, "read") /\ inbox[c] # <<>>
  /\ inbox' = [inbox EXCEPT ![c] = Tail(@)]
  /\ IF Head(inbox[c]).op = "ack"
       THEN rpc' = [rpc EXCEPT ![c] = "top"] /\ UNCHANGED <<pending, hand>>
       ELSE Take(c, Head(inbox[c]))
  /\ UNCHANGED <<poolVars, connVars, clientVars, ch, replies, emitted, closeVars>>

\* ... and send to it afterwards, without blocking.  The channel is the one of
\* request n: a later request of the same client has a channel of its own.
SendToChannel(c) ==
  /\ ReaderAt(c, "send")
  /\ LET h == hand[c] IN
       ch' = IF h.n = req[h.k] /\ ch[h.k] = NoFrame THEN [ch EXCEPT ![h.k] = h.f]
                                                    ELSE ch
  /\ rpc' = [rpc EXCEPT ![c] = "top"] /\ hand' = [hand EXCEPT ![c] = NoFrame]
  /\ UNCHANGED <<poolVars, connVars, inbox, clientVars, pending, replies, emitted,
                 closeVars>>

\* The read fails, because the peer or OutboundProxy.Close ended the connection.
ReadError(c) ==
  /\ ReaderAt(c, "read") /\ sock[c] \in {"reset", "shut"}
  /\ rpc' = [rpc EXCEPT ![c] = "err"]
  /\ UNCHANGED <<poolVars, connVars, inbox, hand, clientVars, dataVars, closeVars>>

\* select { case <-c.closed: default: ... }
ErrCheck(c) ==
  /\ ReaderAt(c, "err")
  /\ rpc' = [rpc EXCEPT ![c] = IF closed[c] THEN "done" ELSE "errclose"]
  /\ UNCHANGED <<poolVars, connVars, inbox, hand, clientVars, dataVars, closeVars>>

\* close(ch): closing a closed channel panics.
CloseChannel(c) ==
  IF closed[c] THEN panicked' = TRUE /\ closed' = closed
               ELSE panicked' = panicked /\ closed' = [closed EXCEPT ![c] = TRUE]

ErrClose(c) ==
  /\ ReaderAt(c, "errclose") /\ CloseChannel(c)
  /\ sock' = [sock EXCEPT ![c] = "shut"] /\ rpc' = [rpc EXCEPT ![c] = "done"]
  /\ UNCHANGED <<poolVars, addr, seen, watched, inbox, hand, clientVars, dataVars,
                 todo, closing, cpc>>

Watch_NoCompare(c) ==
  /\ ~panicked /\ watched[c] /\ closed[c] /\ mu = NoOne
  /\ watched' = [watched EXCEPT ![c] = FALSE]
  /\ conns' = [conns EXCEPT ![addr[c]] = NoConn]
  /\ UNCHANGED <<mu, addr, closed, sock, seen, readVars, clientVars, dataVars,
                 closeVars>>

Watch_NoDelete(c) ==
  /\ ~panicked /\ watched[c] /\ closed[c] /\ mu = NoOne
  /\ watched' = [watched EXCEPT ![c] = FALSE]
  /\ UNCHANGED <<conns, mu, addr, closed, sock, seen, readVars, clientVars, dataVars,
                 closeVars>>

\* watchConn: once c is closed, drop it from the pool unless it was replaced.
Watch(c) ==
  /\ ~panicked /\ watched[c] /\ closed[c] /\ mu = NoOne
  /\ watched' = [watched EXCEPT ![c] = FALSE]
  /\ conns' = IF conns[addr[c]] = c THEN [conns EXCEPT ![addr[c]] = NoConn] ELSE conns
  /\ UNCHANGED <<mu, addr, closed, sock, seen, readVars, clientVars, dataVars,
                 closeVars>>

(***************************************************************************)
(* OutboundProxy.Close, run once by Runtime.Shutdown.                      *)
(***************************************************************************)
CloseCall ==
  /\ CloserAt("idle") /\ cpc' = "called"
  /\ UNCHANGED <<poolVars, connVars, readVars, clientVars, dataVars, todo, closing,
                 panicked>>

CloseSnapshot ==
  /\ CloserAt("called") /\ mu = NoOne /\ cpc' = "closing"
  /\ todo' = {conns[a] : a \in Addr} \ {NoConn}
  /\ conns' = [a \in Addr |-> NoConn]
  /\ UNCHANGED <<mu, connVars, readVars, clientVars, dataVars, closing, panicked>>

\* rpcOutboundConn.Close: the select, which skips a closed channel ...
CloseCheck(c) ==
  /\ CloserAt("closing") /\ closing = NoConn /\ c \in todo
  /\ IF closed[c]
       THEN /\ sock' = [sock EXCEPT ![c] = "shut"]
            /\ todo' = todo \ {c} /\ closing' = closing
       ELSE closing' = c /\ UNCHANGED <<sock, todo>>
  /\ UNCHANGED <<poolVars, addr, closed, seen, watched, readVars, clientVars,
                 dataVars, cpc, panicked>>

\* ... and the close itself, a step later.
CloseConn ==
  /\ CloserAt("closing") /\ closing # NoConn /\ CloseChannel(closing)
  /\ sock' = [sock EXCEPT ![closing] = "shut"]
  /\ todo' = todo \ {closing} /\ closing' = NoConn
  /\ UNCHANGED <<poolVars, addr, seen, watched, readVars, clientVars, dataVars, cpc>>

CloseReturn ==
  /\ CloserAt("closing") /\ todo = {} /\ cpc' = "done"
  /\ UNCHANGED <<poolVars, connVars, readVars, clientVars, dataVars, todo, closing,
                 panicked>>

ReaderStep(c) == \/ ReadTop(c) \/ ReadFrame(c) \/ SendToChannel(c)
                 \/ ReadError(c) \/ ErrCheck(c) \/ ErrClose(c)

CloserStep == CloseCall \/ CloseSnapshot \/ (\E c \in Conn : CloseCheck(c)) \/ CloseConn
              \/ CloseReturn

Next ==
  \/ \E k \in Client : ClientStep(k)
  \/ \E c \in Conn : ReaderStep(c) \/ Watch(c) \/ Reset(c)
  \/ \E c \in Conn, k \in Client, op \in Op : DCSend(c, k, op)
  \/ CloserStep

Spec == Init /\ [][Next]_vars

(***************************************************************************)
(* Fairness.  A goroutine that can run does run, and sync.Mutex hands the  *)
(* lock over in its starvation mode, so a goroutine that finds p.mu free   *)
(* again and again gets it.  The 30 s timer of ForwardPacket fires.        *)
(* Nothing bounds how long a DC may take over the handshake or over        *)
(* draining a write (neither has a deadline): PeerFairness is separate.    *)
(***************************************************************************)
ProxyFairness ==
  /\ \A k \in Client :
       /\ SF_vars(Lookup(k)) /\ SF_vars(Relock(k))
       /\ WF_vars(Check(k) \/ Register(k) \/ WriteFail(k))
       /\ WF_vars(Receive(k) \/ ConnClosed(k) \/ Timeout(k))
  /\ \A c \in Conn :
       /\ WF_vars(ReaderStep(c)) /\ SF_vars(Watch(c))
  /\ SF_vars(CloseSnapshot)
  /\ WF_vars((\E c \in Conn : CloseCheck(c)) \/ CloseConn \/ CloseReturn)

PeerFairness ==
  \A k \in Client :
    /\ WF_vars(ConnectFail(k) \/ \E c \in Conn : ConnectOk(k, c))
    /\ WF_vars(WriteOk(k) \/ WriteFail(k))

FairSpec     == Spec /\ ProxyFairness
FairPeerSpec == FairSpec /\ PeerFairness

(***************************************************************************)
(* Properties.                                                             *)
(***************************************************************************)
Hand == [k : Client, n : Nat, f : Frame]

\* Type invariant of the pool, the connections, the clients and Close.
TypeOK ==
  /\ conns \in [Addr -> Conn \cup {NoConn}] /\ mu \in Client \cup {NoOne}
  /\ addr \in [Conn -> Addr \cup {NoAddr}] /\ closed \in [Conn -> BOOLEAN]
  /\ sock \in [Conn -> {"none", "up", "reset", "shut"}]
  /\ pending \in [Conn -> [Client -> Nat]] /\ inbox \in [Conn -> Seq(Frame)]
  /\ seen \in [Conn -> SUBSET Client] /\ watched \in [Conn -> BOOLEAN]
  /\ rpc \in [Conn -> {"none", "top", "read", "send", "err", "errclose", "done"}]
  /\ hand \in [Conn -> Hand \cup {NoFrame}]
  /\ pc \in [Client -> Outside \cup Inside]
  /\ target \in [Client -> Addr \cup {NoAddr}]
  /\ held \in [Client -> Conn \cup {NoConn}] /\ req \in [Client -> Nat]
  /\ ch \in [Client -> Frame \cup {NoFrame}] /\ replies \in [Client -> SUBSET Nat]
  /\ emitted \in [Client -> Nat]
  /\ todo \subseteq Conn /\ closing \in Conn \cup {NoConn}
  /\ cpc \in {"idle", "called", "closing", "done"} /\ panicked \in BOOLEAN

\* No live connection is ever lost: it is the pool's entry for its address, or
\* OutboundProxy.Close has it in hand.  Two goroutines reconnecting at once, or
\* a watchConn that fires after its connection was replaced, would break this
\* (the double check of reconnect and the comparison of watchConn).
OpenIsOwned == \A c \in Conn : Live(c) => conns[addr[c]] = c \/ c \in todo

\* An answer reaches the client whose ext_conn_id it carries, and reaches it
\* once: what waits in a respCh bears that client's id and is not among the
\* answers already written to it (handleProxyAns and the pending map).
AnswersItsClient ==
  \A k \in Client : ch[k] # NoFrame => ch[k].id = k /\ ch[k].n \notin replies[k]

\* "The channel will receive exactly one ProxyResponse": when a handler is about
\* to send, the channel is empty and no other handler is about to send to it, so
\* the default branch of the non-blocking send never drops an answer.
ChannelNeverFull ==
  \A c \in Conn : rpc[c] = "send" =>
     /\ hand[c].n = req[hand[c].k] => ch[hand[c].k] = NoFrame
     /\ \A d \in Conn \ {c} :
          rpc[d] = "send" => <<hand[d].k, hand[d].n>> # <<hand[c].k, hand[c].n>>

\* No request leaves its channel behind on a live connection: an entry of
\* pending belongs to a ForwardPacket that is still writing or waiting on that
\* very connection, whichever of the three cases of its select ended the others.
NoStalePending ==
  \A c \in Conn, k \in Client : pending[c][k] # 0 /\ ~closed[c] =>
     pc[k] \in {"write", "wait"} /\ held[k] = c /\ req[k] = pending[c][k]

\* "Close shuts down the connection gracefully": a close channel is closed once.
\* The select-then-close of rpcOutboundConn.Close and of readLoop's error path
\* are not atomic.
NoPanic == ~panicked

\* Every ForwardPacket returns: with an answer, an error, or after 30 s.
ForwardReturns == \A k \in Client : pc[k] \in Inside ~> pc[k] \in Outside \/ panicked

\* A closed connection leaves the pool (watchConn is never starved of p.mu).
ClosedLeavesPool ==
  \A c \in Conn : closed[c] ~> (\A a \in Addr : conns[a] # c) \/ panicked

\* OutboundProxy.Close, once called, returns.
CloseReturns == cpc = "called" ~> cpc = "done" \/ panicked

\* Closing ends: OutboundProxy.Close returns, and a connection that was closed leaves the
\* pool.
CloseEnds == CloseReturns /\ ClosedLeavesPool

\* The pool keeps its books: no live connection is lost, no request that has ended stays
\* pending on one, and a response channel always has room.
PoolSafe == OpenIsOwned /\ NoStalePending /\ ChannelNeverFull

(***************************************************************************)
(* The pool implements the exchange of module Exchange.                    *)
(***************************************************************************)
Phase(k) == IF pc[k] \in Outside THEN pc[k] ELSE "busy"

X == INSTANCE Exchange WITH phase <- [k \in Client |-> Phase(k)],
                            returned <- replies

\* Every behaviour of the goroutines is, for the clients, a behaviour of
\* Exchange: ForwardPacket returns each answer of a DC at most once, and only
\* to the client it was sent for.
ImplementsExchange == X!XSpec

(***************************************************************************)
(* The inductive invariant: what the safety properties rest on, and what   *)
(* each goroutine may rely on at each point of its code.                   *)
(***************************************************************************)
\* p.mu is held across steps only by the one goroutine that dials, and the
\* entry it is about to replace is missing or closed: reconnect's double check
\* stays true for as long as it holds the lock.
LockInv ==
  \A k \in Client :
    /\ pc[k] = "connect" <=> mu = k
    /\ pc[k] = "connect" => LET c == conns[target[k]] IN c # NoConn => closed[c]

\* What a client's goroutine holds at each point of ForwardPacket.
ClientInv ==
  \A k \in Client :
    /\ pc[k] \in Inside => target[k] \in Addr
    /\ pc[k] \in {"register", "write", "wait"} => held[k] \in Conn

\* The pool maps an address to a connection made for it; a connection that
\* does not exist yet is untouched; Close works on existing connections.
PoolInv ==
  /\ \A a \in Addr : conns[a] # NoConn => addr[conns[a]] = a
  /\ \A c \in Conn : addr[c] = NoAddr =>
        ~closed[c] /\ sock[c] = "none" /\ rpc[c] = "none" /\ seen[c] = {} /\ ~watched[c]
  /\ \A c \in todo : addr[c] # NoAddr
  /\ closing # NoConn => closing \in todo
  /\ cpc \in {"idle", "called"} => todo = {}

\* The slot of a request's channel is in one place only: in pending, in the
\* hand of the handler that took it, or filled.  It exists only while the
\* request runs, or after its client is gone.
PendingSlot ==
  \A c \in Conn, k \in Client : pending[c][k] # 0 =>
    /\ pending[c][k] = req[k] /\ held[k] = c /\ ch[k] = NoFrame
    /\ pc[k] \in {"write", "wait", "gone"}
    /\ pc[k] = "gone" => closed[c]
HandSlot ==
  \A c \in Conn : rpc[c] = "send" =>
    /\ hand[c] \in Hand /\ hand[c].f.id = hand[c].k
    /\ hand[c].n = req[hand[c].k] /\ held[hand[c].k] = c
    /\ pending[c][hand[c].k] = 0 /\ ch[hand[c].k] = NoFrame
    /\ pc[hand[c].k] \in {"write", "wait", "gone"}
ChanSlot ==
  \A k \in Client : ch[k] # NoFrame => ch[k].id = k /\ pc[k] \in {"write", "wait", "gone"}
SlotInv == PendingSlot /\ HandSlot /\ ChanSlot

\* Key identifies a frame among all that the DCs sent.
Key(f) == <<f.id, f.n>>

Fresh(f) == f.n \in 1 .. emitted[f.id] /\ f.n \notin replies[f.id]

\* Every frame under way was sent by a DC and was not returned yet ...
RepliesSent == \A k \in Client : replies[k] \subseteq 1 .. emitted[k]
InboxFresh  == \A c \in Conn : \A i \in DOMAIN inbox[c] : Fresh(inbox[c][i])
HandFresh   == \A c \in Conn : rpc[c] = "send" => Fresh(hand[c].f)
ChanFresh   == \A k \in Client : ch[k] # NoFrame => Fresh(ch[k])

\* ... and is in one place only.
InboxOnce ==
  \A c, d \in Conn : \A i \in DOMAIN inbox[c], j \in DOMAIN inbox[d] :
    Key(inbox[c][i]) = Key(inbox[d][j]) => c = d /\ i = j
NotInHand ==
  \A c, d \in Conn : \A i \in DOMAIN inbox[c] :
    rpc[d] = "send" => Key(inbox[c][i]) # Key(hand[d].f)
NotInChan ==
  \A c \in Conn, k \in Client : \A i \in DOMAIN inbox[c] :
    ch[k] # NoFrame => Key(inbox[c][i]) # Key(ch[k])
FrameInv == /\ RepliesSent /\ InboxFresh /\ HandFresh /\ ChanFresh
            /\ InboxOnce /\ NotInHand /\ NotInChan

\* The inductive invariant.
IInv == /\ TypeOK /\ LockInv /\ ClientInv /\ PoolInv /\ OpenIsOwned
        /\ SlotInv /\ FrameInv
=============================================================================
