--------------------------- MODULE OutboundConns ----------------------------
(***************************************************************************)
(* Every step of a connection preserves the inductive invariant of module  *)
(* Outbound; the lemmas are laid out as those of OutboundClients.          *)
(***************************************************************************)
EXTENDS OutboundClients

USE DEF poolVars, connVars, readVars, clientVars, dataVars, closeVars

(***************************************************************************)
(* readLoop and its handlers.                                              *)
(***************************************************************************)
\* ReadTop preserves the invariant.
LEMMA ReadTopPreserves ==
  ASSUME NEW c \in Conn, IInv, ReadTop(c)
  PROVE  IInv'
  <1>0. /\ TypeOK /\ LockInv /\ ClientInv /\ PoolInv /\ OpenIsOwned
        /\ SlotInv /\ FrameInv
    BY Zenon DEF IInv
  <1>a. /\ rpc[c] = "top" /\ rpc'[c] # "send"
        /\ \A d \in Conn \ {c} : rpc'[d] = rpc[d]
    BY <1>0 DEF ReadTop, ReaderAt, TypeOK
  <1>b. UNCHANGED <<poolVars, connVars, inbox, hand, clientVars, dataVars, closeVars>>
    BY Zenon DEF ReadTop
  <1>1. TypeOK'
    <2>1. rpc' \in [Conn -> {"none", "top", "read", "send", "err", "errclose", "done"}]
      BY <1>0 DEF TypeOK, ReadTop
    <2>2. QED BY <1>0, <1>b, <2>1, Zenon DEF TypeOK
  <1>2. PoolInv'
    BY <1>0, <1>a, <1>b, PoolReader, Zenon
  <1>4. ClosedGrows /\ NoNewHand
    BY <1>a, <1>b DEF ClosedGrows, NoNewHand
  <1>5. LockInv' /\ ClientInv' /\ OpenIsOwned' /\ SlotInv' /\ FrameInv'
    BY <1>0, <1>b, <1>4, LockStable, ClientStable, OwnedStable, SlotStable, FrameStable, Zenon
  <1>6. QED BY <1>1, <1>2, <1>5, Zenon DEF IInv

\* ReadFrame preserves the invariant.
LEMMA ReadFramePreserves ==
  ASSUME NEW c \in Conn, IInv, ReadFrame(c)
  PROVE  IInv'
  <1>0. /\ TypeOK /\ LockInv /\ ClientInv /\ PoolInv /\ OpenIsOwned
        /\ SlotInv /\ FrameInv
    BY Zenon DEF IInv
  <1> DEFINE f == Head(inbox[c])
             h == [k |-> f.id, n |-> pending[c][f.id], f |-> f]
  <1>a. /\ rpc[c] = "read" /\ inbox[c] # <<>> /\ inbox[c] \in Seq(Frame)
        /\ inbox'[c] = Tail(inbox[c]) /\ \A d \in Conn \ {c} : inbox'[d] = inbox[d]
    BY <1>0 DEF ReadFrame, ReaderAt, TypeOK
  <1>b. UNCHANGED <<poolVars, connVars, clientVars, ch, replies, emitted, closeVars>>
    BY Zenon DEF ReadFrame
  <1>c. /\ f \in Frame /\ 1 \in DOMAIN inbox[c] /\ f = inbox[c][1]
        /\ inbox'[c] \in Seq(Frame)
        /\ \A i \in DOMAIN inbox'[c] : /\ i + 1 \in DOMAIN inbox[c] /\ i + 1 # 1 /\ i \in Nat
                                       /\ inbox'[c][i] = inbox[c][i + 1]
    BY <1>a, TailElements
  <1>d. \/ UNCHANGED <<pending, hand>> /\ rpc' = [rpc EXCEPT ![c] = "top"]
        \/ /\ pending[c][f.id] # 0 /\ pending' = [pending EXCEPT ![c][f.id] = 0]
           /\ hand' = [hand EXCEPT ![c] = h] /\ rpc' = [rpc EXCEPT ![c] = "send"]
    BY DEF ReadFrame, Take
  <1> HIDE DEF f
  <1>e. f.id \in Client /\ h \in Hand
    <2>1. f.id \in Client
      BY <1>c DEF Frame
    <2>2. pending[c][f.id] \in Nat
      BY <1>0, <2>1 DEF TypeOK
    <2>3. QED BY <1>c, <2>1, <2>2 DEF Hand
  <1>t. /\ rpc \in [Conn -> {"none", "top", "read", "send", "err", "errclose", "done"}]
        /\ pending \in [Conn -> [Client -> Nat]] /\ hand \in [Conn -> Hand \cup {NoFrame}]
        /\ inbox \in [Conn -> Seq(Frame)]
    BY <1>0 DEF TypeOK
  <1> HIDE DEF h
  <1>1. TypeOK'
    <2>1. inbox' \in [Conn -> Seq(Frame)]
      BY <1>a, <1>c, <1>t DEF ReadFrame
    <2>2. rpc' \in [Conn -> {"none", "top", "read", "send", "err", "errclose", "done"}]
      BY <1>d, <1>t, Zenon
    <2>3. pending' \in [Conn -> [Client -> Nat]]
      <3>1. [pending[c] EXCEPT ![f.id] = 0] \in [Client -> Nat]
        BY <1>t, Zenon
      <3>2. QED BY <1>d, <1>t, <3>1, Zenon
    <2>4. hand' \in [Conn -> Hand \cup {NoFrame}]
      BY <1>d, <1>e, <1>t, Zenon
    <2>5. QED BY <1>0, <1>b, <2>1, <2>2, <2>3, <2>4, Zenon DEF TypeOK
  <1>2. /\ \A d \in Conn \ {c} : hand'[d] = hand[d] /\ rpc'[d] = rpc[d]
        /\ rpc'[c] = "send" => hand'[c] = h
    BY <1>d, <1>t
  <1>3. PoolInv'
    BY <1>0, <1>a, <1>b, <1>2, PoolReader, Zenon
  <1>4. SlotInv'
    <2>1. CASE UNCHANGED <<pending, hand>> /\ rpc' = [rpc EXCEPT ![c] = "top"]
      <3>1. NoNewHand /\ ClosedGrows
        BY <1>b, <1>t, <2>1 DEF NoNewHand, ClosedGrows
      <3>2. QED BY <1>0, <1>b, <2>1, <3>1, SlotStable, Zenon
    <2>2. CASE pending[c][f.id] # 0 /\ pending' = [pending EXCEPT ![c][f.id] = 0]
               /\ hand' = [hand EXCEPT ![c] = h] /\ rpc' = [rpc EXCEPT ![c] = "send"]
      <3>1. \A d \in Conn, x \in Client :
              pending'[d][x] = IF d = c /\ x = f.id THEN 0 ELSE pending[d][x]
        BY <1>e, <1>t, <2>2
      <3>2. /\ pending[c][f.id] = req[f.id] /\ held[f.id] = c /\ ch[f.id] = NoFrame
            /\ pc[f.id] \in {"write", "wait", "gone"}
        BY <1>0, <1>e, <2>2 DEF SlotInv, PendingSlot
      <3>3. PendingSlot'
        BY <1>0, <1>b, <3>1 DEF SlotInv, PendingSlot
      <3>4. hand'[c] = h /\ h.k = f.id /\ h.n = pending[c][f.id] /\ h.f = f
        BY <1>t, <2>2 DEF h
      <3>5. HandSlot'
        BY <1>0, <1>b, <1>e, <1>2, <3>1, <3>2, <3>4, SMTT(30) DEF SlotInv, HandSlot, Hand
      <3>6. ChanSlot'
        BY <1>0, <1>b DEF SlotInv, ChanSlot
      <3>7. QED BY <3>3, <3>5, <3>6, Zenon DEF SlotInv
    <2>3. QED BY <1>d, <2>1, <2>2
  <1>5. FrameInv'
    <2> DEFINE old(d, i) == IF d = c THEN i + 1 ELSE i
    <2>1. \A d \in Conn : \A i \in DOMAIN inbox'[d] :
            /\ old(d, i) \in DOMAIN inbox[d] /\ inbox'[d][i] = inbox[d][old(d, i)]
            /\ d = c => old(d, i) # 1
            /\ \A j \in DOMAIN inbox'[d] : old(d, i) = old(d, j) => i = j
      <3>1. \A i \in DOMAIN inbox'[c] :
              /\ i + 1 \in DOMAIN inbox[c] /\ inbox'[c][i] = inbox[c][i + 1] /\ i + 1 # 1
              /\ \A j \in DOMAIN inbox'[c] : i + 1 = j + 1 => i = j
        BY <1>c, SMTT(30)
      <3>2. QED BY <1>a, <3>1, Zenon
    <2> HIDE DEF old
    <2>2. RepliesSent' /\ ChanFresh'
      BY <1>0, <1>b DEF FrameInv, RepliesSent, ChanFresh, Fresh
    <2>3. \A g : Fresh(g)' <=> Fresh(g)
      BY <1>b, Zenon DEF Fresh
    <2>4. InboxFresh'
      BY <1>0, <2>1, <2>3 DEF FrameInv, InboxFresh
    <2>5. \A d \in Conn : \A i \in DOMAIN inbox'[d] : Key(inbox'[d][i]) # Key(f)
      BY <1>0, <1>c, <2>1 DEF FrameInv, InboxOnce
    <2>6. rpc'[c] = "send" => hand'[c].f = f
      BY <1>2 DEF h
    <2>7. HandFresh'
      <3>1. Fresh(f)
        BY <1>0, <1>c DEF FrameInv, InboxFresh
      <3>2. \A g : g = f => Fresh(g)'
        BY <2>3, <3>1
      <3>3. QED BY <1>0, <1>2, <2>3, <2>6, <3>2 DEF FrameInv, HandFresh
    <2>8. InboxOnce'
      <3> SUFFICES ASSUME NEW d \in Conn, NEW e \in Conn,
                          NEW i \in DOMAIN inbox'[d], NEW j \in DOMAIN inbox'[e],
                          Key(inbox'[d][i]) = Key(inbox'[e][j])
                   PROVE  d = e /\ i = j
        BY DEF InboxOnce, Key
      <3>1. d = e /\ old(d, i) = old(e, j)
        BY <1>0, <2>1 DEF FrameInv, InboxOnce
      <3>2. QED BY <2>1, <3>1
    <2>9. NotInHand'
      BY <1>0, <1>2, <2>1, <2>5, <2>6 DEF FrameInv, NotInHand
    <2>10. NotInChan'
      BY <1>0, <1>b, <2>1 DEF FrameInv, NotInChan
    <2>11. QED BY <2>2, <2>4, <2>7, <2>8, <2>9, <2>10, Zenon DEF FrameInv
  <1>6. ClosedGrows
    BY <1>b, Zenon DEF ClosedGrows
  <1>7. LockInv' /\ ClientInv' /\ OpenIsOwned'
    BY <1>0, <1>b, <1>6, LockStable, ClientStable, OwnedStable, Zenon
  <1>8. QED BY <1>1, <1>3, <1>4, <1>5, <1>7, Zenon DEF IInv

\* SendToChannel preserves the invariant.
LEMMA SendToChannelPreserves ==
  ASSUME NEW c \in Conn, IInv, SendToChannel(c)
  PROVE  IInv'
  <1>0. /\ TypeOK /\ LockInv /\ ClientInv /\ PoolInv /\ OpenIsOwned
        /\ SlotInv /\ FrameInv
    BY Zenon DEF IInv
  <1> DEFINE k == hand[c].k
  <1>a. /\ rpc[c] = "send" /\ rpc'[c] = "top"
        /\ \A d \in Conn \ {c} : hand'[d] = hand[d] /\ rpc'[d] = rpc[d]
    BY <1>0 DEF SendToChannel, ReaderAt, TypeOK
  <1>b. UNCHANGED <<poolVars, connVars, inbox, clientVars, pending, replies, emitted,
                    closeVars>>
    BY Zenon DEF SendToChannel
  <1>c. /\ hand[c] \in Hand /\ hand[c].f.id = k /\ held[k] = c /\ pending[c][k] = 0
        /\ pc[k] \in {"write", "wait", "gone"} /\ k \in Client /\ hand[c].f \in Frame
    BY <1>0, <1>a DEF SlotInv, HandSlot, Hand
  <1>d. ch' = ch \/ ch' = [ch EXCEPT ![k] = hand[c].f]
    BY Zenon DEF SendToChannel
  <1>e. ch \in [Client -> Frame \cup {NoFrame}]
    BY <1>0 DEF TypeOK
  <1> HIDE DEF k
  <1>f. \A x \in Client : \/ ch'[x] = ch[x]
                          \/ x = k /\ ch'[x] = hand[c].f
    BY <1>d, <1>e
  <1>1. TypeOK'
    <2>1. ch' \in [Client -> Frame \cup {NoFrame}]
      BY <1>c, <1>d, <1>e
    <2>2. /\ rpc' \in [Conn -> {"none", "top", "read", "send", "err", "errclose", "done"}]
          /\ hand' \in [Conn -> Hand \cup {NoFrame}]
      BY <1>0, SMTT(30) DEF TypeOK, SendToChannel
    <2>3. QED BY <1>0, <1>b, <2>1, <2>2, Zenon DEF TypeOK
  <1>2. PoolInv'
    BY <1>0, <1>a, <1>b, PoolReader, Zenon
  <1>3. SlotInv'
    <2>1. PendingSlot'
      BY <1>0, <1>b, <1>c, <1>f DEF SlotInv, PendingSlot
    <2>2. \A d \in Conn \ {c} : rpc[d] = "send" => hand[d].k # k /\ hand[d].k \in Client
      BY <1>0, <1>c DEF SlotInv, HandSlot, Hand
    <2>3. HandSlot'
      BY <1>0, <1>a, <1>b, <1>f, <2>2, SMTT(30) DEF SlotInv, HandSlot
    <2>4. ChanSlot'
      BY <1>0, <1>b, <1>c, <1>f DEF SlotInv, ChanSlot
    <2>5. QED BY <2>1, <2>3, <2>4, Zenon DEF SlotInv
  <1>4. FrameInv'
    <2>1. \A g : Fresh(g)' <=> Fresh(g)
      BY <1>b, Zenon DEF Fresh
    <2>2. RepliesSent' /\ InboxFresh' /\ InboxOnce'
      <3>1. RepliesSent' BY <1>0, <1>b, Zenon DEF FrameInv, RepliesSent
      <3>2. InboxFresh' BY <1>0, <1>b, <2>1, Zenon DEF FrameInv, InboxFresh
      <3>3. InboxOnce' BY <1>0, <1>b, SMTT(30) DEF FrameInv, InboxOnce
      <3>4. QED BY <3>1, <3>2, <3>3
    <2>3. HandFresh' /\ NotInHand'
      BY <1>0, <1>a, <1>b, <2>1, SMTT(30) DEF FrameInv, HandFresh, NotInHand
    <2>4. ChanFresh'
      BY <1>0, <1>a, <1>f, <2>1 DEF FrameInv, ChanFresh, HandFresh
    <2>5. NotInChan'
      BY <1>0, <1>a, <1>b, <1>f DEF FrameInv, NotInChan, NotInHand
    <2>6. QED BY <2>2, <2>3, <2>4, <2>5, Zenon DEF FrameInv
  <1>5. ClosedGrows
    BY <1>b, Zenon DEF ClosedGrows
  <1>6. LockInv' /\ ClientInv' /\ OpenIsOwned'
    BY <1>0, <1>b, <1>5, LockStable, ClientStable, OwnedStable, Zenon
  <1>7. QED BY <1>1, <1>2, <1>3, <1>4, <1>6, Zenon DEF IInv

(***************************************************************************)
(* The end of a connection: the peer's reset, readLoop's error path,       *)
(* watchConn and OutboundProxy.Close.                                      *)
(***************************************************************************)
\* Reset preserves the invariant.
LEMMA ResetPreserves ==
  ASSUME NEW c \in Conn, IInv, Reset(c)
  PROVE  IInv'
  <1>0. /\ TypeOK /\ LockInv /\ ClientInv /\ PoolInv /\ OpenIsOwned
        /\ SlotInv /\ FrameInv
    BY Zenon DEF IInv
  <1>a. sock[c] = "up" /\ \A d \in Conn \ {c} : sock'[d] = sock[d]
    BY <1>0 DEF Reset, TypeOK
  <1>b. UNCHANGED <<poolVars, addr, closed, seen, watched, readVars, clientVars,
                    dataVars, closeVars>>
    BY Zenon DEF Reset
  <1>1. TypeOK'
    <2>1. sock' \in [Conn -> {"none", "up", "reset", "shut"}]
      BY <1>0 DEF TypeOK, Reset
    <2>2. QED BY <1>0, <1>b, <2>1, Zenon DEF TypeOK
  <1>2. PoolInv'
    BY <1>0, <1>a, <1>b DEF PoolInv
  <1>4. ClosedGrows /\ NoNewHand
    BY <1>a, <1>b DEF ClosedGrows, NoNewHand
  <1>5. LockInv' /\ ClientInv' /\ OpenIsOwned' /\ SlotInv' /\ FrameInv'
    BY <1>0, <1>b, <1>4, LockStable, ClientStable, OwnedStable, SlotStable, FrameStable, Zenon
  <1>6. QED BY <1>1, <1>2, <1>5, Zenon DEF IInv

\* ReadError preserves the invariant.
LEMMA ReadErrorPreserves ==
  ASSUME NEW c \in Conn, IInv, ReadError(c)
  PROVE  IInv'
  <1>0. /\ TypeOK /\ LockInv /\ ClientInv /\ PoolInv /\ OpenIsOwned
        /\ SlotInv /\ FrameInv
    BY Zenon DEF IInv
  <1>a. /\ rpc[c] = "read" /\ rpc'[c] # "send"
        /\ \A d \in Conn \ {c} : rpc'[d] = rpc[d]
    BY <1>0 DEF ReadError, ReaderAt, TypeOK
  <1>b. UNCHANGED <<poolVars, connVars, inbox, hand, clientVars, dataVars, closeVars>>
    BY Zenon DEF ReadError
  <1>1. TypeOK'
    <2>1. rpc' \in [Conn -> {"none", "top", "read", "send", "err", "errclose", "done"}]
      BY <1>0 DEF TypeOK, ReadError
    <2>2. QED BY <1>0, <1>b, <2>1, Zenon DEF TypeOK
  <1>2. PoolInv'
    BY <1>0, <1>a, <1>b, PoolReader, Zenon
  <1>4. ClosedGrows /\ NoNewHand
    BY <1>a, <1>b DEF ClosedGrows, NoNewHand
  <1>5. LockInv' /\ ClientInv' /\ OpenIsOwned' /\ SlotInv' /\ FrameInv'
    BY <1>0, <1>b, <1>4, LockStable, ClientStable, OwnedStable, SlotStable, FrameStable, Zenon
  <1>6. QED BY <1>1, <1>2, <1>5, Zenon DEF IInv

\* ErrCheck preserves the invariant.
LEMMA ErrCheckPreserves ==
  ASSUME NEW c \in Conn, IInv, ErrCheck(c)
  PROVE  IInv'
  <1>0. /\ TypeOK /\ LockInv /\ ClientInv /\ PoolInv /\ OpenIsOwned
        /\ SlotInv /\ FrameInv
    BY Zenon DEF IInv
  <1>a. /\ rpc[c] = "err" /\ rpc'[c] # "send"
        /\ \A d \in Conn \ {c} : rpc'[d] = rpc[d]
    BY <1>0 DEF ErrCheck, ReaderAt, TypeOK
  <1>b. UNCHANGED <<poolVars, connVars, inbox, hand, clientVars, dataVars, closeVars>>
    BY Zenon DEF ErrCheck
  <1>1. TypeOK'
    <2>1. rpc' \in [Conn -> {"none", "top", "read", "send", "err", "errclose", "done"}]
      BY <1>0 DEF TypeOK, ErrCheck
    <2>2. QED BY <1>0, <1>b, <2>1, Zenon DEF TypeOK
  <1>2. PoolInv'
    BY <1>0, <1>a, <1>b, PoolReader, Zenon
  <1>4. ClosedGrows /\ NoNewHand
    BY <1>a, <1>b DEF ClosedGrows, NoNewHand
  <1>5. LockInv' /\ ClientInv' /\ OpenIsOwned' /\ SlotInv' /\ FrameInv'
    BY <1>0, <1>b, <1>4, LockStable, ClientStable, OwnedStable, SlotStable, FrameStable, Zenon
  <1>6. QED BY <1>1, <1>2, <1>5, Zenon DEF IInv

\* ErrClose preserves the invariant.
LEMMA ErrClosePreserves ==
  ASSUME NEW c \in Conn, IInv, ErrClose(c)
  PROVE  IInv'
  <1>0. /\ TypeOK /\ LockInv /\ ClientInv /\ PoolInv /\ OpenIsOwned
        /\ SlotInv /\ FrameInv
    BY Zenon DEF IInv
  <1>a. /\ rpc[c] = "errclose" /\ rpc'[c] = "done"
        /\ \A d \in Conn \ {c} :
              rpc'[d] = rpc[d] /\ closed'[d] = closed[d] /\ sock'[d] = sock[d]
        /\ closed[c] => closed'[c]
    BY <1>0 DEF ErrClose, CloseChannel, ReaderAt, TypeOK
  <1>b. UNCHANGED <<poolVars, addr, seen, watched, inbox, hand, clientVars, dataVars,
                    todo, closing, cpc>>
    BY Zenon DEF ErrClose
  <1>1. TypeOK'
    <2>1. closed' \in [Conn -> BOOLEAN] /\ panicked' \in BOOLEAN
      BY <1>0, Zenon DEF TypeOK, ErrClose, CloseChannel
    <2>2. /\ rpc' \in [Conn -> {"none", "top", "read", "send", "err", "errclose", "done"}]
          /\ sock' \in [Conn -> {"none", "up", "reset", "shut"}]
      BY <1>0 DEF TypeOK, ErrClose
    <2>3. QED BY <1>0, <1>b, <2>1, <2>2, Zenon DEF TypeOK
  <1>2. PoolInv'
    BY <1>0, <1>a, <1>b, Zenon DEF PoolInv
  <1>4. ClosedGrows /\ NoNewHand
    BY <1>a, <1>b DEF ClosedGrows, NoNewHand
  <1>5. LockInv' /\ ClientInv' /\ OpenIsOwned' /\ SlotInv' /\ FrameInv'
    BY <1>0, <1>b, <1>4, LockStable, ClientStable, OwnedStable, SlotStable, FrameStable, Zenon
  <1>6. QED BY <1>1, <1>2, <1>5, Zenon DEF IInv

\* Watch preserves the invariant.
LEMMA WatchPreserves ==
  ASSUME NEW c \in Conn, IInv, Watch(c)
  PROVE  IInv'
  <1>0. /\ TypeOK /\ LockInv /\ ClientInv /\ PoolInv /\ OpenIsOwned
        /\ SlotInv /\ FrameInv
    BY Zenon DEF IInv
  <1>a. /\ mu = NoOne /\ watched[c] /\ closed[c]
        /\ \A d \in Conn \ {c} : watched'[d] = watched[d]
    BY <1>0 DEF Watch, TypeOK
  <1>b. UNCHANGED <<mu, addr, closed, sock, seen, readVars, clientVars, dataVars,
                    closeVars>>
    BY Zenon DEF Watch
  <1>c. conns \in [Addr -> Conn \cup {NoConn}] /\ addr[c] \in Addr
    BY <1>0, <1>a DEF PoolInv, TypeOK
  <1>d. \A a \in Addr : conns'[a] = conns[a] \/ (conns[a] = c /\ conns'[a] = NoConn)
    <2>1. \/ conns' = conns
          \/ conns[addr[c]] = c /\ conns' = [conns EXCEPT ![addr[c]] = NoConn]
      BY Zenon DEF Watch
    <2>2. QED BY <1>c, <2>1
  <1>1. TypeOK'
    <2>1. conns' \in [Addr -> Conn \cup {NoConn}]
      BY <1>c DEF Watch
    <2>2. watched' \in [Conn -> BOOLEAN]
      BY <1>0 DEF TypeOK, Watch
    <2>3. QED BY <1>0, <1>b, <2>1, <2>2, Zenon DEF TypeOK
  <1>2. LockInv'
    <2>1. \A x \in Client : pc[x] # "connect"
      BY <1>0, <1>a, OutboundAssumption DEF LockInv
    <2>2. QED BY <1>0, <1>b, <2>1 DEF LockInv
  <1>3. PoolInv'
    BY <1>0, <1>a, <1>b, <1>d DEF PoolInv
  <1>4. OpenIsOwned'
    <2>1. \A d \in Conn : Live(d) => d # c /\ addr[d] \in Addr
      BY <1>0, <1>a DEF Live, TypeOK
    <2>2. \A d \in Conn : Live(d)' <=> Live(d)
      BY <1>b, Zenon DEF Live
    <2>3. QED BY <1>0, <1>b, <1>d, <2>1, <2>2 DEF OpenIsOwned
  <1>5. ClosedGrows /\ NoNewHand
    BY <1>b, Zenon DEF ClosedGrows, NoNewHand
  <1>6. ClientInv' /\ SlotInv' /\ FrameInv'
    BY <1>0, <1>b, <1>5, ClientStable, SlotStable, FrameStable, Zenon
  <1>7. QED BY <1>1, <1>2, <1>3, <1>4, <1>6, Zenon DEF IInv

\* CloseCall preserves the invariant.
LEMMA CloseCallPreserves ==
  ASSUME IInv, CloseCall
  PROVE  IInv'
  <1>0. /\ TypeOK /\ LockInv /\ ClientInv /\ PoolInv /\ OpenIsOwned
        /\ SlotInv /\ FrameInv
    BY Zenon DEF IInv
  <1>a. cpc = "idle" /\ cpc' = "called"
    BY DEF CloseCall, CloserAt
  <1>b. UNCHANGED <<poolVars, connVars, readVars, clientVars, dataVars, todo, closing,
                    panicked>>
    BY Zenon DEF CloseCall
  <1>1. TypeOK'
    BY <1>0, <1>a, <1>b, Zenon DEF TypeOK
  <1>2. PoolInv'
    BY <1>0, <1>a, <1>b DEF PoolInv
  <1>4. ClosedGrows /\ NoNewHand
    BY <1>a, <1>b DEF ClosedGrows, NoNewHand
  <1>5. LockInv' /\ ClientInv' /\ OpenIsOwned' /\ SlotInv' /\ FrameInv'
    BY <1>0, <1>b, <1>4, LockStable, ClientStable, OwnedStable, SlotStable, FrameStable, Zenon
  <1>6. QED BY <1>1, <1>2, <1>5, Zenon DEF IInv

\* CloseSnapshot preserves the invariant.
LEMMA CloseSnapshotPreserves ==
  ASSUME IInv, CloseSnapshot
  PROVE  IInv'
  <1>0. /\ TypeOK /\ LockInv /\ ClientInv /\ PoolInv /\ OpenIsOwned
        /\ SlotInv /\ FrameInv
    BY Zenon DEF IInv
  <1>a. /\ cpc = "called" /\ cpc' = "closing" /\ mu = NoOne
        /\ todo' = {conns[a] : a \in Addr} \ {NoConn} /\ conns' = [a \in Addr |-> NoConn]
    BY DEF CloseSnapshot, CloserAt
  <1>b. UNCHANGED <<mu, connVars, readVars, clientVars, dataVars, closing, panicked>>
    BY Zenon DEF CloseSnapshot
  <1>1. TypeOK'
    <2>1. todo' \subseteq Conn /\ conns' \in [Addr -> Conn \cup {NoConn}]
          /\ cpc' \in {"idle", "called", "closing", "done"}
      BY <1>0, <1>a DEF TypeOK
    <2>2. QED BY <1>0, <1>b, <2>1, Zenon DEF TypeOK
  <1>2. LockInv'
    <2>1. \A x \in Client : pc[x] # "connect"
      BY <1>0, <1>a, OutboundAssumption DEF LockInv
    <2>2. QED BY <1>0, <1>b, <2>1 DEF LockInv
  <1>3. PoolInv'
    <2>1. \A c \in todo' : addr[c] # NoAddr
      BY <1>0, <1>a, OutboundAssumption DEF PoolInv
    <2>2. closing = NoConn
      BY <1>0, <1>a DEF PoolInv
    <2>3. QED BY <1>0, <1>a, <1>b, <2>1, <2>2 DEF PoolInv
  <1>4. OpenIsOwned'
    <2>1. \A c \in Conn : Live(c) => addr[c] \in Addr /\ conns[addr[c]] = c
      BY <1>0, <1>a DEF OpenIsOwned, PoolInv, TypeOK, Live
    <2>2. \A c \in Conn : Live(c) => c \in todo'
      BY <1>a, <2>1, OutboundAssumption
    <2>3. \A c \in Conn : Live(c)' <=> Live(c)
      BY <1>b, Zenon DEF Live
    <2>4. QED BY <2>2, <2>3 DEF OpenIsOwned
  <1>5. ClosedGrows /\ NoNewHand
    BY <1>b, Zenon DEF ClosedGrows, NoNewHand
  <1>6. ClientInv' /\ SlotInv' /\ FrameInv'
    BY <1>0, <1>b, <1>5, ClientStable, SlotStable, FrameStable, Zenon
  <1>7. QED BY <1>1, <1>2, <1>3, <1>4, <1>6, Zenon DEF IInv

\* CloseCheck preserves the invariant.
LEMMA CloseCheckPreserves ==
  ASSUME NEW c \in Conn, IInv, CloseCheck(c)
  PROVE  IInv'
  <1>0. /\ TypeOK /\ LockInv /\ ClientInv /\ PoolInv /\ OpenIsOwned
        /\ SlotInv /\ FrameInv
    BY Zenon DEF IInv
  <1>a. /\ cpc = "closing" /\ closing = NoConn /\ c \in todo
        /\ \A d \in Conn \ {c} : sock'[d] = sock[d] /\ (d \in todo <=> d \in todo')
        /\ todo' \subseteq todo /\ (~closed[c] => c \in todo')
        /\ closing' = NoConn \/ (closing' = c /\ todo' = todo)
    <2>1. \/ /\ closed[c] /\ sock' = [sock EXCEPT ![c] = "shut"]
             /\ todo' = todo \ {c} /\ closing' = closing
          \/ ~closed[c] /\ closing' = c /\ UNCHANGED <<sock, todo>>
      BY Zenon DEF CloseCheck
    <2>2. cpc = "closing" /\ closing = NoConn /\ c \in todo
      BY DEF CloseCheck, CloserAt
    <2>3. sock \in [Conn -> {"none", "up", "reset", "shut"}] /\ todo \subseteq Conn
      BY <1>0 DEF TypeOK
    <2>4. CASE /\ closed[c] /\ sock' = [sock EXCEPT ![c] = "shut"]
               /\ todo' = todo \ {c} /\ closing' = closing
      BY <2>2, <2>3, <2>4
    <2>5. CASE ~closed[c] /\ closing' = c /\ UNCHANGED <<sock, todo>>
      BY <2>2, <2>3, <2>5
    <2>6. QED BY <2>1, <2>4, <2>5
  <1>b. UNCHANGED <<poolVars, addr, closed, seen, watched, readVars, clientVars,
                    dataVars, cpc, panicked>>
    BY Zenon DEF CloseCheck
  <1>1. TypeOK'
    <2>1. sock' \in [Conn -> {"none", "up", "reset", "shut"}]
      <3>1. /\ sock \in [Conn -> {"none", "up", "reset", "shut"}]
            /\ sock' = sock \/ sock' = [sock EXCEPT ![c] = "shut"]
        BY <1>0 DEF TypeOK, CloseCheck
      <3>2. QED BY <3>1
    <2>2. todo' \subseteq Conn /\ closing' \in Conn \cup {NoConn}
      BY <1>0, <1>a, Zenon DEF TypeOK
    <2>3. QED BY <1>0, <1>b, <2>1, <2>2, Zenon DEF TypeOK
  <1>3. PoolInv'
    BY <1>0, <1>a, <1>b DEF PoolInv
  <1>4. OpenIsOwned'
    <2>1. \A d \in Conn : Live(d)' => Live(d) /\ (d \in todo => d \in todo')
      BY <1>a, <1>b DEF Live
    <2>2. conns' = conns /\ addr' = addr
      BY <1>b, Zenon
    <2>3. QED BY <1>0, <2>1, <2>2, Zenon DEF OpenIsOwned
  <1>5. ClosedGrows /\ NoNewHand
    BY <1>a, <1>b DEF ClosedGrows, NoNewHand
  <1>6. LockInv' /\ ClientInv' /\ SlotInv' /\ FrameInv'
    BY <1>0, <1>b, <1>5, LockStable, ClientStable, SlotStable, FrameStable, Zenon
  <1>7. QED BY <1>1, <1>3, <1>4, <1>6, Zenon DEF IInv

\* CloseConn preserves the invariant.
LEMMA CloseConnPreserves ==
  ASSUME IInv, CloseConn
  PROVE  IInv'
  <1>0. /\ TypeOK /\ LockInv /\ ClientInv /\ PoolInv /\ OpenIsOwned
        /\ SlotInv /\ FrameInv
    BY Zenon DEF IInv
  <1>t. cpc = "closing" /\ closing \in Conn /\ closing \in todo /\ addr[closing] # NoAddr
    BY <1>0 DEF CloseConn, CloserAt, PoolInv, TypeOK
  <1>a. /\ closing' = NoConn /\ todo' = todo \ {closing} /\ closed'[closing]
        /\ \A d \in Conn \ {closing} : closed'[d] = closed[d] /\ sock'[d] = sock[d]
    BY <1>0, <1>t DEF CloseConn, CloseChannel, TypeOK
  <1>b. UNCHANGED <<poolVars, addr, seen, watched, readVars, clientVars, dataVars, cpc>>
    BY Zenon DEF CloseConn
  <1>1. TypeOK'
    <2>1. closed' \in [Conn -> BOOLEAN] /\ panicked' \in BOOLEAN
      BY <1>0, <1>t, Zenon DEF TypeOK, CloseConn, CloseChannel
    <2>2. sock' \in [Conn -> {"none", "up", "reset", "shut"}]
      BY <1>0 DEF TypeOK, CloseConn
    <2>3. todo' \subseteq Conn /\ closing' \in Conn \cup {NoConn}
      BY <1>0, <1>a DEF TypeOK
    <2>4. QED BY <1>0, <1>b, <2>1, <2>2, <2>3, Zenon DEF TypeOK
  <1>3. PoolInv'
    BY <1>0, <1>t, <1>a, <1>b, Zenon DEF PoolInv
  <1>4. OpenIsOwned'
    <2>1. \A d \in Conn : Live(d)' => Live(d) /\ (d \in todo => d \in todo')
      BY <1>a, <1>b DEF Live
    <2>2. conns' = conns /\ addr' = addr
      BY <1>b, Zenon
    <2>3. QED BY <1>0, <2>1, <2>2, Zenon DEF OpenIsOwned
  <1>5. ClosedGrows /\ NoNewHand
    BY <1>a, <1>b DEF ClosedGrows, NoNewHand
  <1>6. LockInv' /\ ClientInv' /\ SlotInv' /\ FrameInv'
    BY <1>0, <1>b, <1>5, LockStable, ClientStable, SlotStable, FrameStable, Zenon
  <1>7. QED BY <1>1, <1>3, <1>4, <1>6, Zenon DEF IInv

\* CloseReturn preserves the invariant.
LEMMA CloseReturnPreserves ==
  ASSUME IInv, CloseReturn
  PROVE  IInv'
  <1>0. /\ TypeOK /\ LockInv /\ ClientInv /\ PoolInv /\ OpenIsOwned
        /\ SlotInv /\ FrameInv
    BY Zenon DEF IInv
  <1>a. cpc = "closing" /\ cpc' = "done"
    BY DEF CloseReturn, CloserAt
  <1>b. UNCHANGED <<poolVars, connVars, readVars, clientVars, dataVars, todo, closing,
                    panicked>>
    BY Zenon DEF CloseReturn
  <1>1. TypeOK'
    BY <1>0, <1>a, <1>b, Zenon DEF TypeOK
  <1>2. PoolInv'
    BY <1>0, <1>a, <1>b DEF PoolInv
  <1>4. ClosedGrows /\ NoNewHand
    BY <1>a, <1>b DEF ClosedGrows, NoNewHand
  <1>5. LockInv' /\ ClientInv' /\ OpenIsOwned' /\ SlotInv' /\ FrameInv'
    BY <1>0, <1>b, <1>4, LockStable, ClientStable, OwnedStable, SlotStable, FrameStable, Zenon
  <1>6. QED BY <1>1, <1>2, <1>5, Zenon DEF IInv
=============================================================================
