-------------------------- MODULE OutboundClients ---------------------------
(***************************************************************************)
(* What keeps each part of the inductive invariant of module Outbound, a   *)
(* lemma per part and per kind of step; and that every step of a client's  *)
(* goroutine preserves the invariant.                                      *)
(*                                                                         *)
(* The lemma of an action first says what the action changes, pointwise    *)
(* (step <1>a and the letters after it), and then leaves the action's      *)
(* definition alone: each part of the invariant follows from that effect,  *)
(* by one of the first lemmas where several actions have the same one.     *)
(***************************************************************************)
EXTENDS Outbound, TLAPS

USE DEF poolVars, connVars, readVars, clientVars, dataVars, closeVars

(***************************************************************************)
(* What keeps each part of the invariant.                                  *)
(***************************************************************************)
\* A connection's channel is never reopened.
ClosedGrows == \A c \in Conn : closed[c] => closed'[c]

\* No handler starts to hold a channel.
NoNewHand == UNCHANGED hand /\ \A c \in Conn : rpc'[c] = "send" => rpc[c] = "send"

\* A client has no slot, neither in pending nor in a handler's hand.
NoSlot(k) == \A c \in Conn : pending[c][k] = 0 /\ (rpc[c] = "send" => hand[c].k # k)

\* Only client k moves.
OthersStay(k) == \A x \in Client \ {k} :
                   pc'[x] = pc[x] /\ target'[x] = target[x] /\ held'[x] = held[x]

\* LockInv survives a step that leaves the clients, the lock and the pool alone.
LEMMA LockStable ==
  ASSUME TypeOK, LockInv, ClientInv, UNCHANGED <<pc, mu, conns, target>>, ClosedGrows
  PROVE  LockInv'
  BY DEF TypeOK, LockInv, ClientInv, Inside, ClosedGrows

\* LockInv survives the step of a client that neither holds nor takes the lock.
LEMMA LockMove ==
  ASSUME NEW k \in Client, LockInv, pc[k] # "connect", pc'[k] # "connect",
         OthersStay(k), UNCHANGED <<mu, conns, closed>>
  PROVE  LockInv'
  BY DEF LockInv, OthersStay

\* ClientInv survives a step that leaves the clients alone.
LEMMA ClientStable ==
  ASSUME ClientInv, UNCHANGED <<pc, target, held>>
  PROVE  ClientInv'
  BY DEF ClientInv

\* ClientInv survives a client's step that leads to what its new place requires.
LEMMA ClientMove ==
  ASSUME NEW k \in Client, ClientInv, OthersStay(k),
         pc'[k] \in Inside => target'[k] \in Addr,
         pc'[k] \in {"register", "write", "wait"} => held'[k] \in Conn
  PROVE  ClientInv'
  BY DEF ClientInv, OthersStay

\* PoolInv survives a step that leaves the pool and the connections alone.
LEMMA PoolStable ==
  ASSUME PoolInv, UNCHANGED <<conns, connVars, rpc, todo, closing, cpc>>
  PROVE  PoolInv'
  BY DEF PoolInv

\* PoolInv survives a step of a running readLoop.
LEMMA PoolReader ==
  ASSUME NEW c \in Conn, PoolInv, rpc[c] # "none", \A d \in Conn \ {c} : rpc'[d] = rpc[d],
         UNCHANGED <<conns, connVars, todo, closing, cpc>>
  PROVE  PoolInv'
  BY DEF PoolInv

\* OpenIsOwned survives a step that leaves the pool and Close's list alone.
LEMMA OwnedStable ==
  ASSUME OpenIsOwned, UNCHANGED <<conns, addr, todo>>, ClosedGrows
  PROVE  OpenIsOwned'
  BY DEF OpenIsOwned, Live, ClosedGrows

\* SlotInv survives a step that leaves the clients and their channels alone.
LEMMA SlotStable ==
  ASSUME SlotInv, UNCHANGED <<pending, req, held, ch, pc>>, NoNewHand, ClosedGrows
  PROVE  SlotInv'
  <1>1. PendingSlot'
    BY DEF SlotInv, PendingSlot, ClosedGrows
  <1>2. HandSlot'
    BY DEF SlotInv, HandSlot, NoNewHand
  <1>3. ChanSlot'
    BY DEF SlotInv, ChanSlot
  <1>4. QED BY <1>1, <1>2, <1>3 DEF SlotInv

\* A client that is not writing, waiting or gone has no slot.
LEMMA OutsideNoSlot ==
  ASSUME NEW k \in Client, SlotInv, pc[k] \notin {"write", "wait", "gone"}
  PROVE  NoSlot(k) /\ ch[k] = NoFrame
  BY DEF SlotInv, PendingSlot, HandSlot, ChanSlot, NoSlot

\* SlotInv survives a step of a client without a slot that leaves it none.
LEMMA SlotEmpty ==
  ASSUME NEW k \in Client, SlotInv, NoSlot(k), ch'[k] = NoFrame,
         \A x \in Client \ {k} : /\ pc'[x] = pc[x] /\ held'[x] = held[x]
                                 /\ req'[x] = req[x] /\ ch'[x] = ch[x],
         UNCHANGED <<pending, closed>>, NoNewHand
  PROVE  SlotInv'
  <1>1. PendingSlot'
    BY DEF SlotInv, PendingSlot, NoSlot
  <1>2. HandSlot'
    BY DEF SlotInv, HandSlot, NoSlot, NoNewHand, Hand
  <1>3. ChanSlot'
    BY DEF SlotInv, ChanSlot
  <1>4. QED BY <1>1, <1>2, <1>3 DEF SlotInv

\* SlotInv survives a step of a client that keeps its slot, or whose connection
\* is closed.
LEMMA SlotKept ==
  ASSUME NEW k \in Client, SlotInv, \A x \in Client \ {k} : pc'[x] = pc[x],
         pc'[k] \in {"write", "wait", "gone"}, pc'[k] = "gone" => closed[held[k]],
         UNCHANGED <<pending, closed, held, req, ch, rpc, hand>>
  PROVE  SlotInv'
  <1>1. PendingSlot'
    BY DEF SlotInv, PendingSlot
  <1>2. HandSlot'
    BY DEF SlotInv, HandSlot, Hand
  <1>3. ChanSlot'
    BY DEF SlotInv, ChanSlot
  <1>4. QED BY <1>1, <1>2, <1>3 DEF SlotInv

\* SlotInv survives UnregisterPending by a client that goes.
LEMMA SlotDropped ==
  ASSUME NEW k \in Client, SlotInv, \A x \in Client \ {k} : pc'[x] = pc[x], pc'[k] = "gone",
         \A c \in Conn, x \in Client :
           pending'[c][x] = IF c = held[k] /\ x = k THEN 0 ELSE pending[c][x],
         UNCHANGED <<closed, held, req, ch, rpc, hand>>
  PROVE  SlotInv'
  <1>1. PendingSlot'
    BY DEF SlotInv, PendingSlot
  <1>2. HandSlot'
    BY DEF SlotInv, HandSlot, Hand
  <1>3. ChanSlot'
    BY DEF SlotInv, ChanSlot
  <1>4. QED BY <1>1, <1>2, <1>3 DEF SlotInv

\* FrameInv survives a step that moves no frame, but may empty a channel.
LEMMA FrameStable ==
  ASSUME FrameInv, UNCHANGED <<inbox, emitted, replies>>, NoNewHand,
         \A k \in Client : ch'[k] # NoFrame => ch'[k] = ch[k]
  PROVE  FrameInv'
  <1>1. RepliesSent' /\ InboxOnce'
    BY DEF FrameInv, RepliesSent, InboxOnce
  <1>2. InboxFresh'
    BY DEF FrameInv, InboxFresh, Fresh
  <1>3. HandFresh' /\ NotInHand'
    BY DEF FrameInv, HandFresh, NotInHand, NoNewHand, Fresh
  <1>4. ChanFresh' /\ NotInChan'
    BY DEF FrameInv, ChanFresh, NotInChan, Fresh
  <1>5. QED BY <1>1, <1>2, <1>3, <1>4 DEF FrameInv

\* Taking the first element off a sequence shifts the others by one.
LEMMA TailElements ==
  ASSUME NEW s \in Seq(Frame), s # <<>>
  PROVE  /\ Tail(s) \in Seq(Frame) /\ Head(s) \in Frame /\ 1 \in DOMAIN s /\ Head(s) = s[1]
         /\ \A i \in DOMAIN Tail(s) : /\ i + 1 \in DOMAIN s /\ i + 1 # 1 /\ i \in Nat
                                      /\ Tail(s)[i] = s[i + 1]
  OBVIOUS

(***************************************************************************)
(* Forwarding a packet: the rest of ForwardPacket.                         *)
(***************************************************************************)
\* Register preserves the invariant.
LEMMA RegisterPreserves ==
  ASSUME NEW k \in Client, IInv, Register(k)
  PROVE  IInv'
  <1>0. /\ TypeOK /\ LockInv /\ ClientInv /\ PoolInv /\ OpenIsOwned
        /\ SlotInv /\ FrameInv
    BY Zenon DEF IInv
  <1>a. /\ pc[k] = "register" /\ pc'[k] = "write" /\ ch'[k] = NoFrame /\ OthersStay(k)
        /\ \A x \in Client \ {k} : ch'[x] = ch[x]
    BY <1>0 DEF Register, At, Goto, TypeOK, OthersStay
  <1>b. UNCHANGED <<poolVars, connVars, readVars, target, held, req, replies, emitted,
                    closeVars>>
    BY Zenon DEF Register
  <1>c. held[k] \in Conn /\ target[k] \in Addr
    BY <1>0, <1>a DEF ClientInv, Inside
  <1>d. \A d \in Conn, x \in Client :
          pending'[d][x] = IF d = held[k] /\ x = k THEN req[k] ELSE pending[d][x]
    BY <1>0, <1>c, Zenon DEF TypeOK, Register
  <1>1. TypeOK'
    <2>1. pc' \in [Client -> Outside \cup Inside] /\ ch' \in [Client -> Frame \cup {NoFrame}]
      BY <1>0 DEF TypeOK, Outside, Inside, Register, Goto
    <2>2. pending' \in [Conn -> [Client -> Nat]]
      BY <1>0, <1>c DEF TypeOK, Register
    <2>3. QED BY <1>0, <1>b, <2>1, <2>2, Zenon DEF TypeOK
  <1>2. LockInv'
    BY <1>0, <1>a, <1>b, LockMove, Zenon
  <1>3. ClientInv'
    BY <1>0, <1>a, <1>b, <1>c, ClientMove, Zenon
  <1>4. ClosedGrows /\ NoNewHand
    BY <1>b, Zenon DEF ClosedGrows, NoNewHand
  <1>5. SlotInv'
    <2>1. NoSlot(k)
      BY <1>0, <1>a, OutsideNoSlot, Zenon
    <2>2. PendingSlot'
      BY <1>0, <1>a, <1>b, <1>d, <2>1 DEF SlotInv, PendingSlot, NoSlot, OthersStay
    <2>3. HandSlot'
      BY <1>0, <1>a, <1>b, <1>d, <2>1 DEF SlotInv, HandSlot, NoSlot, OthersStay, Hand
    <2>4. ChanSlot'
      BY <1>0, <1>a, <1>b DEF SlotInv, ChanSlot, OthersStay
    <2>5. QED BY <2>2, <2>3, <2>4, Zenon DEF SlotInv
  <1>6. PoolInv' /\ OpenIsOwned'
    BY <1>0, <1>b, <1>4, PoolStable, OwnedStable, Zenon
  <1>7. FrameInv'
    BY <1>0, <1>a, <1>b, <1>4, FrameStable, Zenon
  <1>8. QED BY <1>1, <1>2, <1>3, <1>5, <1>6, <1>7, Zenon DEF IInv

\* WriteOk preserves the invariant.
LEMMA WriteOkPreserves ==
  ASSUME NEW k \in Client, IInv, WriteOk(k)
  PROVE  IInv'
  <1>0. /\ TypeOK /\ LockInv /\ ClientInv /\ PoolInv /\ OpenIsOwned
        /\ SlotInv /\ FrameInv
    BY Zenon DEF IInv
  <1>a. /\ pc[k] = "write" /\ pc'[k] = "wait" /\ OthersStay(k)
    BY <1>0 DEF WriteOk, At, Goto, TypeOK, OthersStay
  <1>b. UNCHANGED <<poolVars, addr, closed, sock, watched, readVars, target, held, req,
                    dataVars, closeVars>>
    BY Zenon DEF WriteOk
  <1>c. held[k] \in Conn /\ target[k] \in Addr
    BY <1>0, <1>a DEF ClientInv, Inside
  <1>1. TypeOK'
    <2>1. pc' \in [Client -> Outside \cup Inside]
      BY <1>0 DEF TypeOK, Outside, Inside, WriteOk, Goto
    <2>2. seen' \in [Conn -> SUBSET Client]
      BY <1>0, <1>c DEF TypeOK, WriteOk
    <2>3. QED BY <1>0, <1>b, <2>1, <2>2, Zenon DEF TypeOK
  <1>2. LockInv'
    BY <1>0, <1>a, <1>b, LockMove, Zenon
  <1>3. ClientInv'
    BY <1>0, <1>a, <1>b, <1>c, ClientMove, Zenon
  <1>4. PoolInv'
    <2>1. \A c \in Conn : addr[c] = NoAddr => seen'[c] = seen[c]
      BY <1>0, <1>c DEF TypeOK, PoolInv, WriteOk
    <2>2. QED BY <1>0, <1>b, <2>1 DEF PoolInv
  <1>5. ClosedGrows /\ NoNewHand
    BY <1>b, Zenon DEF ClosedGrows, NoNewHand
  <1>6. SlotInv'
    BY <1>0, <1>a, <1>b, SlotKept, Zenon DEF OthersStay
  <1>7. OpenIsOwned' /\ FrameInv'
    BY <1>0, <1>b, <1>5, OwnedStable, FrameStable, Zenon
  <1>8. QED BY <1>1, <1>2, <1>3, <1>4, <1>6, <1>7, Zenon DEF IInv

\* WriteFail preserves the invariant.
LEMMA WriteFailPreserves ==
  ASSUME NEW k \in Client, IInv, WriteFail(k)
  PROVE  IInv'
  <1>0. /\ TypeOK /\ LockInv /\ ClientInv /\ PoolInv /\ OpenIsOwned
        /\ SlotInv /\ FrameInv
    BY Zenon DEF IInv
  <1>a. /\ pc[k] = "write" /\ pc'[k] = "gone" /\ OthersStay(k)
    BY <1>0 DEF WriteFail, At, Goto, TypeOK, OthersStay
  <1>b. UNCHANGED <<poolVars, connVars, readVars, target, held, req, ch, replies,
                    emitted, closeVars>>
    BY Zenon DEF WriteFail
  <1>c. held[k] \in Conn
    BY <1>0, <1>a DEF ClientInv
  <1>d. \A d \in Conn, x \in Client :
          pending'[d][x] = IF d = held[k] /\ x = k THEN 0 ELSE pending[d][x]
    BY <1>0, <1>c, Zenon DEF TypeOK, WriteFail, Unregister
  <1>1. TypeOK'
    <2>1. pc' \in [Client -> Outside \cup Inside]
      BY <1>0 DEF TypeOK, Outside, Inside, WriteFail, Goto
    <2>2. pending' \in [Conn -> [Client -> Nat]]
      BY <1>0, <1>c DEF TypeOK, WriteFail, Unregister
    <2>3. QED BY <1>0, <1>b, <2>1, <2>2, Zenon DEF TypeOK
  <1>2. LockInv'
    BY <1>0, <1>a, <1>b, LockMove, Zenon
  <1>3. ClientInv'
    BY <1>0, <1>a, ClientMove, Zenon DEF Inside
  <1>4. ClosedGrows /\ NoNewHand
    BY <1>b, Zenon DEF ClosedGrows, NoNewHand
  <1>5. SlotInv'
    BY <1>0, <1>a, <1>b, <1>d, SlotDropped, Zenon DEF OthersStay
  <1>6. PoolInv' /\ OpenIsOwned' /\ FrameInv'
    BY <1>0, <1>b, <1>4, PoolStable, OwnedStable, FrameStable, Zenon
  <1>7. QED BY <1>1, <1>2, <1>3, <1>5, <1>6, Zenon DEF IInv

\* Receive preserves the invariant.
LEMMA ReceivePreserves ==
  ASSUME NEW k \in Client, IInv, Receive(k)
  PROVE  IInv'
  <1>0. /\ TypeOK /\ LockInv /\ ClientInv /\ PoolInv /\ OpenIsOwned
        /\ SlotInv /\ FrameInv
    BY Zenon DEF IInv
  <1>a. /\ pc[k] = "wait" /\ pc'[k] \in Outside /\ OthersStay(k)
        /\ ch[k] # NoFrame /\ ch'[k] = NoFrame
        /\ \A x \in Client \ {k} : ch'[x] = ch[x] /\ replies'[x] = replies[x]
        /\ replies'[k] = replies[k] \/ replies'[k] = replies[k] \cup {ch[k].n}
    BY <1>0 DEF Receive, At, Goto, TypeOK, OthersStay, Outside
  <1>b. UNCHANGED <<poolVars, connVars, readVars, target, held, req, pending, emitted,
                    closeVars>>
    BY Zenon DEF Receive
  <1>c. ch[k] \in Frame /\ ch[k].id = k /\ ch[k].n \in Nat /\ Fresh(ch[k])
    BY <1>0, <1>a DEF TypeOK, SlotInv, ChanSlot, FrameInv, ChanFresh, Frame
  <1>1. TypeOK'
    <2>1. replies' \in [Client -> SUBSET Nat]
      <3>1. replies[k] \cup {ch[k].n} \in SUBSET Nat /\ replies \in [Client -> SUBSET Nat]
        BY <1>0, <1>c DEF TypeOK
      <3>2. replies' = replies \/ replies' = [replies EXCEPT ![k] = @ \cup {ch[k].n}]
        BY Zenon DEF Receive
      <3>3. QED BY <3>1, <3>2
    <2>2. pc' \in [Client -> Outside \cup Inside] /\ ch' \in [Client -> Frame \cup {NoFrame}]
      BY <1>0, Zenon DEF TypeOK, Outside, Inside, Receive, Goto
    <2>3. QED BY <1>0, <1>b, <2>1, <2>2, Zenon DEF TypeOK
  <1>2. LockInv'
    BY <1>0, <1>a, <1>b, LockMove, Zenon DEF Outside
  <1>3. ClientInv'
    BY <1>0, <1>a, ClientMove, Zenon DEF Inside, Outside
  <1>4. ClosedGrows /\ NoNewHand
    BY <1>b, Zenon DEF ClosedGrows, NoNewHand
  <1>5. SlotInv'
    <2>0. /\ \A c \in Conn : pending[c][k] = 0
          /\ \A c \in Conn : rpc[c] = "send" => hand[c].k # k
      <3>1. \A c \in Conn : pending[c][k] = 0
        BY <1>0, <1>a DEF SlotInv, PendingSlot
      <3>2. \A c \in Conn : rpc[c] = "send" => hand[c].k # k
        BY <1>0, <1>a DEF SlotInv, HandSlot
      <3>3. QED BY <3>1, <3>2
    <2>1. NoSlot(k)
      BY <2>0 DEF NoSlot
    <2>2. QED BY <1>0, <1>a, <1>b, <1>4, <2>1, SlotEmpty, Zenon DEF OthersStay
  <1>6. FrameInv'
    <2>1. \A f \in Frame : Fresh(f) /\ Key(f) # Key(ch[k]) => Fresh(f)'
      BY <1>a, <1>b, <1>c DEF Fresh, Key, Frame
    <2>2. RepliesSent'
      BY <1>0, <1>a, <1>b, <1>c DEF FrameInv, RepliesSent, Fresh
    <2>3. InboxFresh'
      <3>1. \A c \in Conn : \A i \in DOMAIN inbox[c] : inbox[c][i] \in Frame
        BY <1>0 DEF TypeOK
      <3>2. \A c \in Conn : \A i \in DOMAIN inbox[c] : Key(inbox[c][i]) # Key(ch[k])
        BY <1>0, <1>a DEF FrameInv, NotInChan
      <3>3. QED BY <1>0, <1>b, <2>1, <3>1, <3>2 DEF FrameInv, InboxFresh
    <2>4. HandFresh'
      <3>1. \A c \in Conn : rpc[c] = "send" =>
              hand[c].f \in Frame /\ Key(hand[c].f) # Key(ch[k])
        BY <1>0, <1>a, <1>c DEF SlotInv, HandSlot, Hand, Key
      <3>2. QED BY <1>0, <1>b, <2>1, <3>1 DEF FrameInv, HandFresh
    <2>5. ChanFresh'
      <3>1. \A x \in Client \ {k} : ch[x] # NoFrame =>
              ch[x] \in Frame /\ Key(ch[x]) # Key(ch[k])
        BY <1>0, <1>c, SMTT(30) DEF SlotInv, ChanSlot, TypeOK, Key
      <3>2. QED BY <1>0, <1>a, <2>1, <3>1 DEF FrameInv, ChanFresh
    <2>6. InboxOnce' /\ NotInHand'
      <3>1. inbox' = inbox /\ rpc' = rpc /\ hand' = hand
        BY <1>b, Zenon
      <3>2. InboxOnce'
        <4>1. InboxOnce /\ inbox' = inbox
          BY <1>0, <3>1, Zenon DEF FrameInv
        <4>2. QED BY <4>1, SMTT(30) DEF InboxOnce
      <3>3. NotInHand'
        BY <1>0, <3>1, Zenon DEF FrameInv, NotInHand
      <3>4. QED BY <3>2, <3>3, Zenon
    <2>7. NotInChan'
      <3>1. \A x \in Client : ch'[x] # NoFrame => ch'[x] = ch[x]
        BY <1>a, Zenon
      <3>2. inbox' = inbox
        BY <1>b, Zenon
      <3>3. QED BY <1>0, <3>1, <3>2, Zenon DEF FrameInv, NotInChan
    <2>8. QED BY <2>2, <2>3, <2>4, <2>5, <2>6, <2>7, Zenon DEF FrameInv
  <1>7. PoolInv' /\ OpenIsOwned'
    BY <1>0, <1>b, <1>4, PoolStable, OwnedStable, Zenon
  <1>8. QED BY <1>1, <1>2, <1>3, <1>5, <1>6, <1>7, Zenon DEF IInv

\* ConnClosed preserves the invariant.
LEMMA ConnClosedPreserves ==
  ASSUME NEW k \in Client, IInv, ConnClosed(k)
  PROVE  IInv'
  <1>0. /\ TypeOK /\ LockInv /\ ClientInv /\ PoolInv /\ OpenIsOwned
        /\ SlotInv /\ FrameInv
    BY Zenon DEF IInv
  <1>a. /\ pc[k] = "wait" /\ pc'[k] = "gone" /\ closed[held[k]] /\ OthersStay(k)
    BY <1>0 DEF ConnClosed, At, Goto, TypeOK, OthersStay
  <1>b. UNCHANGED <<poolVars, connVars, readVars, target, held, req, dataVars, closeVars>>
    BY Zenon DEF ConnClosed
  <1>1. TypeOK'
    <2>1. pc' \in [Client -> Outside \cup Inside]
      BY <1>0 DEF TypeOK, Outside, Inside, ConnClosed, Goto
    <2>2. QED BY <1>0, <1>b, <2>1, Zenon DEF TypeOK
  <1>2. LockInv'
    BY <1>0, <1>a, <1>b, LockMove, Zenon
  <1>3. ClientInv'
    BY <1>0, <1>a, ClientMove, Zenon DEF Inside
  <1>4. ClosedGrows /\ NoNewHand
    BY <1>b, Zenon DEF ClosedGrows, NoNewHand
  <1>5. SlotInv'
    BY <1>0, <1>a, <1>b, SlotKept, Zenon DEF OthersStay
  <1>6. PoolInv' /\ OpenIsOwned' /\ FrameInv'
    BY <1>0, <1>b, <1>4, PoolStable, OwnedStable, FrameStable, Zenon
  <1>7. QED BY <1>1, <1>2, <1>3, <1>5, <1>6, Zenon DEF IInv

\* Timeout preserves the invariant.
LEMMA TimeoutPreserves ==
  ASSUME NEW k \in Client, IInv, Timeout(k)
  PROVE  IInv'
  <1>0. /\ TypeOK /\ LockInv /\ ClientInv /\ PoolInv /\ OpenIsOwned
        /\ SlotInv /\ FrameInv
    BY Zenon DEF IInv
  <1>a. /\ pc[k] = "wait" /\ pc'[k] = "gone" /\ OthersStay(k)
    BY <1>0 DEF Timeout, At, Goto, TypeOK, OthersStay
  <1>b. UNCHANGED <<poolVars, connVars, readVars, target, held, req, ch, replies,
                    emitted, closeVars>>
    BY Zenon DEF Timeout
  <1>c. held[k] \in Conn
    BY <1>0, <1>a DEF ClientInv
  <1>d. \A d \in Conn, x \in Client :
          pending'[d][x] = IF d = held[k] /\ x = k THEN 0 ELSE pending[d][x]
    BY <1>0, <1>c, Zenon DEF TypeOK, Timeout, Unregister
  <1>1. TypeOK'
    <2>1. pc' \in [Client -> Outside \cup Inside]
      BY <1>0 DEF TypeOK, Outside, Inside, Timeout, Goto
    <2>2. pending' \in [Conn -> [Client -> Nat]]
      BY <1>0, <1>c DEF TypeOK, Timeout, Unregister
    <2>3. QED BY <1>0, <1>b, <2>1, <2>2, Zenon DEF TypeOK
  <1>2. LockInv'
    BY <1>0, <1>a, <1>b, LockMove, Zenon
  <1>3. ClientInv'
    BY <1>0, <1>a, ClientMove, Zenon DEF Inside
  <1>4. ClosedGrows /\ NoNewHand
    BY <1>b, Zenon DEF ClosedGrows, NoNewHand
  <1>5. SlotInv'
    BY <1>0, <1>a, <1>b, <1>d, SlotDropped, Zenon DEF OthersStay
  <1>6. PoolInv' /\ OpenIsOwned' /\ FrameInv'
    BY <1>0, <1>b, <1>4, PoolStable, OwnedStable, FrameStable, Zenon
  <1>7. QED BY <1>1, <1>2, <1>3, <1>5, <1>6, Zenon DEF IInv

(***************************************************************************)
(* Looking for a connection: getConnection and reconnect.                  *)
(***************************************************************************)
\* Submit preserves the invariant.
LEMMA SubmitPreserves ==
  ASSUME NEW k \in Client, NEW a \in Addr, IInv, Submit(k, a)
  PROVE  IInv'
  <1>0. /\ TypeOK /\ LockInv /\ ClientInv /\ PoolInv /\ OpenIsOwned
        /\ SlotInv /\ FrameInv
    BY Zenon DEF IInv
  <1>a. /\ pc[k] = "idle" /\ pc'[k] = "lookup" /\ target'[k] = a
        /\ OthersStay(k) /\ \A x \in Client \ {k} : req'[x] = req[x]
    BY <1>0 DEF Submit, At, Goto, TypeOK, OthersStay
  <1>b. UNCHANGED <<poolVars, connVars, readVars, dataVars, closeVars>>
    BY Zenon DEF Submit
  <1>1. TypeOK'
    <2>1. pc' \in [Client -> Outside \cup Inside] /\ target' \in [Client -> Addr \cup {NoAddr}]
      BY <1>0 DEF TypeOK, Outside, Inside, Submit, Goto
    <2>2. held' \in [Client -> Conn \cup {NoConn}] /\ req' \in [Client -> Nat]
      BY <1>0 DEF TypeOK, Submit
    <2>3. QED BY <1>0, <1>b, <2>1, <2>2, Zenon DEF TypeOK
  <1>2. LockInv'
    BY <1>0, <1>a, <1>b, LockMove, Zenon
  <1>3. ClientInv'
    BY <1>0, <1>a, ClientMove, Zenon
  <1>4. ClosedGrows /\ NoNewHand
    BY <1>b, Zenon DEF ClosedGrows, NoNewHand
  <1>5. SlotInv'
    BY <1>0, <1>a, <1>b, <1>4, OutsideNoSlot, SlotEmpty, Zenon DEF OthersStay
  <1>6. PoolInv' /\ OpenIsOwned' /\ FrameInv'
    BY <1>0, <1>b, <1>4, PoolStable, OwnedStable, FrameStable, Zenon
  <1>7. QED BY <1>1, <1>2, <1>3, <1>5, <1>6, Zenon DEF IInv

\* Lookup preserves the invariant.
LEMMA LookupPreserves ==
  ASSUME NEW k \in Client, IInv, Lookup(k)
  PROVE  IInv'
  <1>0. /\ TypeOK /\ LockInv /\ ClientInv /\ PoolInv /\ OpenIsOwned
        /\ SlotInv /\ FrameInv
    BY Zenon DEF IInv
  <1>a. /\ pc[k] = "lookup" /\ pc'[k] = "check" /\ OthersStay(k)
    BY <1>0 DEF Lookup, At, Goto, TypeOK, OthersStay
  <1>b. UNCHANGED <<poolVars, connVars, readVars, target, req, dataVars, closeVars>>
    BY Zenon DEF Lookup
  <1>1. TypeOK'
    <2>1. target[k] \in Addr
      BY <1>0, <1>a DEF ClientInv, Inside
    <2>2. pc' \in [Client -> Outside \cup Inside]
      BY <1>0 DEF TypeOK, Outside, Inside, Lookup, Goto
    <2>3. held' \in [Client -> Conn \cup {NoConn}]
      BY <1>0, <2>1 DEF TypeOK, Lookup
    <2>4. QED BY <1>0, <1>b, <2>2, <2>3, Zenon DEF TypeOK
  <1>2. LockInv'
    BY <1>0, <1>a, <1>b, LockMove, Zenon
  <1>3. ClientInv'
    BY <1>0, <1>a, <1>b, ClientMove, Zenon DEF ClientInv, Inside
  <1>4. ClosedGrows /\ NoNewHand
    BY <1>b, Zenon DEF ClosedGrows, NoNewHand
  <1>5. SlotInv'
    BY <1>0, <1>a, <1>b, <1>4, OutsideNoSlot, SlotEmpty, Zenon DEF OthersStay
  <1>6. PoolInv' /\ OpenIsOwned' /\ FrameInv'
    BY <1>0, <1>b, <1>4, PoolStable, OwnedStable, FrameStable, Zenon
  <1>7. QED BY <1>1, <1>2, <1>3, <1>5, <1>6, Zenon DEF IInv

\* Check preserves the invariant.
LEMMA CheckPreserves ==
  ASSUME NEW k \in Client, IInv, Check(k)
  PROVE  IInv'
  <1>0. /\ TypeOK /\ LockInv /\ ClientInv /\ PoolInv /\ OpenIsOwned
        /\ SlotInv /\ FrameInv
    BY Zenon DEF IInv
  <1>a. /\ pc[k] = "check" /\ pc'[k] \in {"register", "relock"} /\ OthersStay(k)
        /\ pc'[k] = "register" => held[k] \in Conn
    BY <1>0 DEF Check, At, Goto, TypeOK, OthersStay
  <1>b. UNCHANGED <<poolVars, connVars, readVars, target, held, req, dataVars, closeVars>>
    BY Zenon DEF Check
  <1>1. TypeOK'
    <2>1. pc' \in [Client -> Outside \cup Inside]
      BY <1>0 DEF TypeOK, Outside, Inside, Check, Goto
    <2>2. QED BY <1>0, <1>b, <2>1, Zenon DEF TypeOK
  <1>2. LockInv'
    BY <1>0, <1>a, <1>b, LockMove, Zenon
  <1>3. ClientInv'
    BY <1>0, <1>a, <1>b, ClientMove, Zenon DEF ClientInv, Inside
  <1>4. ClosedGrows /\ NoNewHand
    BY <1>b, Zenon DEF ClosedGrows, NoNewHand
  <1>5. SlotInv'
    BY <1>0, <1>a, <1>b, <1>4, OutsideNoSlot, SlotEmpty, Zenon DEF OthersStay
  <1>6. PoolInv' /\ OpenIsOwned' /\ FrameInv'
    BY <1>0, <1>b, <1>4, PoolStable, OwnedStable, FrameStable, Zenon
  <1>7. QED BY <1>1, <1>2, <1>3, <1>5, <1>6, Zenon DEF IInv

\* Relock preserves the invariant.
LEMMA RelockPreserves ==
  ASSUME NEW k \in Client, IInv, Relock(k)
  PROVE  IInv'
  <1>0. /\ TypeOK /\ LockInv /\ ClientInv /\ PoolInv /\ OpenIsOwned
        /\ SlotInv /\ FrameInv
    BY Zenon DEF IInv
  <1>a. /\ pc[k] = "relock" /\ mu = NoOne /\ OthersStay(k)
        /\ \/ /\ mu' = mu /\ pc'[k] = "register" /\ held'[k] = conns[target[k]]
              /\ conns[target[k]] # NoConn
           \/ /\ mu' = k /\ pc'[k] = "connect"
              /\ conns[target[k]] # NoConn => closed[conns[target[k]]]
    BY <1>0 DEF Relock, At, Goto, TypeOK, OthersStay
  <1>b. UNCHANGED <<conns, connVars, readVars, target, req, dataVars, closeVars>>
    BY Zenon DEF Relock
  <1>c. target[k] \in Addr /\ conns[target[k]] \in Conn \cup {NoConn}
    BY <1>0, <1>a DEF ClientInv, Inside, TypeOK
  <1>1. TypeOK'
    <2>1. pc' \in [Client -> Outside \cup Inside]
      BY <1>0, Zenon DEF TypeOK, Outside, Inside, Relock, Goto
    <2>2. held' \in [Client -> Conn \cup {NoConn}]
      BY <1>0, <1>c, Zenon DEF TypeOK, Relock
    <2>3. mu' \in Client \cup {NoOne}
      BY <1>0, <1>a DEF TypeOK
    <2>4. QED BY <1>0, <1>b, <2>1, <2>2, <2>3, Zenon DEF TypeOK
  <1>2. LockInv'
    <2>1. \A x \in Client : pc[x] # "connect" /\ x # mu
      BY <1>0, <1>a, OutboundAssumption DEF LockInv
    <2>2. QED BY <1>a, <1>b, <2>1 DEF LockInv, OthersStay
  <1>3. ClientInv'
    BY <1>0, <1>a, <1>b, <1>c, ClientMove, Zenon
  <1>4. ClosedGrows /\ NoNewHand
    BY <1>b, Zenon DEF ClosedGrows, NoNewHand
  <1>5. SlotInv'
    BY <1>0, <1>a, <1>b, <1>4, OutsideNoSlot, SlotEmpty, Zenon DEF OthersStay
  <1>6. PoolInv' /\ OpenIsOwned' /\ FrameInv'
    BY <1>0, <1>b, <1>4, PoolStable, OwnedStable, FrameStable, Zenon
  <1>7. QED BY <1>1, <1>2, <1>3, <1>5, <1>6, Zenon DEF IInv

\* ConnectOk preserves the invariant.
LEMMA ConnectOkPreserves ==
  ASSUME NEW k \in Client, NEW c \in Conn, IInv, ConnectOk(k, c)
  PROVE  IInv'
  <1>0. /\ TypeOK /\ LockInv /\ ClientInv /\ PoolInv /\ OpenIsOwned
        /\ SlotInv /\ FrameInv
    BY Zenon DEF IInv
  <1>t. pc[k] = "connect" /\ addr[c] = NoAddr /\ target[k] \in Addr
    BY <1>0 DEF ConnectOk, At, ClientInv, Inside
  <1>a. /\ pc'[k] = "register" /\ held'[k] = c /\ mu' = NoOne /\ OthersStay(k)
        /\ addr'[c] = target[k] /\ \A d \in Conn \ {c} :
              addr'[d] = addr[d] /\ rpc'[d] = rpc[d] /\ sock'[d] = sock[d] /\ watched'[d] = watched[d]
        /\ rpc'[c] = "top" /\ conns'[target[k]] = c
        /\ \A a \in Addr \ {target[k]} : conns'[a] = conns[a]
    BY <1>0, <1>t DEF ConnectOk, Goto, TypeOK, OthersStay
  <1>b. UNCHANGED <<closed, seen, inbox, hand, target, req, dataVars, closeVars>>
    BY Zenon DEF ConnectOk
  <1>1. TypeOK'
    <2>1. /\ pc' \in [Client -> Outside \cup Inside] /\ held' \in [Client -> Conn \cup {NoConn}]
          /\ mu' \in Client \cup {NoOne}
      BY <1>0 DEF TypeOK, Outside, Inside, ConnectOk, Goto
    <2>2. addr' \in [Conn -> Addr \cup {NoAddr}] /\ conns' \in [Addr -> Conn \cup {NoConn}]
      BY <1>0, <1>t DEF TypeOK, ConnectOk
    <2>3. /\ sock' \in [Conn -> {"none", "up", "reset", "shut"}]
          /\ watched' \in [Conn -> BOOLEAN]
          /\ rpc' \in [Conn -> {"none", "top", "read", "send", "err", "errclose", "done"}]
      BY <1>0 DEF TypeOK, ConnectOk
    <2>4. QED BY <1>0, <1>b, <2>1, <2>2, <2>3, Zenon DEF TypeOK
  <1>2. LockInv'
    <2>1. mu = k /\ \A x \in Client \ {k} : pc[x] # "connect"
      BY <1>0, <1>t DEF LockInv
    <2>2. QED BY <1>a, <2>1, OutboundAssumption DEF LockInv, OthersStay
  <1>3. ClientInv'
    BY <1>0, <1>t, <1>a, <1>b, ClientMove, Zenon
  <1>4. PoolInv'
    <2>1. \A a \in Addr : conns'[a] # NoConn => addr'[conns'[a]] = a
      <3>1. \A a \in Addr \ {target[k]} : conns[a] # NoConn => conns[a] \in Conn \ {c}
        BY <1>0, <1>t, OutboundAssumption DEF PoolInv, TypeOK
      <3>2. QED BY <1>0, <1>a, <3>1 DEF PoolInv
    <2>2. \A d \in todo : d \in Conn \ {c}
      BY <1>0, <1>t DEF PoolInv, TypeOK
    <2>3. QED BY <1>0, <1>t, <1>a, <1>b, <2>1, <2>2, OutboundAssumption DEF PoolInv
  <1>5. OpenIsOwned'
    <2>1. conns[target[k]] # NoConn => closed[conns[target[k]]]
      BY <1>0, <1>t DEF LockInv
    <2>2. \A d \in Conn \ {c} : (Live(d)' <=> Live(d)) /\ addr'[d] = addr[d]
      BY <1>a, <1>b DEF Live
    <2>3. \A d \in Conn \ {c} : Live(d) => addr[d] \in Addr /\ ~closed[d] /\ d # NoConn
      BY <1>0, OutboundAssumption DEF Live, TypeOK
    <2>4. \A d \in Conn \ {c} : Live(d)' => conns'[addr'[d]] = d \/ d \in todo'
      <3> SUFFICES ASSUME NEW d \in Conn \ {c}, Live(d)
                   PROVE  conns'[addr[d]] = d \/ d \in todo
        BY <1>b, <2>2
      <3>1. conns[addr[d]] = d \/ d \in todo
        BY <1>0 DEF OpenIsOwned
      <3>2. conns[addr[d]] = d => addr[d] # target[k]
        BY <2>1, <2>3
      <3>3. QED BY <1>a, <2>3, <3>1, <3>2
    <2>5. QED BY <1>a, <2>4 DEF OpenIsOwned
  <1>6. NoNewHand
    BY <1>0, <1>a, <1>b DEF NoNewHand
  <1>7. SlotInv'
    BY <1>0, <1>t, <1>a, <1>b, <1>6, OutsideNoSlot, SlotEmpty, Zenon DEF OthersStay
  <1>8. FrameInv'
    BY <1>0, <1>b, <1>6, FrameStable, Zenon
  <1>9. QED BY <1>1, <1>2, <1>3, <1>4, <1>5, <1>7, <1>8, Zenon DEF IInv

\* ConnectFail preserves the invariant.
LEMMA ConnectFailPreserves ==
  ASSUME NEW k \in Client, IInv, ConnectFail(k)
  PROVE  IInv'
  <1>0. /\ TypeOK /\ LockInv /\ ClientInv /\ PoolInv /\ OpenIsOwned
        /\ SlotInv /\ FrameInv
    BY Zenon DEF IInv
  <1>a. /\ pc[k] = "connect" /\ pc'[k] = "gone" /\ mu' = NoOne /\ OthersStay(k)
    BY <1>0 DEF ConnectFail, At, Goto, TypeOK, OthersStay
  <1>b. UNCHANGED <<conns, connVars, readVars, target, held, req, dataVars, closeVars>>
    BY Zenon DEF ConnectFail
  <1>1. TypeOK'
    <2>1. pc' \in [Client -> Outside \cup Inside]
      BY <1>0 DEF TypeOK, Outside, Inside, ConnectFail, Goto
    <2>2. QED BY <1>0, <1>a, <1>b, <2>1, Zenon DEF TypeOK
  <1>2. LockInv'
    <2>1. mu = k /\ \A x \in Client \ {k} : pc[x] # "connect"
      BY <1>0, <1>a DEF LockInv
    <2>2. QED BY <1>a, <2>1, OutboundAssumption DEF LockInv, OthersStay
  <1>3. ClientInv'
    BY <1>0, <1>a, ClientMove, Zenon DEF Inside
  <1>4. ClosedGrows /\ NoNewHand
    BY <1>b, Zenon DEF ClosedGrows, NoNewHand
  <1>5. SlotInv'
    BY <1>0, <1>a, <1>b, <1>4, OutsideNoSlot, SlotEmpty, Zenon DEF OthersStay
  <1>6. PoolInv' /\ OpenIsOwned' /\ FrameInv'
    BY <1>0, <1>b, <1>4, PoolStable, OwnedStable, FrameStable, Zenon
  <1>7. QED BY <1>1, <1>2, <1>3, <1>5, <1>6, Zenon DEF IInv
=============================================================================
