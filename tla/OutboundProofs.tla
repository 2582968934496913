--------------------------- MODULE OutboundProofs ---------------------------
(***************************************************************************)
(* Machine-checked proofs about module Outbound, for any number of         *)
(* addresses, clients, connections, requests and frames: IInv is an        *)
(* inductive invariant, the safety properties follow from it, and the pool *)
(* implements module Exchange.  That each action preserves IInv is proved in*)
(* the modules this one extends.                                           *)
(***************************************************************************)
EXTENDS OutboundConns

USE DEF poolVars, connVars, readVars, clientVars, dataVars, closeVars

(***************************************************************************)
(* The invariant holds.                                                    *)
(***************************************************************************)
\* An empty pool satisfies the invariant.
LEMMA InitInv == Init => IInv
  <1> SUFFICES ASSUME Init PROVE IInv
    OBVIOUS
  <1> USE OutboundAssumption DEF Init
  <1>1. TypeOK
    <2>1. pc \in [Client -> Outside \cup Inside]
      BY DEF Outside
    <2>2. /\ inbox \in [Conn -> Seq(Frame)] /\ pending \in [Conn -> [Client -> Nat]]
          /\ req \in [Client -> Nat] /\ emitted \in [Client -> Nat]
      OBVIOUS
    <2>3. /\ replies \in [Client -> SUBSET Nat] /\ seen \in [Conn -> SUBSET Client]
          /\ ch \in [Client -> Frame \cup {NoFrame}]
          /\ hand \in [Conn -> Hand \cup {NoFrame}]
      OBVIOUS
    <2>4. QED BY <2>1, <2>2, <2>3, Zenon DEF TypeOK
  <1>2. LockInv /\ ClientInv /\ PoolInv /\ OpenIsOwned
    BY DEF LockInv, ClientInv, PoolInv, OpenIsOwned, Live, Inside
  <1>3. SlotInv
    BY DEF SlotInv, PendingSlot, HandSlot, ChanSlot
  <1>4. FrameInv
    <2>1. RepliesSent /\ HandFresh /\ ChanFresh
      BY DEF RepliesSent, HandFresh, ChanFresh
    <2>2. \A c \in Conn : DOMAIN inbox[c] = {}
      OBVIOUS
    <2>3. InboxFresh /\ InboxOnce /\ NotInHand /\ NotInChan
      BY <2>2 DEF InboxFresh, InboxOnce, NotInHand, NotInChan
    <2>4. QED BY <2>1, <2>3 DEF FrameInv
  <1>5. QED BY <1>1, <1>2, <1>3, <1>4 DEF IInv

\* DCSend preserves the invariant.
LEMMA DCSendPreserves ==
  ASSUME NEW c \in Conn, NEW k \in Client, NEW op \in Op, IInv, DCSend(c, k, op)
  PROVE  IInv'
  <1>0. /\ TypeOK /\ LockInv /\ ClientInv /\ PoolInv /\ OpenIsOwned
        /\ SlotInv /\ FrameInv
    BY Zenon DEF IInv
  <1> DEFINE f == [op |-> op, id |-> k, n |-> emitted[k] + 1]
  <1>a. /\ f \in Frame /\ f.id = k /\ f.n = emitted[k] + 1 /\ emitted[k] \in Nat
        /\ emitted'[k] = emitted[k] + 1 /\ \A x \in Client \ {k} : emitted'[x] = emitted[x]
        /\ inbox'[c] = Append(inbox[c], f) /\ \A d \in Conn \ {c} : inbox'[d] = inbox[d]
    BY <1>0 DEF DCSend, TypeOK, Frame
  <1>b. UNCHANGED <<poolVars, connVars, rpc, hand, clientVars, pending, ch, replies,
                    closeVars>>
    BY Zenon DEF DCSend
  <1>1. TypeOK'
    <2>1. inbox' \in [Conn -> Seq(Frame)] /\ emitted' \in [Client -> Nat]
      BY <1>0, <1>a, SMTT(30) DEF TypeOK, DCSend
    <2>2. QED BY <1>0, <1>b, <2>1, Zenon DEF TypeOK
  <1> HIDE DEF f
  <1>2. \A g \in Frame : Fresh(g) => Fresh(g)' /\ Key(g) # Key(f)
    <2> SUFFICES ASSUME NEW g \in Frame, Fresh(g) PROVE Fresh(g)' /\ Key(g) # Key(f)
      OBVIOUS
    <2>1. g.id \in Client /\ g.n \in 1 .. emitted[g.id] /\ emitted[g.id] \in Nat
      BY <1>0 DEF Fresh, Frame, TypeOK
    <2>2. g.n \in 1 .. emitted'[g.id] /\ (g.id = k => g.n # f.n)
      BY <1>a, <2>1
    <2>3. QED BY <1>a, <1>b, <2>2 DEF Fresh, Key
  <1>3. RepliesSent'
    BY <1>0, <1>a, <1>b DEF FrameInv, RepliesSent
  <1>4. \A d \in Conn : \A i \in DOMAIN inbox'[d] :
          \/ i \in DOMAIN inbox[d] /\ inbox'[d][i] = inbox[d][i]
          \/ d = c /\ i = Len(inbox[c]) + 1 /\ inbox'[d][i] = f
    <2>1. \A d \in Conn : inbox[d] \in Seq(Frame)
      BY <1>0 DEF TypeOK
    <2>2. QED BY <1>a, <2>1, SMTT(30)
  <1>5. \A d \in Conn : \A i \in DOMAIN inbox[d] :
          inbox[d][i] \in Frame /\ Fresh(inbox[d][i])
    BY <1>0 DEF FrameInv, InboxFresh, TypeOK
  <1>6. InboxFresh'
    <2>1. f.n \in 1 .. emitted'[k] /\ f.n \notin replies[k]
      BY <1>0, <1>a DEF FrameInv, RepliesSent
    <2>2. \A g : g = f => Fresh(g)'
      BY <1>a, <1>b, <2>1 DEF Fresh
    <2>3. QED BY <1>2, <1>4, <1>5, <2>2 DEF InboxFresh
  <1>7. \A d \in Conn : rpc[d] = "send" => Fresh(hand[d].f)' /\ Key(f) # Key(hand[d].f)
    <2>1. \A d \in Conn : rpc[d] = "send" => hand[d].f \in Frame /\ Fresh(hand[d].f)
      BY <1>0 DEF FrameInv, HandFresh, SlotInv, HandSlot, Hand
    <2>2. QED BY <1>2, <1>b, <2>1
  <1>8. \A x \in Client : ch[x] # NoFrame => Fresh(ch[x])' /\ Key(f) # Key(ch[x])
    <2>1. \A x \in Client : ch[x] # NoFrame => ch[x] \in Frame /\ Fresh(ch[x])
      BY <1>0 DEF FrameInv, ChanFresh, TypeOK
    <2>2. QED BY <1>2, <1>b, <2>1
  <1>9. HandFresh' /\ ChanFresh'
    BY <1>b, <1>7, <1>8 DEF HandFresh, ChanFresh
  <1>10. InboxOnce'
    <2>1. \A d \in Conn : \A i \in DOMAIN inbox[d] : Key(inbox[d][i]) # Key(f)
      BY <1>2, <1>5
    <2>2. QED BY <1>0, <1>4, <2>1 DEF FrameInv, InboxOnce
  <1>11. NotInHand'
    BY <1>0, <1>b, <1>4, <1>7 DEF FrameInv, NotInHand
  <1>12. NotInChan'
    BY <1>0, <1>b, <1>4, <1>8 DEF FrameInv, NotInChan
  <1>13. ClosedGrows /\ NoNewHand
    BY <1>b, Zenon DEF ClosedGrows, NoNewHand
  <1>14. LockInv' /\ ClientInv' /\ PoolInv' /\ OpenIsOwned' /\ SlotInv'
    BY <1>0, <1>b, <1>13, LockStable, ClientStable, PoolStable, OwnedStable, SlotStable, Zenon
  <1>15. QED
    BY <1>1, <1>3, <1>6, <1>9, <1>10, <1>11, <1>12, <1>14, Zenon DEF IInv, FrameInv

\* Every step of every goroutine, of a DC or of the network preserves it.
LEMMA NextInv == IInv /\ [Next]_vars => IInv'
  <1> SUFFICES ASSUME IInv, [Next]_vars PROVE IInv'
    OBVIOUS
  <1>1. ASSUME NEW k \in Client, ClientStep(k) PROVE IInv'
    <2>1. CASE \E a \in Addr : Submit(k, a)
      BY <2>1, SubmitPreserves
    <2>2. CASE \E c \in Conn : ConnectOk(k, c)
      BY <2>2, ConnectOkPreserves
    <2>3. CASE \/ Lookup(k) \/ Check(k) \/ Relock(k) \/ ConnectFail(k) \/ Register(k)
      BY <2>3, LookupPreserves, CheckPreserves, RelockPreserves, ConnectFailPreserves,
         RegisterPreserves
    <2>4. CASE \/ WriteOk(k) \/ WriteFail(k) \/ Receive(k) \/ ConnClosed(k) \/ Timeout(k)
      BY <2>4, WriteOkPreserves, WriteFailPreserves, ReceivePreserves,
         ConnClosedPreserves, TimeoutPreserves
    <2>5. QED BY <1>1, <2>1, <2>2, <2>3, <2>4 DEF ClientStep
  <1>2. ASSUME NEW c \in Conn, ReaderStep(c) \/ Watch(c) \/ Reset(c) PROVE IInv'
    BY <1>2, ReadTopPreserves, ReadFramePreserves, SendToChannelPreserves,
       ReadErrorPreserves, ErrCheckPreserves, ErrClosePreserves, WatchPreserves,
       ResetPreserves DEF ReaderStep
  <1>3. ASSUME NEW c \in Conn, NEW k \in Client, NEW op \in Op, DCSend(c, k, op)
        PROVE  IInv'
    BY <1>3, DCSendPreserves
  <1>4. CASE CloserStep
    BY <1>4, CloseCallPreserves, CloseSnapshotPreserves, CloseCheckPreserves,
       CloseConnPreserves, CloseReturnPreserves DEF CloserStep
  <1>5. CASE UNCHANGED vars
    <2>1. UNCHANGED <<poolVars, connVars, readVars, clientVars, dataVars, closeVars>>
      BY <1>5 DEF vars
    <2>2. TypeOK'
      BY <2>1, Zenon DEF IInv, TypeOK
    <2>3. ClosedGrows /\ NoNewHand
      BY <2>1, Zenon DEF ClosedGrows, NoNewHand
    <2>4. QED
      BY <2>1, <2>2, <2>3, LockStable, ClientStable, PoolStable, OwnedStable, SlotStable,
         FrameStable, Zenon DEF IInv
  <1>6. QED BY <1>1, <1>2, <1>3, <1>4, <1>5 DEF Next

\* IInv holds in every reachable state of the pool, the connections and the
\* clients' goroutines.
THEOREM InvariantHolds == Spec => []IInv
  BY InitInv, NextInv, PTL DEF Spec

\* The pool, the connections and the clients stay well typed.
THEOREM TypeCorrect == Spec => []TypeOK
  <1>1. IInv => TypeOK
    BY DEF IInv
  <1>2. QED BY <1>1, InvariantHolds, PTL

\* reconnect and watchConn never lose a live connection, and so outside
\* OutboundProxy.Close an address has at most one.
THEOREM ConnectionsOwned == Spec => []OpenIsOwned
  <1>1. IInv => OpenIsOwned
    BY DEF IInv
  <1>2. QED BY <1>1, InvariantHolds, PTL

\* No ForwardPacket leaves an entry behind in the pending map of a live
\* connection, whichever way it ended.
THEOREM PendingClean == Spec => []NoStalePending
  <1>1. IInv => NoStalePending
    BY DEF IInv, SlotInv, PendingSlot, NoStalePending
  <1>2. QED BY <1>1, InvariantHolds, PTL

\* The non-blocking send of handleProxyAns and handleCloseExt never finds the
\* channel full: no answer is dropped there.
THEOREM SendNeverDrops == Spec => []ChannelNeverFull
  <1>1. IInv => ChannelNeverFull
    BY DEF IInv, SlotInv, HandSlot, ChannelNeverFull, Hand
  <1>2. QED BY <1>1, InvariantHolds, PTL

\* The pool keeps its books, whatever the goroutines' order.
THEOREM PoolKept == Spec => []PoolSafe
  BY ConnectionsOwned, PendingClean, SendNeverDrops, PTL DEF PoolSafe

\* An answer reaches only the client whose ext_conn_id it carries, and once.
THEOREM AnswersRouted == Spec => []AnswersItsClient
  <1>1. IInv => AnswersItsClient
    BY DEF IInv, SlotInv, ChanSlot, FrameInv, ChanFresh, Fresh, AnswersItsClient
  <1>2. QED BY <1>1, InvariantHolds, PTL

(***************************************************************************)
(* Outbound implements Exchange.                                           *)
(***************************************************************************)
\* A step that leaves every client's phase, its answers and the DCs' frames
\* alone is a stuttering step of Exchange.
LEMMA StutterStep ==
  ASSUME UNCHANGED <<replies, emitted>>, \A k \in Client : Phase(k)' = Phase(k)
  PROVE  UNCHANGED X!xvars
  BY DEF X!xvars

\* Moving one client's program counter moves that client's phase only.
LEMMA PhaseMove ==
  ASSUME TypeOK, NEW k \in Client, NEW l, pc' = [pc EXCEPT ![k] = l]
  PROVE  [x \in Client |-> Phase(x)]'
           = [[x \in Client |-> Phase(x)]
                EXCEPT ![k] = IF l \in Outside THEN l ELSE "busy"]
  <1>1. \A x \in Client : pc'[x] = IF x = k THEN l ELSE pc[x]
    BY DEF TypeOK
  <1>2. \A x \in Client : Phase(x)' = IF x = k THEN IF l \in Outside THEN l ELSE "busy"
                                                ELSE Phase(x)
    BY <1>1 DEF Phase
  <1>3. QED BY <1>2, Zenon

\* A client's goroutine moves its phase as Exchange allows.
LEMMA ClientRefines ==
  ASSUME IInv, NEW k \in Client, ClientStep(k)
  PROVE  [X!XNext]_(X!xvars)
  <1> USE DEF At, Goto
  <1>0. TypeOK /\ SlotInv /\ FrameInv
    BY DEF IInv
  <1> DEFINE ph == [x \in Client |-> Phase(x)]
  <1>1. CASE \E a \in Addr : Submit(k, a)
    <2>1. ph[k] = "idle" /\ ph' = [ph EXCEPT ![k] = "busy"]
      BY <1>0, <1>1, PhaseMove, Zenon DEF Submit, Phase, Outside
    <2>2. X!XSubmit(k)
      BY <1>1, <2>1 DEF X!XSubmit, Submit
    <2>3. QED BY <2>2 DEF X!XNext
  <1>2. CASE \/ Lookup(k) \/ Check(k) \/ Relock(k) \/ Register(k) \/ WriteOk(k)
             \/ \E c \in Conn : ConnectOk(k, c)
    <2>1. UNCHANGED <<replies, emitted>>
      BY <1>2 DEF Lookup, Check, Relock, Register, WriteOk, ConnectOk
    <2>2. pc[k] \in Inside /\ \E l \in Inside : pc' = [pc EXCEPT ![k] = l]
      BY <1>2 DEF Lookup, Check, Relock, Register, WriteOk, ConnectOk, Inside
    <2>3. \A x \in Client : Phase(x)' = Phase(x)
      BY <1>0, <2>2, SMTT(30) DEF Phase, Inside, Outside, TypeOK
    <2>4. QED BY <2>1, <2>3, StutterStep
  <1>3. CASE ConnectFail(k) \/ WriteFail(k) \/ ConnClosed(k) \/ Timeout(k)
    <2>1. ph[k] = "busy" /\ ph' = [ph EXCEPT ![k] = "gone"]
      BY <1>0, <1>3, PhaseMove
         DEF ConnectFail, WriteFail, ConnClosed, Timeout, Phase, Outside
    <2>2. X!XFail(k)
      BY <1>3, <2>1, SMTT(30) DEF X!XFail, ConnectFail, WriteFail, ConnClosed, Timeout
    <2>3. QED BY <2>2 DEF X!XNext
  <1>4. CASE Receive(k) /\ ch[k].op = "close"
    <2>1. ph[k] = "busy" /\ ph' = [ph EXCEPT ![k] = "gone"]
      BY <1>0, <1>4, PhaseMove DEF Receive, Phase, Outside
    <2>2. X!XFail(k)
      BY <1>4, <2>1 DEF X!XFail, Receive
    <2>3. QED BY <2>2 DEF X!XNext
  <1>5. CASE Receive(k) /\ ch[k].op # "close"
    <2>1. ph[k] = "busy" /\ ph' = [ph EXCEPT ![k] = "idle"]
      BY <1>0, <1>5, PhaseMove DEF Receive, Phase, Outside
    <2>2. ch[k].n \in (1 .. emitted[k]) \ replies[k]
      BY <1>0, <1>5 DEF Receive, At, SlotInv, ChanSlot, FrameInv, ChanFresh, Fresh
    <2>3. replies' = [replies EXCEPT ![k] = @ \cup {ch[k].n}] /\ emitted' = emitted
      BY <1>5 DEF Receive
    <2>4. X!XReply(k)
      BY <2>1, <2>2, <2>3, Zenon DEF X!XReply
    <2>5. QED BY <2>4 DEF X!XNext
  <1>6. QED BY <1>1, <1>2, <1>3, <1>4, <1>5 DEF ClientStep

\* Every step of Outbound is a step of Exchange or changes nothing in it.
LEMMA StepRefines == IInv /\ [Next]_vars => [X!XNext]_(X!xvars)
  <1> SUFFICES ASSUME IInv, [Next]_vars PROVE [X!XNext]_(X!xvars)
    OBVIOUS
  <1>1. CASE \E k \in Client : ClientStep(k)
    BY <1>1, ClientRefines
  <1>2. ASSUME NEW c \in Conn, NEW k \in Client, NEW op \in Op, DCSend(c, k, op)
        PROVE  [X!XNext]_(X!xvars)
    <2>1. [x \in Client |-> Phase(x)]' = [x \in Client |-> Phase(x)]
      BY <1>2 DEF DCSend, Phase
    <2>2. X!XEmit(k)
      BY <1>2, <2>1 DEF DCSend, X!XEmit
    <2>3. QED BY <2>2 DEF X!XNext
  <1>3. CASE \/ \E c \in Conn : ReaderStep(c) \/ Watch(c) \/ Reset(c)
             \/ CloserStep \/ UNCHANGED vars
    <2>1. UNCHANGED <<replies, emitted, pc>>
      BY <1>3, Zenon DEF ReaderStep, ReadTop, ReadFrame, SendToChannel, ReadError,
                  ErrCheck, ErrClose, Watch, Reset, CloserStep, CloseCall, CloseSnapshot,
                  CloseCheck, CloseConn, CloseReturn, vars
    <2>2. \A k \in Client : Phase(k)' = Phase(k)
      BY <2>1 DEF Phase
    <2>3. QED BY <2>1, <2>2, StutterStep
  <1>4. QED BY <1>1, <1>2, <1>3 DEF Next

\* The goroutines, locks and channels of the pool implement the exchange that
\* the clients are promised.
THEOREM RefinesExchange == Spec => ImplementsExchange
  <1>1. Init => X!XInit
    BY DEF Init, X!XInit, Phase, Outside
  <1>2. QED
    BY <1>1, StepRefines, InvariantHolds, PTL DEF Spec, ImplementsExchange, X!XSpec
=============================================================================
