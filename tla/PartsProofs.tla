---------------------------- MODULE PartsProofs ----------------------------
(***************************************************************************)
(* Proofs about the parts of the Go proxy around the connection pool, for  *)
(* any number of workers, connections, clients and packets.                *)
(***************************************************************************)
EXTENDS Lifecycle, Supervisor, Session, FiniteSetTheorems, TLAPS

(***************************************************************************)
(* The supervisor.  What its properties rest on: a monitor that got past   *)
(* cmd.Wait has a dead process until it starts another, one that has ended *)
(* leaves none behind, and nothing is restarted before the monitors run.   *)
(***************************************************************************)
SupInv ==
  /\ SupTypeOK
  /\ \A w \in Worker :
       /\ mon[w] \in {"check1", "check2", "start"} => proc[w] = "dead"
       /\ mon[w] = "gone" => proc[w] \in {"none", "dead"}
       /\ phase = "start" => mon[w] = "off" /\ (w >= slot => proc[w] = "none")
       /\ phase = "done" => mon[w] = "gone"

\* Every step of the supervisor and its workers keeps the invariant, and a process is started only
\* in a slot that has none or a dead one.
LEMMA SupStep ==
  ASSUME SupInv, SupNext
  PROVE  SupInv' /\ \A w \in Worker : starts'[w] # starts[w] => proc[w] \in {"none", "dead"}
<1> USE SupervisorAssumption
<1>1. CASE StartNext
  <2>1. /\ phase = "start" /\ slot \in Worker /\ proc[slot] = "none" /\ mon' = mon /\ phase' = phase /\ slot' = slot + 1
    BY <1>1 DEF StartNext, SupInv, SupTypeOK, Worker
  <2>2. CASE UNCHANGED <<proc, starts>>
    BY <2>1, <2>2 DEF SupInv, SupTypeOK, Worker
  <2>3. CASE Launch(slot)
    <3>1. SupTypeOK'
      BY <2>1, <2>3 DEF Launch, SupInv, SupTypeOK, Worker
    <3>2. \A w \in Worker : mon'[w] = "off" /\ (w >= slot' => proc'[w] = "none")
      BY <2>1, <2>3 DEF Launch, SupInv, SupTypeOK, Worker
    <3>3. \A w \in Worker : starts'[w] # starts[w] => w = slot
      BY <2>1, <2>3 DEF Launch, SupInv, SupTypeOK
    <3> QED BY <2>1, <3>1, <3>2, <3>3 DEF SupInv, Worker
  <2> QED BY <1>1, <2>2, <2>3 DEF StartNext, startWorker
<1>2. CASE StartMonitors
  BY <1>2 DEF StartMonitors, SupInv, SupTypeOK, Worker
<1>3. CASE Hup \/ Stop
  BY <1>3 DEF Hup, Stop, SupInv, SupTypeOK, Worker
<1>4. CASE KillNext
  BY <1>4 DEF KillNext, SupInv, SupTypeOK, Worker
<1>5. CASE KillEnd \/ Finish
  BY <1>5 DEF KillEnd, Finish, SupInv, SupTypeOK, Worker
<1>6. ASSUME NEW v \in Worker, Load(v) \/ Wait(v) \/ Check(v)
      PROVE  SupInv' /\ \A w \in Worker : starts'[w] # starts[w] => proc[w] \in {"none", "dead"}
  BY <1>6 DEF Load, Wait, Check, SupInv, SupTypeOK, Worker
<1>7. ASSUME NEW v \in Worker, Restart(v)
      PROVE  SupInv' /\ \A w \in Worker : starts'[w] # starts[w] => proc[w] \in {"none", "dead"}
  <2>1. /\ mon[v] = "start" /\ proc[v] = "dead" /\ mon' = [mon EXCEPT ![v] = "load"] /\ phase' = phase /\ slot' = slot
    BY <1>7 DEF Restart, SupInv
  <2>2. CASE UNCHANGED <<proc, starts>>
    BY <2>1, <2>2 DEF SupInv, SupTypeOK, Worker
  <2>3. CASE Launch(v)
    <3>1. SupTypeOK'
      BY <2>1, <2>3 DEF Launch, SupInv, SupTypeOK, Worker
    <3>2. \A w \in Worker : w # v => mon'[w] = mon[w] /\ proc'[w] = proc[w] /\ starts'[w] = starts[w]
      BY <2>1, <2>3 DEF Launch, SupInv, SupTypeOK
    <3>3. mon'[v] = "load" /\ phase \notin {"start", "done"}
      BY <2>1 DEF SupInv, SupTypeOK
    <3> QED BY <2>1, <3>1, <3>2, <3>3 DEF SupInv, Worker
  <2> QED BY <1>7, <2>2, <2>3 DEF Restart, startWorker
<1>8. ASSUME NEW v \in Worker, Die(v)
      PROVE  SupInv' /\ \A w \in Worker : starts'[w] # starts[w] => proc[w] \in {"none", "dead"}
  BY <1>8 DEF Die, SupInv, SupTypeOK, Worker
<1> QED BY <1>1, <1>2, <1>3, <1>4, <1>5, <1>6, <1>7, <1>8 DEF SupNext, Monitor

\* The invariant of the supervisor holds throughout.
LEMMA SupHolds == SupSpec => []SupInv
<1>1. SupInit => SupInv
  BY SupervisorAssumption DEF SupInit, SupInv, SupTypeOK, Worker
<1>2. SupInv /\ UNCHANGED supVars => SupInv'
  BY DEF supVars, SupInv, SupTypeOK, Worker
<1>3. SupInv /\ [SupNext]_supVars => SupInv'
  BY <1>2, SupStep
<1> QED BY <1>1, <1>3, PTL DEF SupSpec

\* When runSupervisor returns every worker has ended, whatever died, was restarted or signalled in
\* between, for any number of workers.
THEOREM NoneLeft == SupSpec => []NoWorkerLeft
<1>1. SupInv => NoWorkerLeft
  BY DEF SupInv, NoWorkerLeft, Worker
<1> QED BY <1>1, SupHolds, PTL

\* startWorker never overwrites ws.cmd while its process runs: no worker is orphaned.
THEOREM NoneOrphaned == SupSpec => NoOrphan
<1>1. SupInv /\ [SupNext]_supVars
        => [\A w \in Worker : starts'[w] # starts[w] => proc[w] \in {"none", "dead"}]_supVars
  BY SupStep
<1> QED BY <1>1, SupHolds, PTL DEF SupSpec, NoOrphan

(***************************************************************************)
(* The process: the registry of connections holds exactly those that are   *)
(* in service.                                                             *)
(***************************************************************************)
LifeInv ==
  /\ LifeTypeOK
  /\ \A x \in Conn :
       /\ x \in tracked <=> h[x] \in Handling
       /\ csock[x] = "open" => h[x] \in Handling \cup {"queued", "spawned", "closing"}

\* Every step keeps the registry exact, and a tick that ends the drain finds nobody in service.
LEMMA LifeStep ==
  ASSUME LifeInv, LifeNext
  PROVE  LifeInv' /\ (spc = "drain" /\ spc' = "done" => \A x \in Conn : h[x] \notin Handling)
<1> USE DEF LifeInv, LifeTypeOK, Handling, At, Goto, ShutdownAt, handlerVars
<1>1. ASSUME NEW x \in Conn, Dial(x) \/ Accept(x) \/ Track(x) \/ Untrack(x) \/ CloseClient(x)
      PROVE  LifeInv' /\ spc' = spc
  BY <1>1 DEF Dial, Accept, Track, Untrack, CloseClient
<1>2. ASSUME NEW x \in Conn, Forward(x) \/ Answered(x) \/ ForwardFailed(x) \/ ReadFailed(x)
      PROVE  LifeInv' /\ spc' = spc
  BY <1>2, Zenon DEF Forward, Answered, ForwardFailed, ReadFailed
<1>3. CASE CloseListener
  BY <1>3, Zenon DEF CloseListener
<1>4. CASE Return \/ AcceptError
  BY <1>4, Zenon DEF Return, AcceptError
<1>5. CASE SignalOff \/ Signal \/ CloseOutbound \/ Cancel
  BY <1>5, Zenon DEF SignalOff, Signal, CloseOutbound, Cancel
<1>6. CASE Tick
  BY <1>6 DEF Tick
<1>7. CASE Deadline \/ ForceDone
  BY <1>7 DEF Deadline, ForceDone
<1>8. CASE ForceClose
  BY <1>8 DEF ForceClose
<1> HIDE DEF LifeInv, LifeTypeOK, Handling, At, Goto, ShutdownAt, handlerVars
<1>9. spc' = spc => ~(spc = "drain" /\ spc' = "done")
  OBVIOUS
<1> QED BY <1>1, <1>2, <1>3, <1>4, <1>5, <1>6, <1>7, <1>8, <1>9 DEF LifeNext, Handler, Shutdown

\* The registry is exact throughout.
LEMMA LifeHolds == LifeSpec => []LifeInv
<1>1. LifeInit => LifeInv
  BY Zenon DEF LifeInit, LifeInv, LifeTypeOK, Handling
<1>2. LifeInv /\ UNCHANGED lifeVars => LifeInv'
  BY DEF lifeVars, LifeInv, LifeTypeOK, Handling
<1>3. LifeInv /\ [LifeNext]_lifeVars => LifeInv'
  BY <1>2, LifeStep
<1> QED BY <1>1, <1>3, PTL DEF LifeSpec

\* Every connection the proxy has not closed can be reached by the drain, for any number of clients.
THEOREM OpenReachable == LifeSpec => []OpenIsReachable
<1>1. LifeInv => OpenIsReachable
  BY DEF LifeInv, LifeTypeOK, OpenIsReachable, Handling
<1> QED BY <1>1, LifeHolds, PTL

\* A drain that ends before its deadline leaves no client in service.
THEOREM DrainQuiet == LifeSpec => QuietDrain
<1>1. LifeInv /\ [LifeNext]_lifeVars
        => [spc = "drain" /\ spc' = "done" => \A x \in Conn : h[x] \notin Handling]_lifeVars
  BY LifeStep
<1> QED BY <1>1, LifeHolds, PTL DEF LifeSpec, QuietDrain

(***************************************************************************)
(* Sessions.                                                               *)
(***************************************************************************)
Busy == {"read", "handle", "forward", "count", "count2", "respond"}

SessionTypes ==
  /\ place \in [Client -> Busy \cup {"header", "draw", "gone"}]
  /\ id \in [Client -> Nat] /\ extConnIDCounter \in Nat
  /\ pkt \in [Client -> Packets \cup {NoPacket}]
  /\ nread \in [Client -> 0 .. MaxPackets]
  /\ nwritten \in [Client -> Nat] /\ nempty \in [Client -> Nat]
  /\ TotForwardedQueries \in Nat /\ DroppedQueries \in Nat

\* A client whose header was keyed with a secret of the proxy, when it has any.
Keyed(c) == Secrets # <<>> => secret[c] # Foreign

\* What RPC_PROXY_REQ may carry.
Proper(r) ==
  /\ r.p.len >= 28 /\ r.p.len % 4 = 0
  /\ r.flag = "DH" <=> r.p.key = 0
  /\ r.flag = "DH" => r.p.fn = "dh" /\ 20 + r.p.inner \in 40 .. r.p.len

SessionInv ==
  /\ SessionTypes /\ UniqueIDs /\ OneAtATime
  /\ \A c \in Client :
       /\ id[c] <= extConnIDCounter
       /\ place[c] = "draw" \/ id[c] # 0 => Keyed(c)
       /\ place[c] \in Busy => id[c] # 0
       /\ place[c] \in {"header", "draw"} => nread[c] = 0 /\ nwritten[c] = 0 /\ nempty[c] = 0
  /\ \A r \in sentDC : r.id # 0 /\ Proper(r)

\* A step that moves one client and leaves ids and requests alone keeps the invariant, when it keeps
\* the client's count of packets and answers.
LEMMA Moves ==
  ASSUME SessionInv, NEW c \in Client, SessionTypes',
         id' = id, extConnIDCounter' = extConnIDCounter, secret' = secret, sentDC' = sentDC,
         place[c] \in Busy, \A d \in Client : d # c => place'[d] = place[d] /\ nread'[d] = nread[d]
                              /\ nwritten'[d] = nwritten[d] /\ nempty'[d] = nempty[d],
         place'[c] = "gone" \/ (/\ place'[c] \in Busy
                                /\ nread'[c] = nwritten'[c] + nempty'[c] + (IF place'[c] = "read" THEN 0 ELSE 1))
  PROVE  SessionInv'
<1>1. UniqueIDs'
  BY DEF SessionInv, UniqueIDs
<1>2. OneAtATime'
  BY DEF SessionInv, SessionTypes, OneAtATime, Busy
<1>3. ASSUME NEW d \in Client
      PROVE  /\ id'[d] <= extConnIDCounter'
             /\ place'[d] = "draw" \/ id'[d] # 0 => Keyed(d)'
             /\ place'[d] \in Busy => id'[d] # 0
             /\ place'[d] \in {"header", "draw"} => nread'[d] = 0 /\ nwritten'[d] = 0 /\ nempty'[d] = 0
  BY DEF SessionInv, Keyed, Busy
<1>4. \A r \in sentDC' : r.id # 0 /\ Proper(r)
  BY DEF SessionInv
<1> QED BY <1>1, <1>2, <1>3, <1>4 DEF SessionInv, Busy, Proper

\* Each step of a session keeps the invariant.
LEMMA SessionStep ==
  ASSUME SessionInv, SessionNext
  PROVE  SessionInv'
<1> SUFFICES ASSUME NEW c \in Client,
                    \/ Header(c) \/ nextExtConnID(c) \/ ReadEnds(c) \/ Respond(c)
                    \/ \E p \in Packets : ReadPacket(c, p)
                    \/ Refuse(c) \/ NoRoute(c) \/ SendProxyReq(c) \/ ForwardErr(c)
                    \/ \E n \in RespLen : ForwardOk(c, n)
                    \/ CountIn(c) \/ CountOut(c)
             PROVE  SessionInv'
  BY DEF SessionNext
<1> USE SessionAssumption DEF SessionGoto, statVars
<1>1. CASE Header(c)
  <2>1. /\ place[c] = "header" /\ place'[c] \in {"gone", "draw"} /\ \A d \in Client : d # c => place'[d] = place[d]
        /\ place' \in [Client -> Busy \cup {"header", "draw", "gone"}]
    BY <1>1, Zenon DEF Header, SessionInv, SessionTypes
  <2>2. /\ id' = id /\ extConnIDCounter' = extConnIDCounter /\ secret' = secret /\ sentDC' = sentDC
        /\ nread' = nread /\ nwritten' = nwritten /\ nempty' = nempty /\ pkt' = pkt
        /\ TotForwardedQueries' = TotForwardedQueries /\ DroppedQueries' = DroppedQueries
    BY <1>1 DEF Header
  <2>3. place'[c] = "draw" => Keyed(c)
    BY <1>1, <2>1 DEF Header, Keyed, SessionInv, SessionTypes
  <2>4. SessionTypes' /\ UniqueIDs' /\ OneAtATime'
    BY <2>1, <2>2 DEF SessionInv, SessionTypes, UniqueIDs, OneAtATime, Busy
  <2>5. \A d \in Client : place'[d] = "draw" \/ id'[d] # 0 => Keyed(d)'
    BY <2>1, <2>2, <2>3, Zenon DEF SessionInv, Keyed
  <2> QED BY <2>1, <2>2, <2>4, <2>5 DEF SessionInv, Busy
<1>2. CASE nextExtConnID(c)
  <2>1. /\ place[c] = "draw" /\ place' = [place EXCEPT ![c] = "read"] /\ extConnIDCounter' = extConnIDCounter + 1
        /\ id' = [id EXCEPT ![c] = extConnIDCounter + 1] /\ secret' = secret /\ sentDC' = sentDC
        /\ nread' = nread /\ nwritten' = nwritten /\ nempty' = nempty /\ pkt' = pkt
        /\ TotForwardedQueries' = TotForwardedQueries /\ DroppedQueries' = DroppedQueries
    BY <1>2 DEF nextExtConnID
  <2>2. SessionTypes' /\ UniqueIDs'
    BY <2>1 DEF SessionInv, SessionTypes, UniqueIDs, Busy
  <2>3. OneAtATime'
    BY <2>1 DEF SessionInv, SessionTypes, OneAtATime
  <2>4. \A d \in Client : /\ id'[d] <= extConnIDCounter'
                          /\ place'[d] = "draw" \/ id'[d] # 0 => Keyed(d)'
                          /\ place'[d] \in Busy => id'[d] # 0
                          /\ place'[d] \in {"header", "draw"} => nread'[d] = 0 /\ nwritten'[d] = 0 /\ nempty'[d] = 0
    BY <2>1 DEF SessionInv, SessionTypes, Keyed, Busy
  <2> QED BY <2>1, <2>2, <2>3, <2>4, Zenon DEF SessionInv
<1>3. CASE ReadEnds(c)
  BY <1>3, Moves DEF ReadEnds, SessionInv, SessionTypes, Busy
<1>4. CASE Respond(c)
  <2>1. /\ place[c] = "respond" /\ id' = id /\ extConnIDCounter' = extConnIDCounter /\ secret' = secret
        /\ sentDC' = sentDC /\ nread' = nread /\ pkt' = pkt
        /\ TotForwardedQueries' = TotForwardedQueries /\ DroppedQueries' = DroppedQueries
    BY <1>4 DEF Respond
  <2>2. \/ place' = [place EXCEPT ![c] = "read"] /\ nempty' = [nempty EXCEPT ![c] = @ + 1] /\ nwritten' = nwritten
        \/ place' = [place EXCEPT ![c] = "read"] /\ nwritten' = [nwritten EXCEPT ![c] = @ + 1] /\ nempty' = nempty
        \/ place' = [place EXCEPT ![c] = "gone"] /\ nwritten' = nwritten /\ nempty' = nempty
    BY <1>4 DEF Respond
  <2>3. SessionTypes'
    BY <2>1, <2>2 DEF SessionInv, SessionTypes, Busy
  <2>4. /\ nread[c] = nwritten[c] + nempty[c] + 1
        /\ nread[c] \in Nat /\ nwritten[c] \in Nat /\ nempty[c] \in Nat
    BY <2>1 DEF SessionInv, SessionTypes, OneAtATime
  <2>5. \A d \in Client : d # c => place'[d] = place[d] /\ nread'[d] = nread[d]
                              /\ nwritten'[d] = nwritten[d] /\ nempty'[d] = nempty[d]
    BY <2>1, <2>2 DEF SessionInv, SessionTypes
  <2>6. place'[c] = "gone" \/ (/\ place'[c] = "read" /\ nread'[c] = nwritten'[c] + nempty'[c])
    BY <2>1, <2>2, <2>4 DEF SessionInv, SessionTypes
  <2>7. place[c] \in Busy
    BY <2>1 DEF Busy
  <2>8. CASE place'[c] = "gone"
    BY <2>1, <2>3, <2>5, <2>7, <2>8, Moves
  <2>9. CASE place'[c] = "read" /\ nread'[c] = nwritten'[c] + nempty'[c]
    <3>1. place'[c] \in Busy
      BY <2>9 DEF Busy
    <3>2. nread'[c] = nwritten'[c] + nempty'[c] + (IF place'[c] = "read" THEN 0 ELSE 1)
      BY <2>3, <2>9 DEF SessionTypes
    <3> QED BY <2>1, <2>3, <2>5, <2>7, <3>1, <3>2, Moves
  <2> QED BY <2>6, <2>8, <2>9
<1>5. ASSUME NEW p \in Packets, ReadPacket(c, p) PROVE SessionInv'
  <2>1. /\ place[c] = "read" /\ nread[c] < MaxPackets /\ place' = [place EXCEPT ![c] = "handle"]
        /\ id' = id /\ extConnIDCounter' = extConnIDCounter /\ secret' = secret
        /\ sentDC' = sentDC /\ nread' = [nread EXCEPT ![c] = @ + 1] /\ pkt' = [pkt EXCEPT ![c] = p]
        /\ nwritten' = nwritten /\ nempty' = nempty
        /\ TotForwardedQueries' = TotForwardedQueries /\ DroppedQueries' = DroppedQueries
    BY <1>5 DEF ReadPacket
  <2>2. SessionTypes'
    BY <2>1 DEF SessionInv, SessionTypes, Busy
  <2>3. /\ nread[c] = nwritten[c] + nempty[c] /\ nread[c] \in Nat /\ nwritten[c] \in Nat /\ nempty[c] \in Nat
    BY <2>1 DEF SessionInv, SessionTypes, OneAtATime
  <2>4. /\ place'[c] = "handle" /\ nread'[c] = nwritten'[c] + nempty'[c] + 1
        /\ \A d \in Client : d # c => place'[d] = place[d] /\ nread'[d] = nread[d]
    BY <2>1, <2>3 DEF SessionInv, SessionTypes
  <2> QED BY <2>1, <2>2, <2>3, <2>4, Moves, Zenon DEF Busy
<1>6. CASE Refuse(c) \/ NoRoute(c) \/ ForwardErr(c)
  <2>1. /\ place[c] \in {"handle", "forward"} /\ place' = [place EXCEPT ![c] = "gone"]
        /\ id' = id /\ extConnIDCounter' = extConnIDCounter /\ secret' = secret
        /\ sentDC' = sentDC /\ nread' = nread /\ pkt' = pkt /\ nwritten' = nwritten /\ nempty' = nempty
        /\ TotForwardedQueries' = TotForwardedQueries /\ DroppedQueries' = DroppedQueries + 1
    BY <1>6 DEF Refuse, NoRoute, ForwardErr
  <2>2. SessionTypes'
    BY <2>1 DEF SessionInv, SessionTypes, Busy
  <2>3. place'[c] = "gone" /\ \A d \in Client : d # c => place'[d] = place[d]
    BY <2>1 DEF SessionInv, SessionTypes
  <2> QED BY <2>1, <2>2, <2>3, Moves DEF Busy
<1>7. CASE SendProxyReq(c)
  <2> DEFINE r == [id |-> id[c], n |-> nread[c], p |-> pkt[c], flag |-> IF pkt[c].key = 0 THEN "DH" ELSE "ExtNode"]
  <2>1. /\ place[c] = "handle" /\ Accepts(pkt[c]) /\ place' = [place EXCEPT ![c] = "forward"]
        /\ id' = id /\ extConnIDCounter' = extConnIDCounter /\ secret' = secret
        /\ nread' = nread /\ nwritten' = nwritten /\ nempty' = nempty /\ pkt' = pkt
        /\ TotForwardedQueries' = TotForwardedQueries /\ DroppedQueries' = DroppedQueries
        /\ sentDC' = sentDC \cup {r}
    BY <1>7, Zenon DEF SendProxyReq
  <2>2. pkt[c] \in [len : Nat, key : Nat, inner : Nat, fn : {"dh", "other"}] /\ id[c] # 0
    BY <2>1 DEF SessionInv, SessionTypes, NoPacket, Busy
  <2>3. r.id # 0 /\ Proper(r)
    <3>1. ASSUME NEW p \in [len : Nat, key : Nat, inner : Nat, fn : {"dh", "other"}], Accepts(p)
          PROVE  /\ p.len >= 28 /\ p.len % 4 = 0
                 /\ p.key = 0 => p.fn = "dh" /\ 20 + p.inner \in 40 .. p.len
      BY <3>1 DEF Accepts, validateDHPacket
    <3>2. r.id = id[c] /\ r.p = pkt[c] /\ (r.flag = "DH" <=> pkt[c].key = 0)
      OBVIOUS
    <3>3. /\ pkt[c].len >= 28 /\ pkt[c].len % 4 = 0
          /\ pkt[c].key = 0 => pkt[c].fn = "dh" /\ 20 + pkt[c].inner \in 40 .. pkt[c].len
      BY <2>1, <2>2, <3>1, Zenon
    <3> HIDE DEF r
    <3> QED BY <2>2, <3>2, <3>3, Zenon DEF Proper
  <2> HIDE DEF r
  <2>4. \A q \in sentDC' : q.id # 0 /\ Proper(q)
    BY <2>1, <2>3 DEF SessionInv
  <2>5. SessionTypes' /\ UniqueIDs' /\ OneAtATime'
    BY <2>1 DEF SessionInv, SessionTypes, UniqueIDs, OneAtATime, Busy
  <2>6. \A d \in Client : /\ id'[d] <= extConnIDCounter'
                          /\ place'[d] = "draw" \/ id'[d] # 0 => Keyed(d)'
                          /\ place'[d] \in Busy => id'[d] # 0
                          /\ place'[d] \in {"header", "draw"} => nread'[d] = 0 /\ nwritten'[d] = 0 /\ nempty'[d] = 0
    BY <2>1 DEF SessionInv, SessionTypes, Keyed, Busy
  <2> QED BY <2>4, <2>5, <2>6, Zenon DEF SessionInv
<1>8. ASSUME NEW n \in RespLen, ForwardOk(c, n) PROVE SessionInv'
  <2>1. /\ place[c] = "forward" /\ place' = [place EXCEPT ![c] = "count"]
        /\ id' = id /\ extConnIDCounter' = extConnIDCounter /\ secret' = secret
        /\ sentDC' = sentDC /\ nread' = nread /\ pkt' = pkt /\ nwritten' = nwritten /\ nempty' = nempty
        /\ TotForwardedQueries' = TotForwardedQueries + 1 /\ DroppedQueries' = DroppedQueries
    BY <1>8 DEF ForwardOk
  <2>2. SessionTypes'
    BY <2>1 DEF SessionInv, SessionTypes, Busy
  <2>3. place'[c] = "count" /\ \A d \in Client : d # c => place'[d] = place[d]
    BY <2>1 DEF SessionInv, SessionTypes
  <2>4. nread[c] = nwritten[c] + nempty[c] + 1
    BY <2>1 DEF SessionInv, OneAtATime
  <2> QED BY <2>1, <2>2, <2>3, <2>4, Moves DEF Busy
<1>9. CASE CountIn(c) \/ CountOut(c)
  <2>1. /\ place[c] \in {"count", "count2"} /\ \E l \in {"count2", "respond"} : place' = [place EXCEPT ![c] = l]
        /\ id' = id /\ extConnIDCounter' = extConnIDCounter /\ secret' = secret
        /\ sentDC' = sentDC /\ nread' = nread /\ pkt' = pkt /\ nwritten' = nwritten /\ nempty' = nempty
        /\ TotForwardedQueries' = TotForwardedQueries /\ DroppedQueries' = DroppedQueries
    BY <1>9, Zenon DEF CountIn, CountOut
  <2>2. SessionTypes'
    BY <2>1 DEF SessionInv, SessionTypes, Busy
  <2>3. place'[c] \in {"count2", "respond"} /\ \A d \in Client : d # c => place'[d] = place[d]
    BY <2>1 DEF SessionInv, SessionTypes
  <2>4. nread[c] = nwritten[c] + nempty[c] + 1
    BY <2>1 DEF SessionInv, OneAtATime
  <2> QED BY <2>1, <2>2, <2>3, <2>4, Moves, Zenon DEF Busy
<1> QED BY <1>1, <1>2, <1>3, <1>4, <1>5, <1>6, <1>7, <1>8, <1>9

\* The invariant of the sessions holds throughout.
LEMMA SessionHolds == SessionSpec => []SessionInv
<1>1. SessionInit => SessionInv
  BY SessionAssumption DEF SessionInit, SessionInv, SessionTypes, UniqueIDs, OneAtATime, Busy
<1>2. SessionInv /\ UNCHANGED sessionVars => SessionInv'
  BY DEF sessionVars, clientVars, statVars, SessionInv, SessionTypes, UniqueIDs, OneAtATime, Keyed
<1>3. SessionInv /\ [SessionNext]_sessionVars => SessionInv'
  BY <1>2, SessionStep
<1> QED BY <1>1, <1>3, PTL DEF SessionSpec

\* SessionsSound for any number of clients and packets: ids are unique, only packets that pass
\* HandlePacket's tests reach a data centre and only for clients with a secret of the proxy, and
\* each session is request by request.
THEOREM SessionsKept == SessionSpec => []SessionsSound
<1>1. SessionInv => SessionsSound
  BY DEF SessionInv, SessionsSound, OnlyValidForwarded, Proper, Keyed
<1> QED BY <1>1, SessionHolds, PTL

\* The packets read and those in hand are finitely many.
LEMMA FinitelyRead == IsFiniteSet(Reads) /\ IsFiniteSet(InHand) /\ Cardinality(Reads) \in Nat /\ Cardinality(InHand) \in Nat
<1>1. IsFiniteSet(1 .. MaxPackets) /\ IsFiniteSet(Client)
  BY SessionAssumption, FS_Interval
<1>2. IsFiniteSet(Client \X (1 .. MaxPackets))
  BY <1>1, FS_Product, Zenon
<1>3. Reads \in SUBSET (Client \X (1 .. MaxPackets)) /\ InHand \in SUBSET Client
  BY DEF Reads, InHand
<1>4. IsFiniteSet(Reads) /\ IsFiniteSet(InHand)
  BY <1>1, <1>2, <1>3, FS_Subset
<1> QED BY <1>4, FS_CardinalityType

\* Nothing is read and nobody's packet is taken in hand or let go: the sets are the same.
LEMMA SameSets ==
  ASSUME nread' = nread, \A d \in Client : place'[d] \in {"handle", "forward"} <=> place[d] \in {"handle", "forward"}
  PROVE  Reads' = Reads /\ InHand' = InHand
BY DEF Reads, InHand

\* A step that lets go of the packet of one client takes that client out of InHand.
LEMMA LetsGo ==
  ASSUME SessionInv, NEW c \in Client, NEW l, l \notin {"handle", "forward"},
         place[c] \in {"handle", "forward"}, place' = [place EXCEPT ![c] = l], nread' = nread
  PROVE  Reads' = Reads /\ Cardinality(InHand') = Cardinality(InHand) - 1
<1>1. InHand' = InHand \ {c} /\ c \in InHand
  BY DEF InHand, SessionInv, SessionTypes
<1>2. Reads' = Reads
  BY DEF Reads
<1> QED BY <1>1, <1>2, FinitelyRead, FS_RemoveElement, Zenon

\* Each step counts what it lets go of.
LEMMA CountStep ==
  ASSUME SessionInv, CountersAddUp, SessionNext
  PROVE  CountersAddUp'
<1> SUFFICES ASSUME NEW c \in Client,
                    \/ Header(c) \/ nextExtConnID(c) \/ ReadEnds(c) \/ Respond(c)
                    \/ \E p \in Packets : ReadPacket(c, p)
                    \/ Refuse(c) \/ NoRoute(c) \/ SendProxyReq(c) \/ ForwardErr(c)
                    \/ \E n \in RespLen : ForwardOk(c, n)
                    \/ CountIn(c) \/ CountOut(c)
             PROVE  CountersAddUp'
  BY DEF SessionNext
<1> DEFINE R == Cardinality(Reads)
           H == Cardinality(InHand)
<1>0. /\ R \in Nat /\ H \in Nat /\ TotForwardedQueries \in Nat /\ DroppedQueries \in Nat
      /\ R = TotForwardedQueries + DroppedQueries + H
  BY FinitelyRead DEF SessionInv, SessionTypes, CountersAddUp
<1>1. CASE Header(c) \/ nextExtConnID(c) \/ ReadEnds(c) \/ Respond(c) \/ SendProxyReq(c) \/ CountIn(c) \/ CountOut(c)
  <2>1. /\ nread' = nread /\ TotForwardedQueries' = TotForwardedQueries /\ DroppedQueries' = DroppedQueries
    BY <1>1, Zenon DEF Header, nextExtConnID, ReadEnds, Respond, SendProxyReq, CountIn, CountOut, statVars
  <2>2. \A d \in Client : place'[d] \in {"handle", "forward"} <=> place[d] \in {"handle", "forward"}
    BY <1>1, Zenon DEF Header, nextExtConnID, ReadEnds, Respond, SendProxyReq, CountIn, CountOut, SessionGoto, SessionInv, SessionTypes
  <2> QED BY <2>1, <2>2, SameSets DEF CountersAddUp
<1>2. ASSUME NEW p \in Packets, ReadPacket(c, p) PROVE CountersAddUp'
  <2>1. /\ place[c] = "read" /\ nread[c] < MaxPackets /\ place' = [place EXCEPT ![c] = "handle"]
        /\ nread' = [nread EXCEPT ![c] = @ + 1]
        /\ TotForwardedQueries' = TotForwardedQueries /\ DroppedQueries' = DroppedQueries
    BY <1>2 DEF ReadPacket, SessionGoto, statVars
  <2>2. nread \in [Client -> 0 .. MaxPackets] /\ MaxPackets \in Nat
    BY SessionAssumption DEF SessionInv, SessionTypes
  <2>3. Reads' = Reads \cup {<<c, nread[c] + 1>>} /\ <<c, nread[c] + 1>> \notin Reads
    BY <2>1, <2>2 DEF Reads
  <2>4. InHand' = InHand \cup {c} /\ c \notin InHand
    BY <2>1 DEF InHand, SessionInv, SessionTypes
  <2>5. Cardinality(Reads') = R + 1 /\ Cardinality(InHand') = H + 1
    BY <2>3, <2>4, FinitelyRead, FS_AddElement, Zenon
  <2> HIDE DEF R, H
  <2>6. R + 1 = TotForwardedQueries + DroppedQueries + (H + 1)
    BY <1>0
  <2> QED BY <2>1, <2>5, <2>6 DEF CountersAddUp
<1>3. CASE Refuse(c) \/ NoRoute(c) \/ ForwardErr(c)
  <2>1. /\ place[c] \in {"handle", "forward"} /\ place' = [place EXCEPT ![c] = "gone"] /\ nread' = nread
        /\ TotForwardedQueries' = TotForwardedQueries /\ DroppedQueries' = DroppedQueries + 1
    BY <1>3 DEF Refuse, NoRoute, ForwardErr, SessionGoto
  <2>2. Reads' = Reads /\ Cardinality(InHand') = H - 1
    BY <2>1, LetsGo, Zenon
  <2> HIDE DEF R, H
  <2>3. R = TotForwardedQueries + (DroppedQueries + 1) + (H - 1)
    BY <1>0
  <2> QED BY <2>1, <2>2, <2>3 DEF CountersAddUp, R
<1>4. ASSUME NEW n \in RespLen, ForwardOk(c, n) PROVE CountersAddUp'
  <2>1. /\ place[c] \in {"handle", "forward"} /\ place' = [place EXCEPT ![c] = "count"] /\ nread' = nread
        /\ TotForwardedQueries' = TotForwardedQueries + 1 /\ DroppedQueries' = DroppedQueries
    BY <1>4 DEF ForwardOk, SessionGoto
  <2>2. Reads' = Reads /\ Cardinality(InHand') = H - 1
    BY <2>1, LetsGo, Zenon
  <2> HIDE DEF R, H
  <2>3. R = (TotForwardedQueries + 1) + DroppedQueries + (H - 1)
    BY <1>0
  <2> QED BY <2>1, <2>2, <2>3 DEF CountersAddUp, R
<1> QED BY <1>1, <1>2, <1>3, <1>4

\* Every packet read is counted once, as forwarded or dropped, on every path of HandlePacket and in
\* any order of the goroutines, for any number of clients and packets.
THEOREM CountersKept == SessionSpec => []CountersAddUp
<1>1. SessionInit => CountersAddUp
  <2> SUFFICES ASSUME SessionInit PROVE CountersAddUp
    OBVIOUS
  <2>1. \A c \in Client : nread[c] = 0 /\ place[c] = "header"
    BY DEF SessionInit
  <2>2. Reads = {}
    BY <2>1 DEF Reads
  <2>3. InHand = {}
    BY <2>1 DEF InHand
  <2> QED BY <2>2, <2>3, FS_EmptySet DEF SessionInit, CountersAddUp
<1>2. SessionInv /\ CountersAddUp /\ UNCHANGED sessionVars => CountersAddUp'
  BY DEF sessionVars, clientVars, statVars, CountersAddUp, Reads, InHand
<1>3. SessionInv /\ CountersAddUp /\ [SessionNext]_sessionVars => CountersAddUp'
  BY <1>2, CountStep
<1> QED BY <1>1, <1>3, SessionHolds, PTL DEF SessionSpec
=============================================================================
