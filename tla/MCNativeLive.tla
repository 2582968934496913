---------------------------- MODULE MCNativeLive ----------------------------
(***************************************************************************)
(* What the parts of the original program (c-original/) eventually do,     *)
(* checked side by side for TLC. Each behaviour runs one of them (part)    *)
(* and leaves the others in an initial state.  Every part has variables of *)
(* its own, because a temporal property of one is looked at in the states  *)
(* of all.                                                                 *)
(***************************************************************************)
EXTENDS Integers, Sequences, TLC

CONSTANTS PartNames,       \* the parts to run
          Nobody, Nothing  \* no external connection, no key

VARIABLES part,
  jLocked, jSigs, jQueued, jRefcnt, jFreed, jQ, jRefs, jPc, jSig, jQf, jCur, jSends,
  tC, tS, tT, tTable, tUses,
  xConn, xNext, xTab, xJobs, xEvents, xEng, xSeen, xKnown, xGot, xNpkt, xNans,
  aCfg, aCl, aRcv, aPos, aC, aE, aFwd, aQ, aEvs, aCnt,
  mNow, mReal, mWake, mHeap, mQ, mMreq, mMpc, mJpc, mAlarm, mAux, mWatch, mRefs, mHeld,
  mSets,
  lBacklog, lArrived, lEpoll, lEdge, lRun, lAux, lMain, lActive, lCpu, lFailed,
  sK, sEv, sF, sSig, sIo, sStop, sEagain, sCpu, sOutq, sOut, sLeft,
  wCopy, wNow, wAt, wWhole, wKilled, wRd,
  pState, pSent, pArmed, pPending, pCalling, pPids, pTurn, pUnseen, pOrderly, pStray,
  pBudget,
  hCfg, hE, hWire, hPid,
  dSrv, dS, dRd, dWr, dI, dErr, dLate, dAcc, dInfo, dPc

jVars == <<jLocked, jSigs, jQueued, jRefcnt, jFreed, jQ, jRefs, jPc, jSig, jQf, jCur,
    jSends>>
tVars == <<tC, tS, tT, tTable, tUses>>
xVars == <<xConn, xNext, xTab, xJobs, xEvents, xEng, xSeen, xKnown, xGot, xNpkt, xNans>>
aVars == <<aCfg, aCl, aRcv, aPos, aC, aE, aFwd, aQ, aEvs, aCnt>>
mVars == <<mNow, mReal, mWake, mHeap, mQ, mMreq, mMpc, mJpc, mAlarm, mAux, mWatch, mRefs,
    mHeld, mSets>>
lVars == <<lBacklog, lArrived, lEpoll, lEdge, lRun, lAux, lMain, lActive, lCpu, lFailed>>
sVars == <<sK, sEv, sF, sSig, sIo, sStop, sEagain, sCpu, sOutq, sOut, sLeft>>
wVars == <<wCopy, wNow, wAt, wWhole, wKilled, wRd>>
pVars == <<pState, pSent, pArmed, pPending, pCalling, pPids, pTurn, pUnseen, pOrderly,
    pStray, pBudget>>
hVars == <<hCfg, hE, hWire, hPid>>
dVars == <<dSrv, dS, dRd, dWr, dI, dErr, dLate, dAcc, dInfo, dPc>>
vars == <<part, jVars, tVars, xVars, aVars, mVars, lVars, sVars, wVars, pVars, hVars, dVars>>

\* JS_RUN for the connection thread, JS_ABORT (fast) for the main thread, and JS_FINISH for a class
\* without threads of its own, which the main thread serves.
Threads == {"main", "connection"}
JobClass == 0 :> "connection" @@ 5 :> "main" @@ 7 :> "engine"
JobMask == "main" :> {"main", "engine"} @@ "connection" :> {"connection"}

\* The main thread and one connection thread.
Job == INSTANCE AsyncJob WITH
  Thread <- Threads, Sig <- {0, 5, 7}, Fast <- {5}, SigClass <- JobClass, Mask <- JobMask,
  MaxRefs <- 1, MaxSends <- 2,
  locked <- jLocked, sigs <- jSigs, queued <- jQueued, refcnt <- jRefcnt, freed <- jFreed,
  q <- jQ, refs <- jRefs, pc <- jPc, sig <- jSig, qf <- jQf, cur <- jCur, sends <- jSends

\* An address that is used by two targets in turn.
Tgts == INSTANCE Targets WITH
  Conn <- {1}, Tgt <- {1, 2}, MinC <- 1, MaxC <- 1, MaxUses <- 1, Multithread <- TRUE,
  c <- tC, s <- tS, t <- tT, table <- tTable, uses <- tUses

\* A client and a data centre.
Ext == INSTANCE ExtConnections WITH
  NoEx <- Nobody, None <- Nothing, Fd <- {1, 2}, MaxGen <- 2, Secret <- {1}, Key <- {}, Ip <- {1}, MaxPkt <- 1, MaxAns <- 0,
  conn <- xConn, next <- xNext, tab <- xTab, jobs <- xJobs, events <- xEvents, eng <- xEng,
  seen <- xSeen, known <- xKnown, got <- xGot, npkt <- xNpkt, nans <- xNans

\* The two connections in threads of their own.
Acc == INSTANCE ExtAccept WITH
  Secret <- {1}, MinLen <- 1, HelloLen <- 1, CcsLen <- 1, HeaderLen <- 1, SkipLen <- 9,
  MaxUnits <- 3, Multi <- TRUE,
  cfg <- aCfg, cl <- aCl, rcv <- aRcv, pos <- aPos, c <- aC, e <- aE, fwd <- aFwd, q <- aQ,
  evs <- aEvs, cnt <- aCnt

Tim == INSTANCE JobTimers WITH
  MaxTime <- 2, MaxSets <- 2, MaxQ <- 3, Same <- FALSE, Managed <- TRUE,
  now <- mNow, real <- mReal, wake <- mWake, heap <- mHeap, requests <- mQ, mreq <- mMreq,
  mpc <- mMpc, jpc <- mJpc, alarm <- mAlarm, wakeM <- mAux, watch <- mWatch, j_refcnt <- mRefs,
  owned <- mHeld, sets <- mSets

Lis == INSTANCE Listening WITH
  Listener <- {1}, max_special_connections <- 1, Cpu <- {1}, MaxArrivals <- 2,
  backlog <- lBacklog, arrived <- lArrived, epoll <- lEpoll, edge <- lEdge, run <- lRun,
  aux <- lAux, main <- lMain, active <- lActive, due <- lCpu, failed <- lFailed

Sock == INSTANCE SocketIO WITH
  Multi <- TRUE, MaxIn <- 1, MaxOut <- 1, SndBuf <- 1, MaxEagain <- 1,
  k <- sK, ev <- sEv, f <- sF, sig <- sSig, io <- sIo, stop <- sStop, eagain <- sEagain,
  cpu <- sCpu, outq <- sOutq, out <- sOut, left <- sLeft

\* The same socket in a program of one thread, with a packet more than the kernel takes.
Sock1 == INSTANCE SocketIO WITH
  Multi <- FALSE, MaxIn <- 1, MaxOut <- 2, SndBuf <- 1, MaxEagain <- 1,
  k <- sK, ev <- sEv, f <- sF, sig <- sSig, io <- sIo, stop <- sStop, eagain <- sEagain,
  cpu <- sCpu, outq <- sOutq, out <- sOut, left <- sLeft

Stat == INSTANCE WorkerStats WITH
  MaxUpdates <- 2,
  copy <- wCopy, update <- wNow, at <- wAt, whole <- wWhole, killed <- wKilled, rd <- wRd

Wor == INSTANCE Workers WITH
  workers <- 1, Tries <- 2, MaxSignals <- 2,
  state <- pState, sent <- pSent, armed <- pArmed, pending <- pPending, calling <- pCalling,
  pids <- pPids, turn <- pTurn, unseen <- pUnseen, orderly <- pOrderly, stray <- pStray,
  budget <- pBudget

Shake == INSTANCE RpcHandshake WITH
  ClientPerms <- {{"ENC", "DH", "SKIP"}}, ServerPerms <- {{"ENC", "DH"}}, MaxData <- 0,
  cfg <- hCfg, e <- hE, wire <- hWire, pid <- hPid

Prb == INSTANCE DomainProbe WITH
  Tries <- 1, Hdr <- 2, Mid <- 1, Sizes <- {1}, MaxShort <- 100,
  srv <- dSrv, s <- dS, rd <- dRd, wr <- dWr, i <- dI, err <- dErr, late <- dLate,
  acc <- dAcc, info <- dInfo, pc <- dPc

\* A part that does not run begins in one of its initial states.
Init ==
  /\ part \in PartNames
  /\ Job!JobInit
  /\ Tgts!Init
  /\ Ext!Init
  /\ part # "accept" =>
       /\ aCfg = [domains |-> FALSE, resolved |-> FALSE, secrets |-> {}]
       /\ aCl = (CHOOSE x \in Acc!Clients : TRUE)
  /\ Acc!Init
  /\ Tim!TimerInit
  /\ Lis!ListenInit
  /\ IF part = "oneThread" THEN Sock1!Init ELSE Sock!Init
  /\ Stat!StatsInit
  /\ Wor!WorkersInit
  /\ part # "handshake" =>
       /\ hCfg = (CHOOSE x \in Shake!Configs : TRUE)
       /\ hPid = [ip |-> 0, port |-> 0]
  /\ Shake!Init
  /\ part # "probe" =>
       /\ dSrv = (CHOOSE x \in [Prb!Socks -> Prb!Usual] : TRUE)
  /\ Prb!Init

Only(p) == part = p /\ UNCHANGED part

Next ==
  \/ Only("job")       /\ Job!JobNext
       /\ UNCHANGED <<tVars, xVars, aVars, mVars, lVars, sVars, wVars, pVars, hVars, dVars>>
  \/ Only("targets")   /\ Tgts!Next
       /\ UNCHANGED <<jVars, xVars, aVars, mVars, lVars, sVars, wVars, pVars, hVars, dVars>>
  \/ Only("ext")       /\ Ext!Next
       /\ UNCHANGED <<jVars, tVars, aVars, mVars, lVars, sVars, wVars, pVars, hVars, dVars>>
  \/ Only("accept")    /\ Acc!Next
       /\ UNCHANGED <<jVars, tVars, xVars, mVars, lVars, sVars, wVars, pVars, hVars, dVars>>
  \/ Only("timers")    /\ Tim!TimerNext
       /\ UNCHANGED <<jVars, tVars, xVars, aVars, lVars, sVars, wVars, pVars, hVars, dVars>>
  \/ Only("listening") /\ Lis!ListenNext
       /\ UNCHANGED <<jVars, tVars, xVars, aVars, mVars, sVars, wVars, pVars, hVars, dVars>>
  \/ Only("socket")    /\ Sock!Next
       /\ UNCHANGED <<jVars, tVars, xVars, aVars, mVars, lVars, wVars, pVars, hVars, dVars>>
  \/ Only("oneThread") /\ Sock1!Next
       /\ UNCHANGED <<jVars, tVars, xVars, aVars, mVars, lVars, wVars, pVars, hVars, dVars>>
  \/ Only("stats")     /\ Stat!StatsNext
       /\ UNCHANGED <<jVars, tVars, xVars, aVars, mVars, lVars, sVars, pVars, hVars, dVars>>
  \/ Only("workers")   /\ Wor!WorkersNext
       /\ UNCHANGED <<jVars, tVars, xVars, aVars, mVars, lVars, sVars, wVars, hVars, dVars>>
  \/ Only("handshake") /\ Shake!Next
       /\ UNCHANGED <<jVars, tVars, xVars, aVars, mVars, lVars, sVars, wVars, pVars, dVars>>
  \/ Only("probe")     /\ Prb!Next
       /\ UNCHANGED <<jVars, tVars, xVars, aVars, mVars, lVars, sVars, wVars, pVars, hVars>>

Spec == Init /\ [][Next]_vars

\* The fairness of each part, as its module states it.  Is(p) changes nothing, because a property is
\* about the behaviours of its part only; it saves TLC to look at a part that does not run.
Is(p) == part = p
JobFair ==
  /\ \A t \in Threads : WF_jVars(Is("job") /\ Job!JobStep(t))
TgtsFair ==
  /\ \A j \in {1, 2} : WF_tVars(Is("targets") /\ Tgts!TargetStep(j))
  /\ WF_tVars(Is("targets") /\ Tgts!SocketStep(1))
  /\ WF_tVars(Is("targets") /\ Tgts!ConnStep(1))
ExtFair ==
  /\ WF_xVars(Is("ext") /\ Ext!Engine)
  /\ \A g \in 1 .. 2 :
       /\ WF_xVars(Is("ext") /\ Ext!Close(g))
       /\ WF_xVars(Is("ext") /\ Ext!SocketAbort(g))
       /\ WF_xVars(Is("ext") /\ Ext!FreeConnection(g))
AccFair ==
  /\ WF_aVars(Is("accept") /\ Acc!Work)
  /\ WF_aVars(Is("accept") /\ Acc!Alarm)
TimFair ==
  /\ WF_mVars(Is("timers") /\ Tim!J)
  /\ WF_mVars(Is("timers") /\ Tim!TakeRequest)
  /\ WF_mVars(Is("timers") /\ Tim!InsertTimer)
  /\ WF_mVars(Is("timers") /\ Tim!thread_run_timers)
  /\ WF_mVars(Is("timers") /\ Tim!Watch)
  /\ WF_mVars(Is("timers") /\ Tim!Tick)
LisFair ==
  /\ WF_lVars(Is("listening") /\ Lis!ListenMain)
  /\ WF_lVars(Is("listening") /\ Lis!Close(1))
  /\ WF_lVars(Is("listening") /\ Lis!Wake(1, 1))
SockFair ==
  /\ WF_sVars(Is("socket") /\ Sock!IoStep)
  /\ WF_sVars(Is("socket") /\ Sock!MainStep)
  /\ WF_sVars(Is("socket") /\ Sock!CpuStep)
  /\ WF_sVars(Is("socket") /\ Sock!Drains)
Sock1Fair ==
  /\ WF_sVars(Is("oneThread") /\ Sock1!IoStep)
  /\ WF_sVars(Is("oneThread") /\ Sock1!MainStep)
  /\ WF_sVars(Is("oneThread") /\ Sock1!CpuStep)
  /\ WF_sVars(Is("oneThread") /\ Sock1!Drains)
StatFair ==
  /\ WF_wVars(Is("stats") /\ (Stat!PickCopy \/ Stat!CopyField \/ Stat!Recheck))
WorFair ==
  /\ WF_pVars(Is("workers") /\ Wor!Fork)
  /\ WF_pVars(Is("workers") /\ Wor!Dead)
  /\ WF_pVars(Is("workers") /\ Wor!Status(1))
  /\ WF_pVars(Is("workers") /\ Wor!Orphaned(1))
  /\ \A p \in 0 .. 1 :
       /\ WF_pVars(Is("workers") /\ Wor!server_init(p))
       /\ WF_pVars(Is("workers") /\ (Wor!Process(p) \/ Wor!Reopen(p) \/ Wor!Return(p)))
       /\ WF_pVars(Is("workers") /\ Wor!Exit(p))
       /\ WF_pVars(Is("workers") /\ (\E sig \in {"TERM", "INT", "USR1", "KILL"} : Wor!Deliver(p, sig)))
ShakeFair ==
  /\ WF_hVars(Is("handshake") /\ Shake!ClientStep)
  /\ WF_hVars(Is("handshake") /\ Shake!Timeout)
PrbFair ==
  /\ WF_dVars(Is("probe") /\ Prb!Step)
  /\ WF_dVars(Is("probe") /\ Prb!Deadline)

(***************************************************************************)
(* The properties of the parts, by the names they have there.              *)
(***************************************************************************)
\* What the threads of one process get done.
\*   AsyncJob: no wake-up is lost, what job_signal sent is handled; and a job that nobody refers
\*     to gets JS_FINISH.
\*   JobTimers: a timer that stays set goes off.
\*   SocketIO: what the peer sent is read, and what was queued is written, or the socket is
\*     aborted.
\*   WorkerStats: the parent gets through its loop, also when a worker dies in an update.
\*   Workers: when one process of the family has ended, all end; after a SIGUSR1 a process
\*     reopens its log, or ends.
ThreadsProgress ==
  /\ part = "job" /\ JobFair => Job!SignalsHandled /\ Job!Destroyed
  /\ part = "timers" /\ TimFair => Tim!GoesOff
  /\ part = "socket" /\ SockFair => Sock!Received /\ Sock!Written
  /\ part = "oneThread" /\ Sock1Fair => Sock1!Written
  /\ part = "stats" /\ StatFair => Stat!SumDone
  /\ part = "workers" /\ WorFair => Wor!AllOrNone /\ Wor!LogsReopened

\* What becomes of connections.
\*   Targets: a failed connection is freed, and its descriptor closed; a target no
\*     configuration names is freed, unless one names it again.
\*   ExtConnections: when the connection to the data centre fails, its clients fail or find
\*     another; a failed connection is freed, so that its descriptor can be used again.
\*   ExtAccept: neither end of a connection passed on outlives the other; with domains
\*     configured every client is served, passed on or closed.
\*   Listening: a client that waits is accepted, also when the limit had been reached.
\*   RpcHandshake: every attempt to connect gets ready or is given up.
\*   DomainProbe: the probe ends, whatever the servers do.
ConnectionsProgress ==
  /\ part = "targets" /\ TgtsFair => Tgts!FailedIsFreed /\ Tgts!UnusedIsFreed
  /\ part = "ext" /\ ExtFair => Ext!ClientsFollow /\ Ext!FailedIsFreed
  /\ part = "accept" /\ AccFair => Acc!PairFreed /\ Acc!Decided
  /\ part = "listening" /\ LisFair => Lis!ClientsAccepted
  /\ part = "handshake" /\ ShakeFair => Shake!Settles
  /\ part = "probe" /\ PrbFair => Prb!Returns
=============================================================================
