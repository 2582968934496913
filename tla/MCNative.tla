------------------------------ MODULE MCNative ------------------------------
(***************************************************************************)
(* The parts of the original program (c-original/) in which threads,       *)
(* processes or connections meet, checked side by side for TLC.  They      *)
(* share no state, so each behaviour runs one of them (part).  The parts   *)
(* that are extended have their own variables, which stay as they begin    *)
(* when another part runs, and their properties are the ones their         *)
(* theorems are about.  The others take turns in using the variables x1,   *)
(* x2, ...: an instance says which variable of its module each stands for. *)
(***************************************************************************)
EXTENDS AsyncJob, JobTimers, Listening, WorkerStats, Workers, TLC

CONSTANTS PartNames,        \* the parts to run
          Twins,            \* two worker threads, descriptors or producers
          mainThread,       \* the main thread, the consumer
          Nobody, Nothing   \* no external connection, no key

VARIABLES part, x1, x2, x3, x4, x5, x6, x7, x8, x9, x10, x11
ownVars == <<jobVars, timerVars, listenVars, statsVars, workersVars>>
xVars == <<x1, x2, x3, x4, x5, x6, x7, x8, x9, x10, x11>>
vars == <<part, ownVars, xVars>>

\* A job with JS_RUN for the connection threads, JS_ABORT for the main thread and JS_FINISH for a
\* class without threads of its own, which the main thread serves.  JS_ABORT is fast.  Three
\* threads, two of them of the same class.
Threads == Twins \cup {mainThread}
JobClass == 0 :> "connection" @@ 5 :> "main" @@ 7 :> "engine"
JobMask == [x \in Threads |-> IF x = mainThread THEN {"main", "engine"} ELSE {"connection"}]

\* Targets whose connections have threads of their own; and one thread for all.
Tgts == INSTANCE Targets WITH
  Conn <- {1, 2}, Tgt <- {1}, MinC <- 1, MaxC <- 1, MaxUses <- 1, Multithread <- TRUE,
  c <- x1, s <- x2, t <- x3, table <- x4, uses <- x5

Single == INSTANCE Targets WITH
  Conn <- {1}, Tgt <- {1, 2}, MinC <- 1, MaxC <- 1, MaxUses <- 2, Multithread <- FALSE,
  c <- x1, s <- x2, t <- x3, table <- x4, uses <- x5

\* Three connections on two descriptors, so that one is used again; and two whose client
\* sends packets for two keys.
Ext == INSTANCE ExtConnections WITH
  NoEx <- Nobody, None <- Nothing, Fd <- Twins, MaxGen <- 3, Secret <- {1}, Key <- {}, Ip <- {1}, MaxPkt <- 1, MaxAns <- 1,
  conn <- x1, next <- x2, tab <- x3, jobs <- x4, events <- x5, eng <- x6, seen <- x7,
  known <- x8, got <- x9, npkt <- x10, nans <- x11

Pkt == INSTANCE ExtConnections WITH
  NoEx <- Nobody, None <- Nothing, Fd <- Twins, MaxGen <- 2, Secret <- {1}, Key <- {1, 2}, Ip <- {1}, MaxPkt <- 2,
  MaxAns <- 0,
  conn <- x1, next <- x2, tab <- x3, jobs <- x4, events <- x5, eng <- x6, seen <- x7,
  known <- x8, got <- x9, npkt <- x10, nans <- x11

\* A queue polled, and one with the semaphore.
Mpq == INSTANCE MpQueue WITH
  Producer <- Twins, Consumer <- {mainThread}, PushN <- 1, PopN <- 2, Size <- 2, MaxIter <- 0,
  Block <- 1 .. 5, WithSem <- FALSE,
  mem <- x1, mq_head <- x2, mq_tail <- x3, garbage <- x4, prepared <- x5, sem <- x6,
  hptr <- x7, l <- x8, out <- x9

Sem == INSTANCE MpQueue WITH
  Producer <- Twins, Consumer <- {mainThread}, PushN <- 1, PopN <- 2, Size <- 2, MaxIter <- 0,
  Block <- 1 .. 5, WithSem <- TRUE,
  mem <- x1, mq_head <- x2, mq_tail <- x3, garbage <- x4, prepared <- x5, sem <- x6,
  hptr <- x7, l <- x8, out <- x9

\* One thread, so that the order of the events is known.
Acc == INSTANCE ExtAccept WITH
  Secret <- {1}, MinLen <- 1, HelloLen <- 2, CcsLen <- 1, HeaderLen <- 2, SkipLen <- 9,
  MaxUnits <- 5, Multi <- FALSE,
  cfg <- x1, cl <- x2, rcv <- x3, pos <- x4, c <- x5, e <- x6, fwd <- x7, q <- x8,
  evs <- x9, cnt <- x10

\* A socket and its connection in threads of their own; and in one.
Sock == INSTANCE SocketIO WITH
  Multi <- TRUE, MaxIn <- 1, MaxOut <- 1, SndBuf <- 1, MaxEagain <- 1,
  k <- x1, ev <- x2, f <- x3, sig <- x4, io <- x5, stop <- x6, eagain <- x7, cpu <- x8,
  outq <- x9, out <- x10, left <- x11

Sock1 == INSTANCE SocketIO WITH
  Multi <- FALSE, MaxIn <- 1, MaxOut <- 2, SndBuf <- 1, MaxEagain <- 1,
  k <- x1, ev <- x2, f <- x3, sig <- x4, io <- x5, stop <- x6, eagain <- x7, cpu <- x8,
  outq <- x9, out <- x10, left <- x11

\* 5 generates the numbers modulo 23; two connections in two threads.
Dh == INSTANCE DhExchange WITH
  Thread <- {1, 2}, Prime <- 23, Gen <- 5, Base <- 4, Exponent <- {1, 2, 3, 4, 6, 9},
  dh_params_select <- x1, rpc_dh_prime <- x2, made <- x3, lock <- x4, pc <- x5, a <- x6,
  g_a <- x7, g_b <- x8, server_key <- x9, key <- x10

\* What a part has no use for stays 0.
I10 == x11 = 0
I9 == x10 = 0 /\ I10
I5 == x6 = 0 /\ x7 = 0 /\ x8 = 0 /\ x9 = 0 /\ I9
I0 == x1 = 0 /\ x2 = 0 /\ x3 = 0 /\ x4 = 0 /\ x5 = 0 /\ I5
U10 == UNCHANGED x11
U9 == UNCHANGED x10 /\ U10
U5 == UNCHANGED <<x6, x7, x8, x9>> /\ U9

Init ==
  /\ part \in PartNames
  /\ JobInit /\ TimerInit /\ ListenInit /\ StatsInit /\ WorkersInit
  /\ \/ part \in {"job", "timers", "listening", "stats", "workers"} /\ I0
     \/ part = "targets"   /\ Tgts!Init /\ I5
     \/ part = "single"    /\ Single!Init /\ I5
     \/ part = "ext"       /\ Ext!Init
     \/ part = "packets"   /\ Pkt!Init
     \/ part = "queue"     /\ Mpq!Init /\ I9
     \/ part = "semaphore" /\ Sem!Init /\ I9
     \/ part = "accept"    /\ Acc!Init /\ I10
     \/ part = "socket"    /\ Sock!Init
     \/ part = "oneThread" /\ Sock1!Init
     \/ part = "dh"        /\ Dh!Init /\ I10

Only(p) == part = p /\ UNCHANGED part
Borrowing == UNCHANGED ownVars

Next ==
  \/ Only("job")       /\ JobNext
       /\ UNCHANGED <<timerVars, listenVars, statsVars, workersVars, xVars>>
  \/ Only("timers")    /\ TimerNext
       /\ UNCHANGED <<jobVars, listenVars, statsVars, workersVars, xVars>>
  \/ Only("listening") /\ ListenNext
       /\ UNCHANGED <<jobVars, timerVars, statsVars, workersVars, xVars>>
  \/ Only("stats")     /\ StatsNext
       /\ UNCHANGED <<jobVars, timerVars, listenVars, workersVars, xVars>>
  \/ Only("workers")   /\ WorkersNext
       /\ UNCHANGED <<jobVars, timerVars, listenVars, statsVars, xVars>>
  \/ Only("targets")   /\ Tgts!Next /\ U5 /\ Borrowing
  \/ Only("single")    /\ Single!Next /\ U5 /\ Borrowing
  \/ Only("ext")       /\ Ext!Next /\ Borrowing
  \/ Only("packets")   /\ Pkt!Next /\ Borrowing
  \/ Only("queue")     /\ Mpq!Next /\ U9 /\ Borrowing
  \/ Only("semaphore") /\ Sem!Next /\ U9 /\ Borrowing
  \/ Only("accept")    /\ Acc!Next /\ U10 /\ Borrowing
  \/ Only("socket")    /\ Sock!Next /\ Borrowing
  \/ Only("oneThread") /\ Sock1!Next /\ Borrowing
  \/ Only("dh")        /\ Dh!Next /\ U10 /\ Borrowing

Spec == Init /\ [][Next]_vars

\* The twins are interchangeable.
Symm == Permutations(Twins)

\* Bound: jobs and events of the external connections that are on their way.
ShortQueues == part \in {"ext", "packets"} => Len(x4) + Len(x5) <= 3

(***************************************************************************)
(* The properties of the parts that are instances here; the others have    *)
(* theirs in their own modules.                                            *)
(***************************************************************************)
\* Targets: connections are counted, closed and freed as they should; a target keeps trying.
TargetsSafe ==
  /\ part = "targets" => Tgts!TargetsSafe
  /\ part = "single" => Single!TargetsSafe
\* MpQueue: what is pushed is popped once, out of blocks nobody has freed.
QueueSafe ==
  /\ part = "queue" => Mpq!QueueSafe
  /\ part = "semaphore" => Sem!QueueSafe
\* ExtAccept: a client is served, or passed on unseen, as the configuration says.
AcceptSafe == part = "accept" => Acc!AcceptSafe
\* SocketIO: once nothing is pending, neither input nor output is forgotten.
SocketSafe ==
  /\ part = "socket" => Sock!SocketSafe
  /\ part = "oneThread" => Sock1!SocketSafe
\* DhExchange: both ends of a connection compute the same key, with parameters that are ready.
DhSafe == part = "dh" => Dh!DhSafe
\* SocketIO: with one thread, the writer closes a socket only when all is written.
WrittenBeforeClose == [][part = "oneThread" => Sock1!AbortsEmpty]_vars
=============================================================================
