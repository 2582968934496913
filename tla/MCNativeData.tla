---------------------------- MODULE MCNativeData ----------------------------
(***************************************************************************)
(* The parts of the original program (c-original/) that transform data:    *)
(* messages, heaps, packets, parsers and handshakes, checked side by side  *)
(* for TLC.  They share no state, so each behaviour runs one of them       *)
(* (part), and the parts take turns in using the variables x1, x2, ...: an *)
(* instance says which variable of its module each one stands for.         *)
(***************************************************************************)
EXTENDS Integers, Sequences, TLC

CONSTANTS PartNames,   \* the parts to run
          Msgs

VARIABLES part, x1, x2, x3, x4, x5, x6, x7, x8, x9, x10
vars == <<part, x1, x2, x3, x4, x5, x6, x7, x8, x9, x10>>

Priority(d) == IF d > 4 THEN 10 ELSE IF d % 2 = 0 THEN 0 ELSE -10
Transports == {"plain", "cbc", "medium", "padded", "compact", "tls", "unknown"}
Half(r) == r % 2
Stamp(r) == r
Made(r) == r # 6

\* What rpc_check_perm allows the client and the server.
CPerms == {{"ENC"}, {"ENC", "SKIP"}, {"ENC", "DH"}, {"ENC", "DH", "SKIP"}, {"UNENC"}, {"ENC", "UNENC"}}
SPerms == {{"ENC"}, {"ENC", "DH"}, {"ENC", "DH", "SKIP"}, {"UNENC"}, {"ENC", "UNENC"}, {"ENC", "UNENC", "DH"}}

\* Directives with what they mean: both address forms, line feeds where blanks may stand and
\* where they may not, comments, numbers without digits, a missing semicolon.
W(t, m) == [text |-> t, means |-> m]
Proxy(d, h, p) == [op |-> "proxy", dc |-> d, host |-> h, port |-> p]
Bad == [op |-> "bad"]
Directives ==
  { W(<<"proxy", " ", "a", ".", "1", ":", "2", "1", ";">>, Proxy(0, <<"a", ".", "1">>, 21)),
    W(<<"proxy", "_for", "-", "2", "tab", "[", "1", ":", ":", "]", "lf", ":", " ", "1", "#", ";", "lf", ";">>,
      Proxy(-2, <<"[", "1", ":", ":", "]">>, 1)),
    W(<<"proxy", "_for", " ", "1", "lf", "a", ":", "1", ";">>, Bad),
    W(<<"proxy", " ", "lf", "a", ":", "1", ";">>, Bad),
    W(<<"default", " ", "2", ";">>, [op |-> "default", dc |-> 2]),
    W(<<"default", " ", "-", ";">>, Bad),
    W(<<"max_connections", " ", "1", "2", " ", ";">>, [op |-> "max", n |-> 12]),
    W(<<"proxy", " ", "a", ":", "1">>, Bad) }
Blanks == {<<>>, <<"lf">>, <<"#", ";", "lf", " ">>, <<"tab", "#", "#", "lf", "lf">>}

\* Requests of every version and of none, and headers the parser knows, does not know or refuses.
Get == <<"GE", "T", " ", "/", "stats">>
Requests ==
  { Get, Get \o <<" ", "V11">>, Get \o <<" ", "junk">>, Get \o <<" ", "V11", " ", "junk">>,
    <<"GE", "T", " ", "a", " ", " ", "V10">>, <<"POST", " ", "a", " ", "V11">> }
Headers ==
  { <<"connection", ":", " ", "keep", "alive">>, <<"host", ":", " ", "keep", "alive">>,
    <<"connection", ":">>, <<"a", ":", "tab", "a", " ", ":">>, <<"a", ":", "cr", "a">>,
    <<"content", "length", ":", "1">>, <<"content", "length", ":", "0">>,
    <<"content", "length", ":", " ", "1", "1", "1">> }

\* Days since 1970 around the ends of years and of Februaries, leap years among them.
FirstDays == {0, 58, 59, 364, 365, 729, 788, 789, 790, 1095, 1096, 1460, 1461, 10956, 10957,
              11015, 11016, 11017, 21915, 24836}

\* Three messages in buffers of two and four bytes.
Raw == INSTANCE RawMsg WITH
  Msg <- Msgs, Sizes <- {2, 4}, Small <- 2, Std <- 4, Reserve <- 1, Block <- 2,
  MaxPush <- 3, MaxByte <- 5, MaxPart <- 10, MaxOps <- 4,
  heap <- x1, msg <- x2, val <- x3, ops <- x4

\* Chunks of two buffers.
Buf == INSTANCE MsgBuffers WITH
  Thread <- {1, 2}, Chunk <- 1 .. 3, tot_buffers <- 2, max_buffer_chunks <- 1,
  list <- x1, allocated <- x2, head <- x3, lock <- x4, free <- x5, queue <- x6, held <- x7,
  save <- x8, th <- x9

\* Five buffers in a tree of eight leaves; odd and even sizes.
Tree == INSTANCE BufferTree WITH
  two_power <- 8, tot_buffers <- 5, Width <- 14, Steps <- {4, 6, 20, 33, 72, 129, 528},
  free_cnt <- x1, used <- x2, last <- x3

Heap == INSTANCE TimerHeap WITH
  Timer <- 1 .. 5, MaxTime <- 2,
  et_heap <- x1, h_idx <- x2, wakeup_time <- x3

\* Connections of both kinds and a listening socket.
Evs == INSTANCE EventLoop WITH
  Fd <- 1 .. 5, Prio <- Priority,
  ev_heap <- x1, in_queue <- x2, age <- x3, live <- x4, epoll <- x5, term <- x6, pc <- x7

Strm == INSTANCE TcpStream WITH
  Kinds <- Transports, Bodies <- {2, 4}, MaxPackets <- 2, Word <- 2, Block <- 4,
  HeaderLen <- 3, CcsLen <- 2, RecLen <- 2, MaxRec <- 5, SkipLen <- 4, MaxShort <- 1,
  kind <- x1, sent <- x2, next <- x3, hello <- x4, wire <- x5, c <- x6

\* Randoms are named by the time in them; the last was made without the secret.
Rand == INSTANCE ClientRandoms WITH
  Random <- {0, 1, 2, 6}, Bucket <- Half, Ts <- Stamp, Good <- Made, Cache <- 4, Error <- 2,
  Skew <- 1, MaxTime <- 7,
  now <- x1, byTime <- x2, byHash <- x3, accepted <- x4, twice <- x5

\* Domains around the longest that fits; messages that end around every field.  A small field
\* for the keys, of the same form: 29 is 5 modulo 8, and 6^2 - 4 is no square.
Tls == INSTANCE TlsHello WITH
  DomainLen <- {0, 1, 20, 215, 216, 217, 218, 219}, Numbers <- {0, 2, 5, 6, 7},
  Lens <- {77, 78, 82, 86, 87, 90, 92, 93}, P <- 29, A <- 6,
  x <- x1, out <- x2, key <- x3, coordinate <- x4, left <- x5

Prb == INSTANCE DomainProbe WITH
  Tries <- 2, Hdr <- 2, Mid <- 1, Sizes <- {2, 5, 6}, MaxShort <- 100,
  srv <- x1, s <- x2, rd <- x3, wr <- x4, i <- x5, err <- x6, late <- x7, acc <- x8,
  info <- x9, pc <- x10

Conf == INSTANCE NativeConfig WITH
  MaxFile <- 4, Dc <- {0, 1, 2}, Limit <- {2, 3, 6}, MAX_CFG_CLUSTERS <- 3,
  MAX_CFG_TARGETS <- 3, default_cfg_min_connections <- 4, default_cfg_max_connections <- 8,
  file <- x1, pc <- x2, pass <- x3, MC <- x4, Cur <- x5, failed <- x6, why <- x7

Lex == INSTANCE ConfigLexer WITH
  Written <- Directives, Blank <- Blanks, MaxFile <- 2, MaxHost <- 5,
  written <- x1, buff <- x2, cfg_cur <- x3, cfg_lno <- x4, out <- x5, pass <- x6,
  error <- x7

Shake == INSTANCE RpcHandshake WITH
  ClientPerms <- CPerms, ServerPerms <- SPerms, MaxData <- 1,
  cfg <- x1, e <- x2, wire <- x3, pid <- x4

\* The server, and its clock.
Http == INSTANCE HttpServer WITH
  MaxHeader <- 25, MaxWord <- 3, MaxTenth <- 11, FirstLines <- Requests, Lines <- Headers,
  Eols <- {<<"cr", "lf">>}, MaxLines <- 2, Sizes <- {1, 3, 40},
  Days <- FirstDays, Seconds <- {0, 86399}, Ticks <- {0, 1, 86400}, MaxTicks <- 6,
  reqs <- x1, text <- x2, base <- x3, pos <- x4, D <- x5, answers <- x6, open <- x7,
  env <- x8,
  now <- x1, ticks <- x2, dd1 <- x3, now_date_utime <- x4, now_date_string <- x5, back <- x6

\* What a part has no use for stays 0.
I9 == x10 = 0
I8 == x9 = 0 /\ I9
I7 == x8 = 0 /\ I8
I6 == x7 = 0 /\ I7
I5 == x6 = 0 /\ I6
I4 == x5 = 0 /\ I5
I3 == x4 = 0 /\ I4
I2 == x3 = 0 /\ I3
U9 == UNCHANGED x10
U8 == UNCHANGED x9 /\ U9
U7 == UNCHANGED x8 /\ U8
U6 == UNCHANGED x7 /\ U7
U5 == UNCHANGED x6 /\ U6
U4 == UNCHANGED x5 /\ U5
U3 == UNCHANGED x4 /\ U4
U2 == UNCHANGED x3 /\ U3

Init ==
  /\ part \in PartNames
  /\ \/ part = "message"   /\ Raw!Init /\ I4
     \/ part = "buffers"   /\ Buf!Init /\ I9
     \/ part = "tree"      /\ Tree!Init /\ I3
     \/ part = "heap"      /\ Heap!Init /\ I3
     \/ part = "events"    /\ Evs!Init /\ I7
     \/ part = "stream"    /\ Strm!Init /\ I6
     \/ part = "randoms"   /\ Rand!Init /\ I5
     \/ part = "hello"     /\ Tls!Init /\ I2
     \/ part = "keyshare"  /\ Tls!KeyInit /\ x1 = 0 /\ x2 = 0 /\ I5
     \/ part = "probe"     /\ Prb!Init
     \/ part = "config"    /\ Conf!Init /\ I7
     \/ part = "lexer"     /\ Lex!Init /\ I7
     \/ part = "handshake" /\ Shake!Init /\ I4
     \/ part = "http"      /\ Http!Init /\ I8
     \/ part = "date"      /\ Http!DateInit /\ I6

Only(p) == part = p /\ UNCHANGED part

Next ==
  \/ Only("message")   /\ Raw!Next /\ U4
  \/ Only("buffers")   /\ Buf!Next /\ U9
  \/ Only("tree")      /\ Tree!Next /\ U3
  \/ Only("heap")      /\ Heap!Next /\ U3
  \/ Only("events")    /\ Evs!Next /\ U7
  \/ Only("stream")    /\ Strm!Next /\ U6
  \/ Only("randoms")   /\ Rand!Next /\ U5
  \/ Only("hello")     /\ Tls!Next /\ U2
  \/ Only("keyshare")  /\ Tls!KeyNext /\ UNCHANGED <<x1, x2>> /\ U5
  \/ Only("probe")     /\ Prb!Next
  \/ Only("config")    /\ Conf!Next /\ U7
  \/ Only("lexer")     /\ Lex!Next /\ U7
  \/ Only("handshake") /\ Shake!Next /\ U4
  \/ Only("http")      /\ Http!Next /\ U8
  \/ Only("date")      /\ Http!DateNext /\ U6

Spec == Init /\ [][Next]_vars

\* The messages are interchangeable.
Symm == Permutations(Msgs)

(***************************************************************************)
(* The properties of the parts, by the names they have there.              *)
(***************************************************************************)
\* RawMsg, MsgBuffers: messages hold what was put into them, in parts and buffers that are
\* counted right; a buffer is in one place, and comes back.
MessagesSound ==
  /\ part = "message" => Raw!MessagesSound
  /\ part = "buffers" => Buf!BuffersSound
\* BufferTree, TimerHeap, EventLoop: the tree of free buffers, the heap of timers and the heap of
\* events know where everything is and what comes first.
HeapsExact ==
  /\ part = "tree" => Tree!TreeExact
  /\ part = "heap" => Heap!HeapExact
  /\ part = "events" => Evs!EventsExact
\* ClientRandoms, TlsHello, DomainProbe: no hello is let in twice; hellos are written and read
\* consistently, with keys of the right form; and the probe sees what servers answer.
TlsExact ==
  /\ part = "randoms" => Rand!RandomsExact
  /\ part = "hello" => Tls!HelloExact
  /\ part = "keyshare" => Tls!KeyIsEightfold
  /\ part = "probe" => Prb!ProbeExact
\* NativeConfig, ConfigLexer: the file is read as written, and followed.
ConfigExact ==
  /\ part = "config" => Conf!ClustersExact
  /\ part = "lexer" => Lex!LexerExact
\* HttpServer: requests are answered as they are worth, with the right date.
HttpExact ==
  /\ part = "http" => Http!AnswersRight
  /\ part = "date" => Http!DatesExact
=============================================================================
