----------------------------- MODULE ExtAccept ------------------------------
(***************************************************************************)
(* How the original program finds out what a client speaks                 *)
(* (net/net-tcp-rpc-ext-server.c).  A client of the proxy sends a header   *)
(* made with a secret, possibly inside TLS after a hello made with it too; *)
(* anybody else is passed on to a web server (proxy_connection) and never  *)
(* sees a difference: both ends of such a pair hand on what they read, and *)
(* fail together.                                                          *)
(*                                                                         *)
(* One client (C) and the connection to the web server it may get (E).  A  *)
(* message of the client is so many units; what matters of its contents    *)
(* was chosen at the start (cl).  The connection thread and the engine     *)
(* thread, which handles ready and close events, are one if Multi is FALSE *)
(* and take their jobs from one queue then.                                *)
(***************************************************************************)
EXTENDS Integers, Sequences, FiniteSets

CONSTANTS Secret,                 \* numbers of secrets, from 1
          MinLen, HelloLen, CcsLen, HeaderLen,
          SkipLen,                \* the 2^28 bytes of global skip mode
          MaxUnits,               \* bound: what a client sends
          Multi

VARIABLES cfg,    \* domains configured, resolved; secrets configured
          cl,     \* what the client sends
          rcv,    \* units received so far, all in order
          pos,    \* units taken out of c->in
          c,      \* connection C
          e,      \* connection E
          fwd,    \* units handed to the web server
          q, evs, \* jobs in the queue; events of C to be handled
          cnt     \* open connections of each secret

vars == <<cfg, cl, rcv, pos, c, e, fwd, q, evs, cnt>>

\* A hello may be refused before its secret is known (no such domain, port 80, too much data,
\* a random seen before, no secret fits) or after (its timestamp or its ciphers).
Hellos == {"refused", "late", "ok"}
Clients == [first : {"hello"}, is : Hellos, ccs : BOOLEAN, tag : {"pad", "other"}, s : Secret \cup {0}]
           \cup [first : {"header"}, tag : {"pad", "other"}, s : Secret \cup {0}]

\* init_accepted: tcp_rpcs_ext_init_accepted sets the timer, and the ready event is on
\* its way.  allow_only_tls is set by the first domain.
Init ==
  /\ cfg \in [domains : BOOLEAN, resolved : BOOLEAN, secrets : SUBSET Secret] /\ cl \in Clients
  /\ rcv = 0 /\ pos = 0 /\ fwd = {} /\ cnt = [s \in Secret |-> 0]
  /\ c = [type |-> "ext", extra |-> "functions", num |-> -3, tls |-> FALSE, skip |-> 0,
          timer |-> TRUE, sid |-> 0, counted |-> FALSE, err |-> FALSE, st |-> "open"]
  /\ e = [st |-> "none", extra |-> FALSE, err |-> FALSE]
  /\ q = <<"notify">> /\ evs = <<"ready">>

Queued(j) == \E i \in DOMAIN q : q[i] = j
Enqueue(j) == IF Queued(j) THEN q ELSE Append(q, j)
\* One thread takes the first job, threads of their own any.
Taken(j) ==
  /\ Queued(j)
  /\ LET i == CHOOSE i \in DOMAIN q : q[i] = j
     IN  (Multi \/ i = 1) /\ q' = SubSeq(q, 1, i - 1) \o SubSeq(q, i + 1, Len(q))

(***************************************************************************)
(* The parser.  An outcome holds what changes: the connection, the units   *)
(* taken, the counters, and whether the connection is to be passed on.     *)
(***************************************************************************)
In == rcv - pos
Out(d, p, n, to) == [c |-> d, pos |-> p, cnt |-> n, to |-> to]
Need(d, p, n) == Out([d EXCEPT !.skip = n], p, cnt, "none")
Fail(d, p) == Out([d EXCEPT !.err = TRUE], p, cnt, "none")

\* mtfront_on_secret_connection_open, once for a connection.
Opened(d, s) == IF cfg.secrets = {} THEN d ELSE [d EXCEPT !.sid = s, !.counted = TRUE]
Counted(d, s) == IF d.counted \/ cfg.secrets = {} THEN cnt ELSE [cnt EXCEPT ![s] = @ + 1]

\* The hello: the domain, the port, its length, its random, its timestamp, its ciphers.
Known(s) == s \in cfg.secrets
Hello_Taken(d) ==
  IF In < HelloLen THEN Need(d, pos, HelloLen - In)
  ELSE IF cl.is = "refused" \/ In > HelloLen \/ ~Known(cl.s)
  THEN Out(d, pos, cnt, "web")
  ELSE IF cl.is = "late" THEN Out(Opened(d, cl.s), pos + HelloLen, Counted(d, cl.s), "web")
  ELSE Out([Opened(d, cl.s) EXCEPT !.tls = TRUE, !.skip = CcsLen], pos + HelloLen, Counted(d, cl.s), "none")
Hello(d) ==
  IF In < HelloLen THEN Need(d, pos, HelloLen - In)
  ELSE IF cl.is = "refused" \/ In > HelloLen \/ ~Known(cl.s)
  THEN Out(d, pos, cnt, "web")
  ELSE IF cl.is = "late" THEN Out(Opened(d, cl.s), pos, Counted(d, cl.s), "web")
  ELSE Out([Opened(d, cl.s) EXCEPT !.tls = TRUE, !.skip = CcsLen], pos + HelloLen, Counted(d, cl.s), "none")

\* The header: with no secret configured any will do.  The loop goes on with the packets
\* behind it.
Header(d, p) ==
  LET fits == cfg.secrets = {} \/ Known(cl.s) IN
  IF rcv - p < HeaderLen THEN Need(d, p, HeaderLen - (rcv - p))
  ELSE IF ~fits THEN Out([d EXCEPT !.skip = 0 - SkipLen], p, cnt, "none")
  ELSE IF cl.tag # "pad" /\ cfg.domains THEN Out(d, p, cnt, "web")
  ELSE Out([Opened(d, cl.s) EXCEPT !.num = 0, !.timer = FALSE], rcv, Counted(d, cl.s), "none")

\* Inside TLS: the client's ChangeCipherSpec and its first record, whole.
Ccs(d) ==
  IF In < CcsLen THEN Need(d, pos, CcsLen - In)
  ELSE IF ~cl.ccs THEN Fail(d, pos)
  ELSE IF In < CcsLen + HeaderLen THEN Need(d, pos, CcsLen + HeaderLen - In)
  ELSE Header(d, pos + CcsLen)

\* tcp_rpcs_compact_parse_execute.
Packets(d) == Out([d EXCEPT !.timer = FALSE], rcv, cnt, "none")
Parse(d) ==
  IF d.num = 0 THEN Packets(d)
  ELSE IF In < MinLen THEN Need(d, pos, MinLen - In)
  ELSE IF d.tls THEN Ccs(d)
  ELSE IF cl.first = "hello" /\ cfg.secrets # {} /\ cfg.domains THEN Hello(d)
  ELSE IF cfg.domains THEN Out(d, pos, cnt, "web")
  ELSE Header(d, pos)

(***************************************************************************)
(* Passing on.                                                             *)
(***************************************************************************)
\* proxy_connection: o is the outcome so far; made tells whether a socket and a
\* connection could be had.
Closed(d, n) == IF d.counted /\ d.sid # 0 THEN [n EXCEPT ![d.sid] = @ - 1] ELSE n
proxy_connection(o, made) ==
  /\ cnt' = Closed(o.c, o.cnt)
  /\ IF cfg.resolved /\ made
     THEN /\ c' = [o.c EXCEPT !.type = "pass", !.extra = "E", !.counted = FALSE]
          /\ e' = [st |-> "open", extra |-> TRUE, err |-> FALSE]
          /\ fwd' = fwd \cup (o.pos + 1 .. rcv) /\ pos' = rcv
     ELSE c' = [o.c EXCEPT !.err = TRUE, !.counted = FALSE] /\ pos' = o.pos /\ UNCHANGED <<e, fwd>>

\* tcp_proxy_pass_parse_execute: all there is goes to the other end.
Pass(d, p) ==
  IF d.extra # "E" THEN c' = [d EXCEPT !.err = TRUE] /\ pos' = p /\ UNCHANGED <<e, fwd, cnt>>
  ELSE c' = d /\ pos' = rcv /\ fwd' = fwd \cup (p + 1 .. rcv) /\ UNCHANGED <<e, cnt>>

(***************************************************************************)
(* The connection thread.                                                  *)
(***************************************************************************)
\* Bytes arrive and the connection is signalled.
Receive ==
  /\ c.st = "open" /\ ~c.err /\ rcv < MaxUnits /\ rcv' \in rcv + 1 .. MaxUnits
  /\ q' = Enqueue("conn") /\ UNCHANGED <<cfg, cl, pos, c, e, fwd, evs, cnt>>

\* cpu_tcp_server_reader.
Skipped == IF c.skip < 0 THEN IF In < 0 - c.skip THEN In ELSE 0 - c.skip ELSE 0
Read ==
  /\ Taken("conn") /\ UNCHANGED <<cfg, cl, rcv, evs>>
  /\ IF c.err \/ In = 0 THEN UNCHANGED <<c, e, fwd, cnt, pos>>
     ELSE IF c.skip < 0
     THEN /\ pos' = pos + Skipped /\ c' = [c EXCEPT !.skip = @ + Skipped] /\ UNCHANGED <<e, fwd, cnt>>
     ELSE IF In < c.skip THEN UNCHANGED <<c, e, fwd, cnt, pos>>
     ELSE LET d == [c EXCEPT !.skip = 0] IN
          IF c.type = "pass" THEN Pass(d, pos)
          ELSE LET o == Parse(d)
               IN  IF o.to = "web" THEN \E made \in BOOLEAN : proxy_connection(o, made)
                   ELSE c' = o.c /\ pos' = o.pos /\ cnt' = o.cnt /\ UNCHANGED <<e, fwd>>

\* tcp_rpcs_ext_alarm: ten seconds and no header.
Alarm ==
  /\ c.timer /\ c.st = "open" /\ (Multi \/ q = <<>>)
  /\ IF ~c.err /\ c.type = "ext" /\ c.num = -3 /\ cfg.domains
     THEN \E made \in BOOLEAN :
            proxy_connection(Out([c EXCEPT !.timer = FALSE], pos, cnt, "web"), made)
     ELSE c' = [c EXCEPT !.timer = FALSE] /\ UNCHANGED <<e, fwd, cnt, pos>>
  /\ UNCHANGED <<cfg, cl, rcv, q, evs>>

\* The peer closes, or the socket fails.
Break ==
  /\ \/ c.st = "open" /\ ~c.err /\ c' = [c EXCEPT !.err = TRUE] /\ e' = e
     \/ e.st = "open" /\ ~e.err /\ e' = [e EXCEPT !.err = TRUE] /\ c' = c
  /\ UNCHANGED <<cfg, cl, rcv, pos, fwd, q, evs, cnt>>

\* JS_ABORT: tcp_rpcs_close_connection or tcp_proxy_pass_close, by the type it has then.
CloseC ==
  /\ c.st = "open" /\ c.err
  /\ IF c.type = "ext" THEN evs' = Append(evs, "close") /\ q' = Enqueue("notify")
                       ELSE UNCHANGED <<evs, q>>
  /\ c' = [c EXCEPT !.st = "closed", !.timer = FALSE, !.extra = IF @ = "E" THEN "none" ELSE @]
  /\ e' = IF c.extra = "E" THEN [e EXCEPT !.err = TRUE] ELSE e
  /\ UNCHANGED <<cfg, cl, rcv, pos, fwd, cnt>>
CloseE ==
  /\ e.st = "open" /\ e.err /\ e' = [e EXCEPT !.st = "closed", !.extra = FALSE]
  /\ c' = [c EXCEPT !.err = TRUE]
  /\ UNCHANGED <<cfg, cl, rcv, pos, fwd, q, evs, cnt>>

\* JS_FINISH, when the other end, the queues and the events have let go.
FreeC ==
  /\ c.st = "closed" /\ ~e.extra /\ evs = <<>> /\ ~Queued("conn")
  /\ c' = [c EXCEPT !.st = "freed"] /\ UNCHANGED <<cfg, cl, rcv, pos, e, fwd, q, evs, cnt>>
FreeE ==
  /\ e.st = "closed" /\ c.extra # "E"
  /\ e' = [e EXCEPT !.st = "freed"] /\ UNCHANGED <<cfg, cl, rcv, pos, c, fwd, q, evs, cnt>>

(***************************************************************************)
(* The engine thread: notification_event_run, mtproto_ext_rpc_ready and    *)
(* mtproto_ext_rpc_close.                                                  *)
(***************************************************************************)
Notify ==
  /\ Taken("notify") /\ evs' = <<>>
  /\ LET close == \E i \in DOMAIN evs : evs[i] = "close" IN
     /\ cnt' = IF close THEN Closed(c, cnt) ELSE cnt
     /\ c' = IF close THEN [c EXCEPT !.counted = FALSE, !.sid = 0] ELSE c
  /\ UNCHANGED <<cfg, cl, rcv, pos, e, fwd>>

Work == Read \/ CloseC \/ CloseE \/ FreeC \/ FreeE \/ Notify
Next == Work \/ Receive \/ Alarm \/ Break
Spec == Init /\ [][Next]_vars
\* Threads take their jobs, the timer goes off.
Fairness == WF_vars(Work) /\ WF_vars(Alarm)
FairSpec == Spec /\ Fairness

(***************************************************************************)
(* Properties.                                                             *)
(***************************************************************************)
\* Type invariant.
TypeOK == /\ pos \in 0 .. rcv /\ rcv \in 0 .. MaxUnits /\ fwd \subseteq 1 .. MaxUnits
          /\ c.type \in {"ext", "pass"} /\ c.skip \in (0 - SkipLen) .. MaxUnits
          /\ \A s \in Secret : cnt[s] \in 0 .. 1

\* A client that was not answered as one of ours reaches the web server from its first
\* byte and without a gap: nothing was taken out of its stream before it was passed on.
Transparent == c.type = "pass" /\ ~c.tls /\ c.num = -3 => fwd = 1 .. pos

\* With domains configured nobody is served outside TLS or without padding.
OnlyTls == c.num = 0 /\ cfg.domains => c.tls /\ cl.tag = "pad"

\* A secret's open connections are counted once each, and when a connection is freed it
\* counts no more, whichever way it went: closed by the engine, or passed on.
SecretsBalanced ==
  /\ \A s \in Secret : cnt[s] = IF c.counted /\ c.sid = s THEN 1 ELSE 0
  /\ c.st = "freed" => ~c.counted

\* Events find the functions they call: TCP_RPCC_FUNC is c->extra, where
\* proxy_connection puts the other connection.  With one thread the ready event is
\* handled first, and a connection passed on has no close event.
EventsFindFunctions == ~Multi /\ evs # <<>> /\ q # <<>> /\ q[1] = "notify" => c.extra = "functions"

\* Neither end outlives the other, and no reference between them keeps both.
PairFreed == c.err \/ e.err ~> c.st = "freed" /\ e.st \in {"none", "freed"}

\* With domains configured every client is decided on: known, passed on or closed.
Decided == cfg.domains ~> c.num = 0 \/ c.type = "pass" \/ c.err

\* A client is served, or passed on unseen, as the configuration says, and counted for its secret.
AcceptSafe == TypeOK /\ Transparent /\ OnlyTls /\ SecretsBalanced /\ (~Multi => EventsFindFunctions)
=============================================================================
