------------------------------ MODULE Targets ------------------------------
(***************************************************************************)
(* Outbound connections of the original program (net/net-connections.c):   *)
(* the target, which keeps a number of connections to one data centre open, *)
(* and for each connection the job that owns it and the job of its socket. *)
(*                                                                         *)
(* A target and its epoll descriptors belong to the main thread, a socket  *)
(* to an I/O thread, a connection to a CPU thread; with Multithread FALSE  *)
(* (the default) one thread is all three.  Jobs are signalled and          *)
(* referenced as in AsyncJob: here a job is its set of pending signals, a  *)
(* handler is an action, and a job is freed when nothing refers to it.     *)
(* Targets for one address only: the hash table is one slot.               *)
(***************************************************************************)
EXTENDS Naturals, Integers, FiniteSets

CONSTANTS Conn,         \* bound: connections made, 1 .. n
          Tgt,          \* bound: targets made, 1 .. n
          MinC, MaxC,   \* min_connections, max_connections
          MaxUses,      \* bound: configurations that name the address
          Multithread

VARIABLES c,      \* connection_info
          s,      \* socket_connection_info
          t,      \* conn_target_info
          table,  \* HTarget: the target of the address, or 0
          uses    \* calls of create_target so far

vars == <<c, s, t, table, uses>>

NewC == [kind |-> "none", tgt |-> 0, link |-> FALSE, tree |-> FALSE, io |-> FALSE,
         err |-> FALSE, failed |-> FALSE, pending |-> FALSE, conn |-> FALSE,
         st |-> "connecting", sigs |-> {}, run |-> FALSE]
NewS == [kind |-> "none", err |-> FALSE, conn |-> FALSE, ev |-> FALSE, sigs |-> {}]
NewT == [kind |-> "none", global_refcnt |-> 0, active |-> 0, outbound |-> 0,
         timer |-> FALSE, completed |-> FALSE, sigs |-> {}]

Init == /\ c = [i \in Conn |-> NewC] /\ s = [i \in Conn |-> NewS]
        /\ t = [j \in Tgt |-> NewT] /\ table = 0 /\ uses = 0

\* With one thread nothing happens while a connection's JS_RUN is handled.
Free == Multithread \/ \A i \in Conn : ~c[i].run

Tree(C, j) == {i \in Conn : C[i].tree /\ C[i].tgt = j}
Active(x) == x.conn /\ ~x.pending

\* fail_connection: only the first call has an effect.
Failed(x) == IF x.err THEN x
             ELSE [x EXCEPT !.err = TRUE, !.st = "error", !.sigs = @ \cup {"ABORT"}]
FailAll(C, I) == [i \in Conn |-> IF i \in I THEN Failed(C[i]) ELSE C[i]]

(***************************************************************************)
(* The target.                                                             *)
(***************************************************************************)
\* create_target: the target in the table, or a new one.
create_target ==
  /\ Free /\ uses < MaxUses /\ uses' = uses + 1
  /\ \/ /\ table # 0 /\ t' = [t EXCEPT ![table].global_refcnt = @ + 1] /\ table' = table
     \/ /\ table = 0
        /\ \E j \in Tgt : /\ t[j].kind = "none" /\ (\A k \in Tgt : k < j => t[k].kind # "none")
                          /\ table' = j
                          /\ t' = [t EXCEPT ![j] = [NewT EXCEPT !.kind = "live",
                                     !.global_refcnt = 1, !.sigs = {"RUN"}]]
  /\ UNCHANGED <<c, s>>

destroy_target(j) ==
  /\ Free /\ t[j].global_refcnt > 0
  /\ t' = [t EXCEPT ![j].global_refcnt = @ - 1,
                    ![j].sigs = IF t[j].global_refcnt = 1 THEN @ \cup {"RUN"} ELSE @]
  /\ UNCHANGED <<c, s, table, uses>>

\* destroy_dead_target_connections.
Dead(j) == {i \in Tree(c, j) : c[i].err}
Buried(j) == [i \in Conn |-> IF i \in Dead(j) THEN [c[i] EXCEPT !.tree = FALSE] ELSE c[i]]
Counted(j) ==
  [t[j] EXCEPT !.active = @ - Cardinality({i \in Dead(j) : Active(c[i])}),
               !.outbound = @ - Cardinality(Dead(j))]

\* create_new_connections: check_ready may fail connections (F) that took too long to
\* get ready; up to need_c are opened, fewer when a socket cannot be made or it is
\* too early for that (next_reconnect).
Opened(j, F, I) ==
  /\ c' = [i \in Conn |-> IF i \in I
             THEN [NewC EXCEPT !.kind = "live", !.tgt = j, !.link = TRUE, !.tree = TRUE,
                               !.io = TRUE]
             ELSE FailAll(Buried(j), F)[i]]
  /\ s' = [i \in Conn |-> IF i \in I THEN [NewS EXCEPT !.kind = "live", !.ev = TRUE]
                                     ELSE s[i]]

Unused == {i \in Conn : c[i].kind = "none"}
Fresh(n) == {i \in Unused : Cardinality({k \in Unused : k <= i}) <= n}

Room(j, F) ==
  (IF MinC + Cardinality(F) < MaxC THEN MinC + Cardinality(F) ELSE MaxC) - Counted(j).outbound

\* do_conn_target_job on JS_RUN or JS_ALARM (sig), in use.
TargetServe(j, sig) ==
  /\ t[j].global_refcnt > 0
  /\ \E F \in SUBSET (Tree(c, j) \ Dead(j)) :
     \E n \in 0 .. Cardinality(Unused) :
       /\ n = 0 \/ n <= Room(j, F)
       /\ Opened(j, F, Fresh(n))
       /\ t' = [t EXCEPT ![j] = [Counted(j) EXCEPT !.outbound = @ + n, !.timer = TRUE,
                                                   !.sigs = @ \ {sig}]]
  /\ table' = table

\* ... unused: its connections are failed; or, with none left, free_target takes it
\* out of the table and the job is completed.
TargetClean_NoTimer(j, sig) ==
  /\ t[j].global_refcnt = 0 /\ s' = s
  /\ LET left == Tree(Buried(j), j) IN
     /\ c' = FailAll(Buried(j), left)
     /\ t' = [t EXCEPT ![j] = [Counted(j) EXCEPT !.sigs = @ \ {sig}, !.timer = FALSE,
                                                 !.completed = @ \/ left = {}]]
     /\ table' = IF left = {} /\ ~t[j].completed THEN 0 ELSE table
TargetClean(j, sig) ==
  /\ t[j].global_refcnt = 0 /\ s' = s
  /\ LET left == Tree(Buried(j), j) IN
     /\ c' = FailAll(Buried(j), left)
     /\ t' = [t EXCEPT ![j] = [Counted(j) EXCEPT !.sigs = @ \ {sig},
                                                 !.timer = left # {},
                                                 !.completed = @ \/ left = {}]]
     /\ table' = IF left = {} /\ ~t[j].completed THEN 0 ELSE table

do_conn_target_job(j) ==
  /\ Free /\ t[j].kind = "live" /\ uses' = uses
  /\ \/ "RUN" \in t[j].sigs /\ (TargetServe(j, "RUN") \/ TargetClean(j, "RUN"))
     \/ t[j].timer /\ (TargetServe(j, "ALARM") \/ TargetClean(j, "ALARM"))

\* JS_FINISH: nothing refers to the target.
TargetFinish(j) ==
  /\ Free /\ t[j].kind = "live" /\ t[j].completed /\ t[j].sigs = {}
  /\ t[j].global_refcnt = 0 /\ (\A i \in Conn : c[i].link => c[i].tgt # j)
  /\ t' = [t EXCEPT ![j] = [NewT EXCEPT !.kind = "gone"]] /\ UNCHANGED <<c, s, table, uses>>

(***************************************************************************)
(* Sockets.                                                                *)
(***************************************************************************)
\* net_server_socket_read_write_gateway: epoll has something for the socket.
Gateway(i, sig) ==
  /\ Free /\ s[i].ev /\ s' = [s EXCEPT ![i].sigs = @ \cup {sig}]
  /\ UNCHANGED <<c, t, table, uses>>

\* do_socket_connection_job, JS_RUN: the connection is established, data is read and
\* left for the connection, or reading or writing fails.
SocketRun(i, data, fatal) ==
  /\ Free /\ s[i].kind = "live" /\ "RUN" \in s[i].sigs /\ "ABORT" \notin s[i].sigs
  /\ IF s[i].err
       THEN s' = [s EXCEPT ![i].sigs = @ \ {"RUN"}] /\ c' = c
       ELSE /\ s' = [s EXCEPT ![i].conn = TRUE,
                              ![i].sigs = IF fatal THEN {"ABORT"} ELSE @ \ {"RUN"}]
            /\ c' = [c EXCEPT ![i].conn = TRUE,
                              ![i].pending = IF s[i].conn THEN @ ELSE TRUE,
                              ![i].sigs = IF s[i].conn /\ ~data THEN @ ELSE @ \cup {"RUN"}]
  /\ UNCHANGED <<t, table, uses>>

\* JS_ABORT: fail_socket_connection.
SocketAbort(i) ==
  /\ Free /\ s[i].kind = "live" /\ "ABORT" \in s[i].sigs
  /\ s' = [s EXCEPT ![i].sigs = @ \ {"ABORT"}, ![i].err = TRUE, ![i].ev = FALSE]
  /\ c' = IF s[i].err THEN c ELSE FailAll(c, {i})
  /\ UNCHANGED <<t, table, uses>>

\* JS_FINISH, when neither the connection nor the event refers to it:
\* net_server_socket_free.
SocketUnreferenced(i) == ~c[i].io /\ ~s[i].ev /\ s[i].sigs = {}
SocketFree(i) ==
  /\ Free /\ s[i].kind = "live" /\ SocketUnreferenced(i)
  /\ s' = [s EXCEPT ![i] = [NewS EXCEPT !.kind = "gone"]] /\ c' = FailAll(c, {i})
  /\ UNCHANGED <<t, table, uses>>

(***************************************************************************)
(* Connections.                                                            *)
(***************************************************************************)
\* fail_connection by other code: a bad packet, a timeout, no use.
fail_connection(i) ==
  /\ Free /\ c[i].kind = "live" /\ ~c[i].err /\ c' = FailAll(c, {i})
  /\ UNCHANGED <<s, t, table, uses>>

\* do_connection_job, JS_RUN: C_ERROR is looked at, then the connection
\* becomes ready and its reader and writer run, which may leave output for the socket.
ConnRun(i) ==
  /\ Free /\ c[i].kind = "live" /\ "RUN" \in c[i].sigs /\ "ABORT" \notin c[i].sigs
  /\ ~c[i].run
  /\ c' = [c EXCEPT ![i].sigs = @ \ {"RUN"}, ![i].run = ~c[i].err]
  /\ UNCHANGED <<s, t, table, uses>>

Ready(i, out) ==
  /\ c[i].run /\ s' = [s EXCEPT ![i].sigs = IF out /\ c[i].io THEN @ \cup {"RUN"} ELSE @]
  /\ c' = [c EXCEPT ![i].run = FALSE, ![i].pending = FALSE,
                    ![i].st = IF c[i].pending /\ @ = "connecting" THEN "working" ELSE @]
  /\ t' = IF c[i].pending /\ c[i].link THEN [t EXCEPT ![c[i].tgt].active = @ + 1] ELSE t
  /\ UNCHANGED <<table, uses>>

\* JS_ABORT: the connection lets go of its socket and of its target.
cpu_server_close_connection(i) ==
  /\ Free /\ c[i].kind = "live" /\ "ABORT" \in c[i].sigs /\ ~c[i].run
  /\ c' = [c EXCEPT ![i].sigs = @ \ {"ABORT"}, ![i].failed = TRUE, ![i].io = FALSE,
                    ![i].link = FALSE]
  /\ s' = [s EXCEPT ![i].sigs = @ \cup {"ABORT"}]
  /\ t' = [t EXCEPT ![c[i].tgt].sigs = @ \cup {"RUN"}]
  /\ UNCHANGED <<table, uses>>

\* JS_FINISH, when neither the tree nor the socket refers to it: the descriptor is
\* closed (cpu_server_free_connection).
Unreferenced(i) == ~c[i].tree /\ s[i].kind # "live" /\ c[i].sigs = {} /\ ~c[i].run
ConnFree(i) ==
  /\ Free /\ c[i].kind = "live" /\ Unreferenced(i)
  /\ c' = [c EXCEPT ![i] = [NewC EXCEPT !.kind = "gone"]] /\ UNCHANGED <<s, t, table, uses>>

TargetStep(j) == do_conn_target_job(j) \/ TargetFinish(j)
SocketStep(i) == \/ \E data, fatal \in BOOLEAN : SocketRun(i, data, fatal)
                 \/ SocketAbort(i) \/ SocketFree(i)
ConnStep(i)   == \/ ConnRun(i) \/ (\E out \in BOOLEAN : Ready(i, out)) \/ cpu_server_close_connection(i) \/ ConnFree(i)

Next ==
  \/ create_target \/ \E j \in Tgt : destroy_target(j) \/ TargetStep(j)
  \/ \E i \in Conn : \/ SocketStep(i) \/ ConnStep(i) \/ fail_connection(i)
                     \/ \E sig \in {"RUN", "ABORT"} : Gateway(i, sig)

Spec == Init /\ [][Next]_vars

\* Threads handle signals, timers go off.
Fairness == /\ \A j \in Tgt : WF_vars(TargetStep(j))
            /\ \A i \in Conn : WF_vars(SocketStep(i)) /\ WF_vars(ConnStep(i))
FairSpec == Spec /\ Fairness

(***************************************************************************)
(* Properties.                                                             *)
(***************************************************************************)
\* Type invariant.
TypeOK ==
  /\ table \in Tgt \cup {0} /\ uses \in 0 .. MaxUses
  /\ \A i \in Conn : /\ c[i].kind = "none" <=> s[i].kind = "none"
                     /\ s[i].kind = "live" => c[i].kind = "live"
                     /\ c[i].kind = "live" => c[i].tgt \in Tgt
                     /\ c[i].sigs \subseteq {"RUN", "ABORT"} /\ s[i].sigs \subseteq {"RUN", "ABORT"}
  /\ \A j \in Tgt : t[j].active \in Int /\ t[j].outbound \in Nat /\ t[j].sigs \subseteq {"RUN"}

\* A target has no more connections than it may, and knows how many.
OutboundExact ==
  \A j \in Tgt : t[j].outbound = Cardinality(Tree(c, j)) /\ t[j].outbound <= MaxC

\* With one thread a target knows how many of its connections are established, which
\* decides whether it waits before it reconnects (compute_next_reconnect).
ActiveExact ==
  ~Multithread /\ Free => \A j \in Tgt :
    t[j].active = Cardinality({i \in Tree(c, j) : Active(c[i])})

\* JS_ABORT reaches a connection once, in error and still with its socket
\* (the assertions of cpu_server_close_connection).
AbortOnce ==
  \A i \in Conn : "ABORT" \in c[i].sigs =>
    c[i].err /\ c[i].st = "error" /\ c[i].io /\ ~c[i].failed

\* What nothing refers to is closed: a connection that is freed has failed and has let
\* go of its target and its socket, a socket that is freed is out of epoll (the
\* assertions of cpu_server_free_connection and net_server_socket_free).
FreedIsClosed ==
  \A i \in Conn :
    /\ c[i].kind = "live" /\ Unreferenced(i) =>
         c[i].err /\ c[i].failed /\ ~c[i].link /\ ~c[i].io
    /\ s[i].kind = "live" /\ SocketUnreferenced(i) => s[i].err

\* The table has the one target that has not been given up: create_target never makes
\* a second one, free_target never takes out another than its own.
TableIsCurrent ==
  \A j \in Tgt : (t[j].kind = "live" /\ ~t[j].completed) <=> table = j

\* A target in use is never forgotten: it will be looked at again.
KeepsTrying ==
  \A j \in Tgt : t[j].kind = "live" /\ ~t[j].completed => t[j].timer \/ "RUN" \in t[j].sigs

\* A failed connection is freed, and its descriptor closed.
FailedIsFreed == \A i \in Conn : c[i].err ~> c[i].kind = "gone"

\* A target that no configuration names is freed with its connections, unless one
\* names it again.
UnusedIsFreed ==
  \A j \in Tgt : t[j].kind = "live" ~> t[j].kind = "gone" \/ t[j].global_refcnt > 0

\* Targets and their connections count each other right, are closed once and freed afterwards, and
\* keep trying.
TargetsSafe ==
  /\ TypeOK /\ OutboundExact /\ AbortOnce /\ FreedIsClosed /\ TableIsCurrent /\ KeepsTrying
  /\ ~Multithread => ActiveExact
=============================================================================
