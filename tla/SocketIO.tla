------------------------------ MODULE SocketIO ------------------------------
(***************************************************************************)
(* The edge-triggered input and output of one connected socket in          *)
(* net/net-connections.c and net/net-events.c.  The main thread fetches    *)
(* events from epoll and clears C_NORD and C_NOWR in the socket's flags;   *)
(* the io thread runs the socket job (JS_RUN), reads until EAGAIN, takes   *)
(* what the cpu thread queued and writes it until EAGAIN; the cpu thread   *)
(* queues packets and, when the connection is to be closed after writing,  *)
(* sets C_STOPWRITE.  Without --multithread the three are one thread and a *)
(* handler runs to its end (Multi = FALSE).  The job machinery that carries*)
(* the signals is AsyncJob's subject: here a signal is a flag.             *)
(***************************************************************************)
EXTENDS Naturals, Sequences

CONSTANTS
  Multi,      \* --multithread
  MaxIn,      \* how many units the peer sends
  MaxOut,     \* how many packets the cpu thread queues
  SndBuf,     \* the room of the kernel's send buffer
  MaxEagain   \* c->eagain_count may not exceed it (100 in the code)

VARIABLES
  k,     \* the kernel's side of the socket
  ev,    \* what epoll_fetch_events put into the heap: {} or {the mask}
  f,     \* c->flags: the set of flags that are set
  sig,   \* signals pending on the socket job: "run", "abort"
  io,    \* where the io thread is in net_server_socket_read_write
  stop,  \* the writer's copy of C_STOPWRITE
  eagain,
  cpu,   \* the cpu thread: "idle", or between pushing and setting the flag
  outq,  \* out_packet_queue: packets queued
  out,   \* c->out: packets taken and not yet written
  left   \* [in, out]: what the peer and the cpu thread still have to send

vars == <<k, ev, f, sig, io, stop, eagain, cpu, outq, out, left>>

\* alloc_new_socket_connection: the socket is registered with epoll and its
\* job runs first when the job is unlocked
Init ==
  /\ k = [rx |-> 0, hup |-> FALSE, tx |-> 0, nospace |-> FALSE, edge |-> TRUE, reg |-> TRUE]
  /\ ev = {}
  /\ f = {"WANTRD", "WANTWR"}
  /\ sig = {} /\ io = "idle" /\ stop = FALSE /\ eagain = 0
  /\ cpu = "idle" /\ outq = 0 /\ out = 0
  /\ left = [in |-> MaxIn, out |-> MaxOut]

Failed == f \cap {"ERROR", "NET_FAILED"} # {}

\* on one thread a handler runs to its end before another begins
Free(t) == Multi \/ /\ t = "main" \/ ev = {}
                    /\ t = "io" \/ io = "idle"
                    /\ t = "cpu" \/ cpu = "idle"

-----------------------------------------------------------------------------
(* The peer and the kernel.  A change is noted once (EPOLLET); the mask is *)
(* computed when epoll_wait reports it.                                    *)

Arrives ==
  /\ left.in > 0 /\ ~k.hup
  /\ k' = [k EXCEPT !.rx = @ + 1, !.edge = k.reg]
  /\ left' = [left EXCEPT !.in = @ - 1]
  /\ UNCHANGED <<ev, f, sig, io, stop, eagain, cpu, outq, out>>

Hangup ==
  /\ ~k.hup
  /\ k' = [k EXCEPT !.hup = TRUE, !.edge = k.reg]
  /\ UNCHANGED <<ev, f, sig, io, stop, eagain, cpu, outq, out, left>>

\* room in the send buffer is reported only after a write found too little
Drains ==
  /\ k.tx > 0
  /\ k' = [k EXCEPT !.tx = @ - 1, !.nospace = FALSE, !.edge = @ \/ (k.nospace /\ k.reg)]
  /\ UNCHANGED <<ev, f, sig, io, stop, eagain, cpu, outq, out, left>>

-----------------------------------------------------------------------------
(* The main thread.                                                        *)

\* what epoll_wait reports and epoll_unconv_flags makes of it
ReadyMask ==
  (IF k.rx > 0 THEN {"READ"} ELSE {}) \cup (IF k.tx < SndBuf THEN {"WRITE"} ELSE {})
          \cup (IF k.hup THEN {"SPEC"} ELSE {})

\* epoll_fetch_events: the event goes into the heap; the run of the heap that
\* ends epoll_work handles it before any job of the main thread
Fetch ==
  /\ Free("main") /\ ev = {} /\ k.edge /\ k.reg
  /\ k' = [k EXCEPT !.edge = FALSE]
  /\ ev' = {ReadyMask}
  /\ UNCHANGED <<f, sig, io, stop, eagain, cpu, outq, out, left>>

\* net_server_socket_read_write_gateway, called by epoll_runqueue
Gateway_Write ==
  /\ ev # {}
  /\ f' = IF "WRITE" \in UNION ev THEN f \ {"NOWR"} ELSE f
  /\ IF "SPEC" \in UNION ev
     THEN sig' = sig \cup {"abort"} /\ k' = [k EXCEPT !.reg = FALSE, !.edge = FALSE]
     ELSE sig' = sig \cup {"run"} /\ UNCHANGED k
  /\ ev' = {}
  /\ UNCHANGED <<io, stop, eagain, cpu, outq, out, left>>

Gateway ==
  /\ ev # {}
  /\ f' = f \ ((IF "READ" \in UNION ev THEN {"NORD"} ELSE {})
                 \cup (IF "WRITE" \in UNION ev THEN {"NOWR"} ELSE {}))
  /\ IF "SPEC" \in UNION ev
     THEN sig' = sig \cup {"abort"} /\ k' = [k EXCEPT !.reg = FALSE, !.edge = FALSE]
     ELSE sig' = sig \cup {"run"} /\ UNCHANGED k
  /\ ev' = {}
  /\ UNCHANGED <<io, stop, eagain, cpu, outq, out, left>>

\* fail_socket_connection: JS_ABORT of the socket job, which holds its lock
Abort ==
  /\ Free("main") /\ ev = {} /\ "abort" \in sig /\ io = "idle"
  /\ sig' = sig \ {"abort"}
  /\ f' = f \cup {"ERROR"}
  /\ k' = [k EXCEPT !.reg = FALSE, !.edge = FALSE]
  /\ UNCHANGED <<ev, io, stop, eagain, cpu, outq, out, left>>

-----------------------------------------------------------------------------
(* The io thread: one JS_RUN of do_socket_connection_job.                  *)

Goto(pc) == io' = pc

Run ==
  /\ Free("io") /\ io = "idle" /\ "run" \in sig
  /\ sig' = sig \ {"run"}
  /\ Goto(IF "ERROR" \in f THEN "idle" ELSE "read")
  /\ UNCHANGED <<k, ev, f, stop, eagain, cpu, outq, out, left>>

Reads == {"WANTRD"} \subseteq f /\ f \cap {"NORD", "ERROR", "STOPREAD", "NET_FAILED"} = {}
Writes == {"WANTWR"} \subseteq f /\ f \cap {"NOWR", "ERROR", "NET_FAILED"} = {}

\* net_server_socket_reader: C_NORD is set before the call that may find
\* nothing to read
ReadFlag ==
  /\ io = "read"
  /\ IF Reads THEN f' = f \cup {"NORD"} /\ Goto("readv")
              ELSE UNCHANGED f /\ Goto("take")
  /\ UNCHANGED <<k, ev, sig, stop, eagain, cpu, outq, out, left>>

Readv ==
  /\ io = "readv"
  /\ \/ \E n \in 1..k.rx :                           \* some of it is read
          k' = [k EXCEPT !.rx = @ - n] /\ f' = f \ {"NORD"} /\ UNCHANGED sig
     \/ /\ k.rx = 0 /\ ~k.hup                        \* EAGAIN
        /\ UNCHANGED <<k, f, sig>>
     \/ /\ k.rx = 0 /\ k.hup                         \* end of file or an error
        /\ f' = f \cup {"NET_FAILED"} /\ sig' = sig \cup {"abort"} /\ UNCHANGED k
  /\ Goto("read")
  /\ UNCHANGED <<ev, stop, eagain, cpu, outq, out, left>>

\* net_server_socket_read_write: what the cpu thread queued joins c->out
Take ==
  /\ io = "take"
  /\ out' = out + outq /\ outq' = 0
  /\ f' = IF out' > 0 THEN f \cup {"WANTWR"} ELSE f
  /\ Goto("write")
  /\ UNCHANGED <<k, ev, sig, stop, eagain, cpu, left>>

WriteCall ==
  /\ io = "write"
  /\ IF Writes THEN stop' = ("STOPWRITE" \in f) /\ Goto("wflag")
               ELSE UNCHANGED stop /\ Goto("idle")
  /\ UNCHANGED <<k, ev, f, sig, eagain, cpu, outq, out, left>>

\* net_server_socket_writer: C_NOWR too is set before the call
WriteFlag ==
  /\ io = "wflag"
  /\ CASE ~Writes  -> UNCHANGED f /\ Goto("wend")
       [] Writes /\ out = 0 -> f' = f \ {"WANTWR"} /\ Goto("wend")
       [] OTHER    -> f' = f \cup {"NOWR"} /\ Goto("writev")
  /\ UNCHANGED <<k, ev, sig, stop, eagain, cpu, outq, out, left>>

Writev ==
  /\ io = "writev"
  /\ \/ /\ ~k.hup
        /\ \E n \in 1..(SndBuf - k.tx) :             \* written, perhaps in part
             /\ n <= out
             /\ n = out \/ n = SndBuf - k.tx
             /\ k' = [k EXCEPT !.tx = @ + n, !.nospace = @ \/ n < out]
             /\ out' = out - n
        /\ f' = f \ {"NOWR"} /\ eagain' = 0 /\ UNCHANGED sig
     \/ /\ ~k.hup /\ k.tx = SndBuf                   \* EAGAIN
        /\ k' = [k EXCEPT !.nospace = TRUE]
        /\ IF eagain + 1 > MaxEagain
           THEN f' = f \cup {"NET_FAILED"} /\ sig' = sig \cup {"abort"} /\ UNCHANGED eagain
           ELSE eagain' = eagain + 1 /\ UNCHANGED <<f, sig>>
        /\ UNCHANGED out
     \/ /\ k.hup                                     \* an error
        /\ f' = f \cup {"NET_FAILED"} /\ sig' = sig \cup {"abort"}
        /\ UNCHANGED <<k, out, eagain>>
  /\ Goto("wflag")
  /\ UNCHANGED <<ev, stop, cpu, outq, left>>

WriteEnd_Any ==
  /\ io = "wend"
  /\ IF stop THEN f' = f \cup {"NET_FAILED"} /\ sig' = sig \cup {"abort"}
             ELSE UNCHANGED <<f, sig>>
  /\ Goto("write")
  /\ UNCHANGED <<k, ev, stop, eagain, cpu, outq, out, left>>

WriteEnd ==
  /\ io = "wend"
  /\ IF stop /\ "WANTWR" \notin f
     THEN f' = f \cup {"NET_FAILED"} /\ sig' = sig \cup {"abort"}
     ELSE UNCHANGED <<f, sig>>
  /\ Goto("write")
  /\ UNCHANGED <<k, ev, stop, eagain, cpu, outq, out, left>>

-----------------------------------------------------------------------------
(* The cpu thread: cpu_tcp_server_writer pushes what it wrote and signals  *)
(* the socket job; the last packet before a close sets C_STOPWRITE between.*)

Push ==
  /\ Free("cpu") /\ cpu = "idle" /\ left.out > 0 /\ "STOPWRITE" \notin f
  /\ outq' = outq + 1
  /\ left' = [left EXCEPT !.out = @ - 1]
  /\ cpu' \in {"signal", "stop"}
  /\ UNCHANGED <<k, ev, f, sig, io, stop, eagain, out>>

SetStop ==
  /\ cpu = "stop"
  /\ f' = f \cup {"STOPWRITE"}
  /\ cpu' = "signal"
  /\ UNCHANGED <<k, ev, sig, io, stop, eagain, outq, out, left>>

Signal ==
  /\ cpu = "signal"
  /\ sig' = IF "ERROR" \in f THEN sig ELSE sig \cup {"run"}
  /\ cpu' = "idle"
  /\ UNCHANGED <<k, ev, f, io, stop, eagain, outq, out, left>>

IoStep == Run \/ ReadFlag \/ Readv \/ Take \/ WriteCall \/ WriteFlag \/ Writev \/ WriteEnd
MainStep == Fetch \/ Gateway \/ Abort
CpuStep == SetStop \/ Signal

Next == Arrives \/ Hangup \/ Drains \/ MainStep \/ IoStep \/ Push \/ CpuStep

Spec == Init /\ [][Next]_vars
FairSpec == Spec /\ WF_vars(IoStep) /\ WF_vars(MainStep) /\ WF_vars(CpuStep) /\ WF_vars(Drains)
-----------------------------------------------------------------------------
Flags == {"WANTRD", "WANTWR", "NORD", "NOWR", "STOPREAD", "STOPWRITE", "NET_FAILED", "ERROR"}

\* The state is of its type.
TypeOK ==
  /\ k.rx \in 0..MaxIn /\ k.tx \in 0..SndBuf /\ {k.hup, k.edge, k.reg, k.nospace} \subseteq BOOLEAN
  /\ UNION ev \subseteq {"READ", "WRITE", "SPEC"}
  /\ f \subseteq Flags /\ sig \subseteq {"run", "abort"}
  /\ io \in {"idle", "read", "readv", "take", "write", "wflag", "writev", "wend"}
  /\ cpu \in {"idle", "signal", "stop"} /\ outq \in 0..MaxOut /\ out \in 0..MaxOut
  /\ eagain \in 0..MaxEagain

Settled == io = "idle" /\ cpu = "idle" /\ ev = {} /\ sig = {} /\ ~k.edge

\* Edge-triggered epoll reports data once.  Whatever the order of arrival, of
\* the gateway's clearing of C_NORD and of the reader's setting it, once
\* nothing is pending no data is left unread in the socket.
NoDataForgotten == Settled /\ ~Failed => k.rx = 0

\* The same for output: once nothing is pending, a packet is left in c->out or
\* in its queue only while the send buffer is full and the kernel will report
\* the room that comes.
NoOutputForgotten == Settled /\ ~Failed => outq = 0 /\ (out = 0 \/ k.nospace)

\* A socket that is closed after its last packet is written (C_STOPWRITE) is
\* aborted by the writer only when nothing is left to write.
AbortsEmpty == io = "wend" /\ "abort" \in sig' /\ "abort" \notin sig => out = 0 /\ outq = 0
WrittenBeforeClose == [][AbortsEmpty]_vars

\* Every unit the peer sent is read, or the socket is aborted.
Received == k.rx > 0 ~> k.rx = 0 \/ "ERROR" \in f

\* Every packet queued is written, or the socket is aborted.
Written == outq > 0 ~> (outq = 0 /\ out = 0) \/ "ERROR" \in f

\* Neither input nor output is forgotten by the thread of the socket.
SocketSafe == TypeOK /\ NoDataForgotten /\ NoOutputForgotten
=============================================================================
