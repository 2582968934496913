---------------------------- MODULE WorkerStats ----------------------------
(***************************************************************************)
(* The statistics the worker processes share with the parent               *)
(* (mtproto/mtproto-proxy.c).  A worker writes its counters to two copies  *)
(* in shared memory, one after the other, each between two increments of   *)
(* its cnt; the parent reads a copy whose cnt is even and reads it again   *)
(* when cnt has changed meanwhile.  A worker can be killed at any step.    *)
(* The counters are two fields, a and b, which one update sets alike.      *)
(***************************************************************************)
EXTENDS Integers, Sequences

CONSTANT MaxUpdates

VARIABLES
  copy,      \* WStats[2 * worker] and the one after it
  update,       \* what the update in progress writes
  at,        \* the writer's place in update_local_stats, from 1; 0 between updates
  whole,     \* the last update that is complete in both copies
  killed,    \* the worker is gone
  rd         \* the parent in compute_stats_sum: pc, F, s_cnt, W, and what was whole when it began
statsVars == <<copy, update, at, whole, killed, rd>>

Copies == 1 .. 2
Reader(pc) == [pc |-> pc, F |-> 0, s |-> 0, W |-> [a |-> 0, b |-> 0], began |-> 0]
\* the mapping is of zeroes
StatsInit ==
  /\ copy = [k \in Copies |-> [cnt |-> 0, a |-> 0, b |-> 0]]
  /\ update = 0 /\ at = 0 /\ whole = 0 /\ killed = FALSE /\ rd = Reader("idle")

(***************************************************************************)
(* The worker: update_local_stats and update_local_stats_copy.             *)
(***************************************************************************)
update_local_stats_copy(k) == <<<<k, "cnt">>, <<k, "a">>, <<k, "b">>, <<k, "cnt">>>>
update_local_stats == update_local_stats_copy(1) \o update_local_stats_copy(2)

Begin ==
  /\ ~killed /\ at = 0 /\ update < MaxUpdates
  /\ update' = update + 1 /\ at' = 1
  /\ UNCHANGED <<copy, whole, killed, rd>>
Store ==
  /\ ~killed /\ at > 0
  /\ LET s == update_local_stats[at]
         end == at = Len(update_local_stats)
     IN  /\ copy' = [copy EXCEPT ![s[1]][s[2]] = IF s[2] = "cnt" THEN @ + 1 ELSE update]
         /\ at' = IF end THEN 0 ELSE at + 1
         /\ whole' = IF end THEN update ELSE whole
  /\ UNCHANGED <<update, killed, rd>>
Kill == ~killed /\ killed' = TRUE /\ UNCHANGED <<copy, update, at, whole, rd>>

(***************************************************************************)
(* The parent: the loop body of compute_stats_sum, for this worker.        *)
(***************************************************************************)
Even(k) == copy[k].cnt % 2 = 0
Sum ==
  /\ rd.pc \in {"idle", "added"}
  /\ rd' = [Reader("second") EXCEPT !.began = whole]
  /\ UNCHANGED <<copy, update, at, whole, killed>>
\* the second copy if it is not being written, else the first, else both again
PickCopy ==
  /\ rd.pc \in {"second", "first"}
  /\ LET k == IF rd.pc = "second" THEN 2 ELSE 1 IN
     rd' = IF Even(k) THEN [rd EXCEPT !.pc = "a", !.F = k, !.s = copy[k].cnt]
           ELSE [rd EXCEPT !.pc = IF k = 2 THEN "first" ELSE "second"]
  /\ UNCHANGED <<copy, update, at, whole, killed>>
\* memcpy
CopyField ==
  /\ rd.pc \in {"a", "b"}
  /\ rd' = IF rd.pc = "a" THEN [rd EXCEPT !.W.a = copy[rd.F].a, !.pc = "b"]
           ELSE [rd EXCEPT !.W.b = copy[rd.F].b, !.pc = "again"]
  /\ UNCHANGED <<copy, update, at, whole, killed>>
Recheck_Never ==
  /\ rd.pc = "again" /\ rd' = [rd EXCEPT !.pc = "added"]
  /\ UNCHANGED <<copy, update, at, whole, killed>>
Recheck ==
  /\ rd.pc = "again"
  /\ rd' = [rd EXCEPT !.pc = IF copy[rd.F].cnt = rd.s THEN "added" ELSE "second"]
  /\ UNCHANGED <<copy, update, at, whole, killed>>

StatsNext == Begin \/ Store \/ Kill \/ Sum \/ PickCopy \/ CopyField \/ Recheck
StatsSpec == StatsInit /\ [][StatsNext]_statsVars
\* the parent's loop runs; nothing is assumed of the worker
StatsFairSpec == StatsSpec /\ WF_statsVars(PickCopy \/ CopyField \/ Recheck)

(***************************************************************************)
(* Properties.                                                             *)
(***************************************************************************)
\* What is added to the sums is what one update wrote, never half of one and half of the next.
NoTorn == rd.pc = "added" => rd.W.a = rd.W.b

\* What is added is no older than the last update that was complete when the parent began to read.
Fresh == rd.pc = "added" => rd.W.a >= rd.began /\ rd.W.b >= rd.began

\* A worker killed in the middle of an update does not keep the parent in its loop: one of the two
\* copies is always readable.  (An endless loop here would stop the parent's cron.)
SumDone == rd.pc = "second" ~> rd.pc = "added"

\* What the parent adds up is one update, and not an old one.
StatsSafe == NoTorn /\ Fresh
=============================================================================
