----------------------------- MODULE Supervisor -----------------------------
(***************************************************************************)
(* cmd/mtproto-proxy/supervisor.go: the parent process of -M N.  It starts *)
(* N worker processes, watches each from a goroutine that restarts it, and *)
(* forwards signals.  Every region of ws.mu is one step: it forks, copies  *)
(* ws.cmd or signals, and does not block.                                  *)
(***************************************************************************)
EXTENDS Naturals, FiniteSets

CONSTANTS N,         \* number of workers
          MaxStarts  \* bound: processes started per slot

ASSUME SupervisorAssumption == N \in Nat /\ MaxStarts \in Nat

Worker == 0 .. N - 1   \* the slots of workers[]

VARIABLES
  proc,     \* the process of ws.cmd: "none" (nil), "up", "told" (sent a
            \* terminating signal), "dead"
  starts,   \* how many processes were started for the slot
  mon,      \* where the slot's monitor goroutine is
  phase,     \* where runSupervisor is: "start", "loop", "hup", "kill", "wait", "done"
  slot,        \* the loop variable of start, killAll
  stopping  \* the channel stopping is closed

supVars == <<proc, starts, mon, phase, slot, stopping>>

SupInit ==
  /\ proc = [w \in Worker |-> "none"] /\ starts = [w \in Worker |-> 0]
  /\ mon = [w \in Worker |-> "off"] /\ phase = "start" /\ slot = 0 /\ stopping = FALSE

\* Starting the process of slot w (exec.Command, cmd.Start, ws.cmd = cmd) ...
Launch(w) ==
  /\ starts[w] < MaxStarts
  /\ proc' = [proc EXCEPT ![w] = "up"] /\ starts' = [starts EXCEPT ![w] = @ + 1]

\* ... or failing to, which leaves ws.cmd as it was.
startWorker(w) == Launch(w) \/ UNCHANGED <<proc, starts>>

\* The loop that starts the workers, then the loop that starts their monitors.
StartNext ==
  /\ phase = "start" /\ slot \in Worker /\ startWorker(slot) /\ slot' = slot + 1
  /\ UNCHANGED <<mon, phase, stopping>>

StartMonitors ==
  /\ phase = "start" /\ slot \notin Worker
  /\ phase' = "loop" /\ mon' = [w \in Worker |-> "load"]
  /\ UNCHANGED <<proc, starts, slot, stopping>>

(***************************************************************************)
(* A monitor.                                                              *)
(***************************************************************************)
\* cmd := ws.cmd; a worker that never started has no monitor.
Load(w) ==
  /\ mon[w] = "load"
  /\ mon' = [mon EXCEPT ![w] = IF proc[w] = "none" THEN "gone" ELSE "wait"]
  /\ UNCHANGED <<proc, starts, phase, slot, stopping>>

Wait_Early(w) ==
  /\ mon[w] = "wait" /\ mon' = [mon EXCEPT ![w] = "check1"]
  /\ UNCHANGED <<proc, starts, phase, slot, stopping>>

\* cmd.Wait returns (at once, with an error, for a process already waited for).
Wait(w) ==
  /\ mon[w] = "wait" /\ proc[w] = "dead" /\ mon' = [mon EXCEPT ![w] = "check1"]
  /\ UNCHANGED <<proc, starts, phase, slot, stopping>>

\* The two selects on stopping, around the sleep of one second.
Check(w) ==
  /\ mon[w] \in {"check1", "check2"}
  /\ mon' = [mon EXCEPT ![w] = IF stopping THEN "gone"
                               ELSE IF mon[w] = "check1" THEN "check2" ELSE "start"]
  /\ UNCHANGED <<proc, starts, phase, slot, stopping>>

Restart_Never(w) ==
  /\ mon[w] = "start" /\ mon' = [mon EXCEPT ![w] = "load"]
  /\ UNCHANGED <<proc, starts, phase, slot, stopping>>

Restart(w) ==
  /\ mon[w] = "start" /\ startWorker(w) /\ mon' = [mon EXCEPT ![w] = "load"]
  /\ UNCHANGED <<phase, slot, stopping>>

Monitor(w) == Load(w) \/ Wait(w) \/ Check(w) \/ Restart(w)

(***************************************************************************)
(* The signal loop.                                                        *)
(***************************************************************************)
\* SIGHUP: killAll(SIGHUP).
Hup ==
  /\ phase = "loop" /\ phase' = "hup" /\ slot' = 0
  /\ UNCHANGED <<proc, starts, mon, stopping>>

\* SIGINT or SIGTERM: close(stopping), killAll(sig).
Stop ==
  /\ phase = "loop" /\ stopping' = TRUE /\ phase' = "kill" /\ slot' = 0
  /\ UNCHANGED <<proc, starts, mon>>

\* One iteration of killAll.  A worker that has a handler for SIGHUP reloads; a
\* worker that has not installed it yet is ended by the signal, which is one of
\* the ways to die.
KillNext ==
  /\ phase \in {"hup", "kill"} /\ slot \in Worker /\ slot' = slot + 1
  /\ proc' = IF phase = "kill" /\ proc[slot] = "up" THEN [proc EXCEPT ![slot] = "told"]
                                                ELSE proc
  /\ UNCHANGED <<starts, mon, phase, stopping>>

KillEnd ==
  /\ phase \in {"hup", "kill"} /\ slot \notin Worker
  /\ phase' = IF phase = "hup" THEN "loop" ELSE "wait"
  /\ UNCHANGED <<proc, starts, mon, slot, stopping>>

Finish_NoWait ==
  /\ phase = "wait" /\ phase' = "done" /\ UNCHANGED <<proc, starts, mon, slot, stopping>>

\* wg.Wait, and the return that ends the supervisor.
Finish ==
  /\ phase = "wait" /\ \A w \in Worker : mon[w] = "gone"
  /\ phase' = "done" /\ UNCHANGED <<proc, starts, mon, slot, stopping>>

\* A worker dies: it crashes, is killed, or obeys the signal it was sent.
Die(w) ==
  /\ proc[w] \in {"up", "told"} /\ proc' = [proc EXCEPT ![w] = "dead"]
  /\ UNCHANGED <<starts, mon, phase, slot, stopping>>

SupNext ==
  \/ StartNext \/ StartMonitors \/ Hup \/ Stop \/ KillNext \/ KillEnd \/ Finish
  \/ \E w \in Worker : Monitor(w) \/ Die(w)

SupSpec == SupInit /\ [][SupNext]_supVars

(***************************************************************************)
(* Fairness: the supervisor's goroutines run; a worker that was told to    *)
(* stop does; starting a process does not fail for ever.                   *)
(***************************************************************************)
SupFairness ==
  /\ WF_supVars(StartNext \/ StartMonitors) /\ WF_supVars(KillNext \/ KillEnd)
  /\ WF_supVars(Finish)
  /\ \A w \in Worker :
       /\ WF_supVars(Monitor(w)) /\ WF_supVars(proc[w] = "told" /\ Die(w))
       /\ SF_supVars(Restart(w) /\ Launch(w))

SupFairSpec == SupSpec /\ SupFairness

(***************************************************************************)
(* Properties.                                                             *)
(***************************************************************************)
\* Type invariant of the supervisor.
SupTypeOK ==
  /\ proc \in [Worker -> {"none", "up", "told", "dead"}]
  /\ starts \in [Worker -> 0 .. MaxStarts]
  /\ mon \in [Worker -> {"off", "load", "wait", "check1", "check2", "start", "gone"}]
  /\ phase \in {"start", "loop", "hup", "kill", "wait", "done"}
  /\ slot \in 0 .. N

\* A slot never has two processes: startWorker overwrites ws.cmd only when there
\* is none or the previous one has been waited for, so none is orphaned.
NoOrphan ==
  [][\A w \in Worker : starts'[w] # starts[w] => proc[w] \in {"none", "dead"}]_supVars

\* The supervisor outlives its workers: when runSupervisor returns, every worker
\* has ended.
NoWorkerLeft == phase = "done" => \A w \in Worker : proc[w] \notin {"up", "told"}

\* "restarts them if they die": a dead worker is replaced unless the supervisor
\* is stopping (or the bound on starts is used up).
DeadIsRestarted ==
  \A w \in Worker :
    (phase = "loop" /\ proc[w] = "dead") ~> (proc[w] = "up" \/ stopping
                                            \/ starts[w] = MaxStarts)

\* Once told to stop, the supervisor returns, provided no monitor is past its
\* second check of stopping and no worker runs that killAll has gone past.
StopReturns ==
  (/\ phase = "kill" /\ \A w \in Worker : mon[w] # "start"
   /\ \A w \in Worker : w < slot => proc[w] # "up") ~> phase = "done"

\* "forwards SIGINT/SIGTERM to all children": when killAll is over, every child
\* that runs has been sent the signal.
AllSignalled == phase = "wait" => \A w \in Worker : proc[w] # "up"

\* What the supervisor gets done: dead workers are restarted, and a stop ends it.
SupervisorLive == DeadIsRestarted /\ StopReturns
=============================================================================
