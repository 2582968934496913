----------------------------- MODULE JobTimers ------------------------------
(***************************************************************************)
(* The timer of a job of the original program (jobs/jobs.c).  The job sets *)
(* its time while it runs, in its own thread; the heap with the time       *)
(* belongs to another thread, which learns of a change from a queue, and   *)
(* which sends the job its alarm.  Neither side locks the times.           *)
(*                                                                         *)
(* One job.  Threads: J runs the job; M has the heap (job_timer_insert     *)
(* never queues if they are one: Same).  If M is not the main thread       *)
(* (Managed), the main thread watches the time M should wake at.           *)
(***************************************************************************)
EXTENDS Integers

CONSTANTS MaxTime, MaxSets, MaxQ, Same, Managed

VARIABLES now,
          real,        \* real_wakeup_time: what the job wants, 0 for none
          wake, heap,  \* wakeup_time, and whether the timer is in M's heap
          requests,           \* requests in the manager's queue
          mreq, mpc,   \* the time M has read, where M is
          jpc,         \* where J is
          alarm,       \* JS_ALARM is set
          wakeM, watch,  \* JS_AUX of the manager is set; the time the main thread watches
          j_refcnt, owned,  \* j_refcnt; whether the owner still holds the job
          sets         \* times set so far, bounded

timerVars == <<now, real, wake, heap, requests, mreq, mpc, jpc, alarm, wakeM, watch, j_refcnt, owned, sets>>

TimerInit ==
  /\ now = 0 /\ real = 0 /\ wake = 0 /\ heap = FALSE /\ requests = 0
  /\ mreq = 0 /\ mpc = "idle" /\ jpc = "idle"
  /\ alarm = FALSE /\ wakeM = FALSE /\ watch = 0 /\ j_refcnt = 1 /\ owned = TRUE /\ sets = 0

(***************************************************************************)
(* do_immediate_timer_insert, with the time r it has read: what becomes of *)
(* the heap and of the references, and of the time to watch.               *)
(***************************************************************************)
Refs(r) == IF r > 0 /\ ~heap THEN 1 ELSE IF r = 0 /\ heap THEN 0 - 1 ELSE 0
Immediate(r, taken) ==
  /\ wake' = r /\ heap' = (r > 0) /\ watch' = r
  /\ j_refcnt' = j_refcnt + Refs(r) - taken

(***************************************************************************)
(* The thread of the job.                                                  *)
(***************************************************************************)
\* job_timer_insert(r): nothing if it is what was asked for last; else the request goes to
\* the heap at once, or to the queue in a second step.
Want_Known(r) ==
  IF real = r THEN jpc' = "idle" /\ UNCHANGED <<real, wake, heap, watch, j_refcnt>>
  ELSE /\ real' = r
       /\ IF Same THEN Immediate(r, 0) /\ jpc' = "idle"
          ELSE jpc' = (IF heap THEN "idle" ELSE "push") /\ UNCHANGED <<wake, heap, watch, j_refcnt>>
Want(r) ==
  IF real = r THEN jpc' = "idle" /\ UNCHANGED <<real, wake, heap, watch, j_refcnt>>
  ELSE /\ real' = r
       /\ IF Same THEN Immediate(r, 0) /\ jpc' = "idle" ELSE jpc' = "push" /\ UNCHANGED <<wake, heap, watch, j_refcnt>>

\* A run of the job that sets, moves or removes the timer.
Set ==
  /\ jpc = "idle" /\ owned /\ sets < MaxSets /\ sets' = sets + 1
  /\ \E r \in {0} \cup (now + 1 .. MaxTime) : Want(r)
  /\ UNCHANGED <<now, requests, mreq, mpc, alarm, wakeM, owned>>

PushRequest ==
  /\ jpc = "push" /\ requests < MaxQ /\ requests' = requests + 1 /\ j_refcnt' = j_refcnt + 1 /\ jpc' = "idle"
  /\ UNCHANGED <<now, real, wake, heap, mreq, mpc, alarm, wakeM, watch, owned, sets>>

\* JS_ALARM: job_timer_check, and the handler if it says so.
Checked == real # 0 /\ real = wake
Alarm ==
  /\ jpc = "idle" /\ alarm /\ alarm' = FALSE
  /\ IF Checked
     THEN /\ real' = 0
          /\ IF Same THEN Immediate(0, 1) /\ UNCHANGED jpc
                     ELSE jpc' = "push" /\ j_refcnt' = j_refcnt - 1 /\ UNCHANGED <<wake, heap, watch>>
     ELSE j_refcnt' = j_refcnt - 1 /\ UNCHANGED <<real, wake, heap, watch, jpc>>
  /\ UNCHANGED <<now, requests, mreq, mpc, wakeM, owned, sets>>

\* The owner lets go of a job that has removed its timer.
LetGo ==
  /\ jpc = "idle" /\ owned /\ real = 0 /\ owned' = FALSE /\ j_refcnt' = j_refcnt - 1
  /\ UNCHANGED <<now, real, wake, heap, requests, mreq, mpc, jpc, alarm, wakeM, watch, sets>>

(***************************************************************************)
(* The thread of the heap.                                                 *)
(***************************************************************************)
\* do_timer_manager_job: takes a request, reads the time, and then writes it.
TakeRequest ==
  /\ ~Same /\ mpc = "idle" /\ requests > 0 /\ requests' = requests - 1 /\ mreq' = real /\ mpc' = "insert"
  /\ UNCHANGED <<now, real, wake, heap, jpc, alarm, wakeM, watch, j_refcnt, owned, sets>>
InsertTimer ==
  /\ mpc = "insert" /\ mpc' = "idle" /\ Immediate(mreq, 1) /\ mreq' = 0
  /\ UNCHANGED <<now, real, requests, jpc, alarm, wakeM, owned, sets>>

\* thread_run_timers and job_timer_wakeup_gateway: the heap's reference goes with the
\* alarm, unless the job has asked for something else or has an alarm already.
job_timer_wakeup_gateway == wake = real
thread_run_timers ==
  /\ mpc = "idle" /\ (Same => jpc = "idle") /\ (Managed => wakeM) /\ wakeM' = FALSE
  /\ IF heap /\ wake <= now
     THEN /\ heap' = FALSE /\ alarm' = (alarm \/ job_timer_wakeup_gateway) /\ watch' = 0
          /\ j_refcnt' = IF job_timer_wakeup_gateway /\ ~alarm THEN j_refcnt ELSE j_refcnt - 1
     ELSE watch' = (IF heap THEN wake ELSE 0) /\ UNCHANGED <<heap, alarm, j_refcnt>>
  /\ UNCHANGED <<now, real, wake, requests, mreq, mpc, jpc, owned, sets>>

\* jobs_check_all_timers, in the main thread.
Watch ==
  /\ Managed /\ watch # 0 /\ watch <= now /\ ~wakeM /\ wakeM' = TRUE
  /\ UNCHANGED <<now, real, wake, heap, requests, mreq, mpc, jpc, alarm, watch, j_refcnt, owned, sets>>

Tick ==
  /\ now < MaxTime /\ now' = now + 1
  /\ UNCHANGED <<real, wake, heap, requests, mreq, mpc, jpc, alarm, wakeM, watch, j_refcnt, owned, sets>>

J == PushRequest \/ Alarm
M == TakeRequest \/ InsertTimer \/ thread_run_timers
TimerNext == Set \/ J \/ LetGo \/ M \/ Watch \/ Tick
TimerSpec == TimerInit /\ [][TimerNext]_timerVars
\* Threads run what they are signalled to run, the main thread watches, time passes.
TimerFairSpec == TimerSpec /\ WF_timerVars(J) /\ WF_timerVars(TakeRequest) /\ WF_timerVars(InsertTimer) /\ WF_timerVars(thread_run_timers) /\ WF_timerVars(Watch) /\ WF_timerVars(Tick)

(***************************************************************************)
(* Properties.                                                             *)
(***************************************************************************)
N(b) == IF b THEN 1 ELSE 0
\* The job lives as long as the heap, a queued request or an alarm on its way knows it, and
\* no longer: each holds one reference, whichever way a timer is moved or removed.
TimerRefsExact == j_refcnt = N(owned) + N(heap) + requests + N(mpc = "insert") + N(alarm)

\* A timer that was set is not forgotten between the threads: it is in the heap with that
\* time, or the request is on its way, or the alarm is.
NotForgotten ==
  real # 0 => \/ heap /\ wake = real
              \/ jpc = "push" \/ requests > 0
              \/ mpc = "insert" /\ mreq = real
              \/ alarm /\ wake = real

\* If M is not the main thread it is woken for its timer.
Watched == Managed /\ heap => watch # 0 /\ watch <= wake

\* A timer that stays set goes off.
GoesOff == \A t \in 1 .. MaxTime : real = t ~> real # t

\* A timer that was set keeps its reference, is not forgotten, and its thread is woken for it.
TimersSafe == TimerRefsExact /\ NotForgotten /\ Watched
=============================================================================
