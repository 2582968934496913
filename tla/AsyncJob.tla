------------------------------ MODULE AsyncJob ------------------------------
(***************************************************************************)
(* Signals, locking, queueing and references of one asynchronous job of the *)
(* original program (jobs/jobs.c).  A job is a set of pending signals, each *)
(* to be handled in a thread of its class, never two at a time.  Whoever   *)
(* sends a signal tries to lock the job; who holds the lock handles what is *)
(* pending, or puts the job in the queue of a class that may, or lets go of *)
(* it.  There is no other synchronisation: the flags and the reference     *)
(* counter are changed by atomic operations, one action each.  A           *)
(* compare-and-swap that fails is tried again, so it is one action with the *)
(* read before it.                                                         *)
(*                                                                         *)
(* Code of other jobs, in any thread, holds references to the job (refs)   *)
(* and signals it or drops them.                                           *)
(***************************************************************************)
EXTENDS Naturals, FiniteSets

CONSTANTS Thread,
          Sig,        \* signal numbers; the last, 7, is JS_FINISH
          Fast,       \* signals a job may handle inside another (JSS_FAST)
          SigClass,   \* j_sigclass: Sig -> class
          Mask,       \* job_class_mask: Thread -> set of classes
          MaxRefs,    \* references the others start with
          MaxSends    \* bound: signals sent

ASSUME JobAssumption ==
  IsFiniteSet(Thread) /\ Sig \subseteq 0 .. 7 /\ 7 \in Sig /\ MaxRefs \in Nat /\ MaxSends \in Nat

JS_FINISH == 7
Class == {SigClass[s] : s \in Sig}

\* Classes without a thread of their own share the queue of the main thread.
Queue(c) == {t \in Thread : c \in Mask[t]}
Queues == {Queue(c) : c \in Class}

VARIABLES
  locked,   \* JF_LOCKED
  sigs,     \* bits 24..31 of j_flags
  queued,   \* bits 0..15 of j_flags: classes in whose queue the job is
  refcnt, freed,
  q,        \* entries for the job in each queue
  refs,     \* references held by others
  pc, sig,  \* of each thread: where it is, the signal it sends or handles
  qf,       \* queued_flag in process_one_job
  cur,      \* JT->current_job is another job
  sends

flagVars == <<locked, sigs, queued>>
jobVars == <<flagVars, refcnt, freed, q, refs, pc, sig, qf, cur, sends>>

\* Created, unlocked, with no signal pending.
JobInit ==
  /\ locked = FALSE /\ sigs = {} /\ queued = {} /\ refcnt = MaxRefs /\ freed = FALSE
  /\ q = [u \in Queues |-> 0] /\ refs = MaxRefs
  /\ pc = [t \in Thread |-> "idle"] /\ sig = [t \in Thread |-> 0]
  /\ qf = [t \in Thread |-> {}] /\ cur = [t \in Thread |-> FALSE] /\ sends = 0

Goto(t, l) == pc' = [pc EXCEPT ![t] = l]
At(t, l) == pc[t] = l

(***************************************************************************)
(* What others do with their references.                                   *)
(***************************************************************************)
\* job_signal (JOB_REF_CREATE_PASS (job), s), or with a reference passed on.
Signal(t, s, create, inJob) ==
  /\ At(t, "idle") /\ refs > 0 /\ sends < MaxSends /\ s # JS_FINISH
  /\ IF create THEN refcnt' = refcnt + 1 /\ refs' = refs
               ELSE refcnt' = refcnt /\ refs' = refs - 1
  /\ sends' = sends + 1 /\ cur' = [cur EXCEPT ![t] = inJob]
  /\ sig' = [sig EXCEPT ![t] = s] /\ Goto(t, "send")
  /\ UNCHANGED <<flagVars, freed, q, qf>>

\* job_decref by others.
Drop(t, inJob) ==
  /\ At(t, "idle") /\ refs > 0 /\ refs' = refs - 1
  /\ cur' = [cur EXCEPT ![t] = inJob] /\ Goto(t, "decref")
  /\ UNCHANGED <<flagVars, refcnt, freed, q, sig, qf, sends>>

(***************************************************************************)
(* job_send_signals.                                                       *)
(***************************************************************************)
SendCheck(t) ==
  /\ At(t, "send") /\ Goto(t, IF sig[t] \in sigs THEN "decref" ELSE "trylock")
  /\ UNCHANGED <<flagVars, refcnt, freed, q, refs, sig, qf, cur, sends>>

\* try_lock_job (job, sigset, 0).
SendLock(t) ==
  /\ At(t, "trylock")
  /\ IF locked THEN Goto(t, "set") /\ UNCHANGED <<locked, sigs>>
     ELSE Goto(t, "unlock") /\ locked' = TRUE /\ sigs' = sigs \cup {sig[t]}
  /\ UNCHANGED <<queued, refcnt, freed, q, refs, sig, qf, cur, sends>>

SendSet(t) ==
  /\ At(t, "set") /\ sigs' = sigs \cup {sig[t]} /\ Goto(t, "relock")
  /\ UNCHANGED <<locked, queued, refcnt, freed, q, refs, sig, qf, cur, sends>>

\* try_lock_job (job, 0, 0), also in process_one_job.
Relock(t) ==
  /\ At(t, "relock")
  /\ IF locked THEN Goto(t, "decref") /\ locked' = locked
               ELSE Goto(t, "unlock") /\ locked' = TRUE
  /\ UNCHANGED <<sigs, queued, refcnt, freed, q, refs, sig, qf, cur, sends>>

(***************************************************************************)
(* process_one_job: a thread takes the job from its queue.                 *)
(***************************************************************************)
Pop(t) ==
  /\ At(t, "idle")
  /\ \E u \in Queues : t \in u /\ q[u] > 0 /\ q' = [q EXCEPT ![u] = @ - 1]
  /\ cur' = [cur EXCEPT ![t] = FALSE] /\ Goto(t, "process")
  /\ UNCHANGED <<flagVars, refcnt, freed, refs, sig, qf, sends>>

ProcRead(t) ==
  /\ At(t, "process") /\ qf' = [qf EXCEPT ![t] = queued \cap Mask[t]] /\ Goto(t, "plock")
  /\ UNCHANGED <<flagVars, refcnt, freed, q, refs, sig, cur, sends>>

ProcLock_KeepFlag(t) ==
  /\ At(t, "plock")
  /\ IF locked THEN Goto(t, "relock") /\ UNCHANGED <<locked, queued>>
     ELSE Goto(t, "unlock") /\ locked' = TRUE /\ queued' = queued \ qf[t]
  /\ UNCHANGED <<sigs, refcnt, freed, q, refs, sig, qf, cur, sends>>
ProcLock(t) ==
  /\ At(t, "plock")
  /\ IF locked THEN Goto(t, "pclear") /\ UNCHANGED <<locked, queued>>
     ELSE Goto(t, "unlock") /\ locked' = TRUE /\ queued' = queued \ qf[t]
  /\ UNCHANGED <<sigs, refcnt, freed, q, refs, sig, qf, cur, sends>>

ProcClear(t) ==
  /\ At(t, "pclear") /\ queued' = queued \ qf[t] /\ Goto(t, "relock")
  /\ UNCHANGED <<locked, sigs, refcnt, freed, q, refs, sig, qf, cur, sends>>

(***************************************************************************)
(* unlock_job.                                                             *)
(***************************************************************************)
Runs(t, s) == SigClass[s] \in Mask[t] /\ (s \in Fast \/ ~cur[t])

\* The signal with the highest number comes first.
TopSig == CHOOSE s \in sigs : \A u \in sigs : s >= u

Execute(t) ==
  /\ At(t, "unlock") /\ sigs # {} /\ Runs(t, TopSig)
  /\ sig' = [sig EXCEPT ![t] = TopSig] /\ sigs' = sigs \ {TopSig}
  /\ Goto(t, "execute") /\ UNCHANGED <<locked, queued, refcnt, freed, q, refs, qf, cur, sends>>

\* j_execute returns a set of signals for the job itself.
Handled(t, again) ==
  /\ At(t, "execute") /\ sig[t] # JS_FINISH
  /\ again \subseteq Sig \ {JS_FINISH} /\ sends + Cardinality(again) <= MaxSends
  /\ sigs' = sigs \cup again /\ sends' = sends + Cardinality(again)
  /\ Goto(t, "unlock") /\ UNCHANGED <<locked, queued, refcnt, freed, q, refs, sig, qf, cur>>

\* ... or JOB_DESTROYED.
Finished(t) ==
  /\ At(t, "execute") /\ sig[t] = JS_FINISH /\ freed' = TRUE /\ Goto(t, "idle")
  /\ UNCHANGED <<flagVars, refcnt, q, refs, sig, qf, cur, sends>>

Enqueue(t) ==
  /\ At(t, "unlock") /\ sigs # {} /\ ~Runs(t, TopSig) /\ locked' = FALSE
  /\ LET c == SigClass[TopSig]
     IN  /\ queued' = queued \cup {c}
         /\ IF c \in queued THEN Goto(t, "decref") /\ sig' = sig
                            ELSE Goto(t, "push") /\ sig' = [sig EXCEPT ![t] = TopSig]
  /\ UNCHANGED <<sigs, refcnt, freed, q, refs, qf, cur, sends>>

\* The queue gets the reference.
Push_Decref(t) ==
  /\ At(t, "push") /\ q' = [q EXCEPT ![Queue(SigClass[sig[t]])] = @ + 1] /\ Goto(t, "decref")
  /\ UNCHANGED <<flagVars, refcnt, freed, refs, sig, qf, cur, sends>>
Push(t) ==
  /\ At(t, "push") /\ q' = [q EXCEPT ![Queue(SigClass[sig[t]])] = @ + 1] /\ Goto(t, "idle")
  /\ UNCHANGED <<flagVars, refcnt, freed, refs, sig, qf, cur, sends>>

\* Nothing to do: the lock goes, then the reference.
Release(t) ==
  /\ At(t, "unlock") /\ sigs = {} /\ locked' = FALSE /\ Goto(t, "unref")
  /\ UNCHANGED <<sigs, queued, refcnt, freed, q, refs, sig, qf, cur, sends>>

\* The counter is looked at, then decremented: at 0 there is no other reference and
\* it is set back to 1.  In unlock_job ("unref", "unsub") and in job_decref
\* ("decref", "decsub").
Look(t) ==
  /\ \/ At(t, "unref")  /\ Goto(t, IF refcnt >= 2 THEN "unsub" ELSE "unlast")
     \/ At(t, "decref") /\ Goto(t, IF refcnt >= 2 THEN "decsub" ELSE "declast")
  /\ UNCHANGED <<flagVars, refcnt, freed, q, refs, sig, qf, cur, sends>>

Subtract(t) ==
  /\ \/ At(t, "unsub")  /\ Goto(t, IF refcnt # 1 THEN "idle" ELSE "unlast")
     \/ At(t, "decsub") /\ Goto(t, IF refcnt # 1 THEN "idle" ELSE "declast")
  /\ refcnt' = refcnt - 1
  /\ UNCHANGED <<flagVars, freed, q, refs, sig, qf, cur, sends>>

\* The last reference: JS_FINISH is set by hand, or sent.
UnlockLast(t) ==
  /\ At(t, "unlast") /\ refcnt' = 1 /\ sigs' = sigs \cup {JS_FINISH} /\ locked' = TRUE
  /\ Goto(t, "unlock") /\ UNCHANGED <<queued, freed, q, refs, sig, qf, cur, sends>>
DecrefLast(t) ==
  /\ At(t, "declast") /\ refcnt' = 1 /\ sig' = [sig EXCEPT ![t] = JS_FINISH]
  /\ Goto(t, "send") /\ UNCHANGED <<flagVars, freed, q, refs, qf, cur, sends>>

\* The step of a thread that has work on the job.
JobStep(t) ==
  \/ SendCheck(t) \/ SendLock(t) \/ SendSet(t) \/ Relock(t)
  \/ Pop(t) \/ ProcRead(t) \/ ProcLock(t) \/ ProcClear(t)
  \/ Execute(t) \/ (\E again \in SUBSET Sig : Handled(t, again)) \/ Finished(t)
  \/ Enqueue(t) \/ Push(t) \/ Release(t) \/ Look(t) \/ Subtract(t)
  \/ UnlockLast(t) \/ DecrefLast(t)

JobNext ==
  \E t \in Thread :
    \/ JobStep(t)
    \/ \E s \in Sig, create, inJob \in BOOLEAN : Signal(t, s, create, inJob)
    \/ \E inJob \in BOOLEAN : Drop(t, inJob)

JobSpec == JobInit /\ [][JobNext]_jobVars

\* Threads run.
JobFairness == \A t \in Thread : WF_jobVars(JobStep(t))
JobFairSpec == JobSpec /\ JobFairness

(***************************************************************************)
(* Properties.                                                             *)
(***************************************************************************)
\* Threads that hold the lock, and threads that own a reference.
Holders == {t \in Thread : pc[t] \in {"unlock", "execute"}}
Owners  == {t \in Thread : pc[t] \notin {"idle", "unlast", "declast"}}
Lasts   == {t \in Thread : pc[t] \in {"unlast", "declast"}}

\* Type invariant.
JobTypeOK ==
  /\ locked \in BOOLEAN /\ sigs \subseteq Sig /\ queued \subseteq Class
  /\ refcnt \in Nat /\ refs \in 0 .. MaxRefs /\ freed \in BOOLEAN
  /\ q \in [Queues -> Nat] /\ sends \in 0 .. MaxSends
  /\ \A t \in Thread : qf[t] \subseteq Class /\ sig[t] \in Sig \cup {0}

\* At most one thread handles signals of a job, the one that locked it.
OneHandler ==
  /\ Cardinality(Holders) <= 1
  /\ ~freed => (locked <=> Holders # {})

\* A job is destroyed by whoever has the only reference, after all its other
\* signals, and nobody touches it afterwards (the assertions j_refcnt == 1 of
\* JS_FINISH handlers and of job_send_signals).
NoUseAfterFree ==
  /\ freed => Owners = {} /\ Lasts = {} /\ refs = 0 /\ \A u \in Queues : q[u] = 0
  /\ \A t \in Thread : At(t, "execute") /\ sig[t] = JS_FINISH =>
       refcnt = 1 /\ refs = 0 /\ Owners = {t} /\ \A u \in Queues : q[u] = 0

\* A job marked as queued is in the queue, or on its way into it, or its entry was
\* just taken and will be tried again: unlock_job may rely on the mark and leave.
Retries(t, c) == At(t, "process") \/ (pc[t] \in {"plock", "pclear"} /\ c \in qf[t])
Pushes(t, c)  == At(t, "push") /\ SigClass[sig[t]] = c
MarkBacked ==
  ~freed => \A c \in queued :
    \/ q[Queue(c)] > 0
    \/ \E t \in Queue(c) : Retries(t, c)
    \/ \E t \in Thread : Pushes(t, c)

\* No wake-up is lost: what was sent is handled.
SignalsHandled == \A s \in Sig : s \in sigs ~> s \notin sigs \/ freed

\* A job that nobody refers to is destroyed.
Destroyed == refs = 0 ~> freed

\* A job is handled by one thread at a time, its queue mark can be relied on, and it is destroyed
\* with its last reference.
JobSafe == JobTypeOK /\ OneHandler /\ NoUseAfterFree /\ MarkBacked
=============================================================================
