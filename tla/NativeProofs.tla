---------------------------- MODULE NativeProofs ----------------------------
(***************************************************************************)
(* Machine-checked proofs about the timers of jobs, the worker processes   *)
(* of --slaves and the statistics they share with the parent.              *)
(***************************************************************************)
EXTENDS JobTimers, Workers, WorkerStats, TLAPS

(***************************************************************************)
(* The timers of jobs, whether the job runs in the thread of its timers or *)
(* in another, for any times and any number of changes and requests:       *)
(* references are exact, a timer that was set is not forgotten, and the    *)
(* thread of the heap is woken for it.                                     *)
(***************************************************************************)
\* The numbers; of the truth values nothing is needed.
TimerTypes ==
  /\ now \in Nat /\ real \in Nat /\ wake \in Nat /\ mreq \in Nat /\ requests \in Nat /\ j_refcnt \in Int
  /\ watch \in Nat /\ jpc \in {"idle", "push"} /\ mpc \in {"idle", "insert"}
\* What the thread of the heap has read is what the job wants, or another request follows.
Overtaken == mpc = "insert" => ~Same /\ (mreq = real \/ jpc = "push" \/ requests > 0)
\* A timer in the heap has a time.
Timed == heap => wake > 0
Kept == TimerTypes /\ Overtaken /\ Timed /\ NotForgotten /\ Watched
TInv == Kept /\ TimerRefsExact

\* References are counted with 1 for what is true and 0 for what is not.
LEMMA NTrue == ASSUME NEW b, b PROVE N(b) = 1
  BY Zenon DEF N
\* The other case.
LEMMA NFalse == ASSUME NEW b, ~b PROVE N(b) = 0
  BY Zenon DEF N
\* In both N is a number.
LEMMA NInt == ASSUME NEW b PROVE N(b) \in Int
  <1>1. 0 \in Int /\ 1 \in Int BY SMT
  <1>2. CASE b BY <1>1, <1>2, NTrue, Zenon
  <1>3. CASE ~b BY <1>1, <1>3, NFalse, Zenon
  <1>4. QED BY <1>2, <1>3, Zenon

\* No timer is set at first.
LEMMA InitTInv == TimerInit => TInv
  <1> SUFFICES ASSUME TimerInit PROVE TInv
    OBVIOUS
  <1>1. Kept BY DEF TimerInit, Kept, TimerTypes, Overtaken, Timed, NotForgotten, Watched
  <1>2. owned /\ ~heap /\ ~(mpc = "insert") /\ ~alarm /\ requests = 0 /\ j_refcnt = 1 BY DEF TimerInit
  <1>3. N(owned) = 1 /\ N(heap) = 0 /\ N(mpc = "insert") = 0 /\ N(alarm) = 0
    BY <1>2, NTrue, NFalse, Zenon
  <1>4. TimerRefsExact
    <2>1. 1 = 1 + 0 + 0 + 0 + 0 BY SMT
    <2>2. QED BY <1>2, <1>3, <2>1, Zenon DEF TimerRefsExact
  <1>5. QED BY <1>1, <1>4 DEF TInv

\* How N changes.
LEMMA NSame == ASSUME NEW b PROVE N(b) = N(b) + 0
  <1>1. 0 = 0 + 0 /\ 1 = 1 + 0 BY SMT
  <1>2. CASE b BY <1>1, <1>2, NTrue, Zenon
  <1>3. CASE ~b BY <1>1, <1>3, NFalse, Zenon
  <1>4. QED BY <1>2, <1>3, Zenon
\* From false to true.
LEMMA NUp == ASSUME NEW b, NEW c, ~b, c PROVE N(c) = N(b) + 1
  <1>1. 1 = 0 + 1 BY SMT
  <1>2. QED BY <1>1, NTrue, NFalse, Zenon
\* From true to false.
LEMMA NDown == ASSUME NEW b, NEW c, b, ~c PROVE N(c) = N(b) + -1
  <1>1. 0 = 1 + -1 BY SMT
  <1>2. QED BY <1>1, NTrue, NFalse, Zenon

\* What a step adds to each of the counts, and to the references.
Adds(a, b, c, d) ==
  /\ N(owned') = N(owned) + a /\ N(heap') = N(heap) + b
  /\ N(mpc' = "insert") = N(mpc = "insert") + c /\ N(alarm') = N(alarm) + d
\* References stay exact if a step adds to them what it adds to the counts.
LEMMA RefsFollow ==
  ASSUME TimerTypes, TimerTypes', TimerRefsExact,
         NEW a \in Int, NEW b \in Int, NEW c \in Int, NEW d \in Int,
         Adds(a, b, c, d), j_refcnt' = j_refcnt + a + b + (requests' - requests) + c + d
  PROVE  TimerRefsExact'
  <1>1. PICK w \in Int, x \in Int, y \in Int, z \in Int :
          w = N(owned) /\ x = N(heap) /\ y = N(mpc = "insert") /\ z = N(alarm)
    BY NInt, Zenon
  <1>2. j_refcnt = w + x + requests + y + z BY <1>1, Zenon DEF TimerRefsExact
  <1>3. j_refcnt' = (w + a) + (x + b) + requests' + (y + c) + (z + d) BY <1>2, SMT DEF TimerTypes
  <1>4. QED BY <1>1, <1>3, Zenon DEF TimerRefsExact, Adds

\* What do_immediate_timer_insert does to the heap, its reference and the time to watch.
LEMMA ImmediateExact ==
  ASSUME NEW r \in Nat, NEW taken \in Int, j_refcnt \in Int, Immediate(r, taken)
  PROVE  /\ (heap' <=> r > 0) /\ wake' = r /\ watch' = r
         /\ \E d \in Int : N(heap') = N(heap) + d /\ j_refcnt' = j_refcnt + d - taken
  <1>1. heap' <=> r > 0 BY Zenon DEF Immediate
  <1>2. j_refcnt' = j_refcnt + Refs(r) - taken /\ wake' = r /\ watch' = r BY Zenon DEF Immediate
  <1>3. Refs(r) \in Int /\ N(heap') = N(heap) + Refs(r)
    <2>1. CASE r = 0 /\ heap
      <3>1. Refs(r) = -1 /\ -1 \in Int BY <2>1, SMT DEF Refs
      <3>2. ~heap' BY <1>1, <2>1, SMT
      <3>3. QED BY <2>1, <3>1, <3>2, NDown, Zenon
    <2>2. CASE r = 0 /\ ~heap
      <3>1. Refs(r) = 0 /\ 0 \in Int /\ 0 + 0 = 0 BY <2>2, SMT DEF Refs
      <3>2. ~heap' BY <1>1, <2>2, SMT
      <3>3. QED BY <2>2, <3>1, <3>2, NFalse, Zenon
    <2>3. CASE r > 0 /\ heap
      <3>1. Refs(r) = 0 /\ 0 \in Int /\ 1 + 0 = 1 BY <2>3, SMT DEF Refs
      <3>2. QED BY <1>1, <2>3, <3>1, NTrue, Zenon
    <2>4. CASE r > 0 /\ ~heap
      <3>1. Refs(r) = 1 /\ 1 \in Int BY <2>4, SMT DEF Refs
      <3>2. QED BY <1>1, <2>4, <3>1, NUp, Zenon
    <2>5. r = 0 \/ r > 0 BY SMT
    <2>6. QED BY <2>1, <2>2, <2>3, <2>4, <2>5, Zenon
  <1>4. QED BY <1>1, <1>2, <1>3, Zenon

(***************************************************************************)
(* Each step preserves the invariant.                                      *)
(***************************************************************************)
\* The job sets its timer.
LEMMA SetPreserves == ASSUME TInv, Set PROVE TInv'
  <1>1. PICK r \in {0} \cup (now + 1 .. MaxTime) : Want(r)
    BY Zenon DEF Set
  <1>2. r \in Nat /\ Kept /\ TimerTypes /\ j_refcnt \in Int /\ TimerRefsExact
    BY <1>1 DEF TInv, Kept, TimerTypes
  <1>3. /\ jpc = "idle" /\ UNCHANGED <<now, requests, mreq, mpc, alarm, owned>>
    BY Zenon DEF Set
  <1>4. CASE real = r
    <2>1. jpc' = "idle" /\ UNCHANGED <<real, wake, heap, watch, j_refcnt>> BY <1>1, <1>4, Zenon DEF Want
    <2>2. QED
      BY <1>2, <1>3, <2>1, Zenon
         DEF TInv, Kept, TimerTypes, Overtaken, Timed, TimerRefsExact, NotForgotten, Watched
  <1>5. CASE real # r /\ Same
    <2>1. real' = r /\ Immediate(r, 0) /\ jpc' = "idle" BY <1>1, <1>5, Zenon DEF Want
    <2>2. 0 \in Int BY SMT
    <2>3. PICK d \in Int : N(heap') = N(heap) + d /\ j_refcnt' = j_refcnt + d - 0
      BY <1>2, <2>1, <2>2, ImmediateExact, Zenon
    <2>4. (heap' <=> r > 0) /\ wake' = r /\ watch' = r
      BY <1>2, <2>1, <2>2, ImmediateExact, Zenon
    <2>5. mpc = "idle" BY <1>2, <1>5, Zenon DEF Kept, TimerTypes, Overtaken
    <2>6. TimerTypes'
      <3>1. j_refcnt' \in Int BY <1>2, <2>3, SMT
      <3>2. QED BY <1>2, <1>3, <2>1, <2>4, <3>1, Zenon DEF TimerTypes
    <2>7. Overtaken' /\ Timed' /\ NotForgotten' /\ Watched'
      BY <1>2, <1>3, <2>1, <2>4, <2>5, SMT DEF TimerTypes, Overtaken, Timed, NotForgotten, Watched
    <2>8. TimerRefsExact'
      <3>1. Adds(0, d, 0, 0) BY <1>3, <2>3, NSame, Zenon DEF Adds
      <3>2. j_refcnt' = j_refcnt + 0 + d + (requests' - requests) + 0 + 0 BY <1>2, <1>3, <2>3, SMT DEF TimerTypes
      <3>3. QED BY <1>2, <2>2, <2>6, <3>1, <3>2, RefsFollow, Zenon
    <2>9. QED BY <2>6, <2>7, <2>8, Zenon DEF TInv, Kept
  <1>6. CASE real # r /\ ~Same
    <2>1. real' = r /\ jpc' = "push" /\ UNCHANGED <<wake, heap, watch, j_refcnt>>
      BY <1>1, <1>6, Zenon DEF Want
    <2>2. QED
      BY <1>2, <1>3, <1>6, <2>1, Zenon
         DEF TInv, Kept, TimerTypes, Overtaken, Timed, TimerRefsExact, NotForgotten, Watched
  <1>7. QED BY <1>4, <1>5, <1>6, Zenon

\* The request goes into the queue, with a reference.
LEMMA PushPreserves == ASSUME TInv, PushRequest PROVE TInv'
  <1>1. /\ jpc = "push" /\ requests' = requests + 1 /\ j_refcnt' = j_refcnt + 1 /\ jpc' = "idle" /\ TimerTypes /\ Kept
        /\ UNCHANGED <<now, real, wake, heap, mreq, mpc, alarm, watch, owned>> /\ TimerRefsExact
    BY Zenon DEF PushRequest, TInv, Kept
  <1>2. /\ requests' \in Nat /\ requests' > 0 /\ j_refcnt' \in Int /\ 0 \in Int
        /\ j_refcnt' = j_refcnt + 0 + 0 + (requests' - requests) + 0 + 0
    BY <1>1, SMT DEF TimerTypes
  <1>3. TimerTypes' BY <1>1, <1>2, Zenon DEF TimerTypes
  <1>4. Overtaken' /\ Timed' /\ NotForgotten' /\ Watched'
    BY <1>1, <1>2, Zenon DEF Kept, Overtaken, Timed, NotForgotten, Watched
  <1>5. Adds(0, 0, 0, 0) BY <1>1, NSame, Zenon DEF Adds
  <1>6. TimerRefsExact' BY <1>1, <1>2, <1>3, <1>5, RefsFollow, Zenon
  <1>7. QED BY <1>3, <1>4, <1>6, Zenon DEF TInv, Kept

\* JS_ALARM: the handler runs only for the time the job wants.
LEMMA AlarmPreserves == ASSUME TInv, Alarm PROVE TInv'
  <1>1. /\ jpc = "idle" /\ alarm /\ ~alarm' /\ TimerTypes /\ Kept /\ TimerRefsExact
        /\ UNCHANGED <<now, requests, mreq, mpc, owned>>
    BY Zenon DEF Alarm, TInv, Kept
  <1>2. 0 \in Int /\ -1 \in Int /\ 1 \in Int /\ 0 \in Nat BY SMT
  <1>3. CASE ~Checked
    <2>1. j_refcnt' = j_refcnt - 1 /\ UNCHANGED <<real, wake, heap, watch, jpc>> BY <1>3, Zenon DEF Alarm
    <2>2. j_refcnt' \in Int /\ j_refcnt' = j_refcnt + 0 + 0 + (requests' - requests) + 0 + -1
      BY <1>1, <2>1, SMT DEF TimerTypes
    <2>3. TimerTypes' BY <1>1, <2>1, <2>2, Zenon DEF TimerTypes
    <2>4. Overtaken' /\ Timed' /\ NotForgotten' /\ Watched'
      BY <1>1, <1>3, <2>1, Zenon DEF Kept, Overtaken, Timed, NotForgotten, Watched, Checked
    <2>5. Adds(0, 0, 0, -1) BY <1>1, <2>1, NSame, NDown, Zenon DEF Adds
    <2>6. TimerRefsExact' BY <1>1, <1>2, <2>2, <2>3, <2>5, RefsFollow, Zenon
    <2>7. QED BY <2>3, <2>4, <2>6, Zenon DEF TInv, Kept
  <1>4. CASE Checked /\ Same
    <2>1. real' = 0 /\ Immediate(0, 1) /\ UNCHANGED jpc BY <1>4, Zenon DEF Alarm
    <2>2. j_refcnt \in Int BY <1>1, Zenon DEF TimerTypes
    <2>3. PICK d \in Int : N(heap') = N(heap) + d /\ j_refcnt' = j_refcnt + d - 1
      BY <1>2, <2>1, <2>2, ImmediateExact, Zenon
    <2>4. (heap' <=> 0 > 0) /\ wake' = 0 /\ watch' = 0
      BY <1>2, <2>1, <2>2, ImmediateExact, Zenon
    <2>5. ~heap' /\ mpc = "idle"
      <3>1. ~(0 > 0) BY SMT
      <3>2. QED BY <1>1, <1>4, <2>4, <3>1, Zenon DEF Kept, TimerTypes, Overtaken
    <2>6. TimerTypes'
      <3>1. j_refcnt' \in Int BY <2>2, <2>3, SMT
      <3>2. QED BY <1>1, <1>2, <2>1, <2>4, <3>1, Zenon DEF TimerTypes
    <2>7. Overtaken' /\ Timed' /\ NotForgotten' /\ Watched'
      <3>1. ~(mpc' = "insert") BY <1>1, <2>5, SMT
      <3>2. QED BY <2>1, <2>5, <3>1, Zenon DEF Overtaken, Timed, NotForgotten, Watched
    <2>8. TimerRefsExact'
      <3>1. Adds(0, d, 0, -1) BY <1>1, <2>3, NSame, NDown, Zenon DEF Adds
      <3>2. j_refcnt' = j_refcnt + 0 + d + (requests' - requests) + 0 + -1 BY <1>1, <2>2, <2>3, SMT DEF TimerTypes
      <3>3. QED BY <1>1, <1>2, <2>6, <3>1, <3>2, RefsFollow, Zenon
    <2>9. QED BY <2>6, <2>7, <2>8, Zenon DEF TInv, Kept
  <1>5. CASE Checked /\ ~Same
    <2>1. real' = 0 /\ jpc' = "push" /\ j_refcnt' = j_refcnt - 1 /\ UNCHANGED <<wake, heap, watch>>
      BY <1>5, Zenon DEF Alarm
    <2>2. j_refcnt' \in Int /\ j_refcnt' = j_refcnt + 0 + 0 + (requests' - requests) + 0 + -1
      BY <1>1, <2>1, SMT DEF TimerTypes
    <2>3. TimerTypes' BY <1>1, <1>2, <2>1, <2>2, Zenon DEF TimerTypes
    <2>4. Overtaken' /\ Timed' /\ NotForgotten' /\ Watched'
      BY <1>1, <1>5, <2>1, Zenon DEF Kept, Overtaken, Timed, NotForgotten, Watched
    <2>5. Adds(0, 0, 0, -1) BY <1>1, <2>1, NSame, NDown, Zenon DEF Adds
    <2>6. TimerRefsExact' BY <1>1, <1>2, <2>2, <2>3, <2>5, RefsFollow, Zenon
    <2>7. QED BY <2>3, <2>4, <2>6, Zenon DEF TInv, Kept
  <1>6. QED BY <1>3, <1>4, <1>5, Zenon

\* The owner gives up its reference.
LEMMA ReleasePreserves == ASSUME TInv, LetGo PROVE TInv'
  <1>1. /\ owned /\ ~owned' /\ j_refcnt' = j_refcnt - 1 /\ TimerTypes /\ Kept /\ TimerRefsExact
        /\ UNCHANGED <<now, real, wake, heap, requests, mreq, mpc, jpc, alarm, watch>>
    BY Zenon DEF LetGo, TInv, Kept
  <1>2. /\ j_refcnt' \in Int /\ 0 \in Int /\ -1 \in Int
        /\ j_refcnt' = j_refcnt + -1 + 0 + (requests' - requests) + 0 + 0
    BY <1>1, SMT DEF TimerTypes
  <1>3. TimerTypes' BY <1>1, <1>2, Zenon DEF TimerTypes
  <1>4. Overtaken' /\ Timed' /\ NotForgotten' /\ Watched'
    BY <1>1, Zenon DEF Kept, Overtaken, Timed, NotForgotten, Watched
  <1>5. Adds(-1, 0, 0, 0) BY <1>1, NSame, NDown, Zenon DEF Adds
  <1>6. TimerRefsExact' BY <1>1, <1>2, <1>3, <1>5, RefsFollow, Zenon
  <1>7. QED BY <1>3, <1>4, <1>6, Zenon DEF TInv, Kept

\* The thread of the heap takes a request and reads the time.
LEMMA TakePreserves == ASSUME TInv, TakeRequest PROVE TInv'
  <1>1. /\ ~Same /\ mpc = "idle" /\ requests > 0 /\ requests' = requests - 1 /\ mreq' = real /\ mpc' = "insert"
        /\ UNCHANGED <<now, real, wake, heap, jpc, alarm, watch, j_refcnt, owned>>
        /\ TimerTypes /\ Kept /\ TimerRefsExact
    BY Zenon DEF TakeRequest, TInv, Kept
  <1>2. /\ requests' \in Nat /\ 0 \in Int /\ 1 \in Int /\ ~(mpc = "insert")
        /\ j_refcnt' = j_refcnt + 0 + 0 + (requests' - requests) + 1 + 0
    BY <1>1, SMT DEF TimerTypes
  <1>3. TimerTypes' BY <1>1, <1>2, Zenon DEF TimerTypes
  <1>4. Overtaken' /\ Timed' /\ NotForgotten' /\ Watched'
    BY <1>1, Zenon DEF Kept, Overtaken, Timed, NotForgotten, Watched
  <1>5. Adds(0, 0, 1, 0) BY <1>1, <1>2, NSame, NUp, Zenon DEF Adds
  <1>6. TimerRefsExact' BY <1>1, <1>2, <1>3, <1>5, RefsFollow, Zenon
  <1>7. QED BY <1>3, <1>4, <1>6, Zenon DEF TInv, Kept

\* The thread of the heap writes the time it has read, which may be an old one.
LEMMA InsertPreserves == ASSUME TInv, InsertTimer PROVE TInv'
  <1>1. /\ mpc = "insert" /\ mpc' = "idle" /\ Immediate(mreq, 1) /\ mreq' = 0
        /\ UNCHANGED <<now, real, requests, jpc, alarm, owned>> /\ TimerTypes /\ Kept /\ TimerRefsExact
    BY Zenon DEF InsertTimer, TInv, Kept
  <1>2. 0 \in Int /\ -1 \in Int /\ 1 \in Int /\ 0 \in Nat /\ mreq \in Nat /\ j_refcnt \in Int
    BY <1>1, SMT DEF TimerTypes
  <1>3. PICK d \in Int : N(heap') = N(heap) + d /\ j_refcnt' = j_refcnt + d - 1
    BY <1>1, <1>2, ImmediateExact, Zenon
  <1>4. (heap' <=> mreq > 0) /\ wake' = mreq /\ watch' = mreq
    BY <1>1, <1>2, ImmediateExact, Zenon
  <1>5. TimerTypes'
    <2>1. j_refcnt' \in Int BY <1>2, <1>3, SMT
    <2>2. QED BY <1>1, <1>2, <1>4, <2>1, Zenon DEF TimerTypes
  <1>6. Overtaken' /\ Timed' /\ Watched'
    <2>1. /\ ~(mpc' = "insert") /\ (mreq > 0 => mreq # 0 /\ mreq <= mreq) BY <1>1, <1>2, SMT
    <2>2. QED BY <1>4, <2>1, Zenon DEF Overtaken, Timed, Watched
  <1>7. NotForgotten'
    <2>1. real # 0 => real > 0 BY <1>1, SMT DEF TimerTypes
    <2>2. QED BY <1>1, <1>4, <2>1, Zenon DEF Kept, Overtaken, NotForgotten
  <1>8. TimerRefsExact'
    <2>1. ~(mpc' = "insert") BY <1>1, SMT
    <2>2. Adds(0, d, -1, 0) BY <1>1, <1>3, <2>1, NSame, NDown, Zenon DEF Adds
    <2>3. j_refcnt' = j_refcnt + 0 + d + (requests' - requests) + -1 + 0 BY <1>1, <1>2, <1>3, SMT DEF TimerTypes
    <2>4. QED BY <1>1, <1>2, <1>5, <2>2, <2>3, RefsFollow, Zenon
  <1>9. QED BY <1>5, <1>6, <1>7, <1>8, Zenon DEF TInv, Kept

\* thread_run_timers: the reference of the heap goes to the alarm, or is dropped.
LEMMA RunPreserves == ASSUME TInv, thread_run_timers PROVE TInv'
  <1>1. /\ mpc = "idle" /\ UNCHANGED <<now, real, wake, requests, mreq, mpc, jpc, owned>>
        /\ TimerTypes /\ Kept /\ TimerRefsExact
    BY Zenon DEF thread_run_timers, TInv, Kept
  <1>2. 0 \in Int /\ -1 \in Int /\ 1 \in Int /\ 0 \in Nat BY SMT
  <1>3. CASE heap /\ wake <= now
    <2>1. /\ ~heap' /\ (alarm' <=> alarm \/ job_timer_wakeup_gateway) /\ watch' = 0
          /\ j_refcnt' = IF job_timer_wakeup_gateway /\ ~alarm THEN j_refcnt ELSE j_refcnt - 1
      BY <1>3, Zenon DEF thread_run_timers
    <2>2. Overtaken' /\ Timed' /\ NotForgotten' /\ Watched'
      BY <1>1, <1>3, <2>1, Zenon DEF Kept, Overtaken, Timed, NotForgotten, Watched, job_timer_wakeup_gateway
    <2>3. CASE job_timer_wakeup_gateway /\ ~alarm
      <3>1. j_refcnt' = j_refcnt /\ alarm' BY <2>1, <2>3, Zenon
      <3>2. j_refcnt' \in Int /\ j_refcnt' = j_refcnt + 0 + -1 + (requests' - requests) + 0 + 1
        BY <1>1, <3>1, SMT DEF TimerTypes
      <3>3. TimerTypes' BY <1>1, <1>2, <2>1, <3>2, Zenon DEF TimerTypes
      <3>4. Adds(0, -1, 0, 1) BY <1>1, <1>3, <2>1, <2>3, <3>1, NSame, NUp, NDown, Zenon DEF Adds
      <3>5. TimerRefsExact' BY <1>1, <1>2, <3>2, <3>3, <3>4, RefsFollow, Zenon
      <3>6. QED BY <2>2, <3>3, <3>5, Zenon DEF TInv, Kept
    <2>4. CASE ~(job_timer_wakeup_gateway /\ ~alarm)
      <3>1. j_refcnt' = j_refcnt - 1 /\ (alarm' <=> alarm) BY <2>1, <2>4, Zenon
      <3>2. j_refcnt' \in Int /\ j_refcnt' = j_refcnt + 0 + -1 + (requests' - requests) + 0 + 0
        BY <1>1, <3>1, SMT DEF TimerTypes
      <3>3. TimerTypes' BY <1>1, <1>2, <2>1, <3>2, Zenon DEF TimerTypes
      <3>4. N(alarm') = N(alarm) + 0
        <4>1. CASE alarm
          <5>1. N(alarm) = 1 /\ N(alarm') = 1 BY <3>1, <4>1, NTrue, Zenon
          <5>2. QED BY <5>1, NSame, Zenon
        <4>2. CASE ~alarm
          <5>1. N(alarm) = 0 /\ N(alarm') = 0 BY <3>1, <4>2, NFalse, Zenon
          <5>2. QED BY <5>1, NSame, Zenon
        <4>3. QED BY <4>1, <4>2, Zenon
      <3>5. Adds(0, -1, 0, 0) BY <1>1, <1>3, <2>1, <3>4, NSame, NDown, Zenon DEF Adds
      <3>6. TimerRefsExact' BY <1>1, <1>2, <3>2, <3>3, <3>5, RefsFollow, Zenon
      <3>7. QED BY <2>2, <3>3, <3>6, Zenon DEF TInv, Kept
    <2>5. QED BY <2>3, <2>4, Zenon
  <1>4. CASE ~(heap /\ wake <= now)
    <2>1. watch' = (IF heap THEN wake ELSE 0) /\ UNCHANGED <<heap, alarm, j_refcnt>>
      BY <1>4, Zenon DEF thread_run_timers
    <2>2. watch' \in Nat /\ (heap => watch' = wake) BY <1>1, <1>2, <2>1, Zenon DEF TimerTypes
    <2>3. TimerTypes' BY <1>1, <2>1, <2>2, Zenon DEF TimerTypes
    <2>4. Overtaken' /\ Timed' /\ NotForgotten' /\ TimerRefsExact'
      BY <1>1, <2>1, Zenon DEF Kept, Overtaken, Timed, NotForgotten, TimerRefsExact
    <2>5. Watched'
      <3>1. wake > 0 => wake # 0 /\ wake <= wake BY <1>1, SMT DEF TimerTypes
      <3>2. QED BY <1>1, <2>1, <2>2, <3>1, Zenon DEF Kept, Timed, Watched
    <2>6. QED BY <2>3, <2>4, <2>5, Zenon DEF TInv, Kept
  <1>5. QED BY <1>3, <1>4, Zenon

\* The steps of the main thread and of the clock.
LEMMA OthersPreserve == ASSUME TInv, Watch \/ Tick \/ UNCHANGED timerVars PROVE TInv'
  <1>1. /\ UNCHANGED <<real, wake, heap, requests, mreq, mpc, jpc, alarm, watch, j_refcnt, owned>>
        /\ now' = now \/ now' = now + 1
    BY Zenon DEF Watch, Tick, timerVars
  <1>2. now' \in Nat BY <1>1, SMT DEF TInv, Kept, TimerTypes
  <1>3. QED BY <1>1, <1>2, Zenon
            DEF TInv, Kept, TimerTypes, Overtaken, Timed, NotForgotten, Watched, TimerRefsExact

(***************************************************************************)
(* The theorems.                                                           *)
(***************************************************************************)
\* The invariant holds.
THEOREM TimersInv == TimerSpec => []TInv
  <1>1. TimerInit => TInv BY InitTInv
  <1>2. TInv /\ [TimerNext]_timerVars => TInv'
    BY SetPreserves, PushPreserves, AlarmPreserves, ReleasePreserves, TakePreserves, InsertPreserves,
       RunPreserves, OthersPreserve, Zenon DEF TimerNext, J, M
  <1>3. QED BY <1>1, <1>2, PTL DEF TimerSpec

\* However the two threads interleave, the heap, each queued request and the alarm hold one reference
\* to the job each, and no others are held: it is neither freed early nor never (job_timer_insert).
THEOREM TimerReferences == TimerSpec => []TimerRefsExact
  <1>1. TInv => TimerRefsExact BY DEF TInv
  <1>2. QED BY <1>1, TimersInv, PTL

\* A timer that was set is in the heap with that time, or its request or its alarm is on its way
\* (job_timer_insert, thread_run_timers).
THEOREM TimerKept == TimerSpec => []NotForgotten
  <1>1. TInv => NotForgotten BY Zenon DEF TInv, Kept
  <1>2. QED BY <1>1, TimersInv, PTL

\* The main thread watches a time no later than that of the timer in the heap (jobs_check_all_timers).
THEOREM TimerWatched == TimerSpec => []Watched
  <1>1. TInv => Watched BY Zenon DEF TInv, Kept
  <1>2. QED BY <1>1, TimersInv, PTL

\* All three: references, requests and the watch over the heap.
THEOREM TimersKept == TimerSpec => []TimersSafe
  BY TimerReferences, TimerKept, TimerWatched, PTL DEF TimersSafe

(***************************************************************************)
(* The shared statistics.  Where the worker is in an update decides what   *)
(* both copies hold.                                                       *)
(***************************************************************************)
Place(k) == IF at = 0 THEN 5 ELSE at - 4 * (k - 1)
Counted(k) == IF Place(k) <= 1 THEN 2 * update - 2 ELSE IF Place(k) <= 4 THEN 2 * update - 1 ELSE 2 * update
Written(k) ==
  /\ copy[k].cnt = Counted(k)
  /\ copy[k].a = IF Place(k) <= 2 THEN update - 1 ELSE update
  /\ copy[k].b = IF Place(k) <= 3 THEN update - 1 ELSE update

StatsTypes ==
  /\ copy \in [Copies -> [cnt : Nat, a : Nat, b : Nat]]
  /\ update \in Nat /\ at \in 0 .. 8 /\ whole \in Nat
  /\ rd \in [pc : {"idle", "second", "first", "a", "b", "again", "added"},
             F : 0 .. 2, s : Nat, W : [a : Nat, b : Nat], began : Nat]

\* What the parent has taken so far from a copy whose cnt has not moved is one update's.
ReadSoFar ==
  /\ rd.began <= whole
  /\ rd.pc \in {"a", "b", "again"} =>
       /\ rd.F \in Copies /\ 2 * rd.began <= rd.s /\ rd.s <= copy[rd.F].cnt
       /\ rd.s % 2 = 0
  /\ rd.pc \in {"b", "again"} => (copy[rd.F].cnt = rd.s => 2 * rd.W.a = rd.s)
  /\ rd.pc = "again" => (copy[rd.F].cnt = rd.s => 2 * rd.W.b = rd.s)

StatsInv ==
  /\ StatsTypes /\ ReadSoFar /\ StatsSafe
  /\ whole = IF at = 0 THEN update ELSE update - 1
  /\ at > 0 => update > 0
  /\ \A k \in Copies : Written(k)

\* The stores of update_local_stats: four for each copy.
LEMMA Stores ==
  /\ Len(update_local_stats) = 8
  /\ update_local_stats[1] = <<1, "cnt">> /\ update_local_stats[2] = <<1, "a">>
  /\ update_local_stats[3] = <<1, "b">> /\ update_local_stats[4] = <<1, "cnt">>
  /\ update_local_stats[5] = <<2, "cnt">> /\ update_local_stats[6] = <<2, "a">>
  /\ update_local_stats[7] = <<2, "b">> /\ update_local_stats[8] = <<2, "cnt">>
BY DEF update_local_stats, update_local_stats_copy

\* cnt is odd while a copy is being written.
LEMMA Odd == \A n \in Nat : (2 * n - 1) % 2 = 1
OBVIOUS

\* One store of the worker changes one field of one copy.
LEMMA OneStore ==
  ASSUME StatsInv, Store
  PROVE  /\ at \in 1 .. 8 /\ at' = IF at = 8 THEN 0 ELSE at + 1
         /\ whole' = IF at = 8 THEN update ELSE whole
         /\ update' = update /\ rd' = rd
         /\ copy' \in [Copies -> [cnt : Nat, a : Nat, b : Nat]]
         /\ \A k \in Copies :
              /\ copy'[k].cnt = IF Place(k) \in {1, 4} /\ at > 0 THEN copy[k].cnt + 1 ELSE copy[k].cnt
              /\ copy'[k].a = IF Place(k) = 2 THEN update ELSE copy[k].a
              /\ copy'[k].b = IF Place(k) = 3 THEN update ELSE copy[k].b
<1>1. /\ at \in 1 .. 8 /\ update' = update /\ rd' = rd
  BY DEF StatsInv, StatsTypes, Store
<1>2. at' = (IF at = 8 THEN 0 ELSE at + 1) /\ whole' = IF at = 8 THEN update ELSE whole
  BY Stores DEF Store
<1>3. copy \in [Copies -> [cnt : Nat, a : Nat, b : Nat]] /\ update \in Nat
  BY DEF StatsInv, StatsTypes
<1>4. copy' = [copy EXCEPT ![update_local_stats[at][1]][update_local_stats[at][2]] =
                 IF update_local_stats[at][2] = "cnt" THEN @ + 1 ELSE update]
  BY DEF Store
<1> HIDE DEF StatsInv, Store
<1>5. CASE at = 1
  <2>1. copy' = [copy EXCEPT ![1]["cnt"] = @ + 1]
    BY <1>4, <1>5, Stores
  <2> QED BY <1>1, <1>2, <1>3, <2>1, <1>5 DEF Place, Copies
<1>6. CASE at = 2
  <2>1. copy' = [copy EXCEPT ![1]["a"] = update]
    BY <1>4, <1>6, Stores
  <2> QED BY <1>1, <1>2, <1>3, <2>1, <1>6 DEF Place, Copies
<1>7. CASE at = 3
  <2>1. copy' = [copy EXCEPT ![1]["b"] = update]
    BY <1>4, <1>7, Stores
  <2> QED BY <1>1, <1>2, <1>3, <2>1, <1>7 DEF Place, Copies
<1>8. CASE at = 4
  <2>1. copy' = [copy EXCEPT ![1]["cnt"] = @ + 1]
    BY <1>4, <1>8, Stores
  <2> QED BY <1>1, <1>2, <1>3, <2>1, <1>8 DEF Place, Copies
<1>9. CASE at = 5
  <2>1. copy' = [copy EXCEPT ![2]["cnt"] = @ + 1]
    BY <1>4, <1>9, Stores
  <2> QED BY <1>1, <1>2, <1>3, <2>1, <1>9 DEF Place, Copies
<1>10. CASE at = 6
  <2>1. copy' = [copy EXCEPT ![2]["a"] = update]
    BY <1>4, <1>10, Stores
  <2> QED BY <1>1, <1>2, <1>3, <2>1, <1>10 DEF Place, Copies
<1>11. CASE at = 7
  <2>1. copy' = [copy EXCEPT ![2]["b"] = update]
    BY <1>4, <1>11, Stores
  <2> QED BY <1>1, <1>2, <1>3, <2>1, <1>11 DEF Place, Copies
<1>12. CASE at = 8
  <2>1. copy' = [copy EXCEPT ![2]["cnt"] = @ + 1]
    BY <1>4, <1>12, Stores
  <2> QED BY <1>1, <1>2, <1>3, <2>1, <1>12 DEF Place, Copies
<1> QED BY <1>1, <1>5, <1>6, <1>7, <1>8, <1>9, <1>10, <1>11, <1>12

\* What the parent adds up is what one update wrote, and no older than the last one that was whole
\* when compute_stats_sum began: an invariant of each step, killed workers included.
LEMMA StatsStep ==
  ASSUME StatsInv, [StatsNext]_statsVars
  PROVE  StatsInv'
<1>1. CASE Begin
  <2>1. StatsTypes' /\ at' = 1 /\ update' = update + 1 /\ whole' = whole /\ rd' = rd /\ copy' = copy /\ at = 0
    BY <1>1 DEF Begin, StatsInv, StatsTypes
  <2>2. ReadSoFar' /\ StatsSafe'
    BY <2>1 DEF StatsInv, StatsTypes, ReadSoFar, StatsSafe, NoTorn, Fresh
  <2>3. \A k \in Copies : Written(k)'
    BY <2>1 DEF StatsInv, StatsTypes, Written, Counted, Place, Copies
  <2> QED BY <2>1, <2>2, <2>3 DEF StatsInv, StatsTypes
<1>2. CASE Store
  <2>1. /\ at \in 1 .. 8 /\ at' = IF at = 8 THEN 0 ELSE at + 1
        /\ whole' = IF at = 8 THEN update ELSE whole
        /\ update' = update /\ rd' = rd
        /\ copy' \in [Copies -> [cnt : Nat, a : Nat, b : Nat]]
        /\ \A k \in Copies :
             /\ copy'[k].cnt = IF Place(k) \in {1, 4} /\ at > 0 THEN copy[k].cnt + 1 ELSE copy[k].cnt
             /\ copy'[k].a = IF Place(k) = 2 THEN update ELSE copy[k].a
             /\ copy'[k].b = IF Place(k) = 3 THEN update ELSE copy[k].b
    BY <1>2, OneStore
  <2>2. StatsTypes' /\ (whole' = IF at' = 0 THEN update' ELSE update' - 1) /\ (at' > 0 => update' > 0) /\ whole <= whole'
    BY <2>1 DEF StatsInv, StatsTypes
  <2>3. ASSUME NEW k \in Copies PROVE Written(k)'
    BY <2>1 DEF StatsInv, StatsTypes, Written, Counted, Place, Copies
  <2>4. \A k \in Copies : copy[k].cnt <= copy'[k].cnt /\ copy[k].cnt \in Nat /\ copy'[k].cnt \in Nat
    BY <2>1 DEF StatsInv, StatsTypes
  <2>5. ReadSoFar'
    BY <2>1, <2>2, <2>4 DEF StatsInv, StatsTypes, ReadSoFar
  <2> QED BY <2>1, <2>2, <2>3, <2>5 DEF StatsInv, StatsSafe, NoTorn, Fresh
<1>3. CASE Kill \/ UNCHANGED statsVars
  BY <1>3 DEF Kill, statsVars, StatsInv, StatsTypes, ReadSoFar, StatsSafe, NoTorn, Fresh, Written, Counted, Place
<1>4. ASSUME UNCHANGED <<copy, update, at, whole, killed>>, StatsTypes', ReadSoFar', StatsSafe' PROVE StatsInv'
  BY <1>4 DEF StatsInv, Written, Counted, Place
<1>5. CASE Sum
  BY <1>4, <1>5 DEF Sum, Reader, StatsInv, StatsTypes, ReadSoFar, StatsSafe, NoTorn, Fresh
<1>6. CASE PickCopy
  <2> DEFINE k == IF rd.pc = "second" THEN 2 ELSE 1
  <2>1. k \in Copies /\ copy[k].cnt \in Nat
    BY DEF StatsInv, StatsTypes, Copies
  <2> HIDE DEF k
  <2>2. Even(k) => 2 * rd.began <= copy[k].cnt
    <3>1. Written(k) /\ Place(k) \in Int
      BY <2>1 DEF StatsInv, StatsTypes, Place, Copies
    <3>2. Even(k) => copy[k].cnt # 2 * update - 1
      BY <2>1, Odd DEF Even, StatsInv, StatsTypes
    <3>3. rd.began <= whole /\ whole \in Nat /\ update \in Nat /\ rd.began \in Nat
      BY DEF StatsInv, StatsTypes, ReadSoFar
    <3>4. Place(k) <= 1 \/ Place(k) > 4 => 2 * whole <= Counted(k)
      BY <2>1 DEF StatsInv, StatsTypes, Counted, Place, Copies
    <3> QED BY <3>1, <3>2, <3>3, <3>4 DEF Written, Counted
  <2>3. CASE Even(k)
    <3>1. rd' = [rd EXCEPT !.pc = "a", !.F = k, !.s = copy[k].cnt]
      BY <1>6, <2>3 DEF PickCopy, k
    <3>2. UNCHANGED <<copy, update, at, whole, killed>>
      BY <1>6 DEF PickCopy
    <3>3. StatsTypes' /\ StatsSafe'
      <4>1. k \in 0 .. 2
        BY <2>1 DEF Copies
      <4>2. StatsTypes'
        BY <2>1, <4>1, <3>1, <3>2, Zenon DEF StatsInv, StatsTypes
      <4>3. rd'.pc = "a"
        BY <3>1 DEF StatsInv, StatsTypes
      <4> QED BY <4>2, <4>3 DEF StatsSafe, NoTorn, Fresh
    <3>4. /\ rd'.pc = "a" /\ rd'.F = k /\ rd'.s = copy[k].cnt /\ rd'.began = rd.began
      BY <3>1 DEF StatsInv, StatsTypes
    <3>5. copy' = copy /\ whole' = whole /\ k \in Copies /\ copy[k].cnt <= copy[k].cnt
      BY <2>1, <3>2
    <3>6. rd.began <= whole /\ 2 * rd.began <= copy[k].cnt /\ copy[k].cnt % 2 = 0
      BY <2>2, <2>3 DEF StatsInv, ReadSoFar, Even
    <3>7. ReadSoFar'
      BY <3>4, <3>5, <3>6 DEF ReadSoFar
    <3> QED BY <3>2, <3>3, <3>7, <1>4
  <2>4. CASE ~Even(k)
    BY <1>4, <1>6, <2>4 DEF PickCopy, k, StatsInv, StatsTypes, ReadSoFar, StatsSafe, NoTorn, Fresh
  <2> QED BY <2>3, <2>4
<1>7. CASE CopyField
  <2>0. UNCHANGED <<copy, update, at, whole, killed>> /\ rd.pc \in {"a", "b"}
    BY <1>7 DEF CopyField
  <2>1. rd.F \in Copies /\ copy[rd.F] \in [cnt : Nat, a : Nat, b : Nat] /\ Written(rd.F)
    BY <2>0 DEF StatsInv, StatsTypes, ReadSoFar
  <2>2. copy[rd.F].cnt = rd.s => 2 * copy[rd.F].a = rd.s /\ 2 * copy[rd.F].b = rd.s
    <3>1. Place(rd.F) \in Int /\ update \in Nat
      BY <2>1 DEF StatsInv, StatsTypes, Place, Copies
    <3>2. copy[rd.F].cnt = rd.s => copy[rd.F].cnt # 2 * update - 1
      BY <2>0, <3>1, Odd DEF StatsInv, ReadSoFar
    <3> QED BY <2>1, <3>1, <3>2 DEF Written, Counted
  <2>3. CASE rd.pc = "a"
    BY <1>4, <1>7, <2>0, <2>1, <2>2, <2>3, Zenon DEF CopyField, StatsInv, StatsTypes, ReadSoFar, StatsSafe, NoTorn, Fresh
  <2>4. CASE rd.pc = "b"
    BY <1>4, <1>7, <2>0, <2>1, <2>2, <2>4, Zenon DEF CopyField, StatsInv, StatsTypes, ReadSoFar, StatsSafe, NoTorn, Fresh
  <2> QED BY <2>0, <2>3, <2>4
<1>8. CASE Recheck
  BY <1>4, <1>8 DEF Recheck, StatsInv, StatsTypes, ReadSoFar, StatsSafe, NoTorn, Fresh
<1> QED BY <1>1, <1>2, <1>3, <1>5, <1>6, <1>7, <1>8 DEF StatsNext

\* StatsSafe for any number of updates: compute_stats_sum never adds a torn or an outdated copy.
THEOREM StatsKept == StatsSpec => []StatsSafe
<1>1. StatsInit => StatsInv
  BY DEF StatsInit, StatsInv, StatsTypes, ReadSoFar, StatsSafe, NoTorn, Fresh, Written, Counted, Place, Reader, Copies
<1>2. StatsInv /\ [StatsNext]_statsVars => StatsInv'
  BY StatsStep
<1>3. StatsInv => StatsSafe
  BY DEF StatsInv
<1> QED BY <1>1, <1>2, <1>3, PTL DEF StatsSpec

(***************************************************************************)
(* The processes.                                                          *)
(***************************************************************************)
FamilyTypes ==
  /\ state \in [Proc -> {"none", "boot", "run", "wait", "zombie", "gone"}]
  /\ sent \in [Proc -> SUBSET {"TERM", "INT", "USR1", "KILL"}]
  /\ pids \in SUBSET Worker

\* While the parent lives it has the pid of every worker that lives, and has waited for none of
\* those whose pid it has; it is gone when it has ended by exit().
FamilyInv ==
  /\ FamilyTypes /\ WorkersSafe
  /\ orderly => state[0] = "gone"
  /\ Alive(0) => /\ \A w \in Worker : Alive(w) => w \in pids
                 /\ \A w \in pids : state[w] # "gone"

\* Signals that stop nobody keep the invariant: kill reaches live children only.
LEMMA Signalling ==
  ASSUME FamilyInv,
         NEW S \in SUBSET pids, NEW reaped, S \cap reaped = {}, Alive(0),
         NEW sig \in {"TERM", "INT", "USR1", "KILL"}, Kills(S, reaped, sig)
  PROVE  /\ sent' \in [Proc -> SUBSET {"TERM", "INT", "USR1", "KILL"}]
         /\ stray' = FALSE /\ \A p \in Proc : sent[p] \subseteq sent'[p]
         /\ \A p \in S : Alive(p) => sig \in sent'[p]
<1>1. \A p \in S : p \in Proc /\ p \notin reaped /\ state[p] # "gone"
  BY DEF FamilyInv, FamilyTypes, Worker, Proc
<1>2. stray' = (stray \/ \E p \in S : p \in reaped \/ state[p] = "gone") /\ stray = FALSE
  BY DEF Kills, FamilyInv, WorkersSafe, OnlyChildren
<1>3. sent' = [p \in Proc |-> IF p \in S /\ Alive(p) THEN sent[p] \cup {sig} ELSE sent[p]]
  BY DEF Kills
<1>4. sent \in [Proc -> SUBSET {"TERM", "INT", "USR1", "KILL"}]
  BY DEF FamilyInv, FamilyTypes
<1> QED BY <1>1, <1>2, <1>3, <1>4, Zenon

\* A step that starts no process, signals no stranger and keeps what is on its way to a process
\* that lives on keeps the invariant, when the parent lives on or ends without exit().
LEMMA Quiet ==
  ASSUME FamilyInv, FamilyTypes', stray' = FALSE, orderly' = orderly,
         \A p \in Proc : Alive(p)' => Alive(p),
         \A p \in Proc : "KILL" \in sent[p] /\ Alive(p)' => "KILL" \in sent'[p],
         pids' = pids, state[0] = "gone" => state'[0] = "gone",
         \A w \in Worker : state'[w] = "gone" => state[w] = "gone" \/ ~Alive(0)'
  PROVE  FamilyInv'
<1>1. Worker \subseteq Proc /\ 0 \in Proc
  BY WorkersAssumption DEF Worker, Proc
<1>2. NoneLeftBehind'
  BY <1>1 DEF FamilyInv, WorkersSafe, NoneLeftBehind
<1>3. WorkersSafe'
  BY <1>2 DEF WorkersSafe, OnlyChildren
<1>4. Worker' = Worker
  BY DEF Worker
<1>5. Alive(0)' => (\A w \in Worker' : Alive(w)' => w \in pids') /\ \A w \in pids' : state'[w] # "gone"
  BY <1>1, <1>4 DEF FamilyInv, FamilyTypes
<1> QED BY <1>3, <1>5 DEF FamilyInv

\* The end of a process: it lives no more, and nobody else does who did not.
LEMMA Ending ==
  ASSUME FamilyInv, NEW p \in Proc, Alive(p), Ends(p)
  PROVE  /\ state' \in [Proc -> {"none", "boot", "run", "wait", "zombie", "gone"}]
         /\ ~Alive(p)' /\ \A q \in Proc : Alive(q)' => Alive(q)
         /\ state[0] = "gone" => state'[0] = "gone"
         /\ \A w \in Worker : state'[w] = "gone" => state[w] = "gone" \/ ~Alive(0)'
<1>1. state \in [Proc -> {"none", "boot", "run", "wait", "zombie", "gone"}] /\ 0 \in Proc /\ Worker \subseteq Proc
  BY WorkersAssumption DEF FamilyInv, FamilyTypes, Proc, Worker
<1>2. CASE p = 0
  BY <1>1, <1>2 DEF Ends, Alive
<1>3. CASE p # 0
  BY <1>1, <1>3 DEF Ends, Alive
<1> QED BY <1>2, <1>3

\* Whatever the order of signals, crashes and turns of the loops, the invariant is kept.
LEMMA FamilyStep ==
  ASSUME FamilyInv, [WorkersNext]_workersVars
  PROVE  FamilyInv'
<1>0. /\ Worker \subseteq Proc /\ 0 \in Proc /\ FamilyTypes /\ stray = FALSE
  BY WorkersAssumption DEF FamilyInv, WorkersSafe, OnlyChildren, Worker, Proc
<1>1. CASE Fork
  <2>2. PICK w \in Worker :
          /\ state[0] = "boot" /\ w # 0 /\ pids' = pids \cup {w} /\ state' = [state EXCEPT ![w] = "boot"]
          /\ sent' = sent /\ stray' = stray /\ orderly' = orderly
    <3>1. \A w \in Worker : w # 0
      BY WorkersAssumption DEF Worker
    <3> QED BY <1>1, <3>1, Zenon DEF Fork
  <2>4. ~orderly
    BY <2>2 DEF FamilyInv
  <2>5. FamilyTypes'
    BY <1>0, <2>2 DEF FamilyTypes, Proc, Worker
  <2>6. WorkersSafe'
    BY <2>2, <2>4 DEF FamilyInv, WorkersSafe, NoneLeftBehind, OnlyChildren
  <2>7. /\ \A v \in Worker : Alive(v)' => v \in pids'
        /\ \A v \in pids' : state'[v] # "gone"
    BY <1>0, <2>2 DEF FamilyInv, FamilyTypes, Alive
  <2> QED BY <2>2, <2>4, <2>5, <2>6, <2>7 DEF FamilyInv, Worker
<1>2. ASSUME NEW p \in Proc, server_init(p) PROVE FamilyInv'
  <2>1. sent' = sent /\ pids' = pids /\ stray' = stray /\ orderly' = orderly /\ state[p] = "boot"
    BY <1>2 DEF server_init
  <2>2. CASE Ends(p)
    BY <1>0, <2>1, <2>2, Ending, Quiet, Zenon DEF FamilyTypes, Alive, Worker, Proc
  <2>3. CASE state' = [state EXCEPT ![p] = "run"]
    <3>1. FamilyTypes' /\ \A q \in Proc : Alive(q)' => Alive(q)
      BY <1>0, <2>1, <2>3 DEF FamilyTypes, Alive, Worker, Proc
    <3>2. (state[0] = "gone" => state'[0] = "gone") /\ \A w \in Worker : state'[w] = "gone" => state[w] = "gone"
      BY <1>0, <2>1, <2>3 DEF FamilyTypes
    <3> QED BY <1>0, <2>1, <3>1, <3>2, Quiet, Zenon
  <2> QED BY <1>2, <2>2, <2>3 DEF server_init
<1>3. ASSUME NEW p \in Proc, NEW sig \in {"TERM", "INT", "USR1", "KILL"}, Outside(p, sig) PROVE FamilyInv'
  <2>1. /\ sent' = [sent EXCEPT ![p] = @ \cup {sig}] /\ state' = state /\ pids' = pids
        /\ stray' = stray /\ orderly' = orderly
    BY <1>3 DEF Outside
  <2>2. FamilyTypes' /\ \A q \in Proc : sent[q] \subseteq sent'[q]
    BY <1>0, <2>1 DEF FamilyTypes, Worker, Proc
  <2> QED BY <1>0, <2>1, <2>2, Quiet, Zenon DEF Alive
<1>4. ASSUME NEW p \in Proc, NEW sig \in {"TERM", "INT", "USR1", "KILL"}, Deliver(p, sig) PROVE FamilyInv'
  <2>1. /\ sent' = [sent EXCEPT ![p] = @ \ {sig}] /\ pids' = pids /\ stray' = stray /\ orderly' = orderly /\ Alive(p)
    BY <1>4 DEF Deliver
  <2>2. CASE Ends(p)
    BY <1>0, <2>1, <2>2, Ending, Quiet, Zenon DEF FamilyTypes, Worker, Proc
  <2>3. CASE state' = state /\ sig # "KILL"
    <3>1. FamilyTypes' /\ \A q \in Proc : "KILL" \in sent[q] => "KILL" \in sent'[q]
      BY <1>0, <2>1, <2>3 DEF FamilyTypes, Worker, Proc
    <3> QED BY <1>0, <2>1, <2>3, <3>1, Quiet, Zenon DEF Alive
  <2> QED BY <1>4, <2>2, <2>3 DEF Deliver
<1>5. ASSUME NEW p \in Proc, Process(p) \/ Reopen(p) PROVE FamilyInv'
  <2>1. sent' = sent /\ state' = state /\ pids' = pids /\ stray' = stray /\ orderly' = orderly
    BY <1>5 DEF Process, Reopen
  <2>2. FamilyTypes'
    BY <1>0, <2>1 DEF FamilyTypes, Worker, Proc
  <2> QED BY <1>0, <2>1, <2>2, Quiet, Zenon DEF Alive
<1>6. ASSUME NEW p \in Proc, Return(p) PROVE FamilyInv'
  <2>1. state' = state /\ pids' = pids /\ orderly' = orderly /\ state[p] = "run"
    BY <1>6 DEF Return
  <2>2. /\ sent' \in [Proc -> SUBSET {"TERM", "INT", "USR1", "KILL"}]
        /\ stray' = FALSE /\ \A q \in Proc : sent[q] \subseteq sent'[q]
    <3>1. CASE p = 0
      BY <1>0, <1>6, <2>1, <3>1, Signalling, Zenon DEF Return, Alive
    <3>2. CASE p # 0
      BY <1>0, <1>6, <3>2 DEF Return, FamilyTypes
    <3> QED BY <3>1, <3>2, Zenon
  <2>3. FamilyTypes'
    BY <1>0, <2>1, <2>2 DEF FamilyTypes, Worker, Proc
  <2> QED BY <1>0, <2>1, <2>2, <2>3, Quiet, Zenon DEF Alive
<1>7. ASSUME NEW w \in Worker, Orphaned(w) \/ Crash(w) PROVE FamilyInv'
  <2>1. sent' = sent /\ pids' = pids /\ stray' = stray /\ orderly' = orderly /\ Alive(w) /\ Ends(w) /\ w \in Proc
    BY <1>0, <1>7 DEF Orphaned, Crash, Alive
  <2> QED BY <1>0, <2>1, Ending, Quiet, Zenon DEF FamilyTypes, Worker, Proc
<1>8. ASSUME NEW p \in Proc, Exit(p) PROVE FamilyInv'
  <2>1. pids' = pids /\ orderly' = orderly /\ state[p] = "run"
    BY <1>8 DEF Exit
  <2>2. /\ sent' \in [Proc -> SUBSET {"TERM", "INT", "USR1", "KILL"}]
        /\ stray' = FALSE /\ \A q \in Proc : sent[q] \subseteq sent'[q]
    <3>1. CASE p = 0 /\ "TERM" \in pending[0]
      BY <1>0, <1>8, <2>1, <3>1, Signalling, Zenon DEF Exit, Alive
    <3>2. CASE ~(p = 0 /\ "TERM" \in pending[0])
      BY <1>0, <1>8, <3>2 DEF Exit, FamilyTypes
    <3> QED BY <3>1, <3>2, Zenon
  <2>3. CASE p # 0
    BY <1>0, <1>8, <2>1, <2>2, <2>3, Ending, Quiet, Zenon DEF Exit, FamilyTypes, Alive, Worker, Proc
  <2>4. CASE p = 0
    <3>1. state' = [state EXCEPT ![0] = "wait"]
      BY <1>8, <2>4 DEF Exit
    <3>2. FamilyTypes' /\ \A q \in Proc : Alive(q)' => Alive(q)
      BY <1>0, <2>1, <2>2, <2>4, <3>1 DEF FamilyTypes, Alive, Worker, Proc
    <3>3. (state[0] = "gone" => state'[0] = "gone") /\ \A w \in Worker : state'[w] = "gone" => state[w] = "gone"
      BY <1>0, <2>1, <2>4, <3>1 DEF FamilyTypes
    <3> QED BY <1>0, <2>1, <2>2, <3>2, <3>3, Quiet, Zenon
  <2> QED BY <2>3, <2>4
<1>9. ASSUME NEW w \in Worker, Status(w) PROVE FamilyInv'
  <2>1. /\ state[0] = "run" /\ w \in pids /\ state[w] = "zombie" /\ pids' = pids \ {w} /\ orderly' = orderly
        /\ state' = [state EXCEPT ![0] = "wait", ![w] = "gone"] /\ w # 0 /\ w \in Proc
    BY <1>0, <1>9 DEF Status, Worker
  <2>2. /\ sent' \in [Proc -> SUBSET {"TERM", "INT", "USR1", "KILL"}] /\ stray' = FALSE
    BY <1>0, <1>9, <2>1, Signalling, Zenon DEF Status, Alive
  <2>3. ~orderly
    BY <2>1 DEF FamilyInv
  <2>4. FamilyTypes'
    BY <1>0, <2>1, <2>2 DEF FamilyTypes, Worker, Proc
  <2>5. /\ \A v \in Worker : Alive(v)' => v \in pids'
        /\ \A v \in pids' : state'[v] # "gone"
    BY <1>0, <2>1 DEF FamilyInv, FamilyTypes, Alive, Worker
  <2> QED BY <2>1, <2>2, <2>3, <2>4, <2>5, Zenon DEF FamilyInv, WorkersSafe, NoneLeftBehind, OnlyChildren, Worker
<1>10. CASE Dead
  <2> DEFINE left == pids \ Reaped
             last == left = {} \/ turn + 1 = Tries
  <2>1. /\ state[0] = "wait" /\ pids' = left /\ orderly' = last
        /\ IF last THEN Kills(left, Reaped, "KILL") ELSE sent' = sent /\ stray' = stray
        /\ state' = [p \in Proc |-> IF p \in (Reaped \cup IF last THEN {0} ELSE {}) \/ (last /\ state[p] = "zombie")
                                    THEN "gone" ELSE state[p]]
    BY <1>10 DEF Dead, Leave
  <2>2. \A w \in Reaped : w \in pids /\ state[w] = "zombie" /\ w \in Worker
    BY <1>0 DEF Reaped, Living, FamilyTypes, Worker
  <2>3. left \in SUBSET pids /\ left \cap Reaped = {} /\ Alive(0)
    BY <2>1 DEF Alive
  <2> HIDE DEF left, last
  <2>4. /\ sent' \in [Proc -> SUBSET {"TERM", "INT", "USR1", "KILL"}] /\ stray' = FALSE
        /\ last => \A p \in left : Alive(p) => "KILL" \in sent'[p]
    <3>1. CASE last
      BY <1>0, <2>1, <2>3, <3>1, Signalling, Zenon
    <3>2. CASE ~last
      BY <1>0, <2>1, <3>2 DEF FamilyTypes
    <3> QED BY <3>1, <3>2, Zenon
  <2>5. FamilyTypes'
    BY <1>0, <2>1, <2>3, <2>4 DEF FamilyTypes, Worker, Proc
  <2>6. \A w \in Worker : Alive(w)' => Alive(w) /\ w \in left
    BY <1>0, <2>1, <2>2 DEF FamilyInv, FamilyTypes, Alive, left
  <2>7. last => state'[0] = "gone"
    BY <1>0, <2>1
  <2>8. NoneLeftBehind'
    BY <2>1, <2>4, <2>6 DEF NoneLeftBehind, Worker
  <2>9. Alive(0)' => \A w \in pids' : state'[w] # "gone"
    <3> SUFFICES ASSUME Alive(0)', NEW w \in left PROVE state'[w] # "gone"
      BY <2>1
    <3>1. ~last
      BY <2>7 DEF Alive
    <3>2. w \in Proc /\ w \notin Reaped /\ state[w] # "gone"
      BY <1>0, <2>3 DEF FamilyInv, FamilyTypes, left
    <3> QED BY <2>1, <3>1, <3>2
  <2> QED BY <2>1, <2>4, <2>5, <2>6, <2>7, <2>8, <2>9 DEF FamilyInv, WorkersSafe, OnlyChildren, Worker
<1>11. CASE UNCHANGED workersVars
  <2>1. sent' = sent /\ state' = state /\ pids' = pids /\ stray' = stray /\ orderly' = orderly
    BY <1>11 DEF workersVars
  <2>2. FamilyTypes'
    BY <1>0, <2>1 DEF FamilyTypes, Worker, Proc
  <2> QED BY <1>0, <2>1, <2>2, Quiet, Zenon DEF Alive
<1> QED BY <1>0, <1>1, <1>2, <1>3, <1>4, <1>5, <1>6, <1>7, <1>8, <1>9, <1>10, <1>11
        DEF WorkersNext, Parent, Done, ProcStep

\* WorkersSafe for any number of workers, tries and signals: when the parent has ended by exit() no
\* worker goes on, and it never signalled a pid it had waited for.
THEOREM WorkersKept == WorkersSpec => []WorkersSafe
<1>1. WorkersInit => FamilyInv
  BY WorkersAssumption DEF WorkersInit, FamilyInv, FamilyTypes, WorkersSafe, NoneLeftBehind, OnlyChildren, Alive, Worker, Proc
<1>2. FamilyInv /\ [WorkersNext]_workersVars => FamilyInv'
  BY FamilyStep
<1>3. FamilyInv => WorkersSafe
  BY DEF FamilyInv
<1> QED BY <1>1, <1>2, <1>3, PTL DEF WorkersSpec
=============================================================================
