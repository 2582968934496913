----------------------------- MODULE TimerHeap ------------------------------
(***************************************************************************)
(* The timers of a thread of the original program (net/net-timers.c): a    *)
(* binary heap by time, in which every timer knows its own place so that   *)
(* it can be moved or taken out from the middle.                           *)
(***************************************************************************)
EXTENDS Integers, Sequences

CONSTANTS Timer, MaxTime

VARIABLES et_heap,      \* the timers, from 1
          h_idx,        \* the place of each, 0 if it has none
          wakeup_time   \* the time each was last given
vars == <<et_heap, h_idx, wakeup_time>>

Init ==
  /\ et_heap = <<>> /\ h_idx = [t \in Timer |-> 0] /\ wakeup_time = [t \in Timer |-> 0]

(***************************************************************************)
(* basic_et_adjust: from place i of heap h, a hole, up and then down to    *)
(* where et belongs.  w gives the times.  A heap comes with the places.    *)
(***************************************************************************)
Put(H, i, t) == [h |-> [H.h EXCEPT ![i] = t], x |-> [H.x EXCEPT ![t] = i]]
RECURSIVE Up(_, _, _, _)
Up(H, w, t, i) ==
  IF i > 1 /\ w[H.h[i \div 2]] > w[t]
  THEN Up(Put(H, i, H.h[i \div 2]), w, t, i \div 2)
  ELSE [H |-> H, i |-> i]
RECURSIVE Down(_, _, _, _)
Down(H, w, t, i) ==
  LET n == Len(H.h)
      j == IF 2 * i < n /\ w[H.h[2 * i]] > w[H.h[2 * i + 1]] THEN 2 * i + 1 ELSE 2 * i
  IN  IF j <= n /\ w[t] > w[H.h[j]] THEN Down(Put(H, i, H.h[j]), w, t, j)
      ELSE Put(H, i, t)
basic_et_adjust(H, w, t, i) == LET u == Up(H, w, t, i) IN Down(u.H, w, t, u.i)

Heap == [h |-> et_heap, x |-> h_idx]
Become(H) == et_heap' = H.h /\ h_idx' = H.x

\* insert_event_timer: also of a timer that is in the heap, with its new time.
insert_event_timer(t, at) ==
  LET w == [wakeup_time EXCEPT ![t] = at] IN
  /\ wakeup_time' = w
  /\ IF h_idx[t] # 0 THEN Become(basic_et_adjust(Heap, w, t, h_idx[t]))
     ELSE Become(basic_et_adjust([Heap EXCEPT !.h = Append(@, t)], w, t, Len(et_heap) + 1))

\* remove_event_timer: the last one takes the place.
Without(t) ==
  LET n == Len(et_heap)  last == et_heap[n]  i == h_idx[t]
      H == [h |-> SubSeq(et_heap, 1, n - 1), x |-> [h_idx EXCEPT ![t] = 0]]
  IN  IF i = n THEN H ELSE basic_et_adjust(H, wakeup_time, last, i)
remove_event_timer(t) ==
  /\ h_idx[t] # 0 /\ Become(Without(t))
  /\ UNCHANGED <<wakeup_time>>

\* thread_run_timers: the first, when its time has come.
thread_run_timers ==
  /\ et_heap # <<>>
  /\ Become(Without(et_heap[1])) /\ wakeup_time' = [wakeup_time EXCEPT ![et_heap[1]] = 0]

\* Timers are alike: of those that are not in the heap the first is used next.
Chosen(t) == h_idx[t] # 0 \/ \A u \in Timer : h_idx[u] = 0 => t <= u
Next ==
  \/ \E t \in Timer : \/ Chosen(t) /\ \E at \in 1 .. MaxTime : insert_event_timer(t, at)
                       \/ remove_event_timer(t)
  \/ thread_run_timers
Spec == Init /\ [][Next]_vars

(***************************************************************************)
(* Properties.                                                             *)
(***************************************************************************)
\* Every timer is where it says it is, once, and nowhere if it says so.
PlacesExact ==
  /\ \A i \in DOMAIN et_heap : h_idx[et_heap[i]] = i
  /\ \A t \in Timer : h_idx[t] \in 0 .. Len(et_heap) /\ (h_idx[t] # 0 => et_heap[h_idx[t]] = t)

\* The thread sleeps until the first timer of the heap: none in it is due before, after any
\* insertion, move and removal from the middle.
FirstIsEarliest == \A i \in DOMAIN et_heap : wakeup_time[et_heap[1]] <= wakeup_time[et_heap[i]]

\* The heap knows where its timers are and which is the first.
HeapExact == PlacesExact /\ FirstIsEarliest
=============================================================================
