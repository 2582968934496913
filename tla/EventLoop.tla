----------------------------- MODULE EventLoop ------------------------------
(***************************************************************************)
(* The event loop of the main thread (net/net-events.c): a round of        *)
(* epoll_work fetches the ready descriptors into a heap by priority (the   *)
(* listening sockets of the clients come last), runs the heap, and then    *)
(* the main thread runs its jobs, which may close sockets.  A termination  *)
(* signal leaves the heap as it is, and one more round of jobs follows.    *)
(*                                                                         *)
(* A descriptor is never fetched while it is in the heap, because every    *)
(* round empties it (BatchHandled); the path of put_event_into_heap that   *)
(* leaves a hole for such an event is not taken and not modelled.          *)
(***************************************************************************)
EXTENDS Integers, Sequences

CONSTANTS Fd, Prio(_)     \* the descriptors and the priority of each

VARIABLES ev_heap,        \* the events, from 1
          in_queue,       \* the place of each, 0 if it has none
          age,            \* ev_timestamp less the timestamp of the events in the heap
          live,           \* descriptors with a handler and its data
          epoll,          \* those registered with epoll (EVT_IN_EPOLL)
          term,           \* SIGTERM or SIGINT was received
          pc
vars == <<ev_heap, in_queue, age, live, epoll, term, pc>>

Init ==
  /\ ev_heap = <<>> /\ in_queue = [d \in Fd |-> 0] /\ age = 0
  /\ live = Fd /\ epoll = Fd /\ term = FALSE /\ pc = "first"

(***************************************************************************)
(* The heap.  All the events of a round have one timestamp, so greater_ev  *)
(* compares priorities.                                                    *)
(***************************************************************************)
greater_ev(x, y) == Prio(x) > Prio(y)
Put(H, i, d) == [h |-> [H.h EXCEPT ![i] = d], x |-> [H.x EXCEPT ![d] = i]]
\* the child that moves up, of the two of place i in a heap of n
Child_Left(H, i, n) == 2 * i
Child(H, i, n) == IF 2 * i < n /\ greater_ev(H.h[2 * i], H.h[2 * i + 1]) THEN 2 * i + 1 ELSE 2 * i
RECURSIVE Up(_, _, _)
Up(H, d, i) ==
  IF i > 1 /\ greater_ev(H.h[i \div 2], d) THEN Up(Put(H, i, H.h[i \div 2]), d, i \div 2)
  ELSE Put(H, i, d)
RECURSIVE Down(_, _, _, _)
Down(H, d, i, n) ==
  IF 2 * i <= n /\ greater_ev(d, H.h[Child(H, i, n)])
  THEN Down(Put(H, i, H.h[Child(H, i, n)]), d, Child(H, i, n), n)
  ELSE Put(H, i, d)
\* the hole left at i goes down to a leaf, the lesser child moving up
RECURSIVE Sunk(_, _, _)
Sunk(H, i, n) ==
  IF 2 * i > n THEN [H |-> H, i |-> i]
  ELSE Sunk(Put(H, i, H.h[Child(H, i, n)]), Child(H, i, n), n)

Heap == [h |-> ev_heap, x |-> in_queue]
Cut(H) == [H EXCEPT !.h = SubSeq(@, 1, Len(@) - 1)]
Become(H) == ev_heap' = H.h /\ in_queue' = H.x

pop_heap_head ==
  LET n == Len(ev_heap)  H == [Heap EXCEPT !.x[ev_heap[1]] = 0] IN
  IF n = 1 THEN Cut(H) ELSE Cut(Down(H, ev_heap[n], 1, n - 1))

remove_event_from_heap(d) ==
  LET n == Len(ev_heap)  s == Sunk([Heap EXCEPT !.x[d] = 0], in_queue[d], n) IN
  IF in_queue[d] = 0 THEN Heap
  ELSE IF s.i < n THEN Cut(Up(s.H, ev_heap[n], s.i)) ELSE Cut(s.H)

put_event_into_heap(d) ==
  Up([Heap EXCEPT !.h = Append(@, d)], d, Len(ev_heap) + 1)

(***************************************************************************)
(* A round: "first" and "last" are its two calls of epoll_runqueue.        *)
(***************************************************************************)
\* epoll_runqueue begins: ev_timestamp += 2 if there is anything to run
Running == [first |-> "first_run", last |-> "last_run"]
Tick ==
  /\ pc \in DOMAIN Running
  /\ age' = IF ev_heap = <<>> THEN age ELSE age + 2
  /\ pc' = Running[pc]
  /\ UNCHANGED <<ev_heap, in_queue, live, epoll, term>>

\* one turn of its loop: the handler asks to go on, or (an error, or the data
\* is gone) to be removed from epoll
Goes == ev_heap # <<>> /\ age > 0 /\ ~term
RunOne ==
  /\ pc \in {"first_run", "last_run"} /\ Goes
  /\ Become(pop_heap_head)
  /\ epoll' \in {epoll, epoll \ {ev_heap[1]}}
  /\ UNCHANGED <<age, live, term, pc>>

\* the loop ends; epoll_work goes on to fetch events, or returns
RunEnd ==
  /\ pc \in {"first_run", "last_run"} /\ ~Goes
  /\ pc' = CASE pc = "last_run" \/ term -> "jobs"
             [] pc = "first_run" /\ ~term /\ ev_heap # <<>> -> "first"
             [] OTHER -> "fetch"
  /\ age' = IF ev_heap = <<>> THEN 0 ELSE age
  /\ UNCHANGED <<ev_heap, in_queue, live, epoll, term>>

\* epoll_fetch_events: the ready descriptors, in any order
Fetch(d) ==
  /\ pc = "fetch" /\ d \in epoll /\ in_queue[d] = 0
  /\ Become(put_event_into_heap(d))
  /\ UNCHANGED <<age, live, epoll, term, pc>>
Fetched ==
  /\ pc = "fetch" /\ pc' = "last"
  /\ UNCHANGED <<ev_heap, in_queue, age, live, epoll, term>>

\* fail_socket_connection, in a job of the main thread
FailSocket(d) ==
  /\ pc = "jobs" /\ d \in live
  /\ Become(remove_event_from_heap(d))
  /\ live' = live \ {d} /\ epoll' = epoll \ {d}
  /\ UNCHANGED <<age, term, pc>>

\* alloc_new_socket_connection: epoll_sethandler and epoll_insert
Open(d) ==
  /\ pc = "jobs" /\ d \notin live
  /\ live' = live \cup {d} /\ epoll' = epoll \cup {d}
  /\ UNCHANGED <<ev_heap, in_queue, age, term, pc>>

\* default_engine_server_start: after its jobs the thread starts over
Again ==
  /\ pc = "jobs" /\ ~term /\ pc' = "first"
  /\ UNCHANGED <<ev_heap, in_queue, age, live, epoll, term>>

Term ==
  /\ ~term /\ term' = TRUE
  /\ UNCHANGED <<ev_heap, in_queue, age, live, epoll, pc>>

Next ==
  \/ Tick \/ RunOne \/ RunEnd \/ Fetched \/ Again \/ Term
  \/ \E d \in Fd : Fetch(d) \/ FailSocket(d) \/ Open(d)
Spec == Init /\ [][Next]_vars

(***************************************************************************)
(* Properties.                                                             *)
(***************************************************************************)
\* Every event is where its in_queue says, once, and nowhere if it says so.
IndexExact ==
  /\ \A i \in DOMAIN ev_heap : in_queue[ev_heap[i]] = i
  /\ \A d \in Fd : in_queue[d] \in 0 .. Len(ev_heap) /\ (in_queue[d] # 0 => ev_heap[in_queue[d]] = d)

\* The event that is run next has the least priority number of all in the heap: the sockets of
\* clients that wait to be accepted come after every connection that is served, also after
\* removals from the middle.
UrgentFirst == \A i \in DOMAIN ev_heap : Prio(ev_heap[1]) <= Prio(ev_heap[i])

\* No event is in the heap for a descriptor whose socket was closed: it would be handled with the
\* data of a freed connection, or of the next one that gets the number.
OnlyLive == \A i \in DOMAIN ev_heap : ev_heap[i] \in live

\* When the thread comes to its jobs every event it fetched has been handled, unless it is stopping.
BatchHandled == pc = "jobs" /\ ~term => ev_heap = <<>>

\* Events are run in their order, and none for a socket that was closed.
EventsExact == IndexExact /\ UrgentFirst /\ OnlyLive /\ BatchHandled
=============================================================================
