----------------------------- MODULE MsgBuffers -----------------------------
(***************************************************************************)
(* The message buffers (net/net-msg-buffers.c).  Buffers of a size come    *)
(* from chunks; a chunk is used under its own lock, which nobody waits     *)
(* for: who frees a buffer of a locked chunk pushes it to the chunk's      *)
(* queue, and whoever holds the lock empties the queue on locking and on   *)
(* unlocking.  A thread allocates from the chunk it used last, else from   *)
(* any chunk it can lock, else from a new one.  Which of a chunk's free    *)
(* buffers is given is BufferTree's subject.                               *)
(***************************************************************************)
EXTENDS Naturals, Sequences, FiniteSets

CONSTANTS Thread, Chunk, tot_buffers, max_buffer_chunks

VARIABLES
  list,     \* the chunks, from ch_next of the head
  allocated,\* allocated_buffer_chunks
  head,     \* the thread that holds the head's lock, or {}
  lock,     \* of each chunk: {} or {the thread}
  free,     \* the free buffers of each chunk (free_cnt)
  queue,    \* free_block_queue of each chunk
  held,     \* buffers in use
  save,     \* ChunkSave of each thread: {} or {the chunk}
  th        \* each thread: what it does, with which chunk and buffer, what is left of the scan, and
            \* where it goes on when the chunk is unlocked
vars == <<list, allocated, head, lock, free, queue, held, save, th>>

Buffer == Chunk \X (1 .. tot_buffers)
At(pc) == [pc |-> pc, c |-> {}, x |-> {}, scan |-> <<>>, then |-> "idle"]

Init ==
  /\ list = <<>> /\ allocated = 0 /\ head = {} /\ lock = [c \in Chunk |-> {}]
  /\ free = [c \in Chunk |-> {}] /\ queue = [c \in Chunk |-> <<>>] /\ held = {}
  /\ save = [t \in Thread |-> {}] /\ th = [t \in Thread |-> At("idle")]

Goto(t, pc) == th' = [th EXCEPT ![t].pc = pc]
The(S) == CHOOSE e \in S : TRUE
C(t) == The(th[t].c)

\* try_lock_chunk: the compare-and-swap.  The queue is emptied next, at pc.
TryLock(t, c, pc, otherwise) ==
  IF lock[c] = {}
  THEN lock' = [lock EXCEPT ![c] = {t}] /\ th' = [th EXCEPT ![t].pc = pc, ![t].c = {c}]
  ELSE UNCHANGED lock /\ th' = [th EXCEPT ![t].pc = otherwise, ![t].c = {}]

\* one turn of the loop that empties the queue; at its end the thread goes on
Drains == [hint |-> "hinted", scanned |-> "found", freed |-> "give", flush |-> "release",
           leave |-> "release"]
Drain(t) ==
  LET c == C(t) IN
  /\ th[t].pc \in DOMAIN Drains
  /\ IF queue[c] # <<>>
     THEN /\ free' = [free EXCEPT ![c] = @ \cup {Head(queue[c])}]
          /\ queue' = [queue EXCEPT ![c] = Tail(@)]
          /\ UNCHANGED th
     ELSE Goto(t, Drains[th[t].pc]) /\ UNCHANGED <<free, queue>>
  /\ UNCHANGED <<list, allocated, head, lock, held, save>>

\* unlock_chunk: the lock is given up and then the queue looked at once more
Release(t) ==
  /\ th[t].pc = "release"
  /\ lock' = [lock EXCEPT ![C(t)] = {}] /\ Goto(t, "check")
  /\ UNCHANGED <<list, allocated, head, free, queue, held, save>>
Unlocked(t) == th' = [th EXCEPT ![t] = [@ EXCEPT !.pc = th[t].then, !.c = {}, !.then = "idle"]]
Check(t) ==
  /\ th[t].pc = "check"
  /\ IF queue[C(t)] # <<>> /\ lock[C(t)] = {}
     THEN lock' = [lock EXCEPT ![C(t)] = {t}] /\ Goto(t, "leave")
     ELSE UNCHANGED lock /\ Unlocked(t)
  /\ UNCHANGED <<list, allocated, head, free, queue, held, save>>

(***************************************************************************)
(* alloc_msg_buffer_internal.                                              *)
(***************************************************************************)
Alloc(t) ==
  /\ th[t].pc = "idle"
  /\ CASE save[t] = {}  -> Goto(t, "new") /\ UNCHANGED lock
       [] save[t] # {} /\ free[The(save[t])] = {} -> Goto(t, "head") /\ UNCHANGED lock
       [] OTHER         -> TryLock(t, The(save[t]), "hint", "head")
  /\ UNCHANGED <<list, allocated, head, free, queue, held, save>>
\* a chunk without a free buffer after all is unlocked, and the search goes on
Skip(t, then) == th' = [th EXCEPT ![t].pc = "leave", ![t].then = then]
\* the chunk of the last time is locked and has a buffer, or is unlocked again
Hinted(t) ==
  /\ th[t].pc = "hinted"
  /\ IF free[C(t)] # {} THEN Goto(t, "take") ELSE Skip(t, "head")
  /\ UNCHANGED <<list, allocated, head, lock, free, queue, held, save>>

\* the scan of the list under the head's lock, from the chunk of the last time
From(c) == LET i == CHOOSE i \in DOMAIN list : list[i] = c
           IN  SubSeq(list, i, Len(list)) \o SubSeq(list, 1, i - 1)
HeadLock(t) ==
  /\ th[t].pc = "head" /\ head = {}
  /\ head' = {t}
  /\ th' = [th EXCEPT ![t].pc = "scan", ![t].scan = From(The(save[t]))]
  /\ UNCHANGED <<list, allocated, lock, free, queue, held, save>>
Scan(t) ==
  LET s == th[t].scan IN
  /\ th[t].pc = "scan"
  /\ IF s = <<>> THEN head' = {} /\ Goto(t, "new") /\ UNCHANGED lock
     ELSE /\ UNCHANGED head
          /\ IF free[Head(s)] # {} /\ lock[Head(s)] = {}
             THEN /\ lock' = [lock EXCEPT ![Head(s)] = {t}]
                  /\ th' = [th EXCEPT ![t].pc = "scanned", ![t].c = {Head(s)}, ![t].scan = Tail(s)]
             ELSE th' = [th EXCEPT ![t].scan = Tail(s)] /\ UNCHANGED lock
  /\ UNCHANGED <<list, allocated, free, queue, held, save>>
Found(t) ==
  /\ th[t].pc = "found"
  /\ IF free[C(t)] # {} THEN head' = {} /\ Goto(t, "take") ELSE Skip(t, "scan") /\ UNCHANGED head
  /\ UNCHANGED <<list, allocated, lock, free, queue, held, save>>
\* alloc_new_msg_buffers_chunk: the limit is looked at before the head is locked
Used == {list[i] : i \in DOMAIN list}
New(t) ==
  /\ th[t].pc = "new"
  /\ IF allocated >= max_buffer_chunks THEN th' = [th EXCEPT ![t] = At("idle")] ELSE Goto(t, "insert")
  /\ UNCHANGED <<list, allocated, head, lock, free, queue, held, save>>
Insert(t) ==
  /\ th[t].pc = "insert" /\ head = {}
  /\ LET c == CHOOSE c \in Chunk : c \notin Used IN
     /\ list' = <<c>> \o list
     /\ lock' = [lock EXCEPT ![c] = {t}]
     /\ th' = [th EXCEPT ![t].pc = "fill", ![t].c = {c}]
  /\ UNCHANGED <<allocated, head, free, queue, held, save>>
\* the chunk is counted and its buffers made while it is in the list already, locked
Fill(t) ==
  /\ th[t].pc = "fill"
  /\ allocated' = allocated + 1
  /\ free' = [free EXCEPT ![C(t)] = {C(t)} \X (1 .. tot_buffers)]
  /\ Goto(t, "take")
  /\ UNCHANGED <<list, head, lock, queue, held, save>>

\* a free buffer of the locked chunk is given, and the chunk unlocked
Take(t) ==
  /\ th[t].pc = "take"
  /\ \E x \in free[C(t)] : held' = held \cup {x} /\ free' = [free EXCEPT ![C(t)] = @ \ {x}]
  /\ save' = [save EXCEPT ![t] = th[t].c] /\ Goto(t, "leave")
  /\ UNCHANGED <<list, allocated, head, lock, queue>>

(***************************************************************************)
(* free_msg_buffer, of a buffer whose last reference is gone.              *)
(***************************************************************************)
Free(t, x) ==
  /\ th[t].pc = "idle" /\ x \in held
  /\ held' = held \ {x}
  /\ lock' = IF lock[x[1]] = {} THEN [lock EXCEPT ![x[1]] = {t}] ELSE lock
  /\ th' = [th EXCEPT ![t] = [At(IF lock[x[1]] = {} THEN "freed" ELSE "push")
                                EXCEPT !.c = {x[1]}, !.x = {x}]]
  /\ UNCHANGED <<list, allocated, head, free, queue, save>>
Give(t) ==
  /\ th[t].pc = "give"
  /\ free' = [free EXCEPT ![C(t)] = @ \cup th[t].x]
  /\ th' = [th EXCEPT ![t].pc = "leave", ![t].x = {}]
  /\ UNCHANGED <<list, allocated, head, lock, queue, held, save>>
Push(t) ==
  /\ th[t].pc = "push"
  /\ queue' = [queue EXCEPT ![C(t)] = Append(@, The(th[t].x))]
  /\ th' = [th EXCEPT ![t].pc = "retry", ![t].x = {}]
  /\ UNCHANGED <<list, allocated, head, lock, free, held, save>>
Retry(t) ==
  /\ th[t].pc = "retry"
  /\ TryLock(t, C(t), "flush", "idle")
  /\ UNCHANGED <<list, allocated, head, free, queue, held, save>>

Next == \E t \in Thread :
  \/ Drain(t) \/ Release(t) \/ Check(t) \/ Alloc(t) \/ Hinted(t) \/ HeadLock(t) \/ Scan(t) \/ Found(t)
  \/ New(t) \/ Insert(t) \/ Fill(t) \/ Take(t) \/ Give(t) \/ Push(t) \/ Retry(t)
  \/ \E x \in Buffer : Free(t, x)
Spec == Init /\ [][Next]_vars

(***************************************************************************)
(* Properties.                                                             *)
(***************************************************************************)
\* The queued buffers of a chunk; the one a thread is freeing.
Queued(c) == {queue[c][i] : i \in DOMAIN queue[c]}
Freeing == UNION {th[t].x : t \in Thread}

\* A buffer is in one place: in use, free in its chunk, in the chunk's queue, or in the hands of the
\* one thread that frees it; and only once in the queue.  So no buffer is given to two users.
InOnePlace ==
  \A c \in Used \ UNION {th[t].c : t \in {u \in Thread : th[u].pc = "fill"}} : \A i \in 1 .. tot_buffers :
     LET x == <<c, i>>
         places == <<x \in held, x \in free[c], x \in Queued(c), x \in Freeing>>
     IN  /\ Cardinality({p \in 1 .. 4 : places[p]}) = 1
         /\ Cardinality({j \in DOMAIN queue[c] : queue[c][j] = x}) <= 1
         /\ Cardinality({t \in Thread : x \in th[t].x}) <= 1

\* A buffer that was freed while its chunk was locked does not stay in the queue when the threads
\* have finished: whoever unlocks sees it, or who pushed it gets the lock.
NoneStranded == (\A t \in Thread : th[t].pc = "idle") => \A c \in Chunk : queue[c] = <<>>

\* The limit on chunks is looked at without the lock: it is passed by at most one chunk for every
\* other thread.
ChunksNearlyBounded == Len(list) <= max_buffer_chunks + Cardinality(Thread) - 1

\* A buffer is in one place, comes back, and chunks are nearly bounded.
BuffersSound == InOnePlace /\ NoneStranded /\ ChunksNearlyBounded
=============================================================================
