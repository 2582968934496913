------------------------------ MODULE MpQueue ------------------------------
(***************************************************************************)
(* The lock-free queue of the original program (common/mp-queue.c): a list *)
(* of blocks, each an array used as a ring whose ends are advanced by      *)
(* fetch-and-add, any number of threads at either end.  A block that fills *)
(* up is closed and another appended; a block that is empty and has a      *)
(* successor is taken off and freed unless another thread announces, by its *)
(* hazard pointer, that it may be using it.                                *)
(*                                                                         *)
(* Every action is one access to shared memory.  Reads that a successful   *)
(* compare-and-swap confirms are one action with it.  The queues of garbage *)
(* and of prepared blocks, themselves such queues, are sets here.          *)
(***************************************************************************)
EXTENDS Naturals, FiniteSets, Sequences

CONSTANTS Producer, Consumer,
          PushN, PopN,   \* bounds: calls of each thread
          Size,          \* nodes in a block
          MaxIter,       \* attempts before mpq_block_push closes a block
          Block,         \* 1 .. n; bound: blocks in memory
          WithSem        \* mpq_push_w and mpq_pop_nw, or mpq_push and mpq_pop

User == Producer \cup Consumer
null == 0
Val == Producer \X (1 .. PushN)
None == <<>>

VARIABLES mem,            \* the blocks
          mq_head, mq_tail,
          garbage, prepared,
          sem,            \* mq_sem.value
          hptr,           \* hazard pointers
          l,              \* each thread's local variables
          out             \* what has been popped, in order

vars == <<mem, mq_head, mq_tail, garbage, prepared, sem, hptr, l, out>>

Nodes(first) == [i \in 0 .. Size - 1 |-> [idx |-> i, safe |-> TRUE,
                                          val |-> IF i = 0 THEN first ELSE None]]
NoBlock == [magic |-> "none", head |-> 0, tail |-> 0, closed |-> FALSE, next |-> null,
            nodes |-> Nodes(None)]
\* alloc_mpq_block.
Fresh(v) == [NoBlock EXCEPT !.magic = "used", !.nodes = Nodes(v),
                            !.tail = IF v = None THEN 0 ELSE 1]

Local == [pc |-> "idle", n |-> 0, qb |-> null, i |-> 0, h |-> 0, nb |-> null, it |-> 0,
          again |-> FALSE, v |-> None, node |-> [idx |-> 0, safe |-> TRUE, val |-> None]]

\* init_mp_queue.
Init ==
  /\ mem = [b \in Block |-> IF b = 1 THEN Fresh(None) ELSE NoBlock]
  /\ mq_head = 1 /\ mq_tail = 1 /\ garbage = {} /\ prepared = {} /\ sem = 0
  /\ hptr = [t \in User |-> null] /\ l = [t \in User |-> Local] /\ out = <<>>

At(t, p) == l[t].pc = p
Goto(t, p) == l' = [l EXCEPT ![t].pc = p]
Qb(t) == mem[l[t].qb]
Slot(t) == l[t].i % Size

shared == <<mem, mq_head, mq_tail, garbage, prepared, sem, out>>

(***************************************************************************)
(* mpq_push.                                                               *)
(***************************************************************************)
PushCall(t) ==
  /\ t \in Producer /\ At(t, "idle") /\ l[t].n < PushN
  /\ l' = [l EXCEPT ![t].pc = "push", ![t].n = @ + 1, ![t].v = <<t, l[t].n + 1>>]
  /\ UNCHANGED <<shared, hptr>>

PushRead(t) ==
  /\ At(t, "push") /\ l' = [l EXCEPT ![t].qb = mq_tail, ![t].pc = "pushHazard", ![t].it = 0]
  /\ UNCHANGED <<shared, hptr>>

PushHazard(t) ==
  /\ At(t, "pushHazard") /\ hptr' = [hptr EXCEPT ![t] = l[t].qb] /\ Goto(t, "pushCheck")
  /\ UNCHANGED shared

PushCheck(t) ==
  /\ At(t, "pushCheck") /\ Goto(t, IF mq_tail = l[t].qb THEN "pushNext" ELSE "push")
  /\ UNCHANGED <<shared, hptr>>

\* A block with a successor is not the last: the tail is helped on.
PushNext(t) ==
  /\ At(t, "pushNext")
  /\ IF Qb(t).next = null THEN Goto(t, "bpush") /\ mq_tail' = mq_tail
     ELSE /\ Goto(t, "push") /\ mq_tail' = IF mq_tail = l[t].qb THEN Qb(t).next ELSE mq_tail
  /\ UNCHANGED <<mem, mq_head, garbage, prepared, sem, out, hptr>>

\* mpq_block_push: an index, unless the block is closed ...
BlockPush(t) ==
  /\ At(t, "bpush")
  /\ mem' = [mem EXCEPT ![l[t].qb].tail = @ + 1]
  /\ l' = [l EXCEPT ![t].i = Qb(t).tail, ![t].pc = IF Qb(t).closed THEN "alloc" ELSE "bnode"]
  /\ UNCHANGED <<mq_head, mq_tail, garbage, prepared, sem, out, hptr>>

\* ... its node, which must be empty and not passed by a consumer ...
Usable(n, i, head) == n.val = None /\ n.idx <= i /\ (n.safe \/ head <= i)
PushNode(t) ==
  /\ At(t, "bnode")
  /\ LET n == Qb(t).nodes[Slot(t)]
     IN  IF Usable(n, l[t].i, Qb(t).head)
         THEN l' = [l EXCEPT ![t].node = n, ![t].pc = "bcas"]
         ELSE Goto(t, "bfull")
  /\ UNCHANGED <<shared, hptr>>

PushCas(t) ==
  /\ At(t, "bcas")
  /\ IF Qb(t).nodes[Slot(t)] = l[t].node
     THEN /\ mem' = [mem EXCEPT ![l[t].qb].nodes[Slot(t)] =
                       [idx |-> l[t].i, safe |-> TRUE, val |-> l[t].v]]
          /\ Goto(t, "pushed")
     ELSE mem' = mem /\ Goto(t, "bfull")
  /\ UNCHANGED <<mq_head, mq_tail, garbage, prepared, sem, out, hptr>>

\* ... or another, until the block is full or it takes too long.
PushFull(t) ==
  /\ At(t, "bfull")
  /\ IF l[t].i >= Qb(t).head + Size \/ l[t].it >= MaxIter
     THEN mem' = [mem EXCEPT ![l[t].qb].closed = TRUE] /\ Goto(t, "alloc")
     ELSE mem' = mem /\ l' = [l EXCEPT ![t].it = @ + 1, ![t].pc = "bpush"]
  /\ UNCHANGED <<mq_head, mq_tail, garbage, prepared, sem, out, hptr>>

\* alloc_mpq_block: garbage that nobody uses, then a prepared block, then memory.
Hazard(b) == \E t \in User : hptr[t] = b
Reclaimable == {b \in garbage : ~Hazard(b)}
Alloc(t) ==
  /\ At(t, "alloc")
  /\ \E b \in Block :
       /\ IF Reclaimable # {} THEN b \in Reclaimable
          ELSE IF prepared # {} THEN b \in prepared
          ELSE mem[b].magic = "none" /\ \A c \in Block : c < b => mem[c].magic # "none"
       /\ garbage' = garbage \ {b} /\ prepared' = prepared \ {b}
       /\ mem' = [mem EXCEPT ![b] = Fresh(l[t].v)]
       /\ l' = [l EXCEPT ![t].nb = b, ![t].pc = "link"]
  /\ UNCHANGED <<mq_head, mq_tail, sem, out, hptr>>

Link(t) ==
  /\ At(t, "link")
  /\ IF Qb(t).next = null
     THEN /\ mem' = [mem EXCEPT ![l[t].qb].next = l[t].nb] /\ Goto(t, "swing")
          /\ prepared' = prepared
     ELSE /\ mem' = [mem EXCEPT ![l[t].nb].magic = "prepared"] /\ Goto(t, "push")
          /\ prepared' = prepared \cup {l[t].nb}
  /\ UNCHANGED <<mq_head, mq_tail, garbage, sem, out, hptr>>

Swing(t) ==
  /\ At(t, "swing") /\ Goto(t, "pushed")
  /\ mq_tail' = IF mq_tail = l[t].qb THEN l[t].nb ELSE mq_tail
  /\ UNCHANGED <<mem, mq_head, garbage, prepared, sem, out, hptr>>

Pushed(t) ==
  /\ At(t, "pushed") /\ hptr' = [hptr EXCEPT ![t] = null] /\ Goto(t, "post")
  /\ UNCHANGED shared

\* mpq_push_w: mp_sem_post.
Post(t) ==
  /\ At(t, "post") /\ sem' = (IF WithSem THEN sem + 1 ELSE 0) /\ Goto(t, "idle")
  /\ UNCHANGED <<mem, mq_head, mq_tail, garbage, prepared, out, hptr>>

(***************************************************************************)
(* mpq_pop_nw: mp_sem_trywait, then mpq_pop.                               *)
(***************************************************************************)
PopCall(t) ==
  /\ t \in Consumer /\ At(t, "idle") /\ l[t].n < PopN
  /\ IF WithSem THEN sem > 0 /\ sem' = sem - 1 ELSE sem' = sem
  /\ l' = [l EXCEPT ![t].pc = "pop", ![t].n = @ + 1]
  /\ UNCHANGED <<mem, mq_head, mq_tail, garbage, prepared, out, hptr>>

PopRead(t) ==
  /\ At(t, "pop")
  /\ l' = [l EXCEPT ![t].qb = mq_head, ![t].pc = "popHazard", ![t].again = FALSE]
  /\ UNCHANGED <<shared, hptr>>

PopHazard(t) ==
  /\ At(t, "popHazard") /\ hptr' = [hptr EXCEPT ![t] = l[t].qb] /\ Goto(t, "popCheck")
  /\ UNCHANGED shared

PopCheck(t) ==
  /\ At(t, "popCheck") /\ Goto(t, IF mq_head = l[t].qb THEN "bpop" ELSE "pop")
  /\ UNCHANGED <<shared, hptr>>

\* mpq_block_pop: an index ...
BlockPop(t) ==
  /\ At(t, "bpop") /\ mem' = [mem EXCEPT ![l[t].qb].head = @ + 1]
  /\ l' = [l EXCEPT ![t].i = Qb(t).head, ![t].pc = "bget"]
  /\ UNCHANGED <<mq_head, mq_tail, garbage, prepared, sem, out, hptr>>

\* ... its node: taken; or left to a later round, marked unsafe; or closed to producers
\* that come too late.
Passed(n, i) == IF n.val # None THEN [n EXCEPT !.safe = FALSE] ELSE [n EXCEPT !.idx = i + Size]
PopNode(t) ==
  /\ At(t, "bget")
  /\ LET n == Qb(t).nodes[Slot(t)]
         put(m) == mem' = [mem EXCEPT ![l[t].qb].nodes[Slot(t)] = m]
     IN  IF n.idx > l[t].i THEN mem' = mem /\ Goto(t, "btail")
         ELSE IF n.val # None /\ n.idx = l[t].i
         THEN /\ put([n EXCEPT !.idx = @ + Size, !.val = None])
              /\ l' = [l EXCEPT ![t].v = n.val, ![t].pc = "popped"]
         ELSE put(Passed(n, l[t].i)) /\ Goto(t, "btail")
  /\ UNCHANGED <<mq_head, mq_tail, garbage, prepared, sem, out, hptr>>

PopTail(t) ==
  /\ At(t, "btail") /\ Goto(t, IF Qb(t).tail <= l[t].i + 1 THEN "fix" ELSE "bpop")
  /\ UNCHANGED <<shared, hptr>>

\* mpq_fix_state: consumers that ran ahead take the tail along.
Fix(t) ==
  /\ At(t, "fix")
  /\ IF Qb(t).closed \/ Qb(t).head <= Qb(t).tail THEN Goto(t, "bempty")
     ELSE l' = [l EXCEPT ![t].i = Qb(t).tail, ![t].h = Qb(t).head, ![t].pc = "fixCas"]
  /\ UNCHANGED <<shared, hptr>>
FixCas(t) ==
  /\ At(t, "fixCas")
  /\ IF Qb(t).tail = l[t].i /\ ~Qb(t).closed
     THEN mem' = [mem EXCEPT ![l[t].qb].tail = l[t].h] /\ Goto(t, "bempty")
     ELSE mem' = mem /\ Goto(t, "fix")
  /\ UNCHANGED <<mq_head, mq_tail, garbage, prepared, sem, out, hptr>>

\* The block is empty: the queue too, unless the block has a successor.  Then it is
\* looked at once more and taken off.
PopEmpty_Once(t) ==
  /\ At(t, "bempty")
  /\ Goto(t, IF Qb(t).next # null THEN "advance" ELSE "popped")
  /\ UNCHANGED <<shared, hptr>>
PopEmpty(t) ==
  /\ At(t, "bempty")
  /\ IF l[t].again THEN Goto(t, "advance")
     ELSE IF Qb(t).next # null THEN l' = [l EXCEPT ![t].again = TRUE, ![t].pc = "bpop"]
     ELSE l' = [l EXCEPT ![t].v = None, ![t].pc = "popped"]
  /\ UNCHANGED <<shared, hptr>>

PopAdvance(t) ==
  /\ At(t, "advance")
  /\ IF mq_head = l[t].qb THEN mq_head' = Qb(t).next /\ Goto(t, "discard")
     ELSE mq_head' = mq_head /\ Goto(t, "pop")
  /\ UNCHANGED <<mem, mq_tail, garbage, prepared, sem, out, hptr>>

\* is_hazard_ptr: freed at once, or kept as garbage.
Shared(t) == \E u \in User \ {t} : hptr[u] = l[t].qb
Discard(t) ==
  /\ At(t, "discard") /\ Goto(t, "pop")
  /\ IF Shared(t)
     THEN /\ mem' = [mem EXCEPT ![l[t].qb].magic = "garbage"] /\ garbage' = garbage \cup {l[t].qb}
     ELSE mem' = [mem EXCEPT ![l[t].qb] = NoBlock] /\ garbage' = garbage
  /\ UNCHANGED <<mq_head, mq_tail, prepared, sem, out, hptr>>

Popped(t) ==
  /\ At(t, "popped") /\ hptr' = [hptr EXCEPT ![t] = null]
  /\ out' = (IF l[t].v = None /\ ~WithSem THEN out ELSE Append(out, l[t].v))
  /\ l' = [l EXCEPT ![t] = [Local EXCEPT !.n = l[t].n]]
  /\ UNCHANGED <<mem, mq_head, mq_tail, garbage, prepared, sem>>

Push(t) ==
  \/ PushCall(t) \/ PushRead(t) \/ PushHazard(t) \/ PushCheck(t) \/ PushNext(t)
  \/ BlockPush(t) \/ PushNode(t) \/ PushCas(t) \/ PushFull(t)
  \/ Alloc(t) \/ Link(t) \/ Swing(t) \/ Pushed(t) \/ Post(t)
Pop(t) ==
  \/ PopCall(t) \/ PopRead(t) \/ PopHazard(t) \/ PopCheck(t)
  \/ BlockPop(t) \/ PopNode(t) \/ PopTail(t) \/ Fix(t) \/ FixCas(t)
  \/ PopEmpty(t) \/ PopAdvance(t) \/ Discard(t) \/ Popped(t)

Next == \E t \in User : Push(t) \/ Pop(t)
Spec == Init /\ [][Next]_vars
Fairness == \A t \in User : WF_vars(Push(t) \/ Pop(t))
FairSpec == Spec /\ Fairness

(***************************************************************************)
(* Properties.                                                             *)
(***************************************************************************)
\* Type invariant.
TypeOK ==
  /\ mq_head \in Block /\ mq_tail \in Block /\ garbage \subseteq Block /\ prepared \subseteq Block
  /\ hptr \in [User -> Block \cup {null}] /\ sem \in 0 .. Cardinality(Val)

\* A thread works only on blocks that have not been freed, nor handed out again.
Working == {"pushNext", "bpush", "bnode", "bcas", "bfull", "alloc", "link", "swing",
            "bpop", "bget", "btail", "fix", "fixCas", "bempty", "advance", "discard"}
NoFreedBlock ==
  \A t \in User : l[t].pc \in Working => /\ Qb(t).magic \in {"used", "garbage"}
                                           /\ hptr[t] = l[t].qb

\* Nothing comes out twice, and everyone who got through the semaphore finds something
\* (assert (v) of mpq_pop_nw).
EachOnce ==
  /\ \A k \in DOMAIN out : out[k] # None
  /\ \A j, k \in DOMAIN out : j # k => out[j] # out[k]

\* When nobody is at work, what was pushed and not popped is in the list of blocks, ahead of the
\* place where its block is read.
RECURSIVE List(_, _)
List(b, n) == IF b = null \/ n = 0 THEN {} ELSE {b} \cup List(mem[b].next, n - 1)
Calm == \A t \in User : At(t, "idle")
NothingLost ==
  Calm => \A t \in Producer, n \in 1 .. PushN : n <= l[t].n =>
    \/ \E k \in DOMAIN out : out[k] = <<t, n>>
    \/ \E b \in List(mq_head, Cardinality(Block)), i \in 0 .. Size - 1 :
         mem[b].nodes[i].val = <<t, n>> /\ mem[b].nodes[i].idx >= mem[b].head

\* What is pushed is popped once, out of blocks nobody has freed.
QueueSafe == TypeOK /\ NoFreedBlock /\ EachOnce /\ NothingLost
=============================================================================
