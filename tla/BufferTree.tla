----------------------------- MODULE BufferTree -----------------------------
(***************************************************************************)
(* The free buffers of a locked chunk (net/net-msg-buffers.c): free_cnt is *)
(* a binary tree whose leaves say which buffers are free and whose inner   *)
(* nodes hold the sums.  A buffer is taken at random, or next to a         *)
(* neighbour, and the number of a buffer is computed from its address with *)
(* a multiplicative inverse.                                               *)
(***************************************************************************)
EXTENDS Integers, FiniteSets

CONSTANTS two_power, tot_buffers, Width, Steps

VARIABLES
  free_cnt,  \* the tree: node i has the children 2i and 2i+1, buffer b is node two_power+b
  used,      \* the buffers given and not freed
  last       \* the last call and what it returned
vars == <<free_cnt, used, last>>

Node == 1 .. 2 * two_power - 1
Leaf(b) == two_power + b
Buffers == 0 .. tot_buffers - 1

RECURSIVE Fill(_, _)
Fill(f, i) == IF i = 0 THEN f ELSE Fill([f EXCEPT ![i] = f[2 * i] + f[2 * i + 1]], i - 1)
\* alloc_new_msg_buffers_chunk: all its buffers are free
Init ==
  /\ free_cnt = Fill([i \in Node |-> IF i >= two_power /\ i < Leaf(tot_buffers) THEN 1 ELSE 0], two_power - 1)
  /\ used = {} /\ last = [op |-> "none"]

\* a node and those above it
RECURSIVE Up(_)
Up(i) == IF i = 0 THEN {} ELSE {i} \cup Up(i \div 2)
Add(f, S, d) == [i \in Node |-> IF i \in S THEN f[i] + d ELSE f[i]]

(***************************************************************************)
(* A buffer at random: the j-th free one, from 0.                          *)
(***************************************************************************)
Half(f, i, j) == IF f[2 * i] <= j THEN <<2 * i + 1, j - f[2 * i]>> ELSE <<2 * i, j>>
RECURSIVE Pick(_, _, _)
Pick(f, i, j) == IF i >= two_power THEN i ELSE LET h == Half(f, i, j) IN Pick(f, h[1], h[2])
Give(i, op) ==
  /\ free_cnt' = Add(free_cnt, Up(i), -1)
  /\ used' = used \cup {i - two_power}
  /\ last' = [op |-> op, b |-> i - two_power, before |-> used]
AllocRandom(j) ==
  /\ j < free_cnt[1]
  /\ Give(Pick(free_cnt, 1, j), "random")

(***************************************************************************)
(* A buffer next to x: the descent towards x + 1 keeps in j the last       *)
(* subtree to the right that has a free buffer, and falls back to it.      *)
(***************************************************************************)
RECURSIVE Leftmost(_, _)
Leftmost(f, i) == IF i >= two_power THEN i ELSE Leftmost(f, IF f[2 * i] = 0 THEN 2 * i + 1 ELSE 2 * i)
Right(f, i, j) == IF f[2 * i + 1] > 0 THEN 2 * i + 1 ELSE j
\* the descent at node i over the buffers from l to r - 1
RECURSIVE Descend(_, _, _, _, _, _)
Descend(f, x, i, j, l, r) ==
  LET m == (l + r) \div 2 IN
  CASE i >= two_power                      -> i
    [] i < two_power /\ x < m /\ f[2 * i] > 0  -> Descend(f, x, 2 * i, Right(f, i, j), l, m)
    [] i < two_power /\ x < m /\ f[2 * i] = 0  -> Descend(f, x, 2 * i + 1, j, m, r)
    [] i < two_power /\ x >= m /\ f[2 * i + 1] > 0 -> Descend(f, x, 2 * i + 1, j, m, r)
    [] OTHER                               -> Leftmost(f, j)
Near(f, x) == IF x < two_power - 1 /\ f[Leaf(x + 1)] > 0 THEN Leaf(x + 1) ELSE Descend(f, x, 1, 1, 0, two_power)
AllocNear(x) ==
  /\ free_cnt[1] > 0 /\ x \in used
  /\ free_cnt' = Add(free_cnt, Up(Near(free_cnt, x)), -1)
  /\ used' = used \cup {Near(free_cnt, x) - two_power}
  /\ last' = [op |-> "near", b |-> Near(free_cnt, x) - two_power, x |-> x, before |-> used]

\* free_std_msg_buffer
Free(x) ==
  /\ x \in used
  /\ free_cnt' = Add(free_cnt, Up(Leaf(x)), 1)
  /\ used' = used \ {x} /\ last' = [op |-> "free"]

(***************************************************************************)
(* get_buffer_no: the offset of the buffer is divided by the size of a     *)
(* buffer by a shift and a product with the inverse of the odd part        *)
(* (prepare_bs_inv), in unsigned integers of Width bits.                   *)
(***************************************************************************)
Word == 2 ^ Width
RECURSIVE Ctz(_)
Ctz(n) == IF n % 2 = 1 THEN 0 ELSE 1 + Ctz(n \div 2)
RECURSIVE Inverse2(_, _)
Inverse2(x, y) == IF x = 0 THEN y ELSE Inverse2((x * x) % Word, (y * (1 + x)) % Word)
prepare_bs_inv(s) == Inverse2((1 - (s \div 2 ^ Ctz(s))) % Word, 1)
get_buffer_no(s, offset) == ((offset \div 2 ^ Ctz(s)) * prepare_bs_inv(s)) % Word
Number(s, n) ==
  /\ last.op = "none"
  /\ last' = [op |-> "number", s |-> s, n |-> n, got |-> get_buffer_no(s, s * n)]
  /\ UNCHANGED <<free_cnt, used>>

Next ==
  \/ \E j \in 0 .. tot_buffers : AllocRandom(j)
  \/ \E x \in Buffers : AllocNear(x) \/ Free(x)
  \/ \E s \in Steps : \E n \in 0 .. (Word - 1) \div s : Number(s, n)
Spec == Init /\ [][Next]_vars

(***************************************************************************)
(* Properties.                                                             *)
(***************************************************************************)
\* The leaves are the buffers that are free, and every inner node is the sum of its children, so the
\* root tells whether the chunk has a free buffer.
SumsExact ==
  /\ \A b \in 0 .. two_power - 1 : free_cnt[Leaf(b)] = IF b \in Buffers \ used THEN 1 ELSE 0
  /\ \A i \in 1 .. two_power - 1 : free_cnt[i] = free_cnt[2 * i] + free_cnt[2 * i + 1]

\* A buffer that is given was free, and next to a neighbour it is the first free one after the
\* neighbour, or the first of all when none follows.
NextFree ==
  last.op \in {"random", "near"} =>
    LET free == Buffers \ last.before IN
    /\ last.b \in free
    /\ last.op = "near" =>
         LET after == {b \in free : b > last.x}
             least(S) == CHOOSE b \in S : \A c \in S : b <= c
         IN  last.b = IF after # {} THEN least(after) ELSE least(free)

\* The product with the inverse gives back the number of the buffer, whatever the size.
NumberExact == last.op = "number" => last.got = last.n

\* The tree finds free buffers and their numbers.
TreeExact == SumsExact /\ NextFree /\ NumberExact
=============================================================================
