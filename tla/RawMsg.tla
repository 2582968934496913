------------------------------- MODULE RawMsg -------------------------------
(***************************************************************************)
(* Raw messages of the original program (net/net-msg.c): a byte string kept *)
(* as a chain of parts, each a window on a reference-counted buffer.       *)
(* Clones and pieces of a message share parts and buffers with it; a part  *)
(* is extended in place only when nobody else can see the difference, and  *)
(* the chain is copied otherwise.                                          *)
(*                                                                         *)
(* The heap (parts and buffers) and the descriptors (raw_message) are the  *)
(* code's; val is what each message should hold.  Bytes are numbers, no two *)
(* bytes in use the same.  Lengths are scaled down: Small, Std and Reserve *)
(* are MSG_SMALL_BUFFER, MSG_STD_BUFFER and RM_PREPEND_RESERVE.            *)
(***************************************************************************)
EXTENDS Naturals, Sequences, SequencesExt, FiniteSets, FiniteSetsExt

CONSTANTS Msg,                        \* names of raw_message structures
          Sizes, Small, Std, Reserve, \* buffer sizes
          Block,                      \* cipher block size
          MaxPush,                    \* bound: bytes in one push
          MaxByte, MaxPart, MaxOps    \* bounds: bytes in use, parts, operations

VARIABLES heap,   \* [p: parts, b: buffers]
          msg,    \* the raw_message structures
          val,    \* what they should hold
          ops

vars == <<heap, msg, val, ops>>

null == 0
NoPart == [refcnt |-> 0, next |-> null, part |-> null, off |-> 0, end |-> 0]
NoBuf  == [refcnt |-> 0, data |-> <<>>]
Empty  == [live |-> TRUE, first |-> null, last |-> null, fo |-> 0, lo |-> 0, total |-> 0]
Dead   == [Empty EXCEPT !.live = FALSE]

Init ==
  /\ heap = [p |-> [i \in 1 .. MaxPart |-> NoPart], b |-> [i \in 1 .. MaxPart |-> NoBuf]]
  /\ msg = [m \in Msg |-> Dead] /\ val = [m \in Msg |-> <<>>] /\ ops = 0

(***************************************************************************)
(* Chains.                                                                 *)
(***************************************************************************)
Start(h, r, i) == IF i = r.first THEN r.fo ELSE h.p[i].off
End(h, r, i)   == IF i = r.last THEN r.lo ELSE h.p[i].end

\* The parts from i to l; a chain that never gets to l ends in null.
RECURSIVE Chain(_, _, _, _)
Chain(h, i, l, n) ==
  IF i = l \/ i = null \/ n = 0 THEN <<i>> ELSE <<i>> \o Chain(h, h.p[i].next, l, n - 1)
Parts(h, r) == IF r.first = null THEN <<>> ELSE Chain(h, r.first, r.last, MaxPart)

Window(h, i, from, to) == SubSeq(h.b[h.p[i].part].data, from + 1, to)
Length(h, r, i) == End(h, r, i) - Start(h, r, i)

(***************************************************************************)
(* Allocation and reference counts.                                        *)
(***************************************************************************)
BufferSize(hint) == IF \E z \in Sizes : z >= hint THEN Min({z \in Sizes : z >= hint})
                                                  ELSE Max(Sizes)

FreePart(h) == Min({i \in DOMAIN h.p : h.p[i].refcnt = 0})
FreeBuf(h)  == Min({i \in DOMAIN h.b : h.b[i].refcnt = 0})

\* new_msg_part on a new buffer that holds d from off on (bytes before and after are 0).
NewPart(h, next, hint, off, d) ==
  LET x == FreeBuf(h) IN
  [p |-> [h.p EXCEPT ![FreePart(h)] = [refcnt |-> 1, next |-> next, part |-> x, off |-> off,
                                       end |-> off + Len(d)]],
   b |-> [h.b EXCEPT ![x] = [refcnt |-> 1,
            data |-> [k \in 1 .. BufferSize(hint) |->
                        IF k > off /\ k <= off + Len(d) THEN d[k - off] ELSE 0]]]]

\* msg_buffer_decref.
DecrefBuf(h, x) ==
  [h EXCEPT !.b[x] = IF @.refcnt = 1 THEN NoBuf ELSE [@ EXCEPT !.refcnt = @ - 1]]

\* msg_part_decref: down the chain as far as nobody else holds it.
RECURSIVE Decref(_, _)
Decref(h, i) ==
  IF i = null THEN h
  ELSE IF h.p[i].refcnt > 1 THEN [h EXCEPT !.p[i].refcnt = @ - 1]
  ELSE Decref(DecrefBuf([h EXCEPT !.p[i] = NoPart], h.p[i].part), h.p[i].next)

Incref(h, i) == [h EXCEPT !.p[i].refcnt = @ + 1]

\* Writes d into the buffer of part i at offset o.
Put(h, i, o, d) ==
  [h EXCEPT !.b[h.p[i].part].data =
     [k \in DOMAIN @ |-> IF k > o /\ k <= o + Len(d) THEN d[k - o] ELSE @[k]]]

(***************************************************************************)
(* Making the ends of a chain one's own.  Results are [h, r].              *)
(***************************************************************************)
\* Copies of the parts in the sequence s, linked; the last ends the chain.
RECURSIVE Copied(_, _, _)
Copied(h, r, s) ==
  IF s = <<>> THEN [h |-> h, first |-> null, last |-> null]
  ELSE LET rest == Copied(h, r, Tail(s))
           i == Head(s)   n == FreePart(rest.h)
           part == [refcnt |-> 1, next |-> rest.first, part |-> h.p[i].part,
                    off |-> Start(h, r, i), end |-> End(h, r, i)]
       IN  [h |-> [rest.h EXCEPT !.p[n] = part, !.b[h.p[i].part].refcnt = @ + 1],
            first |-> n, last |-> IF rest.last = null THEN n ELSE rest.last]

\* fork_message_chain: what is ours alone stays, the rest is copied.
Relinked(c, r, s, k) ==
  [h |-> Decref(IF k = 1 THEN c.h ELSE [c.h EXCEPT !.p[s[k - 1]].next = c.first], s[k]),
   r |-> [r EXCEPT !.last = c.last, !.first = IF k = 1 THEN c.first ELSE @]]
Ended(h, r, i) ==
  [h |-> Decref([h EXCEPT !.p[i].end = r.lo, !.p[i].next = null], h.p[i].next), r |-> r]
Forked(h, r, s, ok) ==
  LET k == Min({n \in DOMAIN s : h.p[s[n]].refcnt # 1 \/ n = Len(s) \/ ~ok})
  IN  IF ok /\ h.p[s[k]].refcnt = 1 THEN Ended(h, r, s[k])
      ELSE Relinked(Copied(h, r, SubSeq(s, k, Len(s))), r, s, k)
fork_message_chain(h, r) ==
  IF r.first = null THEN [h |-> h, r |-> r]
  ELSE LET own == h.p[r.first].refcnt = 1
       IN  Forked(IF own THEN [h EXCEPT !.p[r.first].off = r.fo] ELSE h, r, Parts(h, r),
                  own \/ r.fo = h.p[r.first].off)

\* rwm_lock_last_part: held is the part another call has locked.
rwm_lock_last_part(h, r, held) ==
  IF r.first = null THEN [h |-> h, r |-> r]
  ELSE IF h.p[r.last].next # null \/ r.lo # h.p[r.last].end \/ r.last = held
       THEN fork_message_chain(h, r)
       ELSE [h |-> h, r |-> r]

\* rwm_lock_first_part: the first part gets a copy of its own when it is shared and
\* begins before the message does.
rwm_lock_first_part(h, r) ==
  IF r.first = null THEN [h |-> h, r |-> r]
  ELSE IF h.p[r.first].refcnt = 1 THEN [h |-> [h EXCEPT !.p[r.first].off = r.fo], r |-> r]
  ELSE IF h.p[r.first].off = r.fo THEN [h |-> h, r |-> r]
  ELSE LET n == FreePart(h)   f == r.first   one == r.first = r.last
           part == [h.p[f] EXCEPT !.refcnt = 1, !.off = r.fo,
                                  !.next = IF one THEN null ELSE @,
                                  !.end = IF one THEN r.lo ELSE @]
           h1 == [h EXCEPT !.p[n] = part, !.b[h.p[f].part].refcnt = @ + 1]
           h2 == IF one THEN h1 ELSE Incref(h1, h.p[f].next)
       IN  [h |-> Decref(h2, f), r |-> [r EXCEPT !.first = n, !.last = IF one THEN n ELSE @]]

(***************************************************************************)
(* Appending.                                                              *)
(***************************************************************************)
Take(d, n) == SubSeq(d, 1, n)
Skip(d, n) == SubSeq(d, n + 1, Len(d))
Lesser(a, b) == IF a < b THEN a ELSE b

\* A part with a buffer of its own behind the last.
Behind(x, hint, n, d) ==
  LET i == FreePart(x.h)
      h == NewPart(x.h, null, hint, 0, Take(d, n))
  IN  [h |-> [h EXCEPT !.p[x.r.last].next = i],
       r |-> [x.r EXCEPT !.last = i, !.lo = n, !.total = @ + n]]

\* The loop at the end of rwm_push_data_ext; avail is the number of buffers to be had.
RECURSIVE AppendRest(_, _, _)
AppendRest(x, d, avail) ==
  IF d = <<>> \/ avail = 0 THEN x
  ELSE LET hint == IF x.r.total + Len(d) >= Std THEN Std ELSE Small
           n == Lesser(BufferSize(hint), Len(d))
       IN  AppendRest(Behind(x, hint, n, d), Skip(d, n), avail - 1)

\* The bytes d, as many as fit, behind the last byte of the last part.
Extend(x, d) ==
  LET l == x.r.last   n == Len(d)
  IN  [h |-> [Put(x.h, l, x.r.lo, d) EXCEPT !.p[l].end = @ + n],
       r |-> [x.r EXCEPT !.lo = @ + n, !.total = @ + n]]
RoomBehind(x) == Len(x.h.b[x.h.p[x.r.last].part].data) - x.r.lo
SoleBuffer(x, i) == x.h.b[x.h.p[i].part].refcnt = 1

First(h, r, d) ==
  LET pre == IF Len(d) <= Std /\ Reserve > Std - Len(d) THEN Std - Len(d) ELSE Reserve
      hint == IF Len(d) + Reserve >= Small THEN Std ELSE Small
      n == Lesser(BufferSize(hint) - pre, Len(d))   i == FreePart(h)
  IN  [h |-> NewPart(h, null, hint, pre, Take(d, n)),
       r |-> [r EXCEPT !.first = i, !.last = i, !.fo = pre, !.lo = pre + n, !.total = n]]

Begun(x, d, avail) == AppendRest(x, Skip(d, x.r.total), avail)
GoneOn(x, d, avail) ==
  LET n == IF SoleBuffer(x, x.r.last) THEN Lesser(RoomBehind(x), Len(d)) ELSE 0
  IN  AppendRest(Extend(x, Take(d, n)), Skip(d, n), avail)
rwm_push_data_ext(h, r, d, avail) ==
  IF r.first # null THEN GoneOn(rwm_lock_last_part(h, r, null), d, avail)
  ELSE IF avail = 0 THEN [h |-> h, r |-> r] ELSE Begun(First(h, r, d), d, avail - 1)

(***************************************************************************)
(* Prepending.                                                             *)
(***************************************************************************)
InFront(x, hint, d) ==
  LET i == FreePart(x.h)   z == BufferSize(hint)
  IN  [h |-> NewPart(x.h, x.r.first, hint, z - Len(d), d),
       r |-> [x.r EXCEPT !.first = i, !.fo = z - Len(d), !.total = @ + Len(d),
                         !.last = IF @ = null THEN i ELSE @,
                         !.lo = IF x.r.last = null THEN z ELSE @]]

RECURSIVE PrependRest(_, _)
PrependRest(x, d) ==
  IF d = <<>> THEN x
  ELSE LET hint == IF Len(d) >= Small THEN Std ELSE Small
           n == Lesser(BufferSize(hint), Len(d))
       IN  PrependRest(InFront(x, hint, Skip(d, Len(d) - n)), Take(d, Len(d) - n))

\* The bytes d, as many as fit, before the first byte of the first part.
Stretch(x, d) ==
  LET f == x.r.first   o == x.r.fo - Len(d)
  IN  [h |-> [Put(x.h, f, o, d) EXCEPT !.p[f].off = o],
       r |-> [x.r EXCEPT !.fo = o, !.total = @ + Len(d)]]
OwnFirst_Shared(x) == SoleBuffer(x, x.r.first)
OwnFirst(x) == x.h.p[x.r.first].refcnt = 1 /\ SoleBuffer(x, x.r.first)

rwm_push_data_front(h, r, d) ==
  LET x == rwm_lock_first_part(h, r)
      n == IF r.first # null /\ OwnFirst(x) THEN Lesser(x.r.fo, Len(d)) ELSE 0
  IN  IF n = 0 THEN PrependRest(x, d)
      ELSE PrependRest(Stretch(x, Skip(d, Len(d) - n)), Take(d, Len(d) - n))

\* rwm_prepend_alloc and rwm_postpone_alloc: room in one piece, which the caller fills.
rwm_prepend_alloc(h, r, d) ==
  IF r.first = null THEN rwm_push_data_ext(h, r, d, 1)
  ELSE LET x == rwm_lock_first_part(h, r)
       IN  IF OwnFirst(x) /\ x.r.fo >= Len(d) THEN Stretch(x, d) ELSE InFront(x, Len(d), d)

rwm_postpone_alloc(h, r, d) ==
  IF r.first = null THEN rwm_push_data_ext(h, r, d, 1)
  ELSE LET x == rwm_lock_last_part(h, r, null)
       IN  IF RoomBehind(x) >= Len(d) /\ SoleBuffer(x, x.r.last) THEN Extend(x, d)
           ELSE Behind(x, Len(d), Len(d), d)

(***************************************************************************)
(* Reading and cutting.                                                    *)
(***************************************************************************)
rwm_clear(h, r) == [h |-> Decref(h, r.first), r |-> Empty]

\* rwm_process_ex, whose bytes after offset are in the last part ...
InLast(h, r, off) == r.total - off <= r.lo - h.p[r.last].off

ProcessLast(h, r, bytes, off, flag) ==
  LET x == r.total - off IN
  CASE flag = "advance" ->
         [h |-> Decref(Incref(h, r.last), r.first),
          r |-> [r EXCEPT !.first = r.last, !.fo = r.lo - x + bytes, !.total = @ - off - bytes]]
    [] flag = "truncate" -> [h |-> h, r |-> [r EXCEPT !.total = @ - x, !.lo = @ - x]]
    [] flag = "none" -> [h |-> h, r |-> r]

\* ... or go on in others: the part with the n-th byte, the offset behind that byte, and
\* whether nobody else holds the parts up to it.
RECURSIVE Find(_, _, _, _, _)
Find(h, r, i, n, ok) ==
  LET alone == ok /\ h.p[i].refcnt = 1 IN
  IF Length(h, r, i) >= n THEN [i |-> i, at |-> Start(h, r, i) + n, alone |-> alone]
  ELSE Find(h, r, h.p[i].next, n - Length(h, r, i), alone)

Advance(h, r, n) ==
  LET e == Find(h, r, r.first, n, TRUE)
      h1 == IF e.i = r.first THEN h ELSE Decref(Incref(h, e.i), r.first)
  IN  IF n = r.total THEN rwm_clear(h, r)
      ELSE [h |-> IF e.alone THEN [h1 EXCEPT !.p[e.i].off = e.at] ELSE h1,
            r |-> [r EXCEPT !.first = e.i, !.fo = e.at, !.total = @ - n]]

Truncate(h, r, n) ==
  LET e == Find(h, r, r.first, n, TRUE)
  IN  IF n = 0 THEN rwm_clear(h, r)
      ELSE [h |-> IF e.alone
                  THEN Decref([h EXCEPT !.p[e.i].end = e.at, !.p[e.i].next = null],
                              h.p[e.i].next)
                  ELSE h,
            r |-> [r EXCEPT !.last = e.i, !.lo = e.at, !.total = n]]

\* rwm_process_ex, after the callback (see Processed).
rwm_process_ex(h, r, want, off, flag) ==
  LET bytes == Lesser(want, r.total - off) IN
  IF bytes <= 0 THEN [h |-> h, r |-> r]
  ELSE IF InLast(h, r, off) THEN ProcessLast(h, r, bytes, off, flag)
  ELSE CASE flag = "advance"  -> Advance(h, r, off + bytes)
         [] flag = "truncate" -> Truncate(h, r, off)
         [] flag = "none"     -> [h |-> h, r |-> r]

\* The pieces [i, from, to) the callback gets, one after the other.
RECURSIVE Cut(_, _, _, _, _)
Cut(h, r, i, off, bytes) ==
  LET n == Lesser(Length(h, r, i) - off, bytes)   o == Start(h, r, i) + off IN
  IF bytes = 0 THEN <<>>
  ELSE IF Length(h, r, i) <= off THEN Cut(h, r, h.p[i].next, off - Length(h, r, i), bytes)
  ELSE <<[i |-> i, from |-> o, to |-> o + n]>> \o Cut(h, r, h.p[i].next, 0, bytes - n)

Processed(h, r, want, off) ==
  LET bytes == Lesser(want, r.total - off)   o == r.lo + off - r.total IN
  IF bytes <= 0 THEN <<>>
  ELSE IF InLast(h, r, off) THEN <<[i |-> r.last, from |-> o, to |-> o + bytes]>>
  ELSE Cut(h, r, r.first, off, bytes)

RECURSIVE Content(_, _)
Content(h, s) == IF s = <<>> THEN <<>>
                 ELSE Window(h, Head(s).i, Head(s).from, Head(s).to) \o Content(h, Tail(s))

\* rwm_prepare_iovec: pieces of the first bytes, empty ones too; more than n do not fit.
RECURSIVE Iovec(_, _, _, _)
Iovec(h, r, i, bytes) ==
  LET n == Lesser(Length(h, r, i), bytes)   o == Start(h, r, i) IN
  IF bytes = 0 THEN <<>>
  ELSE <<[i |-> i, from |-> o, to |-> o + n]>> \o Iovec(h, r, h.p[i].next, bytes - n)
rwm_prepare_iovec(h, r, n, bytes) ==
  LET s == Iovec(h, r, r.first, Lesser(bytes, r.total)) IN IF Len(s) > n THEN <<>> ELSE s

\* rwm_get_block_ptr_bytes on a clone: empty parts at the front are dropped.
RECURSIVE rwm_get_block_ptr_bytes(_, _)
rwm_get_block_ptr_bytes(h, r) ==
  LET n == h.p[r.first].next IN
  IF r.total = 0 \/ Length(h, r, r.first) > 0 THEN [h |-> h, r |-> r]
  ELSE rwm_get_block_ptr_bytes(Decref(Incref(h, n), r.first),
                               [r EXCEPT !.first = n, !.fo = h.p[n].off])

\* rwm_split_head: the first bytes of r in one message, the rest in another.
rwm_split_head(h, r, bytes) ==
  LET s == r.total - bytes
      e == Find(h, r, r.first, bytes, TRUE)
  IN  IF bytes >= r.total THEN [h |-> h, head |-> r, tail |-> Empty]
      ELSE IF InLast(h, r, bytes)
      THEN [h |-> Incref(h, r.last), head |-> [r EXCEPT !.lo = @ - s, !.total = bytes],
            tail |-> [r EXCEPT !.first = r.last, !.fo = r.lo - s, !.total = s]]
      ELSE [h |-> Incref(h, e.i),
            head |-> [r EXCEPT !.last = e.i, !.lo = e.at, !.total = bytes],
            tail |-> [r EXCEPT !.first = e.i, !.fo = e.at, !.total = s]]

\* rwm_union: the second chain is hung behind the first.
Joined(a, c) ==
  [h |-> Decref([Incref(c.h, c.r.first) EXCEPT !.p[a.last].next = c.r.first], c.r.first),
   r |-> [a EXCEPT !.last = c.r.last, !.lo = c.r.lo, !.total = @ + c.r.total]]
Second(x) == rwm_lock_first_part(x.h, x.r)
Hung(a, t, held) == Joined(a.r, Second(rwm_lock_last_part(a.h, t, held)))
HungBehind(a, r, t) == Hung(a, t, IF a.r.last = r.last THEN r.last ELSE null)
rwm_union(h, r, t) ==
  IF r.last = null THEN [h |-> h, r |-> t]
  ELSE IF t.first = null THEN [h |-> h, r |-> r]
  ELSE HungBehind(rwm_lock_last_part(h, r, null), r, t)

(***************************************************************************)
(* Encryption and decryption into another message, in whole blocks.        *)
(* t: [x: heap and result, buf: start of a block, left, room: buf_left].   *)
(***************************************************************************)
\* evp_crypt on one piece; it works on whole blocks only.
evp_crypt(d) == [k \in DOMAIN d |-> IF Len(d) % Block = 0 THEN d[k] + MaxByte ELSE 0]

Whole(n) == n - (n % Block)
AtMostStd(n) == IF n >= Std THEN Std ELSE n
Fresh(t, hint) == [t EXCEPT !.x = Behind(t.x, AtMostStd(hint), 0, <<>>),
                            !.room = BufferSize(AtMostStd(hint))]
Out(t, d) == [t EXCEPT !.x = Extend(t.x, d), !.room = @ - Len(d)]

\* The loop at the end of rwm_process_encrypt_decrypt.
RECURSIVE Blocks(_, _)
InRoom(t, d) ==
  IF Len(d) <= t.room THEN Out(t, evp_crypt(d))
  ELSE Blocks(Out(t, evp_crypt(Take(d, Whole(t.room)))), Skip(d, Whole(t.room)))
Blocks(t, d) == InRoom(IF t.room < Block THEN Fresh(t, t.left + Len(d)) ELSE t, d)

\* A block begun in the last piece is completed; it may have to be cut in two.
BlockOut(t, d, hint) ==
  IF t.room >= Block THEN Out(t, d)
  ELSE Out(Fresh(Out(t, Take(d, t.room)), hint), Skip(d, t.room))
Filled(t, d, fill) ==
  IF fill = 0 THEN t
  ELSE BlockOut(t, evp_crypt(t.buf \o Take(d, fill)), t.left + Len(d) - fill + Block)

\* The piece d, of which fill bytes complete the block begun.
Piece(t, d, fill) ==
  IF Len(d) < fill THEN [t EXCEPT !.buf = @ \o d]
  ELSE LET n == fill + Whole(Len(d) - fill)
       IN  Blocks([Filled(t, d, fill) EXCEPT !.buf = Skip(d, n)], SubSeq(d, fill + 1, n))
rwm_process_encrypt_decrypt(t, d) ==
  Piece([(IF t.room = 0 THEN Fresh(t, t.left) ELSE t) EXCEPT !.left = @ - Len(d)], d,
        IF t.buf = <<>> THEN 0 ELSE Block - Len(t.buf))

RECURSIVE CryptAll(_, _)
CryptAll(t, pieces) ==
  IF pieces = <<>> THEN t
  ELSE CryptAll(rwm_process_encrypt_decrypt(t, Content(t.x.h, <<Head(pieces)>>)), Tail(pieces))

\* Where the result goes: the last part of res, or a new one.
Target(x, bytes) ==
  IF x.r.last = null
  THEN [h |-> NewPart(x.h, null, AtMostStd(bytes + Reserve), Reserve, <<>>),
        r |-> [x.r EXCEPT !.first = FreePart(x.h), !.last = FreePart(x.h),
                          !.fo = Reserve, !.lo = Reserve]]
  ELSE IF SoleBuffer(x, x.r.last) THEN x ELSE Behind(x, AtMostStd(bytes), 0, <<>>)
Crypted(to, r, bytes) ==
  CryptAll([x |-> to, buf |-> <<>>, left |-> bytes, room |-> RoomBehind(to)],
           Processed(to.h, r, bytes, 0)).x
Taken(x, r, bytes) ==
  LET done == rwm_process_ex(x.h, r, bytes, 0, "advance")
  IN  [h |-> done.h, r |-> done.r, res |-> x.r]

\* Returns the heap, what is left of r, and res.
rwm_encrypt_decrypt_to(h, r, res, want) ==
  LET bytes == Whole(Lesser(want, r.total))
  IN  IF bytes = 0 THEN [h |-> h, r |-> r, res |-> res]
      ELSE Taken(Crypted(Target(rwm_lock_last_part(h, res, null), bytes), r, bytes), r, bytes)

(***************************************************************************)
(* Operations.                                                             *)
(***************************************************************************)
Used == UNION {{IF b > MaxByte THEN b - MaxByte ELSE b : b \in Range(val[m])} : m \in Msg}
RECURSIVE Least(_, _)
Least(n, S) == IF n = 0 THEN <<>> ELSE <<Min(S)>> \o Least(n - 1, S \ {Min(S)})
NewBytes(n) == Least(n, (1 .. MaxByte) \ Used)
Fits(n) == Cardinality((1 .. MaxByte) \ Used) >= n

Op == ops < MaxOps /\ ops' = ops + 1
Is(m) == msg[m].live
Result(m, x, v) == /\ heap' = x.h /\ msg' = [msg EXCEPT ![m] = x.r]
                   /\ val' = [val EXCEPT ![m] = v]

\* rwm_create, rwm_init: bytes pushed into an empty message.
Create(m, n) ==
  /\ Op /\ ~Is(m) /\ Fits(n)
  /\ Result(m, IF n = 0 THEN [h |-> heap, r |-> Empty]
               ELSE rwm_push_data_ext(heap, Empty, NewBytes(n), n), NewBytes(n))

\* rwm_push_data, when there are buffers for part of the data only as well.
Push(m, n, avail) ==
  /\ Op /\ Is(m) /\ Fits(n)
  /\ LET x == rwm_push_data_ext(heap, msg[m], NewBytes(n), avail)
     IN  Result(m, x, val[m] \o Take(NewBytes(n), x.r.total - msg[m].total))

PushFront(m, n) ==
  /\ Op /\ Is(m) /\ Fits(n)
  /\ Result(m, rwm_push_data_front(heap, msg[m], NewBytes(n)), NewBytes(n) \o val[m])

Prepend(m, n) ==
  /\ Op /\ Is(m) /\ Fits(n) /\ n <= Std
  /\ Result(m, rwm_prepend_alloc(heap, msg[m], NewBytes(n)), NewBytes(n) \o val[m])

Postpone(m, n) ==
  /\ Op /\ Is(m) /\ Fits(n) /\ n <= Std
  /\ Result(m, rwm_postpone_alloc(heap, msg[m], NewBytes(n)), val[m] \o NewBytes(n))

\* rwm_clone.
Clone(m, n) ==
  /\ Op /\ Is(m) /\ ~Is(n)
  /\ heap' = IF msg[m].first = null THEN heap ELSE Incref(heap, msg[m].first)
  /\ msg' = [msg EXCEPT ![n] = msg[m]] /\ val' = [val EXCEPT ![n] = val[m]]

\* rwm_free.
Free(m) == Op /\ Is(m) /\ Result(m, [h |-> Decref(heap, msg[m].first), r |-> Dead], <<>>)

\* rwm_fetch_data, rwm_skip_data: from the front.
Fetch(m, n) ==
  /\ Op /\ Is(m) /\ n <= Len(val[m])
  /\ Result(m, rwm_process_ex(heap, msg[m], n, 0, "advance"), Skip(val[m], n))

\* rwm_trunc, rwm_fetch_data_back: from the back, n bytes are left.
Trunc(m, n) ==
  /\ Op /\ Is(m) /\ n < Len(val[m])
  /\ Result(m, rwm_process_ex(heap, msg[m], Len(val[m]) - n, n, "truncate"), Take(val[m], n))

SplitHead(m, n, k) ==
  /\ Op /\ Is(m) /\ ~Is(n) /\ k <= Len(val[m])
  /\ LET x == rwm_split_head(heap, msg[m], k)
     IN  /\ heap' = x.h /\ msg' = [msg EXCEPT ![m] = x.tail, ![n] = x.head]
         /\ val' = [val EXCEPT ![m] = Skip(val[m], k), ![n] = Take(val[m], k)]

\* rwm_get_block_ptr_bytes, as parse_execute of the HTTP server calls it.
BlockBytes(m) ==
  /\ Op /\ Is(m) /\ msg[m].first # null /\ heap.p[msg[m].first].refcnt > 1
  /\ Result(m, rwm_get_block_ptr_bytes(heap, msg[m]), val[m])

Union(m, n) ==
  /\ Op /\ Is(m) /\ Is(n) /\ m # n
  /\ LET x == rwm_union(heap, msg[m], msg[n])
     IN  /\ heap' = x.h /\ msg' = [msg EXCEPT ![m] = x.r, ![n] = Dead]
         /\ val' = [val EXCEPT ![m] = @ \o val[n], ![n] = <<>>]

Crypt(m, n, k) ==
  /\ Op /\ Is(m) /\ Is(n) /\ m # n /\ \A b \in Range(val[m]) : b <= MaxByte
  /\ LET x == rwm_encrypt_decrypt_to(heap, msg[m], msg[n], k)
         c == Whole(Lesser(k, Len(val[m])))
     IN  /\ heap' = x.h /\ msg' = [msg EXCEPT ![m] = x.r, ![n] = x.res]
         /\ val' = [val EXCEPT ![m] = Skip(val[m], c),
                               ![n] = @ \o evp_crypt(Take(val[m], c))]

Next ==
  \E m \in Msg :
    \/ Free(m) \/ BlockBytes(m)
    \/ \E n \in 0 .. MaxPush : Create(m, n) \/ Trunc(m, n)
    \/ \E n \in 1 .. MaxPush : \/ PushFront(m, n) \/ Prepend(m, n) \/ Postpone(m, n)
                               \/ Fetch(m, n)
                               \/ \E avail \in {0, 1, MaxPush} : Push(m, n, avail)
    \/ \E o \in Msg : \/ Clone(m, o) \/ Union(m, o)
                      \/ \E n \in 1 .. MaxPush : SplitHead(m, o, n) \/ Crypt(m, o, n)

Spec == Init /\ [][Next]_vars

(***************************************************************************)
(* Properties.                                                             *)
(***************************************************************************)
Live == {m \in Msg : msg[m].live}
PartsUsed == {i \in DOMAIN heap.p : heap.p[i].refcnt > 0}

\* Type invariant.
TypeOK ==
  /\ \A i \in PartsUsed : /\ heap.p[i].part \in DOMAIN heap.b
                          /\ heap.p[i].next \in DOMAIN heap.p \cup {null}
  /\ \A m \in Msg : msg[m].total = Len(val[m])

\* Every message reads as the bytes put into it, in order, whatever was done to the
\* messages it shares parts with: when rwm_process_ex reads it from any offset, and when
\* rwm_prepare_iovec hands it to the kernel.
Contents ==
  \A m \in Live : \A n \in 0 .. Len(val[m]) :
    /\ Content(heap, Processed(heap, msg[m], Len(val[m]), n)) = Skip(val[m], n)
    /\ Content(heap, rwm_prepare_iovec(heap, msg[m], MaxPart, n)) = Take(val[m], n)

\* A part is referred to as often as it counts, a buffer likewise: nothing is freed
\* while it can be reached and nothing stays that cannot.
RefsExact ==
  /\ \A i \in DOMAIN heap.p : heap.p[i].refcnt =
       Cardinality({m \in Live : msg[m].first = i})
       + Cardinality({j \in PartsUsed : heap.p[j].next = i})
  /\ \A x \in DOMAIN heap.b : heap.b[x].refcnt =
       Cardinality({i \in PartsUsed : heap.p[i].part = x})

\* rwm_check, and "msg parts can not have loops" (net-msg.h): a message lies inside its
\* parts, the parts inside their buffers, and a chain leads to its last part and ends.
WellFormed ==
  /\ \A i \in PartsUsed : Last(Chain(heap, i, null, MaxPart)) = null
  /\ \A m \in Live : LET r == msg[m]   s == Parts(heap, r) IN r.first # null =>
       /\ Last(s) = r.last /\ r.fo >= heap.p[r.first].off /\ r.lo <= heap.p[r.last].end
       /\ \A k \in DOMAIN s : /\ Start(heap, r, s[k]) <= End(heap, r, s[k])
                              /\ heap.p[s[k]].end <= Len(heap.b[heap.p[s[k]].part].data)

\* Messages hold what was put into them, in parts and buffers that are counted right.
MessagesSound == TypeOK /\ Contents /\ RefsExact /\ WellFormed
=============================================================================
