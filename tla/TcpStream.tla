----------------------------- MODULE TcpStream ------------------------------
(***************************************************************************)
(* The byte streams of the original program: packets queued on one         *)
(* connection, framed, padded, encrypted and wrapped by its writer, cut up *)
(* by TCP, and put together again by the reader of the other end.          *)
(* net/net-tcp-connections.c, with the framing of net/net-tcp-rpc-common.c *)
(* and the parsers of net-tcp-rpc-client.c, net-tcp-rpc-server.c and       *)
(* net-tcp-rpc-ext-server.c.                                               *)
(*                                                                         *)
(* kind: "plain" and "cbc" are RPC connections before and after encryption *)
(* is switched on; "medium", "padded" and "compact" are connections of     *)
(* clients in the three transports, "tls" a padded one inside TLS records, *)
(* "unknown" one of a client that knows none of the secrets.               *)
(*                                                                         *)
(* A unit stands for a quarter (or another fraction) of a word; each knows *)
(* the packet it belongs to.  Encryption keeps units apart only where it   *)
(* matters: CBC is done block by block.                                    *)
(***************************************************************************)
EXTENDS Integers, Sequences

CONSTANTS Kinds, Bodies,   \* lengths of the packets, multiples of Word
          MaxPackets,      \* bound
          Word, Block,     \* 4 and 16 bytes
          HeaderLen,       \* the 64 bytes a client starts with
          CcsLen, RecLen,  \* 11 and 5 bytes of TLS before the payload
          MaxRec,          \* MAX_PACKET_LENGTH
          SkipLen,         \* bytes dropped after a header of no known secret
          MaxShort         \* words that fit the short length of the compact transport

VARIABLES kind, sent,  \* what is sent: a sequence of lengths
          next,        \* packets written so far
          hello,       \* the client's first bytes have been written
          wire, c      \* on the way; the connection that reads

vars == <<kind, sent, next, hello, wire, c>>

Rpc == kind \in {"plain", "cbc"}
Tls == kind = "tls"
Pad == kind \in {"padded", "tls"}

\* Units: of packet k, with what its length field says and how long that field is.
Units(k, n, field, hdr) == [i \in 1 .. n |-> [k |-> k, field |-> field, hdr |-> hdr]]
PadWord == Units(0, Word, Word, Word)
Record(n, len) == [i \in 1 .. len |-> [k |-> -1, field |-> n, hdr |-> len]]

Lengths == UNION {[1 .. n -> Bodies] : n \in 1 .. MaxPackets}

Init ==
  /\ kind \in Kinds /\ sent \in Lengths /\ next = 0 /\ hello = Rpc /\ wire = <<>>
  /\ c = [in_u |-> <<>>, in |-> <<>>, skip |-> 0, crypto |-> kind = "cbc", left |-> -1,
          started |-> Rpc, got |-> <<>>, bad |-> FALSE]

(***************************************************************************)
(* The writer.                                                             *)
(***************************************************************************)
\* tcp_rpc_write_packet: length, number and checksum around the payload.
WriteRpc(k) == Units(k, sent[k] + 3 * Word, sent[k] + 3 * Word, Word)

\* tcp_rpc_write_packet_compact: up to three random bytes after the payload, a length of
\* one byte or of four in front.
LenLen(n) == IF kind = "compact" /\ n \div Word <= MaxShort THEN 1 ELSE Word
WriteExt(k, pad) == LET n == sent[k] + pad IN Units(k, n + LenLen(n), n, LenLen(n))

\* tcp_rpc_flush: to a whole number of blocks, in words that say they are one word long.
Missing(out) == (Block - (Len(out) % Block)) % Block
tcp_rpc_flush(out) ==
  IF kind # "cbc" THEN out
  ELSE out \o [i \in 1 .. Missing(out) |-> PadWord[1]]

\* cpu_tcp_aes_crypto_encrypt_output: whole blocks only.
\* cpu_tcp_aes_crypto_ctr128_encrypt_output: all of it, in records of at most MaxRec.
RECURSIVE Encrypted(_)
Encrypted(out) ==
  IF kind = "plain" THEN out
  ELSE IF kind = "cbc" THEN SubSeq(out, 1, Len(out) - (Len(out) % Block))
  ELSE IF ~Tls \/ out = <<>> THEN out
  ELSE LET n == IF Len(out) > MaxRec THEN MaxRec ELSE Len(out)
       IN  Record(n, RecLen) \o SubSeq(out, 1, n) \o Encrypted(SubSeq(out, n + 1, Len(out)))

\* cpu_tcp_server_writer: everything queued, then a flush.
RECURSIVE WriteAll(_, _, _)
WriteAll(k, upto, pad) ==
  IF k > upto THEN <<>>
  ELSE (IF Rpc THEN WriteRpc(k) ELSE WriteExt(k, IF Pad THEN pad ELSE 0)) \o WriteAll(k + 1, upto, pad)
Write ==
  /\ hello /\ next < Len(sent)
  /\ \E upto \in next + 1 .. Len(sent), pad \in 0 .. Word - 1 :
       /\ (pad > 0 => Pad)
       /\ wire' = wire \o Encrypted(tcp_rpc_flush(WriteAll(next + 1, upto, pad))) /\ next' = upto
  /\ UNCHANGED <<kind, sent, hello, c>>

\* What a client sends first: 64 bytes that hold the key, inside TLS after the client's
\* ChangeCipherSpec and with the beginning of its first packet.
Hello ==
  /\ ~hello /\ hello' = TRUE
  /\ \E n \in 0 .. (IF Tls THEN 1 ELSE 0) :
       LET first == Units(0, HeaderLen, 0, 0) \o WriteAll(1, n, 0)
       IN  wire' = (IF Tls THEN Record(Len(first), CcsLen) ELSE <<>>) \o first /\ next' = n
  /\ UNCHANGED <<kind, sent, c>>

(***************************************************************************)
(* The reader.                                                             *)
(***************************************************************************)
Drop(s, n) == SubSeq(s, n + 1, Len(s))
Least(a, b) == IF a < b THEN a ELSE b

\* cpu_tcp_aes_crypto_decrypt_input: whole blocks.
Blocks(d) ==
  LET n == Len(d.in_u) - (Len(d.in_u) % Block)
  IN  [d EXCEPT !.in = @ \o SubSeq(d.in_u, 1, n), !.in_u = Drop(@, n)]

\* cpu_tcp_aes_crypto_ctr128_decrypt_input: what is left of the record, then the next one.
RECURSIVE Stream(_)
Stream(d) ==
  IF d.in_u = <<>> \/ d.bad THEN d
  ELSE IF ~Tls THEN [d EXCEPT !.in = @ \o d.in_u, !.in_u = <<>>]
  ELSE IF d.left = 0
  THEN IF Len(d.in_u) < RecLen THEN d
       ELSE IF d.in_u[1].k # -1 THEN [d EXCEPT !.bad = TRUE]
       ELSE LET left == d.in_u[1].field
                rest == Drop(d.in_u, RecLen)
                n == Least(left, Len(rest))
            IN  Stream([d EXCEPT !.in = @ \o SubSeq(rest, 1, n), !.in_u = Drop(rest, n), !.left = left - n])
  ELSE LET n == Least(d.left, Len(d.in_u))
       IN  Stream([d EXCEPT !.in = @ \o SubSeq(d.in_u, 1, n), !.in_u = Drop(@, n), !.left = @ - n])

Decrypt(d) == IF ~d.crypto THEN d ELSE IF kind = "cbc" THEN Blocks(d) ELSE Stream(d)

\* A parser returns the connection and the bytes it still needs: 0 to be called again,
\* NeedMore to be called when something arrives, less than 0 for bytes to drop.
NeedMore == 0 - 1000
Ret(d, need) == [d |-> d, need |-> need]
Bad(d) == Ret([d EXCEPT !.bad = TRUE], 0)

\* tcp_rpcc_parse_execute, tcp_rpcs_parse_execute.
RECURSIVE ParseRpc(_)
ParseRpc(d) ==
  LET len == Len(d.in) IN
  IF len = 0 THEN Ret(d, NeedMore)
  ELSE IF len < Word THEN Ret(d, Word - len)
  ELSE LET n == d.in[1].field IN
       IF d.in[1].k < 0 THEN Bad(d)
       ELSE IF n = Word THEN ParseRpc([d EXCEPT !.in = Drop(@, Word)])
       ELSE IF len < n THEN Ret(d, n - len)
       ELSE ParseRpc([d EXCEPT !.in = Drop(@, n), !.got = Append(@, <<d.in[1].k, n - 3 * Word>>)])

\* tcp_rpcs_compact_parse_execute, once the transport is known.  rwm_trunc takes the
\* padding off.
RECURSIVE ParseExt(_)
ParseExt(d) ==
  LET len == Len(d.in)
      min == (IF kind = "compact" THEN 1 ELSE Word) + 1
  IN  IF len = 0 THEN Ret(d, NeedMore)
      ELSE IF len < min THEN Ret(d, min - len)
      ELSE LET n == d.in[1].field
               all == n + d.in[1].hdr
           IN  IF d.in[1].k <= 0 THEN Bad(d)
               ELSE IF len < all THEN Ret(d, all - len)
               ELSE ParseExt([d EXCEPT !.in = Drop(@, all),
                                       !.got = Append(@, <<d.in[1].k, n - (n % Word)>>)])

\* The same before it is known: the rest of what was read goes back to be decrypted.
Started(d, left) ==
  Decrypt([d EXCEPT !.started = TRUE, !.crypto = TRUE, !.left = left,
                    !.in_u = @ \o Drop(d.in, HeaderLen), !.in = <<>>])
ParseFirst(d) ==
  LET len == Len(d.in) IN
  IF len = 0 THEN Ret(d, NeedMore)
  ELSE IF Tls THEN IF len < CcsLen THEN Ret(d, CcsLen - len)
       ELSE LET n == d.in[1].field IN
            IF len < CcsLen + n THEN Ret(d, CcsLen + n - len)
            ELSE ParseExt(Started([d EXCEPT !.in = Drop(@, CcsLen)], n - HeaderLen))
  ELSE IF len < HeaderLen THEN Ret(d, HeaderLen - len)
  ELSE IF kind = "unknown" THEN Ret(d, 0 - SkipLen)
  ELSE ParseExt(Started(d, -1))

Parse(d) == IF Rpc THEN ParseRpc(d) ELSE IF d.started THEN ParseExt(d) ELSE ParseFirst(d)

\* The loop at the end of cpu_tcp_server_reader.
Awaited(d, need) ==
  LET have == Len(IF d.crypto THEN d.in ELSE d.in_u) IN IF need < 0 THEN need - have ELSE need + have
RECURSIVE Execute(_)
Execute(d) ==
  IF d.skip # 0 \/ d.bad \/ d.in = <<>> THEN d
  ELSE LET r == Parse(d)
       IN  IF r.need = 0 THEN Execute(r.d)
           ELSE IF r.need = NeedMore THEN r.d
           ELSE [r.d EXCEPT !.skip = Awaited(r.d, r.need)]

\* cpu_tcp_server_reader.
cpu_tcp_server_reader(raw) ==
  LET d == Decrypt(IF c.crypto THEN [c EXCEPT !.in_u = @ \o raw] ELSE [c EXCEPT !.in = @ \o raw])
      drop == IF d.skip < 0 THEN Least(Len(d.in), 0 - d.skip) ELSE 0
      ready == IF d.skip < 0 THEN d.skip + drop = 0 ELSE Len(d.in) >= d.skip
  IN  IF ready THEN Execute([d EXCEPT !.skip = 0, !.in = Drop(@, drop)])
      ELSE [d EXCEPT !.skip = @ + drop, !.in = Drop(@, drop)]

Read ==
  /\ wire # <<>> /\ ~c.bad
  /\ \E n \in 1 .. Len(wire) : c' = cpu_tcp_server_reader(SubSeq(wire, 1, n)) /\ wire' = Drop(wire, n)
  /\ UNCHANGED <<kind, sent, next, hello>>

Next == Hello \/ Write \/ Read
Spec == Init /\ [][Next]_vars

(***************************************************************************)
(* Properties.                                                             *)
(***************************************************************************)
\* Type invariant.
TypeOK == kind \in Kinds /\ next \in 0 .. Len(sent) /\ c.left \in -1 .. 100 /\ c.skip \in (0 - SkipLen) .. 100

\* However TCP cuts the stream, the packets that come out are the ones that went in, in
\* their order, each once and with its length; nothing in the stream is taken for something
\* else.
InSequence ==
  /\ ~c.bad /\ Len(c.got) <= IF kind = "unknown" THEN 0 ELSE next
  /\ \A k \in DOMAIN c.got : c.got[k] = <<k, sent[k]>>

\* And when all that was written has arrived, all of it has come out: nothing waits in a
\* buffer for a later packet to push it through.
NothingHeld == hello /\ wire = <<>> /\ kind # "unknown" => Len(c.got) = next

\* What comes out of a stream of any kind is what went in, without delay.
StreamExact == TypeOK /\ InSequence /\ NothingHeld
=============================================================================
