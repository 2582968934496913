--------------------------- MODULE ClientFraming ---------------------------
(***************************************************************************)
(* The packet framings of a client connection (client_transport.go):       *)
(* ReadPacket over the bytes a client sends.  The AES-CTR layer maps byte  *)
(* to byte at the same offset and is left out.                             *)
(*                                                                         *)
(* Bytes are offsets: a packet occupies a header, a body and, in the       *)
(* padded framing, up to three bytes of padding counted in its length.     *)
(* What the reader sees at the start of a packet is that packet's header;  *)
(* anywhere else it is the middle of one, which is any number at all.      *)
(***************************************************************************)
EXTENDS Naturals, Sequences

CONSTANTS Transports,  \* of "abridged", "intermediate", "padded"
          Words,       \* packet sizes in 4-byte words
          Pads,        \* lengths of padding a client uses
          Acks,        \* whether a client asks for quick acknowledgements
          MaxPackets   \* bound: packets sent

maxPacketSize == 16 * 1024 * 1024
LongMark      == 127      \* 0x7f

VARIABLES
  transport,  \* hdr.Transport
  sent,       \* the packets the client sent: size in bytes, padding, first offset
  end,        \* bytes the client sent
  pos,        \* bytes the reader consumed
  got,        \* sizes of the packets ReadPacket returned
  st          \* "run"; "closed" once ReadPacket has returned an error

vars == <<transport, sent, end, pos, got, st>>

Init ==
  /\ transport \in Transports /\ sent = <<>> /\ end = 0
  /\ pos = 0 /\ got = <<>> /\ st = "run"

\* The prefix of a packet of n bytes with pad bytes of padding.  Abridged: one
\* byte, or LongMark and three more; the quick-ack flag is the top bit of the
\* first.  The others: four bytes, the flag being the top bit of the last.
PrefixBytes(t, n) == IF t = "abridged" /\ n \div 4 < LongMark THEN 1 ELSE 4
FirstByte(n, qa)  == (IF n \div 4 < LongMark THEN n \div 4 ELSE LongMark)
                     + (IF qa THEN 128 ELSE 0)

\* The client sends a packet.  Only the padded framing pads.
Send(w, pad, qa) ==
  /\ Len(sent) < MaxPackets /\ (pad = 0 \/ transport = "padded")
  /\ sent' = Append(sent, [n |-> 4 * w, pad |-> pad, qa |-> qa, at |-> end])
  /\ end' = end + PrefixBytes(transport, 4 * w) + 4 * w + pad
  /\ UNCHANGED <<transport, pos, got, st>>

readAbridged_NoLong(p) == [bytes |-> 1, n |-> 4 * FirstByte(p.n, p.qa)]

\* How many bytes the reader takes for the prefix, and the length it derives.
readAbridged(p) ==
  LET b == FirstByte(p.n, p.qa)
  IN  IF b = LongMark THEN [bytes |-> 4, n |-> 4 * (p.n \div 4)]
                      ELSE [bytes |-> 1, n |-> 4 * b]

\* The flag is stripped; the padded framing rounds down to whole words.
readIntermediate(p) ==
  [bytes |-> 4, n |-> IF transport = "padded" THEN ((p.n + p.pad) \div 4) * 4
                                              ELSE p.n + p.pad]

Decode(p) == IF transport = "abridged" THEN readAbridged(p) ELSE readIntermediate(p)

\* ReadPacket at the start of packet i: the prefix, then (once they have come)
\* the bytes of the body.
Read(i) ==
  /\ st = "run" /\ sent[i].at = pos
  /\ LET d == Decode(sent[i])
     IN  IF d.n = 0 \/ d.n > maxPacketSize
           THEN st' = "closed" /\ UNCHANGED <<pos, got>>
           ELSE /\ pos + d.bytes + d.n <= end
                /\ pos' = pos + d.bytes + d.n /\ got' = Append(got, d.n) /\ st' = st
  /\ UNCHANGED <<transport, sent, end>>

\* ReadPacket in the middle of a packet: four bytes taken for a prefix give some
\* length, which is refused or skips as many bytes of what was sent.
ReadAstray(n) ==
  /\ st = "run" /\ pos + 4 <= end /\ \A i \in DOMAIN sent : sent[i].at # pos
  /\ IF n = 0 THEN st' = "closed" /\ UNCHANGED <<pos, got>>
     ELSE /\ pos + 4 + 4 * n <= end /\ pos' = pos + 4 + 4 * n
          /\ got' = Append(got, 4 * n) /\ st' = st
  /\ UNCHANGED <<transport, sent, end>>

Reader == \/ \E i \in DOMAIN sent : Read(i)
          \/ \E n \in Words : ReadAstray(n)

Next ==
  \/ \E w \in Words, pad \in Pads, qa \in Acks : Send(w, pad, qa)
  \/ Reader

Spec == Init /\ [][Next]_vars
Fairness == WF_vars(Reader)
FairSpec == Spec /\ Fairness

(***************************************************************************)
(* Properties.                                                             *)
(***************************************************************************)
Refused(n) == n = 0 \/ n > maxPacketSize

\* ReadPacket returns the client's packets, whole and in order, at the boundary
\* of the one- and four-byte prefixes and at the 16 MiB cap too.
PacketsAsSent ==
  /\ Len(got) <= Len(sent)
  /\ \A i \in DOMAIN got : got[i] = sent[i].n

\* A connection is given up only over an empty or an oversized packet, and never
\* goes past one.
RefusedOnlyBad ==
  /\ st = "closed" => Refused(sent[Len(got) + 1].n)
  /\ \A i \in DOMAIN got : ~Refused(got[i])

\* Everything sent is read or refused.
AllRead == \A k \in 1 .. MaxPackets :
             (Len(sent) >= k) ~> (Len(got) >= k \/ st = "closed")

\* Padding and quick-ack requests of the intermediate framings leave every packet
\* up to and including the first padded one intact (readIntermediate rounds the
\* length down and masks the flag).
PadHarmsOnlyAfter ==
  \A i \in DOMAIN got : (\A j \in 1 .. i - 1 : sent[j].pad = 0) => got[i] = sent[i].n

\* client_transport.go: in the padded framing "trailing pad allowed": padding
\* does not disturb the packets after it.
PaddingSkipped == PacketsAsSent
=============================================================================
