----------------------------- MODULE CbcStream -----------------------------
(***************************************************************************)
(* One direction of an encrypted RPC connection (rpc_outbound.go): frames  *)
(* written by several goroutines with writeEncryptedFrame, the bytes in    *)
(* flight, and the parser, readCBCFrame over cbcDecryptReader.  The DC's   *)
(* end of each direction mirrors the proxy's.                              *)
(*                                                                         *)
(* The unit is the 4-byte word: every payload is a whole number of them    *)
(* (HandlePacket rejects the others) and a CBC block is four.  A word is   *)
(* its place in its frame; the cipher is the position in the CBC chain at  *)
(* which it was encrypted, and decrypting it at another yields garbage.    *)
(***************************************************************************)
EXTENDS Naturals, Sequences

CONSTANTS Writer,     \* goroutines: clients in ForwardPacket, pingLoop
          Sizes,      \* payload sizes, in words
          MaxFrames,  \* bound: frames sent
          NoOne

Block == 4

VARIABLES
  writeMu,   \* who holds c.writeMu, or NoOne
  outSeqno,  \* c.outSeqno
  chainW,    \* words encrypted so far: the state of cbcEnc
  out,       \* the encrypted frame a writer is about to give to conn.Write
  wire,      \* encrypted words in flight
  chainR,    \* words decrypted so far: the state of cbcDec
  rawBuf,    \* cbcDecryptReader.rawBuf
  decBuf,    \* cbcDecryptReader.decBuf
  frame,     \* the words readCBCFrame has read of the current frame
  state,     \* "run", or "error" once readCBCFrame has returned one
  log,       \* the frames accepted for sending
  received   \* the frames returned by readCBCFrame

writeVars == <<writeMu, outSeqno, chainW, out, log>>
readVars  == <<chainR, rawBuf, decBuf, frame, state, received>>
vars == <<writeVars, wire, readVars>>

Garbage == [f |-> 0, i |-> 0, len |-> 0]
PadWord == [f |-> 0, i |-> 1, len |-> 1]
FrameLen(n) == n + 3     \* length, seqno, payload, CRC

Init ==
  /\ writeMu = NoOne /\ outSeqno = 0 /\ chainW = 0
  /\ out = [w \in Writer |-> <<>>] /\ wire = <<>> /\ log = <<>>
  /\ chainR = 0 /\ rawBuf = <<>> /\ decBuf = <<>> /\ frame = <<>>
  /\ state = "run" /\ received = <<>>

(***************************************************************************)
(* writeEncryptedFrame.                                                    *)
(***************************************************************************)
padWords(n) == (Block - (FrameLen(n) % Block)) % Block

\* The frame with its padding, and its encryption at the writer's position.
Plain(seqno, n) ==
  [i \in 1 .. FrameLen(n) + padWords(n) |->
     IF i <= FrameLen(n) THEN [f |-> seqno + 1, i |-> i, len |-> FrameLen(n)]
                         ELSE PadWord]
Encrypt(ws, pos) == [i \in 1 .. Len(ws) |-> [pos |-> pos + i, w |-> ws[i]]]

\* Under writeMu: number the frame, build, pad and encrypt it ...
Build(w, n) ==
  /\ outSeqno' = outSeqno + 1
  /\ log' = Append(log, [seqno |-> outSeqno, size |-> n])
  /\ out' = [out EXCEPT ![w] = Encrypt(Plain(outSeqno, n), chainW)]
  /\ chainW' = chainW + FrameLen(n) + padWords(n)

Seal_NoLock(w, n) ==
  /\ out[w] = <<>> /\ outSeqno < MaxFrames
  /\ Build(w, n) /\ UNCHANGED <<writeMu, wire, readVars>>

Seal_NoPad(w, n) ==
  /\ writeMu = NoOne /\ outSeqno < MaxFrames
  /\ writeMu' = w /\ outSeqno' = outSeqno + 1
  /\ log' = Append(log, [seqno |-> outSeqno, size |-> n])
  /\ out' = [out EXCEPT ![w] =
               Encrypt(SubSeq(Plain(outSeqno, n), 1, FrameLen(n)), chainW)]
  /\ chainW' = chainW + FrameLen(n)
  /\ UNCHANGED <<wire, readVars>>

Seal(w, n) ==
  /\ writeMu = NoOne /\ outSeqno < MaxFrames
  /\ writeMu' = w /\ Build(w, n) /\ UNCHANGED <<wire, readVars>>

\* ... and write it to the connection.
Flush(w) ==
  /\ out[w] # <<>> /\ wire' = wire \o out[w]
  /\ out' = [out EXCEPT ![w] = <<>>] /\ writeMu' = NoOne
  /\ UNCHANGED <<outSeqno, chainW, log, readVars>>

(***************************************************************************)
(* readCBCFrame over cbcDecryptReader.                                     *)
(***************************************************************************)
\* How many more words the current io.ReadFull wants: the length word, then the
\* rest of the frame.
Need == IF frame = <<>> THEN 1 ELSE frame[1].len - Len(frame)

\* What readCBCFrame does with the words of the frame once ws have arrived: a
\* pad is skipped, a length below 4 words is an error, and so is a bad CRC.
Whole(ws) == \A i \in 1 .. Len(ws) : ws[i].f = ws[1].f /\ ws[i].i = i
Parse(ws) ==
  LET L == ws[1].len IN
  IF L = 1 THEN frame' = <<>> /\ UNCHANGED <<state, received>>
  ELSE IF L < 4 THEN state' = "error" /\ UNCHANGED <<frame, received>>
  ELSE IF Len(ws) < L THEN frame' = ws /\ UNCHANGED <<state, received>>
  ELSE IF ~Whole(ws) THEN state' = "error" /\ UNCHANGED <<frame, received>>
  ELSE /\ received' = Append(received, [seqno |-> ws[1].f - 1, size |-> L - 3])
       /\ frame' = <<>> /\ state' = state

\* Read copies to the caller what it wants of ws and keeps the rest in decBuf.
Serve(ws) ==
  LET k == IF Need < Len(ws) THEN Need ELSE Len(ws)
  IN  decBuf' = SubSeq(ws, k + 1, Len(ws)) /\ Parse(frame \o SubSeq(ws, 1, k))

\* Decrypt: a word comes out right at the position it was encrypted at.
Decrypt(cs, pos) ==
  [i \in 1 .. Len(cs) |-> IF cs[i].pos = pos + i THEN cs[i].w ELSE Garbage]

\* Read, served from decBuf.
ReadBuffered ==
  /\ state = "run" /\ decBuf # <<>> /\ Serve(decBuf)
  /\ UNCHANGED <<writeVars, wire, chainR, rawBuf>>

\* Read, from the network: n words arrive; the whole blocks are decrypted and
\* the rest stays in rawBuf.
ReadNet(n) ==
  /\ state = "run" /\ decBuf = <<>> /\ n \in 1 .. Len(wire)
  /\ wire' = SubSeq(wire, n + 1, Len(wire))
  /\ LET raw    == rawBuf \o SubSeq(wire, 1, n)
         blocks == (Len(raw) \div Block) * Block
     IN  /\ rawBuf' = SubSeq(raw, blocks + 1, Len(raw)) /\ chainR' = chainR + blocks
         /\ IF blocks > 0 THEN Serve(Decrypt(SubSeq(raw, 1, blocks), chainR))
                          ELSE UNCHANGED <<decBuf, frame, state, received>>
  /\ UNCHANGED writeVars

Read == ReadBuffered \/ \E n \in 1 .. Len(wire) : ReadNet(n)

Next ==
  \/ \E w \in Writer : Flush(w) \/ \E n \in Sizes : Seal(w, n)
  \/ ReadBuffered
  \/ \E n \in 1 .. Len(wire) : ReadNet(n)

Spec == Init /\ [][Next]_vars

\* The connection stays up: what is written arrives, and goroutines run.
Fairness == WF_vars(Read) /\ \A w \in Writer : WF_vars(Flush(w))
FairSpec == Spec /\ Fairness

(***************************************************************************)
(* Properties.                                                             *)
(***************************************************************************)
Word == [f : 0 .. MaxFrames, i : Nat, len : Nat]

\* Type invariant of both ends of the stream.
TypeOK ==
  /\ writeMu \in Writer \cup {NoOne} /\ outSeqno \in 0 .. MaxFrames
  /\ chainW \in Nat /\ chainR \in Nat
  /\ out \in [Writer -> Seq([pos : Nat, w : Word])]
  /\ wire \in Seq([pos : Nat, w : Word]) /\ rawBuf \in Seq([pos : Nat, w : Word])
  /\ decBuf \in Seq(Word) /\ frame \in Seq(Word) /\ state \in {"run", "error"}
  /\ log \in Seq([seqno : Nat, size : Sizes])
  /\ received \in Seq([seqno : Nat, size : Sizes])

\* The reader never loses its place: it sees no impossible length and no bad CRC
\* however the writers interleave and however the network cuts the stream.
NeverDesynced == state = "run"

\* Between Reads less than a block is held back undecrypted, and a parser that
\* waits for more of a frame can only be waiting for words not yet written or
\* still in flight: padding makes every frame end on a block boundary.
NothingStuck ==
  /\ Len(rawBuf) < Block
  /\ wire = <<>> /\ (\A w \in Writer : out[w] = <<>>) =>
       rawBuf = <<>> /\ (decBuf = <<>> => frame = <<>> /\ received = log)

InFlight == SubSeq(log, Len(received) + 1, Len(log))

F == INSTANCE FrameFifo WITH queue <- InFlight, delivered <- received

\* writeEncryptedFrame, the stream and readCBCFrame together are a FIFO of
\* frames that delivers everything put into it.
ImplementsFifo == F!FSpec
=============================================================================
