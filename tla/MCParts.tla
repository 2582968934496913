----------------------------- MODULE MCParts -----------------------------
(***************************************************************************)
(* The parts of the proxy around the connection pool, checked side by side *)
(* for TLC.  They share no state, so each behaviour runs one of them (part)*)
(* and leaves the others in an initial state where nothing is due.  The    *)
(* initial file, framing and secrets of a part that does not run are fixed.*)
(* The properties of the parts that are extended here are the ones their   *)
(* theorems are about.                                                     *)
(***************************************************************************)
EXTENDS Lifecycle, Supervisor, Session, HotReload, TLC

CONSTANTS PartNames,                 \* the parts to run
          Writer, NoOne, CbcFrames,  \* CbcStream: writers, frames
          PacketN,                   \* ClientFraming: packets
          s1, s2                     \* Session: two secrets

VARIABLES part,
  writeMu, outSeqno, chainW, out, wire, chainR, rawBuf, decBuf, frame, cstate,
  log, received,
  transport, sent, end, pos, got, st

cbcVars  == <<writeMu, outSeqno, chainW, out, wire, chainR, rawBuf, decBuf,
              frame, cstate, log, received>>
frVars   == <<transport, sent, end, pos, got, st>>
vars == <<part, lifeVars, supVars, cbcVars, hotVars, frVars, sessionVars>>

Cbc == INSTANCE CbcStream WITH Sizes <- 1 .. 4, MaxFrames <- CbcFrames, state <- cstate

\* A few files for reloading: two DCs with one and two targets, the default
\* cluster moved, a cluster gone, a bad line, nothing but comments.
For(d, t)  == [kw |-> "proxy_for", dc |-> d, host |-> t, ok |-> TRUE]
Def(d)     == [kw |-> "default", dc |-> d, ok |-> TRUE]
FirstFile  == <<For(2, "a"), For(2, "b"), For(4, "a")>>
SomeFiles ==
  { FirstFile,
    <<Def(4), For(4, "b"), For(4, "a"), For(4, "b")>>,
    <<For(4, "a"), [For(2, "b") EXCEPT !.ok = FALSE]>>,
    <<[kw |-> "other"]>> }

\* For parsing: all files of at most three lines.
Two == INSTANCE HotReload WITH DC <- {2, 4}, Host <- {"a", "b"},
         Files <- {}, MaxEdits <- 0, MaxPicks <- 0
AllFiles == UNION {[1 .. n -> Two!Directive] : n \in 0 .. 3}
Parse == INSTANCE HotReload WITH DC <- {2, 4}, Host <- {"a", "b"},
           Files <- AllFiles, MaxEdits <- 0, MaxPicks <- 0

\* Packet sizes at the boundaries of the prefixes and of the cap, not padded; and
\* small packets with padding and quick-ack requests.
Fr  == INSTANCE ClientFraming WITH
         Transports <- {"abridged", "intermediate", "padded"},
         Words <- {0, 1, 126, 127, 128, 255, 4194304, 4194305},
         Pads <- {0}, Acks <- {FALSE}, MaxPackets <- PacketN
Pad == INSTANCE ClientFraming WITH
         Transports <- {"intermediate", "padded"}, Words <- {0, 1, 2},
         Pads <- 0 .. 3, Acks <- BOOLEAN, MaxPackets <- PacketN

\* Packets on both sides of every test of HandlePacket and validateDHPacket.
P(l, k, n, f) == [len |-> l, key |-> k, inner |-> n, fn |-> f]
Edge == { P(24, 1, 0, "other"), P(28, 1, 0, "other"), P(30, 1, 0, "other"),
          P(40, 0, 20, "dh"), P(40, 0, 21, "dh"), P(40, 0, 19, "dh"),
          P(40, 0, 20, "other") }
TwoSecrets == <<s1, s2>>

Init ==
  /\ part \in PartNames
  /\ LifeInit /\ Cbc!Init
  /\ IF part = "supervisor" THEN SupInit
     ELSE /\ proc = [w \in Worker |-> "none"] /\ starts = [w \in Worker |-> 0]
          /\ mon = [w \in Worker |-> "off"]
          /\ phase = "done" /\ slot = 0 /\ stopping = FALSE
  /\ CASE part = "hotreload" -> HotInit
       [] part = "parse"     -> Parse!HotInit
       [] OTHER              -> file = FirstFile /\ HotInit
  /\ CASE part = "framing"   -> Fr!Init
       [] part = "padding"   -> Pad!Init
       [] OTHER              -> transport = "padded" /\ Fr!Init
  /\ IF part = "session" THEN SessionInit
     ELSE secret = [c \in Client |-> Foreign] /\ SessionInit

Only(p) == part = p /\ UNCHANGED part

Next ==
  \/ Only("lifecycle")  /\ LifeNext
       /\ UNCHANGED <<supVars, cbcVars, hotVars, frVars, sessionVars>>
  \/ Only("supervisor") /\ SupNext
       /\ UNCHANGED <<lifeVars, cbcVars, hotVars, frVars, sessionVars>>
  \/ Only("cbc")        /\ Cbc!Next
       /\ UNCHANGED <<lifeVars, supVars, hotVars, frVars, sessionVars>>
  \/ Only("hotreload")  /\ HotNext
       /\ UNCHANGED <<lifeVars, supVars, cbcVars, frVars, sessionVars>>
  \/ Only("parse")      /\ Parse!HotNext
       /\ UNCHANGED <<lifeVars, supVars, cbcVars, frVars, sessionVars>>
  \/ Only("framing")    /\ Fr!Next
       /\ UNCHANGED <<lifeVars, supVars, cbcVars, hotVars, sessionVars>>
  \/ Only("padding")    /\ Pad!Next
       /\ UNCHANGED <<lifeVars, supVars, cbcVars, hotVars, sessionVars>>
  \/ Only("session")    /\ SessionNext
       /\ UNCHANGED <<lifeVars, supVars, cbcVars, hotVars, frVars>>

Spec == Init /\ [][Next]_vars

\* The fairness of the parts.  In the initial state of a part that does not run
\* none of its fair actions is enabled, so it asks nothing of that behaviour.
FairSpec == /\ Spec /\ LifeFairness /\ SupFairness /\ Cbc!Fairness
            /\ HotFairness /\ Fr!Fairness

\* Connections, writers and clients are interchangeable.
Symm == Permutations(Conn) \cup Permutations(Writer) \cup Permutations(Client)

(***************************************************************************)
(* The properties of the parts that are instances here; the others have    *)
(* theirs in their own modules.                                            *)
(***************************************************************************)
\* CbcStream: readCBCFrame never meets a bad length or a bad CRC, and
\* cbcDecryptReader holds back no frame that has wholly arrived.
StreamSound == Cbc!TypeOK /\ Cbc!NeverDesynced /\ Cbc!NothingStuck

\* CbcStream: writers, stream and reader together are a FIFO of frames.
\* ClientFraming: every packet sent is returned by ReadPacket or refused.
StreamsDeliver == Cbc!ImplementsFifo /\ Fr!AllRead

\* ClientFraming: what is read is what was written.  ReadPacket returns unpadded packets
\* whole and in order, only empty and oversized ones end a connection, and padding
\* does no harm up to the first padded packet.
ReadAsWritten ==
  /\ part # "padding" => Fr!PacketsAsSent /\ Fr!RefusedOnlyBad
  /\ Pad!PadHarmsOnlyAfter
=============================================================================
