------------------------------ MODULE Session ------------------------------
(***************************************************************************)
(* The sessions of the clients: handleConn (client_ingress.go) from the    *)
(* obfuscated2 header to the end, HandlePacket with validateDHPacket       *)
(* (dataplane.go) and the shared counters (stats.go).  ForwardPacket is    *)
(* module Outbound; here it answers or fails.                              *)
(*                                                                         *)
(* A packet is what HandlePacket looks at: its length, whether its         *)
(* auth_key_id is zero, and, if so, the inner length and the function.     *)
(* Counters are atomic, each on its own.                                   *)
(***************************************************************************)
EXTENDS Naturals, Sequences, FiniteSets

CONSTANTS Client, Secrets,  \* the proxy's secrets, in order
          Foreign,          \* a secret the proxy does not have
          Packets,          \* the packets clients send
          MaxPackets,       \* bound: packets of one client
          RespLen           \* lengths of answers

ASSUME SessionAssumption ==
  /\ IsFiniteSet(Client) /\ MaxPackets \in Nat
  /\ Packets \subseteq [len : Nat, key : Nat, inner : Nat, fn : {"dh", "other"}]
  /\ \A i \in DOMAIN Secrets : Secrets[i] # Foreign

VARIABLES
  place,         \* where the client's goroutine is
  secret,     \* the secret the client keyed its header with
  extConnIDCounter,
  id,         \* extConnID of the session, 0 before it is drawn
  pkt,        \* the packet in hand
  resp,       \* length of the answer in hand
  nread,      \* packets read from the client
  nwritten,   \* answers written to the client
  nempty,     \* answers without data, which are not written
  sentDC,     \* what ForwardPacket was given: ids, flags, packets
  TotForwardedQueries, DroppedQueries, BytesIn, BytesOut

clientVars == <<place, secret, id, pkt, resp, nread, nwritten, nempty>>
statVars == <<TotForwardedQueries, DroppedQueries, BytesIn, BytesOut>>
sessionVars == <<clientVars, extConnIDCounter, sentDC, statVars>>

NoPacket == [len |-> 0, key |-> 0, inner |-> 0, fn |-> "other"]

SessionInit ==
  /\ place = [c \in Client |-> "header"]
  /\ secret \in [Client -> {Secrets[i] : i \in DOMAIN Secrets} \cup {Foreign}]
  /\ extConnIDCounter = 0 /\ id = [c \in Client |-> 0]
  /\ pkt = [c \in Client |-> NoPacket] /\ resp = [c \in Client |-> 0]
  /\ nread = [c \in Client |-> 0] /\ nwritten = [c \in Client |-> 0]
  /\ nempty = [c \in Client |-> 0] /\ sentDC = {}
  /\ TotForwardedQueries = 0 /\ DroppedQueries = 0 /\ BytesIn = 0 /\ BytesOut = 0

SessionGoto(c, l) == place' = [place EXCEPT ![c] = l]

(***************************************************************************)
(* handleConn.                                                             *)
(***************************************************************************)
\* The header: the first secret whose key yields a transport magic is the
\* session's; with no secrets configured the unkeyed header is tried.  A header
\* may also be short, late, or carry no magic at all.
Header(c) ==
  /\ place[c] = "header"
  /\ \/ SessionGoto(c, "gone")
     \/ /\ Secrets = <<>> \/ \E i \in DOMAIN Secrets : Secrets[i] = secret[c]
        /\ SessionGoto(c, "draw")
  /\ UNCHANGED <<secret, id, pkt, resp, nread, nwritten, nempty, extConnIDCounter,
                 sentDC, statVars>>

nextExtConnID(c) ==
  /\ place[c] = "draw" /\ SessionGoto(c, "read")
  /\ extConnIDCounter' = extConnIDCounter + 1
  /\ id' = [id EXCEPT ![c] = extConnIDCounter + 1]
  /\ UNCHANGED <<secret, pkt, resp, nread, nwritten, nempty, sentDC, statVars>>

ReadPacket(c, p) ==
  /\ place[c] = "read" /\ nread[c] < MaxPackets /\ SessionGoto(c, "handle")
  /\ pkt' = [pkt EXCEPT ![c] = p] /\ nread' = [nread EXCEPT ![c] = @ + 1]
  /\ UNCHANGED <<secret, id, resp, nwritten, nempty, extConnIDCounter, sentDC, statVars>>

\* End of stream, a bad length, or 60 s of silence.
ReadEnds(c) ==
  /\ place[c] = "read" /\ SessionGoto(c, "gone")
  /\ UNCHANGED <<secret, id, pkt, resp, nread, nwritten, nempty, extConnIDCounter,
                 sentDC, statVars>>

Respond_ReadOn(c) ==
  /\ place[c] = "respond" /\ SessionGoto(c, "read")
  /\ \/ nwritten' = [nwritten EXCEPT ![c] = @ + 1] /\ UNCHANGED nempty
     \/ UNCHANGED <<nwritten, nempty>>
  /\ UNCHANGED <<secret, id, pkt, resp, nread, extConnIDCounter, sentDC, statVars>>

\* The answer is written, unless it is empty or the write fails.
Respond(c) ==
  /\ place[c] = "respond"
  /\ IF resp[c] = 0
       THEN SessionGoto(c, "read") /\ nempty' = [nempty EXCEPT ![c] = @ + 1] /\ UNCHANGED nwritten
       ELSE \/ /\ SessionGoto(c, "read") /\ nwritten' = [nwritten EXCEPT ![c] = @ + 1]
               /\ UNCHANGED nempty
            \/ SessionGoto(c, "gone") /\ UNCHANGED <<nwritten, nempty>>
  /\ UNCHANGED <<secret, id, pkt, resp, nread, extConnIDCounter, sentDC, statVars>>

(***************************************************************************)
(* HandlePacket.                                                           *)
(***************************************************************************)
validateDHPacket(p) == p.inner + 20 <= p.len /\ p.inner >= 20 /\ p.fn = "dh"

Accepts(p) == p.len >= 28 /\ p.len % 4 = 0 /\ (p.key = 0 => validateDHPacket(p))

\* A refused packet: counted, and the session ends.
Refuse(c) ==
  /\ place[c] = "handle" /\ ~Accepts(pkt[c]) /\ SessionGoto(c, "gone")
  /\ DroppedQueries' = DroppedQueries + 1
  /\ UNCHANGED <<secret, id, pkt, resp, nread, nwritten, nempty, extConnIDCounter,
                 sentDC, TotForwardedQueries, BytesIn, BytesOut>>

\* No route to the DC: likewise.
NoRoute(c) ==
  /\ place[c] = "handle" /\ Accepts(pkt[c]) /\ SessionGoto(c, "gone")
  /\ DroppedQueries' = DroppedQueries + 1
  /\ UNCHANGED <<secret, id, pkt, resp, nread, nwritten, nempty, extConnIDCounter,
                 sentDC, TotForwardedQueries, BytesIn, BytesOut>>

\* RPC_PROXY_REQ with the flags of the packet's kind goes to ForwardPacket.
SendProxyReq(c) ==
  /\ place[c] = "handle" /\ Accepts(pkt[c]) /\ SessionGoto(c, "forward")
  /\ sentDC' = sentDC \cup {[id |-> id[c], n |-> nread[c], p |-> pkt[c],
                             flag |-> IF pkt[c].key = 0 THEN "DH" ELSE "ExtNode"]}
  /\ UNCHANGED <<secret, id, pkt, resp, nread, nwritten, nempty, extConnIDCounter,
                 statVars>>

ForwardErr_NoCount(c) ==
  /\ place[c] = "forward" /\ SessionGoto(c, "gone")
  /\ UNCHANGED <<secret, id, pkt, resp, nread, nwritten, nempty, extConnIDCounter,
                 sentDC, statVars>>

ForwardErr(c) ==
  /\ place[c] = "forward" /\ SessionGoto(c, "gone") /\ DroppedQueries' = DroppedQueries + 1
  /\ UNCHANGED <<secret, id, pkt, resp, nread, nwritten, nempty, extConnIDCounter,
                 sentDC, TotForwardedQueries, BytesIn, BytesOut>>

\* The answer comes; the three counters are updated one after the other.
ForwardOk(c, n) ==
  /\ place[c] = "forward" /\ SessionGoto(c, "count") /\ resp' = [resp EXCEPT ![c] = n]
  /\ TotForwardedQueries' = TotForwardedQueries + 1
  /\ UNCHANGED <<secret, id, pkt, nread, nwritten, nempty, extConnIDCounter, sentDC,
                 DroppedQueries, BytesIn, BytesOut>>

CountIn(c) ==
  /\ place[c] = "count" /\ SessionGoto(c, "count2") /\ BytesIn' = BytesIn + pkt[c].len
  /\ UNCHANGED <<secret, id, pkt, resp, nread, nwritten, nempty, extConnIDCounter,
                 sentDC, TotForwardedQueries, DroppedQueries, BytesOut>>

CountOut(c) ==
  /\ place[c] = "count2" /\ SessionGoto(c, "respond") /\ BytesOut' = BytesOut + resp[c]
  /\ UNCHANGED <<secret, id, pkt, resp, nread, nwritten, nempty, extConnIDCounter,
                 sentDC, TotForwardedQueries, DroppedQueries, BytesIn>>

SessionNext ==
  \E c \in Client :
    \/ Header(c) \/ nextExtConnID(c) \/ ReadEnds(c) \/ Respond(c)
    \/ \E p \in Packets : ReadPacket(c, p)
    \/ Refuse(c) \/ NoRoute(c) \/ SendProxyReq(c) \/ ForwardErr(c)
    \/ \E n \in RespLen : ForwardOk(c, n)
    \/ CountIn(c) \/ CountOut(c)

SessionSpec == SessionInit /\ [][SessionNext]_sessionVars

(***************************************************************************)
(* Properties.                                                             *)
(***************************************************************************)
\* The packets read so far, and the clients with one in hand that is counted nowhere yet.
Reads == {r \in Client \X (1 .. MaxPackets) : r[2] <= nread[r[1]]}
InHand == {c \in Client : place[c] \in {"handle", "forward"}}

\* Every packet read is counted exactly once, as forwarded or dropped, whatever
\* the goroutines' order: the counters fall short only of the packets in hand.
CountersAddUp ==
  Cardinality(Reads) = TotForwardedQueries + DroppedQueries + Cardinality(InHand)

\* ext_conn_ids are unique: no two sessions share one, so a DC's answer names
\* its client.
UniqueIDs == \A c, d \in Client : id[c] # 0 /\ id[c] = id[d] => c = d

\* A client keyed with a secret the proxy lacks gets nothing to a DC; and what
\* does reach one is whole, aligned and, if unencrypted, one of the key-exchange
\* requests, its inner message inside the packet, marked with the DH flag.
OnlyValidForwarded ==
  \A r \in sentDC :
    /\ r.p.len >= 28 /\ r.p.len % 4 = 0
    /\ r.flag = "DH" <=> r.p.key = 0
    /\ r.flag = "DH" => /\ r.p.fn = "dh"
                        /\ 20 + r.p.inner \in 40 .. r.p.len
    /\ Secrets # <<>> => \A c \in Client : id[c] = r.id => secret[c] # Foreign

\* A session is strictly request by request: the answer to a packet is dealt
\* with before the next packet is read, and a failed one ends the session.
OneAtATime ==
  \A c \in Client : place[c] \in {"read", "handle", "forward", "count", "count2",
                               "respond"} =>
     nread[c] = nwritten[c] + nempty[c] + (IF place[c] = "read" THEN 0 ELSE 1)

\* Sessions keep apart: ids are unique, only packets that pass the tests reach a DC, and
\* each session is request by request.
SessionsSound == UniqueIDs /\ OnlyValidForwarded /\ OneAtATime
=============================================================================
