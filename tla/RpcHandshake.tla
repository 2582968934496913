---------------------------- MODULE RpcHandshake ----------------------------
(***************************************************************************)
(* The RPC handshake of the original program: net/net-tcp-rpc-client.c on  *)
(* one side of a connection, net/net-tcp-rpc-server.c on the other, with   *)
(* the keys of net/net-crypto-aes.c and net/net-crypto-dh.c.  Each side    *)
(* sends a nonce packet (number -2) in the clear, then, if they settled on *)
(* encryption, everything encrypted, beginning with a handshake packet     *)
(* (number -1), in which they settle on the checksum.                      *)
(*                                                                         *)
(* A packet is a record; the key it was written under and the checksum it  *)
(* carries are part of it.  Reading it under another key gives garbage,    *)
(* which the length and checksum tests refuse.                             *)
(***************************************************************************)
EXTENDS Integers, Sequences, FiniteSets

CONSTANTS ClientPerms, ServerPerms, \* masks that rpc_check_perm may return
          MaxData                   \* bound: packets each side sends once ready

VARIABLES cfg,   \* what the two processes were started with
          e,     \* e["c"] and e["s"], the two ends
          wire,  \* packets on the way to each end
          pid    \* PID of the client process

vars == <<cfg, e, wire, pid>>

End == {"c", "s"}
Peer(x) == IF x = "c" THEN "s" ELSE "c"
None == <<>>

Configs == [cperm : ClientPerms, sperm : ServerPerms, sameSecret : BOOLEAN, inTime : BOOLEAN,
            nat : BOOLEAN, sameIp : BOOLEAN, ccrc : BOOLEAN, scrc : BOOLEAN]

Fresh == [st |-> "new", why |-> "none", in |-> -2, out |-> -2, flags |-> {}, crypto |-> None,
          temp |-> FALSE, crc |-> "crc32", ready |-> FALSE, sent |-> 0, got |-> 0]

Init ==
  /\ cfg \in Configs /\ e = [x \in End |-> Fresh] /\ wire = [x \in End |-> <<>>]
  /\ pid \in {[ip |-> 0, port |-> 0], [ip |-> 1, port |-> 0]}

(***************************************************************************)
(* Sending and failing.                                                    *)
(***************************************************************************)
\* tcp_rpc_write_packet: the number and the checksum are put on when the packet is
\* written, the key is the one in force then.
Packet(end, type, body) ==
  [num |-> end.out, type |-> type, body |-> body, crc |-> end.crc,
   key |-> IF end.crypto = None THEN None ELSE end.crypto.write]
Written(end) == [end EXCEPT !.out = @ + 1]

\* tcp_rpc_conn_send_init: past the encryption, straight to the socket.
InitPacket(end, type, body) == [Packet(end, type, body) EXCEPT !.key = None]

Put(x, p) == wire' = [wire EXCEPT ![Peer(x)] = Append(@, p), ![x] = Tail(@)]
Took(x) == wire' = [wire EXCEPT ![x] = Tail(@)]

Failed(end, code) == [end EXCEPT !.st = "failed", !.why = code]
Fail(x, code) == e' = [e EXCEPT ![x] = Failed(@, code)] /\ Took(x)

\* tcp_rpcc_send_handshake_error_packet, tcp_rpcs_send_handshake_error_packet, and the
\* failure that follows.
FailLoudly(x, code) ==
  /\ e' = [e EXCEPT ![x] = Failed(@, code)] /\ Put(x, Packet(e[x], "error", code))

(***************************************************************************)
(* Keys.                                                                   *)
(***************************************************************************)
\* select_best_key_signature: the one secret of this process, or none.
Known == cfg.sameSecret

\* What each side believes of the addresses (nat_translate_ip): they agree if translation
\* is set up, or there is nothing to translate.
Address(x) == IF cfg.nat THEN "same" ELSE x

\* aes_create_keys.  The direction is part of what is hashed.
aes_create_keys(x, dh) ==
  LET m == [addr |-> Address(x), secret |-> IF cfg.sameSecret THEN "same" ELSE x, dh |-> dh]
  IN  [write |-> <<x, m>>, read |-> <<Peer(x), m>>]

(***************************************************************************)
(* The client opens.                                                       *)
(***************************************************************************)
\* tcp_rpcc_init_outbound and tcp_rpcc_connected: the permissions, and for a connection
\* that asks for Diffie-Hellman a place under the rate limit (tcp_add_dh_accept).
\* tcp_rpcc_init_crypto, tcp_rpcc_init_fake_crypto: the nonce.
Schema(flags) == IF "ENC" \notin flags THEN "NONE" ELSE IF "DH" \in flags THEN "AES_DH" ELSE "AES"
Connect ==
  /\ e["c"].st = "new"
  /\ LET flags == cfg.cperm
         end == [e["c"] EXCEPT !.st = "open", !.flags = flags \cup {"SENT"},
                               !.temp = "DH" \in flags]
     IN  IF flags \cap {"UNENC", "ENC"} = {}
         THEN e' = [e EXCEPT !["c"] = Failed(@, "perm")] /\ wire' = wire
         ELSE \/ /\ "DH" \in flags
                 /\ e' = [e EXCEPT !["c"] = Failed(@, "rate")] /\ wire' = wire
              \/ /\ e' = [e EXCEPT !["c"] = Written(end)]
                 /\ wire' = [wire EXCEPT !["s"] =
                      Append(@, Packet(end, "nonce", [schema |-> Schema(flags), select |-> "ENC" \in flags]))]
  /\ UNCHANGED <<cfg, pid>>

\* tcp_rpcs_init_accepted.
Accept ==
  /\ e["s"].st = "new" /\ e["c"].st # "new"
  /\ e' = [e EXCEPT !["s"] = IF cfg.sperm \cap {"UNENC", "ENC"} = {} THEN Failed(@, "perm")
                             ELSE [@ EXCEPT !.st = "open", !.flags = cfg.sperm]]
  /\ UNCHANGED <<cfg, wire, pid>>

(***************************************************************************)
(* Receiving (tcp_rpcc_parse_execute, tcp_rpcs_parse_execute).             *)
(***************************************************************************)
Head1(x) == wire[x][1]
Arrives(x) == e[x].st = "open" /\ wire[x] # <<>>
Readable(x, p) == p.key = IF e[x].crypto = None THEN None ELSE e[x].crypto.read
Expected(x, p) == Readable(x, p) /\ p.crc = e[x].crc /\ p.num = e[x].in

\* Garbage, a wrong checksum, a wrong number.
Refuse(x) ==
  /\ Arrives(x) /\ ~Expected(x, Head1(x))
  /\ Fail(x, IF ~Readable(x, Head1(x)) THEN "garbage"
             ELSE IF Head1(x).crc # e[x].crc THEN "crc" ELSE "num")
  /\ UNCHANGED <<cfg, pid>>

\* tcp_rpcs_process_nonce_packet, first part: the flags that remain, or an error.
OnlyPlain(flags, code) == IF "UNENC" \in flags THEN [ok |-> TRUE, flags |-> {"UNENC"}, code |-> code]
                          ELSE [ok |-> FALSE, flags |-> flags, code |-> code]
Agreed(flags, b) ==
  IF b.schema = "NONE" THEN OnlyPlain(flags, "-5")
  ELSE IF ~Known THEN OnlyPlain(flags, "-3")
  ELSE IF "ENC" \notin flags THEN OnlyPlain(flags, "-5")
  ELSE IF ~cfg.inTime THEN [ok |-> FALSE, flags |-> flags, code |-> "late"]
  ELSE [ok |-> TRUE, flags |-> flags \ {"UNENC"}, code |-> "0"]
\* Second part: Diffie-Hellman wanted and not offered.
WithDh(flags, b) ==
  IF {"DH", "ENC"} \subseteq flags /\ b.schema # "AES_DH"
  THEN [ok |-> "SKIP" \in flags, flags |-> flags \ {"DH", "SKIP"}, code |-> "-7"]
  ELSE [ok |-> TRUE, flags |-> flags, code |-> "0"]

\* tcp_rpcs_init_crypto, tcp_rpcs_init_fake_crypto: the keys, and the answer past them.
ServerCrypto(flags) ==
  LET s == e["s"]
      end == [s EXCEPT !.in = @ + 1, !.flags = flags \cup {"SENT"},
                       !.crypto = IF "ENC" \in flags THEN aes_create_keys("s", "DH" \in flags) ELSE None]
  IN  /\ e' = [e EXCEPT !["s"] = Written(end)]
      /\ Put("s", InitPacket(end, "nonce", [schema |-> Schema(flags), select |-> "ENC" \in flags]))

ServerNonce ==
  /\ Arrives("s") /\ Expected("s", Head1("s")) /\ e["s"].in = -2
  /\ LET b == Head1("s").body
         a == Agreed(e["s"].flags, b)
         d == WithDh(a.flags, b)
     IN  IF Head1("s").type # "nonce" THEN Fail("s", "-2")
         ELSE IF ~a.ok THEN Fail("s", a.code)
         ELSE IF ~d.ok THEN Fail("s", d.code)
         ELSE \/ ServerCrypto(d.flags)
              \/ {"DH", "ENC"} \subseteq d.flags /\ Fail("s", "rate")
  /\ UNCHANGED <<cfg, pid>>

\* tcp_rpcc_process_nonce_packet, tcp_rpcc_start_crypto, then
\* tcp_rpcc_send_handshake_packet, which goes through the queue and out encrypted.
Acceptable(flags, b) ==
  IF b.schema = "NONE" THEN IF "UNENC" \in flags THEN "ok" ELSE "-5"
  ELSE IF b.schema = "AES_DH" /\ "DH" \notin flags THEN "-7"
  ELSE IF ~Known THEN "-3"
  ELSE IF "ENC" \notin flags THEN "-5"
  ELSE IF b.schema # "AES_DH" /\ "DH" \in flags /\ "SKIP" \notin flags THEN "-7"
  ELSE "ok"
ClientNonce ==
  /\ Arrives("c") /\ Expected("c", Head1("c")) /\ e["c"].in = -2
  /\ LET b == Head1("c").body
         code == Acceptable(e["c"].flags, b)
         end == [e["c"] EXCEPT !.in = @ + 1, !.temp = FALSE,
                   !.flags = IF b.schema = "NONE" THEN {"UNENC"} ELSE @,
                   !.crypto = IF b.schema = "NONE" THEN None
                              ELSE aes_create_keys("c", b.schema = "AES_DH")]
     IN  IF Head1("c").type # "nonce" THEN Fail("c", "-2")
         ELSE IF code # "ok" THEN Fail("c", code)
         ELSE IF end.crypto # None /\ Len(wire["c"]) > 1 THEN Fail("c", "early")
         ELSE /\ e' = [e EXCEPT !["c"] = Written(end)]
              /\ Put("c", Packet(end, "handshake", [crc |-> cfg.ccrc, sender |-> pid]))
  /\ UNCHANGED <<cfg, pid>>

\* tcp_rpcs_process_handshake_packet: the client must mean this process, by the address
\* it dialled.  tcp_rpcs_send_handshake_packet: the answer carries
\* the old checksum, what follows it the new one.
Checksum(both) == IF both THEN "crc32c" ELSE "crc32"
ServerHandshake ==
  /\ Arrives("s") /\ Expected("s", Head1("s")) /\ e["s"].in = -1
  /\ LET b == Head1("s").body
         both == b.crc /\ cfg.scrc
         end == [e["s"] EXCEPT !.in = @ + 1, !.ready = TRUE]
     IN  IF Head1("s").type # "handshake" THEN Fail("s", "-2")
         ELSE IF ~cfg.sameIp THEN FailLoudly("s", "-4")
         ELSE /\ e' = [e EXCEPT !["s"] = [Written(end) EXCEPT !.crc = Checksum(both)]]
              /\ Put("s", Packet(end, "handshake", [crc |-> both, peer |-> b.sender]))
  /\ UNCHANGED <<cfg, pid>>

\* matches_pid: the second may leave fields open.
matches_pid(x, y) == y.ip \in {0, x.ip} /\ y.port \in {0, x.port}

\* tcp_rpcc_process_handshake_packet.
ClientHandshake ==
  /\ Arrives("c") /\ Expected("c", Head1("c")) /\ e["c"].in = -1
  /\ LET b == Head1("c").body
     IN  IF Head1("c").type # "handshake" THEN Fail("c", "-2")
         ELSE IF ~matches_pid(pid, b.peer) THEN FailLoudly("c", "-4")
         ELSE IF b.crc /\ ~cfg.ccrc THEN FailLoudly("c", "-8")
         ELSE /\ e' = [e EXCEPT !["c"].crc = Checksum(b.crc), !["c"].in = @ + 1, !["c"].ready = TRUE]
              /\ Took("c")
  /\ UNCHANGED <<cfg, pid>>

\* The main case: a packet for the program.
Receive(x) ==
  /\ Arrives(x) /\ Expected(x, Head1(x)) /\ e[x].in >= 0
  /\ e' = [e EXCEPT ![x].in = @ + 1, ![x].got = @ + 1] /\ Took(x)
  /\ UNCHANGED <<cfg, pid>>

\* tcp_rpc_conn_send.  The program sends to connections that are ready
\* (tcp_rpcc_default_check_ready; rpc_ready at the server).
Send(x) ==
  /\ e[x].st = "open" /\ e[x].ready /\ e[x].sent < MaxData
  /\ e' = [e EXCEPT ![x] = [Written(@) EXCEPT !.sent = @ + 1]]
  /\ wire' = [wire EXCEPT ![Peer(x)] = Append(@, Packet(e[x], "data", None))]
  /\ UNCHANGED <<cfg, pid>>

\* tcp_rpcc_default_check_ready: no answer within CONNECT_TIMEOUT.
Timeout ==
  /\ e["c"].st = "open" /\ e["c"].in < 0
  /\ e' = [e EXCEPT !["c"] = Failed(@, "timeout")] /\ UNCHANGED <<cfg, wire, pid>>

\* The other end has closed, and what it sent has been read.
Eof(x) ==
  /\ e[x].st = "open" /\ e[Peer(x)].st = "failed" /\ wire[x] = <<>>
  /\ e' = [e EXCEPT ![x] = Failed(@, "closed")] /\ UNCHANGED <<cfg, wire, pid>>

\* init_client_PID and init_server_PID, called for other connections of the process: they
\* fill in what is not known yet.
FillPid ==
  /\ \/ pid.ip = 0 /\ pid' = [pid EXCEPT !.ip = 1]
     \/ pid.port = 0 /\ pid' = [pid EXCEPT !.port = 1]
  /\ UNCHANGED <<cfg, e, wire>>

Client == Connect \/ ClientNonce \/ ClientHandshake
Server == Accept \/ ServerNonce \/ ServerHandshake
Next ==
  \/ Client \/ Server \/ Timeout \/ FillPid
  \/ \E x \in End : Refuse(x) \/ Receive(x) \/ Eof(x) \/ Send(x)
Spec == Init /\ [][Next]_vars

\* The client's event loop runs, and the timer of the target looks at its connections.  The
\* server may hang.
ClientStep == Client \/ Refuse("c") \/ Receive("c") \/ Eof("c")
Fairness == WF_vars(ClientStep) /\ WF_vars(Timeout)
FairSpec == Spec /\ Fairness

(***************************************************************************)
(* Properties.                                                             *)
(***************************************************************************)
\* Type invariant.
TypeOK ==
  /\ cfg \in Configs
  /\ \A x \in End : e[x].in \in -2 .. MaxData /\ e[x].st \in {"new", "open", "failed"}
                    /\ (e[x].ready => ~e[x].temp)

\* Encryption and the new checksum are switched on at the same packet on both sides: with
\* the same secret and addresses nothing is ever refused as garbage, for its checksum or
\* for its number.
SwitchTogether ==
  cfg.sameSecret /\ cfg.nat => \A x \in End : e[x].why \notin {"garbage", "crc", "num", "early"}

\* A side that insists on encryption, or on Diffie-Hellman, becomes ready only with it.
Insists ==
  \A x \in End : LET perm == IF x = "c" THEN cfg.cperm ELSE cfg.sperm IN
    e[x].ready => /\ "UNENC" \notin perm => e[x].crypto # None
                  /\ {"DH"} = perm \cap {"DH", "SKIP", "UNENC"} => e[x].crypto.write[2].dh

\* Two processes that can agree do: their handshake ends by a timeout, the rate limit or
\* the other end's failure, never because of what was said in it.
Compatible ==
  /\ cfg.sameSecret /\ cfg.inTime /\ cfg.nat /\ cfg.sameIp
  /\ "ENC" \in cfg.cperm \cap cfg.sperm
  /\ "DH" \in cfg.sperm \ cfg.cperm => "SKIP" \in cfg.sperm
  /\ "DH" \in cfg.cperm \ cfg.sperm => "SKIP" \in cfg.cperm
Succeeds == Compatible => \A x \in End : e[x].why \in {"none", "timeout", "rate", "closed"}

\* Every attempt to connect ends, whatever the server does: the client gets ready or it
\* gives up.
Settles == e["c"].st # "new" ~> e["c"].ready \/ e["c"].st = "failed"

\* Both ends of a handshake agree, and neither gets less than it insists on.
HandshakeExact == TypeOK /\ SwitchTogether /\ Insists /\ Succeeds
=============================================================================
