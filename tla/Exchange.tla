------------------------------ MODULE Exchange ------------------------------
(***************************************************************************)
(* What the outbound side promises to the clients, with no connection, no  *)
(* lock and no channel in sight: ForwardPacket(target, req) ends once, with *)
(* an error that ends the client or with an answer that a DC sent for that *)
(* client and that no earlier ForwardPacket of the client returned.        *)
(***************************************************************************)
EXTENDS Naturals

CONSTANT Client

VARIABLES phase,     \* "idle", "busy" inside ForwardPacket, "gone"
          emitted,   \* frames 1 .. emitted[k] were sent by the DCs for k
          returned   \* the frames handed to client k as answers

xvars == <<phase, emitted, returned>>

XInit ==
  /\ phase = [k \in Client |-> "idle"]
  /\ emitted = [k \in Client |-> 0] /\ returned = [k \in Client |-> {}]

XSubmit(k) ==
  /\ phase[k] = "idle" /\ phase' = [phase EXCEPT ![k] = "busy"]
  /\ UNCHANGED <<emitted, returned>>

XEmit(k) ==
  /\ emitted' = [emitted EXCEPT ![k] = @ + 1] /\ UNCHANGED <<phase, returned>>

XReply(k) ==
  /\ phase[k] = "busy" /\ phase' = [phase EXCEPT ![k] = "idle"]
  /\ \E n \in (1 .. emitted[k]) \ returned[k] :
        returned' = [returned EXCEPT ![k] = @ \cup {n}]
  /\ emitted' = emitted

XFail(k) ==
  /\ phase[k] = "busy" /\ phase' = [phase EXCEPT ![k] = "gone"]
  /\ UNCHANGED <<emitted, returned>>

XNext == \E k \in Client : XSubmit(k) \/ XEmit(k) \/ XReply(k) \/ XFail(k)

XSpec == XInit /\ [][XNext]_xvars

=============================================================================
