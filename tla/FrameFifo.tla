----------------------------- MODULE FrameFifo -----------------------------
(***************************************************************************)
(* What one direction of an RPC connection promises: the frames of all the *)
(* goroutines that write to it arrive whole, once, and in the order of     *)
(* their sequence numbers.                                                 *)
(***************************************************************************)
EXTENDS Naturals, Sequences

CONSTANTS Sizes   \* payload sizes

VARIABLES queue,     \* frames on their way
          delivered  \* frames handed to the receiver

fvars == <<queue, delivered>>

FInit == queue = <<>> /\ delivered = <<>>

Put(n) ==
  /\ queue' = Append(queue, [seqno |-> Len(delivered) + Len(queue), size |-> n])
  /\ UNCHANGED delivered

Get ==
  /\ queue # <<>>
  /\ delivered' = Append(delivered, Head(queue)) /\ queue' = Tail(queue)

FNext == (\E n \in Sizes : Put(n)) \/ Get

\* What is put is delivered.
FSpec == FInit /\ [][FNext]_fvars /\ WF_fvars(Get)
=============================================================================
