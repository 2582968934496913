----------------------------- MODULE MCOutbound -----------------------------
(* Small instances of the connection pool for TLC. *)
EXTENDS Outbound, TLC

\* Clients are interchangeable, and so are connection objects.
Symm == Permutations(Client) \cup Permutations(Conn)

\* Bound of the safety run: either one client sends up to MaxReq packets to any
\* of the addresses, or two clients send one packet each to the same address and
\* the data centre sends one frame for each, or the pool is closed meanwhile.
Active == {k \in Client : req[k] > 0}
Small ==
  \/ Cardinality(Active) <= 1
  \/ /\ \A k \in Client : req[k] <= 1 /\ emitted[k] <= 1
     /\ \A k, l \in Active : target[k] = target[l]
     /\ cpc # "idle" => \A k \in Client : emitted[k] = 0

\* Bound of the liveness run: the data centre answers one of the clients and
\* leaves the other to its timer.
OneAnswered == \A k \in Client : emitted[k] > 0 => k = CHOOSE l \in Client : TRUE

=============================================================================
