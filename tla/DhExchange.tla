----------------------------- MODULE DhExchange -----------------------------
(***************************************************************************)
(* The Diffie-Hellman exchange of the native RPC handshake                 *)
(* (net/net-crypto-dh.c).  The threads that set up connections share the   *)
(* prime and the generator, which the first of them makes; each then runs  *)
(* the first and the third round of its own connection, and the server at  *)
(* the other end the second.  Numbers are residues of a small prime; a     *)
(* number is good by its leading digits (is_good_rpc_dh_bin), which are    *)
(* those above Base.                                                       *)
(***************************************************************************)
EXTENDS Integers

CONSTANTS Thread, Prime, Gen, Base, Exponent

VARIABLES dh_params_select, rpc_dh_prime, made, lock, pc, a, g_a, g_b, server_key, key
vars == <<dh_params_select, rpc_dh_prime, made, lock, pc, a, g_a, g_b, server_key, key>>
exchange == <<a, g_a, g_b, server_key, key>>
params == <<dh_params_select, rpc_dh_prime, made, lock>>

Init ==
  /\ dh_params_select = 0 /\ rpc_dh_prime = 0 /\ made = 0 /\ lock = 0
  /\ pc = [t \in Thread |-> "look"]
  /\ a = [t \in Thread |-> 0] /\ g_a = [t \in Thread |-> 0] /\ g_b = [t \in Thread |-> 0]
  /\ server_key = [t \in Thread |-> 0] /\ key = [t \in Thread |-> 0]

At(t, from, to) == pc[t] = from /\ pc' = [pc EXCEPT ![t] = to]

\* init_dh_params: a look without the lock, one with it, the parameters, and the mark last
Look(t) == At(t, "look", IF dh_params_select # 0 THEN "first" ELSE "lock") /\ UNCHANGED <<params, exchange>>
Lock(t) ==
  /\ lock = 0 /\ lock' = t /\ At(t, "lock", "again")
  /\ UNCHANGED <<dh_params_select, rpc_dh_prime, made, exchange>>
Again_Unlooked(t) == At(t, "again", "make") /\ UNCHANGED <<params, exchange>>
Again(t) ==
  /\ At(t, "again", IF dh_params_select # 0 THEN "first" ELSE "make")
  /\ lock' = IF dh_params_select # 0 THEN 0 ELSE lock
  /\ UNCHANGED <<dh_params_select, rpc_dh_prime, made, exchange>>
Make(t) ==
  /\ At(t, "make", "mark") /\ rpc_dh_prime' = Prime /\ made' = made + 1
  /\ UNCHANGED <<dh_params_select, lock, exchange>>
Mark(t) ==
  /\ At(t, "mark", "first") /\ dh_params_select' = 1 /\ lock' = 0
  /\ UNCHANGED <<rpc_dh_prime, made, exchange>>

\* BN_mod_exp
Power[g \in 0 .. Prime, n \in Nat] == IF n = 0 THEN 1 ELSE (g * Power[g, n - 1]) % Prime
is_good_rpc_dh_bin(v) == v \div Base > 0 /\ v \div Base < Prime \div Base
\* the exponents create_g_a ends with, and dh_inner_round, whose assertion wants a number that is not
\* much shorter than the prime
create_g_a == {x \in Exponent : is_good_rpc_dh_bin(Power[Gen, x])}
Short(v) == v < 2
dh_inner_round(g, x) == Power[g, x]
First(t) == \E x \in create_g_a :
  /\ At(t, "first", "second") /\ a' = [a EXCEPT ![t] = x] /\ g_a' = [g_a EXCEPT ![t] = Power[Gen, x]]
  /\ UNCHANGED <<params, g_b, server_key, key>>
Second(t) ==
  /\ is_good_rpc_dh_bin(g_a[t]) /\ UNCHANGED <<params, a, g_a, key>>
  /\ \E x \in create_g_a :
       LET k == dh_inner_round(g_a[t], x) IN
       /\ ~Short(k) /\ At(t, "second", "third")
       /\ g_b' = [g_b EXCEPT ![t] = Power[Gen, x]] /\ server_key' = [server_key EXCEPT ![t] = k]
Third(t) ==
  /\ is_good_rpc_dh_bin(g_b[t]) /\ At(t, "third", "done")
  /\ key' = [key EXCEPT ![t] = dh_inner_round(g_b[t], a[t])]
  /\ UNCHANGED <<params, a, g_a, g_b, server_key>>

Steps(t) == Look(t) \/ Lock(t) \/ Again(t) \/ Make(t) \/ Mark(t) \/ First(t) \/ Second(t) \/ Third(t)
Next == \E t \in Thread : Steps(t)
Spec == Init /\ [][Next]_vars

\* Both ends of an exchange have the same key, whatever the other connections' exchanges do in between.
SameKey == \A t \in Thread : pc[t] = "done" => key[t] = server_key[t] /\ ~Short(key[t])

\* The parameters are there for every thread that goes on to the exchange, and are made once: no thread's
\* numbers are taken to a prime that another replaces.
ParamsReady ==
  /\ made <= 1
  /\ \A t \in Thread : pc[t] \in {"first", "second", "third", "done"} => rpc_dh_prime = Prime

\* Both ends of a connection compute the same key, with parameters that are ready.
DhSafe == SameKey /\ ParamsReady
=============================================================================
