--------------------------- MODULE ClientRandoms ----------------------------
(***************************************************************************)
(* How the original program recognises a repeated TLS hello                *)
(* (net/net-tcp-rpc-ext-server.c): the random bytes of every hello are kept *)
(* for a time, in a list by time and in a hash table, and the timestamp    *)
(* inside them is compared with the clock and with the oldest entry kept.  *)
(***************************************************************************)
EXTENDS Integers, Sequences

CONSTANTS Random, Bucket(_),
          Ts(_),                  \* the timestamp a random holds
          Good(_),                \* it was made with one of the secrets
          Cache,                  \* MAX_CLIENT_RANDOM_CACHE_TIME
          Error,                  \* MAX_ALLOWED_TIMESTAMP_ERROR
          Skew,                   \* 3 seconds
          MaxTime                 \* bound

VARIABLES now,
          byTime,   \* first_client_random .. last_client_random
          byHash,   \* client_randoms, each list newest first
          accepted, \* history: randoms let in
          twice     \* history: one was let in twice

vars == <<now, byTime, byHash, accepted, twice>>

Buckets == {Bucket(r) : r \in Random}
Init == now = 0 /\ byTime = <<>> /\ byHash = [b \in Buckets |-> <<>>] /\ accepted = {} /\ twice = FALSE

\* have_client_random.
have_client_random(r) == \E i \in DOMAIN byHash[Bucket(r)] : byHash[Bucket(r)][i] = r

\* add_client_random.
add_client_random(l, r) ==
  [time |-> Append(l.time, [r |-> r, time |-> now]), hash |-> [l.hash EXCEPT ![Bucket(r)] = <<r>> \o @]]

\* delete_old_client_randoms: the last one always stays.  A bucket is cut off at the entry.
Before(s, r) == LET i == CHOOSE i \in DOMAIN s : s[i] = r IN SubSeq(s, 1, i - 1)
RECURSIVE delete_old_client_randoms(_)
delete_old_client_randoms(l) ==
  IF Len(l.time) = 1 \/ l.time[1].time > now - Cache THEN l
  ELSE LET r == l.time[1].r
       IN  delete_old_client_randoms([time |-> Tail(l.time), hash |-> [l.hash EXCEPT ![Bucket(r)] = Before(@, r)]])

\* is_allowed_timestamp.
is_allowed_timestamp(ts, first) ==
  ts <= now + Skew /\ (ts > first + Skew \/ ts > now - Error)

\* A hello: known randoms are passed on, the others kept, then judged.
Hello(r) ==
  /\ ~have_client_random(r)
  /\ LET l == delete_old_client_randoms(add_client_random([time |-> byTime, hash |-> byHash], r))
         ok == Good(r) /\ is_allowed_timestamp(Ts(r), l.time[1].time)
     IN  /\ byTime' = l.time /\ byHash' = l.hash
         /\ accepted' = (IF ok THEN accepted \cup {r} ELSE accepted)
         /\ twice' = (twice \/ (ok /\ r \in accepted))
  /\ UNCHANGED now

Tick == now < MaxTime /\ now' = now + 1 /\ UNCHANGED <<byTime, byHash, accepted, twice>>

Next == Tick \/ \E r \in Random : Hello(r)
Spec == Init /\ [][Next]_vars

(***************************************************************************)
(* Properties.                                                             *)
(***************************************************************************)
\* Type invariant.
TypeOK == now \in 0 .. MaxTime /\ accepted \subseteq Random
          /\ \A i \in DOMAIN byTime : byTime[i] \in [r : Random, time : 0 .. MaxTime]

\* A hello that was let in is never let in again, although the program forgets it after a
\* time: by then its timestamp is too old (the comments of is_allowed_timestamp).
NoReplay == ~twice

\* The two lists hold the same entries, by time in the order they came; so the oldest
\* entry is the last of its bucket, and deleting it cuts nothing else off
\* (assert (entry->next_by_hash == NULL)).
ListsAgree ==
  \A b \in Buckets :
    byHash[b] = LET own == SelectSeq(byTime, LAMBDA x : Bucket(x.r) = b)
                IN  [i \in 1 .. Len(own) |-> own[Len(own) + 1 - i].r]

\* No hello is let in twice, and both lists of randoms agree.
RandomsExact == TypeOK /\ NoReplay /\ ListsAgree
=============================================================================
