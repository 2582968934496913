----------------------------- MODULE DomainProbe ----------------------------
(***************************************************************************)
(* How the original program learns what a domain's own TLS answers look    *)
(* like (update_domain_info and tcp_rpc_init_proxy_domains in              *)
(* net/net-tcp-rpc-ext-server.c): at startup it sends several hellos at    *)
(* once over sockets that do not block, waits for the answers with select, *)
(* for five seconds at most, and keeps their sizes.                        *)
(*                                                                         *)
(* An answer is a header of Hdr bytes, Mid bytes up to and with the header *)
(* of the encrypted data, and the data.  The server may send it in pieces, *)
(* stop, close, or answer with something else: what is ready and what a    *)
(* read gives is known when select and read return.                        *)
(***************************************************************************)
EXTENDS Integers, FiniteSets

CONSTANTS Tries, Hdr, Mid, Sizes,
          MaxShort       \* largest value of a short

VARIABLES srv,           \* what the server does with each hello
          s,             \* the sockets, as this function sees them
          rd, wr,        \* the sets given to and got from select
          i, err, late,  \* socket being looked at (0: none); have_error; the deadline has passed
          acc,           \* finished_count, min, max and sum of the sizes, min of the orders
          info, pc

vars == <<srv, s, rd, wr, i, err, late, acc, info, pc>>

Socks == 1 .. Tries
Total(k) == Hdr + Mid + srv[k].data
\* Whether the header and the rest are those of TLS 1.3, the order of the extensions.
Answers == [header : BOOLEAN, mid : BOOLEAN, good : BOOLEAN, rev : {0, 1}, data : Sizes]
Usual == {a \in Answers : a.header /\ a.mid /\ a.good}
Odd == {[header |-> FALSE, mid |-> TRUE, good |-> TRUE, rev |-> 0, data |-> 0],
        [header |-> TRUE, mid |-> FALSE, good |-> TRUE, rev |-> 0, data |-> 0],
        [header |-> TRUE, mid |-> TRUE, good |-> FALSE, rev |-> 0, data |-> 0]}
NoInfo == [ok |-> FALSE, size |-> 0, random |-> FALSE, rev |-> 0]

Init ==
  /\ srv \in [Socks -> Usual \cup Odd]
  /\ s = [k \in Socks |-> [written |-> FALSE, fin |-> FALSE, pos |-> 0, len |-> 0, known |-> FALSE]]
  /\ rd = {} /\ wr = {} /\ i = 0 /\ err = FALSE /\ late = FALSE
  /\ acc = [n |-> 0, min |-> 0, max |-> 0, sum |-> 0, rev |-> 0]
  /\ info = NoInfo /\ pc = "open"

\* The condition of the loop, and the clock it reads.
InTime == ~late /\ acc.n < Tries /\ ~err
Deadline ==
  /\ pc = "loop" /\ InTime /\ late' = TRUE
  /\ UNCHANGED <<srv, s, rd, wr, i, err, acc, info, pc>>

(***************************************************************************)
(* update_domain_info.                                                     *)
(***************************************************************************)
\* The sockets: the name, a socket, its mode or the connection may fail, and end it.
Open ==
  /\ pc = "open"
  /\ \/ pc' = "loop" /\ UNCHANGED info
     \/ pc' = "failed" /\ UNCHANGED info
  /\ UNCHANGED <<srv, s, rd, wr, i, err, late, acc>>

\* The sets before select.  They are kept from round to round: a socket goes from one to
\* the other when its hello is written, and is in neither when it is finished.
ReadSet == (rd \cup {k \in Socks : ~s[k].fin /\ s[k].written}) \ {k \in Socks : ~s[k].fin /\ ~s[k].written}
WriteSet_Kept == wr \cup {k \in Socks : ~s[k].fin /\ ~s[k].written}
WriteSet == WriteSet_Kept \ {k \in Socks : ~s[k].fin /\ s[k].written}

\* A round: select leaves those that are ready, or, if it fails, the sets as they are.
Select ==
  /\ pc = "loop" /\ i = 0 /\ InTime /\ i' = 1
  /\ rd' \in SUBSET ReadSet /\ wr' \in SUBSET WriteSet
  /\ UNCHANGED <<srv, s, err, late, acc, info, pc>>

Leave == err' = TRUE /\ i' = 0 /\ UNCHANGED <<s, rd, wr, acc>>
Go(k) == i' = (IF k = Tries THEN 0 ELSE k + 1) /\ UNCHANGED err

\* The first read of an answer: five bytes at once, or it is an error.
ReadHeader(k) ==
  \/ Leave
  \/ srv[k].header /\ s' = [s EXCEPT ![k].pos = Hdr, ![k].len = Hdr + Mid] /\ Go(k) /\ UNCHANGED <<rd, wr, acc>>

\* What finishes an answer.
Least_Zero(k) == [acc EXCEPT !.n = @ + 1, !.sum = @ + srv[k].data,
                             !.min = IF srv[k].data < @ THEN srv[k].data ELSE @,
                             !.max = IF srv[k].data > @ THEN srv[k].data ELSE @,
                             !.rev = IF srv[k].rev < @ THEN srv[k].rev ELSE @]
Least(k) ==
  IF acc.n = 0
  THEN [n |-> 1, min |-> srv[k].data, max |-> srv[k].data, sum |-> srv[k].data, rev |-> srv[k].rev]
  ELSE Least_Zero(k)

\* The other reads fail, give something, or 0: the server has closed, or all was read.
ReadRest(k) ==
  LET room == s[k].len - s[k].pos IN
  \/ Leave
  \/ \E n \in 0 .. room :
       IF n < room THEN s' = [s EXCEPT ![k].pos = @ + n] /\ Go(k) /\ UNCHANGED <<rd, wr, acc>>
       ELSE IF ~s[k].known
       THEN IF ~srv[k].mid THEN Leave
            ELSE /\ s' = [s EXCEPT ![k].pos = @ + n, ![k].known = TRUE, ![k].len = @ + srv[k].data]
                 /\ Go(k) /\ UNCHANGED <<rd, wr, acc>>
       ELSE IF ~srv[k].good \/ srv[k].data = 0 THEN Leave
       ELSE /\ s' = [s EXCEPT ![k].pos = @ + n, ![k].fin = TRUE]
            /\ rd' = rd \ {k} /\ wr' = wr \ {k} /\ acc' = Least(k) /\ Go(k)

\* The look at socket i after select; one with an exceptional condition is an error.
Look ==
  /\ i > 0
  /\ IF ~s[i].fin /\ i \in rd THEN IF s[i].len = 0 THEN ReadHeader(i) ELSE ReadRest(i)
     ELSE IF ~s[i].fin /\ i \in wr
     THEN \/ s' = [s EXCEPT ![i].written = TRUE] /\ Go(i) /\ UNCHANGED <<rd, wr, acc>>
          \/ Leave
     ELSE \/ Go(i) /\ UNCHANGED <<s, rd, wr, acc>>
          \/ ~s[i].fin /\ Leave
  /\ UNCHANGED <<srv, late, info, pc>>

\* The end of the loop: what was measured, if every answer came.
Short(v) == IF v > MaxShort THEN v - 2 * (MaxShort + 1) ELSE v
Measured ==
  [ok |-> TRUE, rev |-> acc.rev,
   size |-> Short(IF acc.min = acc.max THEN acc.min
                  ELSE IF acc.max - acc.min <= 3 THEN acc.max - 1
                  ELSE (2 * acc.sum + Tries) \div (2 * Tries)),
   random |-> acc.min # acc.max]
Finish ==
  /\ pc = "loop" /\ i = 0 /\ ~InTime
  /\ IF acc.n = Tries THEN info' = Measured /\ pc' = "done" ELSE pc' = "failed" /\ UNCHANGED info
  /\ UNCHANGED <<srv, s, rd, wr, i, err, late, acc>>

\* tcp_rpc_init_proxy_domains: settings of its own for a domain that could not be probed.
Default ==
  /\ pc = "failed" /\ pc' = "done"
  /\ info' = [ok |-> FALSE, size |-> MaxShort - 1, random |-> TRUE, rev |-> 0]
  /\ UNCHANGED <<srv, s, rd, wr, i, err, late, acc>>

Step == Open \/ Select \/ Look \/ Finish \/ Default
Next == Step \/ Deadline 
Spec == Init /\ [][Next]_vars
\* The function runs on, time passes.
FairSpec == Spec /\ WF_vars(Step) /\ WF_vars(Deadline)

\* get_domain_server_hello_encrypted_size.
Emulated == IF info.random THEN {info.size - 1, info.size, info.size + 1} ELSE {info.size}

(***************************************************************************)
(* Properties.                                                             *)
(***************************************************************************)
\* Type invariant.
TypeOK ==
  /\ rd \subseteq Socks /\ wr \subseteq Socks /\ i \in 0 .. Tries /\ acc.n \in 0 .. Tries
  /\ \A k \in Socks : s[k].pos <= s[k].len
  /\ pc \in {"open", "loop", "failed", "done"}

\* The assertions on the sets: a socket looked at for reading has sent its hello, one
\* looked at for writing has not, although the sets live from round to round.
SetsAgree ==
  i > 0 /\ ~s[i].fin => (i \in rd => s[i].written) /\ (i \in wr => ~s[i].written)

\* A successful probe has seen every answer to its end, and the sizes the proxy then
\* answers its own clients with are within one byte of the sizes seen; exactly the size
\* seen when there was one only.
SizesSeen ==
  LET seen == {srv[k].data : k \in Socks} IN
  info.ok =>
    /\ \A k \in Socks : s[k].fin /\ s[k].pos = Total(k)
    /\ \A v \in Emulated : (\E d \in seen : d <= v + 1) /\ (\E d \in seen : d >= v - 1)
    /\ Cardinality(seen) = 1 => Emulated = seen
    /\ info.rev = 1 <=> \A k \in Socks : srv[k].rev = 1

\* The probe ends, whatever the servers do: startup is not held up.
Returns == <>(pc = "done")

\* The probe waits for the right events and remembers the sizes it saw.
ProbeExact == TypeOK /\ SetsAgree /\ SizesSeen
=============================================================================
