--------------------------- MODULE CountingProofs ---------------------------
(***************************************************************************)
(* The theorems whose proofs count: the references of a job, and the       *)
(* connections accepted past the limit by the listening sockets.           *)
(***************************************************************************)
EXTENDS JobProofs, Listening, FiniteSetTheorems, TLAPS

\* The laws of counting are theorems of the library.
LEMMA Laws == CountingLaws
<1>1. ASSUME NEW S, IsFiniteSet(S) PROVE Cardinality(S) \in Nat /\ (Cardinality(S) = 0 <=> S = {})
  BY <1>1, FS_CardinalityType, FS_EmptySet
<1>2. ASSUME NEW S, IsFiniteSet(S), NEW T \in SUBSET S PROVE IsFiniteSet(T)
  BY <1>2, FS_Subset
<1>3. ASSUME NEW S, NEW x, IsFiniteSet(S)
      PROVE  /\ IsFiniteSet(S \cup {x}) /\ IsFiniteSet(S \ {x})
             /\ x \notin S => Cardinality(S \cup {x}) = Cardinality(S) + 1
             /\ x \in S => Cardinality(S \ {x}) = Cardinality(S) - 1
  BY <1>3, FS_AddElement, FS_RemoveElement
<1>4. IsFiniteSet({}) /\ \A n \in Nat : IsFiniteSet(0 .. n)
  BY FS_EmptySet, FS_Interval
<1> QED BY <1>1, <1>2, <1>3, <1>4, Zenon DEF CountingLaws

\* job_send_signals, process_one_job, unlock_job and job_decref, for any number of threads,
\* references and signals: one thread handles a job at a time, JS_FINISH is handled by the owner of
\* the only reference, no thread, queue or holder refers to the job after that, and a job marked as
\* queued is in the queue, on its way into it or about to be tried again.
THEOREM JobsKept == JobSpec => []JobSafe
<1>1. JobInit => JobInv
  BY Laws, JobStart
<1>2. JobInv /\ [JobNext]_jobVars => JobInv'
  BY Laws, JobSteps
<1>3. JobInit => Flags
  BY Zenon DEF JobInit, Flags
<1>4. Flags /\ [JobNext]_jobVars => Flags'
  BY FlagSteps
<1>5. JobInv /\ Flags => JobSafe
  BY Laws, JobSound
<1> QED BY <1>1, <1>2, <1>3, <1>4, <1>5, PTL DEF JobSpec

(***************************************************************************)
(* The listening sockets, for any number of sockets, closing threads and   *)
(* clients and any limit: no socket is left deaf, and the limit is passed  *)
(* by a bounded number.                                                    *)
(*                                                                         *)
(* What bounds the count: a socket out of epoll, a job without JS_AUX and a *)
(* thread with no signal to send to a job are each good for one connection *)
(* at or above the limit.  Every such connection takes a socket out of     *)
(* epoll, and putting it back uses a signal up.                            *)
(***************************************************************************)

\* What is assumed: there is a listening socket, and sockets and threads are finite in number.
Setting ==
  /\ IsFiniteSet(Listener) /\ Listener # {} /\ IsFiniteSet(Cpu)
  /\ max_special_connections \in Nat

\* The signals no thread has to send.
Silent == {p \in Cpu \X Listener : p[2] \notin due[p[1]]}
Spent ==
  Cardinality(Listener \ epoll) + Cardinality(Listener \ aux) + Cardinality(Silent)
  + (IF main.at = "limit" THEN 1 ELSE 0)

ListenTypes ==
  /\ epoll \subseteq Listener /\ aux \subseteq Listener /\ due \in [Cpu -> SUBSET Listener]
  /\ active \in Nat /\ main \in [at : {"idle", "accept", "limit"}, l : Listener]
  /\ main.at = "limit" => main.l \in epoll
Budget == active <= max_special_connections - 1 + Spent
LInv == ListenTypes /\ NoneDeaf /\ Budget

(***************************************************************************)
(* The sets that are counted are finite.                                   *)
(***************************************************************************)
LEMMA Counts ==
  ASSUME Setting, NEW E, NEW S \in SUBSET (Cpu \X Listener)
  PROVE  /\ IsFiniteSet(Listener \ E) /\ Cardinality(Listener \ E) \in Nat
         /\ IsFiniteSet(S) /\ Cardinality(S) \in Nat
         /\ Cardinality(Listener \ E) <= Cardinality(Listener)
         /\ Cardinality(S) <= Cardinality(Cpu) * Cardinality(Listener)
         /\ Cardinality(Listener) \in Nat /\ Cardinality(Cpu) \in Nat
  <1>1. IsFiniteSet(Cpu \X Listener)
        /\ Cardinality(Cpu \X Listener) = Cardinality(Cpu) * Cardinality(Listener)
    BY FS_Product DEF Setting
  <1>2. IsFiniteSet(S) /\ Cardinality(S) <= Cardinality(Cpu \X Listener)
    BY <1>1, FS_Subset
  <1>3. IsFiniteSet(Listener \ E) /\ Cardinality(Listener \ E) <= Cardinality(Listener)
    BY FS_Subset DEF Setting
  <1>4. QED BY <1>1, <1>2, <1>3, FS_CardinalityType DEF Setting

\* What Spent adds up are numbers, and so is Spent, before a step and after it.
LEMMA SpentType ==
  ASSUME Setting
  PROVE  /\ Cardinality(Listener \ epoll) \in Nat /\ Cardinality(Listener \ aux) \in Nat
         /\ Cardinality(Silent) \in Nat /\ Spent \in Nat
         /\ Cardinality(Listener \ epoll') \in Nat /\ Cardinality(Listener \ aux') \in Nat
         /\ Cardinality(Silent') \in Nat /\ Spent' \in Nat
  <1>1. Silent \in SUBSET (Cpu \X Listener) /\ Silent' \in SUBSET (Cpu \X Listener)
    BY DEF Silent
  <1>2. /\ Cardinality(Listener \ epoll) \in Nat /\ Cardinality(Listener \ aux) \in Nat
        /\ Cardinality(Silent) \in Nat
    BY <1>1, Counts, Zenon
  <1>3. /\ Cardinality(Listener \ epoll') \in Nat /\ Cardinality(Listener \ aux') \in Nat
        /\ Cardinality(Silent') \in Nat
    BY <1>1, Counts, Zenon
  <1>4. Spent \in Nat BY <1>2 DEF Spent
  <1>5. Spent' \in Nat BY <1>3 DEF Spent
  <1>6. QED BY <1>2, <1>3, <1>4, <1>5

\* A count within a budget is within a greater one.
LEMMA Grows ==
  ASSUME NEW a \in Nat, NEW m \in Nat, NEW s \in Nat, NEW t \in Nat, s <= t, a <= m - 1 + s
  PROVE  a <= m - 1 + t
  OBVIOUS
\* A count below the limit is within any budget.
LEMMA Below ==
  ASSUME NEW a \in Nat, NEW m \in Nat, NEW s \in Nat, ~(a >= m)
  PROVE  a <= m - 1 + s
  OBVIOUS

\* Taking an element out of a finite set lowers the number of its elements by one at most.
LEMMA OneLess ==
  ASSUME NEW S, NEW T, NEW x, IsFiniteSet(S), S \ {x} \subseteq T, T \subseteq S
  PROVE  /\ Cardinality(T) \in Nat /\ Cardinality(S) \in Nat
         /\ Cardinality(S) - 1 <= Cardinality(T) /\ Cardinality(T) <= Cardinality(S)
         /\ x \in S /\ x \notin T => Cardinality(T) = Cardinality(S) - 1
  <1>1. /\ IsFiniteSet(S \ {x})
        /\ Cardinality(S \ {x}) = IF x \in S THEN Cardinality(S) - 1 ELSE Cardinality(S)
    BY FS_RemoveElement
  <1>2. IsFiniteSet(T) /\ Cardinality(T) <= Cardinality(S)
    BY FS_Subset
  <1>3. Cardinality(S \ {x}) <= Cardinality(T)
    BY <1>2, FS_Subset
  <1>4. Cardinality(S) \in Nat /\ Cardinality(T) \in Nat /\ Cardinality(S \ {x}) \in Nat
    BY <1>1, <1>2, FS_CardinalityType
  <1>5. x \in S /\ x \notin T => T = S \ {x}
    OBVIOUS
  <1>6. Cardinality(S) - 1 <= Cardinality(T) BY <1>1, <1>3, <1>4
  <1>7. x \in S /\ x \notin T => Cardinality(T) = Cardinality(S) - 1 BY <1>1, <1>5
  <1>8. QED BY <1>2, <1>4, <1>6, <1>7

(***************************************************************************)
(* Each step preserves the invariant.                                      *)
(***************************************************************************)
\* Steps that change none of what the invariant is about.
LEMMA Others ==
  ASSUME Setting, LInv, UNCHANGED <<epoll, aux, due, active>>,
         main' \in [at : {"idle", "accept"}, l : Listener], main.at # "limit"
  PROVE  LInv'
  <1>1. Silent' = Silent BY DEF Silent
  <1>2. Spent' = Spent BY <1>1 DEF Spent
  <1>3. QED BY <1>2 DEF LInv, ListenTypes, NoneDeaf, Budget

\* alloc_new_connection counts a connection: main is on its way to the test of the limit.
LEMMA AcceptPreserves ==
  ASSUME Setting, LInv, Accept PROVE LInv'
  <1>1. CASE UNCHANGED active
    <2>1. /\ UNCHANGED <<epoll, aux, due, active>> /\ main.at # "limit"
          /\ main' \in [at : {"idle", "accept"}, l : Listener]
      BY <1>1 DEF Accept, LInv, ListenTypes, Idle, Setting
    <2>2. QED BY <2>1, Others
  <1>2. CASE active' # active
    <2>1. /\ active' = active + 1 /\ main' = [main EXCEPT !.at = "limit"] /\ main.at = "accept"
          /\ main.l \in epoll /\ UNCHANGED <<epoll, aux, due>>
      BY <1>2 DEF Accept
    <2>2. ListenTypes' BY <2>1 DEF LInv, ListenTypes
    <2>3. NoneDeaf' BY <2>1 DEF LInv, NoneDeaf, Setting, ListenTypes
    <2>4. Silent' = Silent BY <2>1 DEF Silent
    <2>5. main'.at = "limit" BY <2>1 DEF LInv, ListenTypes
    <2>6. Spent' = Spent + 1
      <3>1. main.at # "limit" /\ UNCHANGED <<epoll, aux>> BY <2>1
      <3>2. QED BY <2>4, <2>5, <3>1, SpentType DEF Spent
    <2>7. Budget'
      <3>1. active' = active + 1 BY <2>1
      <3>2. QED BY <2>6, <3>1, SpentType DEF LInv, Budget, Setting, ListenTypes
    <2>8. QED BY <2>2, <2>3, <2>7 DEF LInv
  <1>3. QED BY <1>1, <1>2

\* At the limit the socket leaves epoll, below it there is no need to.
LEMMA LimitPreserves ==
  ASSUME Setting, LInv, Limit PROVE LInv'
  <1>1. /\ main.at = "limit" /\ main.l \in epoll /\ main.l \in Listener
        /\ main'.at = "accept" /\ UNCHANGED <<aux, due, active>>
    BY DEF Limit, LInv, ListenTypes
  <1>2. epoll' \subseteq Listener /\ main' \in [at : {"idle", "accept", "limit"}, l : Listener]
    BY DEF Limit, LInv, ListenTypes
  <1>3. ListenTypes' BY <1>1, <1>2 DEF LInv, ListenTypes
  <1>4. Silent' = Silent BY <1>1 DEF Silent
  <1>5. CASE active >= max_special_connections
    <2>1. epoll' = epoll \ {main.l} BY <1>5 DEF Limit
    <2>2. NoneDeaf' BY <1>1, <1>5 DEF NoneDeaf, LInv, ListenTypes, Setting
    <2>3. /\ IsFiniteSet(Listener \ epoll')
          /\ (Listener \ epoll') \ {main.l} \subseteq Listener \ epoll
          /\ Listener \ epoll \subseteq Listener \ epoll'
          /\ main.l \in Listener \ epoll' /\ main.l \notin Listener \ epoll
      BY <1>1, <2>1, FS_Subset DEF Setting
    <2>4. /\ Cardinality(Listener \ epoll) = Cardinality(Listener \ epoll') - 1
          /\ Cardinality(Listener \ epoll') \in Nat
      BY <2>3, OneLess, Zenon
    <2>5. Spent' = Spent
      BY <1>1, <1>4, <2>4, SpentType DEF Spent
    <2>6. Budget' BY <1>1, <2>5 DEF LInv, Budget
    <2>7. QED BY <1>3, <2>2, <2>6 DEF LInv
  <1>6. CASE ~(active >= max_special_connections)
    <2>1. UNCHANGED epoll BY <1>6 DEF Limit
    <2>2. NoneDeaf' BY <1>1, <2>1 DEF NoneDeaf, LInv
    <2>3. Spent' \in Nat BY SpentType
    <2>4. Budget'
      <3>1. active' = active /\ active \in Nat /\ max_special_connections \in Nat
        BY <1>1 DEF LInv, ListenTypes, Setting
      <3>2. QED BY <1>6, <2>3, <3>1, Below, Zenon DEF Budget
    <2>5. QED BY <1>3, <2>2, <2>4 DEF LInv
  <1>7. QED BY <1>5, <1>6

\* JS_AUX puts a socket back: it uses up the signal.
LEMMA AuxPreserves ==
  ASSUME Setting, LInv, NEW l \in Listener, Aux(l) PROVE LInv'
  <1>1. /\ l \in aux /\ aux' = aux \ {l} /\ epoll' = epoll \cup {l} /\ main = Idle
        /\ UNCHANGED <<due, active, main>>
    BY DEF Aux
  <1>2. ListenTypes' BY <1>1 DEF LInv, ListenTypes
  <1>3. NoneDeaf' BY <1>1 DEF LInv, NoneDeaf
  <1>4. Silent' = Silent BY <1>1 DEF Silent
  <1>5. /\ Cardinality(Listener \ epoll) - 1 <= Cardinality(Listener \ epoll')
        /\ Cardinality(Listener \ epoll) \in Nat /\ Cardinality(Listener \ epoll') \in Nat
    <2>1. /\ IsFiniteSet(Listener \ epoll)
          /\ (Listener \ epoll) \ {l} \subseteq Listener \ epoll'
          /\ Listener \ epoll' \subseteq Listener \ epoll
      BY <1>1, FS_Subset DEF Setting
    <2>2. QED BY <2>1, OneLess
  <1>6. /\ Cardinality(Listener \ aux) = Cardinality(Listener \ aux') - 1
        /\ Cardinality(Listener \ aux) \in Nat /\ Cardinality(Listener \ aux') \in Nat
    <2>1. /\ IsFiniteSet(Listener \ aux')
          /\ (Listener \ aux') \ {l} \subseteq Listener \ aux
          /\ Listener \ aux \subseteq Listener \ aux'
          /\ l \in Listener \ aux' /\ l \notin Listener \ aux
      BY <1>1, FS_Subset DEF Setting
    <2>2. QED BY <2>1, OneLess
  <1>7. Spent <= Spent' /\ Spent \in Nat /\ Spent' \in Nat
    BY <1>1, <1>4, <1>5, <1>6, SpentType DEF Spent
  <1>8. Budget'
    <2>1. active' = active /\ active \in Nat /\ max_special_connections \in Nat
      BY <1>1 DEF LInv, ListenTypes, Setting
    <2>2. active <= max_special_connections - 1 + Spent BY DEF LInv, Budget
    <2>3. QED BY <1>7, <2>1, <2>2, Grows, Zenon DEF Budget
  <1>9. QED BY <1>2, <1>3, <1>8 DEF LInv

\* A connection that closes at the limit leaves the count below it and its thread with a signal for
\* every job.
LEMMA ClosePreserves ==
  ASSUME Setting, LInv, NEW x \in Cpu, Close(x) PROVE LInv'
  <1>1. /\ active > 0 /\ active' = active - 1 /\ UNCHANGED <<epoll, aux, main>>
        /\ active = max_special_connections => due' = [due EXCEPT ![x] = Listener]
        /\ active # max_special_connections => due' = due
    BY Zenon DEF Close, LInv, ListenTypes
  <1>2. due' \in [Cpu -> SUBSET Listener] BY <1>1 DEF LInv, ListenTypes
  <1>3. ListenTypes' BY <1>1, <1>2 DEF LInv, ListenTypes
  <1>4. NoneDeaf'
    <2>1. CASE active = max_special_connections
      <3>1. due'[x] = Listener BY <1>1, <2>1 DEF LInv, ListenTypes
      <3>2. QED BY <3>1 DEF NoneDeaf
    <2>2. CASE active # max_special_connections
      BY <1>1, <2>2 DEF NoneDeaf, LInv, ListenTypes, Setting
    <2>3. QED BY <2>1, <2>2
  <1>5. Spent' \in Nat BY SpentType
  <1>6. Budget'
    <2>1. CASE active = max_special_connections
      <3>1. /\ active' \in Nat /\ max_special_connections \in Nat
            /\ ~(active' >= max_special_connections)
        BY <1>1, <2>1 DEF Setting, LInv, ListenTypes
      <3>2. QED BY <1>5, <3>1, Below, Zenon DEF Budget
    <2>2. CASE active # max_special_connections
      <3>1. Silent' = Silent BY <1>1, <2>2 DEF Silent
      <3>2. Spent' = Spent BY <1>1, <3>1 DEF Spent
      <3>3. active' \in Nat /\ active' <= active /\ active \in Nat BY <1>1 DEF LInv, ListenTypes
      <3>4. active <= max_special_connections - 1 + Spent BY DEF LInv, Budget
      <3>5. active' <= max_special_connections - 1 + Spent
        BY <3>3, <3>4, SpentType DEF Setting
      <3>6. QED BY <3>2, <3>5, Zenon DEF Budget
    <2>3. QED BY <2>1, <2>2
  <1>7. QED BY <1>3, <1>4, <1>6 DEF LInv

\* A thread sends one of its signals.
LEMMA WakePreserves ==
  ASSUME Setting, LInv, NEW x \in Cpu, NEW l \in Listener, Wake(x, l) PROVE LInv'
  <1>1. /\ l \in due[x] /\ due' = [due EXCEPT ![x] = @ \ {l}] /\ aux' = aux \cup {l}
        /\ UNCHANGED <<epoll, main, active>>
    BY DEF Wake
  <1>2. /\ due' \in [Cpu -> SUBSET Listener] /\ due'[x] = due[x] \ {l}
        /\ \A y \in Cpu \ {x} : due'[y] = due[y]
    BY <1>1 DEF LInv, ListenTypes
  <1>3. ListenTypes' BY <1>1, <1>2 DEF LInv, ListenTypes
  <1>4. NoneDeaf' BY <1>1, <1>2 DEF LInv, NoneDeaf
  <1>5. /\ Cardinality(Listener \ aux) - 1 <= Cardinality(Listener \ aux')
        /\ Cardinality(Listener \ aux) \in Nat /\ Cardinality(Listener \ aux') \in Nat
    <2>1. /\ IsFiniteSet(Listener \ aux)
          /\ (Listener \ aux) \ {l} \subseteq Listener \ aux'
          /\ Listener \ aux' \subseteq Listener \ aux
      BY <1>1, FS_Subset DEF Setting
    <2>2. QED BY <2>1, OneLess
  <1>6. /\ Cardinality(Silent) = Cardinality(Silent') - 1
        /\ Cardinality(Silent) \in Nat /\ Cardinality(Silent') \in Nat
    <2>1. Silent' \in SUBSET (Cpu \X Listener) BY DEF Silent
    <2>2. IsFiniteSet(Silent') BY <2>1, Counts, Zenon
    <2>3. <<x, l>> \in Silent' /\ <<x, l>> \notin Silent
      BY <1>1, <1>2 DEF Silent
    <2>4. Silent \subseteq Silent'
      BY <1>1, <1>2 DEF Silent
    <2>5. Silent' \ {<<x, l>>} \subseteq Silent
      BY <1>1, <1>2 DEF Silent
    <2>6. QED BY <2>2, <2>3, <2>4, <2>5, OneLess
  <1>7. Spent <= Spent' /\ Spent \in Nat /\ Spent' \in Nat
    BY <1>1, <1>5, <1>6, SpentType DEF Spent
  <1>8. Budget'
    <2>1. active' = active /\ active \in Nat /\ max_special_connections \in Nat
      BY <1>1 DEF LInv, ListenTypes, Setting
    <2>2. active <= max_special_connections - 1 + Spent BY DEF LInv, Budget
    <2>3. QED BY <1>7, <2>1, <2>2, Grows, Zenon DEF Budget
  <1>9. QED BY <1>3, <1>4, <1>8 DEF LInv

(***************************************************************************)
(* The theorems.                                                           *)
(***************************************************************************)
\* All sockets are in epoll at first.
LEMMA InitLInv == ASSUME Setting, ListenInit PROVE LInv
  <1>1. ListenTypes BY DEF Setting, ListenInit, ListenTypes, Idle
  <1>2. NoneDeaf BY DEF ListenInit, NoneDeaf
  <1>3. Budget
    <2>1. Listener \ aux = Listener BY DEF ListenInit
    <2>2. Cardinality(Listener \ aux) # 0 BY <2>1, FS_EmptySet DEF Setting
    <2>3. Spent >= 1
      <3>1. /\ Cardinality(Listener \ epoll) \in Nat /\ Cardinality(Listener \ aux) \in Nat
            /\ Cardinality(Silent) \in Nat
        BY SpentType
      <3>2. QED BY <2>2, <3>1 DEF Spent
    <2>4. active = 0 /\ max_special_connections \in Nat BY DEF ListenInit, Setting
    <2>5. Spent \in Nat BY SpentType
    <2>6. QED BY <2>3, <2>4, <2>5 DEF Budget
  <1>4. QED BY <1>1, <1>2, <1>3 DEF LInv

\* Every step preserves the invariant.
LEMMA NextLInv == ASSUME Setting, LInv, [ListenNext]_listenVars PROVE LInv'
  <1>1. CASE Accept BY <1>1, AcceptPreserves
  <1>2. CASE Limit BY <1>2, LimitPreserves
  <1>3. ASSUME NEW x \in Cpu, Close(x) PROVE LInv' BY <1>3, ClosePreserves
  <1>4. ASSUME NEW x \in Cpu, NEW l \in Listener, Wake(x, l) PROVE LInv' BY <1>4, WakePreserves
  <1>5. ASSUME NEW l \in Listener, Aux(l) PROVE LInv' BY <1>5, AuxPreserves
  <1>6. CASE AcceptFails
    <2>1. /\ UNCHANGED <<epoll, aux, due, active>> /\ main.at # "limit"
          /\ main' \in [at : {"idle", "accept"}, l : Listener]
      BY <1>6 DEF AcceptFails, Idle, Setting
    <2>2. QED BY <2>1, Others
  <1>7. ASSUME NEW l \in Listener, ListenRun(l) PROVE LInv'
    <2>1. /\ UNCHANGED <<epoll, aux, due, active>> /\ main.at # "limit"
          /\ main' \in [at : {"idle", "accept"}, l : Listener]
      BY <1>7 DEF ListenRun, Idle
    <2>2. QED BY <2>1, Others
  <1>8. CASE UNCHANGED <<epoll, aux, due, active, main>>
    <2>1. Silent' = Silent BY <1>8 DEF Silent
    <2>2. Spent' = Spent BY <1>8, <2>1 DEF Spent
    <2>3. QED BY <1>8, <2>2 DEF LInv, ListenTypes, NoneDeaf, Budget
  <1>9. ASSUME NEW l \in Listener, ClientArrives(l) \/ ListenGateway(l) PROVE LInv'
    BY <1>8, <1>9 DEF ClientArrives, ListenGateway
  <1>10. QED BY <1>1, <1>2, <1>3, <1>4, <1>5, <1>6, <1>7, <1>8, <1>9 DEF ListenNext, listenVars

\* However many threads close connections while the main thread accepts: below the limit every
\* listening socket is in epoll or about to be put back (cpu_server_close_connection).
THEOREM NeverDeaf == ASSUME Setting PROVE ListenSpec => []NoneDeaf
  <1>1. ListenInit => LInv BY InitLInv
  <1>2. LInv /\ [ListenNext]_listenVars => LInv' BY NextLInv
  <1>3. LInv => NoneDeaf BY DEF LInv
  <1>4. QED BY <1>1, <1>2, <1>3, PTL DEF ListenSpec

\* The invariant bounds the count.
LEMMA LInvBounds == ASSUME Setting, LInv PROVE LimitNearlyKept
  <1> DEFINE n == Cardinality(Listener)
             k == Cardinality(Cpu)
  <1>1. Silent \in SUBSET (Cpu \X Listener) BY DEF Silent
  <1>2. /\ Cardinality(Listener \ epoll) <= n /\ Cardinality(Listener \ aux) <= n
        /\ Cardinality(Silent) <= k * n /\ n \in Nat /\ k \in Nat
    BY <1>1, Counts, Zenon
  <1>3. main.at = "limit" => Cardinality(Listener \ epoll) <= n - 1
    <2>1. ASSUME main.at = "limit" PROVE Cardinality(Listener \ epoll) <= n - 1
      <3>1. main.l \in Listener /\ main.l \notin Listener \ epoll
        BY <2>1 DEF LInv, ListenTypes
      <3>2. Cardinality(Listener \ epoll) # n
        BY <3>1, FS_Subset DEF Setting
      <3>3. QED BY <1>2, <3>2, SpentType
    <2>2. QED BY <2>1
  <1>4. k * n \in Nat /\ (2 + k) * n = n + n + k * n
    BY <1>2
  <1>5. Spent <= n + n + k * n
    BY <1>2, <1>3, <1>4, SpentType DEF Spent
  <1>6. /\ active \in Nat /\ max_special_connections \in Nat
        /\ active <= max_special_connections - 1 + Spent
    BY DEF LInv, ListenTypes, Budget, Setting
  <1>7. active <= max_special_connections - 1 + (n + n + k * n)
    <2>1. Spent \in Nat /\ n + n + k * n \in Nat BY <1>2, <1>4, SpentType
    <2>2. QED BY <1>5, <1>6, <2>1, Grows
  <1>8. QED BY <1>4, <1>7 DEF LimitNearlyKept

\* max_special_connections is passed by a number of connections that depends only on how many
\* sockets and threads there are, not on how many clients come (alloc_new_connection).
THEOREM LimitBounded == ASSUME Setting PROVE ListenSpec => []LimitNearlyKept
  <1>1. ListenInit => LInv BY InitLInv
  <1>2. LInv /\ [ListenNext]_listenVars => LInv' BY NextLInv
  <1>3. LInv => LimitNearlyKept BY LInvBounds
  <1>4. QED BY <1>1, <1>2, <1>3, PTL DEF ListenSpec

\* Both: the limit is nearly kept, and makes no listening socket deaf.
THEOREM ListeningKept == ASSUME Setting PROVE ListenSpec => []ListeningSafe
  BY NeverDeaf, LimitBounded, PTL DEF ListeningSafe
=============================================================================
