----------------------------- MODULE JobProofs ------------------------------
(***************************************************************************)
(* Proofs about module AsyncJob: why every step of every thread keeps the  *)
(* references of a job exact, its lock with one thread, and its signals    *)
(* from being lost, for any number of threads, references and signals.     *)
(* The theorem these lemmas lead to is CountingProofs!JobsKept.            *)
(*                                                                         *)
(* The invariant is that of the code's comments read together: the counter *)
(* is the number of threads that have a reference, of queue entries and of *)
(* other references; a thread that found itself to be the last owner is    *)
(* alone; and JS_FINISH is pending, or is being sent or handled, only when *)
(* the counter is 1.                                                       *)
(***************************************************************************)
EXTENDS AsyncJob, TLAPS

(***************************************************************************)
(* What the proofs on references count with: the laws of the number of     *)
(* elements of a finite set.  They are a hypothesis of the lemmas below    *)
(* and not of the theorem: module CountingProofs takes them from the       *)
(* library's theorems on finite sets, which are many and would be in the   *)
(* way of every leaf here.                                                 *)
(***************************************************************************)
CountingLaws ==
  /\ \A S : IsFiniteSet(S) => Cardinality(S) \in Nat /\ (Cardinality(S) = 0 <=> S = {})
  /\ \A S : IsFiniteSet(S) => \A T \in SUBSET S : IsFiniteSet(T)
  /\ \A S, x : IsFiniteSet(S) =>
       /\ IsFiniteSet(S \cup {x}) /\ IsFiniteSet(S \ {x})
       /\ x \notin S => Cardinality(S \cup {x}) = Cardinality(S) + 1
       /\ x \in S => Cardinality(S \ {x}) = Cardinality(S) - 1
  /\ IsFiniteSet({}) /\ \A n \in Nat : IsFiniteSet(0 .. n)

\* A finite set has a natural number of elements, and only the empty one has none.
LEMMA CardType ==
  ASSUME CountingLaws, NEW S, IsFiniteSet(S) PROVE Cardinality(S) \in Nat /\ (Cardinality(S) = 0 <=> S = {})
  BY Zenon DEF CountingLaws

\* The subsets of a finite set are finite.
LEMMA CardSubset == ASSUME CountingLaws, NEW S, IsFiniteSet(S), NEW T \in SUBSET S PROVE IsFiniteSet(T)
  BY Zenon DEF CountingLaws

\* A new element adds one.
LEMMA CardAdd ==
  ASSUME CountingLaws, NEW S, IsFiniteSet(S), NEW x, x \notin S
  PROVE  IsFiniteSet(S \cup {x}) /\ Cardinality(S \cup {x}) = Cardinality(S) + 1
  BY Zenon DEF CountingLaws

\* An element taken away takes one off.
LEMMA CardTake ==
  ASSUME CountingLaws, NEW S, IsFiniteSet(S), NEW x \in S
  PROVE  IsFiniteSet(S \ {x}) /\ Cardinality(S \ {x}) = Cardinality(S) - 1
  BY Zenon DEF CountingLaws

\* The numbers up to n are finitely many.
LEMMA CardUpTo == ASSUME CountingLaws, NEW n \in Nat PROVE IsFiniteSet(0 .. n)
  BY Zenon DEF CountingLaws

\* There are none in the empty set and one in a set of one.
LEMMA CardSmall ==
  ASSUME CountingLaws PROVE /\ IsFiniteSet({}) /\ Cardinality({}) = 0
                            /\ \A x : IsFiniteSet({x}) /\ Cardinality({x}) = 1
<1>1. IsFiniteSet({}) /\ Cardinality({}) = 0
  BY Zenon DEF CountingLaws
<1>2. ASSUME NEW x PROVE IsFiniteSet({x}) /\ Cardinality({x}) = 1
  <2>1. {x} = {} \cup {x} /\ x \notin {}
    OBVIOUS
  <2>2. IsFiniteSet({} \cup {x}) /\ Cardinality({} \cup {x}) = Cardinality({}) + 1
    BY <1>1, <2>1, CardAdd, Zenon
  <2> QED BY <1>1, <2>1, <2>2
<1> QED BY <1>1, <1>2, Zenon

\* Where a thread has a reference, and all the places it can be.
OwnerAt == {"send", "trylock", "set", "relock", "process", "plock", "pclear", "unlock", "execute",
            "push", "unref", "unsub", "decref", "decsub"}
Places == OwnerAt \cup {"idle", "unlast", "declast"}

\* The types, and a thread that sends a signal or puts the job into a queue knows which signal.
JobTypes ==
  /\ sigs \subseteq Sig /\ queued \subseteq Class /\ refcnt \in Nat /\ refs \in 0 .. MaxRefs
  /\ q \in [Queues -> Nat] /\ sends \in 0 .. MaxSends
  /\ pc \in [Thread -> Places] /\ sig \in [Thread -> Sig \cup {0}] /\ qf \in [Thread -> SUBSET Class]
  /\ \A t \in Thread : pc[t] \in {"send", "trylock", "set", "push"} => sig[t] \in Sig

\* The entries of all queues, one by one.
Entries == {e \in Queues \X Nat : e[2] \in 1 .. q[e[1]]}

\* The counter: job_refcnt of a job that lives, with an owner or with a last owner.
Counted ==
  /\ IsFiniteSet(Entries)
  /\ freed => Owners = {} /\ Lasts = {} /\ Entries = {} /\ refs = 0
  /\ ~freed /\ Lasts = {} => refcnt = Cardinality(Owners) + Cardinality(Entries) + refs
  /\ \A t \in Lasts : /\ Lasts = {t} /\ Owners = {} /\ Entries = {} /\ refs = 0
                      /\ refcnt \in {0, 1} /\ 7 \notin sigs

\* JS_FINISH is for the last reference alone, before it is sent and until it is handled.
Finishing ==
  /\ 7 \in sigs => /\ refcnt = 1 /\ refs = 0 /\ Lasts = {}
                   /\ \A t \in Owners : pc[t] \in {"unlock", "push", "process", "plock"}
  /\ \A t \in Thread :
       /\ pc[t] \in {"send", "trylock", "execute"} /\ sig[t] = 7 => refcnt = 1 /\ 7 \notin sigs
       /\ pc[t] = "set" => sig[t] # 7

\* JF_LOCKED is set while a thread is in unlock_job or in the handler, and there is one.
Locking ==
  /\ ~freed => (locked <=> Holders # {})
  /\ \A t, u \in Holders : t = u

\* The inductive invariant.
JobInv == JobTypes /\ Counted /\ Finishing /\ Locking /\ MarkBacked

\* The threads are finitely many, and so are the owners.
LEMMA OwnersFinite ==
  ASSUME CountingLaws PROVE IsFiniteSet(Owners) /\ Cardinality(Owners) \in Nat
<1>1. Owners \subseteq Thread
  BY DEF Owners
<1>2. IsFiniteSet(Owners)
  BY <1>1, JobAssumption, CardSubset
<1> QED BY <1>2, CardType

\* While a thread has a reference the job lives, the counter is exact, and it is 1 only if no other
\* reference is left.
LEMMA Alone ==
  ASSUME CountingLaws, JobTypes, Counted, NEW t \in Owners
  PROVE  /\ ~freed /\ Lasts = {} /\ refcnt >= 1
         /\ refcnt = Cardinality(Owners) + Cardinality(Entries) + refs
         /\ refcnt = 1 => Owners = {t} /\ Entries = {} /\ refs = 0
<1>1. ~freed /\ Lasts = {}
  BY DEF Counted
<1>2. refcnt = Cardinality(Owners) + Cardinality(Entries) + refs
  BY <1>1 DEF Counted
<1>3. Cardinality(Entries) \in Nat /\ (Cardinality(Entries) = 0 => Entries = {})
  BY CardType DEF Counted
<1> DEFINE rest == Owners \ {t}
<1>4. IsFiniteSet(rest) /\ Cardinality(rest) = Cardinality(Owners) - 1
  BY OwnersFinite, CardTake
<1>5. Cardinality(rest) \in Nat /\ (Cardinality(rest) = 0 => rest = {})
  BY <1>4, CardType
<1>6. refs \in Nat
  BY JobAssumption DEF JobTypes
<1>7. refcnt >= 1 /\ (refcnt = 1 => Cardinality(rest) = 0 /\ Cardinality(Entries) = 0 /\ refs = 0)
  <2> HIDE DEF rest
  <2> QED BY <1>2, <1>3, <1>4, <1>5, <1>6, OwnersFinite
<1>8. rest = {} => Owners = {t}
  OBVIOUS
<1> QED BY <1>1, <1>2, <1>3, <1>5, <1>7, <1>8

\* How the sets of threads change when one thread moves.
LEMMA Moves ==
  ASSUME JobTypes, NEW t \in Thread, NEW l \in Places, Goto(t, l)
  PROVE  /\ pc'[t] = l /\ pc' \in [Thread -> Places] /\ \A u \in Thread : u # t => pc'[u] = pc[u]
         /\ Owners' = IF l \notin {"idle", "unlast", "declast"} THEN Owners \cup {t} ELSE Owners \ {t}
         /\ Lasts' = IF l \in {"unlast", "declast"} THEN Lasts \cup {t} ELSE Lasts \ {t}
         /\ Holders' = IF l \in {"unlock", "execute"} THEN Holders \cup {t} ELSE Holders \ {t}
<1>1. pc'[t] = l /\ pc' \in [Thread -> Places] /\ \A u \in Thread : u # t => pc'[u] = pc[u]
  BY DEF Goto, JobTypes
<1>2. Owners' = IF l \notin {"idle", "unlast", "declast"} THEN Owners \cup {t} ELSE Owners \ {t}
  BY <1>1 DEF Owners
<1>3. Lasts' = IF l \in {"unlast", "declast"} THEN Lasts \cup {t} ELSE Lasts \ {t}
  BY <1>1 DEF Lasts
<1>4. Holders' = IF l \in {"unlock", "execute"} THEN Holders \cup {t} ELSE Holders \ {t}
  BY <1>1 DEF Holders
<1> QED BY <1>1, <1>2, <1>3, <1>4

\* A thread with nothing to do gets a reference.
LEMMA Enters ==
  ASSUME JobTypes, NEW t \in Thread, NEW l \in OwnerAt \ {"unlock", "execute"}, pc[t] = "idle", Goto(t, l)
  PROVE  /\ pc'[t] = l /\ pc' \in [Thread -> Places] /\ \A u \in Thread : u # t => pc'[u] = pc[u]
         /\ t \notin Owners /\ Owners' = Owners \cup {t} /\ Lasts' = Lasts /\ Holders' = Holders
<1>1. l \in Places /\ t \notin Owners /\ t \notin Lasts /\ t \notin Holders
  BY DEF OwnerAt, Places, Owners, Lasts, Holders
<1>2. l \notin {"idle", "unlast", "declast"} /\ l \notin {"unlock", "execute"}
  BY DEF OwnerAt
<1>3. Owners' = Owners \cup {t} /\ Lasts' = Lasts \ {t} /\ Holders' = Holders \ {t}
  BY <1>1, <1>2, Moves
<1>4. pc'[t] = l /\ pc' \in [Thread -> Places] /\ \A u \in Thread : u # t => pc'[u] = pc[u]
  BY <1>1, Moves
<1> QED BY <1>1, <1>3, <1>4

\* A thread goes on with its reference.
LEMMA Walks ==
  ASSUME JobTypes, NEW t \in Thread, NEW l \in OwnerAt, pc[t] \in OwnerAt, Goto(t, l)
  PROVE  /\ pc'[t] = l /\ pc' \in [Thread -> Places] /\ \A u \in Thread : u # t => pc'[u] = pc[u]
         /\ t \in Owners /\ Owners' = Owners /\ Lasts' = Lasts
         /\ Holders' = IF l \in {"unlock", "execute"} THEN Holders \cup {t} ELSE Holders \ {t}
<1>1. l \in Places /\ t \in Owners /\ t \notin Lasts
  BY DEF OwnerAt, Places, Owners, Lasts
<1>2. l \notin {"idle", "unlast", "declast"}
  BY DEF OwnerAt
<1> QED BY <1>1, <1>2, Moves

\* The signal unlock_job handles next is one of those pending, and JS_FINISH whenever it is pending.
LEMMA NextSig ==
  ASSUME sigs \subseteq Sig, sigs # {}
  PROVE  TopSig \in sigs /\ (7 \in sigs <=> TopSig = 7)
<1>1. sigs \subseteq 0 .. 7
  BY JobAssumption
<1>2. \E x \in sigs : \A y \in sigs : x >= y
  <2> SUFFICES ASSUME \A x \in sigs : \E y \in sigs : ~(x >= y) PROVE FALSE
    OBVIOUS
  <2>1. 7 \notin sigs
    BY <1>1
  <2>2. 6 \notin sigs
    BY <1>1, <2>1
  <2>3. 5 \notin sigs
    BY <1>1, <2>1, <2>2
  <2>4. 4 \notin sigs
    BY <1>1, <2>1, <2>2, <2>3
  <2>5. 3 \notin sigs
    BY <1>1, <2>1, <2>2, <2>3, <2>4
  <2>6. 2 \notin sigs
    BY <1>1, <2>1, <2>2, <2>3, <2>4, <2>5
  <2>7. 1 \notin sigs
    BY <1>1, <2>1, <2>2, <2>3, <2>4, <2>5, <2>6
  <2>8. 0 \notin sigs
    BY <1>1, <2>1, <2>2, <2>3, <2>4, <2>5, <2>6, <2>7
  <2>9. PICK x \in sigs : x \in 0 .. 7
    BY <1>1, Zenon
  <2> QED BY <2>1, <2>2, <2>3, <2>4, <2>5, <2>6, <2>7, <2>8, <2>9
<1>3. TopSig \in sigs /\ \A y \in sigs : TopSig >= y
  BY <1>2 DEF TopSig
<1> DEFINE m == TopSig
<1> HIDE DEF m
<1>4. m \in sigs /\ m \in 0 .. 7 /\ (7 \in sigs => m >= 7)
  BY <1>1, <1>3 DEF m
<1>5. 7 \in sigs <=> m = 7
  BY <1>4
<1> QED BY <1>4, <1>5 DEF m

\* Putting the job into a queue adds an entry.
LEMMA EntryAdded ==
  ASSUME CountingLaws, JobTypes, Counted, NEW u \in Queues, q' = [q EXCEPT ![u] = @ + 1]
  PROVE  /\ q' \in [Queues -> Nat] /\ IsFiniteSet(Entries') /\ Cardinality(Entries)' = Cardinality(Entries) + 1
<1> DEFINE e == <<u, q[u] + 1>>
<1>1. q[u] \in Nat /\ q' \in [Queues -> Nat] /\ q'[u] = q[u] + 1 /\ \A v \in Queues : v # u => q'[v] = q[v]
  BY DEF JobTypes
<1>2. e \notin Entries
  BY <1>1 DEF Entries
<1>3. Entries' = Entries \cup {e}
  <2>1. ASSUME NEW v \in Queues, NEW n \in Nat PROVE <<v, n>> \in Entries' <=> <<v, n>> \in Entries \/ <<v, n>> = e
    <3>1. CASE v = u
      BY <1>1, <3>1 DEF Entries
    <3>2. CASE v # u
      BY <1>1, <3>2 DEF Entries
    <3> QED BY <3>1, <3>2
  <2>2. Entries' \subseteq Queues \X Nat /\ Entries \subseteq Queues \X Nat /\ e \in Queues \X Nat
    BY <1>1 DEF Entries
  <2> HIDE DEF e
  <2> QED BY <2>1, <2>2
<1> HIDE DEF e
<1>4. IsFiniteSet(Entries)
  BY DEF Counted
<1> QED BY <1>1, <1>2, <1>3, <1>4, CardAdd

\* Taking the job out of a queue takes an entry off.
LEMMA EntryTaken ==
  ASSUME CountingLaws, JobTypes, Counted, NEW u \in Queues, q[u] > 0, q' = [q EXCEPT ![u] = @ - 1]
  PROVE  /\ q' \in [Queues -> Nat] /\ IsFiniteSet(Entries') /\ Cardinality(Entries)' = Cardinality(Entries) - 1
<1> DEFINE e == <<u, q[u]>>
<1>1. q[u] \in Nat /\ q' \in [Queues -> Nat] /\ q'[u] = q[u] - 1 /\ \A v \in Queues : v # u => q'[v] = q[v]
  BY DEF JobTypes
<1>2. e \in Entries
  BY <1>1 DEF Entries
<1>3. Entries' = Entries \ {e}
  <2>1. ASSUME NEW v \in Queues, NEW n \in Nat PROVE <<v, n>> \in Entries' <=> <<v, n>> \in Entries /\ <<v, n>> # e
    <3>1. CASE v = u
      BY <1>1, <3>1 DEF Entries
    <3>2. CASE v # u
      BY <1>1, <3>2 DEF Entries
    <3> QED BY <3>1, <3>2
  <2>2. Entries' \subseteq Queues \X Nat /\ Entries \subseteq Queues \X Nat
    BY DEF Entries
  <2> HIDE DEF e
  <2> QED BY <2>1, <2>2
<1> HIDE DEF e
<1>4. IsFiniteSet(Entries)
  BY DEF Counted
<1> QED BY <1>1, <1>2, <1>3, <1>4, CardTake

\* No entries, no queue with one.
LEMMA EntriesEmpty ==
  ASSUME JobTypes PROVE Entries = {} <=> \A u \in Queues : q[u] = 0
<1>1. ASSUME Entries = {}, NEW u \in Queues PROVE q[u] = 0
  <2>1. q[u] \in Nat
    BY DEF JobTypes
  <2>2. <<u, q[u]>> \notin Entries
    BY <1>1
  <2> QED BY <2>1, <2>2 DEF Entries
<1>2. ASSUME \A u \in Queues : q[u] = 0 PROVE Entries = {}
  BY <1>2 DEF Entries
<1> QED BY <1>1, <1>2

(***************************************************************************)
(* How each part of the invariant survives a step of one thread.           *)
(***************************************************************************)
\* No thread but t moves.
OthersStay(t) ==
  \A u \in Thread : u # t => pc'[u] = pc[u] /\ sig'[u] = sig[u] /\ qf'[u] = qf[u]
\* A thread other than t is about to finish the job.
OtherFinishes(t) ==
  \E u \in Thread : u # t /\ pc[u] \in {"send", "trylock", "execute"} /\ sig[u] = 7

\* The count is kept by a thread that goes on with its reference.
LEMMA CountWalk ==
  ASSUME CountingLaws, JobTypes, Counted, NEW t \in Owners, Owners' = Owners, Lasts' = Lasts,
         UNCHANGED <<refcnt, refs, q, freed>>
  PROVE  Counted'
<1>1. Entries' = Entries
  BY DEF Entries
<1>2. ~freed /\ Lasts = {}
  BY DEF Counted
<1> QED BY <1>1, <1>2 DEF Counted

\* It is kept when a thread gets a reference that is new or was of another kind.
LEMMA CountJoin ==
  ASSUME CountingLaws, JobTypes, JobTypes', Counted, ~freed, ~freed', Lasts = {}, NEW t, t \notin Owners,
         Owners' = Owners \cup {t}, Lasts' = {}, IsFiniteSet(Entries'),
         NEW n \in Nat, NEW m \in Nat, n = Cardinality(Entries), m = Cardinality(Entries)',
         refcnt' - m - refs' = refcnt - n - refs + 1
  PROVE  Counted'
<1>1. refcnt = Cardinality(Owners) + n + refs
  BY DEF Counted
<1>2. Cardinality(Owners') = Cardinality(Owners) + 1 /\ Cardinality(Owners) \in Nat
  BY OwnersFinite, CardAdd, Zenon
<1>3. refs \in Nat /\ refs' \in Nat /\ refcnt \in Nat /\ refcnt' \in Nat
  BY JobAssumption DEF JobTypes
<1>4. refcnt' = Cardinality(Owners') + m + refs'
  BY <1>1, <1>2, <1>3
<1> QED BY <1>4 DEF Counted

\* It is kept when a thread gives its reference up, or makes it one of another kind.
LEMMA CountLeave ==
  ASSUME CountingLaws, JobTypes, JobTypes', Counted, ~freed', NEW t \in Owners,
         Owners' = Owners \ {t}, Lasts' = {}, IsFiniteSet(Entries'),
         NEW n \in Nat, NEW m \in Nat, n = Cardinality(Entries), m = Cardinality(Entries)',
         refcnt' - m - refs' = refcnt - n - refs - 1
  PROVE  Counted'
<1>1. refcnt = Cardinality(Owners) + n + refs
  BY Alone
<1>2. Cardinality(Owners') = Cardinality(Owners) - 1 /\ Cardinality(Owners) \in Nat
  BY OwnersFinite, CardTake, Zenon
<1>3. refs \in Nat /\ refs' \in Nat /\ refcnt \in Nat /\ refcnt' \in Nat
  BY JobAssumption DEF JobTypes
<1>4. refcnt' = Cardinality(Owners') + m + refs'
  BY <1>1, <1>2, <1>3
<1> QED BY <1>4 DEF Counted

\* It is kept when the thread with the last reference finds that it has it.
LEMMA CountLast ==
  ASSUME CountingLaws, JobTypes, Counted, NEW t \in Owners, refcnt = 1, Owners' = Owners \ {t}, Lasts' = {t},
         UNCHANGED <<refs, q, freed>>, refcnt' \in {0, 1}, 7 \notin sigs'
  PROVE  Counted'
<1>1. ~freed /\ Lasts = {} /\ Owners = {t} /\ Entries = {} /\ refs = 0
  BY Alone
<1>2. Entries' = Entries /\ IsFiniteSet(Entries)
  BY DEF Entries, Counted
<1> QED BY <1>1, <1>2 DEF Counted

\* It is kept when the last owner takes its reference back to send JS_FINISH.
LEMMA CountBack ==
  ASSUME CountingLaws, JobTypes, Counted, NEW t \in Lasts, Owners' = Owners \cup {t}, Lasts' = Lasts \ {t},
         UNCHANGED <<refs, q, freed>>, refcnt' = 1
  PROVE  Counted' /\ Owners' = {t} /\ Owners = {} /\ Lasts' = {} /\ refs' = 0 /\ ~freed /\ 7 \notin sigs
<1>1. ~freed /\ Lasts = {t} /\ Owners = {} /\ Entries = {} /\ refs = 0 /\ 7 \notin sigs
  BY DEF Counted
<1>2. Entries' = Entries /\ IsFiniteSet(Entries)
  BY DEF Entries, Counted
<1>3. Owners' = {t} /\ Cardinality(Owners') = 1 /\ Cardinality(Entries') = 0
  BY <1>1, <1>2, CardSmall, Zenon
<1> QED BY <1>1, <1>2, <1>3 DEF Counted

\* What is to be seen of thread t, when no other finishes the job, for JS_FINISH to stay with the
\* last reference.
LEMMA FinishFrame ==
  ASSUME Finishing, NEW t \in Thread, OthersStay(t), ~OtherFinishes(t),
         7 \in sigs' => /\ refcnt' = 1 /\ refs' = 0 /\ Lasts' = {} /\ Owners' \subseteq {t}
                        /\ t \in Owners' => pc'[t] \in {"unlock", "push", "process", "plock"},
         pc'[t] \in {"send", "trylock", "execute"} /\ sig'[t] = 7 => refcnt' = 1 /\ 7 \notin sigs',
         pc'[t] = "set" => sig'[t] # 7
  PROVE  Finishing'
<1>1. 7 \in sigs' => /\ refcnt' = 1 /\ refs' = 0 /\ Lasts' = {}
                     /\ \A u \in Owners' : pc'[u] \in {"unlock", "push", "process", "plock"}
  OBVIOUS
<1>2. ASSUME NEW u \in Thread
      PROVE  /\ pc'[u] \in {"send", "trylock", "execute"} /\ sig'[u] = 7 => refcnt' = 1 /\ 7 \notin sigs'
             /\ pc'[u] = "set" => sig'[u] # 7
  <2>1. CASE u = t
    BY <2>1
  <2>2. CASE u # t
    BY <2>2 DEF Finishing, OthersStay, OtherFinishes
  <2> QED BY <2>1, <2>2
<1> QED BY <1>1, <1>2 DEF Finishing

\* While a thread has a reference no other is about to finish the job, and if JS_FINISH is
\* pending the thread has the only one.
LEMMA Finisher ==
  ASSUME CountingLaws, JobTypes, Counted, Finishing, NEW t \in Owners
  PROVE  /\ ~OtherFinishes(t)
         /\ 7 \in sigs => /\ Owners = {t} /\ Entries = {} /\ refs = 0 /\ refcnt = 1
                          /\ pc[t] \in {"unlock", "push", "process", "plock"}
<1>1. ASSUME NEW u \in Thread, u # t, pc[u] \in {"send", "trylock", "execute"}, sig[u] = 7 PROVE FALSE
  <2>1. u \in Owners /\ refcnt = 1
    BY <1>1 DEF Owners, Finishing
  <2>2. Owners = {t}
    BY <2>1, Alone
  <2> QED BY <1>1, <2>1, <2>2
<1> QED BY <1>1, Alone DEF OtherFinishes, Finishing

\* The lock: a step that leaves it alone,
LEMMA LockSame ==
  ASSUME Locking, Holders' = Holders, locked' = locked, freed' = freed PROVE Locking'
  BY DEF Locking
\* a step that takes it,
LEMMA LockTake ==
  ASSUME Locking, ~freed, ~locked, NEW t, Holders' = Holders \cup {t}, locked' = TRUE PROVE Locking'
  BY DEF Locking
\* and a step that gives it back.
LEMMA LockGive ==
  ASSUME Locking, NEW t \in Holders, Holders' = Holders \ {t}, locked' = FALSE PROVE Locking'
  BY DEF Locking

\* The mark stays backed when a thread moves that did not back it.
LEMMA MarkFrame ==
  ASSUME MarkBacked, ~freed, NEW t \in Thread, OthersStay(t), q' = q, queued' \subseteq queued,
         pc[t] \notin {"process", "plock", "pclear", "push"}
  PROVE  MarkBacked'
<1> SUFFICES ASSUME NEW c \in queued, c \in queued'
             PROVE  \/ q'[Queue(c)] > 0
                    \/ \E u \in Queue(c) : Retries(u, c)'
                    \/ \E u \in Thread : Pushes(u, c)'
  BY DEF MarkBacked
<1>1. CASE q[Queue(c)] > 0
  BY <1>1
<1>2. ASSUME NEW u \in Queue(c), Retries(u, c) PROVE Retries(u, c)'
  BY <1>2 DEF Retries, At, OthersStay, Queue
<1>3. ASSUME NEW u \in Thread, Pushes(u, c) PROVE Pushes(u, c)'
  BY <1>3 DEF Pushes, At, OthersStay
<1> QED BY <1>1, <1>2, <1>3 DEF MarkBacked

\* Others signal the job or drop a reference: a thread that has nothing to do gets a reference.
LEMMA StepRef ==
  ASSUME CountingLaws, JobInv, NEW t \in Thread,
         \/ \E s \in Sig, create, inJob \in BOOLEAN : Signal(t, s, create, inJob)
         \/ \E inJob \in BOOLEAN : Drop(t, inJob)
  PROVE  JobInv'
<1>0. JobTypes /\ Counted /\ Finishing /\ Locking /\ MarkBacked
  BY DEF JobInv
<1> DEFINE Took(l, x) ==
             /\ pc[t] = "idle" /\ refs > 0 /\ Goto(t, l) /\ sig' = [sig EXCEPT ![t] = x]
             /\ l = "send" => x \in Sig /\ x # 7
             /\ sends' = sends \/ (sends' = sends + 1 /\ sends < MaxSends)
             /\ \/ refcnt' = refcnt + 1 /\ refs' = refs
                \/ refcnt' = refcnt /\ refs' = refs - 1
             /\ UNCHANGED <<locked, sigs, queued, freed, q, qf>>
<1>1. \E l \in {"send", "decref"}, x \in Sig \cup {0} : Took(l, x)
  <2>1. ASSUME NEW s \in Sig, NEW create \in BOOLEAN, NEW inJob \in BOOLEAN, Signal(t, s, create, inJob)
        PROVE  Took("send", s)
    BY <2>1 DEF Signal, At, JS_FINISH, flagVars
  <2>2. ASSUME NEW inJob \in BOOLEAN, Drop(t, inJob)
        PROVE  Took("decref", sig[t])
    <3>1. /\ pc[t] = "idle" /\ refs > 0 /\ Goto(t, "decref") /\ sig' = sig
          /\ sends' = sends /\ refcnt' = refcnt /\ refs' = refs - 1
          /\ UNCHANGED <<locked, sigs, queued, freed, q, qf>>
      BY <2>2 DEF Drop, At, flagVars
    <3>2. sig' = [sig EXCEPT ![t] = sig[t]] /\ "decref" # "send"
      BY <1>0, <3>1 DEF JobTypes
    <3> QED BY <3>1, <3>2, Zenon
  <2>3. sig[t] \in Sig \cup {0}
    BY <1>0 DEF JobTypes
  <2> HIDE DEF Took
  <2> QED BY <2>1, <2>2, <2>3, Zenon
<1>t. PICK l \in {"send", "decref"}, x \in Sig \cup {0} : Took(l, x)
  BY <1>1, Zenon
<1>2. /\ pc'[t] = l /\ Owners' = Owners \cup {t} /\ Lasts' = Lasts /\ Holders' = Holders
      /\ t \notin Owners /\ pc' \in [Thread -> Places] /\ \A u \in Thread : u # t => pc'[u] = pc[u]
  <2>1. l \in OwnerAt \ {"unlock", "execute"}
    BY DEF OwnerAt
  <2> QED BY <1>0, <1>t, <2>1, Enters
<1>3. sig' \in [Thread -> Sig \cup {0}] /\ sig'[t] = x /\ OthersStay(t)
  BY <1>0, <1>t, <1>2 DEF OthersStay, JobTypes
<1>4. refs # 0 /\ refs \in Nat /\ refcnt \in Nat /\ sends' \in 0 .. MaxSends /\ refs' \in 0 .. MaxRefs /\ refcnt' \in Nat
  BY <1>0, <1>t, JobAssumption DEF JobTypes
<1>5. JobTypes'
  BY <1>0, <1>t, <1>2, <1>3, <1>4 DEF JobTypes, OthersStay
<1>6. ~freed /\ Lasts = {} /\ 7 \notin sigs /\ ~OtherFinishes(t)
  <2>1. \A u \in Owners : refcnt # 1
    BY <1>0, <1>4, Alone
  <2> QED BY <1>0, <1>4, <2>1 DEF Counted, Finishing, OtherFinishes, Owners
<1>7. Counted'
  <2>1. Entries' = Entries /\ IsFiniteSet(Entries) /\ Cardinality(Entries) \in Nat
    BY <1>0, <1>t, CardType DEF Entries, Counted
  <2>2. refcnt' - Cardinality(Entries) - refs' = refcnt - Cardinality(Entries) - refs + 1
    BY <1>t, <1>4, <2>1
  <2> QED BY <1>0, <1>t, <1>2, <1>5, <1>6, <2>1, <2>2, CountJoin
<1>8. Finishing'
  BY <1>0, <1>t, <1>2, <1>3, <1>6, FinishFrame
<1>9. Locking' /\ MarkBacked'
  BY <1>0, <1>t, <1>2, <1>3, <1>6, LockSame, MarkFrame
<1> QED BY <1>5, <1>7, <1>8, <1>9 DEF JobInv

\* Where a thread has the lock.
HolderAt == {"unlock", "execute"}

\* A step in which thread t keeps its reference and the counter stays: what has to be seen for
\* the parts of the invariant other than the mark.
LEMMA Walk ==
  ASSUME CountingLaws, JobInv, NEW t \in Thread, NEW l \in OwnerAt, pc[t] \in OwnerAt, Goto(t, l),
         UNCHANGED <<refcnt, refs, q, freed>>,
         sigs' \subseteq Sig, queued' \subseteq Class, sends' \in 0 .. MaxSends,
         sig' \in [Thread -> Sig \cup {0}], qf' \in [Thread -> SUBSET Class],
         \A u \in Thread : u # t => sig'[u] = sig[u] /\ qf'[u] = qf[u],
         l \in {"send", "trylock", "set", "push"} => sig'[t] \in Sig,
         7 \in sigs' => refcnt = 1 /\ l \in {"unlock", "push", "process", "plock"},
         l \in {"send", "trylock", "execute"} /\ sig'[t] = 7 => refcnt = 1 /\ 7 \notin sigs',
         l = "set" => sig'[t] # 7,
         \/ locked' = locked /\ (l \in HolderAt <=> pc[t] \in HolderAt)
         \/ ~locked /\ locked' = TRUE /\ l \in HolderAt
         \/ pc[t] \in HolderAt /\ locked' = FALSE /\ l \notin HolderAt
  PROVE  /\ JobTypes' /\ Counted' /\ Finishing' /\ Locking' /\ OthersStay(t) /\ ~freed
         /\ pc'[t] = l
<1>0. JobTypes /\ Counted /\ Finishing /\ Locking
  BY DEF JobInv
<1>1. /\ pc'[t] = l /\ pc' \in [Thread -> Places] /\ \A u \in Thread : u # t => pc'[u] = pc[u]
      /\ Owners' = Owners /\ Lasts' = Lasts /\ t \in Owners
      /\ Holders' = IF l \in HolderAt THEN Holders \cup {t} ELSE Holders \ {t}
  BY <1>0, Walks DEF HolderAt
<1>3. OthersStay(t)
  BY <1>1 DEF OthersStay
<1>4. JobTypes'
  BY <1>0, <1>1 DEF JobTypes
<1>5. Counted' /\ ~freed /\ Lasts = {}
  BY <1>0, <1>1, CountWalk, Alone
<1>6. refcnt = 1 => Owners = {t} /\ refs = 0
  BY <1>0, <1>1, Alone
<1>7. ~OtherFinishes(t)
  BY <1>0, <1>1, Finisher
<1>8. Finishing'
  BY <1>0, <1>1, <1>3, <1>5, <1>6, <1>7, FinishFrame
<1>9. pc[t] \in HolderAt <=> t \in Holders
  BY DEF Holders, HolderAt
<1>10. Locking'
  <2>1. CASE locked' = locked /\ (l \in HolderAt <=> pc[t] \in HolderAt)
    <3>1. Holders' = Holders
      BY <1>1, <1>9, <2>1
    <3> QED BY <1>0, <2>1, <3>1, LockSame
  <2>2. CASE ~locked /\ locked' = TRUE /\ l \in HolderAt
    BY <1>0, <1>1, <1>5, <2>2, LockTake
  <2>3. CASE pc[t] \in HolderAt /\ locked' = FALSE /\ l \notin HolderAt
    BY <1>0, <1>1, <1>9, <2>3, LockGive, Zenon
  <2> QED BY <2>1, <2>2, <2>3, Zenon
<1> QED BY <1>1, <1>3, <1>4, <1>5, <1>8, <1>10

\* What a thread knows that has a reference: JS_FINISH is pending only if the reference is the
\* last and the thread is on its way to handle it, and then nobody has the lock but it.
LEMMA Knows ==
  ASSUME CountingLaws, JobInv, NEW t \in Thread, pc[t] \in OwnerAt
  PROVE  /\ 7 \in sigs => refcnt = 1 /\ pc[t] \in {"unlock", "push", "process", "plock"}
         /\ pc[t] \in {"send", "trylock"} /\ sig[t] = 7 => refcnt = 1
         /\ refcnt = 1 /\ pc[t] \notin HolderAt => ~locked
         /\ refcnt = 1 => Owners = {t} /\ Entries = {}
<1>0. JobTypes /\ Counted /\ Finishing /\ Locking /\ t \in Owners
  BY DEF JobInv, Owners, OwnerAt
<1>1. refcnt = 1 => Owners = {t} /\ Entries = {}
  BY <1>0, Alone
<1>2. refcnt = 1 /\ pc[t] \notin HolderAt => Holders = {}
  BY <1>1 DEF Holders, Owners, HolderAt
<1>3. ~freed
  BY <1>0, Alone
<1>4. refcnt = 1 /\ pc[t] \notin HolderAt => ~locked
  BY <1>0, <1>2, <1>3 DEF Locking
<1> QED BY <1>0, <1>1, <1>4, Finisher DEF Finishing

\* job_send_signals.
LEMMA StepSend ==
  ASSUME CountingLaws, JobInv, NEW t \in Thread, SendCheck(t) \/ SendSet(t) \/ Relock(t) \/ SendLock(t)
  PROVE  JobInv'
<1>0. JobTypes /\ MarkBacked
  BY DEF JobInv
<1>1. PICK l \in {"decref", "trylock", "relock", "set", "unlock"} :
        /\ Goto(t, l) /\ UNCHANGED <<queued, refcnt, freed, q, refs, sig, qf, sends>>
        /\ \/ pc[t] = "send" /\ l = "decref" /\ sigs' = sigs /\ locked' = locked
           \/ pc[t] = "send" /\ l = "trylock" /\ sigs' = sigs /\ locked' = locked
           \/ pc[t] = "set" /\ l = "relock" /\ sigs' = sigs \cup {sig[t]} /\ locked' = locked
           \/ pc[t] = "relock" /\ l = "decref" /\ sigs' = sigs /\ locked' = locked
           \/ pc[t] = "relock" /\ l = "unlock" /\ sigs' = sigs /\ ~locked /\ locked' = TRUE
           \/ pc[t] = "trylock" /\ l = "set" /\ sigs' = sigs /\ locked /\ locked' = locked
           \/ pc[t] = "trylock" /\ l = "unlock" /\ sigs' = sigs \cup {sig[t]} /\ ~locked /\ locked' = TRUE
  <2>1. CASE SendCheck(t)
    BY <2>1, Zenon DEF SendCheck, At, flagVars
  <2>2. CASE SendSet(t)
    BY <2>2, Zenon DEF SendSet, At
  <2>3. CASE Relock(t)
    BY <2>3, Zenon DEF Relock, At
  <2>4. CASE SendLock(t)
    BY <2>4, Zenon DEF SendLock, At
  <2> QED BY <2>1, <2>2, <2>3, <2>4, Zenon
<1>2. l \in OwnerAt /\ pc[t] \in OwnerAt /\ pc[t] \notin {"process", "plock", "pclear", "push", "unlock", "execute"}
  BY <1>1 DEF OwnerAt
<1>3. /\ 7 \notin sigs /\ (pc[t] \in {"send", "trylock"} /\ sig[t] = 7 => refcnt = 1)
      /\ (refcnt = 1 => ~locked) /\ (pc[t] = "set" => sig[t] # 7)
      /\ pc[t] \in {"send", "trylock", "set"} => sig[t] \in Sig
  BY <1>2, Knows DEF JobInv, JobTypes, Finishing, HolderAt
<1>4. sigs' \subseteq Sig /\ (7 \in sigs' => refcnt = 1 /\ l = "unlock") /\ queued' \subseteq Class /\ sends' \in 0 .. MaxSends
  BY <1>0, <1>1, <1>3 DEF JobTypes
<1>5. l \in {"trylock", "set"} => sig[t] \in Sig /\ (sig[t] = 7 => l = "trylock" /\ refcnt = 1 /\ 7 \notin sigs')
  BY <1>1, <1>3
<1>6. \/ locked' = locked /\ (l \in HolderAt <=> pc[t] \in HolderAt)
      \/ ~locked /\ locked' = TRUE /\ l \in HolderAt
  BY <1>1, <1>2 DEF HolderAt
<1>7. sig' = sig /\ qf' = qf /\ sig \in [Thread -> Sig \cup {0}] /\ qf \in [Thread -> SUBSET Class]
  BY <1>0, <1>1 DEF JobTypes
<1>8. JobTypes' /\ Counted' /\ Finishing' /\ Locking' /\ OthersStay(t) /\ ~freed
  BY <1>1, <1>2, <1>4, <1>5, <1>6, <1>7, Walk, Zenon
<1>9. MarkBacked'
  BY <1>0, <1>1, <1>2, <1>8, MarkFrame
<1> QED BY <1>8, <1>9 DEF JobInv

\* The thread that takes the job out of its queue, and puts it into one.
LEMMA StepPop ==
  ASSUME CountingLaws, JobInv, NEW t \in Thread, Pop(t)
  PROVE  JobInv'
<1>0. JobTypes /\ Counted /\ Finishing /\ Locking /\ MarkBacked
  BY DEF JobInv
<1>1. PICK v \in Queues :
        /\ t \in v /\ q[v] > 0 /\ q' = [q EXCEPT ![v] = @ - 1] /\ pc[t] = "idle" /\ Goto(t, "process")
        /\ UNCHANGED <<locked, sigs, queued, refcnt, freed, refs, sig, qf, sends>>
  BY Zenon DEF Pop, At, flagVars
<1>2. /\ pc'[t] = "process" /\ Owners' = Owners \cup {t} /\ Lasts' = Lasts /\ Holders' = Holders
      /\ t \notin Owners /\ pc' \in [Thread -> Places] /\ \A u \in Thread : u # t => pc'[u] = pc[u]
  <2>1. "process" \in OwnerAt \ {"unlock", "execute"}
    BY DEF OwnerAt
  <2> QED BY <1>0, <1>1, <2>1, Enters
<1>3. OthersStay(t)
  BY <1>1, <1>2 DEF OthersStay
<1>4. /\ q' \in [Queues -> Nat] /\ IsFiniteSet(Entries') /\ Cardinality(Entries)' = Cardinality(Entries) - 1
      /\ Entries # {}
  <2>1. q[v] # 0
    BY <1>0, <1>1 DEF JobTypes
  <2> QED BY <1>0, <1>1, <2>1, EntryTaken, EntriesEmpty, Zenon
<1>5. JobTypes'
  BY <1>0, <1>1, <1>2, <1>4 DEF JobTypes
<1>6. ~freed /\ Lasts = {}
  BY <1>0, <1>4 DEF Counted
<1>7. Counted'
  <2>1. Cardinality(Entries) \in Nat /\ Cardinality(Entries') \in Nat
    BY <1>0, <1>4, CardType DEF Counted
  <2>2. refcnt' - Cardinality(Entries') - refs' = refcnt - Cardinality(Entries) - refs + 1
    BY <1>0, <1>1, <1>4, <2>1, JobAssumption DEF JobTypes
  <2> QED BY <1>0, <1>1, <1>2, <1>4, <1>5, <1>6, <2>1, <2>2, CountJoin
<1>8. Finishing'
  <2>1. \A u \in Owners : refcnt # 1
    BY <1>0, <1>4, Alone
  <2>2. ~OtherFinishes(t)
    BY <1>0, <2>1 DEF OtherFinishes, Finishing, Owners
  <2>3. refcnt = 1 => Owners = {}
    BY <2>1
  <2> QED BY <1>0, <1>1, <1>2, <1>3, <2>2, <2>3, FinishFrame DEF Finishing
<1>9. Locking'
  BY <1>0, <1>1, <1>2, LockSame
<1>10. MarkBacked'
  <2> SUFFICES ASSUME NEW c \in queued
               PROVE  \/ q'[Queue(c)] > 0
                      \/ \E u \in Queue(c) : Retries(u, c)'
                      \/ \E u \in Thread : Pushes(u, c)'
    BY <1>1 DEF MarkBacked
  <2>1. CASE Queue(c) = v
    BY <1>1, <1>2, <2>1, Zenon DEF Retries, At
  <2>2. CASE Queue(c) # v
    <3>1. Queue(c) \in Queues
      BY <1>0 DEF JobTypes, Queues
    <3>2. q'[Queue(c)] = q[Queue(c)]
      BY <1>0, <1>1, <2>2, <3>1 DEF JobTypes
    <3>3. ASSUME NEW u \in Queue(c), Retries(u, c) PROVE Retries(u, c)'
      BY <1>1, <1>3, <3>3 DEF Retries, At, OthersStay, Queue
    <3>4. ASSUME NEW u \in Thread, Pushes(u, c) PROVE Pushes(u, c)'
      BY <1>1, <1>3, <3>4 DEF Pushes, At, OthersStay
    <3> QED BY <1>0, <1>6, <3>2, <3>3, <3>4, Zenon DEF MarkBacked
  <2> QED BY <2>1, <2>2
<1> QED BY <1>5, <1>7, <1>8, <1>9, <1>10 DEF JobInv

\* The thread that puts the job into a queue: its reference becomes the entry's, which backs the
\* mark.
LEMMA StepPush ==
  ASSUME CountingLaws, JobInv, NEW t \in Thread, Push(t)
  PROVE  JobInv'
<1>0. JobTypes /\ Counted /\ Finishing /\ Locking /\ MarkBacked
  BY DEF JobInv
<1> DEFINE v == Queue(SigClass[sig[t]])
<1>1. /\ pc[t] = "push" /\ q' = [q EXCEPT ![v] = @ + 1] /\ Goto(t, "idle")
      /\ UNCHANGED <<locked, sigs, queued, refcnt, freed, refs, sig, qf, sends>>
  BY DEF Push, At, flagVars
<1>2. v \in Queues
  <2>1. sig[t] \in Sig
    BY <1>0, <1>1 DEF JobTypes
  <2> QED BY <2>1 DEF Queues, Class
<1> HIDE DEF v
<1>3. /\ pc'[t] = "idle" /\ Owners' = Owners \ {t} /\ Lasts' = Lasts \ {t} /\ Holders' = Holders \ {t}
      /\ t \in Owners /\ t \notin Holders
      /\ pc' \in [Thread -> Places] /\ \A u \in Thread : u # t => pc'[u] = pc[u]
  <2>1. "idle" \in Places /\ t \in Owners /\ t \notin Holders
    BY <1>1 DEF Places, Owners, Holders
  <2> QED BY <1>0, <1>1, <2>1, Moves
<1>4. OthersStay(t)
  BY <1>1, <1>3 DEF OthersStay
<1>5. q' \in [Queues -> Nat] /\ IsFiniteSet(Entries') /\ Cardinality(Entries)' = Cardinality(Entries) + 1
  BY <1>0, <1>1, <1>2, EntryAdded, Zenon
<1>6. JobTypes'
  BY <1>0, <1>1, <1>3, <1>5 DEF JobTypes
<1>7. ~freed /\ Lasts = {} /\ Lasts' = {}
  BY <1>0, <1>3, Alone
<1>8. Counted'
  <2>1. Cardinality(Entries) \in Nat /\ Cardinality(Entries') \in Nat
    BY <1>0, <1>5, CardType DEF Counted
  <2>2. refcnt' - Cardinality(Entries') - refs' = refcnt - Cardinality(Entries) - refs - 1
    BY <1>0, <1>1, <1>5, <2>1, JobAssumption DEF JobTypes
  <2> QED BY <1>0, <1>1, <1>3, <1>5, <1>6, <1>7, <2>1, <2>2, CountLeave
<1>9. Finishing'
  BY <1>0, <1>1, <1>3, <1>4, <1>7, Finisher, FinishFrame
<1>10. Locking'
  BY <1>0, <1>1, <1>3, LockSame
<1>11. MarkBacked'
  <2> SUFFICES ASSUME NEW c \in queued
               PROVE  \/ q'[Queue(c)] > 0
                      \/ \E u \in Queue(c) : Retries(u, c)'
                      \/ \E u \in Thread : Pushes(u, c)'
    BY <1>1 DEF MarkBacked
  <2>1. Queue(c) \in Queues
    BY <1>0 DEF JobTypes, Queues
  <2>2. q[Queue(c)] \in Nat /\ q[v] \in Nat /\ q'[Queue(c)] = IF Queue(c) = v THEN q[v] + 1 ELSE q[Queue(c)]
    BY <1>0, <1>1, <1>2, <2>1 DEF JobTypes
  <2>3. ASSUME NEW u \in Queue(c), Retries(u, c) PROVE Retries(u, c)'
    BY <1>1, <1>4, <2>3 DEF Retries, At, OthersStay, Queue
  <2>4. ASSUME NEW u \in Thread, Pushes(u, c) PROVE Pushes(u, c)' \/ Queue(c) = v
    BY <1>1, <1>4, <2>4 DEF Pushes, At, OthersStay, v
  <2>5. q[Queue(c)] > 0 \/ Queue(c) = v => q'[Queue(c)] > 0
    BY <2>2
  <2>6. \/ q[Queue(c)] > 0
        \/ \E u \in Queue(c) : Retries(u, c)
        \/ \E u \in Thread : Pushes(u, c)
    BY <1>0, <1>7, Zenon DEF MarkBacked
  <2> QED BY <2>3, <2>4, <2>5, <2>6, Zenon
<1> QED BY <1>6, <1>8, <1>9, <1>10, <1>11 DEF JobInv

\* process_one_job reads the mark, and clears what it read once it has the lock or has seen that
\* another thread has it.
LEMMA StepProcess ==
  ASSUME CountingLaws, JobInv, NEW t \in Thread, ProcRead(t) \/ ProcLock(t) \/ ProcClear(t)
  PROVE  JobInv'
<1>0. JobTypes /\ MarkBacked
  BY DEF JobInv
<1>1. PICK l \in {"plock", "pclear", "unlock", "relock"} :
        /\ Goto(t, l) /\ UNCHANGED <<sigs, refcnt, freed, q, refs, sig, sends>>
        /\ \/ pc[t] = "process" /\ l = "plock" /\ qf' = [qf EXCEPT ![t] = queued \cap Mask[t]]
              /\ queued' = queued /\ locked' = locked
           \/ pc[t] = "plock" /\ l = "pclear" /\ qf' = qf /\ queued' = queued /\ locked /\ locked' = locked
           \/ pc[t] = "plock" /\ l = "unlock" /\ qf' = qf /\ queued' = queued \ qf[t] /\ ~locked /\ locked' = TRUE
           \/ pc[t] = "pclear" /\ l = "relock" /\ qf' = qf /\ queued' = queued \ qf[t] /\ locked' = locked
  <2>1. CASE ProcRead(t)
    BY <2>1, Zenon DEF ProcRead, At, flagVars
  <2>2. CASE ProcLock(t)
    BY <2>2, Zenon DEF ProcLock, At
  <2>3. CASE ProcClear(t)
    BY <2>3, Zenon DEF ProcClear, At
  <2> QED BY <2>1, <2>2, <2>3, Zenon
<1>2. l \in OwnerAt /\ pc[t] \in OwnerAt
  BY <1>1 DEF OwnerAt
<1>3. 7 \in sigs => refcnt = 1 /\ pc[t] \in {"process", "plock"} /\ ~locked
  <2>1. pc[t] \notin HolderAt /\ pc[t] \notin {"unlock", "push"}
    BY <1>1 DEF HolderAt
  <2> QED BY <1>2, <2>1, Knows
<1>4. /\ qf' \in [Thread -> SUBSET Class] /\ (\A u \in Thread : u # t => qf'[u] = qf[u])
      /\ l = "plock" => qf'[t] = queued \cap Mask[t]
  BY <1>0, <1>1 DEF JobTypes
<1>5. /\ sigs' \subseteq Sig /\ (7 \in sigs' => refcnt = 1 /\ l \in {"plock", "unlock"})
      /\ queued' \subseteq queued /\ queued' \subseteq Class /\ sends' \in 0 .. MaxSends
      /\ sig' = sig /\ sig \in [Thread -> Sig \cup {0}]
  BY <1>0, <1>1, <1>3 DEF JobTypes
<1>6. \/ locked' = locked /\ (l \in HolderAt <=> pc[t] \in HolderAt)
      \/ ~locked /\ locked' = TRUE /\ l \in HolderAt
  BY <1>1 DEF HolderAt
<1>7. JobTypes' /\ Counted' /\ Finishing' /\ Locking' /\ OthersStay(t) /\ ~freed /\ pc'[t] = l
  BY <1>1, <1>2, <1>4, <1>5, <1>6, Walk, Zenon
<1>8. ASSUME NEW c \in queued'
      PROVE  \/ q'[Queue(c)] > 0
             \/ \E u \in Queue(c) : Retries(u, c)'
             \/ \E u \in Thread : Pushes(u, c)'
  <2>1. c \in queued /\ (l \in {"unlock", "relock"} => c \notin qf[t])
    BY <1>1, <1>5, Zenon
  <2>2. ASSUME NEW u \in Queue(c), Retries(u, c) PROVE Retries(u, c)'
    <3>1. CASE u # t
      BY <1>7, <2>2, <3>1, Zenon DEF Retries, At, OthersStay, Queue
    <3>2. CASE u = t
      BY <1>1, <1>4, <1>7, <2>1, <2>2, <3>2, Zenon DEF Retries, At, Queue
    <3> QED BY <3>1, <3>2
  <2>3. ASSUME NEW u \in Thread, Pushes(u, c) PROVE Pushes(u, c)'
    BY <1>1, <1>7, <2>3 DEF Pushes, At, OthersStay
  <2> QED BY <1>0, <1>1, <1>7, <2>1, <2>2, <2>3, Zenon DEF MarkBacked
<1>9. MarkBacked'
  BY <1>8 DEF MarkBacked
<1> QED BY <1>7, <1>9 DEF JobInv

\* unlock_job handles a signal, is back from handling it, or finds nothing to do.
LEMMA StepExecute ==
  ASSUME CountingLaws, JobInv, NEW t \in Thread,
         Execute(t) \/ Release(t) \/ \E again \in SUBSET Sig : Handled(t, again)
  PROVE  JobInv'
<1>0. JobTypes /\ MarkBacked
  BY DEF JobInv
<1> DEFINE m == TopSig
<1>1. sigs # {} => m \in sigs /\ (7 \in sigs <=> m = 7)
  BY <1>0, NextSig DEF JobTypes
<1> HIDE DEF m
<1>2. PICK l \in {"execute", "unref", "unlock"} :
        /\ Goto(t, l) /\ UNCHANGED <<queued, refcnt, freed, q, refs, qf>>
        /\ \/ /\ pc[t] = "unlock" /\ l = "execute" /\ sigs # {} /\ sig' = [sig EXCEPT ![t] = m]
              /\ sigs' = sigs \ {m} /\ locked' = locked /\ sends' = sends
           \/ /\ pc[t] = "unlock" /\ l = "unref" /\ sigs = {} /\ sig' = sig
              /\ sigs' = sigs /\ locked' = FALSE /\ sends' = sends
           \/ /\ pc[t] = "execute" /\ l = "unlock" /\ sig' = sig /\ locked' = locked
              /\ \E again \in SUBSET (Sig \ {7}) :
                   /\ sigs' = sigs \cup again /\ sends + Cardinality(again) <= MaxSends
                   /\ sends' = sends + Cardinality(again)
  <2>1. CASE Execute(t)
    BY <2>1, Zenon DEF Execute, At, m
  <2>2. CASE Release(t)
    BY <2>2, Zenon DEF Release, At
  <2>3. ASSUME NEW again \in SUBSET Sig, Handled(t, again)
        PROVE  /\ Goto(t, "unlock") /\ pc[t] = "execute" /\ again \in SUBSET (Sig \ {7}) /\ sigs' = sigs \cup again
               /\ sends + Cardinality(again) <= MaxSends /\ sends' = sends + Cardinality(again)
               /\ UNCHANGED <<locked, queued, refcnt, freed, q, refs, sig, qf>>
    BY <2>3 DEF Handled, At, JS_FINISH
  <2> QED BY <2>1, <2>2, <2>3, Zenon
<1>3. l \in OwnerAt /\ pc[t] \in OwnerAt /\ pc[t] \notin {"process", "plock", "pclear", "push"}
  BY <1>2 DEF OwnerAt
<1>4. (7 \in sigs => refcnt = 1) /\ (l = "unlock" => 7 \notin sigs)
  BY <1>2, <1>3, Knows
<1>5. 7 \notin sigs' /\ sigs' \subseteq Sig /\ queued' \subseteq Class
  BY <1>0, <1>1, <1>2, <1>4 DEF JobTypes
<1>6. sends' \in 0 .. MaxSends
  <2>1. ASSUME NEW again \in SUBSET (Sig \ {7}) PROVE Cardinality(again) \in Nat
    <3>1. 7 \in Nat
      OBVIOUS
    <3>2. IsFiniteSet(0 .. 7)
      BY <3>1, CardUpTo, Zenon
    <3>3. again \subseteq 0 .. 7
      BY JobAssumption
    <3> QED BY <3>2, <3>3, CardSubset, CardType, Zenon
  <2>2. sends' = sends \/ \E n \in Nat : sends + n <= MaxSends /\ sends' = sends + n
    BY <1>2, <2>1
  <2> QED BY <1>0, <2>2, JobAssumption DEF JobTypes
<1>7. /\ sig' \in [Thread -> Sig \cup {0}] /\ (\A u \in Thread : u # t => sig'[u] = sig[u])
      /\ qf' = qf /\ qf \in [Thread -> SUBSET Class]
      /\ l = "execute" => sig'[t] = m /\ m \in sigs
  BY <1>0, <1>1, <1>2 DEF JobTypes
<1>8. l = "execute" /\ sig'[t] = 7 => refcnt = 1
  BY <1>1, <1>4, <1>7
<1>9. \/ locked' = locked /\ (l \in HolderAt <=> pc[t] \in HolderAt)
      \/ pc[t] \in HolderAt /\ locked' = FALSE /\ l \notin HolderAt
  BY <1>2 DEF HolderAt
<1>10. l \notin {"send", "trylock", "set", "push"}
  OBVIOUS
<1>11. JobTypes' /\ Counted' /\ Finishing' /\ Locking' /\ OthersStay(t) /\ ~freed
  BY <1>2, <1>3, <1>5, <1>6, <1>7, <1>8, <1>9, <1>10, Walk, Zenon
<1>12. MarkBacked'
  BY <1>0, <1>2, <1>3, <1>11, MarkFrame
<1> QED BY <1>11, <1>12 DEF JobInv

\* unlock_job puts the job into a queue, or relies on the mark.  If JS_FINISH is pending the
\* reference is the last, so nothing backs a mark and the job is put into the queue.
LEMMA StepEnqueue ==
  ASSUME CountingLaws, JobInv, NEW t \in Thread, Enqueue(t)
  PROVE  JobInv'
<1>0. JobTypes /\ Counted /\ MarkBacked
  BY DEF JobInv
<1> DEFINE m == TopSig
           k == SigClass[m]
<1>1. PICK l \in {"decref", "push"} :
        /\ Goto(t, l) /\ pc[t] = "unlock" /\ sigs # {} /\ locked' = FALSE /\ queued' = queued \cup {k}
        /\ (l = "decref" => k \in queued /\ sig' = sig) /\ (l = "push" => sig' = [sig EXCEPT ![t] = m])
        /\ UNCHANGED <<sigs, refcnt, freed, q, refs, qf, sends>>
  BY Zenon DEF Enqueue, At
<1>2. m \in Sig /\ k \in Class
  BY <1>0, <1>1, NextSig, Zenon DEF JobTypes, Class
<1> HIDE DEF m, k
<1>3. l \in OwnerAt /\ pc[t] \in OwnerAt /\ pc[t] \in HolderAt /\ l \notin HolderAt
  BY <1>1 DEF OwnerAt, HolderAt
<1>4. /\ sig' \in [Thread -> Sig \cup {0}] /\ (\A u \in Thread : u # t => sig'[u] = sig[u])
      /\ l = "push" => sig'[t] = m
      /\ qf' = qf /\ qf \in [Thread -> SUBSET Class] /\ sends' \in 0 .. MaxSends
      /\ sigs' \subseteq Sig /\ queued' \subseteq Class
  BY <1>0, <1>1, <1>2 DEF JobTypes
<1>5. ~freed
  BY <1>0, <1>1, Alone, Zenon DEF Owners
<1>6. ASSUME NEW c \in queued
      PROVE  \/ q[Queue(c)] > 0 /\ Queue(c) \in Queues
             \/ \E u \in Queue(c) : Retries(u, c) /\ u # t /\ u \in Owners
             \/ \E u \in Thread : Pushes(u, c) /\ u # t /\ u \in Owners
  <2>1. Queue(c) \in Queues
    BY <1>0 DEF JobTypes, Queues
  <2>2. ASSUME NEW u \in Queue(c), Retries(u, c) PROVE u # t /\ u \in Owners
    BY <1>1, <2>2 DEF Retries, At, Owners, Queue
  <2>3. ASSUME NEW u \in Thread, Pushes(u, c) PROVE u # t /\ u \in Owners
    BY <1>1, <2>3 DEF Pushes, At, Owners
  <2> QED BY <1>0, <1>5, <2>1, <2>2, <2>3 DEF MarkBacked
<1>7. 7 \in sigs => refcnt = 1 /\ l = "push"
  <2> SUFFICES ASSUME 7 \in sigs PROVE refcnt = 1 /\ k \notin queued
    BY <1>1
  <2>1. refcnt = 1 /\ Owners = {t} /\ Entries = {}
    BY <1>3, Knows
  <2>2. \A u \in Queues : q[u] = 0
    BY <1>0, <2>1, EntriesEmpty
  <2> QED BY <1>6, <2>1, <2>2
<1>8. JobTypes' /\ Counted' /\ Finishing' /\ Locking' /\ OthersStay(t) /\ pc'[t] = l
  BY <1>1, <1>2, <1>3, <1>4, <1>7, Walk, Zenon
<1>9. ASSUME NEW c \in queued'
      PROVE  \/ q'[Queue(c)] > 0
             \/ \E u \in Queue(c) : Retries(u, c)'
             \/ \E u \in Thread : Pushes(u, c)'
  <2>1. CASE c \in queued
    <3>1. ASSUME NEW u \in Queue(c), Retries(u, c), u # t PROVE Retries(u, c)'
      BY <1>8, <3>1 DEF Retries, At, OthersStay, Queue
    <3>2. ASSUME NEW u \in Thread, Pushes(u, c), u # t PROVE Pushes(u, c)'
      BY <1>8, <3>2 DEF Pushes, At, OthersStay
    <3> QED BY <1>1, <1>6, <2>1, <3>1, <3>2
  <2>2. CASE c \notin queued
    <3>1. c = k /\ l = "push"
      BY <1>1, <2>2
    <3>2. Pushes(t, c)'
      BY <1>4, <1>8, <3>1 DEF Pushes, At, k
    <3> QED BY <3>2
  <2> QED BY <2>1, <2>2
<1>10. MarkBacked'
  BY <1>9 DEF MarkBacked
<1> QED BY <1>8, <1>10 DEF JobInv

\* job_decref and unlock_job look whether the reference is the last, and if not subtract it.
LEMMA StepUnref ==
  ASSUME CountingLaws, JobInv, NEW t \in Thread, Look(t) \/ Subtract(t)
  PROVE  JobInv'
<1>0. JobTypes /\ Counted /\ Finishing /\ Locking /\ MarkBacked
  BY DEF JobInv
<1>1. /\ pc[t] \in {"unref", "decref", "unsub", "decsub"}
      /\ UNCHANGED <<locked, sigs, queued, freed, q, refs, sig, qf, sends>>
  BY DEF Look, Subtract, At, flagVars
<1>2. t \in Owners /\ t \notin Holders /\ pc[t] \in OwnerAt
  BY <1>1 DEF Owners, Holders, OwnerAt
<1>3. /\ ~freed /\ Lasts = {} /\ refcnt >= 1 /\ (refcnt = 1 => Owners = {t} /\ Entries = {} /\ refs = 0)
      /\ 7 \notin sigs /\ ~OtherFinishes(t)
  BY <1>0, <1>1, <1>2, Alone, Finisher
<1>4. PICK l \in {"unsub", "decsub", "unlast", "declast", "idle"} :
        /\ Goto(t, l)
        /\ l \in {"unsub", "decsub"} => refcnt' = refcnt
        /\ l \in {"unlast", "declast"} => refcnt = 1 /\ refcnt' \in {0, 1}
        /\ l = "idle" => refcnt # 1 /\ refcnt' = refcnt - 1
  <2>1. refcnt \in Nat /\ refcnt >= 1
    BY <1>0, <1>3 DEF JobTypes
  <2>2. CASE Look(t)
    <3>1. \/ refcnt >= 2 /\ (Goto(t, "unsub") \/ Goto(t, "decsub"))
          \/ ~(refcnt >= 2) /\ (Goto(t, "unlast") \/ Goto(t, "declast"))
      BY <2>2 DEF Look
    <3>2. refcnt' = refcnt /\ (~(refcnt >= 2) => refcnt = 1)
      BY <2>1, <2>2 DEF Look
    <3> QED BY <3>1, <3>2
  <2>3. CASE Subtract(t)
    <3>1. \/ refcnt # 1 /\ Goto(t, "idle")
          \/ refcnt = 1 /\ (Goto(t, "unlast") \/ Goto(t, "declast"))
      BY <2>3 DEF Subtract
    <3>2. refcnt' = refcnt - 1 /\ (refcnt = 1 => refcnt' = 0)
      BY <2>3 DEF Subtract
    <3> QED BY <3>1, <3>2
  <2> QED BY <2>2, <2>3
<1>5. /\ pc'[t] = l /\ pc' \in [Thread -> Places] /\ \A u \in Thread : u # t => pc'[u] = pc[u]
      /\ Owners' = (IF l \notin {"idle", "unlast", "declast"} THEN Owners \cup {t} ELSE Owners \ {t})
      /\ Lasts' = (IF l \in {"unlast", "declast"} THEN {t} ELSE {})
      /\ Holders' = Holders
  <2>1. l \in Places /\ l \notin {"unlock", "execute"}
    BY DEF Places, OwnerAt
  <2>2. Lasts' = (IF l \in {"unlast", "declast"} THEN Lasts \cup {t} ELSE Lasts \ {t}) /\ Holders' = Holders \ {t}
    BY <1>0, <1>4, <2>1, Moves
  <2>3. Lasts' = (IF l \in {"unlast", "declast"} THEN {t} ELSE {}) /\ Holders' = Holders
    BY <1>2, <1>3, <2>2
  <2> QED BY <1>0, <1>4, <2>1, <2>3, Moves, Zenon
<1>6. OthersStay(t)
  BY <1>1, <1>5, Zenon DEF OthersStay
<1>7. JobTypes'
  <2>1. refcnt' \in Nat
    BY <1>0, <1>3, <1>4 DEF JobTypes
  <2> QED BY <1>0, <1>1, <1>5, <2>1 DEF JobTypes
<1>8. Counted'
  <2>1. CASE l \in {"unsub", "decsub"}
    BY <1>0, <1>1, <1>2, <1>3, <1>4, <1>5, <2>1, CountWalk
  <2>2. CASE l \in {"unlast", "declast"}
    BY <1>0, <1>1, <1>2, <1>3, <1>4, <1>5, <2>2, CountLast
  <2>3. CASE l = "idle"
    <3>1. Entries' = Entries /\ IsFiniteSet(Entries) /\ Cardinality(Entries) \in Nat
      BY <1>0, <1>1, CardType DEF Entries, Counted
    <3>2. refcnt' - Cardinality(Entries) - refs' = refcnt - Cardinality(Entries) - refs - 1
      BY <1>0, <1>1, <1>4, <2>3, <3>1, JobAssumption DEF JobTypes
    <3>3. Owners' = Owners \ {t} /\ Lasts' = {}
      BY <1>5, <2>3
    <3> QED BY <1>0, <1>1, <1>2, <1>3, <1>7, <3>1, <3>2, <3>3, CountLeave
  <2> QED BY <2>1, <2>2, <2>3
<1>9. Finishing'
  BY <1>0, <1>1, <1>3, <1>5, <1>6, FinishFrame
<1>10. Locking' /\ MarkBacked'
  BY <1>0, <1>1, <1>3, <1>5, <1>6, LockSame, MarkFrame
<1> QED BY <1>7, <1>8, <1>9, <1>10 DEF JobInv

\* The last owner goes on to send JS_FINISH, or to handle it under the lock it has.
LEMMA StepLast ==
  ASSUME CountingLaws, JobInv, NEW t \in Thread, UnlockLast(t) \/ DecrefLast(t)
  PROVE  JobInv'
<1>0. JobTypes /\ Counted /\ Finishing /\ Locking /\ MarkBacked
  BY DEF JobInv
<1>1. PICK l \in {"unlock", "send"} :
        /\ Goto(t, l) /\ pc[t] \in {"unlast", "declast"} /\ refcnt' = 1
        /\ l = "unlock" => sigs' = sigs \cup {7} /\ locked' = TRUE /\ sig' = sig
        /\ l = "send" => sigs' = sigs /\ locked' = locked /\ sig' = [sig EXCEPT ![t] = 7]
        /\ UNCHANGED <<queued, freed, q, refs, qf, sends>>
  <2>1. CASE UnlockLast(t)
    BY <2>1, Zenon DEF UnlockLast, At, JS_FINISH
  <2>2. CASE DecrefLast(t)
    BY <2>2, Zenon DEF DecrefLast, At, JS_FINISH, flagVars
  <2> QED BY <2>1, <2>2, Zenon
<1>2. /\ sig' \in [Thread -> Sig \cup {0}] /\ (l = "send" => sig'[t] = 7)
      /\ \A u \in Thread : u # t => sig'[u] = sig[u]
  BY <1>0, <1>1, JobAssumption DEF JobTypes
<1>3. t \in Lasts
  BY <1>1 DEF Lasts
<1>4. /\ pc'[t] = l /\ pc' \in [Thread -> Places] /\ \A u \in Thread : u # t => pc'[u] = pc[u]
      /\ Owners' = Owners \cup {t} /\ Lasts' = Lasts \ {t}
      /\ Holders' = IF l \in {"unlock", "execute"} THEN Holders \cup {t} ELSE Holders \ {t}
  <2>1. l \in Places /\ l \notin {"idle", "unlast", "declast"}
    BY DEF Places, OwnerAt
  <2> QED BY <1>0, <1>1, <2>1, Moves
<1>5. Counted' /\ Owners' = {t} /\ Owners = {} /\ Lasts' = {} /\ refs' = 0 /\ ~freed /\ 7 \notin sigs
  BY <1>0, <1>1, <1>3, <1>4, CountBack
<1>6. OthersStay(t)
  BY <1>1, <1>2, <1>4 DEF OthersStay
<1>7. JobTypes'
  <2>1. sigs' \subseteq Sig
    BY <1>0, <1>1, JobAssumption, Zenon DEF JobTypes
  <2> QED BY <1>0, <1>1, <1>2, <1>4, <2>1, JobAssumption DEF JobTypes
<1>8. ~OtherFinishes(t)
  BY <1>5 DEF OtherFinishes, Owners
<1>9. Finishing'
  BY <1>0, <1>1, <1>2, <1>4, <1>5, <1>6, <1>8, FinishFrame
<1>10. Holders = {}
  BY <1>5 DEF Holders, Owners
<1>11. Locking'
  BY <1>0, <1>1, <1>4, <1>5, <1>10, LockSame, LockTake DEF Locking
<1>12. MarkBacked'
  BY <1>0, <1>1, <1>5, <1>6, MarkFrame
<1> QED BY <1>5, <1>7, <1>9, <1>11, <1>12 DEF JobInv

\* The handler of JS_FINISH frees the job: nothing that was left points to it.
LEMMA StepFinished ==
  ASSUME CountingLaws, JobInv, NEW t \in Thread, Finished(t)
  PROVE  JobInv'
<1>0. JobTypes /\ Counted /\ Finishing /\ Locking /\ MarkBacked
  BY DEF JobInv
<1>1. /\ Goto(t, "idle") /\ pc[t] = "execute" /\ sig[t] = 7 /\ freed' = TRUE
      /\ UNCHANGED <<locked, sigs, queued, refcnt, q, refs, sig, qf, sends>>
  BY DEF Finished, At, JS_FINISH, flagVars
<1>2. t \in Owners /\ t \in Holders
  BY <1>1 DEF Owners, Holders
<1>3. refcnt = 1 /\ 7 \notin sigs
  BY <1>0, <1>1 DEF Finishing
<1>4. Owners = {t} /\ Entries = {} /\ refs = 0 /\ Lasts = {}
  BY <1>0, <1>2, <1>3, Alone
<1>5. /\ pc'[t] = "idle" /\ pc' \in [Thread -> Places] /\ \A u \in Thread : u # t => pc'[u] = pc[u]
      /\ Owners' = Owners \ {t} /\ Lasts' = Lasts \ {t} /\ Holders' = Holders \ {t}
  <2>1. "idle" \in Places
    BY DEF Places
  <2> QED BY <1>0, <1>1, <2>1, Moves
<1>6. Owners' = {} /\ Lasts' = {} /\ Entries' = {} /\ IsFiniteSet(Entries')
  BY <1>0, <1>1, <1>4, <1>5 DEF Entries, Counted
<1>7. JobTypes'
  BY <1>0, <1>1, <1>5 DEF JobTypes
<1>8. Counted'
  BY <1>1, <1>4, <1>6 DEF Counted
<1>9. OthersStay(t) /\ ~OtherFinishes(t)
  BY <1>0, <1>1, <1>2, <1>5, Finisher DEF OthersStay
<1>10. Finishing'
  BY <1>0, <1>1, <1>3, <1>5, <1>9, FinishFrame
<1>11. Locking'
  BY <1>0, <1>1, <1>5 DEF Locking
<1>12. MarkBacked'
  BY <1>1 DEF MarkBacked
<1> QED BY <1>7, <1>8, <1>10, <1>11, <1>12 DEF JobInv

\* Every step of every thread keeps the invariant.
LEMMA JobSteps == ASSUME CountingLaws, JobInv, [JobNext]_jobVars PROVE JobInv'
<1>1. ASSUME NEW t \in Thread, JobStep(t) PROVE JobInv'
  BY <1>1, StepSend, StepPop, StepPush, StepProcess, StepExecute, StepEnqueue, StepUnref, StepLast,
     StepFinished DEF JobStep
<1>2. CASE UNCHANGED jobVars
  <2>1. /\ pc' = pc /\ sig' = sig /\ qf' = qf /\ q' = q /\ refs' = refs /\ refcnt' = refcnt /\ freed' = freed
        /\ sigs' = sigs /\ queued' = queued /\ locked' = locked /\ sends' = sends
    BY <1>2 DEF jobVars, flagVars
  <2>2. Owners' = Owners /\ Lasts' = Lasts /\ Holders' = Holders /\ Entries' = Entries
    BY <2>1 DEF Owners, Lasts, Holders, Entries
  <2>3. JobTypes' /\ Finishing'
    BY <2>1, <2>2 DEF JobInv, JobTypes, Finishing
  <2>4. Counted' /\ Locking'
    BY <2>1, <2>2 DEF JobInv, Counted, Locking
  <2>5. MarkBacked'
    BY <2>1 DEF JobInv, MarkBacked, Retries, Pushes, At
  <2> QED BY <2>3, <2>4, <2>5 DEF JobInv
<1> QED BY <1>1, <1>2, StepRef DEF JobNext

\* The job is created with the references of its creators, unlocked and in no queue.
LEMMA JobStart == ASSUME CountingLaws, JobInit PROVE JobInv
<1>1. /\ sigs = {} /\ queued = {} /\ refcnt = MaxRefs /\ freed = FALSE /\ locked = FALSE /\ refs = MaxRefs /\ sends = 0
      /\ q = [u \in Queues |-> 0] /\ pc = [t \in Thread |-> "idle"] /\ sig = [t \in Thread |-> 0]
      /\ qf = [t \in Thread |-> {}]
  BY DEF JobInit
<1>2. JobTypes
  BY <1>1, JobAssumption DEF JobTypes, Places
<1>3. Owners = {} /\ Lasts = {} /\ Holders = {}
  BY <1>1 DEF Owners, Lasts, Holders
<1>4. Entries = {} /\ Cardinality(Entries) = 0 /\ IsFiniteSet(Entries) /\ Cardinality(Owners) = 0
  <2>1. Entries = {}
    BY <1>1, <1>2, EntriesEmpty
  <2> QED BY <1>3, <2>1, CardSmall
<1>5. Counted
  BY <1>1, <1>3, <1>4, JobAssumption DEF Counted
<1>6. Finishing /\ Locking
  BY <1>1, <1>3 DEF Finishing, Locking
<1>7. MarkBacked
  BY <1>1 DEF MarkBacked
<1> QED BY <1>2, <1>5, <1>6, <1>7 DEF JobInv

\* Truth values, which the invariant above does without.
Flags == locked \in BOOLEAN /\ freed \in BOOLEAN

\* Every step keeps them truth values.
LEMMA FlagSteps == ASSUME Flags, [JobNext]_jobVars PROVE Flags'
<1>1. ASSUME NEW t \in Thread, SendLock(t) \/ Relock(t) \/ ProcLock(t) \/ Enqueue(t) \/ Release(t) \/ UnlockLast(t)
      PROVE  Flags'
  <2>1. freed' = freed /\ (locked' = locked \/ locked' = TRUE \/ locked' = FALSE)
    BY <1>1, Zenon DEF SendLock, Relock, ProcLock, Enqueue, Release, UnlockLast
  <2> QED BY <2>1, Zenon DEF Flags
<1>2. ASSUME NEW t \in Thread, Finished(t) PROVE Flags'
  <2>1. freed' = TRUE /\ locked' = locked
    BY <1>2, Zenon DEF Finished, flagVars
  <2> QED BY <2>1, Zenon DEF Flags
<1>3. ASSUME NEW t \in Thread,
             \/ SendCheck(t) \/ SendSet(t) \/ Pop(t) \/ ProcRead(t) \/ ProcClear(t) \/ Execute(t)
             \/ (\E again \in SUBSET Sig : Handled(t, again)) \/ Push(t) \/ Look(t) \/ Subtract(t) \/ DecrefLast(t)
      PROVE  Flags'
  <2>1. locked' = locked /\ freed' = freed
    BY <1>3, Zenon DEF SendCheck, SendSet, Pop, ProcRead, ProcClear, Execute, Handled, Push, Look, Subtract,
       DecrefLast, flagVars
  <2> QED BY <2>1, Zenon DEF Flags
<1>4. ASSUME NEW t \in Thread,
             \/ \E s \in Sig, create, inJob \in BOOLEAN : Signal(t, s, create, inJob)
             \/ \E inJob \in BOOLEAN : Drop(t, inJob)
      PROVE  Flags'
  <2>1. locked' = locked /\ freed' = freed
    BY <1>4, Zenon DEF Signal, Drop, flagVars
  <2> QED BY <2>1, Zenon DEF Flags
<1>5. CASE UNCHANGED jobVars
  BY <1>5, Zenon DEF jobVars, flagVars, Flags
<1> QED BY <1>1, <1>2, <1>3, <1>4, <1>5, Zenon DEF JobNext, JobStep

\* What the invariant says of a job.
LEMMA JobSound == ASSUME CountingLaws, JobInv, Flags PROVE JobSafe
<1>0. JobTypes /\ Counted /\ Finishing /\ Locking /\ MarkBacked
  BY DEF JobInv
<1>1. JobTypeOK
  <2>1. \A t \in Thread : qf[t] \subseteq Class /\ sig[t] \in Sig \cup {0}
    BY <1>0 DEF JobTypes
  <2> QED BY <1>0, <2>1, Zenon DEF JobTypes, JobTypeOK, Flags
<1>2. OneHandler
  <2>1. Cardinality(Holders) <= 1
    <3>1. CASE Holders = {}
      BY <3>1, CardSmall
    <3>2. CASE Holders # {}
      <4>1. PICK t \in Holders : TRUE
        BY <3>2
      <4>2. Holders = {t}
        BY <1>0, <4>1 DEF Locking
      <4>3. Cardinality({t}) = 1
        BY CardSmall, Zenon
      <4> QED BY <4>2, <4>3
    <3> QED BY <3>1, <3>2
  <2> QED BY <1>0, <2>1 DEF OneHandler, Locking
<1>3. NoUseAfterFree
  <2>1. freed => Owners = {} /\ Lasts = {} /\ refs = 0 /\ \A u \in Queues : q[u] = 0
    BY <1>0, EntriesEmpty DEF Counted
  <2>2. ASSUME NEW t \in Thread, pc[t] = "execute", sig[t] = 7
        PROVE  refcnt = 1 /\ refs = 0 /\ Owners = {t} /\ \A u \in Queues : q[u] = 0
    <3>1. t \in Owners /\ refcnt = 1
      BY <1>0, <2>2 DEF Owners, Finishing
    <3> QED BY <1>0, <3>1, Alone, EntriesEmpty
  <2> QED BY <2>1, <2>2 DEF NoUseAfterFree, At, JS_FINISH
<1> QED BY <1>0, <1>1, <1>2, <1>3 DEF JobSafe
=============================================================================
