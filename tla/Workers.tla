------------------------------ MODULE Workers ------------------------------
(***************************************************************************)
(* The processes of --slaves: a parent that forks the workers and watches  *)
(* them, and their signals (mtproto/mtproto-proxy.c, engine/engine.c,      *)
(* engine/engine-signals.c).  A handler only marks a signal pending; the   *)
(* main loop looks at SIGTERM and SIGINT, and the cron at the others.  A   *)
(* second SIGTERM or SIGINT ends the process at once.                      *)
(***************************************************************************)
EXTENDS Naturals

CONSTANTS
  workers,    \* the workers are 1 .. workers; the parent is 0
  Tries,      \* the turns of check_children_dead's loop (11)
  MaxSignals  \* how many signals come from outside

ASSUME WorkersAssumption == workers \in Nat

VARIABLES
  state,     \* of each process: "none", "boot", "run", "wait" (in check_children_dead), "zombie", "gone"
  sent,      \* signals on their way to each process
  armed,     \* signals whose immediate handler is installed
  pending,   \* pending_signals of each process
  calling,   \* the handler called by engine_process_signals: {}, or {what it does next}
  pids,      \* the workers whose pid the parent keeps
  turn,      \* of check_children_dead's loop
  unseen,    \* processes that got a SIGUSR1 since they reopened their log
  orderly,   \* the parent ended by exit()
  stray,     \* a signal was sent to a pid that is not a child any more
  budget     \* signals still to come from outside
workersVars == <<state, sent, armed, pending, calling, pids, turn, unseen, orderly, stray, budget>>

Worker == 1 .. workers
Proc == 0 .. workers
Interrupt == {"TERM", "INT"}
Alive(p) == state[p] \in {"boot", "run", "wait"}

WorkersInit ==
  /\ state = [p \in Proc |-> IF p = 0 THEN "boot" ELSE "none"]
  /\ sent = [p \in Proc |-> {}] /\ armed = [p \in Proc |-> {}] /\ pending = [p \in Proc |-> {}]
  /\ calling = [p \in Proc |-> {}]
  /\ pids = {} /\ turn = 0 /\ unseen = {} /\ orderly = FALSE /\ stray = FALSE /\ budget = MaxSignals

\* the end of a process: a worker is a zombie until the parent waits for it, and when the parent ends
\* its zombies are gone and the others have another parent
Ends(p) ==
  state' = IF p = 0 THEN [q \in Proc |-> IF q = 0 \/ state[q] = "zombie" THEN "gone" ELSE state[q]]
           ELSE [state EXCEPT ![p] = IF Alive(0) THEN "zombie" ELSE "gone"]

\* kill, called for the pids S when those of reaped have been waited for
Kills(S, reaped, sig) ==
  /\ sent' = [p \in Proc |-> IF p \in S /\ Alive(p) THEN sent[p] \cup {sig} ELSE sent[p]]
  /\ stray' = (stray \/ \E p \in S : p \in reaped \/ state[p] = "gone")

(***************************************************************************)
(* The start: mtfront_pre_init forks the workers one by one, and a worker  *)
(* checks that the parent is still its parent.  Until server_init SIGTERM  *)
(* and SIGINT have their default action.                                   *)
(***************************************************************************)
Fork ==
  /\ state[0] = "boot"
  /\ \E w \in Worker : /\ pids = 1 .. (w - 1) /\ pids' = pids \cup {w}
                       /\ state' = [state EXCEPT ![w] = "boot"]
  /\ UNCHANGED <<sent, armed, pending, calling, turn, unseen, orderly, stray, budget>>
server_init(p) ==
  /\ state[p] = "boot" /\ (p = 0 => pids = Worker)
  /\ IF p # 0 /\ ~Alive(0) THEN Ends(p) ELSE state' = [state EXCEPT ![p] = "run"]
  /\ UNCHANGED <<sent, armed, pending, calling, pids, turn, unseen, orderly, stray, budget>>

(***************************************************************************)
(* Signals.                                                                *)
(***************************************************************************)
Outside(p, sig) ==
  /\ budget > 0 /\ Alive(p) /\ sig \notin sent[p]
  /\ sent' = [sent EXCEPT ![p] = @ \cup {sig}] /\ budget' = budget - 1
  /\ UNCHANGED <<state, armed, pending, calling, pids, turn, unseen, orderly, stray>>
\* sigterm_handler and sigint_handler, default_signal_handler
Deliver(p, sig) ==
  /\ Alive(p) /\ sig \in sent[p]
  /\ sent' = [sent EXCEPT ![p] = @ \ {sig}]
  /\ IF sig = "KILL" \/ (sig \in Interrupt /\ (state[p] = "boot" \/ sig \in armed[p]))
     THEN Ends(p) /\ UNCHANGED <<armed, pending, unseen>>
     ELSE /\ pending' = [pending EXCEPT ![p] = @ \cup {sig}]
          /\ armed' = [armed EXCEPT ![p] = @ \cup ({sig} \cap Interrupt)]
          /\ unseen' = IF sig = "USR1" THEN unseen \cup {p} ELSE unseen
          /\ UNCHANGED state
  /\ UNCHANGED <<calling, pids, turn, orderly, stray, budget>>

\* engine_process_signals: the signal is no longer pending when its handler is called
Process(p) ==
  /\ state[p] = "run" /\ "USR1" \in pending[p] /\ calling[p] = {}
  /\ pending' = [pending EXCEPT ![p] = @ \ {"USR1"}]
  /\ calling' = [calling EXCEPT ![p] = {"USR1"}]
  /\ UNCHANGED <<state, sent, armed, pids, turn, unseen, orderly, stray, budget>>
\* mtfront_sigusr1_handler: the log is opened again, and then the parent tells its workers
Reopen(p) ==
  /\ state[p] = "run" /\ calling[p] = {"USR1"}
  /\ calling' = [calling EXCEPT ![p] = {"children"}] /\ unseen' = unseen \ {p}
  /\ UNCHANGED <<state, sent, armed, pending, pids, turn, orderly, stray, budget>>
Return(p) ==
  /\ state[p] = "run" /\ calling[p] = {"children"}
  /\ calling' = [calling EXCEPT ![p] = {}]
  /\ IF p = 0 THEN Kills(pids, {}, "USR1") ELSE UNCHANGED <<sent, stray>>
  /\ UNCHANGED <<state, armed, pending, pids, turn, unseen, orderly, budget>>

(***************************************************************************)
(* The cron and the main loop.                                             *)
(***************************************************************************)
\* check_children_status: the parent ends everything when it finds a worker dead
Status(w) ==
  /\ state[0] = "run" /\ calling[0] = {} /\ w \in pids /\ state[w] = "zombie"
  /\ pids' = pids \ {w}
  /\ state' = [state EXCEPT ![0] = "wait", ![w] = "gone"]
  /\ Kills(pids \ {w}, {w}, "TERM")
  /\ UNCHANGED <<armed, pending, calling, turn, unseen, orderly, budget>>
\* check_children_status of a worker
Orphaned(w) ==
  /\ state[w] = "run" /\ calling[w] = {} /\ ~Alive(0)
  /\ Ends(w)
  /\ UNCHANGED <<sent, armed, pending, calling, pids, turn, unseen, orderly, stray, budget>>

\* the main loop and terminate_job_run: a worker ends; the parent does mtfront_on_exit first
Exit(p) ==
  /\ state[p] = "run" /\ calling[p] = {} /\ pending[p] \cap Interrupt # {}
  /\ IF p = 0 THEN state' = [state EXCEPT ![0] = "wait"] ELSE Ends(p)
  /\ IF p = 0 /\ "TERM" \in pending[0] THEN Kills(pids, {}, "TERM") ELSE UNCHANGED <<sent, stray>>
  /\ UNCHANGED <<armed, pending, calling, pids, turn, unseen, orderly, budget>>

\* one turn of check_children_dead: the workers are waited for in their order, up to one that lives;
\* those left after the last turn are killed
Living(S) == {w \in S : state[w] # "zombie"}
Reaped == {w \in pids : \A v \in Living(pids) : w < v}
Leave_Unkilled(S) == UNCHANGED <<sent, stray>>
Leave(S) == Kills(S, Reaped, "KILL")
Dead ==
  LET left == pids \ Reaped
      last == left = {} \/ turn + 1 = Tries
      down == Reaped \cup IF last THEN {0} ELSE {}
  IN
  /\ state[0] = "wait"
  /\ pids' = left /\ turn' = turn + 1 /\ orderly' = last
  /\ IF last THEN Leave(left) ELSE UNCHANGED <<sent, stray>>
  /\ state' = [p \in Proc |-> IF p \in down \/ (last /\ state[p] = "zombie") THEN "gone" ELSE state[p]]
  /\ UNCHANGED <<armed, pending, calling, unseen, budget>>

\* a worker crashes (an assertion, a signal)
Crash(w) ==
  /\ state[w] \in {"boot", "run"} /\ Ends(w)
  /\ UNCHANGED <<sent, armed, pending, calling, pids, turn, unseen, orderly, stray, budget>>

ProcStep(p) == server_init(p) \/ Process(p) \/ Reopen(p) \/ Return(p) \/ Exit(p)
           \/ \E sig \in {"TERM", "INT", "USR1", "KILL"} : Deliver(p, sig)
Parent == Fork \/ Dead \/ \E w \in Worker : Status(w)
Done == (\A p \in Proc : ~Alive(p)) /\ UNCHANGED workersVars
WorkersNext ==
  \/ Parent \/ Done
  \/ \E p \in Proc : ProcStep(p)
  \/ \E w \in Worker : Orphaned(w) \/ Crash(w)
  \/ \E p \in Proc : \E sig \in {"TERM", "INT", "USR1"} : Outside(p, sig)
  \/ Outside(0, "KILL")
WorkersSpec == WorkersInit /\ [][WorkersNext]_workersVars
\* a process that is not stopped runs: its loop, its cron, and the kernel's delivery
WorkersFairSpec ==
  /\ WorkersSpec /\ WF_workersVars(Fork) /\ WF_workersVars(Dead) /\ WF_workersVars(\E w \in Worker : Status(w))
  /\ \A p \in Proc : /\ WF_workersVars(server_init(p)) /\ WF_workersVars(Process(p) \/ Reopen(p) \/ Return(p)) /\ WF_workersVars(Exit(p))
                     /\ WF_workersVars(\E sig \in {"TERM", "INT", "USR1", "KILL"} : Deliver(p, sig))
  /\ \A w \in Worker : WF_workersVars(Orphaned(w))

(***************************************************************************)
(* Properties.                                                             *)
(***************************************************************************)
\* When the parent has ended by exit(), no worker goes on: each is dead or has a SIGKILL on its way.
NoneLeftBehind == orderly => \A w \in Worker : Alive(w) => "KILL" \in sent[w]

\* The parent never sends a signal to the pid of a worker it has waited for: the kernel may have
\* given that pid to another program.
OnlyChildren == ~stray

\* When one process of the family has ended, whichever it was and for whatever reason, all end.
AllOrNone == \A p \in Proc : state[p] \in {"zombie", "gone"} ~> \A q \in Proc : ~Alive(q)

\* After a SIGUSR1 a process reopens its log, also when the signal comes while the handler of an
\* earlier one is about to be called (or the process ends).
LogsReopened == \A p \in Proc : p \in unseen ~> (p \notin unseen \/ ~Alive(p) \/ state[p] = "wait")

\* The parent leaves no worker behind and signals none that it has waited for.
WorkersSafe == NoneLeftBehind /\ OnlyChildren
=============================================================================
