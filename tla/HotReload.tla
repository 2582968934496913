----------------------------- MODULE HotReload -----------------------------
(***************************************************************************)
(* Reloading the configuration while clients are routed: the SIGHUP        *)
(* goroutine (HotReloader, load.go), config.Manager (manager.go) and       *)
(* Router (router.go).  Someone edits the file and sends SIGHUP at any     *)
(* time; the signal channel holds one signal.                              *)
(*                                                                         *)
(* ParseConfig of internal/config/config.go reads the file directive by    *)
(* directive.  A directive is what the parser tells apart in a line: its   *)
(* keyword, the DC id (an integer or not) and the address (well formed,    *)
(* with a port in 1 .. 65535, or not).  Comments, blank lines and unknown  *)
(* keywords are the directive "other".                                     *)
(***************************************************************************)
EXTENDS Integers, Sequences, Functions

CONSTANTS DC,        \* DC ids
          Host,      \* well-formed addr:port strings
          Files,     \* contents the file can have
          MaxEdits,  \* bound: edits of the file
          MaxPicks   \* bound: round-robin choices between two reloads

VARIABLES
  file,     \* the file on disk
  ver,      \* how often it was edited
  sigCh,    \* signals waiting in sigCh (capacity 1)
  stop,     \* stopCh is closed
  rpc,      \* where the reloader is: "select", "publish", "stopped"
  current,  \* Manager.current, with the version it was parsed from
  router,   \* Router.cfg, likewise
  rrIdx,    \* Router.rrIdx
  hits      \* how often each target index was chosen since the last reload

hotVars == <<file, ver, sigCh, stop, rpc, current, router, rrIdx, hits>>
fileVars == <<file, ver>>
rrVars == <<rrIdx, hits>>

(***************************************************************************)
(* ParseConfig, and the two choices Router makes from its result.          *)
(***************************************************************************)
NoConfig == [err |-> TRUE]      \* the nil *Config next to an error

\* The lines a file can hold.
Directive ==
       [kw : {"default"}, dc : DC, ok : BOOLEAN]
  \cup [kw : {"proxy_for"}, dc : DC, host : Host, ok : BOOLEAN]
  \cup [kw : {"other"}]

ASSUME FilesAssumption == Files \subseteq Seq(Directive) /\ MaxEdits \in Nat

\* DC 2 is the default until a "default" line says otherwise.
Empty == [err |-> FALSE, default |-> 2, clusters |-> [d \in {} |-> <<>>]]

\* cl.Targets = append(cl.Targets, ...), creating the cluster if need be.
AddTarget(cfg, d, t) ==
  LET cl == cfg.clusters
  IN  [cfg EXCEPT !.clusters =
         [e \in DOMAIN cl \cup {d} |->
            IF e # d THEN cl[e] ELSE IF d \in DOMAIN cl THEN Append(cl[d], t) ELSE <<t>>]]

\* One line.  A malformed default or proxy_for line makes the whole parse fail.
ParseLine(cfg, l) ==
  IF cfg.err \/ l.kw = "other" THEN cfg
  ELSE IF ~l.ok THEN NoConfig
  ELSE IF l.kw = "default" THEN [cfg EXCEPT !.default = l.dc]
  ELSE AddTarget(cfg, l.dc, l.host)

\* What is known after each line.
ParseLines(f) ==
  LET cfg[n \in 0 .. Len(f)] == IF n = 0 THEN Empty ELSE ParseLine(cfg[n - 1], f[n]) IN cfg

\* The whole file; a file without proxy_for entries is an error too.
ParseConfig(f) ==
  LET cfg == ParseLines(f)[Len(f)]
  IN  IF cfg.err \/ DOMAIN cfg.clusters = {} THEN NoConfig ELSE cfg

\* The cluster used for a DC: its own, else the default one, else none ({}).  A cluster
\* without targets does not count.
ClusterIDs(cfg, d) ==
  LET some == {c \in DOMAIN cfg.clusters : cfg.clusters[c] # <<>>}
  IN  IF d \in some THEN {d} ELSE {cfg.default} \cap some

\* Route: any target of the cluster (rand.Intn).
Route(cfg, d) == UNION {Range(cfg.clusters[c]) : c \in ClusterIDs(cfg, d)}

(***************************************************************************)
(* The reloader.                                                           *)
(***************************************************************************)
Valid(f) == ~ParseConfig(f).err
Loaded(f, v) == [ver |-> v, cfg |-> ParseConfig(f)]

\* rrIdx = make(map[int]int): an absent key reads as 0.
NoPicks(cfg) == [d \in DOMAIN cfg.clusters |-> 0]
NoHits(cfg) == [d \in DOMAIN cfg.clusters |-> [i \in DOMAIN cfg.clusters[d] |-> 0]]

\* The process starts only with a file that parses (Runtime.New).
HotInit ==
  /\ file \in {f \in Files : Valid(f)} /\ ver = 0
  /\ sigCh = 0 /\ stop = FALSE /\ rpc = "select"
  /\ current = Loaded(file, 0) /\ router = current
  /\ rrIdx = NoPicks(router.cfg) /\ hits = NoHits(router.cfg)

Edit(f) ==
  /\ ver < MaxEdits /\ f # file /\ file' = f /\ ver' = ver + 1
  /\ UNCHANGED <<sigCh, stop, rpc, current, router, rrVars>>

\* os/signal drops a signal that finds the channel full.
Sighup ==
  /\ rpc # "stopped" /\ sigCh = 0 /\ sigCh' = 1
  /\ UNCHANGED <<fileVars, stop, rpc, current, router, rrVars>>

\* Stop, from Runtime.Shutdown.
StopReload ==
  /\ ~stop /\ stop' = TRUE
  /\ UNCHANGED <<fileVars, sigCh, rpc, current, router, rrVars>>

Stopped ==
  /\ rpc = "select" /\ stop /\ rpc' = "stopped"
  /\ UNCHANGED <<fileVars, sigCh, stop, current, router, rrVars>>

Reload_Drop ==
  /\ rpc = "select" /\ sigCh = 1 /\ sigCh' = 0
  /\ UNCHANGED <<rpc, current, fileVars, stop, router, rrVars>>

\* The signal is taken and Manager.Reload runs: a file that does not parse leaves
\* the current configuration; one that does replaces it under m.mu.
Reload ==
  /\ rpc = "select" /\ sigCh = 1 /\ sigCh' = 0
  /\ IF Valid(file) THEN rpc' = "publish" /\ current' = Loaded(file, ver)
                    ELSE UNCHANGED <<rpc, current>>
  /\ UNCHANGED <<fileVars, stop, router, rrVars>>

Publish_Forget ==
  /\ rpc = "publish" /\ rpc' = "select"
  /\ UNCHANGED <<fileVars, sigCh, stop, current, router, rrVars>>

\* Manager.Get, then Router.Reload under r.mu.
Publish ==
  /\ rpc = "publish" /\ rpc' = "select" /\ router' = current
  /\ rrIdx' = NoPicks(current.cfg) /\ hits' = NoHits(current.cfg)
  /\ UNCHANGED <<fileVars, sigCh, stop, current>>

Picks(d) == FoldFunction(+, 0, hits[d])

RouteRoundRobin_NoWrap(d) ==
  /\ \E c \in ClusterIDs(router.cfg, d) :
       LET n   == Len(router.cfg.clusters[c])
           idx == IF rrIdx[c] < n THEN rrIdx[c] ELSE n - 1
       IN  /\ Picks(c) < MaxPicks
           /\ rrIdx' = [rrIdx EXCEPT ![c] = idx + 1]
           /\ hits' = [hits EXCEPT ![c][idx + 1] = @ + 1]
  /\ UNCHANGED <<fileVars, sigCh, stop, rpc, current, router>>

\* RouteRoundRobin, under r.mu.  (Route reads the map and changes nothing.)
RouteRoundRobin(d) ==
  /\ \E c \in ClusterIDs(router.cfg, d) :
       LET idx == rrIdx[c] % Len(router.cfg.clusters[c])
       IN  /\ Picks(c) < MaxPicks
           /\ rrIdx' = [rrIdx EXCEPT ![c] = idx + 1]
           /\ hits' = [hits EXCEPT ![c][idx + 1] = @ + 1]
  /\ UNCHANGED <<fileVars, sigCh, stop, rpc, current, router>>

HotNext ==
  \/ \E f \in Files : Edit(f)
  \/ Sighup \/ StopReload \/ Stopped \/ Reload \/ Publish
  \/ \E d \in DC : RouteRoundRobin(d)

HotSpec == HotInit /\ [][HotNext]_hotVars

\* The reloader's goroutine runs.
HotFairness == WF_hotVars(Reload \/ Stopped) /\ WF_hotVars(Publish)
HotFairSpec == HotSpec /\ HotFairness

(***************************************************************************)
(* Properties.                                                             *)
(***************************************************************************)
\* Type invariant of the file, the reloader, the manager and the router.
HotTypeOK ==
  /\ file \in Files /\ ver \in 0 .. MaxEdits /\ sigCh \in {0, 1}
  /\ stop \in BOOLEAN /\ rpc \in {"select", "publish", "stopped"}
  /\ current.ver \in 0 .. ver /\ router.ver \in 0 .. ver
  /\ DOMAIN rrIdx = DOMAIN router.cfg.clusters

\* "If parsing fails, the current config remains unchanged": whatever is on disk,
\* the manager and the router hold a configuration that parsed.
AlwaysRoutable ==
  /\ ~current.cfg.err /\ ~router.cfg.err
  /\ \E d \in DOMAIN router.cfg.clusters : Route(router.cfg, d) # {}

\* The router never goes back to an older configuration, and lags behind the
\* manager only while the reloader is between the two.
NeverOlder ==
  [][/\ router'.ver >= router.ver /\ current'.ver >= current.ver
     /\ (rpc' # "publish" => router' = current')]_hotVars

\* Signals that find the channel full may be dropped, edits may not be: a valid
\* file that was signalled is in use before long, unless the file has changed
\* since or the reloader was stopped.
SignalledIsServed ==
  \A v \in 0 .. MaxEdits :
    (sigCh = 1 /\ ver = v /\ Valid(file)) ~> (router.ver >= v \/ ver # v \/ stop)

\* Round robin is even: between two reloads no target of a cluster is chosen
\* twice more often than another, whichever DCs fall back on the cluster.
RoundRobinEven ==
  \A d \in DOMAIN hits : \A i, j \in DOMAIN hits[d] : hits[d][i] <= hits[d][j] + 1

\* What a file says of a DC, read off its lines: the hosts of its own lines or,
\* if it has none, those of the last default (DC 2 if there is none).
Lines(f, d) == {f[i].host : i \in {j \in DOMAIN f : f[j].kw = "proxy_for" /\ f[j].dc = d}}
Default(f) ==
  LET ds == {i \in DOMAIN f : f[i].kw = "default"}
  IN  IF ds = {} THEN 2 ELSE f[CHOOSE i \in ds : \A j \in ds : j <= i].dc

\* ParseConfig and Route together send a DC's packets exactly where the file on
\* disk says, once it has been loaded.
RoutesAsWritten ==
  router.ver = ver =>
    \A d \in DC : Route(router.cfg, d) =
                  IF Lines(file, d) # {} THEN Lines(file, d) ELSE Lines(file, Default(file))

\* Whatever is on disk and whenever it is reloaded, the router has somewhere to send a
\* packet, sends it where the file it was loaded from says, and RouteRoundRobin spreads
\* its choices evenly.
RoutesSound == AlwaysRoutable /\ RoutesAsWritten /\ RoundRobinEven
=============================================================================
