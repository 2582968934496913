---------------------------- MODULE NativeConfig ----------------------------
(***************************************************************************)
(* The configuration of the C proxy (mtproto/mtproto-config.c).  The file  *)
(* is parsed three times: do_reload_config(0x26) reads it and checks the   *)
(* syntax, and do_reload_config(0x17) parses the same text again, once     *)
(* without and once with the creation of targets, before it replaces the   *)
(* current configuration.  A host that resolved once need not do so again. *)
(* A directive is a record; the file is chosen as it is first read.        *)
(***************************************************************************)
EXTENDS Integers, Sequences, FiniteSets

CONSTANTS MaxFile, Dc, Limit, MAX_CFG_CLUSTERS, MAX_CFG_TARGETS,
          default_cfg_min_connections, default_cfg_max_connections

VARIABLES
  file,     \* the directives read so far
  pc,       \* the directive that is parsed next
  pass,     \* 1 (check), 2, 3 (creates targets), then 4 (in use) or 5 (the process ended)
  MC,       \* NextConf
  Cur,      \* CurConf
  failed,   \* the pass that failed, or 0
  why       \* its error
vars == <<file, pc, pass, MC, Cur, failed, why>>

Directive ==
  [op : {"proxy"}, dc : Dc] \cup [op : {"default"}, dc : Dc]
  \cup [op : {"min", "max"}, n : Limit] \cup [op : {"other"}]

\* preinit_config; the clusters and targets of the previous parse stay in the arrays, unused
preinit_config(old) ==
  [targets |-> <<>>, clusters |-> <<>>, min |-> default_cfg_min_connections,
   max |-> default_cfg_max_connections, default |-> 0, def |-> {}]

Init ==
  /\ file = <<>> /\ pc = 1 /\ pass = 1 /\ failed = 0 /\ why = "none"
  /\ MC = preinit_config([min |-> 0, max |-> 0]) /\ Cur = {}

(***************************************************************************)
(* parse_config.                                                           *)
(***************************************************************************)
mf_cluster_lookup_Last(mc, id) == {i \in DOMAIN mc.clusters : i = Len(mc.clusters) /\ mc.clusters[i].id = id}
mf_cluster_lookup(mc, id) ==
  {i \in DOMAIN mc.clusters : mc.clusters[i].id = id /\ \A j \in 1 .. i - 1 : mc.clusters[j].id # id}
Error(e) == why' = e /\ failed' = pass /\ pass' = 5 /\ UNCHANGED <<MC, pc>>
Accept(mc) == MC' = mc /\ pc' = pc + 1 /\ UNCHANGED <<pass, failed, why>>

\* init_old_mf_cluster and extend_old_mf_cluster: in the last pass a cluster has the place of its
\* first target and their number, before that only its id
New(mc, dc) ==
  [mc EXCEPT !.clusters = Append(@, [id |-> dc, first |-> IF pass = 3 THEN Len(mc.targets) ELSE 0,
                                     num |-> IF pass = 3 THEN 1 ELSE 0])]
Fits(c, mc, dc) == c.first + c.num = Len(mc.targets) /\ c.id = dc
Extended(mc, i) == [mc EXCEPT !.clusters[i].num = IF pass = 3 THEN @ + 1 ELSE @]
Mixed(i, mc) == i # Len(mc.clusters)
Proxy(dc) ==
  LET mc == [MC EXCEPT !.targets = Append(@, [dc |-> dc, min |-> MC.min, max |-> MC.max])]
      found == mf_cluster_lookup(mc, dc)
  IN
  CASE Len(MC.clusters) >= MAX_CFG_CLUSTERS \/ Len(MC.targets) >= MAX_CFG_TARGETS -> Error("too many")
    [] OTHER ->
         IF found = {} THEN Accept(New(mc, dc))
         ELSE LET i == CHOOSE i \in found : TRUE IN
              CASE Mixed(i, mc) -> Error("intermixed")
                [] ~Mixed(i, mc) /\ pass = 3 /\ ~Fits(mc.clusters[i], mc, dc) -> Error("IMPOSSIBLE")
                [] OTHER -> Accept(Extended(mc, i))

Parse(d) ==
  CASE d.op = "proxy"   -> Proxy(d.dc)
    [] d.op = "default" -> Accept([MC EXCEPT !.default = d.dc])
    [] d.op = "max"     -> IF d.n < MC.min \/ d.n > 1000 THEN Error("max") ELSE Accept([MC EXCEPT !.max = d.n])
    [] d.op = "min"     -> IF d.n < 1 \/ d.n > MC.max THEN Error("min") ELSE Accept([MC EXCEPT !.min = d.n])
    [] OTHER            -> Error("syntax")

\* the first pass reads the file; the others parse what it read
Read(d) ==
  /\ pass = 1 /\ pc <= MaxFile
  /\ file' = Append(file, d) /\ Parse(d)
  /\ UNCHANGED Cur
Again ==
  /\ pass \in {2, 3} /\ pc <= Len(file)
  /\ Parse(file[pc])
  /\ UNCHANGED <<file, Cur>>
\* cfg_gethost fails
NoHost ==
  /\ IF pass = 1 THEN pc <= MaxFile ELSE pass \in {2, 3} /\ pc <= Len(file) /\ file[pc].op = "proxy"
  /\ Error("host")
  /\ UNCHANGED <<file, Cur>>

\* the end of the text: the default cluster is looked up, and the next pass begins or, after the
\* last, the configurations are exchanged (do_reload_config)
End ==
  LET done == [MC EXCEPT !.def = mf_cluster_lookup(MC, MC.default)] IN
  /\ pass \in 1 .. 3 /\ (pass = 1 \/ pc = Len(file) + 1)
  /\ IF MC.clusters = <<>> THEN Error("no proxy") /\ UNCHANGED Cur
     ELSE /\ pass' = pass + 1
          /\ Cur' = IF pass = 3 THEN {done} ELSE Cur
          /\ MC' = IF pass = 3 THEN done ELSE preinit_config(MC)
          /\ pc' = 1 /\ UNCHANGED <<failed, why>>
  /\ UNCHANGED file

Next == (\E d \in Directive : Read(d)) \/ Again \/ NoHost \/ End
Spec == Init /\ [][Next]_vars

(***************************************************************************)
(* choose_proxy_target: the targets a query for a data centre may go to,   *)
(* by their place.                                                         *)
(***************************************************************************)
choose_proxy_target(conf, dc) ==
  LET own == mf_cluster_lookup(conf, dc)
      C == IF own # {} THEN own ELSE conf.def
  IN  UNION {{conf.clusters[i].first + k : k \in 0 .. conf.clusters[i].num - 1} : i \in C}

(***************************************************************************)
(* Properties.                                                             *)
(***************************************************************************)
\* With a configuration in use, the queries for a data centre go to exactly the targets its proxy_for
\* lines name, and to those of the default data centre when there are none.
RoutesExact ==
  \A conf \in Cur : \A dc \in Dc :
     LET named(d) == {i \in DOMAIN conf.targets : conf.targets[i].dc = d}
     IN  choose_proxy_target(conf, dc) = IF named(dc) # {} THEN named(dc) ELSE named(conf.default)

\* The branch the code calls IMPOSSIBLE is: targets of one data centre are next to each other.
NeverImpossible == why # "IMPOSSIBLE"

\* A file that passed the check is accepted again: a later pass, whose failure ends the process,
\* fails only because a host no longer resolves.
CheckedIsAccepted == failed \in {2, 3} => why = "host"

\* A file that is accepted is followed, and the check of a file predicts its use.
ClustersExact == RoutesExact /\ NeverImpossible /\ CheckedIsAccepted
=============================================================================
