-------------------------- MODULE HotReloadProofs --------------------------
(***************************************************************************)
(* Proofs about reloading the configuration, for files of any length, any  *)
(* DCs and hosts and any number of edits and choices: ParseConfig reads    *)
(* what is written, the router has somewhere to send packets and spreads   *)
(* them evenly, and it never goes back to an older file.                   *)
(*                                                                         *)
(* ParseLines is defined line by line, so what it computes is proved by    *)
(* induction.  The induction is the well-foundedness of < on Nat applied   *)
(* to a set: the lines for which the claim fails have a least one.         *)
(***************************************************************************)
EXTENDS HotReload, SequenceTheorems, WellFoundedInduction, TLAPS

\* A set of lines that is not empty has a first one.
LEMMA Least == ASSUME NEW T, T \subseteq Nat, T # {} PROVE \E n \in T : \A m \in T : n <= m
<1>1. PICK x \in T : \A y \in T : ~(<<y, x>> \in OpToRel(<, Nat))
  BY NatLessThanWellFounded, WFMin, Zenon
<1>2. \A y \in T : ~(y < x)
  BY <1>1, Zenon DEF OpToRel
<1> QED BY <1>2

\* Induction over the lines of a file: what holds before the first line, and after a line if
\* it held before it, holds after each of them.
LEMMA UpTo ==
  ASSUME NEW last \in Nat, NEW S, 0 \in S, \A n \in 1 .. last : n - 1 \in S => n \in S
  PROVE  0 .. last \subseteq S
<1> SUFFICES ASSUME (0 .. last) \ S # {} PROVE FALSE
  OBVIOUS
<1> DEFINE T == (0 .. last) \ S
<1>0. T \subseteq Nat /\ T # {}
  OBVIOUS
<1> HIDE DEF T
<1>1. PICK n \in T : \A m \in T : n <= m
  BY <1>0, Least, Zenon
<1> USE DEF T
<1>2. n \in 1 .. last /\ n - 1 \in 0 .. last /\ ~(n <= n - 1)
  BY <1>1
<1> QED BY <1>1, <1>2

\* ParseLines is what its equation says: nothing is known before the first line, and each line
\* is added by ParseLine.  The values up to line n exist for every n, by induction.
LEMMA LinesDefined ==
  ASSUME NEW f \in Seq(Directive)
  PROVE  /\ ParseLines(f)[0] = Empty
         /\ \A n \in 1 .. Len(f) : ParseLines(f)[n] = ParseLine(ParseLines(f)[n - 1], f[n])
<1> DEFINE E(n) == \E g : g = [m \in 0 .. n |-> IF m = 0 THEN Empty ELSE ParseLine(g[m - 1], f[m])]
           S == {n \in 0 .. Len(f) : E(n)}
<1>0. Len(f) \in Nat
  OBVIOUS
<1>1. 0 \in S
  <2>1. [m \in 0 .. 0 |-> Empty] = [m \in 0 .. 0 |-> IF m = 0 THEN Empty ELSE ParseLine([k \in 0 .. 0 |-> Empty][m - 1], f[m])]
    OBVIOUS
  <2>2. E(0)
    BY <2>1, Zenon
  <2> QED BY <1>0, <2>2
<1>2. ASSUME NEW n \in 1 .. Len(f), n - 1 \in S PROVE n \in S
  <2>1. PICK g : g = [m \in 0 .. n - 1 |-> IF m = 0 THEN Empty ELSE ParseLine(g[m - 1], f[m])]
    BY <1>2
  <2> DEFINE k == [m \in 0 .. n |-> IF m = n THEN ParseLine(g[n - 1], f[n]) ELSE g[m]]
  <2>2. \A m \in 0 .. n - 1 : k[m] = g[m]
    OBVIOUS
  <2>3. ASSUME NEW m \in 0 .. n PROVE k[m] = IF m = 0 THEN Empty ELSE ParseLine(k[m - 1], f[m])
    <3>1. CASE m = n
      BY <2>2, <3>1
    <3>2. CASE m # n
      <4>1. m \in 0 .. n - 1 /\ k[m] = g[m] /\ (m # 0 => k[m - 1] = g[m - 1])
        BY <2>2, <3>2
      <4> HIDE DEF k
      <4>2. g[m] = IF m = 0 THEN Empty ELSE ParseLine(g[m - 1], f[m])
        BY <2>1, <4>1
      <4> QED BY <4>1, <4>2
    <3> QED BY <3>1, <3>2
  <2>4. k = [m \in 0 .. n |-> IF m = 0 THEN Empty ELSE ParseLine(k[m - 1], f[m])]
    BY <2>3
  <2>5. E(n)
    <3> HIDE DEF k
    <3> QED BY <2>4
  <2> QED BY <2>5, <1>0
<1> HIDE DEF S
<1>3. 0 .. Len(f) \subseteq S
  BY <1>0, <1>1, <1>2, UpTo, Zenon
<1>4. E(Len(f))
  BY <1>0, <1>3 DEF S
<1>5. ParseLines(f) = [n \in 0 .. Len(f) |-> IF n = 0 THEN Empty ELSE ParseLine(ParseLines(f)[n - 1], f[n])]
  BY <1>4, Zenon DEF ParseLines
<1> QED BY <1>0, <1>5

(***************************************************************************)
(* What the first n lines of a file say.  Good relates it to what          *)
(* ParseConfig has collected by then, unless it has failed.                *)
(***************************************************************************)
For(f, n) == {i \in 1 .. n : f[i].kw = "proxy_for"}
ForDC(f, n, d) == {i \in 1 .. n : f[i].kw = "proxy_for" /\ f[i].dc = d}
LastDefault(f, n, d) ==
  \/ d = 2 /\ \A i \in 1 .. n : f[i].kw # "default"
  \/ \E i \in 1 .. n : /\ f[i].kw = "default" /\ d = f[i].dc
                       /\ \A j \in i + 1 .. n : f[j].kw # "default"
Clusters(f, n, cl) ==
  /\ cl = [d \in DOMAIN cl |-> cl[d]]
  /\ DOMAIN cl = {f[i].dc : i \in For(f, n)}
  /\ \A d \in DOMAIN cl :
       cl[d] \in Seq(Host) \ {<<>>} /\ Range(cl[d]) = {f[i].host : i \in ForDC(f, n, d)}
Good(f, n, cfg) ==
  \/ cfg = NoConfig
  \/ \E def, cl : /\ cfg = [err |-> FALSE, default |-> def, clusters |-> cl]
                  /\ LastDefault(f, n, def) /\ Clusters(f, n, cl)

\* append(cl.Targets, t) adds t to the targets, and leaves a cluster with targets.
LEMMA AppendFacts ==
  ASSUME NEW s \in Seq(Host), NEW t \in Host
  PROVE  Append(s, t) \in Seq(Host) /\ Append(s, t) # <<>> /\ Range(Append(s, t)) = Range(s) \cup {t}
<1>1. Len(Append(s, t)) = Len(s) + 1 /\ \A i \in 1 .. Len(s) : Append(s, t)[i] = s[i]
  OBVIOUS
<1>2. Append(s, t)[Len(s) + 1] = t
  OBVIOUS
<1>3. DOMAIN Append(s, t) = 1 .. Len(s) + 1 /\ DOMAIN s = 1 .. Len(s) /\ Len(s) \in Nat
  OBVIOUS
<1>4. Range(Append(s, t)) = Range(s) \cup {t}
  BY <1>1, <1>2, <1>3 DEF Range
<1>5. Append(s, t) \in Seq(Host) /\ Append(s, t) # <<>>
  BY AppendProperties
<1> QED BY <1>4, <1>5

\* One line more is read as it is written, whatever its keyword.
LEMMA LineGood ==
  ASSUME NEW f \in Seq(Directive), NEW n \in 1 .. Len(f), NEW cfg, Good(f, n - 1, cfg)
  PROVE  Good(f, n, ParseLine(cfg, f[n]))
<1> DEFINE l == f[n]
<1>0. Len(f) \in Nat /\ l \in Directive
  OBVIOUS
<1>a. 1 .. n = (1 .. n - 1) \cup {n} /\ n \in Nat
  BY <1>0
<1>1. CASE cfg = NoConfig
  BY <1>1 DEF Good, ParseLine, NoConfig
<1>2. CASE cfg # NoConfig
  <2>1. PICK def, cl : /\ cfg = [err |-> FALSE, default |-> def, clusters |-> cl]
                       /\ LastDefault(f, n - 1, def) /\ Clusters(f, n - 1, cl)
    BY <1>2 DEF Good
  <2>2. CASE l.kw = "other"
    <3>1. ParseLine(cfg, l) = cfg
      BY <2>2 DEF ParseLine
    <3>2. LastDefault(f, n, def)
      BY <1>0, <1>a, <2>1, <2>2 DEF LastDefault
    <3>3. For(f, n) = For(f, n - 1) /\ \A d : ForDC(f, n, d) = ForDC(f, n - 1, d)
      BY <1>a, <2>2 DEF For, ForDC
    <3>4. Clusters(f, n, cl)
      BY <2>1, <3>3, Zenon DEF Clusters
    <3> QED BY <2>1, <3>1, <3>2, <3>4, Zenon DEF Good
  <2>3. CASE l.kw # "other" /\ ~l.ok
    BY <2>1, <2>3 DEF ParseLine, Good
  <2>4. CASE l.kw = "default" /\ l.ok
    <3>1. ParseLine(cfg, l) = [err |-> FALSE, default |-> l.dc, clusters |-> cl]
      BY <2>1, <2>4, Zenon DEF ParseLine
    <3>2. LastDefault(f, n, l.dc)
      BY <1>0, <1>a, <2>4 DEF LastDefault
    <3>3. For(f, n) = For(f, n - 1) /\ \A d : ForDC(f, n, d) = ForDC(f, n - 1, d)
      BY <1>a, <2>4 DEF For, ForDC
    <3>4. Clusters(f, n, cl)
      BY <2>1, <3>3, Zenon DEF Clusters
    <3> QED BY <2>1, <3>1, <3>2, <3>4, Zenon DEF Good
  <2>5. CASE l.kw = "proxy_for" /\ l.ok
    <3> DEFINE add == [e \in DOMAIN cl \cup {l.dc} |->
                         IF e # l.dc THEN cl[e]
                         ELSE IF l.dc \in DOMAIN cl THEN Append(cl[l.dc], l.host) ELSE <<l.host>>]
    <3>0. l.host \in Host
      BY <1>0, <2>5 DEF Directive
    <3>1. ParseLine(cfg, l) = [err |-> FALSE, default |-> def, clusters |-> add]
      BY <2>1, <2>5, Zenon DEF ParseLine, AddTarget
    <3>2. LastDefault(f, n, def)
      BY <1>0, <1>a, <2>1, <2>5 DEF LastDefault
    <3>3. /\ For(f, n) = For(f, n - 1) \cup {n}
          /\ \A d : ForDC(f, n, d) = ForDC(f, n - 1, d) \cup (IF d = l.dc THEN {n} ELSE {})
      BY <1>a, <2>5 DEF For, ForDC
    <3>4. DOMAIN add = {f[i].dc : i \in For(f, n)}
      BY <2>1, <3>3 DEF Clusters
    <3>5. ASSUME NEW d \in DOMAIN add
          PROVE  /\ add[d] \in Seq(Host) \ {<<>>}
                 /\ Range(add[d]) = {f[i].host : i \in ForDC(f, n, d)}
      <4>1. CASE d # l.dc
        BY <2>1, <3>3, <4>1, Zenon DEF Clusters
      <4>2. CASE d = l.dc /\ d \in DOMAIN cl
        <5>1. cl[d] \in Seq(Host) /\ Range(cl[d]) = {f[i].host : i \in ForDC(f, n - 1, d)}
          BY <2>1, <4>2, Zenon DEF Clusters
        <5>2. add[d] = Append(cl[d], l.host)
          BY <4>2
        <5>3. add[d] \in Seq(Host) /\ add[d] # <<>>
          BY <3>0, <5>1, <5>2, AppendFacts, Zenon
        <5>4. Range(add[d]) = Range(cl[d]) \cup {l.host}
          BY <3>0, <5>1, <5>2, AppendFacts, Zenon
        <5> QED BY <3>3, <4>2, <5>1, <5>3, <5>4
      <4>3. CASE d = l.dc /\ d \notin DOMAIN cl
        <5>1. add[d] = <<l.host>> /\ ForDC(f, n - 1, d) = {}
          BY <2>1, <4>3 DEF Clusters, For, ForDC
        <5>2. add[d] \in Seq(Host) \ {<<>>} /\ Range(add[d]) = {l.host}
          <6>1. <<l.host>> \in Seq(Host) /\ <<l.host>> # <<>>
            BY <3>0
          <6>2. DOMAIN <<l.host>> = {1} /\ <<l.host>>[1] = l.host
            OBVIOUS
          <6>3. Range(<<l.host>>) = {l.host}
            BY <6>2 DEF Range
          <6> QED BY <5>1, <6>1, <6>3, Zenon
        <5> QED BY <3>3, <4>3, <5>1, <5>2
      <4> QED BY <4>1, <4>2, <4>3, Zenon
    <3>6. Clusters(f, n, add)
      BY <3>4, <3>5, Zenon DEF Clusters
    <3> QED BY <3>1, <3>2, <3>6, Zenon DEF Good
  <2> QED BY <1>0, <2>2, <2>3, <2>4, <2>5 DEF Directive
<1> QED BY <1>1, <1>2

\* So is the whole file.
LEMMA LinesGood ==
  ASSUME NEW f \in Seq(Directive)
  PROVE  Good(f, Len(f), ParseLines(f)[Len(f)])
<1> DEFINE S == {n \in 0 .. Len(f) : Good(f, n, ParseLines(f)[n])}
<1>0. Len(f) \in Nat
  OBVIOUS
<1>1. Good(f, 0, Empty)
  <2> DEFINE cl == [d \in {} |-> <<>>]
  <2>1. LastDefault(f, 0, 2)
    BY DEF LastDefault
  <2>2. For(f, 0) = {}
    BY DEF For
  <2>3. Clusters(f, 0, cl)
    BY <2>2 DEF Clusters
  <2>4. Empty = [err |-> FALSE, default |-> 2, clusters |-> cl]
    BY DEF Empty
  <2> HIDE DEF cl
  <2> QED BY <2>1, <2>3, <2>4, Zenon DEF Good
<1>2. 0 \in S
  BY <1>0, <1>1, LinesDefined
<1>3. ASSUME NEW n \in 1 .. Len(f), n - 1 \in S PROVE n \in S
  <2>1. Good(f, n - 1, ParseLines(f)[n - 1])
    BY <1>3
  <2>2. ParseLines(f)[n] = ParseLine(ParseLines(f)[n - 1], f[n])
    BY LinesDefined
  <2>3. Good(f, n, ParseLines(f)[n])
    BY <2>1, <2>2, LineGood
  <2> QED BY <1>0, <2>3
<1> HIDE DEF S
<1>4. 0 .. Len(f) \subseteq S
  BY <1>0, <1>2, <1>3, UpTo, Zenon
<1> QED BY <1>0, <1>4 DEF S

\* The reference reading of a file: where its lines send a DC's packets.
Says(f, d) == IF Lines(f, d) # {} THEN Lines(f, d) ELSE Lines(f, Default(f))

\* The last "default" line is the one that counts, DC 2 if there is none.
LEMMA DefaultRead ==
  ASSUME NEW f \in Seq(Directive), NEW def, LastDefault(f, Len(f), def)
  PROVE  def = Default(f)
<1> DEFINE ds == {i \in DOMAIN f : f[i].kw = "default"}
<1>0. DOMAIN f = 1 .. Len(f) /\ Len(f) \in Nat
  OBVIOUS
<1>1. CASE ds = {}
  BY <1>0, <1>1 DEF LastDefault, Default
<1>2. CASE ds # {}
  <2>1. PICK i \in ds : def = f[i].dc /\ \A j \in i + 1 .. Len(f) : f[j].kw # "default"
    BY <1>0, <1>2 DEF LastDefault
  <2>2. \A j \in ds : j <= i
    BY <1>0, <2>1
  <2>3. \A k \in ds : (\A j \in ds : j <= k) => k = i
    BY <1>0, <2>1, <2>2
  <2>4. (CHOOSE k \in ds : \A j \in ds : j <= k) = i
    BY <2>1, <2>2, <2>3
  <2>5. Default(f) = f[CHOOSE k \in ds : \A j \in ds : j <= k].dc
    BY <1>2, Zenon DEF Default
  <2> HIDE DEF ds
  <2> QED BY <2>1, <2>4, <2>5, Zenon
<1> QED BY <1>1, <1>2

\* A file that ParseConfig accepts has targets in every cluster it names, and Route sends
\* the packets of every DC where its lines say.
LEMMA ParsedRoutes ==
  ASSUME NEW f \in Seq(Directive), Valid(f)
  PROVE  /\ ParseConfig(f).err = FALSE
         /\ DOMAIN ParseConfig(f).clusters # {}
         /\ \A d \in DOMAIN ParseConfig(f).clusters :
              /\ ParseConfig(f).clusters[d] \in Seq(Host) \ {<<>>}
              /\ Route(ParseConfig(f), d) # {}
         /\ \A d : Route(ParseConfig(f), d) = Says(f, d)
<1> DEFINE cfg == ParseConfig(f)
<1>0. DOMAIN f = 1 .. Len(f) /\ Len(f) \in Nat
  OBVIOUS
<1>1. ~cfg.err /\ cfg # NoConfig
  BY DEF Valid, NoConfig
<1>2. cfg = ParseLines(f)[Len(f)] /\ DOMAIN cfg.clusters # {}
  BY <1>1 DEF ParseConfig
<1>3. PICK def, cl : /\ cfg = [err |-> FALSE, default |-> def, clusters |-> cl]
                     /\ LastDefault(f, Len(f), def) /\ Clusters(f, Len(f), cl)
  BY <1>1, <1>2, LinesGood DEF Good
<1> HIDE DEF cfg
<1>4. cfg.clusters = cl /\ cfg.default = Default(f)
  BY <1>3, DefaultRead
<1>5. \A d : Lines(f, d) = {f[i].host : i \in ForDC(f, Len(f), d)}
  BY <1>0 DEF Lines, ForDC
<1>6. \A d \in DOMAIN cl : cl[d] \in Seq(Host) \ {<<>>} /\ Range(cl[d]) = Lines(f, d)
  BY <1>3, <1>5, Zenon DEF Clusters
<1>7. ASSUME NEW d \in DOMAIN cl PROVE Lines(f, d) # {}
  <2>1. PICK i \in For(f, Len(f)) : d = f[i].dc
    BY <1>3 DEF Clusters
  <2>2. i \in ForDC(f, Len(f), d)
    BY <2>1 DEF For, ForDC
  <2>3. f[i].host \in {f[j].host : j \in ForDC(f, Len(f), d)}
    BY <2>2
  <2> QED BY <1>5, <2>3, Zenon
<1>8. ASSUME NEW d, d \notin DOMAIN cl PROVE Lines(f, d) = {}
  <2>1. ForDC(f, Len(f), d) = {}
    BY <1>3, <1>8 DEF Clusters, For, ForDC
  <2> QED BY <1>5, <2>1
<1>9. \A d : ClusterIDs(cfg, d) = IF d \in DOMAIN cl THEN {d} ELSE {Default(f)} \cap DOMAIN cl
  <2>1. {c \in DOMAIN cl : cl[c] # <<>>} = DOMAIN cl
    BY <1>6, Zenon
  <2> QED BY <1>4, <2>1, Zenon DEF ClusterIDs
<1>10. ASSUME NEW d PROVE Route(cfg, d) = Says(f, d)
  <2>1. CASE d \in DOMAIN cl
    <3>1. ClusterIDs(cfg, d) = {d}
      BY <1>9, <2>1
    <3>2. Route(cfg, d) = Range(cl[d])
      BY <1>4, <3>1 DEF Route
    <3> QED BY <1>6, <1>7, <2>1, <3>2 DEF Says
  <2>2. CASE d \notin DOMAIN cl /\ Default(f) \in DOMAIN cl
    <3>1. ClusterIDs(cfg, d) = {Default(f)}
      BY <1>9, <2>2
    <3>2. Route(cfg, d) = Range(cl[Default(f)])
      BY <1>4, <3>1 DEF Route
    <3> QED BY <1>6, <1>8, <2>2, <3>2 DEF Says
  <2>3. CASE d \notin DOMAIN cl /\ Default(f) \notin DOMAIN cl
    <3>1. ClusterIDs(cfg, d) = {}
      BY <1>9, <2>3
    <3>2. Route(cfg, d) = {}
      BY <3>1 DEF Route
    <3> QED BY <1>8, <2>3, <3>2 DEF Says
  <2> QED BY <2>1, <2>2, <2>3
<1>11. \A d \in DOMAIN cl : Route(cfg, d) # {}
  BY <1>7, <1>10 DEF Says
<1>12. cfg.err = FALSE /\ DOMAIN cfg.clusters # {}
  BY <1>2, <1>3
<1> QED BY <1>4, <1>6, <1>10, <1>11, <1>12 DEF cfg

(***************************************************************************)
(* The reloader.  Manager and router hold files that parsed, the newest    *)
(* one if nothing was edited since, and the router is at most one step     *)
(* behind.                                                                 *)
(***************************************************************************)
FromFile(v) == \E f \in Files : Valid(f) /\ v.cfg = ParseConfig(f)
Fresh(v) == v.ver = ver => v.cfg = ParseConfig(file)
\* With the index at r, the first r targets are one choice ahead of the others.
Rotating(r, h, n) ==
  /\ r \in 0 .. n /\ h \in [1 .. n -> Nat]
  /\ \A i, j \in 1 .. n : h[i] = h[j] + (IF i <= r /\ r < j THEN 1 ELSE IF j <= r /\ r < i THEN -1 ELSE 0)

HotInv ==
  /\ file \in Files /\ ver \in Nat /\ current.ver \in Nat /\ router.ver \in Nat
  /\ current.ver <= ver /\ router.ver <= current.ver
  /\ FromFile(current) /\ Fresh(current)
  /\ FromFile(router) /\ Fresh(router)
  /\ rpc # "publish" => router = current

RotInv ==
  /\ rrIdx = [d \in DOMAIN router.cfg.clusters |-> rrIdx[d]]
  /\ hits = [d \in DOMAIN router.cfg.clusters |-> hits[d]]
  /\ \A d \in DOMAIN router.cfg.clusters :
       Rotating(rrIdx[d], hits[d], Len(router.cfg.clusters[d]))

\* Every step keeps this, and none goes back to an older configuration.
LEMMA HotStep ==
  ASSUME HotInv, [HotNext]_hotVars
  PROVE  /\ HotInv'
         /\ router'.ver >= router.ver /\ current'.ver >= current.ver
         /\ rpc' # "publish" => router' = current'
<1>1. ASSUME NEW f \in Files, Edit(f) PROVE HotInv' /\ UNCHANGED <<rpc, current, router>>
  <2>1. file' = f /\ ver' = ver + 1 /\ rpc' = rpc /\ current' = current /\ router' = router
    BY <1>1 DEF Edit
  <2>2. FromFile(current)' /\ FromFile(router)'
    BY <2>1 DEF HotInv, FromFile
  <2>3. Fresh(current)' /\ Fresh(router)'
    BY <2>1 DEF HotInv, Fresh
  <2> QED BY <2>1, <2>2, <2>3 DEF HotInv
<1>2. ASSUME UNCHANGED <<file, ver, current, router>>, rpc' # "publish" => rpc # "publish"
      PROVE  HotInv'
  BY <1>2 DEF HotInv, FromFile, Fresh
<1>3. CASE Reload
  <2>1. CASE Valid(file)
    <3>1. current' = Loaded(file, ver) /\ rpc' = "publish" /\ UNCHANGED <<file, ver, router>>
      BY <1>3, <2>1 DEF Reload, fileVars
    <3>2. current'.ver = ver /\ current'.cfg = ParseConfig(file)
      BY <3>1 DEF Loaded
    <3>3. FromFile(current)' /\ Fresh(current)'
      BY <2>1, <3>1, <3>2 DEF HotInv, FromFile, Fresh
    <3>4. FromFile(router)' /\ Fresh(router)'
      BY <3>1 DEF HotInv, FromFile, Fresh
    <3> QED BY <3>1, <3>2, <3>3, <3>4 DEF HotInv
  <2>2. CASE ~Valid(file)
    BY <1>2, <1>3, <2>2 DEF Reload, fileVars, HotInv
  <2> QED BY <2>1, <2>2
<1>4. CASE Publish
  <2>1. router' = current /\ rpc' = "select" /\ UNCHANGED <<file, ver, current>>
    BY <1>4 DEF Publish, fileVars
  <2>2. FromFile(router)' /\ Fresh(router)' /\ FromFile(current)' /\ Fresh(current)'
    BY <2>1 DEF HotInv, FromFile, Fresh
  <2> QED BY <2>1, <2>2 DEF HotInv
<1>5. CASE Sighup \/ StopReload \/ Stopped \/ (\E d \in DC : RouteRoundRobin(d)) \/ UNCHANGED hotVars
  <2>1. UNCHANGED <<file, ver, current, router>> /\ (rpc' # "publish" => rpc # "publish")
    BY <1>5 DEF Sighup, StopReload, Stopped, RouteRoundRobin, hotVars, fileVars
  <2> QED BY <1>2, <2>1 DEF HotInv
<1> QED BY <1>1, <1>3, <1>4, <1>5 DEF HotNext, HotInv

\* The process starts with a file that parses.
LEMMA HotStart == ASSUME HotInit PROVE HotInv
  BY FilesAssumption DEF HotInit, HotInv, Loaded, FromFile, Fresh

\* Neither Manager.Reload nor Router.Reload ever replaces a configuration by an older one, and
\* the router lags behind the manager only between the two (HotReloader).
THEOREM NeverBack == HotSpec => NeverOlder
<1>1. HotInv /\ [HotNext]_hotVars => HotInv'
  BY HotStep
<1>2. HotInv /\ [HotNext]_hotVars =>
        [/\ router'.ver >= router.ver /\ current'.ver >= current.ver
         /\ (rpc' # "publish" => router' = current')]_hotVars
  BY HotStep
<1> QED BY HotStart, <1>1, <1>2, PTL DEF HotSpec, NeverOlder

\* idx % len of an index that RouteRoundRobin has left behind.
LEMMA Turn == ASSUME NEW n \in Nat \ {0}, NEW r \in 0 .. n PROVE r % n = IF r = n THEN 0 ELSE r
  OBVIOUS

\* One choice of RouteRoundRobin: the next target catches up with the ones before it.
LEMMA RotateOnce ==
  ASSUME NEW n \in Nat \ {0}, NEW r, NEW h, Rotating(r, h, n)
  PROVE  Rotating((r % n) + 1, [h EXCEPT ![(r % n) + 1] = @ + 1], n)
<1>1. r \in 0 .. n /\ r % n = IF r = n THEN 0 ELSE r
  BY Turn, Zenon DEF Rotating
<1> DEFINE x == IF r = n THEN 0 ELSE r
           k == [h EXCEPT ![x + 1] = @ + 1]
<1>2. x \in 0 .. n - 1 /\ k \in [1 .. n -> Nat]
  BY <1>1 DEF Rotating
<1>3. ASSUME NEW i \in 1 .. n, NEW j \in 1 .. n
      PROVE  k[i] = k[j] + (IF i <= x + 1 /\ x + 1 < j THEN 1 ELSE IF j <= x + 1 /\ x + 1 < i THEN -1 ELSE 0)
  <2>1. h[i] = h[j] + (IF i <= x /\ x < j THEN 1 ELSE IF j <= x /\ x < i THEN -1 ELSE 0)
    BY <1>1 DEF Rotating
  <2>2. /\ k[i] = IF i = x + 1 THEN h[i] + 1 ELSE h[i]
        /\ k[j] = IF j = x + 1 THEN h[j] + 1 ELSE h[j]
        /\ h[i] \in Nat /\ h[j] \in Nat
    BY <1>2 DEF Rotating
  <2> HIDE DEF k, x
  <2>3. x \in Int
    BY <1>2
  <2>4. CASE i <= x + 1 /\ x + 1 < j
    BY <2>1, <2>2, <2>3, <2>4
  <2>5. CASE j <= x + 1 /\ x + 1 < i
    BY <2>1, <2>2, <2>3, <2>5
  <2>6. CASE i <= x + 1 <=> j <= x + 1
    BY <2>1, <2>2, <2>3, <2>6
  <2> QED BY <2>3, <2>4, <2>5, <2>6
<1>4. Rotating(x + 1, k, n)
  BY <1>2, <1>3 DEF Rotating
<1> QED BY <1>1, <1>4, Zenon

\* A configuration that was loaded has clusters, and targets in each.
LEMMA HotUsable ==
  ASSUME NEW v, FromFile(v)
  PROVE  /\ v.cfg.err = FALSE
         /\ \E d \in DOMAIN v.cfg.clusters : Route(v.cfg, d) # {}
         /\ \A d \in DOMAIN v.cfg.clusters :
              /\ Len(v.cfg.clusters[d]) \in Nat \ {0}
              /\ DOMAIN v.cfg.clusters[d] = 1 .. Len(v.cfg.clusters[d])
<1>1. PICK f \in Seq(Directive) : Valid(f) /\ v.cfg = ParseConfig(f)
  BY FilesAssumption DEF FromFile
<1> DEFINE cl == v.cfg.clusters
<1>2. /\ v.cfg.err = FALSE /\ DOMAIN cl # {}
      /\ \A d \in DOMAIN cl : cl[d] \in Seq(Host) \ {<<>>} /\ Route(v.cfg, d) # {}
  BY <1>1, ParsedRoutes, Zenon
<1>3. ASSUME NEW s \in Seq(Host), s # <<>> PROVE Len(s) \in Nat \ {0} /\ DOMAIN s = 1 .. Len(s)
  BY <1>3, EmptySeq
<1> HIDE DEF cl
<1>4. \A d \in DOMAIN cl : Len(cl[d]) \in Nat \ {0} /\ DOMAIN cl[d] = 1 .. Len(cl[d])
  BY <1>2, <1>3
<1> QED BY <1>2, <1>4 DEF cl

\* The fresh map of indexes that Router.Reload makes.
LEMMA Unused ==
  ASSUME NEW cfg, \A d \in DOMAIN cfg.clusters :
                    /\ Len(cfg.clusters[d]) \in Nat \ {0}
                    /\ DOMAIN cfg.clusters[d] = 1 .. Len(cfg.clusters[d])
  PROVE  /\ NoPicks(cfg) = [d \in DOMAIN cfg.clusters |-> NoPicks(cfg)[d]]
         /\ NoHits(cfg) = [d \in DOMAIN cfg.clusters |-> NoHits(cfg)[d]]
         /\ \A d \in DOMAIN cfg.clusters :
              Rotating(NoPicks(cfg)[d], NoHits(cfg)[d], Len(cfg.clusters[d]))
<1>1. ASSUME NEW d \in DOMAIN cfg.clusters
      PROVE  Rotating(NoPicks(cfg)[d], NoHits(cfg)[d], Len(cfg.clusters[d]))
  <2>1. NoPicks(cfg)[d] = 0 /\ NoHits(cfg)[d] = [i \in 1 .. Len(cfg.clusters[d]) |-> 0]
    BY DEF NoPicks, NoHits
  <2>2. ASSUME NEW n \in Nat PROVE Rotating(0, [i \in 1 .. n |-> 0], n)
    BY DEF Rotating
  <2> QED BY <2>1, <2>2
<1> QED BY <1>1, Zenon DEF NoPicks, NoHits

\* Every step keeps the choices even: Router.Reload starts again, RouteRoundRobin goes on.
LEMMA RotStep ==
  ASSUME HotInv, RotInv, [HotNext]_hotVars
  PROVE  RotInv'
<1> DEFINE cl == router.cfg.clusters
<1>1. CASE Publish
  <2>1. router' = current /\ rrIdx' = NoPicks(current.cfg) /\ hits' = NoHits(current.cfg)
    BY <1>1 DEF Publish
  <2>2. \A d \in DOMAIN current.cfg.clusters :
          /\ Len(current.cfg.clusters[d]) \in Nat \ {0}
          /\ DOMAIN current.cfg.clusters[d] = 1 .. Len(current.cfg.clusters[d])
    BY HotUsable, Zenon DEF HotInv
  <2> QED BY <2>1, <2>2, Unused DEF RotInv
<1>2. ASSUME NEW d \in DC, RouteRoundRobin(d) PROVE RotInv'
  <2>1. PICK c \in ClusterIDs(router.cfg, d) :
          /\ rrIdx' = [rrIdx EXCEPT ![c] = (rrIdx[c] % Len(cl[c])) + 1]
          /\ hits' = [hits EXCEPT ![c][(rrIdx[c] % Len(cl[c])) + 1] = @ + 1]
    BY <1>2, Zenon DEF RouteRoundRobin
  <2>2. router' = router
    BY <1>2 DEF RouteRoundRobin
  <2>3. c \in DOMAIN cl
    BY <2>1 DEF ClusterIDs
  <2>4. Len(cl[c]) \in Nat \ {0}
    BY <2>3, HotUsable, Zenon DEF HotInv
  <2> HIDE DEF cl
  <2>5. DOMAIN rrIdx = DOMAIN cl /\ DOMAIN hits = DOMAIN cl
    BY DEF RotInv, cl
  <2>6. /\ rrIdx'[c] = (rrIdx[c] % Len(cl[c])) + 1
        /\ hits'[c] = [hits[c] EXCEPT ![(rrIdx[c] % Len(cl[c])) + 1] = @ + 1]
        /\ \A e \in DOMAIN cl \ {c} : rrIdx'[e] = rrIdx[e] /\ hits'[e] = hits[e]
        /\ rrIdx' = [e \in DOMAIN cl |-> rrIdx'[e]] /\ hits' = [e \in DOMAIN cl |-> hits'[e]]
    BY <2>1, <2>3, <2>5, Zenon
  <2>7. Rotating(rrIdx'[c], hits'[c], Len(cl[c]))
    <3>1. Rotating(rrIdx[c], hits[c], Len(cl[c]))
      BY <2>3, Zenon DEF RotInv, cl
    <3> DEFINE n == Len(cl[c])
               r == rrIdx[c]
               h == hits[c]
    <3>2. Rotating((r % n) + 1, [h EXCEPT ![(r % n) + 1] = @ + 1], n)
      <4> HIDE DEF n, r, h
      <4> QED BY <2>4, <3>1, RotateOnce, Zenon DEF n, r, h
    <3> QED BY <2>6, <3>2
  <2>8. \A e \in DOMAIN cl : Rotating(rrIdx'[e], hits'[e], Len(cl[e]))
    BY <2>6, <2>7, Zenon DEF RotInv, cl
  <2> QED BY <2>2, <2>6, <2>8, Zenon DEF RotInv, cl
<1>3. CASE UNCHANGED <<router, rrIdx, hits>>
  BY <1>3, Zenon DEF RotInv
<1>4. CASE (\E f \in Files : Edit(f)) \/ Sighup \/ StopReload \/ Stopped \/ Reload \/ UNCHANGED hotVars
  <2>1. UNCHANGED <<router, rrIdx, hits>>
    BY <1>4 DEF Edit, Sighup, StopReload, Stopped, Reload, hotVars, rrVars
  <2> QED BY <1>3, <2>1
<1> QED BY <1>1, <1>2, <1>4 DEF HotNext

\* What the properties need.
LEMMA HotSound == ASSUME HotInv, RotInv PROVE RoutesSound
<1>1. AlwaysRoutable
  BY HotUsable, Zenon DEF HotInv, AlwaysRoutable
<1>2. RoundRobinEven
  <2> SUFFICES ASSUME NEW d \in DOMAIN hits, NEW i \in DOMAIN hits[d], NEW j \in DOMAIN hits[d]
               PROVE  hits[d][i] <= hits[d][j] + 1
    BY DEF RoundRobinEven
  <2>1. d \in DOMAIN router.cfg.clusters
    BY DEF RotInv
  <2>2. Rotating(rrIdx[d], hits[d], Len(router.cfg.clusters[d])) /\ Len(router.cfg.clusters[d]) \in Nat
    BY <2>1, HotUsable, Zenon DEF RotInv, HotInv
  <2>3. ASSUME NEW n \in Nat, NEW r, NEW h, Rotating(r, h, n), i \in DOMAIN h, j \in DOMAIN h
        PROVE  h[i] <= h[j] + 1
    BY <2>3 DEF Rotating
  <2> QED BY <2>2, <2>3
<1>3. RoutesAsWritten
  <2> SUFFICES ASSUME router.ver = ver, NEW d \in DC PROVE Route(router.cfg, d) = Says(file, d)
    BY DEF RoutesAsWritten, Says
  <2>1. router.cfg = ParseConfig(file) /\ ~router.cfg.err
    BY <1>1 DEF HotInv, Fresh, AlwaysRoutable
  <2>2. file \in Seq(Directive) /\ Valid(file)
    BY <2>1, FilesAssumption DEF HotInv, Valid
  <2> QED BY <2>1, <2>2, ParsedRoutes, Zenon
<1> QED BY <1>1, <1>2, <1>3 DEF RoutesSound

\* Whatever is written to the file and whenever it is reloaded, the router has a target, sends
\* the packets of every DC where the file it was loaded from says, and no target of a
\* cluster is chosen twice more often than another.
THEOREM RoutesKept == HotSpec => []RoutesSound
<1>1. HotInit => HotInv /\ RotInv
  <2> SUFFICES ASSUME HotInit PROVE HotInv /\ RotInv
    OBVIOUS
  <2>1. HotInv
    BY HotStart
  <2>2. rrIdx = NoPicks(router.cfg) /\ hits = NoHits(router.cfg)
    BY DEF HotInit
  <2>3. \A d \in DOMAIN router.cfg.clusters :
          /\ Len(router.cfg.clusters[d]) \in Nat \ {0}
          /\ DOMAIN router.cfg.clusters[d] = 1 .. Len(router.cfg.clusters[d])
    BY <2>1, HotUsable, Zenon DEF HotInv
  <2> QED BY <2>1, <2>2, <2>3, Unused DEF RotInv
<1>2. HotInv /\ RotInv /\ [HotNext]_hotVars => (HotInv /\ RotInv)'
  BY HotStep, RotStep
<1>3. HotInv /\ RotInv => RoutesSound
  BY HotSound
<1> QED BY <1>1, <1>2, <1>3, PTL DEF HotSpec
=============================================================================
