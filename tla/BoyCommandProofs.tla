-------------------------- MODULE BoyCommandProofs --------------------------
(***************************************************************************)
(* What the commands of boy achieve when they return 0, for any number of  *)
(* processes, interfaces, requests and disturbances.                       *)
(*                                                                         *)
(* A command works from answers that VPP gave several requests earlier.    *)
(* The invariant says, for every point of a command, what is still true of *)
(* those answers: held and touched bound what others may have done since.  *)
(***************************************************************************)
EXTENDS BoyProofs

-----------------------------------------------------------------------------
(* The invariant                                                           *)

\* Except at indices in S, the interfaces of f are still there in g, under their
\* names, those that were admin-up still are, and there are no new ports.
KeptIn(f, g, S) ==
  \A i \in Indices \ S : f[i].live => /\ g[i].live /\ g[i].name = f[i].name
                                      /\ f[i].admin_up => g[i].admin_up
PortsIn(f, g, S) == \A i \in Indices \ S : SourceCandidate(g[i]) => SourceCandidate(f[i])

\* The answers of VPP: the interfaces are still there unless someone meddled with
\* them, and the entries in held mirror.
Standing(p) ==
  /\ pc[p] # "done" => rc[p] = 1
  /\ pc[p] = "idle" => interfaces[p] = [i \in Indices |-> NoInterface]
  /\ KeptIn(interfaces[p], ifs, touched[p])
  /\ held[p] \subseteq ActiveIn(span)

\* The memif that a create_memif has made.
Creating(p) ==
  (pc[p] = "created" \/ Finished(p, "create")) /\ target[p] \notin touched[p] =>
    /\ ifs[target[p]].live /\ ifs[target[p]].name = cmd[p].dst
    /\ pc[p] = "done" => ifs[target[p]].admin_up

\* The ends that a set_span has found, and set admin-up.
Setting(p) ==
  /\ pc[p] \in {"src_up", "dst_up", "enable"} =>
       /\ interfaces[p][cmd[p].src].live
       /\ interfaces[p][target[p]].live /\ interfaces[p][target[p]].name = cmd[p].dst
  /\ pc[p] \in {"dst_up", "enable"} /\ cmd[p].src \notin touched[p] => ifs[cmd[p].src].admin_up
  /\ pc[p] = "enable" /\ target[p] \notin touched[p] => ifs[target[p]].admin_up

\* Entry k is among those collected.
Known(p, k) == \E e \in span_entries[p] : e.key = k

\* The table shows entry k, with what the dump says of its destination.
Shown(p, k) ==
  \E row \in table[p] : /\ row.src = k.from /\ (row.l2 # "*") = k.l2
                        /\ row.dst = NameIn(interfaces[p], k.to)

\* The entries that show_span and unset_span have collected, shown or removed.
Gathering(p) ==
  /\ pc[p] = "span_l2" => \A k \in held[p] : ~k.l2 => Known(p, k)
  /\ pc[p] = "render" => \A k \in held[p] : Known(p, k)
  /\ pc[p] = "disable" => \A k \in held[p] : k.from = cmd[p].src => Known(p, k)
  /\ Finished(p, "unset") => \A k \in held[p] : k.from # cmd[p].src
  /\ pc[p] \in {"span", "span_l2", "render"} => PortsIn(interfaces[p], ifs, touched[p])
  /\ Finished(p, "show_span") =>
       /\ PortsIn(interfaces[p], ifs, touched[p])
       /\ \A k \in held[p] : SourceCandidate(interfaces[p][k.from]) => Shown(p, k)

Own(p) == Standing(p) /\ Creating(p) /\ Setting(p) /\ Gathering(p)

World == table = [p \in Procs |-> table[p]]

CommandInv == MirrorInv /\ World /\ \A p \in Procs : Own(p)

-----------------------------------------------------------------------------
(* What a step does to VPP                                                 *)

\* For the command q nothing is lost in VPP but what someone meddles with.
Kept(q) ==
  /\ touched[q] \subseteq touched'[q]
  /\ KeptIn(ifs, ifs', touched'[q]) /\ PortsIn(ifs, ifs', touched'[q])
  /\ held'[q] \subseteq held[q] /\ held'[q] \subseteq ActiveIn(span')

\* Nothing is lost if nothing changes, and interfaces stay kept over two steps.
LEMMA KeptChain ==
  /\ \A f, S : KeptIn(f, f, S) /\ PortsIn(f, f, S)
  /\ \A f, g, h, S, T : S \subseteq T /\ KeptIn(f, g, S) /\ KeptIn(g, h, T) => KeptIn(f, h, T)
  /\ \A f, g, h, S, T : S \subseteq T /\ PortsIn(f, g, S) /\ PortsIn(g, h, T) => PortsIn(f, h, T)
BY DEF KeptIn, PortsIn

\* Requests keep held below the active entries.
LEMMA CallHeld ==
  ASSUME TypeOK, NEW q \in Procs, held[q] \subseteq ActiveIn(span), NEW p \in Procs, NEW l,
         NEW ok, NEW f, NEW s, Call(p, ok, f, s, l)
  PROVE  held'[q] \subseteq held[q] /\ held'[q] \subseteq ActiveIn(span')
BY DEF Call, VppBecomes, VppStays, ActiveIn

\* A command's steps keep all interfaces, set flags at most and make no port.
LEMMA CommandKeeps ==
  ASSUME TypeInv, NEW p \in Procs, Command(p), NEW S
  PROVE  KeptIn(ifs, ifs', S) /\ PortsIn(ifs, ifs', S)
<1>0. ifs \in IfsType
  BY DEF TypeInv, TypeOK, VppTypeOK, IfsType
<1>1. CASE ifs' = ifs
  BY <1>1, KeptChain
<1>2. ASSUME NEW i \in Indices, ifs' = WithAdmin(i, TRUE)
      PROVE  KeptIn(ifs, ifs', S) /\ PortsIn(ifs, ifs', S)
  <2>1. \A j \in Indices : /\ ifs'[j].live = ifs[j].live /\ ifs'[j].name = ifs[j].name
                           /\ ifs'[j].admin_up = (IF j = i THEN TRUE ELSE ifs[j].admin_up)
    BY <1>0, <1>2, FlagType
  <2> QED BY <2>1 DEF KeptIn, PortsIn, SourceCandidate
<1>3. ASSUME NEW i \in Indices, NEW id, ~ifs[i].live, ifs' = [ifs EXCEPT ![i] = Memif(id, FALSE)]
      PROVE  KeptIn(ifs, ifs', S) /\ PortsIn(ifs, ifs', S)
  <2>1. ifs'[i] = Memif(id, FALSE) /\ \A j \in Indices \ {i} : ifs'[j] = ifs[j]
    BY <1>0, <1>3 DEF IfsType
  <2>2. ~SourceCandidate(ifs'[i])
    BY <2>1 DEF SourceCandidate, Memif, MemifName
  <2> QED BY <1>3, <2>1, <2>2 DEF KeptIn, PortsIn
<1> QED BY <1>1, <1>2, <1>3, CommandIfs, Zenon

\* A command's steps take entries from held only when they no longer mirror;
\* only its own start makes it anew.
LEMMA CommandHeld ==
  ASSUME TypeInv, NEW p \in Procs, Command(p), NEW q \in Procs, ~Start(p) \/ q # p,
         held[q] \subseteq ActiveIn(span)
  PROVE  /\ held'[q] \subseteq held[q] /\ held'[q] \subseteq ActiveIn(span')
         /\ touched'[q] = touched[q]
<1> USE DEF TypeInv
<1>1. CASE Start(p)
  BY <1>1 DEF Start, vpp, TypeOK, ProcessTypeOK
<1>2. CASE \/ CollectInterfaces(p) \/ CollectSpan(p, FALSE) \/ CollectSpan(p, TRUE)
           \/ CheckEnds(p) \/ UnsetDone(p) \/ RenderSpan(p) \/ ShowMemif(p)
  BY <1>2 DEF CollectInterfaces, CollectSpan, CheckEnds, UnsetDone, RenderSpan, ShowMemif, vpp, history
<1>3. CASE SourceUp(p) \/ DestinationUp(p)
  <2>1. touched' = touched
    BY <1>3 DEF SourceUp, DestinationUp
  <2>2. CASE VppStays
    BY <2>1, <2>2 DEF VppStays
  <2>3. CASE \E i \in Indices, l \in Labels : boy_set_interface_admin_up(p, i, l)
    BY <2>1, <2>3, CallHeld DEF boy_set_interface_admin_up
  <2> QED BY <1>3, <2>2, <2>3 DEF SourceUp, DestinationUp, TypeOK, ProcessTypeOK, Request, Labels
<1>4. CASE Enable(p) \/ Disable(p) \/ CreateMemif(p) \/ CreatedUp(p) \/ ShowVersion(p)
  BY <1>4, CallHeld DEF Enable, Disable, CreateMemif, CreatedUp, ShowVersion,
     boy_set_span_entry, boy_set_interface_admin_up
<1> QED BY <1>1, <1>2, <1>3, <1>4 DEF Command

-----------------------------------------------------------------------------
(* A command while others work                                             *)

\* The step is not one of q.
Aside(q) ==
  /\ cmd' = cmd /\ pc'[q] = pc[q] /\ rc'[q] = rc[q] /\ interfaces'[q] = interfaces[q]
  /\ span_entries'[q] = span_entries[q] /\ target'[q] = target[q] /\ table'[q] = table[q]

\* What a command knows stays true while others work.
LEMMA AsideKeeps ==
  ASSUME TypeInv, NEW q \in Procs, Own(q), Aside(q), Kept(q)
  PROVE  Own(q)'
<1> USE DEF Aside, Kept, Own
<1>1. target[q] \in Indices /\ cmd[q].src \in Indices
  BY DEF TypeInv, TypeOK, ProcessTypeOK, Request
<1>2. Standing(q)'
  <2>1. KeptIn(interfaces'[q], ifs', touched'[q])
    BY KeptChain DEF Standing
  <2> QED BY <2>1 DEF Standing, ActiveIn
<1>3. Creating(q)'
  BY <1>1 DEF Creating, Finished, KeptIn
<1>4. Setting(q)'
  <2>1. pc[q] \in {"src_up", "dst_up", "enable"} =>
          /\ cmd[q].src \notin touched[q] => ifs[cmd[q].src].live
          /\ target[q] \notin touched[q] => ifs[target[q]].live
    BY <1>1 DEF Standing, Setting, KeptIn
  <2> QED BY <1>1, <2>1 DEF Setting, KeptIn
<1>5. Gathering(q)'
  BY KeptChain DEF Gathering, Known, Shown, Finished
<1> QED BY <1>2, <1>3, <1>4, <1>5

\* The other commands' steps are such steps.
LEMMA CommandAside ==
  ASSUME CommandInv, NEW p \in Procs, Command(p), NEW q \in Procs \ {p}
  PROVE  Aside(q)
<1> USE DEF CommandInv, MirrorInv, TypeInv, TypeOK, ProcessTypeOK, World
<1>1. /\ cmd' = cmd
      /\ pc'[q] = pc[q] /\ rc'[q] = rc[q]
  <2>1. ASSUME NEW l, Goto(p, l) \/ Fail(p) PROVE pc'[q] = pc[q] /\ rc'[q] = rc[q]
    BY <2>1 DEF Goto, Fail
  <2>2. CASE \/ Start(p) \/ CollectInterfaces(p) \/ CollectSpan(p, FALSE) \/ CollectSpan(p, TRUE)
             \/ CheckEnds(p) \/ UnsetDone(p) \/ RenderSpan(p) \/ ShowMemif(p)
    BY <2>1, <2>2 DEF Start, CollectInterfaces, CollectSpan, CheckEnds, UnsetDone, RenderSpan,
       ShowMemif, DumpFails
  <2>3. CASE SourceUp(p) \/ DestinationUp(p) \/ CreatedUp(p)
    BY <2>1, <2>3, CallMoves DEF SourceUp, DestinationUp, CreatedUp, boy_set_interface_admin_up
  <2>4. CASE Enable(p) \/ Disable(p) \/ CreateMemif(p) \/ ShowVersion(p)
    BY <2>1, <2>4, CallMoves DEF Enable, Disable, CreateMemif, ShowVersion, boy_set_span_entry
  <2> QED BY <2>2, <2>3, <2>4 DEF Command
<1>2. /\ interfaces'[q] = interfaces[q] /\ span_entries'[q] = span_entries[q]
      /\ target'[q] = target[q] /\ table'[q] = table[q]
  <2>1. CASE CollectInterfaces(p) \/ CollectSpan(p, FALSE) \/ CollectSpan(p, TRUE) \/ CheckEnds(p)
    BY <2>1 DEF CollectInterfaces, CollectSpan, CheckEnds
  <2>2. CASE Disable(p) \/ CreateMemif(p) \/ RenderSpan(p) \/ ShowMemif(p)
    BY <2>2 DEF Disable, CreateMemif, RenderSpan, ShowMemif
  <2>3. CASE \/ Start(p) \/ SourceUp(p) \/ DestinationUp(p) \/ Enable(p) \/ UnsetDone(p)
             \/ CreatedUp(p) \/ ShowVersion(p)
    BY <2>3 DEF Start, SourceUp, DestinationUp, Enable, UnsetDone, CreatedUp, ShowVersion, results
  <2> QED BY <2>1, <2>2, <2>3 DEF Command
<1> QED BY <1>1, <1>2 DEF Aside
-----------------------------------------------------------------------------
(* A command's own steps                                                   *)

\* Where a process stands after a step.
LEMMA Arrival ==
  ASSUME TypeInv, NEW p \in Procs
  PROVE  /\ \A l : Goto(p, l) => pc'[p] = l /\ rc'[p] = IF l = "done" THEN 0 ELSE rc[p]
         /\ Fail(p) => pc'[p] = "done" /\ rc'[p] = rc[p]
BY DEF TypeInv, TypeOK, ProcessTypeOK, Goto, Fail

\* A command under way may use what VPP answered, earlier or just now.
LEMMA MoveStanding ==
  ASSUME TypeInv, NEW p \in Procs, Standing(p), Kept(p), pc[p] \notin {"idle", "done"},
         NEW l, l # "idle", Goto(p, l) \/ Fail(p), interfaces'[p] \in {interfaces[p], ifs'}
  PROVE  Standing(p)'
<1>1. /\ pc'[p] # "idle"
      /\ pc'[p] # "done" => rc'[p] = 1
  BY Arrival DEF Standing
<1>2. KeptIn(interfaces'[p], ifs', touched'[p])
  BY KeptChain DEF Standing, Kept
<1> QED BY <1>1, <1>2 DEF Standing, Kept, ActiveIn

\* A command that fails promises nothing.
LEMMA FailKeeps ==
  ASSUME TypeInv, NEW p \in Procs, Standing(p), Kept(p), pc[p] \notin {"idle", "done"},
         Fail(p), interfaces'[p] \in {interfaces[p], ifs'}
  PROVE  Own(p)'
<1>1. pc'[p] = "done" /\ rc'[p] = 1
  BY Arrival DEF Standing
<1>2. Standing(p)'
  BY MoveStanding
<1> QED BY <1>1, <1>2 DEF Own, Creating, Setting, Gathering, Finished

\* The route tells the command.
LEMMA RouteOf ==
  ASSUME TypeInv, NEW p \in Procs
  PROVE  /\ cmd[p] \in Requests /\ cmd[p] \in Request
         /\ pc[p] \in {"create", "created"} => cmd[p].op = "create"
         /\ pc[p] \in {"check", "src_up", "dst_up", "enable"} => cmd[p].op = "set"
         /\ pc[p] = "disable" => cmd[p].op = "unset"
         /\ pc[p] = "render" => cmd[p].op = "show_span"
         /\ pc[p] \in {"span", "span_l2"} => cmd[p].op \in {"unset", "show_span"}
         /\ pc[p] = "memifs" => cmd[p].op = "show_memif"
         /\ pc[p] = "version" => cmd[p].op = "show_version"
         /\ pc[p] = "interfaces" => cmd[p].op \in {"set", "unset", "show_span"}
<1>1. cmd[p] \in Requests /\ cmd[p] \in Request /\ pc[p] \in Route(cmd[p].op) \cup {"idle", "done"}
  BY BoyAssumption DEF TypeInv, Routed
<1>2. cmd[p].op \in Ops
  BY <1>1 DEF Request
<1> QED BY <1>1, <1>2 DEF Route, Ops

\* Once connected a command knows nothing but which entries mirror.
LEMMA OwnStart ==
  ASSUME CommandInv, NEW p \in Procs, Start(p)
  PROVE  Own(p)'
<1> USE DEF CommandInv, MirrorInv, World
<1>1. /\ interfaces' = interfaces /\ ifs' = ifs /\ span' = span /\ cmd' = cmd
      /\ held'[p] = ActiveIn(span) /\ pc[p] = "idle" /\ rc[p] = 1
      /\ interfaces[p] = [i \in Indices |-> NoInterface]
  BY DEF Start, vpp, results, Own, Standing, TypeInv, TypeOK, ProcessTypeOK
<1>2. KeptIn(interfaces'[p], ifs', touched'[p])
  BY <1>1 DEF KeptIn, NoInterface
<1>3. /\ pc'[p] \in {"create", "memifs", "version", "interfaces", "done"}
      /\ pc'[p] = "done" => rc'[p] = 1
      /\ pc'[p] # "done" => rc'[p] = 1
  <2>1. FirstStep(cmd[p].op) \in {"create", "memifs", "version", "interfaces"}
    BY DEF FirstStep
  <2>2. Goto(p, FirstStep(cmd[p].op)) \/ Fail(p)
    BY DEF Start
  <2> QED BY <1>1, <2>1, <2>2, Arrival
<1>4. Standing(p)'
  BY <1>1, <1>2, <1>3 DEF Standing, ActiveIn
<1> QED BY <1>3, <1>4 DEF Own, Creating, Setting, Gathering, Finished

\* A dump of the interfaces shows the ports.
LEMMA OwnCollectInterfaces ==
  ASSUME CommandInv, NEW p \in Procs, CollectInterfaces(p), Kept(p)
  PROVE  Own(p)'
<1> USE DEF CommandInv, MirrorInv, World
<1>1. /\ TypeInv /\ Standing(p) /\ pc[p] = "interfaces" /\ ifs' = ifs /\ UNCHANGED cmd
      /\ interfaces \in [Procs -> [Indices -> Interface]]
  BY DEF CollectInterfaces, vpp, Own, TypeInv, TypeOK, ProcessTypeOK
<1>2. CASE Fail(p) /\ UNCHANGED interfaces
  BY <1>1, <1>2, FailKeeps
<1>3. CASE /\ interfaces' = [interfaces EXCEPT ![p] = ifs]
           /\ Goto(p, IF cmd[p].op = "set" THEN "check" ELSE "span")
  <2>1. interfaces'[p] = ifs'
    BY <1>1, <1>3
  <2>2. pc'[p] \in {"check", "span"}
    BY <1>1, <1>3, Arrival
  <2>3. Standing(p)'
    BY <1>1, <1>3, <2>1, MoveStanding
  <2>4. PortsIn(interfaces'[p], ifs', touched'[p])
    BY <2>1, KeptChain
  <2> QED BY <2>2, <2>3, <2>4 DEF Own, Creating, Setting, Gathering, Finished
<1> QED BY <1>2, <1>3 DEF CollectInterfaces, DumpFails

\* The two dumps of entries find all that mirror all the time.
LEMMA OwnCollectSpan ==
  ASSUME CommandInv, NEW p \in Procs, NEW l2 \in BOOLEAN, CollectSpan(p, l2), Kept(p)
  PROVE  Own(p)'
<1> USE DEF CommandInv, MirrorInv, World
<1> DEFINE l == IF ~l2 THEN "span_l2" ELSE IF cmd[p].op = "unset" THEN "disable" ELSE "render"
<1>1. /\ TypeInv /\ Standing(p) /\ Gathering(p) /\ pc[p] = IF l2 THEN "span_l2" ELSE "span"
      /\ ifs' = ifs /\ span' = span /\ UNCHANGED <<cmd, interfaces>> /\ held' = held
      /\ span_entries \in [Procs -> SUBSET [key : Key, state : States]]
      /\ held[p] \subseteq ActiveIn(span)
  BY DEF CollectSpan, vpp, history, Own, Standing, TypeInv, TypeOK, ProcessTypeOK
<1>2. CASE Fail(p)
  BY <1>1, <1>2, FailKeeps
<1>3. CASE span_entries' = [span_entries EXCEPT ![p] = Appended(p, l2)] /\ Goto(p, l)
  <2>1. span_entries'[p] = span_entries[p] \cup SpanDump(l2)
    BY <1>1, <1>3 DEF Appended
  <2>2. pc'[p] = l
    BY <1>1, <1>3, Arrival
  <2>3. Standing(p)'
    BY <1>1, <1>3, MoveStanding
  <2>4. ASSUME NEW k \in held[p], k.l2 = l2 PROVE Known(p, k)'
    <3>1. [key |-> k, state |-> span[k]] \in SpanDump(l2)
      BY <1>1, <2>4 DEF SpanDump
    <3> QED BY <2>1, <3>1 DEF Known
  <2>5. ASSUME NEW k \in held[p], Known(p, k) PROVE Known(p, k)'
    BY <2>1, <2>5 DEF Known
  <2>6. \A k \in held[p] : k.l2 \in BOOLEAN
    BY <1>1 DEF ActiveIn, Key
  <2>7. PortsIn(interfaces'[p], ifs', touched'[p])
    BY <1>1, KeptChain DEF Gathering, Kept
  <2>8. CASE ~l2
    <3>1. \A k \in held'[p] : ~k.l2 => Known(p, k)'
      BY <1>1, <2>4, <2>6, <2>8
    <3> QED BY <1>1, <2>2, <2>3, <2>7, <2>8, <3>1
            DEF Own, Creating, Setting, Gathering, Finished
  <2>9. CASE l2
    <3>1. \A k \in held'[p] : Known(p, k)'
      BY <1>1, <2>4, <2>5, <2>6, <2>9 DEF Gathering
    <3>2. pc'[p] \in {"disable", "render"}
      BY <2>2, <2>9
    <3> QED BY <1>1, <2>3, <2>7, <3>1, <3>2
            DEF Own, Creating, Setting, Gathering, Finished
  <2> QED BY <2>8, <2>9
<1> QED BY <1>2, <1>3 DEF CollectSpan, DumpFails

\* Both ends are in the dump.
LEMMA OwnCheckEnds ==
  ASSUME CommandInv, NEW p \in Procs, CheckEnds(p), Kept(p)
  PROVE  Own(p)'
<1> USE DEF CommandInv, MirrorInv, World
<1>1. /\ TypeInv /\ Standing(p) /\ pc[p] = "check" /\ UNCHANGED <<cmd, interfaces>>
      /\ target \in [Procs -> Indices]
  BY DEF CheckEnds, Own, TypeInv, TypeOK, ProcessTypeOK
<1>2. CASE Fail(p)
  BY <1>1, <1>2, FailKeeps
<1>3. ASSUME interfaces[p][cmd[p].src].live, NEW i \in Indices, Named(p, i), Mirrorable(p, i),
             target' = [target EXCEPT ![p] = i], Goto(p, "src_up")
      PROVE  Own(p)'
  <2>1. pc'[p] = "src_up" /\ target'[p] = i
    BY <1>1, <1>3, Arrival
  <2>2. Standing(p)'
    BY <1>1, <1>3, MoveStanding
  <2> QED BY <1>1, <1>3, <2>1, <2>2
          DEF Own, Creating, Setting, Gathering, Finished, Named
<1> QED BY <1>2, <1>3 DEF CheckEnds

\* An accepted request to set an interface admin-up leaves it so.
LEMMA AdminUpDone ==
  ASSUME TypeInv, NEW p \in Procs, NEW i \in Indices, NEW l, boy_set_interface_admin_up(p, i, l)
  PROVE  Fail(p) \/ (Goto(p, l) /\ ifs[i].live /\ ifs'[i].admin_up)
<1>1. ifs \in IfsType
  BY DEF TypeInv, TypeOK, VppTypeOK, IfsType
<1>2. WithAdmin(i, TRUE)[i].admin_up
  BY <1>1, FlagType
<1> QED BY <1>2 DEF boy_set_interface_admin_up, Call, VppBecomes

\* The source is admin-up: the dump showed it so, or boy has set it.
LEMMA OwnSourceUp ==
  ASSUME CommandInv, NEW p \in Procs, SourceUp(p), Kept(p)
  PROVE  Own(p)'
<1> USE DEF CommandInv, MirrorInv, World
<1>1. /\ TypeInv /\ Standing(p) /\ Setting(p) /\ pc[p] = "src_up"
      /\ UNCHANGED <<cmd, interfaces, target>>
      /\ cmd[p].src \in Indices
  BY DEF SourceUp, results, Own, TypeInv, TypeOK, ProcessTypeOK, Request
<1>2. CASE Fail(p)
  BY <1>1, <1>2, FailKeeps
<1>3. CASE Goto(p, "dst_up")
  <2>1. Standing(p)'
    BY <1>1, <1>3, MoveStanding
  <2>2. pc'[p] = "dst_up"
    BY <1>1, <1>3, Arrival
  <2>3. ASSUME cmd[p].src \notin touched'[p] PROVE ifs'[cmd[p].src].admin_up
    <3>1. CASE interfaces[p][cmd[p].src].admin_up
      BY <1>1, <2>1, <2>3, <3>1 DEF Standing, KeptIn, Setting
    <3>2. CASE boy_set_interface_admin_up(p, cmd[p].src, "dst_up")
      <4>1. ~Fail(p)
        BY <1>1, <2>2, Arrival
      <4> QED BY <1>1, <3>2, <4>1, AdminUpDone
    <3> QED BY <3>1, <3>2 DEF SourceUp
  <2> QED BY <1>1, <2>1, <2>2, <2>3 DEF Own, Creating, Setting, Gathering, Finished
<1> QED BY <1>2, <1>3, CallMoves DEF SourceUp, boy_set_interface_admin_up

\* So is the destination.
LEMMA OwnDestinationUp ==
  ASSUME CommandInv, NEW p \in Procs, DestinationUp(p), Kept(p)
  PROVE  Own(p)'
<1> USE DEF CommandInv, MirrorInv, World
<1>1. /\ TypeInv /\ Standing(p) /\ Setting(p) /\ pc[p] = "dst_up"
      /\ UNCHANGED <<cmd, interfaces, target>>
      /\ cmd[p].src \in Indices /\ target[p] \in Indices
  BY DEF DestinationUp, results, Own, TypeInv, TypeOK, ProcessTypeOK, Request
<1>2. CASE Fail(p)
  BY <1>1, <1>2, FailKeeps
<1>3. CASE Goto(p, "enable")
  <2>1. Standing(p)'
    BY <1>1, <1>3, MoveStanding
  <2>2. pc'[p] = "enable"
    BY <1>1, <1>3, Arrival
  <2>3. ASSUME cmd[p].src \notin touched'[p] PROVE ifs'[cmd[p].src].admin_up
    <3>1. cmd[p].src \notin touched[p] /\ KeptIn(ifs, ifs', touched'[p])
      BY <2>3 DEF Kept
    <3>2. ifs[cmd[p].src].live /\ ifs[cmd[p].src].admin_up
      BY <1>1, <3>1 DEF Standing, KeptIn, Setting
    <3> QED BY <1>1, <2>3, <3>1, <3>2 DEF KeptIn
  <2>4. ASSUME target[p] \notin touched'[p] PROVE ifs'[target[p]].admin_up
    <3>1. CASE interfaces[p][target[p]].admin_up
      BY <1>1, <2>1, <2>4, <3>1 DEF Standing, KeptIn, Setting
    <3>2. CASE boy_set_interface_admin_up(p, target[p], "enable")
      <4>1. ~Fail(p)
        BY <1>1, <2>2, Arrival
      <4> QED BY <1>1, <3>2, <4>1, AdminUpDone
    <3> QED BY <3>1, <3>2 DEF DestinationUp
  <2> QED BY <1>1, <2>1, <2>2, <2>3, <2>4 DEF Own, Creating, Setting, Gathering, Finished
<1> QED BY <1>2, <1>3, CallMoves DEF DestinationUp, boy_set_interface_admin_up

\* What a set_span has reached when it returns 0 is said by SetTakesEffect.
LEMMA OwnEnable ==
  ASSUME CommandInv, NEW p \in Procs, Enable(p), Kept(p)
  PROVE  Own(p)'
<1> USE DEF CommandInv, MirrorInv, World
<1>1. TypeInv /\ Standing(p) /\ pc[p] = "enable" /\ UNCHANGED <<cmd, interfaces>>
  BY DEF Enable, results, Own
<1>2. CASE Fail(p)
  BY <1>1, <1>2, FailKeeps
<1>3. CASE Goto(p, "done")
  <2>1. Standing(p)'
    BY <1>1, <1>3, MoveStanding
  <2>2. pc'[p] = "done" /\ cmd'[p].op = "set"
    BY <1>1, <1>3, Arrival, RouteOf
  <2> QED BY <2>1, <2>2 DEF Own, Creating, Setting, Gathering, Finished
<1> QED BY <1>2, <1>3, CallMoves DEF Enable, boy_set_span_entry

\* An entry taken off the list does not mirror any more.
LEMMA OwnDisable ==
  ASSUME CommandInv, NEW p \in Procs, Disable(p), Kept(p)
  PROVE  Own(p)'
<1> USE DEF CommandInv, MirrorInv, World
<1>1. /\ TypeInv /\ Standing(p) /\ Gathering(p) /\ pc[p] = "disable" /\ UNCHANGED <<cmd, interfaces>>
      /\ span_entries \in [Procs -> SUBSET [key : Key, state : States]]
      /\ span \in [Key -> States]
  BY DEF Disable, Own, TypeInv, TypeOK, VppTypeOK, ProcessTypeOK
<1>2. CASE Fail(p)
  BY <1>1, <1>2, FailKeeps
<1>3. CASE ~Fail(p)
  <2>1. PICK k \in ToRemove(p) :
          /\ boy_set_span_entry(p, k, "disabled", "disable")
          /\ span_entries' = [span_entries EXCEPT ![p] = {e \in @ : e.key # k}]
    BY DEF Disable
  <2>2. Goto(p, "disable") /\ span' = [span EXCEPT ![k] = "disabled"] /\ k \in Key
    BY <1>1, <1>3, <2>1 DEF boy_set_span_entry, Call, VppBecomes, ToRemove
  <2>3. pc'[p] = "disable"
    BY <1>1, <2>2, Arrival
  <2>4. Standing(p)'
    BY <1>1, <2>2, MoveStanding
  <2>5. k \notin held'[p]
    BY <1>1, <2>2 DEF Kept, ActiveIn
  <2>6. ASSUME NEW j \in held'[p], j.from = cmd[p].src PROVE Known(p, j)'
    <3>1. j \in held[p] /\ j # k
      BY <2>5 DEF Kept
    <3>2. PICK e \in span_entries[p] : e.key = j
      BY <1>1, <2>6, <3>1 DEF Gathering, Known
    <3>3. e \in span_entries'[p]
      BY <1>1, <2>1, <3>1, <3>2
    <3> QED BY <3>2, <3>3 DEF Known
  <2> QED BY <1>1, <2>3, <2>4, <2>6 DEF Own, Creating, Setting, Gathering, Finished
<1> QED BY <1>2, <1>3

\* With the list empty no entry of the source is left.
LEMMA OwnUnsetDone ==
  ASSUME CommandInv, NEW p \in Procs, UnsetDone(p), Kept(p)
  PROVE  Own(p)'
<1> USE DEF CommandInv, MirrorInv, World
<1>1. /\ TypeInv /\ Standing(p) /\ Gathering(p) /\ pc[p] = "disable" /\ UNCHANGED <<cmd, interfaces>>
      /\ held' = held /\ Goto(p, "done") /\ ToRemove(p) = {}
  BY DEF UnsetDone, results, history, Own
<1>2. Standing(p)'
  BY <1>1, MoveStanding
<1>3. pc'[p] = "done" /\ cmd'[p].op = "unset"
  BY <1>1, Arrival, RouteOf
<1>4. \A k \in held[p] : k.from # cmd[p].src
  BY <1>1 DEF Gathering, Known, ToRemove
<1> QED BY <1>1, <1>2, <1>3, <1>4 DEF Own, Creating, Setting, Gathering, Finished

\* The memif is there once VPP has answered.
LEMMA OwnCreateMemif ==
  ASSUME CommandInv, NEW p \in Procs, CreateMemif(p), Kept(p)
  PROVE  Own(p)'
<1> USE DEF CommandInv, MirrorInv, World
<1>1. /\ TypeInv /\ Standing(p) /\ pc[p] = "create" /\ UNCHANGED <<cmd, interfaces>>
      /\ target \in [Procs -> Indices] /\ ifs \in [Indices -> Interface]
  BY DEF CreateMemif, Own, TypeInv, TypeOK, VppTypeOK, ProcessTypeOK
<1>2. CASE Fail(p)
  BY <1>1, <1>2, FailKeeps
<1>3. CASE ~Fail(p)
  <2>1. PICK i \in Indices, ok \in BOOLEAN :
          /\ Call(p, ok, [ifs EXCEPT ![i] = Memif(cmd[p].dst.n, FALSE)], span, "created")
          /\ target' = [target EXCEPT ![p] = i]
    BY DEF CreateMemif
  <2>2. Goto(p, "created") /\ ifs' = [ifs EXCEPT ![i] = Memif(cmd[p].dst.n, FALSE)]
    BY <1>3, <2>1 DEF Call, VppBecomes
  <2>3. pc'[p] = "created"
    BY <1>1, <2>2, Arrival
  <2>4. Standing(p)'
    BY <1>1, <2>2, MoveStanding
  <2>5. MemifName(cmd[p].dst.n) = cmd[p].dst
    <3>1. cmd[p] \in Requests /\ cmd[p].op = "create" /\ cmd[p].dst \in Names
      BY <1>1, RouteOf DEF Request
    <3>2. cmd[p].dst.kind = "memif" /\ cmd[p].dst \in [kind : {"memif"}, n : MemifIds]
      BY <3>1, BoyAssumption DEF Names
    <3> QED BY <3>2 DEF MemifName
  <2>6. ifs'[target'[p]].live /\ ifs'[target'[p]].name = cmd[p].dst
    BY <1>1, <2>1, <2>2, <2>5 DEF Memif
  <2> QED BY <1>1, <2>3, <2>4, <2>6 DEF Own, Creating, Setting, Gathering, Finished
<1> QED BY <1>2, <1>3

\* It is admin-up when the command returns 0.
LEMMA OwnCreatedUp ==
  ASSUME CommandInv, NEW p \in Procs, CreatedUp(p), Kept(p)
  PROVE  Own(p)'
<1> USE DEF CommandInv, MirrorInv, World
<1>1. /\ TypeInv /\ Standing(p) /\ Creating(p) /\ pc[p] = "created"
      /\ UNCHANGED <<cmd, interfaces, target>> /\ target[p] \in Indices
  BY DEF CreatedUp, results, Own, TypeInv, TypeOK, ProcessTypeOK
<1>2. CASE Fail(p)
  BY <1>1, <1>2, FailKeeps
<1>3. CASE ~Fail(p)
  <2>1. Goto(p, "done") /\ ifs'[target[p]].admin_up
    BY <1>1, <1>3, AdminUpDone DEF CreatedUp
  <2>2. pc'[p] = "done" /\ cmd'[p].op = "create"
    BY <1>1, <2>1, Arrival, RouteOf
  <2>3. Standing(p)'
    BY <1>1, <2>1, MoveStanding
  <2>4. target[p] \notin touched'[p] => ifs'[target[p]].live /\ ifs'[target[p]].name = cmd[p].dst
    BY <1>1 DEF Creating, Kept, KeptIn
  <2> QED BY <1>1, <2>1, <2>2, <2>3, <2>4 DEF Own, Creating, Setting, Gathering, Finished
<1> QED BY <1>2, <1>3

\* Every entry collected has its row, if its source is a port.
LEMMA RowsShow ==
  ASSUME TypeInv, NEW p \in Procs, NEW k \in Key, Known(p, k),
         SourceCandidate(interfaces[p][k.from])
  PROVE  \E row \in SpanRows(interfaces[p], span_entries[p]) :
           /\ row.src = k.from /\ (row.l2 # "*") = k.l2
           /\ row.dst = NameIn(interfaces[p], k.to)
<1>1. PICK e \in span_entries[p] : e.key = k
  BY DEF Known
<1>2. e.state \in States /\ k.from \in Indices /\ k.l2 \in BOOLEAN
  BY <1>1 DEF TypeInv, TypeOK, ProcessTypeOK, Key
<1>3. SpanRow(interfaces[p], e) \in SpanRows(interfaces[p], span_entries[p])
  BY <1>1, <1>2 DEF SpanRows
<1>4. StateDevice(e.state) # "*"
  BY <1>2 DEF StateDevice, States
<1> QED BY <1>1, <1>2, <1>3, <1>4 DEF SpanRow

\* show_span shows them.
LEMMA OwnRenderSpan ==
  ASSUME CommandInv, NEW p \in Procs, RenderSpan(p), Kept(p)
  PROVE  Own(p)'
<1> USE DEF CommandInv, MirrorInv, World
<1>1. /\ TypeInv /\ Standing(p) /\ Gathering(p) /\ pc[p] = "render"
      /\ UNCHANGED <<cmd, interfaces>> /\ held' = held
      /\ held[p] \subseteq Key
  BY DEF RenderSpan, history, Own, Standing, ActiveIn
<1>2. CASE Fail(p)
  BY <1>1, <1>2, FailKeeps
<1>3. CASE /\ table' = [table EXCEPT ![p] = SpanRows(interfaces[p], span_entries[p])]
           /\ Goto(p, "done")
  <2>1. pc'[p] = "done" /\ cmd'[p].op = "show_span"
    BY <1>1, <1>3, Arrival, RouteOf
  <2>2. Standing(p)'
    BY <1>1, <1>3, MoveStanding
  <2>3. table'[p] = SpanRows(interfaces[p], span_entries[p])
    BY <1>3
  <2>4. ASSUME NEW k \in held[p], SourceCandidate(interfaces[p][k.from]) PROVE Shown(p, k)'
    <3>1. Known(p, k)
      BY <1>1 DEF Gathering
    <3> QED BY <1>1, <2>3, <2>4, <3>1, RowsShow DEF Shown
  <2>5. PortsIn(interfaces'[p], ifs', touched'[p])
    BY <1>1, KeptChain DEF Gathering, Kept
  <2> QED BY <1>1, <2>1, <2>2, <2>4, <2>5
          DEF Own, Creating, Setting, Gathering, Finished
<1> QED BY <1>2, <1>3 DEF RenderSpan

\* The other commands that show something promise nothing here.
LEMMA OwnShow ==
  ASSUME CommandInv, NEW p \in Procs, ShowMemif(p) \/ ShowVersion(p), Kept(p)
  PROVE  Own(p)'
<1> USE DEF CommandInv, MirrorInv, World
<1>1. /\ TypeInv /\ Standing(p) /\ pc[p] \in {"memifs", "version"}
      /\ UNCHANGED <<cmd, interfaces>>
  BY DEF ShowMemif, ShowVersion, results, Own
<1>2. CASE Fail(p)
  BY <1>1, <1>2, FailKeeps
<1>3. CASE Goto(p, "done")
  <2>1. Standing(p)'
    BY <1>1, <1>3, MoveStanding
  <2>2. pc'[p] = "done" /\ cmd'[p].op \in {"show_memif", "show_version"}
    BY <1>1, <1>3, Arrival, RouteOf
  <2> QED BY <2>1, <2>2 DEF Own, Creating, Setting, Gathering, Finished
<1> QED BY <1>2, <1>3, CallMoves DEF ShowMemif, ShowVersion, DumpFails

-----------------------------------------------------------------------------
(* The invariant holds                                                     *)

\* A command's step keeps what it and the others know.
LEMMA CommandOwn ==
  ASSUME CommandInv, NEW p \in Procs, Command(p), NEW q \in Procs
  PROVE  Own(q)'
<1> USE DEF CommandInv, MirrorInv, World
<1>1. CASE Start(p) /\ q = p
  BY <1>1, OwnStart
<1>2. CASE ~Start(p) \/ q # p
  <2>1. Kept(q)
    <3>1. held[q] \subseteq ActiveIn(span)
      BY DEF Own, Standing
    <3>2. /\ held'[q] \subseteq held[q] /\ held'[q] \subseteq ActiveIn(span')
          /\ touched'[q] = touched[q]
      BY <1>2, <3>1, CommandHeld
    <3>3. KeptIn(ifs, ifs', touched'[q]) /\ PortsIn(ifs, ifs', touched'[q])
      BY CommandKeeps
    <3> QED BY <3>2, <3>3 DEF Kept
  <2>2. CASE q # p
    BY <2>1, <2>2, CommandAside, AsideKeeps
  <2>3. CASE q = p
    <3>1. CASE \/ CollectInterfaces(p) \/ CollectSpan(p, FALSE) \/ CollectSpan(p, TRUE)
               \/ CheckEnds(p)
      BY <2>1, <2>3, <3>1, OwnCollectInterfaces, OwnCollectSpan, OwnCheckEnds
    <3>2. CASE SourceUp(p) \/ DestinationUp(p) \/ Enable(p) \/ Disable(p) \/ UnsetDone(p)
      BY <2>1, <2>3, <3>2, OwnSourceUp, OwnDestinationUp, OwnEnable, OwnDisable, OwnUnsetDone
    <3>3. CASE \/ CreateMemif(p) \/ CreatedUp(p) \/ RenderSpan(p)
               \/ ShowMemif(p) \/ ShowVersion(p)
      BY <2>1, <2>3, <3>3, OwnCreateMemif, OwnCreatedUp, OwnRenderSpan, OwnShow
    <3> QED BY <1>2, <2>3, <3>1, <3>2, <3>3 DEF Command
  <2> QED BY <2>2, <2>3
<1> QED BY <1>1, <1>2

\* Tables keep their place.
LEMMA CommandWorld ==
  ASSUME CommandInv, NEW p \in Procs, Command(p)
  PROVE  World'
<1> USE DEF CommandInv, World
<1>1. CASE UNCHANGED table
  BY <1>1
<1>2. CASE \E rows : table' = [table EXCEPT ![p] = rows]
  BY <1>2
<1>3. CASE RenderSpan(p) \/ ShowMemif(p)
  BY <1>1, <1>2, <1>3 DEF RenderSpan, ShowMemif
<1>4. CASE ~RenderSpan(p) /\ ~ShowMemif(p)
  <2>1. UNCHANGED table
    BY <1>4 DEF Command, Start, CollectInterfaces, CollectSpan, CheckEnds, SourceUp, DestinationUp,
       Enable, Disable, UnsetDone, CreateMemif, CreatedUp, ShowVersion, results
  <2> QED BY <1>1, <2>1
<1> QED BY <1>3, <1>4

\* What happens behind boy's back is known by touched and held.
LEMMA EnvironmentOwn ==
  ASSUME CommandInv, Environment
  PROVE  World' /\ \A q \in Procs : Own(q)'
<1> USE DEF CommandInv, MirrorInv, World, TypeInv, TypeOK, VppTypeOK, ProcessTypeOK
<1>1. ASSUME NEW p \in Procs, Killed(p) PROVE World' /\ \A q \in Procs : Own(q)'
  <2>1. UNCHANGED <<ifs, span, cmd, interfaces, span_entries, target, table, held, touched>>
    BY <1>1 DEF Killed, vpp, results, history
  <2>2. \A q \in Procs : Kept(q)
    BY <2>1, KeptChain DEF Kept, Own, Standing, ActiveIn
  <2>3. Own(p)'
    BY <1>1, <2>1, <2>2, FailKeeps DEF Killed, Own
  <2>4. ASSUME NEW q \in Procs, q # p PROVE Own(q)'
    <3>1. Aside(q)
      BY <1>1, <2>1, <2>4 DEF Killed, Fail, Aside
    <3> QED BY <2>2, <3>1, AsideKeeps
  <2> QED BY <2>1, <2>3, <2>4
<1>2. ASSUME NEW kind, Meddle(kind), NEW f, NEW s, VppBecomes(f, s),
             NEW S, touched' = [q \in Procs |-> touched[q] \cup S],
             KeptIn(ifs, f, S), PortsIn(ifs, f, S)
      PROVE  World' /\ \A q \in Procs : Own(q)'
  <2>1. \A q \in Procs : Aside(q)
    BY <1>2 DEF Meddle, results, Aside
  <2>2. \A q \in Procs : KeptIn(ifs, f, touched'[q]) /\ PortsIn(ifs, f, touched'[q])
    BY <1>2 DEF KeptIn, PortsIn
  <2>3. \A q \in Procs : Kept(q)
    BY <1>2, <2>2 DEF VppBecomes, Kept
  <2> QED BY <1>2, <2>1, <2>3, AsideKeeps DEF Meddle, results
<1>3. ASSUME NEW i \in Indices, OperatorDeletes(i) PROVE World' /\ \A q \in Procs : Own(q)'
  <2>1. PICK s : VppBecomes([ifs EXCEPT ![i] = NoInterface], s)
    BY <1>3 DEF OperatorDeletes
  <2>2. /\ KeptIn(ifs, [ifs EXCEPT ![i] = NoInterface], {i})
        /\ PortsIn(ifs, [ifs EXCEPT ![i] = NoInterface], {i})
    BY DEF KeptIn, PortsIn
  <2> QED BY <1>2, <1>3, <2>1, <2>2 DEF OperatorDeletes, Touch
<1>4. ASSUME NEW i \in Indices, NEW kind, OperatorCreates(i, kind)
      PROVE  World' /\ \A q \in Procs : Own(q)'
  <2>1. /\ KeptIn(ifs, [ifs EXCEPT ![i] = Other(kind, i)], {i})
        /\ PortsIn(ifs, [ifs EXCEPT ![i] = Other(kind, i)], {i})
    BY DEF KeptIn, PortsIn
  <2> QED BY <1>2, <1>4, <2>1 DEF OperatorCreates, Touch
<1>5. ASSUME NEW i \in Indices, OperatorDowns(i) PROVE World' /\ \A q \in Procs : Own(q)'
  <2>1. \A j \in Indices \ {i} : WithAdmin(i, FALSE)[j] = ifs[j]
    BY DEF WithAdmin
  <2>2. KeptIn(ifs, WithAdmin(i, FALSE), {i}) /\ PortsIn(ifs, WithAdmin(i, FALSE), {i})
    BY <2>1 DEF KeptIn, PortsIn
  <2> QED BY <1>2, <1>5, <2>2 DEF OperatorDowns, Touch
<1>6. ASSUME NEW k \in Key, OperatorMirrors(k) PROVE World' /\ \A q \in Procs : Own(q)'
  <2>1. touched' = [q \in Procs |-> touched[q] \cup {}]
    BY <1>6 DEF OperatorMirrors
  <2> QED BY <1>2, <1>6, <2>1, KeptChain DEF OperatorMirrors
<1>7. CASE VppRestarts
  <2>1. PICK f, s : VppBecomes(f, s)
    BY <1>7 DEF VppRestarts
  <2>2. KeptIn(ifs, f, Indices) /\ PortsIn(ifs, f, Indices)
    BY DEF KeptIn, PortsIn
  <2> QED BY <1>2, <1>7, <2>1, <2>2 DEF VppRestarts, Touch
<1> QED BY <1>1, <1>3, <1>4, <1>5, <1>6, <1>7 DEF Environment

\* Every step keeps the invariant.
LEMMA CommandInvStep == CommandInv /\ [Next]_vars => CommandInv'
<1> SUFFICES ASSUME CommandInv, [Next]_vars PROVE CommandInv'
  OBVIOUS
<1>1. MirrorInv'
  BY MirrorStep DEF CommandInv
<1>2. ASSUME NEW p \in Procs, Command(p) PROVE CommandInv'
  BY <1>1, <1>2, CommandOwn, CommandWorld DEF CommandInv
<1>3. CASE Environment
  BY <1>1, <1>3, EnvironmentOwn DEF CommandInv
<1>4. CASE UNCHANGED vars
  <2> USE DEF vars, vpp, results, history, CommandInv
  <2>1. \A q \in Procs : Aside(q) /\ Kept(q)
    BY <1>4, KeptChain DEF Aside, Kept, Own, Standing, ActiveIn, MirrorInv, TypeInv, TypeOK, ProcessTypeOK
  <2>2. \A q \in Procs : Own(q)'
    BY <2>1, AsideKeeps DEF MirrorInv
  <2> QED BY <1>1, <1>4, <2>2 DEF World
<1> QED BY <1>2, <1>3, <1>4 DEF Next, Terminated

\* Before they start, commands know nothing.
LEMMA CommandInvInit == Init => World /\ \A p \in Procs : Own(p)
<1> SUFFICES ASSUME Init PROVE World /\ \A p \in Procs : Own(p)
  OBVIOUS
<1>1. World
  BY DEF Init, World
<1>2. ASSUME NEW p \in Procs PROVE Own(p)
  <2>1. pc[p] = "idle" /\ rc[p] = 1 /\ held[p] = {} /\ interfaces[p] = [i \in Indices |-> NoInterface]
    BY DEF Init
  <2>2. KeptIn(interfaces[p], ifs, touched[p])
    BY <2>1 DEF KeptIn, NoInterface
  <2> QED BY <2>1, <2>2 DEF Own, Standing, Creating, Setting, Gathering, Finished
<1> QED BY <1>1, <1>2

\* It holds in every reachable state.
LEMMA CommandInvHolds == Spec => []CommandInv
<1>1. CommandInv /\ [Next]_vars => CommandInv'
  BY CommandInvStep
<1>2. MirrorInv /\ World /\ (\A p \in Procs : Own(p)) => CommandInv
  BY DEF CommandInv
<1> QED BY <1>1, <1>2, MirrorInvHolds, CommandInvInit, PTL DEF Spec

-----------------------------------------------------------------------------
(* Theorems                                                                *)

\* A create_memif that returns 0 leaves the memif it was asked for, admin-up,
\* whatever other commands do, whatever requests fail and whatever operators do
\* to other interfaces.
THEOREM CreateWorks == Spec => []CreatedIsUp
<1>1. CommandInv => CreatedIsUp
  <2> SUFFICES ASSUME CommandInv, NEW p \in Procs, Finished(p, "create"),
                      target[p] \notin touched[p]
               PROVE  \E i \in Indices : ifs[i].live /\ ifs[i].name = cmd[p].dst /\ ifs[i].admin_up
    BY DEF CreatedIsUp
  <2>1. target[p] \in Indices
    BY DEF CommandInv, MirrorInv, TypeInv, TypeOK, ProcessTypeOK
  <2> QED BY <2>1 DEF CommandInv, Own, Creating, Finished
<1> QED BY <1>1, CommandInvHolds, PTL

\* An unset_span that returns 0 has removed every entry of its source, device
\* or L2, that was there all the time.
THEOREM UnsetWorks == Spec => []UnsetComplete
<1>1. CommandInv => UnsetComplete
  BY DEF CommandInv, Own, Gathering, UnsetComplete
<1> QED BY <1>1, CommandInvHolds, PTL

\* A show_span that returns 0 shows every entry of a port that was there all
\* the time, although it puts three answers of VPP together.
THEOREM ShowWorks == Spec => []ShowComplete
<1>1. CommandInv => ShowComplete
  <2> SUFFICES ASSUME CommandInv, NEW p \in Procs, Finished(p, "show_span"),
                      NEW k \in held[p], SourceCandidate(ifs[k.from]),
                      {k.from, k.to} \cap touched[p] = {}
               PROVE  \E row \in table[p] :
                        /\ row.src = k.from /\ (row.l2 # "*") = k.l2
                        /\ row.dst = IF interfaces[p][k.to].live THEN ifs[k.to].name ELSE Unknown
    BY DEF ShowComplete
  <2>1. k \in Key /\ k.from \in Indices \ touched[p] /\ k.to \in Indices \ touched[p]
    BY DEF CommandInv, Own, Standing, ActiveIn, Key
  <2>2. KeptIn(interfaces[p], ifs, touched[p]) /\ PortsIn(interfaces[p], ifs, touched[p])
    BY DEF CommandInv, Own, Standing, Gathering
  <2>3. SourceCandidate(interfaces[p][k.from])
    BY <2>1, <2>2 DEF PortsIn
  <2>4. Shown(p, k)
    BY <2>3 DEF CommandInv, Own, Gathering
  <2>5. NameIn(interfaces[p], k.to) = IF interfaces[p][k.to].live THEN ifs[k.to].name ELSE Unknown
    BY <2>1, <2>2 DEF KeptIn, NameIn
  <2> QED BY <2>4, <2>5 DEF Shown
<1> QED BY <1>1, CommandInvHolds, PTL

\* SetTakesEffect, for one step.
SetReturns ==
  \A p \in Procs : (SetEnds(p) /\ {cmd[p].src, target[p]} \cap touched[p] = {}) =>
    /\ span'[SetKey(p)] = StateOf(cmd[p].device)
    /\ ifs'[target[p]].live /\ ifs'[target[p]].name = cmd[p].dst
    /\ ifs'[target[p]].admin_up /\ ifs'[cmd[p].src].admin_up

\* A command ends a set_span only by its last request, carried out.
LEMMA OnlyEnableEnds ==
  ASSUME CommandInv, NEW p \in Procs, SetEnds(p), Command(p)
  PROVE  /\ Enable(p) /\ ifs' = ifs
         /\ span' = [span EXCEPT ![SetKey(p)] = StateOf(cmd[p].device)]
<1> USE DEF CommandInv, MirrorInv
<1>1. Enable(p) /\ (~Fail(p) \/ span' # span)
  <2>1. CASE pc[p] = "enable" /\ span' # span
    <3>1. ~Start(p) /\ ~CollectInterfaces(p) /\ ~CollectSpan(p, FALSE) /\ ~CollectSpan(p, TRUE)
      BY <2>1 DEF Start, CollectInterfaces, CollectSpan
    <3>2. ~CheckEnds(p) /\ ~SourceUp(p) /\ ~DestinationUp(p) /\ ~Disable(p) /\ ~UnsetDone(p)
      BY <2>1 DEF CheckEnds, SourceUp, DestinationUp, Disable, UnsetDone
    <3>3. ~CreateMemif(p) /\ ~CreatedUp(p) /\ ~RenderSpan(p) /\ ~ShowMemif(p) /\ ~ShowVersion(p)
      BY <2>1 DEF CreateMemif, CreatedUp, RenderSpan, ShowMemif, ShowVersion
    <3> QED BY <2>1, <3>1, <3>2, <3>3 DEF Command
  <2>2. CASE pc[p] # "done" /\ Finished(p, "set")'
    <3>1. rc[p] = 1 /\ pc'[p] = "done" /\ rc'[p] = 0 /\ cmd'[p].op = "set"
      BY <2>2 DEF Own, Standing, Finished
    <3>2. ~Fail(p) /\ \A l : Goto(p, l) => l = "done"
      BY <3>1, Arrival
    <3>3. ~Start(p) /\ ~CollectInterfaces(p) /\ ~CollectSpan(p, FALSE) /\ ~CollectSpan(p, TRUE)
          /\ ~CheckEnds(p)
      <4>1. FirstStep(cmd[p].op) # "done"
        BY DEF FirstStep
      <4> QED BY <3>2, <4>1 DEF Start, CollectInterfaces, CollectSpan, CheckEnds, DumpFails
    <3>4. ~SourceUp(p) /\ ~DestinationUp(p) /\ ~Disable(p) /\ ~CreateMemif(p)
      BY <3>2, CallMoves DEF SourceUp, DestinationUp, Disable, CreateMemif,
         boy_set_interface_admin_up, boy_set_span_entry
    <3>5. ~UnsetDone(p) /\ ~CreatedUp(p) /\ ~RenderSpan(p) /\ ~ShowMemif(p) /\ ~ShowVersion(p)
      BY <3>1, RouteOf DEF UnsetDone, CreatedUp, RenderSpan, ShowMemif, ShowVersion
    <3> QED BY <3>2, <3>3, <3>4, <3>5 DEF Command
  <2>3. SetEnds(p) => \/ pc[p] # "done" /\ Finished(p, "set")'
                      \/ pc[p] = "enable" /\ span' # span
    BY DEF SetEnds
  <2> QED BY <2>1, <2>2, <2>3
<1>2. boy_set_span_entry(p, SetKey(p), StateOf(cmd[p].device), "done")
  BY <1>1 DEF Enable
<1>3. CASE VppStays
  <2>1. Goto(p, "done") /\ ~Fail(p)
    BY <1>1, <1>2, <1>3, CallMoves DEF VppStays, boy_set_span_entry
  <2>2. VppBecomes(ifs, [span EXCEPT ![SetKey(p)] = StateOf(cmd[p].device)])
    BY <1>2, <2>1 DEF boy_set_span_entry, Call
  <2> QED BY <1>1, <2>2 DEF VppBecomes
<1>4. CASE VppBecomes(ifs, [span EXCEPT ![SetKey(p)] = StateOf(cmd[p].device)])
  BY <1>1, <1>4 DEF VppBecomes
<1> QED BY <1>2, <1>3, <1>4 DEF boy_set_span_entry, Call

\* A set_span that returns 0, or whose last answer is lost, has made VPP mirror
\* the source to the memif of the name given, with both ends admin-up, although it
\* worked from an old dump.
THEOREM SetWorks == Spec => SetTakesEffect
<1>1. CommandInv /\ [Next]_vars => [SetReturns]_vars
  <2> SUFFICES ASSUME CommandInv, Next, NEW p \in Procs, SetEnds(p),
                      {cmd[p].src, target[p]} \cap touched[p] = {}
               PROVE  /\ span'[SetKey(p)] = StateOf(cmd[p].device)
                      /\ ifs'[target[p]].live /\ ifs'[target[p]].name = cmd[p].dst
                      /\ ifs'[target[p]].admin_up /\ ifs'[cmd[p].src].admin_up
    BY DEF SetReturns
  <2> USE DEF CommandInv, MirrorInv
  <2>1. pc'[p] = "done" /\ pc[p] # "done" /\ (rc'[p] # rc[p] \/ span' # span)
    BY DEF SetEnds, Own, Standing, Finished
  <2>2. Command(p)
    <3>1. ASSUME NEW q \in Procs \ {p}, Command(q) PROVE FALSE
      BY <2>1, <3>1, CommandAside DEF Aside
    <3>2. ASSUME NEW q \in Procs, Killed(q) PROVE FALSE
      BY <2>1, <3>2 DEF Killed, Fail, vpp
    <3>3. ASSUME NEW kind, Meddle(kind) PROVE FALSE
      BY <2>1, <3>3 DEF Meddle
    <3>4. ~UNCHANGED vars
      BY <2>1 DEF vars
    <3> QED BY <3>1, <3>2, <3>3, <3>4 DEF Next, Terminated, Environment, OperatorDeletes,
            OperatorCreates, OperatorDowns, OperatorMirrors, VppRestarts
  <2>3. /\ ifs' = ifs /\ span' = [span EXCEPT ![SetKey(p)] = StateOf(cmd[p].device)]
        /\ pc[p] = "enable"
    BY <2>2, OnlyEnableEnds DEF Enable
  <2>4. /\ cmd[p].src \in Indices \ touched[p] /\ target[p] \in Indices \ touched[p]
        /\ SetKey(p) \in Key /\ span \in [Key -> States]
    BY DEF TypeInv, TypeOK, VppTypeOK, ProcessTypeOK, Request, SetKey, Key
  <2>5. /\ interfaces[p][target[p]].live /\ interfaces[p][target[p]].name = cmd[p].dst
        /\ ifs[cmd[p].src].admin_up /\ ifs[target[p]].admin_up
        /\ KeptIn(interfaces[p], ifs, touched[p])
    BY <2>3, <2>4 DEF Own, Setting, Standing
  <2> QED BY <2>3, <2>4, <2>5 DEF KeptIn
<1> QED BY <1>1, CommandInvHolds, PTL DEF Spec, SetTakesEffect, SetReturns
=============================================================================
