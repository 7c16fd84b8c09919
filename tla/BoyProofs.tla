----------------------------- MODULE BoyProofs -----------------------------
(* Theorems about Boy, for any number of processes, interfaces, requests   *)
(* and disturbances.                                                       *)
EXTENDS Boy, TLAPS

-----------------------------------------------------------------------------
(* Type correctness                                                        *)

IfsType  == [Indices -> Interface]
SpanType == [Key -> States]

\* Setting the admin flag of an interface keeps the type, and everything else.
LEMMA FlagType ==
  ASSUME NEW i \in Indices, NEW b \in BOOLEAN, ifs \in IfsType
  PROVE  /\ WithAdmin(i, b) \in IfsType
         /\ \A j \in Indices : /\ WithAdmin(i, b)[j].live = ifs[j].live
                               /\ WithAdmin(i, b)[j].name = ifs[j].name
                               /\ WithAdmin(i, b)[j].admin_up = (IF j = i THEN b ELSE ifs[j].admin_up)
BY DEF IfsType, Interface, WithAdmin

\* So does setting the state of a span entry.
LEMMA EntryType ==
  ASSUME NEW k \in Key, NEW s \in States, NEW f \in SpanType
  PROVE  [f EXCEPT ![k] = s] \in SpanType
BY DEF SpanType

\* The interfaces there are have the type of one.
LEMMA FixedType ==
  ASSUME NEW i \in Fixed, NEW up \in BOOLEAN
  PROVE  FixedInterface(i, up) \in Interface
BY BoyAssumption DEF Fixed, FixedInterface, Interface, FixedName, Names

\* A new memif has it, too.
LEMMA MemifType ==
  ASSUME NEW id \in MemifIds, NEW up \in BOOLEAN
  PROVE  Memif(id, up) \in Interface
BY DEF Memif, Interface, MemifName, Names

\* So does one of another type.
LEMMA OtherType ==
  ASSUME NEW i \in Indices, NEW kind \in {"port", "local"}
  PROVE  Other(kind, i) \in Interface
BY DEF Other, Interface, Names

\* The state sent for a device mode is a state that mirrors.
LEMMA StateOfType ==
  ASSUME NEW d \in Devices
  PROVE  StateOf(d) \in States /\ StateOf(d) # "disabled"
BY DEF StateOf, Devices, States

\* A step of a process keeps the types of its position and exit status.
LEMMA GotoType ==
  ASSUME NEW p \in Procs, NEW l \in Labels, ProcessTypeOK, Goto(p, l) \/ Fail(p)
  PROVE  pc' \in [Procs -> Labels] /\ rc' \in [Procs -> {0, 1}]
<1>1. CASE Goto(p, l)
  BY <1>1 DEF Goto, ProcessTypeOK
<1>2. CASE Fail(p)
  BY <1>2 DEF Fail, ProcessTypeOK, Labels
<1> QED BY <1>1, <1>2

\* VPP's new state has its type if the values a request installs have theirs.
LEMMA BecomesType ==
  ASSUME NEW f \in IfsType, NEW s \in SpanType, ProcessTypeOK, VppBecomes(f, s)
  PROVE  /\ ifs' \in [Indices -> Interface] /\ span' \in [Key -> States]
         /\ held' \in [Procs -> SUBSET Key]
BY DEF IfsType, SpanType, ProcessTypeOK, VppBecomes

\* What a request may change.
AnswerType ==
  /\ ifs \in [Indices -> Interface] /\ span \in [Key -> States]
  /\ held \in [Procs -> SUBSET Key]
  /\ pc \in [Procs -> Labels] /\ rc \in [Procs -> {0, 1}]

\* A request with any outcome keeps these types.
LEMMA CallType ==
  ASSUME NEW p \in Procs, NEW l \in Labels, NEW ok \in BOOLEAN,
         NEW f \in IfsType, NEW s \in SpanType, TypeOK, Call(p, ok, f, s, l)
  PROVE  AnswerType'
<1>1. pc' \in [Procs -> Labels] /\ rc' \in [Procs -> {0, 1}]
  <2>1. Goto(p, l) \/ Fail(p)
    BY DEF Call
  <2> QED BY <2>1, GotoType DEF TypeOK
<1>2. CASE VppBecomes(f, s)
  BY <1>1, <1>2, BecomesType DEF TypeOK, AnswerType
<1>3. CASE VppStays
  BY <1>1, <1>3 DEF VppStays, TypeOK, VppTypeOK, ProcessTypeOK, AnswerType
<1> QED BY <1>2, <1>3 DEF Call

\* So does the request that sets an interface admin-up.
LEMMA AdminUpType ==
  ASSUME NEW p \in Procs, NEW i \in Indices, NEW l \in Labels, TypeOK,
         boy_set_interface_admin_up(p, i, l)
  PROVE  AnswerType'
<1>1. ifs \in IfsType /\ span \in SpanType
  BY DEF TypeOK, VppTypeOK, IfsType, SpanType
<1>2. WithAdmin(i, TRUE) \in IfsType
  BY <1>1, FlagType
<1>3. PICK ok \in BOOLEAN : Call(p, ok, WithAdmin(i, TRUE), span, l)
  BY <1>1 DEF boy_set_interface_admin_up, IfsType, Interface
<1> QED BY <1>1, <1>2, <1>3, CallType

\* So does the request that sets a span entry.
LEMMA EntryCallType ==
  ASSUME NEW p \in Procs, NEW k \in Key, NEW s \in States, NEW l \in Labels, TypeOK,
         boy_set_span_entry(p, k, s, l)
  PROVE  AnswerType'
<1>1. ifs \in IfsType /\ span \in SpanType
  BY DEF TypeOK, VppTypeOK, IfsType, SpanType
<1>2. [span EXCEPT ![k] = s] \in SpanType
  BY <1>1, EntryType
<1>3. PICK ok \in BOOLEAN : Call(p, ok, ifs, [span EXCEPT ![k] = s], l)
  BY DEF boy_set_span_entry
<1> QED BY <1>1, <1>2, <1>3, CallType

\* The positions a command passes through.
Route(op) == CASE op = "create"     -> {"create", "created"}
               [] op = "set"        -> {"interfaces", "check", "src_up", "dst_up", "enable"}
               [] op = "unset"      -> {"interfaces", "span", "span_l2", "disable"}
               [] op = "show_span"  -> {"interfaces", "span", "span_l2", "render"}
               [] op = "show_memif" -> {"memifs"}
               [] op = "show_version" -> {"version"}

\* Every process runs its command.
Routed ==
  /\ cmd \in [Procs -> Requests]
  /\ \A p \in Procs : pc[p] \in Route(cmd[p].op) \cup {"idle", "done"}

\* The initial states have their types.
LEMMA InitType == Init => TypeOK
<1> SUFFICES ASSUME Init PROVE TypeOK
  OBVIOUS
<1> USE BoyAssumption
<1>1. ifs \in [Indices -> Interface] /\ span \in [Key -> States]
  <2>1. PICK b \in Before :
          /\ ifs = [i \in Indices |-> IF i \in Fixed THEN FixedInterface(i, i \in b.up)
                    ELSE IF i \in DOMAIN b.memifs THEN Memif(b.memifs[i], i \in b.up)
                    ELSE NoInterface]
          /\ span = [k \in Key |-> IF k \in b.mirrors THEN "rx_tx" ELSE "disabled"]
    BY DEF Init
  <2>2. \A i \in Fixed, up \in BOOLEAN : FixedInterface(i, up) \in Interface
    BY FixedType
  <2>3. \A i \in DOMAIN b.memifs, up \in BOOLEAN : Memif(b.memifs[i], up) \in Interface
    BY MemifType DEF Configured
  <2>4. NoInterface \in Interface
    BY DEF NoInterface, Interface
  <2>5. ifs \in [Indices -> Interface]
    <3>1. ASSUME NEW i \in Indices
          PROVE  (IF i \in Fixed THEN FixedInterface(i, i \in b.up)
                  ELSE IF i \in DOMAIN b.memifs THEN Memif(b.memifs[i], i \in b.up)
                  ELSE NoInterface) \in Interface
      <4>1. (i \in b.up) \in BOOLEAN
        OBVIOUS
      <4> QED BY <2>2, <2>3, <2>4, <4>1, Zenon
    <3> QED BY <2>1, <3>1, Zenon
  <2>6. span \in [Key -> States]
    BY <2>1 DEF States
  <2> QED BY <2>5, <2>6
<1>2. epoch \in Nat /\ meddled \in 0 .. MaxMeddle /\ freed \subseteq Indices
  BY DEF Init
<1>3. cmd \in [Procs -> Request] /\ target \in [Procs -> Indices]
  BY DEF Init, Request
<1>4. interfaces \in [Procs -> [Indices -> Interface]]
  BY DEF Init, NoInterface, Interface
<1>5. /\ pc \in [Procs -> Labels] /\ rc \in [Procs -> {0, 1}] /\ ctx \in [Procs -> Nat]
      /\ span_entries \in [Procs -> SUBSET [key : Key, state : States]]
      /\ held \in [Procs -> SUBSET Key] /\ touched \in [Procs -> SUBSET Indices]
  BY DEF Init, Labels
<1> QED BY <1>1, <1>2, <1>3, <1>4, <1>5 DEF TypeOK, VppTypeOK, ProcessTypeOK

\* A command's steps keep the types.
LEMMA CommandType ==
  ASSUME TypeOK, Routed, NEW p \in Procs, Command(p)
  PROVE  TypeOK'
<1> USE BoyAssumption DEF TypeOK, VppTypeOK, ProcessTypeOK
<1>a. cmd[p] \in Request /\ cmd[p].src \in Indices /\ cmd[p].device \in Devices
  BY DEF Request
<1>b. ifs \in IfsType /\ span \in SpanType
  BY DEF IfsType, SpanType
<1>1. CASE Start(p)
  <2>1. FirstStep(cmd[p].op) \in Labels
    BY DEF FirstStep, Labels
  <2>2. pc' \in [Procs -> Labels] /\ rc' \in [Procs -> {0, 1}]
    BY <1>1, <2>1, GotoType DEF Start
  <2>3. held' \in [Procs -> SUBSET Key] /\ touched' \in [Procs -> SUBSET Indices]
    BY <1>1 DEF Start, ActiveIn
  <2>4. ctx' \in [Procs -> Nat]
    BY <1>1 DEF Start, vpp
  <2> QED BY <1>1, <2>2, <2>3, <2>4 DEF Start, vpp, results
<1>2. CASE CollectInterfaces(p)
  <2>1. pc' \in [Procs -> Labels] /\ rc' \in [Procs -> {0, 1}]
    <3>1. (IF cmd[p].op = "set" THEN "check" ELSE "span") \in Labels
      BY DEF Labels
    <3> QED BY <1>2, <3>1, GotoType DEF CollectInterfaces, DumpFails
  <2>2. interfaces' \in [Procs -> [Indices -> Interface]]
    BY <1>2 DEF CollectInterfaces
  <2> QED BY <1>2, <2>1, <2>2 DEF CollectInterfaces, vpp, history
<1>3. ASSUME NEW l2 \in BOOLEAN, CollectSpan(p, l2) PROVE TypeOK'
  <2>1. pc' \in [Procs -> Labels] /\ rc' \in [Procs -> {0, 1}]
    <3>1. (IF ~l2 THEN "span_l2"
           ELSE IF cmd[p].op = "unset" THEN "disable" ELSE "render") \in Labels
      BY DEF Labels
    <3> QED BY <1>3, <3>1, GotoType DEF CollectSpan, DumpFails
  <2>2. Appended(p, l2) \in SUBSET [key : Key, state : States]
    BY DEF Appended, SpanDump, ActiveIn
  <2>3. span_entries' \in [Procs -> SUBSET [key : Key, state : States]]
    BY <1>3, <2>2 DEF CollectSpan
  <2> QED BY <1>3, <2>1, <2>3 DEF CollectSpan, vpp, history
<1>4. CASE CheckEnds(p)
  <2>1. pc' \in [Procs -> Labels] /\ rc' \in [Procs -> {0, 1}]
    <3>1. "src_up" \in Labels
      BY DEF Labels
    <3> QED BY <1>4, <3>1, GotoType DEF CheckEnds
  <2>2. target' \in [Procs -> Indices]
    BY <1>4 DEF CheckEnds
  <2> QED BY <1>4, <2>1, <2>2 DEF CheckEnds, vpp, history
<1>5. CASE SourceUp(p)
  <2>1. AnswerType'
    <3>1. CASE interfaces[p][cmd[p].src].admin_up
      <4>1. pc' \in [Procs -> Labels] /\ rc' \in [Procs -> {0, 1}]
        BY <1>5, <3>1, GotoType DEF SourceUp, Labels
      <4> QED BY <1>5, <3>1, <4>1 DEF SourceUp, VppStays, AnswerType
    <3>2. CASE ~interfaces[p][cmd[p].src].admin_up
      <4>1. boy_set_interface_admin_up(p, cmd[p].src, "dst_up")
        BY <1>5, <3>2 DEF SourceUp
      <4> QED BY <1>a, <4>1, AdminUpType DEF Labels
    <3> QED BY <3>1, <3>2
  <2> QED BY <1>5, <2>1 DEF SourceUp, results, AnswerType
<1>6. CASE DestinationUp(p)
  <2>1. AnswerType'
    <3>1. CASE interfaces[p][target[p]].admin_up
      <4>1. pc' \in [Procs -> Labels] /\ rc' \in [Procs -> {0, 1}]
        BY <1>6, <3>1, GotoType DEF DestinationUp, Labels
      <4> QED BY <1>6, <3>1, <4>1 DEF DestinationUp, VppStays, AnswerType
    <3>2. CASE ~interfaces[p][target[p]].admin_up
      <4>1. boy_set_interface_admin_up(p, target[p], "enable")
        BY <1>6, <3>2 DEF DestinationUp
      <4> QED BY <4>1, AdminUpType DEF Labels
    <3> QED BY <3>1, <3>2
  <2> QED BY <1>6, <2>1 DEF DestinationUp, results, AnswerType
<1>7. CASE Enable(p)
  <2>1. SetKey(p) \in Key
    BY <1>a DEF SetKey, Key
  <2>2. StateOf(cmd[p].device) \in States
    BY <1>a, StateOfType
  <2>3. AnswerType'
    BY <1>7, <2>1, <2>2, EntryCallType DEF Enable, Labels
  <2> QED BY <1>7, <2>3 DEF Enable, results, AnswerType
<1>8. CASE Disable(p)
  <2>1. PICK k \in ToRemove(p) :
          /\ boy_set_span_entry(p, k, "disabled", "disable")
          /\ span_entries' = [span_entries EXCEPT ![p] = {e \in @ : e.key # k}]
    BY <1>8 DEF Disable
  <2>2. k \in Key
    BY <2>1 DEF ToRemove
  <2>3. AnswerType'
    BY <2>1, <2>2, EntryCallType DEF States, Labels
  <2>4. span_entries' \in [Procs -> SUBSET [key : Key, state : States]]
    BY <2>1
  <2> QED BY <1>8, <2>3, <2>4 DEF Disable, AnswerType
<1>9. CASE UnsetDone(p)
  <2>1. pc' \in [Procs -> Labels] /\ rc' \in [Procs -> {0, 1}]
    BY <1>9, GotoType DEF UnsetDone, Labels
  <2> QED BY <1>9, <2>1 DEF UnsetDone, vpp, results, history
<1>10. CASE CreateMemif(p)
  <2>1. PICK i \in Indices, ok \in BOOLEAN :
          /\ Call(p, ok, [ifs EXCEPT ![i] = Memif(cmd[p].dst.n, FALSE)], span, "created")
          /\ target' = [target EXCEPT ![p] = i]
    BY <1>10 DEF CreateMemif
  <2>2. [ifs EXCEPT ![i] = Memif(cmd[p].dst.n, FALSE)] \in IfsType
    <3>1. cmd[p] \in Requests /\ cmd[p].op = "create"
      BY <1>10 DEF CreateMemif, Routed, Route, Request, Ops
    <3>2. cmd[p].dst \in Names /\ cmd[p].dst.kind = "memif"
      BY <1>a, <3>1 DEF Request
    <3>3. cmd[p].dst.n \in MemifIds
      BY <3>2 DEF Names
    <3> QED BY <1>b, <3>3, MemifType DEF IfsType
  <2>3. AnswerType'
    BY <1>b, <2>1, <2>2, CallType DEF Labels
  <2>4. target' \in [Procs -> Indices]
    BY <2>1
  <2> QED BY <1>10, <2>3, <2>4 DEF CreateMemif, AnswerType
<1>11. CASE CreatedUp(p)
  <2>1. AnswerType'
    BY <1>11, AdminUpType DEF CreatedUp, Labels
  <2> QED BY <1>11, <2>1 DEF CreatedUp, results, AnswerType
<1>12. CASE RenderSpan(p) \/ ShowMemif(p)
  <2>1. pc' \in [Procs -> Labels] /\ rc' \in [Procs -> {0, 1}]
    BY <1>12, GotoType DEF RenderSpan, ShowMemif, DumpFails, Labels
  <2> QED BY <1>12, <2>1 DEF RenderSpan, ShowMemif, vpp, history
<1>13. CASE ShowVersion(p)
  <2>1. AnswerType'
    BY <1>b, <1>13, CallType DEF ShowVersion, Labels
  <2> QED BY <1>13, <2>1 DEF ShowVersion, results, AnswerType
<1> QED BY <1>1, <1>2, <1>3, <1>4, <1>5, <1>6, <1>7, <1>8, <1>9, <1>10, <1>11, <1>12, <1>13 DEF Command

\* What happens behind boy's back keeps the types.
LEMMA EnvironmentType ==
  ASSUME TypeOK, Environment
  PROVE  TypeOK'
<1> USE BoyAssumption DEF TypeOK, VppTypeOK, ProcessTypeOK
<1>a. ifs \in IfsType /\ span \in SpanType
  BY DEF IfsType, SpanType
<1>1. ASSUME NEW p \in Procs, Killed(p) PROVE TypeOK'
  <2>1. pc' \in [Procs -> Labels] /\ rc' \in [Procs -> {0, 1}]
    BY <1>1, GotoType DEF Killed, Labels
  <2> QED BY <1>1, <2>1 DEF Killed, vpp, results, history
<1>2. ASSUME NEW kind, Meddle(kind), NEW f \in IfsType, NEW s \in SpanType, VppBecomes(f, s),
             touched' \in [Procs -> SUBSET Indices], epoch' \in Nat, freed' \subseteq Indices
      PROVE  TypeOK'
  <2>1. meddled' \in 0 .. MaxMeddle
    BY <1>2 DEF Meddle
  <2>2. /\ ifs' \in [Indices -> Interface] /\ span' \in [Key -> States]
        /\ held' \in [Procs -> SUBSET Key]
    BY <1>2, BecomesType
  <2> QED BY <1>2, <2>1, <2>2 DEF Meddle, results
<1>3. ASSUME NEW i \in Indices, OperatorDeletes(i) PROVE TypeOK'
  <2>1. PICK cleared : VppBecomes([ifs EXCEPT ![i] = NoInterface],
                         [k \in Key |-> IF k \in cleared THEN "disabled" ELSE span[k]])
    BY <1>3 DEF OperatorDeletes
  <2>2. [ifs EXCEPT ![i] = NoInterface] \in IfsType
    BY <1>a DEF IfsType, NoInterface, Interface
  <2>3. [k \in Key |-> IF k \in cleared THEN "disabled" ELSE span[k]] \in SpanType
    BY DEF SpanType, States
  <2> QED BY <1>2, <1>3, <2>1, <2>2, <2>3 DEF OperatorDeletes, Touch
<1>4. ASSUME NEW i \in Indices, OperatorDowns(i) PROVE TypeOK'
  <2>1. WithAdmin(i, FALSE) \in IfsType
    BY <1>a, FlagType
  <2> QED BY <1>a, <1>2, <1>4, <2>1 DEF OperatorDowns, Touch
<1>5. ASSUME NEW k \in Key, OperatorMirrors(k) PROVE TypeOK'
  <2>1. [span EXCEPT ![k] = "rx_tx"] \in SpanType
    BY <1>a, EntryType DEF States
  <2> QED BY <1>a, <1>2, <1>5, <2>1 DEF OperatorMirrors
<1>6. CASE VppRestarts
  <2>1. [i \in Indices |-> IF i \in Fixed THEN FixedInterface(i, FALSE) ELSE NoInterface] \in IfsType
    BY FixedType DEF IfsType, NoInterface, Interface
  <2>2. [k \in Key |-> "disabled"] \in SpanType
    BY DEF SpanType, States
  <2> QED BY <1>2, <1>6, <2>1, <2>2 DEF VppRestarts, Touch
<1>7. ASSUME NEW i \in Indices, NEW kind \in {"port", "local"}, OperatorCreates(i, kind)
      PROVE  TypeOK'
  <2>1. [ifs EXCEPT ![i] = Other(kind, i)] \in IfsType
    BY <1>a, OtherType DEF IfsType
  <2> QED BY <1>a, <1>2, <1>7, <2>1 DEF OperatorCreates, Touch
<1> QED BY <1>1, <1>3, <1>4, <1>5, <1>6, <1>7 DEF Environment

-----------------------------------------------------------------------------
(* Every process runs its command                                          *)

\* Moving on along the route, or to the end, keeps to it.
LEMMA MoveRouted ==
  ASSUME TypeOK, Routed, NEW p \in Procs, UNCHANGED cmd,
         NEW l \in Route(cmd[p].op) \cup {"done"}, Goto(p, l) \/ Fail(p)
  PROVE  Routed'
BY DEF TypeOK, ProcessTypeOK, Routed, Goto, Fail

\* A request moves the process on or ends it.
LEMMA CallMoves ==
  ASSUME NEW p \in Procs, NEW l, NEW ok, NEW f, NEW s, Call(p, ok, f, s, l)
  PROVE  Goto(p, l) \/ Fail(p)
BY DEF Call

\* A command's steps keep to its route.
LEMMA CommandRouted ==
  ASSUME TypeOK, Routed, NEW p \in Procs, Command(p)
  PROVE  Routed'
<1> USE DEF Request, Ops
<1>a. cmd[p].op \in Ops /\ pc[p] \in Route(cmd[p].op) \cup {"idle", "done"}
  BY DEF TypeOK, ProcessTypeOK, Routed
<1>1. CASE Start(p)
  <2>1. FirstStep(cmd[p].op) \in Route(cmd[p].op)
    BY <1>a DEF FirstStep, Route
  <2> QED BY <1>1, <2>1, MoveRouted DEF Start
<1>2. CASE CollectInterfaces(p)
  <2>1. (IF cmd[p].op = "set" THEN "check" ELSE "span") \in Route(cmd[p].op)
    BY <1>2, <1>a DEF CollectInterfaces, Route
  <2> QED BY <1>2, <2>1, MoveRouted DEF CollectInterfaces, DumpFails
<1>3. ASSUME NEW l2 \in BOOLEAN, CollectSpan(p, l2) PROVE Routed'
  <2>1. (IF ~l2 THEN "span_l2"
         ELSE IF cmd[p].op = "unset" THEN "disable" ELSE "render") \in Route(cmd[p].op)
    BY <1>3, <1>a DEF CollectSpan, Route
  <2> QED BY <1>3, <2>1, MoveRouted DEF CollectSpan, DumpFails
<1>4. CASE CheckEnds(p)
  <2>1. "src_up" \in Route(cmd[p].op)
    BY <1>4, <1>a DEF CheckEnds, Route
  <2> QED BY <1>4, <2>1, MoveRouted DEF CheckEnds
<1>5. CASE SourceUp(p)
  <2>1. "dst_up" \in Route(cmd[p].op)
    BY <1>5, <1>a DEF SourceUp, Route
  <2>2. Goto(p, "dst_up") \/ Fail(p)
    BY <1>5, CallMoves DEF SourceUp, boy_set_interface_admin_up
  <2> QED BY <1>5, <2>1, <2>2, MoveRouted DEF SourceUp
<1>6. CASE DestinationUp(p)
  <2>1. "enable" \in Route(cmd[p].op)
    BY <1>6, <1>a DEF DestinationUp, Route
  <2>2. Goto(p, "enable") \/ Fail(p)
    BY <1>6, CallMoves DEF DestinationUp, boy_set_interface_admin_up
  <2> QED BY <1>6, <2>1, <2>2, MoveRouted DEF DestinationUp
<1>7. CASE Enable(p)
  BY <1>7, CallMoves, MoveRouted DEF Enable, boy_set_span_entry
<1>8. CASE Disable(p)
  <2>1. "disable" \in Route(cmd[p].op)
    BY <1>8, <1>a DEF Disable
  <2>2. Goto(p, "disable") \/ Fail(p)
    BY <1>8, CallMoves DEF Disable, boy_set_span_entry
  <2> QED BY <1>8, <2>1, <2>2, MoveRouted DEF Disable
<1>9. CASE UnsetDone(p)
  BY <1>9, MoveRouted DEF UnsetDone
<1>10. CASE CreateMemif(p)
  <2>1. "created" \in Route(cmd[p].op)
    BY <1>10, <1>a DEF CreateMemif, Route
  <2>2. Goto(p, "created") \/ Fail(p)
    BY <1>10, CallMoves DEF CreateMemif
  <2> QED BY <1>10, <2>1, <2>2, MoveRouted DEF CreateMemif
<1>11. CASE CreatedUp(p)
  BY <1>11, CallMoves, MoveRouted DEF CreatedUp, boy_set_interface_admin_up
<1>12. CASE RenderSpan(p) \/ ShowMemif(p)
  BY <1>12, MoveRouted DEF RenderSpan, ShowMemif, DumpFails, results
<1>13. CASE ShowVersion(p)
  BY <1>13, CallMoves, MoveRouted DEF ShowVersion
<1> QED BY <1>1, <1>2, <1>3, <1>4, <1>5, <1>6, <1>7, <1>8, <1>9, <1>10, <1>11, <1>12, <1>13 DEF Command

\* What happens behind boy's back takes no process off its route.
LEMMA EnvironmentRouted ==
  ASSUME TypeOK, Routed, Environment
  PROVE  Routed'
<1>1. ASSUME NEW p \in Procs, Killed(p) PROVE Routed'
  BY <1>1, MoveRouted DEF Killed
<1>2. ASSUME NEW kind, Meddle(kind) PROVE Routed'
  BY <1>2 DEF Meddle, Routed
<1> QED BY <1>1, <1>2 DEF Environment, OperatorDeletes, OperatorCreates, OperatorDowns,
                            OperatorMirrors, VppRestarts

\* The types together with the routes are inductive.
TypeInv == TypeOK /\ Routed

\* Every step keeps them.
LEMMA TypeInvStep == TypeInv /\ [Next]_vars => TypeInv'
<1> SUFFICES ASSUME TypeInv, [Next]_vars PROVE TypeInv'
  OBVIOUS
<1>1. ASSUME NEW p \in Procs, Command(p) PROVE TypeInv'
  BY <1>1, CommandType, CommandRouted DEF TypeInv
<1>2. CASE Environment
  BY <1>2, EnvironmentType, EnvironmentRouted DEF TypeInv
<1>3. CASE UNCHANGED vars
  BY <1>3 DEF TypeInv, TypeOK, VppTypeOK, ProcessTypeOK, Routed, vars, vpp, results, history
<1> QED BY <1>1, <1>2, <1>3 DEF Next, Terminated

\* So they always hold.
LEMMA TypeInvHolds == Spec => []TypeInv
<1>1. Init => TypeInv
  BY InitType DEF Init, TypeInv, Routed
<1> QED BY <1>1, TypeInvStep, PTL DEF Spec

\* Every variable keeps its type, whatever fails and whoever meddles.
THEOREM TypeCorrect == Spec => []TypeOK
BY TypeInvHolds, PTL DEF TypeInv

-----------------------------------------------------------------------------
(* What a command's step does to VPP                                       *)

\* A request has its effect or none.
LEMMA CallEffect ==
  ASSUME NEW p \in Procs, NEW l, NEW ok, NEW f, NEW s, Call(p, ok, f, s, l)
  PROVE  (Serves(p) /\ ok /\ ifs' = f /\ span' = s) \/ (ifs' = ifs /\ span' = span)
BY DEF Call, VppBecomes, VppStays

\* The request that sets an interface admin-up leaves the span entries alone.
LEMMA AdminUpEffect ==
  ASSUME NEW p \in Procs, NEW i, NEW l, boy_set_interface_admin_up(p, i, l)
  PROVE  span' = span /\ ifs' \in {ifs, WithAdmin(i, TRUE)}
<1>1. PICK ok : Call(p, ok, WithAdmin(i, TRUE), span, l)
  BY DEF boy_set_interface_admin_up
<1> QED BY <1>1, CallEffect

\* The request that sets a span entry leaves the interfaces alone.
LEMMA EntryEffect ==
  ASSUME NEW p \in Procs, NEW k, NEW s, NEW l, boy_set_span_entry(p, k, s, l)
  PROVE  /\ ifs' = ifs /\ span' \in {span, [span EXCEPT ![k] = s]}
         /\ span' # span => Serves(p) /\ ifs[k.to].live
<1>1. PICK ok \in BOOLEAN : /\ ok => ifs[k.to].live
                            /\ Call(p, ok, ifs, [span EXCEPT ![k] = s], l)
  BY DEF boy_set_span_entry
<1> QED BY <1>1, CallEffect

\* The creation of a memif at a free index leaves the span entries alone.
LEMMA CreateEffect ==
  ASSUME NEW p \in Procs, CreateMemif(p)
  PROVE  /\ span' = span
         /\ \/ ifs' = ifs
            \/ \E i \in Indices :
                 ~ifs[i].live /\ ifs' = [ifs EXCEPT ![i] = Memif(cmd[p].dst.n, FALSE)]
<1>1. PICK i \in Indices, ok \in BOOLEAN :
        /\ ok => ~ifs[i].live
        /\ Call(p, ok, [ifs EXCEPT ![i] = Memif(cmd[p].dst.n, FALSE)], span, "created")
  BY DEF CreateMemif
<1> QED BY <1>1, CallEffect

\* The span entries change by a set_span of its entry or by an unset_span of an
\* entry of its source.
LEMMA CommandSpan ==
  ASSUME TypeInv, NEW p \in Procs, Command(p)
  PROVE  \/ span' = span
         \/ /\ pc[p] = "enable" /\ Serves(p) /\ ifs[target[p]].live
            /\ span' = [span EXCEPT ![SetKey(p)] = StateOf(cmd[p].device)]
         \/ /\ pc[p] = "disable"
            /\ \E k \in Key : k.from = cmd[p].src /\ span' = [span EXCEPT ![k] = "disabled"]
<1>1. CASE Start(p) \/ CollectInterfaces(p) \/ CollectSpan(p, FALSE) \/ CollectSpan(p, TRUE)
           \/ CheckEnds(p) \/ UnsetDone(p) \/ RenderSpan(p) \/ ShowMemif(p)
  BY <1>1 DEF Start, CollectInterfaces, CollectSpan, CheckEnds, UnsetDone, RenderSpan, ShowMemif, vpp
<1>2. CASE SourceUp(p) \/ DestinationUp(p) \/ CreatedUp(p)
  BY <1>2, AdminUpEffect DEF SourceUp, DestinationUp, CreatedUp, VppStays
<1>3. CASE Enable(p)
  BY <1>3, EntryEffect DEF Enable, SetKey
<1>4. CASE Disable(p)
  <2>1. PICK k \in ToRemove(p) : boy_set_span_entry(p, k, "disabled", "disable")
    BY <1>4 DEF Disable
  <2>2. k \in Key /\ k.from = cmd[p].src
    BY <2>1 DEF ToRemove, TypeInv, TypeOK, ProcessTypeOK
  <2>3. pc[p] = "disable"
    BY <1>4 DEF Disable
  <2>4. span' \in {span, [span EXCEPT ![k] = "disabled"]}
    BY <2>1, EntryEffect
  <2> QED BY <2>2, <2>3, <2>4
<1>5. CASE CreateMemif(p)
  BY <1>5, CreateEffect
<1>6. CASE ShowVersion(p)
  BY <1>6, CallEffect DEF ShowVersion
<1> QED BY <1>1, <1>2, <1>3, <1>4, <1>5, <1>6 DEF Command

\* The interfaces change by a flag or by a new memif.
LEMMA CommandIfs ==
  ASSUME NEW p \in Procs, TypeInv, Command(p)
  PROVE  \/ ifs' = ifs
         \/ \E i \in Indices : ifs' = WithAdmin(i, TRUE)
         \/ \E i \in Indices : \E id : ~ifs[i].live /\ ifs' = [ifs EXCEPT ![i] = Memif(id, FALSE)]
<1>1. CASE Start(p) \/ CollectInterfaces(p) \/ CollectSpan(p, FALSE) \/ CollectSpan(p, TRUE)
           \/ CheckEnds(p) \/ UnsetDone(p) \/ RenderSpan(p) \/ ShowMemif(p)
  BY <1>1 DEF Start, CollectInterfaces, CollectSpan, CheckEnds, UnsetDone, RenderSpan, ShowMemif, vpp
<1>2. cmd[p].src \in Indices /\ target[p] \in Indices
  BY DEF TypeInv, TypeOK, ProcessTypeOK, Request
<1>3. CASE SourceUp(p) \/ DestinationUp(p) \/ CreatedUp(p)
  BY <1>2, <1>3, AdminUpEffect DEF SourceUp, DestinationUp, CreatedUp, VppStays
<1>4. CASE Enable(p) \/ Disable(p)
  BY <1>4, EntryEffect DEF Enable, Disable
<1>5. CASE CreateMemif(p)
  BY <1>5, CreateEffect
<1>6. CASE ShowVersion(p)
  BY <1>6, CallEffect DEF ShowVersion
<1> QED BY <1>1, <1>3, <1>4, <1>5, <1>6 DEF Command

-----------------------------------------------------------------------------
(* Only an unset_span of its own source removes an entry                   *)

\* OnlyOwnSource, for one step.
RemovalsOwn ==
  \A k \in Key : (span[k] # "disabled" /\ span'[k] = "disabled" /\ meddled' = meddled) =>
    \E p \in Procs : cmd[p].op = "unset" /\ cmd[p].src = k.from /\ pc[p] = "disable"

\* A process removes entries only in the loop of an unset_span.
LEMMA CommandRemoves ==
  ASSUME TypeInv, NEW p \in Procs, Command(p)
  PROVE  RemovalsOwn
<1> SUFFICES ASSUME NEW k \in Key, span[k] # "disabled", span'[k] = "disabled"
             PROVE  cmd[p].op = "unset" /\ cmd[p].src = k.from /\ pc[p] = "disable"
  BY DEF RemovalsOwn
<1>1. span \in [Key -> States] /\ cmd[p] \in Request /\ cmd[p].device \in Devices
  BY DEF TypeInv, TypeOK, VppTypeOK, ProcessTypeOK, Request
<1>2. StateOf(cmd[p].device) # "disabled"
  BY <1>1, StateOfType
<1>3. PICK j \in Key : /\ pc[p] = "disable" /\ j.from = cmd[p].src
                       /\ span' = [span EXCEPT ![j] = "disabled"]
  BY <1>1, <1>2, CommandSpan
<1>4. j = k
  BY <1>1, <1>3
<1>5. cmd[p].op = "unset"
  BY <1>1, <1>3 DEF TypeInv, Routed, Route, Request, Ops
<1> QED BY <1>3, <1>4, <1>5

\* An entry goes away only by an unset_span of its own source, unless VPP was
\* meddled with: for any number of commands side by side.
THEOREM OwnSourceOnly == Spec => OnlyOwnSource
<1>1. TypeInv /\ [Next]_vars => [RemovalsOwn]_vars
  <2> SUFFICES ASSUME TypeInv, Next PROVE RemovalsOwn \/ UNCHANGED vars
    OBVIOUS
  <2>1. ASSUME NEW p \in Procs, Command(p) PROVE RemovalsOwn
    BY <2>1, CommandRemoves
  <2>2. ASSUME NEW p \in Procs, Killed(p) PROVE RemovalsOwn
    BY <2>2 DEF Killed, RemovalsOwn, vpp
  <2>3. ASSUME NEW kind, Meddle(kind) PROVE RemovalsOwn
    <3>1. meddled' # meddled
      BY <2>3 DEF Meddle, TypeInv, TypeOK, VppTypeOK
    <3> QED BY <3>1 DEF RemovalsOwn
  <2> QED BY <2>1, <2>2, <2>3 DEF Next, Terminated, Environment, OperatorDeletes,
                                  OperatorCreates, OperatorDowns, OperatorMirrors, VppRestarts
<1> QED BY <1>1, TypeInvHolds, PTL DEF Spec, OnlyOwnSource, RemovalsOwn

-----------------------------------------------------------------------------
(* Mirrors lead to memifs                                                  *)

\* The interfaces of f are those of g, under their names, except at indices in S.
StandsIn(f, g, S) ==
  \A i \in Indices \ S : f[i].live => g[i].live /\ g[i].name = f[i].name

\* What a dump of the running VPP showed stands, except at indices VPP has freed.
Remembered ==
  \A p \in Procs :
    /\ ctx[p] <= epoch
    /\ pc[p] = "idle" => \A i \in Indices : ~interfaces[p][i].live
    /\ Serves(p) => StandsIn(interfaces[p], ifs, freed)

\* Every mirror of boy leads to another interface, at an index VPP has freed or
\* to a memif.
Proper ==
  \A k \in Key : (span[k] # "disabled" /\ ~k.l2) =>
    /\ k.from # k.to
    /\ k.to \notin freed => ifs[k.to].live /\ ifs[k.to].name.kind = "memif"

\* What a set_span has chosen was a memif in its dump, and not the source.
Chosen ==
  \A p \in Procs : pc[p] \in {"src_up", "dst_up", "enable"} =>
    /\ interfaces[p][target[p]].live /\ interfaces[p][target[p]].name.kind = "memif"
    /\ target[p] # cmd[p].src

MirrorInv == TypeInv /\ Remembered /\ Proper /\ Chosen

\* Initially VPP has what an earlier command may have left.
LEMMA MirrorInit == Init => Remembered /\ Proper /\ Chosen
<1> SUFFICES ASSUME Init PROVE Remembered /\ Proper /\ Chosen
  OBVIOUS
<1>1. PICK b \in Before :
        /\ ifs = [i \in Indices |-> IF i \in Fixed THEN FixedInterface(i, i \in b.up)
                  ELSE IF i \in DOMAIN b.memifs THEN Memif(b.memifs[i], i \in b.up)
                  ELSE NoInterface]
        /\ span = [k \in Key |-> IF k \in b.mirrors THEN "rx_tx" ELSE "disabled"]
  BY DEF Init
<1>2. Remembered
  BY DEF Init, Remembered, StandsIn, NoInterface
<1>3. Proper
  <2> SUFFICES ASSUME NEW k \in Key, span[k] # "disabled"
               PROVE  k.from # k.to /\ ifs[k.to].live /\ ifs[k.to].name.kind = "memif"
    BY DEF Proper
  <2>1. k \in b.mirrors /\ k.to \in Indices
    BY <1>1 DEF Key
  <2>2. k.from # k.to /\ k.to \in DOMAIN b.memifs /\ k.to \notin Fixed
    BY <2>1, BoyAssumption DEF Configured
  <2> QED BY <1>1, <2>1, <2>2 DEF Memif, MemifName
<1>4. Chosen
  BY DEF Init, Chosen
<1> QED BY <1>2, <1>3, <1>4

\* A command's steps leave every interface where it is, under its name.
LEMMA CommandStands ==
  ASSUME TypeInv, NEW p \in Procs, Command(p)
  PROVE  StandsIn(ifs, ifs', {})
<1>1. ifs \in IfsType
  BY DEF TypeInv, TypeOK, VppTypeOK, IfsType
<1>2. CASE ifs' = ifs
  BY <1>2 DEF StandsIn
<1>3. ASSUME NEW i \in Indices, ifs' = WithAdmin(i, TRUE) PROVE StandsIn(ifs, ifs', {})
  <2>1. \A j \in Indices : ifs'[j].live = ifs[j].live /\ ifs'[j].name = ifs[j].name
    BY <1>1, <1>3, FlagType
  <2> QED BY <2>1 DEF StandsIn
<1>4. ASSUME NEW i \in Indices, NEW id, ~ifs[i].live, ifs' = [ifs EXCEPT ![i] = Memif(id, FALSE)]
      PROVE  StandsIn(ifs, ifs', {})
  BY <1>1, <1>4 DEF StandsIn, IfsType
<1> QED BY <1>2, <1>3, <1>4, CommandIfs, Zenon

\* A command's step takes its process on, and nothing away from VPP.
LEMMA CommandMoves ==
  ASSUME TypeInv, NEW p \in Procs, Command(p)
  PROVE  /\ pc' # pc => pc' = [pc EXCEPT ![p] = pc'[p]]
         /\ pc'[p] # "idle"
         /\ UNCHANGED <<epoch, freed, cmd>>
<1> USE DEF TypeInv, TypeOK, ProcessTypeOK
<1>1. ASSUME NEW l, l # "idle", Goto(p, l) \/ Fail(p)
      PROVE  (pc' # pc => pc' = [pc EXCEPT ![p] = pc'[p]]) /\ pc'[p] # "idle"
  BY <1>1 DEF Goto, Fail
<1>2. CASE Start(p)
  <2>1. FirstStep(cmd[p].op) # "idle"
    BY DEF FirstStep
  <2> QED BY <1>1, <1>2, <2>1 DEF Start, vpp
<1>3. CASE CollectInterfaces(p) \/ CollectSpan(p, FALSE) \/ CollectSpan(p, TRUE) \/ CheckEnds(p)
  BY <1>1, <1>3 DEF CollectInterfaces, CollectSpan, CheckEnds, DumpFails, vpp
<1>4. CASE SourceUp(p) \/ DestinationUp(p) \/ CreatedUp(p) \/ ShowVersion(p)
  BY <1>1, <1>4, CallMoves DEF SourceUp, DestinationUp, CreatedUp, ShowVersion,
     boy_set_interface_admin_up
<1>5. CASE Enable(p) \/ Disable(p)
  BY <1>1, <1>5, CallMoves DEF Enable, Disable, boy_set_span_entry
<1>6. CASE CreateMemif(p)
  BY <1>1, <1>6, CallMoves DEF CreateMemif
<1>7. CASE UnsetDone(p) \/ RenderSpan(p) \/ ShowMemif(p)
  BY <1>1, <1>7 DEF UnsetDone, RenderSpan, ShowMemif, DumpFails, vpp
<1> QED BY <1>2, <1>3, <1>4, <1>5, <1>6, <1>7 DEF Command

\* The dump of a command and its connection are made by one step each.
LEMMA CommandLooks ==
  ASSUME TypeInv, NEW p \in Procs, Command(p)
  PROVE  /\ \/ UNCHANGED interfaces
            \/ Serves(p) /\ ifs' = ifs /\ interfaces' = [interfaces EXCEPT ![p] = ifs]
         /\ \/ UNCHANGED ctx
            \/ pc[p] = "idle" /\ UNCHANGED interfaces /\ ctx' = [ctx EXCEPT ![p] = epoch]
<1>1. CASE Start(p)
  BY <1>1 DEF Start, results
<1>2. CASE CollectInterfaces(p)
  BY <1>2 DEF CollectInterfaces, vpp
<1>3. CASE ~Start(p) /\ ~CollectInterfaces(p)
  BY <1>3 DEF Command, CollectSpan, CheckEnds, SourceUp, DestinationUp, Enable, Disable,
     UnsetDone, CreateMemif, CreatedUp, RenderSpan, ShowMemif, ShowVersion, results
<1> QED BY <1>1, <1>2, <1>3

\* Dumps stay good while commands work.
LEMMA CommandRemembers ==
  ASSUME MirrorInv, NEW p \in Procs, Command(p)
  PROVE  Remembered'
<1> USE DEF MirrorInv, TypeInv
<1> SUFFICES ASSUME NEW q \in Procs
             PROVE  /\ ctx'[q] <= epoch'
                    /\ pc'[q] = "idle" => \A i \in Indices : ~interfaces'[q][i].live
                    /\ Serves(q)' => StandsIn(interfaces'[q], ifs', freed')
  BY DEF Remembered, StandsIn
<1>1. /\ ctx \in [Procs -> Nat] /\ epoch \in Nat /\ epoch' = epoch /\ freed' = freed
      /\ interfaces \in [Procs -> [Indices -> Interface]] /\ pc \in [Procs -> Labels]
  BY CommandMoves DEF TypeOK, VppTypeOK, ProcessTypeOK
<1>2. StandsIn(ifs, ifs', {})
  BY CommandStands
<1>3. CASE q # p
  <2>1. ctx'[q] = ctx[q] /\ interfaces'[q] = interfaces[q] /\ pc'[q] = pc[q]
    BY <1>1, <1>3, CommandLooks, CommandMoves
  <2> QED BY <1>1, <1>2, <2>1 DEF Remembered, Serves, StandsIn
<1>4. CASE q = p
  <2>1. pc'[p] # "idle"
    BY CommandMoves
  <2>2. CASE UNCHANGED ctx /\ UNCHANGED interfaces
    BY <1>1, <1>2, <1>4, <2>1, <2>2 DEF Remembered, Serves, StandsIn
  <2>3. CASE UNCHANGED ctx /\ ifs' = ifs /\ interfaces' = [interfaces EXCEPT ![p] = ifs]
    BY <1>1, <1>4, <2>1, <2>3 DEF Remembered, StandsIn
  <2>4. CASE pc[p] = "idle" /\ UNCHANGED interfaces /\ ctx' = [ctx EXCEPT ![p] = epoch]
    BY <1>1, <1>4, <2>1, <2>4 DEF Remembered, StandsIn
  <2> QED BY <2>2, <2>3, <2>4, CommandLooks
<1> QED BY <1>3, <1>4

\* A process that has moved on alone keeps Chosen if it stands well.
LEMMA ChosenStep ==
  ASSUME TypeOK, Chosen, NEW p \in Procs, NEW l, Goto(p, l) \/ Fail(p), UNCHANGED cmd,
         \A q \in Procs \ {p} : target'[q] = target[q] /\ interfaces'[q] = interfaces[q],
         l \in {"src_up", "dst_up", "enable"} =>
           /\ interfaces'[p][target'[p]].live /\ interfaces'[p][target'[p]].name.kind = "memif"
           /\ target'[p] # cmd[p].src
  PROVE  Chosen'
<1> SUFFICES ASSUME NEW q \in Procs, pc'[q] \in {"src_up", "dst_up", "enable"}
             PROVE  /\ interfaces'[q][target'[q]].live
                    /\ interfaces'[q][target'[q]].name.kind = "memif"
                    /\ target'[q] # cmd[q].src
  BY DEF Chosen
<1>1. CASE q # p
  <2>1. pc'[q] = pc[q]
    BY <1>1 DEF Goto, Fail, TypeOK, ProcessTypeOK
  <2> QED BY <1>1, <2>1 DEF Chosen
<1>2. CASE q = p
  <2>1. pc'[p] = l
    BY <1>2 DEF Goto, Fail, TypeOK, ProcessTypeOK
  <2> QED BY <1>2, <2>1
<1> QED BY <1>1, <1>2

\* A set_span keeps the memif that it has chosen.
LEMMA CommandChosen ==
  ASSUME MirrorInv, NEW p \in Procs, Command(p)
  PROVE  Chosen'
<1> USE DEF MirrorInv, TypeInv
<1>a. /\ target \in [Procs -> Indices] /\ cmd[p].op \in Ops
      /\ interfaces \in [Procs -> [Indices -> Interface]]
  BY DEF TypeOK, ProcessTypeOK, Request
<1>1. CASE Start(p)
  <2>1. FirstStep(cmd[p].op) \notin {"src_up", "dst_up", "enable"}
    BY <1>a DEF FirstStep, Ops
  <2> QED BY <1>1, <2>1, ChosenStep DEF Start, results
<1>2. CASE CollectInterfaces(p)
  <2>1. (IF cmd[p].op = "set" THEN "check" ELSE "span") \notin {"src_up", "dst_up", "enable"}
    OBVIOUS
  <2>2. \A q \in Procs \ {p} : target'[q] = target[q] /\ interfaces'[q] = interfaces[q]
    BY <1>a, <1>2 DEF CollectInterfaces
  <2> QED BY <1>2, <2>1, <2>2, ChosenStep DEF CollectInterfaces, DumpFails
<1>3. ASSUME NEW l2 \in BOOLEAN, CollectSpan(p, l2) PROVE Chosen'
  <2>1. (IF ~l2 THEN "span_l2" ELSE IF cmd[p].op = "unset" THEN "disable" ELSE "render")
          \notin {"src_up", "dst_up", "enable"}
    OBVIOUS
  <2> QED BY <1>3, <2>1, ChosenStep DEF CollectSpan, DumpFails
<1>4. CASE CheckEnds(p)
  <2>1. CASE Fail(p) /\ UNCHANGED target
    BY <1>4, <2>1, ChosenStep DEF CheckEnds
  <2>2. ASSUME NEW i \in Indices, Named(p, i), Mirrorable(p, i), Goto(p, "src_up"),
               target' = [target EXCEPT ![p] = i]
        PROVE  Chosen'
    <3>1. target'[p] = i /\ \A q \in Procs \ {p} : target'[q] = target[q]
      BY <1>a, <2>2
    <3>2. interfaces' = interfaces /\ cmd' = cmd
      BY <1>4 DEF CheckEnds
    <3> QED BY <2>2, <3>1, <3>2, ChosenStep DEF Named, Mirrorable
  <2> QED BY <1>4, <2>1, <2>2 DEF CheckEnds
<1>5. CASE SourceUp(p)
  <2>1. Goto(p, "dst_up") \/ Fail(p)
    BY <1>5, CallMoves DEF SourceUp, boy_set_interface_admin_up
  <2> QED BY <1>5, <2>1, ChosenStep DEF SourceUp, results, Chosen
<1>6. CASE DestinationUp(p)
  <2>1. Goto(p, "enable") \/ Fail(p)
    BY <1>6, CallMoves DEF DestinationUp, boy_set_interface_admin_up
  <2> QED BY <1>6, <2>1, ChosenStep DEF DestinationUp, results, Chosen
<1>7. CASE Enable(p)
  BY <1>7, CallMoves, ChosenStep DEF Enable, boy_set_span_entry, results
<1>8. CASE Disable(p)
  <2>1. Goto(p, "disable") \/ Fail(p)
    BY <1>8, CallMoves DEF Disable, boy_set_span_entry
  <2> QED BY <1>8, <2>1, ChosenStep DEF Disable
<1>9. CASE UnsetDone(p)
  BY <1>9, ChosenStep DEF UnsetDone, results
<1>10. CASE CreateMemif(p)
  <2>1. Goto(p, "created") \/ Fail(p)
    BY <1>10, CallMoves DEF CreateMemif
  <2>2. \A q \in Procs \ {p} : target'[q] = target[q] /\ interfaces'[q] = interfaces[q]
    BY <1>10, <1>a DEF CreateMemif
  <2>3. UNCHANGED cmd
    BY <1>10 DEF CreateMemif
  <2> QED BY <2>1, <2>2, <2>3, ChosenStep
<1>11. CASE CreatedUp(p)
  BY <1>11, CallMoves, ChosenStep DEF CreatedUp, boy_set_interface_admin_up, results
<1>12. CASE RenderSpan(p) \/ ShowMemif(p)
  BY <1>12, ChosenStep DEF RenderSpan, ShowMemif, DumpFails
<1>13. CASE ShowVersion(p)
  BY <1>13, CallMoves, ChosenStep DEF ShowVersion, results
<1> QED BY <1>1, <1>2, <1>3, <1>4, <1>5, <1>6, <1>7, <1>8, <1>9, <1>10, <1>11, <1>12, <1>13 DEF Command

\* A command's steps make proper mirrors only: the index of a memif in the dump
\* is that of a memif, or VPP has freed it.
LEMMA CommandProper ==
  ASSUME MirrorInv, NEW p \in Procs, Command(p)
  PROVE  Proper'
<1>1. span \in [Key -> States] /\ target[p] \in Indices
  BY DEF MirrorInv, TypeInv, TypeOK, VppTypeOK, ProcessTypeOK
<1>2. StandsIn(ifs, ifs', {}) /\ freed' = freed /\ \A k \in Key : k.to \in Indices
  BY CommandStands, CommandMoves DEF MirrorInv, Key
<1>3. ASSUME \A k \in Key : span'[k] # "disabled" => span[k] # "disabled"
      PROVE  Proper'
  BY <1>2, <1>3 DEF MirrorInv, Proper, StandsIn
<1>4. CASE /\ pc[p] = "enable" /\ Serves(p) /\ ifs[target[p]].live
           /\ span' = [span EXCEPT ![SetKey(p)] = StateOf(cmd[p].device)]
  <2>1. target[p] # cmd[p].src
    BY <1>4 DEF MirrorInv, Chosen
  <2>2. target[p] \notin freed => ifs[target[p]].live /\ ifs[target[p]].name.kind = "memif"
    BY <1>1, <1>4 DEF MirrorInv, Chosen, Remembered, StandsIn
  <2> SUFFICES ASSUME NEW k \in Key, span'[k] # "disabled", ~k.l2
               PROVE  /\ k.from # k.to
                      /\ k.to \notin freed =>
                           ifs'[k.to].live /\ ifs'[k.to].name.kind = "memif"
    BY <1>2 DEF Proper
  <2>3. CASE k = SetKey(p)
    BY <1>1, <1>2, <2>1, <2>2, <2>3 DEF SetKey, StandsIn
  <2>4. CASE k # SetKey(p)
    <3>1. span[k] # "disabled"
      BY <1>1, <1>4, <2>4
    <3> QED BY <1>2, <3>1 DEF MirrorInv, Proper, StandsIn
  <2> QED BY <2>3, <2>4
<1>5. CASE \E k \in Key : span' = [span EXCEPT ![k] = "disabled"]
  BY <1>1, <1>3, <1>5
<1>6. CASE span' = span
  BY <1>3, <1>6
<1> QED BY <1>4, <1>5, <1>6, CommandSpan DEF MirrorInv

\* What operators do keeps dumps and mirrors as they should be, if interfaces go
\* away only at indices that become free.
LEMMA MeddleMirrors ==
  ASSUME MirrorInv, NEW kind, Meddle(kind), epoch' = epoch, freed \subseteq freed',
         StandsIn(ifs, ifs', freed'),
         \A k \in Key : (span'[k] # "disabled" /\ ~k.l2) => span[k] # "disabled"
  PROVE  Remembered' /\ Proper' /\ Chosen'
<1> USE DEF MirrorInv, TypeInv
<1>1. UNCHANGED <<pc, cmd, ctx, interfaces, target>>
  BY DEF Meddle, results
<1>2. Remembered'
  BY <1>1 DEF Remembered, StandsIn, Serves
<1>3. Proper'
  BY DEF Proper, StandsIn, Key
<1>4. Chosen'
  BY <1>1 DEF Chosen
<1> QED BY <1>2, <1>3, <1>4

\* What happens behind boy's back keeps them.
LEMMA EnvironmentMirrors ==
  ASSUME MirrorInv, Environment
  PROVE  Remembered' /\ Proper' /\ Chosen'
<1> USE DEF MirrorInv, TypeInv
<1>a. span \in [Key -> States] /\ ifs \in IfsType
  BY DEF TypeOK, VppTypeOK, IfsType
<1>1. ASSUME NEW p \in Procs, Killed(p) PROVE Remembered' /\ Proper' /\ Chosen'
  <2>1. /\ UNCHANGED <<ifs, span, epoch, freed, ctx, interfaces, target, cmd>>
        /\ pc' = [pc EXCEPT ![p] = "done"]
    BY <1>1 DEF Killed, Fail, vpp, results
  <2>2. Chosen'
    BY <1>1, ChosenStep DEF Killed, results
  <2>3. \A q \in Procs : pc'[q] = "idle" => pc[q] = "idle"
    BY <2>1 DEF TypeOK, ProcessTypeOK
  <2>4. Remembered'
    BY <2>1, <2>3 DEF Remembered, StandsIn, Serves
  <2> QED BY <2>1, <2>2, <2>4 DEF Proper
<1>2. ASSUME NEW i \in Indices, OperatorDeletes(i) PROVE Remembered' /\ Proper' /\ Chosen'
  <2>1. PICK cleared : /\ ifs' = [ifs EXCEPT ![i] = NoInterface]
                       /\ span' = [k \in Key |-> IF k \in cleared THEN "disabled" ELSE span[k]]
    BY <1>2 DEF OperatorDeletes, VppBecomes
  <2>2. StandsIn(ifs, ifs', freed \cup {i})
    BY <1>a, <2>1 DEF StandsIn, IfsType
  <2> QED BY <1>2, <2>1, <2>2, MeddleMirrors DEF OperatorDeletes
<1>3. ASSUME NEW i \in Indices, NEW kind, OperatorCreates(i, kind)
      PROVE  Remembered' /\ Proper' /\ Chosen'
  <2>1. ~ifs[i].live /\ ifs' = [ifs EXCEPT ![i] = Other(kind, i)] /\ span' = span
    BY <1>3 DEF OperatorCreates, VppBecomes
  <2>2. StandsIn(ifs, ifs', freed)
    BY <1>a, <2>1 DEF StandsIn, IfsType
  <2> QED BY <1>3, <2>1, <2>2, MeddleMirrors DEF OperatorCreates
<1>4. ASSUME NEW i \in Indices, OperatorDowns(i) PROVE Remembered' /\ Proper' /\ Chosen'
  <2>1. ifs' = WithAdmin(i, FALSE) /\ span' = span
    BY <1>4 DEF OperatorDowns, VppBecomes
  <2>2. StandsIn(ifs, ifs', freed)
    BY <1>a, <2>1, FlagType DEF StandsIn
  <2> QED BY <1>4, <2>1, <2>2, MeddleMirrors DEF OperatorDowns
<1>5. ASSUME NEW k \in Key, OperatorMirrors(k) PROVE Remembered' /\ Proper' /\ Chosen'
  <2>1. ifs' = ifs /\ span' = [span EXCEPT ![k] = "rx_tx"] /\ k.l2
    BY <1>5 DEF OperatorMirrors, VppBecomes
  <2>2. StandsIn(ifs, ifs', freed)
    BY <2>1 DEF StandsIn
  <2> QED BY <1>a, <1>5, <2>1, <2>2, MeddleMirrors DEF OperatorMirrors
<1>6. CASE VppRestarts
  <2>1. /\ span' = [k \in Key |-> "disabled"] /\ epoch' = epoch + 1
        /\ UNCHANGED <<pc, cmd, ctx, interfaces, target>>
    BY <1>6 DEF VppRestarts, VppBecomes, Meddle, results
  <2>2. Proper' /\ Chosen'
    BY <2>1 DEF Proper, Chosen
  <2>3. \A p \in Procs : ctx'[p] <= epoch' /\ ~Serves(p)'
    BY <2>1 DEF Remembered, Serves, TypeOK, VppTypeOK, ProcessTypeOK
  <2>4. Remembered'
    BY <2>1, <2>3 DEF Remembered
  <2> QED BY <2>2, <2>4
<1> QED BY <1>1, <1>2, <1>3, <1>4, <1>5, <1>6 DEF Environment

\* Every step keeps MirrorInv.
LEMMA MirrorStep == MirrorInv /\ [Next]_vars => MirrorInv'
<1> SUFFICES ASSUME MirrorInv, [Next]_vars PROVE MirrorInv'
  OBVIOUS
<1>1. TypeInv'
  BY TypeInvStep DEF MirrorInv
<1>2. ASSUME NEW p \in Procs, Command(p) PROVE MirrorInv'
  BY <1>1, <1>2, CommandRemembers, CommandProper, CommandChosen DEF MirrorInv
<1>3. CASE Environment
  BY <1>1, <1>3, EnvironmentMirrors DEF MirrorInv
<1>4. CASE UNCHANGED vars
  BY <1>1, <1>4 DEF MirrorInv, Remembered, StandsIn, Serves, Proper, Chosen, vars, vpp, results
<1> QED BY <1>2, <1>3, <1>4 DEF Next, Terminated

\* So it always holds.
LEMMA MirrorInvHolds == Spec => []MirrorInv
<1>1. Init => MirrorInv
  BY InitType, MirrorInit DEF Init, MirrorInv, TypeInv, Routed
<1> QED BY <1>1, MirrorStep, PTL DEF Spec

\* A mirror of boy leads to another interface than its source, and to a memif
\* unless VPP has freed the index of its destination: whatever else is created at
\* that index, deleted or restarted between the requests of a set_span.
THEOREM MirrorsLeadToMemifs == Spec => []MirrorsToMemif
<1>1. MirrorInv => MirrorsToMemif
  BY DEF MirrorInv, Proper, MirrorsToMemif
<1> QED BY <1>1, MirrorInvHolds, PTL
=============================================================================
