-------------------------------- MODULE Boy --------------------------------
(***************************************************************************)
(* boy processes configuring one VPP through its binary API:               *)
(* boy_create_memif, boy_set_span, boy_unset_span, boy_show_span,          *)
(* boy_show_memif and boy_show_version (boy/commands/), with the           *)
(* collectors and the VPP client they call.                                *)
(*                                                                         *)
(* A command is a sequence of blocking requests.  Each request is a step,  *)
(* so that other boy processes, an operator at VPP's own console, a        *)
(* restart of VPP and a kill of boy fall between any two requests.         *)
(***************************************************************************)
EXTENDS Integers, FiniteSets

CONSTANTS
  Procs,     \* boy processes
  Indices,   \* the values sw_if_index takes
  Ports,     \* indices of the network cards, which nobody deletes
  Locals,    \* indices of local0 and the like, which nobody deletes
  MemifIds,  \* memif identifiers
  Before,    \* what earlier commands may have left in VPP
  Requests,  \* the commands users give
  Faults,    \* failures that may happen
  Meddling,  \* what happens to VPP behind boy's back
  MaxMeddle  \* bound: how often

FaultKinds    == {"connect", "dump", "refuse", "noreply", "memory", "kill"}
MeddlingKinds == {"delete", "create", "down", "l2", "restart"}

Fixed    == Ports \cup Locals
Devices  == {"rx", "tx", "both"}
States   == {"disabled", "rx", "tx", "rx_tx"}
\* A "port" is a network card or a VLAN sub-interface, "local" any other
\* interface that is no memif.
Names    == [kind : {"port", "local"}, n : Indices] \cup [kind : {"memif"}, n : MemifIds]
FixedName(i)  == [kind |-> IF i \in Ports THEN "port" ELSE "local", n |-> i]
MemifName(id) == [kind |-> "memif", n |-> id]

\* A command.  "create" makes the memif named dst.
Ops     == {"create", "set", "unset", "show_span", "show_memif", "show_version"}
Request == [op : Ops, src : Indices, dst : Names, device : Devices]

\* A span entry is identified by its source, destination and feature.
Key == [from : Indices, to : Indices, l2 : BOOLEAN]

\* What VPP starts with: memifs at some indices, the interfaces that are
\* admin-up, and span entries between the interfaces there are.
Configured(b) ==
  /\ DOMAIN b.memifs \subseteq Indices \ Fixed
  /\ \A i, j \in DOMAIN b.memifs :
       b.memifs[i] \in MemifIds /\ (b.memifs[i] = b.memifs[j] => i = j)
  /\ b.up \subseteq Indices
  /\ b.mirrors \subseteq Key
  /\ \A k \in b.mirrors : /\ k.from # k.to /\ k.to \in DOMAIN b.memifs
                          /\ k.from \in Fixed \cup DOMAIN b.memifs

ASSUME BoyAssumption ==
  /\ Ports \subseteq Indices /\ Locals \subseteq Indices /\ Ports \cap Locals = {}
  /\ Fixed # Indices
  /\ \A b \in Before : Configured(b)
  /\ Requests \subseteq Request
  /\ \A c \in Requests : c.op = "create" => c.dst.kind = "memif"
  /\ Faults \subseteq FaultKinds /\ Meddling \subseteq MeddlingKinds
  /\ MaxMeddle \in Nat

VARIABLES
  ifs,      \* VPP: interface of every index, if there is one
  span,     \* VPP: state of every span entry
  epoch,    \* VPP: how often it has restarted
  meddled,  \* how often something was done behind boy's back
  freed,    \* history: indices of interfaces deleted since VPP started
  pc, cmd,  \* where each process stands, and its command
  rc,       \* exit status
  ctx,      \* the epoch of the VPP the process is connected to
  interfaces, span_entries, \* what boy_collect_interfaces/_span returned
  target,   \* sw_if_index of the destination, or of the created memif
  table,    \* rows of the table shown
  held,     \* history: span entries active ever since the process connected
  touched   \* history: indices meddled with since the process connected

vpp     == <<ifs, span, epoch>>
results == <<interfaces, span_entries, target, table>>
history == <<held, touched>>
vars    == <<vpp, meddled, freed, pc, cmd, rc, ctx, results, history>>

\* What an index stands for; NoInterface if it is free.
NoName      == [kind |-> "none", n |-> 0]
Interface   == [live : BOOLEAN, name : Names \cup {NoName}, admin_up : BOOLEAN]
NoInterface == [live |-> FALSE, name |-> NoName, admin_up |-> FALSE]

FixedInterface(i, up) == [live |-> TRUE, name |-> FixedName(i), admin_up |-> up]
Memif(id, up)         == [live |-> TRUE, name |-> MemifName(id), admin_up |-> up]
Other(kind, i)        == [live |-> TRUE, name |-> [kind |-> kind, n |-> i], admin_up |-> FALSE]

\* VPP's interfaces with the admin flag of interface i set to up.
WithAdmin(i, up) == [ifs EXCEPT ![i].admin_up = up]

\* The span entries that mirror.
ActiveIn(s) == {k \in Key : s[k] # "disabled"}

-----------------------------------------------------------------------------
(* The API                                                                 *)

\* VPP's interfaces and span entries become newIfs and newSpan.
VppBecomes(newIfs, newSpan) ==
  /\ ifs' = newIfs
  /\ span' = newSpan
  /\ held' = [q \in Procs |-> held[q] \cap ActiveIn(newSpan)]

VppStays == UNCHANGED <<ifs, span, held>>

\* The connection leads to the VPP that is running now.
Serves(p) == ctx[p] = epoch

\* The process goes on at l; reaching "done" this way is success.
Goto(p, l) ==
  /\ pc' = [pc EXCEPT ![p] = l]
  /\ rc' = IF l = "done" THEN [rc EXCEPT ![p] = 0] ELSE rc

\* goto cleanup with rc = 1.
Fail(p) == pc' = [pc EXCEPT ![p] = "done"] /\ rc' = rc

\* A request that VPP accepts if ok, and its reply: carried out and answered,
\* refused (or never sent), or carried out with the answer lost.
Call(p, ok, newIfs, newSpan, l) ==
  \/ /\ Serves(p) /\ ok
     /\ VppBecomes(newIfs, newSpan) /\ Goto(p, l)
  \/ /\ ~Serves(p) \/ ~ok \/ "refuse" \in Faults \/ "noreply" \in Faults
     /\ VppStays /\ Fail(p)
  \/ /\ Serves(p) /\ ok /\ "noreply" \in Faults
     /\ VppBecomes(newIfs, newSpan) /\ Fail(p)

\* A dump: answered from VPP's state, or failing with no entry of use.
DumpFails(p) == (~Serves(p) \/ "dump" \in Faults) /\ Fail(p)

\* boy_set_interface_admin_up
boy_set_interface_admin_up(p, i, l) ==
  Call(p, ifs[i].live, WithAdmin(i, TRUE), span, l)

\* boy_set_span_entry
boy_set_span_entry(p, k, state, l) ==
  Call(p, ifs[k.from].live /\ ifs[k.to].live, ifs, [span EXCEPT ![k] = state], l)

-----------------------------------------------------------------------------
(* Start of a command: boy_open_vapi                                       *)

\* Where a command goes once it is connected.
FirstStep(op) == CASE op = "create"       -> "create"
                   [] op = "show_memif"   -> "memifs"
                   [] op = "show_version" -> "version"
                   [] OTHER               -> "interfaces"

Start(p) ==
  /\ pc[p] = "idle"
  /\ \/ Goto(p, FirstStep(cmd[p].op))
     \/ "connect" \in Faults /\ Fail(p)
  /\ ctx' = [ctx EXCEPT ![p] = epoch]
  /\ held' = [held EXCEPT ![p] = ActiveIn(span)]
  /\ touched' = [touched EXCEPT ![p] = {}]
  /\ UNCHANGED <<vpp, meddled, freed, cmd, results>>

-----------------------------------------------------------------------------
(* collectors.c                                                            *)

CollectInterfaces(p) ==
  /\ pc[p] = "interfaces"
  /\ \/ /\ Serves(p)
        /\ interfaces' = [interfaces EXCEPT ![p] = ifs]
        /\ Goto(p, IF cmd[p].op = "set" THEN "check" ELSE "span")
     \/ DumpFails(p) /\ UNCHANGED interfaces
  /\ UNCHANGED <<vpp, meddled, freed, cmd, ctx, span_entries, target, table, history>>

\* The entries of one feature, device or L2, with their states.
SpanDump(l2) == {[key |-> k, state |-> span[k]] : k \in {a \in ActiveIn(span) : a.l2 = l2}}

\* Seeded fault: each dump starts from an empty table.
AppendedForgets(p, l2) == SpanDump(l2)

\* boy_span_dump_cb appends to what the first dump left in the table.
Appended(p, l2) == span_entries[p] \cup SpanDump(l2)

CollectSpan(p, l2) ==
  /\ pc[p] = IF l2 THEN "span_l2" ELSE "span"
  /\ \/ /\ Serves(p)
        /\ span_entries' = [span_entries EXCEPT ![p] = Appended(p, l2)]
        /\ Goto(p, IF ~l2 THEN "span_l2"
                   ELSE IF cmd[p].op = "unset" THEN "disable" ELSE "render")
     \/ DumpFails(p) /\ UNCHANGED span_entries
  /\ UNCHANGED <<vpp, meddled, freed, cmd, ctx, interfaces, target, table, history>>

-----------------------------------------------------------------------------
(* boy_set_span                                                            *)

\* Seeded fault: the command line's mode is sent as it is.
StateUnchanged(device) == device

\* boy_span_state_from_device_mode
StateOf(device) == CASE device = "rx"   -> "rx"
                     [] device = "tx"   -> "tx"
                     [] device = "both" -> "rx_tx"

\* boy_find_interface_by_name: interface i of the dump has the name given.
Named(p, i) == interfaces[p][i].live /\ interfaces[p][i].name = cmd[p].dst

\* Seeded fault: a destination of any kind will do.
MirrorableAnyKind(p, i) == i # cmd[p].src

\* boy_set_span mirrors to a memif other than the source.
Mirrorable(p, i) == interfaces[p][i].name.kind = "memif" /\ i # cmd[p].src

CheckEnds(p) ==
  /\ pc[p] = "check"
  /\ \/ /\ interfaces[p][cmd[p].src].live
        /\ \E i \in Indices :
             /\ Named(p, i) /\ Mirrorable(p, i)
             /\ target' = [target EXCEPT ![p] = i]
        /\ Goto(p, "src_up")
     \/ /\ \/ ~interfaces[p][cmd[p].src].live
           \/ \A i \in Indices : ~(Named(p, i) /\ Mirrorable(p, i))
        /\ Fail(p) /\ UNCHANGED target
  /\ UNCHANGED <<vpp, meddled, freed, cmd, ctx, interfaces, span_entries, table, history>>

\* An interface that the dump showed admin-down is set admin-up.
SourceUp(p) ==
  /\ pc[p] = "src_up"
  /\ IF interfaces[p][cmd[p].src].admin_up
       THEN Goto(p, "dst_up") /\ VppStays
       ELSE boy_set_interface_admin_up(p, cmd[p].src, "dst_up")
  /\ UNCHANGED <<epoch, meddled, freed, cmd, ctx, results, touched>>

\* Seeded fault: the flags of the source are tested again.
DestinationUpBySource(p) ==
  /\ pc[p] = "dst_up"
  /\ IF interfaces[p][cmd[p].src].admin_up
       THEN Goto(p, "enable") /\ VppStays
       ELSE boy_set_interface_admin_up(p, target[p], "enable")
  /\ UNCHANGED <<epoch, meddled, freed, cmd, ctx, results, touched>>

DestinationUp(p) ==
  /\ pc[p] = "dst_up"
  /\ IF interfaces[p][target[p]].admin_up
       THEN Goto(p, "enable") /\ VppStays
       ELSE boy_set_interface_admin_up(p, target[p], "enable")
  /\ UNCHANGED <<epoch, meddled, freed, cmd, ctx, results, touched>>

\* The entry a set_span enables.
SetKey(p) == [from |-> cmd[p].src, to |-> target[p], l2 |-> FALSE]

Enable(p) ==
  /\ pc[p] = "enable"
  /\ boy_set_span_entry(p, SetKey(p), StateOf(cmd[p].device), "done")
  /\ UNCHANGED <<epoch, meddled, freed, cmd, ctx, results, touched>>

-----------------------------------------------------------------------------
(* boy_unset_span                                                          *)

\* Seeded fault: entries of every source are removed.
ToRemoveAll(p) == {e.key : e \in span_entries[p]}

\* The collected entries of the source that are still to be disabled.
ToRemove(p) == {e.key : e \in {a \in span_entries[p] : a.key.from = cmd[p].src}}

\* The loop takes the device entries first: they were collected first.
Disable(p) ==
  /\ pc[p] = "disable"
  /\ \E k \in ToRemove(p) :
       /\ k.l2 => \A j \in ToRemove(p) : j.l2
       /\ boy_set_span_entry(p, k, "disabled", "disable")
       /\ span_entries' = [span_entries EXCEPT ![p] = {e \in @ : e.key # k}]
  /\ UNCHANGED <<epoch, meddled, freed, cmd, ctx, interfaces, target, table, touched>>

UnsetDone(p) ==
  /\ pc[p] = "disable" /\ ToRemove(p) = {}
  /\ Goto(p, "done")
  /\ UNCHANGED <<vpp, meddled, freed, cmd, ctx, results, history>>

-----------------------------------------------------------------------------
(* boy_create_memif                                                        *)

CreateMemif(p) ==
  /\ pc[p] = "create"
  /\ LET name  == cmd[p].dst
         taken == \E j \in Indices : ifs[j].live /\ ifs[j].name = name
         unused == {j \in Indices \ Fixed : ~ifs[j].live}
     IN \E i \in IF unused = {} THEN Indices \ Fixed ELSE unused :
          /\ Call(p, ~taken /\ i \in unused,
                  [ifs EXCEPT ![i] = Memif(name.n, FALSE)],
                  span, "created")
          /\ target' = [target EXCEPT ![p] = i]
  /\ UNCHANGED <<epoch, meddled, freed, cmd, ctx, interfaces, span_entries, table, touched>>

\* Seeded fault: the new memif is left admin-down.
CreatedStaysDown(p) ==
  /\ pc[p] = "created"
  /\ Goto(p, "done") /\ VppStays
  /\ UNCHANGED <<epoch, meddled, freed, cmd, ctx, results, touched>>

CreatedUp(p) ==
  /\ pc[p] = "created"
  /\ boy_set_interface_admin_up(p, target[p], "done")
  /\ UNCHANGED <<epoch, meddled, freed, cmd, ctx, results, touched>>

-----------------------------------------------------------------------------
(* boy_show_span, boy_show_memif and boy_show_version                      *)

\* Cells of a table: an interface's name, "*" or "<unknown>".
Star    == [kind |-> "*", n |-> 0]
Unknown == [kind |-> "<unknown>", n |-> 0]

\* boy_find_interface_name
NameIn(dump, i) == IF dump[i].live THEN dump[i].name ELSE Unknown

\* boy_is_span_source_candidate
SourceCandidate(if) == if.live /\ if.name.kind = "port"

\* boy_span_state_device
StateDevice(state) == CASE state = "rx"       -> "rx"
                        [] state = "tx"       -> "tx"
                        [] state = "rx_tx"    -> "both"
                        [] state = "disabled" -> "none"

\* The row of an entry: the state is shown in the column of its feature.
SpanRow(dump, e) ==
  [src |-> e.key.from, dst |-> NameIn(dump, e.key.to),
   device |-> IF e.key.l2 THEN "*" ELSE StateDevice(e.state),
   l2 |-> IF e.key.l2 THEN StateDevice(e.state) ELSE "*"]

BlankRow(i) == [src |-> i, dst |-> Star, device |-> "*", l2 |-> "*"]

\* One row per entry of every candidate, a blank one for a candidate without.
SpanRows(dump, entries) ==
  LET candidates == {i \in Indices : SourceCandidate(dump[i])}
  IN  {SpanRow(dump, e) : e \in {a \in entries : a.key.from \in candidates}}
        \cup {BlankRow(i) : i \in {c \in candidates : \A e \in entries : e.key.from # c}}

RenderSpan(p) ==
  /\ pc[p] = "render"
  /\ \/ /\ table' = [table EXCEPT ![p] = SpanRows(interfaces[p], span_entries[p])]
        /\ Goto(p, "done")
     \/ "memory" \in Faults /\ Fail(p) /\ UNCHANGED table
  /\ UNCHANGED <<vpp, meddled, freed, cmd, ctx, interfaces, span_entries, target, history>>

\* boy_memif_flags_to_string
FlagsString(admin_up, link_up) == CASE admin_up /\ link_up   -> "admin-up,link-up"
                                    [] admin_up /\ ~link_up  -> "admin-up"
                                    [] ~admin_up /\ link_up  -> "link-up"
                                    [] ~admin_up /\ ~link_up -> "none"

\* VPP's answer to a memif dump.  The link of a memif is up while a peer such
\* as beastie is attached.
MemifDump ==
  LET memifs == {j \in Indices : ifs[j].live /\ ifs[j].name.kind = "memif"}
  IN  {{[name |-> ifs[i].name, flags |-> FlagsString(ifs[i].admin_up, i \in linked)] :
        i \in memifs} : linked \in SUBSET memifs}

ShowMemif(p) ==
  /\ pc[p] = "memifs"
  /\ \/ /\ Serves(p)
        /\ \E entries \in MemifDump : table' = [table EXCEPT ![p] = entries]
        /\ Goto(p, "done")
     \/ DumpFails(p) /\ UNCHANGED table
     \/ "memory" \in Faults /\ Fail(p) /\ UNCHANGED table
  /\ UNCHANGED <<vpp, meddled, freed, cmd, ctx, interfaces, span_entries, target, history>>

\* A request that changes nothing.
ShowVersion(p) ==
  /\ pc[p] = "version"
  /\ Call(p, TRUE, ifs, span, "done")
  /\ UNCHANGED <<epoch, meddled, freed, cmd, ctx, results, touched>>

-----------------------------------------------------------------------------
(* Behind boy's back                                                       *)

\* Ctrl+C or SIGKILL: boy has no handler and leaves VPP as it is.
Killed(p) ==
  /\ "kill" \in Faults /\ pc[p] \notin {"idle", "done"}
  /\ Fail(p)
  /\ UNCHANGED <<vpp, meddled, freed, cmd, ctx, results, history>>

Meddle(kind) ==
  /\ kind \in Meddling /\ meddled < MaxMeddle
  /\ meddled' = meddled + 1
  /\ UNCHANGED <<pc, cmd, rc, ctx, results>>

Touch(S) == touched' = [q \in Procs |-> touched[q] \cup S]

\* An operator deletes a memif, VLAN sub-interface or the like.  Its index is
\* free for the next interface of whatever type; its span entries may stay.
OperatorDeletes(i) ==
  /\ Meddle("delete") /\ Touch({i})
  /\ i \notin Fixed /\ ifs[i].live
  /\ freed' = freed \cup {i}
  /\ \E cleared \in {{}, {k \in Key : i \in {k.from, k.to}}} :
       VppBecomes([ifs EXCEPT ![i] = NoInterface],
                  [k \in Key |-> IF k \in cleared THEN "disabled" ELSE span[k]])
  /\ UNCHANGED epoch

\* An operator creates an interface that is no memif: VPP has one pool of
\* sw_if_index for interfaces of all types.
OperatorCreates(i, kind) ==
  /\ Meddle("create") /\ Touch({i})
  /\ ~ifs[i].live
  /\ VppBecomes([ifs EXCEPT ![i] = Other(kind, i)], span)
  /\ UNCHANGED <<epoch, freed>>

OperatorDowns(i) ==
  /\ Meddle("down") /\ Touch({i})
  /\ ifs[i].live
  /\ VppBecomes(WithAdmin(i, FALSE), span)
  /\ UNCHANGED <<epoch, freed>>

\* An operator mirrors a bridge port: only VPP's console sets L2 entries.
OperatorMirrors(k) ==
  /\ Meddle("l2")
  /\ k.l2 /\ k.from # k.to /\ ifs[k.from].live /\ ifs[k.to].live
  /\ VppBecomes(ifs, [span EXCEPT ![k] = "rx_tx"])
  /\ UNCHANGED <<epoch, freed, touched>>

\* VPP keeps nothing: only the fixed interfaces are left, no span entry is, and
\* connections are broken.
VppRestarts ==
  /\ Meddle("restart") /\ Touch(Indices)
  /\ VppBecomes([i \in Indices |-> IF i \in Fixed THEN FixedInterface(i, FALSE)
                                   ELSE NoInterface],
                [k \in Key |-> "disabled"])
  /\ epoch' = epoch + 1 /\ freed' = {}

-----------------------------------------------------------------------------
Init ==
  /\ \E b \in Before :
       /\ ifs = [i \in Indices |->
            IF i \in Fixed THEN FixedInterface(i, i \in b.up)
            ELSE IF i \in DOMAIN b.memifs THEN Memif(b.memifs[i], i \in b.up)
            ELSE NoInterface]
       /\ span = [k \in Key |-> IF k \in b.mirrors THEN "rx_tx" ELSE "disabled"]
  /\ epoch = 0 /\ meddled = 0 /\ freed = {}
  /\ pc = [p \in Procs |-> "idle"]
  /\ cmd \in [Procs -> Requests]
  /\ rc = [p \in Procs |-> 1]
  /\ ctx = [p \in Procs |-> 0]
  /\ interfaces = [p \in Procs |-> [i \in Indices |-> NoInterface]]
  /\ span_entries = [p \in Procs |-> {}]
  /\ target = [p \in Procs |-> cmd[p].src]
  /\ table = [p \in Procs |-> {}]
  /\ held = [p \in Procs |-> {}]
  /\ touched = [p \in Procs |-> {}]

Command(p) == \/ Start(p) \/ CollectInterfaces(p) \/ CollectSpan(p, FALSE) \/ CollectSpan(p, TRUE)
              \/ CheckEnds(p) \/ SourceUp(p) \/ DestinationUp(p) \/ Enable(p)
              \/ Disable(p) \/ UnsetDone(p)
              \/ CreateMemif(p) \/ CreatedUp(p)
              \/ RenderSpan(p) \/ ShowMemif(p) \/ ShowVersion(p)

Environment == \/ \E p \in Procs : Killed(p)
               \/ \E i \in Indices : OperatorDeletes(i) \/ OperatorDowns(i)
               \/ \E i \in Indices, kind \in {"port", "local"} : OperatorCreates(i, kind)
               \/ \E k \in Key : OperatorMirrors(k)
               \/ VppRestarts

Terminated == (\A p \in Procs : pc[p] = "done") /\ UNCHANGED vars

Next == (\E p \in Procs : Command(p)) \/ Environment \/ Terminated

Spec == Init /\ [][Next]_vars
-----------------------------------------------------------------------------
(* Properties                                                              *)

Labels == {"idle", "interfaces", "span", "span_l2", "check", "src_up", "dst_up", "enable",
           "disable", "create", "created", "render", "memifs", "version",
           "done"}

VppTypeOK ==
  /\ ifs \in [Indices -> Interface] /\ span \in [Key -> States]
  /\ epoch \in Nat /\ meddled \in 0 .. MaxMeddle /\ freed \subseteq Indices

ProcessTypeOK ==
  /\ pc \in [Procs -> Labels] /\ cmd \in [Procs -> Request] /\ rc \in [Procs -> {0, 1}]
  /\ ctx \in [Procs -> Nat]
  /\ interfaces \in [Procs -> [Indices -> Interface]]
  /\ span_entries \in [Procs -> SUBSET [key : Key, state : States]]
  /\ target \in [Procs -> Indices]
  /\ held \in [Procs -> SUBSET Key] /\ touched \in [Procs -> SUBSET Indices]

\* Every variable has its type; the table shown is left out.
TypeOK == VppTypeOK /\ ProcessTypeOK

\* The command op of p has returned 0.
Finished(p, op) == pc[p] = "done" /\ rc[p] = 0 /\ cmd[p].op = op

\* The step of p ends a set_span: it returns 0, or VPP has carried out its last
\* request and the answer is lost.
SetEnds(p) ==
  \/ pc[p] # "done" /\ Finished(p, "set")'
  \/ pc[p] = "enable" /\ pc'[p] = "done" /\ span'[SetKey(p)] # span[SetKey(p)]

\* A set_span that returns 0, or whose mirror VPP makes without boy hearing of
\* it, mirrors the source to the memif of the given name, in the given direction
\* and with both ends admin-up, unless an operator has interfered with one of
\* these two interfaces: although names and flags come from a dump taken several
\* requests earlier, and others work on VPP at the same time.
SetTakesEffect ==
  [][\A p \in Procs : (SetEnds(p) /\ {cmd[p].src, target[p]} \cap touched[p] = {}) =>
       /\ span'[SetKey(p)] = StateOf(cmd[p].device)
       /\ ifs'[target[p]].live /\ ifs'[target[p]].name = cmd[p].dst
       /\ ifs'[target[p]].admin_up /\ ifs'[cmd[p].src].admin_up]_vars

\* The usage text promises that --set-span mirrors to "destination memif
\* interface <name>" (boy/cli_options.c:57-59): a set_span that returns 0 has
\* mirrored to the interface of that name.  The code sends the index that the
\* name had in its dump, which VPP may have given away since.
SetHitsNamed ==
  [][\A p \in Procs : (pc[p] # "done" /\ Finished(p, "set")') =>
       ifs'[target[p]].live /\ ifs'[target[p]].name = cmd[p].dst]_vars

\* An unset_span that returns 0 leaves no entry of its source, device or L2,
\* except those set while it ran.
UnsetComplete ==
  \A p \in Procs : Finished(p, "unset") => \A k \in held[p] : k.from # cmd[p].src

\* An entry goes away only by an unset_span of its own source, unless VPP was
\* meddled with: a set_span never replaces another mirror, and an unset_span
\* working from old dumps never hits another source.
OnlyOwnSource ==
  [][\A k \in Key : (span[k] # "disabled" /\ span'[k] = "disabled" /\ meddled' = meddled) =>
       \E p \in Procs : cmd[p].op = "unset" /\ cmd[p].src = k.from /\ pc[p] = "disable"]_vars

\* A create_memif that returns 0 leaves a usable memif: it exists under its
\* name and is admin-up, unless an operator interferes with it, whatever other
\* commands run.
CreatedIsUp ==
  \A p \in Procs : (Finished(p, "create") /\ target[p] \notin touched[p]) =>
    \E i \in Indices : ifs[i].live /\ ifs[i].name = cmd[p].dst /\ ifs[i].admin_up

\* The session of the README (src/README.md:40-56) shows a memif just created
\* with --create-memif as "none" in the flags of --show-memif.
CreatedShownDown ==
  \A p, q \in Procs : (Finished(p, "create") /\ Finished(q, "show_memif")) =>
    \A row \in table[q] : row.name = cmd[p].dst => row.flags = "none"

\* A mirror that boy has made leads to another interface than its source, and to
\* a memif: only an index that VPP has freed, and may have given to any other
\* interface, can be the destination of a mirror and no memif.
MirrorsToMemif ==
  \A k \in Key : (span[k] # "disabled" /\ ~k.l2) =>
    /\ k.from # k.to
    /\ k.to \notin freed => ifs[k.to].live /\ ifs[k.to].name.kind = "memif"

\* show_span shows every entry of a candidate that existed all the time, in the
\* column of its feature and with the present name of its destination, although
\* it asks VPP three times while others change VPP, unless an operator interferes
\* with one of these two interfaces.  A destination that did not exist at the
\* time of the first dump is shown as unknown.
ShowComplete ==
  \A p \in Procs : Finished(p, "show_span") =>
    \A k \in held[p] :
      (SourceCandidate(ifs[k.from]) /\ {k.from, k.to} \cap touched[p] = {}) =>
        \E row \in table[p] :
          /\ row.src = k.from /\ (row.l2 # "*") = k.l2
          /\ row.dst = IF interfaces[p][k.to].live THEN ifs[k.to].name ELSE Unknown
=============================================================================
