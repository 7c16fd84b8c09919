------------------------------- MODULE MCBoy -------------------------------
(* Model-checking instances of Boy: one port, local0, two memif indices.   *)
EXTENDS Boy, TLC

Cmd(op, src, dst, device) == [op |-> op, src |-> src, dst |-> dst, device |-> device]

\* Creating any of the memifs.
Creates == {Cmd("create", 1, MemifName(id), "both") : id \in MemifIds}

\* Mirroring the port or a memif to a memif, and two requests that must be
\* refused: a port as destination, and the source as destination.
Sets == {Cmd("set", src, MemifName(0), "both") : src \in {1, 3}}
          \cup {Cmd("set", 1, MemifName(1), "rx"), Cmd("set", 3, FixedName(1), "tx")}

Unsets == {Cmd("unset", 1, MemifName(0), "both")}

\* Looking at the mirrors, the memifs and the version.
Shows == {Cmd(op, 1, MemifName(0), "both") : op \in {"show_span", "show_memif", "show_version"}}

\* Making a memif and looking at it.
CreateThenShow == {Cmd("create", 1, MemifName(0), "both"), Cmd("show_memif", 1, MemifName(0), "both")}

\* Commands that configure, and commands that look on meanwhile.
AllRequests == Creates \cup Sets \cup Unsets \cup Shows

\* A fresh VPP, and one with both memifs and mirrors from the port, from
\* a memif or local0, or for a bridge, with some of the interfaces admin-up.
Mirror(from, to, l2) == [from |-> from, to |-> to, l2 |-> l2]
Fresh(up) == [memifs |-> [i \in {} |-> 0], up |-> up, mirrors |-> {}]
InUse(up, mirrors) == [memifs |-> [i \in {3, 4} |-> i - 3], up |-> up, mirrors |-> mirrors]
FreshOrInUse == {Fresh({}), Fresh({1}),
                 InUse({1}, {Mirror(1, 4, FALSE), Mirror(3, 4, FALSE)}),
                 InUse({3, 4}, {Mirror(1, 3, FALSE), Mirror(1, 4, TRUE), Mirror(2, 4, FALSE)})}

JustFresh  == {Fresh({})}
JustMemifs == {InUse({1}, {})}

ProcSymmetry == Permutations(Procs)
=============================================================================
