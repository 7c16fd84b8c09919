------------------------------- MODULE MCCli -------------------------------
(* Model-checking instances of Cli: integers of 3 and 6 bits, and command  *)
(* lines with the options that may get in each other's way.                *)
EXTENDS Cli

Opt(c, arg) == [opt |-> c, arg |-> arg]
Plain(cs)   == {Opt(c, None) : c \in cs}

\* "boy -s junk", "beastie trace.pcap"
Operands == {Opt("", Word("trace.pcap"))}

\* Setting, showing and removing mirrors and creating a memif.  Numbers fit,
\* are too large for either width, or negative; some arguments are wrong.
BoyOptions ==
  Plain({"S", "s", "c", "h", "?"}) \cup Operands
    \cup {Opt("I", Number(1)), Opt("I", Number(9)), Opt("I", Word("junk")),
          Opt("M", Word("memif0/0")), Opt("M", None),
          Opt("D", Word("rx")), Opt("D", Word("junk")),
          Opt("u", Number(2)), Opt("u", Word("junk")),
          Opt("i", Number(5)), Opt("i", Number(-63)), Opt("i", Number(-1)),
          Opt("R", Number(9)), Opt("B", Word("junk"))}

BeastieOptions ==
  Plain({"V", "h", "?"}) \cup Operands
    \cup {Opt("i", Number(n)) : n \in {1, 9, -63}} \cup {Opt("m", Number(n)) : n \in {5, 100}}
    \cup {Opt("m", Word("junk")), Opt("l", Word("debug")), Opt("l", Word("junk")),
          Opt("s", None), Opt("s", Number(7)), Opt("w", Word("a.pcap"))}

GivenMany  == [boy |-> BoyOptions, beastie |-> BeastieOptions]
GivenIndex == [boy |-> {Opt("u", Number(n)) : n \in {-1, 1, 2, 9, 100}}, beastie |-> {}]
=============================================================================
