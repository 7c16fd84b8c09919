----------------------------- MODULE CliProofs -----------------------------
(* Theorems about the command lines of boy and beastie, for any options,   *)
(* any number of them in any order, and any widths of integers.            *)
EXTENDS Cli, DataLemmas

-----------------------------------------------------------------------------
(* The last option of a kind                                               *)

\* n is the last option among opts, or 0 if there is none.
IsLast(opts, n) ==
  \/ n = 0 /\ \A k \in DOMAIN given : given[k].opt \notin opts
  \/ /\ n \in DOMAIN given /\ given[n].opt \in opts
     /\ \A k \in DOMAIN given : k > n => given[k].opt \notin opts

LastsAreLast == \A opts : IsLast(opts, LastOf(opts))

\* What is read are options of the program.
ReadInv ==
  /\ prog \in {"boy", "beastie"}
  /\ given \in Seq(Given[prog])

LEMMA LastOfIs == ReadInv => LastsAreLast
<1> SUFFICES ASSUME ReadInv, NEW opts PROVE IsLast(opts, LastOf(opts))
  BY DEF LastsAreLast
<1> DEFINE found == {k \in DOMAIN given : given[k].opt \in opts}
<1>1. DOMAIN given = 1 .. Len(given) /\ Len(given) \in Nat
  BY DEF ReadInv
<1>2. found \in SUBSET Nat /\ IsFiniteSet(found)
  <2>1. IsFiniteSet(1 .. Len(given))
    BY <1>1, FS_Interval
  <2>2. found \in SUBSET (1 .. Len(given))
    BY <1>1
  <2> QED
    BY <2>1, <2>2, FS_Subset
<1>3. LastOf(opts) = IF found = {} THEN 0 ELSE CHOOSE k \in found : \A j \in found : j <= k
  BY Zenon DEF LastOf
<1>4. CASE found = {}
  BY <1>3, <1>4 DEF IsLast
<1>5. CASE found # {}
  <2>1. \E k \in found : \A j \in found : j <= k
    <3> HIDE DEF found
    <3> QED
      BY <1>2, <1>5, GreatestOfSet
  <2>2. LastOf(opts) \in found /\ \A j \in found : j <= LastOf(opts)
    <3> HIDE DEF found
    <3> QED
      BY <1>3, <1>5, <2>1
  <2> QED
    BY <1>1, <2>2 DEF IsLast
<1> QED
  BY <1>4, <1>5

LEMMA LastOfIsNext == ReadInv' => LastsAreLast'
  BY LastOfIs, PTL

\* One more option is the last of its kind.
LEMMA LastOfNext ==
  ASSUME ReadInv, ReadInv', NEW g, given' = Append(given, g), NEW opts
  PROVE  /\ LastOf(opts)' = IF g.opt \in opts THEN Len(given) + 1 ELSE LastOf(opts)
         /\ LastOf(opts)' # 0 => given'[LastOf(opts)'] = IF g.opt \in opts THEN g
                                                          ELSE given[LastOf(opts)]
         /\ LastOf(opts) \in 0 .. Len(given)
<1> DEFINE n == Len(given)
<1>1. /\ DOMAIN given = 1 .. n /\ n \in Nat /\ DOMAIN given' = 1 .. n + 1
      /\ given'[n + 1] = g /\ \A k \in 1 .. n : given'[k] = given[k]
  BY DEF ReadInv
<1>2. IsLast(opts, LastOf(opts))
  BY LastOfIs DEF LastsAreLast
<1>3. \/ LastOf(opts)' = 0 /\ \A k \in DOMAIN given' : given'[k].opt \notin opts
      \/ /\ LastOf(opts)' \in DOMAIN given' /\ given'[LastOf(opts)'].opt \in opts
         /\ \A k \in DOMAIN given' : k > LastOf(opts)' => given'[k].opt \notin opts
  BY LastOfIsNext DEF LastsAreLast, IsLast
<1> QED
  BY <1>1, <1>2, <1>3 DEF IsLast

\* The last option c.
Latest(c) == LastOf({c})

LEMMA LatestNext ==
  ASSUME ReadInv, ReadInv', NEW g, given' = Append(given, g), NEW c
  PROVE  /\ Latest(c)' = IF g.opt = c THEN Len(given) + 1 ELSE Latest(c)
         /\ Latest(c)' # 0 => given'[Latest(c)'] = IF g.opt = c THEN g ELSE given[Latest(c)]
         /\ Latest(c) \in 0 .. Len(given) /\ Len(given) \in Nat
<1>1. \A opts : /\ LastOf(opts)' = IF g.opt \in opts THEN Len(given) + 1 ELSE LastOf(opts)
                /\ LastOf(opts)' # 0 => given'[LastOf(opts)'] = IF g.opt \in opts THEN g
                                                                ELSE given[LastOf(opts)]
                /\ LastOf(opts) \in 0 .. Len(given)
  BY LastOfNext
<1> DEFINE opts == {c}
<1>2. Latest(c) = LastOf(opts) /\ Latest(c)' = LastOf(opts)'
  BY Zenon DEF Latest
<1>3. g.opt \in opts <=> g.opt = c
  OBVIOUS
<1>4. Len(given) \in Nat
  BY DEF ReadInv
<1> HIDE DEF opts
<1>5. /\ LastOf(opts)' = IF g.opt \in opts THEN Len(given) + 1 ELSE LastOf(opts)
      /\ LastOf(opts)' # 0 => given'[LastOf(opts)'] = IF g.opt \in opts THEN g
                                                      ELSE given[LastOf(opts)]
      /\ LastOf(opts) \in 0 .. Len(given)
  BY <1>1
<1> QED
  BY <1>2, <1>3, <1>4, <1>5

-----------------------------------------------------------------------------
(* What an option does                                                     *)

\* Where the options with an argument are stored.
Fields ==
  [boy |-> [I |-> "set_span_if_index", M |-> "set_span_memif_name",
            D |-> "set_span_device_mode", u |-> "unset_span_if_index",
            i |-> "id", o |-> "socket_id", R |-> "ring_size", B |-> "buffer_size"],
   beastie |-> [i |-> "memif_id", m |-> "max_capture_bytes", s |-> "memif_socket_path",
                w |-> "output_filename"]]

\* The options whose argument is a number or a text.
Numbers == [boy |-> {"I", "u"}, beastie |-> {"i", "m"}]
Texts   == [boy |-> {"M"}, beastie |-> {"s"}]

\* Whether program p goes on after option g.
Accepts(p, g) ==
  /\ g.opt \in DOMAIN Modes[p] \cup DOMAIN Fields[p] \cup {"h", "l", ""}
  /\ g.opt \in DOMAIN Modes[p] \cup {"h"} => g.arg = None
  /\ p = "boy" /\ g.opt \in DOMAIN CreateFields => IsU32(g.arg)
  /\ g.opt \in Numbers[p] => IsNumber(g.arg)
  /\ g.opt \in Texts[p] => g.arg # None
  /\ p = "boy" /\ g.opt = "D" => g.arg.word \in DeviceModes
  /\ g.opt = "l" => g.arg.word \in LogLevels

\* What it stores then.
Stored(p, g) ==
  CASE p = "boy" /\ g.opt \in DOMAIN CreateFields -> U32(g.arg)
    [] p = "boy" /\ g.opt \in {"I", "u"}          -> IfIndex(g.arg)
    [] p = "boy" /\ g.opt = "D"                   -> g.arg.word
    [] p = "beastie" /\ g.opt = "i"               -> MemifId(g.arg)
    [] p = "beastie" /\ g.opt = "m"               -> MaxBytes(g.arg)
    [] OTHER                                      -> g.arg

\* The options that name a command, and the command.
ModeOptions(p)  == DOMAIN Modes[p] \cup IF p = "boy" THEN {"u"} ELSE {}
ModeOf(p, c)    == IF c = "u" THEN "unset_span" ELSE Modes[p][c]

\* The last option that names a command.
LatestMode == LastOf(ModeOptions(prog))

ModeIsLast == IsLast(ModeOptions(prog), LatestMode)

LEMMA LatestModeIs == ReadInv => ModeIsLast
  BY LastOfIs DEF LastsAreLast, LatestMode, ModeIsLast

LEMMA LatestModeIsNext == ReadInv' => ModeIsLast'
  BY LatestModeIs, PTL

LEMMA LatestModeNext ==
  ASSUME ReadInv, ReadInv', NEW g, given' = Append(given, g), prog' = prog
  PROVE  /\ LatestMode' = IF g.opt \in ModeOptions(prog) THEN Len(given) + 1 ELSE LatestMode
         /\ LatestMode' # 0 => given'[LatestMode'] = IF g.opt \in ModeOptions(prog) THEN g
                                                     ELSE given[LatestMode]
         /\ Len(given) \in Nat
<1> DEFINE n == Len(given)
<1>1. /\ DOMAIN given = 1 .. n /\ n \in Nat /\ DOMAIN given' = 1 .. n + 1
      /\ given'[n + 1] = g /\ \A k \in 1 .. n : given'[k] = given[k]
  BY DEF ReadInv
<1>2. ModeIsLast /\ ModeIsLast' /\ ModeOptions(prog)' = ModeOptions(prog)
  BY LatestModeIs, LatestModeIsNext DEF ModeOptions
<1> DEFINE opts == ModeOptions(prog)
<1>3. \/ LatestMode = 0 /\ \A k \in DOMAIN given : given[k].opt \notin opts
      \/ /\ LatestMode \in DOMAIN given /\ given[LatestMode].opt \in opts
         /\ \A k \in DOMAIN given : k > LatestMode => given[k].opt \notin opts
  BY <1>2 DEF ModeIsLast, IsLast
<1>4. \/ LatestMode' = 0 /\ \A k \in DOMAIN given' : given'[k].opt \notin ModeOptions(prog)'
      \/ /\ LatestMode' \in DOMAIN given' /\ given'[LatestMode'].opt \in ModeOptions(prog)'
         /\ \A k \in DOMAIN given' : k > LatestMode' => given'[k].opt \notin ModeOptions(prog)'
  BY <1>2 DEF ModeIsLast, IsLast
<1> QED
  BY <1>1, <1>2, <1>3, <1>4

Flags == {"S", "I", "M", "D", "c"}

\* The flags that option g of program p sets.
Marks(p, g) ==
  {f \in Flags : p = "boy" /\ g.opt = f}
    \cup {f \in {"create_option"} : p = "boy" /\ g.opt \in DOMAIN CreateFields}

OptionsInv == DOMAIN options = DOMAIN Defaults[prog]

\* The loop goes on after option g.
GoesOn(g) ==
  /\ Accepts(prog, g) /\ g.opt # "h"
  /\ status' = "parsing"
  /\ OptionsInv'
  /\ \A c \in DOMAIN Fields[prog] :
       options'[Fields[prog][c]] = IF g.opt = c THEN Stored(prog, g)
                                   ELSE options[Fields[prog][c]]
  /\ options'.mode = IF g.opt \in ModeOptions(prog) THEN ModeOf(prog, g.opt)
                     ELSE options.mode
  /\ seen' = seen \cup Marks(prog, g)

\* One round of the loop.
Took(g) ==
  /\ status = "parsing" /\ g \in Given[prog]
  /\ given' = Append(given, g) /\ UNCHANGED <<prog, ran, rc>>
  /\ \/ GoesOn(g)
     \/ /\ UNCHANGED <<options, seen>>
        /\ \/ g.opt = "h" /\ Accepts(prog, g) /\ status' = "exit_success"
           \/ g.opt # "h" /\ ~Accepts(prog, g) /\ Refused(g) /\ status' = "exit_failure"

-----------------------------------------------------------------------------
(* The conversions                                                         *)

\* A number below the width is its own remainder.
LEMMA Remainder ==
  ASSUME NEW n \in Int, NEW size \in Nat \ {0}
  PROVE  n % size \in 0 .. size - 1 /\ (n \in 0 .. size - 1 => n % size = n)
  OBVIOUS

\* A negative number wraps around once.
LEMMA Wraps ==
  ASSUME NEW n \in Int, NEW size \in Nat \ {0}, n + size \in 0 .. size - 1
  PROVE  n % size = n + size
  OBVIOUS

LEMMA Converts ==
  ASSUME NEW n \in Int
  PROVE  /\ Strtoul(n) \in 0 .. LongSize - 1
         /\ n \in 0 .. LongSize - 1 => Strtoul(n) = n
         /\ Truncated(Strtoul(n)) \in 0 .. WordSize - 1
         /\ n \in 0 .. WordSize - 1 => Truncated(Strtoul(n)) = n
<1>1. WordSize \in Nat \ {0} /\ LongSize \in Nat \ {0} /\ LongSize >= WordSize
  BY CliAssumption
<1>2. n % LongSize \in 0 .. LongSize - 1 /\ (n \in 0 .. LongSize - 1 => n % LongSize = n)
  BY <1>1, Remainder
<1>3. Strtoul(n) \in 0 .. LongSize - 1 /\ (n \in 0 .. LongSize - 1 => Strtoul(n) = n)
  BY <1>1, <1>2 DEF Strtoul
<1>4. Strtoul(n) \in Int
  BY <1>1, <1>3
<1>5. /\ Strtoul(n) % WordSize \in 0 .. WordSize - 1
      /\ Strtoul(n) \in 0 .. WordSize - 1 => Strtoul(n) % WordSize = Strtoul(n)
  BY <1>1, <1>4, Remainder
<1> QED
  BY <1>1, <1>3, <1>5 DEF Truncated

\* The arguments are numerals and words, and none is a null pointer.
LEMMA Arguments ==
  ASSUME ReadInv, NEW g \in Given[prog]
  PROVE  /\ g.arg.n \in Int /\ g.arg = [word |-> g.arg.word, n |-> g.arg.n]
         /\ ~IsNumber(g.arg) => g.arg = Word(g.arg.word)
         /\ g.arg # Null
<1>1. /\ g \in [opt : STRING, arg : [word : STRING, n : Int]]
      /\ g.arg.word # "number" => g.arg.n = 0
  BY CliAssumption DEF ReadInv
<1>2. g.arg \in [word : STRING, n : Int]
  BY <1>1
<1>3. g.arg.n \in Int /\ g.arg = [word |-> g.arg.word, n |-> g.arg.n]
  BY <1>2
<1>4. g.arg # Null
  BY <1>1 DEF Null
<1> QED
  BY <1>1, <1>3, <1>4 DEF IsNumber, Word

\* What boy_parse_u32 accepts is the numbers that fit.
LEMMA FitsIs == ASSUME NEW n \in Int PROVE Strtoul(n) < WordSize <=> Fits(n)
<1>1. WordSize \in Nat \ {0} /\ LongSize \in Nat \ {0} /\ LongSize >= WordSize
  BY CliAssumption
<1>2. CASE n > LongSize - 1 \/ n < 1 - LongSize
  BY <1>1, <1>2 DEF Strtoul, Fits
<1>3. CASE n \in 0 .. LongSize - 1
  <2>1. Strtoul(n) = n
    BY <1>3, Converts
  <2> QED
    BY <1>1, <1>3, <2>1 DEF Fits
<1>4. CASE n \in 1 - LongSize .. -1
  <2>1. n % LongSize = n + LongSize
    BY <1>1, <1>4, Wraps
  <2>2. Strtoul(n) = n + LongSize
    BY <1>1, <1>4, <2>1 DEF Strtoul
  <2> QED
    BY <1>1, <1>4, <2>2 DEF Fits
<1> QED
  BY <1>1, <1>2, <1>3, <1>4

\* An option with an argument is accepted or refused.
LEMMA AcceptedIs ==
  ASSUME ReadInv, NEW g \in Given[prog], g.opt \in DOMAIN Fields[prog] \cup {"l", "?"}
  PROVE  Accepts(prog, g) <=> ~Refused(g)
<1>1. prog \in {"boy", "beastie"}
  BY DEF ReadInv
<1>2. IsU32(g.arg) <=> IsNumber(g.arg) /\ Fits(g.arg.n)
  BY Arguments, FitsIs DEF IsU32
<1>3. CASE prog = "boy"
  <2>1. g.opt \in {"I", "M", "D", "u", "i", "o", "R", "B", "l", "?"}
    BY <1>3 DEF Fields
  <2> QED
    BY <1>2, <1>3, <2>1
    DEF Accepts, Refused, Fields, Modes, CreateFields, Numbers, Texts, DeviceModes, LogLevels
<1>4. CASE prog = "beastie"
  <2>1. g.opt \in {"i", "m", "s", "w", "l", "?"}
    BY <1>4 DEF Fields
  <2> QED
    BY <1>4, <2>1 DEF Accepts, Refused, Fields, Modes, Numbers, Texts, LogLevels
<1> QED
  BY <1>1, <1>3, <1>4

\* No option is both.
LEMMA AcceptedIsNotRefused ==
  ASSUME ReadInv, NEW g \in Given[prog], Accepts(prog, g)
  PROVE  ~Refused(g)
<1>1. prog \in {"boy", "beastie"}
  BY DEF ReadInv
<1>2. CASE g.opt \in DOMAIN Fields[prog] \cup {"l"}
  BY <1>2, AcceptedIs
<1>3. CASE g.opt \in DOMAIN Modes[prog] \cup {"h", ""}
  <2>1. CASE prog = "boy"
    BY <1>3, <2>1 DEF Refused, Modes
  <2>2. CASE prog = "beastie"
    BY <1>3, <2>2 DEF Refused, Modes
  <2> QED
    BY <1>1, <2>1, <2>2
<1> QED
  BY <1>2, <1>3 DEF Accepts

-----------------------------------------------------------------------------
(* Every option does what Took says                                        *)

\* The fields of boy's options and of beastie's.
LEMMA OptionFields ==
  /\ DOMAIN Defaults["boy"] =
       {"mode", "log_level", "unset_span_if_index", "set_span_if_index", "set_span_memif_name",
        "set_span_device_mode", "id", "socket_id", "ring_size", "buffer_size"}
  /\ DOMAIN Defaults["beastie"] =
       {"mode", "log_level", "output_filename", "max_capture_bytes", "memif_id",
        "memif_socket_path"}
  BY DEF Defaults

\* A stored argument changes its field and no other.
LEMMA SetsOne ==
  ASSUME NEW f, NEW v, f \in DOMAIN options, OptionsInv, prog' = prog,
         options' = [options EXCEPT ![f] = v]
  PROVE  /\ OptionsInv'
         /\ \A x \in DOMAIN options : options'[x] = IF x = f THEN v ELSE options[x]
  BY DEF OptionsInv

LEMMA TookMode ==
  ASSUME ReadInv, OptionsInv, NEW c, ModeOption(c)
  PROVE  Took([opt |-> c, arg |-> None])
<1> DEFINE g == [opt |-> c, arg |-> None]
<1>1. /\ c \in DOMAIN Modes[prog] /\ status = "parsing" /\ status' = "parsing"
      /\ g \in Given[prog] /\ given' = Append(given, g)
      /\ prog' = prog /\ ran' = ran /\ rc' = rc
      /\ options' = [options EXCEPT !["mode"] = Modes[prog][c]]
      /\ seen' = seen \cup (IF prog = "boy" THEN {c} \cap {"c", "S"} ELSE {})
  BY DEF ModeOption, Reads, Sets
<1>2. "mode" \in DOMAIN options
  BY OptionFields DEF ReadInv, OptionsInv
<1>3. /\ OptionsInv'
      /\ \A x \in DOMAIN options : options'[x] = IF x = "mode" THEN Modes[prog][c] ELSE options[x]
  BY <1>1, <1>2, SetsOne
<1>4. /\ prog = "boy" => c \in {"V", "c", "m", "p", "s", "S", "v"}
      /\ prog = "beastie" => c = "V"
  BY <1>1 DEF Modes
<1>5. Accepts(prog, g) /\ g.opt # "h" /\ g.opt = c
  <2>1. CASE prog = "boy"
    BY <1>4, <2>1 DEF Accepts, Modes, Numbers, Texts, CreateFields
  <2>2. CASE prog = "beastie"
    BY <1>4, <2>2 DEF Accepts, Modes, Numbers, Texts
  <2> QED
    BY <2>1, <2>2 DEF ReadInv
<1>6. \A x \in DOMAIN Fields[prog] : /\ x # c /\ Fields[prog][x] # "mode"
                                     /\ Fields[prog][x] \in DOMAIN options
  BY <1>4, OptionFields DEF Fields, ReadInv, OptionsInv
<1>7. options'.mode = IF c \in ModeOptions(prog) THEN ModeOf(prog, c) ELSE options.mode
  BY <1>1, <1>2, <1>3, <1>4 DEF ModeOptions, ModeOf, ReadInv
<1>8. seen' = seen \cup Marks(prog, g)
  BY <1>1, <1>4 DEF Marks, Flags, CreateFields, ReadInv
<1>9. GoesOn(g)
  BY <1>1, <1>3, <1>5, <1>6, <1>7, <1>8 DEF GoesOn
<1> QED
  BY <1>1, <1>9 DEF Took

\* An option that passes its test and is stored.
LEMMA StoredGoesOn ==
  ASSUME ReadInv, OptionsInv, NEW g, g.opt \in DOMAIN Fields[prog] \ {"u"}, Accepts(prog, g),
         prog' = prog, status = "parsing", status' = status,
         options' = [options EXCEPT ![Fields[prog][g.opt]] = Stored(prog, g)],
         seen' = seen \cup Marks(prog, g)
  PROVE  GoesOn(g)
<1> DEFINE f == Fields[prog][g.opt]
<1>1. \/ prog = "boy" /\ g.opt \in {"I", "M", "D", "i", "o", "R", "B"}
      \/ prog = "beastie" /\ g.opt \in {"i", "m", "s", "w"}
  BY DEF Fields, ReadInv
<1>2. "mode" \in DOMAIN options /\ f \in DOMAIN options /\ f # "mode"
  BY <1>1, OptionFields DEF OptionsInv, Fields
<1>3. /\ OptionsInv'
      /\ \A x \in DOMAIN options : options'[x] = IF x = f THEN Stored(prog, g) ELSE options[x]
  <2> HIDE DEF f
  <2>1. options' = [options EXCEPT ![f] = Stored(prog, g)]
    BY DEF f
  <2> QED
    BY <1>2, <2>1, SetsOne
<1>4. \A x \in DOMAIN Fields[prog] : /\ Fields[prog][x] \in DOMAIN options
                                     /\ Fields[prog][x] = f => x = g.opt
  BY <1>1, OptionFields DEF OptionsInv, Fields
<1>5. g.opt # "h" /\ g.opt # "S" /\ g.opt \notin ModeOptions(prog)
  BY <1>1 DEF ModeOptions, Modes
<1>6. \A x \in DOMAIN Fields[prog] :
        options'[Fields[prog][x]] = IF g.opt = x THEN Stored(prog, g) ELSE options[Fields[prog][x]]
  BY <1>3, <1>4
<1>7. options'.mode = options.mode
  BY <1>2, <1>3
<1> QED
  BY <1>3, <1>5, <1>6, <1>7 DEF GoesOn

\* An option with an argument that is tested, and stored or refused.
TestedOption(g) ==
  /\ status = "parsing" /\ g \in Given[prog]
  /\ given' = Append(given, g) /\ UNCHANGED <<prog, ran, rc>>
  /\ g.opt \in DOMAIN Fields[prog] \ {"u"}
  /\ IF Accepts(prog, g)
       THEN /\ options' = [options EXCEPT ![Fields[prog][g.opt]] = Stored(prog, g)]
            /\ status' = status
            /\ seen' = seen \cup Marks(prog, g)
       ELSE Fails

LEMMA TookTested ==
  ASSUME ReadInv, OptionsInv, NEW g, TestedOption(g)
  PROVE  Took(g)
<1>1. CASE Accepts(prog, g)
  <2>1. GoesOn(g)
    BY <1>1, StoredGoesOn DEF TestedOption
  <2> QED
    BY <2>1 DEF TestedOption, Took
<1>2. CASE ~Accepts(prog, g)
  <2>1. g.opt # "h"
    BY DEF TestedOption, Fields, ReadInv
  <2>2. Refused(g)
    BY <1>2, AcceptedIs DEF TestedOption
  <2> QED
    BY <1>2, <2>1, <2>2 DEF TestedOption, Fails, Took
<1> QED
  BY <1>1, <1>2

LEMMA TookCreate ==
  ASSUME ReadInv, OptionsInv, NEW c, NEW arg, CreateOption(c, arg)
  PROVE  Took([opt |-> c, arg |-> arg])
<1> DEFINE g == [opt |-> c, arg |-> arg]
<1>1. c \in {"i", "o", "R", "B"} /\ prog = "boy"
  BY DEF CreateOption, CreateFields, Reads
<1>2. /\ g.opt \in DOMAIN Fields[prog] \ {"u"}
      /\ Fields[prog][g.opt] = CreateFields[c] /\ Stored(prog, g) = U32(arg)
  BY <1>1 DEF Fields, CreateFields, Stored
<1>3. Accepts(prog, g) <=> IsU32(arg)
  <2>1. /\ g.opt \in DOMAIN CreateFields /\ g.opt \in DOMAIN Fields["boy"]
        /\ g.opt \notin DOMAIN Modes["boy"] /\ g.opt \notin Numbers["boy"]
        /\ g.opt \notin Texts["boy"] /\ g.opt \notin {"h", "l", "D"} /\ g.arg = arg
    BY <1>1 DEF Fields, CreateFields, Modes, Numbers, Texts
  <2> QED
    BY <1>1, <2>1 DEF Accepts
<1>4. Marks(prog, g) = {"create_option"}
  <2>1. g.opt \in DOMAIN CreateFields /\ g.opt \notin Flags
    BY <1>1 DEF CreateFields, Flags
  <2> QED
    BY <1>1, <2>1 DEF Marks
<1>5. TestedOption(g)
  BY <1>1, <1>2, <1>4, <1>3 DEF CreateOption, Reads, Sets, TestedOption
<1> QED
  BY <1>5, TookTested

LEMMA TookSpan ==
  ASSUME ReadInv, OptionsInv, NEW arg, IfaceOption(arg) \/ MemifOption(arg) \/ DeviceOption(arg)
  PROVE  \E g \in Given[prog] : Took(g)
<1> DEFINE G(c) == [opt |-> c, arg |-> arg]
<1>1. CASE IfaceOption(arg)
  <2>1. /\ G("I").opt \in DOMAIN Fields["boy"] \ {"u"}
        /\ Fields["boy"]["I"] = "set_span_if_index" /\ Stored("boy", G("I")) = IfIndex(arg)
        /\ Accepts("boy", G("I")) <=> IsNumber(arg)
        /\ Marks("boy", G("I")) = {"I"}
    BY DEF Marks, Fields, CreateFields, Stored, Accepts, Modes, Numbers, Texts, Flags
  <2>2. TestedOption(G("I"))
    BY <1>1, <2>1 DEF IfaceOption, Reads, Sets, TestedOption
  <2> QED
    BY <2>2, TookTested DEF TestedOption
<1>2. CASE MemifOption(arg)
  <2>1. /\ G("M").opt \in DOMAIN Fields["boy"] \ {"u"}
        /\ Fields["boy"]["M"] = "set_span_memif_name" /\ Stored("boy", G("M")) = arg
        /\ Accepts("boy", G("M")) <=> arg # None
        /\ Marks("boy", G("M")) = {"M"}
    BY DEF Marks, Fields, CreateFields, Stored, Accepts, Modes, Numbers, Texts, Flags
  <2>2. TestedOption(G("M"))
    BY <1>2, <2>1 DEF MemifOption, Reads, Sets, TestedOption
  <2> QED
    BY <2>2, TookTested DEF TestedOption
<1>3. CASE DeviceOption(arg)
  <2>1. /\ G("D").opt \in DOMAIN Fields["boy"] \ {"u"}
        /\ Fields["boy"]["D"] = "set_span_device_mode" /\ Stored("boy", G("D")) = arg.word
        /\ Accepts("boy", G("D")) <=> arg.word \in DeviceModes
        /\ Marks("boy", G("D")) = {"D"}
    BY DEF Marks, Fields, CreateFields, Stored, Accepts, Modes, Numbers, Texts, Flags
  <2>2. TestedOption(G("D"))
    BY <1>3, <2>1 DEF DeviceOption, Reads, Sets, TestedOption
  <2> QED
    BY <2>2, TookTested DEF TestedOption
<1> QED
  BY <1>1, <1>2, <1>3

LEMMA TookBeastie ==
  ASSUME ReadInv, OptionsInv, NEW arg,
         \/ MemifIdOption(arg) \/ MaxBytesOption(arg) \/ SocketOption(arg) \/ WriteOption(arg)
  PROVE  \E g \in Given[prog] : Took(g)
<1> DEFINE G(c) == [opt |-> c, arg |-> arg]
<1>1. CASE MemifIdOption(arg)
  <2>1. /\ G("i").opt \in DOMAIN Fields["beastie"] \ {"u"}
        /\ Fields["beastie"]["i"] = "memif_id" /\ Stored("beastie", G("i")) = MemifId(arg)
        /\ Accepts("beastie", G("i")) <=> IsNumber(arg)
        /\ Marks("beastie", G("i")) = {}
    BY DEF Marks, Fields, Stored, Accepts, Modes, Numbers, Texts
  <2>2. TestedOption(G("i"))
    BY <1>1, <2>1 DEF MemifIdOption, Reads, Sets, TestedOption
  <2> QED
    BY <2>2, TookTested DEF TestedOption
<1>2. CASE MaxBytesOption(arg)
  <2>1. /\ G("m").opt \in DOMAIN Fields["beastie"] \ {"u"}
        /\ Fields["beastie"]["m"] = "max_capture_bytes" /\ Stored("beastie", G("m")) = MaxBytes(arg)
        /\ Accepts("beastie", G("m")) <=> IsNumber(arg)
        /\ Marks("beastie", G("m")) = {}
    BY DEF Marks, Fields, Stored, Accepts, Modes, Numbers, Texts
  <2>2. TestedOption(G("m"))
    BY <1>2, <2>1 DEF MaxBytesOption, Reads, Sets, TestedOption
  <2> QED
    BY <2>2, TookTested DEF TestedOption
<1>3. CASE SocketOption(arg)
  <2>1. /\ G("s").opt \in DOMAIN Fields["beastie"] \ {"u"}
        /\ Fields["beastie"]["s"] = "memif_socket_path" /\ Stored("beastie", G("s")) = arg
        /\ Accepts("beastie", G("s")) <=> arg # None
        /\ Marks("beastie", G("s")) = {}
    BY DEF Marks, Fields, Stored, Accepts, Modes, Numbers, Texts
  <2>2. TestedOption(G("s"))
    BY <1>3, <2>1 DEF SocketOption, Reads, Sets, TestedOption
  <2> QED
    BY <2>2, TookTested DEF TestedOption
<1>4. CASE WriteOption(arg)
  <2>1. /\ G("w").opt \in DOMAIN Fields["beastie"] \ {"u"}
        /\ Fields["beastie"]["w"] = "output_filename" /\ Stored("beastie", G("w")) = arg
        /\ Accepts("beastie", G("w")) /\ Marks("beastie", G("w")) = {}
    BY DEF Marks, Fields, Stored, Accepts, Modes, Numbers, Texts
  <2>2. TestedOption(G("w"))
    BY <1>4, <2>1 DEF WriteOption, Reads, Sets, TestedOption
  <2> QED
    BY <2>2, TookTested DEF TestedOption
<1> QED
  BY <1>1, <1>2, <1>3, <1>4

LEMMA TookUnset ==
  ASSUME ReadInv, OptionsInv, NEW arg, UnsetOption(arg)
  PROVE  Took([opt |-> "u", arg |-> arg])
<1> DEFINE g == [opt |-> "u", arg |-> arg]
<1>1. /\ prog = "boy" /\ status = "parsing" /\ g \in Given["boy"] /\ given' = Append(given, g)
      /\ prog' = prog /\ ran' = ran /\ rc' = rc
  BY DEF UnsetOption, Reads
<1>2. /\ Accepts("boy", g) <=> IsNumber(arg)
      /\ Stored("boy", g) = IfIndex(arg) /\ g.opt \in ModeOptions("boy")
      /\ ModeOf("boy", "u") = "unset_span" /\ g.opt = "u" /\ Marks("boy", g) = {}
  BY DEF Marks, Flags, Accepts, Modes, Fields, Stored, CreateFields, Numbers, Texts, ModeOptions, ModeOf
<1>3. CASE IsNumber(arg)
  <2> DEFINE first == [options EXCEPT !["unset_span_if_index"] = IfIndex(arg)]
  <2>1. /\ options' = [first EXCEPT !["mode"] = "unset_span"]
        /\ status' = status /\ seen' = seen
    BY <1>3 DEF UnsetOption
  <2>2. "mode" \in DOMAIN options /\ "unset_span_if_index" \in DOMAIN options
    BY <1>1, OptionFields DEF OptionsInv
  <2>3. /\ OptionsInv'
        /\ \A x \in DOMAIN options :
             options'[x] = IF x = "mode" THEN "unset_span"
                           ELSE IF x = "unset_span_if_index" THEN IfIndex(arg) ELSE options[x]
    BY <1>1, <2>1, <2>2 DEF OptionsInv
  <2>4. \A x \in DOMAIN Fields["boy"] :
          /\ Fields["boy"][x] \in DOMAIN options /\ Fields["boy"][x] # "mode"
          /\ Fields["boy"][x] = "unset_span_if_index" <=> x = "u"
    BY <1>1, OptionFields DEF OptionsInv, Fields
  <2>5. GoesOn(g)
    BY <1>1, <1>2, <1>3, <2>1, <2>2, <2>3, <2>4 DEF GoesOn
  <2> QED
    BY <1>1, <2>5 DEF Took
<1>4. CASE ~IsNumber(arg)
  BY <1>1, <1>2, <1>4 DEF UnsetOption, Fails, Refused, Took
<1> QED
  BY <1>3, <1>4

LEMMA TookLogLevel ==
  ASSUME ReadInv, OptionsInv, NEW arg, LogLevelOption(arg)
  PROVE  Took([opt |-> "l", arg |-> arg])
<1> DEFINE g == [opt |-> "l", arg |-> arg]
<1>1. /\ status = "parsing" /\ g \in Given[prog] /\ given' = Append(given, g)
      /\ prog' = prog /\ ran' = ran /\ rc' = rc
  BY DEF LogLevelOption, Reads
<1>2. /\ Accepts(prog, g) <=> arg.word \in LogLevels
      /\ g.opt \notin ModeOptions(prog) /\ g.opt \notin DOMAIN Fields[prog]
      /\ g.opt # "h" /\ Marks(prog, g) = {}
  BY DEF Marks, Flags, Accepts, Modes, Fields, CreateFields, Numbers, Texts, ModeOptions, ReadInv
<1>3. CASE arg.word \in LogLevels
  <2>1. /\ options' = [options EXCEPT !["log_level"] = arg.word]
        /\ status' = status /\ seen' = seen
    BY <1>3 DEF LogLevelOption, Sets
  <2>2. "mode" \in DOMAIN options /\ "log_level" \in DOMAIN options
    BY OptionFields DEF OptionsInv, ReadInv
  <2>3. /\ OptionsInv'
        /\ \A x \in DOMAIN options : options'[x] = IF x = "log_level" THEN arg.word ELSE options[x]
    BY <1>1, <2>1, <2>2, SetsOne
  <2>4. \A x \in DOMAIN Fields[prog] :
          Fields[prog][x] \in DOMAIN options /\ Fields[prog][x] # "log_level"
    BY OptionFields DEF OptionsInv, Fields, ReadInv
  <2>5. GoesOn(g)
    BY <1>1, <1>2, <1>3, <2>1, <2>2, <2>3, <2>4 DEF GoesOn
  <2> QED
    BY <1>1, <2>5 DEF Took
<1>4. CASE arg.word \notin LogLevels
  BY <1>1, <1>2, <1>4 DEF LogLevelOption, Fails, Refused, LogLevels, Took
<1> QED
  BY <1>3, <1>4

LEMMA TookHelp ==
  ASSUME ReadInv, OptionsInv, NEW arg, HelpOption \/ UnknownOption \/ Operand(arg)
  PROVE  \E g \in Given[prog] : Took(g)
<1>1. CASE HelpOption
  <2>1. Accepts(prog, [opt |-> "h", arg |-> None])
    BY DEF Accepts, Modes, Fields, CreateFields, Numbers, Texts, ReadInv
  <2>2. Took([opt |-> "h", arg |-> None])
    BY <1>1, <2>1 DEF HelpOption, Reads, Took
  <2> QED
    BY <2>2 DEF Took
<1>2. CASE UnknownOption
  <2>1. Took([opt |-> "?", arg |-> None])
    BY <1>2 DEF UnknownOption, Reads, Fails, Refused, Took, Accepts, Modes, Fields, ReadInv
  <2> QED
    BY <2>1 DEF Took
<1>3. CASE Operand(arg)
  <2> DEFINE g == [opt |-> "", arg |-> arg]
  <2>1. /\ status = "parsing" /\ status' = "parsing" /\ g \in Given[prog]
        /\ given' = Append(given, g) /\ prog' = prog /\ ran' = ran /\ rc' = rc
        /\ options' = options /\ seen' = seen
    BY <1>3 DEF Operand, Reads
  <2>2. /\ "" \notin DOMAIN Modes[prog] /\ "" \notin DOMAIN Fields[prog]
        /\ "" \notin Numbers[prog] /\ "" \notin Texts[prog] /\ "" \notin DOMAIN CreateFields
    <3>1. CASE prog = "boy"
      BY <3>1 DEF Modes, Fields, CreateFields, Numbers, Texts
    <3>2. CASE prog = "beastie"
      BY <3>2 DEF Modes, Fields, CreateFields, Numbers, Texts
    <3> QED
      BY <3>1, <3>2 DEF ReadInv
  <2>3. g.opt = "" /\ g.opt # "h"
    OBVIOUS
  <2> HIDE DEF g
  <2>4. g.opt \notin ModeOptions(prog) /\ g.opt \notin DOMAIN Fields[prog]
    BY <2>2, <2>3 DEF ModeOptions
  <2>5. Accepts(prog, g)
    BY <2>2, <2>3 DEF Accepts
  <2>6. Marks(prog, g) = {}
    BY <2>2, <2>3 DEF Marks, Flags
  <2>7. g.opt # "h" /\ Accepts(prog, g) /\ Marks(prog, g) = {}
    BY <2>3, <2>5, <2>6
  <2>8. OptionsInv'
    BY <2>1 DEF OptionsInv
  <2>9. GoesOn(g)
    BY <2>1, <2>4, <2>8, <2>7 DEF GoesOn
  <2> QED
    BY <2>1, <2>9 DEF Took
<1> QED
  BY <1>1, <1>2, <1>3

\* Whatever the option, it does what Took says.
LEMMA TakesOptionTook ==
  ASSUME ReadInv, OptionsInv, TakesOption
  PROVE  \E g \in Given[prog] : Took(g)
<1>1. PICK g \in Given[prog] :
        \/ ModeOption(g.opt) \/ CreateOption(g.opt, g.arg) \/ IfaceOption(g.arg)
        \/ MemifOption(g.arg) \/ DeviceOption(g.arg) \/ UnsetOption(g.arg)
        \/ LogLevelOption(g.arg) \/ MemifIdOption(g.arg) \/ MaxBytesOption(g.arg)
        \/ SocketOption(g.arg) \/ WriteOption(g.arg) \/ HelpOption \/ UnknownOption
        \/ Operand(g.arg)
  BY DEF TakesOption
<1>2. CASE ModeOption(g.opt)
  BY <1>2, TookMode DEF Took
<1>3. CASE CreateOption(g.opt, g.arg)
  BY <1>3, TookCreate DEF Took
<1>4. CASE IfaceOption(g.arg) \/ MemifOption(g.arg) \/ DeviceOption(g.arg)
  BY <1>4, TookSpan
<1>5. CASE UnsetOption(g.arg)
  BY <1>5, TookUnset DEF Took
<1>6. CASE LogLevelOption(g.arg)
  BY <1>6, TookLogLevel DEF Took
<1>7. CASE \/ MemifIdOption(g.arg) \/ MaxBytesOption(g.arg) \/ SocketOption(g.arg)
           \/ WriteOption(g.arg)
  BY <1>7, TookBeastie
<1>8. CASE HelpOption \/ UnknownOption \/ Operand(g.arg)
  BY <1>8, TookHelp
<1> QED
  BY <1>1, <1>2, <1>3, <1>4, <1>5, <1>6, <1>7, <1>8

-----------------------------------------------------------------------------
(* The inductive invariant                                                 *)

\* Whatever was refused, numbers fit their fields.
RangeInv ==
  \A f \in DOMAIN Sizes[prog] :
    options[f] \in {Defaults[prog][f]} \cup 0 .. Sizes[prog][f] - 1

\* Every field holds what its last option gives, unless that was refused.
ValueInv ==
  \A c \in DOMAIN Fields[prog] :
    /\ Latest(c) = 0 => options[Fields[prog][c]] = Defaults[prog][Fields[prog][c]]
    /\ Latest(c) # 0 /\ Accepts(prog, given[Latest(c)]) =>
         options[Fields[prog][c]] = Stored(prog, given[Latest(c)])

AllAccepted == \A k \in DOMAIN given : Accepts(prog, given[k])

\* The last option of boy that goes through boy_parse_u32.
LatestCreate == LastOf(DOMAIN CreateFields)

\* The flags are those of options that were given, and all of those unless
\* something was refused; beastie has none.
SeenInv ==
  /\ seen \subseteq Flags \cup {"create_option"}
  /\ \A c \in seen \cap Flags : Latest(c) # 0
  /\ options.mode = "set_span" => "S" \in seen
  /\ prog = "beastie" => seen = {}
  /\ prog = "boy" /\ AllAccepted => /\ \A c \in Flags : c \in seen <=> Latest(c) # 0
                                    /\ "create_option" \in seen <=> LatestCreate # 0

SomethingRefused == \E k \in DOMAIN given : Refused(given[k])

\* The mode is that of the last option that names one.
ModeChosen ==
  options.mode = IF LatestMode = 0 THEN Defaults[prog].mode
                 ELSE ModeOf(prog, given[LatestMode].opt)

HelpGiven == Latest("h") # 0

\* How far the program is tells what was given.
StatusInv ==
  /\ status \in {"parsing", "ok", "exit_success", "exit_failure", "exited"} /\ rc \in {0, 1}
  /\ status \in {"parsing", "ok"} => ran = <<>> /\ AllAccepted /\ ~HelpGiven /\ ModeChosen
  /\ status = "ok" => Complete
  /\ status = "exit_success" => ran = <<>> /\ AllAccepted /\ HelpGiven
  /\ status = "exit_failure" =>
       ran = <<>> /\ ~HelpGiven /\ (SomethingRefused \/ (AllAccepted /\ ~Complete))
  /\ status = "exited" =>
       \/ ran = CommandOf(options) /\ AllAccepted /\ ~HelpGiven /\ Complete /\ ModeChosen
       \/ ran = <<>> /\ AllAccepted /\ rc = 0 /\ HelpGiven
       \/ /\ ran = <<>> /\ rc = 1 /\ ~HelpGiven
          /\ SomethingRefused \/ (AllAccepted /\ ~Complete)

CliInv == ReadInv /\ OptionsInv /\ RangeInv /\ ValueInv /\ SeenInv /\ StatusInv

LEMMA CliInit == Init => CliInv
<1> SUFFICES ASSUME Init PROVE CliInv
  OBVIOUS
<1>1. ReadInv /\ OptionsInv /\ DOMAIN given = {}
  BY DEF Init, ReadInv, OptionsInv
<1>2. \A opts : LastOf(opts) = 0
  BY <1>1, LastOfIs DEF LastsAreLast, IsLast
<1>3. LatestMode = 0 /\ LatestCreate = 0 /\ \A c : Latest(c) = 0
  BY <1>2 DEF Latest, LatestMode, LatestCreate
<1>4. RangeInv
  BY DEF Init, RangeInv
<1>5. ValueInv
  BY <1>3 DEF Init, ValueInv
<1>6. SeenInv
  BY <1>1, <1>3 DEF Init, SeenInv, Defaults
<1>7. StatusInv
  BY <1>1, <1>3 DEF Init, StatusInv, AllAccepted, HelpGiven, ModeChosen
<1> QED
  BY <1>1, <1>4, <1>5, <1>6, <1>7 DEF CliInv

-----------------------------------------------------------------------------
(* Every step keeps the invariant                                          *)

LEMMA ReadTook == ASSUME CliInv, NEW g, Took(g) PROVE ReadInv' /\ OptionsInv'
<1>1. ReadInv'
  BY DEF CliInv, ReadInv, Took
<1>2. OptionsInv'
  BY DEF CliInv, OptionsInv, Took, GoesOn
<1> QED
  BY <1>1, <1>2

LEMMA RangeTook == ASSUME CliInv, NEW g, Took(g) PROVE RangeInv'
<1>1. prog' = prog /\ prog \in {"boy", "beastie"} /\ RangeInv
  BY DEF Took, CliInv, ReadInv
<1>2. CASE options' = options
  BY <1>1, <1>2 DEF RangeInv
<1>3. CASE GoesOn(g)
  <2>1. g.arg.n \in Int
    BY Arguments DEF Took, CliInv
  <2>2. ASSUME NEW f \in DOMAIN Sizes[prog], NEW c \in DOMAIN Fields[prog], Fields[prog][c] = f,
               g.opt = c => Stored(prog, g) \in 0 .. Sizes[prog][f] - 1
        PROVE  options'[f] \in {Defaults[prog][f]} \cup 0 .. Sizes[prog][f] - 1
    BY <1>1, <1>3, <2>2 DEF GoesOn, RangeInv
  <2>3. ASSUME NEW f \in DOMAIN Sizes[prog]
        PROVE  \E c \in DOMAIN Fields[prog] :
                 /\ Fields[prog][c] = f
                 /\ g.opt = c => Stored(prog, g) \in 0 .. Sizes[prog][f] - 1
    <3>1. /\ IfIndex(g.arg) \in 0 .. WordSize - 1 /\ U32(g.arg) \in 0 .. WordSize - 1
          /\ MemifId(g.arg) \in 0 .. WordSize - 1 /\ MaxBytes(g.arg) \in 0 .. LongSize - 1
      BY <2>1, Converts DEF IfIndex, U32, MemifId, MaxBytes
    <3>2. CASE prog = "boy"
      <4>1. \/ f = "set_span_if_index" /\ f = Fields["boy"]["I"]
            \/ f = "unset_span_if_index" /\ f = Fields["boy"]["u"]
            \/ f = "id" /\ f = Fields["boy"]["i"]
            \/ f = "socket_id" /\ f = Fields["boy"]["o"]
            \/ f = "ring_size" /\ f = Fields["boy"]["R"]
            \/ f = "buffer_size" /\ f = Fields["boy"]["B"]
        BY <2>3, <3>2 DEF Sizes, Fields
      <4>2. Sizes["boy"][f] = WordSize
        BY <2>3, <3>2 DEF Sizes
      <4>3. \A c \in {"I", "u", "i", "o", "R", "B"} :
              /\ c \in DOMAIN Fields["boy"]
              /\ g.opt = c => Stored("boy", g) \in 0 .. WordSize - 1
        BY <3>1 DEF Stored, CreateFields, Fields
      <4> QED
        BY <3>2, <4>1, <4>2, <4>3
    <3>3. CASE prog = "beastie"
      <4>1. CASE f = "memif_id"
        <5>1. "i" \in DOMAIN Fields["beastie"] /\ Fields["beastie"]["i"] = f
          BY <4>1 DEF Fields
        <5>2. g.opt = "i" => Stored("beastie", g) \in 0 .. Sizes["beastie"][f] - 1
          BY <3>1, <4>1 DEF Stored, Sizes
        <5> QED
          BY <3>3, <5>1, <5>2
      <4>2. CASE f = "max_capture_bytes"
        <5>1. "m" \in DOMAIN Fields["beastie"] /\ Fields["beastie"]["m"] = f
          BY <4>2 DEF Fields
        <5>2. g.opt = "m" => Stored("beastie", g) \in 0 .. Sizes["beastie"][f] - 1
          BY <3>1, <4>2 DEF Stored, Sizes
        <5> QED
          BY <3>3, <5>1, <5>2
      <4> QED
        BY <2>3, <3>3, <4>1, <4>2 DEF Sizes
    <3> QED
      BY <1>1, <3>2, <3>3
  <2>4. \A f \in DOMAIN Sizes[prog] :
          options'[f] \in {Defaults[prog][f]} \cup 0 .. Sizes[prog][f] - 1
    BY <2>2, <2>3
  <2> QED
    BY <1>1, <2>4 DEF RangeInv
<1> QED
  BY <1>2, <1>3 DEF Took

LEMMA ValueTook == ASSUME CliInv, NEW g, Took(g) PROVE ValueInv'
<1>1. ReadInv /\ ReadInv' /\ given' = Append(given, g) /\ prog' = prog /\ Len(given) \in Nat
  BY ReadTook DEF CliInv, Took, ReadInv
<1> SUFFICES ASSUME NEW c \in DOMAIN Fields[prog]
             PROVE  /\ Latest(c)' = 0 => options'[Fields[prog][c]] = Defaults[prog][Fields[prog][c]]
                    /\ Latest(c)' # 0 /\ Accepts(prog, given'[Latest(c)']) =>
                         options'[Fields[prog][c]] = Stored(prog, given'[Latest(c)'])
  BY <1>1 DEF ValueInv, Fields
<1>2. /\ Latest(c)' = IF g.opt = c THEN Len(given) + 1 ELSE Latest(c)
      /\ Latest(c)' # 0 => given'[Latest(c)'] = IF g.opt = c THEN g ELSE given[Latest(c)]
  BY <1>1, LatestNext
<1>3. /\ Latest(c) = 0 => options[Fields[prog][c]] = Defaults[prog][Fields[prog][c]]
      /\ Latest(c) # 0 /\ Accepts(prog, given[Latest(c)]) =>
           options[Fields[prog][c]] = Stored(prog, given[Latest(c)])
  BY DEF CliInv, ValueInv
<1>4. CASE GoesOn(g)
  <2>1. options'[Fields[prog][c]] = IF g.opt = c THEN Stored(prog, g) ELSE options[Fields[prog][c]]
    BY <1>4 DEF GoesOn
  <2>2. CASE g.opt = c
    <3>1. Latest(c)' # 0 /\ given'[Latest(c)'] = g
      BY <1>1, <1>2, <2>2
    <3> QED
      BY <2>1, <2>2, <3>1
  <2>3. CASE g.opt # c
    <3>1. Latest(c)' = Latest(c) /\ (Latest(c)' # 0 => given'[Latest(c)'] = given[Latest(c)])
      BY <1>2, <2>3
    <3> QED
      BY <1>3, <2>1, <2>3, <3>1
  <2> QED
    BY <2>2, <2>3
<1>5. CASE options' = options /\ g.opt = "h"
  <2>1. g.opt # c
    BY <1>5 DEF Fields, CliInv, ReadInv
  <2> QED
    BY <1>2, <1>3, <1>5, <2>1
<1>6. CASE options' = options /\ ~Accepts(prog, g)
  <2>1. CASE g.opt = c
    <3>1. Latest(c)' # 0 /\ given'[Latest(c)'] = g
      BY <1>1, <1>2, <2>1
    <3> QED
      BY <1>6, <3>1
  <2>2. CASE g.opt # c
    <3>1. Latest(c)' = Latest(c) /\ (Latest(c)' # 0 => given'[Latest(c)'] = given[Latest(c)])
      BY <1>2, <2>2
    <3> QED
      BY <1>3, <1>6, <3>1
  <2> QED
    BY <2>1, <2>2
<1> QED
  BY <1>4, <1>5, <1>6 DEF Took

LEMMA SeenTook == ASSUME CliInv, NEW g, Took(g) PROVE SeenInv'
<1>1. /\ ReadInv /\ ReadInv' /\ given' = Append(given, g) /\ Len(given) \in Nat
      /\ prog \in {"boy", "beastie"} /\ prog' = prog /\ SeenInv
  BY ReadTook DEF CliInv, Took, ReadInv
<1>2. \A c : Latest(c)' = IF g.opt = c THEN Len(given) + 1 ELSE Latest(c)
  BY <1>1, LatestNext
<1>3. LatestCreate' = IF g.opt \in DOMAIN CreateFields THEN Len(given) + 1 ELSE LatestCreate
  BY <1>1, LastOfNext DEF LatestCreate, CreateFields
<1>4. \A c : Latest(c)' # 0 <=> Latest(c) # 0 \/ g.opt = c
  BY <1>1, <1>2
<1>5. LatestCreate' # 0 <=> LatestCreate # 0 \/ g.opt \in DOMAIN CreateFields
  BY <1>1, <1>3
<1>6. AllAccepted' => AllAccepted /\ Accepts(prog, g)
  <2>1. /\ DOMAIN given' = 1 .. Len(given) + 1 /\ DOMAIN given = 1 .. Len(given)
        /\ given'[Len(given) + 1] = g /\ \A k \in 1 .. Len(given) : given'[k] = given[k]
    BY <1>1 DEF ReadInv
  <2> QED
    BY <1>1, <2>1 DEF AllAccepted
<1>7. CASE options' = options /\ seen' = seen /\ (g.opt = "h" \/ ~Accepts(prog, g))
  <2>1. AllAccepted' => AllAccepted /\ g.opt \notin Flags /\ g.opt \notin DOMAIN CreateFields
    BY <1>6, <1>7 DEF Flags, CreateFields
  <2> QED
    BY <1>1, <1>4, <1>5, <1>7, <2>1 DEF SeenInv
<1>8. CASE GoesOn(g)
  <2>1. seen' = seen \cup Marks(prog, g)
    BY <1>8 DEF GoesOn
  <2>2. /\ \A c \in Flags : c \in Marks(prog, g) <=> prog = "boy" /\ g.opt = c
        /\ "create_option" \in Marks(prog, g) <=> prog = "boy" /\ g.opt \in DOMAIN CreateFields
        /\ Marks(prog, g) \subseteq Flags \cup {"create_option"}
        /\ prog = "beastie" => Marks(prog, g) = {}
    BY DEF Marks, Flags
  <2>3. g.opt \in ModeOptions(prog) /\ ModeOf(prog, g.opt) = "set_span" => prog = "boy" /\ g.opt = "S"
    BY <1>1 DEF ModeOptions, ModeOf, Modes
  <2>4. options'.mode = "set_span" => "S" \in seen'
    BY <1>1, <1>8, <2>1, <2>2, <2>3 DEF GoesOn, SeenInv, Flags
  <2>5. \A c \in seen' \cap Flags : Latest(c)' # 0
    BY <1>1, <1>4, <2>1, <2>2 DEF SeenInv
  <2>6. prog' = "boy" /\ AllAccepted' => \A c \in Flags : c \in seen' <=> Latest(c)' # 0
    BY <1>1, <1>4, <1>6, <2>1, <2>2 DEF SeenInv
  <2>7. prog' = "boy" /\ AllAccepted' => ("create_option" \in seen' <=> LatestCreate' # 0)
    BY <1>1, <1>5, <1>6, <2>1, <2>2 DEF SeenInv
  <2> QED
    BY <1>1, <2>1, <2>2, <2>4, <2>5, <2>6, <2>7 DEF SeenInv
<1> QED
  BY <1>7, <1>8 DEF Took

LEMMA StatusTook == ASSUME CliInv, NEW g, Took(g) PROVE StatusInv'
<1>1. /\ ReadInv /\ ReadInv' /\ given' = Append(given, g) /\ Len(given) \in Nat
      /\ status = "parsing" /\ prog' = prog /\ ran' = ran /\ rc' = rc
  BY ReadTook DEF CliInv, Took, ReadInv
<1>2. ran = <<>> /\ AllAccepted /\ ~HelpGiven /\ ModeChosen /\ rc \in {0, 1}
  BY <1>1 DEF CliInv, StatusInv
<1>3. HelpGiven' <=> g.opt = "h"
  <2>1. Latest("h")' = IF g.opt = "h" THEN Len(given) + 1 ELSE Latest("h")
    BY <1>1, LatestNext
  <2> QED
    BY <1>1, <1>2, <2>1 DEF HelpGiven
<1>4. Accepts(prog, g) => AllAccepted'
  <2>1. /\ DOMAIN given' = 1 .. Len(given) + 1 /\ DOMAIN given = 1 .. Len(given)
        /\ given'[Len(given) + 1] = g /\ \A k \in 1 .. Len(given) : given'[k] = given[k]
    BY <1>1 DEF ReadInv
  <2>2. \A k \in 1 .. Len(given) + 1 : k \in 1 .. Len(given) \/ k = Len(given) + 1
    BY <1>1
  <2> QED
    BY <1>1, <1>2, <2>1, <2>2 DEF AllAccepted
<1>5. CASE GoesOn(g)
  <2>1. ModeChosen'
    <3>1. /\ LatestMode' = IF g.opt \in ModeOptions(prog) THEN Len(given) + 1 ELSE LatestMode
          /\ LatestMode' # 0 => given'[LatestMode'] = IF g.opt \in ModeOptions(prog) THEN g
                                                      ELSE given[LatestMode]
      BY <1>1, LatestModeNext
    <3>2. CASE g.opt \in ModeOptions(prog)
      <4>1. LatestMode' # 0 /\ given'[LatestMode'] = g
        BY <1>1, <3>1, <3>2
      <4>2. options'.mode = ModeOf(prog, g.opt)
        BY <1>5, <3>2 DEF GoesOn
      <4> QED
        BY <1>1, <4>1, <4>2 DEF ModeChosen, ModeOf
    <3>3. CASE g.opt \notin ModeOptions(prog)
      <4>1. LatestMode' = LatestMode
            /\ (LatestMode' # 0 => given'[LatestMode'] = given[LatestMode])
        BY <3>1, <3>3
      <4>2. options'.mode = options.mode
        BY <1>5, <3>3 DEF GoesOn
      <4> QED
        BY <1>1, <1>2, <4>1, <4>2 DEF ModeChosen, ModeOf
    <3> QED
      BY <3>2, <3>3
  <2> QED
    BY <1>1, <1>2, <1>3, <1>4, <1>5, <2>1 DEF GoesOn, StatusInv
<1>6. CASE g.opt = "h" /\ Accepts(prog, g) /\ status' = "exit_success"
  BY <1>1, <1>2, <1>3, <1>4, <1>6 DEF StatusInv
<1>7. CASE g.opt # "h" /\ ~Accepts(prog, g) /\ Refused(g) /\ status' = "exit_failure"
  <2>1. Len(given) + 1 \in DOMAIN given' /\ given'[Len(given) + 1] = g
    BY <1>1 DEF ReadInv
  <2>2. SomethingRefused'
    BY <1>1, <1>7, <2>1 DEF SomethingRefused, Refused
  <2> QED
    BY <1>1, <1>2, <1>3, <1>7, <2>2 DEF StatusInv
<1> QED
  BY <1>5, <1>6, <1>7 DEF Took

\* The steps after the loop leave what was read alone.
After == UNCHANGED <<prog, given, options, seen>>

LEMMA LatestStays ==
  ASSUME After
  PROVE  /\ LatestMode' = LatestMode /\ LatestCreate' = LatestCreate
         /\ \A c : Latest(c)' = Latest(c)
<1>1. given' = given /\ prog' = prog
  BY DEF After
<1>2. \A c : Latest(c)' = Latest(c)
  BY <1>1 DEF Latest, LastOf
<1>3. LatestMode' = LatestMode
  BY <1>1 DEF LatestMode, LastOf, ModeOptions, Modes
<1>4. LatestCreate' = LatestCreate
  BY <1>1 DEF LatestCreate, LastOf, CreateFields
<1> QED
  BY <1>2, <1>3, <1>4

LEMMA AfterKeeps ==
  ASSUME CliInv, After
  PROVE  /\ ReadInv' /\ OptionsInv' /\ RangeInv' /\ ValueInv' /\ SeenInv'
         /\ AllAccepted' <=> AllAccepted
         /\ SomethingRefused' <=> SomethingRefused
         /\ HelpGiven' <=> HelpGiven
         /\ ModeChosen => ModeChosen'
         /\ Complete' <=> Complete
<1>1. given' = given /\ prog' = prog /\ options' = options /\ seen' = seen
  BY DEF After
<1>2. /\ LatestMode' = LatestMode /\ LatestCreate' = LatestCreate
      /\ \A c : Latest(c)' = Latest(c)
  BY LatestStays
<1>3. ReadInv' /\ OptionsInv' /\ RangeInv'
  BY <1>1 DEF CliInv, ReadInv, OptionsInv, RangeInv
<1>4. ValueInv'
  BY <1>1, <1>2 DEF CliInv, ValueInv, Fields
<1>5. /\ AllAccepted' <=> AllAccepted
      /\ SomethingRefused' <=> SomethingRefused
      /\ Complete' <=> Complete
  BY <1>1 DEF AllAccepted, SomethingRefused, Refused, Complete
<1>6. SeenInv'
  BY <1>1, <1>2, <1>5 DEF CliInv, SeenInv
<1>7. (HelpGiven' <=> HelpGiven) /\ (ModeChosen => ModeChosen')
  BY <1>1, <1>2 DEF HelpGiven, ModeChosen
<1> QED
  BY <1>3, <1>4, <1>6, <1>7, <1>5

LEMMA StatusAfter ==
  ASSUME CliInv, OptionsEnd \/ Run \/ NotRun \/ UNCHANGED vars
  PROVE  After /\ StatusInv'
<1>1. After
  BY DEF OptionsEnd, Run, NotRun, vars, After
<1>2. /\ AllAccepted' <=> AllAccepted
      /\ SomethingRefused' <=> SomethingRefused
      /\ HelpGiven' <=> HelpGiven
      /\ ModeChosen => ModeChosen'
      /\ Complete' <=> Complete
  BY <1>1, AfterKeeps
<1>3. StatusInv
  BY DEF CliInv
<1>4. CommandOf(options)' = CommandOf(options)
  BY <1>1 DEF After, CommandOf
<1>5. ASSUME OptionsEnd PROVE StatusInv'
  <2>1. /\ status = "parsing" /\ ran' = ran /\ rc' = rc
        /\ \/ Complete /\ status' = "ok"
           \/ ~Complete /\ status' = "exit_failure"
    BY <1>5 DEF OptionsEnd
  <2>2. ran = <<>> /\ AllAccepted /\ ~HelpGiven /\ ModeChosen /\ rc \in {0, 1}
    BY <1>3, <2>1 DEF StatusInv
  <2> QED
    BY <1>2, <2>1, <2>2 DEF StatusInv
<1>6. ASSUME Run PROVE StatusInv'
  <2>1. ran' = CommandOf(options)' /\ status' = "exited" /\ rc' \in {0, 1} /\ status = "ok"
    BY <1>4, <1>6 DEF Run
  <2>2. AllAccepted /\ ~HelpGiven /\ Complete /\ ModeChosen
    BY <1>3, <2>1 DEF StatusInv
  <2> QED
    BY <1>2, <2>1, <2>2 DEF StatusInv
<1>7. ASSUME NotRun PROVE StatusInv'
  <2>1. /\ status' = "exited" /\ ran' = ran
        /\ \/ status = "exit_success" /\ rc' = 0
           \/ status = "exit_failure" /\ rc' = 1
    BY <1>7 DEF NotRun
  <2>2. /\ ran = <<>>
        /\ status = "exit_success" => AllAccepted /\ HelpGiven
        /\ status = "exit_failure" =>
             ~HelpGiven /\ (SomethingRefused \/ (AllAccepted /\ ~Complete))
    BY <1>3, <2>1 DEF StatusInv
  <2> QED
    BY <1>2, <2>1, <2>2 DEF StatusInv
<1>8. ASSUME UNCHANGED vars PROVE StatusInv'
  <2>1. status' = status /\ ran' = ran /\ rc' = rc
    BY <1>8 DEF vars
  <2> QED
    BY <1>2, <1>3, <1>4, <2>1 DEF StatusInv
<1> QED
  BY <1>1, <1>5, <1>6, <1>7, <1>8

LEMMA CliNext == CliInv /\ [Next]_vars => CliInv'
<1> SUFFICES ASSUME CliInv, [Next]_vars PROVE CliInv'
  OBVIOUS
<1>1. CASE TakesOption
  <2>1. PICK g \in Given[prog] : Took(g)
    BY <1>1, TakesOptionTook DEF CliInv
  <2> QED
    BY <2>1, ReadTook, RangeTook, ValueTook, SeenTook, StatusTook DEF CliInv
<1>2. CASE OptionsEnd \/ Run \/ NotRun \/ UNCHANGED vars
  <2>1. After /\ StatusInv'
    BY <1>2, StatusAfter
  <2> QED
    BY <2>1, AfterKeeps DEF CliInv
<1> QED
  BY <1>1, <1>2 DEF Next, Exited

LEMMA CliInvHolds == Spec => []CliInv
  BY CliInit, CliNext, PTL DEF Spec

-----------------------------------------------------------------------------
(* The theorems                                                            *)

\* The options of boy_parse_cli_options and beastie_parse_cli_options keep
\* their fields, and the numbers the widths of theirs.
THEOREM OptionsTyped == Spec => []TypeOK
<1>1. CliInv => TypeOK
  BY DEF CliInv, OptionsInv, RangeInv, SeenInv, StatusInv, Flags, TypeOK
<1> QED
  BY <1>1, CliInvHolds, PTL

\* What the end of the program says of the options.
LEMMA RanMeans ==
  ASSUME CliInv, ran # <<>>
  PROVE  /\ status = "exited" /\ ran = CommandOf(options)
         /\ AllAccepted /\ Complete /\ ModeChosen
  BY DEF CliInv, StatusInv

LEMMA CommandIsSomething == CommandOf(options) # <<>>
  BY DEF CommandOf

\* When every option was accepted, boy's tests after the loop find out whether
\* one is missing.
LEMMA CompleteIs == ASSUME CliInv, AllAccepted PROVE Complete <=> ~Lacking
<1>1. prog \in {"boy", "beastie"} /\ SeenInv
  BY DEF CliInv, ReadInv
<1>2. CASE prog = "beastie"
  BY <1>1, <1>2 DEF SeenInv, Complete, Lacking
<1>3. CASE prog = "boy"
  <2>1. /\ \A c \in {"S", "I", "M", "D", "c"} : c \in seen <=> LastOf({c}) # 0
        /\ "create_option" \in seen <=> LastOf({"i", "o", "R", "B"}) # 0
    <3>1. DOMAIN CreateFields = {"i", "o", "R", "B"}
      BY DEF CreateFields
    <3> QED
      BY <1>1, <1>3, <3>1 DEF SeenInv, Flags, Latest, LatestCreate
  <2>2. Complete <=> /\ "I" \in seen \/ "M" \in seen \/ "D" \in seen => "S" \in seen
                     /\ "S" \in seen => "I" \in seen /\ "M" \in seen /\ "D" \in seen
                     /\ "create_option" \in seen => "c" \in seen
    BY DEF Complete, SpanOptions
  <2> QED
    BY <1>3, <2>1, <2>2 DEF Lacking
<1> QED
  BY <1>1, <1>2, <1>3

\* boy_parse_cli_options and beastie_parse_cli_options refuse exactly the
\* command lines with an unknown option, an argument that its option does not
\* take, or (boy) an option without those it needs; main runs no command for
\* those and returns 1, nor for help, and returns 0.  It runs one for all others.
THEOREM NothingRunsOnErrors == Spec => []ErrorsRunNothing
<1>1. ASSUME CliInv, status = "exited" PROVE ErrorsRunNothing
  <2>1. HelpGiven <=> LastOf({"h"}) # 0
    BY DEF HelpGiven, Latest
  <2>2. AllAccepted => ~SomethingRefused
    <3>1. ReadInv /\ \A k \in DOMAIN given : given[k] \in Given[prog]
      BY <1>1 DEF CliInv, ReadInv
    <3> QED
      BY <3>1, AcceptedIsNotRefused DEF AllAccepted, SomethingRefused
  <2>3. AllAccepted => (Complete <=> ~Lacking)
    BY <1>1, CompleteIs
  <2>4. \/ ran # <<>> /\ AllAccepted /\ ~HelpGiven /\ Complete
        \/ ran = <<>> /\ rc = 0 /\ HelpGiven
        \/ /\ ran = <<>> /\ rc = 1 /\ ~HelpGiven
           /\ SomethingRefused \/ (AllAccepted /\ ~Complete)
    BY <1>1, CommandIsSomething DEF CliInv, StatusInv
  <2> QED
    BY <2>1, <2>2, <2>3, <2>4 DEF ErrorsRunNothing, SomethingRefused
<1> QED
  BY <1>1, CliInvHolds, PTL DEF ErrorsRunNothing

\* The field of an option, when nothing was refused.
LEMMA FieldIs ==
  ASSUME CliInv, AllAccepted, NEW c \in DOMAIN Fields[prog]
  PROVE  /\ Latest(c) = 0 => options[Fields[prog][c]] = Defaults[prog][Fields[prog][c]]
         /\ Latest(c) # 0 => /\ options[Fields[prog][c]] = Stored(prog, given[Latest(c)])
                             /\ given[Latest(c)] \in Given[prog]
                             /\ given[Latest(c)].opt = c
                             /\ Accepts(prog, given[Latest(c)])
<1>1. ReadInv /\ ValueInv
  BY DEF CliInv
<1>2. IsLast({c}, Latest(c))
  BY <1>1, LastOfIs DEF LastsAreLast, Latest
<1>3. Latest(c) # 0 => Latest(c) \in DOMAIN given /\ given[Latest(c)].opt = c
  BY <1>2 DEF IsLast
<1>4. Latest(c) # 0 => given[Latest(c)] \in Given[prog] /\ Accepts(prog, given[Latest(c)])
  BY <1>1, <1>3 DEF ReadInv, AllAccepted
<1> QED
  BY <1>1, <1>3, <1>4 DEF ValueInv

\* The number of an option of 32 bits, or of as many as unsigned long long has.
LEMMA NumberHolds ==
  ASSUME CliInv, AllAccepted, NEW c \in DOMAIN Fields[prog]
  PROVE  /\ (prog = "boy" /\ c \notin {"M", "D"}) \/ (prog = "beastie" /\ c = "i")
              => NumberFrom(options[Fields[prog][c]], c, Defaults[prog][Fields[prog][c]], WordSize)
         /\ prog = "beastie" /\ c = "m"
              => NumberFrom(options[Fields[prog][c]], c, Defaults[prog][Fields[prog][c]], LongSize)
<1> DEFINE f == Fields[prog][c]
           g == given[Latest(c)]
<1>1. Latest(c) = LastOf({c})
  BY Zenon DEF Latest
<1>2. CASE Latest(c) = 0
  BY <1>1, <1>2, FieldIs DEF NumberFrom
<1>3. CASE Latest(c) # 0
  <2>1. /\ options[f] = Stored(prog, g) /\ g \in Given[prog] /\ g.opt = c /\ Accepts(prog, g)
    BY <1>3, FieldIs
  <2>2. g.arg.n \in Int
    BY <2>1, Arguments DEF CliInv
  <2>3. /\ g.arg.n \in 0 .. LongSize - 1 => Strtoul(g.arg.n) = g.arg.n
        /\ g.arg.n \in 0 .. WordSize - 1 => Truncated(Strtoul(g.arg.n)) = g.arg.n
    BY <2>2, Converts
  <2> HIDE DEF g, f
  <2>4. ASSUME (prog = "boy" /\ c \notin {"M", "D"}) \/ (prog = "beastie" /\ c = "i")
        PROVE  /\ IsNumber(g.arg) /\ options[f] = Truncated(Strtoul(g.arg.n))
    <3>1. CASE prog = "boy" /\ c \in {"I", "u"}
      BY <2>1, <3>1 DEF Accepts, Stored, Numbers, IfIndex, CreateFields
    <3>2. CASE prog = "boy" /\ c \in {"i", "o", "R", "B"}
      BY <2>1, <3>2 DEF Accepts, Stored, IsU32, U32, CreateFields
    <3>3. CASE prog = "beastie" /\ c = "i"
      BY <2>1, <3>3 DEF Accepts, Stored, Numbers, MemifId
    <3> QED
      BY <2>4, <3>1, <3>2, <3>3 DEF Fields
  <2>5. ASSUME prog = "beastie", c = "m"
        PROVE  IsNumber(g.arg) /\ options[f] = Strtoul(g.arg.n)
    BY <2>1, <2>5 DEF Accepts, Stored, Numbers, MaxBytes
  <2>6. given[LastOf({c})] = g /\ LastOf({c}) # 0
    BY <1>1, <1>3 DEF g
  <2>7. \A size : NumberFrom(options[f], c, Defaults[prog][f], size)
                    <=> IsNumber(g.arg) /\ (g.arg.n \in 0 .. size - 1 => options[f] = g.arg.n)
    BY <2>6, Zenon DEF NumberFrom
  <2>8. /\ (prog = "boy" /\ c \notin {"M", "D"}) \/ (prog = "beastie" /\ c = "i")
              => NumberFrom(options[f], c, Defaults[prog][f], WordSize)
        /\ prog = "beastie" /\ c = "m" => NumberFrom(options[f], c, Defaults[prog][f], LongSize)
    BY <2>3, <2>4, <2>5, <2>7
  <2> QED
    BY <2>8 DEF f
<1> QED
  BY <1>2, <1>3

\* The text of an option.
LEMMA TextHolds ==
  ASSUME CliInv, AllAccepted, NEW c \in DOMAIN Fields[prog]
  PROVE  /\ (prog = "boy" /\ c = "M") \/ (prog = "beastie" /\ c \in {"w", "s"})
              => TextFrom(options[Fields[prog][c]], c, Defaults[prog][Fields[prog][c]])
         /\ prog = "boy" /\ c = "D"
              => TextFrom(Word(options[Fields[prog][c]]), c, Word(Defaults[prog][Fields[prog][c]]))
<1> DEFINE f == Fields[prog][c]
           g == given[Latest(c)]
<1>1. Latest(c) = LastOf({c})
  BY Zenon DEF Latest
<1>2. CASE Latest(c) = 0
  <2>1. LastOf({c}) = 0 /\ options[f] = Defaults[prog][f]
    BY <1>1, <1>2, FieldIs
  <2> HIDE DEF f
  <2>2. TextFrom(options[f], c, Defaults[prog][f])
        /\ TextFrom(Word(options[f]), c, Word(Defaults[prog][f]))
    BY <2>1, Zenon DEF TextFrom
  <2> QED
    BY <2>2 DEF f
<1>3. CASE Latest(c) # 0
  <2>1. /\ options[f] = Stored(prog, g) /\ g \in Given[prog] /\ g.opt = c /\ Accepts(prog, g)
    BY <1>3, FieldIs
  <2>2. ~IsNumber(g.arg) => g.arg = Word(g.arg.word)
    BY <2>1, Arguments DEF CliInv
  <2>3. given[LastOf({c})] = g /\ LastOf({c}) # 0
    BY <1>1, <1>3
  <2> HIDE DEF g, f
  <2>4. ASSUME (prog = "boy" /\ c = "M") \/ (prog = "beastie" /\ c \in {"w", "s"})
        PROVE  options[f] = g.arg
    BY <2>1, <2>4 DEF Stored, CreateFields
  <2>5. ASSUME prog = "boy", c = "D" PROVE Word(options[f]) = g.arg
    BY <2>1, <2>2, <2>5 DEF Stored, CreateFields, Accepts, DeviceModes, IsNumber
  <2>6. \A value, default : TextFrom(value, c, default) <=> value = g.arg
    BY <2>3, Zenon DEF TextFrom
  <2>7. /\ (prog = "boy" /\ c = "M") \/ (prog = "beastie" /\ c \in {"w", "s"})
              => TextFrom(options[f], c, Defaults[prog][f])
        /\ prog = "boy" /\ c = "D" => TextFrom(Word(options[f]), c, Word(Defaults[prog][f]))
    BY <2>4, <2>5, <2>6
  <2> QED
    BY <2>7 DEF f
<1> QED
  BY <1>2, <1>3

\* boy_run and beastie_run dispatch the mode of the last option that names one,
\* with the arguments that the command line gives for it.
THEOREM CommandRunsAsGiven == Spec => []RunsAsGiven
<1>1. ASSUME CliInv, ran # <<>> PROVE RunsAsGiven
  <2> DEFINE last == LastOf(DOMAIN Modes[prog] \cup IF prog = "boy" THEN {"u"} ELSE {})
             mode == IF last = 0 THEN Defaults[prog].mode
                     ELSE IF given[last].opt = "u" THEN "unset_span"
                     ELSE Modes[prog][given[last].opt]
  <2>1. ran = CommandOf(options) /\ AllAccepted /\ ModeChosen
    BY <1>1, RanMeans
  <2>2. prog \in {"boy", "beastie"} /\ ReadInv
    BY <1>1 DEF CliInv, ReadInv
  <2>3. last = LatestMode
    BY Zenon DEF LatestMode, ModeOptions
  <2>4. mode = options.mode
    <3> HIDE DEF last
    <3> QED
      BY <2>1, <2>3 DEF ModeChosen, ModeOf
  <2>5. /\ prog = "boy" => options.mode # "capture"
        /\ prog = "beastie" => options.mode \in {"capture", "show_code_version"}
    <3>1. LatestMode = 0 \/ given[LatestMode].opt \in ModeOptions(prog)
      BY <2>2, LatestModeIs DEF ModeIsLast, IsLast
    <3> QED
      BY <2>1, <2>2, <3>1, SMT DEF ModeChosen, ModeOptions, ModeOf, Modes, Defaults
  <2>6. ran[1] = mode
    BY <2>1, <2>4 DEF CommandOf
  <2> HIDE DEF mode
  <2>7. ASSUME prog = "boy"
        PROVE  /\ NumberFrom(options.set_span_if_index, "I", 0, WordSize)
               /\ TextFrom(options.set_span_memif_name, "M", Null)
               /\ TextFrom(Word(options.set_span_device_mode), "D", Word("both"))
               /\ NumberFrom(options.unset_span_if_index, "u", 0, WordSize)
               /\ NumberFrom(options.id, "i", 0, WordSize)
               /\ NumberFrom(options.socket_id, "o", 0, WordSize)
               /\ NumberFrom(options.ring_size, "R", 1024, WordSize)
               /\ NumberFrom(options.buffer_size, "B", 2048, WordSize)
    <3>1. \A c \in {"I", "u", "i", "o", "R", "B"} :
            NumberFrom(options[Fields["boy"][c]], c, Defaults["boy"][Fields["boy"][c]], WordSize)
      <4>1. \A c \in {"I", "u", "i", "o", "R", "B"} : c \in DOMAIN Fields["boy"] /\ c \notin {"M", "D"}
        BY DEF Fields
      <4> QED
        BY <1>1, <2>1, <2>7, <4>1, NumberHolds
    <3>2. /\ TextFrom(options[Fields["boy"]["M"]], "M", Defaults["boy"][Fields["boy"]["M"]])
          /\ TextFrom(Word(options[Fields["boy"]["D"]]), "D", Word(Defaults["boy"][Fields["boy"]["D"]]))
      <4>1. "M" \in DOMAIN Fields["boy"] /\ "D" \in DOMAIN Fields["boy"]
        BY DEF Fields
      <4> QED
        BY <1>1, <2>1, <2>7, <4>1, TextHolds
    <3> QED
      BY <3>1, <3>2, SMT DEF Fields, Defaults
  <2>8. ASSUME prog = "beastie"
        PROVE  /\ TextFrom(options.output_filename, "w", Word("capture.pcap"))
               /\ NumberFrom(options.max_capture_bytes, "m", 655360, LongSize)
               /\ NumberFrom(options.memif_id, "i", 0, WordSize)
               /\ TextFrom(options.memif_socket_path, "s", Word("/run/vpp/memif.sock"))
    <3>1. \A c \in {"i", "m", "w", "s"} : c \in DOMAIN Fields["beastie"]
      BY DEF Fields
    <3>2. /\ NumberFrom(options[Fields["beastie"]["i"]], "i", Defaults["beastie"][Fields["beastie"]["i"]], WordSize)
          /\ NumberFrom(options[Fields["beastie"]["m"]], "m", Defaults["beastie"][Fields["beastie"]["m"]], LongSize)
      BY <1>1, <2>1, <2>8, <3>1, NumberHolds
    <3>3. \A c \in {"w", "s"} :
            TextFrom(options[Fields["beastie"][c]], c, Defaults["beastie"][Fields["beastie"][c]])
      BY <1>1, <2>1, <2>8, <3>1, TextHolds
    <3> QED
      BY <3>2, <3>3, SMT DEF Fields, Defaults
  <2>9. /\ mode = "set_span" => /\ prog = "boy" /\ ran[2] = options.set_span_if_index
                                /\ ran[3] = options.set_span_memif_name
                                /\ ran[4] = options.set_span_device_mode
        /\ mode = "unset_span" => prog = "boy" /\ ran[2] = options.unset_span_if_index
        /\ mode = "create_memif" => /\ prog = "boy" /\ ran[2] = options.id
                                    /\ ran[3] = options.socket_id /\ ran[4] = options.ring_size
                                    /\ ran[5] = options.buffer_size
        /\ mode = "capture" => /\ prog = "beastie" /\ ran[2] = options.output_filename
                               /\ ran[3] = options.max_capture_bytes /\ ran[4] = options.memif_id
                               /\ ran[5] = options.memif_socket_path
    BY <2>1, <2>2, <2>4, <2>5 DEF CommandOf
  <2> QED
    BY <2>6, <2>7, <2>8, <2>9, SMT DEF RunsAsGiven, mode
<1> QED
  BY <1>1, CliInvHolds, PTL DEF RunsAsGiven

\* After the tests at the end of boy_parse_cli_options, set_span has a source, a
\* memif and a direction that the user gave, so that no null pointer is passed on.
THEOREM SetSpanHasAll == Spec => []SetSpanComplete
<1>1. ASSUME CliInv, ran # <<>>, ran[1] = "set_span" PROVE SetSpanComplete
  <2>1. ran = CommandOf(options) /\ AllAccepted /\ Complete /\ ModeChosen
    BY <1>1, RanMeans
  <2>2. options.mode = "set_span" /\ ran[3] = options.set_span_memif_name
    BY <1>1, <2>1 DEF CommandOf
  <2>3. SpanOptions \subseteq seen /\ SpanOptions \subseteq Flags
    BY <1>1, <2>1, <2>2 DEF CliInv, SeenInv, Complete, SpanOptions, Flags
  <2>4. \A c \in SpanOptions : Latest(c) # 0
    BY <1>1, <2>3 DEF CliInv, SeenInv
  <2>5. prog = "boy"
    <3>1. LatestMode = 0 \/ given[LatestMode].opt \in ModeOptions(prog)
      BY <1>1, LatestModeIs DEF ModeIsLast, IsLast, CliInv
    <3> QED
      BY <1>1, <2>1, <2>2, <3>1, SMT DEF CliInv, ReadInv, ModeChosen, ModeOptions, ModeOf, Modes, Defaults
  <2>6. ran[3] # Null
    <3>1. "M" \in DOMAIN Fields["boy"] /\ Fields["boy"]["M"] = "set_span_memif_name"
      BY DEF Fields
    <3>2. /\ options.set_span_memif_name = Stored("boy", given[Latest("M")])
          /\ given[Latest("M")] \in Given[prog] /\ given[Latest("M")].opt = "M"
      BY <1>1, <2>1, <2>4, <2>5, <3>1, FieldIs DEF SpanOptions
    <3>3. options.set_span_memif_name = given[Latest("M")].arg
      BY <3>2 DEF Stored, CreateFields
    <3> QED
      BY <1>1, <2>2, <3>2, <3>3, Arguments DEF CliInv
  <2>7. \A c \in SpanOptions : LastOf({c}) # 0
    BY <2>4, Zenon DEF Latest
  <2> QED
    BY <2>6, <2>7, Zenon DEF SetSpanComplete
<1> QED
  BY <1>1, CliInvHolds, PTL DEF SetSpanComplete

\* What boy_parse_u32 accepts for --id, parse_memif_id of beastie takes for the
\* same memif.
THEOREM IdsMeanTheSame == Spec => []IdsAgree
<1>1. ASSUME CliInv, prog = "boy", LastOf({"i"}) # 0, IsU32(given[LastOf({"i"})].arg)
      PROVE  MemifId(given[LastOf({"i"})].arg) = options.id
  <2> DEFINE g == given[LastOf({"i"})]
  <2>1. Latest("i") = LastOf({"i"})
    BY Zenon DEF Latest
  <2>2. IsLast({"i"}, LastOf({"i"}))
    BY <1>1, LastOfIs DEF CliInv, LastsAreLast
  <2>3. g.opt = "i"
    BY <1>1, <2>2 DEF IsLast
  <2> HIDE DEF g
  <2>4. Accepts("boy", g)
    <3>1. IsU32(g.arg)
      BY <1>1 DEF g
    <3> QED
      BY <2>3, <3>1 DEF Accepts, Modes, Fields, Numbers, Texts
  <2>5. "i" \in DOMAIN Fields["boy"] /\ Fields["boy"]["i"] = "id"
    BY DEF Fields
  <2>6. options.id = Stored("boy", g)
    BY <1>1, <2>1, <2>4, <2>5 DEF CliInv, ValueInv, g
  <2> QED
    BY <2>3, <2>6 DEF Stored, CreateFields, U32, MemifId, g
<1> QED
  BY <1>1, CliInvHolds, PTL DEF IdsAgree
=============================================================================
