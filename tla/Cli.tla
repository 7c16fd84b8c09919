-------------------------------- MODULE Cli --------------------------------
(***************************************************************************)
(* The command lines of boy and beastie (cli_options.c and main.c of both):*)
(* the loop over the options that getopt_long returns, the conversion of   *)
(* their arguments, the tests after the loop, and the command that is run. *)
(*                                                                         *)
(* An argument is a word, or the numeral of a number.  Words that are no   *)
(* numerals, with digits in them or not, are alike to the conversions.     *)
(* The widths of integers are parameters so that TLC can go beyond them.   *)
(***************************************************************************)
EXTENDS Integers, Sequences

CONSTANTS
  WordSize,  \* numbers of uint32_t
  LongSize,  \* of unsigned long, of unsigned long long and of uint64_t
  Given,     \* options of either program, with arguments, that users give;
             \* an operand is one of no name
  MaxGiven   \* bound: options and operands on a command line

ASSUME CliAssumption ==
  /\ WordSize \in Nat \ {0} /\ LongSize \in Nat /\ LongSize >= WordSize
  /\ DOMAIN Given = {"boy", "beastie"}
  /\ \A p \in DOMAIN Given :
       Given[p] \subseteq [opt : STRING, arg : [word : STRING, n : Int]]
  /\ \A p \in DOMAIN Given : \A g \in Given[p] : g.arg.word # "number" => g.arg.n = 0
  /\ MaxGiven \in Nat

Number(n) == [word |-> "number", n |-> n]
Word(w)   == [word |-> w, n |-> 0]
None      == Word("")

\* A null pointer: no argument is that.
Null == [word |-> "NULL", n |-> 1]

VARIABLES
  prog,    \* the program
  given,   \* history: the options read so far
  options, \* *options
  seen,    \* the has_ flags that are set
  status,  \* "parsing", the result of the parser, or "exited"
  ran,     \* the command that was run, with its arguments
  rc       \* exit status

vars == <<prog, given, options, seen, status, ran, rc>>

-----------------------------------------------------------------------------
(* Conversions                                                             *)

IsNumber(arg) == arg.word = "number"

\* strtoul and strtoull: too large becomes the largest, a minus sign negates
\* modulo the width.
Strtoul(n) ==
  LET most == LongSize - 1
  IN  IF n > most \/ n < -most THEN most ELSE n % LongSize

Truncated(n) == n % WordSize

\* Seeded fault: the number is kept as an unsigned long.
IfIndexUncut(arg) == Strtoul(arg.n)

\* boy_parse_if_index: the cast drops the upper bits.
IfIndex(arg) == Truncated(Strtoul(arg.n))

\* Seeded fault: the identifier is cast to a shorter type.
MemifIdShort(arg) == Truncated(Strtoul(arg.n)) % (WordSize \div 2)

\* parse_memif_id of beastie, likewise.
MemifId(arg) == Truncated(Strtoul(arg.n))

\* Seeded fault: boy_parse_u32 converts like boy_parse_if_index.
IsU32Unchecked(arg) == IsNumber(arg)

\* boy_parse_u32 tests for what does not fit.
IsU32(arg) == IsNumber(arg) /\ Strtoul(arg.n) < WordSize
U32(arg)   == Truncated(Strtoul(arg.n))

\* parse_max_capture_bytes
MaxBytes(arg) == Strtoul(arg.n)

\* app_parse_log_level and boy_parse_device_mode
LogLevels   == {"error", "warning", "info", "debug"}
DeviceModes == {"rx", "tx", "both"}

-----------------------------------------------------------------------------
(* The options                                                             *)

Defaults ==
  [boy |-> [mode |-> "show_version", log_level |-> "info",
            unset_span_if_index |-> 0, set_span_if_index |-> 0,
            set_span_memif_name |-> Null, set_span_device_mode |-> "both",
            id |-> 0, socket_id |-> 0, ring_size |-> 1024, buffer_size |-> 2048],
   beastie |-> [mode |-> "capture", log_level |-> "info", output_filename |-> Word("capture.pcap"),
                max_capture_bytes |-> 655360, memif_id |-> 0,
                memif_socket_path |-> Word("/run/vpp/memif.sock")]]

\* Options that only choose a mode.
Modes ==
  [boy |-> [V |-> "show_code_version", c |-> "create_memif", m |-> "show_memif",
            p |-> "show_phy", s |-> "show_span", S |-> "set_span", v |-> "show_version"],
   beastie |-> [V |-> "show_code_version"]]

\* Options of boy whose argument goes through boy_parse_u32.
CreateFields == [i |-> "id", o |-> "socket_id", R |-> "ring_size", B |-> "buffer_size"]

\* getopt_long returns option c with argument arg to program p.
Reads(p, c, arg) ==
  /\ prog = p /\ status = "parsing" /\ Len(given) < MaxGiven
  /\ [opt |-> c, arg |-> arg] \in Given[p]
  /\ given' = Append(given, [opt |-> c, arg |-> arg])
  /\ UNCHANGED <<prog, ran, rc>>

Sets(field, value) == options' = [options EXCEPT ![field] = value] /\ UNCHANGED status

\* An argument that the test rejects ends the parsing.
Fails == status' = "exit_failure" /\ UNCHANGED <<options, seen>>

ModeOption(c) ==
  /\ c \in DOMAIN Modes[prog]
  /\ Reads(prog, c, None)
  /\ Sets("mode", Modes[prog][c])
  /\ seen' = seen \cup (IF prog = "boy" THEN {c} \cap {"c", "S"} ELSE {})

CreateOption(c, arg) ==
  /\ c \in DOMAIN CreateFields
  /\ Reads("boy", c, arg)
  /\ IF IsU32(arg)
       THEN Sets(CreateFields[c], U32(arg)) /\ seen' = seen \cup {"create_option"}
       ELSE Fails

IfaceOption(arg) ==
  /\ Reads("boy", "I", arg)
  /\ IF IsNumber(arg)
       THEN Sets("set_span_if_index", IfIndex(arg)) /\ seen' = seen \cup {"I"}
       ELSE Fails

MemifOption(arg) ==
  /\ Reads("boy", "M", arg)
  /\ IF arg # None
       THEN Sets("set_span_memif_name", arg) /\ seen' = seen \cup {"M"}
       ELSE Fails

DeviceOption(arg) ==
  /\ Reads("boy", "D", arg)
  /\ IF arg.word \in DeviceModes
       THEN Sets("set_span_device_mode", arg.word) /\ seen' = seen \cup {"D"}
       ELSE Fails

\* Seeded fault: the index is stored where --iface-idx stores it.
UnsetOptionWrongField(arg) ==
  /\ Reads("boy", "u", arg)
  /\ IF IsNumber(arg)
       THEN /\ options' = [options EXCEPT !.set_span_if_index = IfIndex(arg),
                                          !.mode = "unset_span"]
            /\ UNCHANGED <<status, seen>>
       ELSE Fails

UnsetOption(arg) ==
  /\ Reads("boy", "u", arg)
  /\ IF IsNumber(arg)
       THEN /\ options' = [options EXCEPT !.unset_span_if_index = IfIndex(arg),
                                          !.mode = "unset_span"]
            /\ UNCHANGED <<status, seen>>
       ELSE Fails

LogLevelOption(arg) ==
  /\ Reads(prog, "l", arg)
  /\ IF arg.word \in LogLevels THEN Sets("log_level", arg.word) /\ UNCHANGED seen ELSE Fails

MemifIdOption(arg) ==
  /\ Reads("beastie", "i", arg)
  /\ IF IsNumber(arg) THEN Sets("memif_id", MemifId(arg)) /\ UNCHANGED seen ELSE Fails

MaxBytesOption(arg) ==
  /\ Reads("beastie", "m", arg)
  /\ IF IsNumber(arg) THEN Sets("max_capture_bytes", MaxBytes(arg)) /\ UNCHANGED seen ELSE Fails

SocketOption(arg) ==
  /\ Reads("beastie", "s", arg)
  /\ IF arg # None THEN Sets("memif_socket_path", arg) /\ UNCHANGED seen ELSE Fails

WriteOption(arg) ==
  /\ Reads("beastie", "w", arg)
  /\ Sets("output_filename", arg) /\ UNCHANGED seen

HelpOption ==
  /\ Reads(prog, "h", None)
  /\ status' = "exit_success" /\ UNCHANGED <<options, seen>>

\* An option that is not known, or lacks its argument.
UnknownOption == Reads(prog, "?", None) /\ Fails

\* Words that belong to no option, and all that follow "--": getopt_long moves
\* them to the end, and neither program looks at what the loop leaves over.
Operand(arg) == Reads(prog, "", arg) /\ UNCHANGED <<options, seen, status>>

-----------------------------------------------------------------------------
(* After the loop                                                          *)

SpanOptions == {"I", "M", "D"}

\* Seeded fault: one of the three options is enough.
CompleteAny ==
  /\ seen \cap SpanOptions # {} => "S" \in seen
  /\ "S" \in seen => seen \cap SpanOptions # {}
  /\ "create_option" \in seen => "c" \in seen

\* boy's tests; beastie has none, and sets no flags.
Complete ==
  /\ seen \cap SpanOptions # {} => "S" \in seen
  /\ "S" \in seen => SpanOptions \subseteq seen
  /\ "create_option" \in seen => "c" \in seen

OptionsEnd ==
  /\ status = "parsing"
  /\ status' = IF Complete THEN "ok" ELSE "exit_failure"
  /\ UNCHANGED <<prog, given, options, seen, ran, rc>>

\* boy_run and beastie_run: the command of the mode, with its arguments.
CommandOf(o) ==
  CASE o.mode = "set_span" ->
         <<"set_span", o.set_span_if_index, o.set_span_memif_name, o.set_span_device_mode>>
    [] o.mode = "unset_span" -> <<"unset_span", o.unset_span_if_index>>
    [] o.mode = "create_memif" ->
         <<"create_memif", o.id, o.socket_id, o.ring_size, o.buffer_size>>
    [] o.mode = "capture" ->
         <<"capture", o.output_filename, o.max_capture_bytes, o.memif_id, o.memif_socket_path>>
    [] OTHER -> <<o.mode>>

\* Printing one's own version always succeeds.
Run ==
  /\ status = "ok"
  /\ ran' = CommandOf(options)
  /\ rc' \in IF options.mode = "show_code_version" THEN {0} ELSE {0, 1}
  /\ status' = "exited"
  /\ UNCHANGED <<prog, given, options, seen>>

\* main without a command to run.
NotRun ==
  /\ status \in {"exit_success", "exit_failure"}
  /\ rc' = IF status = "exit_success" THEN 0 ELSE 1
  /\ status' = "exited"
  /\ UNCHANGED <<prog, given, options, seen, ran>>

-----------------------------------------------------------------------------
Init ==
  /\ prog \in {"boy", "beastie"}
  /\ given = <<>> /\ options = Defaults[prog] /\ seen = {}
  /\ status = "parsing" /\ ran = <<>> /\ rc = 1

Exited == status = "exited" /\ UNCHANGED vars

TakesOption ==
  \E g \in Given[prog] :
    \/ ModeOption(g.opt) \/ CreateOption(g.opt, g.arg) \/ IfaceOption(g.arg)
    \/ MemifOption(g.arg) \/ DeviceOption(g.arg) \/ UnsetOption(g.arg)
    \/ LogLevelOption(g.arg) \/ MemifIdOption(g.arg) \/ MaxBytesOption(g.arg)
    \/ SocketOption(g.arg) \/ WriteOption(g.arg) \/ HelpOption \/ UnknownOption
    \/ Operand(g.arg)

Next == TakesOption \/ OptionsEnd \/ Run \/ NotRun \/ Exited

Spec == Init /\ [][Next]_vars
-----------------------------------------------------------------------------
(* Properties                                                              *)

\* The numbers that each type of the options has.
Sizes ==
  [boy |-> [set_span_if_index |-> WordSize, unset_span_if_index |-> WordSize,
            id |-> WordSize, socket_id |-> WordSize,
            ring_size |-> WordSize, buffer_size |-> WordSize],
   beastie |-> [memif_id |-> WordSize, max_capture_bytes |-> LongSize]]

\* The options have their fields, numbers in the range of their types.
TypeOK ==
  /\ DOMAIN options = DOMAIN Defaults[prog]
  /\ \A f \in DOMAIN Sizes[prog] :
       options[f] \in {Defaults[prog][f]} \cup 0 .. Sizes[prog][f] - 1
  /\ seen \subseteq {"S", "I", "M", "D", "c", "create_option"}
  /\ status \in {"parsing", "ok", "exit_success", "exit_failure", "exited"}
  /\ rc \in {0, 1}

\* The last option of opts on the command line; 0 if there is none.
LastOf(opts) ==
  LET found == {k \in DOMAIN given : given[k].opt \in opts}
  IN  IF found = {} THEN 0 ELSE CHOOSE k \in found : \A j \in found : j <= k

\* A number that a command gets is the one given last by the option c, the
\* default if it was not given.  A number must fit to be held to this.
NumberFrom(value, c, default, size) ==
  IF LastOf({c}) = 0 THEN value = default
  ELSE LET arg == given[LastOf({c})].arg
       IN  IsNumber(arg) /\ (arg.n \in 0 .. size - 1 => value = arg.n)

\* Likewise a text, which may be a numeral.
TextFrom(value, c, default) ==
  value = IF LastOf({c}) = 0 THEN default ELSE given[LastOf({c})].arg

\* The command that runs is the one of the last option that names one, with the
\* arguments the command line gives for it, in whatever order, however often
\* and between whatever other options.
RunsAsGiven ==
  LET last == LastOf(DOMAIN Modes[prog] \cup IF prog = "boy" THEN {"u"} ELSE {})
      mode == IF last = 0 THEN Defaults[prog].mode
              ELSE IF given[last].opt = "u" THEN "unset_span"
              ELSE Modes[prog][given[last].opt]
  IN  ran # <<>> =>
        /\ ran[1] = mode
        /\ mode = "set_span" => /\ NumberFrom(ran[2], "I", 0, WordSize)
                                /\ TextFrom(ran[3], "M", Null)
                                /\ TextFrom(Word(ran[4]), "D", Word("both"))
        /\ mode = "unset_span" => NumberFrom(ran[2], "u", 0, WordSize)
        /\ mode = "create_memif" => /\ NumberFrom(ran[2], "i", 0, WordSize)
                                    /\ NumberFrom(ran[3], "o", 0, WordSize)
                                    /\ NumberFrom(ran[4], "R", 1024, WordSize)
                                    /\ NumberFrom(ran[5], "B", 2048, WordSize)
        /\ mode = "capture" => /\ TextFrom(ran[2], "w", Word("capture.pcap"))
                               /\ NumberFrom(ran[3], "m", 655360, LongSize)
                               /\ NumberFrom(ran[4], "i", 0, WordSize)
                               /\ TextFrom(ran[5], "s", Word("/run/vpp/memif.sock"))

\* set_span runs only with a source, a destination and a direction that the
\* user gave: never with the defaults, of which one is a null pointer.
SetSpanComplete ==
  (ran # <<>> /\ ran[1] = "set_span") =>
    /\ ran[3] # Null
    /\ \A c \in SpanOptions : LastOf({c}) # 0

\* The numbers of uint32_t, and the negative ones that wrap to them.  Where long
\* is as short, every number does.
Fits(n) == \/ n \in 0 .. WordSize - 1 \/ n + LongSize \in 1 .. WordSize - 1
           \/ LongSize = WordSize

\* An option that is not known, or has an argument that it does not take.
Refused(g) ==
  \/ g.opt = "?"
  \/ g.opt \in (IF prog = "boy" THEN {"I", "u"} ELSE {"i", "m"}) /\ ~IsNumber(g.arg)
  \/ /\ prog = "boy" /\ g.opt \in {"i", "o", "R", "B"}
     /\ ~(IsNumber(g.arg) /\ Fits(g.arg.n))
  \/ prog = "boy" /\ g.opt = "D" /\ g.arg.word \notin {"rx", "tx", "both"}
  \/ g.opt = "l" /\ g.arg.word \notin {"error", "warning", "info", "debug"}
  \/ g.opt = (IF prog = "boy" THEN "M" ELSE "s") /\ g.arg = None

\* boy's options that need one another and are not all there.
Lacking ==
  LET has(c) == LastOf({c}) # 0
  IN  prog = "boy" /\ \/ ~has("S") /\ (has("I") \/ has("M") \/ has("D"))
                      \/ has("S") /\ ~(has("I") /\ has("M") /\ has("D"))
                      \/ LastOf({"i", "o", "R", "B"}) # 0 /\ ~has("c")

\* A command runs if and only if nothing that was read is an error, all that
\* belongs together is there, and help was not asked for.  Without a command
\* the exit status is 0 for help and 1 for an error.  Operands are no errors.
ErrorsRunNothing ==
  LET refused == \E k \in DOMAIN given : Refused(given[k])
      help    == LastOf({"h"}) # 0
  IN  status = "exited" =>
        /\ ran = <<>> <=> refused \/ help \/ Lacking
        /\ ran = <<>> => (rc = 0 <=> help)

\* The same --id leads boy and beastie to the same memif: what boy accepts,
\* beastie takes for the same number.
IdsAgree ==
  (prog = "boy" /\ status \in {"ok", "exited"} /\ LastOf({"i"}) # 0) =>
    LET arg == given[LastOf({"i"})].arg
    IN  IsU32(arg) => MemifId(arg) = options.id

\* --unset-span and --iface-idx act on the interface whose number was given
\* (usage: "with VPP internal sw_if_index=<if-index>"), or on none.
IndexAsWritten ==
  ran # <<>> =>
    /\ ran[1] = "unset_span" => ran[2] = given[LastOf({"u"})].arg.n
    /\ ran[1] = "set_span"   => ran[2] = given[LastOf({"I"})].arg.n
=============================================================================
