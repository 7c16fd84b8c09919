# beastie-boy: TLA+ specifications

`boy` configures port mirroring (SPAN) in VPP through VPP's binary API;
`beastie` attaches to a memif of VPP and writes the mirrored packets to a PCAP
file. This directory holds TLA+ modules of both, the TLC configurations that
check them on small instances, and theorems about them with TLAPS proofs. Paths
below are relative to the repository's root.

## Inventory

### The parts

| part | code | state | operations |
|---|---|---|---|
| capture loop | `beastie/commands/capture_cmd.c` | `keep_running`, packet and byte counters, bytes since the last flush, the limit | set up, poll, `on_connect`, `on_disconnect`, `on_interrupt`, `handle_signal`, final flush, cleanup |
| PCAP writer | `beastie/pcap_writer.c` | the dumper and whether it is open; behind it stdio's buffer and the file | write (opens lazily), flush, close |
| beastie's command line | `beastie/cli_options.c`, `beastie/main.c` | the options | parse, dispatch |
| SPAN commands | `boy/commands/span_cmd.c` | the dumps a command collected, the chosen destination | show, set, unset |
| memif commands | `boy/commands/memif_cmd.c` | reply of the creation | create, show |
| collectors | `boy/collectors.c` | growing arrays of interfaces, span entries, memifs | dump, look up, format |
| VPP client | `boy/vpp_client.c` | the API connection | connect, disconnect, set admin-up |
| boy's command line | `boy/cli_options.c`, `boy/main.c` | the options and which were seen | parse, dispatch |
| physical interfaces | `boy/commands/phy_cmd.c` | parser state: current interface, family expected | show |
| VPP version | `boy/commands/version_cmd.c` | - | show |
| output tables | `common/table.c` | rows, column widths | add row, render |
| logging, helpers | `common/common.c`, `*_log.c` | log level | format, print |

### How they interact

* `beastie` is one thread. libmemif calls `on_connect`, `on_disconnect` and
  `on_interrupt` from inside `memif_poll_event`; these share
  `beastie_capture_state_t` with the main loop and, through
  `active_capture_state`, with the signal handler. VPP fills the receive ring
  through shared memory at any time and signals an event descriptor.
* `boy` sends blocking requests, one at a time. Several `boy` processes, VPP's
  console, and a restart of VPP may fall between any two requests of a command;
  what a command read in a dump is used several requests later.
* `boy` and `beastie` meet only in VPP: `boy` creates the memif and enables the
  mirror, `beastie` connects to the memif.

### What is hard

* beastie: a signal against the entry into epoll; errors that callbacks report
  through two channels (`keep_running` and the return value); stdio, which
  defers and then forgets write errors; a limit that ends a burst half-way;
  ring slots that must be handed back exactly; reconnection during a capture; a
  crash between two flushes.
* boy: stale dumps; requests carried out whose reply is lost; commands that
  fail half-way; several processes on the same entries; indices that VPP gives
  to another interface.
* sequential parts: conversions to 32 bits, combinations of options, allocation
  failures while a row is added, the loop that shrinks columns, a parser that
  carries state from line to line, a cleanup reached from everywhere.

`PROJECT.json` lists each hazard at its line with the properties that cover it.

### What makes each part correct

* capture: the file keeps arrival order and the limit; nothing is skipped
  within a connection; every slot returns; a crash loses little; what is on the
  device stays; exit status and summary tell the truth; a stop request and a
  reached limit end the run; no frame is left in the ring.
* boy: a command that returns 0 has had its effect, although it worked from
  dumps; nothing but the asked-for source loses a mirror; mirrors go to memifs,
  but for indices that VPP has given away, and never to their own source; a
  listing is complete.
* show_phy and the tables: whatever fails, nothing but messages that could not
  be sent stays allocated, nothing is freed twice or written out of bounds; a
  part of the interfaces is never shown as the whole; an interface has the card
  family of its own section; the table fits the terminal exactly, takes from
  flexible columns first and in turn, stays aligned, and its rendering ends.
* command lines: what runs is what was asked for, with its own arguments and no
  other's; an error runs nothing, and nothing else keeps a command from running;
  both programs understand an id alike.

## The modules

| module | models |
|---|---|
| `Capture` | one run of `beastie_run_capture` with the PCAP writer, the signal handler, libmemif's polling, VPP's end of the ring, stdio and the file's device |
| `CaptureProofs` | theorems about `Capture`: types, limit, exit status, crashes |
| `CaptureOrderProofs` | theorems about the order of frames and the slots of the ring |
| `CaptureRefinementProofs` | the theorem that `Capture` implements `CaptureLog` |
| `CaptureLog` | what a capture promises, without its inner workings: a log of packets |
| `CaptureImplementsLog` | the refinement mapping from `Capture` to `CaptureLog` |
| `MCCapture` | `Capture` for TLC; its `.cfg` files hold the bounds |
| `Boy` | `boy` processes, each running one command against a shared VPP |
| `BoyProofs` | theorems about `Boy`: types and what mirrors may never do |
| `BoyCommandProofs` | theorems about what the commands of `boy` achieve |
| `MCBoy` | `Boy` for TLC: requests, initial configurations of VPP, symmetry |
| `Table` | the output table: rows copied with failing allocations, widths, printing |
| `ShowPhy` | `boy -p`: dump, hardware listing and its parser, a `Table`, cleanup |
| `ShowPhyProofs` | theorems about `ShowPhy` and `Table` |
| `MCShowPhy` | `ShowPhy` for TLC: its columns, interfaces and lines |
| `Cli` | both command lines: options, conversions, tests, dispatch |
| `CliProofs` | theorems about `Cli` |
| `MCCli` | `Cli` for TLC: narrow integers and the options that users give |
| `DataLemmas` | lemmas about numbers, finite sets and sums for the proofs |

`ShowPhy` extends `Table`: the command and the table share `pc`, and the steps
of the table fall between those of the command as its calls do. `MCCapture`
extends `CaptureImplementsLog`, which extends `Capture` and instantiates
`CaptureLog`.

### Capture

State: `keep_running` and the counters are the fields of
`beastie_capture_state_t`; `rc`, `err` and `rx` are locals of the same names;
`initialized` is `pcap_writer.c`'s. `buf` and `disk` are the records in stdio's
buffer and in the file, `ferror` stdio's error flag, `device_ok` whether writes
succeed. `conn`, `ring`, `free`, `intr` and `cancel` are the memif connection,
its receive ring, the slots VPP may fill, and the two event descriptors.
`write_failed` is a history variable.

Steps: `on_interrupt` is `RxBurst`, then one step per packet (`CapturePacket`,
or `StopOverLimit` / `WriteFails`), then `AfterBurst` (flush if due, refill):
signals, frames and crashes fall between any two of them. The main loop is
`LoopTest`, `EnterPoll`, one of the `Poll...` steps, `AfterPoll`; `EnterPoll`
exists because a signal before epoll waits interrupts nothing. `Signal`,
`Kill`, `DeviceFails`, `PeerConnects`, `PeerCloses` and `Deliver` are the
environment's; which failures it produces is the constant `Faults`.

Assumptions about what is not in this repository: a failed write by stdio
discards its buffer (as glibc and musl do) and sets the error flag; some
versions of libpcap stop writing once that flag is set, others do not, and both
are allowed; a device that fails stays failed; `memif_rx_burst` returns up to
the requested number of buffers in ring order; whether `memif_poll_event`
passes a callback's error on is left open (`Returns`); libmemif calls
`on_interrupt` once per signalled event.

`Kill` is the death of the process, after which the kernel still writes what it
was given. A power loss is not modelled: `flush_pcap_writer` flushes stdio
without `fsync`, so it can take records that were flushed long before, and the
code promises nothing about them.

### CaptureLog and the refinement

`CaptureLog` knows packets with an id and a length, the log in the file, the
packets pending, the totals and how the run ended. A packet is accepted only
behind those before it and within the limit (`Accept`); pending packets reach
the log together (`Persist`) or are lost (`Lose`), and nothing is added behind a
gap; a run ends well only with nothing pending (`EndWell`). The mapping: `log`
is `disk`, `pending` is stdio's buffer, `lost` is stdio's error flag, `outcome`
follows from `pc` and `rc`. Bursts, the ring, polling, signals and the interval
of flushes are stuttering steps. That `EndWell` may be reached with `lost` set
is what the code does; run `capture_device` shows the consequence.

### Boy

VPP is `ifs` (the interface of each `sw_if_index`), `span` (the state of each
entry: source, destination, device or L2) and `epoch` (its restarts). A process
has a command, its position, exit status, the VPP instance it is connected to,
and what it has collected. Names are records of a kind and a number, since the
code only asks whether two names are equal and whether one starts with `memif`.

`Call` is a blocking request: accepted and answered, refused or never sent, or
carried out with the reply lost. One action stands for each request of a
command, with the decisions of the code up to the next request. What happens
behind boy's back (an interface deleted, created or set down, an L2 mirror made
at the console, a restart of VPP) is the environment's, `Meddling` many kinds at
most `MaxMeddle` times. VPP is modelled only as far as `boy` relies on it: whether
the deletion of an interface also clears its span entries is left open, and
free indices are given out in any order, from the one pool that VPP has for
interfaces of all types: the index of a deleted memif may become a sub-interface
or a loopback (`OperatorCreates`), and the other way round. VPP refuses a
request that names an interface which does not exist, and a second memif of the
same name.

History variables: `held` are the span entries that were active ever since a
process connected, `touched` the indices that were meddled with since then,
`freed` those that VPP freed since it started. The properties of a command leave
out the interfaces that somebody has `touched` while it ran, and no others.

What is left of a command that returns 1 is modelled, but little is promised of
it: a memif created and not set admin-up stays, and makes the next attempt fail
(`boy` logs that); an `unset_span` that VPP refuses half-way leaves the other
half. Only a lost last answer to `set_span` is held to something
(`SetTakesEffect`).

Failed allocations inside a command have the outcome of a refused request or
dump (rc = 1), except when the table is built, where they are the fault
`"memory"`.

`boy_show_version` is one more command of a process: one request that changes
nothing (`ShowVersion`).

### Table and ShowPhy

Texts are their lengths. `heap` is the set of allocated blocks, named by what
points to them; `Free` notes in `bad_free` when a block is freed that is not
allocated. `rows`, `row_capacity`, `widths` and `overflow` are the code's; a row
that is being copied is `new_row` with `copied` of its cells. `app_table_add_row`
is `AddRow`, one `CopyCell` for each cell and `RowCopied`, with a failure
possible at each (`CopyFails`); `app_table_render` is `Measure`, one `Shrink`
for each column of a pass, `PassEnds` and `PrintTable`. `page` holds, for each
cell printed, how many characters are padding, text and dots.

`ShowPhy` has one action for each call of `boy_show_phy`, one for each reply of
the dump (`CollectEntry`), and one for each line of the listing (`ReadLine`).
Lines are classified by what the parser tells apart: blank, header of an
interface, other line that is not indented, Ethernet address, line with a colon
or `carrier`, other text. `listing` keeps the lines read, so that
`FamiliesAsListed` can say which family an interface has from whole lines,
without the state the parser carries along. A fetched listing that is empty, or
cannot be copied, leaves the device types in place.

The messages to VPP are on the heap too. One that was sent is VPP's; one that
could not be sent is dropped by the code (`phy_cmd.c:82`, `collectors.c:278`)
without `vapi_msg_free`, and stays. `unsent` names those, so that `NothingLeaks`
can say that exactly they are left at the end.

### Cli

One action for each option that getopt_long returns, with its argument: a
number, or a word that is no number. Operands (`boy -s junk`,
`beastie trace.pcap`, what follows `--`) are read as well and change nothing:
getopt_long moves them behind the options, and neither program looks at them.
That `POSIXLY_CORRECT` is not set, which would end the options at the first
operand, is an assumption. `seen` holds the `has_` flags. `IfIndex`,
`MemifId`, `U32` and `MaxBytes` are the conversions, over `Strtoul`, which
saturates and negates as the library does. The widths are the constants
`WordSize` and `LongSize`, the numbers of `uint32_t` and of `unsigned long`, so
that TLC reaches numbers beyond both. Texts are kept as given, numerals among
them, and `Null` is the null pointer that `--memif` replaces. Options of
the two programs that only differ in the field they set share an action.
`OptionsEnd` has the tests after the loop, `Run` and `NotRun` are `main`. The
command that runs is recorded with its arguments in `ran`.

## What the runs check

Passing runs:

| run | bounds | shows |
|---|---|---|
| `capture` | ring of 3, bursts of 2, flush at 2 bytes, packets of 0 to 2 bytes, limit 3 or none, 3 frames, 2 connections, every failure | `TypeOK`, `FileWithinLimit`, `FileInOrder`, `ExitZeroComplete`, `CrashLossBounded`, `DurableGrows`, and the refinement `ImplementsLog` |
| `capture_live` | ring = burst = 2, packets of 1 or 2 bytes, 4 frames, every failure but those of `memif_rx_burst` and `memif_refill_queue` | `NoSkip`, `SlotsReturned`; `LimitStops`, `RingDrained`, `RepeatedSignalStops` under `FairSpec` |
| `boy` | 2 processes, 11 commands, a port, local0, 2 other indices, 3 memif names, 4 initial configurations of VPP, every fault, one disturbance | `TypeOK`, `SetTakesEffect`, `UnsetComplete`, `OnlyOwnSource`, `CreatedIsUp`, `MirrorsToMemif`, `ShowComplete` |
| `show_phy` | 3 dumps of up to 4 interfaces, every listing of up to 5 lines out of 9, terminals of 20, 60, 75 and 120 columns, arrays that grow from 1, every failure | `TypeOK`, `NothingLeaks`, `MemoryInBounds`, `FamiliesAsListed`, `FitsExactly`, `FlexibleFirst`, `InTurn`, `Aligned`, `ListingComplete`, and `RenderEnds` under `FairSpec` |
| `cli` | 3-bit words, 6-bit longs, up to 5 options and operands out of 20 (`boy`) or 15 (`beastie`) | `TypeOK`, `RunsAsGiven`, `SetSpanComplete`, `ErrorsRunNothing`, `IdsAgree` |

Why the bounds are enough: a burst can be shorter than the ring, fill it, or be
cut by the limit; two flush intervals fit in the frames; a second connection
meets counters and a file left by the first; a packet fits the limit exactly,
falls short or goes beyond. Two commands are enough for one to act between any
two requests of the other, and the initial configurations supply what a third
would have set up: memifs, device and L2 mirrors of the source and of another
interface, ends that are up and down. One disturbance lets an operator delete a
memif and another boy create one at its index; that the index goes to an
interface of another type takes two, which `boy_stale` has, and the theorems
hold for any number. In `show_phy` 20 columns are less than the dots of every
column need, 60 reaches below the minimum widths, 75 takes from the flexible
columns only, 120 is the default and is wide enough; five lines hold two
sections with an Ethernet address and a family in either order.
In `cli` five options hold a complete `--set-span` and one that gets in its way;
a number fits a word, only a long, or neither, or is negative and wraps to a
number that fits or does not.

Runs that refute a statement of the repository's documentation:

| run | statement | what the code does |
|---|---|---|
| `capture_signal` | README: Ctrl+C starts the shutdown | a signal between `while (state.keep_running)` and epoll is forgotten until the next event |
| `capture_open` | usage of `-w`: packets are written to the file | the file cannot be opened, and the exit status is 0 |
| `capture_device` | README: the summary shows the captured packets | after a failed periodic flush the last flush has nothing to do: status 0, records lost |
| `capture_ring` | README: packets arriving are stored | what exceeds one burst of 256 in a ring of 1024 waits for another frame |
| `boy_stale` | usage of `-S`: mirrors to the memif interface `<name>` | the index that the name had in a dump is sent, and may be another interface's by then |
| `boy_session` | README: `boy -c`, then `boy -m` shows `none` in the flags | the memif is set admin-up when it is created, and shown so |
| `cli_index` | usage of `-u`: acts on the interface with `sw_if_index=<if-index>` | an index beyond 32 bits, or a negative one, acts on the interface of its lower 32 bits |

### Fairness

`FairSpec` assumes weak fairness of beastie's own steps: the kernel schedules
the process and epoll reports events that are ready. No frame, connection,
failure or signal is assumed to come. `RepeatedSignalStops` has a hypothesis of
its own, `RepeatsSignal`: an operator who sends the signal again while beastie
waits. Without it `SignalStops` fails, as `capture_signal` shows. `FairSpec` of
`ShowPhy` assumes that a process that can run does; rendering waits for nobody.
`Boy` has no liveness property: its requests block on VPP, and nothing in the
code bounds that wait. `Cli` runs through a finite command line.

`Terminated` (`Exited` in `ShowPhy` and `Cli`) lets the model stutter where every
process has ended, so deadlock is checked everywhere else.

## What is proved

Every safety property and action property that a passing run checks, except
`ListingComplete`, and the refinement, is a theorem as well: the runs show them
on small instances, the theorems for every value of the constants that satisfies
the named assumptions. TLC evaluates these assumptions in the runs.

### Theorems about Capture

From `CaptureAssumption` (lengths and limits are naturals; burst, ring and flush
interval are positive):

| theorem | property | module |
|---|---|---|
| `TypeCorrect` | `TypeOK` | `CaptureProofs` |
| `LimitKept` | `FileWithinLimit` | `CaptureProofs` |
| `ExitStatusSound` | `ExitZeroComplete` | `CaptureProofs` |
| `CrashLoss` | `CrashLossBounded` | `CaptureProofs` |
| `DurableKept` | `DurableGrows` | `CaptureProofs` |
| `FileKeepsOrder` | `FileInOrder` | `CaptureOrderProofs` |
| `SlotsComeBack` | `SlotsReturned`, if `"rx"` and `"refill"` are no `Faults` | `CaptureOrderProofs` |
| `NothingSkipped` | `NoSkip`, if `"rx"` is no fault | `CaptureOrderProofs` |
| `CaptureIsLog` | `ImplementsLog` | `CaptureRefinementProofs` |

* `TypeOK` is not inductive: that `free` stays within the ring after a refill
  depends on the slots of the burst being missing. `Slots` adds this: VPP's
  slots, the frames in the ring and, while `on_interrupt` runs, the `rx` buffers
  of the burst are at most `RingSize`; `TypeInv` is `TypeOK` with it.
* `FileWithinLimit` and `ExitZeroComplete` follow from `Account`: the records on
  the device and in stdio's buffer are at most those counted, exactly those
  unless a write failed, and the counted bytes respect the limit where it is
  tested.
* `CrashLossBounded` follows from `Loss`: the buffered bytes are at most those
  since the last flush, which within a burst stay below one interval plus the
  packets of the burst already taken.
* `DurableGrows` follows from the type invariant: `disk` changes only in
  `WritePacket`, `FlushOk` and `Cleanup`, always by appending, since the
  dumper is opened only while `disk` is still empty.
* `FileInOrder` says something of the file only. `OrderInv` puts the file,
  stdio's buffer, the burst and the ring one behind the other: their ids rise,
  and all are ids that VPP has sent.
* `NoSkip` needs more than order, since frames are dropped on purpose: when a
  connection ends, and behind the limit. `StreamInv` says that what is recorded
  has no gap within a connection, and that while the run goes on what is still
  under way continues it and ends with the last frame sent. Its hypothesis is
  what the code needs: a receive call that fails after it has taken buffers
  from the ring loses them, in the model as in the code.
* `SlotsReturned` is about a connection between two bursts. `AllSlots` counts
  the slots at every step, those of the burst among them. A receive or refill
  call that fails does lose slots, hence the hypothesis.
* `CaptureIsLog` takes each action of `Capture` to one of `CaptureLog` or to a
  stutter. It uses `OrderInv` and `Account`, and `DeviceInv`: stdio's error flag
  is set only once the device has failed, so that a flush that succeeds
  (`Persist`) never comes after records were lost (`Lose`).

All of these rest on the assumptions about stdio above.

### Theorems about Boy

For any number of processes, interfaces, requests and disturbances, from
`BoyAssumption` (the indices of ports and of the other fixed interfaces differ,
some index is left for memifs, requests are well formed, and what VPP starts
with is consistent):

| theorem | property | module |
|---|---|---|
| `TypeCorrect` | `TypeOK` | `BoyProofs` |
| `OwnSourceOnly` | `OnlyOwnSource` | `BoyProofs` |
| `MirrorsLeadToMemifs` | `MirrorsToMemif` | `BoyProofs` |
| `CreateWorks` | `CreatedIsUp` | `BoyCommandProofs` |
| `SetWorks` | `SetTakesEffect` | `BoyCommandProofs` |
| `UnsetWorks` | `UnsetComplete` | `BoyCommandProofs` |
| `ShowWorks` | `ShowComplete` | `BoyCommandProofs` |

* `TypeOK` needs `Routed`: a process is at a position of its own command, so
  that `create`, for instance, runs with the name of a memif. `TypeInv` is both.
* `OnlyOwnSource` is about a step. `CommandSpan` says which steps of a command
  change the span entries: the one of `set_span`, which sends a state that
  mirrors (`StateOfType`), and those of `unset_span`, whose entries are of its
  own source (`ToRemove`).
* `MirrorsToMemif` is not inductive: it says nothing of the index that `set_span`
  holds from its dump. Every index may be deleted and given to an interface of
  another type meanwhile, and then a mirror to it is no mirror to a memif
  (`boy_stale` shows this), so the property allows that for indices in `freed`
  only. `MirrorInv` adds `Remembered` (an interface in a dump of this VPP is still
  there, under its name, unless its index was freed) and `Chosen` (the destination
  of a `set_span` was a memif in its dump, and not the source).
* What a command achieves is lost if someone meddles with its interfaces, so the
  four properties speak of the indices that nobody touched, whatever is done to
  the others. `CommandInv` says what is then still
  true of a command's old dumps: `Standing` (the interfaces it was told of are
  there, under their names and no less up), `Creating` and `Setting` (what its
  requests so far have made true of its two ends), `Gathering` (every entry that
  stood all along is among those collected, removed or shown). One lemma
  (`CommandKeeps`) says what a step of any other process leaves alone.

### Theorems about ShowPhy and Table

In `ShowPhyProofs`, for any columns, interfaces, listings, terminals and
failures, from `TableAssumption` and `ShowPhyAssumption` (six columns, lengths
are naturals, lines are of the kinds that the parser tells apart):

| theorem | property |
|---|---|
| `TypesCorrect` | `TypeOK` |
| `TableKeepsMemory` | `MemoryInBounds` |
| `NothingIsLeaked` | `NothingLeaks` |
| `FamiliesAreListed` | `FamiliesAsListed` |
| `TableFits` | `FitsExactly` |
| `FlexibleGiveFirst`, `FlexibleGiveInTurn` | `FlexibleFirst`, `InTurn` |
| `PageIsAligned` | `Aligned` |

* `NothingLeaks` speaks of the end: the messages that could not be sent are left,
  and nothing else. `HeapInv` names the blocks that are
  allocated at every step from the variables in hand: what the cleanup of the
  command frees (`CallerBlocks`), what is held for a while (`Transient`), the
  cells of a row that is being copied (`Underway`) and the table (`Tabled`).
  `MemoryInBounds` follows from it and `RoomInv`: every block that is freed is
  among these.
* The widths: `FitInv` is the account of the shrinking (the total is the
  terminal and what is still too much), with what a pass that has taken nothing
  so far has found out about the columns behind it, since that decides when
  shrinking gives up. `FlexInv` and `TurnInv` say the same of who has given.
  `TurnInv` holds in the middle of a pass: a column that the pass has reached
  has given one more than one that it has not.
* `FamiliesAsListed` compares the state carried from line to line with whole
  listings. `FamilyInv` says what that state means: `current` is the interface
  whose header is the last heading so far, and `expect_family` that an Ethernet
  address is the last line, blank ones aside. Here `NamesAssumption` is needed,
  that VPP has no two interfaces of one name: the code looks interfaces up by
  name, and the second of that name would get no family.

### Theorems about Cli

In `CliProofs`, for any options in any order and any widths of integers, from
`CliAssumption` (an option comes with a numeral or a word, and a long has at
least the numbers of a word):

| theorem | property |
|---|---|
| `OptionsTyped` | `TypeOK` |
| `CommandRunsAsGiven` | `RunsAsGiven` |
| `SetSpanHasAll` | `SetSpanComplete` |
| `NothingRunsOnErrors` | `ErrorsRunNothing` |
| `IdsMeanTheSame` | `IdsAgree` |

The actions of the options are first brought to one form (`Took`: an option is
stored in its field, ends the parsing, or asks for help). `CliInv` then says of
the options what whole command lines say: a field holds what its last option
gives unless that was refused (`ValueInv`), a flag is set if its option was given
and only then, as long as everything was accepted (`SeenInv`), and how far the
program is tells whether everything was accepted so far and whether help was
asked for (`StatusInv`). `ErrorsRunNothing` goes both ways: it names the errors by
whole command lines (`Refused`, `Lacking`), and a command runs on all others.
That an option is refused exactly if its argument is one that it does not take
rests on arithmetic (`FitsIs`): what `boy_parse_u32` accepts are the numbers of 32
bits and the negative ones that wrap to them, or all if long is no longer.

### Induction and sums

The library's induction theorems take an operator as a parameter, which the
provers cannot instantiate. `DataLemmas` therefore does induction with sets: a
set of numbers with 0 that is closed under successor is `Nat`, which follows
from `<` being well-founded. From that come induction over the subsets of a
finite set, the greatest of a finite set of numbers (the longest text of a
column, the last option of a kind) and the sum of a function as the total of its
values (the width of a table).

### Only model-checked

The liveness properties: `LimitStops`, `RingDrained`, `RepeatedSignalStops` and
`RenderEnds`. What follows from fairness is out of the prover's reach. Of the
safety properties, `ListingComplete`: it counts the rows of a filtered sequence.

## What is not modelled

* The progress bar, log texts, usage texts, the order of rows, error strings,
  and the formatting of bytes.
* The string copies of `vpp_client.c`: they cut a name to its buffer, which is
  as long as VPP's field and one more.
* libmemif, libpcap, stdio, getopt and VPP beyond what is described above.
* `boy`, VPP and `beastie` in one model: they share no state in this repository.
  What one learns of the other goes through VPP's forwarding, which is not here.
* The build.

## Plan

The operations of every component that keeps state are modelled, and every
safety property that a run checks is proved. What is left:

1. The part of `RenderEnds` and `RepeatedSignalStops` that is no liveness: a
   measure that every step of a rendering lowers (what is too much, the column,
   the pass), as an action property with a theorem.
2. `NumberFrom` for numbers that do not fit, as a property of its own: what
   `strtoul` and the cast make of them.
3. The hazards without a property in `PROJECT.json`.
