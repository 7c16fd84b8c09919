------------------------------ MODULE ShowPhy ------------------------------
(***************************************************************************)
(* boy_show_phy (boy/commands/phy_cmd.c): the physical interfaces of VPP   *)
(* in a table.  The interfaces come from a dump; their card families from  *)
(* the text VPP's console prints for "show hardware-interfaces", which is  *)
(* read line by line.  Module Table has the steps of the output table.     *)
(***************************************************************************)
EXTENDS Table, FiniteSets

CONSTANTS
  Dumps,      \* sequences of interfaces that VPP may have
  MemifNames, \* names that begin with "memif"
  Length(_),  \* length of a text
  Lines,      \* lines of the listing
  MaxLines    \* bound: lines of a listing

\* An interface of the dump, without the fields that are not shown.
Details == [name : STRING, type : STRING, dev_type : STRING,
            sw_if_index : Nat, link_up : BOOLEAN, link_speed : Nat]

\* The shapes of a line.  A header is what sscanf takes for name, index and
\* link; a section is any other line that is not indented; a stop has a colon
\* or begins with "carrier"; a text is any other indented line.  what is the
\* name or the text.
LineKinds == {"blank", "header", "section", "ethernet", "stop", "text"}

ASSUME ShowPhyAssumption ==
  /\ Len(Columns) = 6
  /\ Dumps \subseteq Seq(Details)
  /\ \A d \in Dumps : \A k \in DOMAIN d : /\ Length(d[k].name) \in Nat
                                         /\ Length(d[k].dev_type) \in Nat
  /\ Lines \subseteq [kind : LineKinds, what : STRING]
  /\ \A l \in Lines : Length(l.what) \in Nat
  /\ MaxLines \in Nat
  /\ Faults \subseteq {"connect", "dump", "listing", "memory"}

\* VPP has no two interfaces of one name: the code takes names for identities.
ASSUME NamesAssumption ==
  \A d \in Dumps : \A j, k \in DOMAIN d : d[j].name = d[k].name => j = k

VARIABLES
  dump,              \* the interfaces VPP has
  interfaces,        \* interfaces.entries
  capacity,          \* interfaces.capacity
  hardware_output,   \* whether the listing is held
  listing,           \* history: the lines read so far
  current,           \* the interface the lines are about; 0 if none
  expect_family,     \* the next line may be the family
  i,                 \* the loop over the interfaces
  table_initialized,
  unsent,            \* history: messages that were allocated and not sent
  rc                 \* exit status

parsevars == <<listing, current, expect_family>>
phyvars   == <<dump, interfaces, capacity, hardware_output, parsevars,
               i, table_initialized, unsent, rc>>
vars      == <<pc, tablevars, phyvars>>

-----------------------------------------------------------------------------
(* boy_open_vapi and boy_collect_interfaces                                *)

OpenVapi ==
  /\ pc = "open"
  /\ \/ pc' = "request" /\ Allocate({<<"ctx">>})
     \/ "connect" \in Faults /\ pc' = "cleanup" /\ UNCHANGED <<heap, bad_free>>
  /\ UNCHANGED <<rowvars, copyvars, rendervars, phyvars>>

\* A message for VPP: once sent it is VPP's to free.  If sending fails, the code
\* only drops its pointer, and the message stays.
Drop(message) == Allocate({message}) /\ unsent' = unsent \cup {message}

\* The request of the dump is sent, there is no message for it, or it is not sent.
RequestDump ==
  /\ pc = "request"
  /\ \/ pc' = "collect" /\ UNCHANGED <<heap, bad_free, unsent>>
     \/ OutOfMemory /\ pc' = "cleanup" /\ UNCHANGED <<heap, bad_free, unsent>>
     \/ "dump" \in Faults /\ pc' = "cleanup" /\ Drop(<<"sw_interface_dump">>)
  /\ UNCHANGED <<rowvars, copyvars, rendervars, dump, interfaces, capacity,
                 hardware_output, parsevars, i, table_initialized, rc>>

\* boy_sw_interface_dump_cb: the device type stands in for the card family.
CollectEntry ==
  /\ pc = "collect" /\ Len(interfaces) < Len(dump)
  /\ LET reply == dump[Len(interfaces) + 1]
         entry == [f \in DOMAIN reply \cup {"card_family"} |->
                     IF f = "card_family" THEN reply.dev_type ELSE reply[f]]
     IN  interfaces' = Append(interfaces, entry)
  /\ capacity' = Grown(capacity, Len(interfaces) + 1)
  /\ Allocate({<<"interfaces">>})
  /\ UNCHANGED <<pc, rowvars, copyvars, rendervars,
                 dump, hardware_output, parsevars, i, table_initialized, unsent, rc>>

\* Seeded fault: a dump that failed is shown as far as it came.
CollectFailsShown ==
  /\ pc = "collect"
  /\ \/ "dump" \in Faults
     \/ OutOfMemory /\ Len(interfaces) < Len(dump) /\ capacity < Len(interfaces) + 1
  /\ pc' = "fetch"
  /\ UNCHANGED <<tablevars, phyvars>>

\* The dump fails after it was sent, before or after some of its entries.
CollectFails ==
  /\ pc = "collect"
  /\ \/ "dump" \in Faults
     \/ OutOfMemory /\ Len(interfaces) < Len(dump) /\ capacity < Len(interfaces) + 1
  /\ pc' = "cleanup"
  /\ UNCHANGED <<tablevars, phyvars>>

CollectDone ==
  /\ pc = "collect" /\ Len(interfaces) = Len(dump)
  /\ pc' = "fetch"
  /\ UNCHANGED <<tablevars, phyvars>>

-----------------------------------------------------------------------------
(* boy_fetch_show_hardware_output                                          *)

\* A reply that came with an error is freed, and the device types are shown.
\* So they are if the listing is empty, if the copy of it that is taken apart
\* fails, if there is no message for the request, and if it is not sent.
FetchListing ==
  /\ pc = "fetch"
  /\ \/ /\ pc' = "parse" /\ Allocate({<<"output">>, <<"text">>})
        /\ hardware_output' = TRUE /\ UNCHANGED unsent
     \/ /\ pc' = "init" /\ Allocate({<<"output">>})
        /\ hardware_output' = TRUE /\ UNCHANGED unsent
     \/ /\ "listing" \in Faults \/ OutOfMemory
        /\ pc' = "init" /\ UNCHANGED <<heap, bad_free, hardware_output, unsent>>
     \/ /\ "listing" \in Faults
        /\ pc' = "init" /\ Drop(<<"cli_inband">>) /\ UNCHANGED hardware_output
  /\ UNCHANGED <<rowvars, copyvars, rendervars,
                 dump, interfaces, capacity, parsevars, i, table_initialized, rc>>

-----------------------------------------------------------------------------
(* boy_override_card_family_from_cli_output                                *)

\* boy_is_physical_interface
Physical(entry) ==
  entry.type = "hardware" /\ entry.name # "local0" /\ entry.name \notin MemifNames

\* boy_find_interface_mut_by_name: the first of that name, 0 if there is none.
Named(name) ==
  LET found == {k \in DOMAIN interfaces : interfaces[k].name = name}
  IN  IF found = {} THEN 0 ELSE CHOOSE k \in found : \A j \in found : k <= j

\* The interface the lines after this one are about.
CurrentAfter(line) ==
  CASE line.kind = "header" ->
         IF Named(line.what) # 0 /\ Physical(interfaces[Named(line.what)])
           THEN Named(line.what) ELSE 0
    [] line.kind = "section" -> 0
    [] OTHER                 -> current

\* Seeded fault: the expectation survives the header of the next interface.
ExpectAfterKept(line) ==
  CASE line.kind \in {"blank", "header"}            -> expect_family
    [] line.kind = "section"                        -> FALSE
    [] line.kind = "ethernet" /\ current # 0        -> TRUE
    [] line.kind \in {"stop", "text"} /\ current # 0 -> FALSE
    [] OTHER                                        -> expect_family

\* Whether the line after this one may be the family.
ExpectAfter(line) ==
  CASE line.kind = "blank"                 -> expect_family
    [] line.kind \in {"header", "section"} -> FALSE
    [] OTHER -> IF current = 0 THEN expect_family ELSE line.kind = "ethernet"

\* The line becomes the family of the current interface.
TakesFamily(line) == current # 0 /\ line.kind = "text" /\ expect_family

\* One round of the loop over the lines.
ReadLine(line) ==
  /\ pc = "parse" /\ Len(listing) < MaxLines
  /\ current' = CurrentAfter(line)
  /\ expect_family' = ExpectAfter(line)
  /\ interfaces' = IF TakesFamily(line)
                     THEN [interfaces EXCEPT ![current].card_family = line.what]
                     ELSE interfaces
  /\ listing' = Append(listing, line)
  /\ UNCHANGED <<pc, tablevars, dump, capacity, hardware_output, i, table_initialized, unsent, rc>>

ParseEnds ==
  /\ pc = "parse"
  /\ Free({<<"text">>})
  /\ listing' = <<>> /\ current' = 0 /\ expect_family' = FALSE
  /\ pc' = "init"
  /\ UNCHANGED <<rowvars, copyvars, rendervars,
                 dump, interfaces, capacity, hardware_output, i, table_initialized, unsent, rc>>

-----------------------------------------------------------------------------
(* The table                                                               *)

InitTable ==
  /\ app_table_init
  /\ table_initialized' = (pc' = "rows")
  /\ UNCHANGED <<dump, interfaces, capacity, hardware_output, parsevars, i, unsent, rc>>

\* Digits of a number of 32 bits.
Digits(n) == 1 + Cardinality({d \in 1 .. 9 : n >= 10 ^ d})

\* Length of the speed: "unknown", or a number with Gbps or Mbps.
SpeedLength(speed) ==
  IF speed = 0 THEN 7
  ELSE 4 + Digits(IF speed % 1000 = 0 THEN speed \div 1000 ELSE speed)

\* boy_add_phy_row: the lengths of the six cells.  The link is "up" or "down",
\* the Ethernet address six pairs of digits.
PhyRow(entry) ==
  <<Length(entry.name), Digits(entry.sw_if_index), IF entry.link_up THEN 2 ELSE 4,
    SpeedLength(entry.link_speed), 17, Length(entry.card_family)>>

\* Interface i is skipped or becomes a row.
AddPhyRow ==
  /\ pc = "rows" /\ i <= Len(interfaces)
  /\ IF Physical(interfaces[i])
       THEN AddRow(PhyRow(interfaces[i]))
       ELSE UNCHANGED <<pc, tablevars>>
  /\ i' = i + 1
  /\ UNCHANGED <<dump, interfaces, capacity, hardware_output, parsevars,
                 table_initialized, unsent, rc>>

RowsDone ==
  /\ pc = "rows" /\ i > Len(interfaces)
  /\ pc' = "measure"
  /\ UNCHANGED <<tablevars, phyvars>>

\* The table's own steps, whatever command it belongs to.
TableWorks == TableStep /\ UNCHANGED phyvars

Shown ==
  /\ pc = "printed"
  /\ app_table_free({})
  /\ table_initialized' = FALSE
  /\ rc' = 0
  /\ pc' = "cleanup"
  /\ UNCHANGED <<copyvars, rendervars,
                 dump, interfaces, capacity, hardware_output, parsevars, i, unsent>>

-----------------------------------------------------------------------------
(* cleanup:                                                                *)

\* boy_free_interface_table, boy_close_vapi and the listing: each does nothing
\* if it has not come into being.
CallerBlocks ==
  {b \in {<<"output">>} : hardware_output} \cup {b \in {<<"interfaces">>} : capacity > 0}
    \cup {b \in {<<"ctx">>} : b \in heap}

\* Seeded fault: the table is left alone after a row has failed.
CleanupWithoutTable ==
  /\ pc = "cleanup"
  /\ Free(CallerBlocks) /\ UNCHANGED rowvars
  /\ pc' = "exit"
  /\ table_initialized' = FALSE /\ hardware_output' = FALSE
  /\ interfaces' = <<>> /\ capacity' = 0
  /\ UNCHANGED <<copyvars, rendervars, dump, parsevars, i, unsent, rc>>

Cleanup ==
  /\ pc = "cleanup"
  /\ IF table_initialized
       THEN app_table_free(CallerBlocks)
       ELSE Free(CallerBlocks) /\ UNCHANGED rowvars
  /\ pc' = "exit"
  /\ table_initialized' = FALSE /\ hardware_output' = FALSE
  /\ interfaces' = <<>> /\ capacity' = 0
  /\ UNCHANGED <<copyvars, rendervars, dump, parsevars, i, unsent, rc>>

-----------------------------------------------------------------------------
Init ==
  /\ TableInit
  /\ pc = "open" /\ dump \in Dumps
  /\ interfaces = <<>> /\ capacity = 0 /\ hardware_output = FALSE
  /\ listing = <<>> /\ current = 0 /\ expect_family = FALSE
  /\ i = 1 /\ table_initialized = FALSE /\ unsent = {} /\ rc = 1

Exited == pc = "exit" /\ UNCHANGED vars

Command == \/ OpenVapi \/ RequestDump \/ CollectEntry \/ CollectFails \/ CollectDone
           \/ FetchListing \/ (\E line \in Lines : ReadLine(line)) \/ ParseEnds
           \/ InitTable \/ AddPhyRow \/ RowsDone \/ TableWorks \/ Shown \/ Cleanup

Next == Command \/ Exited

Spec == Init /\ [][Next]_vars

\* A process that can run does.
FairSpec == Spec /\ WF_vars(Command)
-----------------------------------------------------------------------------
(* Properties                                                              *)

Messages == {<<"sw_interface_dump">>, <<"cli_inband">>}

\* Every variable of the command and of the table has its type, and the entries
\* of the dump are within their array.
TypeOK ==
  /\ TableTypeOK
  /\ dump \in Dumps
  /\ capacity \in Nat /\ Len(interfaces) <= capacity
  /\ hardware_output \in BOOLEAN /\ table_initialized \in BOOLEAN
  /\ current \in 0 .. Len(interfaces) /\ expect_family \in BOOLEAN
  /\ i \in 1 .. Len(dump) + 1 /\ unsent \subseteq Messages /\ rc \in {0, 1}

\* However the command ends, after whatever failure, what stays allocated is
\* the messages that could not be sent, and nothing else.
NothingLeaks == pc = "exit" => heap = unsent

\* What the listing says of interface k: the text that follows its Ethernet
\* address directly, blank lines aside, among the lines under its own header.
\* This is said of whole lines and knows no state that is carried along.
IsHeading(n) == listing[n].kind \in {"header", "section"}

FamilyLine(n, k) ==
  /\ listing[n].kind = "text"
  /\ \E h \in 1 .. n - 1 : /\ listing[h] = [kind |-> "header", what |-> dump[k].name]
                           /\ \A m \in h + 1 .. n : ~IsHeading(m)
  /\ \E e \in 1 .. n - 1 : /\ listing[e].kind = "ethernet"
                           /\ \A m \in e + 1 .. n - 1 : listing[m].kind = "blank"

Family(k) ==
  LET found == {n \in DOMAIN listing : Physical(dump[k]) /\ FamilyLine(n, k)}
  IN  IF found = {} THEN dump[k].dev_type
      ELSE listing[CHOOSE n \in found : \A m \in found : m <= n].what

\* Every interface has the family that the listing gives it and no other's,
\* or its device type, after every line, whatever lines come in which order.
FamiliesAsListed ==
  pc = "parse" => \A k \in DOMAIN dump : interfaces[k].card_family = Family(k)

\* When the command returns 0 and has printed, it has printed every physical
\* interface VPP had, in the order of the dump, each with its own values: a dump
\* or a row that failed is never passed off as the whole.
ListingComplete ==
  [][(rc = 1 /\ rc' = 0 /\ page # <<>>) =>
       LET shown == {k \in DOMAIN dump : Physical(dump[k])}
       IN  /\ Len(rows) = Cardinality(shown) /\ Len(page) = Len(rows) + 2
           /\ \A k \in shown :
                rows[Cardinality({j \in shown : j <= k})] = PhyRow(interfaces[k])]_vars
=============================================================================
