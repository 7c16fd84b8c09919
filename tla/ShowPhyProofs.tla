--------------------------- MODULE ShowPhyProofs ---------------------------
(* Theorems about ShowPhy and the table it prints, for any interfaces, any *)
(* listing, any columns' limits, any terminals and any failures.           *)
EXTENDS ShowPhy, DataLemmas

-----------------------------------------------------------------------------
(* The operators of the table                                              *)

LEMMA ColsFacts ==
  /\ Len(Columns) \in Nat \ {0} /\ Cols = 1 .. Len(Columns) /\ IsFiniteSet(Cols)
  /\ \A c \in Cols : Columns[c] \in Column
<1>1. Len(Columns) \in Nat \ {0} /\ Cols = 1 .. Len(Columns)
  BY TableAssumption DEF Cols
<1>2. IsFiniteSet(1 .. Len(Columns))
  BY <1>1, FS_Interval
<1> QED
  BY <1>1, <1>2, TableAssumption DEF Cols

\* The longest text of a column is one of its texts, and none is longer.
LEMMA LongestIs ==
  ASSUME rows \in Seq(Cell), NEW c \in Cols
  PROVE  /\ Longest(c) \in Nat
         /\ Columns[c].header <= Longest(c)
         /\ \A r \in DOMAIN rows : rows[r][c] <= Longest(c)
<1> DEFINE column == {rows[r][c] : r \in DOMAIN rows}
           texts == {Columns[c].header} \cup column
           f == [r \in 1 .. Len(rows) |-> rows[r][c]]
<1>1. Columns[c].header \in Nat
  BY ColsFacts DEF Column
<1>2. \A r \in DOMAIN rows : rows[r][c] \in Nat
  BY DEF Cell
<1>3. f \in Surjection(1 .. Len(rows), column)
  BY DEF Surjection
<1>4. IsFiniteSet(column)
  <2>1. IsFiniteSet(1 .. Len(rows))
    BY FS_Interval
  <2> QED
    BY <2>1, <1>3, FS_Surjection
<1>5. IsFiniteSet(texts)
  <2>1. texts = column \cup {Columns[c].header}
    OBVIOUS
  <2> HIDE DEF column
  <2> QED
    BY <1>4, <2>1, FS_AddElement
<1>6. texts \in SUBSET Nat /\ texts # {}
  BY <1>1, <1>2
<1>7. Longest(c) = CHOOSE n \in texts : \A m \in texts : m <= n
  BY DEF Longest
<1>8. Longest(c) \in texts /\ \A m \in texts : m <= Longest(c)
  <2> HIDE DEF texts
  <2>1. \E n \in texts : \A m \in texts : m <= n
    BY <1>5, <1>6, GreatestOfSet
  <2> QED
    BY <2>1, <1>7
<1> QED
  BY <1>6, <1>8

LEMMA ClampType ==
  ASSUME NEW n \in Nat, NEW column \in Column
  PROVE  Clamp(n, column) \in Nat
  BY DEF Clamp, Column

LEMMA NaturalWidthsType ==
  ASSUME rows \in Seq(Cell)
  PROVE  NaturalWidths \in [Cols -> Nat]
  BY LongestIs, ClampType, ColsFacts DEF NaturalWidths

LEMMA TotalType ==
  ASSUME NEW w \in [Cols -> Nat]
  PROVE  Total(w) \in Nat
<1>1. SumFunction(w) \in Nat
  BY ColsFacts, SumOfNumbers
<1> QED
  BY <1>1, ColsFacts DEF Total, Gap

LEMMA GrownGrows ==
  ASSUME NEW n \in Nat, NEW room \in Nat, n <= room
  PROVE  /\ Grown(room, n + 1) \in Nat
         /\ n + 1 <= Grown(room, n + 1)
         /\ Grown(room, n + 1) > 0
<1> DEFINE first == IF room = 0 THEN FirstCapacity ELSE 2 * room
<1>1. first \in Nat /\ first > 0 /\ (room < n + 1 => n + 1 <= first)
  BY TableAssumption
<1>2. CASE room >= n + 1
  BY <1>2 DEF Grown
<1>3. CASE room < n + 1 /\ first >= n + 1
  <2>1. Grown(room, n + 1) = first
    BY <1>3 DEF Grown
  <2> QED
    BY <1>1, <1>3, <2>1
<1> QED
  BY <1>1, <1>2, <1>3

\* A number of 32 bits has up to ten digits.
LEMMA DigitsType == ASSUME NEW n PROVE Digits(n) \in Nat
<1> DEFINE tens == {d \in 1 .. 9 : n >= 10 ^ d}
<1>1. IsFiniteSet(1 .. 9)
  <2>1. 1 \in Int /\ 9 \in Int
    OBVIOUS
  <2> QED
    BY <2>1, FS_Interval, Zenon
<1>2. tens \in SUBSET (1 .. 9)
  OBVIOUS
<1>3. Cardinality(tens) \in Nat
  <2> HIDE DEF tens
  <2> QED
    BY <1>1, <1>2, FS_Subset, FS_CardinalityType
<1>4. Digits(n) = 1 + Cardinality(tens)
  BY Zenon DEF Digits
<1> HIDE DEF tens
<1> QED
  BY <1>3, <1>4
-----------------------------------------------------------------------------
(* Type correctness                                                        *)

EntryFields == {"name", "type", "dev_type", "sw_if_index", "link_up", "link_speed",
                "card_family"}
Entries     == [EntryFields -> STRING \cup Nat \cup BOOLEAN]

\* An entry has the fields of the interface that was dumped, and a family with
\* a length.
Carried(k) ==
  /\ \A f \in EntryFields \ {"card_family"} : interfaces[k][f] = dump[k][f]
  /\ Length(interfaces[k].card_family) \in Nat

\* What the types need to be kept: the interfaces held are the first ones of
\* the dump, lines are read only while parsing, and a row that is being copied
\* has all its cells.
TypeInv ==
  /\ TypeOK
  /\ interfaces \in Seq(Entries) /\ Len(interfaces) <= Len(dump)
  /\ \A k \in DOMAIN interfaces : Carried(k)
  /\ listing \in Seq(Lines)
  /\ pc # "parse" => current = 0 /\ expect_family = FALSE
  /\ pc = "copy" => new_row \in Cell

\* There is room for every row.
RoomInv == Len(rows) + (IF pc = "copy" THEN 1 ELSE 0) <= row_capacity

\* The entry that an interface of the dump becomes.
LEMMA EntryIs ==
  ASSUME NEW reply \in Details
  PROVE  LET entry == [f \in DOMAIN reply \cup {"card_family"} |->
                         IF f = "card_family" THEN reply.dev_type ELSE reply[f]]
         IN  /\ entry \in Entries
             /\ entry["card_family"] = reply.dev_type
             /\ \A f \in EntryFields \ {"card_family"} : entry[f] = reply[f]
<1>1. DOMAIN reply \cup {"card_family"} = EntryFields
  BY DEF Details, EntryFields
<1>2. \A f \in EntryFields \ {"card_family"} : reply[f] \in STRING \cup Nat \cup BOOLEAN
  BY DEF Details, EntryFields
<1> QED
  BY <1>1, <1>2 DEF Details, Entries, EntryFields

LEMMA DumpFacts ==
  ASSUME dump \in Dumps
  PROVE  /\ dump \in Seq(Details) /\ Len(dump) \in Nat
         /\ \A k \in 1 .. Len(dump) : /\ dump[k] \in Details
                                      /\ Length(dump[k].name) \in Nat
                                      /\ Length(dump[k].dev_type) \in Nat
  BY ShowPhyAssumption

\* The row of an interface has a cell for every column.
LEMMA PhyRowIsCell ==
  ASSUME NEW entry, Length(entry.name) \in Nat, Length(entry.card_family) \in Nat
  PROVE  PhyRow(entry) \in Cell
<1>1. Digits(entry.sw_if_index) \in Nat /\ SpeedLength(entry.link_speed) \in Nat
  <2>1. \A n : Digits(n) \in Nat
    BY DigitsType
  <2> QED
    BY <2>1 DEF SpeedLength
<1>2. Cols = 1 .. 6
  BY ColsFacts, ShowPhyAssumption
<1> QED
  BY <1>1, <1>2 DEF PhyRow, Cell

LEMMA TypeInit == Init => TypeInv
<1> SUFFICES ASSUME Init PROVE TypeInv
  OBVIOUS
<1>1. Len(Columns) \in Nat \ {0} /\ Len(dump) \in Nat
  BY ColsFacts, DumpFacts DEF Init
<1>2. TypeOK
  <2>1. TableTypeOK
    <3>1. <<>> \in Seq(Cell)
      OBVIOUS
    <3>2. bad_free \in BOOLEAN /\ reduced \in BOOLEAN
      BY DEF Init, TableInit
    <3>3. rows \in Seq(Cell) /\ row_capacity \in Nat
      BY <3>1 DEF Init, TableInit
    <3>4. new_row \in {<<>>} \cup Cell /\ copied \in 0 .. Len(Columns)
      BY <1>1 DEF Init, TableInit
    <3>5. terminal \in {0} \cup DetectedWidths /\ overflow \in Nat
      BY <1>1 DEF Init, TableInit
    <3>6. widths \in [Cols -> Nat]
      BY <1>1 DEF Init, TableInit
    <3>7. col \in 1 .. Len(Columns) + 1
      BY <1>1 DEF Init, TableInit
    <3> QED
      BY <3>2, <3>3, <3>4, <3>5, <3>6, <3>7, Zenon DEF TableTypeOK
  <2>2. current \in 0 .. Len(interfaces)
    BY DEF Init
  <2>3. /\ capacity \in Nat /\ Len(interfaces) <= capacity /\ unsent \subseteq Messages
        /\ i \in 1 .. Len(dump) + 1
    BY <1>1 DEF Init
  <2>4. rc \in {0, 1} /\ dump \in Dumps
    BY <1>1 DEF Init
  <2>5. hardware_output \in BOOLEAN /\ table_initialized \in BOOLEAN /\ expect_family \in BOOLEAN
    BY <1>1 DEF Init
  <2> QED
    BY <1>1, <2>1, <2>2, <2>3, <2>4, <2>5 DEF TypeOK
<1>3. interfaces = <<>> /\ listing = <<>> /\ pc = "open"
  BY DEF Init
<1>4. <<>> \in Seq(Entries) /\ <<>> \in Seq(Lines)
  OBVIOUS
<1> QED
  BY <1>1, <1>2, <1>3, <1>4 DEF Init, TypeInv

\* The types of the table's variables, of the command's, and the rest.
PhyTypeOK ==
  /\ dump \in Dumps
  /\ capacity \in Nat /\ Len(interfaces) <= capacity
  /\ hardware_output \in BOOLEAN /\ table_initialized \in BOOLEAN
  /\ current \in 0 .. Len(interfaces) /\ expect_family \in BOOLEAN
  /\ i \in 1 .. Len(dump) + 1 /\ unsent \subseteq Messages /\ rc \in {0, 1}

HeldTypeOK ==
  /\ interfaces \in Seq(Entries) /\ Len(interfaces) <= Len(dump)
  /\ \A k \in DOMAIN interfaces : Carried(k)
  /\ listing \in Seq(Lines)

AtTypeOK ==
  /\ pc # "parse" => current = 0 /\ expect_family = FALSE
  /\ pc = "copy" => new_row \in Cell

LEMMA TypeParts == TypeInv <=> TableTypeOK /\ PhyTypeOK /\ HeldTypeOK /\ AtTypeOK
  BY Zenon DEF TypeInv, TypeOK, PhyTypeOK, HeldTypeOK, AtTypeOK

\* Steps that leave the interfaces and the listing alone keep what is said of
\* them.
LEMMA HeldStays ==
  ASSUME HeldTypeOK, UNCHANGED <<dump, interfaces, listing>>
  PROVE  HeldTypeOK'
  BY DEF HeldTypeOK, Carried

\* The table's own steps.
LEMMA TypeCopyCell == TypeInv /\ CopyCell => TableTypeOK'
  BY ColsFacts DEF TypeInv, TypeOK, TableTypeOK, CopyCell, Allocate, rowvars, rendervars

LEMMA TypeCopyFails == TypeInv /\ CopyFails => TableTypeOK'
  BY ColsFacts DEF TypeInv, TypeOK, TableTypeOK, CopyFails, Free, rowvars, rendervars

LEMMA TypeRowCopied == TypeInv /\ RowCopied => TableTypeOK'
  BY ColsFacts DEF TypeInv, TypeOK, TableTypeOK, RowCopied, rendervars

LEMMA TypeMeasure == TypeInv /\ Measure => TableTypeOK'
<1> SUFFICES ASSUME TypeInv, Measure PROVE TableTypeOK'
  OBVIOUS
<1>1. TableTypeOK
  BY DEF TypeInv, TypeOK
<1>2. terminal' \in {0} \cup DetectedWidths /\ widths' \in [Cols -> Nat] /\ overflow' \in Nat
  <2>1. CASE /\ widths' = NaturalWidths
             /\ terminal' \in DetectedWidths
             /\ overflow' = IF Total(widths') > terminal' THEN Total(widths') - terminal' ELSE 0
    <3>1. widths' \in [Cols -> Nat]
      BY <1>1, <2>1, NaturalWidthsType DEF TableTypeOK
    <3>2. Total(widths') \in Nat
      BY <3>1, TotalType
    <3>3. terminal' \in Nat
      BY <2>1, TableAssumption DEF DetectedWidths
    <3> QED
      BY <2>1, <3>1, <3>2, <3>3
  <2>2. CASE UNCHANGED <<terminal, widths, overflow>>
    BY <1>1, <2>2 DEF TableTypeOK
  <2> QED
    BY <2>1, <2>2 DEF Measure
<1>3. /\ bad_free' = bad_free /\ rows' = rows /\ row_capacity' = row_capacity
      /\ new_row' = new_row /\ copied' = copied /\ col' = 1 /\ reduced' \in BOOLEAN
  BY DEF Measure, Allocate, rowvars, copyvars
<1> QED
  BY <1>1, <1>2, <1>3, ColsFacts DEF TableTypeOK

LEMMA TypeShrink == TypeInv /\ Shrink => TableTypeOK'
<1> SUFFICES ASSUME TypeInv, Shrink PROVE TableTypeOK'
  OBVIOUS
<1>1. TableTypeOK
  BY DEF TypeInv, TypeOK
<1>2. col \in Cols
  BY <1>1, ColsFacts DEF Shrink, TableTypeOK
<1>3. widths' \in [Cols -> Nat] /\ overflow' \in Nat /\ reduced' \in BOOLEAN
  <2>1. CASE MayShrink(col)
    <3>1. widths[col] > 0
      <4>1. widths[col] \in Nat /\ Columns[col].min_width \in Nat
        BY <1>1, <1>2, ColsFacts DEF TableTypeOK, Column
      <4> QED
        BY <2>1, <4>1 DEF MayShrink, Dots
    <3> QED
      BY <1>1, <1>2, <2>1, <3>1 DEF Shrink, TableTypeOK
  <2>2. CASE ~MayShrink(col)
    BY <1>1, <2>2 DEF Shrink, TableTypeOK
  <2> QED
    BY <2>1, <2>2
<1>4. /\ bad_free' = bad_free /\ rows' = rows /\ row_capacity' = row_capacity
      /\ new_row' = new_row /\ copied' = copied /\ terminal' = terminal
      /\ col' = col + 1
  BY DEF Shrink, rowvars, copyvars
<1> QED
  BY <1>1, <1>2, <1>3, <1>4, ColsFacts DEF TableTypeOK

LEMMA TypePassEnds == TypeInv /\ PassEnds => TableTypeOK'
<1> SUFFICES ASSUME TypeInv, PassEnds PROVE TableTypeOK'
  OBVIOUS
<1>1. TableTypeOK
  BY DEF TypeInv, TypeOK
<1>2. /\ bad_free' = bad_free /\ rows' = rows /\ row_capacity' = row_capacity
      /\ new_row' = new_row /\ copied' = copied /\ terminal' = terminal
      /\ widths' = widths /\ overflow' = overflow
      /\ col' = 1 /\ reduced' \in BOOLEAN
  BY DEF PassEnds, rowvars, copyvars
<1> QED
  BY <1>1, <1>2, ColsFacts DEF TableTypeOK

LEMMA TypePrintTable == TypeInv /\ PrintTable => TableTypeOK'
  BY ColsFacts DEF TypeInv, TypeOK, TableTypeOK, PrintTable, Free, rowvars, copyvars

\* What the other parts need to know of these steps.
LEMMA TableStepKeeps ==
  ASSUME TypeInv, TableWorks
  PROVE  PhyTypeOK' /\ HeldTypeOK' /\ AtTypeOK'
<1>1. PhyTypeOK /\ HeldTypeOK /\ AtTypeOK
  BY TypeParts
<1>2. /\ dump' = dump /\ interfaces' = interfaces /\ capacity' = capacity
      /\ hardware_output' = hardware_output /\ listing' = listing /\ current' = current
      /\ expect_family' = expect_family /\ i' = i
      /\ table_initialized' = table_initialized /\ unsent' = unsent /\ rc' = rc
  BY DEF TableWorks, phyvars, parsevars
<1>3. PhyTypeOK'
  BY <1>1, <1>2 DEF PhyTypeOK
<1>4. HeldTypeOK'
  BY <1>1, <1>2, HeldStays
<1>5. AtTypeOK'
  <2>1. pc # "parse" /\ pc' # "parse"
    BY DEF TableWorks, TableStep, CopyCell, CopyFails, RowCopied, Measure, Shrink, PassEnds, PrintTable
  <2>2. pc' = "copy" => pc = "copy" /\ new_row' = new_row
    BY DEF TableWorks, TableStep, CopyCell, CopyFails, RowCopied, Measure, Shrink, PassEnds, PrintTable
  <2> QED
    BY <1>1, <1>2, <2>1, <2>2 DEF AtTypeOK
<1> QED
  BY <1>3, <1>4, <1>5

LEMMA TypeTableWorks == TypeInv /\ TableWorks => TypeInv'
<1> SUFFICES ASSUME TypeInv, TableWorks PROVE TypeInv'
  OBVIOUS
<1>1. TableTypeOK'
  BY TypeCopyCell, TypeCopyFails, TypeRowCopied, TypeMeasure, TypeShrink, TypePassEnds,
     TypePrintTable DEF TableWorks, TableStep
<1> QED
  BY <1>1, TableStepKeeps, TypeParts, PTL

\* What the steps that leave the table alone keep.
LEMMA TableStays ==
  ASSUME TableTypeOK, UNCHANGED <<bad_free, rows, row_capacity, new_row, copied, terminal,
                                  widths, overflow, col, reduced>>
  PROVE  TableTypeOK'
  BY DEF TableTypeOK

\* Steps of the command that leave what it holds alone.
LEMMA TypeOpenVapi == TypeInv /\ OpenVapi => TypeInv'
<1> SUFFICES ASSUME TypeInv, OpenVapi PROVE TypeInv'
  OBVIOUS
<1> USE DEF rowvars, copyvars, rendervars, phyvars, parsevars
<1>1. TableTypeOK /\ PhyTypeOK /\ HeldTypeOK /\ AtTypeOK
  BY TypeParts
<1>2. TableTypeOK'
  <2>1. bad_free' = bad_free
    BY DEF OpenVapi, Allocate
  <2> QED
    BY <1>1, <2>1, TableStays DEF OpenVapi
<1>3. PhyTypeOK'
  BY <1>1 DEF OpenVapi, PhyTypeOK
<1>4. HeldTypeOK'
  BY <1>1, HeldStays DEF OpenVapi
<1>5. AtTypeOK'
  BY <1>1 DEF OpenVapi, AtTypeOK
<1> QED
  BY <1>2, <1>3, <1>4, <1>5, TypeParts, PTL

LEMMA TypeRequestDump == TypeInv /\ RequestDump => TypeInv'
<1> SUFFICES ASSUME TypeInv, RequestDump PROVE TypeInv'
  OBVIOUS
<1> USE DEF rowvars, copyvars, rendervars, parsevars
<1>1. TableTypeOK /\ PhyTypeOK /\ HeldTypeOK /\ AtTypeOK
  BY TypeParts
<1>2. TableTypeOK'
  <2>1. bad_free' = bad_free
    BY DEF RequestDump, Drop, Allocate
  <2> QED
    BY <1>1, <2>1, TableStays DEF RequestDump
<1>3. PhyTypeOK'
  <2>1. unsent' \subseteq Messages
    BY <1>1 DEF RequestDump, Drop, Messages, PhyTypeOK
  <2> QED
    BY <1>1, <2>1 DEF RequestDump, PhyTypeOK
<1>4. HeldTypeOK'
  BY <1>1, HeldStays DEF RequestDump
<1>5. AtTypeOK'
  BY <1>1 DEF RequestDump, AtTypeOK
<1> QED
  BY <1>2, <1>3, <1>4, <1>5, TypeParts, PTL

LEMMA TypeCollectEntry == TypeInv /\ CollectEntry => TypeInv'
<1> SUFFICES ASSUME TypeInv, CollectEntry PROVE TypeInv'
  OBVIOUS
<1> USE DEF rowvars, copyvars, rendervars, parsevars
<1>1. TableTypeOK /\ PhyTypeOK /\ HeldTypeOK /\ AtTypeOK
  BY TypeParts
<1>2. TableTypeOK'
  <2>1. bad_free' = bad_free
    BY DEF CollectEntry, Allocate
  <2> QED
    BY <1>1, <2>1, TableStays DEF CollectEntry
<1> DEFINE n == Len(interfaces) + 1
           reply == dump[n]
           entry == [f \in DOMAIN reply \cup {"card_family"} |->
                       IF f = "card_family" THEN reply.dev_type ELSE reply[f]]
<1>3. /\ interfaces' = Append(interfaces, entry) /\ dump' = dump
      /\ n \in 1 .. Len(dump) /\ Len(dump) \in Nat
  BY <1>1, DumpFacts DEF CollectEntry, PhyTypeOK, HeldTypeOK
<1>4. reply \in Details /\ Length(reply.dev_type) \in Nat
  BY <1>1, <1>3, DumpFacts DEF PhyTypeOK
<1>5. /\ entry \in Entries /\ entry["card_family"] = reply.dev_type
      /\ \A f \in EntryFields \ {"card_family"} : entry[f] = reply[f]
  BY <1>4, EntryIs
<1> HIDE DEF entry
<1>6. HeldTypeOK'
  <2>1. /\ interfaces' \in Seq(Entries) /\ Len(interfaces') = n
        /\ interfaces'[n] = entry
        /\ \A k \in 1 .. Len(interfaces) : interfaces'[k] = interfaces[k]
    BY <1>1, <1>3, <1>5 DEF HeldTypeOK
  <2>2. \A k \in 1 .. n : Carried(k)'
    <3>1. \A k : k = n => Carried(k)'
      BY <1>3, <1>4, <1>5, <2>1 DEF Carried
    <3>2. \A k \in 1 .. Len(interfaces) : Carried(k)'
      BY <1>1, <1>3, <2>1 DEF Carried, HeldTypeOK
    <3> QED
      BY <1>1, <3>1, <3>2 DEF HeldTypeOK
  <2>3. DOMAIN interfaces' = 1 .. n
    BY <2>1
  <2>4. listing' = listing
    BY DEF CollectEntry
  <2> QED
    BY <1>1, <1>3, <2>1, <2>2, <2>3, <2>4 DEF HeldTypeOK
<1>7. PhyTypeOK'
  <2>1. capacity' \in Nat /\ Len(interfaces') <= capacity'
    <3>1. Len(interfaces) \in Nat /\ capacity \in Nat /\ Len(interfaces) <= capacity
      BY <1>1 DEF PhyTypeOK, HeldTypeOK
    <3>2. Len(interfaces') = n
      BY <1>1, <1>3, <1>5 DEF HeldTypeOK
    <3> QED
      BY <3>1, <3>2, GrownGrows DEF CollectEntry
  <2>2. current' \in 0 .. Len(interfaces')
    <3>1. Len(interfaces') = n /\ Len(interfaces) \in Nat
      BY <1>1, <1>3, <1>5 DEF HeldTypeOK
    <3> QED
      BY <1>1, <3>1 DEF PhyTypeOK, CollectEntry
  <2> QED
    BY <1>1, <2>1, <2>2 DEF PhyTypeOK, CollectEntry
<1>8. AtTypeOK'
  BY <1>1 DEF CollectEntry, AtTypeOK
<1> QED
  BY <1>2, <1>6, <1>7, <1>8, TypeParts, PTL

LEMMA TypeCollectEnds == TypeInv /\ (CollectFails \/ CollectDone \/ RowsDone) => TypeInv'
<1> SUFFICES ASSUME TypeInv, CollectFails \/ CollectDone \/ RowsDone PROVE TypeInv'
  OBVIOUS
<1> USE DEF rowvars, copyvars, rendervars, phyvars, parsevars, tablevars
<1>1. TableTypeOK /\ PhyTypeOK /\ HeldTypeOK /\ AtTypeOK
  BY TypeParts
<1>2. TableTypeOK'
  BY <1>1, TableStays DEF CollectFails, CollectDone, RowsDone
<1>3. PhyTypeOK'
  BY <1>1 DEF CollectFails, CollectDone, RowsDone, PhyTypeOK
<1>4. HeldTypeOK'
  BY <1>1, HeldStays DEF CollectFails, CollectDone, RowsDone
<1>5. AtTypeOK'
  BY <1>1 DEF CollectFails, CollectDone, RowsDone, AtTypeOK
<1> QED
  BY <1>2, <1>3, <1>4, <1>5, TypeParts, PTL

LEMMA TypeFetchListing == TypeInv /\ FetchListing => TypeInv'
<1> SUFFICES ASSUME TypeInv, FetchListing PROVE TypeInv'
  OBVIOUS
<1> USE DEF rowvars, copyvars, rendervars, parsevars
<1>1. TableTypeOK /\ PhyTypeOK /\ HeldTypeOK /\ AtTypeOK
  BY TypeParts
<1>2. TableTypeOK'
  <2>1. bad_free' = bad_free
    BY DEF FetchListing, Drop, Allocate
  <2> QED
    BY <1>1, <2>1, TableStays DEF FetchListing
<1>3. PhyTypeOK'
  <2>1. hardware_output' \in BOOLEAN /\ unsent' \subseteq Messages
    BY <1>1 DEF FetchListing, Drop, Messages, PhyTypeOK
  <2> QED
    BY <1>1, <2>1 DEF FetchListing, PhyTypeOK
<1>4. HeldTypeOK'
  BY <1>1, HeldStays DEF FetchListing
<1>5. AtTypeOK'
  BY <1>1 DEF FetchListing, AtTypeOK
<1> QED
  BY <1>2, <1>3, <1>4, <1>5, TypeParts, PTL

\* The first interface of a name, if there is one.
LEMMA NamedIs ==
  ASSUME interfaces \in Seq(Entries), NEW name
  PROVE  /\ Named(name) \in 0 .. Len(interfaces)
         /\ Named(name) # 0 => interfaces[Named(name)].name = name
         /\ Named(name) = 0 => \A k \in DOMAIN interfaces : interfaces[k].name # name
<1> DEFINE found == {k \in DOMAIN interfaces : interfaces[k].name = name}
<1>1. found \in SUBSET Nat /\ found \subseteq 1 .. Len(interfaces) /\ Len(interfaces) \in Nat
  OBVIOUS
<1>2. Named(name) = IF found = {} THEN 0 ELSE CHOOSE k \in found : \A j \in found : k <= j
  BY Zenon DEF Named
<1>3. CASE found = {}
  BY <1>1, <1>2, <1>3
<1>4. CASE found # {}
  <2>1. \E k \in found : \A j \in found : k <= j
    <3> HIDE DEF found
    <3> QED
      BY <1>1, <1>4, LeastOfSet
  <2>2. Named(name) \in found
    BY <2>1, <1>2, <1>4
  <2> QED
    BY <1>1, <2>2
<1> QED
  BY <1>3, <1>4

LEMMA CurrentAfterType ==
  ASSUME PhyTypeOK, HeldTypeOK, NEW line \in Lines
  PROVE  CurrentAfter(line) \in 0 .. Len(interfaces)
<1>1. Named(line.what) \in 0 .. Len(interfaces) /\ 0 \in 0 .. Len(interfaces)
  BY NamedIs DEF HeldTypeOK
<1> QED
  BY <1>1 DEF CurrentAfter, PhyTypeOK

\* A line changes a family at most.
LEMMA ReadLineHolds ==
  ASSUME PhyTypeOK, HeldTypeOK, NEW line \in Lines, ReadLine(line)
  PROVE  /\ interfaces' \in Seq(Entries) /\ Len(interfaces') = Len(interfaces)
         /\ \A k \in DOMAIN interfaces :
              interfaces'[k] = IF TakesFamily(line) /\ k = current
                                 THEN [interfaces[k] EXCEPT !.card_family = line.what]
                                 ELSE interfaces[k]
<1>1. interfaces \in Seq(Entries) /\ current \in 0 .. Len(interfaces)
  BY DEF PhyTypeOK, HeldTypeOK
<1>2. CASE TakesFamily(line)
  <2>1. current \in 1 .. Len(interfaces) /\ interfaces[current] \in Entries
    BY <1>1, <1>2 DEF TakesFamily
  <2>2. line.what \in STRING
    BY ShowPhyAssumption
  <2> DEFINE e == [interfaces[current] EXCEPT !.card_family = line.what]
  <2>3. e \in Entries
    BY <2>1, <2>2 DEF Entries
  <2>4. interfaces' = [interfaces EXCEPT ![current] = e]
    BY <1>2 DEF ReadLine
  <2>5. /\ [interfaces EXCEPT ![current] = e] \in Seq(Entries)
        /\ Len([interfaces EXCEPT ![current] = e]) = Len(interfaces)
        /\ \A k \in 1 .. Len(interfaces) :
             [interfaces EXCEPT ![current] = e][k] = IF k = current THEN e ELSE interfaces[k]
    <3> HIDE DEF e
    <3> QED
      BY <1>1, <2>1, <2>3
  <2> QED
    BY <1>1, <1>2, <2>1, <2>4, <2>5
<1>3. CASE ~TakesFamily(line)
  BY <1>1, <1>3 DEF ReadLine
<1> QED
  BY <1>2, <1>3

LEMMA TypeReadLine == ASSUME NEW line \in Lines PROVE TypeInv /\ ReadLine(line) => TypeInv'
<1> SUFFICES ASSUME TypeInv, ReadLine(line) PROVE TypeInv'
  OBVIOUS
<1> USE DEF rowvars, copyvars, rendervars, tablevars
<1>1. TableTypeOK /\ PhyTypeOK /\ HeldTypeOK /\ AtTypeOK
  BY TypeParts
<1>2. TableTypeOK'
  BY <1>1, TableStays DEF ReadLine
<1>3. /\ interfaces' \in Seq(Entries) /\ Len(interfaces') = Len(interfaces)
      /\ \A k \in DOMAIN interfaces :
           interfaces'[k] = IF TakesFamily(line) /\ k = current
                              THEN [interfaces[k] EXCEPT !.card_family = line.what]
                              ELSE interfaces[k]
  BY <1>1, ReadLineHolds
<1>4. PhyTypeOK'
  <2>1. current' \in 0 .. Len(interfaces') /\ Len(interfaces') <= capacity'
    BY <1>1, <1>3, CurrentAfterType DEF ReadLine, PhyTypeOK
  <2>2. ExpectAfter(line) \in BOOLEAN
    BY <1>1 DEF ExpectAfter, PhyTypeOK
  <2>3. expect_family' \in BOOLEAN
    BY <2>2 DEF ReadLine
  <2> QED
    BY <1>1, <2>1, <2>3 DEF ReadLine, PhyTypeOK
<1>5. HeldTypeOK'
  <2>1. ASSUME NEW k \in DOMAIN interfaces PROVE Carried(k)'
    <3>1. Carried(k) /\ dump' = dump /\ Length(line.what) \in Nat /\ interfaces[k] \in Entries
      BY <1>1, ShowPhyAssumption DEF HeldTypeOK, ReadLine
    <3>2. CASE interfaces'[k] = interfaces[k]
      BY <3>1, <3>2 DEF Carried
    <3>3. CASE interfaces'[k] = [interfaces[k] EXCEPT !.card_family = line.what]
      <4>1. interfaces'[k]["card_family"] = line.what
        BY <3>1, <3>3 DEF Entries, EntryFields
      <4>2. \A f \in EntryFields \ {"card_family"} : interfaces'[k][f] = interfaces[k][f]
        BY <3>1, <3>3 DEF Entries
      <4> QED
        BY <3>1, <4>1, <4>2 DEF Carried
    <3> QED
      BY <1>3, <3>2, <3>3
  <2>2. DOMAIN interfaces' = DOMAIN interfaces
    BY <1>1, <1>3 DEF HeldTypeOK
  <2>3. listing' \in Seq(Lines) /\ dump' = dump
    BY <1>1 DEF ReadLine, HeldTypeOK
  <2> QED
    BY <1>1, <1>3, <2>1, <2>2, <2>3 DEF HeldTypeOK
<1>6. AtTypeOK'
  BY DEF ReadLine, AtTypeOK
<1> QED
  BY <1>2, <1>4, <1>5, <1>6, TypeParts, PTL

LEMMA TypeParseEnds == TypeInv /\ ParseEnds => TypeInv'
<1> SUFFICES ASSUME TypeInv, ParseEnds PROVE TypeInv'
  OBVIOUS
<1> USE DEF rowvars, copyvars, rendervars
<1>1. TableTypeOK /\ PhyTypeOK /\ HeldTypeOK /\ AtTypeOK
  BY TypeParts
<1>2. TableTypeOK'
  <2>1. bad_free' \in BOOLEAN
    BY <1>1 DEF ParseEnds, Free, TableTypeOK
  <2> QED
    BY <1>1, <2>1 DEF ParseEnds, TableTypeOK
<1>3. PhyTypeOK'
  <2>1. current' = 0 /\ interfaces' = interfaces /\ expect_family' \in BOOLEAN
    BY DEF ParseEnds
  <2>2. Len(interfaces) \in Nat
    BY <1>1 DEF HeldTypeOK
  <2> QED
    BY <1>1, <2>1, <2>2 DEF ParseEnds, PhyTypeOK
<1>4. HeldTypeOK'
  <2>1. listing' \in Seq(Lines) /\ interfaces' = interfaces /\ dump' = dump
    BY DEF ParseEnds
  <2> QED
    BY <1>1, <2>1 DEF HeldTypeOK, Carried
<1>5. AtTypeOK'
  BY DEF ParseEnds, AtTypeOK
<1> QED
  BY <1>2, <1>3, <1>4, <1>5, TypeParts, PTL

LEMMA TypeInitTable == TypeInv /\ InitTable => TypeInv'
<1> SUFFICES ASSUME TypeInv, InitTable PROVE TypeInv'
  OBVIOUS
<1> USE DEF rowvars, copyvars, rendervars, parsevars
<1>1. TableTypeOK /\ PhyTypeOK /\ HeldTypeOK /\ AtTypeOK
  BY TypeParts
<1>2. TableTypeOK'
  <2>1. bad_free' = bad_free
    BY DEF InitTable, app_table_init, Allocate
  <2> QED
    BY <1>1, <2>1, TableStays DEF InitTable, app_table_init
<1>3. PhyTypeOK'
  <2>1. table_initialized' \in BOOLEAN
    BY DEF InitTable
  <2> QED
    BY <1>1, <2>1 DEF InitTable, PhyTypeOK
<1>4. HeldTypeOK'
  BY <1>1, HeldStays DEF InitTable
<1>5. AtTypeOK'
  BY <1>1 DEF InitTable, app_table_init, AtTypeOK
<1> QED
  BY <1>2, <1>3, <1>4, <1>5, TypeParts, PTL

LEMMA TypeAddPhyRow == TypeInv /\ RoomInv /\ AddPhyRow => TypeInv'
<1> SUFFICES ASSUME TypeInv, RoomInv, AddPhyRow PROVE TypeInv'
  OBVIOUS
<1> USE DEF rowvars, copyvars, rendervars, parsevars, tablevars
<1>1. TableTypeOK /\ PhyTypeOK /\ HeldTypeOK /\ AtTypeOK
  BY TypeParts
<1> DEFINE row == PhyRow(interfaces[i])
<1>2. i \in 1 .. Len(interfaces) /\ i \in DOMAIN interfaces /\ Len(interfaces) \in Nat
  BY <1>1 DEF AddPhyRow, PhyTypeOK, HeldTypeOK
<1>3. row \in Cell
  <2>1. Carried(i)
    BY <1>1, <1>2 DEF HeldTypeOK
  <2>2. dump \in Seq(Details) /\ i \in 1 .. Len(dump) /\ Len(dump) \in Nat
    BY <1>1, <1>2, DumpFacts DEF PhyTypeOK, HeldTypeOK
  <2>3. interfaces[i].name = dump[i].name
    BY <2>1 DEF Carried, EntryFields
  <2>4. Length(interfaces[i].name) \in Nat /\ Length(interfaces[i].card_family) \in Nat
    BY <1>1, <2>1, <2>2, <2>3, DumpFacts DEF PhyTypeOK, Carried
  <2> QED
    BY <2>4, PhyRowIsCell
<1>4. AddRow(row) \/ UNCHANGED <<pc, tablevars>>
  BY DEF AddPhyRow
<1> HIDE DEF row
<1>5. TableTypeOK'
  <2>1. CASE AddRow(row)
    <3>1. row_capacity' \in Nat
      <4>1. Len(rows) \in Nat /\ row_capacity \in Nat /\ Len(rows) <= row_capacity
        BY <1>1, <2>1 DEF TableTypeOK, AddRow, RoomInv
      <4> QED
        BY <2>1, <4>1, GrownGrows DEF AddRow
    <3>2. new_row' \in {<<>>} \cup Cell /\ copied' \in 0 .. Len(Columns)
      BY <1>1, <1>3, <2>1, ColsFacts DEF AddRow, TableTypeOK
    <3>3. /\ bad_free' = bad_free /\ rows' = rows /\ terminal' = terminal /\ widths' = widths
          /\ overflow' = overflow /\ col' = col /\ reduced' = reduced
      BY <2>1 DEF AddRow, Allocate
    <3> QED
      BY <1>1, <3>1, <3>2, <3>3 DEF TableTypeOK
  <2>2. CASE UNCHANGED <<pc, tablevars>>
    BY <1>1, <2>2, TableStays
  <2> QED
    BY <1>4, <2>1, <2>2
<1>6. PhyTypeOK'
  <2>1. i' \in 1 .. Len(dump') + 1
    BY <1>1, <1>2, DumpFacts DEF AddPhyRow, PhyTypeOK, HeldTypeOK
  <2> QED
    BY <1>1, <2>1 DEF AddPhyRow, PhyTypeOK
<1>7. HeldTypeOK'
  BY <1>1, HeldStays DEF AddPhyRow
<1>8. AtTypeOK'
  <2>1. pc = "rows" /\ pc' # "parse" /\ (pc' = "copy" => new_row' = row)
    BY <1>4 DEF AddPhyRow, AddRow
  <2> QED
    BY <1>1, <1>3, <2>1 DEF AddPhyRow, AtTypeOK
<1> QED
  BY <1>5, <1>6, <1>7, <1>8, TypeParts, PTL

LEMMA TypeShown == TypeInv /\ Shown => TypeInv'
<1> SUFFICES ASSUME TypeInv, Shown PROVE TypeInv'
  OBVIOUS
<1> USE DEF copyvars, rendervars, parsevars
<1>1. TableTypeOK /\ PhyTypeOK /\ HeldTypeOK /\ AtTypeOK
  BY TypeParts
<1>2. TableTypeOK'
  <2>1. bad_free' \in BOOLEAN /\ rows' \in Seq(Cell) /\ row_capacity' \in Nat
    BY <1>1 DEF Shown, app_table_free, Free, TableTypeOK
  <2> QED
    BY <1>1, <2>1 DEF Shown, TableTypeOK
<1>3. PhyTypeOK'
  <2>1. table_initialized' \in BOOLEAN /\ rc' \in {0, 1}
    BY DEF Shown
  <2> QED
    BY <1>1, <2>1 DEF Shown, PhyTypeOK
<1>4. HeldTypeOK'
  BY <1>1, HeldStays DEF Shown
<1>5. AtTypeOK'
  BY <1>1 DEF Shown, AtTypeOK
<1> QED
  BY <1>2, <1>3, <1>4, <1>5, TypeParts, PTL

LEMMA TypeCleanup == TypeInv /\ Cleanup => TypeInv'
<1> SUFFICES ASSUME TypeInv, Cleanup PROVE TypeInv'
  OBVIOUS
<1> USE DEF rowvars, copyvars, rendervars, parsevars
<1>1. TableTypeOK /\ PhyTypeOK /\ HeldTypeOK /\ AtTypeOK
  BY TypeParts
<1>2. TableTypeOK'
  <2>1. bad_free' \in BOOLEAN /\ rows' \in Seq(Cell) /\ row_capacity' \in Nat
    <3>1. CASE table_initialized /\ app_table_free(CallerBlocks)
      <4>1. rows' = <<>> /\ row_capacity' = 0 /\ <<>> \in Seq(Cell)
        BY <3>1 DEF app_table_free
      <4>2. bad_free' \in BOOLEAN
        BY <3>1 DEF app_table_free, Free
      <4> QED
        BY <4>1, <4>2
    <3>2. CASE ~table_initialized /\ Free(CallerBlocks) /\ UNCHANGED rowvars
      <4>1. bad_free' \in BOOLEAN
        BY <3>2 DEF Free
      <4> QED
        BY <1>1, <3>2, <4>1 DEF TableTypeOK
    <3> QED
      BY <3>1, <3>2 DEF Cleanup
  <2> QED
    BY <1>1, <2>1 DEF Cleanup, TableTypeOK
<1>3. /\ interfaces' = <<>> /\ Len(<<>>) = 0 /\ DOMAIN <<>> = {}
      /\ <<>> \in Seq(Entries) /\ current' = 0 /\ expect_family' = FALSE
  BY <1>1 DEF Cleanup, AtTypeOK
<1>4. PhyTypeOK'
  <2>1. table_initialized' \in BOOLEAN /\ hardware_output' \in BOOLEAN /\ capacity' \in Nat
    BY DEF Cleanup
  <2>2. current' \in 0 .. Len(interfaces')
    <3>1. Len(interfaces') = 0
      BY <1>3
    <3> QED
      BY <1>3, <3>1
  <2>3. Len(interfaces') <= capacity'
    BY <1>3 DEF Cleanup
  <2> QED
    BY <1>1, <1>3, <2>1, <2>2, <2>3 DEF Cleanup, PhyTypeOK
<1>5. HeldTypeOK'
  <2>1. Len(dump') \in Nat /\ listing' = listing
    BY <1>1, DumpFacts DEF Cleanup, PhyTypeOK
  <2> QED
    BY <1>1, <1>3, <2>1 DEF HeldTypeOK
<1>6. AtTypeOK'
  BY <1>3 DEF Cleanup, AtTypeOK
<1> QED
  BY <1>2, <1>4, <1>5, <1>6, TypeParts, PTL

LEMMA TypeStutter == TypeInv /\ UNCHANGED vars => TypeInv'
<1> SUFFICES ASSUME TypeInv, UNCHANGED vars PROVE TypeInv'
  OBVIOUS
<1> USE DEF vars, phyvars, rowvars, copyvars, rendervars, parsevars, tablevars
<1>1. TableTypeOK /\ PhyTypeOK /\ HeldTypeOK /\ AtTypeOK
  BY TypeParts
<1>2. TableTypeOK'
  BY <1>1, TableStays
<1>3. HeldTypeOK'
  BY <1>1, HeldStays
<1>4. PhyTypeOK' /\ AtTypeOK'
  BY <1>1 DEF PhyTypeOK, AtTypeOK
<1> QED
  BY <1>2, <1>3, <1>4, TypeParts, PTL

LEMMA TypeNext == TypeInv /\ RoomInv /\ [Next]_vars => TypeInv'
<1> SUFFICES ASSUME TypeInv, RoomInv, [Next]_vars PROVE TypeInv'
  OBVIOUS
<1>1. CASE UNCHANGED vars
  BY <1>1, TypeStutter
<1>2. CASE CollectFails \/ CollectDone \/ RowsDone
  BY <1>2, TypeCollectEnds
<1>3. CASE OpenVapi
  BY <1>3, TypeOpenVapi
<1>4. CASE CollectEntry
  BY <1>4, TypeCollectEntry
<1>5. CASE FetchListing
  BY <1>5, TypeFetchListing
<1>6. CASE \E line \in Lines : ReadLine(line)
  BY <1>6, TypeReadLine
<1>7. CASE ParseEnds
  BY <1>7, TypeParseEnds
<1>8. CASE InitTable
  BY <1>8, TypeInitTable
<1>9. CASE AddPhyRow
  BY <1>9, TypeAddPhyRow
<1>10. CASE TableWorks
  BY <1>10, TypeTableWorks
<1>11. CASE Shown
  BY <1>11, TypeShown
<1>12. CASE Cleanup
  BY <1>12, TypeCleanup
<1>13. CASE RequestDump
  BY <1>13, TypeRequestDump
<1> QED
  BY <1>1, <1>2, <1>3, <1>4, <1>5, <1>6, <1>7, <1>8, <1>9, <1>10, <1>11, <1>12, <1>13
  DEF Next, Command, Exited

\* Rows are written only where there is room.
LEMMA RoomNext == TypeInv /\ RoomInv /\ [Next]_vars => RoomInv'
<1> SUFFICES ASSUME TypeInv, RoomInv, [Next]_vars PROVE RoomInv'
  OBVIOUS
<1> USE DEF vars, rowvars, copyvars, rendervars, phyvars, parsevars, tablevars
<1>1. /\ rows \in Seq(Cell) /\ Len(rows) \in Nat /\ row_capacity \in Nat
  BY DEF TypeInv, TypeOK, TableTypeOK
<1>2. CASE UNCHANGED vars
  BY <1>2 DEF RoomInv
<1>3. CASE \/ OpenVapi \/ RequestDump \/ CollectEntry \/ CollectFails \/ CollectDone
           \/ FetchListing \/ ParseEnds \/ RowsDone
  <2>1. /\ pc # "copy" /\ pc' # "copy" /\ rows' = rows /\ row_capacity' = row_capacity
    BY <1>3 DEF OpenVapi, RequestDump, CollectEntry, CollectFails, CollectDone,
                FetchListing, ParseEnds, RowsDone
  <2> QED
    BY <2>1 DEF RoomInv
<1>4. ASSUME NEW line \in Lines, ReadLine(line) PROVE RoomInv'
  BY <1>4 DEF RoomInv, ReadLine
<1>5. CASE InitTable
  <2>1. /\ pc # "copy" /\ pc' # "copy" /\ rows' = rows /\ row_capacity' = row_capacity
    BY <1>5 DEF InitTable, app_table_init
  <2> QED
    BY <2>1 DEF RoomInv
<1>6. CASE AddPhyRow
  <2>1. /\ Len(rows) + 1 <= Grown(row_capacity, Len(rows) + 1)
        /\ Len(rows) <= row_capacity /\ Grown(row_capacity, Len(rows) + 1) \in Nat
    BY <1>1, <1>6, GrownGrows DEF RoomInv, AddPhyRow
  <2>2. /\ rows' = rows
        /\ \/ row_capacity' = Grown(row_capacity, Len(rows) + 1)
           \/ pc' # "copy" /\ row_capacity' = row_capacity
    BY <1>6 DEF AddPhyRow, AddRow
  <2> QED
    BY <1>1, <2>1, <2>2 DEF RoomInv
<1>7. CASE TableWorks
  <2>1. row_capacity' = row_capacity
    BY <1>7 DEF TableWorks, TableStep, CopyCell, CopyFails, RowCopied, Measure, Shrink, PassEnds, PrintTable
  <2>2. CASE RowCopied
    <3>1. Len(rows') = Len(rows) + 1 /\ pc = "copy" /\ pc' = "rows"
      BY <1>1, <2>2 DEF RowCopied, TypeInv
    <3> QED
      BY <1>1, <2>1, <3>1 DEF RoomInv
  <2>3. CASE CopyCell \/ CopyFails \/ Measure \/ Shrink \/ PassEnds \/ PrintTable
    <3>1. rows' = rows /\ (pc' = "copy" => pc = "copy")
      BY <2>3 DEF CopyCell, CopyFails, Measure, Shrink, PassEnds, PrintTable
    <3> QED
      BY <1>1, <2>1, <3>1 DEF RoomInv
  <2> QED
    BY <1>7, <2>2, <2>3 DEF TableWorks, TableStep
<1>8. CASE Shown
  <2>1. Len(rows') = 0 /\ row_capacity' = 0 /\ pc' = "cleanup"
    BY <1>8 DEF Shown, app_table_free
  <2> QED
    BY <2>1 DEF RoomInv
<1>9. CASE Cleanup
  <2>1. pc' = "exit" /\ pc = "cleanup"
    BY <1>9 DEF Cleanup
  <2>2. CASE rows' = <<>> /\ row_capacity' = 0
    BY <2>1, <2>2 DEF RoomInv
  <2>3. CASE rows' = rows /\ row_capacity' = row_capacity
    BY <2>1, <2>3 DEF RoomInv
  <2> QED
    BY <1>9, <2>2, <2>3 DEF Cleanup, app_table_free
<1> QED
  BY <1>2, <1>3, <1>4, <1>5, <1>6, <1>7, <1>8, <1>9 DEF Next, Command, Exited

LEMMA TypeInvHolds == Spec => [](TypeInv /\ RoomInv)
<1>1. Init => TypeInv /\ RoomInv
  BY TypeInit DEF Init, TableInit, RoomInv
<1>2. TypeInv /\ RoomInv /\ [Next]_vars => (TypeInv /\ RoomInv)'
  BY TypeNext, RoomNext
<1> QED
  BY <1>1, <1>2, PTL DEF Spec

\* Every variable of boy_show_phy and of the table has its type: widths and
\* what is too much never fall below zero, the passes stay among the columns,
\* and the interface the lines are about is one that is held.
THEOREM TypesCorrect == Spec => []TypeOK
<1>1. TypeInv => TypeOK
  BY DEF TypeInv
<1> QED
  BY <1>1, TypeInvHolds, PTL

-----------------------------------------------------------------------------
(* Memory                                                                  *)

\* Blocks that are held for a while only: the copy of the listing that is taken
\* apart, and the widths of the columns.
Transient ==
  {b \in {<<"text">>} : pc = "parse"}
    \cup {b \in {<<"widths">>} : pc \in {"flexible", "any", "print"}}

\* The row that is being copied is not one of the table's yet.
Underway == IF pc = "copy" THEN RowBlocks(Len(rows) + 1, copied) ELSE {}

\* The table's blocks while there is a table.
Tabled == IF table_initialized THEN TableBlocks ELSE {}

BeforeTable == {"open", "request", "collect", "fetch", "parse", "init"}
WithTable   == {"rows", "copy", "measure", "flexible", "any", "print", "printed"}

\* At every step the heap has exactly the blocks that the variables in hand
\* lead to, and the messages that nothing leads to any more, so that whoever frees what it knows of frees all and nothing twice.
HeapInv ==
  /\ ~bad_free
  /\ heap = CallerBlocks \cup Transient \cup Underway \cup Tabled \cup unsent
  /\ ~table_initialized => rows = <<>> /\ row_capacity = 0
  /\ pc \in BeforeTable \cup {"exit"} => ~table_initialized
  /\ pc \in WithTable => table_initialized
  /\ pc = "exit" => heap = unsent

\* Blocks of different kinds, rows or cells are different.
LEMMA BlocksDiffer ==
  /\ \A a, b : <<a>> = <<b>> => a = b
  /\ \A a, r : \A b : <<a>> # <<b, r>>
  /\ \A a : \A b, r, j : <<a>> # <<b, r, j>>
  /\ \A a, r, b, j, k : <<a, r>> # <<b, j, k>>
  /\ \A a, r, b, q : <<a, r>> = <<b, q>> => r = q
  /\ \A a, r, j, b, q, k : <<a, r, j>> = <<b, q, k>> => r = q /\ j = k
<1>1. \A a, b : <<a>> = <<b>> => a = b
  OBVIOUS
<1>2. \A a, r : \A b : <<a>> # <<b, r>>
  OBVIOUS
<1>3. \A a : \A b, r, j : <<a>> # <<b, r, j>>
  OBVIOUS
<1>4. \A a, r, b, j, k : <<a, r>> # <<b, j, k>>
  OBVIOUS
<1>5. \A a, r, b, q : <<a, r>> = <<b, q>> => r = q
  OBVIOUS
<1>6. \A a, r, j, b, q, k : <<a, r, j>> = <<b, q, k>> => r = q /\ j = k
  OBVIOUS
<1> QED
  BY <1>1, <1>2, <1>3, <1>4, <1>5, <1>6

Singles == {<<"ctx">>, <<"output">>, <<"interfaces">>, <<"text">>, <<"widths">>,
             <<"sw_interface_dump">>, <<"cli_inband">>}

LEMMA BlocksApart ==
  ASSUME rows \in Seq(Cell)
  PROVE  /\ Singles \cap TableBlocks = {}
         /\ \A r, n : Singles \cap RowBlocks(r, n) = {}
         /\ \A n : RowBlocks(Len(rows) + 1, n) \cap TableBlocks = {}
         /\ \A n : <<"columns">> \notin RowBlocks(Len(rows) + 1, n)
         /\ \A n : <<"rows">> \notin RowBlocks(Len(rows) + 1, n)
         /\ <<"columns">> \notin Singles /\ <<"rows">> \notin Singles
<1>1. \A r, n : \A b \in RowBlocks(r, n) : \E j : b = <<"cells", r>> \/ b = <<"cell", r, j>>
  BY DEF RowBlocks
<1>2. \A r, n, x : <<x>> \notin RowBlocks(r, n)
  <2> SUFFICES ASSUME NEW r, NEW n, NEW x, <<x>> \in RowBlocks(r, n) PROVE FALSE
    OBVIOUS
  <2>1. PICK j : <<x>> = <<"cells", r>> \/ <<x>> = <<"cell", r, j>>
    BY <1>1
  <2> QED
    BY <2>1, BlocksDiffer
<1>3. \A q, r, m, n : q # r => RowBlocks(q, m) \cap RowBlocks(r, n) = {}
  BY <1>1, BlocksDiffer
<1>4. \A b \in TableBlocks : \/ b = <<"columns">> \/ b = <<"rows">>
                             \/ \E r \in DOMAIN rows : b \in RowBlocks(r, Len(Columns))
  BY DEF TableBlocks
<1>5. \A r \in DOMAIN rows : r # Len(rows) + 1
  OBVIOUS
<1>6. <<"columns">> \notin Singles /\ <<"rows">> \notin Singles
  BY BlocksDiffer DEF Singles
<1>7. Singles \cap TableBlocks = {}
  BY <1>2, <1>4, <1>6 DEF Singles
<1>8. \A n : RowBlocks(Len(rows) + 1, n) \cap TableBlocks = {}
  BY <1>2, <1>3, <1>4, <1>5
<1> QED
  BY <1>2, <1>6, <1>7, <1>8 DEF Singles

\* The blocks held by the command are single ones.
LEMMA HeldAreSingles ==
  /\ CallerBlocks \subseteq Singles /\ Transient \subseteq Singles /\ Messages \subseteq Singles
  /\ CallerBlocks \cap Messages = {} /\ Transient \cap Messages = {}
<1>1. \A b \in Messages : b # <<"ctx">> /\ b # <<"output">> /\ b # <<"interfaces">>
                            /\ b # <<"text">> /\ b # <<"widths">>
  BY BlocksDiffer DEF Messages
<1> QED
  BY <1>1 DEF CallerBlocks, Transient, Singles, Messages

LEMMA HeapInit == Init => HeapInv
  BY DEF Init, TableInit, HeapInv, CallerBlocks, Transient, Underway, Tabled,
         BeforeTable, WithTable

\* Steps of the command before there is a table.
LEMMA HeapOpenVapi == TypeInv /\ HeapInv /\ OpenVapi => HeapInv'
<1> SUFFICES ASSUME TypeInv, HeapInv, OpenVapi PROVE HeapInv'
  OBVIOUS
<1> USE DEF rowvars, copyvars, rendervars, phyvars, parsevars
<1>1. /\ pc = "open" /\ pc' \in {"request", "cleanup"} /\ ~table_initialized'
      /\ rows' = <<>> /\ row_capacity' = 0 /\ ~bad_free' /\ unsent' = unsent
  BY DEF OpenVapi, HeapInv, BeforeTable, Allocate
<1>2. heap' = CallerBlocks' \cup Transient' \cup Underway' \cup Tabled' \cup unsent'
  <2>1. Transient' = {} /\ Underway' = {} /\ Tabled' = {} /\ Transient = {} /\ Underway = {} /\ Tabled = {}
    BY <1>1 DEF Transient, Underway, Tabled, HeapInv, BeforeTable
  <2>2. heap = CallerBlocks \cup unsent
    BY <2>1 DEF HeapInv
  <2>3. heap' = heap \cup {<<"ctx">>} \/ heap' = heap
    BY DEF OpenVapi, Allocate
  <2>4. heap' = CallerBlocks' \cup unsent'
    BY <1>1, <2>2, <2>3 DEF OpenVapi, CallerBlocks
  <2> QED
    BY <1>1, <2>1, <2>4
<1> QED
  BY <1>1, <1>2 DEF HeapInv, BeforeTable, WithTable

\* A message that is not sent is on the heap and stays there.
LEMMA HeapRequestDump == TypeInv /\ HeapInv /\ RequestDump => HeapInv'
<1> SUFFICES ASSUME TypeInv, HeapInv, RequestDump PROVE HeapInv'
  OBVIOUS
<1> USE DEF rowvars, copyvars, rendervars, parsevars
<1>1. /\ pc = "request" /\ pc' \in {"collect", "cleanup"} /\ ~table_initialized'
      /\ rows' = <<>> /\ row_capacity' = 0 /\ ~bad_free'
      /\ capacity' = capacity /\ hardware_output' = hardware_output
  BY DEF RequestDump, HeapInv, BeforeTable, Drop, Allocate
<1>2. /\ Transient' = {} /\ Underway' = {} /\ Tabled' = {}
      /\ Transient = {} /\ Underway = {} /\ Tabled = {}
  BY <1>1 DEF Transient, Underway, Tabled, HeapInv, BeforeTable
<1>3. heap = CallerBlocks \cup unsent
  BY <1>2 DEF HeapInv
<1>4. \/ heap' = heap /\ unsent' = unsent
      \/ /\ heap' = heap \cup {<<"sw_interface_dump">>}
         /\ unsent' = unsent \cup {<<"sw_interface_dump">>}
  BY DEF RequestDump, Drop, Allocate
<1>5. CallerBlocks' = CallerBlocks
  BY <1>1, <1>4, BlocksDiffer DEF CallerBlocks
<1>6. heap' = CallerBlocks' \cup unsent'
  BY <1>3, <1>4, <1>5
<1> QED
  BY <1>1, <1>2, <1>6 DEF HeapInv, BeforeTable, WithTable

LEMMA HeapCollect ==
  TypeInv /\ HeapInv /\ (CollectEntry \/ CollectFails \/ CollectDone) => HeapInv'
<1> SUFFICES ASSUME TypeInv, HeapInv, CollectEntry \/ CollectFails \/ CollectDone
             PROVE  HeapInv'
  OBVIOUS
<1> USE DEF rowvars, copyvars, rendervars, phyvars, parsevars, tablevars
<1>1. /\ pc = "collect" /\ pc' \in {"collect", "fetch", "cleanup"} /\ ~table_initialized'
      /\ rows' = <<>> /\ row_capacity' = 0 /\ ~bad_free' /\ hardware_output' = hardware_output
      /\ unsent' = unsent
  BY DEF CollectEntry, CollectFails, CollectDone, HeapInv, BeforeTable, Allocate
<1>2. /\ Transient' = {} /\ Underway' = {} /\ Tabled' = {}
      /\ Transient = {} /\ Underway = {} /\ Tabled = {}
  BY <1>1 DEF Transient, Underway, Tabled, HeapInv, BeforeTable
<1>3. heap = CallerBlocks \cup unsent
  BY <1>2 DEF HeapInv
<1>4. heap' = CallerBlocks' \cup unsent'
  <2>1. CASE CollectEntry
    <3>1. capacity' > 0 /\ heap' = heap \cup {<<"interfaces">>}
      BY <2>1, GrownGrows DEF CollectEntry, Allocate, TypeInv, TypeOK
    <3>2. capacity \in Nat /\ <<"ctx">> # <<"interfaces">>
      BY BlocksDiffer DEF TypeInv, TypeOK
    <3> QED
      BY <1>1, <1>3, <3>1, <3>2 DEF CallerBlocks
  <2>2. CASE CollectFails \/ CollectDone
    BY <1>1, <1>3, <2>2 DEF CallerBlocks, CollectFails, CollectDone
  <2> QED
    BY <2>1, <2>2
<1> QED
  BY <1>1, <1>2, <1>4 DEF HeapInv, BeforeTable, WithTable

LEMMA HeapFetchListing == TypeInv /\ HeapInv /\ FetchListing => HeapInv'
<1> SUFFICES ASSUME TypeInv, HeapInv, FetchListing PROVE HeapInv'
  OBVIOUS
<1> USE DEF rowvars, copyvars, rendervars, phyvars, parsevars, tablevars
<1>1. /\ pc = "fetch" /\ pc' \in {"parse", "init"} /\ ~table_initialized'
      /\ rows' = <<>> /\ row_capacity' = 0 /\ ~bad_free' /\ capacity' = capacity
  BY DEF FetchListing, HeapInv, BeforeTable, Drop, Allocate
<1>2. /\ Underway' = {} /\ Tabled' = {}
      /\ Transient = {} /\ Underway = {} /\ Tabled = {}
  BY <1>1 DEF Transient, Underway, Tabled, HeapInv, BeforeTable
<1>3. /\ heap = CallerBlocks \cup unsent /\ <<"ctx">> # <<"output">> /\ <<"ctx">> # <<"text">>
      /\ <<"ctx">> # <<"cli_inband">>
  BY <1>2, BlocksDiffer DEF HeapInv
<1>4. heap' = CallerBlocks' \cup Transient' \cup unsent'
  <2>1. CASE /\ pc' = "parse" /\ heap' = heap \cup {<<"output">>, <<"text">>} /\ hardware_output'
             /\ unsent' = unsent
    BY <1>1, <1>3, <2>1 DEF CallerBlocks, Transient
  <2>2. CASE /\ pc' = "init" /\ heap' = heap \cup {<<"output">>} /\ hardware_output'
             /\ unsent' = unsent
    BY <1>1, <1>3, <2>2 DEF CallerBlocks, Transient
  <2>3. CASE /\ pc' = "init" /\ heap' = heap /\ hardware_output' = hardware_output
             /\ unsent' = unsent
    BY <1>1, <1>3, <2>3 DEF CallerBlocks, Transient
  <2>4. CASE /\ pc' = "init" /\ heap' = heap \cup {<<"cli_inband">>}
             /\ unsent' = unsent \cup {<<"cli_inband">>} /\ hardware_output' = hardware_output
    BY <1>1, <1>3, <2>4 DEF CallerBlocks, Transient
  <2> QED
    BY <2>1, <2>2, <2>3, <2>4 DEF FetchListing, Drop, Allocate
<1> QED
  BY <1>1, <1>2, <1>4 DEF HeapInv, BeforeTable, WithTable

LEMMA HeapParse ==
  TypeInv /\ HeapInv /\ (ParseEnds \/ \E line \in Lines : ReadLine(line)) => HeapInv'
<1> SUFFICES ASSUME TypeInv, HeapInv, ParseEnds \/ \E line \in Lines : ReadLine(line)
             PROVE  HeapInv'
  OBVIOUS
<1> USE DEF rowvars, copyvars, rendervars, tablevars
<1>1. /\ pc = "parse" /\ pc' \in {"parse", "init"} /\ ~table_initialized'
      /\ rows' = <<>> /\ row_capacity' = 0 /\ capacity' = capacity
      /\ hardware_output' = hardware_output /\ unsent' = unsent
  BY DEF ParseEnds, ReadLine, HeapInv, BeforeTable
<1>2. /\ Underway' = {} /\ Tabled' = {}
      /\ Transient = {<<"text">>} /\ Underway = {} /\ Tabled = {}
  BY <1>1 DEF Transient, Underway, Tabled, HeapInv, BeforeTable
<1>3. /\ heap = CallerBlocks \cup {<<"text">>} \cup unsent
      /\ <<"text">> \notin CallerBlocks /\ <<"text">> \notin unsent
  <2>1. <<"text">> \notin unsent
    BY HeldAreSingles, <1>1 DEF TypeInv, TypeOK, Transient
  <2> QED
    BY <1>2, <2>1, BlocksDiffer DEF HeapInv, CallerBlocks
<1>4. heap' = CallerBlocks' \cup Transient' \cup unsent' /\ ~bad_free'
  <2>1. CASE ParseEnds
    <3>1. heap' = CallerBlocks \cup unsent /\ ~bad_free' /\ pc' = "init"
      BY <1>3, <2>1 DEF ParseEnds, Free, HeapInv
    <3>2. <<"ctx">> # <<"text">>
      BY BlocksDiffer
    <3> QED
      BY <1>1, <1>3, <3>1, <3>2 DEF CallerBlocks, Transient
  <2>2. CASE \E line \in Lines : ReadLine(line)
    BY <1>1, <1>2, <1>3, <2>2 DEF ReadLine, CallerBlocks, Transient, HeapInv
  <2> QED
    BY <2>1, <2>2
<1> QED
  BY <1>1, <1>2, <1>4 DEF HeapInv, BeforeTable, WithTable

LEMMA HeapInitTable == TypeInv /\ HeapInv /\ InitTable => HeapInv'
<1> SUFFICES ASSUME TypeInv, HeapInv, InitTable PROVE HeapInv'
  OBVIOUS
<1> USE DEF rowvars, copyvars, rendervars, parsevars
<1>1. /\ pc = "init" /\ pc' \in {"rows", "cleanup"} /\ table_initialized' = (pc' = "rows")
      /\ rows' = <<>> /\ row_capacity' = 0 /\ capacity' = capacity
      /\ hardware_output' = hardware_output /\ unsent' = unsent /\ ~bad_free'
  BY DEF InitTable, app_table_init, Allocate, HeapInv, BeforeTable
<1>2. /\ Underway' = {} /\ Transient' = {}
      /\ Transient = {} /\ Underway = {} /\ Tabled = {}
  BY <1>1 DEF Transient, Underway, Tabled, HeapInv, BeforeTable
<1>3. heap = CallerBlocks \cup unsent /\ <<"ctx">> # <<"columns">>
  BY <1>2, BlocksDiffer DEF HeapInv
<1>4. heap' = CallerBlocks' \cup Tabled' \cup unsent'
  <2>1. CASE pc' = "rows" /\ heap' = heap \cup {<<"columns">>}
    <3>1. Tabled' = {<<"columns">>}
      <4>1. UNION {RowBlocks(r, Len(Columns)) : r \in DOMAIN rows'} = {}
        BY <1>1
      <4>2. TableBlocks' = {<<"columns">>} \cup {}
                             \cup UNION {RowBlocks(r, Len(Columns)) : r \in DOMAIN rows'}
        BY <1>1 DEF TableBlocks
      <4>3. TableBlocks' = {<<"columns">>}
        BY <4>1, <4>2
      <4> QED
        BY <1>1, <2>1, <4>3 DEF Tabled
    <3> QED
      BY <1>1, <1>3, <2>1, <3>1 DEF CallerBlocks
  <2>2. CASE pc' = "cleanup" /\ heap' = heap
    BY <1>1, <1>3, <2>2 DEF CallerBlocks, Tabled
  <2> QED
    BY <2>1, <2>2 DEF InitTable, app_table_init, Allocate
<1> QED
  BY <1>1, <1>2, <1>4 DEF HeapInv, BeforeTable, WithTable

\* While there is a table the command's own blocks stay as they are.
LEMMA CallerStays ==
  ASSUME HeapInv, NEW blocks, <<"ctx">> \notin blocks,
         capacity' = capacity /\ hardware_output' = hardware_output,
         heap' = heap \cup blocks \/ heap' = heap \ blocks
  PROVE  CallerBlocks' = CallerBlocks
  BY DEF CallerBlocks

\* Room for the row, the row itself; the one that fails may leave the room.
LEMMA HeapAddPhyRow == TypeInv /\ RoomInv /\ HeapInv /\ AddPhyRow => HeapInv'
<1> SUFFICES ASSUME TypeInv, HeapInv, RoomInv, AddPhyRow PROVE HeapInv'
  OBVIOUS
<1> USE DEF rowvars, copyvars, rendervars, parsevars, tablevars
<1>1. /\ pc = "rows" /\ table_initialized /\ table_initialized' = table_initialized
      /\ pc' \in {"rows", "copy", "cleanup"}
      /\ rows' = rows /\ rows \in Seq(Cell) /\ capacity' = capacity
      /\ hardware_output' = hardware_output /\ unsent' = unsent /\ ~bad_free'
  <2>1. rows' = rows /\ bad_free' = bad_free /\ pc' \in {"rows", "copy", "cleanup"}
    BY DEF AddPhyRow, AddRow, Allocate
  <2>2. table_initialized /\ ~bad_free /\ rows \in Seq(Cell)
    BY DEF HeapInv, WithTable, AddPhyRow, TypeInv, TypeOK, TableTypeOK
  <2> QED
    BY <2>1, <2>2 DEF AddPhyRow
<1>2. /\ Transient = {} /\ Underway = {} /\ Tabled = TableBlocks
      /\ Transient' = {} /\ Tabled' = TableBlocks'
  BY <1>1 DEF Transient, Underway, Tabled, AddPhyRow
<1>3. heap = CallerBlocks \cup TableBlocks \cup unsent
  BY <1>2 DEF HeapInv
<1> DEFINE given_room == row_capacity' = Grown(row_capacity, Len(rows) + 1)
<1>4. \/ /\ pc' = "copy" /\ given_room /\ copied' = 0
         /\ heap' = heap \cup ({<<"rows">>} \cup RowBlocks(Len(rows) + 1, 0))
      \/ pc' = "cleanup" /\ heap' = heap /\ row_capacity' = row_capacity
      \/ pc' = "cleanup" /\ given_room /\ heap' = heap \cup {<<"rows">>}
      \/ pc' = "rows" /\ heap' = heap /\ row_capacity' = row_capacity
  BY <1>1 DEF AddPhyRow, AddRow, Allocate
<1>5. given_room => row_capacity' > 0 /\ TableBlocks' = TableBlocks \cup {<<"rows">>}
  <2>1. row_capacity \in Nat /\ Len(rows) \in Nat /\ Len(rows) <= row_capacity
    BY <1>1 DEF TypeInv, TypeOK, TableTypeOK, RoomInv, AddPhyRow
  <2>2. given_room => row_capacity' > 0
    BY <2>1, GrownGrows
  <2> QED
    BY <1>1, <2>1, <2>2 DEF TableBlocks
<1> HIDE DEF given_room
<1>6. heap' = CallerBlocks' \cup Underway' \cup TableBlocks' \cup unsent'
  <2>1. CASE /\ pc' = "copy" /\ given_room /\ copied' = 0
             /\ heap' = heap \cup ({<<"rows">>} \cup RowBlocks(Len(rows) + 1, 0))
    <3>1. <<"ctx">> \notin {<<"rows">>} \cup RowBlocks(Len(rows) + 1, 0)
      BY <1>1, BlocksApart DEF Singles
    <3>2. CallerBlocks' = CallerBlocks
      BY <1>1, <2>1, <3>1, CallerStays
    <3>3. Underway' = RowBlocks(Len(rows) + 1, 0)
      BY <1>1, <2>1 DEF Underway, RowBlocks
    <3> QED
      BY <1>1, <1>3, <1>5, <2>1, <3>2, <3>3
  <2>2. CASE /\ pc' \in {"cleanup", "rows"} /\ heap' = heap /\ row_capacity' = row_capacity
    <3>1. CallerBlocks' = CallerBlocks /\ TableBlocks' = TableBlocks /\ Underway' = {}
      BY <1>1, <2>2 DEF CallerBlocks, TableBlocks, Underway
    <3> QED
      BY <1>1, <1>3, <2>2, <3>1
  <2>3. CASE pc' = "cleanup" /\ given_room /\ heap' = heap \cup {<<"rows">>}
    <3>1. CallerBlocks' = CallerBlocks
      BY <1>1, <2>3, CallerStays, BlocksDiffer
    <3>2. Underway' = {}
      BY <2>3 DEF Underway
    <3> QED
      BY <1>1, <1>3, <1>5, <2>3, <3>1, <3>2
  <2> QED
    BY <1>4, <2>1, <2>2, <2>3
<1> QED
  BY <1>1, <1>2, <1>6 DEF HeapInv, BeforeTable, WithTable

LEMMA HeapCopyCell == TypeInv /\ HeapInv /\ CopyCell /\ UNCHANGED phyvars => HeapInv'
<1> SUFFICES ASSUME TypeInv, HeapInv, CopyCell, UNCHANGED phyvars PROVE HeapInv'
  OBVIOUS
<1> USE DEF rowvars, copyvars, rendervars, phyvars, parsevars
<1>1. /\ pc = "copy" /\ pc' = "copy" /\ table_initialized /\ table_initialized'
      /\ rows' = rows /\ rows \in Seq(Cell) /\ row_capacity' = row_capacity
      /\ copied' = copied + 1 /\ copied \in Nat /\ ~bad_free'
      /\ capacity' = capacity /\ hardware_output' = hardware_output /\ unsent' = unsent
      /\ heap' = heap \cup {<<"cell", Len(rows) + 1, copied + 1>>}
  BY DEF CopyCell, Allocate, HeapInv, WithTable, TypeInv, TypeOK, TableTypeOK
<1>2. /\ Transient = {} /\ Tabled = TableBlocks /\ Transient' = {} /\ Tabled' = TableBlocks
  BY <1>1 DEF Transient, Tabled, TableBlocks
<1>3. Underway' = Underway \cup {<<"cell", Len(rows) + 1, copied + 1>>}
  <2>1. 1 .. copied + 1 = 1 .. copied \cup {copied + 1}
    BY <1>1
  <2> QED
    BY <1>1, <2>1 DEF Underway, RowBlocks
<1>4. CallerBlocks' = CallerBlocks
  BY <1>1, CallerStays, BlocksDiffer
<1> QED
  BY <1>1, <1>2, <1>3, <1>4 DEF HeapInv, BeforeTable, WithTable

\* What was copied of the row is freed, and was allocated.
LEMMA HeapCopyFails == TypeInv /\ HeapInv /\ CopyFails /\ UNCHANGED phyvars => HeapInv'
<1> SUFFICES ASSUME TypeInv, HeapInv, CopyFails, UNCHANGED phyvars PROVE HeapInv'
  OBVIOUS
<1> USE DEF rowvars, copyvars, rendervars, phyvars, parsevars
<1> DEFINE row == RowBlocks(Len(rows) + 1, copied)
<1>1. /\ pc = "copy" /\ pc' = "cleanup" /\ table_initialized /\ table_initialized'
      /\ rows' = rows /\ rows \in Seq(Cell) /\ row_capacity' = row_capacity
      /\ capacity' = capacity /\ hardware_output' = hardware_output /\ unsent' = unsent
      /\ heap' = heap \ row /\ bad_free' = (bad_free \/ ~ row \subseteq heap) /\ ~bad_free
  BY DEF CopyFails, Free, HeapInv, WithTable, TypeInv, TypeOK, TableTypeOK
<1>2. /\ Transient = {} /\ Tabled = TableBlocks /\ Underway = row
      /\ Transient' = {} /\ Tabled' = TableBlocks /\ Underway' = {}
  BY <1>1 DEF Transient, Tabled, TableBlocks, Underway
<1>3. heap = CallerBlocks \cup row \cup TableBlocks \cup unsent
  BY <1>2 DEF HeapInv
<1>4. Singles \cap row = {} /\ row \cap TableBlocks = {} /\ unsent \subseteq Singles
  BY <1>1, BlocksApart, HeldAreSingles DEF TypeInv, TypeOK
<1> HIDE DEF row
<1>5. CallerBlocks' = CallerBlocks /\ CallerBlocks \subseteq Singles
  BY <1>1, <1>4, CallerStays, HeldAreSingles DEF Singles
<1>6. heap' = CallerBlocks \cup TableBlocks \cup unsent /\ ~bad_free'
  BY <1>1, <1>3, <1>4, <1>5
<1> QED
  BY <1>1, <1>2, <1>5, <1>6 DEF HeapInv, BeforeTable, WithTable

\* The row becomes one of the table's with all its blocks.
LEMMA HeapRowCopied == TypeInv /\ HeapInv /\ RowCopied /\ UNCHANGED phyvars => HeapInv'
<1> SUFFICES ASSUME TypeInv, HeapInv, RowCopied, UNCHANGED phyvars PROVE HeapInv'
  OBVIOUS
<1> USE DEF rowvars, copyvars, rendervars, phyvars, parsevars
<1> DEFINE row == RowBlocks(Len(rows) + 1, Len(Columns))
           all == UNION {RowBlocks(r, Len(Columns)) : r \in DOMAIN rows}
<1>1. /\ pc = "copy" /\ pc' = "rows" /\ table_initialized /\ table_initialized'
      /\ rows' = Append(rows, new_row) /\ rows \in Seq(Cell) /\ new_row \in Cell
      /\ row_capacity' = row_capacity /\ copied = Len(Columns)
      /\ capacity' = capacity /\ hardware_output' = hardware_output /\ unsent' = unsent
      /\ heap' = heap /\ ~bad_free'
  BY DEF RowCopied, HeapInv, WithTable, TypeInv, TypeOK, TableTypeOK
<1>2. /\ Transient = {} /\ Tabled = TableBlocks /\ Underway = row
      /\ Transient' = {} /\ Tabled' = TableBlocks' /\ Underway' = {}
  BY <1>1 DEF Transient, Tabled, Underway
<1>3. DOMAIN rows' = DOMAIN rows \cup {Len(rows) + 1}
  BY <1>1
<1>4. UNION {RowBlocks(r, Len(Columns)) : r \in DOMAIN rows'} = all \cup row
  BY <1>3
<1>5. TableBlocks' = TableBlocks \cup row
  BY <1>1, <1>4 DEF TableBlocks
<1>6. CallerBlocks' = CallerBlocks
  BY <1>1 DEF CallerBlocks
<1> HIDE DEF row
<1> QED
  BY <1>1, <1>2, <1>5, <1>6 DEF HeapInv, BeforeTable, WithTable

\* The widths live from the measuring to the printing.
LEMMA HeapRender ==
  /\ TypeInv /\ HeapInv /\ UNCHANGED phyvars
  /\ Measure \/ Shrink \/ PassEnds \/ PrintTable
  => HeapInv'
<1> SUFFICES ASSUME TypeInv, HeapInv, UNCHANGED phyvars, Measure \/ Shrink \/ PassEnds \/ PrintTable
             PROVE  HeapInv'
  OBVIOUS
<1> USE DEF rowvars, copyvars, rendervars, phyvars, parsevars
<1>1. /\ pc \in {"measure", "flexible", "any", "print"} /\ pc' \in {"flexible", "any", "print", "printed"}
      /\ table_initialized /\ table_initialized'
      /\ rows' = rows /\ rows \in Seq(Cell) /\ row_capacity' = row_capacity
      /\ capacity' = capacity /\ hardware_output' = hardware_output /\ unsent' = unsent /\ ~bad_free
  <2>1. /\ pc \in {"measure", "flexible", "any", "print"}
        /\ pc' \in {"flexible", "any", "print", "printed"}
        /\ rows' = rows /\ row_capacity' = row_capacity
    BY DEF Measure, Shrink, PassEnds, PrintTable
  <2> QED
    BY <2>1 DEF HeapInv, WithTable, TypeInv, TypeOK, TableTypeOK
<1>2. /\ Tabled = TableBlocks /\ Underway = {} /\ Tabled' = TableBlocks /\ Underway' = {}
  BY <1>1 DEF Tabled, TableBlocks, Underway
<1>3. heap = CallerBlocks \cup Transient \cup TableBlocks \cup unsent
  BY <1>2 DEF HeapInv
<1>4. /\ <<"widths">> \notin CallerBlocks /\ <<"widths">> \notin TableBlocks
      /\ <<"widths">> \notin unsent
  <2>1. <<"widths">> \notin TableBlocks
    BY <1>1, BlocksApart DEF Singles
  <2> QED
    BY <2>1, BlocksDiffer DEF CallerBlocks, Messages, TypeInv, TypeOK
<1>5. Transient = (IF pc = "measure" THEN {} ELSE {<<"widths">>})
      /\ Transient' = (IF pc' = "printed" THEN {} ELSE {<<"widths">>})
  BY <1>1 DEF Transient
<1>6. heap' = CallerBlocks \cup Transient' \cup TableBlocks \cup unsent /\ ~bad_free'
  <2>1. CASE Measure
    <3>1. CASE pc' = "printed" /\ heap' = heap /\ bad_free' = bad_free
      BY <1>1, <1>3, <1>5, <2>1, <3>1 DEF Measure
    <3>2. CASE pc' # "printed" /\ heap' = heap \cup {<<"widths">>} /\ bad_free' = bad_free
      BY <1>1, <1>3, <1>5, <2>1, <3>2 DEF Measure
    <3> QED
      BY <2>1, <3>1, <3>2 DEF Measure, Allocate
  <2>2. CASE Shrink \/ PassEnds
    BY <1>1, <1>3, <1>5, <2>2 DEF Shrink, PassEnds
  <2>3. CASE PrintTable
    <3>1. heap' = heap \ {<<"widths">>} /\ bad_free' = (bad_free \/ ~ {<<"widths">>} \subseteq heap)
          /\ pc = "print" /\ pc' = "printed"
      BY <2>3 DEF PrintTable, Free
    <3> QED
      BY <1>1, <1>3, <1>4, <1>5, <3>1
  <2> QED
    BY <2>1, <2>2, <2>3
<1>7. CallerBlocks' = CallerBlocks
  <2>1. heap' = heap \cup {<<"widths">>} \/ heap' = heap \ {<<"widths">>}
    <3>1. \/ heap' = (CallerBlocks \cup TableBlocks \cup unsent) \cup {<<"widths">>}
          \/ heap' = CallerBlocks \cup TableBlocks \cup unsent
      BY <1>5, <1>6
    <3> QED
      BY <1>3, <1>4, <1>5, <3>1
  <2> QED
    BY <1>1, <2>1, CallerStays, BlocksDiffer
<1> QED
  BY <1>1, <1>2, <1>6, <1>7 DEF HeapInv, BeforeTable, WithTable

\* The table is freed after it has been shown; nothing of it is held then.
LEMMA HeapShown == TypeInv /\ HeapInv /\ Shown => HeapInv'
<1> SUFFICES ASSUME TypeInv, HeapInv, Shown PROVE HeapInv'
  OBVIOUS
<1> USE DEF copyvars, rendervars, parsevars
<1>1. /\ pc = "printed" /\ pc' = "cleanup" /\ table_initialized /\ ~table_initialized'
      /\ rows \in Seq(Cell) /\ rows' = <<>> /\ row_capacity' = 0
      /\ capacity' = capacity /\ hardware_output' = hardware_output /\ unsent' = unsent
      /\ heap' = heap \ TableBlocks /\ bad_free' = (bad_free \/ ~ TableBlocks \subseteq heap)
      /\ ~bad_free
  BY DEF Shown, app_table_free, Free, HeapInv, WithTable, TypeInv, TypeOK, TableTypeOK
<1>2. /\ Tabled = TableBlocks /\ Underway = {} /\ Transient = {}
      /\ Tabled' = {} /\ Underway' = {} /\ Transient' = {}
  BY <1>1 DEF Tabled, Underway, Transient
<1>3. heap = CallerBlocks \cup TableBlocks \cup unsent
  BY <1>2 DEF HeapInv
<1>4. /\ CallerBlocks \cap TableBlocks = {} /\ <<"ctx">> \notin TableBlocks
      /\ unsent \cap TableBlocks = {}
  <2>1. unsent \subseteq Singles
    BY HeldAreSingles DEF TypeInv, TypeOK
  <2> QED
    BY <1>1, <2>1, BlocksApart, HeldAreSingles DEF Singles
<1>5. CallerBlocks' = CallerBlocks
  BY <1>1, <1>4, CallerStays
<1>6. heap' = CallerBlocks \cup unsent /\ ~bad_free'
  BY <1>1, <1>3, <1>4
<1> QED
  BY <1>1, <1>2, <1>5, <1>6 DEF HeapInv, BeforeTable, WithTable

\* The last step frees whatever there is.
LEMMA HeapCleanup == TypeInv /\ HeapInv /\ Cleanup => HeapInv'
<1> SUFFICES ASSUME TypeInv, HeapInv, Cleanup PROVE HeapInv'
  OBVIOUS
<1> USE DEF rowvars, copyvars, rendervars, parsevars
<1>1. /\ pc = "cleanup" /\ pc' = "exit" /\ ~table_initialized' /\ hardware_output' = FALSE
      /\ capacity' = 0 /\ unsent' = unsent /\ ~bad_free
  BY DEF Cleanup, HeapInv
<1>2. /\ Underway = {} /\ Transient = {}
      /\ Tabled' = {} /\ Underway' = {} /\ Transient' = {}
  BY <1>1 DEF Tabled, Underway, Transient
<1>3. heap = CallerBlocks \cup Tabled \cup unsent
  BY <1>2 DEF HeapInv
<1>4. unsent \cap CallerBlocks = {} /\ unsent \cap Tabled = {} /\ unsent \subseteq Messages
  <2>1. unsent \subseteq Messages /\ rows \in Seq(Cell)
    BY DEF TypeInv, TypeOK, TableTypeOK
  <2> QED
    BY <2>1, BlocksApart, HeldAreSingles DEF Tabled
<1>5. heap' = unsent /\ ~bad_free' /\ rows' = <<>> /\ row_capacity' = 0
  <2>1. CASE table_initialized
    BY <1>1, <1>3, <1>4, <2>1 DEF Cleanup, app_table_free, Free, Tabled
  <2>2. CASE ~table_initialized
    BY <1>1, <1>3, <1>4, <2>2 DEF Cleanup, Free, Tabled, HeapInv
  <2> QED
    BY <2>1, <2>2
<1>6. CallerBlocks' = {}
  <2>1. <<"ctx">> \notin unsent
    BY <1>4, BlocksDiffer DEF Messages
  <2> QED
    BY <1>1, <1>5, <2>1 DEF CallerBlocks
<1> QED
  BY <1>1, <1>2, <1>5, <1>6 DEF HeapInv, BeforeTable, WithTable

LEMMA HeapStays == TypeInv /\ HeapInv /\ (RowsDone \/ UNCHANGED vars) => HeapInv'
<1> SUFFICES ASSUME TypeInv, HeapInv, RowsDone \/ UNCHANGED vars PROVE HeapInv'
  OBVIOUS
<1> USE DEF vars, rowvars, copyvars, rendervars, phyvars, parsevars, tablevars
<1>1. CASE UNCHANGED vars
  BY <1>1 DEF HeapInv, CallerBlocks, Transient, Underway, Tabled, TableBlocks
<1>2. CASE RowsDone
  <2>1. /\ pc = "rows" /\ pc' = "measure" /\ UNCHANGED <<tablevars, phyvars>>
    BY <1>2 DEF RowsDone
  <2>2. Transient' = Transient /\ Underway' = Underway /\ Tabled' = Tabled /\ CallerBlocks' = CallerBlocks
    BY <2>1 DEF CallerBlocks, Transient, Underway, Tabled, TableBlocks
  <2> QED
    BY <2>1, <2>2 DEF HeapInv, BeforeTable, WithTable
<1> QED
  BY <1>1, <1>2

LEMMA HeapNext == TypeInv /\ RoomInv /\ HeapInv /\ [Next]_vars => HeapInv'
<1> SUFFICES ASSUME TypeInv, RoomInv, HeapInv, [Next]_vars PROVE HeapInv'
  OBVIOUS
<1>1. CASE RowsDone \/ UNCHANGED vars
  BY <1>1, HeapStays
<1>2. CASE OpenVapi
  BY <1>2, HeapOpenVapi
<1>3. CASE CollectEntry \/ CollectFails \/ CollectDone
  BY <1>3, HeapCollect
<1>4. CASE FetchListing
  BY <1>4, HeapFetchListing
<1>5. CASE ParseEnds \/ \E line \in Lines : ReadLine(line)
  BY <1>5, HeapParse
<1>6. CASE InitTable
  BY <1>6, HeapInitTable
<1>7. CASE AddPhyRow
  BY <1>7, HeapAddPhyRow
<1>8. CASE TableWorks
  BY <1>8, HeapCopyCell, HeapCopyFails, HeapRowCopied, HeapRender DEF TableWorks, TableStep
<1>9. CASE Shown
  BY <1>9, HeapShown
<1>10. CASE Cleanup
  BY <1>10, HeapCleanup
<1>11. CASE RequestDump
  BY <1>11, HeapRequestDump
<1> QED
  BY <1>11, <1>1, <1>2, <1>3, <1>4, <1>5, <1>6, <1>7, <1>8, <1>9, <1>10 DEF Next, Command, Exited

LEMMA MemoryInvHolds == Spec => [](TypeInv /\ RoomInv /\ HeapInv)
<1>1. Init => HeapInv
  BY HeapInit
<1>2. TypeInv /\ RoomInv /\ HeapInv /\ [Next]_vars => HeapInv'
  BY HeapNext
<1> QED
  BY <1>1, <1>2, TypeInvHolds, PTL DEF Spec

\* app_table_add_row writes a row only where there is room for it, and nothing
\* is freed that was not allocated, or twice, also when a row is given up
\* halfway and the command cleans up after it.
THEOREM TableKeepsMemory == Spec => []MemoryInBounds
<1>1. RoomInv /\ HeapInv => MemoryInBounds
  BY DEF RoomInv, HeapInv, MemoryInBounds
<1> QED
  BY <1>1, MemoryInvHolds, PTL

\* However boy_show_phy ends, after whatever failure, what stays allocated is the
\* messages for VPP that were not sent, which the code drops, and nothing else:
\* no entry, row or cell, no copy of the listing, no widths, no connection.
THEOREM NothingIsLeaked == Spec => []NothingLeaks
<1>1. HeapInv => NothingLeaks
  BY DEF HeapInv, NothingLeaks
<1> QED
  BY <1>1, MemoryInvHolds, PTL

-----------------------------------------------------------------------------
(* Widths                                                                  *)

AllDown == \A c \in Cols : Columns[c].is_flexible => widths[c] <= Columns[c].min_width

\* What has been taken from column c.
Taken(c) == NaturalWidths[c] - widths[c]

HasMore(c) == Columns[c].is_flexible /\ widths[c] > Columns[c].min_width

\* overflow is what the table is still too wide by, and a pass over all columns
\* that has taken nothing so far has met only narrow ones.
FitInv ==
  Shrinking =>
    /\ Total(widths) = IF Total(NaturalWidths) > terminal
                         THEN terminal + overflow ELSE Total(NaturalWidths)
    /\ overflow > 0 => Total(NaturalWidths) > terminal
    /\ pc = "any" /\ ~reduced => \A c \in 1 .. col - 1 : widths[c] <= Dots
    /\ pc = "print" => overflow = 0 \/ \A c \in Cols : widths[c] <= Dots

\* Either the flexible columns are down to their minimum, or only they have
\* given, and none more than it may.
FlexInv ==
  Shrinking =>
    /\ \/ AllDown
       \/ \A c \in Cols : IF Columns[c].is_flexible
                            THEN widths[c] < NaturalWidths[c] => widths[c] >= Columns[c].min_width
                            ELSE widths[c] = NaturalWidths[c]
    /\ pc = "flexible" /\ ~reduced => \A c \in 1 .. col - 1 : ~HasMore(c)
    /\ pc = "any" => AllDown

\* Two flexible columns that have more have given the same, but for the pass
\* that is between them.
TurnInv ==
  Shrinking =>
    \A b, c \in Cols : (b < c /\ HasMore(b) /\ HasMore(c)) =>
      /\ pc = "print" => Taken(b) - Taken(c) \in {0, 1}
      /\ pc # "print" => Taken(b) - Taken(c) = IF b < col /\ col <= c THEN 1 ELSE 0

RenderInv == FitInv /\ FlexInv /\ TurnInv

\* The widths that the columns would like to have for the rows r.
WidthsFor(r) ==
  [c \in Cols |->
     Clamp(LET lengths == {Columns[c].header} \cup {r[k][c] : k \in DOMAIN r}
           IN  CHOOSE n \in lengths : \A m \in lengths : m <= n, Columns[c])]

LEMMA NaturalWidthsStay == rows' = rows => NaturalWidths' = NaturalWidths
<1>1. NaturalWidths = WidthsFor(rows) /\ NaturalWidths' = WidthsFor(rows')
  BY Zenon DEF NaturalWidths, Longest, WidthsFor
<1> QED
  BY <1>1

LEMMA TotalOfOneLess ==
  ASSUME NEW w \in [Cols -> Nat], NEW c \in Cols, w[c] > 0
  PROVE  Total([w EXCEPT ![c] = @ - 1]) = Total(w) - 1
<1>1. /\ [w EXCEPT ![c] = @ - 1] \in [Cols -> Nat]
      /\ SumFunction([w EXCEPT ![c] = @ - 1]) = SumFunction(w) - 1
  <2>1. IsFiniteSet(Cols)
    BY ColsFacts
  <2> QED
    BY <2>1, SumOfOneLess
<1>2. SumFunction(w) \in Nat
  BY ColsFacts, SumOfNumbers
<1> QED
  BY <1>1, <1>2, ColsFacts DEF Total, Gap

\* The first widths.
LEMMA RenderMeasure == TypeInv /\ Measure => RenderInv'
<1> SUFFICES ASSUME TypeInv, Measure PROVE RenderInv'
  OBVIOUS
<1>1. rows \in Seq(Cell) /\ rows' = rows
  BY DEF TypeInv, TypeOK, TableTypeOK, Measure, rowvars
<1>2. CASE pc' = "printed"
  BY <1>2 DEF RenderInv, FitInv, FlexInv, TurnInv, Shrinking
<1>3. CASE /\ widths' = NaturalWidths
           /\ terminal' \in DetectedWidths
           /\ overflow' = IF Total(widths') > terminal' THEN Total(widths') - terminal' ELSE 0
           /\ pc' = IF overflow' > 0 THEN "flexible" ELSE "print"
  <2>1. NaturalWidths' = NaturalWidths /\ NaturalWidths \in [Cols -> Nat]
    BY <1>1, NaturalWidthsType, NaturalWidthsStay
  <2>2. Total(NaturalWidths) \in Nat /\ terminal' \in Nat
    BY <1>3, <2>1, TotalType, TableAssumption DEF DetectedWidths
  <2>3. FitInv'
    <3>1. Total(widths)' = Total(NaturalWidths) /\ Total(NaturalWidths)' = Total(NaturalWidths)
      BY <1>3, <2>1 DEF Total
    <3> QED
      BY <1>3, <2>2, <3>1 DEF FitInv
  <2>4. FlexInv'
    <3>1. \A c \in Cols : widths'[c] = NaturalWidths'[c] /\ NaturalWidths[c] \in Nat
      BY <1>3, <2>1
    <3>2. col' = 1
      BY DEF Measure
    <3>3. pc' # "any"
      BY <1>3
    <3>4. \A c \in Cols : IF Columns[c].is_flexible
             THEN widths'[c] < NaturalWidths'[c] => widths'[c] >= Columns[c].min_width
             ELSE widths'[c] = NaturalWidths'[c]
      BY <2>1, <3>1
    <3>5. \A c \in 1 .. col' - 1 : FALSE
      BY <3>2
    <3> QED
      BY <3>3, <3>4, <3>5 DEF FlexInv
  <2>5. TurnInv'
    <3>1. \A c \in Cols : Taken(c)' = 0
      BY <1>3, <2>1 DEF Taken
    <3>2. col' = 1 /\ \A b \in Cols : ~ (b < 1)
      BY ColsFacts DEF Measure
    <3> QED
      BY <3>1, <3>2 DEF TurnInv
  <2> QED
    BY <2>3, <2>4, <2>5 DEF RenderInv
<1> QED
  BY <1>2, <1>3 DEF Measure

\* What a step of a pass does to the widths.
ShrinkFacts ==
  /\ pc \in {"flexible", "any"} /\ pc' = pc /\ Shrinking /\ Shrinking'
  /\ col \in Cols /\ col' = col + 1 /\ overflow \in Nat /\ overflow > 0
  /\ widths \in [Cols -> Nat] /\ NaturalWidths \in [Cols -> Nat]
  /\ NaturalWidths' = NaturalWidths /\ terminal' = terminal /\ terminal \in Nat
  /\ \/ /\ MayShrink(col) /\ widths[col] > 0 /\ reduced' = TRUE
        /\ widths' = [widths EXCEPT ![col] = @ - 1]
        /\ overflow' = overflow - 1
     \/ /\ ~MayShrink(col)
        /\ widths' = widths /\ overflow' = overflow /\ reduced' = reduced

LEMMA ShrinkDoes == TypeInv /\ Shrink => ShrinkFacts
<1> SUFFICES ASSUME TypeInv, Shrink PROVE ShrinkFacts
  OBVIOUS
<1>1. TableTypeOK
  BY DEF TypeInv, TypeOK
<1>2. col \in Cols
  BY <1>1, ColsFacts DEF Shrink, TableTypeOK
<1>3. terminal \in Nat
  BY <1>1, TableAssumption DEF TableTypeOK, DetectedWidths
<1>4. NaturalWidths \in [Cols -> Nat] /\ NaturalWidths' = NaturalWidths
  BY <1>1, NaturalWidthsType, NaturalWidthsStay DEF Shrink, TableTypeOK, rowvars
<1>5. widths \in [Cols -> Nat] /\ overflow \in Nat /\ overflow > 0
  BY <1>1 DEF Shrink, TableTypeOK
<1>6. MayShrink(col) => widths[col] > 0
  <2>1. widths[col] \in Nat /\ Columns[col].min_width \in Nat
    BY <1>2, <1>5, ColsFacts DEF Column
  <2> QED
    BY <2>1 DEF MayShrink, Dots
<1>7. /\ pc \in {"flexible", "any"} /\ pc' = pc /\ Shrinking /\ Shrinking'
      /\ col' = col + 1 /\ terminal' = terminal
  BY DEF Shrink, Shrinking
<1>8. \/ /\ MayShrink(col) /\ reduced' = TRUE
         /\ widths' = [widths EXCEPT ![col] = @ - 1]
         /\ overflow' = overflow - 1
      \/ /\ ~MayShrink(col)
         /\ widths' = widths /\ overflow' = overflow /\ reduced' = reduced
  BY DEF Shrink
<1> QED
  BY <1>2, <1>3, <1>4, <1>5, <1>6, <1>7, <1>8 DEF ShrinkFacts

LEMMA FitShrink == ShrinkFacts /\ FitInv => FitInv'
<1> SUFFICES ASSUME ShrinkFacts, FitInv PROVE FitInv'
  OBVIOUS
<1>1. Total(widths) \in Nat /\ Total(NaturalWidths) \in Nat
  BY TotalType DEF ShrinkFacts
<1>2. Total(NaturalWidths)' = Total(NaturalWidths)
  BY DEF ShrinkFacts, Total
<1>3. Total(widths) = terminal + overflow /\ Total(NaturalWidths) > terminal
  BY DEF ShrinkFacts, FitInv
<1>4. Total(widths)' = terminal + overflow'
  <2>1. CASE MayShrink(col)
    <3>1. Total([widths EXCEPT ![col] = @ - 1]) = Total(widths) - 1
      BY <2>1, TotalOfOneLess DEF ShrinkFacts
    <3>2. Total(widths)' = Total([widths EXCEPT ![col] = @ - 1])
      BY <2>1 DEF ShrinkFacts, Total
    <3> QED
      BY <1>1, <1>3, <2>1, <3>1, <3>2 DEF ShrinkFacts
  <2>2. CASE ~MayShrink(col)
    BY <1>3, <2>2 DEF ShrinkFacts, Total
  <2> QED
    BY <2>1, <2>2
<1>5. ASSUME pc' = "any", ~reduced', NEW c \in 1 .. col' - 1 PROVE widths'[c] <= Dots
  <2>1. /\ ~MayShrink(col) /\ widths' = widths /\ ~reduced /\ pc = "any"
    BY <1>5 DEF ShrinkFacts
  <2>2. widths[col] <= Dots
    BY <2>1, ColsFacts DEF MayShrink, ShrinkFacts, Dots
  <2>3. \A b \in 1 .. col - 1 : widths[b] <= Dots
    BY <2>1 DEF FitInv, ShrinkFacts
  <2>4. col \in Nat /\ (c \in 1 .. col - 1 \/ c = col)
    BY ColsFacts DEF ShrinkFacts
  <2> QED
    BY <2>1, <2>2, <2>3, <2>4
<1>6. pc' # "print"
  BY DEF ShrinkFacts
<1>7. Total(NaturalWidths)' > terminal' /\ terminal' = terminal
  BY <1>2, <1>3 DEF ShrinkFacts
<1> QED
  BY <1>2, <1>3, <1>4, <1>5, <1>6, <1>7 DEF FitInv

LEMMA FlexShrink == ShrinkFacts /\ FlexInv => FlexInv'
<1> SUFFICES ASSUME ShrinkFacts, FlexInv PROVE FlexInv'
  OBVIOUS
<1>1. \A c \in Cols : /\ widths[c] \in Nat /\ widths'[c] \in Nat /\ NaturalWidths[c] \in Nat
                      /\ Columns[c].min_width \in Nat
                      /\ widths'[c] <= widths[c]
                      /\ c # col => widths'[c] = widths[c]
  BY ColsFacts DEF ShrinkFacts, Column
<1>2. AllDown => AllDown'
  BY <1>1 DEF AllDown
<1>3. pc = "any" => AllDown'
  BY <1>2 DEF FlexInv, ShrinkFacts
<1>4. CASE MayShrink(col)
  <2>1. reduced' /\ widths'[col] = widths[col] - 1
    BY <1>4 DEF ShrinkFacts
  <2>2. CASE pc = "any"
    BY <1>3, <2>1, <2>2 DEF FlexInv, ShrinkFacts
  <2>3. CASE pc = "flexible"
    <3>1. /\ Columns[col].is_flexible /\ widths[col] > Columns[col].min_width
          /\ widths'[col] >= Columns[col].min_width /\ col \in Cols
      BY <1>1, <1>4, <2>1, <2>3 DEF MayShrink, ShrinkFacts
    <3>2. ~AllDown
      BY <1>1, <3>1 DEF AllDown
    <3>3. \A c \in Cols :
            IF Columns[c].is_flexible
              THEN widths[c] < NaturalWidths[c] => widths[c] >= Columns[c].min_width
              ELSE widths[c] = NaturalWidths[c]
      BY <3>2 DEF FlexInv, ShrinkFacts
    <3>4. \A c \in Cols :
            IF Columns[c].is_flexible
              THEN widths'[c] < NaturalWidths[c] => widths'[c] >= Columns[c].min_width
              ELSE widths'[c] = NaturalWidths[c]
      BY <1>1, <3>1, <3>3
    <3> QED
      BY <2>1, <2>3, <3>4 DEF FlexInv, ShrinkFacts
  <2> QED
    BY <2>2, <2>3 DEF ShrinkFacts
<1>5. CASE ~MayShrink(col)
  <2>1. widths' = widths /\ reduced' = reduced /\ NaturalWidths' = NaturalWidths /\ pc' = pc
    BY <1>5 DEF ShrinkFacts
  <2>2. ASSUME pc = "flexible", ~reduced, NEW c \in 1 .. col' - 1 PROVE ~HasMore(c)'
    <3>1. \A b \in 1 .. col - 1 : ~HasMore(b)
      BY <2>2 DEF FlexInv, ShrinkFacts
    <3>2. ~HasMore(col)
      BY <1>5, <2>2 DEF MayShrink, HasMore
    <3>3. c \in 1 .. col - 1 \/ c = col
      BY ColsFacts DEF ShrinkFacts
    <3>4. ~HasMore(c)
      BY <3>1, <3>2, <3>3
    <3> QED
      BY <2>1, <3>4 DEF HasMore
  <2>3. AllDown' <=> AllDown
    BY <2>1 DEF AllDown
  <2> QED
    BY <2>1, <2>2, <2>3 DEF FlexInv, ShrinkFacts
<1> QED
  BY <1>4, <1>5

LEMMA TurnShrink == ShrinkFacts /\ FlexInv /\ TurnInv => TurnInv'
<1> SUFFICES ASSUME ShrinkFacts, FlexInv, TurnInv,
                    NEW b \in Cols, NEW c \in Cols, b < c, HasMore(b)', HasMore(c)'
             PROVE  /\ pc' # "print"
                    /\ Taken(b)' - Taken(c)' = IF b < col' /\ col' <= c THEN 1 ELSE 0
  BY DEF TurnInv
<1>1. \A d \in Cols : /\ widths[d] \in Nat /\ widths'[d] \in Nat /\ NaturalWidths[d] \in Nat
                      /\ NaturalWidths'[d] = NaturalWidths[d]
                      /\ Columns[d].min_width \in Nat
                      /\ widths'[d] <= widths[d]
                      /\ d # col => widths'[d] = widths[d]
  BY ColsFacts DEF ShrinkFacts, Column
<1>2. b \in Nat /\ c \in Nat /\ col \in Nat /\ col' = col + 1
  BY ColsFacts DEF ShrinkFacts
<1>3. HasMore(b) /\ HasMore(c)
  BY <1>1 DEF HasMore
<1>4. pc = "flexible" /\ pc' = "flexible"
  BY <1>1, <1>3 DEF FlexInv, ShrinkFacts, AllDown, HasMore
<1>5. Taken(b) - Taken(c) = IF b < col /\ col <= c THEN 1 ELSE 0
  BY <1>3, <1>4 DEF TurnInv, ShrinkFacts
<1>6. \A d \in Cols : d # col => Taken(d)' = Taken(d)
  BY <1>1 DEF Taken
<1>7. ASSUME NEW d \in Cols, d = col, HasMore(d) PROVE Taken(d)' = Taken(d) + 1
  <2>1. MayShrink(col)
    BY <1>4, <1>7 DEF HasMore, MayShrink
  <2>2. widths'[d] = widths[d] - 1
    BY <1>7, <2>1 DEF ShrinkFacts
  <2> QED
    BY <1>1, <2>2 DEF Taken
<1>8. Taken(b) \in Int /\ Taken(c) \in Int
  BY <1>1 DEF Taken
<1> QED
  BY <1>2, <1>3, <1>4, <1>5, <1>6, <1>7, <1>8

\* Between passes nothing is taken: the next pass starts before the first
\* column, and what the one that ended says of all columns is remembered.
LEMMA RenderPassEnds == TypeInv /\ RenderInv /\ PassEnds => RenderInv'
<1> SUFFICES ASSUME TypeInv, RenderInv, PassEnds PROVE RenderInv'
  OBVIOUS
<1>1. /\ TableTypeOK /\ FitInv /\ FlexInv /\ TurnInv /\ Shrinking
      /\ pc \in {"flexible", "any"}
  BY DEF TypeInv, TypeOK, RenderInv, PassEnds, Shrinking
<1>2. /\ widths' = widths /\ terminal' = terminal /\ overflow' = overflow /\ rows' = rows
      /\ col' = 1 /\ reduced' = FALSE
      /\ pc' = IF overflow = 0 THEN "print"
               ELSE IF reduced THEN "flexible"
               ELSE IF pc = "flexible" THEN "any" ELSE "print"
      /\ col > Len(Columns) \/ overflow = 0
  BY DEF PassEnds, rowvars
<1>3. NaturalWidths' = NaturalWidths /\ Total(widths)' = Total(widths)
      /\ Total(NaturalWidths)' = Total(NaturalWidths)
  BY <1>2, NaturalWidthsStay DEF Total
<1>4. overflow # 0 => \A c \in Cols : c \in 1 .. col - 1
  BY <1>1, <1>2, ColsFacts DEF TableTypeOK
<1>5. FitInv'
  <2>1. pc' = "print" => overflow = 0 \/ \A c \in Cols : widths[c] <= Dots
    <3>1. CASE overflow # 0 /\ pc' = "print"
      <4>1. pc = "any" /\ ~reduced
        BY <1>1, <1>2, <3>1
      <4> QED
        BY <1>1, <1>4, <3>1, <4>1 DEF FitInv
    <3> QED
      BY <3>1
  <2>2. \A c \in 1 .. col' - 1 : FALSE
    BY <1>2
  <2> QED
    BY <1>1, <1>2, <1>3, <2>1, <2>2 DEF FitInv
<1>6. FlexInv'
  <2>1. pc' = "any" => AllDown
    <3>1. CASE pc' = "any"
      <4>1. pc = "flexible" /\ ~reduced /\ overflow # 0
        BY <1>1, <1>2, <3>1
      <4>2. \A c \in Cols : ~HasMore(c)
        BY <1>1, <1>4, <4>1 DEF FlexInv
      <4>3. \A c \in Cols : widths[c] \in Nat /\ Columns[c].min_width \in Nat
        BY <1>1, ColsFacts DEF TableTypeOK, Column
      <4> QED
        BY <4>2, <4>3 DEF AllDown, HasMore
    <3> QED
      BY <3>1
  <2>2. \A c \in 1 .. col' - 1 : FALSE
    BY <1>2
  <2>3. AllDown' <=> AllDown
    BY <1>2 DEF AllDown
  <2> QED
    BY <1>1, <1>2, <1>3, <2>1, <2>2, <2>3 DEF FlexInv
<1>7. TurnInv'
  <2> SUFFICES ASSUME NEW b \in Cols, NEW c \in Cols, b < c, HasMore(b)', HasMore(c)'
               PROVE  /\ pc' = "print" => Taken(b)' - Taken(c)' \in {0, 1}
                      /\ pc' # "print" => Taken(b)' - Taken(c)' = IF b < col' /\ col' <= c THEN 1 ELSE 0
    BY DEF TurnInv
  <2>1. HasMore(b) /\ HasMore(c) /\ Taken(b)' = Taken(b) /\ Taken(c)' = Taken(c)
    BY <1>2, <1>3 DEF HasMore, Taken
  <2>2. Taken(b) - Taken(c) = IF b < col /\ col <= c THEN 1 ELSE 0
    BY <1>1, <2>1 DEF TurnInv
  <2>3. b \in 1 .. Len(Columns) /\ c \in 1 .. Len(Columns) /\ col \in Nat /\ Len(Columns) \in Nat
    BY <1>1, ColsFacts DEF TableTypeOK
  <2>4. pc' # "print" => col > Len(Columns)
    BY <1>2
  <2> QED
    BY <1>2, <2>1, <2>2, <2>3, <2>4
<1> QED
  BY <1>5, <1>6, <1>7 DEF RenderInv

LEMMA RenderNext == TypeInv /\ RenderInv /\ [Next]_vars => RenderInv'
<1> SUFFICES ASSUME TypeInv, RenderInv, [Next]_vars PROVE RenderInv'
  OBVIOUS
<1> USE DEF vars, rowvars, copyvars, rendervars, phyvars, parsevars, tablevars
<1>1. CASE UNCHANGED vars
  <2>1. NaturalWidths' = NaturalWidths
    BY <1>1, NaturalWidthsStay
  <2>2. /\ pc' = pc /\ widths' = widths /\ terminal' = terminal /\ overflow' = overflow
        /\ col' = col /\ reduced' = reduced
    BY <1>1
  <2>3. FitInv'
    BY <2>1, <2>2 DEF RenderInv, FitInv, Shrinking, Total
  <2>4. FlexInv'
    BY <2>1, <2>2 DEF RenderInv, FlexInv, Shrinking, AllDown, HasMore
  <2>5. TurnInv'
    BY <2>1, <2>2 DEF RenderInv, TurnInv, Shrinking, HasMore, Taken
  <2> QED
    BY <2>3, <2>4, <2>5 DEF RenderInv
<1>2. CASE Measure
  BY <1>2, RenderMeasure
<1>3. CASE Shrink
  BY <1>3, ShrinkDoes, FitShrink, FlexShrink, TurnShrink DEF RenderInv
<1>4. CASE PassEnds
  BY <1>4, RenderPassEnds
<1>5. CASE \/ OpenVapi \/ RequestDump \/ CollectEntry \/ CollectFails \/ CollectDone \/ FetchListing
           \/ (\E line \in Lines : ReadLine(line)) \/ ParseEnds
           \/ InitTable \/ AddPhyRow \/ RowsDone \/ Shown \/ Cleanup
           \/ CopyCell \/ CopyFails \/ RowCopied \/ PrintTable
  <2>1. ~Shrinking'
    BY <1>5 DEF Shrinking, OpenVapi, RequestDump, CollectEntry, CollectFails, CollectDone, FetchListing, ReadLine,
       ParseEnds, InitTable, app_table_init, AddPhyRow, AddRow, RowsDone, Shown, Cleanup,
       CopyCell, CopyFails, RowCopied, PrintTable
  <2> QED
    BY <2>1 DEF RenderInv, FitInv, FlexInv, TurnInv
<1> QED
  BY <1>1, <1>2, <1>3, <1>4, <1>5 DEF Next, Command, Exited, TableWorks, TableStep

LEMMA RenderInvHolds == Spec => [](TypeInv /\ RenderInv)
<1>1. Init => RenderInv
  BY DEF Init, RenderInv, FitInv, FlexInv, TurnInv, Shrinking
<1> QED
  BY <1>1, TypeInvHolds, RenderNext, PTL DEF Spec

\* Shrinking takes exactly what is too much: app_table_render prints the table
\* as wide as the terminal, or wider with every column down to the width of the
\* dots.
THEOREM TableFits == Spec => []FitsExactly
<1>1. FitInv => FitsExactly
  BY DEF FitInv, FitsExactly
<1> QED
  BY <1>1, RenderInvHolds, PTL DEF RenderInv

\* app_table_render takes more than flexible columns have to spare only when
\* none of them has any left.
THEOREM FlexibleGiveFirst == Spec => []FlexibleFirst
<1>1. TypeInv /\ FlexInv => FlexibleFirst
  <2> SUFFICES ASSUME TypeInv, FlexInv, Shrinking, NEW c \in Cols, widths[c] < NaturalWidths[c],
                      Columns[c].is_flexible => widths[c] < Columns[c].min_width
               PROVE  AllDown
    BY DEF FlexibleFirst, AllDown
  <2>1. widths[c] \in Nat /\ NaturalWidths[c] \in Nat /\ Columns[c].min_width \in Nat
    BY ColsFacts, NaturalWidthsType DEF TypeInv, TypeOK, TableTypeOK, Column
  <2> QED
    BY <2>1 DEF FlexInv
<1> QED
  BY <1>1, RenderInvHolds, PTL DEF RenderInv

\* The flexible columns give in turn, from the left.
THEOREM FlexibleGiveInTurn == Spec => []InTurn
<1>1. TurnInv => InTurn
  <2> SUFFICES ASSUME TurnInv, Shrinking, NEW b \in Cols, NEW c \in Cols,
                      b < c, HasMore(b), HasMore(c)
               PROVE  Taken(b) - Taken(c) \in {0, 1}
    BY DEF InTurn, HasMore, Taken
  <2> QED
    BY DEF TurnInv
<1> QED
  BY <1>1, RenderInvHolds, PTL DEF RenderInv

-----------------------------------------------------------------------------
(* The printed page                                                        *)

Parts == {"left", "text", "dots", "right"}

\* A cell is printed as wide as its column, cut or not.
LEMMA PrintedIsWide ==
  ASSUME NEW length \in Nat, NEW width \in Nat, NEW align \in {"left", "right"}
  PROVE  SumFunction(Printed(length, width, align)) = width
<1> DEFINE cell == Printed(length, width, align)
           cut   == length > width
           shown == IF cut THEN width ELSE length
           dots  == IF cut /\ width > Dots THEN Dots ELSE 0
<1>1. /\ shown \in Nat /\ dots \in Nat /\ shown - dots \in Nat /\ width - shown \in Nat
  BY DEF Dots
<1>2. cell = [left  |-> IF align = "right" THEN width - shown ELSE 0,
              text  |-> shown - dots,
              dots  |-> dots,
              right |-> IF align = "left" THEN width - shown ELSE 0]
  BY DEF Printed
<1> HIDE DEF cell, shown, dots
<1>3. /\ cell \in [Parts -> Nat]
      /\ cell["left"] + cell["text"] + cell["dots"] + cell["right"] = width
  <2>1. cell \in [Parts -> Nat]
    BY <1>1, <1>2 DEF Parts
  <2>2. /\ cell["left"] = IF align = "right" THEN width - shown ELSE 0
        /\ cell["text"] = shown - dots /\ cell["dots"] = dots
        /\ cell["right"] = IF align = "left" THEN width - shown ELSE 0
    BY <1>2
  <2>3. CASE align = "left"
    BY <1>1, <2>1, <2>2, <2>3
  <2>4. CASE align = "right"
    BY <1>1, <2>1, <2>2, <2>4
  <2> QED
    BY <2>3, <2>4
<1>4. SumFunction(cell) = cell["left"] + cell["text"] + cell["dots"] + cell["right"]
  <2>1. ASSUME NEW w \in [Parts -> Nat]
        PROVE  SumFunction(w) = w["left"] + w["text"] + w["dots"] + w["right"]
    <3>1. Parts = {"left", "text", "dots", "right"}
      BY DEF Parts
    <3>2. /\ "left" # "text" /\ "left" # "dots" /\ "left" # "right"
          /\ "text" # "dots" /\ "text" # "right" /\ "dots" # "right"
      OBVIOUS
    <3> QED
      BY <2>1, <3>1, <3>2, SumOfFour
  <2> QED
    BY <1>3, <2>1
<1> QED
  BY <1>3, <1>4 DEF cell


\* Lines whose cells are as wide as their columns.
WideLines(w) == {l \in [Cols -> [Parts -> Nat]] : \A c \in Cols : SumFunction(l[c]) = w[c]}

\* What a printed cell is, besides.
LEMMA PrintedType ==
  ASSUME NEW length \in Nat, NEW width \in Nat, NEW align \in {"left", "right"}
  PROVE  Printed(length, width, align) \in [Parts -> Nat]
<1> DEFINE cut   == length > width
           shown == IF cut THEN width ELSE length
           dots  == IF cut /\ width > Dots THEN Dots ELSE 0
<1>1. /\ shown \in Nat /\ dots \in Nat /\ shown - dots \in Nat /\ width - shown \in Nat
  BY DEF Dots
<1>2. Printed(length, width, align)
        = [left  |-> IF align = "right" THEN width - shown ELSE 0,
           text  |-> shown - dots,
           dots  |-> dots,
           right |-> IF align = "left" THEN width - shown ELSE 0]
  BY DEF Printed
<1> HIDE DEF shown, dots
<1> QED
  BY <1>1, <1>2 DEF Parts

LEMMA LinesAreWide ==
  ASSUME TableTypeOK
  PROVE  /\ HeaderLine \in WideLines(widths) /\ RuleLine \in WideLines(widths)
         /\ \A r \in DOMAIN rows : RowLine(r) \in WideLines(widths)
<1>1. \A c \in Cols : /\ widths[c] \in Nat /\ Columns[c].header \in Nat
                      /\ Columns[c].align \in {"left", "right"}
                      /\ \A r \in DOMAIN rows : rows[r][c] \in Nat
  <2>1. \A r \in DOMAIN rows : rows[r] \in [Cols -> Nat]
    BY DEF TableTypeOK, Cell
  <2>2. widths \in [Cols -> Nat]
    BY DEF TableTypeOK
  <2>3. \A c \in Cols : /\ Columns[c].header \in Nat
                        /\ Columns[c].align \in {"left", "right"}
    BY ColsFacts DEF Column
  <2> QED
    BY <2>1, <2>2, <2>3
<1>2. \A n, w \in Nat : /\ Printed(n, w, "left") \in [Parts -> Nat]
                        /\ SumFunction(Printed(n, w, "left")) = w
  BY PrintedType, PrintedIsWide
<1>3. \A c \in Cols : /\ HeaderLine[c] \in [Parts -> Nat]
                      /\ SumFunction(HeaderLine[c]) = widths[c]
                      /\ RuleLine[c] \in [Parts -> Nat]
                      /\ SumFunction(RuleLine[c]) = widths[c]
  <2> SUFFICES ASSUME NEW c \in Cols
               PROVE  /\ HeaderLine[c] \in [Parts -> Nat]
                      /\ SumFunction(HeaderLine[c]) = widths[c]
                      /\ RuleLine[c] \in [Parts -> Nat]
                      /\ SumFunction(RuleLine[c]) = widths[c]
    OBVIOUS
  <2>1. /\ HeaderLine[c] = Printed(Columns[c].header, widths[c], "left")
        /\ RuleLine[c] = Printed(widths[c], widths[c], "left")
    BY DEF HeaderLine, RuleLine
  <2>2. widths[c] \in Nat /\ Columns[c].header \in Nat
    BY <1>1
  <2> QED
    BY <1>2, <2>1, <2>2
<1>4. \A r \in DOMAIN rows, c \in Cols : /\ RowLine(r)[c] \in [Parts -> Nat]
                                         /\ SumFunction(RowLine(r)[c]) = widths[c]
  BY <1>1, PrintedType, PrintedIsWide DEF RowLine
<1>5. /\ HeaderLine = [c \in Cols |-> HeaderLine[c]] /\ RuleLine = [c \in Cols |-> RuleLine[c]]
      /\ \A r \in DOMAIN rows : RowLine(r) = [c \in Cols |-> RowLine(r)[c]]
  BY DEF HeaderLine, RuleLine, RowLine
<1> HIDE DEF HeaderLine, RuleLine, RowLine
<1>6. HeaderLine \in [Cols -> [Parts -> Nat]] /\ RuleLine \in [Cols -> [Parts -> Nat]]
      /\ \A r \in DOMAIN rows : RowLine(r) \in [Cols -> [Parts -> Nat]]
  BY <1>3, <1>4, <1>5
<1> QED
  BY <1>3, <1>4, <1>6 DEF WideLines

\* Nothing is on the page until the table is printed, and nothing touches the
\* widths after that.
PageInv ==
  /\ page \in Seq(WideLines(widths))
  /\ page # <<>> => pc \in {"printed", "cleanup", "exit"}

LEMMA PagePrint == TypeInv /\ PrintTable => PageInv'
<1> SUFFICES ASSUME TypeInv, PrintTable PROVE PageInv'
  OBVIOUS
<1> DEFINE W == WideLines(widths)
           body == [r \in DOMAIN rows |-> RowLine(r)]
<1>1. TableTypeOK /\ Len(rows) \in Nat /\ DOMAIN rows = 1 .. Len(rows)
  BY DEF TypeInv, TypeOK, TableTypeOK
<1>2. HeaderLine \in W /\ RuleLine \in W /\ \A r \in DOMAIN rows : RowLine(r) \in W
  BY <1>1, LinesAreWide
<1>3. page' = <<HeaderLine, RuleLine>> \o body /\ widths' = widths /\ pc' = "printed"
  BY DEF PrintTable
<1> HIDE DEF W
<1>4. body \in Seq(W)
  <2>1. \A r \in 1 .. Len(rows) : body[r] \in W
    BY <1>1, <1>2
  <2>2. body = [r \in 1 .. Len(rows) |-> body[r]]
    BY <1>1
  <2> HIDE DEF body
  <2>3. body \in [1 .. Len(rows) -> W]
    BY <2>1, <2>2
  <2> QED
    BY <1>1, <2>3
<1>5. <<HeaderLine, RuleLine>> \in Seq(W)
  BY <1>2
<1> HIDE DEF body
<1>6. <<HeaderLine, RuleLine>> \o body \in Seq(W)
  BY <1>4, <1>5
<1>7. WideLines(widths)' = W
  BY <1>3 DEF WideLines, W
<1> QED
  BY <1>3, <1>6, <1>7 DEF PageInv

LEMMA PageNext == TypeInv /\ PageInv /\ [Next]_vars => PageInv'
<1> SUFFICES ASSUME TypeInv, PageInv, [Next]_vars PROVE PageInv'
  OBVIOUS
<1> USE DEF vars, rowvars, copyvars, rendervars, phyvars, parsevars, tablevars
<1>1. CASE PrintTable
  BY <1>1, PagePrint
<1>2. CASE Measure \/ Shrink
  <2>1. page = <<>> /\ page' = <<>>
    BY <1>2 DEF PageInv, Measure, Shrink
  <2> QED
    BY <2>1 DEF PageInv
<1>3. CASE \/ UNCHANGED vars \/ PassEnds
           \/ OpenVapi \/ RequestDump \/ CollectEntry \/ CollectFails \/ CollectDone \/ FetchListing
           \/ (\E line \in Lines : ReadLine(line)) \/ ParseEnds
           \/ InitTable \/ AddPhyRow \/ RowsDone \/ Shown \/ Cleanup
           \/ CopyCell \/ CopyFails \/ RowCopied
  <2>1. /\ page' = page /\ widths' = widths
        /\ pc \in {"printed", "cleanup", "exit"} => pc' \in {"printed", "cleanup", "exit"}
    BY <1>3 DEF OpenVapi, RequestDump, CollectEntry, CollectFails, CollectDone, FetchListing, ReadLine,
       ParseEnds, InitTable, app_table_init, AddPhyRow, AddRow, RowsDone, Shown, Cleanup,
       CopyCell, CopyFails, RowCopied, PassEnds
  <2>2. WideLines(widths)' = WideLines(widths)
    BY <2>1 DEF WideLines
  <2> QED
    BY <2>1, <2>2 DEF PageInv
<1> QED
  BY <1>1, <1>2, <1>3 DEF Next, Command, Exited, TableWorks, TableStep

\* Every line that app_table_print_row prints is as wide as the rule under the
\* header, column by column.
THEOREM PageIsAligned == Spec => []Aligned
<1>1. Init => PageInv
  BY DEF Init, TableInit, PageInv
<1>2. PageInv => Aligned
  BY DEF PageInv, Aligned, WideLines
<1> QED
  BY <1>1, <1>2, TypeInvHolds, PageNext, PTL DEF Spec

-----------------------------------------------------------------------------
(* Families                                                                *)

\* The last heading before the end is the header of interface k.
UnderHeader(k) ==
  \E h \in 1 .. Len(listing) :
    /\ listing[h] = [kind |-> "header", what |-> dump[k].name]
    /\ \A m \in h + 1 .. Len(listing) : ~IsHeading(m)

\* The listing ends with an Ethernet address, blank lines aside.
AfterAddress ==
  \E e \in 1 .. Len(listing) :
    /\ listing[e].kind = "ethernet"
    /\ \A m \in e + 1 .. Len(listing) : listing[m].kind = "blank"

Found(k) == {n \in DOMAIN listing : Physical(dump[k]) /\ FamilyLine(n, k)}

\* What the loop over the lines carries along says of the lines read what it
\* should: whose lines these are, and whether a family may follow.
FamilyInv ==
  /\ pc \in {"open", "request", "collect", "fetch"} =>
       /\ listing = <<>>
       /\ \A k \in DOMAIN interfaces : interfaces[k].card_family = dump[k].dev_type
  /\ pc \in {"fetch", "parse"} => Len(interfaces) = Len(dump)
  /\ pc = "parse" =>
       /\ \A k \in DOMAIN dump : current = k <=> Physical(dump[k]) /\ UnderHeader(k)
       /\ expect_family <=> current # 0 /\ AfterAddress
       /\ \A k \in DOMAIN dump : interfaces[k].card_family = Family(k)

\* The family is what the last line says that gives one, or the device type.
FamilySays(k) ==
  /\ Found(k) = {} => Family(k) = dump[k].dev_type
  /\ \A n \in Found(k) : (\A m \in Found(k) : m <= n) => Family(k) = listing[n].what
  /\ Found(k) # {} => \E n \in Found(k) : \A m \in Found(k) : m <= n

FamiliesSay == \A k : FamilySays(k)

LEMMA FamilyIs == TypeInv => FamiliesSay
<1> USE DEF FamiliesSay, FamilySays
<1> SUFFICES ASSUME TypeInv, NEW k
             PROVE  /\ Found(k) = {} => Family(k) = dump[k].dev_type
                    /\ \A n \in Found(k) : (\A m \in Found(k) : m <= n) => Family(k) = listing[n].what
                    /\ Found(k) # {} => \E n \in Found(k) : \A m \in Found(k) : m <= n
  OBVIOUS
<1>1. Family(k) = IF Found(k) = {} THEN dump[k].dev_type
                  ELSE listing[CHOOSE n \in Found(k) : \A m \in Found(k) : m <= n].what
  BY Zenon DEF Family, Found
<1>2. Found(k) \in SUBSET Nat /\ IsFiniteSet(Found(k))
  <2>1. IsFiniteSet(1 .. Len(listing)) /\ Len(listing) \in Nat
    BY FS_Interval DEF TypeInv
  <2>2. Found(k) \in SUBSET (1 .. Len(listing))
    BY DEF Found
  <2> QED
    BY <2>1, <2>2, FS_Subset
<1> HIDE DEF Found
<1>3. Found(k) # {} => \E n \in Found(k) : \A m \in Found(k) : m <= n
  BY <1>2, GreatestOfSet
<1>4. ASSUME NEW n \in Found(k), \A m \in Found(k) : m <= n
      PROVE  n = CHOOSE x \in Found(k) : \A m \in Found(k) : m <= x
  <2>1. \A x \in Found(k) : (\A m \in Found(k) : m <= x) => x = n
    BY <1>2, <1>4
  <2> QED
    BY <1>4, <2>1
<1> QED
  BY <1>1, <1>3, <1>4

LEMMA FamilyIsNext == TypeInv' => FamiliesSay'
  BY FamilyIs, PTL

\* One more line.
Reading(line) ==
  /\ pc = "parse" /\ pc' = "parse" /\ line \in Lines
  /\ listing \in Seq(Lines) /\ listing' = Append(listing, line)
  /\ dump' = dump /\ dump \in Dumps

LEMMA ReadingFacts ==
  ASSUME NEW line, Reading(line)
  PROVE  /\ Len(listing) \in Nat /\ Len(listing') = Len(listing) + 1
         /\ DOMAIN listing = 1 .. Len(listing) /\ DOMAIN listing' = 1 .. Len(listing) + 1
         /\ listing' \in Seq(Lines)
         /\ listing'[Len(listing) + 1] = line
         /\ \A m \in 1 .. Len(listing) : listing'[m] = listing[m]
         /\ line.kind \in LineKinds /\ line = [kind |-> line.kind, what |-> line.what]
<1>1. line \in Lines /\ listing \in Seq(Lines) /\ listing' = Append(listing, line)
  BY DEF Reading
<1> DEFINE longer == Append(listing, line)
<1>2. longer \in Seq(Lines)
  BY <1>1
<1>3. /\ Len(listing) \in Nat /\ Len(longer) = Len(listing) + 1
      /\ DOMAIN listing = 1 .. Len(listing) /\ DOMAIN longer = 1 .. Len(listing) + 1
      /\ longer[Len(listing) + 1] = line
      /\ \A m \in 1 .. Len(listing) : longer[m] = listing[m]
  BY <1>1
<1>4. line \in [kind : LineKinds, what : STRING]
  BY <1>1, ShowPhyAssumption
<1>5. line.kind \in LineKinds /\ line = [kind |-> line.kind, what |-> line.what]
  BY <1>4
<1> HIDE DEF longer
<1>6. listing' = longer
  BY <1>1 DEF longer
<1> QED
  BY <1>2, <1>3, <1>5, <1>6

\* Lines read before give what they gave.
LEMMA FamilyLineStays ==
  ASSUME NEW line, Reading(line), NEW m \in 1 .. Len(listing), NEW k
  PROVE  FamilyLine(m, k)' <=> FamilyLine(m, k)
<1>1. \A n \in 1 .. m : listing'[n] = listing[n] /\ (IsHeading(n)' <=> IsHeading(n))
  BY ReadingFacts DEF IsHeading
<1>2. m \in Nat /\ m >= 1 /\ dump' = dump
  BY ReadingFacts DEF Reading
<1>3. /\ \A h \in 1 .. m - 1 : h \in 1 .. m
      /\ \A h \in 1 .. m - 1 : \A x \in h + 1 .. m : x \in 1 .. m
      /\ \A h \in 1 .. m - 1 : \A x \in h + 1 .. m - 1 : x \in 1 .. m
      /\ m \in 1 .. m
  BY <1>2
<1>4. \A h \in 1 .. m - 1 : /\ listing'[h] = listing[h]
                            /\ (\A x \in h + 1 .. m : ~IsHeading(x)')
                                 <=> \A x \in h + 1 .. m : ~IsHeading(x)
                            /\ (\A x \in h + 1 .. m - 1 : listing'[x].kind = "blank")
                                 <=> \A x \in h + 1 .. m - 1 : listing[x].kind = "blank"
  BY <1>1, <1>3
<1>5. FamilyLine(m, k)' <=>
        /\ listing'[m].kind = "text"
        /\ \E h \in 1 .. m - 1 : /\ listing'[h] = [kind |-> "header", what |-> dump'[k].name]
                                 /\ \A x \in h + 1 .. m : ~IsHeading(x)'
        /\ \E e \in 1 .. m - 1 : /\ listing'[e].kind = "ethernet"
                                 /\ \A x \in e + 1 .. m - 1 : listing'[x].kind = "blank"
  BY DEF FamilyLine
<1>6. listing'[m] = listing[m]
  BY <1>1, <1>3
<1> QED
  BY <1>2, <1>4, <1>5, <1>6 DEF FamilyLine

LEMMA LastFamilyLine ==
  ASSUME NEW line, Reading(line), NEW k, NEW n, n = Len(listing) + 1
  PROVE  FamilyLine(n, k)' <=> line.kind = "text" /\ UnderHeader(k) /\ AfterAddress
<1>1. /\ n \in Nat /\ n - 1 = Len(listing) /\ listing'[n] = line /\ dump' = dump
      /\ \A m \in 1 .. n - 1 : listing'[m] = listing[m] /\ (IsHeading(m)' <=> IsHeading(m))
  BY ReadingFacts DEF IsHeading, Reading
<1>2. line.kind = "text" => ~IsHeading(n)'
  BY <1>1 DEF IsHeading
<1>3. ASSUME line.kind = "text"
      PROVE  (\E h \in 1 .. n - 1 : /\ listing'[h] = [kind |-> "header", what |-> dump'[k].name]
                                    /\ \A m \in h + 1 .. n : ~IsHeading(m)')
             <=> UnderHeader(k)
  <2>1. \A h \in 1 .. n - 1 : (\A m \in h + 1 .. n : ~IsHeading(m)')
                                <=> \A m \in h + 1 .. n - 1 : ~IsHeading(m)
    <3>1. \A h \in 1 .. n - 1 : \A m \in h + 1 .. n : m = n \/ m \in h + 1 .. n - 1
      BY <1>1
    <3>2. \A h \in 1 .. n - 1 : \A m \in h + 1 .. n - 1 : m \in 1 .. n - 1 /\ m \in h + 1 .. n
      BY <1>1
    <3> QED
      BY <1>1, <1>2, <1>3, <3>1, <3>2
  <2> QED
    BY <1>1, <2>1 DEF UnderHeader
<1>4. (\E e \in 1 .. n - 1 : /\ listing'[e].kind = "ethernet"
                             /\ \A m \in e + 1 .. n - 1 : listing'[m].kind = "blank")
        <=> AfterAddress
  <2>1. \A e \in 1 .. n - 1 : \A m \in e + 1 .. n - 1 : m \in 1 .. n - 1
    BY <1>1
  <2> QED
    BY <1>1, <2>1 DEF AfterAddress
<1>5. FamilyLine(n, k)' <=>
        /\ listing'[n].kind = "text"
        /\ \E h \in 1 .. n - 1 : /\ listing'[h] = [kind |-> "header", what |-> dump'[k].name]
                                 /\ \A m \in h + 1 .. n : ~IsHeading(m)'
        /\ \E e \in 1 .. n - 1 : /\ listing'[e].kind = "ethernet"
                                 /\ \A m \in e + 1 .. n - 1 : listing'[m].kind = "blank"
  BY DEF FamilyLine
<1> QED
  BY <1>1, <1>3, <1>4, <1>5

\* What the loop carries along says after one more line what it should.
LEMMA UnderHeaderNext ==
  ASSUME NEW line, Reading(line), NEW k
  PROVE  UnderHeader(k)' <=> IF line.kind = "header" THEN line.what = dump[k].name
                             ELSE line.kind # "section" /\ UnderHeader(k)
<1> DEFINE n == Len(listing)
           Last(h) == \A m \in h + 1 .. n + 1 : ~IsHeading(m)'
           LastSoFar(h) == \A m \in h + 1 .. n : ~IsHeading(m)
<1>1. /\ n \in Nat /\ Len(listing') = n + 1 /\ listing'[n + 1] = line /\ dump' = dump
      /\ \A m \in 1 .. n : listing'[m] = listing[m] /\ (IsHeading(m)' <=> IsHeading(m))
      /\ \A m : m = n + 1 => (IsHeading(m)' <=> line.kind \in {"header", "section"})
  BY ReadingFacts DEF IsHeading, Reading
<1>2. UnderHeader(k)' <=> \E h \in 1 .. n + 1 : listing'[h] = [kind |-> "header", what |-> dump[k].name]
                                                /\ Last(h)
  BY <1>1 DEF UnderHeader
<1>3. UnderHeader(k) <=> \E h \in 1 .. n : listing[h] = [kind |-> "header", what |-> dump[k].name]
                                           /\ LastSoFar(h)
  BY DEF UnderHeader
<1>4. Last(n + 1)
  BY <1>1
<1>5. ASSUME NEW h \in 1 .. n
      PROVE  Last(h) <=> LastSoFar(h) /\ line.kind \notin {"header", "section"}
  <2>1. \A m : m \in h + 1 .. n + 1 <=> m \in h + 1 .. n \/ m = n + 1
    BY <1>1
  <2>2. \A m \in h + 1 .. n : m \in 1 .. n
    BY <1>1
  <2> QED
    BY <1>1, <2>1, <2>2
<1>6. \A h : h \in 1 .. n + 1 <=> h \in 1 .. n \/ h = n + 1
  BY <1>1
<1>7. line = [kind |-> "header", what |-> dump[k].name]
        <=> line.kind = "header" /\ line.what = dump[k].name
  <2>1. line = [kind |-> line.kind, what |-> line.what]
    BY ReadingFacts
  <2> QED
    BY <2>1
<1> HIDE DEF Last, LastSoFar
<1>8. UnderHeader(k)' <=> \/ line = [kind |-> "header", what |-> dump[k].name]
                          \/ UnderHeader(k) /\ line.kind \notin {"header", "section"}
  BY <1>1, <1>2, <1>3, <1>4, <1>5, <1>6
<1> QED
  BY <1>7, <1>8

LEMMA AfterAddressNext ==
  ASSUME NEW line, Reading(line)
  PROVE  AfterAddress' <=> \/ line.kind = "ethernet"
                           \/ line.kind = "blank" /\ AfterAddress
<1> DEFINE n == Len(listing)
           Last(e) == \A m \in e + 1 .. n + 1 : listing'[m].kind = "blank"
           LastSoFar(e) == \A m \in e + 1 .. n : listing[m].kind = "blank"
<1>1. /\ n \in Nat /\ Len(listing') = n + 1 /\ listing'[n + 1] = line
      /\ \A m \in 1 .. n : listing'[m] = listing[m]
  BY ReadingFacts
<1>2. AfterAddress' <=> \E e \in 1 .. n + 1 : listing'[e].kind = "ethernet" /\ Last(e)
  BY <1>1 DEF AfterAddress
<1>3. AfterAddress <=> \E e \in 1 .. n : listing[e].kind = "ethernet" /\ LastSoFar(e)
  BY DEF AfterAddress
<1>4. Last(n + 1)
  BY <1>1
<1>5. ASSUME NEW e \in 1 .. n
      PROVE  Last(e) <=> LastSoFar(e) /\ line.kind = "blank"
  <2>1. \A m : m \in e + 1 .. n + 1 <=> m \in e + 1 .. n \/ m = n + 1
    BY <1>1
  <2>2. \A m \in e + 1 .. n : m \in 1 .. n
    BY <1>1
  <2> QED
    BY <1>1, <2>1, <2>2
<1>6. \A e : e \in 1 .. n + 1 <=> e \in 1 .. n \/ e = n + 1
  BY <1>1
<1> HIDE DEF Last, LastSoFar
<1> QED
  BY <1>1, <1>2, <1>3, <1>4, <1>5, <1>6

\* The interfaces held have the names and types of the dump, and a name finds
\* the only interface that has it.
LEMMA NamedInDump ==
  ASSUME TypeInv, Len(interfaces) = Len(dump), NEW k \in DOMAIN dump, NEW name
  PROVE  /\ k \in DOMAIN interfaces /\ k \in Nat \ {0}
         /\ Named(name) = k <=> dump[k].name = name
         /\ Physical(interfaces[k]) <=> Physical(dump[k])
<1>1. /\ interfaces \in Seq(Entries) /\ dump \in Dumps
      /\ DOMAIN interfaces = 1 .. Len(dump) /\ DOMAIN dump = 1 .. Len(dump) /\ Len(dump) \in Nat
  <2>1. interfaces \in Seq(Entries) /\ dump \in Dumps
    BY DEF TypeInv, TypeOK
  <2> QED
    BY <2>1, DumpFacts
<1>2. \A j \in 1 .. Len(dump) : /\ interfaces[j].name = dump[j].name
                                /\ interfaces[j].type = dump[j].type
  BY <1>1 DEF TypeInv, Carried, EntryFields
<1>3. \A j \in 1 .. Len(dump) : dump[j].name = dump[k].name => j = k
  BY <1>1, NamesAssumption
<1>4. /\ Named(name) \in 0 .. Len(interfaces)
      /\ Named(name) # 0 => interfaces[Named(name)].name = name
      /\ Named(name) = 0 => \A j \in DOMAIN interfaces : interfaces[j].name # name
  BY <1>1, NamedIs
<1> QED
  BY <1>1, <1>2, <1>3, <1>4 DEF Physical

LEMMA CurrentNext ==
  ASSUME TypeInv, FamilyInv, NEW line \in Lines, ReadLine(line), NEW k \in DOMAIN dump
  PROVE  current' = k <=> Physical(dump[k]) /\ UnderHeader(k)'
<1>1. /\ Reading(line) /\ pc = "parse" /\ current' = CurrentAfter(line)
      /\ Len(interfaces) = Len(dump)
  BY DEF TypeInv, TypeOK, FamilyInv, ReadLine, Reading
<1>2. current = k <=> Physical(dump[k]) /\ UnderHeader(k)
  BY <1>1 DEF FamilyInv
<1>3. UnderHeader(k)' <=> IF line.kind = "header" THEN line.what = dump[k].name
                          ELSE line.kind # "section" /\ UnderHeader(k)
  BY <1>1, UnderHeaderNext
<1>4. /\ k \in Nat \ {0}
      /\ Named(line.what) = k <=> dump[k].name = line.what
      /\ Physical(interfaces[k]) <=> Physical(dump[k])
  BY <1>1, NamedInDump
<1> QED
  BY <1>1, <1>2, <1>3, <1>4 DEF CurrentAfter

LEMMA ExpectNext ==
  ASSUME TypeInv, FamilyInv, NEW line \in Lines, ReadLine(line)
  PROVE  expect_family' <=> current' # 0 /\ AfterAddress'
<1>1. /\ Reading(line) /\ pc = "parse" /\ current' = CurrentAfter(line)
      /\ expect_family' = ExpectAfter(line) /\ expect_family \in BOOLEAN
  BY DEF TypeInv, TypeOK, ReadLine, Reading
<1>2. expect_family <=> current # 0 /\ AfterAddress
  BY <1>1 DEF FamilyInv
<1>3. AfterAddress' <=> \/ line.kind = "ethernet"
                        \/ line.kind = "blank" /\ AfterAddress
  BY <1>1, AfterAddressNext
<1>4. line.kind \in LineKinds
  BY <1>1, ReadingFacts
<1> QED
  BY <1>1, <1>2, <1>3, <1>4 DEF CurrentAfter, ExpectAfter, LineKinds

\* The families after one more line.
LEMMA FamilyNext ==
  ASSUME TypeInv, TypeInv', FamilyInv, NEW line \in Lines, ReadLine(line),
         NEW k \in DOMAIN dump
  PROVE  interfaces'[k].card_family = Family(k)'
<1> DEFINE n == Len(listing) + 1
<1>1. /\ Reading(line) /\ pc = "parse" /\ Len(interfaces) = Len(dump) /\ dump' = dump
      /\ interfaces[k].card_family = Family(k)
  BY DEF TypeInv, TypeOK, FamilyInv, ReadLine, Reading
<1>2. /\ n \in Nat /\ Len(listing) \in Nat /\ DOMAIN listing' = 1 .. n
      /\ DOMAIN listing = 1 .. Len(listing) /\ listing'[n] = line
      /\ \A m \in 1 .. Len(listing) : listing'[m] = listing[m]
  BY <1>1, ReadingFacts
<1>3. TakesFamily(line) /\ k = current
        <=> Physical(dump[k]) /\ line.kind = "text" /\ UnderHeader(k) /\ AfterAddress
  <2>1. /\ current = k <=> Physical(dump[k]) /\ UnderHeader(k)
        /\ expect_family <=> current # 0 /\ AfterAddress
    BY <1>1 DEF FamilyInv
  <2>2. k # 0
    BY <1>1, NamedInDump
  <2> QED
    BY <2>1, <2>2 DEF TakesFamily
<1>4. \A m \in 1 .. Len(listing) : m \in Found(k)' <=> m \in Found(k)
  <2>1. \A m \in 1 .. Len(listing) : FamilyLine(m, k)' <=> FamilyLine(m, k)
    BY <1>1, FamilyLineStays
  <2>2. Physical(dump[k])' <=> Physical(dump[k])
    BY <1>1 DEF Physical
  <2>3. \A m \in 1 .. Len(listing) : m \in 1 .. n
    BY <1>2
  <2> QED
    BY <1>2, <2>1, <2>2, <2>3 DEF Found
<1>5. n \in Found(k)' <=> TakesFamily(line) /\ k = current
  <2>1. \A m : m = n => (FamilyLine(m, k)' <=> line.kind = "text" /\ UnderHeader(k) /\ AfterAddress)
    BY <1>1, LastFamilyLine
  <2>2. Physical(dump[k])' <=> Physical(dump[k])
    BY <1>1 DEF Physical
  <2>3. \A m : m \in Found(k)' <=> m \in DOMAIN listing' /\ Physical(dump[k])' /\ FamilyLine(m, k)'
    BY DEF Found
  <2>4. n \in DOMAIN listing'
    BY <1>2
  <2> QED
    BY <1>3, <2>1, <2>2, <2>3, <2>4
<1>6. /\ \A m \in Found(k)' : m \in Nat /\ (m \in 1 .. Len(listing) \/ m = n)
      /\ \A m \in Found(k) : m \in 1 .. Len(listing) /\ m \in Nat
  BY <1>2 DEF Found
<1>7. /\ FamilySays(k) /\ FamilySays(k)'
  BY FamilyIs, FamilyIsNext DEF FamiliesSay
<1>8. interfaces'[k] = IF TakesFamily(line) /\ k = current
                         THEN [interfaces[k] EXCEPT !.card_family = line.what]
                         ELSE interfaces[k]
  <2>1. k \in DOMAIN interfaces
    BY <1>1, NamedInDump
  <2>2. PhyTypeOK /\ HeldTypeOK
    BY TypeParts
  <2> QED
    BY <2>1, <2>2, ReadLineHolds
<1> HIDE DEF Found, n
<1>9. CASE TakesFamily(line) /\ k = current
  <2>1. \A m \in Found(k)' : m <= n
    BY <1>2, <1>6 DEF n
  <2>2. Family(k)' = line.what
    BY <1>2, <1>5, <1>7, <1>9, <2>1 DEF FamilySays
  <2>3. interfaces[k] \in Entries
    <3>1. k \in DOMAIN interfaces /\ interfaces \in Seq(Entries)
      BY <1>1, NamedInDump DEF TypeInv
    <3> QED
      BY <3>1
  <2> QED
    BY <1>8, <1>9, <2>2, <2>3 DEF Entries, EntryFields
<1>10. CASE ~(TakesFamily(line) /\ k = current)
  <2>1. Found(k)' = Found(k)
    BY <1>4, <1>5, <1>6, <1>10
  <2>2. Family(k)' = Family(k)
    <3>1. CASE Found(k) = {}
      BY <1>1, <1>7, <2>1, <3>1 DEF FamilySays
    <3>2. CASE Found(k) # {}
      <4>1. PICK g \in Found(k) : \A m \in Found(k) : m <= g
        BY <1>7, <3>2 DEF FamilySays
      <4>2. Family(k) = listing[g].what /\ Family(k)' = listing'[g].what
        BY <1>7, <2>1, <4>1 DEF FamilySays
      <4> QED
        BY <1>2, <1>6, <4>2
    <3> QED
      BY <3>1, <3>2
  <2> QED
    BY <1>1, <1>8, <1>10, <2>2
<1> QED
  BY <1>9, <1>10

LEMMA FamilyReadLine ==
  ASSUME TypeInv, TypeInv', FamilyInv, NEW line \in Lines, ReadLine(line)
  PROVE  FamilyInv'
<1>1. /\ pc' = "parse" /\ Len(interfaces') = Len(interfaces) /\ dump' = dump
      /\ Len(interfaces) = Len(dump)
  <2>1. PhyTypeOK /\ HeldTypeOK
    BY TypeParts
  <2> QED
    BY <2>1, ReadLineHolds DEF ReadLine, FamilyInv
<1>2. \A k \in DOMAIN dump' : current' = k <=> Physical(dump'[k]) /\ UnderHeader(k)'
  BY <1>1, CurrentNext
<1>3. expect_family' <=> current' # 0 /\ AfterAddress'
  BY ExpectNext
<1>4. \A k \in DOMAIN dump' : interfaces'[k].card_family = Family(k)'
  BY <1>1, FamilyNext
<1> QED
  BY <1>1, <1>2, <1>3, <1>4 DEF FamilyInv, Physical

\* An interface that was just dumped has its device type for a family.
LEMMA FamilyCollectEntry == TypeInv /\ FamilyInv /\ CollectEntry => FamilyInv'
<1> SUFFICES ASSUME TypeInv, FamilyInv, CollectEntry PROVE FamilyInv'
  OBVIOUS
<1> DEFINE n == Len(interfaces) + 1
           reply == dump[n]
           entry == [f \in DOMAIN reply \cup {"card_family"} |->
                       IF f = "card_family" THEN reply.dev_type ELSE reply[f]]
<1>1. /\ interfaces' = Append(interfaces, entry) /\ dump' = dump /\ listing' = listing
      /\ pc = "collect" /\ pc' = "collect" /\ interfaces \in Seq(Entries)
      /\ n \in 1 .. Len(dump) /\ dump \in Dumps
  BY DumpFacts DEF CollectEntry, TypeInv, TypeOK, parsevars
<1>2. reply \in Details
  BY <1>1, DumpFacts
<1>3. entry \in Entries /\ entry["card_family"] = reply.dev_type
  BY <1>2, EntryIs
<1> HIDE DEF entry
<1>4. /\ DOMAIN interfaces' = 1 .. n /\ interfaces'[n] = entry
      /\ \A k \in 1 .. Len(interfaces) : interfaces'[k] = interfaces[k]
      /\ \A k \in 1 .. n : k = n \/ k \in 1 .. Len(interfaces)
      /\ DOMAIN interfaces = 1 .. Len(interfaces)
  BY <1>1, <1>3
<1>5. \A k \in 1 .. n : interfaces'[k].card_family = dump'[k].dev_type
  BY <1>1, <1>3, <1>4 DEF FamilyInv
<1> QED
  BY <1>1, <1>4, <1>5 DEF FamilyInv

\* Before the first line nobody's lines have begun.
LEMMA FamilyFetchListing == TypeInv /\ TypeInv' /\ FamilyInv /\ FetchListing => FamilyInv'
<1> SUFFICES ASSUME TypeInv, TypeInv', FamilyInv, FetchListing, pc' = "parse"
             PROVE  FamilyInv'
  BY DEF FetchListing, FamilyInv
<1>1. /\ listing' = <<>> /\ dump' = dump /\ interfaces' = interfaces
      /\ current' = 0 /\ expect_family' = FALSE
      /\ Len(interfaces) = Len(dump) /\ interfaces \in Seq(Entries)
      /\ \A k \in DOMAIN interfaces : interfaces[k].card_family = dump[k].dev_type
  BY DEF FetchListing, FamilyInv, TypeInv, parsevars
<1>2. DOMAIN interfaces = DOMAIN dump /\ DOMAIN dump = 1 .. Len(dump) /\ Len(dump) \in Nat
  <2>1. dump \in Dumps
    BY DEF TypeInv, TypeOK
  <2> QED
    BY <1>1, <2>1, DumpFacts
<1>3. Len(listing') = 0 /\ DOMAIN listing' = {} /\ 1 .. Len(listing') = {}
  BY <1>1
<1>4. \A k : ~UnderHeader(k)' /\ Found(k)' = {}
  BY <1>3 DEF UnderHeader, Found
<1>5. \A k : Family(k)' = dump[k].dev_type
  BY <1>1, <1>4, FamilyIsNext DEF FamiliesSay, FamilySays
<1>6. \A k \in DOMAIN dump : k # 0
  BY <1>2
<1> QED
  BY <1>1, <1>2, <1>4, <1>5, <1>6 DEF FamilyInv

LEMMA FamilyInvNext == TypeInv /\ TypeInv' /\ FamilyInv /\ [Next]_vars => FamilyInv'
<1> SUFFICES ASSUME TypeInv, TypeInv', FamilyInv, [Next]_vars PROVE FamilyInv'
  OBVIOUS
<1> USE DEF vars, rowvars, copyvars, rendervars, phyvars, parsevars, tablevars
<1>1. CASE \E line \in Lines : ReadLine(line)
  BY <1>1, FamilyReadLine
<1>2. CASE CollectEntry
  BY <1>2, FamilyCollectEntry
<1>3. CASE FetchListing
  BY <1>3, FamilyFetchListing
<1>4. CASE OpenVapi \/ RequestDump
  BY <1>4 DEF OpenVapi, RequestDump, FamilyInv
<1>5. CASE CollectDone
  BY <1>5 DEF CollectDone, FamilyInv
<1>6. CASE \/ CollectFails \/ ParseEnds \/ InitTable \/ AddPhyRow \/ RowsDone \/ TableWorks
           \/ Shown \/ Cleanup
  <2>1. pc' \notin {"open", "request", "collect", "fetch", "parse"}
    BY <1>6 DEF CollectFails, ParseEnds, InitTable, app_table_init, AddPhyRow, AddRow, RowsDone,
       Shown, Cleanup, TableWorks, TableStep, CopyCell, CopyFails, RowCopied, Measure, Shrink,
       PassEnds, PrintTable
  <2> QED
    BY <2>1 DEF FamilyInv
<1>7. CASE UNCHANGED vars
  <2>1. \A k : Family(k)' = Family(k) /\ UnderHeader(k)' = UnderHeader(k)
    BY <1>7 DEF Family, FamilyLine, IsHeading, UnderHeader, Physical
  <2>2. AfterAddress' = AfterAddress
    BY <1>7 DEF AfterAddress
  <2> QED
    BY <1>7, <2>1, <2>2 DEF FamilyInv, Physical
<1> QED
  BY <1>1, <1>2, <1>3, <1>4, <1>5, <1>6, <1>7 DEF Next, Command, Exited

\* boy_override_card_family_from_cli_output gives every interface the family
\* that the listing gives it and no other's, or leaves it its device type,
\* after every line, for any listing.
THEOREM FamiliesAreListed == Spec => []FamiliesAsListed
<1>1. Init => FamilyInv
  BY DEF Init, FamilyInv
<1>2. FamilyInv => FamiliesAsListed
  BY DEF FamilyInv, FamiliesAsListed
<1> QED
  BY <1>1, <1>2, TypeInvHolds, FamilyInvNext, PTL DEF Spec
=============================================================================
