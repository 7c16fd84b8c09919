------------------------------- MODULE Table -------------------------------
(***************************************************************************)
(* The output tables of boy (common/table.c): rows of text are copied into *)
(* the table, then the columns are fitted to the terminal and printed.     *)
(*                                                                         *)
(* Text is known by its length.  Every allocation is a block of the heap   *)
(* and may fail, so that a row may be given up after any of its cells.  A  *)
(* command that shows a table takes these steps between steps of its own   *)
(* and shares pc with them: it adds rows at "rows" and goes on at          *)
(* "printed", or at "cleanup" when the table reports an error.             *)
(***************************************************************************)
EXTENDS Integers, Sequences, Functions

CONSTANTS
  Columns,        \* the columns: lengths of headers, limits, alignment
  FirstCapacity,  \* entries of the first allocation of a growing array
  Terminals,      \* widths that COLUMNS or the terminal may give
  Faults          \* failures that may happen

Gap  == 2   \* APP_TABLE_COLUMN_GAP
Dots == 3   \* the length of "..."

Column == [header : Nat, min_width : Nat, max_width : Nat, is_flexible : BOOLEAN,
           align : {"left", "right"}]

ASSUME TableAssumption ==
  /\ Columns \in Seq(Column) /\ Columns # <<>>
  /\ FirstCapacity \in Nat \ {0}
  /\ Terminals \subseteq Nat \ {0}

VARIABLES
  pc,           \* where the command stands
  heap,         \* the blocks that are allocated
  bad_free,     \* history: something was freed that was not allocated
  rows,         \* table->rows, the counted ones, as lengths of the cells
  row_capacity, \* table->row_capacity
  new_row,      \* the row being copied
  copied,       \* how many of its cells have been
  terminal,     \* width of the terminal
  widths,       \* widths[] of app_table_render
  overflow,     \* how much too wide the table is
  col, reduced, \* the column a pass is at; whether the pass has shrunk one
  page          \* the lines printed, as sequences of cells

rowvars    == <<rows, row_capacity>>
copyvars   == <<new_row, copied>>
rendervars == <<terminal, widths, overflow, col, reduced, page>>
tablevars  == <<heap, bad_free, rowvars, copyvars, rendervars>>

Cols == DOMAIN Columns

-----------------------------------------------------------------------------
(* Allocation                                                              *)

\* The capacity of an array that has to hold so many entries: the first one, or
\* twice the old one, doubled until it is enough.
Grown(capacity, required) ==
  LET first  == IF capacity = 0 THEN FirstCapacity ELSE 2 * capacity
      enough == {n \in {first * 2 ^ k : k \in 1 .. required} : n >= required}
  IN  CASE capacity >= required -> capacity
        [] capacity < required /\ first >= required -> first
        [] OTHER -> CHOOSE n \in enough : \A m \in enough : n <= m

OutOfMemory == "memory" \in Faults

Allocate(blocks) == heap' = heap \cup blocks /\ UNCHANGED bad_free

Free(blocks) ==
  /\ heap' = heap \ blocks
  /\ bad_free' = (bad_free \/ ~ blocks \subseteq heap)

\* What app_table_add_row holds for row r once it has copied n cells.
RowBlocks(r, n) == {<<"cells", r>>} \cup {<<"cell", r, j>> : j \in 1 .. n}

\* What app_table_free frees: what the counts and pointers of the table reach.
TableBlocks ==
  {<<"columns">>} \cup (IF row_capacity > 0 THEN {<<"rows">>} ELSE {})
    \cup UNION {RowBlocks(r, Len(Columns)) : r \in DOMAIN rows}

-----------------------------------------------------------------------------
(* app_table_init and app_table_free                                       *)

app_table_init ==
  /\ pc = "init"
  /\ \/ pc' = "rows" /\ Allocate({<<"columns">>})
     \/ OutOfMemory /\ pc' = "cleanup" /\ UNCHANGED <<heap, bad_free>>
  /\ UNCHANGED <<rowvars, copyvars, rendervars>>

\* Frees the table, and with it what else the caller frees in the same step.
app_table_free(others) ==
  /\ Free(TableBlocks \cup others)
  /\ rows' = <<>> /\ row_capacity' = 0

-----------------------------------------------------------------------------
(* app_table_add_row                                                       *)

\* Room for the row and for its pointers; the caller comes from "rows".
AddRow(cells) ==
  /\ pc = "rows"
  /\ \/ /\ pc' = "copy"
        /\ row_capacity' = Grown(row_capacity, Len(rows) + 1)
        /\ Allocate({<<"rows">>} \cup RowBlocks(Len(rows) + 1, 0))
        /\ new_row' = cells /\ copied' = 0
     \/ /\ OutOfMemory /\ row_capacity < Len(rows) + 1   \* realloc fails
        /\ pc' = "cleanup"
        /\ UNCHANGED <<heap, bad_free, row_capacity, copyvars>>
     \/ /\ OutOfMemory                                   \* calloc fails
        /\ pc' = "cleanup"
        /\ row_capacity' = Grown(row_capacity, Len(rows) + 1)
        /\ Allocate({<<"rows">>})
        /\ UNCHANGED copyvars
  /\ UNCHANGED <<rows, rendervars>>

CopyCell ==
  /\ pc = "copy" /\ copied < Len(Columns)
  /\ Allocate({<<"cell", Len(rows) + 1, copied + 1>>})
  /\ copied' = copied + 1
  /\ UNCHANGED <<pc, rowvars, new_row, rendervars>>

\* Seeded fault: the row counts from its first cell on.
CopyFailsCounted ==
  /\ pc = "copy" /\ copied < Len(Columns) /\ OutOfMemory
  /\ Free(RowBlocks(Len(rows) + 1, copied))
  /\ rows' = Append(rows, new_row)
  /\ new_row' = <<>> /\ copied' = 0
  /\ pc' = "cleanup"
  /\ UNCHANGED <<row_capacity, rendervars>>

\* The cells copied so far are freed, and the row is not counted.
CopyFails ==
  /\ pc = "copy" /\ copied < Len(Columns) /\ OutOfMemory
  /\ Free(RowBlocks(Len(rows) + 1, copied))
  /\ new_row' = <<>> /\ copied' = 0
  /\ pc' = "cleanup"
  /\ UNCHANGED <<rowvars, rendervars>>

RowCopied ==
  /\ pc = "copy" /\ copied = Len(Columns)
  /\ rows' = Append(rows, new_row)
  /\ new_row' = <<>> /\ copied' = 0
  /\ pc' = "rows"
  /\ UNCHANGED <<heap, bad_free, row_capacity, rendervars>>

-----------------------------------------------------------------------------
(* app_table_render                                                        *)

\* app_table_clamp_width
Clamp(width, column) ==
  LET least == IF width < column.min_width THEN column.min_width ELSE width
  IN  IF column.max_width # 0 /\ least > column.max_width THEN column.max_width ELSE least

\* The longest text of a column, the header being one.
Longest(c) ==
  LET lengths == {Columns[c].header} \cup {rows[r][c] : r \in DOMAIN rows}
  IN  CHOOSE n \in lengths : \A m \in lengths : m <= n

\* The widths the columns would like to have.
NaturalWidths == [c \in Cols |-> Clamp(Longest(c), Columns[c])]

Total(w) == SumFunction(w) + Gap * (Len(Columns) - 1)

\* app_table_detect_terminal_width: what COLUMNS or the terminal says, or the
\* default.
DetectedWidths == Terminals \cup {120}

\* Without memory for the widths nothing is printed, which is no error.
Measure ==
  /\ pc = "measure"
  /\ \/ /\ widths' = NaturalWidths
        /\ terminal' \in DetectedWidths
        /\ overflow' = IF Total(widths') > terminal' THEN Total(widths') - terminal' ELSE 0
        /\ pc' = IF overflow' > 0 THEN "flexible" ELSE "print"
        /\ Allocate({<<"widths">>})
     \/ /\ OutOfMemory /\ pc' = "printed"
        /\ UNCHANGED <<terminal, widths, overflow, heap, bad_free>>
  /\ col' = 1 /\ reduced' = FALSE
  /\ UNCHANGED <<rowvars, copyvars, page>>

\* Seeded fault: in the first pass every column is shrunk.
MayShrinkAny(c) ==
  IF pc = "flexible" THEN widths[c] > Columns[c].min_width ELSE widths[c] > Dots

\* Seeded fault: the last resort shrinks down to nothing, and beyond.
MayShrinkAlways(c) ==
  IF pc = "flexible"
    THEN Columns[c].is_flexible /\ widths[c] > Columns[c].min_width ELSE TRUE

\* The first pass takes from flexible columns down to their minimum, the
\* other one from all columns down to the width of the dots.
MayShrink(c) ==
  IF pc = "flexible"
    THEN Columns[c].is_flexible /\ widths[c] > Columns[c].min_width
    ELSE widths[c] > Dots

\* Seeded fault: a pass does not stop when the table fits.
ShrinkPastFit ==
  /\ pc \in {"flexible", "any"} /\ col <= Len(Columns)
  /\ IF MayShrink(col)
       THEN /\ widths' = [widths EXCEPT ![col] = @ - 1]
            /\ overflow' = IF overflow > 0 THEN overflow - 1 ELSE 0
            /\ reduced' = TRUE
       ELSE UNCHANGED <<widths, overflow, reduced>>
  /\ col' = col + 1
  /\ UNCHANGED <<pc, heap, bad_free, rowvars, copyvars, terminal, page>>

\* Seeded fault: a pass takes all it can from a column before the next one.
ShrinkGreedily ==
  /\ pc \in {"flexible", "any"} /\ col <= Len(Columns) /\ overflow > 0
  /\ IF MayShrink(col)
       THEN /\ widths' = [widths EXCEPT ![col] = @ - 1]
            /\ overflow' = overflow - 1
            /\ reduced' = TRUE /\ col' = col
       ELSE UNCHANGED <<widths, overflow, reduced>> /\ col' = col + 1
  /\ UNCHANGED <<pc, heap, bad_free, rowvars, copyvars, terminal, page>>

\* One column of a pass.
Shrink ==
  /\ pc \in {"flexible", "any"} /\ col <= Len(Columns) /\ overflow > 0
  /\ IF MayShrink(col)
       THEN /\ widths' = [widths EXCEPT ![col] = @ - 1]
            /\ overflow' = overflow - 1
            /\ reduced' = TRUE
       ELSE UNCHANGED <<widths, overflow, reduced>>
  /\ col' = col + 1
  /\ UNCHANGED <<pc, heap, bad_free, rowvars, copyvars, terminal, page>>

\* Seeded fault: a pass that shrank nothing is followed by another one.
PassEndsRetrying ==
  /\ pc \in {"flexible", "any"} /\ (col > Len(Columns) \/ overflow = 0)
  /\ pc' = IF overflow = 0 THEN "print"
           ELSE IF reduced \/ pc = "any" THEN "flexible" ELSE "any"
  /\ col' = 1 /\ reduced' = FALSE
  /\ UNCHANGED <<heap, bad_free, rowvars, copyvars, terminal, widths, overflow, page>>

\* If the flexible columns gave nothing, all are tried; if those gave nothing
\* either, the table is printed too wide.
PassEnds ==
  /\ pc \in {"flexible", "any"} /\ (col > Len(Columns) \/ overflow = 0)
  /\ pc' = IF overflow = 0 THEN "print"
           ELSE IF reduced THEN "flexible"
           ELSE IF pc = "flexible" THEN "any" ELSE "print"
  /\ col' = 1 /\ reduced' = FALSE
  /\ UNCHANGED <<heap, bad_free, rowvars, copyvars, terminal, widths, overflow, page>>

\* Seeded fault: the dots are added to a text that is cut at the full width.
PrintedDotsBeyond(length, width, align) ==
  LET cut   == length > width
      shown == IF cut THEN width ELSE length
  IN  [left  |-> IF align = "right" THEN width - shown ELSE 0,
       text  |-> shown,
       dots  |-> IF cut /\ width > Dots THEN Dots ELSE 0,
       right |-> IF align = "left" THEN width - shown ELSE 0]

\* app_table_print_cell: padding, text and dots.
Printed(length, width, align) ==
  LET cut   == length > width
      shown == IF cut THEN width ELSE length
      dots  == IF cut /\ width > Dots THEN Dots ELSE 0
  IN  [left  |-> IF align = "right" THEN width - shown ELSE 0,
       text  |-> shown - dots,
       dots  |-> dots,
       right |-> IF align = "left" THEN width - shown ELSE 0]

HeaderLine == [c \in Cols |-> Printed(Columns[c].header, widths[c], "left")]
RuleLine   == [c \in Cols |-> Printed(widths[c], widths[c], "left")]
RowLine(r) == [c \in Cols |-> Printed(rows[r][c], widths[c], Columns[c].align)]

PrintTable ==
  /\ pc = "print"
  /\ page' = <<HeaderLine, RuleLine>> \o [r \in DOMAIN rows |-> RowLine(r)]
  /\ Free({<<"widths">>})
  /\ pc' = "printed"
  /\ UNCHANGED <<rowvars, copyvars, terminal, widths, overflow, col, reduced>>

-----------------------------------------------------------------------------
TableInit ==
  /\ heap = {} /\ bad_free = FALSE
  /\ rows = <<>> /\ row_capacity = 0
  /\ new_row = <<>> /\ copied = 0
  /\ terminal = 0 /\ widths = [c \in Cols |-> 0] /\ overflow = 0
  /\ col = 1 /\ reduced = FALSE /\ page = <<>>

\* The steps the table takes by itself once it has been set up.
TableStep == \/ CopyCell \/ CopyFails \/ RowCopied
             \/ Measure \/ Shrink \/ PassEnds \/ PrintTable

-----------------------------------------------------------------------------
(* Properties                                                              *)

Cell == [Cols -> Nat]

TableTypeOK ==
  /\ bad_free \in BOOLEAN
  /\ rows \in Seq(Cell) /\ row_capacity \in Nat
  /\ new_row \in {<<>>} \cup Cell /\ copied \in 0 .. Len(Columns)
  /\ terminal \in {0} \cup DetectedWidths /\ widths \in [Cols -> Nat] /\ overflow \in Nat
  /\ col \in 1 .. Len(Columns) + 1 /\ reduced \in BOOLEAN

Shrinking == pc \in {"flexible", "any", "print"}

\* A row is written only where there is room for it, and what is freed was
\* allocated, once, also when a row is given up halfway.
MemoryInBounds ==
  /\ Len(rows) + (IF pc = "copy" THEN 1 ELSE 0) <= row_capacity
  /\ ~bad_free

\* Shrinking takes exactly what is too much: the table is printed as wide as
\* the terminal, or wider with every column down to the width of the dots.
FitsExactly ==
  Shrinking =>
    /\ Total(widths) = IF Total(NaturalWidths) > terminal
                         THEN terminal + overflow ELSE Total(NaturalWidths)
    /\ pc = "print" => overflow = 0 \/ \A c \in Cols : widths[c] <= Dots

\* A column gives up more than a flexible one may only when every flexible
\* column is down to its minimum.
FlexibleFirst ==
  Shrinking =>
    ((\E c \in Cols : /\ widths[c] < NaturalWidths[c]
                      /\ Columns[c].is_flexible => widths[c] < Columns[c].min_width)
       => \A c \in Cols : Columns[c].is_flexible => widths[c] <= Columns[c].min_width)

\* Flexible columns give in turn, from the left: as long as both have more than
\* their minimum, one gives at most one character more than one on its right.
InTurn ==
  Shrinking =>
    \A b, c \in Cols :
      (/\ b < c /\ Columns[b].is_flexible /\ Columns[c].is_flexible
       /\ widths[b] > Columns[b].min_width /\ widths[c] > Columns[c].min_width)
        => NaturalWidths[b] - widths[b] - (NaturalWidths[c] - widths[c]) \in {0, 1}

\* Every line is as wide as the rule under the header, column by column,
\* whatever had to be cut, so that columns stay aligned.
Aligned ==
  \A l \in DOMAIN page : \A c \in Cols : SumFunction(page[l][c]) = widths[c]

\* Rendering ends: every pass but the last brings the table nearer to fitting.
RenderEnds == pc = "measure" ~> pc = "printed"
=============================================================================
