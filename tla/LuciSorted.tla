------------------------------ MODULE LuciSorted ------------------------------
(***************************************************************************)
(* The tables of the pages: those a page fills again and again, which the  *)
(* user sorts by a column (UITable in resources/ui.js, made for a table of *)
(* the markup by cbi_update_table), and those of sections, whose rows move *)
(* up and down (cbi_row_swap in resources/cbi.js).  A cell is a kind and   *)
(* numbers; its sort key is a text, of which the page compares runs of     *)
(* digits as numbers.                                                      *)
(***************************************************************************)
EXTENDS Integers, FiniteSets, SequencesExt

CONSTANTS
  Columns,    \* number of columns
  Contents,   \* what the page may fill the table with: rows of cells
  Sections,   \* the sections of the other table, in their first order
  MaxEvents, Nil

VARIABLES
  page,       \* what the page last gave
  data,       \* this.data
  sortState,  \* [column, descending], Nil before the user chose
  direction,  \* data-sort-direction of each heading
  sortable,   \* the headings are marked, as a row was there
  rowOrder,   \* the rows of the other table
  store,      \* its hidden field, Nil until it is written
  events

vars == <<page, data, sortState, direction, sortable, rowOrder, store, events>>

-----------------------------------------------------------------------------
(* deriveSortKey: padded decimal or hexadecimal numbers, and a text.  In a *)
(* key 0..9 are digits and larger numbers letters.                         *)
Pad(n, width, base) == [i \in 1..width |-> (n \div base ^ (width - i)) % base]
Each(ns, width, base) == FlattenSeq([i \in DOMAIN ns |-> Pad(ns[i], width, base)])
Mask(c, most) == IF c.mask = Nil THEN most ELSE c.mask

deriveSortKey(c) ==
  CASE c.kind = "v6" -> Each(c.of, 4, 16) \o Pad(Mask(c, 128), 2, 16)
    [] c.kind = "v4" -> Each(c.of, 3, 10) \o Pad(Mask(c, 32), 2, 10)
    [] c.kind = "v4mask" -> Each(c.of \o c.mask, 3, 10)
    [] c.kind = "time" -> Pad(c.of[1], 5, 10) \o Each(Tail(c.of), 2, 10)
    [] c.kind = "count" -> Pad(c.of[1], 10, 10) \o c.mask
    [] c.kind = "text" -> c.of

(* L.naturalCompare: a run of digits stands for its number, written here   *)
(* as its length without leading zeros and its digits.                     *)
Digit(x) == x \in 0..9
Run(digits) ==
  LET lead == CHOOSE n \in 0..Len(digits) :
                (\A i \in 1..n : digits[i] = 0) /\ (n < Len(digits) => digits[n + 1] # 0)
  IN <<Len(digits) - lead>> \o SubSeq(digits, lead + 1, Len(digits))
Natural(key) ==
  LET ends == {i \in DOMAIN key : Digit(key[i]) /\ (i < Len(key) => ~Digit(key[i + 1]))}
      from(i) == CHOOSE j \in 1..i : (\A k \in j..i : Digit(key[k])) /\ (j > 1 => ~Digit(key[j - 1]))
  IN FlattenSeq([i \in DOMAIN key |->
       IF i \in ends THEN Run(SubSeq(key, from(i), i))
       ELSE IF Digit(key[i]) THEN << >> ELSE <<100 + key[i]>>])
Less(s, t) ==
  \E i \in DOMAIN t :
    /\ \A j \in 1..(i - 1) : j <= Len(s) /\ s[j] = t[j]
    /\ i <= Len(s) => s[i] < t[i]

(* update(): sorted by the keys of one column; equal ones keep their order.*)
Sorted(rows, by) ==
  LET keys == [i \in DOMAIN rows |-> Natural(deriveSortKey(rows[i][by.column]))]
      before(i, j) == IF by.descending THEN Less(keys[j], keys[i]) ELSE Less(keys[i], keys[j])
      rank(i) == Cardinality({j \in DOMAIN rows :
                   before(j, i) \/ (~before(i, j) /\ j <= i)})
  IN [p \in DOMAIN rows |-> rows[CHOOSE i \in DOMAIN rows : rank(i) = p]]
update(rows, by) ==
  /\ data' = IF by = Nil THEN rows ELSE Sorted(rows, by)
  /\ sortable' = (sortable \/ rows # << >>)

-----------------------------------------------------------------------------
Event == events < MaxEvents /\ events' = events + 1

(* The page's poll has new rows.                                           *)
Refresh ==
  /\ Event
  /\ \E rows \in Contents : page' = rows /\ update(rows, sortState)
  /\ UNCHANGED <<sortState, direction, rowOrder, store>>

handleSort(column) ==
  LET by == [column |-> column, descending |-> direction[column] = "asc"]
  IN /\ sortable /\ Event
     /\ direction' = [c \in 1..Columns |->
          IF c # column THEN Nil ELSE IF by.descending THEN "desc" ELSE "asc"]
     /\ sortState' = by
     /\ update(data, by)
     /\ UNCHANGED <<page, rowOrder, store>>

(* The table of the markup has no options.id: its sorting is not stored.   *)
ReloadPage ==
  /\ data # Nil /\ Event
  /\ data' = Nil /\ page' = Nil /\ sortable' = FALSE
  /\ sortState' = Nil /\ direction' = [c \in 1..Columns |-> Nil]
  /\ rowOrder' = Sections /\ store' = Nil

(* Up: before the row above.  Down: before the row after the next one, or  *)
(* to the end.  The hidden field gets the new order in any case.           *)
Moved(rows, i, up) ==
  IF up THEN InsertAt(RemoveAt(rows, i), i - 1, rows[i])
  ELSE InsertAt(RemoveAt(rows, i), IF i + 2 > Len(rows) THEN Len(rows) ELSE i + 1, rows[i])
cbi_row_swap(i, up) ==
  /\ (up => i > 1) /\ Event
  /\ rowOrder' = Moved(rowOrder, i, up) /\ store' = rowOrder'
  /\ UNCHANGED <<page, data, sortState, direction, sortable>>

Init ==
  /\ page = Nil /\ data = Nil /\ sortState = Nil /\ sortable = FALSE
  /\ direction = [c \in 1..Columns |-> Nil]
  /\ rowOrder = Sections /\ store = Nil /\ events = 0

Next ==
  \/ Refresh \/ ReloadPage
  \/ \E c \in 1..Columns : handleSort(c)
  \/ \E i \in DOMAIN rowOrder, up \in BOOLEAN : cbi_row_swap(i, up)

Spec == Init /\ [][Next]_vars

-----------------------------------------------------------------------------
(* Cells whose order a reader knows: of one kind and form.  Addresses are  *)
(* only ordered when no number of their key is written with a letter.      *)
Alike(c, d) ==
  /\ c.kind = d.kind /\ c.kind # "text"
  /\ c.kind = "count" => c.mask = d.mask
  /\ c.kind = "v6" => \A k \in {deriveSortKey(c), deriveSortKey(d)} :
                        \A i \in DOMAIN k : Digit(k[i])
Worth(c) ==
  IF c.kind = "v6" THEN Append(c.of, Mask(c, 128))
  ELSE IF c.kind = "v4" THEN Append(c.of, Mask(c, 32))
  ELSE IF c.kind = "v4mask" THEN c.of \o c.mask ELSE c.of
Smaller(c, d) == Alike(c, d) /\ Less(Worth(c), Worth(d))

(* A table that the user sorted stays sorted by that column and in that    *)
(* direction through every refresh, it has the rows the page gave, and the *)
(* heading says how.  Where all rows are of one form, addresses, times and *)
(* numbers stand in their order; rows of several forms do not mix, and     *)
(* IPv6 addresses with letters are not in order.  Rows that are moved are  *)
(* kept, and the hidden field has what is shown.                           *)
TablesSorted ==
  /\ data # Nil => \A r \in Range(page) \cup Range(data) :
       Len(SelectSeq(data, LAMBDA x : x = r)) = Len(SelectSeq(page, LAMBDA x : x = r))
  /\ (data # Nil /\ sortState # Nil) =>
       LET cell(i) == data[i][sortState.column]
           alike == \A i, j \in DOMAIN data : Alike(cell(i), cell(j))
       IN \A i, j \in DOMAIN data : (alike /\ i < j) =>
            ~(IF sortState.descending THEN Smaller(cell(i), cell(j)) ELSE Smaller(cell(j), cell(i)))
  /\ \A c \in 1..Columns : direction[c] =
       IF sortState = Nil \/ sortState.column # c THEN Nil
       ELSE IF sortState.descending THEN "desc" ELSE "asc"
  /\ Range(rowOrder) = Range(Sections) /\ Len(rowOrder) = Len(Sections)
  /\ store \in {Nil, rowOrder}
=============================================================================
