------------------------------ MODULE BMCTable ------------------------------
(***************************************************************************)
(* The bmcTable component of phosphor-webui (table.js): its controller's   *)
(* selection and sort state and the operations its template calls.  A     *)
(* table is a record                                                       *)
(*   data        this.data, the rows in display order                     *)
(*   sel         this.selectedRows, a Set of row INDICES                   *)
(*   header      this.selectHeaderCheckbox                                 *)
(*   some        this.someSelected                                         *)
(*   asc         this.sortAscending                                        *)
(*   activeSort  this.activeSort, NoSort while undefined                   *)
(*   count       the closure variable selectableRowCount                   *)
(* and each operation maps a table to the table after the call.  A row is *)
(* a record with a field selected; the page says which rows are           *)
(* selectable and how a column of a row orders.                           *)
(***************************************************************************)
EXTENDS Integers, Sequences, SequencesExt, FiniteSets

CONSTANTS
    Selectable(_),      \* row.selectable, as the page's data mapper sets it
    CellRank(_, _),     \* the rank of row.uiData[col] in the order of <
    Sortable,           \* the sortable binding
    DefaultSort         \* the default-sort binding, NoSort when undefined

NoSort == -1

\* the TableController constructor: no rows yet, nothing selected
Fresh == [data |-> <<>>, sel |-> {}, header |-> FALSE, some |-> FALSE,
          asc |-> TRUE, activeSort |-> NoSort, count |-> 0]

\* sortData: Array.prototype.sort, which is stable, with the comparator
\* that orders by uiData[activeSort], descending when ~sortAscending
SortData(t) ==
    LET d == t.data
        Before(i, j) ==
            LET a == CellRank(d[i], t.activeSort)
                b == CellRank(d[j], t.activeSort)
            IN IF a = b THEN i < j ELSE IF t.asc THEN a < b ELSE a > b
        order == SetToSortSeq(DOMAIN d, Before)
    IN [t EXCEPT !.data = [k \in DOMAIN d |-> d[order[k]]]]

\* row.selected = v for every selectable row
MarkSelectable(d, v) ==
    [k \in DOMAIN d |-> IF Selectable(d[k]) THEN [d[k] EXCEPT !.selected = v]
                                            ELSE d[k]]

\* mutant: selectableRowCount not reset to 0 before counting
PrepDataNoReset(t, d) ==
    LET u == [t EXCEPT !.data = MarkSelectable(d, FALSE),
                       !.count = @ + Cardinality({k \in DOMAIN d : Selectable(d[k])})]
    IN IF Sortable /\ (t.activeSort # NoSort \/ DefaultSort # NoSort)
       THEN SortData([u EXCEPT !.activeSort = IF DefaultSort # NoSort
                                              THEN DefaultSort ELSE @])
       ELSE u

\* prepData on new data: count the selectable rows, clear their selected
\* flag, and apply the default or the active sort if there is one
PrepData(t, d) ==
    LET u == [t EXCEPT !.data = MarkSelectable(d, FALSE),
                       !.count = Cardinality({k \in DOMAIN d : Selectable(d[k])})]
    IN IF Sortable /\ (t.activeSort # NoSort \/ DefaultSort # NoSort)
       THEN SortData([u EXCEPT !.activeSort = IF DefaultSort # NoSort
                                              THEN DefaultSort ELSE @])
       ELSE u

\* selectAllRows: the indices of the rows it newly selects join selectedRows
SelectAllRows(t) ==
    [t EXCEPT !.header = TRUE, !.some = FALSE,
              !.data = MarkSelectable(@, TRUE),
              !.sel = @ \cup {k \in DOMAIN t.data :
                                 ~t.data[k].selected /\ Selectable(t.data[k])}]

DeselectAllRows(t) ==
    [t EXCEPT !.header = FALSE, !.some = FALSE, !.sel = {},
              !.data = MarkSelectable(@, FALSE)]

\* $onChanges when the data binding changes: prepData(); deselectAllRows()
OnDataChange(t, d) == DeselectAllRows(PrepData(t, d))

\* onRowSelectChange(index): toggle the index in selectedRows, then select
\* or deselect all when the set is empty or as large as the selectable rows
OnRowSelectChange(t, i) ==
    LET s == IF i \in t.sel THEN t.sel \ {i} ELSE t.sel \cup {i}
        u == [t EXCEPT !.sel = s]
    IN CASE Cardinality(s) = 0       -> DeselectAllRows(u)
         [] Cardinality(s) = t.count -> SelectAllRows(u)
         [] OTHER                    -> [u EXCEPT !.some = TRUE]

\* a click on the checkbox of the row at index i: the checkbox's ng-model
\* flips row.selected, then its change calls onRowSelectChange(i)
RowCheckboxClicked(t, i) ==
    OnRowSelectChange([t EXCEPT !.data[i].selected = ~@], i)

\* onHeaderSelectChange(checked), after the header checkbox flipped
OnHeaderSelectChange(t) ==
    IF ~t.header THEN SelectAllRows([t EXCEPT !.header = TRUE])
                 ELSE DeselectAllRows([t EXCEPT !.header = FALSE])

OnToolbarClose(t) == DeselectAllRows(t)

\* onClickSort(index): the active column again reverses the rows, another
\* column sorts ascending by it
OnClickSort(t, col) ==
    IF col = t.activeSort
    THEN [t EXCEPT !.asc = ~@, !.data = Reverse(@)]
    ELSE SortData([t EXCEPT !.asc = TRUE, !.activeSort = col])

\* onEmitBatchAction: the rows whose selected flag is set, in display order
FilteredRows(t) == SelectSeq(t.data, LAMBDA r : r.selected)
=============================================================================
