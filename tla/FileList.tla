------------------------------ MODULE FileList ------------------------------
(* The list of backup files in the window: BakFileModel with its rows and     *)
(* sorting, BakFileFilter and the search field before it, and the selection   *)
(* of BakFileView.                                                            *)
(*                                                                            *)
(* Items are shared pointers: the scanner overwrites them in its own thread   *)
(* and reports it afterwards.  The selection is a set of persistent indexes,  *)
(* that is of row numbers, which sort() has to move itself; rows that come    *)
(* and go are accounted for by Qt.                                            *)
EXTENDS Integers, Sequences, FiniteSets, SequencesExt

CONSTANTS
    Items,      \* backup files
    Versions,   \* what can be in an item
    Columns,    \* columns that the list can be sorted by
    Key,        \* Key[column][item][version]: what a column is compared by
    Texts,      \* what can be typed into the search field
    Accepts,    \* Accepts[text]: pairs of item and version in which it is found
    kFilterDelaySizeThreshold,
    MaxStale    \* bound: items overwritten whose report is under way

NoText == ""

ASSUME ListAssumption ==
    /\ IsFiniteSet(Items)
    /\ Columns \subseteq {"Filename", "FileSize", "Modified", "Compressed", "FileType"}
    /\ \A column \in Columns \cup {"Modified"} : Key[column] \in [Items -> [Versions -> Int]]
    /\ NoText \in Texts
    /\ Accepts \in [Texts \ {NoText} -> SUBSET (Items \X Versions)]
    /\ kFilterDelaySizeThreshold \in Nat /\ MaxStale \in Nat

ColumnCount == 5
SortOrders == {"Ascending", "Descending"}

VARIABLES
    \* BakFileBackend and the items it shares
    value,         \* value[i]: what is in item i
    stale,         \* items that were overwritten, UpdatedFiles being under way
    \* BakFileModel
    rows,          \* items_
    sort_column, sort_order,
    \* BakFileViewContainer and BakFileFilter
    text,          \* the text in the search field
    filter,        \* the fixed string of the filter
    filter_timer,  \* filter_timer_ is active
    visible,       \* items of the rows that the proxy shows
    \* the selection model of BakFileView
    selection,     \* the source rows of the selected indexes
    \* history
    picked,        \* the items that the user selected, as far as still shown
    moved          \* items overwritten since the rows were last sorted

itemVars == <<value, stale>>
modelVars == <<rows, sort_column, sort_order, moved>>
filterVars == <<text, filter, filter_timer>>
listVars == <<itemVars, modelVars, filterVars, visible, selection, picked>>

------------------------------------------------------------------------------
Listed(r) == {r[k] : k \in DOMAIN r}

\* filterAcceptsRow: no filter, or the text is in the name or in the file type.
FilterAcceptsRow(t, i) == t = NoText \/ <<i, value[i]>> \in Accepts[t]

Shown(r, t) == {i \in Listed(r) : FilterAcceptsRow(t, i)}

SelectedItems == {rows[k] : k \in selection}

ListInit ==
    /\ stale = {}
    /\ value \in [Items -> Versions]
    /\ rows = <<>> /\ moved = {}
    /\ sort_column \in Columns /\ sort_order \in SortOrders  \* the view's header decides
    /\ text = NoText /\ filter = NoText /\ filter_timer = FALSE
    /\ visible = {} /\ selection = {} /\ picked = {}

------------------------------------------------------------------------------
(* BakFileModel::sort *)

\* CompareItems: by Column_Compressed it asks whether the two are equal.
CompareItems(column, order, i, j) ==
    LET a == IF order = "Ascending" THEN i ELSE j
        b == IF order = "Ascending" THEN j ELSE i
        x == Key[column][a][value[a]]
        y == Key[column][b][value[b]]
    IN  IF column = "Compressed" THEN x = y ELSE x < y

Position(s, i) == CHOOSE k \in DOMAIN s : s[k] = i

\* The orders that lists of some length can be brought into.
Orders == [n \in 0..Cardinality(Items) |-> Injection(1..n, 1..n)]

\* External: std::stable_sort puts what is at p[k] at k.  What it makes of a
\* comparison that is not a strict weak order is unspecified.
StableOrders(s, column, order) ==
    LET Less(a, b) == CompareItems(column, order, s[a], s[b])
        Before(a, b) == IF a < b THEN ~Less(b, a) ELSE Less(a, b)
    IN  {p \in Orders[Len(s)] :
           column = "Compressed" \/ \A k, l \in DOMAIN s : k < l => Before(p[k], p[l])}

StableSorted(s, column, order) ==
    {[k \in DOMAIN s |-> s[p[k]]] : p \in StableOrders(s, column, order)}

\* By name, files of the same name in other letters are in the order of their dates.
Sorted(s, column, order) ==
    IF column = "Filename"
    THEN UNION {StableSorted(t, column, order) : t \in StableSorted(s, "Modified", order)}
    ELSE StableSorted(s, column, order)

\* Mutant of NewRow: items_ has been assigned when the old rows are looked up.
SameRow(r, old, new) == r

\* The row to which a persistent index is moved.
NewRow(r, old, new) == Position(new, old[r])

\* Sorting a list s whose selected rows are sel.
SortRows(s, sel, column, order) ==
    \E new \in Sorted(s, column, order) :
      /\ rows' = new
      /\ selection' = {NewRow(k, s, new) : k \in sel}
      /\ sort_column' = column /\ sort_order' = order
      /\ moved' = {}

\* A click on a column's header: the proxy has the model sort itself.  On its
\* layoutChanged the proxy filters every row again, also one whose item was
\* overwritten and not reported yet; the indexes of the rows it drops become
\* invalid, of which the selection model says nothing.
Sort(column, order) ==
    /\ visible' = Shown(rows, filter)
    /\ SortRows(rows, {k \in selection : rows[k] \in visible'}, column, order)
    /\ picked' = picked \cap visible'
    /\ UNCHANGED <<itemVars, filterVars>>

------------------------------------------------------------------------------
(* BakFileBackend, as far as the list sees it *)

\* The item is overwritten in the scanner's thread, *old_fileitem = *new_fileitem.
OverwriteItem(i, v) ==
    /\ i \in Listed(rows) /\ v # value[i] /\ Cardinality(stale) < MaxStale
    /\ value' = [value EXCEPT ![i] = v]
    /\ stale' = stale \cup {i} /\ moved' = moved \cup {i}
    /\ UNCHANGED <<rows, sort_column, sort_order, filterVars, visible, selection, picked>>

------------------------------------------------------------------------------
(* The slots of BakFileModel.  One file at a time: a list of files makes them *)
(* do the same for each.                                                      *)

\* External: the proxy looks again at the changed rows; those it drops are no
\* longer selected.
Refiltered(r, changed) == (visible \ changed) \cup (Shown(r, filter) \cap changed)

\* Mutant of AddedFiles: the row is left where it was appended.
AddedFilesUnsorted(i) ==
    /\ i \notin Listed(rows)
    /\ rows' = Append(rows, i)
    /\ visible' = Shown(rows', filter)
    /\ selection' = {k \in selection : rows[k] \in visible'}
    /\ picked' = picked \cap visible'
    /\ UNCHANGED <<value, stale, sort_column, sort_order, moved, filterVars>>

\* A row is appended, all rows are said to have changed, and sorted.  (A file
\* that comes back has an item of the same contents.)
AddedFiles(i) ==
    /\ i \notin Listed(rows)
    /\ LET longer == Append(rows, i)
       IN  /\ visible' = Shown(longer, filter)
           /\ SortRows(longer, {k \in selection : rows[k] \in visible'},
                       sort_column, sort_order)
    /\ picked' = picked \cap visible'
    /\ UNCHANGED <<value, stale, filterVars>>

\* Mutant of UpdatedFiles: the model does not say that the row has changed.
UpdatedFilesSilent(i) ==
    /\ i \in stale /\ stale' = stale \ {i}
    /\ UNCHANGED <<value, modelVars, filterVars, visible, selection, picked>>

\* The row is said to have changed; it stays where it is.
UpdatedFiles(i) ==
    /\ i \in stale /\ stale' = stale \ {i}
    /\ visible' = Refiltered(rows, {i})
    /\ selection' = {k \in selection : rows[k] \in visible'}
    /\ picked' = picked \cap visible'
    /\ UNCHANGED <<value, modelVars, filterVars>>

\* Mutant of DeletedFiles: the item is dropped without beginRemoveRows.
DeletedFilesSilent(i) ==
    /\ i \in Listed(rows) \ stale
    /\ rows' = RemoveAt(rows, Position(rows, i))
    /\ visible' = visible \ {i}
    /\ picked' = picked \ {i}
    /\ UNCHANGED <<value, stale, sort_column, sort_order, moved, filterVars, selection>>

\* The row is removed.  dataChanged is emitted for what stands in its place, up
\* to the column with the number of the last row: with more rows than columns
\* there is no such index and nobody looks.
DeletedFiles(i) ==
    /\ i \in Listed(rows) \ stale
    /\ LET pos == Position(rows, i)
           rest == RemoveAt(rows, pos)
           changed == IF pos <= Len(rest) /\ Len(rest) <= ColumnCount
                      THEN {rest[pos]} ELSE {}
       IN  /\ rows' = rest
           /\ visible' = Refiltered(rest, changed) \ {i}
           /\ selection' = {Position(rest, j) : j \in SelectedItems \cap visible'}
    /\ picked' = picked \cap visible'
    /\ moved' = moved \ {i}
    /\ UNCHANGED <<value, stale, sort_column, sort_order, filterVars>>

------------------------------------------------------------------------------
(* BakFileViewContainer *)

\* setFilterFixedString: rows that are no longer shown are no longer selected.
UpdateFilter ==
    /\ filter' = text'
    /\ visible' = Shown(rows, text')
    /\ selection' = {k \in selection : rows[k] \in visible'}
    /\ picked' = picked \cap visible'

\* Mutant of MaybeUpdateFilter: a long list is filtered at the next short text.
MaybeUpdateFilterLater ==
    IF Len(rows) < kFilterDelaySizeThreshold \/ text' = NoText
    THEN UpdateFilter /\ UNCHANGED filter_timer
    ELSE UNCHANGED <<filter, visible, selection, picked, filter_timer>>

\* A list that is long is filtered when nothing was typed for a while.  The
\* timer that runs is not stopped by a list that has become short.
MaybeUpdateFilter ==
    IF Len(rows) < kFilterDelaySizeThreshold \/ text' = NoText
    THEN UpdateFilter /\ UNCHANGED filter_timer
    ELSE filter_timer' = TRUE /\ UNCHANGED <<filter, visible, selection, picked>>

\* setText: textChanged is emitted once for a text that is another one.
TextChanged(t) ==
    /\ t # text /\ text' = t
    /\ MaybeUpdateFilter
    /\ UNCHANGED <<itemVars, modelVars>>

\* Escape in the search field, and its clear button.  (FocusOnFilter, which also
\* clears it, is never called.)
ClearFilter == TextChanged(NoText)

\* The user types a text, or erases some of it.
Type(t) == t # NoText /\ TextChanged(t)

FilterTimeout ==
    /\ filter_timer /\ filter_timer' = FALSE
    /\ text' = text
    /\ UpdateFilter
    /\ UNCHANGED <<itemVars, modelVars>>

------------------------------------------------------------------------------
(* BakFileView *)

\* The rows of items are selected, be it by clicks, SelectAll or UnSelectAll.
Select(items) ==
    /\ selection' = {Position(rows, i) : i \in items}
    /\ picked' = items
    /\ UNCHANGED <<itemVars, modelVars, filterVars, visible>>

------------------------------------------------------------------------------
SignalStep(i) == AddedFiles(i) \/ UpdatedFiles(i) \/ DeletedFiles(i)

ScannerStep ==
    \E i \in Items : SignalStep(i) \/ \E v \in Versions : OverwriteItem(i, v)

SearchStep == ClearFilter \/ \E t \in Texts : Type(t)

SortStep == \E column \in Columns, order \in SortOrders : Sort(column, order)

SelectStep == \E items \in SUBSET visible : Select(items)

ListNext == ScannerStep \/ SearchStep \/ FilterTimeout \/ SortStep \/ SelectStep

\* The event loop goes on.
ListSpec ==
    /\ ListInit /\ [][ListNext]_listVars
    /\ WF_listVars(\E i \in Items : UpdatedFiles(i)) /\ WF_listVars(FilterTimeout)

------------------------------------------------------------------------------
(* Properties *)

\* Every variable has its type, and indexes are of rows that are there.
ListTypeOK ==
    /\ value \in [Items -> Versions] /\ stale \subseteq Listed(rows)
    /\ rows \in Seq(Items) /\ IsInjective(rows)
    /\ sort_column \in Columns /\ sort_order \in SortOrders
    /\ text \in Texts /\ filter \in Texts /\ filter_timer \in BOOLEAN
    /\ visible \subseteq Listed(rows) /\ selection \subseteq DOMAIN rows
    /\ picked \subseteq Items /\ moved \subseteq Listed(rows)

\* What is selected, and so what Restore would take, are the files that the user
\* selected, as long as the filter has shown them ever since, however the rows
\* have moved under the selection.
SelectionFollowsItems == SelectedItems = picked

\* The rows shown are those of the text that is filtered by, with what the items
\* contain now, unless the report of a change is still to come.
FilterIsCurrent ==
    \A i \in Listed(rows) \ stale : i \in visible <=> FilterAcceptsRow(filter, i)

\* The filter is the text in the field, or the timer that makes it so is active.
FilterFollowsText == filter = text \/ filter_timer

\* Files that came by themselves, and files that were sorted, stand in the order
\* of the column; only those overwritten since may not.
RowsSorted ==
    sort_column # "Compressed" =>
      \A k, l \in DOMAIN rows : k < l /\ rows[k] \notin moved /\ rows[l] \notin moved =>
        ~CompareItems(sort_column, sort_order, rows[l], rows[k])
=============================================================================
