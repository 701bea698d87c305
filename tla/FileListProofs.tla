--------------------------- MODULE FileListProofs ---------------------------
(* Proofs about FileList, for every finite set of files, all contents, columns, *)
(* texts and thresholds: the rows under the selection and the filter.          *)
EXTENDS FileList, FiniteSetTheorems, TLAPS

------------------------------------------------------------------------------
(* Lists of items without repetition *)

\* Such a list.
IsList(s) == s \in Seq(Items) /\ IsInjective(s)

\* Position finds the row of an item that is listed.
LEMMA PositionFound ==
  ASSUME NEW s \in Seq(Items), NEW i \in Listed(s)
  PROVE  Position(s, i) \in DOMAIN s /\ s[Position(s, i)] = i
<1>1. PICK k \in DOMAIN s : s[k] = i
  BY DEF Listed
<1> QED
  BY <1>1 DEF Position

\* There are no more rows than items.
LEMMA ListLength ==
  ASSUME NEW s, IsList(s)
  PROVE  Len(s) \in 0..Cardinality(Items) /\ DOMAIN s = 1..Len(s)
<1>1. s \in [1..Len(s) -> Items] /\ Len(s) \in Nat /\ DOMAIN s = 1..Len(s)
  BY DEF IsList
<1>2. s \in Injection(1..Len(s), Items)
  <2>1. IsInjective(s)
    BY DEF IsList
  <2> QED
    BY <1>1, <2>1, Zenon DEF Injection
<1>3. Cardinality(1..Len(s)) <= Cardinality(Items)
  <2>1. IsFiniteSet(Items)
    BY ListAssumption
  <2> QED
    BY <1>2, <2>1, FS_Injection, Zenon
<1>4. Cardinality(1..Len(s)) = Len(s)
  <2>1. \A n \in Nat : Cardinality(1..n) = IF 1 > n THEN 0 ELSE n - 1 + 1
    BY FS_Interval
  <2> QED
    BY <1>1, <2>1
<1>5. Cardinality(Items) \in Nat
  BY FS_CardinalityType, ListAssumption
<1> QED
  BY <1>1, <1>3, <1>4, <1>5

\* An injection of a list's rows into themselves reaches each of them.
LEMMA RowsReached ==
  ASSUME NEW n \in Nat, NEW p \in Injection(1..n, 1..n)
  PROVE  p \in [1..n -> 1..n] /\ IsInjective(p) /\ \A r \in 1..n : \E k \in 1..n : p[k] = r
<1>1. IsFiniteSet(1..n)
  BY FS_Interval
<1>2. p \in Surjection(1..n, 1..n)
  BY <1>1, FS_Injection
<1> QED
  BY <1>2 DEF Injection, Surjection

------------------------------------------------------------------------------
(* Sorting *)

\* What one list is of another that it has been sorted to.
Permutes(t, s) ==
    IsList(t) /\ Len(t) = Len(s) /\ DOMAIN t = DOMAIN s /\ Listed(t) = Listed(s)

\* std::stable_sort loses no row and doubles none.
LEMMA StableSortedPermutes ==
  ASSUME NEW s, IsList(s), NEW column, NEW order, NEW t \in StableSorted(s, column, order)
  PROVE  Permutes(t, s)
<1> DEFINE n == Len(s)
<1>1. /\ s \in Seq(Items) /\ n \in Nat /\ DOMAIN s = 1..n
      /\ \A a, b \in 1..n : s[a] = s[b] => a = b
  BY DEF IsList, IsInjective
<1>2. PICK p \in StableOrders(s, column, order) : t = [k \in DOMAIN s |-> s[p[k]]]
  BY DEF StableSorted
<1>3. p \in Injection(1..n, 1..n)
  <2>1. p \in Orders[n]
    BY <1>2 DEF StableOrders
  <2>2. n \in 0..Cardinality(Items)
    BY ListLength
  <2> QED
    BY <2>1, <2>2 DEF Orders
<1> HIDE DEF n
<1>4. /\ p \in [1..n -> 1..n] /\ \A r \in 1..n : \E k \in 1..n : p[k] = r
      /\ \A a, b \in 1..n : p[a] = p[b] => a = b
  <2>1. /\ p \in [1..n -> 1..n] /\ IsInjective(p)
        /\ \A r \in 1..n : \E k \in 1..n : p[k] = r
    BY <1>1, <1>3, RowsReached, Zenon
  <2> QED
    BY <2>1 DEF IsInjective
<1>5. /\ t \in [1..n -> Items] /\ DOMAIN t = 1..n
      /\ \A k \in 1..n : t[k] = s[p[k]] /\ p[k] \in 1..n
  <2>1. s \in [1..n -> Items]
    BY <1>1 DEF n
  <2> QED
    BY <2>1, <1>1, <1>2, <1>4
<1>6. t \in Seq(Items) /\ Len(t) = n
  BY <1>1, <1>5
<1>7. IsInjective(t)
  BY <1>1, <1>4, <1>5 DEF IsInjective
<1>8. Listed(t) = Listed(s)
  <2>1. ASSUME NEW i \in Listed(t) PROVE i \in Listed(s)
    BY <2>1, <1>1, <1>4, <1>5 DEF Listed
  <2>2. ASSUME NEW i \in Listed(s) PROVE i \in Listed(t)
    <3>1. PICK r \in 1..n : s[r] = i
      BY <1>1 DEF Listed
    <3>2. PICK k \in 1..n : p[k] = r
      BY <1>4
    <3> QED
      BY <3>1, <3>2, <1>5 DEF Listed
  <2> QED
    BY <2>1, <2>2
<1> QED
  BY <1>1, <1>5, <1>6, <1>7, <1>8 DEF Permutes, IsList, n

\* Nor does the model's sort, which sorts by name in two passes.
LEMMA SortedPermutes ==
  ASSUME NEW s, IsList(s), NEW column, NEW order, NEW new \in Sorted(s, column, order)
  PROVE  Permutes(new, s)
<1>1. CASE column # "Filename"
  BY <1>1, StableSortedPermutes DEF Sorted
<1>2. CASE column = "Filename"
  <2>1. PICK t \in StableSorted(s, "Modified", order) : new \in StableSorted(t, column, order)
    BY <1>2 DEF Sorted
  <2>2. Permutes(t, s)
    BY StableSortedPermutes
  <2>3. Permutes(new, t)
    BY <2>1, <2>2, StableSortedPermutes DEF Permutes
  <2> QED
    BY <2>2, <2>3 DEF Permutes
<1> QED
  BY <1>1, <1>2

\* What a column is compared by is a number.
LEMMA KeyNumber ==
  ASSUME value \in [Items -> Versions], NEW column \in Columns, NEW i \in Items
  PROVE  Key[column][i][value[i]] \in Int
<1>1. Key[column] \in [Items -> [Versions -> Int]]
  BY ListAssumption
<1>2. value[i] \in Versions
  OBVIOUS
<1> QED
  BY <1>1, <1>2

\* By a column that has an order, no row comes to stand before a smaller one.
LEMMA StableSortedInOrder ==
  ASSUME value \in [Items -> Versions], NEW s, IsList(s),
         NEW column \in Columns \ {"Compressed"}, NEW order,
         NEW t \in StableSorted(s, column, order),
         NEW k \in DOMAIN t, NEW l \in DOMAIN t, k < l
  PROVE  ~CompareItems(column, order, t[l], t[k])
<1>1. PICK p \in StableOrders(s, column, order) : t = [m \in DOMAIN s |-> s[p[m]]]
  BY DEF StableSorted
<1>2. k \in DOMAIN s /\ l \in DOMAIN s /\ t[k] = s[p[k]] /\ t[l] = s[p[l]]
  BY <1>1
<1>3. IF p[k] < p[l] THEN ~CompareItems(column, order, s[p[l]], s[p[k]])
                     ELSE CompareItems(column, order, s[p[k]], s[p[l]])
  BY <1>1, <1>2 DEF StableOrders
<1>4. Permutes(t, s)
  BY StableSortedPermutes
<1>5. t[k] \in Items /\ t[l] \in Items
  BY <1>4 DEF Permutes, IsList
<1>6. /\ Key[column][t[k]][value[t[k]]] \in Int
      /\ Key[column][t[l]][value[t[l]]] \in Int
  BY <1>5, KeyNumber
<1>7. CompareItems(column, order, t[k], t[l]) => ~CompareItems(column, order, t[l], t[k])
  BY <1>6 DEF CompareItems
<1> QED
  BY <1>2, <1>3, <1>7

LEMMA SortedInOrder ==
  ASSUME value \in [Items -> Versions], NEW s, IsList(s),
         NEW column \in Columns \ {"Compressed"}, NEW order,
         NEW new \in Sorted(s, column, order),
         NEW k \in DOMAIN new, NEW l \in DOMAIN new, k < l
  PROVE  ~CompareItems(column, order, new[l], new[k])
<1>1. CASE column # "Filename"
  BY <1>1, StableSortedInOrder DEF Sorted
<1>2. CASE column = "Filename"
  <2>1. PICK t \in StableSorted(s, "Modified", order) : new \in StableSorted(t, column, order)
    BY <1>2 DEF Sorted
  <2>2. IsList(t)
    BY StableSortedPermutes DEF Permutes
  <2> QED
    BY <2>1, <2>2, StableSortedInOrder
<1> QED
  BY <1>1, <1>2

------------------------------------------------------------------------------
(* The list *)

\* What the user selected and has not lost to the filter is shown.
PickedShown == picked \subseteq visible

\* What every reachable state satisfies; the parts need no other strengthening
\* than one another.
ListInv ==
    /\ ListTypeOK /\ SelectionFollowsItems /\ PickedShown
    /\ FilterIsCurrent /\ FilterFollowsText /\ RowsSorted

\* Sorting moves the selection with the items and leaves nothing out of order.
LEMMA SortRowsKeeps ==
  ASSUME value \in [Items -> Versions], value' = value,
         NEW s, IsList(s), NEW sel \in SUBSET DOMAIN s,
         NEW column \in Columns, NEW order \in SortOrders,
         SortRows(s, sel, column, order)
  PROVE  /\ IsList(rows') /\ Listed(rows') = Listed(s)
         /\ selection' \subseteq DOMAIN rows'
         /\ {rows'[k] : k \in selection'} = {s[k] : k \in sel}
         /\ sort_column' = column /\ sort_order' = order /\ moved' = {}
         /\ RowsSorted'
<1>1. PICK new \in Sorted(s, column, order) :
         /\ rows' = new
         /\ selection' = {NewRow(k, s, new) : k \in sel}
         /\ sort_column' = column /\ sort_order' = order /\ moved' = {}
  BY DEF SortRows
<1>2. IsList(new) /\ DOMAIN new = DOMAIN s /\ Listed(new) = Listed(s)
  BY SortedPermutes DEF Permutes
<1>3. ASSUME NEW k \in sel
      PROVE  NewRow(k, s, new) \in DOMAIN new /\ new[NewRow(k, s, new)] = s[k]
  <2>1. new \in Seq(Items) /\ s[k] \in Listed(new)
    BY <1>2, <1>3 DEF IsList, Listed
  <2> QED
    BY <2>1, PositionFound DEF NewRow
<1>4. selection' \subseteq DOMAIN rows'
  BY <1>1, <1>3
<1>5. {rows'[k] : k \in selection'} = {s[k] : k \in sel}
  BY <1>1, <1>3
<1>6. RowsSorted'
  <2>1. ASSUME column # "Compressed",
               NEW k \in DOMAIN new, NEW l \in DOMAIN new, k < l
        PROVE  ~CompareItems(column, order, new[l], new[k])
    BY <2>1, SortedInOrder
  <2>2. \A i, j : CompareItems(column, order, i, j)' <=> CompareItems(column, order, i, j)
    BY DEF CompareItems
  <2> QED
    BY <1>1, <2>1, <2>2 DEF RowsSorted
<1> QED
  BY <1>1, <1>2, <1>4, <1>5, <1>6

\* Every row is filtered again, and those selected that the proxy drops are no
\* longer picked either.
LEMMA SortKeepsList ==
  ASSUME ListInv, NEW column \in Columns, NEW order \in SortOrders, Sort(column, order)
  PROVE  ListInv'
<1> DEFINE sel == {k \in selection : rows[k] \in visible'}
<1>1. /\ value' = value /\ stale' = stale /\ text' = text /\ filter' = filter
      /\ filter_timer' = filter_timer
      /\ visible' = Shown(rows, filter) /\ picked' = picked \cap visible'
      /\ SortRows(rows, sel, column, order)
  BY DEF Sort, itemVars, filterVars
<1>2. IsList(rows) /\ value \in [Items -> Versions] /\ sel \in SUBSET DOMAIN rows
  BY DEF ListInv, ListTypeOK, IsList
<1>3. /\ IsList(rows') /\ Listed(rows') = Listed(rows)
      /\ selection' \subseteq DOMAIN rows'
      /\ {rows'[k] : k \in selection'} = {rows[k] : k \in sel}
      /\ sort_column' = column /\ sort_order' = order /\ moved' = {}
      /\ RowsSorted'
  BY <1>1, <1>2, SortRowsKeeps
<1>4. ListTypeOK'
  BY <1>1, <1>3 DEF ListInv, ListTypeOK, IsList, Shown
<1>5. SelectionFollowsItems'
  <2>1. {rows[k] : k \in sel} = SelectedItems \cap visible'
    BY DEF SelectedItems
  <2> QED
    BY <1>1, <1>3, <2>1 DEF ListInv, SelectionFollowsItems, SelectedItems
<1>6. FilterIsCurrent' /\ FilterFollowsText'
  BY <1>1, <1>3 DEF ListInv, FilterIsCurrent, FilterAcceptsRow, FilterFollowsText, Shown
<1>7. PickedShown'
  BY <1>1 DEF PickedShown
<1> QED
  BY <1>3, <1>4, <1>5, <1>6, <1>7 DEF ListInv

LEMMA OverwriteItemKeepsList ==
  ASSUME ListInv, NEW i \in Items, NEW v \in Versions, OverwriteItem(i, v)
  PROVE  ListInv'
<1>1. /\ i \in Listed(rows) /\ value' = [value EXCEPT ![i] = v]
      /\ stale' = stale \cup {i} /\ moved' = moved \cup {i}
      /\ rows' = rows /\ sort_column' = sort_column /\ sort_order' = sort_order
      /\ text' = text /\ filter' = filter /\ filter_timer' = filter_timer
      /\ visible' = visible /\ selection' = selection /\ picked' = picked
  BY DEF OverwriteItem, filterVars
<1>2. value \in [Items -> Versions] /\ \A j \in Items : j # i => value'[j] = value[j]
  BY <1>1 DEF ListInv, ListTypeOK
<1>3. ListTypeOK'
  BY <1>1, <1>2 DEF ListInv, ListTypeOK, Listed
<1>4. SelectionFollowsItems' /\ FilterFollowsText'
  BY <1>1 DEF ListInv, SelectionFollowsItems, SelectedItems, FilterFollowsText
<1>5. \A k \in DOMAIN rows : rows[k] \in Items
  BY DEF ListInv, ListTypeOK
<1>6. FilterIsCurrent'
  BY <1>1, <1>2, <1>5 DEF ListInv, FilterIsCurrent, FilterAcceptsRow, Listed
<1>7. RowsSorted'
  BY <1>1, <1>2, <1>5 DEF ListInv, RowsSorted, CompareItems
<1>8. PickedShown'
  BY <1>1 DEF ListInv, PickedShown
<1> QED
  BY <1>3, <1>4, <1>6, <1>7, <1>8 DEF ListInv

\* A row that is appended stands after the others.
LEMMA Appended ==
  ASSUME NEW s, IsList(s), NEW i \in Items \ Listed(s)
  PROVE  /\ IsList(Append(s, i)) /\ Listed(Append(s, i)) = Listed(s) \cup {i}
         /\ DOMAIN s \subseteq DOMAIN Append(s, i)
         /\ \A k \in DOMAIN s : Append(s, i)[k] = s[k]
<1> DEFINE longer == Append(s, i)
<1>1. s \in Seq(Items) /\ Len(s) \in Nat /\ DOMAIN s = 1..Len(s)
  BY DEF IsList
<1>2. /\ longer \in Seq(Items) /\ DOMAIN longer = DOMAIN s \cup {Len(s) + 1}
      /\ \A k \in DOMAIN s : longer[k] = s[k]
      /\ longer[Len(s) + 1] = i
  BY <1>1
<1> HIDE DEF longer
<1>3. IsInjective(longer)
  BY <1>2 DEF IsList, IsInjective, Listed
<1>4. Listed(longer) = Listed(s) \cup {i}
  BY <1>1, <1>2 DEF Listed
<1> QED
  BY <1>2, <1>3, <1>4 DEF IsList, longer

LEMMA AddedFilesKeepsList ==
  ASSUME ListInv, NEW i \in Items, AddedFiles(i)
  PROVE  ListInv'
<1> DEFINE longer == Append(rows, i)
           sel == {k \in selection : rows[k] \in visible'}
<1>1. /\ i \notin Listed(rows) /\ value' = value /\ stale' = stale /\ text' = text
      /\ filter' = filter /\ filter_timer' = filter_timer
      /\ visible' = Shown(longer, filter) /\ picked' = picked \cap visible'
      /\ SortRows(longer, sel, sort_column, sort_order)
  BY DEF AddedFiles, filterVars
<1>2. /\ IsList(longer) /\ Listed(longer) = Listed(rows) \cup {i}
      /\ DOMAIN rows \subseteq DOMAIN longer
      /\ \A k \in DOMAIN rows : longer[k] = rows[k]
  BY <1>1, Appended DEF ListInv, ListTypeOK, IsList
<1> HIDE DEF longer
<1>3. /\ value \in [Items -> Versions] /\ sort_column \in Columns /\ sort_order \in SortOrders
      /\ selection \subseteq DOMAIN rows
  BY DEF ListInv, ListTypeOK
<1>4. sel \in SUBSET DOMAIN longer
  BY <1>2, <1>3
<1>5. /\ IsList(rows') /\ Listed(rows') = Listed(longer)
      /\ selection' \subseteq DOMAIN rows'
      /\ {rows'[k] : k \in selection'} = {longer[k] : k \in sel}
      /\ sort_column' = sort_column /\ sort_order' = sort_order /\ moved' = {}
      /\ RowsSorted'
  BY <1>1, <1>2, <1>3, <1>4, SortRowsKeeps
<1>6. ListTypeOK'
  BY <1>1, <1>2, <1>5 DEF ListInv, ListTypeOK, IsList, Shown
<1>7. SelectionFollowsItems'
  <2>1. {longer[k] : k \in sel} = SelectedItems \cap visible'
    BY <1>2, <1>3 DEF SelectedItems
  <2> QED
    BY <1>1, <1>5, <2>1 DEF ListInv, SelectionFollowsItems, SelectedItems
<1>8. FilterIsCurrent' /\ FilterFollowsText'
  BY <1>1, <1>5 DEF ListInv, FilterIsCurrent, FilterAcceptsRow, FilterFollowsText, Shown
<1>9. PickedShown'
  BY <1>1 DEF ListInv, PickedShown
<1> QED
  BY <1>5, <1>6, <1>7, <1>8, <1>9 DEF ListInv

\* Where a row of a list is once a row is taken out of it.
LEMMA Removed ==
  ASSUME NEW s, IsList(s), NEW r \in DOMAIN s
  PROVE  /\ IsList(RemoveAt(s, r)) /\ Listed(RemoveAt(s, r)) = Listed(s) \ {s[r]}
         /\ Len(RemoveAt(s, r)) = Len(s) - 1
         /\ \A k \in DOMAIN RemoveAt(s, r) :
              RemoveAt(s, r)[k] = IF k < r THEN s[k] ELSE s[k + 1]
<1> DEFINE rest == RemoveAt(s, r)
<1>1. /\ s \in Seq(Items) /\ Len(s) \in Nat /\ DOMAIN s = 1..Len(s) /\ r \in 1..Len(s)
      /\ \A a, b \in 1..Len(s) : s[a] = s[b] => a = b
  BY DEF IsList, IsInjective
<1>2. /\ rest \in Seq(Items) /\ Len(rest) = Len(s) - 1
      /\ \A k \in 1..(Len(s) - 1) : rest[k] = IF k < r THEN s[k] ELSE s[k + 1]
  <2> DEFINE before == SubSeq(s, 1, r - 1)
             after == SubSeq(s, r + 1, Len(s))
  <2>1. before \in Seq(Items) /\ Len(before) = r - 1 /\ \A k \in 1..(r - 1) : before[k] = s[k]
    BY <1>1
  <2>2. /\ after \in Seq(Items) /\ Len(after) = Len(s) - r
        /\ \A k \in 1..(Len(s) - r) : after[k] = s[r + k]
    BY <1>1
  <2>3. rest = before \o after
    BY DEF RemoveAt
  <2> HIDE DEF before, after, rest
  <2>4. /\ rest \in Seq(Items) /\ Len(rest) = Len(before) + Len(after)
        /\ \A k \in 1..Len(before) : rest[k] = before[k]
        /\ \A k \in 1..Len(after) : rest[Len(before) + k] = after[k]
    <3>1. before \in Seq(Items) /\ after \in Seq(Items)
      BY <2>1, <2>2
    <3>2. /\ before \o after \in Seq(Items) /\ Len(before \o after) = Len(before) + Len(after)
          /\ \A k \in 1..Len(before) : (before \o after)[k] = before[k]
          /\ \A k \in 1..Len(after) : (before \o after)[Len(before) + k] = after[k]
      BY <3>1
    <3> QED
      BY <2>3, <3>2, Zenon
  <2>5. ASSUME NEW k \in 1..(Len(s) - 1), k < r PROVE rest[k] = s[k]
    <3>1. k \in 1..(r - 1)
      BY <1>1, <2>5
    <3> QED
      BY <2>1, <2>4, <3>1
  <2>6. ASSUME NEW k \in 1..(Len(s) - 1), ~(k < r) PROVE rest[k] = s[k + 1]
    <3> DEFINE m == k - (r - 1)
    <3>1. m \in 1..(Len(s) - r) /\ r + m = k + 1 /\ (r - 1) + m = k
      BY <1>1, <2>6
    <3> HIDE DEF m
    <3>2. after[m] = s[k + 1]
      BY <2>2, <3>1
    <3>3. rest[k] = after[m]
      BY <2>1, <2>2, <2>4, <3>1
    <3> QED
      BY <3>2, <3>3
  <2> QED
    BY <1>1, <2>1, <2>2, <2>4, <2>5, <2>6
<1> HIDE DEF rest
<1>3. DOMAIN rest = 1..(Len(s) - 1)
  BY <1>1, <1>2
<1>4. IsInjective(rest)
  BY <1>1, <1>2, <1>3 DEF IsInjective
<1>5. Listed(rest) = Listed(s) \ {s[r]}
  <2>1. ASSUME NEW i \in Listed(rest) PROVE i \in Listed(s) \ {s[r]}
    BY <1>1, <1>2, <1>3 DEF Listed
  <2>2. ASSUME NEW i \in Listed(s) \ {s[r]} PROVE i \in Listed(rest)
    <3>1. PICK a \in 1..Len(s) : s[a] = i /\ a # r
      BY <1>1 DEF Listed
    <3>2. CASE a < r
      BY <1>1, <1>2, <1>3, <3>1, <3>2 DEF Listed
    <3>3. CASE a > r
      <4>1. a - 1 \in DOMAIN rest /\ rest[a - 1] = i
        BY <1>1, <1>2, <1>3, <3>1, <3>3
      <4> QED
        BY <4>1 DEF Listed
    <3> QED
      BY <1>1, <3>1, <3>2, <3>3
  <2> QED
    BY <2>1, <2>2
<1> QED
  BY <1>2, <1>3, <1>4, <1>5 DEF IsList, rest

LEMMA UpdatedFilesKeepsList ==
  ASSUME ListInv, NEW i \in Items, UpdatedFiles(i)
  PROVE  ListInv'
<1>1. /\ i \in stale /\ stale' = stale \ {i} /\ visible' = Refiltered(rows, {i})
      /\ selection' = {k \in selection : rows[k] \in visible'}
      /\ picked' = picked \cap visible'
      /\ value' = value /\ rows' = rows /\ moved' = moved
      /\ sort_column' = sort_column /\ sort_order' = sort_order
      /\ text' = text /\ filter' = filter /\ filter_timer' = filter_timer
  BY DEF UpdatedFiles, modelVars, filterVars
<1>2. visible' \subseteq Listed(rows)
  BY <1>1 DEF ListInv, ListTypeOK, Refiltered, Shown
<1>3. ListTypeOK'
  BY <1>1, <1>2 DEF ListInv, ListTypeOK
<1>4. SelectionFollowsItems'
  BY <1>1 DEF ListInv, SelectionFollowsItems, SelectedItems
<1>5. FilterIsCurrent' /\ FilterFollowsText'
  BY <1>1 DEF ListInv, FilterIsCurrent, FilterAcceptsRow, FilterFollowsText, Refiltered, Shown
<1>6. RowsSorted'
  BY <1>1 DEF ListInv, RowsSorted, CompareItems
<1>7. PickedShown'
  BY <1>1 DEF ListInv, PickedShown
<1> QED
  BY <1>3, <1>4, <1>5, <1>6, <1>7 DEF ListInv

LEMMA DeletedFilesKeepsList ==
  ASSUME ListInv, NEW i \in Items, DeletedFiles(i)
  PROVE  ListInv'
<1> DEFINE pos == Position(rows, i)
           rest == RemoveAt(rows, pos)
           changed == IF pos <= Len(rest) /\ Len(rest) <= ColumnCount
                      THEN {rest[pos]} ELSE {}
<1>1. /\ i \in Listed(rows) \ stale /\ rows' = rest
      /\ visible' = Refiltered(rest, changed) \ {i}
      /\ selection' = {Position(rest, j) : j \in SelectedItems \cap visible'}
      /\ picked' = picked \cap visible' /\ moved' = moved \ {i}
      /\ value' = value /\ stale' = stale
      /\ sort_column' = sort_column /\ sort_order' = sort_order
      /\ text' = text /\ filter' = filter /\ filter_timer' = filter_timer
  BY DEF DeletedFiles, filterVars
<1>2. IsList(rows) /\ pos \in DOMAIN rows /\ rows[pos] = i
  BY <1>1, PositionFound DEF ListInv, ListTypeOK, IsList
<1>3. /\ IsList(rest) /\ Listed(rest) = Listed(rows) \ {i} /\ Len(rest) = Len(rows) - 1
      /\ \A k \in DOMAIN rest : rest[k] = IF k < pos THEN rows[k] ELSE rows[k + 1]
  BY <1>2, Removed
<1>4. pos \in 1..Len(rows) /\ Len(rows) \in Nat /\ DOMAIN rows = 1..Len(rows)
      /\ DOMAIN rest = 1..(Len(rows) - 1)
  BY <1>2, <1>3 DEF IsList
<1>5. changed \subseteq Listed(rest)
  BY <1>3, <1>4 DEF Listed
<1> HIDE DEF pos, rest, changed
<1>6. visible' \subseteq Listed(rest)
  BY <1>1, <1>3, <1>5 DEF ListInv, ListTypeOK, Refiltered, Shown
<1>7. \A j \in SelectedItems \cap visible' :
        Position(rest, j) \in DOMAIN rest /\ rest[Position(rest, j)] = j
  BY <1>3, <1>6, PositionFound DEF IsList
<1>8. ListTypeOK'
  <2>1. selection' \subseteq DOMAIN rest
    BY <1>1, <1>7
  <2> QED
    BY <1>1, <1>3, <1>6, <2>1 DEF ListInv, ListTypeOK, IsList
<1>9. SelectionFollowsItems'
  <2>1. {rest[k] : k \in selection'} = SelectedItems \cap visible'
    BY <1>1, <1>7
  <2> QED
    BY <1>1, <2>1 DEF ListInv, SelectionFollowsItems, SelectedItems
<1>10. FilterIsCurrent' /\ FilterFollowsText'
  BY <1>1, <1>3 DEF ListInv, FilterIsCurrent, FilterAcceptsRow, FilterFollowsText, Refiltered, Shown
<1>11. RowsSorted'
  <2>1. ASSUME sort_column # "Compressed",
               NEW k \in DOMAIN rest, NEW l \in DOMAIN rest, k < l,
               rest[k] \notin moved \ {i}, rest[l] \notin moved \ {i}
        PROVE  ~CompareItems(sort_column, sort_order, rest[l], rest[k])
    <3>1. rest[k] # i /\ rest[l] # i
      BY <1>3 DEF Listed
    <3>2. PICK a \in DOMAIN rows, b \in DOMAIN rows :
            a < b /\ rest[k] = rows[a] /\ rest[l] = rows[b]
      <4>1. rest[k] = rows[IF k < pos THEN k ELSE k + 1] /\ rest[l] = rows[IF l < pos THEN l ELSE l + 1]
        BY <1>3
      <4>2. /\ (IF k < pos THEN k ELSE k + 1) \in DOMAIN rows
            /\ (IF l < pos THEN l ELSE l + 1) \in DOMAIN rows
            /\ (IF k < pos THEN k ELSE k + 1) < (IF l < pos THEN l ELSE l + 1)
        BY <1>4, <2>1
      <4> QED
        BY <4>1, <4>2
    <3> QED
      BY <2>1, <3>1, <3>2 DEF ListInv, RowsSorted
  <2>2. \A a, b : CompareItems(sort_column, sort_order, a, b)' <=>
                 CompareItems(sort_column, sort_order, a, b)
    BY <1>1 DEF CompareItems
  <2> QED
    BY <1>1, <2>1, <2>2 DEF RowsSorted
<1>12. PickedShown'
  BY <1>1 DEF ListInv, PickedShown
<1> QED
  BY <1>8, <1>9, <1>10, <1>11, <1>12 DEF ListInv

LEMMA UpdateFilterKeepsList ==
  ASSUME ListInv, text' \in Texts, UpdateFilter, filter_timer' \in BOOLEAN,
         UNCHANGED <<itemVars, modelVars>>
  PROVE  ListInv'
<1>1. /\ filter' = text' /\ visible' = Shown(rows, text')
      /\ selection' = {k \in selection : rows[k] \in visible'}
      /\ picked' = picked \cap visible'
      /\ value' = value /\ stale' = stale /\ rows' = rows /\ moved' = moved
      /\ sort_column' = sort_column /\ sort_order' = sort_order
  BY DEF UpdateFilter, itemVars, modelVars
<1>2. ListTypeOK'
  BY <1>1 DEF ListInv, ListTypeOK, Shown
<1>3. SelectionFollowsItems'
  BY <1>1 DEF ListInv, SelectionFollowsItems, SelectedItems
<1>4. FilterIsCurrent' /\ FilterFollowsText'
  BY <1>1 DEF FilterIsCurrent, FilterAcceptsRow, FilterFollowsText, Shown
<1>5. RowsSorted'
  BY <1>1 DEF ListInv, RowsSorted, CompareItems
<1>6. PickedShown'
  BY <1>1 DEF ListInv, PickedShown
<1> QED
  BY <1>2, <1>3, <1>4, <1>5, <1>6 DEF ListInv

LEMMA TextChangedKeepsList ==
  ASSUME ListInv, NEW t \in Texts, TextChanged(t)
  PROVE  ListInv'
<1>1. text' = t /\ MaybeUpdateFilter /\ UNCHANGED <<itemVars, modelVars>>
  BY Zenon DEF TextChanged
<1>2. CASE Len(rows) < kFilterDelaySizeThreshold \/ text' = NoText
  <2>1. UpdateFilter /\ filter_timer' = filter_timer
    BY <1>1, <1>2 DEF MaybeUpdateFilter
  <2>2. filter_timer' \in BOOLEAN
    BY <2>1 DEF ListInv, ListTypeOK
  <2> QED
    BY <1>1, <2>1, <2>2, UpdateFilterKeepsList
<1>3. CASE ~(Len(rows) < kFilterDelaySizeThreshold \/ text' = NoText)
  <2>1. /\ filter_timer' = TRUE /\ filter' = filter /\ visible' = visible
        /\ selection' = selection /\ picked' = picked
        /\ value' = value /\ stale' = stale /\ rows' = rows /\ moved' = moved
        /\ sort_column' = sort_column /\ sort_order' = sort_order
    BY <1>1, <1>3 DEF MaybeUpdateFilter, itemVars, modelVars
  <2>2. ListTypeOK'
    BY <1>1, <2>1 DEF ListInv, ListTypeOK
  <2>3. SelectionFollowsItems' /\ FilterFollowsText'
    BY <2>1 DEF ListInv, SelectionFollowsItems, SelectedItems, FilterFollowsText
  <2>4. FilterIsCurrent'
    BY <2>1 DEF ListInv, FilterIsCurrent, FilterAcceptsRow
  <2>5. RowsSorted'
    BY <2>1 DEF ListInv, RowsSorted, CompareItems
  <2>6. PickedShown'
    BY <2>1 DEF ListInv, PickedShown
  <2> QED
    BY <2>2, <2>3, <2>4, <2>5, <2>6 DEF ListInv
<1> QED
  BY <1>2, <1>3

LEMMA FilterTimeoutKeepsList ==
  ASSUME ListInv, FilterTimeout
  PROVE  ListInv'
<1>1. text' = text /\ filter_timer' = FALSE /\ UpdateFilter /\ UNCHANGED <<itemVars, modelVars>>
  BY Zenon DEF FilterTimeout
<1>2. text' \in Texts /\ filter_timer' \in BOOLEAN
  BY <1>1 DEF ListInv, ListTypeOK
<1> QED
  BY <1>1, <1>2, UpdateFilterKeepsList

LEMMA SelectKeepsList ==
  ASSUME ListInv, NEW items \in SUBSET visible, Select(items)
  PROVE  ListInv'
<1>1. /\ selection' = {Position(rows, i) : i \in items} /\ picked' = items
      /\ value' = value /\ stale' = stale /\ rows' = rows /\ moved' = moved
      /\ sort_column' = sort_column /\ sort_order' = sort_order
      /\ text' = text /\ filter' = filter /\ filter_timer' = filter_timer
      /\ visible' = visible
  BY DEF Select, itemVars, modelVars, filterVars
<1>2. \A i \in items : Position(rows, i) \in DOMAIN rows /\ rows[Position(rows, i)] = i
  BY PositionFound DEF ListInv, ListTypeOK
<1>3. ListTypeOK'
  <2>1. selection' \subseteq DOMAIN rows
    BY <1>1, <1>2
  <2>2. items \subseteq Items
    BY DEF ListInv, ListTypeOK, Listed
  <2> QED
    BY <1>1, <2>1, <2>2 DEF ListInv, ListTypeOK
<1>4. SelectionFollowsItems'
  <2>1. {rows[k] : k \in selection'} = items
    BY <1>1, <1>2
  <2> QED
    BY <1>1, <2>1 DEF SelectionFollowsItems, SelectedItems
<1>5. FilterIsCurrent' /\ FilterFollowsText'
  BY <1>1 DEF ListInv, FilterIsCurrent, FilterAcceptsRow, FilterFollowsText
<1>6. RowsSorted'
  BY <1>1 DEF ListInv, RowsSorted, CompareItems
<1>7. PickedShown'
  BY <1>1 DEF ListInv, PickedShown
<1> QED
  BY <1>3, <1>4, <1>5, <1>6, <1>7 DEF ListInv

------------------------------------------------------------------------------
\* An empty list.
LEMMA InitList == ListInit => ListInv
<1> SUFFICES ASSUME ListInit PROVE ListInv
  OBVIOUS
<1>1. /\ value \in [Items -> Versions] /\ stale = {} /\ rows = <<>> /\ moved = {}
      /\ sort_column \in Columns /\ sort_order \in SortOrders
      /\ text = NoText /\ filter = NoText /\ filter_timer = FALSE
      /\ visible = {} /\ selection = {} /\ picked = {}
  BY DEF ListInit
<1>2. DOMAIN rows = {} /\ rows \in Seq(Items) /\ NoText \in Texts
  BY <1>1, ListAssumption
<1>3. ListTypeOK
  BY <1>1, <1>2 DEF ListTypeOK, IsInjective
<1> QED
  BY <1>1, <1>2, <1>3 DEF ListInv, SelectionFollowsItems, SelectedItems,
     PickedShown, FilterIsCurrent, FilterFollowsText, RowsSorted, Listed

LEMMA StepKeepsList ==
  ASSUME ListInv, ListNext
  PROVE  ListInv'
<1>1. CASE ScannerStep
  <2>1. PICK i \in Items : SignalStep(i) \/ \E v \in Versions : OverwriteItem(i, v)
    BY <1>1, Zenon DEF ScannerStep
  <2> QED
    BY <2>1, AddedFilesKeepsList, UpdatedFilesKeepsList, DeletedFilesKeepsList,
       OverwriteItemKeepsList, Zenon DEF SignalStep
<1>2. CASE SearchStep
  <2>1. NoText \in Texts
    BY ListAssumption
  <2> QED
    BY <1>2, <2>1, TextChangedKeepsList, Zenon DEF SearchStep, ClearFilter, Type
<1>3. CASE FilterTimeout
  BY <1>3, FilterTimeoutKeepsList, Zenon
<1>4. CASE SortStep
  BY <1>4, SortKeepsList, Zenon DEF SortStep
<1>5. CASE SelectStep
  BY <1>5, SelectKeepsList, Zenon DEF SelectStep
<1> QED
  BY <1>1, <1>2, <1>3, <1>4, <1>5, Zenon DEF ListNext

LEMMA StutterKeepsList ==
  ASSUME ListInv, UNCHANGED listVars
  PROVE  ListInv'
<1>1. /\ value' = value /\ stale' = stale /\ rows' = rows /\ moved' = moved
      /\ sort_column' = sort_column /\ sort_order' = sort_order
      /\ text' = text /\ filter' = filter /\ filter_timer' = filter_timer
      /\ visible' = visible /\ selection' = selection /\ picked' = picked
  BY DEF listVars, itemVars, modelVars, filterVars
<1>2. ListTypeOK'
  BY <1>1 DEF ListInv, ListTypeOK
<1>3. SelectionFollowsItems' /\ FilterFollowsText'
  BY <1>1 DEF ListInv, SelectionFollowsItems, SelectedItems, FilterFollowsText
<1>4. FilterIsCurrent' /\ RowsSorted'
  BY <1>1 DEF ListInv, FilterIsCurrent, FilterAcceptsRow, RowsSorted, CompareItems
<1>5. PickedShown'
  BY <1>1 DEF ListInv, PickedShown
<1> QED
  BY <1>2, <1>3, <1>4, <1>5 DEF ListInv

THEOREM ListInvariant == ListSpec => []ListInv
<1>1. ListInit => ListInv
  BY InitList
<1>2. ListInv /\ [ListNext]_listVars => ListInv'
  BY StepKeepsList, StutterKeepsList, Zenon
<1> QED
  BY <1>1, <1>2, PTL DEF ListSpec

\* Every variable of the list has its type, no file is listed twice, and the
\* selection, the proxy's rows and the reports under way are of files listed.
THEOREM ListTypeCorrect == ListSpec => []ListTypeOK
<1>1. ListInv => ListTypeOK
  BY DEF ListInv
<1> QED
  BY <1>1, ListInvariant, PTL

\* The files selected are those that the user selected, wherever sort() moved
\* their rows.
THEOREM SelectionFollows == ListSpec => []SelectionFollowsItems
<1>1. ListInv => SelectionFollowsItems
  BY DEF ListInv
<1> QED
  BY <1>1, ListInvariant, PTL

\* The proxy shows what the filter accepts of the items as they are now.
THEOREM FilterCurrent == ListSpec => []FilterIsCurrent
<1>1. ListInv => FilterIsCurrent
  BY DEF ListInv
<1> QED
  BY <1>1, ListInvariant, PTL

\* No text in the search field is forgotten.
THEOREM FilterFollows == ListSpec => []FilterFollowsText
<1>1. ListInv => FilterFollowsText
  BY DEF ListInv
<1> QED
  BY <1>1, ListInvariant, PTL

\* Rows stand in the order of the column, but for items overwritten since.
THEOREM Ordered == ListSpec => []RowsSorted
<1>1. ListInv => RowsSorted
  BY DEF ListInv
<1> QED
  BY <1>1, ListInvariant, PTL
=============================================================================
