--------------------------- MODULE ListPageProofs ---------------------------
(* Proofs about ListPage: the window around the list, for every set of files   *)
(* and however scans, connections, restores and the user interleave.           *)
EXTENDS ListPage, FileListProofs

\* The window's own variables; the last line is why a status may be shown.
WindowType ==
    /\ scan \in [on : BOOLEAN, todo : SUBSET Items]
    /\ page \in {"select_file", "progress", "summary"}
    /\ connected \in BOOLEAN /\ connection_status \in Statuses \cup {""}
    /\ file_load_error \in BOOLEAN /\ label \in Statuses \cup {"", "LoadError"}
    /\ watcher \in BOOLEAN
    /\ restore_enabled \in BOOLEAN /\ unselect_enabled \in BOOLEAN /\ dropped \in BOOLEAN
    /\ files \subseteq Items /\ (files # {} => page = "progress")

\* A scan that begins forgets the error of the last one, and one that reports an
\* error is over.
NoErrorInScan == scan.on => ~file_load_error

WindowInv ==
    /\ WindowType /\ NoErrorInScan
    /\ ButtonsFollowSelection /\ StatusLineRight /\ LoadingOnlyInScan

PageInv == ListInv /\ WindowInv

------------------------------------------------------------------------------
(* Steps of the list *)

\* Rows are selected if and only if items are.
LEMMA NothingSelected ==
  /\ SelectedItems = {} <=> selection = {}
  /\ SelectedItems' = {} <=> selection' = {}
  BY DEF SelectedItems

\* The buttons of a connection and a selection have their types, and so has the
\* history of what a sort dropped.
ButtonTypes == restore_enabled \in BOOLEAN /\ unselect_enabled \in BOOLEAN /\ dropped \in BOOLEAN

\* The buttons are set when the selection has changed: if it has not, they still
\* fit it.
LEMMA ButtonsFollow ==
  ASSUME WindowInv, FileSelectionChanged, UNCHANGED <<page, connected>>
  PROVE  ButtonsFollowSelection' /\ ButtonTypes'
<1>1. page' = page /\ connected' = connected /\ connected \in BOOLEAN /\ ButtonTypes
  BY DEF WindowInv, WindowType, ButtonTypes
<1>2. CASE OnListPage /\ SelectedItems' # SelectedItems
  <2>1. /\ restore_enabled' = (connected /\ selection' # {})
        /\ unselect_enabled' = (selection' # {})
        /\ dropped' = FALSE
    BY <1>2, Zenon DEF FileSelectionChanged
  <2>2. ButtonTypes'
    BY <1>1, <2>1 DEF ButtonTypes
  <2>3. (restore_enabled' <=> connected /\ selection' # {}) /\ (unselect_enabled' <=> selection' # {})
    BY <2>1, Zenon
  <2>4. connected' <=> connected
    BY <1>1
  <2>5. ButtonsFollowSelection'
    BY <2>3, <2>4, Zenon DEF ButtonsFollowSelection
  <2> QED
    BY <2>2, <2>5
<1>3. CASE ~(OnListPage /\ SelectedItems' # SelectedItems)
  <2>1. /\ restore_enabled' = restore_enabled /\ unselect_enabled' = unselect_enabled
        /\ dropped' = dropped
    BY <1>3 DEF FileSelectionChanged, buttonVars
  <2>2. OnListPage => (selection' = {} <=> selection = {})
    BY <1>3, NothingSelected
  <2>3. OnListPage' <=> OnListPage
    BY <1>1 DEF OnListPage
  <2>4. ButtonsFollowSelection'
    BY <1>1, <2>1, <2>2, <2>3 DEF ButtonsFollowSelection, WindowInv
  <2> QED
    BY <1>1, <2>1, <2>4 DEF ButtonTypes
<1> QED
  BY <1>2, <1>3

\* A sort leaves the buttons as they are, and it may have dropped what they were
\* set for; it selects nothing.
LEMMA ButtonsLeft ==
  ASSUME PageInv, ListInv', SortList
  PROVE  ButtonsFollowSelection' /\ ButtonTypes'
<1>1. /\ page' = page /\ connected' = connected
      /\ restore_enabled' = restore_enabled /\ unselect_enabled' = unselect_enabled
      /\ dropped' = (dropped \/ SelectedItems' # SelectedItems)
  BY DEF SortList, restOfWindow, statusVars
<1>2. connected \in BOOLEAN /\ ButtonTypes
  BY DEF PageInv, WindowInv, WindowType, ButtonTypes
<1>3. SelectedItems' \subseteq SelectedItems
  <2>1. PICK column \in Columns, order \in SortOrders : Sort(column, order)
    BY Zenon DEF SortList, SortStep
  <2>2. picked' \subseteq picked
    BY <2>1 DEF Sort
  <2> QED
    BY <2>2 DEF PageInv, ListInv, SelectionFollowsItems
<1>4. dropped' \in BOOLEAN /\ (dropped' <=> dropped \/ SelectedItems' # SelectedItems)
  BY <1>1, <1>2
<1>5. ButtonTypes'
  BY <1>1, <1>2, <1>4 DEF ButtonTypes
<1>6. selection = {} => selection' = {}
  BY <1>3, NothingSelected
<1>7. selection' = {} /\ ~dropped' => selection = {} /\ ~dropped
  BY <1>4, NothingSelected
<1>8. OnListPage' <=> OnListPage
  BY <1>1 DEF OnListPage
<1>9. ButtonsFollowSelection'
  BY <1>1, <1>2, <1>6, <1>7, <1>8 DEF PageInv, WindowInv, ButtonsFollowSelection
<1> QED
  BY <1>5, <1>9

\* Apart from that a step of the list leaves the window alone, if for the files
\* that a scan has still to come to.
LEMMA ListStepKeepsWindow ==
  ASSUME WindowInv, ButtonsFollowSelection', ButtonTypes', UNCHANGED restOfWindow,
         scan' \in [on : BOOLEAN, todo : SUBSET Items], scan'.on = scan.on
  PROVE  WindowInv'
<1>1. /\ page' = page /\ connected' = connected /\ connection_status' = connection_status
      /\ file_load_error' = file_load_error /\ label' = label /\ watcher' = watcher
      /\ files' = files
  BY DEF restOfWindow, statusVars
<1>2. WindowType'
  BY <1>1 DEF WindowInv, WindowType, ButtonTypes
<1>3. NoErrorInScan'
  BY <1>1 DEF WindowInv, NoErrorInScan
<1>4. StatusLineRight' /\ LoadingOnlyInScan'
  BY <1>1 DEF WindowInv, StatusLineRight, StatusText, LoadingOnlyInScan, OnListPage
<1> QED
  BY <1>2, <1>3, <1>4 DEF WindowInv

\* A step of the list that says how the selection has changed.
LEMMA ReportedStepKeepsWindow ==
  ASSUME WindowInv, FileSelectionChanged, UNCHANGED restOfWindow,
         scan' \in [on : BOOLEAN, todo : SUBSET Items], scan'.on = scan.on
  PROVE  WindowInv'
<1>1. UNCHANGED <<page, connected>>
  BY DEF restOfWindow, statusVars
<1>2. ButtonsFollowSelection' /\ ButtonTypes'
  BY <1>1, ButtonsFollow, Zenon
<1> QED
  BY <1>2, ListStepKeepsWindow, Zenon

\* A scan comes to a file.
LEMMA ScanGoesOn ==
  ASSUME WindowType, NEW i \in Items, ScanComesTo(i)
  PROVE  scan' \in [on : BOOLEAN, todo : SUBSET Items] /\ scan'.on = scan.on
  BY DEF WindowType, ScanComesTo

LEMMA FilesStepKeeps ==
  ASSUME PageInv, FilesStep
  PROVE  PageInv'
<1>1. PICK i \in Items : FileAddedOrDeleted(i) \/ FileUpdated(i) \/ FileOverwritten(i)
  BY Zenon DEF FilesStep
<1>2. CASE FileAddedOrDeleted(i)
  <2>1. /\ ScanComesTo(i) /\ (AddedFiles(i) \/ DeletedFiles(i))
        /\ FileSelectionChanged /\ UNCHANGED restOfWindow
    BY <1>2, Zenon DEF FileAddedOrDeleted
  <2>2. ListInv'
    BY <2>1, AddedFilesKeepsList, DeletedFilesKeepsList, Zenon DEF PageInv
  <2>3. scan' \in [on : BOOLEAN, todo : SUBSET Items] /\ scan'.on = scan.on
    BY <2>1, ScanGoesOn, Zenon DEF PageInv, WindowInv
  <2>4. WindowInv'
    BY <2>1, <2>3, ReportedStepKeepsWindow, Zenon DEF PageInv
  <2> QED
    BY <2>2, <2>4 DEF PageInv
<1>3. CASE FileUpdated(i)
  <2>1. /\ UpdatedFiles(i) /\ FileSelectionChanged /\ UNCHANGED restOfWindow /\ scan' = scan
    BY <1>3 DEF FileUpdated
  <2>2. ListInv'
    BY <2>1, UpdatedFilesKeepsList, Zenon DEF PageInv
  <2>3. scan' \in [on : BOOLEAN, todo : SUBSET Items] /\ scan'.on = scan.on
    BY <2>1 DEF PageInv, WindowInv, WindowType
  <2>4. WindowInv'
    BY <2>1, <2>3, ReportedStepKeepsWindow, Zenon DEF PageInv
  <2> QED
    BY <2>2, <2>4 DEF PageInv
<1>4. CASE FileOverwritten(i)
  <2>1. PICK v \in Versions : OverwriteItem(i, v)
    BY <1>4, Zenon DEF FileOverwritten
  <2>2. ScanComesTo(i) /\ UNCHANGED restOfWindow /\ UNCHANGED buttonVars
    BY <1>4 DEF FileOverwritten, windowVars, restOfWindow, buttonVars
  <2>3. SelectedItems' = SelectedItems
    BY <2>1 DEF OverwriteItem, SelectedItems
  <2>4. FileSelectionChanged
    BY <2>2, <2>3 DEF FileSelectionChanged
  <2>5. ListInv'
    BY <2>1, OverwriteItemKeepsList, Zenon DEF PageInv
  <2>6. scan' \in [on : BOOLEAN, todo : SUBSET Items] /\ scan'.on = scan.on
    BY <2>2, ScanGoesOn, Zenon DEF PageInv, WindowInv
  <2>7. WindowInv'
    BY <2>2, <2>4, <2>6, ReportedStepKeepsWindow, Zenon DEF PageInv
  <2> QED
    BY <2>5, <2>7 DEF PageInv
<1> QED
  BY <1>1, <1>2, <1>3, <1>4

LEMMA UseListKeeps ==
  ASSUME PageInv, UseList
  PROVE  PageInv'
<1>1. /\ (SelectStep \/ SearchStep \/ FilterTimeout)
      /\ FileSelectionChanged /\ UNCHANGED restOfWindow /\ scan' = scan
  BY DEF UseList
<1>2. ListInv'
  BY <1>1, StepKeepsList, Zenon DEF PageInv, ListNext
<1>3. scan' \in [on : BOOLEAN, todo : SUBSET Items] /\ scan'.on = scan.on
  BY <1>1 DEF PageInv, WindowInv, WindowType
<1>4. WindowInv'
  BY <1>1, <1>3, ReportedStepKeepsWindow, Zenon DEF PageInv
<1> QED
  BY <1>2, <1>4 DEF PageInv

LEMMA SortListKeeps ==
  ASSUME PageInv, SortList
  PROVE  PageInv'
<1>1. SortStep /\ UNCHANGED restOfWindow /\ scan' = scan
  BY Zenon DEF SortList
<1>2. ListInv'
  BY <1>1, StepKeepsList, Zenon DEF PageInv, ListNext
<1>3. ButtonsFollowSelection' /\ ButtonTypes'
  BY <1>2, ButtonsLeft, Zenon
<1>4. scan' \in [on : BOOLEAN, todo : SUBSET Items] /\ scan'.on = scan.on
  BY <1>1 DEF PageInv, WindowInv, WindowType
<1>5. WindowInv'
  BY <1>1, <1>3, <1>4, ListStepKeepsWindow, Zenon DEF PageInv
<1> QED
  BY <1>2, <1>5 DEF PageInv

------------------------------------------------------------------------------
(* Steps of the window: the list stays as it is, and with it the selection. *)

LEMMA ListUntouched ==
  ASSUME PageInv, UNCHANGED listVars, WindowInv'
  PROVE  PageInv'
  BY StutterKeepsList, Zenon DEF PageInv

\* Steps that leave the page, the buttons and what they depend on alone.
LEMMA ButtonsUntouched ==
  ASSUME WindowInv, UNCHANGED listVars, UNCHANGED <<page, connected, buttonVars>>
  PROVE  ButtonsFollowSelection'
  BY DEF WindowInv, ButtonsFollowSelection, OnListPage, buttonVars, listVars

\* Reset and FileLoadProgress set the buttons by the same words.
LEMMA Refreshed ==
  ASSUME WindowInv, UNCHANGED listVars, connected' = connected, RefreshButtons
  PROVE  ButtonsFollowSelection' /\ ButtonTypes'
<1>1. connected \in BOOLEAN /\ connected' = connected /\ selection' = selection
  BY DEF WindowInv, WindowType, listVars
<1>2. /\ restore_enabled' = (connected /\ selection # {})
      /\ unselect_enabled' = (selection # {})
      /\ dropped' = FALSE
  BY Zenon DEF RefreshButtons
<1>3. ButtonTypes'
  BY <1>1, <1>2 DEF ButtonTypes
<1>4. /\ restore_enabled' <=> connected /\ selection # {}
      /\ unselect_enabled' <=> selection # {}
  BY <1>2, Zenon
<1>5. ButtonsFollowSelection'
  BY <1>1, <1>3, <1>4 DEF ButtonsFollowSelection, ButtonTypes
<1> QED
  BY <1>3, <1>5

LEMMA ScanInProgressKeeps ==
  ASSUME WindowInv, ScanInProgress
  PROVE  WindowInv'
<1>1. /\ ~scan.on /\ scan' = [on |-> TRUE, todo |-> Items] /\ file_load_error' = FALSE
      /\ page' = page /\ connected' = connected /\ connection_status' = connection_status
      /\ restore_enabled' = restore_enabled /\ unselect_enabled' = unselect_enabled
      /\ dropped' = dropped /\ files' = files /\ UNCHANGED listVars
  BY DEF ScanInProgress, statusVars, buttonVars
<1>2. IF OnListPage THEN label' = "" /\ watcher' = TRUE
                    ELSE label' = label /\ watcher' = watcher
  BY DEF ScanInProgress, EnableFileLoading
<1>3. ButtonsFollowSelection'
  BY <1>1, ButtonsUntouched DEF buttonVars
<1>4. WindowType'
  BY <1>1, <1>2 DEF WindowInv, WindowType
<1>5. NoErrorInScan' /\ StatusLineRight' /\ LoadingOnlyInScan'
  BY <1>1, <1>2 DEF WindowInv, NoErrorInScan, StatusLineRight, StatusText,
     LoadingOnlyInScan, OnListPage
<1> QED
  BY <1>3, <1>4, <1>5 DEF WindowInv

LEMMA LoadProgressKeeps ==
  ASSUME WindowInv, LoadProgress
  PROVE  WindowInv'
<1>1. /\ scan.on /\ scan' = scan /\ file_load_error' = file_load_error /\ label' = label
      /\ page' = page /\ connected' = connected /\ connection_status' = connection_status
      /\ restore_enabled' = restore_enabled /\ unselect_enabled' = unselect_enabled
      /\ dropped' = dropped /\ files' = files /\ UNCHANGED listVars
      /\ IF OnListPage THEN watcher' = TRUE ELSE watcher' = watcher
  BY DEF LoadProgress, statusVars, buttonVars, EnableFileLoading
<1>2. ButtonsFollowSelection'
  BY <1>1, ButtonsUntouched DEF buttonVars
<1>3. WindowType'
  BY <1>1 DEF WindowInv, WindowType
<1>4. NoErrorInScan' /\ StatusLineRight' /\ LoadingOnlyInScan'
  BY <1>1 DEF WindowInv, NoErrorInScan, StatusLineRight, StatusText,
     LoadingOnlyInScan, OnListPage
<1> QED
  BY <1>2, <1>3, <1>4 DEF WindowInv

\* 100 per cent: there is no error yet, so that the status of the connection is
\* the one to show.
LEMMA Progress100Keeps ==
  ASSUME WindowInv, scan.on, FileLoadProgress100,
         scan' \in [on : BOOLEAN, todo : SUBSET Items]
  PROVE  WindowInv' /\ UNCHANGED listVars
<1>1. /\ watcher' = FALSE /\ label' = connection_status
      /\ page' = page /\ connected' = connected /\ connection_status' = connection_status
      /\ file_load_error' = file_load_error /\ files' = files /\ UNCHANGED listVars
  BY DEF FileLoadProgress100, DisableFileLoading, statusVars
<1>2. ButtonsFollowSelection' /\ ButtonTypes'
  <2>1. CASE OnListPage
    <3>1. RefreshButtons
      BY <2>1, Zenon DEF FileLoadProgress100
    <3> QED
      BY <1>1, <3>1, Refreshed, Zenon
  <2>2. CASE ~OnListPage
    <3>1. /\ restore_enabled' = restore_enabled /\ unselect_enabled' = unselect_enabled
          /\ dropped' = dropped
      BY <2>2 DEF FileLoadProgress100, buttonVars
    <3>2. ButtonsFollowSelection'
      BY <1>1, <3>1, ButtonsUntouched DEF buttonVars
    <3> QED
      BY <3>1, <3>2 DEF WindowInv, WindowType, ButtonTypes
  <2> QED
    BY <2>1, <2>2
<1>3. ~file_load_error
  BY DEF WindowInv, NoErrorInScan
<1>4. WindowType'
  BY <1>1, <1>2 DEF WindowInv, WindowType, ButtonTypes
<1>5. NoErrorInScan' /\ StatusLineRight' /\ LoadingOnlyInScan'
  BY <1>1, <1>3 DEF WindowInv, NoErrorInScan, StatusLineRight, StatusText,
     LoadingOnlyInScan, OnListPage
<1> QED
  BY <1>1, <1>2, <1>4, <1>5 DEF WindowInv

\* An error is reported by a scan that ends, or when there is none.
LEMMA FileLoadErrorKeeps ==
  ASSUME WindowInv, FileLoadError, ~scan'.on,
         scan' \in [on : BOOLEAN, todo : SUBSET Items]
  PROVE  WindowInv' /\ UNCHANGED listVars
<1>1. /\ file_load_error' = TRUE /\ watcher' = FALSE
      /\ label' = IF OnListPage THEN "LoadError" ELSE label
      /\ page' = page /\ connected' = connected /\ connection_status' = connection_status
      /\ restore_enabled' = restore_enabled /\ unselect_enabled' = unselect_enabled
      /\ dropped' = dropped /\ files' = files /\ UNCHANGED listVars
  BY DEF FileLoadError, DisableFileLoading, statusVars, buttonVars
<1>2. ButtonsFollowSelection'
  BY <1>1, ButtonsUntouched DEF buttonVars
<1>3. WindowType'
  BY <1>1 DEF WindowInv, WindowType
<1>4. NoErrorInScan' /\ StatusLineRight' /\ LoadingOnlyInScan'
  BY <1>1 DEF WindowInv, NoErrorInScan, StatusLineRight, StatusText,
     LoadingOnlyInScan, OnListPage
<1> QED
  BY <1>1, <1>2, <1>3, <1>4 DEF WindowInv

LEMMA ScanSignalKeeps ==
  ASSUME PageInv, ScanSignal
  PROVE  PageInv'
<1>1. WindowInv /\ scan \in [on : BOOLEAN, todo : SUBSET Items]
  BY DEF PageInv, WindowInv, WindowType
<1>2. CASE ScanInProgress
  <2>1. UNCHANGED listVars
    BY <1>2 DEF ScanInProgress
  <2> QED
    BY <1>1, <1>2, <2>1, ScanInProgressKeeps, ListUntouched, Zenon
<1>3. CASE LoadProgress
  <2>1. UNCHANGED listVars
    BY <1>3 DEF LoadProgress
  <2> QED
    BY <1>1, <1>3, <2>1, LoadProgressKeeps, ListUntouched, Zenon
<1>4. CASE LastFileRead
  <2>1. scan.on /\ scan' = scan /\ FileLoadProgress100
    BY <1>4, Zenon DEF LastFileRead
  <2>2. scan' \in [on : BOOLEAN, todo : SUBSET Items]
    BY <1>1, <2>1
  <2> QED
    BY <1>1, <2>1, <2>2, Progress100Keeps, ListUntouched, Zenon
<1>5. CASE ScanEnds
  <2>1. /\ scan.on /\ scan' = [on |-> FALSE, todo |-> {}]
        /\ (FileLoadProgress100 \/ FileLoadError)
    BY <1>5, Zenon DEF ScanEnds
  <2>2. scan' \in [on : BOOLEAN, todo : SUBSET Items] /\ ~scan'.on
    BY <2>1
  <2> QED
    BY <1>1, <2>1, <2>2, Progress100Keeps, FileLoadErrorKeeps, ListUntouched, Zenon
<1>6. CASE PathMissing
  <2>1. ~scan.on /\ scan' = scan /\ FileLoadError
    BY <1>6, Zenon DEF PathMissing
  <2>2. scan' \in [on : BOOLEAN, todo : SUBSET Items] /\ ~scan'.on
    BY <1>1, <2>1
  <2> QED
    BY <1>1, <2>1, <2>2, FileLoadErrorKeeps, ListUntouched, Zenon
<1> QED
  BY <1>2, <1>3, <1>4, <1>5, <1>6, Zenon DEF ScanSignal

\* The status of the connection has changed, and so may the button have.
LEMMA ShowStatusKeeps ==
  ASSUME WindowInv, NEW status \in Statuses, ShowStatus(status),
         connected' \in BOOLEAN, restore_enabled' \in BOOLEAN,
         OnListPage /\ restore_enabled' => connected' /\ (selection # {} \/ dropped),
         OnListPage /\ connected' /\ selection # {} => restore_enabled'
  PROVE  WindowInv'
<1>1. /\ connection_status' = status
      /\ label' = IF file_load_error THEN label ELSE status
      /\ scan' = scan /\ page' = page /\ file_load_error' = file_load_error
      /\ watcher' = watcher /\ unselect_enabled' = unselect_enabled /\ files' = files
      /\ dropped' = dropped /\ selection' = selection
  BY DEF ShowStatus, listVars
<1>2. WindowType'
  BY <1>1 DEF WindowInv, WindowType
<1>3. ButtonsFollowSelection'
  <2>1. OnListPage' <=> OnListPage
    BY <1>1 DEF OnListPage
  <2>2. OnListPage => /\ selection # {} => unselect_enabled
                      /\ selection = {} /\ unselect_enabled => dropped
    BY DEF WindowInv, ButtonsFollowSelection
  <2>3. /\ unselect_enabled' <=> unselect_enabled
        /\ dropped' <=> dropped
        /\ selection' # {} <=> selection # {}
    BY <1>1
  <2> QED
    BY <2>1, <2>2, <2>3 DEF ButtonsFollowSelection
<1>4. NoErrorInScan' /\ StatusLineRight' /\ LoadingOnlyInScan'
  BY <1>1 DEF WindowInv, NoErrorInScan, StatusLineRight, StatusText,
     LoadingOnlyInScan, OnListPage
<1> QED
  BY <1>2, <1>3, <1>4 DEF WindowInv

LEMMA DisconnectedKeeps ==
  ASSUME PageInv, Disconnected
  PROVE  PageInv'
<1>1. /\ connected' = FALSE /\ restore_enabled' = (restore_enabled /\ ~OnListPage)
      /\ (ShowStatus("Connecting") \/ ShowStatus("Failure"))
  BY Zenon DEF Disconnected
<1>2. WindowInv /\ restore_enabled \in BOOLEAN
  BY DEF PageInv, WindowInv, WindowType
<1>3. connected' \in BOOLEAN /\ restore_enabled' \in BOOLEAN
  BY <1>1, <1>2
<1>4. /\ OnListPage /\ restore_enabled' => connected' /\ (selection # {} \/ dropped)
      /\ OnListPage /\ connected' /\ selection # {} => restore_enabled'
  BY <1>1, <1>3
<1>5. "Connecting" \in Statuses /\ "Failure" \in Statuses
  BY DEF Statuses
<1>6. UNCHANGED listVars
  BY <1>1 DEF ShowStatus
<1>7. WindowInv'
  BY <1>1, <1>2, <1>3, <1>4, <1>5, ShowStatusKeeps, Zenon
<1> QED
  BY <1>6, <1>7, ListUntouched, Zenon

LEMMA ConnectionSuccessKeeps ==
  ASSUME PageInv, ConnectionSuccess
  PROVE  PageInv'
<1>1. /\ connected' = TRUE
      /\ restore_enabled' = IF OnListPage THEN selection # {} ELSE restore_enabled
      /\ ShowStatus("Connected")
  BY Zenon DEF ConnectionSuccess
<1>2. WindowInv /\ restore_enabled \in BOOLEAN
  BY DEF PageInv, WindowInv, WindowType
<1>3. connected' \in BOOLEAN /\ restore_enabled' \in BOOLEAN
  BY <1>1, <1>2
<1>4. /\ OnListPage /\ restore_enabled' => connected' /\ (selection # {} \/ dropped)
      /\ OnListPage /\ connected' /\ selection # {} => restore_enabled'
  BY <1>1, <1>3
<1>5. "Connected" \in Statuses
  BY DEF Statuses
<1>6. UNCHANGED listVars
  BY <1>1 DEF ShowStatus
<1>7. WindowInv'
  BY <1>1, <1>2, <1>3, <1>4, <1>5, ShowStatusKeeps, Zenon
<1> QED
  BY <1>6, <1>7, ListUntouched, Zenon

LEMMA RestoreKeeps ==
  ASSUME PageInv, Restore
  PROVE  PageInv'
<1>1. /\ files' = SelectedItems /\ label' = connection_status /\ watcher' = FALSE
      /\ page' = "progress" /\ scan' = scan
      /\ connected' = connected /\ connection_status' = connection_status
      /\ file_load_error' = file_load_error
      /\ restore_enabled' = restore_enabled /\ unselect_enabled' = unselect_enabled
      /\ dropped' = dropped /\ UNCHANGED listVars
  BY DEF Restore, Taken, DisableFileLoading, statusVars, buttonVars
<1>2. SelectedItems \subseteq Items
  BY DEF PageInv, ListInv, ListTypeOK, SelectedItems
<1>3. WindowType'
  BY <1>1, <1>2 DEF PageInv, WindowInv, WindowType
<1>4. /\ ButtonsFollowSelection' /\ StatusLineRight' /\ LoadingOnlyInScan'
      /\ NoErrorInScan'
  BY <1>1 DEF PageInv, WindowInv, ButtonsFollowSelection, StatusLineRight,
     LoadingOnlyInScan, NoErrorInScan, OnListPage
<1>5. WindowInv'
  BY <1>3, <1>4 DEF WindowInv
<1> QED
  BY <1>1, <1>5, ListUntouched, Zenon

LEMMA RestoreEndKeeps ==
  ASSUME PageInv, RestoreComplete
  PROVE  PageInv'
<1>1. /\ page = "progress" /\ page' = "summary" /\ files' = {}
      /\ label' = label /\ watcher' = watcher /\ scan' = scan
      /\ connected' = connected /\ connection_status' = connection_status
      /\ file_load_error' = file_load_error
      /\ restore_enabled' = restore_enabled /\ unselect_enabled' = unselect_enabled
      /\ dropped' = dropped /\ UNCHANGED listVars
  BY DEF RestoreComplete, statusVars, buttonVars
<1>2. WindowType'
  BY <1>1 DEF PageInv, WindowInv, WindowType
<1>3. /\ ButtonsFollowSelection' /\ StatusLineRight' /\ LoadingOnlyInScan'
      /\ NoErrorInScan'
  BY <1>1 DEF PageInv, WindowInv, ButtonsFollowSelection, StatusLineRight,
     LoadingOnlyInScan, NoErrorInScan, OnListPage
<1>4. WindowInv'
  BY <1>2, <1>3 DEF WindowInv
<1> QED
  BY <1>1, <1>4, ListUntouched, Zenon

LEMMA ResetKeeps ==
  ASSUME PageInv, Reset
  PROVE  PageInv'
<1>1. /\ page' = "select_file" /\ files' = {} /\ RefreshButtons
      /\ label' = StatusText /\ watcher' = FALSE /\ scan' = scan
      /\ connected' = connected /\ connection_status' = connection_status
      /\ file_load_error' = file_load_error /\ UNCHANGED listVars
  BY DEF Reset, DisableFileLoading, statusVars
<1>2. WindowInv
  BY DEF PageInv
<1>3. ButtonsFollowSelection' /\ ButtonTypes'
  BY <1>1, <1>2, Refreshed, Zenon
<1>4. WindowType'
  BY <1>1, <1>3 DEF PageInv, WindowInv, WindowType, ButtonTypes, StatusText
<1>5. StatusLineRight' /\ LoadingOnlyInScan' /\ NoErrorInScan'
  BY <1>1 DEF PageInv, WindowInv, StatusLineRight, StatusText, LoadingOnlyInScan,
     NoErrorInScan
<1>6. WindowInv'
  BY <1>3, <1>4, <1>5 DEF WindowInv
<1> QED
  BY <1>1, <1>6, ListUntouched, Zenon

------------------------------------------------------------------------------
LEMMA InitPage == Init => PageInv
<1> SUFFICES ASSUME Init PROVE PageInv
  OBVIOUS
<1>1. ListInv
  BY InitList DEF Init
<1>2. WindowInv
  BY DEF Init, ListInit, WindowInv, WindowType, NoErrorInScan, ButtonsFollowSelection,
     StatusLineRight, StatusText, LoadingOnlyInScan
<1> QED
  BY <1>1, <1>2 DEF PageInv

LEMMA StepKeepsPage ==
  ASSUME PageInv, Next
  PROVE  PageInv'
  BY FilesStepKeeps, UseListKeeps, SortListKeeps, ScanSignalKeeps, DisconnectedKeeps,
     ConnectionSuccessKeeps, RestoreKeeps, RestoreEndKeeps, ResetKeeps, Zenon DEF Next

LEMMA StutterKeepsPage ==
  ASSUME PageInv, UNCHANGED vars
  PROVE  PageInv'
<1>1. /\ scan' = scan /\ page' = page /\ connected' = connected
      /\ connection_status' = connection_status /\ file_load_error' = file_load_error
      /\ label' = label /\ watcher' = watcher /\ restore_enabled' = restore_enabled
      /\ unselect_enabled' = unselect_enabled /\ dropped' = dropped
      /\ files' = files /\ UNCHANGED listVars
  BY DEF vars, windowVars, statusVars, buttonVars
<1>2. WindowInv
  BY DEF PageInv
<1>3. ButtonsFollowSelection'
  BY <1>1, <1>2, ButtonsUntouched DEF buttonVars
<1>4. WindowType'
  BY <1>1, <1>2 DEF WindowInv, WindowType
<1>5. NoErrorInScan' /\ StatusLineRight' /\ LoadingOnlyInScan'
  BY <1>1, <1>2 DEF WindowInv, NoErrorInScan, StatusLineRight, StatusText,
     LoadingOnlyInScan, OnListPage
<1>6. WindowInv'
  BY <1>3, <1>4, <1>5 DEF WindowInv
<1> QED
  BY <1>1, <1>6, ListUntouched, Zenon

\* What the list promises by itself it promises in the window, too, and the
\* window fits it.
THEOREM PageInvariant == Spec => []PageInv
<1>1. Init => PageInv
  BY InitPage
<1>2. PageInv /\ [Next]_vars => PageInv'
  BY StepKeepsPage, StutterKeepsPage, Zenon
<1> QED
  BY <1>1, <1>2, PTL DEF Spec

\* Every variable of the page and of the list has its type, and files_ is empty
\* unless they are being restored.
THEOREM PageTypeCorrect == Spec => []TypeOK
<1>1. PageInv => TypeOK
  BY DEF PageInv, ListInv, WindowInv, WindowType, TypeOK
<1> QED
  BY <1>1, PageInvariant, PTL

\* On the list's page the buttons are those of the connection and the selection,
\* but for what a sort has dropped since they were set.
THEOREM ButtonsFollowAlways == Spec => []ButtonsFollowSelection
<1>1. PageInv => ButtonsFollowSelection
  BY DEF PageInv, WindowInv
<1> QED
  BY <1>1, PageInvariant, PTL

\* The status line shows the error of the last scan or the connection.
THEOREM StatusLineCorrect == Spec => []StatusLineRight
<1>1. PageInv => StatusLineRight
  BY DEF PageInv, WindowInv
<1> QED
  BY <1>1, PageInvariant, PTL

\* The spinner turns during a scan, on the list's page.
THEOREM LoadingInScan == Spec => []LoadingOnlyInScan
<1>1. PageInv => LoadingOnlyInScan
  BY DEF PageInv, WindowInv
<1> QED
  BY <1>1, PageInvariant, PTL

\* The way from the list to the progress page is Restore.
LEMMA ToProgress ==
  ASSUME PageInv, Next, OnListPage, page' = "progress"
  PROVE  Restore
<1>1. page = "select_file"
  BY DEF OnListPage
<1>2. CASE FilesStep
  BY <1>1, <1>2 DEF FilesStep, FileAddedOrDeleted, FileUpdated, FileOverwritten,
     restOfWindow, windowVars
<1>3. CASE UseList \/ SortList
  BY <1>1, <1>3 DEF UseList, SortList, restOfWindow
<1>4. CASE ScanSignal
  BY <1>1, <1>4 DEF ScanSignal, ScanInProgress, LoadProgress, LastFileRead, ScanEnds,
     PathMissing, FileLoadProgress100, FileLoadError
<1>5. CASE Disconnected \/ ConnectionSuccess
  BY <1>1, <1>5 DEF Disconnected, ConnectionSuccess, ShowStatus
<1>6. CASE RestoreComplete \/ Reset
  BY <1>1, <1>6 DEF RestoreComplete, Reset
<1> QED
  BY <1>2, <1>3, <1>4, <1>5, <1>6, Zenon DEF Next

\* What is restored is what the user selected, sees and wants, and there is a
\* connection to restore it by.
THEOREM RestoresPicked == Spec => RestoresWhatIsPicked
<1>1. ASSUME PageInv, [Next]_vars, OnListPage, page' = "progress"
      PROVE  connected /\ files' = picked /\ files' # {} /\ files' \subseteq visible
  <2>1. Next
    BY <1>1 DEF vars, windowVars, OnListPage
  <2>2. OnListPage /\ restore_enabled /\ SelectedItems # {} /\ files' = SelectedItems
    BY <1>1, <2>1, ToProgress DEF Restore, Taken
  <2>3. connected
    BY <1>1, <2>2 DEF PageInv, WindowInv, ButtonsFollowSelection
  <2>4. SelectedItems = picked /\ picked \subseteq visible
    BY <1>1 DEF PageInv, ListInv, SelectionFollowsItems, PickedShown
  <2> QED
    BY <2>2, <2>3, <2>4
<1>2. PageInv /\ [Next]_vars =>
        [OnListPage /\ page' = "progress" =>
           connected /\ files' = picked /\ files' # {} /\ files' \subseteq visible]_vars
  BY <1>1
<1> QED
  BY <1>2, PageInvariant, PTL DEF Spec, RestoresWhatIsPicked
=============================================================================
