------------------------------ MODULE ListPage ------------------------------
(* MainWindow around the list of files: what the page with the list shows and *)
(* allows while scans, connections, restores and the user go on.  The list    *)
(* itself is FileList; its steps are composed here with the scanner's order   *)
(* of signals and with FileSelectionChanged.                                  *)
EXTENDS FileList

VARIABLES
    scan,               \* the scan whose signals arrive, and the files it has not come to
    page,               \* stackedWidget's page
    connected,          \* connected_
    connection_status,  \* connection_status_
    file_load_error,    \* file_load_error_ is not empty
    label,              \* the text of statusbar_label_
    watcher,            \* widget_watcher, with the spinner, is shown
    restore_enabled,    \* button_restore
    unselect_enabled,   \* button_unselect_all
    files,              \* files_, those being restored
    dropped             \* history: a sort dropped rows from the selection since
                        \* the buttons were last set according to it

buttonVars == <<restore_enabled, unselect_enabled, dropped>>
statusVars == <<connected, connection_status>>
windowVars == <<page, statusVars, file_load_error, label, watcher, buttonVars, files>>
vars == <<listVars, scan, windowVars>>

Statuses == {"Connecting", "Connected", "Failure"}

------------------------------------------------------------------------------
\* The constructor ends with Reset(), with nothing selected or connected.
Init ==
    /\ ListInit
    /\ scan = [on |-> FALSE, todo |-> {}]
    /\ page = "select_file"
    /\ connected = FALSE /\ connection_status = ""
    /\ file_load_error = FALSE /\ label = "" /\ watcher = FALSE
    /\ restore_enabled = FALSE /\ unselect_enabled = FALSE
    /\ files = {} /\ dropped = FALSE

OnListPage == page = "select_file"

\* The loading display is shown with its spinner, or hidden.
EnableFileLoading == watcher' = TRUE
DisableFileLoading == watcher' = FALSE

\* What the status line is for.
StatusText == IF file_load_error THEN "LoadError" ELSE connection_status

\* The buttons for the connection and the selection as they are now.
RefreshButtons ==
    /\ restore_enabled' = (connected /\ selection # {})
    /\ unselect_enabled' = (selection # {})
    /\ dropped' = FALSE

------------------------------------------------------------------------------
(* Steps of the list *)

\* FileSelectionChanged: Qt emits selectionChanged when indexes were selected or
\* deselected, not when they moved.
FileSelectionChanged ==
    IF OnListPage /\ SelectedItems' # SelectedItems
    THEN /\ restore_enabled' = (connected /\ selection' # {})
         /\ unselect_enabled' = (selection' # {})
         /\ dropped' = FALSE
    ELSE UNCHANGED buttonVars

restOfWindow == <<page, statusVars, file_load_error, label, watcher, files>>

ScanComesTo(i) == scan.on /\ i \in scan.todo /\ scan' = [scan EXCEPT !.todo = @ \ {i}]

FileAddedOrDeleted(i) ==
    /\ ScanComesTo(i)
    /\ AddedFiles(i) \/ DeletedFiles(i)
    /\ FileSelectionChanged
    /\ UNCHANGED restOfWindow

FileUpdated(i) ==
    /\ UpdatedFiles(i)
    /\ FileSelectionChanged
    /\ UNCHANGED <<scan, restOfWindow>>

FileOverwritten(i) ==
    /\ ScanComesTo(i)
    /\ \E v \in Versions : OverwriteItem(i, v)
    /\ UNCHANGED windowVars

\* The user works with the list; the filter's timer fires on any page.
UseList ==
    /\ \/ OnListPage /\ (SelectStep \/ SearchStep)
       \/ FilterTimeout
    /\ FileSelectionChanged
    /\ UNCHANGED <<scan, restOfWindow>>

\* A click on a header; selectionChanged is not emitted, whatever the sort drops.
SortList ==
    /\ OnListPage /\ SortStep
    /\ dropped' = (dropped \/ SelectedItems' # SelectedItems)
    /\ UNCHANGED <<scan, restOfWindow, restore_enabled, unselect_enabled>>

------------------------------------------------------------------------------
(* Signals of the scanner to the window *)

\* Mutant of ScanInProgress: the last error is not forgotten.
ScanInProgressKeepsError ==
    /\ ~scan.on
    /\ scan' = [on |-> TRUE, todo |-> Items]
    /\ IF OnListPage THEN label' = "" /\ EnableFileLoading ELSE UNCHANGED <<label, watcher>>
    /\ UNCHANGED <<listVars, page, statusVars, file_load_error, buttonVars, files>>

ScanInProgress ==
    /\ ~scan.on
    /\ scan' = [on |-> TRUE, todo |-> Items]
    /\ file_load_error' = FALSE
    /\ IF OnListPage THEN label' = "" /\ EnableFileLoading ELSE UNCHANGED <<label, watcher>>
    /\ UNCHANGED <<listVars, page, statusVars, buttonVars, files>>

\* FileLoadProgress of less than 100.
LoadProgress ==
    /\ scan.on
    /\ IF OnListPage THEN EnableFileLoading ELSE UNCHANGED watcher
    /\ UNCHANGED <<listVars, scan, page, statusVars, file_load_error, label, buttonVars, files>>

\* Mutant of FileLoadProgress100: the spinner is left as it is.
FileLoadProgress100Spins ==
    /\ label' = connection_status
    /\ IF OnListPage THEN RefreshButtons ELSE UNCHANGED buttonVars
    /\ UNCHANGED <<listVars, page, statusVars, file_load_error, watcher, files>>

\* The slot FileLoadProgress(100).
FileLoadProgress100 ==
    /\ DisableFileLoading
    /\ label' = connection_status
    /\ IF OnListPage THEN RefreshButtons ELSE UNCHANGED buttonVars
    /\ UNCHANGED <<listVars, page, statusVars, file_load_error, files>>

\* Mutant of FileLoadError: the spinner is left as it is.
FileLoadErrorSpins ==
    /\ file_load_error' = TRUE
    /\ label' = IF OnListPage THEN "LoadError" ELSE label
    /\ UNCHANGED <<listVars, page, statusVars, watcher, buttonVars, files>>

\* The slot FileLoadError.
FileLoadError ==
    /\ file_load_error' = TRUE
    /\ DisableFileLoading
    /\ label' = IF OnListPage THEN "LoadError" ELSE label
    /\ UNCHANGED <<listVars, page, statusVars, buttonVars, files>>

\* 100 is reached with the last file, when those that are gone are still to be
\* reported.
LastFileRead == scan.on /\ UNCHANGED scan /\ FileLoadProgress100

\* The last signal of a scan comes after those about files.
ScanEnds ==
    /\ scan.on /\ stale = {}
    /\ scan' = [on |-> FALSE, todo |-> {}]
    /\ FileLoadProgress100 \/ FileLoadError

\* BakFileBackend::ReloadSettings, on a path that is not there.
PathMissing == ~scan.on /\ UNCHANGED scan /\ FileLoadError

------------------------------------------------------------------------------
(* Signals of the connector, see Connection *)

\* The new status is shown on any page, unless there is an error to show.
ShowStatus(status) ==
    /\ connection_status' = status
    /\ label' = IF file_load_error THEN label ELSE status
    /\ UNCHANGED <<listVars, scan, page, file_load_error, watcher, unselect_enabled, files,
                   dropped>>

\* Connecting and ConnectionFailure.
Disconnected ==
    /\ connected' = FALSE
    /\ restore_enabled' = (restore_enabled /\ ~OnListPage)
    /\ ShowStatus("Connecting") \/ ShowStatus("Failure")

\* Mutant of ConnectionSuccess: nothing need be selected.
ConnectionSuccessEnables ==
    /\ connected' = TRUE
    /\ restore_enabled' = (restore_enabled \/ OnListPage)
    /\ ShowStatus("Connected")

ConnectionSuccess ==
    /\ connected' = TRUE
    /\ restore_enabled' = IF OnListPage THEN selection # {} ELSE restore_enabled
    /\ ShowStatus("Connected")

------------------------------------------------------------------------------
(* Restores, see RestoreQueue *)

\* The row of the proxy in which an item is shown.
ProxyRow(i) == Cardinality({k \in 1..Position(rows, i) : rows[k] \in visible})

\* Mutant of Taken: a row of the proxy is taken for a row of the model.
TakenUnmapped == {rows[ProxyRow(i)] : i \in SelectedItems}

\* The items of the selected rows, mapped to the model's.
Taken == SelectedItems

\* A click on the button while it is enabled.
Restore ==
    /\ OnListPage /\ restore_enabled
    /\ Taken # {}
    /\ files' = Taken
    /\ label' = connection_status
    /\ DisableFileLoading
    /\ page' = "progress"
    /\ UNCHANGED <<listVars, scan, statusVars, file_load_error, buttonVars>>

\* Mutant of RestoreComplete: files_ is left to Reset.
RestoreCompleteKeeps ==
    /\ page = "progress" /\ page' = "summary"
    /\ UNCHANGED <<listVars, scan, statusVars, file_load_error, label, watcher, buttonVars, files>>

RestoreComplete ==
    /\ page = "progress" /\ page' = "summary"
    /\ files' = {}
    /\ UNCHANGED <<listVars, scan, statusVars, file_load_error, label, watcher, buttonVars>>

\* Back to the list.
Reset ==
    /\ page = "summary" /\ page' = "select_file"
    /\ files' = {}
    /\ RefreshButtons
    /\ label' = StatusText
    /\ DisableFileLoading
    /\ UNCHANGED <<listVars, scan, statusVars, file_load_error>>

------------------------------------------------------------------------------
FilesStep == \E i \in Items : FileAddedOrDeleted(i) \/ FileUpdated(i) \/ FileOverwritten(i)

ScanSignal == ScanInProgress \/ LoadProgress \/ LastFileRead \/ ScanEnds \/ PathMissing

Next == FilesStep \/ UseList \/ SortList \/ ScanSignal \/ Disconnected \/ ConnectionSuccess
          \/ Restore \/ RestoreComplete \/ Reset

\* A scan that has begun reports what it finds and ends.
Spec == /\ Init /\ [][Next]_vars
        /\ WF_vars(\E i \in Items : FileUpdated(i)) /\ WF_vars(ScanEnds)

------------------------------------------------------------------------------
(* Properties *)

\* Every variable has its type, and files_ is empty off the progress page.
TypeOK ==
    /\ ListTypeOK
    /\ scan \in [on : BOOLEAN, todo : SUBSET Items]
    /\ page \in {"select_file", "progress", "summary"}
    /\ connected \in BOOLEAN /\ connection_status \in Statuses \cup {""}
    /\ file_load_error \in BOOLEAN /\ label \in Statuses \cup {"", "LoadError"}
    /\ watcher \in BOOLEAN
    /\ restore_enabled \in BOOLEAN /\ unselect_enabled \in BOOLEAN /\ dropped \in BOOLEAN
    /\ files \subseteq Items /\ (files # {} => page = "progress")

\* On the page with the list, Restore and Unselect all can be clicked when
\* something is selected, Restore only with a connection, although seven handlers
\* set them and selections and connections also change on the other pages.  With
\* nothing selected they can be clicked (and do nothing) only if a sort has
\* dropped what was selected, a file whose new contents are not found by the
\* search, since the buttons were last set.
ButtonsFollowSelection ==
    OnListPage =>
      /\ restore_enabled => connected
      /\ selection # {} => unselect_enabled /\ (connected => restore_enabled)
      /\ selection = {} /\ (restore_enabled \/ unselect_enabled) => dropped

\* On the page with the list, the status line shows the error of the last scan,
\* or else how the connection is; only during a scan may it be empty.
StatusLineRight ==
    OnListPage => label = StatusText \/ (scan.on /\ label = "")

\* The loading display is up only on the page with the list, during a scan.
LoadingOnlyInScan == watcher => OnListPage /\ scan.on

\* Restore takes the files that the user selected and sees, all of them, and
\* only with a connection.
RestoresWhatIsPicked ==
    [][OnListPage /\ page' = "progress" =>
         connected /\ files' = picked /\ files' # {} /\ files' \subseteq visible]_vars

\* The loading display goes away again.
LoadingEnds == watcher ~> ~watcher
=============================================================================
