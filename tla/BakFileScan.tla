---------------------------- MODULE BakFileScan -----------------------------
(* The list of backup files: BakFileBackend in its thread, which watches and *)
(* scans the local backup path, and BakFileModel in the GUI thread, which    *)
(* shows what the scans report.                                              *)
(*                                                                           *)
(* A scan runs inside the slot that started it; meanwhile files come, grow   *)
(* and go on disk, and the GUI thread may save another path, which sets the  *)
(* scan's cancel flag directly and posts ReloadSettings().  QFileSystem-     *)
(* Watcher reports files that come and go, not files that grow; a growing    *)
(* file is noticed by its age, "modified within the last seconds".           *)
EXTENDS Integers, Sequences, FiniteSets

CONSTANTS
    Paths,        \* local backup paths that can be saved in the settings
    Names,        \* file names
    TempNames,    \* those that are skipped: *.tmp and hidden files
    MaxSize,      \* bound: the size of a file, in steps
    MaxChanges,   \* bound: changes of directories and settings
    MaxPosted,    \* bound: events the GUI thread may be behind when a scan starts
    PatientUser,  \* settings are saved only when the last ones are loaded
    LastingDirs   \* directories are neither removed nor created

ASSUME TempNamesAssumption == TempNames \subseteq Names
ASSUME BoundsAssumption == MaxSize \in Nat \ {0} /\ MaxChanges \in Nat /\ MaxPosted \in Nat
ASSUME ModesAssumption == PatientUser \in BOOLEAN /\ LastingDirs \in BOOLEAN

NoPath == "no path"
Unlisted == -1
None == "none"

VARIABLES
    \* the disk, and the settings file
    dirs,              \* the paths that exist
    disk,              \* disk[p][f]: a file, see File
    saved,             \* local_path in QSettings
    saving,            \* settings are saved, SettingsChanged is being emitted
    changes,           \* changes so far, bounded by MaxChanges
    \* BakFileBackend
    local_path, initialized, cancel_requested,
    files,             \* files_: the size of each listed item, or Unlisted
    watched,           \* watcher_->directories()
    notified,          \* directories whose directoryChanged is to be handled
    timer,             \* timer_scan_ is active
    scan,              \* the Scan() on the stack, or Idle
    backend_queue,     \* "ReloadSettings" and "Scan" calls posted
    \* BakFileModel and MainWindow
    gui_queue,
    rows,              \* rows[f]: rows of items_ with that name
    file_load_error    \* an error is shown instead of the connection status

diskVars == <<dirs, disk, saved, saving, changes>>
guiVars == <<rows, file_load_error>>
vars == <<diskVars, local_path, initialized, cancel_requested, files, watched,
          notified, timer, scan, backend_queue, gui_queue, guiVars>>

------------------------------------------------------------------------------
\* A file that is there has a size; recent says that its age is two seconds at
\* most, which it is as long as it is being copied.
File == [there : BOOLEAN, size : 0..MaxSize, recent : BOOLEAN]
NoFile == [there |-> FALSE, size |-> 0, recent |-> FALSE]

\* The locals of Scan(): the rest of dir_files, the file at hand, `files` (those
\* to keep), the files added while not initialized, the retrigger flag and the
\* error.  updated_files carry no more than the shared items they point to.
Idle == [todo |-> {}, file |-> None, kept |-> {}, added |-> {}, updated |-> {},
         retrigger |-> FALSE, error |-> FALSE, on |-> FALSE]
Scanning == [todo : SUBSET Names, file : Names \cup {None}, kept : SUBSET Names,
             added : SUBSET Names, updated : SUBSET Names,
             retrigger : BOOLEAN, error : BOOLEAN, on : {TRUE}]

FileEvent == [type : {"AddedFiles", "UpdatedFiles", "DeletedFiles"},
              names : SUBSET Names]
StateEvent == [type : {"ScanInProgress", "LoadError"}]

\* A signal with a list of items; the batched ones are sent unless empty.
Files(type, names) == IF names = {} THEN <<>> ELSE <<[type |-> type, names |-> names]>>

Init ==
    /\ dirs = Paths
    /\ disk = [p \in Paths |-> [f \in Names |-> NoFile]]
    /\ saved \in Paths /\ saving = FALSE /\ changes = 0
    /\ local_path = NoPath /\ initialized = FALSE
    /\ cancel_requested \in BOOLEAN         \* FALSE when the path is the default
    /\ files = [f \in Names |-> Unlisted]
    /\ watched = {} /\ notified = {} /\ timer = FALSE /\ scan = Idle
    /\ backend_queue = <<"ReloadSettings">>  \* MainWindow's constructor
    /\ gui_queue = <<>>
    /\ rows = [f \in Names |-> 0] /\ file_load_error = FALSE

------------------------------------------------------------------------------
(* External: the disk and the watcher                                        *)

Change == changes < MaxChanges /\ changes' = changes + 1

Notify(p) == notified' = IF p \in watched THEN notified \cup {p} ELSE notified

backendVars == <<local_path, initialized, cancel_requested, files, timer, scan,
                 backend_queue, gui_queue>>

\* External: a file is created, and grows while it is recent; when it has not
\* been written for two seconds it is complete.
CreateFile(p, f) ==
    /\ Change /\ p \in dirs /\ ~disk[p][f].there
    /\ disk' = [disk EXCEPT ![p][f] = [there |-> TRUE, size |-> 0, recent |-> TRUE]]
    /\ Notify(p)
    /\ UNCHANGED <<dirs, saved, saving, watched, backendVars, guiVars>>

WriteFile(p, f) ==
    /\ disk[p][f].recent /\ disk[p][f].size < MaxSize
    /\ disk' = [disk EXCEPT ![p][f].size = @ + 1]
    /\ UNCHANGED <<dirs, saved, saving, changes, watched, notified, backendVars,
                   guiVars>>

FileAges(p, f) ==
    /\ disk[p][f].recent
    /\ disk' = [disk EXCEPT ![p][f].recent = FALSE]
    /\ UNCHANGED <<dirs, saved, saving, changes, watched, notified, backendVars,
                   guiVars>>

DeleteFile(p, f) ==
    /\ Change /\ disk[p][f].there
    /\ disk' = [disk EXCEPT ![p][f] = NoFile]
    /\ Notify(p)
    /\ UNCHANGED <<dirs, saved, saving, watched, backendVars, guiVars>>

\* External: with its directory a watch is gone.
RemoveDir(p) ==
    /\ ~LastingDirs /\ Change /\ p \in dirs
    /\ dirs' = dirs \ {p}
    /\ disk' = [disk EXCEPT ![p] = [f \in Names |-> NoFile]]
    /\ Notify(p)
    /\ watched' = watched \ {p}
    /\ UNCHANGED <<saved, saving, backendVars, guiVars>>

CreateDir(p) ==
    /\ ~LastingDirs /\ Change /\ p \notin dirs
    /\ dirs' = dirs \cup {p}
    /\ UNCHANGED <<disk, saved, saving, watched, notified, backendVars, guiVars>>

------------------------------------------------------------------------------
(* The GUI thread saves settings *)

\* SettingsDialog::Save: the settings are written, then SettingsChanged runs.
Save(p) ==
    /\ Change /\ ~saving
    /\ PatientUser => backend_queue = <<>> /\ ~scan.on
    /\ saved' = p /\ saving' = TRUE
    /\ UNCHANGED <<dirs, disk, watched, notified, backendVars, guiVars>>

\* MainWindow::ReloadSettings, in BakFileBackend::ReloadSettingsAsync: compares
\* with local_path_ of the other thread, which may be about to change.
ReloadSettingsAsync ==
    /\ saving /\ saving' = FALSE
    /\ cancel_requested' = (cancel_requested \/ saved # local_path)
    /\ backend_queue' = Append(backend_queue, "ReloadSettings")
    /\ UNCHANGED <<dirs, disk, saved, changes, local_path, initialized, files,
                   watched, notified, timer, scan, gui_queue, guiVars>>

------------------------------------------------------------------------------
(* BakFileBackend's thread, between scans *)

Take(call) == ~scan.on /\ backend_queue # <<>> /\ Head(backend_queue) = call

\* Mutant of Rescan: the items of the old path are forgotten at once.
RescanForgets ==
    /\ initialized' = FALSE
    /\ backend_queue' = Append(Tail(backend_queue), "Scan")
    /\ files' = [f \in Names |-> Unlisted]

\* ScanAsync after initialized_ = false: Scan() is posted at once.
Rescan ==
    /\ initialized' = FALSE
    /\ backend_queue' = Append(Tail(backend_queue), "Scan")
    /\ UNCHANGED files

\* Mutant of Watchable: the path is watched unseen.
WatchAny == {saved}

\* The watch moves to the new path, if there is such a directory.
Watchable == {saved} \cap dirs

ReloadSettings ==
    /\ Take("ReloadSettings")
    /\ local_path' = saved
    /\ IF saved = NoPath \/ saved # local_path
       THEN /\ watched' = (watched \ {local_path}) \cup Watchable
            /\ notified' = notified \cap watched'
            /\ gui_queue' = IF saved \in dirs THEN gui_queue
                            ELSE Append(gui_queue, [type |-> "LoadError"])
            /\ Rescan
       ELSE /\ backend_queue' = Tail(backend_queue)
            /\ UNCHANGED <<watched, notified, initialized, files, gui_queue>>
    /\ UNCHANGED <<diskVars, cancel_requested, timer, scan, guiVars>>

DirectoryChanged ==
    /\ ~scan.on
    /\ \E p \in notified :
         /\ notified' = notified \ {p}
         /\ timer' = (timer \/ p = local_path)
    /\ UNCHANGED <<diskVars, local_path, initialized, cancel_requested, files,
                   watched, scan, backend_queue, gui_queue, guiVars>>

------------------------------------------------------------------------------
(* Scan() *)

\* Its first part: the flag is lowered and the directory listed.  (MaxPosted is
\* a bound of the model: a scan is not held up by the GUI thread.)
BeginScan ==
    /\ ~scan.on /\ Len(gui_queue) <= MaxPosted
    /\ cancel_requested' = FALSE
    /\ gui_queue' = Append(gui_queue, [type |-> "ScanInProgress"])
    /\ scan' = [Idle EXCEPT
                  !.on = TRUE,
                  !.error = local_path \notin dirs,
                  !.todo = IF local_path \in dirs
                           THEN {f \in Names : disk[local_path][f].there} ELSE {}]
    /\ UNCHANGED <<diskVars, local_path, initialized, files, watched, notified,
                   guiVars>>

\* Scan() as posted by ScanAsync, and as the slot of the timer.
ScanPosted ==
    /\ Take("Scan")
    /\ backend_queue' = Tail(backend_queue)
    /\ BeginScan
    /\ UNCHANGED timer

ScanTimeout ==
    /\ timer /\ timer' = FALSE
    /\ BeginScan
    /\ UNCHANGED backend_queue

OnDisk(f) == IF local_path \in Paths THEN disk[local_path][f] ELSE NoFile

\* The top of the loop: a temporary file is passed over, the age of any other
\* is looked at before its contents.
NextFile ==
    /\ scan.on /\ scan.file = None /\ ~cancel_requested
    /\ \E f \in scan.todo :
         scan' = IF f \in TempNames THEN [scan EXCEPT !.todo = @ \ {f}]
                 ELSE [scan EXCEPT !.todo = @ \ {f}, !.file = f,
                                   !.retrigger = @ \/ OnDisk(f).recent]
    /\ UNCHANGED <<diskVars, local_path, initialized, cancel_requested, files,
                   watched, notified, timer, backend_queue, gui_queue, guiVars>>

\* ScanFile: a file that is empty is no backup; one that has gone since it was
\* listed cannot be looked into, and its name decides.
Valid(f) == OnDisk(f).there => OnDisk(f).size > 0

\* The item made of the file is not the one listed, or there is none.
Differs(f) == files[f] # OnDisk(f).size

\* The rest of the loop body: the item is compared, changed in place, or new;
\* the model is told at once only when initialized.
ReadFile ==
    /\ scan.on /\ scan.file # None
    /\ LET f == scan.file
           type == IF files[f] = Unlisted THEN "AddedFiles" ELSE "UpdatedFiles"
           told == Valid(f) /\ Differs(f)
       IN  /\ files' = IF Valid(f) THEN [files EXCEPT ![f] = OnDisk(f).size]
                       ELSE files
           /\ gui_queue' = IF told /\ initialized
                           THEN gui_queue \o Files(type, {f}) ELSE gui_queue
           /\ scan' = [scan EXCEPT
                !.file = None,
                !.kept = IF Valid(f) THEN @ \cup {f} ELSE @,
                !.added = IF told /\ ~initialized /\ type = "AddedFiles"
                          THEN @ \cup {f} ELSE @,
                !.updated = IF told /\ ~initialized /\ type = "UpdatedFiles"
                            THEN @ \cup {f} ELSE @]
    /\ UNCHANGED <<diskVars, local_path, initialized, cancel_requested, watched,
                   notified, timer, backend_queue, guiVars>>

\* Mutant of Gone: only what was seen missing is dropped when the loop is left
\* early, and a file that became invalid stays.
GoneFromDisk == {f \in Names : files[f] # Unlisted /\ ~OnDisk(f).there}

\* Every item that this scan has not kept is dropped, be it because its file is
\* gone or no longer valid, or because the loop was left before it.
Gone == {f \in Names : files[f] # Unlisted} \ scan.kept

\* Mutant of Retrigger: the flag of the loop is forgotten.
NoRetrigger == timer

\* A file that was too new makes the timer start.
Retrigger == timer \/ scan.retrigger

\* The end of Scan(), after the last file or a cancel.
EndScan ==
    /\ scan.on /\ scan.file = None /\ (scan.todo = {} \/ cancel_requested)
    /\ files' = [f \in Names |-> IF f \in Gone THEN Unlisted ELSE files[f]]
    /\ gui_queue' = gui_queue
         \o Files("DeletedFiles", Gone)
         \o Files("AddedFiles", scan.added)
         \o Files("UpdatedFiles", scan.updated)
         \o (IF scan.error THEN <<[type |-> "LoadError"]>> ELSE <<>>)
    /\ initialized' = TRUE
    /\ cancel_requested' = FALSE
    /\ timer' = Retrigger
    /\ scan' = Idle
    /\ UNCHANGED <<diskVars, local_path, watched, notified, backend_queue,
                   guiVars>>

------------------------------------------------------------------------------
(* The GUI thread *)

Receive(type) ==
    /\ ~saving /\ gui_queue # <<>> /\ Head(gui_queue).type = type
    /\ gui_queue' = Tail(gui_queue)
    /\ UNCHANGED <<diskVars, local_path, initialized, cancel_requested, files,
                   watched, notified, timer, scan, backend_queue>>

Added(r, names) == [f \in Names |-> IF f \in names THEN r[f] + 1 ELSE r[f]]
Deleted(r, names) ==
    [f \in Names |-> IF f \in names /\ r[f] > 0 THEN r[f] - 1 ELSE r[f]]

\* BakFileModel::AddedFiles appends rows, whatever is there.
AddedFiles ==
    /\ Receive("AddedFiles")
    /\ rows' = Added(rows, Head(gui_queue).names)
    /\ UNCHANGED file_load_error

\* BakFileModel::UpdatedFiles repaints; the item is shared and has changed.
UpdatedFiles ==
    /\ Receive("UpdatedFiles")
    /\ UNCHANGED guiVars

DeletedFiles ==
    /\ Receive("DeletedFiles")
    /\ rows' = Deleted(rows, Head(gui_queue).names)
    /\ UNCHANGED file_load_error

\* MainWindow::ScanInProgress and MainWindow::FileLoadError
ScanInProgress ==
    /\ Receive("ScanInProgress")
    /\ file_load_error' = FALSE
    /\ UNCHANGED rows

FileLoadError ==
    /\ Receive("LoadError")
    /\ file_load_error' = TRUE
    /\ UNCHANGED rows

------------------------------------------------------------------------------
DiskStep ==
    \E p \in Paths :
      \/ \E f \in Names : \/ CreateFile(p, f) \/ WriteFile(p, f)
                          \/ FileAges(p, f) \/ DeleteFile(p, f)
      \/ RemoveDir(p) \/ CreateDir(p)

UserStep == ReloadSettingsAsync \/ \E p \in Paths \cup {NoPath} : Save(p)

ScanStep == NextFile \/ ReadFile \/ EndScan

BackendStep == ReloadSettings \/ DirectoryChanged \/ ScanPosted \/ ScanTimeout
                 \/ ScanStep

GuiStep == AddedFiles \/ UpdatedFiles \/ DeletedFiles \/ ScanInProgress
             \/ FileLoadError

Next == DiskStep \/ UserStep \/ BackendStep \/ GuiStep

\* The event loops go on, the timer fires, and time passes for every file.
Spec == /\ Init /\ [][Next]_vars
        /\ WF_vars(ReloadSettingsAsync)
        /\ WF_vars(ReloadSettings \/ ScanPosted) /\ WF_vars(DirectoryChanged)
        /\ WF_vars(ScanTimeout) /\ WF_vars(ScanStep) /\ WF_vars(GuiStep)
        /\ \A p \in Paths, f \in Names : WF_vars(FileAges(p, f))

------------------------------------------------------------------------------
(* Properties *)

\* Every variable has its type.
TypeOK ==
    /\ dirs \subseteq Paths /\ disk \in [Paths -> [Names -> File]]
    /\ saved \in Paths \cup {NoPath} /\ saving \in BOOLEAN /\ changes \in 0..MaxChanges
    /\ local_path \in Paths \cup {NoPath}
    /\ initialized \in BOOLEAN /\ cancel_requested \in BOOLEAN
    /\ files \in [Names -> {Unlisted} \cup 0..MaxSize]
    /\ watched \subseteq Paths /\ notified \subseteq Paths /\ timer \in BOOLEAN
    /\ scan \in {Idle} \cup Scanning
    /\ backend_queue \in Seq({"ReloadSettings", "Scan"})
    /\ gui_queue \in Seq(FileEvent \cup StateEvent)
    /\ rows \in [Names -> Nat] /\ file_load_error \in BOOLEAN

\* What an event makes of the rows.
Apply(r, e) ==
    CASE e.type = "AddedFiles"   -> Added(r, e.names)
      [] e.type = "DeletedFiles" -> Deleted(r, e.names)
      [] OTHER                   -> r

\* The rows once the first n events under way are handled, and once all are.
After[n \in 0..Len(gui_queue)] ==
    IF n = 0 THEN rows ELSE Apply(After[n - 1], gui_queue[n])

Replayed == After[Len(gui_queue)]

\* The list never shows a file twice, and once the events under way are handled
\* it has exactly the items of files_, but for those a first scan keeps back:
\* BakFileModel neither merges nor checks what it is sent.
ListFollowsFiles ==
    /\ \A f \in Names : rows[f] <= 1
    /\ \A f \in Names :
         Replayed[f] = IF files[f] = Unlisted \/ f \in scan.added THEN 0 ELSE 1

\* What the list should show of the saved path: the backups with their sizes.
Wanted(f) ==
    IF saved \in Paths /\ f \notin TempNames /\ disk[saved][f].there
       /\ disk[saved][f].size > 0
    THEN disk[saved][f].size ELSE Unlisted

ListIsCurrent ==
    /\ \A f \in Names : files[f] = Wanted(f) /\ (rows[f] = 1 <=> Wanted(f) # Unlisted)
    /\ file_load_error <=> saved \notin dirs

\* "FS listener with live updating": when the directory and the settings stay
\* as they are, the list comes to show the backups of the saved path with the
\* sizes they have, or the error if there is no such path, and stays so.
LiveUpdating == <>[]ListIsCurrent

\* The same while directories come and go: a directory that lost its watch when
\* it went, or was not there when its path was loaded, is not followed until its
\* path is loaded anew; any other is.
WatchedIsLive == <>[](ListIsCurrent \/ saved \in Paths \ watched)
=============================================================================
