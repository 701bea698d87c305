# A verification project for SQL Restore

SQL Restore is a Qt program that restores SQL Server backups, plain or zipped,
in batches. The user picks files in a list that follows a directory, clicks
Restore, watches the progress page and reads a summary. This directory holds
TLA+ models of it, the TLC instances that check them, and proofs checked by
TLAPS. Source references are relative to `src/` of the repository's `src`
directory (`src/src/backupbackend.cpp` is called `backupbackend.cpp`).

## 1. Inventory

| Component | Thread | State it keeps | Operations |
|---|---|---|---|
| `MainWindow` (mainwindow.cpp) | GUI | the page shown, results received, connection status, load error, what is enabled | Restore, Cancel, Exit, Reset; slots for every signal of the backends |
| `BackupBackend` (backupbackend.cpp), `ScopedResult` | own, low priority | queue, job counters, `cancel_requested_`, paths | QueueRestores, FlushQueue, RestoreBackup, _RestoreFinished, ReloadSettings, CancelRestore |
| `BakFileBackend` (bakfilebackend.cpp) | own, idle priority | path, `files_`, watcher, timer, cancel flag | ReloadSettings(Async), DirectoryChanged, Scan, ScanFile |
| `BakFileModel`, `BakFileFilter` | GUI | rows, sort column, filter; the items are shared with the scanner | AddedFiles, UpdatedFiles, DeletedFiles, sort, filterAcceptsRow |
| `BakFileViewContainer`, `BakFileView`, `QSearchField` | GUI | search text, filter timer, selection | typing, clearing, UpdateFilter, selecting |
| `DBConnector` (dbconnector.cpp) | own for the status; the job and the tester have one each | settings, one connection per thread | ReloadSettings, Connect(Async), Close(Async) |
| `SettingsDialog`, `TestServerDialog` | GUI, the test in a pool thread | settings, test in progress | Load, Save, TestServer, ConnectFinished |
| `Application` (application.cpp) | GUI | threads and the objects in them | construction, shutdown |
| `Logging`, command line, icons, about box, widgets | GUI | none that others depend on | – |
| vendored ODBC plugin, packaging | – | – | not part of the program's own logic |

**How they interact.** Signals between threads are posted to the receiver's
event queue and handled in order. Some calls go around the queues, and those
are where it gets hard: `MainWindow::Cancel` writes `cancel_requested_` of the
running job (backupbackend.h:76), `MainWindow::ReloadSettings` calls
`BackupBackend::ReloadSettings` directly while a job may read the same members
(mainwindow.cpp:246), and `ReloadSettingsAsync` compares with `local_path_` of
the scanner's thread (bakfilebackend.cpp:209). `RestoreBackup` and `Scan` run
within one slot, so their thread handles no event until they return. List items
are shared pointers, read in three threads.

**What is hard.** Clicks that race with the end of a batch; a job of twenty
statements of which any can fail or be the last before the program dies, while
databases are in single user mode; settings saved during a job or a scan;
files that are still being copied; directories that go and come back; verdicts
and connection states that arrive late. The list with its places in the code is
under `hazards` in PROJECT.json.

**What makes each component correct.**
- Restore queue: every picked file gets exactly one outcome, in order; the
  summary shows those; cancelling is for the batch it was clicked in; the
  program is not left mid-batch; a batch always ends.
- Restore job: nothing is touched because of a bad file; success means every
  database is restored and open; however it ends, at most the database at hand
  is left in an odd state, a cancel leaves none, and the next attempt gets over
  what the last one left.
- Scanner and list: the rows are the items of the scanner, each once; when the
  directory is quiet the list becomes what is on disk.
- List: what Restore takes are the files the user selected, however the rows were
  sorted, filtered, added and removed since; the rows shown are those searched for.
- List page: whenever it is shown, its buttons, status line and loading display
  agree with connection, selection and scan, whatever arrived on other pages.
- Connector and tester: the status or verdict shown is that of the connection
  asked for last; a job works on a server of the settings of its time.

## 2. Modules

| Module | Models | Checked by |
|---|---|---|
| `BatchRestore` | what the restore page promises (abstract) | implemented by `RestoreQueue` |
| `RestoreQueue` | `MainWindow`'s restore pages, `BackupBackend`'s queue, `ScopedResult`, both event queues | `restore_queue`, `stale_cancel` |
| `RestoreQueueProofs` | proofs about `RestoreQueue` | TLAPS |
| `BatchRestoreProofs` | proofs that `RestoreQueue` implements the safety part of `BatchRestore`, and of the overall progress | TLAPS |
| `RestoreJob` | one `RestoreBackup` call after another and the server's databases | `restore_job` |
| `RestoreJobProofs` | proofs about `RestoreJob` | TLAPS |
| `BakFileScan` | `BakFileBackend`, `BakFileModel`'s rows, the load error, disk and watcher | `scan_list`, `live_updating`, `path_saved_back` |
| `BakFileScanProofs` | proofs about `BakFileScan` | TLAPS |
| `SettingsTester` | `SettingsDialog`'s test of a server, `TestServerDialog`, the pool thread, `DBConnector::Connect` as a test uses it | `settings_tester`, `stale_verdict` |
| `SettingsTesterProofs` | proofs about `SettingsTester` | TLAPS |
| `Connection` | `DBConnector` of the application and of `BackupBackend`, `ReloadSettings`, the status in `MainWindow`, a job's two connections, servers that stop | `connection`, `stale_connection` |
| `ConnectionProofs` | proofs about `Connection` | TLAPS |
| `FileList` | `BakFileModel` with its items, `BakFileFilter`, the search field and the selection | `file_list` |
| `FileListProofs` | proofs about `FileList` | TLAPS |
| `ListPage` | `MainWindow`'s page with the list; extends `FileList` with the scanner's and the connector's signals and the other pages | `list_page` |
| `ListPageProofs` | proofs about `ListPage`, on those about `FileList` | TLAPS |
| `MC…` | the constants of the instances | |

### RestoreQueue
One action per slot and click. `gui_queue` and `backend_queue` are the posted
events. `job` is the `RestoreBackup` call on the backend's stack; while it is
there the backend takes no event. A job is reduced to what the queue can tell
apart: it passes its first cancel check (`BeginWork`), then ends as success or
failure, or meets a cancel check (`JobCancelled`). `FlushQueue` and
`RestoreStarted` are part of the slot that calls them. The modal "Can't exit"
box is a nested event loop: events are handled, clicks are not. `batch` and
`clicked` are history variables, read by no guard. The results that `BatchRestore`
sees are those the window has with those still posted to it (`Received`).

### RestoreJob
`phase` names the next part of `RestoreBackup`; `Checks` are the parts that
begin with `RestoreCheckCancel`. `Fails` is every early return on an error of a
system call or statement; since a statement can take effect and still report an
error, `Remains` allows both. `Killed` is the end of the process at any point.
The server is external: a database has a state, an access and the position it
was restored from.

Files are picked and queued by name (`QueueRestores`, with `home` the paths under
which the list found them) and meet the paths of the settings only in their job.
`ReloadSettings` may change `path` at any moment: while files are picked, between
two jobs of a batch, within a job. Each place that puts a path together looks at
`path` anew (`Source` for the file itself; `tmp_path`, the paths of the temporary
file, against those by which the server is sent to it): if it is not the one
expected, the name may stand for any file or none. `strayed` is the history of it.
An unpacked file may also have lost its end, since flush and close are not looked
at (`CutShort`). A server may not know its own version (`version_known`); then
backups of newer servers pass the header check, as in the code.

A batch is the number of files still `queued`, at most two here; which files they
are is chosen as their jobs start, which is no restriction, as nothing looks at
them before. That the list's batch is taken from a page that waits for the end of
the last one is `RestoreQueue`'s matter. After `Killed` the phase is `dead` until
`Restart`, when the queue and the flag are gone and the server is as it was left.
The abstraction of files is by the ways in which they differ for the job, and it is
assumed that a file keeps its bytes from the pick to the end of its job. Servers are
not told apart: that a job's second connection may be to another server than its
first is in `Connection`.

### BakFileScan
`scan` holds the locals of a `Scan()` call, cut where other threads and the disk
can come between: the listing of names, the age of each file, its contents, and
the end. A file has a size and is `recent` while it is being copied; recent
stands for an age of at most two seconds. The watcher reports names that come
and go in a watched directory. `rows` counts the rows of each name, so that a
file shown twice can be seen. `Save` and `ReloadSettingsAsync` are two steps,
since the scanner's thread can run between them.

### SettingsTester
`form` is what stands in the dialog; settings are whole values, and the one that
lacks something is `Incomplete`. `test[i]` is the part of `SettingsDialog::Connect`
that pool thread `i` runs next, `mutex` is `db_connector_->Mutex()`. A test posts
its verdict twice (`Connect`) and its end once (`Finish`, after the mutex was
released, since the future finishes when the function has returned); `Show` is
the guard and the assignments that the three slots share. `named`, `tested`,
`shown_of` and `hurried` are history variables; `hurried` is up when the last test was
started before the others were over, or something was clicked or edited before
it was over itself.

### Connection
`conf[c]` are the members of a connector, written in two steps by the GUI thread
(`ReloadServer`, `ReloadLogin`): the server, and the login, which stands for
user, password and trust. `calls` are the posted `Connect` calls of the first
connector with the values copied into them; `Posted` is the call at hand. A
`QSqlDatabase` is a `Handle`: the string it was given, `isOpen()`, and whether
the server still knows of it (`alive`), which no guard reads. `Connect` is cut
before `db.open()`, where it may wait as long as the login timeout; its ways
out are `Refuses`, `Reuses` and `Closes` with `OpensHandle`, shared by both
connectors. In a job `Connect` takes the members by reference, so the server and
the login can be of different settings. `job.seen` and `job.checked` are history
variables. Each signal is emitted twice so that the window repaints; the second
one is left out.

### FileList
`rows` are `items_`, `value[i]` what an item contains at the moment, `stale` the
items whose change is not yet reported. `Key` and `Accepts` stand for the columns
and the search. A selection is a set of row numbers, as persistent indexes are,
and `sort` moves them by `NewRow`; what Qt does to indexes when rows are inserted,
removed or filtered out is external. `Sorted` gives the set of lists
that a stable sort may leave: for the column whose comparison is no strict weak
order these are all permutations. A sort by the user also filters every row again:
`layoutChanged` (bakfilemodel.cpp:137) makes the proxy build its rows anew, so that an
item overwritten and not reported yet can leave the view and the selection. The regular expression that Qt makes of
the text is taken for the text itself: with Qt 6 the pattern is escaped and not
turned to lower case, so that capitals and full stops are not found there.
`picked` (what the user selected and has not lost to the filter) and `moved` are
history variables.

### ListPage
The steps of `FileList` are conjoined with `FileSelectionChanged`, which Qt calls
when indexes are selected or deselected and not when they move, and with the
scanner's order of signals (`scan`). `SortList` is without it: indexes that a sort
makes invalid leave the selection and no signal says so. `dropped` is the history of
that, up from such a sort until the buttons are set by the selection again. `label` says of what the text of the status
line is. The page changes by `Restore`, `RestoreComplete` and `Reset`; what lies
between is `RestoreQueue`. `files_loaded_` decides a wording only,
`file_scan_in_progress_` is never read, and Select All is left out.

## 3. Runs

| Run | Bounds | What it shows |
|---|---|---|
| `restore_queue` | 3 files, selections up to 3 | safety of a batch; the inductive invariant; `BatchRestore` is implemented, with its liveness |
| `stale_cancel` | 1 file | **violated**: a late cancel cancels the next batch |
| `restore_job` | 2 databases in any healthy or leftover state, 11 backup files, batches of up to 2, 2 pairs of paths, 2 chunks | the safety of the databases; a job returns |
| `scan_list` | 2 paths, 2 files, 3 changes | rows follow the scanner, directories coming and going |
| `live_updating` | 2 paths that come and go, a backup and a temporary file, 3 changes | the list becomes current unless its directory lost its watch |
| `path_saved_back` | 2 paths, 1 file, 3 changes | **violated**: the list stays incomplete |
| `settings_tester` | 2 settings, 2 tests that may overlap | the window and the flag agree; a test is answered, and with its true outcome if it is left alone |
| `stale_verdict` | 1 setting, 2 tests | **violated**: a report of one test answers the next |
| `connection` | 2 servers with a login each, settings that lack something, 2 saves, 1 outage | the status line and the handle agree; the status settles; a job's server |
| `stale_connection` | the same settings, 1 outage, no save | **violated**: a dead connection passes the check |
| `file_list` | 3 files with 2 contents each, sorted by name, date and Compressed, 1 unreported change | the selection, the filter and the order of rows |
| `list_page` | 2 files with 2 contents each, sorted by date | the page with the list |

Why the bounds are enough: the queue treats a middle, a first and a last file
differently, so three files show every transition, and the proofs are for any
number. A cancel needs two batches to be seen as stale, and batches are not
bounded. In a job, two databases show one finished while the other is at hand;
`<<d1, d1>>` has a database in two positions; two chunks give a cancel check
between two writes; with two pairs of paths and two files in a batch the paths can be
saved before a pick, during an earlier job, and there and back within a job. A scan needs two files to be broken off between them, two
paths to move, and three changes to save two paths around a change on disk. Two
tests overlap as soon as the first was reported, which shows all that a third
could do to the second; the proofs are for any number. Three rows make a sort
move indexes in a cycle, two files of the same name in other letters are sorted by
date too, and a list of two is long for the search field (100 in the code,
`kFilterDelaySizeThreshold`). Two saves show an attempt overtaken by the next. `MaxPosted`
keeps the list's queue short at the start of a scan; a scan does not
depend on what the GUI has handled. `CHECK_DEADLOCK FALSE` in the scanner's
configurations: when the changes are used up and the list is current, the
program rests.

**Fairness.** `RestoreQueue` and `BakFileScan` assume that both event loops go on
(`WF` of the handlers), which Qt's event loops do while the program runs, and
that a job or scan once started goes on. A restore job's fairness stands for
system calls and SQL statements that return; a server that never answers would
hold up the batch. The timer fires and files stop growing in the end. A
test gets on because the pool has threads enough, a connection attempt ends
(after its login timeout of four seconds at the latest) and the mutex is
released on return. `Connection` assumes that both event
loops go on and that `db.open()` returns; `ListPage` that a scan which has begun
reports and ends. Nothing is assumed of the servers, which may stay away for
good, nor of the user, who need never click, except in `live_updating`, where
`PatientUser` restricts when settings are saved; `path_saved_back` drops that
restriction.

## 4. What the findings say

1. **Late cancel** (`stale_cancel`). The flag is lowered by the last
   `_RestoreFinished`. A click after it and before `RestoreComplete` is handled
   stays set, and `QueueRestores` does not lower it. `LeftoverCancelIsRecent`
   shows how far it goes: the next batch, never the one after.
2. **Path saved back** (`path_saved_back`). Saving B and then A while A is being
   scanned breaks the scan off and starts none, and the files not reached are
   dropped from the list.
3. **Stale verdict** (`stale_verdict`). Each test reports three times and the
   dialog does not ask of which test a report is: one started between the first
   and the last report of another shows the other's verdict.
4. **Stale connection** (`stale_connection`). A link that is lost does not close the
   handle, so that the check before unpacking passes without asking the server. The
   job unpacks and then fails at its first statement, and so does every later job
   until other settings are saved.

More ways in which the code falls short are the exceptions written into properties
that hold. `SuccessIsComplete` and `UntouchedByBadFile` except a job that `strayed`:
paths saved after a file was picked, be it long before its job starts, send the job
to a file of that name elsewhere, whose databases it restores and whose success it
reports. `UntouchedByBadFile` also excepts a newer server's backup: a server of
version 0 (backupbackend.cpp:517; SQL Server 2008 R2 may not know
`ProductMajorVersion`) is sent such a backup, and if VERIFYONLY does not stop it a
database stays in single user mode after its RESTORE was refused.
`ButtonsFollowSelection` excepts a selection that a sort has `dropped`: Restore stays
enabled with nothing selected, and a click on it does nothing. `WatchedIsLive`: a directory that was not there when its path
was loaded, or went and came back since, is not followed. `VerdictIsOwn`: a test
reads the dialog when it has the mutex, so an edit after the click changes what is
tested. `RowsSorted`: rows that were overwritten stay where they are until the next
sort, and sorting by Compressed, compared by `==` (bakfilemodel.cpp:150), gives any
order. `JobServerIsCurrent` says less than that a job's server is the one in the
settings: it is one that was there, or still being loaded, while the job ran, and its login may
be of other settings.

## 5. Proofs

`RestoreQueueProofs` proves, for every set `Files` and every
`MaxSelection \in Nat \ {0}` (the only assumption), that `IInv` is an invariant
of `Spec`, and from it `TypeOK`, `QuietOffProgressPage`, `NeverLeftMidBatch`,
`OneTokenInFlight`, `CancelIsForTheRest` and `LeftoverCancelIsRecent`.

The argument. The window looks only at its page, so that the backend is idle off
the progress page has to come from the events under way: on the progress page
there is exactly one token (the request, the job, its `_RestoreFinished`, or a
`RestoreComplete` at the end of the GUI's queue), each step turns one token into
the next, and only the last one leaves the page (`OneTokenInFlight`). For
cancelling, `CancelOrder` adds that the flag stays up from the first cancelled
result until the batch ends, and that results still posted continue the order
of those that arrived. The proof has one lemma for the clicks, one for the
events of the GUI thread and one for the backend, with one step per action;
lemmas about posting to a queue say what an appended event leaves true.

`SettingsTesterProofs` proves, for every set `Settings` and every
`MaxTests \in Nat`, that `Inv` is an invariant, and from it `TypeOK` (with the
mutual exclusion of the tests) and `ConnectingWhileInProgress`. `Inv` adds that an
event is posted only of a test that has a verdict, which `ConnectFinished` needs to
show one. For `VerdictIsOwn` it proves that `PatientInv` holds unless `hurried`: only
the last test is under way or reported, the reports posted agree with its verdict,
it reads the settings it was started for, and what is shown is of a test whose
verdict does not change any more. Each step has its lemma for the user, the pool
and the event loop.

`ConnectionProofs` proves, for every `Servers`, `Logins`, `Savable` and `Accepted`
and any number of saves and outages (under `SettingsAssumption` and
`ConnectionBounds`), that its `Inv` is an invariant, and from it `TypeOK`,
`StatusIsOfHandle`, `StatusNotTorn` and `JobServerIsCurrent`. The status of
settings saved together needs `ConfFollows`: the members of the status connector
are the settings saved, as far as they are assigned, so that by the time
`ConnectAsync` copies them they are whole. The server of a job needs `JobSees`:
whatever the job may still come upon (the settings, its connector's members, its
handle) is among the servers seen while it ran. Facts about the first and the
last element of a queue come first, then one lemma for each step of the
connector's thread, of the window and of the job.

`RestoreJobProofs` proves, for any `Databases`, any `BackupFiles`, any number of
`Chunks`, any pairs of `Paths` and any length of batch, every safety property of the
job: `TypeOK`, `SuccessIsComplete`, `CancelStrandsNone`, `AtMostOneStranded`,
`UntouchedByBadFile` and `NoSelfInflictedFailure`. (Assumed are that a backup which
can be read lists a database, and that the empty name is none of the paths.) None of
these is inductive: what is reported at the end depends on all that came before.
`Examined` says phase by phase what the job knows of the bytes it reads, ending with
`Admitted`: they are a good full backup, or a newer one on a server of unknown
version. `SameFile` says that they are the picked file's unless the job strayed or
lost the end of what it unpacked, in which case they are not admitted. `NewerKept`
says that with a newer backup the loop never gets past its first RESTORE and has
changed nothing but an access. The types of the paths and of the queue (`PathType`)
are proved apart, since no step of the job needs them.
`OthersSettled` is the invariant of the loop over the databases: those
named at an earlier position are restored and open, and the others are as before.
`AtHand` says of the one in between how far its statements can have come, and
`OneStranded` that it alone can be stranded, also when two positions name the same
database. There is one lemma for each part of the job and one for failing, for
cancelling and for being killed.

`BakFileScanProofs` proves, for all `Paths` and `Names` and any number of changes,
`TypeOK` and `ListFollowsFiles`. The rows that the events under way will leave are
defined by recursion on the queue (`After`), about which no theorem of the library
can be used; instead the invariant has `Leads`: there is a way of rows, one for each
event, from the rows shown to `Target`, the scanner's files but for those that a
first scan keeps back. A posted event lengthens the way at its end, a handled one
takes its first step off, and that the way is the one of `After` follows by looking
at the least place where they differ. `AddedKept` says of the files kept back that
they are listed by the scanner and will not be dropped at the end of the scan.

`FileListProofs` proves, under `ListAssumption` (finitely many files, keys that are
integers), `ListTypeOK`, `SelectionFollowsItems`, `FilterIsCurrent`,
`FilterFollowsText` and `RowsSorted`. A sort is a permutation of the rows, and an
injection of a finite set into itself is onto, so that every item keeps a row and
`NewRow` moves the selection with the items. Filtering and removing rows need
`PickedShown`: what is selected is shown. A sort first drops what the filter does not
accept any more, from the view, the selection and `picked` alike, and then permutes. `ListPageProofs` adds the window: with
`NoErrorInScan` (a scan that begins forgets the last one's error) it proves the
page's `TypeOK`, `ButtonsFollowSelection`, `StatusLineRight`, `LoadingOnlyInScan`
and the action property `RestoresWhatIsPicked`. The steps of the list keep the
list's part by the lemmas of `FileListProofs` and the window's by `ButtonsFollow`, a
sort by `ButtonsLeft` (it selects nothing, so it can only take from the selection, and
`dropped` remembers that); the steps of the window leave the list alone.

`BatchRestoreProofs` proves, for every `Files` and `MaxSelection`, that
`RestoreQueue` implements the safety part of `BatchRestore` (`ImplementsSafety`) and
that `ProgressTracksResults` holds. `ResultsInv` says that the results the window
has, the results posted to it and the files still queued are, in this order, the
batch, with one outcome for each file. With it each step is mapped: `Restore` to
`Submit`, the end of a job to `Resolve`, the handling of `RestoreComplete` to
`Report`, `Reset` to `Dismiss`, `Exit` to `Quit`, and the rest to stutters; in
particular, the handling of a result is one, as the result counts from when it is
posted. For the progress, `ProgressInv` says that the events under way are a stretch
of the batch's `Script`: the maximum, then a header, a result and a value for each
file, then the end. What the bar shows is what the script has shown up to that
stretch.

Every safety invariant and every action property that a run checks is therefore
proved. Only model-checked is liveness, which is out of the prover's reach: the
fairness part of `ImplementsBatchRestore`, `JobReturns`, `WatchedIsLive`,
`TestEnds`, `StatusSettles` and `LoadingEnds`. The four violated properties are
refuted by their runs.

## 6. Not modelled

The torn strings of data races (paths and items that are assigned while another
thread copies them; settings that are half those saved before are in
`Connection`); time, so neither the five second timer's restart by every change
nor clock skew; the contents of archives and the search for their
directory; the names of files on the server; logging, layout, icons, command
line; the vendored ODBC plugin. `ScanDelayed`, `CancelScan`, `DeleteQueue`,
`DBConnector::Close` and `BakFileViewContainer::FocusOnFilter` are in the source and
never called.

## 7. Plan

In this order; the first seven are done.

1. `BatchRestore`, `RestoreQueue` and the proofs about both.
2. `RestoreJob` and its proofs.
3. `BakFileScan` and its proofs.
4. `SettingsTester` and its proofs.
5. `Connection` and its proofs.
6. `FileList` and its proofs.
7. `ListPage` and its proofs.
8. `ZipTail` and `Paths`: the signature search and the joins of paths as
   operators, checked against reference definitions over bounded inputs.
9. `Shutdown`: `~Application` with jobs, scans and tests under way.
10. `RestoreSystem`: `RestoreQueue` with `RestoreJob` as its job, instead of the
    reduced one of each.

Proofs to come: those of the modules still to be written, first of all that
`RestoreSystem` implements `RestoreQueue`. Runs to come: copies that stall.
