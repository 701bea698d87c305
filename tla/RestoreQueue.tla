---------------------------- MODULE RestoreQueue ----------------------------
(* The restore queue: MainWindow's restore pages in the GUI thread, and      *)
(* BackupBackend with its ScopedResult in the backend thread.                *)
(*                                                                           *)
(* Each thread runs an event loop; a signal whose receiver lives in the      *)
(* other thread, or that is connected with Qt::QueuedConnection, is posted   *)
(* to the receiver's queue and handled in order.  Two calls go around the    *)
(* queues: CancelRestore() writes cancel_requested_ of the backend from the  *)
(* GUI thread, and RestoreBackup() runs inside the slot that dequeued the    *)
(* file, so the backend handles no event while a job runs.  What a job does  *)
(* is the subject of RestoreJob; here it passes the first cancel check, then *)
(* fails, succeeds, or meets one of the later cancel checks.                 *)
EXTENDS Integers, Sequences

CONSTANTS
    Files,        \* the backup files of the list
    MaxSelection  \* bound: the longest selection the user makes

ASSUME MaxSelectionAssumption == MaxSelection \in Nat \ {0}

VARIABLES
    \* MainWindow, in the GUI thread
    page,           \* ui_->stackedWidget's current widget
    running,        \* FALSE once qApp->quit() was called
    box,            \* the modal "Can't exit" box is up, in a nested event loop
    jobs_finished,  \* results received for the batch
    textBrowser,    \* results shown on the summary page
    header_all,     \* i of "Restoring backup i of n.", 0 when clear
    progress_all,   \* value and maximum of progressbar_all
    gui_queue,      \* events posted to the GUI thread
    \* BackupBackend, in the backend thread
    in_progress, queue, jobs_total, jobs_complete, jobs_remaining, jobs_current,
    cancel_requested,
    job,            \* the call of RestoreBackup that is on the stack, or Idle
    backend_queue,  \* events posted to the backend thread
    \* history variables: they are written and never read by an action
    batch,          \* the files of the last QueueRestores
    clicked         \* Cancel was clicked during that batch

backendVars == <<in_progress, queue, jobs_total, jobs_complete, jobs_remaining,
                 jobs_current, job>>
displayVars == <<jobs_finished, textBrowser, header_all, progress_all>>
vars == <<page, running, box, displayVars, gui_queue, backendVars,
          cancel_requested, backend_queue, batch, clicked>>

------------------------------------------------------------------------------
(* Types *)

Outcomes == {"success", "failure", "cancelled"}

\* BackupResult; its error list matters only in that a cancelled job says so.
BackupResult == [filename : Files, outcome : Outcomes]

Idle == [phase |-> "idle"]
Job == {Idle} \cup [phase : {"start", "work"}, file : Files]

BackendEvent == [type : {"QueueRestores"}, files : Seq(Files)]
                  \cup {[type |-> "_RestoreFinished"]}

GuiEvent == [type : {"RestoreProgressAllMax", "RestoreProgressAllValue",
                     "RestoreHeaderAll"}, value : Nat]
              \cup [type : {"RestoreFinished"}, result : BackupResult]
              \cup {[type |-> "RestoreComplete"]}

\* What Restore() can collect: every selected row once, and at least one.
\* BakFileItem::is_valid() is constantly true, so no row is skipped.
Selections ==
    {s \in UNION {[1..n -> Files] : n \in 1..MaxSelection} :
        \A i, j \in DOMAIN s : s[i] = s[j] => i = j}

------------------------------------------------------------------------------
Init ==
    /\ page = "select_file" /\ running = TRUE /\ box = FALSE
    /\ jobs_finished = <<>> /\ textBrowser = <<>>
    /\ header_all = 0 /\ progress_all = [value |-> 0, max |-> 100]
    /\ gui_queue = <<>> /\ backend_queue = <<>>
    /\ in_progress = FALSE /\ queue = <<>> /\ job = Idle
    /\ jobs_total = 0 /\ jobs_complete = 0
    /\ jobs_remaining = 0 /\ jobs_current = 0
    /\ cancel_requested = FALSE
    /\ batch = <<>> /\ clicked = FALSE

------------------------------------------------------------------------------
(* The user, in the GUI thread.  The modal box blocks every click but its    *)
(* own; events are still handled while it is up.                             *)

CanClick == running /\ ~box

\* Mutant of Restore: a click is taken on the progress page too.
RestoreTwice ==
    /\ CanClick /\ page # "summary"
    /\ backend_queue' \in {Append(backend_queue, [type |-> "QueueRestores",
                                                 files |-> files]) :
                             files \in Selections}
    /\ page' = "progress"
    /\ UNCHANGED <<running, box, displayVars, gui_queue, backendVars,
                   cancel_requested, batch, clicked>>

\* MainWindow::Restore: collect the selection, show the progress page, post.
Restore ==
    /\ CanClick /\ page = "select_file"
    /\ \E files \in Selections :
         /\ backend_queue' = Append(backend_queue,
                                    [type |-> "QueueRestores", files |-> files])
         /\ batch' = files
    /\ page' = "progress"
    /\ clicked' = FALSE
    /\ UNCHANGED <<running, box, displayVars, gui_queue, backendVars,
                   cancel_requested>>

\* MainWindow::Cancel: the button is on the progress page only.
Cancel ==
    /\ CanClick /\ page = "progress"
    /\ cancel_requested' = TRUE
    /\ clicked' = TRUE
    /\ UNCHANGED <<page, running, box, displayVars, gui_queue, backendVars,
                   backend_queue, batch>>

\* MainWindow::Exit and closeEvent on the progress page: box.exec().
ExitRefused ==
    /\ CanClick /\ page = "progress"
    /\ box' = TRUE
    /\ UNCHANGED <<page, running, displayVars, gui_queue, backendVars,
                   cancel_requested, backend_queue, batch, clicked>>

DismissBox ==
    /\ box
    /\ box' = FALSE
    /\ UNCHANGED <<page, running, displayVars, gui_queue, backendVars,
                   cancel_requested, backend_queue, batch, clicked>>

\* Mutant of Exit: quit() without a look at the page.
ExitAnyPage ==
    /\ CanClick
    /\ running' = FALSE
    /\ UNCHANGED <<page, box, displayVars, gui_queue, backendVars,
                   cancel_requested, backend_queue, batch, clicked>>

\* MainWindow::Exit and closeEvent on the other pages: qApp->quit().
Exit ==
    /\ CanClick /\ page # "progress"
    /\ running' = FALSE
    /\ UNCHANGED <<page, box, displayVars, gui_queue, backendVars,
                   cancel_requested, backend_queue, batch, clicked>>

\* The back button of the summary page, MainWindow::Reset.
Reset ==
    /\ CanClick /\ page = "summary"
    /\ page' = "select_file"
    /\ textBrowser' = <<>>
    /\ batch' = <<>>
    /\ UNCHANGED <<running, box, jobs_finished, header_all, progress_all,
                   gui_queue, backendVars, cancel_requested, backend_queue,
                   clicked>>

------------------------------------------------------------------------------
(* Events handled by the GUI thread *)

Receive(type) ==
    /\ running
    /\ gui_queue # <<>> /\ Head(gui_queue).type = type
    /\ gui_queue' = Tail(gui_queue)

\* QProgressBar::setMaximum clears a value above the new maximum.
RestoreProgressAllMax ==
    /\ Receive("RestoreProgressAllMax")
    /\ LET max == Head(gui_queue).value
       IN  progress_all' = [value |-> IF progress_all.value > max THEN 0
                                      ELSE progress_all.value,
                            max   |-> max]
    /\ UNCHANGED <<page, running, box, jobs_finished, textBrowser, header_all,
                   backendVars, cancel_requested, backend_queue, batch, clicked>>

\* QProgressBar::setValue ignores a value above the maximum.
RestoreProgressAllValue ==
    /\ Receive("RestoreProgressAllValue")
    /\ LET value == Head(gui_queue).value
       IN  progress_all' = IF value > progress_all.max THEN progress_all
                           ELSE [progress_all EXCEPT !.value = value]
    /\ UNCHANGED <<page, running, box, jobs_finished, textBrowser, header_all,
                   backendVars, cancel_requested, backend_queue, batch, clicked>>

RestoreHeaderAll ==
    /\ Receive("RestoreHeaderAll")
    /\ header_all' = Head(gui_queue).value
    /\ UNCHANGED <<page, running, box, jobs_finished, textBrowser, progress_all,
                   backendVars, cancel_requested, backend_queue, batch, clicked>>

\* MainWindow::RestoreFinished
RestoreFinished ==
    /\ Receive("RestoreFinished")
    /\ jobs_finished' = Append(jobs_finished, Head(gui_queue).result)
    /\ UNCHANGED <<page, running, box, textBrowser, header_all, progress_all,
                   backendVars, cancel_requested, backend_queue, batch, clicked>>

\* Mutant of RestoreComplete: jobs_finished_ is not cleared.
RestoreCompleteKeeps ==
    /\ Receive("RestoreComplete")
    /\ textBrowser' = textBrowser \o jobs_finished
    /\ page' = "summary"
    /\ header_all' = 0
    /\ progress_all' = [value |-> 0, max |-> 100]
    /\ UNCHANGED <<running, box, jobs_finished, backendVars, cancel_requested,
                   backend_queue, batch, clicked>>

\* MainWindow::RestoreComplete
RestoreComplete ==
    /\ Receive("RestoreComplete")
    /\ textBrowser' = textBrowser \o jobs_finished
    /\ jobs_finished' = <<>>
    /\ page' = "summary"
    /\ header_all' = 0
    /\ progress_all' = [value |-> 0, max |-> 100]
    /\ UNCHANGED <<running, box, backendVars, cancel_requested, backend_queue,
                   batch, clicked>>

GuiDispatch == \/ RestoreProgressAllMax \/ RestoreProgressAllValue
               \/ RestoreHeaderAll \/ RestoreFinished \/ RestoreComplete

------------------------------------------------------------------------------
(* Events handled by the backend thread, when no job is on its stack *)

Take(type) ==
    /\ running /\ job = Idle
    /\ backend_queue # <<>> /\ Head(backend_queue).type = type
    /\ backend_queue' = Tail(backend_queue)

\* A signal that is emitted only when the batch has more than one file.
IfMany(total, type, value) ==
    IF total > 1 THEN <<[type |-> type, value |-> value]>> ELSE <<>>

\* FlushQueue with the queue q and the counters given; `posted` is what the
\* caller emitted before.  StartRestoreBackup is a direct call, and
\* RestoreBackup begins with RestoreStarted.
FlushQueue(q, remaining, current, total, posted) ==
    IF q # <<>> /\ remaining = 0
    THEN /\ queue' = Tail(q)
         /\ job' = [phase |-> "start", file |-> Head(q)]
         /\ in_progress' = TRUE
         /\ jobs_remaining' = remaining + 1
         /\ jobs_current' = current + 1
         /\ gui_queue' = gui_queue \o posted
                           \o IfMany(total, "RestoreHeaderAll", current + 1)
    ELSE /\ queue' = q
         /\ jobs_remaining' = remaining
         /\ jobs_current' = current
         /\ gui_queue' = gui_queue \o posted
         /\ UNCHANGED <<job, in_progress>>

\* Mutant of QueueRestores: jobs_complete_ and jobs_current_ go on counting.
QueueRestoresNoReset ==
    /\ Take("QueueRestores")
    /\ LET files == Head(backend_queue).files
       IN  /\ jobs_total' = Len(files)
           /\ FlushQueue(files, jobs_remaining, jobs_current, Len(files),
                         IfMany(Len(files), "RestoreProgressAllMax", Len(files)))
    /\ UNCHANGED <<page, running, box, displayVars, jobs_complete,
                   cancel_requested, batch, clicked>>

\* BackupBackend::QueueRestores resets every counter but jobs_remaining_, and
\* leaves cancel_requested_ alone.
QueueRestores ==
    /\ Take("QueueRestores")
    /\ LET files == Head(backend_queue).files
       IN  /\ jobs_total' = Len(files)
           /\ jobs_complete' = 0
           /\ FlushQueue(files, jobs_remaining, 0, Len(files),
                         IfMany(Len(files), "RestoreProgressAllMax", Len(files)))
    /\ UNCHANGED <<page, running, box, displayVars, cancel_requested, batch,
                   clicked>>

\* Mutant of LastJob: the queue is not looked at.
NoJobRuns(remaining) == remaining = 0

\* The batch is over: no job is left, neither running nor queued.
LastJob(remaining) == remaining = 0 /\ queue = <<>>

\* Mutants of CancelAfter: the flag is cleared after every job, or never.
CancelForgotten(last) == FALSE
CancelKept(last) == cancel_requested

\* cancel_requested_ after a job: cleared with the last job of the batch.
CancelAfter(last) == IF last THEN FALSE ELSE cancel_requested

\* BackupBackend::_RestoreFinished, queued behind the job that ended.
HandleRestoreFinished ==
    /\ Take("_RestoreFinished")
    /\ jobs_complete' = jobs_complete + 1
    /\ LET remaining == jobs_remaining - 1
           value == IfMany(jobs_total, "RestoreProgressAllValue",
                           jobs_complete + 1)
       IN  /\ cancel_requested' = CancelAfter(LastJob(remaining))
           /\ \/ /\ LastJob(remaining)
                 /\ in_progress' = FALSE
                 /\ jobs_remaining' = remaining
                 /\ gui_queue' = gui_queue \o value
                                   \o <<[type |-> "RestoreComplete"]>>
                 /\ UNCHANGED <<queue, jobs_current, job>>
              \/ /\ ~LastJob(remaining)
                 /\ FlushQueue(queue, remaining, jobs_current, jobs_total, value)
    /\ UNCHANGED <<page, running, box, displayVars, jobs_total, batch, clicked>>

------------------------------------------------------------------------------
(* The job on the backend's stack *)

\* Mutant of Finished1: the slot is connected a second time.
Finished1Twice == <<[type |-> "_RestoreFinished"], [type |-> "_RestoreFinished"]>>

\* What Finished1 posts: it is connected to _RestoreFinished once, queued.
Finished1 == <<[type |-> "_RestoreFinished"]>>

\* RestoreBackup returns: ~ScopedResult posts Finished1 to the backend's own
\* queue and Finished2, forwarded by RestoreFinished, to the GUI thread.
EndJob(outcome) ==
    /\ job' = Idle
    /\ backend_queue' = backend_queue \o Finished1
    /\ gui_queue' = Append(gui_queue,
                           [type   |-> "RestoreFinished",
                            result |-> [filename |-> job.file,
                                        outcome  |-> outcome]])
    /\ UNCHANGED <<page, running, box, displayVars, in_progress, queue,
                   jobs_total, jobs_complete, jobs_remaining, jobs_current,
                   cancel_requested, batch, clicked>>

\* The first RestoreCheckCancel of RestoreBackup finds no request.
BeginWork ==
    /\ running /\ job.phase = "start" /\ ~cancel_requested
    /\ job' = [job EXCEPT !.phase = "work"]
    /\ UNCHANGED <<page, running, box, displayVars, gui_queue, in_progress,
                   queue, jobs_total, jobs_complete, jobs_remaining,
                   jobs_current, cancel_requested, backend_queue, batch, clicked>>

\* The first or a later RestoreCheckCancel finds a request.
JobCancelled ==
    /\ running /\ job.phase \in {"start", "work"} /\ cancel_requested
    /\ EndJob("cancelled")

\* The work succeeds or fails; a request made after the last check is not seen.
JobEnds ==
    /\ running /\ job.phase = "work"
    /\ \E outcome \in {"success", "failure"} : EndJob(outcome)

BackendStep == \/ QueueRestores \/ HandleRestoreFinished
               \/ BeginWork \/ JobCancelled \/ JobEnds

------------------------------------------------------------------------------
\* After quit() the window and the threads are torn down: nothing happens here.
Stopped == ~running /\ UNCHANGED vars

UserStep == Restore \/ Cancel \/ ExitRefused \/ DismissBox \/ Exit \/ Reset

Next == UserStep \/ GuiDispatch \/ BackendStep \/ Stopped

\* Both event loops keep running and a job returns; the user need do nothing.
Spec == /\ Init /\ [][Next]_vars
        /\ WF_vars(GuiDispatch) /\ WF_vars(BackendStep)

------------------------------------------------------------------------------
(* Properties *)

\* Every variable has its type.
TypeOK ==
    /\ page \in {"select_file", "progress", "summary"}
    /\ running \in BOOLEAN /\ box \in BOOLEAN
    /\ jobs_finished \in Seq(BackupResult) /\ textBrowser \in Seq(BackupResult)
    /\ header_all \in Nat /\ progress_all \in [value : Nat, max : Nat]
    /\ gui_queue \in Seq(GuiEvent) /\ backend_queue \in Seq(BackendEvent)
    /\ in_progress \in BOOLEAN /\ queue \in Seq(Files) /\ job \in Job
    /\ jobs_total \in Nat /\ jobs_complete \in Nat
    /\ jobs_remaining \in Nat /\ jobs_current \in Nat
    /\ cancel_requested \in BOOLEAN
    /\ batch \in Seq(Files) /\ clicked \in BOOLEAN

\* The backend has nothing to do and nothing to say.
Quiet == /\ job = Idle /\ queue = <<>> /\ backend_queue = <<>>
         /\ gui_queue = <<>> /\ jobs_remaining = 0 /\ ~in_progress

\* Off the progress page the backend is quiet.  Restore and Exit look at the
\* page alone (mainwindow.cpp:433, 182); this is why a batch never meets a
\* running one, whose counters QueueRestores would overwrite.
QuietOffProgressPage == page # "progress" => Quiet

\* The program is never left while a job runs or a result is still on its way
\* to the window: "Can't exit while restore is in progress!".
NeverLeftMidBatch == ~running => Quiet /\ jobs_finished = <<>>

\* On the progress page exactly one thing keeps the batch moving: the request,
\* the job, its _RestoreFinished, or the last event RestoreComplete.
NoComplete(q) == \A i \in DOMAIN q : q[i].type # "RestoreComplete"
CompleteIsLast(q) ==
    /\ q # <<>> /\ q[Len(q)].type = "RestoreComplete"
    /\ \A i \in 1..(Len(q) - 1) : q[i].type # "RestoreComplete"

Requested == /\ backend_queue = <<[type |-> "QueueRestores", files |-> batch]>>
             /\ job = Idle /\ queue = <<>> /\ jobs_remaining = 0
             /\ gui_queue = <<>> /\ jobs_finished = <<>>
JobRuns == /\ backend_queue = <<>>
           /\ job # Idle /\ jobs_remaining = 1 /\ NoComplete(gui_queue)
JobEnded == /\ backend_queue = <<[type |-> "_RestoreFinished"]>>
            /\ job = Idle /\ jobs_remaining = 1 /\ NoComplete(gui_queue)
Completed == /\ backend_queue = <<>>
             /\ job = Idle /\ queue = <<>> /\ jobs_remaining = 0
             /\ ~in_progress /\ CompleteIsLast(gui_queue)

OneTokenInFlight ==
    page = "progress" => Requested \/ JobRuns \/ JobEnded \/ Completed

\* With several files the overall bar counts the results the window holds: it
\* is never ahead of them and at most one behind, and the header names the
\* file after the last counted one.
ProgressTracksResults ==
    page = "progress" /\ Len(batch) > 1 =>
      /\ progress_all.value \in {Len(jobs_finished), Len(jobs_finished) - 1}
      /\ header_all \in {progress_all.value, progress_all.value + 1}
      /\ header_all <= Len(batch)

\* A cancel is for the rest of the batch: after a cancelled file no file of
\* the same batch is restored, though the flag is written by another thread at
\* any moment and is cleared by _RestoreFinished.
CancelIsForTheRest ==
    \A results \in {jobs_finished, textBrowser} :
      \A i, j \in DOMAIN results :
        i < j /\ results[i].outcome = "cancelled"
          => results[j].outcome = "cancelled"

\* Between batches a cancel request is pending only if Cancel was clicked in
\* the batch that just ended: a request left over from it is used up by the
\* next batch and never reaches the one after.
LeftoverCancelIsRecent == page # "progress" /\ cancel_requested => clicked

\* A file is reported "Restore cancelled." only if the user clicked Cancel
\* ("Cancelling restore...") during its batch.  The code breaks this.
CancelledOnlyOnRequest ==
    \A results \in {jobs_finished, textBrowser} :
      \A i \in DOMAIN results : results[i].outcome = "cancelled" => clicked

------------------------------------------------------------------------------
(* The inductive invariant: what has to be known of the events under way for *)
(* the properties above to be preserved.                                     *)

IsResult(event) == event.type = "RestoreFinished"
IsCancelled(event) == IsResult(event) /\ event.result.outcome = "cancelled"

\* No result of the batch so far, arrived or posted, is a cancelled one.
NoneCancelled ==
    /\ \A i \in DOMAIN jobs_finished : jobs_finished[i].outcome # "cancelled"
    /\ \A i \in DOMAIN gui_queue : ~IsCancelled(gui_queue[i])

\* The results still posted continue the order of the arrived ones, and the
\* flag stays up while the batch goes on after a cancelled file.
CancelOrder ==
    /\ \A i, j \in DOMAIN gui_queue :
         i < j /\ IsCancelled(gui_queue[i]) /\ IsResult(gui_queue[j])
           => IsCancelled(gui_queue[j])
    /\ \A i \in DOMAIN jobs_finished, j \in DOMAIN gui_queue :
         jobs_finished[i].outcome = "cancelled" /\ IsResult(gui_queue[j])
           => IsCancelled(gui_queue[j])
    /\ job.phase = "work" => NoneCancelled
    /\ jobs_remaining = 1 /\ ~NoneCancelled => cancel_requested

\* The window holds results only where it will show them, and is left only
\* off the progress page.
WindowOK ==
    /\ page # "progress" => jobs_finished = <<>>
    /\ page # "summary" => textBrowser = <<>>
    /\ ~running => page # "progress"

\* A batch on its way to the backend has at least one file: FlushQueue would
\* start nothing for an empty one, and nothing would leave the progress page.
BatchNotEmpty == page = "progress" => batch # <<>>

\* The inductive invariant of the restore queue: together with the properties
\* it implies it says that the events under way are those of one batch.
IInv ==
    /\ TypeOK /\ QuietOffProgressPage /\ OneTokenInFlight /\ WindowOK
    /\ BatchNotEmpty /\ CancelIsForTheRest /\ CancelOrder
    /\ (page # "progress" \/ Completed) /\ cancel_requested => clicked

------------------------------------------------------------------------------
(* Refinement: the window and the backend together are a BatchRestore.  The  *)
(* outcomes of a batch are those the window holds and those still posted.    *)

\* The results r after the event e, and after the first n events posted.
Gathered(r, e) == IF IsResult(e) THEN Append(r, e.result) ELSE r

Received[n \in 0..Len(gui_queue)] ==
    IF n = 0 THEN jobs_finished ELSE Gathered(Received[n - 1], gui_queue[n])

BatchPhase == CASE ~running -> "quit"
                [] running /\ page = "select_file" -> "choosing"
                [] running /\ page = "progress"    -> "restoring"
                [] running /\ page = "summary"     -> "reported"

BatchResults == IF page = "progress" THEN Received[Len(gui_queue)] ELSE textBrowser

Batch == INSTANCE BatchRestore WITH
    phase <- BatchPhase, submitted <- batch, results <- BatchResults

\* Every batch is a BatchRestore: one outcome per file, in order, the summary
\* complete when it is shown, and shown in the end whatever the user does.
ImplementsBatchRestore == Batch!Spec
=============================================================================
