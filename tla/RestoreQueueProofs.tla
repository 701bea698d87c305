------------------------- MODULE RestoreQueueProofs -------------------------
(* Proofs of the safety properties of RestoreQueue, for every set of files   *)
(* and every bound on the selection.                                         *)
EXTENDS RestoreQueue, TLAPS

------------------------------------------------------------------------------
(* Sequences of events *)

\* A selection is a sequence of files, and it is not empty.
LEMMA SelectionIsSeq ==
  ASSUME NEW s \in Selections
  PROVE  s \in Seq(Files) /\ s # <<>> /\ Len(s) \in Nat
<1>1. PICK n \in 1..MaxSelection : s \in [1..n -> Files]
  BY DEF Selections
<1>2. n \in Nat /\ n > 0
  BY MaxSelectionAssumption
<1> QED
  BY <1>1, <1>2

\* The first event of a non-empty queue is an event, and the rest is a queue.
LEMMA HeadTail ==
  ASSUME NEW S, NEW q \in Seq(S), q # <<>>
  PROVE  /\ Head(q) \in S /\ Tail(q) \in Seq(S)
         /\ Head(q) = q[1] /\ Len(q) \in Nat /\ Len(q) > 0
         /\ Len(Tail(q)) = Len(q) - 1
         /\ \A i \in 1..Len(Tail(q)) : Tail(q)[i] = q[i + 1]
  OBVIOUS

\* What IfMany posts is a queue of at most one event of the given type.
LEMMA IfManyType ==
  ASSUME NEW total, NEW value \in Nat,
         NEW type \in {"RestoreProgressAllMax", "RestoreProgressAllValue",
                       "RestoreHeaderAll"}
  PROVE  /\ IfMany(total, type, value) \in Seq(GuiEvent)
         /\ \A i \in DOMAIN IfMany(total, type, value) :
              IfMany(total, type, value)[i].type = type
<1>1. [type |-> type, value |-> value] \in GuiEvent
  BY DEF GuiEvent
<1> QED
  BY <1>1 DEF IfMany

\* A posted sequence without RestoreComplete and without results changes
\* neither what is known of the RestoreComplete nor of the results.
LEMMA Concatenation ==
  ASSUME NEW S, NEW q \in Seq(S), NEW r \in Seq(S)
  PROVE  /\ q \o r \in Seq(S)
         /\ DOMAIN q = 1..Len(q) /\ DOMAIN r = 1..Len(r)
         /\ DOMAIN (q \o r) = 1..(Len(q) + Len(r))
         /\ Len(q) \in Nat /\ Len(r) \in Nat
         /\ \A i \in 1..Len(q) : (q \o r)[i] = q[i]
         /\ \A i \in 1..Len(r) : (q \o r)[Len(q) + i] = r[i]
  OBVIOUS

------------------------------------------------------------------------------
(* Type correctness *)

\* FlushQueue keeps the types of what it assigns.
LEMMA FlushQueueType ==
  ASSUME TypeOK, NEW q \in Seq(Files), NEW remaining \in Nat,
         NEW current \in Nat, NEW total \in Nat, NEW posted \in Seq(GuiEvent),
         FlushQueue(q, remaining, current, total, posted)
  PROVE  /\ queue' \in Seq(Files) /\ job' \in Job /\ in_progress' \in BOOLEAN
         /\ jobs_remaining' \in Nat /\ jobs_current' \in Nat
         /\ gui_queue' \in Seq(GuiEvent)
<1>1. IfMany(total, "RestoreHeaderAll", current + 1) \in Seq(GuiEvent)
  BY IfManyType
<1>2. gui_queue \o posted \in Seq(GuiEvent)
  BY Concatenation DEF TypeOK
<1>3. CASE q # <<>> /\ remaining = 0
  <2>1. Head(q) \in Files /\ Tail(q) \in Seq(Files)
    BY <1>3, HeadTail
  <2>2. /\ queue' = Tail(q)
        /\ job' = [phase |-> "start", file |-> Head(q)]
        /\ in_progress' = TRUE
        /\ jobs_remaining' = remaining + 1
        /\ jobs_current' = current + 1
        /\ gui_queue' = gui_queue \o posted
                          \o IfMany(total, "RestoreHeaderAll", current + 1)
    BY <1>3, Zenon DEF FlushQueue
  <2>3. gui_queue' \in Seq(GuiEvent)
    BY <1>1, <1>2, <2>2, Concatenation
  <2> QED
    BY <2>1, <2>2, <2>3 DEF Job
<1>4. CASE ~(q # <<>> /\ remaining = 0)
  BY <1>2, <1>4 DEF FlushQueue, TypeOK
<1> QED
  BY <1>3, <1>4

\* EndJob keeps the types.
LEMMA EndJobType ==
  ASSUME TypeOK, job # Idle, NEW outcome \in Outcomes, EndJob(outcome)
  PROVE  TypeOK'
<1>1. job.file \in Files
  BY DEF TypeOK, Job
<1>2. [type |-> "RestoreFinished",
       result |-> [filename |-> job.file, outcome |-> outcome]] \in GuiEvent
  BY <1>1 DEF GuiEvent, BackupResult
<1>3. gui_queue' \in Seq(GuiEvent)
  BY <1>2 DEF EndJob, TypeOK
<1>4. Finished1 \in Seq(BackendEvent)
  BY DEF Finished1, BackendEvent
<1>5. backend_queue' \in Seq(BackendEvent)
  BY <1>4, Concatenation DEF EndJob, TypeOK
<1>6. job' \in Job
  BY DEF EndJob, Job
<1> QED
  BY <1>3, <1>5, <1>6 DEF EndJob, TypeOK, displayVars

\* A counter that goes down stays a counter: only a running job is counted
\* when its _RestoreFinished is handled.
LEMMA TypeStep ==
  ASSUME IInv, Next
  PROVE  TypeOK'
<1> USE DEF IInv
<1>1. CASE UserStep
  <2>1. ASSUME Restore PROVE TypeOK'
    <3>1. PICK files \in Selections :
            /\ backend_queue' = Append(backend_queue,
                                 [type |-> "QueueRestores", files |-> files])
            /\ batch' = files
      BY <2>1 DEF Restore
    <3>2. files \in Seq(Files)
      BY SelectionIsSeq
    <3>3. [type |-> "QueueRestores", files |-> files] \in BackendEvent
      BY <3>2 DEF BackendEvent
    <3>4. backend_queue' \in Seq(BackendEvent)
      BY <3>1, <3>3 DEF TypeOK
    <3> QED
      BY <2>1, <3>1, <3>2, <3>4 DEF Restore, TypeOK, backendVars, displayVars
  <2>2. ASSUME Cancel \/ ExitRefused \/ DismissBox \/ Exit PROVE TypeOK'
    BY <2>2 DEF Cancel, ExitRefused, DismissBox, Exit, TypeOK, backendVars,
                displayVars
  <2>3. ASSUME Reset PROVE TypeOK'
    BY <2>3 DEF Reset, TypeOK, backendVars
  <2> QED
    BY <1>1, <2>1, <2>2, <2>3 DEF UserStep
<1>2. CASE GuiDispatch
  <2>1. gui_queue # <<>> /\ gui_queue' = Tail(gui_queue)
    BY <1>2 DEF GuiDispatch, RestoreProgressAllMax, RestoreProgressAllValue,
                RestoreHeaderAll, RestoreFinished, RestoreComplete, Receive
  <2>2. Head(gui_queue) \in GuiEvent /\ gui_queue' \in Seq(GuiEvent)
    BY <2>1, HeadTail DEF TypeOK
  <2>3. ASSUME RestoreProgressAllMax PROVE TypeOK'
    <3>1. Head(gui_queue).value \in Nat
      BY <2>2, <2>3 DEF RestoreProgressAllMax, Receive, GuiEvent
    <3> QED
      BY <2>2, <2>3, <3>1 DEF RestoreProgressAllMax, TypeOK, backendVars
  <2>4. ASSUME RestoreProgressAllValue PROVE TypeOK'
    <3>1. Head(gui_queue).value \in Nat
      BY <2>2, <2>4 DEF RestoreProgressAllValue, Receive, GuiEvent
    <3> QED
      BY <2>2, <2>4, <3>1 DEF RestoreProgressAllValue, TypeOK, backendVars
  <2>5. ASSUME RestoreHeaderAll PROVE TypeOK'
    <3>1. Head(gui_queue).value \in Nat
      BY <2>2, <2>5 DEF RestoreHeaderAll, Receive, GuiEvent
    <3> QED
      BY <2>2, <2>5, <3>1 DEF RestoreHeaderAll, TypeOK, backendVars
  <2>6. ASSUME RestoreFinished PROVE TypeOK'
    <3>1. Head(gui_queue).result \in BackupResult
      BY <2>2, <2>6 DEF RestoreFinished, Receive, GuiEvent
    <3> QED
      BY <2>2, <2>6, <3>1 DEF RestoreFinished, TypeOK, backendVars
  <2>7. ASSUME RestoreComplete PROVE TypeOK'
    BY <2>2, <2>7 DEF RestoreComplete, TypeOK, backendVars
  <2> QED
    BY <1>2, <2>3, <2>4, <2>5, <2>6, <2>7 DEF GuiDispatch
<1>3. CASE BackendStep
  <2>1. ASSUME QueueRestores PROVE TypeOK'
    <3> DEFINE files == Head(backend_queue).files
               max == IfMany(Len(files), "RestoreProgressAllMax", Len(files))
    <3>1. Head(backend_queue) \in BackendEvent
          /\ backend_queue' \in Seq(BackendEvent)
      BY <2>1, HeadTail DEF QueueRestores, Take, TypeOK
    <3>2. files \in Seq(Files)
      BY <2>1, <3>1 DEF QueueRestores, Take, BackendEvent
    <3>3. max \in Seq(GuiEvent)
      BY <3>2, IfManyType
    <3>4. FlushQueue(files, jobs_remaining, 0, Len(files), max)
      BY <2>1 DEF QueueRestores
    <3>5. /\ queue' \in Seq(Files) /\ job' \in Job /\ in_progress' \in BOOLEAN
          /\ jobs_remaining' \in Nat /\ jobs_current' \in Nat
          /\ gui_queue' \in Seq(GuiEvent)
      <4> HIDE DEF files, max
      <4>1. Len(files) \in Nat
        BY <3>2
      <4> QED
        BY <3>2, <3>3, <3>4, <4>1, FlushQueueType DEF TypeOK
    <3>6. Len(files) \in Nat
      BY <3>2
    <3> QED
      BY <2>1, <3>1, <3>5, <3>6 DEF QueueRestores, TypeOK, displayVars
  <2>2. ASSUME HandleRestoreFinished PROVE TypeOK'
    <3> DEFINE remaining == jobs_remaining - 1
               value == IfMany(jobs_total, "RestoreProgressAllValue",
                               jobs_complete + 1)
    <3>1. JobEnded
      BY <2>2 DEF HandleRestoreFinished, Take, OneTokenInFlight,
                  QuietOffProgressPage, Quiet, Requested, JobRuns, Completed
    <3>2. remaining = 0
      BY <3>1 DEF JobEnded
    <3>3. backend_queue' \in Seq(BackendEvent)
      BY <2>2, HeadTail DEF HandleRestoreFinished, Take, TypeOK
    <3>4. value \in Seq(GuiEvent) /\ jobs_complete + 1 \in Nat
      BY IfManyType DEF TypeOK
    <3>5. cancel_requested' \in BOOLEAN
      BY <2>2 DEF HandleRestoreFinished, CancelAfter, TypeOK
    <3>6. /\ queue' \in Seq(Files) /\ job' \in Job /\ in_progress' \in BOOLEAN
          /\ jobs_remaining' \in Nat /\ jobs_current' \in Nat
          /\ gui_queue' \in Seq(GuiEvent)
      <4>1. CASE LastJob(remaining)
        <5>1. <<[type |-> "RestoreComplete"]>> \in Seq(GuiEvent)
          BY DEF GuiEvent
        <5>2. gui_queue \o value \in Seq(GuiEvent)
          BY <3>4, Concatenation DEF TypeOK
        <5>3. /\ in_progress' = FALSE /\ jobs_remaining' = remaining
              /\ UNCHANGED <<queue, jobs_current, job>>
              /\ gui_queue' = (gui_queue \o value)
                                 \o <<[type |-> "RestoreComplete"]>>
          BY <2>2, <4>1, Zenon DEF HandleRestoreFinished
        <5> HIDE DEF value
        <5>4. gui_queue' \in Seq(GuiEvent)
          BY <5>1, <5>2, <5>3, Concatenation
        <5>5. in_progress' \in BOOLEAN
          BY <5>3
        <5>6. jobs_remaining' \in Nat
          BY <3>2, <5>3
        <5> QED
          BY <5>3, <5>4, <5>5, <5>6 DEF TypeOK
      <4>2. CASE ~LastJob(remaining)
        <5>1. FlushQueue(queue, remaining, jobs_current, jobs_total, value)
          BY <2>2, <4>2 DEF HandleRestoreFinished
        <5> HIDE DEF value
        <5> QED
          BY <3>2, <3>4, <5>1, FlushQueueType DEF TypeOK
      <4> QED
        BY <4>1, <4>2
    <3> QED
      BY <2>2, <3>3, <3>4, <3>5, <3>6 DEF HandleRestoreFinished, TypeOK,
         displayVars
  <2>3. ASSUME BeginWork PROVE TypeOK'
    <3>1. job \in [phase : {"start", "work"}, file : Files]
      BY <2>3 DEF BeginWork, Job, Idle, TypeOK
    <3>2. job' \in [phase : {"start", "work"}, file : Files]
      BY <2>3, <3>1 DEF BeginWork
    <3> QED
      BY <2>3, <3>2 DEF BeginWork, TypeOK, Job, displayVars
  <2>4. ASSUME JobCancelled PROVE TypeOK'
    BY <2>4, EndJobType DEF JobCancelled, Outcomes, Idle
  <2>5. ASSUME JobEnds PROVE TypeOK'
    BY <2>5, EndJobType DEF JobEnds, Outcomes, Idle
  <2> QED
    BY <1>3, <2>1, <2>2, <2>3, <2>4, <2>5 DEF BackendStep
<1>4. CASE Stopped
  BY <1>4 DEF Stopped, vars, TypeOK, backendVars, displayVars
<1> QED
  BY <1>1, <1>2, <1>3, <1>4 DEF Next

------------------------------------------------------------------------------
(* The inductive invariant *)

\* Posting events that are not results changes nothing about the results.
LEMMA PostOther ==
  ASSUME NEW q \in Seq(GuiEvent), NEW r \in Seq(GuiEvent),
         \A i \in DOMAIN r : ~IsResult(r[i])
  PROVE  /\ \A k \in DOMAIN q : k \in DOMAIN (q \o r) /\ (q \o r)[k] = q[k]
         /\ \A k \in DOMAIN (q \o r) :
              IsResult((q \o r)[k]) => k \in DOMAIN q /\ (q \o r)[k] = q[k]
<1>1. \A k \in DOMAIN q : k \in DOMAIN (q \o r) /\ (q \o r)[k] = q[k]
  BY Concatenation
<1>2. ASSUME NEW k \in DOMAIN (q \o r), k \notin DOMAIN q
      PROVE  ~IsResult((q \o r)[k])
  <2>1. k - Len(q) \in DOMAIN r /\ (q \o r)[k] = r[k - Len(q)]
    BY <1>2, Concatenation
  <2> QED
    BY <2>1
<1> QED
  BY <1>1, <1>2

\* Posting events other than RestoreComplete keeps a queue without it.
LEMMA PostNoComplete ==
  ASSUME NEW q \in Seq(GuiEvent), NEW r \in Seq(GuiEvent),
         NoComplete(q), NoComplete(r)
  PROVE  NoComplete(q \o r)
<1> SUFFICES ASSUME NEW k \in DOMAIN (q \o r)
             PROVE  (q \o r)[k].type # "RestoreComplete"
  BY DEF NoComplete
<1>1. CASE k \in DOMAIN q
  BY <1>1, Concatenation DEF NoComplete
<1>2. CASE k \notin DOMAIN q
  <2>1. k - Len(q) \in DOMAIN r /\ (q \o r)[k] = r[k - Len(q)]
    BY <1>2, Concatenation
  <2> QED
    BY <2>1 DEF NoComplete
<1> QED
  BY <1>1, <1>2

\* RestoreComplete posted to a queue without one is the last of its events.
LEMMA PostComplete ==
  ASSUME NEW q \in Seq(GuiEvent), NoComplete(q)
  PROVE  CompleteIsLast(q \o <<[type |-> "RestoreComplete"]>>)
<1> DEFINE c == [type |-> "RestoreComplete"]
           p == q \o <<c>>
<1>1. Len(p) = Len(q) + 1 /\ p[Len(q) + 1] = c /\ Len(q) \in Nat
      /\ \A i \in 1..Len(q) : p[i] = q[i]
  OBVIOUS
<1>2. p # <<>>
  BY <1>1
<1>3. p[Len(p)].type = "RestoreComplete"
  BY <1>1
<1> HIDE DEF p
<1>4. \A i \in 1..(Len(p) - 1) : p[i].type # "RestoreComplete"
  BY <1>1 DEF NoComplete
<1> QED
  BY <1>2, <1>3, <1>4 DEF CompleteIsLast, p

\* IfMany posts neither a result nor RestoreComplete.
LEMMA IfManyOther ==
  ASSUME NEW total, NEW value \in Nat,
         NEW type \in {"RestoreProgressAllMax", "RestoreProgressAllValue",
                       "RestoreHeaderAll"}
  PROVE  /\ NoComplete(IfMany(total, type, value))
         /\ \A i \in DOMAIN IfMany(total, type, value) :
              ~IsResult(IfMany(total, type, value)[i])
BY IfManyType DEF NoComplete, IsResult

\* A job on the stack is the token of a batch on the progress page.
LEMMA RunningJob ==
  ASSUME IInv, job # Idle
  PROVE  page = "progress" /\ running /\ JobRuns
<1>1. page = "progress"
  BY DEF IInv, QuietOffProgressPage, Quiet
<1> QED
  BY <1>1 DEF IInv, WindowOK, OneTokenInFlight, Requested, JobEnded, Completed,
              TypeOK

\* A _RestoreFinished in the backend's queue is the token of a batch.
LEMMA EndedJob ==
  ASSUME IInv, backend_queue # <<>>, Head(backend_queue).type = "_RestoreFinished"
  PROVE  page = "progress" /\ JobEnded /\ Tail(backend_queue) = <<>>
<1>1. page = "progress"
  BY DEF IInv, QuietOffProgressPage, Quiet
<1>2. JobEnded
  BY <1>1 DEF IInv, OneTokenInFlight, Requested, JobRuns, Completed
<1> QED
  BY <1>1, <1>2 DEF JobEnded

\* A request in the backend's queue is the token of a batch, and is its batch.
LEMMA RequestedBatch ==
  ASSUME IInv, backend_queue # <<>>, Head(backend_queue).type = "QueueRestores"
  PROVE  /\ page = "progress" /\ Requested /\ Tail(backend_queue) = <<>>
         /\ Head(backend_queue).files = batch
<1>1. page = "progress"
  BY DEF IInv, QuietOffProgressPage, Quiet
<1>2. Requested
  BY <1>1 DEF IInv, OneTokenInFlight, JobEnded, JobRuns, Completed
<1> QED
  BY <1>1, <1>2 DEF Requested

\* A click preserves the invariant: it changes the page, posts the request or
\* raises the flag, and moves no result.
LEMMA UserStepInv ==
  ASSUME IInv, UserStep
  PROVE  IInv'
<1>1. TypeOK'
  BY TypeStep DEF Next
<1>2. ASSUME Restore PROVE IInv'
  <2>1. PICK files \in Selections :
          /\ backend_queue' = Append(backend_queue,
                               [type |-> "QueueRestores", files |-> files])
          /\ batch' = files
    BY <1>2 DEF Restore
  <2>2. Quiet /\ jobs_finished = <<>> /\ textBrowser = <<>>
    BY <1>2 DEF Restore, IInv, QuietOffProgressPage, WindowOK
  <2>3. /\ UNCHANGED <<gui_queue, jobs_finished, textBrowser, running, job, queue,
                       jobs_remaining, cancel_requested, in_progress>>
        /\ page' = "progress" /\ running
    BY <1>2 DEF Restore, CanClick, displayVars, backendVars
  <2>4. Requested'
    BY <2>1, <2>2, <2>3 DEF Requested, Quiet
  <2>5. ~Completed'
    BY <2>4 DEF Requested, Completed
  <2>6. CancelOrder' /\ CancelIsForTheRest'
    BY <2>2, <2>3 DEF Quiet, CancelOrder, CancelIsForTheRest, Idle
  <2>7. WindowOK' /\ QuietOffProgressPage' /\ OneTokenInFlight'
    BY <2>2, <2>3, <2>4 DEF WindowOK, QuietOffProgressPage, OneTokenInFlight
  <2>8. BatchNotEmpty'
    BY <2>1, SelectionIsSeq DEF BatchNotEmpty
  <2> QED
    BY <1>1, <2>3, <2>5, <2>6, <2>7, <2>8 DEF IInv
<1>3. ASSUME Cancel PROVE IInv'
  <2>1. /\ UNCHANGED <<page, running, box, jobs_finished, textBrowser, gui_queue,
                       in_progress, queue, job, jobs_remaining, backend_queue,
                       batch>>
        /\ page = "progress" /\ cancel_requested' = TRUE /\ clicked' = TRUE
    BY <1>3 DEF Cancel, displayVars, backendVars
  <2>2. OneTokenInFlight' /\ QuietOffProgressPage' /\ WindowOK'
    BY <2>1 DEF IInv, OneTokenInFlight, Requested, JobRuns, JobEnded, Completed,
                QuietOffProgressPage, Quiet, WindowOK
  <2>3. CancelIsForTheRest'
    BY <2>1 DEF IInv, CancelIsForTheRest
  <2>4. CancelOrder'
    BY <2>1 DEF IInv, CancelOrder, NoneCancelled
  <2> QED
    BY <1>1, <2>1, <2>2, <2>3, <2>4 DEF IInv, BatchNotEmpty
<1>4. ASSUME ExitRefused \/ DismissBox PROVE IInv'
  <2>1. UNCHANGED <<page, running, jobs_finished, textBrowser, gui_queue,
                    in_progress, queue, job, jobs_remaining, backend_queue,
                    batch, cancel_requested, clicked>>
    BY <1>4 DEF ExitRefused, DismissBox, displayVars, backendVars
  <2> QED
    BY <1>1, <2>1 DEF IInv, OneTokenInFlight, Requested, JobRuns, JobEnded,
       Completed, QuietOffProgressPage, Quiet, WindowOK, CancelIsForTheRest,
       CancelOrder, NoneCancelled, BatchNotEmpty
<1>5. ASSUME Exit PROVE IInv'
  <2>1. /\ UNCHANGED <<page, jobs_finished, textBrowser, gui_queue,
                    in_progress, queue, job, jobs_remaining, backend_queue,
                    batch, cancel_requested, clicked>>
        /\ page # "progress"
    BY <1>5 DEF Exit, displayVars, backendVars
  <2> QED
    BY <1>1, <2>1 DEF IInv, OneTokenInFlight, QuietOffProgressPage, Quiet,
       WindowOK, CancelIsForTheRest, CancelOrder, NoneCancelled, BatchNotEmpty
<1>6. ASSUME Reset PROVE IInv'
  <2>1. /\ UNCHANGED <<running, jobs_finished, gui_queue, in_progress, queue, job,
                       jobs_remaining, backend_queue, cancel_requested, clicked>>
        /\ page = "summary" /\ page' = "select_file" /\ textBrowser' = <<>>
    BY <1>6 DEF Reset, displayVars, backendVars
  <2>2. Quiet /\ jobs_finished = <<>>
    BY <2>1 DEF IInv, QuietOffProgressPage, WindowOK
  <2>3. CancelOrder' /\ CancelIsForTheRest'
    BY <2>1, <2>2 DEF Quiet, CancelOrder, CancelIsForTheRest, Idle
  <2> QED
    BY <1>1, <2>1, <2>2, <2>3 DEF IInv, OneTokenInFlight, QuietOffProgressPage,
       Quiet, WindowOK, BatchNotEmpty
<1> QED
  BY <1>2, <1>3, <1>4, <1>5, <1>6 DEF UserStep

\* An event handled by the window preserves the invariant: the queue loses its
\* head, a result moves from it to the end of jobs_finished, and RestoreComplete,
\* the last event, leaves it empty.
LEMMA GuiDispatchInv ==
  ASSUME IInv, GuiDispatch
  PROVE  IInv'
<1>1. TypeOK'
  BY TypeStep DEF Next
<1>2. /\ gui_queue # <<>> /\ gui_queue' = Tail(gui_queue) /\ running /\ running'
      /\ UNCHANGED <<in_progress, queue, job, jobs_remaining, backend_queue,
                     batch, cancel_requested, clicked>>
  BY DEF GuiDispatch, RestoreProgressAllMax, RestoreProgressAllValue,
         RestoreHeaderAll, RestoreFinished, RestoreComplete, Receive, backendVars
<1>3. /\ gui_queue \in Seq(GuiEvent) /\ Len(gui_queue) \in Nat
      /\ Len(gui_queue) > 0 /\ Head(gui_queue) = gui_queue[1]
      /\ DOMAIN gui_queue = 1..Len(gui_queue)
      /\ DOMAIN gui_queue' = 1..(Len(gui_queue) - 1)
      /\ Len(gui_queue') = Len(gui_queue) - 1
      /\ \A i \in DOMAIN gui_queue' :
           i + 1 \in DOMAIN gui_queue /\ gui_queue'[i] = gui_queue[i + 1]
  BY <1>2 DEF IInv, TypeOK
<1>4. page = "progress"
  BY <1>2 DEF IInv, QuietOffProgressPage, Quiet
<1>5. JobRuns \/ JobEnded \/ Completed
  BY <1>2, <1>4 DEF IInv, OneTokenInFlight, Requested
<1>6. textBrowser = <<>>
  BY <1>4 DEF IInv, WindowOK
<1>7. CASE Head(gui_queue).type # "RestoreComplete"
  <2>1. /\ UNCHANGED <<page, textBrowser>>
        /\ \/ ~IsResult(Head(gui_queue)) /\ UNCHANGED jobs_finished
           \/ /\ IsResult(Head(gui_queue))
              /\ jobs_finished' = Append(jobs_finished, Head(gui_queue).result)
    BY <1>7 DEF GuiDispatch, RestoreProgressAllMax, RestoreProgressAllValue,
         RestoreHeaderAll, RestoreFinished, RestoreComplete, Receive, IsResult
  <2>2. NoComplete(gui_queue) => NoComplete(gui_queue')
    BY <1>3 DEF NoComplete
  <2>3. CompleteIsLast(gui_queue) => CompleteIsLast(gui_queue')
    <3> SUFFICES ASSUME CompleteIsLast(gui_queue) PROVE CompleteIsLast(gui_queue')
      OBVIOUS
    <3>1. Len(gui_queue) # 1
      BY <1>3, <1>7 DEF CompleteIsLast
    <3>2. gui_queue' # <<>>
      BY <1>3, <3>1
    <3>3. gui_queue'[Len(gui_queue')] = gui_queue[Len(gui_queue)]
      BY <1>3, <3>1
    <3>4. \A i \in 1..(Len(gui_queue') - 1) :
            i + 1 \in 1..(Len(gui_queue) - 1) /\ gui_queue'[i] = gui_queue[i + 1]
      BY <1>3
    <3> QED
      BY <3>2, <3>3, <3>4 DEF CompleteIsLast
  <2>4. (JobRuns \/ JobEnded \/ Completed)'
    BY <1>2, <1>5, <2>2, <2>3 DEF JobRuns, JobEnded, Completed
  <2>5. Completed' => Completed
    BY <1>2, <1>5, <2>4 DEF JobRuns, JobEnded, Completed
  <2>6. CancelIsForTheRest' /\ CancelOrder'
    <3>1. CASE ~IsResult(Head(gui_queue)) /\ UNCHANGED jobs_finished
      <4>1. NoneCancelled <=> NoneCancelled'
        <5>1. ASSUME NEW i \in DOMAIN gui_queue, IsCancelled(gui_queue[i])
              PROVE  \E k \in DOMAIN gui_queue' : IsCancelled(gui_queue'[k])
          <6>1. i # 1
            BY <1>3, <3>1, <5>1 DEF IsCancelled
          <6>2. i - 1 \in DOMAIN gui_queue' /\ gui_queue'[i - 1] = gui_queue[i]
            BY <1>3, <6>1
          <6> QED
            BY <5>1, <6>2
        <5> QED
          BY <1>3, <3>1, <5>1 DEF NoneCancelled
      <4>2. CancelIsForTheRest'
        BY <2>1, <3>1 DEF IInv, CancelIsForTheRest
      <4>3. \A i, j \in DOMAIN gui_queue' :
              i < j /\ IsCancelled(gui_queue'[i]) /\ IsResult(gui_queue'[j])
                => IsCancelled(gui_queue'[j])
        BY <1>3 DEF IInv, CancelOrder
      <4>4. \A i \in DOMAIN jobs_finished', j \in DOMAIN gui_queue' :
              jobs_finished'[i].outcome = "cancelled" /\ IsResult(gui_queue'[j])
                => IsCancelled(gui_queue'[j])
        BY <1>3, <3>1 DEF IInv, CancelOrder
      <4>5. /\ (job.phase = "work" => NoneCancelled)'
            /\ (jobs_remaining = 1 /\ ~NoneCancelled => cancel_requested)'
        BY <1>2, <4>1 DEF IInv, CancelOrder
      <4> QED
        BY <4>2, <4>3, <4>4, <4>5 DEF CancelOrder, IsCancelled, IsResult
    <3>2. CASE /\ IsResult(Head(gui_queue))
               /\ jobs_finished' = Append(jobs_finished, Head(gui_queue).result)
      <4> DEFINE n == Len(jobs_finished)
      <4>1. /\ n \in Nat /\ DOMAIN jobs_finished = 1..n
            /\ DOMAIN jobs_finished' = 1..(n + 1)
            /\ jobs_finished'[n + 1] = gui_queue[1].result
            /\ \A i \in 1..n : jobs_finished'[i] = jobs_finished[i]
        BY <1>3, <3>2 DEF IInv, TypeOK
      <4>2. 1 \in DOMAIN gui_queue /\ IsResult(gui_queue[1])
        BY <1>3, <3>2
      <4>3. IsCancelled(gui_queue[1])
              <=> gui_queue[1].result.outcome = "cancelled"
        BY <4>2 DEF IsCancelled
      <4> HIDE DEF n
      <4>4. NoneCancelled <=> NoneCancelled'
        <5>1. ASSUME NoneCancelled PROVE NoneCancelled'
          BY <1>3, <4>1, <4>2, <4>3, <5>1 DEF NoneCancelled
        <5>2. ASSUME NoneCancelled' PROVE NoneCancelled
          <6>1. \A i \in 1..n : jobs_finished[i].outcome # "cancelled"
            BY <4>1, <5>2 DEF NoneCancelled
          <6>2. ~IsCancelled(gui_queue[1])
            BY <4>1, <4>3, <5>2 DEF NoneCancelled
          <6>3. \A i \in DOMAIN gui_queue : i # 1 =>
                  i - 1 \in DOMAIN gui_queue' /\ gui_queue'[i - 1] = gui_queue[i]
            BY <1>3
          <6>4. \A i \in DOMAIN gui_queue : ~IsCancelled(gui_queue[i])
            BY <5>2, <6>2, <6>3 DEF NoneCancelled
          <6> QED
            BY <4>1, <6>1, <6>4 DEF NoneCancelled
        <5> QED
          BY <5>1, <5>2
      <4>5. CancelIsForTheRest'
        <5> SUFFICES ASSUME NEW i \in DOMAIN jobs_finished',
                            NEW j \in DOMAIN jobs_finished',
                            i < j, jobs_finished'[i].outcome = "cancelled"
                     PROVE  jobs_finished'[j].outcome = "cancelled"
          BY <1>6, <2>1 DEF CancelIsForTheRest
        <5>1. i \in DOMAIN jobs_finished /\ jobs_finished[i].outcome = "cancelled"
          BY <4>1
        <5>2. CASE j \in DOMAIN jobs_finished
          BY <4>1, <5>1, <5>2 DEF IInv, CancelIsForTheRest
        <5>3. CASE j = n + 1
          BY <4>1, <4>2, <4>3, <5>1, <5>3 DEF IInv, CancelOrder
        <5> QED
          BY <4>1, <5>2, <5>3
      <4>6. \A i, j \in DOMAIN gui_queue' :
              i < j /\ IsCancelled(gui_queue'[i]) /\ IsResult(gui_queue'[j])
                => IsCancelled(gui_queue'[j])
        BY <1>3 DEF IInv, CancelOrder
      <4>7. ASSUME NEW i \in DOMAIN jobs_finished', NEW j \in DOMAIN gui_queue',
                   jobs_finished'[i].outcome = "cancelled",
                   IsResult(gui_queue'[j])
            PROVE  IsCancelled(gui_queue'[j])
        <5>1. j + 1 \in DOMAIN gui_queue /\ gui_queue'[j] = gui_queue[j + 1]
              /\ 1 < j + 1
          BY <1>3
        <5>2. CASE i \in DOMAIN jobs_finished
          BY <4>1, <4>7, <5>1, <5>2 DEF IInv, CancelOrder
        <5>3. CASE i = n + 1
          BY <4>1, <4>2, <4>3, <4>7, <5>1, <5>3 DEF IInv, CancelOrder
        <5> QED
          BY <4>1, <5>2, <5>3
      <4>8. /\ (job.phase = "work" => NoneCancelled)'
            /\ (jobs_remaining = 1 /\ ~NoneCancelled => cancel_requested)'
        BY <1>2, <4>4 DEF IInv, CancelOrder
      <4> QED
        BY <4>5, <4>6, <4>7, <4>8 DEF CancelOrder, IsCancelled, IsResult
    <3> QED
      BY <2>1, <3>1, <3>2
  <2>7. WindowOK' /\ QuietOffProgressPage' /\ OneTokenInFlight'
    BY <1>2, <1>4, <1>6, <2>1, <2>4 DEF WindowOK, QuietOffProgressPage,
       OneTokenInFlight
  <2> QED
    BY <1>1, <1>2, <1>4, <2>1, <2>5, <2>6, <2>7 DEF IInv, BatchNotEmpty
<1>8. CASE Head(gui_queue).type = "RestoreComplete"
  <2>1. /\ page' = "summary" /\ jobs_finished' = <<>>
        /\ textBrowser' = textBrowser \o jobs_finished
    BY <1>8 DEF GuiDispatch, RestoreProgressAllMax, RestoreProgressAllValue,
         RestoreHeaderAll, RestoreFinished, RestoreComplete, Receive
  <2>2. textBrowser' = jobs_finished
    BY <1>6, <2>1 DEF IInv, TypeOK
  <2>3. Completed /\ Len(gui_queue) = 1
    BY <1>3, <1>5, <1>8 DEF JobRuns, JobEnded, Completed, NoComplete,
       CompleteIsLast
  <2>4. gui_queue' = <<>>
    BY <1>2, <1>3, <2>3
  <2>5. Quiet'
    BY <1>2, <2>3, <2>4 DEF Quiet, Completed
  <2>6. CancelIsForTheRest' /\ CancelOrder'
    BY <2>1, <2>2, <2>5 DEF IInv, CancelIsForTheRest, CancelOrder, Quiet, Idle
  <2>7. cancel_requested' => clicked'
    BY <1>2, <2>3 DEF IInv
  <2> QED
    BY <1>1, <1>2, <2>1, <2>5, <2>6, <2>7 DEF IInv, QuietOffProgressPage,
       OneTokenInFlight, WindowOK, BatchNotEmpty
<1> QED
  BY <1>7, <1>8

\* What a step of the backend that starts no job, ends none and posts only
\* progress has to show.
LEMMA ProgressPosted ==
  ASSUME IInv, TypeOK', NEW r \in Seq(GuiEvent),
         NoComplete(r), \A i \in DOMAIN r : ~IsResult(r[i]),
         page = "progress", NoComplete(gui_queue),
         gui_queue' = gui_queue \o r, job'.phase # "work",
         UNCHANGED <<page, running, jobs_finished, textBrowser, cancel_requested>>,
         ~NoneCancelled => cancel_requested
  PROVE  NoComplete(gui_queue') /\ CancelIsForTheRest' /\ CancelOrder' /\ WindowOK'
<1>1. gui_queue \in Seq(GuiEvent)
  BY DEF IInv, TypeOK
<1>2. NoComplete(gui_queue')
  BY <1>1, PostNoComplete
<1>3. /\ \A k \in DOMAIN gui_queue :
           k \in DOMAIN gui_queue' /\ gui_queue'[k] = gui_queue[k]
      /\ \A k \in DOMAIN gui_queue' :
           IsResult(gui_queue'[k])
             => k \in DOMAIN gui_queue /\ gui_queue'[k] = gui_queue[k]
  BY <1>1, PostOther
<1>4. NoneCancelled <=> NoneCancelled'
  BY <1>3 DEF NoneCancelled, IsCancelled
<1>5. CancelOrder'
  <2>1. \A i, j \in DOMAIN gui_queue' :
          i < j /\ IsCancelled(gui_queue'[i]) /\ IsResult(gui_queue'[j])
            => IsCancelled(gui_queue'[j])
    BY <1>3 DEF IInv, CancelOrder, IsCancelled
  <2>2. \A i \in DOMAIN jobs_finished', j \in DOMAIN gui_queue' :
          jobs_finished'[i].outcome = "cancelled" /\ IsResult(gui_queue'[j])
            => IsCancelled(gui_queue'[j])
    BY <1>3 DEF IInv, CancelOrder
  <2> QED
    BY <1>4, <2>1, <2>2 DEF CancelOrder, IsCancelled, IsResult
<1>6. CancelIsForTheRest'
  BY DEF IInv, CancelIsForTheRest
<1>7. WindowOK'
  BY DEF IInv, WindowOK
<1> QED
  BY <1>2, <1>5, <1>6, <1>7

\* The end of a job preserves the invariant: a result other than "cancelled"
\* is posted only by a job that passed the first check, and at that moment no
\* file of the batch had been cancelled.
LEMMA EndJobInv ==
  ASSUME IInv, TypeOK', job # Idle, NEW outcome \in Outcomes, EndJob(outcome),
         outcome = "cancelled" => cancel_requested,
         outcome # "cancelled" => job.phase = "work"
  PROVE  IInv'
<1> DEFINE event == [type   |-> "RestoreFinished",
                     result |-> [filename |-> job.file, outcome |-> outcome]]
           n == Len(gui_queue)
<1>1. page = "progress" /\ running /\ JobRuns
  BY RunningJob
<1>2. /\ UNCHANGED <<page, running, box, jobs_finished, textBrowser, queue,
                     in_progress, jobs_remaining, cancel_requested, batch, clicked>>
      /\ job' = Idle /\ gui_queue' = Append(gui_queue, event)
      /\ backend_queue' = <<[type |-> "_RestoreFinished"]>>
  BY <1>1 DEF EndJob, displayVars, JobRuns, Finished1
<1>3. /\ n \in Nat /\ DOMAIN gui_queue = 1..n /\ DOMAIN gui_queue' = 1..(n + 1)
      /\ gui_queue'[n + 1] = event
      /\ \A i \in 1..n : gui_queue'[i] = gui_queue[i]
  BY <1>2 DEF IInv, TypeOK
<1>4. IsResult(event) /\ (IsCancelled(event) <=> outcome = "cancelled")
      /\ event.type # "RestoreComplete"
  BY DEF IsResult, IsCancelled
<1> HIDE DEF event, n
<1>5. NoComplete(gui_queue')
  BY <1>1, <1>3, <1>4 DEF JobRuns, NoComplete
<1>6. JobEnded'
  BY <1>1, <1>2, <1>5 DEF JobRuns, JobEnded
<1>7. outcome # "cancelled" => NoneCancelled
  BY DEF IInv, CancelOrder
<1>8. \A i, j \in DOMAIN gui_queue' :
        i < j /\ IsCancelled(gui_queue'[i]) /\ IsResult(gui_queue'[j])
          => IsCancelled(gui_queue'[j])
  <2> SUFFICES ASSUME NEW i \in DOMAIN gui_queue', NEW j \in DOMAIN gui_queue',
                      i < j, IsCancelled(gui_queue'[i]), IsResult(gui_queue'[j])
               PROVE  IsCancelled(gui_queue'[j])
    OBVIOUS
  <2>1. i \in DOMAIN gui_queue /\ IsCancelled(gui_queue[i])
    BY <1>3
  <2>2. CASE j \in DOMAIN gui_queue
    BY <1>3, <2>1, <2>2 DEF IInv, CancelOrder
  <2>3. CASE j = n + 1
    BY <1>3, <1>4, <1>7, <2>1, <2>3 DEF NoneCancelled
  <2> QED
    BY <1>3, <2>2, <2>3
<1>9. \A i \in DOMAIN jobs_finished', j \in DOMAIN gui_queue' :
        jobs_finished'[i].outcome = "cancelled" /\ IsResult(gui_queue'[j])
          => IsCancelled(gui_queue'[j])
  <2> SUFFICES ASSUME NEW i \in DOMAIN jobs_finished, NEW j \in DOMAIN gui_queue',
                      jobs_finished[i].outcome = "cancelled",
                      IsResult(gui_queue'[j])
               PROVE  IsCancelled(gui_queue'[j])
    BY <1>2
  <2>1. CASE j \in DOMAIN gui_queue
    BY <1>3, <2>1 DEF IInv, CancelOrder
  <2>2. CASE j = n + 1
    BY <1>3, <1>4, <1>7, <2>2 DEF NoneCancelled
  <2> QED
    BY <1>3, <2>1, <2>2
<1>10. (jobs_remaining = 1 /\ ~NoneCancelled => cancel_requested)'
  <2>1. CASE outcome = "cancelled"
    BY <1>2, <2>1
  <2>2. CASE outcome # "cancelled"
    <3>1. NoneCancelled'
      BY <1>2, <1>3, <1>4, <1>7, <2>2 DEF NoneCancelled
    <3> QED
      BY <3>1
  <2> QED
    BY <2>1, <2>2
<1>11. CancelOrder'
  <2>1. (job.phase = "work" => NoneCancelled)'
    BY <1>2 DEF Idle
  <2> QED
    BY <1>8, <1>9, <1>10, <2>1 DEF CancelOrder, IsCancelled, IsResult
<1>12. CancelIsForTheRest' /\ WindowOK'
  BY <1>2 DEF IInv, CancelIsForTheRest, WindowOK
<1>13. ~Completed'
  BY <1>6 DEF JobEnded, Completed
<1> QED
  BY <1>1, <1>2, <1>6, <1>11, <1>12, <1>13 DEF IInv, QuietOffProgressPage,
     OneTokenInFlight, BatchNotEmpty

\* A step of the backend preserves the invariant.
LEMMA BackendStepInv ==
  ASSUME IInv, BackendStep
  PROVE  IInv'
<1>1. TypeOK'
  BY TypeStep DEF Next
<1>2. ASSUME QueueRestores PROVE IInv'
  <2> DEFINE max == IfMany(Len(batch), "RestoreProgressAllMax", Len(batch))
             header == IfMany(Len(batch), "RestoreHeaderAll", 0 + 1)
             r == max \o header
  <2>1. /\ page = "progress" /\ Requested /\ Tail(backend_queue) = <<>>
        /\ Head(backend_queue).files = batch
    BY <1>2, RequestedBatch DEF QueueRestores, Take
  <2>2. batch \in Seq(Files) /\ Len(batch) \in Nat
    BY DEF IInv, TypeOK
  <2>3. /\ FlushQueue(batch, jobs_remaining, 0, Len(batch), max)
        /\ backend_queue' = <<>>
        /\ UNCHANGED <<page, running, jobs_finished, textBrowser,
                       cancel_requested, batch, clicked>>
    BY <1>2, <2>1 DEF QueueRestores, Take, displayVars
  <2>4. jobs_remaining = 0 /\ gui_queue = <<>> /\ jobs_finished = <<>>
    BY <2>1 DEF Requested
  <2>5. batch # <<>>
    BY <2>1 DEF IInv, BatchNotEmpty
  <2>6. /\ job' = [phase |-> "start", file |-> Head(batch)]
        /\ jobs_remaining' = 0 + 1
        /\ gui_queue' = gui_queue \o max \o header
    BY <2>3, <2>4, <2>5, Zenon DEF FlushQueue
  <2>7. /\ max \in Seq(GuiEvent) /\ header \in Seq(GuiEvent)
        /\ NoComplete(max) /\ NoComplete(header)
        /\ \A i \in DOMAIN max : ~IsResult(max[i])
        /\ \A i \in DOMAIN header : ~IsResult(header[i])
    BY <2>2, IfManyType, IfManyOther
  <2> HIDE DEF max, header
  <2>8. /\ r \in Seq(GuiEvent) /\ NoComplete(r)
        /\ \A i \in DOMAIN r : ~IsResult(r[i])
    BY <2>7, PostNoComplete, PostOther
  <2>9. gui_queue' = gui_queue \o r
    BY <2>4, <2>6, <2>7
  <2> HIDE DEF r
  <2>10. NoneCancelled /\ NoComplete(gui_queue)
    BY <2>4 DEF NoneCancelled, NoComplete
  <2>11. NoComplete(gui_queue') /\ CancelIsForTheRest' /\ CancelOrder' /\ WindowOK'
    BY <1>1, <2>1, <2>3, <2>6, <2>8, <2>9, <2>10, ProgressPosted
  <2>12. JobRuns'
    BY <2>3, <2>6, <2>11 DEF JobRuns, Idle
  <2>13. ~Completed'
    BY <2>12 DEF JobRuns, Completed
  <2> QED
    BY <1>1, <2>1, <2>3, <2>11, <2>12, <2>13 DEF IInv, QuietOffProgressPage,
       OneTokenInFlight, BatchNotEmpty
<1>3. ASSUME HandleRestoreFinished PROVE IInv'
  <2> DEFINE remaining == jobs_remaining - 1
             value == IfMany(jobs_total, "RestoreProgressAllValue",
                             jobs_complete + 1)
  <2>1. /\ page = "progress" /\ JobEnded /\ backend_queue' = <<>>
        /\ UNCHANGED <<page, running, jobs_finished, textBrowser, batch, clicked>>
    BY <1>3, EndedJob DEF HandleRestoreFinished, Take, displayVars
  <2>2. remaining = 0 /\ job = Idle /\ NoComplete(gui_queue)
    BY <2>1 DEF JobEnded
  <2>3. /\ value \in Seq(GuiEvent) /\ NoComplete(value)
        /\ \A i \in DOMAIN value : ~IsResult(value[i])
    BY IfManyType, IfManyOther DEF IInv, TypeOK
  <2>4. ~NoneCancelled => cancel_requested
    BY <2>1 DEF IInv, CancelOrder, JobEnded
  <2>5. gui_queue \in Seq(GuiEvent)
    BY DEF IInv, TypeOK
  <2>6. CASE LastJob(remaining)
    <3> DEFINE complete == <<[type |-> "RestoreComplete"]>>
    <3>1. /\ in_progress' = FALSE /\ jobs_remaining' = remaining
          /\ UNCHANGED <<queue, jobs_current, job>>
          /\ gui_queue' = (gui_queue \o value) \o complete
          /\ cancel_requested' = CancelAfter(LastJob(remaining))
      BY <1>3, <2>6, Zenon DEF HandleRestoreFinished
    <3>2. cancel_requested' = FALSE /\ queue = <<>>
      BY <2>6, <3>1, Zenon DEF CancelAfter, LastJob
    <3> HIDE DEF value
    <3>3. /\ gui_queue \o value \in Seq(GuiEvent)
          /\ NoComplete(gui_queue \o value)
      BY <2>2, <2>3, <2>5, PostNoComplete, Concatenation
    <3>4. CompleteIsLast(gui_queue')
      BY <3>1, <3>3, PostComplete
    <3>5. Completed'
      BY <2>1, <2>2, <3>1, <3>2, <3>4 DEF Completed, Idle
    <3>6. CancelOrder'
      <4> DEFINE r == value \o complete
      <4>1. complete \in Seq(GuiEvent)
            /\ \A i \in DOMAIN complete : ~IsResult(complete[i])
        BY DEF GuiEvent, IsResult
      <4> HIDE DEF complete
      <4>2. r \in Seq(GuiEvent) /\ \A i \in DOMAIN r : ~IsResult(r[i])
        BY <2>3, <4>1, PostOther, Concatenation
      <4>3. gui_queue' = gui_queue \o r
        BY <2>3, <2>5, <3>1, <4>1
      <4>4. /\ \A k \in DOMAIN gui_queue' :
                 IsResult(gui_queue'[k])
                   => k \in DOMAIN gui_queue /\ gui_queue'[k] = gui_queue[k]
        <5> HIDE DEF r
        <5> QED
          BY <2>5, <4>2, <4>3, PostOther
      <4>5. \A i, j \in DOMAIN gui_queue' :
              i < j /\ IsCancelled(gui_queue'[i]) /\ IsResult(gui_queue'[j])
                => IsCancelled(gui_queue'[j])
        BY <4>4 DEF IInv, CancelOrder, IsCancelled
      <4>6. \A i \in DOMAIN jobs_finished', j \in DOMAIN gui_queue' :
              jobs_finished'[i].outcome = "cancelled" /\ IsResult(gui_queue'[j])
                => IsCancelled(gui_queue'[j])
        BY <2>1, <4>4 DEF IInv, CancelOrder
      <4>7. job'.phase # "work" /\ jobs_remaining' # 1
        BY <2>2, <3>1 DEF Idle
      <4> QED
        BY <4>5, <4>6, <4>7 DEF CancelOrder, IsCancelled, IsResult
    <3>7. CancelIsForTheRest' /\ WindowOK'
      BY <2>1 DEF IInv, CancelIsForTheRest, WindowOK
    <3> QED
      BY <1>1, <2>1, <3>2, <3>5, <3>6, <3>7 DEF IInv, QuietOffProgressPage,
         OneTokenInFlight, BatchNotEmpty
  <2>7. CASE ~LastJob(remaining)
    <3> DEFINE header == IfMany(jobs_total, "RestoreHeaderAll", jobs_current + 1)
               r == value \o header
    <3>1. /\ FlushQueue(queue, remaining, jobs_current, jobs_total, value)
          /\ cancel_requested' = CancelAfter(LastJob(remaining))
      BY <1>3, <2>7, Zenon DEF HandleRestoreFinished
    <3>2. UNCHANGED cancel_requested /\ queue # <<>>
      BY <2>2, <2>7, <3>1, Zenon DEF CancelAfter, LastJob
    <3>3. /\ job' = [phase |-> "start", file |-> Head(queue)]
          /\ jobs_remaining' = remaining + 1
          /\ gui_queue' = gui_queue \o value \o header
      BY <2>2, <3>1, <3>2, Zenon DEF FlushQueue
    <3>4. /\ header \in Seq(GuiEvent) /\ NoComplete(header)
          /\ \A i \in DOMAIN header : ~IsResult(header[i])
      BY IfManyType, IfManyOther DEF IInv, TypeOK
    <3> HIDE DEF value, header
    <3>5. /\ r \in Seq(GuiEvent) /\ NoComplete(r)
          /\ \A i \in DOMAIN r : ~IsResult(r[i])
      BY <2>3, <3>4, PostNoComplete, PostOther
    <3>6. gui_queue' = gui_queue \o r
      BY <2>3, <2>5, <3>3, <3>4
    <3> HIDE DEF r
    <3>7. NoComplete(gui_queue') /\ CancelIsForTheRest' /\ CancelOrder'
          /\ WindowOK'
      BY <1>1, <2>1, <2>2, <2>4, <3>2, <3>3, <3>5, <3>6, ProgressPosted
    <3>8. JobRuns'
      BY <2>1, <2>2, <3>3, <3>7 DEF JobRuns, Idle
    <3>9. ~Completed'
      BY <3>8 DEF JobRuns, Completed
    <3> QED
      BY <1>1, <2>1, <3>7, <3>8, <3>9 DEF IInv, QuietOffProgressPage,
         OneTokenInFlight, BatchNotEmpty
  <2> QED
    BY <2>6, <2>7
<1>4. ASSUME BeginWork PROVE IInv'
  <2>1. job # Idle
    BY <1>4 DEF BeginWork, Idle
  <2>2. page = "progress" /\ JobRuns
    BY <2>1, RunningJob
  <2>3. /\ UNCHANGED <<page, running, jobs_finished, textBrowser, gui_queue,
                       in_progress, queue, jobs_remaining, backend_queue, batch,
                       cancel_requested, clicked>>
        /\ ~cancel_requested
    BY <1>4 DEF BeginWork, displayVars
  <2>4. job \in [phase : {"start", "work"}, file : Files]
    BY <1>4 DEF BeginWork, Job, Idle, IInv, TypeOK
  <2>5. job'.phase = "work"
    BY <1>4, <2>4 DEF BeginWork
  <2>6. NoneCancelled
    BY <2>2, <2>3 DEF IInv, CancelOrder, JobRuns
  <2>7. CancelOrder' /\ CancelIsForTheRest' /\ WindowOK'
    BY <2>3, <2>6 DEF IInv, CancelOrder, CancelIsForTheRest, WindowOK,
       NoneCancelled
  <2>8. JobRuns'
    BY <2>2, <2>3, <2>5 DEF JobRuns, Idle
  <2>9. ~Completed'
    BY <2>8 DEF JobRuns, Completed
  <2> QED
    BY <1>1, <2>2, <2>3, <2>7, <2>8, <2>9 DEF IInv, QuietOffProgressPage,
       OneTokenInFlight, BatchNotEmpty
<1>5. ASSUME JobCancelled PROVE IInv'
  BY <1>1, <1>5, EndJobInv DEF JobCancelled, Outcomes, Idle
<1>6. ASSUME JobEnds PROVE IInv'
  BY <1>1, <1>6, EndJobInv DEF JobEnds, Outcomes, Idle
<1> QED
  BY <1>2, <1>3, <1>4, <1>5, <1>6 DEF BackendStep

------------------------------------------------------------------------------
(* The theorems *)

\* The inductive invariant holds in every state of the restore queue.
THEOREM RestoreQueueInvariant == Spec => []IInv
<1>1. Init => IInv
  <2> SUFFICES ASSUME Init PROVE IInv
    OBVIOUS
  <2>1. TypeOK
    <3>1. /\ running \in BOOLEAN /\ box \in BOOLEAN /\ in_progress \in BOOLEAN
          /\ cancel_requested \in BOOLEAN /\ clicked \in BOOLEAN
      BY DEF Init
    <3>2. /\ jobs_finished \in Seq(BackupResult)
          /\ textBrowser \in Seq(BackupResult)
          /\ gui_queue \in Seq(GuiEvent) /\ backend_queue \in Seq(BackendEvent)
          /\ queue \in Seq(Files) /\ batch \in Seq(Files)
      BY DEF Init
    <3>3. progress_all \in [value : Nat, max : Nat] /\ job \in Job
      BY DEF Init, Job
    <3> QED
      BY <3>1, <3>2, <3>3 DEF Init, TypeOK
  <2>2. CancelOrder /\ CancelIsForTheRest
    BY DEF Init, CancelOrder, CancelIsForTheRest, Idle
  <2> QED
    BY <2>1, <2>2 DEF Init, IInv, QuietOffProgressPage, Quiet,
       OneTokenInFlight, WindowOK, BatchNotEmpty
<1>2. IInv /\ [Next]_vars => IInv'
  <2> SUFFICES ASSUME IInv, [Next]_vars PROVE IInv'
    OBVIOUS
  <2>1. CASE UNCHANGED vars
    BY <2>1 DEF vars, displayVars, backendVars, IInv, TypeOK,
       QuietOffProgressPage, Quiet, OneTokenInFlight, Requested, JobRuns,
       JobEnded, Completed, WindowOK, BatchNotEmpty, CancelIsForTheRest,
       CancelOrder, NoneCancelled
  <2> QED
    BY <2>1, UserStepInv, GuiDispatchInv, BackendStepInv DEF Next, Stopped
<1> QED
  BY <1>1, <1>2, PTL DEF Spec

\* Every variable of the window and of the backend keeps its type; for
\* jobs_remaining_ this takes the whole invariant, for it is decremented.
THEOREM TypeCorrect == Spec => []TypeOK
<1>1. IInv => TypeOK
  BY DEF IInv
<1> QED
  BY <1>1, RestoreQueueInvariant, PTL

\* Off the progress page the backend is quiet, so that a click on Restore never
\* posts a batch to a backend that works on another.
THEOREM BackendQuiet == Spec => []QuietOffProgressPage
<1>1. IInv => QuietOffProgressPage
  BY DEF IInv
<1> QED
  BY <1>1, RestoreQueueInvariant, PTL

\* The program is not left while a restore is in progress.
THEOREM NotLeftMidBatch == Spec => []NeverLeftMidBatch
<1>1. IInv => NeverLeftMidBatch
  BY DEF IInv, WindowOK, QuietOffProgressPage, NeverLeftMidBatch
<1> QED
  BY <1>1, RestoreQueueInvariant, PTL

\* At most one job runs: on the progress page one event or one job is the
\* token that moves the batch.
THEOREM OneToken == Spec => []OneTokenInFlight
<1>1. IInv => OneTokenInFlight
  BY DEF IInv
<1> QED
  BY <1>1, RestoreQueueInvariant, PTL

\* After a cancelled file no later file of the batch is restored.
THEOREM CancelForTheRest == Spec => []CancelIsForTheRest
<1>1. IInv => CancelIsForTheRest
  BY DEF IInv
<1> QED
  BY <1>1, RestoreQueueInvariant, PTL

\* A request left over between batches was made in the batch that just ended.
THEOREM LeftoverCancel == Spec => []LeftoverCancelIsRecent
<1>1. IInv => LeftoverCancelIsRecent
  BY DEF IInv, LeftoverCancelIsRecent
<1> QED
  BY <1>1, RestoreQueueInvariant, PTL

=============================================================================
