------------------------- MODULE BatchRestoreProofs -------------------------
(* Proofs that a batch gets its outcomes one for each file and in order: the   *)
(* safety part of BatchRestore is implemented by RestoreQueue, and the overall *)
(* progress keeps pace with the results, for every set of files and every      *)
(* length of selection.                                                        *)
EXTENDS RestoreQueueProofs, WellFoundedInduction

------------------------------------------------------------------------------
(* What induction on the events under way rests on *)

Lesser == {pair \in Nat \X Nat : pair[1] < pair[2]}

\* Any set of natural numbers that is not empty has a least one.
LEMMA Least ==
  ASSUME NEW S \in SUBSET Nat, S # {}
  PROVE  \E m \in S : \A k \in S : m <= k
<1>1. IsWellFoundedOn(Lesser, Nat)
  <2>1. OpToRel(<, Nat) = Lesser
    BY DEF OpToRel, Lesser
  <2> QED
    BY <2>1, NatLessThanWellFounded, Zenon
<1>2. PICK m \in S : \A k \in S : <<k, m>> \notin Lesser
  BY <1>1, WFMin, Zenon
<1>3. \A k \in S : ~(k < m)
  BY <1>2 DEF Lesser
<1> QED
  BY <1>3

------------------------------------------------------------------------------
(* The inductive invariant, which goes with IInv                             *)

Size == Len(batch)

\* The files from position c + 1 on wait in the queue.
Waiting(c) == /\ Len(queue) = Size - c
              /\ \A i \in 1..Len(queue) : queue[i] = batch[c + i]

AnyCancelled(t) == \E i \in 1..Len(t) : t[i].outcome = "cancelled"

\* The results t are those of the first files of the batch, in order, and from
\* the first cancelled one on all are.
InOrder(t) ==
    /\ Len(t) <= Size
    /\ \A i \in 1..Len(t) : t[i].filename = batch[i]
    /\ \A i, j \in 1..Len(t) :
         i < j /\ t[i].outcome = "cancelled" => t[j].outcome = "cancelled"

\* Where the backend is in the batch when the results t were posted.
Counters == jobs_total = Size /\ jobs_current \in 1..Size /\ jobs_complete = jobs_current - 1

Working(t) == /\ JobRuns /\ Counters /\ Waiting(jobs_current)
              /\ Len(t) = jobs_current - 1 /\ job.file = batch[jobs_current]
              /\ job.phase = "work" => ~AnyCancelled(t)
Returned(t) == /\ JobEnded /\ Counters /\ Waiting(jobs_current)
               /\ Len(t) = jobs_current
OneForEach(t) ==
    /\ InOrder(t)
    /\ \/ Requested /\ t = <<>>
       \/ Working(t) /\ (AnyCancelled(t) => cancel_requested)
       \/ Returned(t) /\ (AnyCancelled(t) => cancel_requested)
       \/ Completed /\ Len(t) = Size

\* Handling the events of q makes the results t of r.
Way(h, r, q, t) ==
    /\ h[0] = r /\ h[Len(q)] = t
    /\ \A k \in 1..Len(q) : h[k] = Gathered(h[k - 1], q[k])

Leads(r, q, t) == \E h \in [0..Len(q) -> Seq(BackupResult)] : Way(h, r, q, t)

\* The results t of the batch: those received and those under way.
Come(t) == Leads(jobs_finished, gui_queue, t) /\ OneForEach(t)

ResultsInv == page = "progress" => \E t \in Seq(BackupResult) : Come(t)

\* The k-th event of a batch of several files: the maximum of the bar, then for
\* each file the header, the result and the value of the bar, then the end.
Scripted(e, k) ==
    \/ k = 1 /\ e.type = "RestoreProgressAllMax" /\ e.value = Size
    \/ \E i \in 1..Size :
         \/ k = 3 * i - 1 /\ e.type = "RestoreHeaderAll" /\ e.value = i
         \/ k = 3 * i     /\ e.type = "RestoreFinished"
         \/ k = 3 * i + 1 /\ e.type = "RestoreProgressAllValue" /\ e.value = i
    \/ k = 3 * Size + 2 /\ e.type = "RestoreComplete"

\* What the window shows after the first k of them.
Displayed(k) ==
    /\ 3 * Len(jobs_finished) <= k /\ k < 3 * Len(jobs_finished) + 3
    /\ 3 * header_all - 1 <= k /\ k < 3 * header_all + 2
    /\ k = 0 => progress_all.value = 0
    /\ k > 0 => /\ 3 * progress_all.value + 1 <= k /\ k < 3 * progress_all.value + 4
                /\ progress_all.max = Size

\* How many of them the backend has posted.
Sent(k) == \/ Requested /\ k = 0
           \/ JobRuns /\ Counters /\ k = 3 * jobs_current - 1
           \/ JobEnded /\ Counters /\ k = 3 * jobs_current
           \/ Completed /\ k = 3 * Size + 2

Script(k) ==
    /\ Displayed(k) /\ Sent(k + Len(gui_queue))
    /\ \A i \in 1..Len(gui_queue) : Scripted(gui_queue[i], k + i)

ProgressInv ==
    /\ page = "progress" /\ Size > 1 => \E k \in Nat : Script(k)
    /\ page # "progress" => header_all = 0 /\ progress_all.value = 0

------------------------------------------------------------------------------
(* Results and events *)

LEMMA GatheredType ==
  ASSUME NEW r \in Seq(BackupResult), NEW e \in GuiEvent
  PROVE  Gathered(r, e) \in Seq(BackupResult)
<1>1. CASE IsResult(e)
  <2>1. e.result \in BackupResult
    BY <1>1 DEF IsResult, GuiEvent
  <2> QED
    BY <1>1, <2>1 DEF Gathered
<1> QED
  BY <1>1 DEF Gathered

\* No events.
LEMMA LeadsNowhere ==
  ASSUME NEW r \in Seq(BackupResult)
  PROVE  Leads(r, <<>>, r)
<1> DEFINE h == [m \in 0..0 |-> r]
<1>1. Len(<<>>) = 0 /\ h \in [0..0 -> Seq(BackupResult)] /\ h[0] = r
  OBVIOUS
<1>2. Way(h, r, <<>>, r)
  BY <1>1 DEF Way
<1> QED
  BY <1>1, <1>2 DEF Leads

LEMMA LeadsEmpty ==
  /\ <<>> \in Seq(BackupResult) /\ <<>> \in Seq(GuiEvent)
  /\ Leads(<<>>, <<>>, <<>>)
<1>1. <<>> \in Seq(BackupResult) /\ <<>> \in Seq(GuiEvent)
  OBVIOUS
<1> QED
  BY <1>1, LeadsNowhere, Zenon

\* Posting an event.
LEMMA LeadsAppend ==
  ASSUME NEW r, NEW q \in Seq(GuiEvent), NEW t, Leads(r, q, t), NEW e \in GuiEvent
  PROVE  Leads(r, Append(q, e), Gathered(t, e))
<1>1. PICK h \in [0..Len(q) -> Seq(BackupResult)] : Way(h, r, q, t)
  BY DEF Leads
<1> DEFINE l == Len(q)
           longer == Append(q, e)
           k == [m \in 0..(l + 1) |-> IF m <= l THEN h[m] ELSE Gathered(t, e)]
<1>2. l \in Nat /\ Len(longer) = l + 1 /\ longer[l + 1] = e
      /\ \A m \in 1..l : longer[m] = q[m]
  OBVIOUS
<1>3. h[l] = t /\ h[0] = r /\ t \in Seq(BackupResult)
      /\ \A m \in 1..l : h[m] = Gathered(h[m - 1], q[m])
  BY <1>1 DEF Way
<1>4. Gathered(t, e) \in Seq(BackupResult)
  BY <1>3, GatheredType
<1> HIDE DEF l, longer
<1>5. k \in [0..(l + 1) -> Seq(BackupResult)] /\ k[0] = r /\ k[l + 1] = Gathered(t, e)
      /\ \A m \in 0..l : k[m] = h[m]
  <2>1. \A m \in 0..l : h[m] \in Seq(BackupResult)
    BY <1>1 DEF l
  <2> QED
    BY <1>2, <1>3, <1>4, <2>1
<1> HIDE DEF k
<1>6. ASSUME NEW m \in 1..(l + 1)
      PROVE  k[m] = Gathered(k[m - 1], longer[m])
  <2>1. CASE m = l + 1
    BY <1>2, <1>3, <1>5, <2>1
  <2>2. CASE m # l + 1
    <3>1. m \in 1..l /\ m - 1 \in 0..l /\ m \in 0..l
      BY <1>2, <2>2
    <3> QED
      BY <1>2, <1>3, <1>5, <3>1
  <2> QED
    BY <2>1, <2>2
<1>7. Way(k, r, longer, Gathered(t, e)) /\ k \in [0..Len(longer) -> Seq(BackupResult)]
  BY <1>2, <1>5, <1>6 DEF Way
<1> QED
  BY <1>7 DEF Leads, longer

\* Posting a signal that is emitted only in batches of several files.
LEMMA LeadsIfMany ==
  ASSUME NEW r, NEW q \in Seq(GuiEvent), NEW t, Leads(r, q, t),
         NEW total, NEW value \in Nat,
         NEW type \in {"RestoreProgressAllMax", "RestoreProgressAllValue",
                       "RestoreHeaderAll"}
  PROVE  /\ q \o IfMany(total, type, value) \in Seq(GuiEvent)
         /\ Leads(r, q \o IfMany(total, type, value), t)
<1> DEFINE e == [type |-> type, value |-> value]
<1>1. e \in GuiEvent /\ Gathered(t, e) = t
  BY DEF GuiEvent, Gathered, IsResult
<1> HIDE DEF e
<1>2. CASE total > 1
  <2>1. q \o IfMany(total, type, value) = Append(q, e)
    BY <1>1, <1>2 DEF IfMany, e
  <2>2. Leads(r, Append(q, e), Gathered(t, e))
    BY <1>1, LeadsAppend
  <2> QED
    BY <1>1, <2>1, <2>2
<1>3. CASE ~(total > 1)
  <2>1. q \o IfMany(total, type, value) = q
    BY <1>3 DEF IfMany
  <2> QED
    BY <2>1
<1> QED
  BY <1>2, <1>3

\* Handling an event.
LEMMA LeadsTail ==
  ASSUME NEW r, NEW q \in Seq(GuiEvent), q # <<>>, NEW t, Leads(r, q, t)
  PROVE  Leads(Gathered(r, Head(q)), Tail(q), t)
<1>1. PICK h \in [0..Len(q) -> Seq(BackupResult)] : Way(h, r, q, t)
  BY DEF Leads
<1> DEFINE l == Len(q)
           rest == Tail(q)
           k == [m \in 0..(l - 1) |-> h[m + 1]]
<1>2. l \in Nat /\ l > 0 /\ Len(rest) = l - 1 /\ Head(q) = q[1]
      /\ \A m \in 1..(l - 1) : rest[m] = q[m + 1]
  OBVIOUS
<1>3. h[l] = t /\ h[0] = r /\ \A m \in 0..l : h[m] \in Seq(BackupResult)
      /\ \A i \in 1..l : h[i] = Gathered(h[i - 1], q[i])
  BY <1>1 DEF Way
<1> HIDE DEF l, rest
<1>4. h[1] = Gathered(r, q[1])
  BY <1>2, <1>3
<1>5. k \in [0..(l - 1) -> Seq(BackupResult)] /\ k[0] = h[1] /\ k[l - 1] = t
      /\ \A m \in 0..(l - 1) : k[m] = h[m + 1]
  BY <1>2, <1>3
<1> HIDE DEF k
<1>6. ASSUME NEW m \in 1..(l - 1)
      PROVE  k[m] = Gathered(k[m - 1], rest[m])
  <2>1. m - 1 \in 0..(l - 1) /\ m \in 0..(l - 1) /\ m + 1 \in 1..l
        /\ (m - 1) + 1 = m /\ (m + 1) - 1 = m
    BY <1>2
  <2>2. k[m - 1] = h[m] /\ k[m] = h[m + 1] /\ rest[m] = q[m + 1]
    BY <1>2, <1>5, <2>1
  <2>3. h[m + 1] = Gathered(h[m], q[m + 1])
    BY <1>3, <2>1
  <2> QED
    BY <2>2, <2>3
<1>7. Way(k, Gathered(r, Head(q)), rest, t) /\ k \in [0..Len(rest) -> Seq(BackupResult)]
  BY <1>2, <1>4, <1>5, <1>6 DEF Way
<1> QED
  BY <1>7 DEF Leads, rest

\* Where the events lead is what will have been received: the way is the only
\* solution of the recursion.
LEMMA LeadsToReceived ==
  ASSUME gui_queue \in Seq(GuiEvent), NEW t, Leads(jobs_finished, gui_queue, t)
  PROVE  Received[Len(gui_queue)] = t
<1>1. PICK h \in [0..Len(gui_queue) -> Seq(BackupResult)] :
        Way(h, jobs_finished, gui_queue, t)
  BY DEF Leads
<1> DEFINE l == Len(gui_queue)
<1>2. l \in Nat /\ h[0] = jobs_finished /\ h[l] = t
      /\ \A m \in 1..l : h[m] = Gathered(h[m - 1], gui_queue[m])
  BY <1>1 DEF Way
<1>3. h = [m \in 0..l |-> IF m = 0 THEN jobs_finished
                          ELSE Gathered(h[m - 1], gui_queue[m])]
  <2>1. \A m \in 0..l : h[m] = IF m = 0 THEN jobs_finished
                               ELSE Gathered(h[m - 1], gui_queue[m])
    BY <1>2
  <2> QED
    BY <2>1
<1>4. Received = [m \in 0..l |-> IF m = 0 THEN jobs_finished
                                 ELSE Gathered(Received[m - 1], gui_queue[m])]
  BY <1>3 DEF Received
<1> HIDE DEF l
<1>5. \A m \in 0..l : Received[m] = h[m]
  <2> DEFINE apart == {m \in 0..l : Received[m] # h[m]}
  <2>1. SUFFICES ASSUME apart # {} PROVE FALSE
    OBVIOUS
  <2>2. PICK m \in apart : \A k \in apart : m <= k
    <3>1. apart \in SUBSET Nat
      BY <1>2
    <3> HIDE DEF apart
    <3> QED
      BY <2>1, <3>1, Least
  <2>3. m \in 0..l /\ Received[m] # h[m]
    BY <2>2
  <2>4. CASE m = 0
    <3>1. Received[0] = jobs_finished
      BY <1>2, <1>4
    <3> QED
      BY <1>2, <2>3, <2>4, <3>1
  <2>5. CASE m # 0
    <3>1. m \in 1..l /\ m - 1 \in 0..l
      BY <1>2, <2>3, <2>5
    <3>2. Received[m - 1] = h[m - 1]
      <4>1. m - 1 \notin apart
        BY <2>2, <2>3, <1>2
      <4> QED
        BY <3>1, <4>1
    <3>3. Received[m] = Gathered(Received[m - 1], gui_queue[m])
      BY <1>4, <2>3, <2>5
    <3> QED
      BY <1>2, <2>3, <3>1, <3>2, <3>3
  <2> QED
    BY <2>4, <2>5
<1> QED
  BY <1>2, <1>5 DEF l

------------------------------------------------------------------------------
(* One outcome for each file, in order *)

\* The user's part: nothing changes, or the flag goes up.
LEMMA ResultsUntouched ==
  ASSUME NEW t, Come(t), cancel_requested => cancel_requested',
         UNCHANGED <<page, jobs_finished, gui_queue, in_progress, queue, jobs_total,
                     jobs_complete, jobs_remaining, jobs_current, job, backend_queue,
                     batch>>
  PROVE  Come(t)'
<1>1. Leads(jobs_finished, gui_queue, t)' /\ OneForEach(t)
  BY DEF Come, Leads, Way
<1>2. Size' = Size
  BY DEF Size
<1>3. /\ Requested => Requested'
      /\ JobRuns => JobRuns'
      /\ JobEnded => JobEnded'
      /\ Completed => Completed'
  BY DEF Requested, JobRuns, JobEnded, Completed, NoComplete, CompleteIsLast
<1>4. Working(t) => Working(t)'
  BY <1>2, <1>3 DEF Working, Counters, Waiting, AnyCancelled
<1>5. Returned(t) => Returned(t)'
  BY <1>2, <1>3 DEF Returned, Counters, Waiting
<1>6. InOrder(t) => InOrder(t)'
  BY <1>2 DEF InOrder
<1>7. OneForEach(t)'
  BY <1>1, <1>2, <1>3, <1>4, <1>5, <1>6 DEF OneForEach, AnyCancelled
<1> QED
  BY <1>1, <1>7 DEF Come

\* A click on Restore begins a batch without results.
LEMMA ResultsRestore ==
  ASSUME IInv, IInv', Restore
  PROVE  <<>> \in Seq(BackupResult) /\ Come(<<>>)'
<1>1. PICK files \in Selections :
        /\ backend_queue' = Append(backend_queue,
                             [type |-> "QueueRestores", files |-> files])
        /\ batch' = files
  BY DEF Restore
<1>2. Quiet /\ jobs_finished = <<>>
  BY DEF Restore, IInv, QuietOffProgressPage, WindowOK
<1>3. /\ UNCHANGED <<gui_queue, jobs_finished, job, queue, jobs_remaining>>
      /\ page' = "progress"
  BY DEF Restore, displayVars, backendVars
<1>4. Requested'
  BY <1>1, <1>2, <1>3 DEF Requested, Quiet
<1>5. Leads(<<>>, <<>>, <<>>) /\ <<>> \in Seq(BackupResult)
  BY LeadsEmpty
<1>6. Leads(jobs_finished, gui_queue, <<>>)'
  BY <1>2, <1>3, <1>5 DEF Quiet, Leads, Way
<1>7. InOrder(<<>>)'
  <2>1. batch' \in Seq(Files)
    BY DEF IInv, TypeOK
  <2> QED
    BY <2>1 DEF InOrder, Size
<1>8. OneForEach(<<>>)'
  BY <1>4, <1>7 DEF OneForEach
<1> QED
  BY <1>5, <1>6, <1>8 DEF Come

\* The window handles an event: what will have been received stays the same.
LEMMA ResultsGuiDispatch ==
  ASSUME IInv, IInv', page' = "progress", GuiDispatch,
         NEW t \in Seq(BackupResult), Come(t)
  PROVE  Come(t)'
<1>1. /\ gui_queue # <<>> /\ gui_queue' = Tail(gui_queue)
      /\ UNCHANGED <<in_progress, queue, job, jobs_total, jobs_complete,
                     jobs_remaining, jobs_current, backend_queue, batch,
                     cancel_requested>>
  BY DEF GuiDispatch, RestoreProgressAllMax, RestoreProgressAllValue,
         RestoreHeaderAll, RestoreFinished, RestoreComplete, Receive, backendVars
<1>3. jobs_finished' = Gathered(jobs_finished, Head(gui_queue))
  BY DEF GuiDispatch, RestoreProgressAllMax, RestoreProgressAllValue,
         RestoreHeaderAll, RestoreFinished, RestoreComplete, Receive, Gathered,
         IsResult
<1>4. Leads(jobs_finished, gui_queue, t) /\ OneForEach(t)
  BY DEF Come
<1>5. Leads(jobs_finished, gui_queue, t)'
  <2>1. gui_queue \in Seq(GuiEvent)
    BY DEF IInv, TypeOK
  <2>2. Leads(Gathered(jobs_finished, Head(gui_queue)), Tail(gui_queue), t)
    BY <1>1, <1>4, <2>1, LeadsTail
  <2> QED
    BY <1>1, <1>3, <2>2 DEF Leads, Way
<1>6. Size' = Size
  BY <1>1 DEF Size
<1>7. ~Requested
  BY <1>1 DEF Requested
<1>8. /\ JobRuns => JobRuns'
      /\ JobEnded => JobEnded'
      /\ Completed => Completed'
  <2>1. (Requested \/ JobRuns \/ JobEnded \/ Completed)'
    BY DEF IInv, OneTokenInFlight
  <2>2. ASSUME JobRuns PROVE JobRuns'
    BY <1>1, <2>1, <2>2 DEF Requested, JobRuns, JobEnded, Completed
  <2>3. ASSUME JobEnded PROVE JobEnded'
    <3>1. backend_queue # <<>> /\ backend_queue[1].type # "QueueRestores"
      BY <2>3 DEF JobEnded
    <3>2. ~Requested' /\ ~JobRuns' /\ ~Completed'
      BY <1>1, <3>1 DEF Requested, JobRuns, Completed
    <3> QED
      BY <2>1, <3>2
  <2>4. ASSUME Completed PROVE Completed'
    <3>1. ~Requested' /\ ~JobRuns' /\ ~JobEnded'
      BY <1>1, <2>4 DEF Completed, Requested, JobRuns, JobEnded
    <3> QED
      BY <2>1, <3>1
  <2> QED
    BY <2>2, <2>3, <2>4
<1>9. InOrder(t)'
  BY <1>1, <1>4, <1>6 DEF OneForEach, InOrder
<1>10. /\ Working(t) => Working(t)'
       /\ Returned(t) => Returned(t)'
  BY <1>1, <1>6, <1>8 DEF Working, Returned, Counters, Waiting, AnyCancelled
<1>11. OneForEach(t)'
  BY <1>1, <1>4, <1>6, <1>7, <1>8, <1>9, <1>10 DEF OneForEach, AnyCancelled
<1> QED
  BY <1>5, <1>11 DEF Come

\* The request starts the job of the first file.
LEMMA ResultsQueueRestores ==
  ASSUME IInv, IInv', NEW t, Come(t), QueueRestores
  PROVE  t = <<>> /\ Come(t)'
<1> DEFINE max == IfMany(Size, "RestoreProgressAllMax", Size)
           header == IfMany(Size, "RestoreHeaderAll", 0 + 1)
<1>1. /\ page = "progress" /\ Requested /\ Head(backend_queue).files = batch
      /\ batch \in Seq(Files) /\ batch # <<>> /\ Size \in Nat
  BY RequestedBatch DEF QueueRestores, Take, IInv, BatchNotEmpty, TypeOK, Size
<1>2. /\ FlushQueue(batch, jobs_remaining, 0, Size, max)
      /\ jobs_total' = Size /\ jobs_complete' = 0
      /\ UNCHANGED <<page, jobs_finished, batch, cancel_requested>>
  BY <1>1 DEF QueueRestores, displayVars, Size
<1>3. /\ jobs_remaining = 0 /\ gui_queue = <<>> /\ jobs_finished = <<>>
  BY <1>1 DEF Requested
<1>4. /\ queue' = Tail(batch)
      /\ job' = [phase |-> "start", file |-> Head(batch)]
      /\ jobs_current' = 0 + 1
      /\ gui_queue' = (gui_queue \o max) \o header
  BY <1>1, <1>2, <1>3, Zenon DEF FlushQueue
<1>5. Leads(jobs_finished, gui_queue, <<>>)'
  <2>1. <<>> \in Seq(GuiEvent) /\ <<>> \in Seq(BackupResult)
        /\ Leads(<<>>, <<>>, <<>>)
    BY LeadsEmpty
  <2>2. /\ gui_queue \o max \in Seq(GuiEvent)
        /\ Leads(<<>>, gui_queue \o max, <<>>)
    <3> HIDE DEF max
    <3> QED
      BY <1>1, <1>3, <2>1, LeadsIfMany DEF max
  <2>3. Leads(<<>>, (gui_queue \o max) \o header, <<>>)
    <3>1. 0 + 1 \in Nat
      OBVIOUS
    <3> HIDE DEF max
    <3> QED
      BY <2>2, <3>1, LeadsIfMany DEF header
  <2> HIDE DEF max, header
  <2> QED
    BY <1>2, <1>3, <1>4, <2>3 DEF Leads, Way
<1>6. JobRuns'
  <2>1. (Requested \/ JobRuns \/ JobEnded \/ Completed)'
    BY <1>1, <1>2 DEF IInv, OneTokenInFlight
  <2> QED
    BY <1>4, <2>1 DEF Requested, JobEnded, Completed, Idle
<1>7. Size' = Size /\ Size > 0
  BY <1>1, <1>2 DEF Size
<1>8. Counters'
  BY <1>1, <1>2, <1>4, <1>7 DEF Counters
<1>9. Waiting(1)'
  BY <1>1, <1>2, <1>4, <1>7 DEF Waiting, Size
<1>10. Working(<<>>)'
  <2>1. jobs_current' = 1
    BY <1>4
  <2>2. job'.file = batch'[1] /\ job'.phase # "work"
    BY <1>1, <1>2, <1>4
  <2>3. (Waiting(jobs_current))'
    BY <1>9, <2>1 DEF Waiting
  <2> QED
    BY <1>6, <1>8, <2>1, <2>2, <2>3 DEF Working
<1>11. InOrder(<<>>)'
  BY <1>1, <1>7 DEF InOrder
<1>12. ~AnyCancelled(<<>>)
  BY DEF AnyCancelled
<1>13. OneForEach(<<>>)' /\ <<>> \in Seq(BackupResult)
  BY <1>10, <1>11, <1>12, LeadsEmpty DEF OneForEach, AnyCancelled
<1>14. t = <<>>
  BY <1>1 DEF Come, OneForEach, Working, Returned, Requested, JobRuns, JobEnded,
     Completed
<1> QED
  BY <1>5, <1>13, <1>14 DEF Come

\* The end of a job is counted: the next file follows, or the batch is over.
LEMMA ResultsHandleFinished ==
  ASSUME IInv, IInv', HandleRestoreFinished,
         NEW t \in Seq(BackupResult), Come(t)
  PROVE  Come(t)'
<1> DEFINE remaining == jobs_remaining - 1
           value == IfMany(jobs_total, "RestoreProgressAllValue", jobs_complete + 1)
<1>1. /\ page = "progress" /\ JobEnded /\ backend_queue' = <<>>
      /\ jobs_complete' = jobs_complete + 1
      /\ UNCHANGED <<page, jobs_finished, batch, jobs_total>>
  BY EndedJob DEF HandleRestoreFinished, Take, displayVars
<1>2. remaining = 0 /\ job = Idle
  BY <1>1 DEF JobEnded
<1>3. Leads(jobs_finished, gui_queue, t) /\ OneForEach(t)
  BY DEF Come
<1>4. Returned(t) /\ InOrder(t) /\ (AnyCancelled(t) => cancel_requested)
  <2>1. backend_queue # <<>> /\ backend_queue[1].type # "QueueRestores"
    BY <1>1 DEF JobEnded
  <2>2. ~Requested /\ ~JobRuns /\ ~Completed
    BY <2>1 DEF Requested, JobRuns, Completed
  <2> QED
    BY <1>3, <2>2 DEF OneForEach, Working
<1>5. /\ jobs_total = Size /\ jobs_current \in 1..Size
      /\ jobs_complete = jobs_current - 1 /\ Waiting(jobs_current)
      /\ Len(t) = jobs_current
  BY <1>4 DEF Returned, Counters
<1>6. Size' = Size /\ Size \in Nat /\ queue \in Seq(Files) /\ gui_queue \in Seq(GuiEvent)
  BY <1>1 DEF Size, IInv, TypeOK
<1>7. InOrder(t)'
  BY <1>1, <1>4, <1>6 DEF InOrder
<1>8. /\ gui_queue \o value \in Seq(GuiEvent)
      /\ Leads(jobs_finished, gui_queue \o value, t)
  <2>1. jobs_complete + 1 \in Nat
    BY DEF IInv, TypeOK
  <2> QED
    BY <1>3, <1>6, <2>1, LeadsIfMany
<1>9. (Requested \/ JobRuns \/ JobEnded \/ Completed)'
  BY <1>1 DEF IInv, OneTokenInFlight
<1>10. CASE LastJob(remaining)
  <2> DEFINE complete == [type |-> "RestoreComplete"]
  <2>1. /\ UNCHANGED <<queue, jobs_current, job>>
        /\ gui_queue' = (gui_queue \o value) \o <<complete>>
    BY <1>10, Zenon DEF HandleRestoreFinished
  <2>2. Completed'
    BY <1>1, <1>2, <1>9, <2>1 DEF Requested, JobRuns, JobEnded
  <2>3. Len(t) = Size
    BY <1>5, <1>6, <1>10 DEF LastJob, Waiting
  <2>4. complete \in GuiEvent /\ Gathered(t, complete) = t
    BY DEF GuiEvent, Gathered, IsResult
  <2> HIDE DEF complete, value
  <2>5. gui_queue' = Append(gui_queue \o value, complete)
    BY <1>8, <2>1
  <2>6. Leads(jobs_finished, Append(gui_queue \o value, complete), Gathered(t, complete))
    BY <1>8, <2>4, LeadsAppend
  <2>7. Leads(jobs_finished, gui_queue, t)'
    BY <1>1, <2>4, <2>5, <2>6 DEF Leads, Way
  <2>8. OneForEach(t)'
    BY <1>6, <1>7, <2>2, <2>3 DEF OneForEach
  <2> QED
    BY <2>7, <2>8 DEF Come
<1>11. CASE ~LastJob(remaining)
  <2> DEFINE header == IfMany(jobs_total, "RestoreHeaderAll", jobs_current + 1)
  <2>1. /\ FlushQueue(queue, remaining, jobs_current, jobs_total, value)
        /\ cancel_requested' = CancelAfter(LastJob(remaining))
    BY <1>11, Zenon DEF HandleRestoreFinished
  <2>2. cancel_requested' = cancel_requested /\ queue # <<>>
    BY <1>2, <1>11, <2>1, Zenon DEF CancelAfter, LastJob
  <2>3. /\ queue' = Tail(queue)
        /\ job' = [phase |-> "start", file |-> Head(queue)]
        /\ jobs_current' = jobs_current + 1
        /\ gui_queue' = (gui_queue \o value) \o header
    BY <1>2, <2>1, <2>2, Zenon DEF FlushQueue
  <2>4. Leads(jobs_finished, (gui_queue \o value) \o header, t)
    <3>1. jobs_current + 1 \in Nat
      BY DEF IInv, TypeOK
    <3> HIDE DEF value
    <3> QED
      BY <1>8, <3>1, LeadsIfMany
  <2> HIDE DEF value, header
  <2>5. Leads(jobs_finished, gui_queue, t)'
    BY <1>1, <2>3, <2>4 DEF Leads, Way
  <2>6. JobRuns'
    BY <1>9, <2>3 DEF Requested, JobEnded, Completed, Idle
  <2>7. /\ Len(queue) \in Nat /\ Len(queue) > 0 /\ Head(queue) = queue[1]
        /\ Len(queue') = Len(queue) - 1
        /\ \A i \in 1..Len(queue') : queue'[i] = queue[i + 1]
    BY <1>6, <2>2, <2>3
  <2>8. /\ Len(queue) = Size - jobs_current
        /\ \A i \in 1..Len(queue) : queue[i] = batch[jobs_current + i]
    BY <1>5 DEF Waiting
  <2>9. Counters'
    <3>1. jobs_current' \in 1..Size
      BY <1>5, <1>6, <2>3, <2>7, <2>8
    <3>2. jobs_complete' = jobs_current' - 1 /\ jobs_total' = Size
      BY <1>1, <1>5, <1>6, <2>3
    <3> QED
      BY <1>6, <3>1, <3>2 DEF Counters
  <2>10. (Waiting(jobs_current))'
    <3>1. Len(queue') = Size' - jobs_current'
      BY <1>5, <1>6, <2>3, <2>7, <2>8
    <3>2. ASSUME NEW i \in 1..Len(queue')
          PROVE  queue'[i] = batch'[jobs_current' + i]
      <4>1. i + 1 \in 1..Len(queue) /\ jobs_current + (i + 1) = jobs_current' + i
        BY <1>5, <2>3, <2>7
      <4> QED
        BY <1>1, <2>7, <2>8, <4>1
    <3> QED
      BY <3>1, <3>2 DEF Waiting
  <2>11. job'.file = batch'[jobs_current'] /\ job'.phase # "work"
    <3>1. 1 \in 1..Len(queue)
      BY <2>7
    <3>2. Head(queue) = batch[jobs_current + 1]
      BY <2>7, <2>8, <3>1
    <3> QED
      BY <1>1, <2>3, <3>2
  <2>12. Len(t) = jobs_current' - 1
    BY <1>5, <2>3
  <2>13. Working(t)'
    BY <2>6, <2>9, <2>10, <2>11, <2>12 DEF Working
  <2>14. OneForEach(t)'
    BY <1>4, <1>7, <2>2, <2>13 DEF OneForEach, AnyCancelled
  <2> QED
    BY <2>5, <2>14 DEF Come
<1> QED
  BY <1>10, <1>11

\* A job that passes its first check finds no file of the batch cancelled.
LEMMA ResultsBeginWork ==
  ASSUME IInv, IInv', BeginWork, NEW t \in Seq(BackupResult), Come(t)
  PROVE  Come(t)'
<1>1. /\ job # Idle /\ ~cancel_requested
      /\ job \in [phase : {"start", "work"}, file : Files]
      /\ job' = [job EXCEPT !.phase = "work"]
      /\ UNCHANGED <<page, jobs_finished, gui_queue, queue, jobs_total, jobs_complete,
                     jobs_current, cancel_requested, batch>>
  BY DEF BeginWork, Idle, Job, IInv, TypeOK, displayVars
<1>2. page = "progress" /\ JobRuns
  BY <1>1, RunningJob
<1>3. Leads(jobs_finished, gui_queue, t) /\ OneForEach(t)
  BY DEF Come
<1>4. Working(t) /\ InOrder(t) /\ ~AnyCancelled(t)
  BY <1>1, <1>3 DEF OneForEach, Requested, Returned, JobEnded, Completed
<1>5. job' # Idle /\ job'.file = job.file
  BY <1>1 DEF Idle
<1>6. JobRuns'
  <2>1. (Requested \/ JobRuns \/ JobEnded \/ Completed)'
    BY <1>1, <1>2 DEF IInv, OneTokenInFlight
  <2> QED
    BY <1>5, <2>1 DEF Requested, JobEnded, Completed
<1>7. Size' = Size
  BY <1>1 DEF Size
<1>8. InOrder(t)'
  BY <1>1, <1>4, <1>7 DEF InOrder
<1>9. Working(t)'
  BY <1>1, <1>4, <1>5, <1>6, <1>7 DEF Working, Counters, Waiting, AnyCancelled
<1>10. OneForEach(t)'
  BY <1>4, <1>8, <1>9 DEF OneForEach, AnyCancelled
<1>11. Leads(jobs_finished, gui_queue, t)'
  BY <1>1, <1>3 DEF Leads, Way
<1> QED
  BY <1>10, <1>11 DEF Come

\* One more outcome, for the file that follows those of t: what the job that
\* ends adds to the results.
LEMMA EndJobAdds ==
  ASSUME IInv, NEW t \in Seq(BackupResult), Come(t),
         job # Idle, NEW outcome \in Outcomes, EndJob(outcome),
         outcome = "cancelled" => cancel_requested,
         outcome # "cancelled" => job.phase = "work",
         NEW u, u = Append(t, [filename |-> batch[Len(t) + 1], outcome |-> outcome])
  PROVE  /\ u \in Seq(BackupResult) /\ Leads(jobs_finished, gui_queue, u)'
         /\ Working(t) /\ (AnyCancelled(t) => outcome = "cancelled")
<1> DEFINE event == [type   |-> "RestoreFinished",
                     result |-> [filename |-> job.file, outcome |-> outcome]]
<1>1. JobRuns /\ job.file \in Files
  BY RunningJob DEF IInv, TypeOK, Job
<1>2. Working(t)
  BY <1>1 DEF Come, OneForEach, Requested, Returned, JobEnded, Completed
<1>3. jobs_current \in Nat /\ Len(t) + 1 = jobs_current /\ job.file = batch[Len(t) + 1]
  BY <1>2 DEF Working, IInv, TypeOK
<1>4. event \in GuiEvent /\ Gathered(t, event) = u
  BY <1>1, <1>3 DEF GuiEvent, BackupResult, Gathered, IsResult
<1>5. gui_queue' = Append(gui_queue, event) /\ jobs_finished' = jobs_finished
  BY DEF EndJob, displayVars
<1> HIDE DEF event
<1>6. gui_queue \in Seq(GuiEvent)
  BY DEF IInv, TypeOK
<1>7. Leads(jobs_finished, gui_queue, u)'
  <2>1. Leads(jobs_finished, Append(gui_queue, event), u)
    BY <1>4, <1>6, LeadsAppend DEF Come
  <2> QED
    BY <1>5, <2>1 DEF Leads, Way
<1>8. u \in Seq(BackupResult)
  BY <1>4, GatheredType
<1>9. AnyCancelled(t) => outcome = "cancelled"
  BY <1>2 DEF Working
<1> QED
  BY <1>2, <1>7, <1>8, <1>9

LEMMA ResultsEndJob ==
  ASSUME IInv, IInv', NEW t \in Seq(BackupResult), Come(t),
         job # Idle, NEW outcome \in Outcomes,
         EndJob(outcome), outcome = "cancelled" => cancel_requested,
         outcome # "cancelled" => job.phase = "work",
         NEW u, u = Append(t, [filename |-> batch[Len(t) + 1], outcome |-> outcome])
  PROVE  /\ u \in Seq(BackupResult) /\ Come(u)' /\ Len(t) < Size
         /\ AnyCancelled(t) => outcome = "cancelled"
<1>1. page = "progress" /\ JobRuns
  BY RunningJob
<1>2. PICK result : result = [filename |-> batch[Len(t) + 1], outcome |-> outcome]
  OBVIOUS
<1>3. /\ u \in Seq(BackupResult) /\ Leads(jobs_finished, gui_queue, u)'
      /\ Working(t) /\ (AnyCancelled(t) => outcome = "cancelled")
  BY EndJobAdds
<1>4. /\ job' = Idle /\ backend_queue' = <<[type |-> "_RestoreFinished"]>>
      /\ UNCHANGED <<page, queue, jobs_total, jobs_complete, jobs_current,
                     cancel_requested, batch>>
  BY <1>1 DEF EndJob, Finished1, JobRuns, displayVars
<1>5. JobEnded'
  <2>1. (Requested \/ JobRuns \/ JobEnded \/ Completed)'
    BY <1>1, <1>4 DEF IInv, OneTokenInFlight
  <2>2. backend_queue' # <<>> /\ backend_queue'[1].type # "QueueRestores"
    BY <1>4
  <2> QED
    BY <1>4, <2>1, <2>2 DEF Requested, JobRuns, Completed
<1>6. /\ Len(t) \in Nat /\ Len(u) = Len(t) + 1 /\ u[Len(t) + 1] = result
      /\ \A i \in 1..Len(t) : u[i] = t[i]
  BY <1>2
<1>7. result.filename = batch[Len(t) + 1] /\ result.outcome = outcome
  BY <1>2
<1>8. /\ Counters /\ Len(t) = jobs_current - 1 /\ Waiting(jobs_current)
      /\ jobs_current \in 1..Size /\ Size \in Nat /\ Size' = Size
  BY <1>3, <1>4 DEF Working, Counters, Size, IInv, TypeOK
<1>9. InOrder(t)
  BY DEF Come, OneForEach
<1>10. InOrder(u)'
  <2>1. Len(u) <= Size'
    BY <1>6, <1>8
  <2>2. \A i \in 1..Len(u) : u[i].filename = batch'[i]
    BY <1>4, <1>6, <1>7, <1>9 DEF InOrder
  <2>3. ASSUME NEW i \in 1..Len(u), NEW j \in 1..Len(u), i < j,
               u[i].outcome = "cancelled"
        PROVE  u[j].outcome = "cancelled"
    <3>1. i \in 1..Len(t) /\ t[i].outcome = "cancelled"
      BY <1>6, <2>3
    <3>2. CASE j \in 1..Len(t)
      BY <1>6, <1>9, <3>1, <3>2, <2>3 DEF InOrder
    <3>3. CASE j = Len(t) + 1
      BY <1>3, <1>6, <1>7, <3>1, <3>3 DEF AnyCancelled
    <3> QED
      BY <1>6, <3>2, <3>3
  <2> QED
    BY <2>1, <2>2, <2>3 DEF InOrder
<1>11. Returned(u)'
  BY <1>4, <1>5, <1>6, <1>8 DEF Returned, Counters, Waiting
<1>12. AnyCancelled(u) => cancel_requested
  <2> SUFFICES ASSUME NEW i \in 1..Len(u), u[i].outcome = "cancelled"
               PROVE  cancel_requested
    BY DEF AnyCancelled
  <2>1. CASE i = Len(t) + 1
    BY <1>6, <1>7, <2>1
  <2>2. CASE i \in 1..Len(t)
    BY <1>3, <1>6, <2>2 DEF AnyCancelled
  <2> QED
    BY <1>6, <2>1, <2>2
<1>13. OneForEach(u)'
  BY <1>4, <1>10, <1>11, <1>12 DEF OneForEach, AnyCancelled
<1> QED
  BY <1>3, <1>8, <1>13 DEF Come

------------------------------------------------------------------------------
(* Every step is one of BatchRestore, or none of its business *)

\* What the invariant says of the results as BatchRestore sees them.
Seen == page = "progress" =>
          \A t \in Seq(BackupResult) : Come(t) => BatchResults = t

LEMMA SeenAlways ==
  ASSUME IInv
  PROVE  Seen
<1>1. gui_queue \in Seq(GuiEvent)
  BY DEF IInv, TypeOK
<1> QED
  BY <1>1, LeadsToReceived DEF Seen, Come, BatchResults

\* A step within a batch that posts no result.
Within == \/ Cancel \/ ExitRefused \/ DismissBox \/ GuiDispatch
          \/ QueueRestores \/ HandleRestoreFinished \/ BeginWork \/ Stopped

LEMMA ResultsWithin ==
  ASSUME IInv, IInv', NEW t \in Seq(BackupResult), Come(t), page = "progress",
         page' = "progress", Within
  PROVE  Come(t)'
<1>1. CASE Cancel \/ ExitRefused \/ DismissBox \/ Stopped
  <2>1. /\ cancel_requested => cancel_requested'
        /\ UNCHANGED <<page, jobs_finished, gui_queue, in_progress, queue, jobs_total,
                     jobs_complete, jobs_remaining, jobs_current, job, backend_queue,
                     batch>>
    BY <1>1 DEF Cancel, ExitRefused, DismissBox, Stopped, vars, displayVars, backendVars
  <2> QED
    BY <2>1, ResultsUntouched
<1> QED
  BY <1>1, ResultsGuiDispatch, ResultsQueueRestores, ResultsHandleFinished,
     ResultsBeginWork, Zenon DEF Within

\* The end of a job, whatever its outcome.
LEMMA JobEndsSome ==
  ASSUME JobCancelled \/ JobEnds
  PROVE  \E outcome \in Outcomes :
           /\ job # Idle /\ running /\ EndJob(outcome)
           /\ outcome = "cancelled" => cancel_requested
           /\ outcome # "cancelled" => job.phase = "work"
<1>1. ASSUME JobCancelled
      PROVE  job # Idle /\ running /\ EndJob("cancelled") /\ cancel_requested
  BY <1>1 DEF JobCancelled, Idle
<1>2. ASSUME JobEnds
      PROVE  \E outcome \in {"success", "failure"} :
               job # Idle /\ running /\ EndJob(outcome) /\ job.phase = "work"
  BY <1>2 DEF JobEnds, Idle
<1> QED
  BY <1>1, <1>2 DEF Outcomes

LEMMA ResultsStep ==
  ASSUME IInv, IInv', ResultsInv, Next
  PROVE  ResultsInv'
<1> SUFFICES ASSUME page' = "progress"
             PROVE  \E t \in Seq(BackupResult) : Come(t)'
  BY DEF ResultsInv
<1>1. CASE Restore
  BY <1>1, ResultsRestore
<1>2. ~Exit /\ ~Reset
  BY DEF Exit, Reset
<1>3. CASE Within
  <2>1. page = "progress"
    BY <1>3 DEF Within, Cancel, ExitRefused, DismissBox, GuiDispatch,
       RestoreProgressAllMax, RestoreProgressAllValue, RestoreHeaderAll,
       RestoreFinished, RestoreComplete, QueueRestores, HandleRestoreFinished,
       BeginWork, Stopped, vars
  <2> QED
    BY <1>3, <2>1, ResultsWithin DEF ResultsInv
<1>4. CASE JobCancelled \/ JobEnds
  <2>1. PICK outcome \in Outcomes :
          /\ job # Idle /\ running /\ EndJob(outcome)
          /\ outcome = "cancelled" => cancel_requested
          /\ outcome # "cancelled" => job.phase = "work"
    BY <1>4, JobEndsSome
  <2>2. page = "progress"
    BY <2>1, RunningJob
  <2>3. PICK t \in Seq(BackupResult) : Come(t)
    BY <2>2 DEF ResultsInv
  <2>4. PICK u : u = Append(t, [filename |-> batch[Len(t) + 1], outcome |-> outcome])
    OBVIOUS
  <2> QED
    BY <2>1, <2>3, <2>4, ResultsEndJob
<1> QED
  BY <1>1, <1>2, <1>3, <1>4, Zenon DEF Next, UserStep, BackendStep, Within

\* Restore is Submit, Exit is Quit, and Reset is Dismiss.
LEMMA RestoreSubmits ==
  ASSUME IInv, IInv', Seen', Restore
  PROVE  Batch!Submit
<1>1. page = "select_file" /\ page' = "progress" /\ running /\ running'
      /\ batch' \in Selections
  BY DEF Restore, CanClick
<1>2. BatchPhase = "choosing" /\ BatchPhase' = "restoring"
  BY <1>1 DEF BatchPhase
<1>3. BatchResults = <<>>
  BY <1>1 DEF BatchResults, IInv, WindowOK
<1>4. BatchResults' = <<>>
  BY <1>1, ResultsRestore DEF Seen
<1>5. batch' \in Batch!Selections
  BY <1>1 DEF Selections, Batch!Selections
<1> QED
  BY <1>2, <1>3, <1>4, <1>5 DEF Batch!Submit

LEMMA ExitQuits ==
  ASSUME IInv, Exit
  PROVE  Batch!Quit
<1>1. page # "progress" /\ UNCHANGED <<page, textBrowser, batch>> /\ running /\ ~running'
      /\ page \in {"select_file", "progress", "summary"}
  BY DEF Exit, CanClick, displayVars, IInv, TypeOK
<1>2. BatchPhase \in {"choosing", "reported"} /\ BatchPhase' = "quit"
  BY <1>1 DEF BatchPhase
<1>3. BatchResults' = BatchResults
  BY <1>1 DEF BatchResults
<1> QED
  BY <1>1, <1>2, <1>3 DEF Batch!Quit

LEMMA ResetDismisses ==
  ASSUME Reset
  PROVE  Batch!Dismiss
<1>1. page = "summary" /\ page' = "select_file" /\ running /\ running'
      /\ textBrowser' = <<>> /\ batch' = <<>>
  BY DEF Reset, CanClick
<1>2. BatchPhase = "reported" /\ BatchPhase' = "choosing" /\ BatchResults' = <<>>
  BY <1>1 DEF BatchPhase, BatchResults
<1> QED
  BY <1>1, <1>2 DEF Batch!Dismiss

\* A job that ends is Resolve: its outcome is that of the next file, and a file
\* after a cancelled one is cancelled too.
LEMMA JobEndResolves ==
  ASSUME IInv, IInv', ResultsInv, Seen, Seen', JobCancelled \/ JobEnds
  PROVE  Batch!Resolve
<1>1. PICK outcome \in Outcomes :
        /\ job # Idle /\ running /\ EndJob(outcome)
        /\ outcome = "cancelled" => cancel_requested
        /\ outcome # "cancelled" => job.phase = "work"
  BY JobEndsSome
<1>2. page = "progress" /\ UNCHANGED <<page, running, batch>>
  BY <1>1, RunningJob DEF EndJob
<1>3. PICK t \in Seq(BackupResult) : Come(t)
  BY <1>2 DEF ResultsInv
<1>4. PICK u : u = Append(t, [filename |-> batch[Len(t) + 1], outcome |-> outcome])
  OBVIOUS
<1>5. /\ u \in Seq(BackupResult) /\ Come(u)' /\ Len(t) < Size
      /\ AnyCancelled(t) => outcome = "cancelled"
  BY <1>1, <1>3, <1>4, ResultsEndJob
<1>6. BatchResults = t /\ BatchResults' = u
  BY <1>2, <1>3, <1>5 DEF Seen
<1>7. BatchPhase = "restoring" /\ BatchPhase' = "restoring"
  BY <1>1, <1>2 DEF BatchPhase
<1>8. outcome \in IF Batch!Cancelled THEN {"cancelled"} ELSE Batch!Outcomes
  <2>1. Batch!Cancelled => AnyCancelled(t)
    BY <1>3, <1>6 DEF Batch!Cancelled, AnyCancelled
  <2> QED
    BY <1>5, <2>1 DEF Outcomes, Batch!Outcomes
<1> QED
  BY <1>2, <1>4, <1>5, <1>6, <1>7, <1>8 DEF Batch!Resolve, Size

\* RestoreComplete is handled when nothing else is left.
LEMMA OnlyEvent ==
  ASSUME NEW q \in Seq(GuiEvent), q # <<>>, Head(q).type = "RestoreComplete",
         CompleteIsLast(q)
  PROVE  Len(q) = 1
<1>1. Len(q) \in Nat /\ Len(q) > 0 /\ q[1].type = "RestoreComplete"
  OBVIOUS
<1>2. \A i \in 1..(Len(q) - 1) : q[i].type # "RestoreComplete"
  BY DEF CompleteIsLast
<1>3. ~(1 \in 1..(Len(q) - 1))
  BY <1>1, <1>2, Zenon
<1>4. PICK l \in Nat : l = Len(q)
  BY <1>1
<1> QED
  BY <1>1, <1>3, <1>4

\* The window that handles RestoreComplete has every outcome: this is Report.
LEMMA CompleteReports ==
  ASSUME IInv, IInv', ResultsInv, Seen, GuiDispatch, page' # "progress"
  PROVE  Batch!Report
<1>1. /\ gui_queue # <<>> /\ Head(gui_queue).type = "RestoreComplete"
      /\ page' = "summary" /\ textBrowser' = textBrowser \o jobs_finished
      /\ running /\ running' /\ UNCHANGED batch
  <2>1. page = "progress"
    BY DEF IInv, QuietOffProgressPage, Quiet, GuiDispatch, RestoreProgressAllMax,
       RestoreProgressAllValue, RestoreHeaderAll, RestoreFinished, RestoreComplete,
       Receive
  <2> QED
    BY <2>1 DEF GuiDispatch, RestoreProgressAllMax, RestoreProgressAllValue,
       RestoreHeaderAll, RestoreFinished, RestoreComplete, Receive
<1>2. page = "progress"
  BY <1>1 DEF IInv, QuietOffProgressPage, Quiet
<1>3. PICK t \in Seq(BackupResult) : Come(t)
  BY <1>2 DEF ResultsInv
<1>4. /\ Len(gui_queue) \in Nat /\ Len(gui_queue) > 0
      /\ Head(gui_queue) = gui_queue[1] /\ jobs_finished \in Seq(BackupResult)
  <2>1. gui_queue \in Seq(GuiEvent) /\ jobs_finished \in Seq(BackupResult)
    BY DEF IInv, TypeOK
  <2> QED
    BY <1>1, <2>1, HeadTail
<1>5. Completed
  <2>1. Requested \/ JobRuns \/ JobEnded \/ Completed
    BY <1>2 DEF IInv, OneTokenInFlight
  <2>2. gui_queue[1].type = "RestoreComplete" /\ 1 \in 1..Len(gui_queue)
    BY <1>1, <1>4
  <2>3. ~NoComplete(gui_queue) /\ ~Requested
    <3>1. gui_queue \in Seq(GuiEvent)
      BY DEF IInv, TypeOK
    <3> QED
      BY <1>1, <2>2, <3>1 DEF NoComplete, Requested
  <2> QED
    BY <2>1, <2>3 DEF JobRuns, JobEnded
<1>6. Len(gui_queue) = 1
  <2>1. gui_queue \in Seq(GuiEvent) /\ CompleteIsLast(gui_queue)
    BY <1>5 DEF Completed, IInv, TypeOK
  <2> QED
    BY <1>1, <2>1, OnlyEvent, Zenon
<1>7. t = jobs_finished
  <2>1. PICK h \in [0..Len(gui_queue) -> Seq(BackupResult)] :
          Way(h, jobs_finished, gui_queue, t)
    BY <1>3 DEF Come, Leads
  <2>2. h[0] = jobs_finished /\ h[1] = t /\ h[1] = Gathered(h[0], gui_queue[1])
    BY <1>6, <2>1 DEF Way
  <2> QED
    BY <1>1, <1>4, <2>2 DEF Gathered, IsResult
<1>8. Len(t) = Size
  <2>1. ~Requested
    BY <1>1 DEF Requested
  <2> QED
    BY <1>3, <1>5, <2>1 DEF Come, OneForEach, Working, Returned, JobRuns, JobEnded,
       Completed
<1>9. textBrowser' = t
  BY <1>1, <1>2, <1>4, <1>7 DEF IInv, WindowOK
<1>10. BatchResults = t /\ BatchResults' = t
  BY <1>1, <1>2, <1>3, <1>9 DEF Seen, BatchResults
<1>11. BatchPhase = "restoring" /\ BatchPhase' = "reported"
  BY <1>1, <1>2 DEF BatchPhase
<1> QED
  BY <1>1, <1>8, <1>10, <1>11 DEF Batch!Report, Size

\* Everything else changes nothing that BatchRestore sees.
LEMMA WithinStutters ==
  ASSUME IInv, IInv', ResultsInv, Seen, Seen', Within \/ UNCHANGED vars,
         page # "progress" \/ page' = "progress"
  PROVE  UNCHANGED <<BatchPhase, batch, BatchResults>>
<1>1. UNCHANGED <<running, batch>>
  BY DEF Within, Cancel, ExitRefused, DismissBox, GuiDispatch, RestoreProgressAllMax,
     RestoreProgressAllValue, RestoreHeaderAll, RestoreFinished, RestoreComplete,
     Receive, QueueRestores, HandleRestoreFinished, BeginWork, Stopped, vars
<1>2. CASE page # "progress"
  <2>1. UNCHANGED <<page, textBrowser>>
    <3>1. gui_queue = <<>> /\ backend_queue = <<>> /\ job = Idle
      BY <1>2 DEF IInv, QuietOffProgressPage, Quiet
    <3>2. ~GuiDispatch /\ ~QueueRestores /\ ~HandleRestoreFinished /\ ~BeginWork
      BY <3>1 DEF GuiDispatch, RestoreProgressAllMax, RestoreProgressAllValue,
         RestoreHeaderAll, RestoreFinished, RestoreComplete, Receive, QueueRestores,
         HandleRestoreFinished, Take, BeginWork, Idle
    <3> QED
      BY <3>2, Zenon DEF Within, Cancel, ExitRefused, DismissBox, Stopped, vars,
         displayVars
  <2> QED
    BY <1>1, <1>2, <2>1 DEF BatchPhase, BatchResults
<1>3. CASE page = "progress"
  <2>1. page' = "progress"
    BY <1>3
  <2>2. PICK t \in Seq(BackupResult) : Come(t)
    BY <1>3 DEF ResultsInv
  <2>3. Come(t)'
    <3>1. CASE Within
      BY <1>3, <2>1, <2>2, <3>1, ResultsWithin
    <3>2. CASE UNCHANGED vars
      <4>1. UNCHANGED <<page, jobs_finished, gui_queue, in_progress, queue, jobs_total,
                     jobs_complete, jobs_remaining, jobs_current, job, backend_queue,
                     batch, cancel_requested>>
        BY <3>2 DEF vars, displayVars, backendVars
      <4> QED
        BY <2>2, <4>1, ResultsUntouched
    <3> QED
      BY <3>1, <3>2
  <2>4. BatchResults = t /\ BatchResults' = t
    BY <1>3, <2>1, <2>2, <2>3 DEF Seen
  <2> QED
    BY <1>1, <1>3, <2>1, <2>4 DEF BatchPhase
<1> QED
  BY <1>2, <1>3

LEMMA StepImplements ==
  ASSUME IInv, IInv', ResultsInv, Seen, Seen', [Next]_vars
  PROVE  [Batch!Next]_(Batch!vars)
<1>1. CASE GuiDispatch /\ page' # "progress"
  BY <1>1, CompleteReports DEF Batch!Next
<1>2. CASE Within /\ (page # "progress" \/ page' = "progress")
  BY <1>2, WithinStutters DEF Batch!vars
<1>3. CASE UNCHANGED vars
  <2>1. page # "progress" \/ page' = "progress"
    BY <1>3 DEF vars
  <2> QED
    BY <1>3, <2>1, WithinStutters DEF Batch!vars
<1>4. CASE Restore \/ Exit \/ Reset \/ JobCancelled \/ JobEnds
  BY <1>4, RestoreSubmits, ExitQuits, ResetDismisses, JobEndResolves DEF Batch!Next
<1>5. ASSUME Within, page = "progress", page' # "progress" PROVE GuiDispatch
  BY <1>5 DEF Within, Cancel, ExitRefused, DismissBox, QueueRestores,
     HandleRestoreFinished, BeginWork, Stopped, vars
<1> QED
  BY <1>1, <1>2, <1>3, <1>4, <1>5, Zenon DEF Next, UserStep, BackendStep, Within

------------------------------------------------------------------------------
(* The overall progress *)

\* What the display is made of, as numbers.
LEMMA DisplayNumbers ==
  ASSUME IInv
  PROVE  /\ Len(jobs_finished) \in Nat /\ header_all \in Nat
         /\ progress_all.value \in Nat /\ progress_all.max \in Nat
         /\ progress_all = [value |-> progress_all.value, max |-> progress_all.max]
         /\ Size \in Nat /\ Len(gui_queue) \in Nat /\ gui_queue \in Seq(GuiEvent)
  BY DEF IInv, TypeOK, Size

\* An event that continues the script.
LEMMA ScriptAppend ==
  ASSUME NEW q \in Seq(GuiEvent), NEW k \in Nat,
         \A i \in 1..Len(q) : Scripted(q[i], k + i),
         NEW e \in GuiEvent, Scripted(e, k + Len(q) + 1)
  PROVE  /\ Append(q, e) \in Seq(GuiEvent) /\ Len(Append(q, e)) = Len(q) + 1
         /\ \A i \in 1..Len(Append(q, e)) : Scripted(Append(q, e)[i], k + i)
<1>1. /\ Append(q, e) \in Seq(GuiEvent) /\ Len(Append(q, e)) = Len(q) + 1
      /\ Len(q) \in Nat /\ Append(q, e)[Len(q) + 1] = e
      /\ \A i \in 1..Len(q) : Append(q, e)[i] = q[i]
  OBVIOUS
<1>2. ASSUME NEW i \in 1..(Len(q) + 1)
      PROVE  Scripted(Append(q, e)[i], k + i)
  <2>1. CASE i = Len(q) + 1
    <3>1. k + i = k + Len(q) + 1
      BY <1>1, <2>1
    <3> QED
      BY <1>1, <2>1, <3>1
  <2>2. CASE i \in 1..Len(q)
    BY <1>1, <2>2
  <2> QED
    BY <1>1, <2>1, <2>2
<1> QED
  BY <1>1, <1>2

\* The script is that of the batch.
LEMMA SameScript ==
  ASSUME batch' = batch
  PROVE  Size' = Size /\ \A e, k : Scripted(e, k)' <=> Scripted(e, k)
  BY DEF Size, Scripted

\* Of the tokens only one can be there, and it says how many events were sent.
LEMMA SentByToken ==
  ASSUME NEW k, Sent(k)
  PROVE  /\ Requested => k = 0
         /\ JobRuns => Counters /\ k = 3 * jobs_current - 1
         /\ JobEnded => Counters /\ k = 3 * jobs_current
         /\ Completed => k = 3 * Size + 2
<1>1. /\ Requested => ~JobRuns /\ ~JobEnded /\ ~Completed
      /\ JobRuns => ~JobEnded /\ ~Completed
      /\ JobEnded => ~Completed
  <2>1. Requested => backend_queue # <<>> /\ backend_queue[1].type = "QueueRestores"
    BY DEF Requested
  <2>2. JobEnded => backend_queue # <<>> /\ backend_queue[1].type = "_RestoreFinished"
    BY DEF JobEnded
  <2>3. "QueueRestores" # "_RestoreFinished"
    OBVIOUS
  <2>4. ~(Requested /\ JobEnded)
    BY <2>1, <2>2, <2>3
  <2> QED
    BY <2>1, <2>2, <2>4 DEF Requested, JobRuns, JobEnded, Completed
<1> QED
  BY <1>1 DEF Sent

\* Nothing that is shown or posted changes.
LEMMA ProgressUntouched ==
  ASSUME ProgressInv,
         UNCHANGED <<page, jobs_finished, header_all, progress_all, gui_queue,
                     in_progress, queue, jobs_total, jobs_complete, jobs_remaining,
                     jobs_current, job, backend_queue, batch>>
  PROVE  ProgressInv'
<1>1. \A e, k : Scripted(e, k)' <=> Scripted(e, k)
  BY SameScript
<1>2. \A k : Displayed(k) => Displayed(k)'
  BY DEF Displayed, Size
<1>3. \A k : Sent(k) => Sent(k)'
  BY DEF Sent, Size, Counters, Requested, JobRuns, JobEnded, Completed, NoComplete,
     CompleteIsLast
<1>4. \A k : Script(k) => Script(k)'
  BY <1>1, <1>2, <1>3 DEF Script
<1> QED
  BY <1>4 DEF ProgressInv, Size

LEMMA ProgressUserStep ==
  ASSUME IInv, IInv', ProgressInv, UserStep
  PROVE  ProgressInv'
<1>1. ASSUME Restore PROVE ProgressInv'
  <2>1. PICK files \in Selections :
          /\ backend_queue' = Append(backend_queue,
                               [type |-> "QueueRestores", files |-> files])
          /\ batch' = files
    BY <1>1 DEF Restore
  <2>2. /\ Quiet /\ jobs_finished = <<>>
        /\ header_all = 0 /\ progress_all.value = 0
    BY <1>1 DEF Restore, IInv, QuietOffProgressPage, WindowOK, ProgressInv
  <2>3. /\ UNCHANGED <<gui_queue, jobs_finished, job, queue, jobs_remaining,
                       header_all, progress_all>>
        /\ page' = "progress"
    BY <1>1 DEF Restore, displayVars, backendVars
  <2>4. Requested'
    BY <2>1, <2>2, <2>3 DEF Requested, Quiet
  <2>5. gui_queue' = <<>> /\ jobs_finished' = <<>>
    BY <2>2, <2>3 DEF Quiet
  <2>6. Displayed(0)'
    BY <2>2, <2>3, <2>5 DEF Displayed
  <2>7. Script(0)'
    BY <2>4, <2>5, <2>6 DEF Script, Sent
  <2> QED
    BY <2>3, <2>7 DEF ProgressInv
<1>2. ASSUME Cancel \/ ExitRefused \/ DismissBox \/ Exit PROVE ProgressInv'
  <2>1. UNCHANGED <<page, jobs_finished, header_all, progress_all, gui_queue,
                     in_progress, queue, jobs_total, jobs_complete, jobs_remaining,
                     jobs_current, job, backend_queue, batch>>
    BY <1>2 DEF Cancel, ExitRefused, DismissBox, Exit, displayVars, backendVars
  <2> QED
    BY <2>1, ProgressUntouched
<1>3. ASSUME Reset PROVE ProgressInv'
  BY <1>3 DEF Reset, ProgressInv
<1> QED
  BY <1>1, <1>2, <1>3 DEF UserStep

\* What the event after k others does to the display.
LEMMA DisplayNext ==
  ASSUME IInv, IInv', NEW k \in Nat, Displayed(k), GuiDispatch, page' = "progress",
         Scripted(Head(gui_queue), k + 1), batch' = batch
  PROVE  Displayed(k + 1)'
<1> DEFINE e == Head(gui_queue)
           L == Len(jobs_finished)
           v == progress_all.value
<1>1. /\ L \in Nat /\ header_all \in Nat /\ v \in Nat /\ progress_all.max \in Nat
      /\ Size \in Nat /\ Size' = Size
  BY DisplayNumbers, SameScript
<1>2. /\ 3 * L <= k /\ k < 3 * L + 3
      /\ 3 * header_all - 1 <= k /\ k < 3 * header_all + 2
      /\ k = 0 => v = 0
      /\ k > 0 => 3 * v + 1 <= k /\ k < 3 * v + 4 /\ progress_all.max = Size
  BY DEF Displayed
<1> HIDE DEF L, v
<1>3. CASE RestoreProgressAllMax
  <2>1. k = 0 /\ e.value = Size
    BY <1>3 DEF RestoreProgressAllMax, Receive, Scripted
  <2>2. v = 0
    BY <1>2, <2>1
  <2>3. UNCHANGED <<jobs_finished, header_all>>
        /\ progress_all'.value = 0 /\ progress_all'.max = Size
    BY <1>1, <1>3, <2>1, <2>2 DEF RestoreProgressAllMax, v
  <2>4. L = 0 /\ header_all = 0
    BY <1>1, <1>2, <2>1
  <2> QED
    BY <1>1, <2>1, <2>3, <2>4 DEF Displayed, L
<1>4. CASE RestoreHeaderAll
  <2>1. PICK i \in 1..Size : k + 1 = 3 * i - 1 /\ e.value = i
    BY <1>4 DEF RestoreHeaderAll, Receive, Scripted
  <2>2. header_all' = i /\ UNCHANGED <<jobs_finished, progress_all>>
    BY <1>4, <2>1 DEF RestoreHeaderAll
  <2>3. k + 1 < 3 * L + 3 /\ k > 0 /\ k + 1 < 3 * v + 4
    BY <1>1, <1>2, <2>1
  <2> QED
    BY <1>1, <1>2, <2>1, <2>2, <2>3 DEF Displayed, L, v
<1>5. CASE RestoreFinished
  <2>1. PICK i \in 1..Size : k + 1 = 3 * i
    BY <1>5 DEF RestoreFinished, Receive, Scripted
  <2>2. jobs_finished' = Append(jobs_finished, e.result)
        /\ UNCHANGED <<header_all, progress_all>>
    BY <1>5 DEF RestoreFinished
  <2>3. Len(jobs_finished') = L + 1
    BY <2>2 DEF L, IInv, TypeOK
  <2>4. 3 * (L + 1) <= k + 1 /\ k + 1 < 3 * (L + 1) + 3
        /\ k + 1 < 3 * header_all + 2 /\ k > 0 /\ k + 1 < 3 * v + 4
    BY <1>1, <1>2, <2>1
  <2> QED
    BY <1>1, <1>2, <2>2, <2>3, <2>4 DEF Displayed, v
<1>6. CASE RestoreProgressAllValue
  <2>1. PICK i \in 1..Size : k + 1 = 3 * i + 1 /\ e.value = i
    BY <1>6 DEF RestoreProgressAllValue, Receive, Scripted
  <2>2. k > 0 /\ progress_all.max = Size /\ ~(i > progress_all.max)
    BY <1>1, <1>2, <2>1
  <2>3. progress_all' = [progress_all EXCEPT !.value = i]
        /\ UNCHANGED <<jobs_finished, header_all>>
    BY <1>6, <2>1, <2>2 DEF RestoreProgressAllValue
  <2>4. progress_all'.value = i /\ progress_all'.max = Size
    BY <2>2, <2>3 DEF IInv, TypeOK
  <2>5. k + 1 < 3 * L + 3 /\ k + 1 < 3 * header_all + 2
    BY <1>1, <1>2, <2>1
  <2>6. 3 * i + 1 <= k + 1 /\ k + 1 < 3 * i + 4 /\ k + 1 > 0
        /\ 3 * L <= k + 1 /\ 3 * header_all - 1 <= k + 1
    BY <1>1, <1>2, <2>1
  <2> QED
    BY <1>1, <2>3, <2>4, <2>5, <2>6 DEF Displayed, L
<1>7. ~RestoreComplete
  BY DEF RestoreComplete
<1> QED
  BY <1>3, <1>4, <1>5, <1>6, <1>7 DEF GuiDispatch

LEMMA ProgressGuiDispatch ==
  ASSUME IInv, IInv', ProgressInv, GuiDispatch
  PROVE  ProgressInv'
<1>1. /\ gui_queue # <<>> /\ gui_queue' = Tail(gui_queue)
      /\ UNCHANGED <<in_progress, queue, job, jobs_total, jobs_complete,
                     jobs_remaining, jobs_current, backend_queue, batch>>
  BY DEF GuiDispatch, RestoreProgressAllMax, RestoreProgressAllValue,
         RestoreHeaderAll, RestoreFinished, RestoreComplete, Receive, backendVars
<1>2. page = "progress"
  BY <1>1 DEF IInv, QuietOffProgressPage, Quiet
<1>3. Size' = Size /\ \A e, k : Scripted(e, k)' <=> Scripted(e, k)
  BY <1>1, SameScript
<1>4. CASE page' # "progress"
  <2>1. header_all' = 0 /\ progress_all'.value = 0
    BY <1>2, <1>4 DEF GuiDispatch, RestoreProgressAllMax, RestoreProgressAllValue,
         RestoreHeaderAll, RestoreFinished, RestoreComplete
  <2> QED
    BY <1>4, <2>1 DEF ProgressInv
<1>5. CASE page' = "progress" /\ Size > 1
  <2>1. PICK k \in Nat : Script(k)
    BY <1>2, <1>5 DEF ProgressInv
  <2>2. /\ gui_queue \in Seq(GuiEvent) /\ Len(gui_queue) \in Nat /\ Len(gui_queue) > 0
        /\ Head(gui_queue) = gui_queue[1] /\ Len(gui_queue') = Len(gui_queue) - 1
        /\ \A i \in 1..Len(gui_queue') : gui_queue'[i] = gui_queue[i + 1]
    BY <1>1, DisplayNumbers, HeadTail
  <2>3. Scripted(Head(gui_queue), k + 1)
    <3>1. 1 \in 1..Len(gui_queue)
      BY <2>2
    <3> QED
      BY <2>1, <2>2, <3>1 DEF Script
  <2>4. Displayed(k + 1)'
    BY <1>1, <1>5, <2>1, <2>3, DisplayNext DEF Script
  <2>5. k + Len(gui_queue) = (k + 1) + Len(gui_queue')
    BY <2>2
  <2>6. (\A i \in 1..Len(gui_queue) : Scripted(gui_queue[i], (k + 1) + i))'
    <3> SUFFICES ASSUME NEW i \in 1..Len(gui_queue')
                 PROVE  Scripted(gui_queue'[i], (k + 1) + i)
      BY <1>3
    <3>1. i + 1 \in 1..Len(gui_queue) /\ k + (i + 1) = (k + 1) + i
      BY <2>2
    <3>2. Scripted(gui_queue[i + 1], k + (i + 1))
      BY <2>1, <3>1 DEF Script
    <3> QED
      BY <2>2, <3>1, <3>2
  <2>7. Sent((k + 1) + Len(gui_queue))'
    <3>1. Sent(k + Len(gui_queue)) /\ ~Requested
      BY <1>1, <2>1 DEF Script, Requested
    <3>2. (Requested \/ JobRuns \/ JobEnded \/ Completed)'
      BY <1>5 DEF IInv, OneTokenInFlight
    <3>3. Counters => Counters'
      BY <1>1, <1>3 DEF Counters
    <3>4. ASSUME JobRuns PROVE JobRuns'
      BY <1>1, <3>2, <3>4 DEF Requested, JobRuns, JobEnded, Completed
    <3>5. ASSUME JobEnded PROVE JobEnded'
      <4>1. backend_queue # <<>> /\ backend_queue[1].type # "QueueRestores"
        BY <3>5 DEF JobEnded
      <4>2. ~Requested' /\ ~JobRuns' /\ ~Completed'
        BY <1>1, <4>1 DEF Requested, JobRuns, Completed
      <4> QED
        BY <3>2, <4>2
    <3>6. ASSUME Completed PROVE Completed'
      <4>1. ~Requested' /\ ~JobRuns' /\ ~JobEnded'
        BY <1>1, <3>6 DEF Completed, Requested, JobRuns, JobEnded
      <4> QED
        BY <3>2, <4>1
    <3> QED
      BY <1>1, <1>3, <2>5, <3>1, <3>3, <3>4, <3>5, <3>6 DEF Sent
  <2>8. Script(k + 1)' /\ k + 1 \in Nat
    BY <2>4, <2>6, <2>7 DEF Script
  <2> QED
    BY <1>5, <2>8 DEF ProgressInv
<1>6. CASE page' = "progress" /\ ~(Size > 1)
  BY <1>3, <1>6 DEF ProgressInv
<1> QED
  BY <1>4, <1>5, <1>6

LEMMA TwoPosted ==
  ASSUME NEW a \in GuiEvent, NEW b \in GuiEvent
  PROVE  LET q == (<<>> \o <<a>>) \o <<b>>
         IN  Len(q) = 2 /\ q[1] = a /\ q[2] = b
<1>1. <<>> \o <<a>> = <<a>>
  OBVIOUS
<1>2. Len(<<a>> \o <<b>>) = 2 /\ (<<a>> \o <<b>>)[1] = a /\ (<<a>> \o <<b>>)[2] = b
  OBVIOUS
<1> QED
  BY <1>1, <1>2

LEMMA ProgressQueueRestores ==
  ASSUME IInv, IInv', ProgressInv, NEW t, Come(t)', QueueRestores
  PROVE  ProgressInv'
<1> DEFINE max == IfMany(Size, "RestoreProgressAllMax", Size)
           header == IfMany(Size, "RestoreHeaderAll", 0 + 1)
           first == [type |-> "RestoreProgressAllMax", value |-> Size]
           second == [type |-> "RestoreHeaderAll", value |-> 1]
<1>1. /\ page = "progress" /\ Requested /\ Head(backend_queue).files = batch
      /\ batch # <<>>
  BY RequestedBatch DEF QueueRestores, Take, IInv, BatchNotEmpty
<1>2. /\ FlushQueue(batch, jobs_remaining, 0, Size, max)
      /\ UNCHANGED <<page, jobs_finished, header_all, progress_all, batch>>
  BY <1>1 DEF QueueRestores, displayVars, Size
<1>3. jobs_remaining = 0 /\ gui_queue = <<>> /\ Size \in Nat
  BY <1>1, DisplayNumbers DEF Requested
<1>4. /\ job' = [phase |-> "start", file |-> Head(batch)]
      /\ jobs_current' = 0 + 1
      /\ gui_queue' = (gui_queue \o max) \o header
  BY <1>1, <1>2, <1>3, Zenon DEF FlushQueue
<1>5. Size' = Size /\ \A e, k : Scripted(e, k)' <=> Scripted(e, k)
  BY <1>2, SameScript
<1> SUFFICES ASSUME Size > 1 PROVE \E k \in Nat : Script(k)'
  BY <1>1, <1>2, <1>5 DEF ProgressInv
<1>6. PICK k \in Nat : Script(k)
  BY <1>1 DEF ProgressInv
<1>7. k = 0
  <2>1. Sent(k + Len(gui_queue)) /\ Len(gui_queue) = 0
    BY <1>3, <1>6 DEF Script
  <2> QED
    BY <1>1, <2>1, SentByToken
<1>8. Displayed(k)'
  BY <1>2, <1>5, <1>6 DEF Script, Displayed
<1>9. Len(gui_queue') = 2 /\ gui_queue'[1] = first /\ gui_queue'[2] = second
  <2>1. max = <<first>> /\ header = <<second>>
    BY DEF IfMany
  <2>2. first \in GuiEvent /\ second \in GuiEvent
    BY <1>3 DEF GuiEvent
  <2> HIDE DEF first, second, max, header
  <2>3. gui_queue' = (<<>> \o <<first>>) \o <<second>>
    BY <1>3, <1>4, <2>1
  <2> QED
    BY <2>2, <2>3, TwoPosted
<1>10. Scripted(first, 1) /\ Scripted(second, 2)
  <2>1. Scripted(first, 1)
    BY DEF Scripted
  <2>2. 1 \in 1..Size /\ 2 = 3 * 1 - 1
    BY <1>3
  <2>3. Scripted(second, 2)
    BY <2>2 DEF Scripted
  <2> QED
    BY <2>1, <2>3
<1>11. Sent(2)'
  <2>1. (Requested \/ JobRuns \/ JobEnded \/ Completed)'
    BY <1>1, <1>2 DEF IInv, OneTokenInFlight
  <2>2. JobRuns'
    BY <1>4, <2>1 DEF Requested, JobEnded, Completed, Idle
  <2>3. Counters'
    BY <2>2 DEF Come, OneForEach, Working, Returned, Requested, JobRuns, JobEnded,
       Completed
  <2> QED
    BY <1>4, <2>2, <2>3 DEF Sent
<1> HIDE DEF first, second
<1>12. Script(k)'
  <2>1. \A i \in 1..2 : i = 1 \/ i = 2
    OBVIOUS
  <2>2. \A i \in 1..2 : Scripted(gui_queue'[i], k + i)
    BY <1>7, <1>9, <1>10, <2>1
  <2>3. (\A i \in 1..Len(gui_queue) : Scripted(gui_queue[i], k + i))'
    BY <1>5, <1>9, <2>2
  <2> QED
    BY <1>7, <1>8, <1>9, <1>11, <2>3 DEF Script
<1> QED
  BY <1>12

LEMMA ProgressHandleFinished ==
  ASSUME IInv, IInv', ProgressInv, NEW t, Come(t), Come(t)', HandleRestoreFinished
  PROVE  ProgressInv'
<1> DEFINE remaining == jobs_remaining - 1
           value == IfMany(jobs_total, "RestoreProgressAllValue", jobs_complete + 1)
           second == [type |-> "RestoreProgressAllValue", value |-> jobs_complete + 1]
<1>1. /\ page = "progress" /\ JobEnded /\ backend_queue' = <<>>
      /\ UNCHANGED <<page, jobs_finished, header_all, progress_all, batch>>
  BY EndedJob DEF HandleRestoreFinished, Take, displayVars
<1>2. remaining = 0 /\ job = Idle
  BY <1>1 DEF JobEnded
<1>3. /\ gui_queue \in Seq(GuiEvent) /\ Len(gui_queue) \in Nat /\ Size \in Nat
      /\ jobs_complete + 1 \in Nat /\ jobs_current + 1 \in Nat
  BY DisplayNumbers DEF IInv, TypeOK
<1>4. Size' = Size /\ \A e, k : Scripted(e, k)' <=> Scripted(e, k)
  BY <1>1, SameScript
<1> SUFFICES ASSUME Size > 1 PROVE \E k \in Nat : Script(k)'
  BY <1>1, <1>4 DEF ProgressInv
<1>5. PICK k \in Nat : Script(k)
  BY <1>1 DEF ProgressInv
<1>6. Displayed(k)'
  BY <1>1, <1>4, <1>5 DEF Script, Displayed
<1>7. /\ k + Len(gui_queue) = 3 * jobs_current
      /\ jobs_total = Size /\ jobs_current \in 1..Size
      /\ jobs_complete + 1 = jobs_current
  <2>1. Counters /\ k + Len(gui_queue) = 3 * jobs_current
    BY <1>1, <1>5, SentByToken DEF Script
  <2> QED
    BY <2>1, <1>3 DEF Counters
<1>8. Waiting(jobs_current)
  <2>1. backend_queue # <<>> /\ backend_queue[1].type # "QueueRestores"
    BY <1>1 DEF JobEnded
  <2>2. ~Requested /\ ~JobRuns /\ ~Completed
    BY <2>1 DEF Requested, JobRuns, Completed
  <2> QED
    BY <2>2 DEF Come, OneForEach, Working, Returned
<1>9. second \in GuiEvent /\ Scripted(second, k + Len(gui_queue) + 1)
  <2>1. second \in GuiEvent
    BY <1>3 DEF GuiEvent
  <2>2. k + Len(gui_queue) + 1 = 3 * jobs_current + 1
    BY <1>3, <1>7
  <2>3. second.type = "RestoreProgressAllValue" /\ second.value = jobs_current
    BY <1>7
  <2> HIDE DEF second
  <2> QED
    BY <1>7, <2>1, <2>2, <2>3 DEF Scripted
<1>10. gui_queue \o value = Append(gui_queue, second)
  <2>1. value = <<second>>
    BY <1>7 DEF IfMany
  <2> HIDE DEF value, second
  <2> QED
    BY <1>3, <1>9, <2>1
<1>11. LastJob(remaining) => /\ UNCHANGED <<queue, job>>
                             /\ gui_queue' = (gui_queue \o value)
                                                \o <<[type |-> "RestoreComplete"]>>
  BY Zenon DEF HandleRestoreFinished
<1>12. ~LastJob(remaining)
         => FlushQueue(queue, remaining, jobs_current, jobs_total, value)
  BY Zenon DEF HandleRestoreFinished
<1> HIDE DEF second, value
<1> DEFINE q == Append(gui_queue, second)
<1>13. /\ q \in Seq(GuiEvent) /\ Len(q) = Len(gui_queue) + 1
       /\ \A i \in 1..Len(q) : Scripted(q[i], k + i)
  BY <1>3, <1>5, <1>9, ScriptAppend DEF Script
<1> HIDE DEF q
<1>14. PICK sent \in Nat : sent = k + Len(q) + 1 /\ sent = 3 * jobs_current + 2
  <2>1. Len(q) = Len(gui_queue) + 1
    BY <1>13
  <2>2. k + Len(q) + 1 \in Nat /\ k + Len(q) + 1 = 3 * jobs_current + 2
    BY <1>3, <1>7, <2>1
  <2> QED
    BY <2>2
<1>15. ASSUME NEW e \in GuiEvent, gui_queue' = Append(q, e), Scripted(e, sent), Sent(sent)'
       PROVE  Script(k)'
  <2>1. /\ Len(gui_queue') = Len(q) + 1
        /\ \A i \in 1..Len(gui_queue') : Scripted(gui_queue'[i], k + i)
    BY <1>13, <1>14, <1>15, ScriptAppend
  <2>2. (\A i \in 1..Len(gui_queue) : Scripted(gui_queue[i], k + i))'
    BY <1>4, <2>1
  <2>3. k + Len(gui_queue') = sent
    BY <1>3, <1>13, <1>14, <2>1
  <2>4. Sent(k + Len(gui_queue))'
    BY <1>15, <2>3
  <2> QED
    BY <1>6, <2>2, <2>4 DEF Script
<1>16. (Requested \/ JobRuns \/ JobEnded \/ Completed)'
  BY <1>1 DEF IInv, OneTokenInFlight
<1>17. CASE LastJob(remaining)
  <2> DEFINE e == [type |-> "RestoreComplete"]
  <2>1. /\ UNCHANGED <<queue, job>> /\ gui_queue' = (gui_queue \o value) \o <<e>>
    BY <1>11, <1>17, Zenon
  <2>2. e \in GuiEvent /\ e.type = "RestoreComplete"
    BY DEF GuiEvent
  <2> HIDE DEF e
  <2>3. gui_queue' = Append(q, e)
    BY <1>10, <1>13, <2>1, <2>2 DEF q
  <2>4. jobs_current = Size
    BY <1>3, <1>7, <1>8, <1>17 DEF LastJob, Waiting
  <2>5. Scripted(e, sent)
    BY <1>14, <2>2, <2>4 DEF Scripted
  <2>6. Completed'
    BY <1>1, <1>2, <1>16, <2>1 DEF Requested, JobRuns, JobEnded
  <2>7. Sent(sent)'
    BY <1>4, <1>14, <2>4, <2>6 DEF Sent
  <2> QED
    BY <1>15, <2>2, <2>3, <2>5, <2>7
<1>18. CASE ~LastJob(remaining)
  <2> DEFINE e == [type |-> "RestoreHeaderAll", value |-> jobs_current + 1]
             header == IfMany(jobs_total, "RestoreHeaderAll", jobs_current + 1)
  <2>1. FlushQueue(queue, remaining, jobs_current, jobs_total, value)
        /\ queue # <<>>
    BY <1>2, <1>12, <1>18, Zenon DEF LastJob
  <2>2. /\ job' = [phase |-> "start", file |-> Head(queue)]
        /\ jobs_current' = jobs_current + 1
        /\ gui_queue' = (gui_queue \o value) \o header
    BY <1>2, <2>1, Zenon DEF FlushQueue
  <2>3. e \in GuiEvent /\ e.type = "RestoreHeaderAll" /\ e.value = jobs_current + 1
    BY <1>3 DEF GuiEvent
  <2>4. header = <<e>>
    BY <1>7 DEF IfMany
  <2> HIDE DEF e, header
  <2>5. gui_queue' = Append(q, e)
    BY <1>10, <1>13, <2>2, <2>3, <2>4 DEF q
  <2>6. JobRuns'
    BY <1>16, <2>2 DEF Requested, JobEnded, Completed, Idle
  <2>7. Counters'
    BY <2>6 DEF Come, OneForEach, Working, Returned, Requested, JobRuns, JobEnded,
       Completed
  <2>8. jobs_current + 1 \in 1..Size /\ sent = 3 * (jobs_current + 1) - 1
    <3>1. jobs_current' \in 1..Size
      BY <1>4, <2>7 DEF Counters
    <3>2. sent = 3 * jobs_current + 2 /\ jobs_current \in Nat
      BY <1>3, <1>7, <1>14
    <3> QED
      BY <2>2, <3>1, <3>2
  <2>9. Scripted(e, sent)
    BY <2>3, <2>8 DEF Scripted
  <2>10. Sent(sent)'
    BY <2>2, <2>6, <2>7, <2>8 DEF Sent
  <2> QED
    BY <1>15, <2>3, <2>5, <2>9, <2>10
<1> QED
  BY <1>17, <1>18

LEMMA ProgressBeginWork ==
  ASSUME IInv, IInv', ProgressInv, BeginWork
  PROVE  ProgressInv'
<1>1. /\ job # Idle /\ job' # Idle
      /\ UNCHANGED <<page, jobs_finished, header_all, progress_all, gui_queue,
                     jobs_total, jobs_complete, jobs_current, batch>>
  BY DEF BeginWork, Idle, Job, IInv, TypeOK, displayVars
<1>2. page = "progress" /\ JobRuns
  BY <1>1, RunningJob
<1>3. JobRuns'
  <2>1. (Requested \/ JobRuns \/ JobEnded \/ Completed)'
    BY <1>1, <1>2 DEF IInv, OneTokenInFlight
  <2> QED
    BY <1>1, <2>1 DEF Requested, JobEnded, Completed
<1>4. Size' = Size /\ \A e, k : Scripted(e, k)' <=> Scripted(e, k)
  BY <1>1, SameScript
<1>5. \A k : Displayed(k) => Displayed(k)'
  BY <1>1, <1>4 DEF Displayed
<1>6. ASSUME NEW k, Sent(k) PROVE Sent(k)'
  <2>1. Counters /\ k = 3 * jobs_current - 1
    BY <1>2, <1>6, SentByToken
  <2> QED
    BY <1>1, <1>3, <1>4, <2>1 DEF Sent, Counters
<1>7. \A k : Script(k) => Script(k)'
  BY <1>1, <1>4, <1>5, <1>6 DEF Script
<1> QED
  BY <1>1, <1>4, <1>7 DEF ProgressInv

LEMMA ProgressEndJob ==
  ASSUME IInv, IInv', ProgressInv, job # Idle, NEW outcome \in Outcomes,
         EndJob(outcome)
  PROVE  ProgressInv'
<1> DEFINE e == [type   |-> "RestoreFinished",
                 result |-> [filename |-> job.file, outcome |-> outcome]]
<1>1. page = "progress" /\ JobRuns /\ job.file \in Files
  BY RunningJob DEF IInv, TypeOK, Job
<1>2. /\ job' = Idle /\ backend_queue' = <<[type |-> "_RestoreFinished"]>>
      /\ gui_queue' = Append(gui_queue, e)
      /\ UNCHANGED <<page, jobs_finished, header_all, progress_all, jobs_total,
                     jobs_complete, jobs_current, batch>>
  BY <1>1 DEF EndJob, Finished1, JobRuns, displayVars
<1>3. e \in GuiEvent /\ e.type = "RestoreFinished"
  BY <1>1 DEF GuiEvent, BackupResult
<1> HIDE DEF e
<1>4. JobEnded'
  <2>1. (Requested \/ JobRuns \/ JobEnded \/ Completed)'
    BY <1>1, <1>2 DEF IInv, OneTokenInFlight
  <2>2. backend_queue' # <<>> /\ backend_queue'[1].type # "QueueRestores"
    BY <1>2
  <2> QED
    BY <1>2, <2>1, <2>2 DEF Requested, JobRuns, Completed
<1>5. Size' = Size /\ \A x, k : Scripted(x, k)' <=> Scripted(x, k)
  BY <1>2, SameScript
<1> SUFFICES ASSUME Size > 1 PROVE \E k \in Nat : Script(k)'
  BY <1>1, <1>2, <1>5 DEF ProgressInv
<1>6. PICK k \in Nat : Script(k)
  BY <1>1 DEF ProgressInv
<1>7. Displayed(k)'
  BY <1>2, <1>5, <1>6 DEF Script, Displayed
<1>8. Counters /\ k + Len(gui_queue) = 3 * jobs_current - 1
  BY <1>1, <1>6, SentByToken DEF Script
<1>9. Len(gui_queue) \in Nat /\ gui_queue \in Seq(GuiEvent) /\ Size \in Nat
      /\ jobs_current \in 1..Size
  BY <1>8, DisplayNumbers DEF Counters
<1>10. k + Len(gui_queue) + 1 = 3 * jobs_current
  BY <1>8, <1>9
<1>11. Scripted(e, k + Len(gui_queue) + 1)
  BY <1>3, <1>9, <1>10 DEF Scripted
<1>12. /\ Len(gui_queue') = Len(gui_queue) + 1
       /\ \A i \in 1..Len(gui_queue') : Scripted(gui_queue'[i], k + i)
  BY <1>2, <1>3, <1>6, <1>9, <1>11, ScriptAppend DEF Script
<1>13. (\A i \in 1..Len(gui_queue) : Scripted(gui_queue[i], k + i))'
  BY <1>5, <1>12
<1>14. Sent(k + Len(gui_queue))'
  <2>1. k + Len(gui_queue') = 3 * jobs_current'
    BY <1>2, <1>9, <1>10, <1>12
  <2>2. Counters'
    BY <1>2, <1>5, <1>8 DEF Counters
  <2> QED
    BY <1>4, <2>1, <2>2 DEF Sent
<1>15. Script(k)'
  BY <1>7, <1>13, <1>14 DEF Script
<1> QED
  BY <1>15

LEMMA ProgressStep ==
  ASSUME IInv, IInv', ResultsInv, ResultsInv', ProgressInv, [Next]_vars
  PROVE  ProgressInv'
<1>1. CASE Stopped \/ UNCHANGED vars
  <2>1. UNCHANGED <<page, jobs_finished, header_all, progress_all, gui_queue,
                     in_progress, queue, jobs_total, jobs_complete, jobs_remaining,
                     jobs_current, job, backend_queue, batch>>
    BY <1>1 DEF Stopped, vars, displayVars, backendVars
  <2> QED
    BY <2>1, ProgressUntouched
<1>2. CASE QueueRestores
  <2>1. page' = "progress"
    BY <1>2, RequestedBatch DEF QueueRestores, Take
  <2> QED
    BY <1>2, <2>1, ProgressQueueRestores DEF ResultsInv
<1>3. CASE HandleRestoreFinished
  <2>1. page = "progress"
    BY <1>3, EndedJob DEF HandleRestoreFinished, Take
  <2>2. PICK t \in Seq(BackupResult) : Come(t)
    BY <2>1 DEF ResultsInv
  <2>3. Come(t)'
    BY <1>3, <2>2, ResultsHandleFinished
  <2> QED
    BY <1>3, <2>2, <2>3, ProgressHandleFinished
<1>4. CASE JobCancelled \/ JobEnds
  BY <1>4, JobEndsSome, ProgressEndJob
<1> QED
  BY <1>1, <1>2, <1>3, <1>4, ProgressUserStep, ProgressGuiDispatch, ProgressBeginWork,
     Zenon DEF Next, BackendStep

------------------------------------------------------------------------------
(* The theorems *)

LEMMA ResultsAlways == Spec => []ResultsInv
<1>1. Init => ResultsInv
  BY DEF Init, ResultsInv
<1>2. IInv /\ IInv' /\ ResultsInv /\ [Next]_vars => ResultsInv'
  <2>1. ASSUME IInv, IInv', ResultsInv, UNCHANGED vars PROVE ResultsInv'
    <3>1. UNCHANGED <<page, jobs_finished, gui_queue, in_progress, queue, jobs_total,
                     jobs_complete, jobs_remaining, jobs_current, job, backend_queue,
                     batch, cancel_requested>>
      BY <2>1 DEF vars, displayVars, backendVars
    <3> QED
      BY <2>1, <3>1, ResultsUntouched DEF ResultsInv
  <2> QED
    BY <2>1, ResultsStep
<1> QED
  BY <1>1, <1>2, RestoreQueueInvariant, PTL DEF Spec

\* The window and the backend together are a BatchRestore: whatever the user
\* clicks and however the threads interleave, the files of a batch get one outcome
\* each in the order they were picked, all are cancelled after a cancelled one,
\* the summary shows precisely these, and the program is not left in between.
THEOREM ImplementsSafety == Spec => Batch!Safety
<1>1. Init => Batch!Init
  BY DEF Init, Batch!Init, BatchPhase, BatchResults
<1>2. IInv => Seen
  BY SeenAlways
<1>3. IInv /\ IInv' /\ ResultsInv /\ Seen /\ Seen' /\ [Next]_vars
        => [Batch!Next]_(Batch!vars)
  BY StepImplements
<1> QED
  BY <1>1, <1>2, <1>3, RestoreQueueInvariant, ResultsAlways, PTL DEF Spec, Batch!Safety

\* The overall bar and header keep pace with the results in the window: with
\* several files the bar is never ahead of them and at most one behind.
THEOREM ProgressTracks == Spec => []ProgressTracksResults
<1>1. Init => ProgressInv
  BY DEF Init, ProgressInv
<1>2. IInv /\ IInv' /\ ResultsInv /\ ResultsInv' /\ ProgressInv /\ [Next]_vars
        => ProgressInv'
  BY ProgressStep
<1>3. ASSUME IInv, ProgressInv PROVE ProgressTracksResults
  <2> SUFFICES ASSUME page = "progress", Size > 1
               PROVE  /\ progress_all.value \in {Len(jobs_finished), Len(jobs_finished) - 1}
                      /\ header_all \in {progress_all.value, progress_all.value + 1}
                      /\ header_all <= Size
    BY DEF ProgressTracksResults, Size
  <2>1. PICK k \in Nat : Script(k)
    BY <1>3 DEF ProgressInv
  <2>2. k <= 3 * Size + 1
    <3>1. Sent(k + Len(gui_queue))
      BY <2>1 DEF Script
    <3>2. CASE Completed
      <4>1. k + Len(gui_queue) = 3 * Size + 2 /\ gui_queue # <<>>
        BY <3>1, <3>2, SentByToken DEF Completed, CompleteIsLast
      <4>2. gui_queue \in Seq(GuiEvent) /\ Len(gui_queue) > 0
        BY <1>3, <4>1, DisplayNumbers
      <4> QED
        BY <1>3, <4>1, <4>2, DisplayNumbers
    <3>3. CASE ~Completed
      BY <1>3, <3>1, <3>3, DisplayNumbers DEF Sent, Counters
    <3> QED
      BY <3>2, <3>3
  <2>3. Displayed(k)
    BY <2>1 DEF Script
  <2>4. /\ Len(jobs_finished) \in Nat /\ header_all \in Nat
        /\ progress_all.value \in Nat /\ Size \in Nat
    BY <1>3, DisplayNumbers
  <2>5. CASE k = 0
    BY <2>3, <2>4, <2>5 DEF Displayed
  <2>6. CASE k > 0
    <3>1. /\ 3 * Len(jobs_finished) <= k /\ k < 3 * Len(jobs_finished) + 3
          /\ 3 * header_all - 1 <= k /\ k < 3 * header_all + 2
          /\ 3 * progress_all.value + 1 <= k /\ k < 3 * progress_all.value + 4
      BY <2>3, <2>6 DEF Displayed
    <3> QED
      BY <2>2, <2>4, <3>1
  <2> QED
    BY <2>5, <2>6
<1> QED
  BY <1>1, <1>2, <1>3, RestoreQueueInvariant, ResultsAlways, PTL DEF Spec

=============================================================================
