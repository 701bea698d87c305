------------------------ MODULE SettingsTesterProofs ------------------------
(* Proofs about SettingsTester, for every set of settings and every number   *)
(* of tests.                                                                 *)
EXTENDS SettingsTester, TLAPS

\* The first event of a queue is one, and the rest is a queue.
LEMMA HeadTail ==
  ASSUME NEW S, NEW q \in Seq(S), q # <<>>
  PROVE  Head(q) \in S /\ Tail(q) \in Seq(S)
  OBVIOUS

\* The tests are numbers from one on, and none of them is Nobody.
LEMMA TestNumbers ==
  /\ \A i \in Tests : i \in Nat /\ i # Nobody
  /\ \A n \in 0..MaxTests : n < MaxTests => n + 1 \in Tests /\ n + 1 \in 0..MaxTests
  BY MaxTestsAssumption DEF Tests, Nobody

\* What is shown when an event arrives is a verdict of a test, or unchanged.
LEMMA ShowType ==
  ASSUME TypeOK, ConnectingWhileInProgress,
         NEW i \in Tests, NEW v \in Verdicts, Show(i, v)
  PROVE  /\ shown' \in {"nothing", "connecting"} \cup Verdicts
         /\ shown_of' \in Tests \cup {Nobody}
         /\ test_in_progress' \in BOOLEAN
         /\ test_in_progress' <=> shown' = "connecting"
<1>1. CASE test_in_progress
  <2>1. shown' = v /\ shown_of' = i /\ test_in_progress' = FALSE
    BY <1>1 DEF Show
  <2> QED
    BY <2>1 DEF Verdicts
<1>2. CASE ~test_in_progress
  <2>1. UNCHANGED <<shown, shown_of, test_in_progress>>
    BY <1>2 DEF Show
  <2> QED
    BY <2>1 DEF TypeOK, ConnectingWhileInProgress
<1> QED
  BY <1>1, <1>2

------------------------------------------------------------------------------
\* What ConnectFinished relies on: a test that has returned, and one of which an
\* event is posted, has a verdict.
Returned == {i \in Tests : test[i] \in {"unlock", "return", "done"}}

\* The inductive invariant.
Inv ==
    /\ TypeOK /\ ConnectingWhileInProgress
    /\ \A i \in Returned : verdict[i] \in Verdicts
    /\ \A n \in 1..Len(gui_queue) : gui_queue[n].test \in Returned
    /\ \A i \in Tests : i > started => test[i] = "none"

\* The initial states satisfy the invariant.
LEMMA InitInv == Init => Inv
<1> SUFFICES ASSUME Init PROVE Inv
  OBVIOUS
<1>1. TypeOK
  <2>1. /\ test \in [Tests -> {"none", "start", "connect", "unlock", "return", "done"}]
        /\ verdict \in [Tests -> Verdicts \cup {"none"}]
        /\ named \in [Tests -> Forms] /\ tested \in [Tests -> Forms]
    BY DEF Init, Forms
  <2>2. \A i \in Tests : mutex = i <=> test[i] \in {"connect", "unlock"}
    BY TestNumbers DEF Init
  <2>3. gui_queue \in Seq(Event)
    <3>1. gui_queue = <<>>
      BY DEF Init
    <3> QED
      BY <3>1
  <2>4. /\ shown \in {"nothing", "connecting"} \cup Verdicts
        /\ mutex \in Tests \cup {Nobody} /\ shown_of \in Tests \cup {Nobody}
        /\ started \in 0..MaxTests
    <3>1. /\ shown = "nothing" /\ shown_of = Nobody /\ mutex = Nobody
          /\ started = 0
      BY Zenon DEF Init
    <3> QED
      BY <3>1, MaxTestsAssumption
  <2>5. /\ form \in Forms /\ test_in_progress \in BOOLEAN
        /\ hurried \in BOOLEAN
    BY Zenon DEF Init
  <2> QED
    BY <2>1, <2>2, <2>3, <2>4, <2>5, Zenon DEF TypeOK
<1>2. ConnectingWhileInProgress
  BY DEF Init, ConnectingWhileInProgress
<1>3. gui_queue = <<>> /\ Returned = {} /\ \A i \in Tests : test[i] = "none"
  BY DEF Init, Returned
<1> QED
  BY <1>1, <1>2, <1>3 DEF Inv

\* Clicks and edits keep the invariant: a test that is started is a new one.
LEMMA UserStepInv == Inv /\ (Edit \/ TestServer) => Inv'
<1> SUFFICES ASSUME Inv, Edit \/ TestServer PROVE Inv'
  OBVIOUS
<1> USE DEF Inv
<1>1. CASE Edit
  <2>1. TypeOK'
    BY <1>1 DEF TypeOK, Edit, poolVars
  <2> QED
    BY <1>1, <2>1 DEF Edit, poolVars, Returned, ConnectingWhileInProgress
<1>2. CASE TestServer /\ form = Incomplete
  <2>1. TypeOK'
    BY <1>2 DEF TypeOK, TestServer, Verdicts
  <2> QED
    BY <1>2, <2>1 DEF TestServer, Returned, ConnectingWhileInProgress
<1>3. CASE TestServer /\ form # Incomplete
  <2> DEFINE i == started + 1
  <2>1. i \in Tests /\ i \in 0..MaxTests /\ i > started /\ started \in Nat
    BY <1>3, TestNumbers, MaxTestsAssumption DEF TestServer, TypeOK
  <2>2. /\ test_in_progress' = TRUE /\ shown' = "connecting"
        /\ shown_of' = Nobody /\ started' = i
        /\ named' = [named EXCEPT ![i] = form]
        /\ test' = [test EXCEPT ![i] = "start"]
        /\ UNCHANGED <<form, gui_queue, mutex, verdict, tested>>
    BY <1>3, Zenon DEF TestServer
  <2>3. test[i] = "none"
    BY <2>1
  <2> HIDE DEF i
  <2>4. \A j \in Tests : test'[j] = IF j = i THEN "start" ELSE test[j]
    BY <2>2, <2>1 DEF TypeOK
  <2>5. hurried' \in BOOLEAN
    BY <1>3, Zenon DEF TestServer, Over
  <2>6. TypeOK'
    BY <2>1, <2>2, <2>3, <2>4, <2>5 DEF TypeOK
  <2>7. Returned' = Returned
    BY <2>3, <2>4 DEF Returned
  <2>8. ConnectingWhileInProgress'
    BY <2>2, Zenon DEF ConnectingWhileInProgress
  <2>9. \A j \in Tests : j > started' => test'[j] = "none"
    BY <2>1, <2>2, <2>4, TestNumbers
  <2> QED
    BY <2>2, <2>6, <2>7, <2>8, <2>9
<1> QED
  BY <1>1, <1>2, <1>3

\* A test in the pool keeps the invariant: it posts events of its own only, once
\* it has a verdict, and the mutex is its own from Lock to Unlock.
LEMMA TestStepInv ==
  ASSUME Inv, NEW i \in Tests, TestStep(i)
  PROVE  Inv'
<1> USE DEF Inv
<1>0. i # Nobody /\ i \in Nat
  BY TestNumbers
<1>1. CASE Lock(i)
  <2>1. /\ mutex = Nobody /\ mutex' = i /\ test[i] = "start"
        /\ tested' = [tested EXCEPT ![i] = form]
        /\ test' = [test EXCEPT ![i] = "connect"]
        /\ UNCHANGED <<dialogVars, gui_queue, verdict>>
    BY <1>1 DEF Lock
  <2>2. \A j \in Tests : test'[j] = IF j = i THEN "connect" ELSE test[j]
    BY <2>1 DEF TypeOK
  <2>3. TypeOK'
    <3>1. /\ test' \in [Tests -> {"none", "start", "connect", "unlock", "return", "done"}]
          /\ tested' \in [Tests -> Forms]
      BY <2>1 DEF TypeOK
    <3>2. \A j \in Tests : mutex' = j <=> test'[j] \in {"connect", "unlock"}
      BY <1>0, <2>1, <2>2, TestNumbers DEF TypeOK
    <3>3. /\ form' = form /\ test_in_progress' = test_in_progress
          /\ shown' = shown /\ started' = started /\ named' = named
          /\ shown_of' = shown_of /\ gui_queue' = gui_queue /\ verdict' = verdict
          /\ hurried' = hurried
      BY <2>1, Zenon DEF dialogVars
    <3> QED
      BY <2>1, <3>1, <3>2, <3>3 DEF TypeOK
  <2>4. Returned' = Returned
    BY <2>1, <2>2 DEF Returned
  <2>5. ConnectingWhileInProgress'
    BY <2>1 DEF ConnectingWhileInProgress, dialogVars
  <2> QED
    BY <2>1, <2>2, <2>3, <2>4, <2>5 DEF dialogVars
<1>2. CASE Connect(i)
  <2>1. PICK v \in Verdicts :
          /\ verdict' = [verdict EXCEPT ![i] = v]
          /\ gui_queue' = gui_queue \o <<Signal(i, v), Signal(i, v)>>
    BY <1>2 DEF Connect, Verdicts
  <2>2. /\ test[i] = "connect" /\ test' = [test EXCEPT ![i] = "unlock"]
        /\ UNCHANGED <<dialogVars, mutex, tested>>
    BY <1>2 DEF Connect
  <2>3. \A j \in Tests : /\ test'[j] = IF j = i THEN "unlock" ELSE test[j]
                         /\ verdict'[j] = IF j = i THEN v ELSE verdict[j]
    BY <2>1, <2>2 DEF TypeOK
  <2>4. Signal(i, v) \in Event /\ Signal(i, v).test = i
    BY DEF Signal, Event
  <2>5. gui_queue \in Seq(Event) /\ gui_queue' \in Seq(Event)
    BY <2>1, <2>4 DEF TypeOK
  <2>6. Returned' = Returned \cup {i}
    BY <2>2, <2>3 DEF Returned
  <2>7. \A n \in 1..Len(gui_queue') : gui_queue'[n].test \in Returned'
    BY <2>1, <2>4, <2>5, <2>6
  <2>8. TypeOK'
    BY <2>1, <2>2, <2>3, <2>5 DEF TypeOK, dialogVars
  <2>9. ConnectingWhileInProgress'
    BY <2>2 DEF ConnectingWhileInProgress, dialogVars
  <2>10. \A j \in Returned' : verdict'[j] \in Verdicts
    BY <2>3, <2>6 DEF Returned
  <2>11. \A j \in Tests : j > started' => test'[j] = "none"
    <3>1. started' = started
      BY <2>2, Zenon DEF dialogVars
    <3> QED
      BY <2>2, <2>3, <3>1
  <2> QED
    BY <2>7, <2>8, <2>9, <2>10, <2>11
<1>3. CASE Unlock(i)
  <2>1. /\ test[i] = "unlock" /\ mutex' = Nobody
        /\ test' = [test EXCEPT ![i] = "return"]
        /\ UNCHANGED <<dialogVars, gui_queue, verdict, tested>>
    BY <1>3 DEF Unlock
  <2>2. \A j \in Tests : test'[j] = IF j = i THEN "return" ELSE test[j]
    BY <2>1 DEF TypeOK
  <2>3. mutex = i
    BY <2>1 DEF TypeOK
  <2>4. TypeOK'
    BY <1>0, <2>1, <2>2, <2>3, TestNumbers DEF TypeOK, dialogVars
  <2>5. Returned' = Returned
    BY <2>1, <2>2 DEF Returned
  <2>6. ConnectingWhileInProgress'
    BY <2>1 DEF ConnectingWhileInProgress, dialogVars
  <2> QED
    BY <2>1, <2>2, <2>4, <2>5, <2>6 DEF dialogVars
<1>4. CASE Finish(i)
  <2> DEFINE e == [type |-> "ConnectFinished", test |-> i]
  <2>1. /\ test[i] = "return" /\ test' = [test EXCEPT ![i] = "done"]
        /\ gui_queue' = Append(gui_queue, e)
        /\ UNCHANGED <<dialogVars, mutex, verdict, tested>>
    BY <1>4 DEF Finish
  <2>2. \A j \in Tests : test'[j] = IF j = i THEN "done" ELSE test[j]
    BY <2>1 DEF TypeOK
  <2>3. e \in Event /\ e.test = i
    BY DEF Event
  <2> HIDE DEF e
  <2>4. gui_queue \in Seq(Event) /\ gui_queue' \in Seq(Event)
    BY <2>1, <2>3 DEF TypeOK
  <2>5. Returned' = Returned /\ i \in Returned
    BY <2>1, <2>2 DEF Returned
  <2>6. \A n \in 1..Len(gui_queue') : gui_queue'[n].test \in Returned'
    BY <2>1, <2>3, <2>4, <2>5
  <2>7. TypeOK'
    BY <2>1, <2>2, <2>4 DEF TypeOK, dialogVars
  <2>8. ConnectingWhileInProgress'
    BY <2>1 DEF ConnectingWhileInProgress, dialogVars
  <2> QED
    BY <2>1, <2>2, <2>5, <2>6, <2>7, <2>8 DEF dialogVars
<1> QED
  BY <1>1, <1>2, <1>3, <1>4 DEF TestStep

\* An event handled by the dialog keeps the invariant.
LEMMA ReceiveInv ==
  ASSUME Inv, NEW type, Receive(type), NEW v \in Verdicts,
         Show(Head(gui_queue).test, v)
  PROVE  Inv'
<1> USE DEF Inv
<1>1. /\ gui_queue # <<>> /\ gui_queue \in Seq(Event)
      /\ gui_queue' = Tail(gui_queue)
      /\ UNCHANGED <<form, started, named, hurried, poolVars>>
  BY DEF Receive, TypeOK
<1>2. Head(gui_queue) \in Event /\ gui_queue' \in Seq(Event)
  BY <1>1, HeadTail
<1>3. \A n \in 1..Len(gui_queue') : gui_queue'[n].test \in Returned
  BY <1>1
<1>4. Head(gui_queue).test \in Tests
  BY <1>2 DEF Event
<1>5. /\ shown' \in {"nothing", "connecting"} \cup Verdicts
      /\ shown_of' \in Tests \cup {Nobody}
      /\ test_in_progress' \in BOOLEAN
      /\ test_in_progress' <=> shown' = "connecting"
  BY <1>4, ShowType
<1>6. TypeOK'
  BY <1>1, <1>2, <1>5 DEF TypeOK, poolVars
<1>7. ConnectingWhileInProgress'
  BY <1>5, Zenon DEF ConnectingWhileInProgress
<1>8. Returned' = Returned
  BY <1>1 DEF Returned, poolVars
<1> QED
  BY <1>1, <1>3, <1>6, <1>7, <1>8 DEF poolVars

LEMMA GuiStepInv == Inv /\ GuiStep => Inv'
<1> SUFFICES ASSUME Inv, GuiStep PROVE Inv'
  OBVIOUS
<1>1. CASE ConnectionSuccess
  BY <1>1, ReceiveInv DEF ConnectionSuccess, Verdicts
<1>2. CASE ConnectionFailure
  BY <1>2, ReceiveInv DEF ConnectionFailure, Verdicts
<1>3. CASE ConnectFinished
  <2>1. gui_queue # <<>> /\ gui_queue \in Seq(Event)
    BY <1>3 DEF ConnectFinished, Receive, Inv, TypeOK
  <2>2. Head(gui_queue).test \in Returned
    BY <2>1 DEF Inv
  <2>3. verdict[Head(gui_queue).test] \in Verdicts
    BY <2>2 DEF Inv
  <2> QED
    BY <1>3, <2>3, ReceiveInv DEF ConnectFinished
<1> QED
  BY <1>1, <1>2, <1>3 DEF GuiStep

------------------------------------------------------------------------------
\* The inductive invariant holds in every state, whenever the user clicks and
\* edits and whenever the tests of the pool get on.
THEOREM TesterInvariant == Spec => []Inv
<1>1. Init => Inv
  BY InitInv
<1>2. Inv /\ [Next]_vars => Inv'
  <2> SUFFICES ASSUME Inv, [Next]_vars PROVE Inv'
    OBVIOUS
  <2>1. CASE Next
    BY <2>1, UserStepInv, GuiStepInv, TestStepInv DEF Next
  <2>2. CASE UNCHANGED vars
    BY <2>2 DEF vars, dialogVars, poolVars, Inv, TypeOK, Returned,
                ConnectingWhileInProgress
  <2> QED
    BY <2>1, <2>2
<1> QED
  BY <1>1, <1>2, PTL DEF Spec

\* Every variable of the settings tester keeps its type, and only the holder of
\* db_connector_->Mutex() is connecting.
THEOREM TesterTypeCorrect == Spec => []TypeOK
<1>1. Inv => TypeOK
  BY DEF Inv
<1> QED
  BY <1>1, TesterInvariant, PTL

\* TestServerDialog says that it is connecting exactly while test_in_progress_.
THEOREM ConnectingShown == Spec => []ConnectingWhileInProgress
<1>1. Inv => ConnectingWhileInProgress
  BY DEF Inv
<1> QED
  BY <1>1, TesterInvariant, PTL

------------------------------------------------------------------------------
\* The events that say of the test started last what came out of it.
Reports ==
    {e \in Event : /\ e.test = started
                   /\ e.type = "ConnectionSuccess" => verdict[started] = "success"
                   /\ e.type = "ConnectionFailure" => verdict[started] = "failure"}

\* What holds as long as the user leaves the last test alone: only this test is
\* under way or reported, and the dialog is not edited before it was read.
PatientInv ==
    /\ \A i \in Tests : test[i] \in {"none", "done"} \/ i = started
    /\ \A n \in 1..Len(gui_queue) : gui_queue[n] \in Reports
    /\ \A i \in Tests : test[i] = "start" => form = named[i]
    /\ \A i \in Tests : i = started /\ test[i] \notin {"none", "start"} =>
         tested[i] = named[i]
    /\ shown_of # Nobody => /\ shown_of \in Returned /\ shown_of = started
                            /\ shown = verdict[shown_of]

\* An edit, or a click that starts no test, either comes when no test is under
\* way or ends the obligation; a test that is started alone begins it anew.
LEMMA UserStepPatient ==
  ASSUME Inv, hurried \/ PatientInv, Edit \/ TestServer
  PROVE  (hurried \/ PatientInv)'
<1> SUFFICES ASSUME ~hurried' PROVE PatientInv'
  OBVIOUS
<1>1. CASE Edit
  <2>1. /\ PatientInv /\ Over
        /\ UNCHANGED <<test_in_progress, shown, started, named, shown_of, gui_queue,
                       poolVars>>
    BY <1>1, Zenon DEF Edit
  <2>2. \A i \in Tests : test[i] \in {"none", "done"}
    BY <2>1, Zenon DEF Over
  <2>3. /\ shown' = shown /\ started' = started /\ named' = named
        /\ shown_of' = shown_of /\ gui_queue' = gui_queue
        /\ test' = test /\ verdict' = verdict /\ tested' = tested
    BY <2>1, Zenon DEF poolVars
  <2> QED
    BY <2>1, <2>2, <2>3 DEF PatientInv, Returned, Reports
<1>2. CASE TestServer /\ form = Incomplete
  <2>1. /\ PatientInv /\ shown_of' = Nobody
        /\ started' = started /\ named' = named /\ test' = test /\ form' = form
        /\ gui_queue' = gui_queue /\ verdict' = verdict /\ tested' = tested
    BY <1>2, Zenon DEF TestServer
  <2> QED
    BY <2>1 DEF PatientInv, Reports
<1>3. CASE TestServer /\ form # Incomplete
  <2>1. /\ Over
        /\ shown_of' = Nobody /\ started' = started + 1 /\ form' = form
        /\ named' = [named EXCEPT ![started'] = form]
        /\ test' = [test EXCEPT ![started'] = "start"]
        /\ gui_queue' = gui_queue /\ verdict' = verdict /\ tested' = tested
    BY <1>3, Zenon DEF TestServer
  <2>2. started < MaxTests
    BY <1>3 DEF TestServer
  <2>3. started' \in Tests
    BY <2>1, <2>2, TestNumbers DEF Inv, TypeOK
  <2>4. \A j \in Tests : /\ test'[j] = IF j = started' THEN "start" ELSE test[j]
                         /\ named'[j] = IF j = started' THEN form ELSE named[j]
    BY <2>1, <2>3 DEF Inv, TypeOK
  <2>5. gui_queue = <<>> /\ \A j \in Tests : test[j] \in {"none", "done"}
    BY <2>1, Zenon DEF Over
  <2> QED
    BY <2>1, <2>3, <2>4, <2>5 DEF PatientInv
<1> QED
  BY <1>1, <1>2, <1>3

\* The test that is under way reads the settings it was started for, and reports
\* its own verdict; what is shown is not of a test that has no verdict yet.
LEMMA TestStepPatient ==
  ASSUME Inv, PatientInv, NEW i \in Tests, TestStep(i)
  PROVE  PatientInv'
<1>0. /\ test \in [Tests -> {"none", "start", "connect", "unlock", "return", "done"}]
      /\ verdict \in [Tests -> Verdicts \cup {"none"}]
      /\ tested \in [Tests -> Forms] /\ gui_queue \in Seq(Event)
  BY DEF Inv, TypeOK
<1>1. CASE Lock(i)
  <2>1. /\ test[i] = "start" /\ test' = [test EXCEPT ![i] = "connect"]
        /\ tested' = [tested EXCEPT ![i] = form]
        /\ UNCHANGED <<dialogVars, gui_queue, verdict>>
    BY <1>1, Zenon DEF Lock
  <2>2. /\ form' = form /\ shown' = shown /\ started' = started /\ named' = named
        /\ shown_of' = shown_of /\ gui_queue' = gui_queue /\ verdict' = verdict
    BY <2>1, Zenon DEF dialogVars
  <2>3. \A j \in Tests : /\ test'[j] = IF j = i THEN "connect" ELSE test[j]
                         /\ tested'[j] = IF j = i THEN form ELSE tested[j]
    BY <1>0, <2>1
  <2>4. Reports' = Reports
    BY <2>2 DEF Reports
  <2>5. Returned' = Returned
    BY <2>1, <2>3 DEF Returned
  <2> QED
    BY <2>1, <2>2, <2>3, <2>4, <2>5 DEF PatientInv
<1>2. CASE Connect(i)
  <2>1. PICK v \in Verdicts :
          /\ verdict' = [verdict EXCEPT ![i] = v]
          /\ gui_queue' = gui_queue \o <<Signal(i, v), Signal(i, v)>>
    BY <1>2 DEF Connect, Verdicts
  <2>2. /\ test[i] = "connect" /\ test' = [test EXCEPT ![i] = "unlock"]
        /\ UNCHANGED <<dialogVars, tested>>
    BY <1>2, Zenon DEF Connect
  <2>3. /\ form' = form /\ shown' = shown /\ started' = started /\ named' = named
        /\ shown_of' = shown_of /\ tested' = tested
    BY <2>2, Zenon DEF dialogVars
  <2>4. \A j \in Tests : /\ test'[j] = IF j = i THEN "unlock" ELSE test[j]
                         /\ verdict'[j] = IF j = i THEN v ELSE verdict[j]
    BY <1>0, <2>1, <2>2
  <2>5. i = started /\ i \notin Returned /\ Returned' = Returned \cup {i}
    BY <2>2, <2>4 DEF PatientInv, Returned
  <2>6. gui_queue = <<>>
    <3>1. ASSUME NEW n \in 1..Len(gui_queue) PROVE FALSE
      <4>1. gui_queue[n] \in Reports /\ gui_queue[n].test \in Returned
        BY DEF PatientInv, Inv
      <4> QED
        BY <4>1, <2>5 DEF Reports
    <3> QED
      BY <3>1, <1>0
  <2>7. Signal(i, v) \in Reports'
    <3>1. /\ Signal(i, v).test = i /\ Signal(i, v) \in Event
          /\ Signal(i, v).type = IF v = "success" THEN "ConnectionSuccess"
                                                 ELSE "ConnectionFailure"
      BY DEF Signal, Event
    <3>2. verdict'[started'] = v /\ started' = i
      BY <2>3, <2>4, <2>5
    <3> QED
      BY <3>1, <3>2 DEF Reports, Verdicts
  <2>8. \A n \in 1..Len(gui_queue') : gui_queue'[n] \in Reports'
    BY <2>1, <2>6, <2>7
  <2> QED
    BY <2>2, <2>3, <2>4, <2>5, <2>8 DEF PatientInv
<1>3. CASE Unlock(i)
  <2>1. /\ test[i] = "unlock" /\ test' = [test EXCEPT ![i] = "return"]
        /\ UNCHANGED <<dialogVars, gui_queue, verdict, tested>>
    BY <1>3, Zenon DEF Unlock
  <2>2. /\ form' = form /\ shown' = shown /\ started' = started /\ named' = named
        /\ shown_of' = shown_of /\ gui_queue' = gui_queue /\ verdict' = verdict
        /\ tested' = tested
    BY <2>1, Zenon DEF dialogVars
  <2>3. \A j \in Tests : test'[j] = IF j = i THEN "return" ELSE test[j]
    BY <1>0, <2>1
  <2>4. Reports' = Reports /\ Returned' = Returned
    BY <2>1, <2>2, <2>3 DEF Reports, Returned
  <2> QED
    BY <2>1, <2>2, <2>3, <2>4 DEF PatientInv
<1>4. CASE Finish(i)
  <2> DEFINE e == [type |-> "ConnectFinished", test |-> i]
  <2>1. /\ test[i] = "return" /\ test' = [test EXCEPT ![i] = "done"]
        /\ gui_queue' = Append(gui_queue, e)
        /\ UNCHANGED <<dialogVars, verdict, tested>>
    BY <1>4, Zenon DEF Finish
  <2>2. /\ form' = form /\ shown' = shown /\ started' = started /\ named' = named
        /\ shown_of' = shown_of /\ verdict' = verdict /\ tested' = tested
    BY <2>1, Zenon DEF dialogVars
  <2>3. \A j \in Tests : test'[j] = IF j = i THEN "done" ELSE test[j]
    BY <1>0, <2>1
  <2>4. Reports' = Reports /\ Returned' = Returned
    BY <2>1, <2>2, <2>3 DEF Reports, Returned
  <2>5. e \in Reports
    BY <2>1 DEF Reports, Event, PatientInv
  <2> HIDE DEF e
  <2>6. \A n \in 1..Len(gui_queue') : gui_queue'[n] \in Reports
    BY <1>0, <2>1, <2>5 DEF PatientInv
  <2> QED
    BY <2>1, <2>2, <2>3, <2>4, <2>6 DEF PatientInv
<1> QED
  BY <1>1, <1>2, <1>3, <1>4 DEF TestStep

\* The dialog shows what the events say, and they say it of the last test.
LEMMA ReceivePatient ==
  ASSUME Inv, PatientInv, NEW type, Receive(type), NEW v,
         Show(Head(gui_queue).test, v), v = verdict[started]
  PROVE  PatientInv'
<1>1. gui_queue # <<>> /\ gui_queue' = Tail(gui_queue) /\ gui_queue \in Seq(Event)
  BY DEF Receive, Inv, TypeOK
<1>2. /\ form' = form /\ started' = started /\ named' = named
      /\ test' = test /\ verdict' = verdict /\ tested' = tested
  BY Zenon DEF Receive, poolVars
<1>3. Reports' = Reports /\ Returned' = Returned
  BY <1>2 DEF Reports, Returned
<1>4. \A n \in 1..Len(gui_queue') : gui_queue'[n] \in Reports
  BY <1>1 DEF PatientInv
<1>5. Head(gui_queue).test = started /\ started \in Returned
  <2>1. gui_queue[1] \in Reports /\ gui_queue[1].test \in Returned
        /\ Head(gui_queue) = gui_queue[1]
    BY <1>1 DEF PatientInv, Inv
  <2> QED
    BY <2>1 DEF Reports
<1>6. \/ shown' = v /\ shown_of' = started
      \/ shown' = shown /\ shown_of' = shown_of
  BY <1>5, Zenon DEF Show
<1> QED
  BY <1>2, <1>3, <1>4, <1>5, <1>6 DEF PatientInv

LEMMA GuiStepPatient == Inv /\ PatientInv /\ GuiStep => PatientInv'
<1> SUFFICES ASSUME Inv, PatientInv, GuiStep PROVE PatientInv'
  OBVIOUS
<1>1. ASSUME gui_queue # <<>>
      PROVE  Head(gui_queue) \in Reports
  BY <1>1 DEF Inv, TypeOK, PatientInv
<1>2. CASE ConnectionSuccess
  <2>1. verdict[started] = "success"
    BY <1>1, <1>2 DEF ConnectionSuccess, Receive, Reports
  <2> QED
    BY <1>2, <2>1, ReceivePatient DEF ConnectionSuccess
<1>3. CASE ConnectionFailure
  <2>1. verdict[started] = "failure"
    BY <1>1, <1>3 DEF ConnectionFailure, Receive, Reports
  <2> QED
    BY <1>3, <2>1, ReceivePatient DEF ConnectionFailure
<1>4. CASE ConnectFinished
  <2>1. Head(gui_queue).test = started
    BY <1>1, <1>4 DEF ConnectFinished, Receive, Reports
  <2> QED
    BY <1>4, <2>1, ReceivePatient DEF ConnectFinished
<1> QED
  BY <1>2, <1>3, <1>4 DEF GuiStep

\* A user who leaves the last test alone until it is over is shown its true
\* outcome, of the settings it was started for.
THEOREM PatientUserIsTold == Spec => []VerdictIsOwn
<1> DEFINE HInv == hurried \/ PatientInv
<1>1. Init => HInv
  <2> SUFFICES ASSUME Init PROVE PatientInv
    OBVIOUS
  <2>1. /\ gui_queue = <<>> /\ shown_of = Nobody
        /\ test = [i \in Tests |-> "none"]
    BY Zenon DEF Init
  <2> QED
    BY <2>1 DEF PatientInv
<1>2. Inv /\ HInv /\ [Next]_vars => HInv'
  <2> SUFFICES ASSUME Inv, HInv, [Next]_vars PROVE HInv'
    OBVIOUS
  <2>1. CASE Edit \/ TestServer
    BY <2>1, UserStepPatient, Zenon
  <2>2. CASE GuiStep \/ \E i \in Tests : TestStep(i)
    <3>1. hurried' = hurried
      BY <2>2, Zenon DEF GuiStep, ConnectionSuccess, ConnectionFailure,
                         ConnectFinished, Receive, TestStep, Lock, Connect, Unlock,
                         Finish, dialogVars
    <3>2. PatientInv => PatientInv'
      BY <2>2, GuiStepPatient, TestStepPatient
    <3> QED
      BY <3>1, <3>2, Zenon
  <2>3. CASE UNCHANGED vars
    <3>1. /\ form' = form /\ shown' = shown /\ started' = started
          /\ named' = named /\ shown_of' = shown_of /\ gui_queue' = gui_queue
          /\ test' = test /\ verdict' = verdict /\ tested' = tested
          /\ hurried' = hurried
      BY <2>3, Zenon DEF vars, dialogVars, poolVars
    <3>2. PatientInv => PatientInv'
      BY <3>1 DEF PatientInv, Reports, Returned
    <3> QED
      BY <3>1, <3>2, Zenon
  <2> QED
    BY <2>1, <2>2, <2>3, Zenon DEF Next
<1>3. Inv /\ HInv => VerdictIsOwn
  <2> SUFFICES ASSUME Inv, PatientInv PROVE VerdictIsOwn
    BY Zenon DEF VerdictIsOwn
  <2> QED
    BY DEF Inv, PatientInv, Returned, VerdictIsOwn, VerdictNotStale, VerdictOfNamed
<1> QED
  BY <1>1, <1>2, <1>3, TesterInvariant, PTL DEF Spec
=============================================================================
