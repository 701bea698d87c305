--------------------------- MODULE SettingsTester ---------------------------
(* The settings tester: SettingsDialog and its TestServerDialog in the GUI   *)
(* thread, and the tests that SettingsDialog::TestServer hands to the thread *)
(* pool.  A test reports three times: DBConnector emits its verdict twice,   *)
(* and the future finishes; all three are posted to the GUI thread, which    *)
(* takes the first to arrive for the verdict of the test in progress.        *)
(* db_connector_->Mutex() lets one test connect at a time; the future of a   *)
(* test finishes after the mutex was released.                               *)
EXTENDS Naturals, Sequences

CONSTANTS
    Settings,  \* complete settings that can stand in the dialog
    MaxTests   \* bound: how often the user starts a test

ASSUME MaxTestsAssumption == MaxTests \in Nat

Incomplete == "incomplete"  \* settings that lack a driver, server or login
Nobody == 0
Tests == 1..MaxTests

VARIABLES
    form,              \* the settings in the widgets of SettingsDialog
    test_in_progress,
    shown,             \* what TestServerDialog shows
    gui_queue,         \* events posted to the GUI thread
    started,           \* tests started; the last one is the one on display
    mutex,             \* the test that holds db_connector_->Mutex()
    test,              \* test[i]: the part of SettingsDialog::Connect to run next
    verdict,           \* verdict[i]: the DBConnectResult
    \* history variables
    named,             \* named[i]: the settings test i was started for
    tested,            \* tested[i]: the settings it read
    shown_of,          \* the test whose verdict is shown, or Nobody
    hurried            \* the last test was not left alone until it was over

poolVars == <<mutex, test, verdict, tested>>
dialogVars == <<form, test_in_progress, shown, started, named, shown_of, hurried>>
vars == <<dialogVars, gui_queue, poolVars>>

Forms == Settings \cup {Incomplete}
Verdicts == {"success", "failure"}
Event == [type : {"ConnectionSuccess", "ConnectionFailure", "ConnectFinished"},
          test : Tests]

Init ==
    /\ form \in Forms
    /\ test_in_progress = FALSE /\ shown = "nothing" /\ shown_of = Nobody
    /\ gui_queue = <<>> /\ started = 0 /\ mutex = Nobody
    /\ test = [i \in Tests |-> "none"] /\ verdict = [i \in Tests |-> "none"]
    /\ named = [i \in Tests |-> Incomplete] /\ tested = [i \in Tests |-> Incomplete]
    /\ hurried = FALSE

------------------------------------------------------------------------------
(* The user, in the GUI thread *)

Over == gui_queue = <<>> /\ \A i \in Tests : test[i] \in {"none", "done"}

Edit ==
    /\ form' \in Forms \ {form}
    /\ hurried' = (hurried \/ ~Over)
    /\ UNCHANGED <<test_in_progress, shown, started, named, shown_of, gui_queue,
                   poolVars>>

\* SettingsDialog::TestServer; while a test is in progress it only raises the
\* window of TestServerDialog.
TestServer ==
    /\ ~test_in_progress /\ started < MaxTests
    /\ IF form = Incomplete
       THEN /\ shown' = "failure" /\ shown_of' = Nobody
            /\ hurried' = (hurried \/ ~Over)
            /\ UNCHANGED <<test_in_progress, started, named, test>>
       ELSE /\ test_in_progress' = TRUE
            /\ shown' = "connecting" /\ shown_of' = Nobody
            /\ started' = started + 1
            /\ named' = [named EXCEPT ![started'] = form]
            /\ test' = [test EXCEPT ![started'] = "start"]
            /\ hurried' = ~Over
    /\ UNCHANGED <<form, gui_queue, mutex, verdict, tested>>

------------------------------------------------------------------------------
(* A test in the thread pool: SettingsDialog::Connect *)

\* Mutant of Lock: the mutex is not waited for.
LockAnyway(i) ==
    /\ test[i] = "start"
    /\ mutex' = i
    /\ tested' = [tested EXCEPT ![i] = form]
    /\ test' = [test EXCEPT ![i] = "connect"]
    /\ UNCHANGED <<dialogVars, gui_queue, verdict>>

\* The mutex is taken, then the widgets are read.
Lock(i) ==
    /\ test[i] = "start" /\ mutex = Nobody
    /\ mutex' = i
    /\ tested' = [tested EXCEPT ![i] = form]
    /\ test' = [test EXCEPT ![i] = "connect"]
    /\ UNCHANGED <<dialogVars, gui_queue, verdict>>

\* Mutant of Signal: a failure is not told from a success.
SignalSuccess(i, v) == [type |-> "ConnectionSuccess", test |-> i]

Signal(i, v) ==
    [type |-> IF v = "success" THEN "ConnectionSuccess" ELSE "ConnectionFailure",
     test |-> i]

\* DBConnector::Connect: incomplete settings fail at once, others connect or
\* not; either way the signal is emitted twice.
Connect(i) ==
    /\ test[i] = "connect"
    /\ \E v \in IF tested[i] = Incomplete THEN {"failure"} ELSE Verdicts :
         /\ verdict' = [verdict EXCEPT ![i] = v]
         /\ gui_queue' = gui_queue \o <<Signal(i, v), Signal(i, v)>>
    /\ test' = [test EXCEPT ![i] = "unlock"]
    /\ UNCHANGED <<dialogVars, mutex, tested>>

\* The connection of a test is closed again, and the mutex released.
Unlock(i) ==
    /\ test[i] = "unlock"
    /\ mutex' = Nobody
    /\ test' = [test EXCEPT ![i] = "return"]
    /\ UNCHANGED <<dialogVars, gui_queue, verdict, tested>>

\* The future finishes and its watcher is told.
Finish(i) ==
    /\ test[i] = "return"
    /\ test' = [test EXCEPT ![i] = "done"]
    /\ gui_queue' = Append(gui_queue, [type |-> "ConnectFinished", test |-> i])
    /\ UNCHANGED <<dialogVars, mutex, verdict, tested>>

TestStep(i) == Lock(i) \/ Connect(i) \/ Unlock(i) \/ Finish(i)

------------------------------------------------------------------------------
(* Events handled by the GUI thread *)

\* Mutant of Show: the guard is inverted.
ShowIdle(i, v) ==
    IF ~test_in_progress
    THEN shown' = v /\ shown_of' = i /\ test_in_progress' = FALSE
    ELSE UNCHANGED <<shown, shown_of, test_in_progress>>

\* The verdict v of test i is shown if a test is in progress, whichever it is.
Show(i, v) ==
    IF test_in_progress
    THEN shown' = v /\ shown_of' = i /\ test_in_progress' = FALSE
    ELSE UNCHANGED <<shown, shown_of, test_in_progress>>

Receive(type) ==
    /\ gui_queue # <<>> /\ Head(gui_queue).type = type
    /\ gui_queue' = Tail(gui_queue)
    /\ UNCHANGED <<form, started, named, hurried, poolVars>>

\* Mutant of ConnectionSuccess: the flag stays up.
ConnectionSuccessGoesOn ==
    /\ Receive("ConnectionSuccess")
    /\ IF test_in_progress
       THEN shown' = "success" /\ shown_of' = Head(gui_queue).test
       ELSE UNCHANGED <<shown, shown_of>>
    /\ UNCHANGED test_in_progress

ConnectionSuccess ==
    Receive("ConnectionSuccess") /\ Show(Head(gui_queue).test, "success")
ConnectionFailure ==
    Receive("ConnectionFailure") /\ Show(Head(gui_queue).test, "failure")

ConnectFinished ==
    /\ Receive("ConnectFinished")
    /\ LET i == Head(gui_queue).test IN Show(i, verdict[i])

GuiStep == ConnectionSuccess \/ ConnectionFailure \/ ConnectFinished

Next == Edit \/ TestServer \/ GuiStep \/ \E i \in Tests : TestStep(i)

\* The pool has threads enough, a connection attempt ends (its timeout is four
\* seconds), and the event loop goes on.
Spec == /\ Init /\ [][Next]_vars
        /\ WF_vars(GuiStep) /\ \A i \in Tests : WF_vars(TestStep(i))

------------------------------------------------------------------------------
(* Properties *)

\* Every variable has its type; only the holder of the mutex is connecting.
TypeOK ==
    /\ form \in Forms /\ test_in_progress \in BOOLEAN /\ hurried \in BOOLEAN
    /\ shown \in {"nothing", "connecting"} \cup Verdicts
    /\ gui_queue \in Seq(Event) /\ started \in 0..MaxTests
    /\ mutex \in Tests \cup {Nobody} /\ shown_of \in Tests \cup {Nobody}
    /\ test \in [Tests -> {"none", "start", "connect", "unlock", "return", "done"}]
    /\ verdict \in [Tests -> Verdicts \cup {"none"}]
    /\ named \in [Tests -> Forms] /\ tested \in [Tests -> Forms]
    /\ \A i \in Tests : mutex = i <=> test[i] \in {"connect", "unlock"}

\* The window says that it is connecting exactly while a test is in progress:
\* none of the ways a test can be answered, or refused, leaves one without the
\* other.
ConnectingWhileInProgress == test_in_progress <=> shown = "connecting"

\* "Connection successful!" or the error is that of the test started last.  The
\* code breaks this when a test is started while reports of another are posted.
VerdictNotStale == shown_of # Nobody => shown_of = started

\* The verdict is of the settings that "Connecting to ..." named.  The code
\* breaks this when the dialog is edited before the test reads it.
VerdictOfNamed == shown_of # Nobody => tested[shown_of] = named[shown_of]

\* A user who started the last test when all others were over, and then left
\* the dialog alone, is shown the true outcome of that test, of the settings it
\* was started for, whatever the user's earlier haste.
VerdictIsOwn ==
    ~hurried => /\ VerdictNotStale /\ VerdictOfNamed
                /\ shown_of # Nobody => shown = verdict[shown_of]

\* A test that was started is answered, so that the next one can be.
TestEnds == test_in_progress ~> ~test_in_progress
=============================================================================
