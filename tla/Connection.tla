----------------------------- MODULE Connection -----------------------------
(* The connections to SQL servers: the DBConnector of Application, whose     *)
(* connection the status line tells of, and the one of BackupBackend, which  *)
(* a restore job uses twice.                                                 *)
(*                                                                           *)
(* The GUI thread writes the members of both connectors when settings are    *)
(* saved.  The first connects in its own thread with values copied into the  *)
(* posted call; the other reads its members in the thread of the job, while  *)
(* they may be written.  A QSqlDatabase stays open, for the program, when    *)
(* the server or the link to it goes away.                                   *)
EXTENDS Integers, Sequences

CONSTANTS
    Servers, Logins,  \* a login is a user with a password, or a trusted one
    Savable,          \* settings that the user saves
    Accepted,         \* settings with which a running server lets one in
    MaxSaves,         \* bound: settings saved
    MaxOutages        \* bound: servers that go away

NoServer == "no server"
NoLogin == "no login"

\* What is read from QSettings by ReloadSettings: the drivers are left out.
Setting == [server : Servers \cup {NoServer}, login : Logins \cup {NoLogin}]
NoSetting == [server |-> NoServer, login |-> NoLogin]

ASSUME SettingsAssumption ==
    /\ Savable \subseteq Setting
    /\ Accepted \subseteq [server : Servers, login : Logins]
    /\ NoServer \notin Servers /\ NoLogin \notin Logins
ASSUME ConnectionBounds == MaxSaves \in Nat /\ MaxOutages \in Nat

VARIABLES
    \* external: the servers, and the settings file
    up,          \* the servers that run
    outages,     \* outages so far
    settings,    \* in QSettings
    saves,       \* saves so far
    \* the GUI thread
    reload,      \* what MainWindow::ReloadSettings does next
    connected,   \* connected_
    shown,       \* connection_status_
    signals,     \* signals of the first connector that are not handled yet
    \* the connectors
    conf,        \* conf[c]: the members of connector c
    calls,       \* calls of Connect posted to the first connector
    opening,     \* the first connector is within db.open()
    handle,      \* handle[c]: the QSqlDatabase of connector c in its thread
    job          \* the RestoreBackup() call of BackupBackend

guiVars == <<reload, connected, shown>>
statusVars == <<calls, opening, signals>>
worldVars == <<up, outages, settings, saves>>
vars == <<worldVars, guiVars, statusVars, conf, handle, job>>

------------------------------------------------------------------------------
Connectors == {"status", "job"}

\* A QSqlDatabase: the connection string it was last given, or NoSetting while
\* the name is not in connectionNames(); isOpen(); and whether the server still
\* knows of it, which the program does not see.
Handle == [of : Setting, open : BOOLEAN, alive : BOOLEAN]
NoHandle == [of |-> NoSetting, open |-> FALSE, alive |-> FALSE]

\* The status line tells of settings; the text of an error does not say which,
\* so `of` is a history variable for it.
Signal == [type : {"Connecting", "ConnectionSuccess", "ConnectionFailure"},
           of : Setting]
NoStatus == [type |-> "Nothing", of |-> NoSetting]

\* The second connection of a job is not told apart from the first but by
\* `second`.  server: the one it has read; seen: those that were in its members
\* or in the settings since the job began; checked: the server was there when
\* the connection was checked (history variables).
Job == [phase : {"idle", "read", "connect", "open", "unpack", "restore"},
        second : BOOLEAN, server : Servers \cup {NoServer},
        seen : SUBSET (Servers \cup {NoServer}), checked : BOOLEAN]
NoJob == [phase |-> "idle", second |-> FALSE, server |-> NoServer,
          seen |-> {}, checked |-> FALSE]

\* MainWindow's constructor reloads the settings that the connectors have read
\* in theirs.
Init ==
    /\ up = Servers /\ outages = 0
    /\ settings \in Savable /\ saves = 0
    /\ reload = "status server"
    /\ connected = FALSE /\ shown = NoStatus /\ signals = <<>>
    /\ conf = [c \in Connectors |-> settings]
    /\ calls = <<>> /\ opening = FALSE
    /\ handle = [c \in Connectors |-> NoHandle]
    /\ job = NoJob

------------------------------------------------------------------------------
(* External: the servers *)

\* A server stops, or the link to it: connections are not told.
ServerStops(s) ==
    /\ s \in up /\ outages < MaxOutages
    /\ up' = up \ {s}
    /\ outages' = outages + 1
    /\ handle' = [c \in Connectors |->
                    [handle[c] EXCEPT !.alive = @ /\ handle[c].of.server # s]]
    /\ UNCHANGED <<settings, saves, guiVars, statusVars, conf, job>>

ServerStarts(s) ==
    /\ s \notin up
    /\ up' = up \cup {s}
    /\ UNCHANGED <<outages, settings, saves, guiVars, statusVars, conf, handle, job>>

------------------------------------------------------------------------------
(* The GUI thread saves settings *)

\* SettingsDialog::Save emits SettingsChanged, on which ReloadSettings runs.
Save(s) ==
    /\ reload = "done" /\ saves < MaxSaves
    /\ settings' = s
    /\ saves' = saves + 1
    /\ reload' = "status server"
    /\ job' = IF job.phase = "idle" THEN job ELSE [job EXCEPT !.seen = @ \cup {s.server}]
    /\ UNCHANGED <<up, outages, connected, shown, statusVars, conf, handle>>

\* DBConnector::ReloadSettings, one member after another.
ReloadServer(c, step, next) ==
    /\ reload = step
    /\ conf' = [conf EXCEPT ![c].server = settings.server]
    /\ reload' = next
    /\ UNCHANGED <<worldVars, connected, shown, statusVars, handle, job>>

ReloadLogin(c, step, next) ==
    /\ reload = step
    /\ conf' = [conf EXCEPT ![c].login = settings.login]
    /\ reload' = next
    /\ UNCHANGED <<worldVars, connected, shown, statusVars, handle, job>>

\* MainWindow::ReloadSettings: the members of the first connector, by way of
\* BackupBackend::ReloadSettings those of the job's, then ConnectAsync.
ReloadSettings ==
    \/ ReloadServer("status", "status server", "status login")
    \/ ReloadLogin("status", "status login", "job server")
    \/ ReloadServer("job", "job server", "job login")
    \/ ReloadLogin("job", "job login", "connect")

\* Mutant of ConnectAsync: it is called while the members are being assigned.
ConnectAsyncEarly ==
    /\ \/ /\ reload = "status login" /\ reload' = "job server"
          /\ calls' = Append(calls, conf["status"])
          /\ conf' = [conf EXCEPT !["status"].login = settings.login]
       \/ /\ reload = "connect" /\ reload' = "done"
          /\ UNCHANGED <<calls, conf>>
    /\ UNCHANGED <<worldVars, connected, shown, opening, signals, handle, job>>

\* Mutant of ConnectAsync: nothing is done while there is a connection.
ConnectAsyncUnlessConnected ==
    /\ reload = "connect"
    /\ calls' = IF connected THEN calls ELSE Append(calls, conf["status"])
    /\ reload' = "done"
    /\ UNCHANGED <<worldVars, connected, shown, opening, signals, conf, handle, job>>

\* The values are copied into the call that is posted to the connector's thread.
ConnectAsync ==
    /\ reload = "connect"
    /\ calls' = Append(calls, conf["status"])
    /\ reload' = "done"
    /\ UNCHANGED <<worldVars, connected, shown, opening, signals, conf, handle, job>>

------------------------------------------------------------------------------
(* DBConnector::Connect, in the thread of either connector *)

Complete(s) == s.server # NoServer /\ s.login # NoLogin

\* External: QSqlDatabase::open() with the connection string of s.
Opens(s) == s \in Accepted /\ s.server \in up
Opened(s) == [of |-> s, open |-> Opens(s), alive |-> Opens(s)]

\* QSqlDatabase::database() opens a connection that it finds closed.
Found(c) == IF handle[c].open \/ handle[c].of = NoSetting THEN handle[c]
            ELSE Opened(handle[c].of)

\* Mutant of IsSame: an open connection will do, whatever it is to.
IsAny(c, s) == Found(c).open

\* The connection is open and its string is the one put together now.
IsSame(c, s) == Found(c).open /\ Found(c).of = s

\* Something is missing in the settings.
Refuses(c, s) == ~Complete(s) /\ UNCHANGED handle

\* The connection is handed out as it is.
Reuses(c, s) ==
    /\ Complete(s) /\ IsSame(c, s)
    /\ handle' = [handle EXCEPT ![c] = Found(c)]

\* It is closed and given the new string; it is opened in a step of its own,
\* which takes as long as the login timeout.
Closes(c, s) ==
    /\ Complete(s) /\ ~IsSame(c, s)
    /\ handle' = [handle EXCEPT ![c] = [NoHandle EXCEPT !.of = s]]

OpensHandle(c) == handle' = [handle EXCEPT ![c] = Opened(handle[c].of)]

------------------------------------------------------------------------------
(* The first connector's thread.  Each signal is emitted twice to make the   *)
(* window repaint; the second one changes nothing and is left out.           *)

Emit(type, s) == signals' = Append(signals, [type |-> type, of |-> s])

\* Mutant of Posted: the members are read when the call is run.
PostedLate == conf["status"]

\* The values that the call carries.
Posted == Head(calls)

StatusConnect ==
    /\ calls # <<>> /\ ~opening
    /\ \/ Refuses("status", Posted) /\ Emit("ConnectionFailure", Posted) /\ UNCHANGED opening
       \/ Reuses("status", Posted) /\ Emit("ConnectionSuccess", Posted) /\ UNCHANGED opening
       \/ Closes("status", Posted) /\ Emit("Connecting", Posted) /\ opening' = TRUE
    /\ calls' = Tail(calls)
    /\ UNCHANGED <<worldVars, guiVars, conf, job>>

StatusOpens ==
    /\ opening /\ opening' = FALSE
    /\ OpensHandle("status")
    /\ Emit(IF handle'["status"].open THEN "ConnectionSuccess" ELSE "ConnectionFailure",
            handle["status"].of)
    /\ UNCHANGED <<worldVars, guiVars, calls, conf, job>>

\* MainWindow::Connecting, ConnectionSuccess and ConnectionFailure.
ShowStatus ==
    /\ reload = "done" /\ signals # <<>>
    /\ connected' = (Head(signals).type = "ConnectionSuccess")
    /\ shown' = Head(signals)
    /\ signals' = Tail(signals)
    /\ UNCHANGED <<worldVars, reload, conf, calls, opening, handle, job>>

------------------------------------------------------------------------------
(* A job's use of the other connector: BackupBackend::Connect before a file is *)
(* unpacked and again before it is restored                                    *)

jobFrame == <<worldVars, guiVars, statusVars, conf>>

StartJob ==
    /\ job.phase = "idle"
    /\ job' = [NoJob EXCEPT !.phase = "read",
                            !.seen = {conf["job"].server, settings.server}]
    /\ UNCHANGED <<jobFrame, handle>>

\* Connect takes the members by reference: the server is read first here, and
\* the rest of them when it is looked whether something is missing.
JobReads ==
    /\ job.phase = "read"
    /\ job' = [job EXCEPT !.phase = "connect", !.server = conf["job"].server]
    /\ UNCHANGED <<jobFrame, handle>>

\* With a connection the job goes on; a connection that is there was checked if
\* the server would have answered.
Connected ==
    [job EXCEPT !.phase = IF job.second THEN "restore" ELSE "unpack",
                !.checked = handle'["job"].alive]

JobConnects ==
    /\ job.phase = "connect"
    /\ LET s == [server |-> job.server, login |-> conf["job"].login]
       IN  \/ Refuses("job", s) /\ job' = NoJob
           \/ Reuses("job", s) /\ job' = Connected
           \/ Closes("job", s) /\ job' = [job EXCEPT !.phase = "open"]
    /\ UNCHANGED jobFrame

JobOpens ==
    /\ job.phase = "open"
    /\ OpensHandle("job")
    /\ job' = IF handle'["job"].open THEN Connected ELSE NoJob
    /\ UNCHANGED jobFrame

\* The file is unpacked, or there was nothing to unpack.
JobUnpacks ==
    /\ job.phase = "unpack"
    /\ job' = [job EXCEPT !.phase = "read", !.second = TRUE]
    /\ UNCHANGED <<jobFrame, handle>>

\* The job fails, is cancelled, or comes to its end.
JobEnds ==
    /\ job.phase \in {"unpack", "restore"}
    /\ job' = NoJob
    /\ UNCHANGED <<jobFrame, handle>>

------------------------------------------------------------------------------
ServerStep == \E s \in Servers : ServerStops(s) \/ ServerStarts(s)

JobStep == StartJob \/ JobReads \/ JobConnects \/ JobOpens \/ JobUnpacks \/ JobEnds

Next ==
    \/ ServerStep
    \/ \E s \in Savable : Save(s)
    \/ ReloadSettings \/ ConnectAsync \/ ShowStatus
    \/ StatusConnect \/ StatusOpens
    \/ JobStep

\* The event loops go on, and an attempt to connect ends.
Spec == /\ Init /\ [][Next]_vars
        /\ WF_vars(ReloadSettings \/ ConnectAsync) /\ WF_vars(ShowStatus)
        /\ WF_vars(StatusConnect \/ StatusOpens)

------------------------------------------------------------------------------
(* Properties *)

\* Every variable has its type.
TypeOK ==
    /\ up \subseteq Servers /\ outages \in 0..MaxOutages
    /\ settings \in Savable /\ saves \in 0..MaxSaves
    /\ reload \in {"status server", "status login", "job server", "job login",
                   "connect", "done"}
    /\ connected \in BOOLEAN /\ shown \in Signal \cup {NoStatus}
    /\ signals \in Seq(Signal)
    /\ conf \in [Connectors -> Setting]
    /\ calls \in Seq(Savable) /\ opening \in BOOLEAN
    /\ handle \in [Connectors -> Handle]
    /\ job \in Job

\* The newest report of the first connector, handled or not.
LastReport == IF signals = <<>> THEN shown ELSE signals[Len(signals)]

\* The status line and the connection do not part: between attempts the newest
\* report is a success only if the connection is open and is the one reported,
\* and during an attempt it is "Connecting" with the settings tried; the Restore
\* button goes by a success that was shown.
StatusIsOfHandle ==
    /\ opening => LastReport = [type |-> "Connecting", of |-> handle["status"].of]
    /\ ~opening /\ LastReport.type = "ConnectionSuccess" =>
         handle["status"].open /\ handle["status"].of = LastReport.of
    /\ connected <=> shown.type = "ConnectionSuccess"

\* Although the members of DBConnector are written while its thread runs, the
\* status is never of settings that were not saved together, nor is its
\* connection.  (A job's connection can be.)
StatusNotTorn ==
    /\ handle["status"].of \in Savable \cup {NoSetting}
    /\ LastReport.of \in Savable \cup {NoSetting}

\* A job unpacks for, and restores on, a server that was in the settings or in
\* its connector's members while it ran, however long ago its connection was
\* opened.  Both its connections are to the same one if no settings are saved
\* meanwhile, and none of those saved before were still being loaded as it began.
JobServerIsCurrent ==
    job.phase \in {"unpack", "restore"} => handle["job"].of.server \in job.seen

\* When no more settings are saved, the status line comes to tell the outcome of
\* an attempt with the settings saved last, and stays so.
StatusSettles ==
    <>[](shown.of = settings /\ shown.type \in {"ConnectionSuccess", "ConnectionFailure"})

\* "Check Connection to the SQL server before uncompressing file": a job that
\* goes on to unpack had a server that answers when the connection was checked.
CheckedBeforeUnpacking == job.phase = "unpack" => job.checked
=============================================================================
