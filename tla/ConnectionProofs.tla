-------------------------- MODULE ConnectionProofs --------------------------
(* Proofs about Connection, for every set of servers, logins and settings and *)
(* any number of saves and outages.                                           *)
EXTENDS Connection, TLAPS

\* What Posted and ShowStatus rely on: the first element of a queue is one, and
\* the rest is a queue with the same last element, if it has any.
LEMMA HeadTail ==
  ASSUME NEW S, NEW q \in Seq(S), q # <<>>
  PROVE  /\ Head(q) \in S /\ Tail(q) \in Seq(S)
         /\ Tail(q) = <<>> => Head(q) = q[Len(q)]
         /\ Tail(q) # <<>> => Tail(q)[Len(Tail(q))] = q[Len(q)]
<1>1. Head(q) \in S /\ Tail(q) \in Seq(S) /\ Len(q) \in Nat /\ Len(q) > 0
  OBVIOUS
<1>2. Len(Tail(q)) = Len(q) - 1 /\ \A k \in 1..Len(Tail(q)) : Tail(q)[k] = q[k + 1]
  OBVIOUS
<1>3. Head(q) = q[1]
  OBVIOUS
<1>4. ASSUME Tail(q) = <<>> PROVE Len(Tail(q)) = 0
  <2>1. Len(<<>>) = 0
    OBVIOUS
  <2> QED
    BY <1>4, <2>1, Zenon
<1>5. Tail(q) # <<>> => Len(Tail(q)) \in 1..Len(Tail(q))
  BY <1>1
<1> QED
  BY <1>1, <1>2, <1>3, <1>4, <1>5

\* What Emit and ConnectAsync rely on.
LEMMA AppendLast ==
  ASSUME NEW S, NEW q \in Seq(S), NEW x \in S
  PROVE  /\ Append(q, x) \in Seq(S) /\ Append(q, x) # <<>>
         /\ Append(q, x)[Len(Append(q, x))] = x
  OBVIOUS

\* Settings are records of two parts, and those saved and none are settings.
LEMMA SettingFacts ==
  /\ \A s \in Setting : /\ s.server \in Servers \cup {NoServer}
                        /\ s.login \in Logins \cup {NoLogin}
  /\ \A s, t \in Setting : s.server = t.server /\ s.login = t.login => s = t
  /\ \A s \in Savable : s \in Setting
  /\ NoSetting \in Setting
<1>1. \A s \in Setting : /\ s.server \in Servers \cup {NoServer}
                         /\ s.login \in Logins \cup {NoLogin}
  BY DEF Setting
<1>2. \A s, t \in Setting : s.server = t.server /\ s.login = t.login => s = t
  BY DEF Setting
<1>3. \A s \in Savable : s \in Setting
  BY SettingsAssumption
<1>4. NoSetting \in Setting
  BY DEF Setting, NoSetting
<1> QED
  BY <1>1, <1>2, <1>3, <1>4

------------------------------------------------------------------------------
\* The parts of the type invariant, by who writes the variables.
WorldType ==
    /\ up \subseteq Servers /\ outages \in 0..MaxOutages
    /\ settings \in Savable /\ saves \in 0..MaxSaves
WindowType ==
    /\ reload \in {"status server", "status login", "job server", "job login",
                   "connect", "done"}
    /\ connected \in BOOLEAN /\ shown \in Signal \cup {NoStatus}
ConfType == conf \in [Connectors -> Setting]
QueueType == calls \in Seq(Savable) /\ opening \in BOOLEAN /\ signals \in Seq(Signal)
HandleType == handle \in [Connectors -> Handle]
JobType == job \in Job

LEMMA TypeParts ==
  TypeOK <=> WorldType /\ WindowType /\ ConfType /\ QueueType /\ HandleType /\ JobType
  BY Zenon DEF TypeOK, WorldType, WindowType, ConfType, QueueType, HandleType, JobType

\* The members of the status connector are those saved, as far as they are
\* assigned, so that ConnectAsync posts settings that were saved together.
ConfFollows ==
    /\ reload = "status login" => conf["status"].server = settings.server
    /\ reload \notin {"status server", "status login"} => conf["status"] = settings

\* The servers that a job may come upon are among those seen.
JobSees ==
    job.phase # "idle" =>
      /\ settings.server \in job.seen /\ conf["job"].server \in job.seen
      /\ job.phase = "connect" => job.server \in job.seen
      /\ job.phase \in {"open", "unpack", "restore"} => handle["job"].of.server \in job.seen

\* The inductive invariant.
Inv == TypeOK /\ ConfFollows /\ StatusIsOfHandle /\ StatusNotTorn /\ JobSees

\* The initial states satisfy the invariant.
LEMMA InitInv == Init => Inv
<1> SUFFICES ASSUME Init PROVE Inv
  OBVIOUS
<1>1. /\ up = Servers /\ outages = 0 /\ settings \in Savable /\ saves = 0
      /\ reload = "status server" /\ connected = FALSE /\ shown = NoStatus
      /\ signals = <<>> /\ conf = [c \in Connectors |-> settings]
      /\ calls = <<>> /\ opening = FALSE
      /\ handle = [c \in Connectors |-> NoHandle] /\ job = NoJob
  BY Zenon DEF Init
<1>2. WorldType
  <2>1. up \subseteq Servers /\ settings \in Savable
    BY <1>1, Zenon
  <2>2. outages \in 0..MaxOutages /\ saves \in 0..MaxSaves
    <3>1. outages = 0 /\ saves = 0
      BY <1>1, Zenon
    <3> QED
      BY <3>1, ConnectionBounds
  <2> QED
    BY <2>1, <2>2, Zenon DEF WorldType
<1>3. WindowType
  <2>1. connected \in BOOLEAN
    BY <1>1, Zenon
  <2>2. shown \in Signal \cup {NoStatus}
    BY <1>1
  <2> QED
    BY <1>1, <2>1, <2>2, Zenon DEF WindowType
<1>4. ConfType
  BY <1>1, SettingFacts DEF ConfType
<1>5. QueueType
  <2>1. opening \in BOOLEAN
    BY <1>1, Zenon
  <2>2. calls \in Seq(Savable) /\ signals \in Seq(Signal)
    <3>1. calls = <<>> /\ signals = <<>>
      BY <1>1, Zenon
    <3> QED
      BY <3>1
  <2> QED
    BY <2>1, <2>2, Zenon DEF QueueType
<1>6. HandleType
  <2>1. NoHandle \in Handle
    BY SettingFacts DEF NoHandle, Handle
  <2> QED
    BY <1>1, <2>1 DEF HandleType
<1>7. JobType
  <2>1. NoJob \in Job
    BY DEF NoJob, Job
  <2> QED
    BY <1>1, <2>1 DEF JobType
<1>8. ConfFollows
  BY <1>1 DEF ConfFollows
<1>9. LastReport = NoStatus
  BY <1>1 DEF LastReport
<1>10. StatusIsOfHandle
  <2>1. NoStatus.type = "Nothing"
    BY DEF NoStatus
  <2> QED
    BY <1>1, <1>9, <2>1 DEF StatusIsOfHandle
<1>11. StatusNotTorn
  BY <1>1, <1>9 DEF StatusNotTorn, NoStatus, NoHandle, Connectors
<1>12. JobSees
  BY <1>1 DEF JobSees, NoJob
<1> QED
  BY <1>2, <1>3, <1>4, <1>5, <1>6, <1>7, <1>8, <1>10, <1>11, <1>12, TypeParts DEF Inv

------------------------------------------------------------------------------
\* What a connector's handle is after each way out of Connect.
LEMMA OpenedType == \A s \in Setting : Opened(s) \in Handle /\ Opened(s).of = s
<1> SUFFICES ASSUME NEW s \in Setting PROVE Opened(s) \in Handle /\ Opened(s).of = s
  OBVIOUS
<1>1. Opens(s) \in BOOLEAN
  BY Zenon DEF Opens
<1> QED
  BY <1>1 DEF Opened, Handle

LEMMA FoundType ==
  ASSUME HandleType, NEW c \in Connectors
  PROVE  Found(c) \in Handle
<1>1. handle[c] \in Handle /\ handle[c].of \in Setting
  BY DEF HandleType, Handle
<1> QED
  BY <1>1, OpenedType DEF Found

\* The handle of one connector is replaced by one of type Handle.
LEMMA HandleReplaced ==
  ASSUME HandleType, NEW c \in Connectors, NEW h \in Handle,
         handle' = [handle EXCEPT ![c] = h]
  PROVE  HandleType' /\ handle'[c] = h /\ \A d \in Connectors : d # c => handle'[d] = handle[d]
  BY DEF HandleType

LEMMA ReusesFacts ==
  ASSUME HandleType, NEW c \in Connectors, NEW s \in Setting, Reuses(c, s)
  PROVE  /\ HandleType' /\ handle'[c].open /\ handle'[c].of = s
         /\ \A d \in Connectors : d # c => handle'[d] = handle[d]
<1>1. Found(c).open /\ Found(c).of = s /\ handle' = [handle EXCEPT ![c] = Found(c)]
  BY Zenon DEF Reuses, IsSame
<1> QED
  BY <1>1, FoundType, HandleReplaced, Zenon

LEMMA ClosesFacts ==
  ASSUME HandleType, NEW c \in Connectors, NEW s \in Setting, Closes(c, s)
  PROVE  /\ HandleType' /\ handle'[c].of = s
         /\ \A d \in Connectors : d # c => handle'[d] = handle[d]
<1> DEFINE h == [NoHandle EXCEPT !.of = s]
<1>1. h \in Handle /\ h.of = s
  BY DEF NoHandle, Handle
<1>2. handle' = [handle EXCEPT ![c] = h]
  BY DEF Closes
<1> HIDE DEF h
<1> QED
  BY <1>1, <1>2, HandleReplaced, Zenon

LEMMA OpensFacts ==
  ASSUME HandleType, NEW c \in Connectors, OpensHandle(c)
  PROVE  /\ HandleType' /\ handle'[c].of = handle[c].of
         /\ \A d \in Connectors : d # c => handle'[d] = handle[d]
<1> DEFINE h == Opened(handle[c].of)
<1>1. handle[c].of \in Setting
  BY DEF HandleType, Handle
<1>2. h \in Handle /\ h.of = handle[c].of
  BY <1>1, OpenedType
<1>3. handle' = [handle EXCEPT ![c] = h]
  BY DEF OpensHandle
<1> HIDE DEF h
<1> QED
  BY <1>2, <1>3, HandleReplaced, Zenon

LEMMA ConnectorNames == "status" \in Connectors /\ "job" \in Connectors /\ "status" # "job"
  BY DEF Connectors

------------------------------------------------------------------------------
\* Each part of the invariant is kept by a step that leaves alone what it is of.
LEMMA StatusKept ==
  ASSUME StatusIsOfHandle, StatusNotTorn,
         UNCHANGED <<connected, shown, signals, opening>>,
         handle'["status"].of = handle["status"].of,
         handle'["status"].open = handle["status"].open
  PROVE  StatusIsOfHandle' /\ StatusNotTorn'
<1>1. LastReport' = LastReport
  BY Zenon DEF LastReport
<1>2. StatusIsOfHandle'
  BY <1>1, Zenon DEF StatusIsOfHandle
<1>3. StatusNotTorn'
  BY <1>1, Zenon DEF StatusNotTorn
<1> QED
  BY <1>2, <1>3

LEMMA JobSeesKept ==
  ASSUME JobSees, UNCHANGED <<settings, conf, job>>,
         handle'["job"].of = handle["job"].of
  PROVE  JobSees'
  BY Zenon DEF JobSees

LEMMA ConfKept ==
  ASSUME ConfFollows, UNCHANGED <<settings, conf, reload>>
  PROVE  ConfFollows'
  BY Zenon DEF ConfFollows

LEMMA Together ==
  ASSUME WorldType', WindowType', ConfType', QueueType', HandleType', JobType',
         ConfFollows', StatusIsOfHandle', StatusNotTorn', JobSees'
  PROVE  Inv'
<1>1. TypeOK'
  BY Zenon DEF TypeOK, WorldType, WindowType, ConfType, QueueType, HandleType, JobType
<1> QED
  BY <1>1, Zenon DEF Inv

\* Servers that stop and start keep the invariant.
LEMMA ServerStepInv == Inv /\ ServerStep => Inv'
<1> SUFFICES ASSUME Inv, ServerStep PROVE Inv'
  OBVIOUS
<1>1. PICK s \in Servers : ServerStops(s) \/ ServerStarts(s)
  BY DEF ServerStep
<1>2. UNCHANGED <<settings, saves, reload, connected, shown, calls, opening, signals, conf, job>>
  BY <1>1, Zenon DEF ServerStops, ServerStarts, guiVars, statusVars
<1>3. /\ HandleType'
      /\ \A c \in Connectors : /\ handle'[c].of = handle[c].of
                               /\ handle'[c].open = handle[c].open
  <2> DEFINE Dead(c) == [handle[c] EXCEPT !.alive = @ /\ handle[c].of.server # s]
  <2>1. HandleType
    BY TypeParts DEF Inv
  <2>2. CASE ServerStops(s)
    <3>1. handle' = [c \in Connectors |-> Dead(c)]
      BY <2>2 DEF ServerStops
    <3>2. ASSUME NEW c \in Connectors
          PROVE  /\ Dead(c) \in Handle /\ Dead(c).of = handle[c].of
                 /\ Dead(c).open = handle[c].open
      <4>1. handle[c] \in Handle
        BY <2>1 DEF HandleType
      <4>2. (handle[c].alive /\ handle[c].of.server # s) \in BOOLEAN
        BY Zenon
      <4> QED
        BY <4>1, <4>2 DEF Handle
    <3> HIDE DEF Dead
    <3>3. \A c \in Connectors : handle'[c] = Dead(c)
      BY <3>1
    <3>4. HandleType'
      BY <3>1, <3>2, Zenon DEF HandleType
    <3> QED
      BY <3>2, <3>3, <3>4, Zenon
  <2>3. CASE ServerStarts(s)
    <3>1. handle' = handle
      BY <2>3, Zenon DEF ServerStarts
    <3> QED
      BY <2>1, <3>1, Zenon DEF HandleType
  <2> QED
    BY <1>1, <2>2, <2>3
<1>4. WorldType'
  <2>1. WorldType
    BY TypeParts DEF Inv
  <2>2. CASE ServerStops(s)
    BY <1>2, <2>1, <2>2, ConnectionBounds DEF ServerStops, WorldType
  <2>3. CASE ServerStarts(s)
    BY <1>2, <2>1, <2>3 DEF ServerStarts, WorldType
  <2> QED
    BY <1>1, <2>2, <2>3
<1>5. WindowType' /\ ConfType' /\ QueueType' /\ JobType'
  BY <1>2, TypeParts, Zenon DEF Inv, WindowType, ConfType, QueueType, JobType
<1>6. ConfFollows' /\ JobSees' /\ StatusIsOfHandle' /\ StatusNotTorn'
  BY <1>2, <1>3, ConnectorNames, ConfKept, JobSeesKept, StatusKept, Zenon DEF Inv
<1> QED
  BY <1>3, <1>4, <1>5, <1>6, Together, Zenon

\* Saving settings keeps the invariant: a job under way has seen them.
LEMMA SaveInv == Inv /\ (\E s \in Savable : Save(s)) => Inv'
<1> SUFFICES ASSUME Inv, NEW s \in Savable, Save(s) PROVE Inv'
  OBVIOUS
<1>1. /\ settings' = s /\ reload' = "status server" /\ saves' = saves + 1
      /\ saves < MaxSaves
      /\ job' = IF job.phase = "idle" THEN job ELSE [job EXCEPT !.seen = @ \cup {s.server}]
      /\ UNCHANGED <<up, outages, connected, shown, calls, opening, signals, conf, handle>>
  BY Zenon DEF Save, statusVars
<1>2. WorldType /\ WindowType /\ ConfType /\ QueueType /\ HandleType /\ JobType
  BY TypeParts DEF Inv
<1>3. WorldType'
  <2>1. saves' = saves + 1 /\ saves < MaxSaves /\ saves \in 0..MaxSaves
    BY <1>1, <1>2, Zenon DEF WorldType
  <2>2. saves' \in 0..MaxSaves
    BY <2>1, ConnectionBounds
  <2> QED
    BY <1>1, <1>2, <2>2, Zenon DEF WorldType
<1>4. WindowType' /\ ConfType' /\ QueueType' /\ HandleType'
  BY <1>1, <1>2, Zenon DEF WindowType, ConfType, QueueType, HandleType
<1>5. s.server \in Servers \cup {NoServer}
  BY SettingFacts
<1>6. JobType'
  BY <1>1, <1>2, <1>5 DEF JobType, Job
<1>7. ConfFollows'
  BY <1>1 DEF ConfFollows
<1>8. JobSees'
  <2>1. CASE job.phase = "idle"
    BY <1>1, <2>1 DEF JobSees
  <2>2. CASE job.phase # "idle"
    <3>1. /\ job'.phase = job.phase /\ job'.server = job.server
          /\ job'.seen = job.seen \cup {s.server}
      BY <1>1, <1>2, <2>2 DEF JobType, Job
    <3> QED
      BY <1>1, <2>2, <3>1 DEF Inv, JobSees
  <2> QED
    BY <2>1, <2>2
<1>9. StatusIsOfHandle' /\ StatusNotTorn'
  BY <1>1, StatusKept, Zenon DEF Inv
<1> QED
  BY <1>3, <1>4, <1>6, <1>7, <1>8, <1>9, Together, Zenon

\* Reloading the members and posting a call keep the invariant: what is posted
\* was saved together.
LEMMA ReloadInv == Inv /\ (ReloadSettings \/ ConnectAsync) => Inv'
<1> SUFFICES ASSUME Inv, ReloadSettings \/ ConnectAsync PROVE Inv'
  OBVIOUS
<1>1. WorldType /\ WindowType /\ ConfType /\ QueueType /\ HandleType /\ JobType
  BY TypeParts DEF Inv
<1>2. settings \in Setting /\ settings \in Savable
  BY <1>1, SettingFacts DEF WorldType
<1>3. UNCHANGED <<up, outages, settings, saves, connected, shown, opening, signals, handle, job>>
  BY Zenon DEF ReloadSettings, ReloadServer, ReloadLogin, ConnectAsync, worldVars, statusVars
<1>4. WorldType' /\ HandleType' /\ JobType' /\ StatusIsOfHandle' /\ StatusNotTorn'
  BY <1>1, <1>3, StatusKept, Zenon DEF Inv, WorldType, HandleType, JobType
<1>5. WindowType'
  <2>1. reload' \in {"status login", "job server", "job login", "connect", "done"}
    BY DEF ReloadSettings, ReloadServer, ReloadLogin, ConnectAsync
  <2>2. reload' \in {"status server", "status login", "job server", "job login",
                    "connect", "done"}
    BY <2>1
  <2> QED
    BY <1>1, <1>3, <2>2, Zenon DEF WindowType
<1>6. CASE ConnectAsync
  <2>1. reload = "connect" /\ reload' = "done" /\ conf' = conf
        /\ calls' = Append(calls, conf["status"])
    BY <1>6 DEF ConnectAsync
  <2>2. conf["status"] = settings
    BY <2>1 DEF Inv, ConfFollows
  <2>3. calls' \in Seq(Savable)
    BY <1>1, <1>2, <2>1, <2>2 DEF QueueType
  <2>4. QueueType' /\ ConfType'
    BY <1>1, <1>3, <2>1, <2>3, Zenon DEF QueueType, ConfType
  <2>5. ConfFollows'
    BY <1>3, <2>1, <2>2 DEF ConfFollows
  <2>6. JobSees'
    BY <1>3, <2>1, JobSeesKept, Zenon DEF Inv
  <2> QED
    BY <1>4, <1>5, <2>4, <2>5, <2>6, Together, Zenon
<1>7. ASSUME NEW c \in Connectors, ReloadServer(c, reload, reload')
      PROVE  /\ ConfType' /\ QueueType' /\ JobSees' /\ conf'[c].server = settings.server
             /\ conf'[c].login = conf[c].login
             /\ \A d \in Connectors : d # c => conf'[d] = conf[d]
  <2>1. conf' = [conf EXCEPT ![c].server = settings.server] /\ calls' = calls
    BY <1>7 DEF ReloadServer, statusVars
  <2>2. ConfType' /\ conf'[c].server = settings.server /\ conf'[c].login = conf[c].login
    BY <1>1, <1>2, <2>1 DEF ConfType, Setting
  <2>3. \A d \in Connectors : d # c => conf'[d] = conf[d]
    BY <1>1, <2>1 DEF ConfType
  <2>4. conf'["job"].server \in {conf["job"].server, settings.server}
    BY <2>2, <2>3, ConnectorNames
  <2>5. JobSees'
    BY <1>3, <2>4 DEF Inv, JobSees
  <2> QED
    BY <1>1, <1>3, <2>1, <2>2, <2>3, <2>5, Zenon DEF QueueType
<1>8. ASSUME NEW c \in Connectors, ReloadLogin(c, reload, reload')
      PROVE  /\ ConfType' /\ QueueType' /\ JobSees' /\ conf'[c].login = settings.login
             /\ conf'[c].server = conf[c].server
             /\ \A d \in Connectors : d # c => conf'[d] = conf[d]
  <2>1. conf' = [conf EXCEPT ![c].login = settings.login] /\ calls' = calls
    BY <1>8 DEF ReloadLogin, statusVars
  <2>2. ConfType' /\ conf'[c].login = settings.login /\ conf'[c].server = conf[c].server
    BY <1>1, <1>2, <2>1 DEF ConfType, Setting
  <2>3. \A d \in Connectors : d # c => conf'[d] = conf[d]
    BY <1>1, <2>1 DEF ConfType
  <2>4. conf'["job"].server = conf["job"].server
    BY <2>2, <2>3, ConnectorNames
  <2>5. JobSees'
    BY <1>3, <2>4 DEF Inv, JobSees
  <2> QED
    BY <1>1, <1>3, <2>1, <2>2, <2>3, <2>5, Zenon DEF QueueType
<1>9. CASE ReloadServer("status", "status server", "status login")
  <2>1. reload = "status server" /\ reload' = "status login"
        /\ ReloadServer("status", reload, reload')
    BY <1>9, Zenon DEF ReloadServer
  <2>2. ConfFollows'
    BY <1>3, <1>7, <2>1, ConnectorNames DEF ConfFollows
  <2> QED
    BY <1>4, <1>5, <1>7, <2>1, <2>2, ConnectorNames, Together, Zenon
<1>10. CASE ReloadLogin("status", "status login", "job server")
  <2>1. reload = "status login" /\ reload' = "job server"
        /\ ReloadLogin("status", reload, reload')
    BY <1>10, Zenon DEF ReloadLogin
  <2>2. conf["status"].server = settings.server
    BY <2>1 DEF Inv, ConfFollows
  <2>3. conf'["status"] \in Setting
    BY <1>8, <2>1, ConnectorNames DEF ConfType
  <2>4. conf'["status"] = settings
    BY <1>2, <1>8, <2>1, <2>2, <2>3, SettingFacts, ConnectorNames
  <2>5. ConfFollows'
    BY <1>3, <2>1, <2>4 DEF ConfFollows
  <2> QED
    BY <1>4, <1>5, <1>8, <2>1, <2>5, ConnectorNames, Together, Zenon
<1>11. CASE ReloadServer("job", "job server", "job login")
  <2>1. reload = "job server" /\ reload' = "job login"
        /\ ReloadServer("job", reload, reload')
    BY <1>11, Zenon DEF ReloadServer
  <2>2. conf'["status"] = conf["status"]
    BY <1>7, <2>1, ConnectorNames
  <2>3. ConfFollows'
    BY <1>3, <2>1, <2>2 DEF Inv, ConfFollows
  <2> QED
    BY <1>4, <1>5, <1>7, <2>1, <2>3, ConnectorNames, Together, Zenon
<1>12. CASE ReloadLogin("job", "job login", "connect")
  <2>1. reload = "job login" /\ reload' = "connect"
        /\ ReloadLogin("job", reload, reload')
    BY <1>12, Zenon DEF ReloadLogin
  <2>2. conf'["status"] = conf["status"]
    BY <1>8, <2>1, ConnectorNames
  <2>3. ConfFollows'
    BY <1>3, <2>1, <2>2 DEF Inv, ConfFollows
  <2> QED
    BY <1>4, <1>5, <1>8, <2>1, <2>3, ConnectorNames, Together, Zenon
<1> QED
  BY <1>6, <1>9, <1>10, <1>11, <1>12, Zenon DEF ReloadSettings

------------------------------------------------------------------------------
\* What a posted report leaves true, when the connector's step has made it so.
LEMMA Reported ==
  ASSUME QueueType, NEW t \in {"Connecting", "ConnectionSuccess", "ConnectionFailure"},
         NEW s \in Setting, Emit(t, s)
  PROVE  signals' \in Seq(Signal) /\ LastReport' = [type |-> t, of |-> s]
<1> DEFINE e == [type |-> t, of |-> s]
<1>1. e \in Signal /\ signals \in Seq(Signal) /\ signals' = Append(signals, e)
  BY DEF Signal, QueueType, Emit
<1> HIDE DEF e
<1>2. /\ Append(signals, e) \in Seq(Signal) /\ Append(signals, e) # <<>>
      /\ Append(signals, e)[Len(Append(signals, e))] = e
  BY <1>1, AppendLast, Zenon
<1>3. LastReport' = e
  BY <1>1, <1>2, Zenon DEF LastReport
<1> QED
  BY <1>1, <1>2, <1>3, Zenon DEF e

\* The steps of the status connector's thread keep the invariant: each attempt
\* ends with a report of the handle that it leaves.
LEMMA StatusStepInv == Inv /\ (StatusConnect \/ StatusOpens) => Inv'
<1> SUFFICES ASSUME Inv, StatusConnect \/ StatusOpens PROVE Inv'
  OBVIOUS
<1>1. WorldType /\ WindowType /\ ConfType /\ QueueType /\ HandleType /\ JobType
  BY TypeParts DEF Inv
<1>2. UNCHANGED <<up, outages, settings, saves, reload, connected, shown, conf, job>>
  BY Zenon DEF StatusConnect, StatusOpens, worldVars, guiVars
<1>3. WorldType' /\ WindowType' /\ ConfType' /\ JobType' /\ ConfFollows'
  BY <1>1, <1>2, ConfKept, Zenon DEF Inv, WorldType, WindowType, ConfType, JobType
<1>4. connected' <=> shown'.type = "ConnectionSuccess"
  BY <1>2, Zenon DEF Inv, StatusIsOfHandle
\* A step need only show this of what it does.
<1>5. ASSUME HandleType', calls' \in Seq(Savable), signals' \in Seq(Signal),
             opening' \in BOOLEAN, handle'["job"].of = handle["job"].of,
             NEW t \in {"Connecting", "ConnectionSuccess", "ConnectionFailure"},
             NEW s \in Savable \cup {NoSetting},
             LastReport' = [type |-> t, of |-> s],
             handle'["status"].of \in Savable \cup {NoSetting},
             opening' => t = "Connecting" /\ handle'["status"].of = s,
             t = "ConnectionSuccess" => handle'["status"].open /\ handle'["status"].of = s
      PROVE  Inv'
  <2>1. LastReport'.type = t /\ LastReport'.of = s
    BY <1>5
  <2>2. opening' => LastReport' = [type |-> "Connecting", of |-> handle'["status"].of]
    BY <1>5, Zenon
  <2>3. StatusIsOfHandle'
    BY <1>4, <1>5, <2>1, <2>2, Zenon DEF StatusIsOfHandle
  <2>4. StatusNotTorn'
    BY <1>5, <2>1, Zenon DEF StatusNotTorn
  <2>5. JobSees'
    BY <1>2, <1>5, JobSeesKept, Zenon DEF Inv
  <2>6. QueueType'
    BY <1>5, Zenon DEF QueueType
  <2> QED
    BY <1>3, <1>5, <2>3, <2>4, <2>5, <2>6, Together, Zenon
<1>6. CASE StatusConnect
  <2> DEFINE s == Posted
  <2>1. calls # <<>> /\ calls' = Tail(calls) /\ calls \in Seq(Savable) /\ opening = FALSE
    BY <1>1, <1>6, Zenon DEF StatusConnect, QueueType
  <2>2. s \in Savable /\ calls' \in Seq(Savable)
    BY <2>1, HeadTail, Zenon DEF Posted
  <2>3. s \in Setting
    BY <2>2, SettingFacts, Zenon
  <2>4. handle["status"].of \in Savable \cup {NoSetting}
    BY DEF Inv, StatusNotTorn
  <2>5. \/ Refuses("status", s) /\ Emit("ConnectionFailure", s) /\ UNCHANGED opening
        \/ Reuses("status", s) /\ Emit("ConnectionSuccess", s) /\ UNCHANGED opening
        \/ Closes("status", s) /\ Emit("Connecting", s) /\ opening' = TRUE
    BY <1>6, Zenon DEF StatusConnect
  <2> HIDE DEF s
  <2>6. CASE Refuses("status", s) /\ Emit("ConnectionFailure", s) /\ UNCHANGED opening
    <3>1. handle' = handle /\ opening' = FALSE
      BY <2>1, <2>6, Zenon DEF Refuses
    <3>2. HandleType'
      BY <1>1, <3>1, Zenon DEF HandleType
    <3>3. signals' \in Seq(Signal) /\ LastReport' = [type |-> "ConnectionFailure", of |-> s]
      BY <1>1, <2>3, <2>6, Reported
    <3>4. "ConnectionFailure" # "ConnectionSuccess"
      OBVIOUS
    <3> QED
      BY <1>5, <2>2, <2>4, <3>1, <3>2, <3>3, <3>4, Zenon
  <2>7. CASE Reuses("status", s) /\ Emit("ConnectionSuccess", s) /\ UNCHANGED opening
    <3>1. /\ HandleType' /\ handle'["status"].open /\ handle'["status"].of = s
          /\ handle'["job"] = handle["job"]
      BY <1>1, <2>3, <2>7, ReusesFacts, ConnectorNames, Zenon
    <3>2. signals' \in Seq(Signal) /\ LastReport' = [type |-> "ConnectionSuccess", of |-> s]
      BY <1>1, <2>3, <2>7, Reported
    <3>3. opening' = FALSE
      BY <2>1, <2>7, Zenon
    <3> QED
      BY <1>5, <2>2, <3>1, <3>2, <3>3, Zenon
  <2>8. CASE Closes("status", s) /\ Emit("Connecting", s) /\ opening' = TRUE
    <3>1. /\ HandleType' /\ handle'["status"].of = s /\ handle'["job"] = handle["job"]
      BY <1>1, <2>3, <2>8, ClosesFacts, ConnectorNames, Zenon
    <3>2. signals' \in Seq(Signal) /\ LastReport' = [type |-> "Connecting", of |-> s]
      BY <1>1, <2>3, <2>8, Reported
    <3>3. opening' \in BOOLEAN /\ "Connecting" # "ConnectionSuccess"
      BY <2>8
    <3> QED
      BY <1>5, <2>2, <3>1, <3>2, <3>3, Zenon
  <2> QED
    BY <2>5, <2>6, <2>7, <2>8, Zenon
<1>7. CASE StatusOpens
  <2> DEFINE s == handle["status"].of
             t == IF handle'["status"].open THEN "ConnectionSuccess" ELSE "ConnectionFailure"
  <2>1. opening' = FALSE /\ calls' = calls /\ OpensHandle("status") /\ Emit(t, s)
    BY <1>7, Zenon DEF StatusOpens
  <2>2. s \in Savable \cup {NoSetting} /\ calls \in Seq(Savable)
    BY <1>1, Zenon DEF Inv, StatusNotTorn, QueueType
  <2>3. s \in Setting
    BY <2>2, SettingFacts
  <2>4. /\ HandleType' /\ handle'["status"].of = s /\ handle'["job"] = handle["job"]
    BY <1>1, <2>1, OpensFacts, ConnectorNames, Zenon
  <2>5. /\ t \in {"Connecting", "ConnectionSuccess", "ConnectionFailure"}
        /\ t = "ConnectionSuccess" => handle'["status"].open
    OBVIOUS
  <2> HIDE DEF s, t
  <2>6. signals' \in Seq(Signal) /\ LastReport' = [type |-> t, of |-> s]
    BY <1>1, <2>1, <2>3, <2>5, Reported
  <2> QED
    BY <1>5, <2>1, <2>2, <2>4, <2>5, <2>6, Zenon
<1> QED
  BY <1>6, <1>7

\* Showing a report keeps the invariant: the last one stays the last.
LEMMA ShowInv == Inv /\ ShowStatus => Inv'
<1> SUFFICES ASSUME Inv, ShowStatus PROVE Inv'
  OBVIOUS
<1>1. WorldType /\ WindowType /\ ConfType /\ QueueType /\ HandleType /\ JobType
  BY TypeParts DEF Inv
<1>2. UNCHANGED <<up, outages, settings, saves, reload, conf, calls, opening, handle, job>>
  BY Zenon DEF ShowStatus, worldVars
<1>3. /\ signals # <<>> /\ shown' = Head(signals) /\ signals' = Tail(signals)
      /\ connected' = (Head(signals).type = "ConnectionSuccess")
  BY Zenon DEF ShowStatus
<1>4. /\ Head(signals) \in Signal /\ signals' \in Seq(Signal)
      /\ signals' = <<>> => Head(signals) = signals[Len(signals)]
      /\ signals' # <<>> => signals'[Len(signals')] = signals[Len(signals)]
  BY <1>1, <1>3, HeadTail, Zenon DEF QueueType
<1>5. LastReport' = LastReport
  BY <1>3, <1>4, Zenon DEF LastReport
<1>6. connected' \in BOOLEAN /\ (connected' <=> shown'.type = "ConnectionSuccess")
  BY <1>3, Zenon
<1>7. WindowType'
  <2>1. shown' \in Signal \cup {NoStatus}
    BY <1>3, <1>4, Zenon
  <2> QED
    BY <1>1, <1>2, <1>6, <2>1, Zenon DEF WindowType
<1>8. StatusIsOfHandle' /\ StatusNotTorn'
  BY <1>2, <1>5, <1>6, Zenon DEF Inv, StatusIsOfHandle, StatusNotTorn
<1>9. WorldType' /\ ConfType' /\ QueueType' /\ HandleType' /\ JobType' /\ ConfFollows' /\ JobSees'
  BY <1>1, <1>2, <1>4, ConfKept, JobSeesKept, Zenon
     DEF Inv, WorldType, ConfType, QueueType, HandleType, JobType
<1> QED
  BY <1>7, <1>8, <1>9, Together, Zenon

------------------------------------------------------------------------------
\* What a job's step may do to the job, and what it must leave true.
LEMMA JobStepKeeps ==
  ASSUME Inv, UNCHANGED <<jobFrame>>, HandleType', JobType', JobSees',
         handle'["status"] = handle["status"]
  PROVE  Inv'
<1>1. WorldType /\ WindowType /\ ConfType /\ QueueType
  BY TypeParts DEF Inv
<1>2. UNCHANGED <<up, outages, settings, saves, reload, connected, shown, calls,
                  opening, signals, conf>>
  BY Zenon DEF jobFrame, worldVars, guiVars, statusVars
<1>3. WorldType' /\ WindowType' /\ ConfType' /\ QueueType' /\ ConfFollows'
  BY <1>1, <1>2, ConfKept, Zenon DEF Inv, WorldType, WindowType, ConfType, QueueType
<1>4. StatusIsOfHandle' /\ StatusNotTorn'
  BY <1>2, StatusKept, Zenon DEF Inv
<1> QED
  BY <1>3, <1>4, Together, Zenon

\* A job with a connection has the type of a job.
LEMMA ConnectedFacts ==
  ASSUME JobType, HandleType'
  PROVE  /\ Connected \in Job /\ Connected.phase \in {"unpack", "restore"}
         /\ Connected.seen = job.seen
<1>1. handle'["job"].alive \in BOOLEAN
  BY ConnectorNames DEF HandleType, Handle
<1> QED
  BY <1>1 DEF JobType, Connected, Job

LEMMA NoJobFacts == NoJob \in Job /\ NoJob.phase = "idle"
  BY DEF NoJob, Job

\* A job's use of its connector keeps the invariant.
LEMMA JobStepInv == Inv /\ JobStep => Inv'
<1> SUFFICES ASSUME Inv, JobStep PROVE Inv'
  OBVIOUS
<1>1. ConfType /\ HandleType /\ JobType /\ settings \in Setting
  BY TypeParts, SettingFacts DEF Inv, WorldType
<1>2. UNCHANGED <<jobFrame>> /\ UNCHANGED settings /\ UNCHANGED conf
  BY Zenon DEF JobStep, StartJob, JobReads, JobConnects, JobOpens, JobUnpacks, JobEnds,
               jobFrame, worldVars
<1>3. /\ conf["job"] \in Setting /\ conf["job"].server \in Servers \cup {NoServer}
      /\ settings.server \in Servers \cup {NoServer}
  BY <1>1, SettingFacts, ConnectorNames DEF ConfType
<1>4. CASE StartJob
  <2>1. /\ job' = [NoJob EXCEPT !.phase = "read",
                                !.seen = {conf["job"].server, settings.server}]
        /\ handle' = handle
    BY <1>4, Zenon DEF StartJob
  <2>2. HandleType'
    BY <1>1, <2>1, Zenon DEF HandleType
  <2>3. /\ job' \in Job /\ job'.phase = "read"
        /\ job'.seen = {conf["job"].server, settings.server}
    BY <1>3, <2>1 DEF NoJob, Job
  <2>4. JobType' /\ JobSees'
    BY <1>2, <2>3 DEF JobType, JobSees
  <2> QED
    BY <1>2, <2>1, <2>2, <2>4, JobStepKeeps, Zenon
<1>5. CASE JobReads
  <2>1. /\ job.phase = "read" /\ handle' = handle
        /\ job' = [job EXCEPT !.phase = "connect", !.server = conf["job"].server]
    BY <1>5, Zenon DEF JobReads
  <2>2. HandleType'
    BY <1>1, <2>1, Zenon DEF HandleType
  <2>3. /\ job' \in Job /\ job'.phase = "connect"
        /\ job'.server = conf["job"].server /\ job'.seen = job.seen
    BY <1>1, <1>3, <2>1 DEF JobType, Job
  <2>4. JobType' /\ JobSees'
    BY <1>2, <2>1, <2>3 DEF Inv, JobType, JobSees
  <2> QED
    BY <1>2, <2>1, <2>2, <2>4, JobStepKeeps, Zenon
<1>6. CASE JobConnects
  <2> DEFINE s == [server |-> job.server, login |-> conf["job"].login]
  <2>1. /\ job.phase = "connect"
        /\ \/ Refuses("job", s) /\ job' = NoJob
           \/ Reuses("job", s) /\ job' = Connected
           \/ Closes("job", s) /\ job' = [job EXCEPT !.phase = "open"]
    BY <1>6, Zenon DEF JobConnects
  <2>2. s \in Setting /\ s.server = job.server
    BY <1>1, <1>3 DEF Setting, JobType, Job
  <2>3. /\ job.server \in job.seen /\ settings.server \in job.seen
        /\ conf["job"].server \in job.seen
    BY <2>1 DEF Inv, JobSees
  <2> HIDE DEF s
  <2>4. CASE Refuses("job", s) /\ job' = NoJob
    <3>1. handle' = handle
      BY <2>4 DEF Refuses
    <3>2. HandleType' /\ JobType' /\ JobSees'
      BY <1>1, <2>4, <3>1, NoJobFacts DEF HandleType, JobType, JobSees
    <3> QED
      BY <1>2, <3>1, <3>2, JobStepKeeps, Zenon
  <2>5. CASE Reuses("job", s) /\ job' = Connected
    <3>1. HandleType' /\ handle'["job"].of = s /\ handle'["status"] = handle["status"]
      BY <1>1, <2>2, <2>5, ReusesFacts, ConnectorNames, Zenon
    <3>2. job' \in Job /\ job'.phase \in {"unpack", "restore"} /\ job'.seen = job.seen
      BY <1>1, <2>5, <3>1, ConnectedFacts, Zenon
    <3>3. JobType' /\ JobSees'
      BY <1>2, <2>2, <2>3, <3>1, <3>2 DEF JobType, JobSees
    <3> QED
      BY <1>2, <3>1, <3>3, JobStepKeeps, Zenon
  <2>6. CASE Closes("job", s) /\ job' = [job EXCEPT !.phase = "open"]
    <3>1. HandleType' /\ handle'["job"].of = s /\ handle'["status"] = handle["status"]
      BY <1>1, <2>2, <2>6, ClosesFacts, ConnectorNames, Zenon
    <3>2. job' \in Job /\ job'.phase = "open" /\ job'.seen = job.seen
      BY <1>1, <2>6 DEF JobType, Job
    <3>3. JobType' /\ JobSees'
      BY <1>2, <2>2, <2>3, <3>1, <3>2 DEF JobType, JobSees
    <3> QED
      BY <1>2, <3>1, <3>3, JobStepKeeps, Zenon
  <2> QED
    BY <2>1, <2>4, <2>5, <2>6
<1>7. CASE JobOpens
  <2>1. /\ job.phase = "open" /\ OpensHandle("job")
        /\ job' = IF handle'["job"].open THEN Connected ELSE NoJob
    BY <1>7, Zenon DEF JobOpens
  <2>2. /\ HandleType' /\ handle'["job"].of = handle["job"].of
        /\ handle'["status"] = handle["status"]
    BY <1>1, <2>1, OpensFacts, ConnectorNames, Zenon
  <2>3. \/ job' = NoJob
        \/ job' \in Job /\ job'.phase \in {"unpack", "restore"} /\ job'.seen = job.seen
    BY <1>1, <2>1, <2>2, ConnectedFacts, Zenon
  <2>4. JobType' /\ JobSees'
    BY <1>2, <2>1, <2>2, <2>3, NoJobFacts DEF Inv, JobType, JobSees
  <2> QED
    BY <1>2, <2>2, <2>4, JobStepKeeps, Zenon
<1>8. CASE JobUnpacks
  <2>1. /\ job.phase = "unpack" /\ handle' = handle
        /\ job' = [job EXCEPT !.phase = "read", !.second = TRUE]
    BY <1>8, Zenon DEF JobUnpacks
  <2>2. HandleType'
    BY <1>1, <2>1, Zenon DEF HandleType
  <2>3. job' \in Job /\ job'.phase = "read" /\ job'.seen = job.seen
    BY <1>1, <2>1 DEF JobType, Job
  <2>4. JobType' /\ JobSees'
    BY <1>2, <2>1, <2>3 DEF Inv, JobType, JobSees
  <2> QED
    BY <1>2, <2>1, <2>2, <2>4, JobStepKeeps, Zenon
<1>9. CASE JobEnds
  <2>1. job' = NoJob /\ handle' = handle
    BY <1>9, Zenon DEF JobEnds
  <2>2. HandleType' /\ JobType' /\ JobSees'
    BY <1>1, <2>1, NoJobFacts DEF HandleType, JobType, JobSees
  <2> QED
    BY <1>2, <2>1, <2>2, JobStepKeeps, Zenon
<1> QED
  BY <1>4, <1>5, <1>6, <1>7, <1>8, <1>9 DEF JobStep

------------------------------------------------------------------------------
\* Every step keeps the invariant.
LEMMA StepInv == Inv /\ [Next]_vars => Inv'
<1> SUFFICES ASSUME Inv, [Next]_vars PROVE Inv'
  OBVIOUS
<1>1. CASE UNCHANGED vars
  <2>1. UNCHANGED <<up, outages, settings, saves, reload, connected, shown, calls,
                    opening, signals, conf, handle, job>>
    BY <1>1, Zenon DEF vars, worldVars, guiVars, statusVars
  <2>2. WorldType /\ WindowType /\ ConfType /\ QueueType /\ HandleType /\ JobType
    BY TypeParts DEF Inv
  <2>3. /\ WorldType' /\ WindowType' /\ ConfType' /\ QueueType' /\ HandleType' /\ JobType'
        /\ ConfFollows' /\ JobSees' /\ StatusIsOfHandle' /\ StatusNotTorn'
    BY <2>1, <2>2, ConfKept, JobSeesKept, StatusKept, Zenon
       DEF Inv, WorldType, WindowType, ConfType, QueueType, HandleType, JobType
  <2> QED
    BY <2>3, Together, Zenon
<1>2. CASE Next
  BY <1>2, ServerStepInv, SaveInv, ReloadInv, StatusStepInv, ShowInv, JobStepInv, Zenon
     DEF Next
<1> QED
  BY <1>1, <1>2

\* The members, the posted calls, the handles, the reports and the job agree in
\* every reachable state.
THEOREM ConnectionInvariant == Spec => []Inv
<1>1. Init => Inv
  BY InitInv
<1>2. Inv /\ [Next]_vars => Inv'
  BY StepInv
<1> QED
  BY <1>1, <1>2, PTL DEF Spec

\* Every variable keeps its type; what is posted was saved together.
THEOREM ConnectionTypeCorrect == Spec => []TypeOK
<1>1. Inv => TypeOK
  BY DEF Inv
<1> QED
  BY <1>1, ConnectionInvariant, PTL

\* The status line and the status connector's handle do not part, whatever is
\* saved and whichever servers go away during an attempt.
THEOREM StatusOfHandle == Spec => []StatusIsOfHandle
<1>1. Inv => StatusIsOfHandle
  BY DEF Inv
<1> QED
  BY <1>1, ConnectionInvariant, PTL

\* The status is never of settings that were not saved together, although the
\* members of the connector are written while its thread runs.
THEOREM NeverTorn == Spec => []StatusNotTorn
<1>1. Inv => StatusNotTorn
  BY DEF Inv
<1> QED
  BY <1>1, ConnectionInvariant, PTL

\* A job unpacks and restores on a server that was in the settings while it ran.
THEOREM JobServer == Spec => []JobServerIsCurrent
<1>1. Inv => JobServerIsCurrent
  BY DEF Inv, JobSees, JobServerIsCurrent
<1> QED
  BY <1>1, ConnectionInvariant, PTL
=============================================================================
