------------------------- MODULE BakFileScanProofs --------------------------
(* Proofs about BakFileScan, for every set of paths and names, any number of   *)
(* changes, and all sizes: the rows of the list stay in step with files_.      *)
EXTENDS BakFileScan, WellFoundedInduction, TLAPS

------------------------------------------------------------------------------
(* What induction on the events under way rests on *)

Lesser == {pair \in Nat \X Nat : pair[1] < pair[2]}

\* Any set of natural numbers that is not empty has a least one.
LEMMA Least ==
  ASSUME NEW S \in SUBSET Nat, S # {}
  PROVE  \E m \in S : \A n \in S : m <= n
<1>1. IsWellFoundedOn(Lesser, Nat)
  <2>1. OpToRel(<, Nat) = Lesser
    BY DEF OpToRel, Lesser
  <2> QED
    BY <2>1, NatLessThanWellFounded, Zenon
<1>2. PICK m \in S : \A n \in S : <<n, m>> \notin Lesser
  BY <1>1, WFMin, Zenon
<1>3. \A n \in S : ~(n < m)
  BY <1>2 DEF Lesser
<1> QED
  BY <1>3

------------------------------------------------------------------------------
(* Rows and events *)

Event == FileEvent \cup StateEvent

\* Rows in which no file is listed twice.
Once == [Names -> {0, 1}]

\* An event adds no file that has a row.
Fits(r, e) == e.type = "AddedFiles" => \A f \in e.names : r[f] = 0

\* The rows on the way from r to t by the events of q.
Way(h, r, q, t) ==
    /\ h \in [0..Len(q) -> Once] /\ h[0] = r /\ h[Len(q)] = t
    /\ \A n \in 1..Len(q) : Fits(h[n - 1], q[n]) /\ h[n] = Apply(h[n - 1], q[n])

\* The events of q lead from r to t, none of them adding a file twice.
Leads(r, q, t) == \E h \in [0..Len(q) -> Once] : Way(h, r, q, t)

LEMMA ApplyOnce ==
  ASSUME NEW r \in Once, NEW e \in Event, Fits(r, e)
  PROVE  Apply(r, e) \in Once
  BY DEF Apply, Added, Deleted, Once, Fits

\* Posting an event.
LEMMA LeadsAppend ==
  ASSUME NEW r, NEW q \in Seq(Event), NEW t, Leads(r, q, t),
         NEW e \in Event, Fits(t, e)
  PROVE  Leads(r, Append(q, e), Apply(t, e))
<1>1. PICK h \in [0..Len(q) -> Once] : Way(h, r, q, t)
  BY DEF Leads
<1> DEFINE n == Len(q)
           longer == Append(q, e)
           k == [m \in 0..(n + 1) |-> IF m <= n THEN h[m] ELSE Apply(t, e)]
<1>2. n \in Nat /\ Len(longer) = n + 1 /\ longer[n + 1] = e /\ longer \in Seq(Event)
      /\ \A m \in 1..n : longer[m] = q[m]
  OBVIOUS
<1>3. t \in Once /\ h[n] = t /\ h[0] = r
      /\ \A m \in 1..n : Fits(h[m - 1], q[m]) /\ h[m] = Apply(h[m - 1], q[m])
  BY <1>1 DEF Way
<1>4. Apply(t, e) \in Once
  BY <1>3, ApplyOnce
<1> HIDE DEF n, longer
<1>5. k \in [0..(n + 1) -> Once] /\ k[0] = r /\ k[n + 1] = Apply(t, e)
      /\ \A m \in 0..n : k[m] = h[m]
  <2>1. \A m \in 0..n : h[m] \in Once
    BY <1>1 DEF n
  <2> QED
    BY <1>2, <1>3, <1>4, <2>1
<1> HIDE DEF k
<1>6. ASSUME NEW m \in 1..(n + 1)
      PROVE  Fits(k[m - 1], longer[m]) /\ k[m] = Apply(k[m - 1], longer[m])
  <2>1. CASE m = n + 1
    BY <1>2, <1>3, <1>5, <2>1
  <2>2. CASE m # n + 1
    <3>1. m \in 1..n /\ m - 1 \in 0..n /\ m \in 0..n
      BY <1>2, <2>2
    <3> QED
      BY <1>2, <1>3, <1>5, <3>1
  <2> QED
    BY <2>1, <2>2
<1>7. Way(k, r, longer, Apply(t, e)) /\ k \in [0..Len(longer) -> Once]
  BY <1>2, <1>5, <1>6 DEF Way
<1> QED
  BY <1>7 DEF Leads, longer

\* Handling an event.
LEMMA LeadsTail ==
  ASSUME NEW r, NEW q \in Seq(Event), q # <<>>, NEW t, Leads(r, q, t)
  PROVE  /\ r \in Once /\ Fits(r, Head(q))
         /\ Leads(Apply(r, Head(q)), Tail(q), t)
<1>1. PICK h \in [0..Len(q) -> Once] : Way(h, r, q, t)
  BY DEF Leads
<1> DEFINE n == Len(q)
           rest == Tail(q)
           k == [m \in 0..(n - 1) |-> h[m + 1]]
<1>2. n \in Nat /\ n > 0 /\ Len(rest) = n - 1 /\ Head(q) = q[1]
      /\ \A m \in 1..(n - 1) : rest[m] = q[m + 1]
  OBVIOUS
<1>3. /\ h[n] = t /\ h[0] = r
      /\ \A m \in 0..n : h[m] \in Once
      /\ \A m \in 1..n : Fits(h[m - 1], q[m]) /\ h[m] = Apply(h[m - 1], q[m])
  BY <1>1 DEF Way
<1> HIDE DEF n, rest
<1>4. r \in Once /\ Fits(r, q[1]) /\ h[1] = Apply(r, q[1])
  BY <1>2, <1>3
<1>5. k \in [0..(n - 1) -> Once] /\ k[0] = h[1] /\ k[n - 1] = t
      /\ \A m \in 0..(n - 1) : k[m] = h[m + 1]
  BY <1>2, <1>3
<1> HIDE DEF k
<1>6. ASSUME NEW m \in 1..(n - 1)
      PROVE  Fits(k[m - 1], rest[m]) /\ k[m] = Apply(k[m - 1], rest[m])
  <2>1. m - 1 \in 0..(n - 1) /\ m \in 0..(n - 1) /\ m + 1 \in 1..n
        /\ (m - 1) + 1 = m /\ (m + 1) - 1 = m
    BY <1>2
  <2>2. k[m - 1] = h[m] /\ k[m] = h[m + 1] /\ rest[m] = q[m + 1]
    BY <1>2, <1>5, <2>1
  <2>3. Fits(h[m], q[m + 1]) /\ h[m + 1] = Apply(h[m], q[m + 1])
    BY <1>3, <2>1
  <2> QED
    BY <2>2, <2>3
<1>7. Way(k, Apply(r, Head(q)), rest, t) /\ k \in [0..Len(rest) -> Once]
  BY <1>2, <1>4, <1>5, <1>6 DEF Way
<1> QED
  BY <1>2, <1>4, <1>7 DEF Leads, rest

\* No events.
LEMMA LeadsNowhere ==
  ASSUME NEW r \in Once
  PROVE  Leads(r, <<>>, r)
<1> DEFINE h == [m \in 0..0 |-> r]
<1>1. Len(<<>>) = 0 /\ h \in [0..0 -> Once] /\ h[0] = r
  OBVIOUS
<1>2. Way(h, r, <<>>, r)
  BY <1>1 DEF Way
<1> QED
  BY <1>1, <1>2 DEF Leads

\* Where the events lead is what the rows are once all are handled: the way is
\* the only solution of the recursion.
LEMMA LeadsToReplayed ==
  ASSUME gui_queue \in Seq(Event), NEW t, Leads(rows, gui_queue, t)
  PROVE  Replayed = t
<1>1. PICK h \in [0..Len(gui_queue) -> Once] : Way(h, rows, gui_queue, t)
  BY DEF Leads
<1> DEFINE n == Len(gui_queue)
<1>2. n \in Nat /\ h[0] = rows /\ h[n] = t
      /\ \A m \in 1..n : h[m] = Apply(h[m - 1], gui_queue[m])
  BY <1>1 DEF Way
<1>3. h = [m \in 0..n |-> IF m = 0 THEN rows ELSE Apply(h[m - 1], gui_queue[m])]
  <2>1. \A m \in 0..n : h[m] = IF m = 0 THEN rows ELSE Apply(h[m - 1], gui_queue[m])
    BY <1>2
  <2> QED
    BY <2>1
<1>4. After = [m \in 0..n |-> IF m = 0 THEN rows ELSE Apply(After[m - 1], gui_queue[m])]
  BY <1>3 DEF After
<1> HIDE DEF n
<1>5. \A m \in 0..n : After[m] = h[m]
  <2> DEFINE apart == {m \in 0..n : After[m] # h[m]}
  <2>1. SUFFICES ASSUME apart # {} PROVE FALSE
    OBVIOUS
  <2>2. PICK m \in apart : \A l \in apart : m <= l
    <3>1. apart \in SUBSET Nat
      BY <1>2
    <3> HIDE DEF apart
    <3> QED
      BY <2>1, <3>1, Least
  <2>3. m \in 0..n /\ After[m] # h[m]
    BY <2>2
  <2>4. CASE m = 0
    <3>1. After[0] = rows
      BY <1>2, <1>4
    <3> QED
      BY <1>2, <2>3, <2>4, <3>1
  <2>5. CASE m # 0
    <3>1. m \in 1..n /\ m - 1 \in 0..n
      BY <1>2, <2>3, <2>5
    <3>2. After[m - 1] = h[m - 1]
      <4>1. m - 1 \notin apart
        BY <2>2, <2>3, <1>2
      <4> QED
        BY <3>1, <4>1
    <3>3. After[m] = Apply(After[m - 1], gui_queue[m])
      BY <1>4, <2>3, <2>5
    <3> QED
      BY <1>2, <2>3, <3>1, <3>2, <3>3
  <2> QED
    BY <2>4, <2>5
<1> QED
  BY <1>2, <1>5 DEF Replayed, n

\* Posting what is said of the window's state moves no rows.
LEMMA LeadsState ==
  ASSUME NEW r, NEW q \in Seq(Event), NEW t, Leads(r, q, t), NEW e \in StateEvent
  PROVE  Append(q, e) \in Seq(Event) /\ Leads(r, Append(q, e), t)
<1>1. e \in Event /\ e.type # "AddedFiles" /\ e.type # "DeletedFiles"
  BY DEF Event, StateEvent
<1>2. Fits(t, e) /\ Apply(t, e) = t
  BY <1>1 DEF Fits, Apply
<1>3. Leads(r, Append(q, e), Apply(t, e))
  BY <1>1, <1>2, LeadsAppend
<1> QED
  BY <1>1, <1>2, <1>3

\* The rows t once a signal with a list of files is handled.
Told(t, type, names) ==
    [f \in Names |-> IF f \in names /\ type = "AddedFiles" THEN 1
                     ELSE IF f \in names /\ type = "DeletedFiles" THEN 0 ELSE t[f]]

FileSignals == {"AddedFiles", "UpdatedFiles", "DeletedFiles"}

LEMMA LeadsFiles ==
  ASSUME NEW r, NEW q \in Seq(Event), NEW t \in Once, Leads(r, q, t),
         NEW type \in FileSignals, NEW names \in SUBSET Names,
         type = "AddedFiles" => \A f \in names : t[f] = 0
  PROVE  /\ q \o Files(type, names) \in Seq(Event)
         /\ Told(t, type, names) \in Once
         /\ Leads(r, q \o Files(type, names), Told(t, type, names))
<1>1. Told(t, type, names) \in Once
  BY DEF Told, Once
<1>2. CASE names = {}
  <2>1. Told(t, type, names) = t
    BY <1>2 DEF Told, Once
  <2>2. q \o Files(type, names) = q
    BY <1>2 DEF Files
  <2> QED
    BY <1>1, <2>1, <2>2
<1>3. CASE names # {}
  <2> DEFINE e == [type |-> type, names |-> names]
  <2>1. e \in Event /\ e.type = type /\ e.names = names
    BY DEF Event, FileEvent, FileSignals
  <2>2. q \o Files(type, names) = Append(q, e)
    <3>1. Files(type, names) = <<e>>
      BY <1>3 DEF Files
    <3> HIDE DEF e
    <3> QED
      BY <2>1, <3>1
  <2> HIDE DEF e
  <2>3. Fits(t, e)
    BY <2>1 DEF Fits
  <2>4. Apply(t, e) = Told(t, type, names)
    <3>1. CASE type = "AddedFiles"
      BY <2>1, <3>1 DEF Apply, Added, Told, Once
    <3>2. CASE type = "DeletedFiles"
      BY <2>1, <3>2 DEF Apply, Deleted, Told, Once
    <3>3. CASE type = "UpdatedFiles"
      BY <2>1, <3>3 DEF Apply, Told, Once
    <3> QED
      BY <3>1, <3>2, <3>3 DEF FileSignals
  <2>5. Leads(r, Append(q, e), Apply(t, e))
    BY <2>1, <2>3, LeadsAppend
  <2> QED
    BY <1>1, <2>1, <2>2, <2>4, <2>5
<1> QED
  BY <1>2, <1>3

------------------------------------------------------------------------------
(* The invariant *)

\* The parts of the type invariant, by who writes the variables.
DiskType ==
    /\ dirs \subseteq Paths /\ disk \in [Paths -> [Names -> File]]
    /\ saved \in Paths \cup {NoPath} /\ saving \in BOOLEAN /\ changes \in 0..MaxChanges

WatchType == watched \subseteq Paths /\ notified \subseteq Paths

BackendType ==
    /\ local_path \in Paths \cup {NoPath}
    /\ initialized \in BOOLEAN /\ cancel_requested \in BOOLEAN /\ timer \in BOOLEAN
    /\ backend_queue \in Seq({"ReloadSettings", "Scan"})

FilesType == files \in [Names -> {Unlisted} \cup 0..MaxSize]

ScanType == scan \in {Idle} \cup Scanning

GuiType ==
    /\ gui_queue \in Seq(Event)
    /\ rows \in [Names -> Nat] /\ file_load_error \in BOOLEAN

LEMMA TypeParts ==
  TypeOK <=> /\ DiskType /\ WatchType /\ BackendType /\ FilesType /\ ScanType
             /\ GuiType
  BY DEF TypeOK, DiskType, WatchType, BackendType, FilesType, ScanType, GuiType, Event

\* The files that the scan has added and not yet reported are listed, and will
\* not be dropped at its end.
AddedKept == \A f \in scan.added : f \in scan.kept /\ files[f] # Unlisted

\* The rows that the list is to have: the items of files_, but for those that a
\* first scan keeps back.
Target == [f \in Names |-> IF files[f] = Unlisted \/ f \in scan.added THEN 0 ELSE 1]

InStep == Leads(rows, gui_queue, Target)

Inv ==
    /\ DiskType /\ WatchType /\ BackendType /\ FilesType /\ ScanType /\ GuiType
    /\ AddedKept /\ InStep

LEMMA TargetOnce == Target \in Once
  BY DEF Target, Once

\* Most steps leave alone what the rows depend on.
LEMMA RowsUntouched ==
  ASSUME Inv, UNCHANGED <<files, gui_queue, rows, file_load_error>>,
         scan'.added = scan.added, scan'.kept = scan.kept
  PROVE  FilesType' /\ GuiType' /\ AddedKept' /\ InStep'
<1>1. FilesType' /\ GuiType' /\ AddedKept'
  BY DEF Inv, FilesType, GuiType, AddedKept
<1>2. Target' = Target
  BY DEF Target
<1>3. InStep'
  <2>1. rows' = rows /\ gui_queue' = gui_queue
    OBVIOUS
  <2> QED
    BY <1>2, <2>1 DEF Inv, InStep
<1> QED
  BY <1>1, <1>3

------------------------------------------------------------------------------
(* The disk and the settings *)

LEMMA NewFiles ==
  /\ NoFile \in File
  /\ [there |-> TRUE, size |-> 0, recent |-> TRUE] \in File
  BY BoundsAssumption DEF NoFile, File

\* What a step of the disk or the settings has to show: nothing of the backend
\* or the window changes but the watcher and the cancel flag.
LEMMA OutsideStep ==
  ASSUME Inv, DiskType', WatchType', BackendType',
         UNCHANGED <<files, scan, gui_queue, rows, file_load_error>>
  PROVE  Inv'
<1>1. scan' = scan /\ UNCHANGED <<files, gui_queue, rows, file_load_error>>
  OBVIOUS
<1>2. ScanType'
  BY <1>1 DEF Inv, ScanType
<1>3. FilesType' /\ GuiType' /\ AddedKept' /\ InStep'
  BY <1>1, RowsUntouched
<1> QED
  BY <1>2, <1>3 DEF Inv

LEMMA DiskStepKeeps ==
  ASSUME Inv, DiskStep
  PROVE  Inv'
<1> USE NewFiles DEF Inv, DiskType, WatchType
<1>1. PICK p \in Paths :
        \/ \E f \in Names : \/ CreateFile(p, f) \/ WriteFile(p, f)
                            \/ FileAges(p, f) \/ DeleteFile(p, f)
        \/ RemoveDir(p) \/ CreateDir(p)
  BY Zenon DEF DiskStep
<1>2. UNCHANGED <<saved, saving, backendVars, guiVars>>
  BY <1>1 DEF CreateFile, WriteFile, FileAges, DeleteFile, RemoveDir, CreateDir
<1>3. BackendType' /\ UNCHANGED <<files, scan, gui_queue, rows, file_load_error>>
  BY <1>2 DEF BackendType, backendVars, guiVars
<1>4. changes' \in 0..MaxChanges
  BY <1>1, BoundsAssumption DEF CreateFile, WriteFile, FileAges, DeleteFile, RemoveDir,
     CreateDir, Change
<1>5. WatchType'
  BY <1>1 DEF CreateFile, WriteFile, FileAges, DeleteFile, RemoveDir, CreateDir, Notify
<1>6. dirs' \subseteq Paths
  BY <1>1 DEF CreateFile, WriteFile, FileAges, DeleteFile, RemoveDir, CreateDir
<1>7. disk' \in [Paths -> [Names -> File]]
  <2>1. ASSUME NEW f \in Names, CreateFile(p, f) \/ DeleteFile(p, f)
        PROVE  disk' \in [Paths -> [Names -> File]]
    <3>1. PICK file \in File : disk' = [disk EXCEPT ![p][f] = file]
      BY <2>1 DEF CreateFile, DeleteFile
    <3> QED
      BY <3>1
  <2>2. ASSUME NEW f \in Names, WriteFile(p, f)
        PROVE  disk' \in [Paths -> [Names -> File]]
    <3>1. disk[p][f] \in File /\ disk[p][f].size < MaxSize
      BY <2>2 DEF WriteFile
    <3>2. disk[p][f].size \in 0..MaxSize
      BY <3>1 DEF File
    <3>3. disk[p][f].size + 1 \in 0..MaxSize
      BY <3>1, <3>2, BoundsAssumption
    <3>4. [disk[p][f] EXCEPT !.size = @ + 1] \in File
      BY <3>1, <3>3 DEF File
    <3> QED
      BY <2>2, <3>4 DEF WriteFile
  <2>3. ASSUME NEW f \in Names, FileAges(p, f)
        PROVE  disk' \in [Paths -> [Names -> File]]
    <3>1. [disk[p][f] EXCEPT !.recent = FALSE] \in File
      BY <2>3 DEF FileAges, File
    <3> QED
      BY <2>3, <3>1 DEF FileAges
  <2>4. CASE RemoveDir(p)
    BY <2>4 DEF RemoveDir
  <2>5. CASE CreateDir(p)
    BY <2>5 DEF CreateDir
  <2> QED
    BY <1>1, <2>1, <2>2, <2>3, <2>4, <2>5
<1>8. DiskType'
  BY <1>2, <1>4, <1>6, <1>7
<1> QED
  BY <1>3, <1>5, <1>8, OutsideStep

LEMMA SaveKeeps ==
  ASSUME Inv, NEW p \in Paths \cup {NoPath}, Save(p)
  PROVE  Inv'
<1>1. DiskType'
  BY BoundsAssumption DEF Inv, DiskType, Save, Change
<1>2. WatchType' /\ BackendType' /\ UNCHANGED <<files, scan, gui_queue, rows, file_load_error>>
  BY DEF Inv, WatchType, BackendType, Save, backendVars, guiVars
<1> QED
  BY <1>1, <1>2, OutsideStep

LEMMA ReloadSettingsAsyncKeeps ==
  ASSUME Inv, ReloadSettingsAsync
  PROVE  Inv'
<1>1. DiskType' /\ WatchType' /\ UNCHANGED <<files, scan, gui_queue, rows, file_load_error>>
  BY DEF Inv, DiskType, WatchType, ReloadSettingsAsync, guiVars
<1>2. BackendType'
  <2>1. cancel_requested' \in BOOLEAN
    BY DEF Inv, BackendType, ReloadSettingsAsync
  <2>2. backend_queue' \in Seq({"ReloadSettings", "Scan"})
    BY DEF Inv, BackendType, ReloadSettingsAsync
  <2> QED
    BY <2>1, <2>2 DEF Inv, BackendType, ReloadSettingsAsync
<1> QED
  BY <1>1, <1>2, OutsideStep

------------------------------------------------------------------------------
(* The backend *)

LEMMA ReloadSettingsKeeps ==
  ASSUME Inv, ReloadSettings
  PROVE  Inv'
<1>1. /\ backend_queue # <<>> /\ local_path' = saved /\ UNCHANGED diskVars
      /\ scan' = scan /\ timer' = timer /\ cancel_requested' = cancel_requested
      /\ rows' = rows /\ file_load_error' = file_load_error
  BY DEF ReloadSettings, Take, guiVars
<1>2. CASE saved = NoPath \/ saved # local_path
  <2>1. /\ watched' = (watched \ {local_path}) \cup Watchable
        /\ notified' = notified \cap watched'
        /\ gui_queue' = IF saved \in dirs THEN gui_queue
                        ELSE Append(gui_queue, [type |-> "LoadError"])
        /\ initialized' = FALSE /\ files' = files
        /\ backend_queue' = Append(Tail(backend_queue), "Scan")
    BY <1>2 DEF ReloadSettings, Rescan
  <2>2. DiskType' /\ WatchType'
    BY <1>1, <2>1 DEF Inv, DiskType, WatchType, Watchable, diskVars
  <2>3. BackendType'
    <3>1. Tail(backend_queue) \in Seq({"ReloadSettings", "Scan"})
      BY <1>1 DEF Inv, BackendType
    <3>2. Append(Tail(backend_queue), "Scan") \in Seq({"ReloadSettings", "Scan"})
      BY <3>1
    <3> QED
      BY <1>1, <2>1, <3>2 DEF Inv, DiskType, BackendType
  <2>4. [type |-> "LoadError"] \in StateEvent
    BY DEF StateEvent
  <2>5. gui_queue' \in Seq(Event) /\ Leads(rows, gui_queue', Target)
    BY <2>1, <2>4, LeadsState DEF Inv, InStep, GuiType
  <2>6. Target' = Target
    BY <1>1, <2>1 DEF Target
  <2>7. InStep'
    BY <1>1, <2>5, <2>6 DEF InStep
  <2>8. FilesType' /\ ScanType' /\ GuiType' /\ AddedKept'
    BY <1>1, <2>1, <2>5 DEF Inv, FilesType, ScanType, GuiType, AddedKept
  <2> QED
    BY <2>2, <2>3, <2>7, <2>8 DEF Inv
<1>3. CASE ~(saved = NoPath \/ saved # local_path)
  <2>1. /\ backend_queue' = Tail(backend_queue)
        /\ UNCHANGED <<watched, notified, initialized, files, gui_queue>>
    BY <1>3 DEF ReloadSettings
  <2>2. Tail(backend_queue) \in Seq({"ReloadSettings", "Scan"})
    BY <1>1 DEF Inv, BackendType
  <2>3. DiskType' /\ WatchType' /\ BackendType'
    BY <1>1, <2>1, <2>2 DEF Inv, DiskType, WatchType, BackendType, diskVars
  <2> QED
    BY <1>1, <2>1, <2>3, OutsideStep
<1> QED
  BY <1>2, <1>3

LEMMA DirectoryChangedKeeps ==
  ASSUME Inv, DirectoryChanged
  PROVE  Inv'
<1>1. PICK p \in notified : notified' = notified \ {p} /\ timer' = (timer \/ p = local_path)
  BY DEF DirectoryChanged
<1>2. timer' \in BOOLEAN
  BY <1>1 DEF Inv, BackendType
<1>3. /\ DiskType' /\ WatchType' /\ BackendType'
      /\ UNCHANGED <<files, scan, gui_queue, rows, file_load_error>>
  BY <1>1, <1>2 DEF DirectoryChanged, Inv, DiskType, WatchType, BackendType, diskVars, guiVars
<1> QED
  BY <1>3, OutsideStep

\* No scan is under way but Idle.
LEMMA NoScan ==
  ASSUME ScanType, ~scan.on
  PROVE  scan = Idle
  BY DEF ScanType, Scanning

LEMMA BeginScanKeeps ==
  ASSUME Inv, BeginScan, BackendType'
  PROVE  Inv'
<1>1. /\ ~scan.on /\ gui_queue' = Append(gui_queue, [type |-> "ScanInProgress"])
      /\ UNCHANGED <<diskVars, files, watched, notified, rows, file_load_error>>
  BY DEF BeginScan, guiVars
<1>2. DiskType' /\ WatchType'
  BY <1>1 DEF Inv, DiskType, WatchType, diskVars
<1>3. scan = Idle
  BY <1>1, NoScan DEF Inv
<1>4. ScanType' /\ scan'.added = {} /\ scan'.kept = {}
  <2>1. PICK todo \in SUBSET Names :
          scan' = [todo |-> todo, file |-> None, kept |-> {}, added |-> {},
                   updated |-> {}, retrigger |-> FALSE,
                   error |-> local_path \notin dirs, on |-> TRUE]
    BY DEF BeginScan, Idle
  <2> QED
    BY <2>1 DEF ScanType, Scanning
<1>5. scan.added = {}
  BY <1>3 DEF Idle
<1>6. [type |-> "ScanInProgress"] \in StateEvent
  BY DEF StateEvent
<1>7. gui_queue' \in Seq(Event) /\ Leads(rows, gui_queue', Target)
  BY <1>1, <1>6, LeadsState DEF Inv, InStep, GuiType
<1>8. Target' = Target
  BY <1>1, <1>4, <1>5 DEF Target
<1>9. InStep'
  BY <1>1, <1>7, <1>8 DEF InStep
<1>10. FilesType' /\ GuiType' /\ AddedKept'
  BY <1>1, <1>4, <1>7 DEF Inv, FilesType, GuiType, AddedKept
<1> QED
  BY <1>2, <1>4, <1>9, <1>10 DEF Inv

LEMMA ScanCallKeeps ==
  ASSUME Inv, ScanPosted \/ ScanTimeout
  PROVE  Inv'
<1>1. BeginScan /\ local_path' = local_path /\ initialized' = initialized
      /\ cancel_requested' = FALSE
  BY DEF ScanPosted, ScanTimeout, BeginScan
<1>2. timer' \in BOOLEAN /\ backend_queue' \in Seq({"ReloadSettings", "Scan"})
  <2>1. CASE ScanPosted
    BY <2>1 DEF ScanPosted, Take, Inv, BackendType
  <2>2. CASE ScanTimeout
    BY <2>2 DEF ScanTimeout, Inv, BackendType
  <2> QED
    BY <2>1, <2>2
<1>3. BackendType'
  BY <1>1, <1>2 DEF Inv, BackendType
<1> QED
  BY <1>1, <1>3, BeginScanKeeps

\* What Scan() reads of a file.
LEMMA OnDiskFile ==
  ASSUME DiskType, NEW f \in Names
  PROVE  /\ OnDisk(f) \in File /\ OnDisk(f).size \in 0..MaxSize
         /\ OnDisk(f).recent \in BOOLEAN
<1>1. OnDisk(f) \in File
  BY NewFiles DEF OnDisk, DiskType
<1> QED
  BY <1>1 DEF File

\* A scan under way.
LEMMA UnderWay ==
  ASSUME ScanType, scan.on
  PROVE  scan \in Scanning
  BY DEF ScanType, Idle

LEMMA NextFileKeeps ==
  ASSUME Inv, NextFile
  PROVE  Inv'
<1>1. PICK f \in scan.todo :
         scan' = IF f \in TempNames THEN [scan EXCEPT !.todo = @ \ {f}]
                 ELSE [scan EXCEPT !.todo = @ \ {f}, !.file = f,
                                   !.retrigger = @ \/ OnDisk(f).recent]
  BY DEF NextFile
<1>2. scan \in Scanning
  BY UnderWay DEF Inv, NextFile
<1>3. f \in Names
  BY <1>2 DEF Scanning
<1>4. OnDisk(f).recent \in BOOLEAN
  BY <1>3, OnDiskFile DEF Inv
<1>5. ScanType' /\ scan'.added = scan.added /\ scan'.kept = scan.kept
  <2>1. (scan.retrigger \/ OnDisk(f).recent) \in BOOLEAN
    BY <1>4
  <2> QED
    BY <1>1, <1>2, <1>3, <2>1 DEF ScanType, Scanning
<1>6. DiskType' /\ WatchType' /\ BackendType'
      /\ UNCHANGED <<files, gui_queue, rows, file_load_error>>
  BY DEF Inv, DiskType, WatchType, BackendType, NextFile, diskVars, guiVars
<1>7. FilesType' /\ GuiType' /\ AddedKept' /\ InStep'
  BY <1>5, <1>6, RowsUntouched
<1> QED
  BY <1>5, <1>6, <1>7 DEF Inv

LEMMA ReadFileKeeps ==
  ASSUME Inv, ReadFile
  PROVE  Inv'
<1> DEFINE f == scan.file
           type == IF files[f] = Unlisted THEN "AddedFiles" ELSE "UpdatedFiles"
           told == Valid(f) /\ Differs(f)
<1>1. /\ files' = IF Valid(f) THEN [files EXCEPT ![f] = OnDisk(f).size] ELSE files
      /\ gui_queue' = IF told /\ initialized
                      THEN gui_queue \o Files(type, {f}) ELSE gui_queue
      /\ scan' = [scan EXCEPT
           !.file = None,
           !.kept = IF Valid(f) THEN @ \cup {f} ELSE @,
           !.added = IF told /\ ~initialized /\ type = "AddedFiles"
                     THEN @ \cup {f} ELSE @,
           !.updated = IF told /\ ~initialized /\ type = "UpdatedFiles"
                       THEN @ \cup {f} ELSE @]
  BY DEF ReadFile
<1>2. DiskType' /\ WatchType' /\ BackendType' /\ rows' = rows
      /\ file_load_error' = file_load_error
  BY DEF Inv, DiskType, WatchType, BackendType, ReadFile, diskVars, guiVars
<1>3. scan \in Scanning /\ f \in Names
  BY UnderWay DEF Inv, ReadFile, Scanning
<1>4. OnDisk(f).size \in 0..MaxSize /\ OnDisk(f).size # Unlisted
  <2>1. OnDisk(f).size \in 0..MaxSize
    BY <1>3, OnDiskFile DEF Inv
  <2> QED
    BY <2>1 DEF Unlisted
<1>5. ScanType'
  BY <1>1, <1>3 DEF ScanType, Scanning
<1>6. /\ scan'.kept = IF Valid(f) THEN scan.kept \cup {f} ELSE scan.kept
      /\ scan'.added = IF told /\ ~initialized /\ type = "AddedFiles"
                       THEN scan.added \cup {f} ELSE scan.added
  BY <1>1, <1>3 DEF Scanning
<1>7. files \in [Names -> {Unlisted} \cup 0..MaxSize] /\ FilesType'
  BY <1>1, <1>3, <1>4 DEF Inv, FilesType
<1>8. AddedKept'
  BY <1>1, <1>3, <1>4, <1>6, <1>7 DEF Inv, AddedKept
<1>9. files'[f] = (IF Valid(f) THEN OnDisk(f).size ELSE files[f])
      /\ \A g \in Names : g # f => files'[g] = files[g]
  BY <1>1, <1>3, <1>7
<1>10. f \in scan.added => files[f] # Unlisted
  BY DEF Inv, AddedKept
<1>11. Target \in Once /\ Leads(rows, gui_queue, Target) /\ gui_queue \in Seq(Event)
  BY TargetOnce DEF Inv, InStep, GuiType
<1>12. CASE told /\ initialized
  <2>1. gui_queue' = gui_queue \o Files(type, {f})
    BY <1>1, <1>12
  <2>2. type \in FileSignals /\ {f} \in SUBSET Names
    BY <1>3 DEF FileSignals
  <2>3. type = "AddedFiles" => \A g \in {f} : Target[g] = 0
    BY <1>3 DEF Target
  <2>4. /\ gui_queue' \in Seq(Event)
        /\ Leads(rows, gui_queue', Told(Target, type, {f}))
    <3> HIDE DEF f, type
    <3> QED
      BY <2>1, <2>2, <2>3, <1>11, LeadsFiles
  <2>5. Target' = Told(Target, type, {f})
    <3>1. \A g \in Names : Target'[g] = Told(Target, type, {f})[g]
      <4>1. scan'.added = scan.added /\ files'[f] # Unlisted
        BY <1>4, <1>6, <1>9, <1>12
      <4>2. Target'[f] = Told(Target, type, {f})[f]
        BY <4>1, <1>3, <1>10 DEF Target, Told
      <4>3. ASSUME NEW g \in Names, g # f PROVE Target'[g] = Told(Target, type, {f})[g]
        BY <4>1, <4>3, <1>9 DEF Target, Told
      <4> QED
        BY <4>2, <4>3
    <3> QED
      BY <3>1 DEF Target, Told
  <2>6. InStep' /\ GuiType'
    BY <1>2, <2>4, <2>5 DEF Inv, InStep, GuiType
  <2> QED
    BY <1>2, <1>5, <1>7, <1>8, <2>6 DEF Inv
<1>13. CASE ~(told /\ initialized)
  <2>1. gui_queue' = gui_queue
    BY <1>1, <1>13
  <2>2. Target' = Target
    <3>1. \A g \in Names : g # f => (g \in scan'.added <=> g \in scan.added)
      BY <1>6
    <3>2. (files'[f] = Unlisted \/ f \in scan'.added)
            <=> (files[f] = Unlisted \/ f \in scan.added)
      <4>1. CASE ~Valid(f)
        BY <4>1, <1>6, <1>9
      <4>2. CASE Valid(f) /\ ~Differs(f)
        BY <4>2, <1>6, <1>9 DEF Differs
      <4>3. CASE told /\ files[f] = Unlisted
        BY <4>3, <1>6, <1>9, <1>13
      <4>4. CASE told /\ files[f] # Unlisted
        BY <4>4, <1>4, <1>6, <1>9, <1>13
      <4> QED
        BY <4>1, <4>2, <4>3, <4>4
    <3> HIDE DEF f
    <3> QED
      BY <1>9, <3>1, <3>2 DEF Target
  <2>3. InStep' /\ GuiType'
    BY <1>2, <1>11, <2>1, <2>2 DEF Inv, InStep, GuiType
  <2> QED
    BY <1>2, <1>5, <1>7, <1>8, <2>3 DEF Inv
<1> QED
  BY <1>12, <1>13

\* The end of a scan: the files dropped are reported before those that a first
\* scan has kept back.
LEMMA EndScanKeeps ==
  ASSUME Inv, EndScan
  PROVE  Inv'
<1>1. /\ files' = [f \in Names |-> IF f \in Gone THEN Unlisted ELSE files[f]]
      /\ gui_queue' = gui_queue
           \o Files("DeletedFiles", Gone)
           \o Files("AddedFiles", scan.added)
           \o Files("UpdatedFiles", scan.updated)
           \o (IF scan.error THEN <<[type |-> "LoadError"]>> ELSE <<>>)
      /\ scan' = Idle
  BY DEF EndScan
<1>2. DiskType' /\ WatchType' /\ rows' = rows /\ file_load_error' = file_load_error
  BY DEF Inv, DiskType, WatchType, EndScan, diskVars, guiVars
<1>3. BackendType'
  <2>1. scan \in Scanning
    BY UnderWay DEF Inv, EndScan
  <2>2. Retrigger \in BOOLEAN
    BY <2>1 DEF Retrigger, Scanning, Inv, BackendType
  <2> QED
    BY <2>2 DEF Inv, BackendType, EndScan
<1>4. scan \in Scanning
  BY UnderWay DEF Inv, EndScan
<1>5. /\ scan.added \in SUBSET Names /\ scan.updated \in SUBSET Names
      /\ Gone \in SUBSET Names
  BY <1>4 DEF Scanning, Gone
<1>6. ScanType' /\ scan'.added = {}
  BY <1>1 DEF ScanType, Idle
<1>7. files \in [Names -> {Unlisted} \cup 0..MaxSize] /\ FilesType'
  BY <1>1 DEF Inv, FilesType
<1>8. AddedKept'
  BY <1>6 DEF AddedKept
<1>9. \A f \in scan.added : f \notin Gone /\ files[f] # Unlisted
  BY DEF Inv, AddedKept, Gone
<1> DEFINE dropped == Told(Target, "DeletedFiles", Gone)
           kept == Told(dropped, "AddedFiles", scan.added)
           changed == Told(kept, "UpdatedFiles", scan.updated)
           q1 == gui_queue \o Files("DeletedFiles", Gone)
           q2 == q1 \o Files("AddedFiles", scan.added)
           q3 == q2 \o Files("UpdatedFiles", scan.updated)
<1>10. Target \in Once /\ Leads(rows, gui_queue, Target) /\ gui_queue \in Seq(Event)
  BY TargetOnce DEF Inv, InStep, GuiType
<1>11. q1 \in Seq(Event) /\ dropped \in Once /\ Leads(rows, q1, dropped)
  BY <1>5, <1>10, LeadsFiles DEF FileSignals
<1>12. \A f \in scan.added : dropped[f] = 0
  BY <1>5 DEF Told, Target
<1> HIDE DEF q1, dropped
<1>13. q2 \in Seq(Event) /\ kept \in Once /\ Leads(rows, q2, kept)
  BY <1>5, <1>11, <1>12, LeadsFiles DEF FileSignals
<1> HIDE DEF q2, kept
<1>14. q3 \in Seq(Event) /\ changed \in Once /\ Leads(rows, q3, changed)
  BY <1>5, <1>13, LeadsFiles DEF FileSignals
<1> HIDE DEF q3, changed
<1>15. gui_queue' = q3 \o (IF scan.error THEN <<[type |-> "LoadError"]>> ELSE <<>>)
  BY <1>1 DEF q1, q2, q3
<1>16. gui_queue' \in Seq(Event) /\ Leads(rows, gui_queue', changed)
  <2>1. CASE scan.error
    <3> DEFINE e == [type |-> "LoadError"]
    <3>1. e \in StateEvent /\ e \in Event
      BY DEF StateEvent, Event
    <3> HIDE DEF e
    <3>2. gui_queue' = Append(q3, e)
      <4>1. gui_queue' = q3 \o <<e>>
        BY <1>15, <2>1 DEF e
      <4> QED
        BY <4>1, <3>1, <1>14
    <3> QED
      BY <1>14, <3>1, <3>2, LeadsState
  <2>2. CASE ~scan.error
    <3>1. gui_queue' = q3
      BY <1>14, <1>15, <2>2
    <3> QED
      BY <1>14, <3>1
  <2> QED
    BY <2>1, <2>2
<1>17. changed = Target'
  <2>1. ASSUME NEW f \in Names PROVE changed[f] = Target'[f]
    <3>1. Target'[f] = IF f \in Gone \/ files[f] = Unlisted THEN 0 ELSE 1
      BY <1>1, <1>6 DEF Target
    <3>2. changed[f] = IF f \in scan.added THEN 1 ELSE IF f \in Gone THEN 0 ELSE Target[f]
      BY DEF changed, kept, dropped, Told
    <3>3. f \notin scan.added => Target[f] = IF files[f] = Unlisted THEN 0 ELSE 1
      BY DEF Target
    <3> QED
      BY <3>1, <3>2, <3>3, <1>9
  <2> QED
    BY <2>1 DEF changed, Told, Target
<1>18. InStep' /\ GuiType'
  BY <1>2, <1>16, <1>17 DEF Inv, InStep, GuiType
<1> QED
  BY <1>2, <1>3, <1>6, <1>7, <1>8, <1>18 DEF Inv

------------------------------------------------------------------------------
(* The window *)

\* An event is handled: nothing but the rows follows it.
LEMMA ReceiveKeeps ==
  ASSUME Inv, NEW type, Receive(type), file_load_error' \in BOOLEAN,
         rows' = Apply(rows, Head(gui_queue))
  PROVE  Inv'
<1>1. /\ gui_queue # <<>> /\ gui_queue' = Tail(gui_queue)
      /\ UNCHANGED <<diskVars, local_path, initialized, cancel_requested, files,
                     watched, notified, timer, scan, backend_queue>>
  BY DEF Receive
<1>2. DiskType' /\ WatchType' /\ BackendType' /\ FilesType' /\ ScanType' /\ AddedKept'
  BY <1>1 DEF Inv, DiskType, WatchType, BackendType, FilesType, ScanType, AddedKept, diskVars
<1>3. gui_queue \in Seq(Event) /\ Leads(rows, gui_queue, Target)
  BY DEF Inv, InStep, GuiType
<1>4. /\ rows \in Once /\ Fits(rows, Head(gui_queue))
      /\ Leads(rows', gui_queue', Target)
  BY <1>1, <1>3, LeadsTail
<1>5. Head(gui_queue) \in Event /\ gui_queue' \in Seq(Event)
  BY <1>1, <1>3
<1>6. rows' \in Once
  BY <1>4, <1>5, ApplyOnce
<1>7. GuiType'
  BY <1>5, <1>6 DEF GuiType, Once
<1>8. Target' = Target
  BY <1>1 DEF Target
<1>9. InStep'
  BY <1>4, <1>8 DEF InStep
<1> QED
  BY <1>2, <1>7, <1>9 DEF Inv

LEMMA GuiStepKeeps ==
  ASSUME Inv, GuiStep
  PROVE  Inv'
<1>1. file_load_error \in BOOLEAN
  BY DEF Inv, GuiType
<1>2. CASE AddedFiles
  <2>1. /\ Receive("AddedFiles") /\ Head(gui_queue).type = "AddedFiles"
        /\ rows' = Added(rows, Head(gui_queue).names) /\ file_load_error' = file_load_error
    BY <1>2 DEF AddedFiles, Receive
  <2>2. rows' = Apply(rows, Head(gui_queue))
    BY <2>1 DEF Apply
  <2> QED
    BY <1>1, <2>1, <2>2, ReceiveKeeps
<1>3. CASE DeletedFiles
  <2>1. /\ Receive("DeletedFiles") /\ Head(gui_queue).type = "DeletedFiles"
        /\ rows' = Deleted(rows, Head(gui_queue).names) /\ file_load_error' = file_load_error
    BY <1>3 DEF DeletedFiles, Receive
  <2>2. rows' = Apply(rows, Head(gui_queue))
    BY <2>1 DEF Apply
  <2> QED
    BY <1>1, <2>1, <2>2, ReceiveKeeps
<1>4. CASE UpdatedFiles \/ ScanInProgress \/ FileLoadError
  <2>1. PICK type \in {"UpdatedFiles", "ScanInProgress", "LoadError"} :
          Receive(type) /\ rows' = rows /\ file_load_error' \in BOOLEAN
    BY <1>1, <1>4 DEF UpdatedFiles, ScanInProgress, FileLoadError, guiVars
  <2>2. Head(gui_queue).type = type
    BY <2>1 DEF Receive
  <2>3. rows' = Apply(rows, Head(gui_queue))
    BY <2>1, <2>2 DEF Apply
  <2> QED
    BY <2>1, <2>3, ReceiveKeeps
<1> QED
  BY <1>2, <1>3, <1>4 DEF GuiStep

------------------------------------------------------------------------------
LEMMA InitInv == Init => Inv
<1> SUFFICES ASSUME Init PROVE Inv
  OBVIOUS
<1>1. DiskType
  <2>1. /\ dirs = Paths /\ disk = [p \in Paths |-> [f \in Names |-> NoFile]]
        /\ saved \in Paths /\ saving = FALSE /\ changes = 0
    BY DEF Init
  <2>2. 0 \in 0..MaxChanges
    BY BoundsAssumption
  <2> QED
    BY <2>1, <2>2, NewFiles DEF DiskType
<1>2. WatchType /\ FilesType /\ ScanType
  BY DEF Init, WatchType, FilesType, ScanType
<1>3. BackendType /\ GuiType
  <2>1. /\ local_path = NoPath /\ initialized = FALSE /\ cancel_requested \in BOOLEAN
        /\ timer = FALSE /\ backend_queue = <<"ReloadSettings">> /\ gui_queue = <<>>
        /\ rows = [f \in Names |-> 0] /\ file_load_error = FALSE
    BY DEF Init
  <2>2. <<"ReloadSettings">> \in Seq({"ReloadSettings", "Scan"}) /\ <<>> \in Seq(Event)
    OBVIOUS
  <2> QED
    BY <2>1, <2>2 DEF BackendType, GuiType
<1>4. scan.added = {}
  BY DEF Init, Idle
<1>5. AddedKept
  BY <1>4 DEF AddedKept
<1>6. rows \in Once /\ Target = rows /\ gui_queue = <<>>
  BY <1>4 DEF Init, Once, Target
<1>7. InStep
  BY <1>6, LeadsNowhere, Zenon DEF InStep
<1> QED
  BY <1>1, <1>2, <1>3, <1>5, <1>7 DEF Inv

LEMMA StepInv ==
  ASSUME Inv, Next
  PROVE  Inv'
<1>1. CASE UserStep
  BY <1>1, SaveKeeps, ReloadSettingsAsyncKeeps, Zenon DEF UserStep
<1>2. CASE BackendStep
  BY <1>2, ReloadSettingsKeeps, DirectoryChangedKeeps, ScanCallKeeps, NextFileKeeps,
     ReadFileKeeps, EndScanKeeps, Zenon DEF BackendStep, ScanStep
<1> QED
  BY <1>1, <1>2, DiskStepKeeps, GuiStepKeeps, Zenon DEF Next

LEMMA StutterInv ==
  ASSUME Inv, UNCHANGED vars
  PROVE  Inv'
<1>1. /\ DiskType' /\ WatchType' /\ BackendType'
      /\ UNCHANGED <<files, scan, gui_queue, rows, file_load_error>>
  BY DEF vars, diskVars, guiVars, Inv, DiskType, WatchType, BackendType
<1> QED
  BY <1>1, OutsideStep

THEOREM ScanInvariant == Spec => []Inv
<1>1. Init => Inv
  BY InitInv
<1>2. Inv /\ [Next]_vars => Inv'
  BY StepInv, StutterInv, Zenon
<1> QED
  BY <1>1, <1>2, PTL DEF Spec

\* Every variable of the scanner, the watcher and the list has its type.
THEOREM ScanTypeCorrect == Spec => []TypeOK
<1>1. Inv => TypeOK
  BY TypeParts DEF Inv
<1> QED
  BY <1>1, ScanInvariant, PTL

\* The model is sent every item once when it comes and once when it goes, and no
\* file has two rows, however scans are broken off and paths change.
THEOREM RowsFollowFiles == Spec => []ListFollowsFiles
<1>1. ASSUME Inv PROVE ListFollowsFiles
  <2>1. gui_queue \in Seq(Event) /\ Leads(rows, gui_queue, Target)
    BY <1>1 DEF Inv, InStep, GuiType
  <2>2. Replayed = Target
    BY <2>1, LeadsToReplayed
  <2>3. rows \in Once
    <3>1. PICK h \in [0..Len(gui_queue) -> Once] : Way(h, rows, gui_queue, Target)
      BY <2>1 DEF Leads
    <3>2. 0 \in 0..Len(gui_queue)
      BY <2>1
    <3> QED
      BY <3>1, <3>2 DEF Way
  <2> QED
    BY <2>2, <2>3 DEF ListFollowsFiles, Target, Once
<1> QED
  BY <1>1, ScanInvariant, PTL
=============================================================================
