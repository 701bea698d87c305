----------------------------- MODULE RestoreJob -----------------------------
(* The calls of BackupBackend::RestoreBackup for one batch of backup files    *)
(* after another: each is the job that restores the databases of one file.   *)
(*                                                                           *)
(* Files are queued by name, as the user picks them from the list; a name    *)
(* meets the paths of the settings only while its job runs.  The job runs in *)
(* the backend thread from one RestoreCheckCancel to the next; the GUI       *)
(* thread may at any moment, between two jobs too, set the cancel flag or    *)
(* load other settings, every system call and SQL statement may fail, and    *)
(* the program may be killed.  The temporary file an archive is unpacked to  *)
(* is named at random, belongs to the job and is removed by a scope exit on  *)
(* every return; only whether the server finds it matters here.  The SQL     *)
(* server is not part of the repository: a database is what the statements   *)
(* of the job tell apart.  Assumed of the world outside: a file keeps its    *)
(* bytes from the moment it is picked to the end of its job.                 *)
EXTENDS Integers, Sequences, FiniteSets

CONSTANTS
    Databases,    \* names of databases on the server
    BackupFiles,  \* the backup files that can be selected, see BackupFile
    Chunks,       \* bound: chunks of kBufferChunkSize bytes in an archive
    Paths,        \* the pairs of local and remote path that can be set
    NoPath,       \* the name of the temporary file is empty
    MaxSelection  \* bound: files in a selection

\* A backup file as the job gets to know it: whether libmagic found a ZIP
\* archive, the state of the archive, the state of the backup in it, and the
\* database names by position (dbnames, a QMap, is walked in this order).
BackupFile ==
    [compressed : BOOLEAN,
     archive    : {"good", "incomplete", "empty", "corrupt"},
     backup     : {"full", "differential", "unreadable", "newer", "damaged",
                   "ambiguous"},
     dbnames    : Seq(Databases)]

\* A header that can be read names a database.
File == {f \in BackupFile : f.backup # "unreadable" => f.dbnames # <<>>}

ASSUME BackupFilesAssumption == BackupFiles \subseteq File
ASSUME ChunksAssumption == Chunks \in Nat
ASSUME PathsAssumption == NoPath \notin Paths
ASSUME SelectionAssumption == MaxSelection \in Nat \ {0}

\* What is found in a directory without a file of that name.
Missing == [compressed |-> FALSE, archive |-> "incomplete",
            backup |-> "unreadable", dbnames |-> <<>>]

VARIABLES
    phase,             \* the next part of RestoreBackup to run, or "idle"
                       \* between two jobs, or "dead" when the program is
    cancel_requested,  \* written by the GUI thread
    file,              \* the picked file, as the list knew it
    used,              \* the file whose bytes the job reads
    copied,            \* chunks of the archive written to the temporary file
    index,             \* position in dbnames of the database at hand
    exists,            \* the database was there before, and not RESTORING
    outcome,           \* what ScopedResult will report
    tmp_path,          \* the paths tmpfile_local was made from, or NoPath
    version_known,     \* server_version is not 0
    server,            \* the databases of the SQL server
    queued,            \* files of the batch whose jobs have not started
    path,              \* local_path_ and remote_path_ of the backend
    \* history variables
    home,              \* the paths under which the files of the batch lie
    strayed,           \* the job went by other paths than those of its files
    fault,             \* a system call or SQL statement failed in this job
    before             \* the databases when the job started

jobVars == <<phase, file, used, copied, index, exists, outcome>>
environment == <<tmp_path, version_known, queued, path, home, strayed, fault, before>>
vars == <<jobVars, cancel_requested, server, environment>>

------------------------------------------------------------------------------
(* External: the SQL server, as the statements of the job see it             *)

\* state_desc and user access of a database; content is the position of the
\* job's backup it was restored from, 0 while it is what it was before.
Database == [state   : {"absent", "online", "restoring"},
             access  : {"single", "multi"},
             content : Nat]

Healthy(db) == db.state = "online" /\ db.access = "multi"

\* External: ALTER DATABASE needs a database that is on line.
CanAlter(d) == server[d].state = "online"
\* External: RESTORE DATABASE ... REPLACE needs exclusive access, and a backup
\* that is not from a newer server.
Exclusive(d) == server[d].state = "online" => server[d].access = "single"
CanReplace(d) == Exclusive(d) /\ used.backup # "newer"

\* External: the effects of the three statements that change a database.
SetAccess(d, a) == [server EXCEPT ![d].access = a]
Restored(d, a) ==
    [server EXCEPT ![d] = [state |-> "online", access |-> a, content |-> index]]
HalfRestored(d) == [server EXCEPT ![d].state = "restoring"]

\* Databases as a first job may find them, after earlier failures too.
Initially ==
    {db \in [state : {"absent", "online", "restoring"},
             access : {"single", "multi"}, content : {0}] :
        db.access = "single" => db.state = "online"}

------------------------------------------------------------------------------
Init ==
    /\ phase = "idle" /\ cancel_requested = FALSE
    /\ file \in BackupFiles /\ used = file
    /\ copied = 0 /\ index = 1 /\ exists = FALSE
    /\ outcome = "none"
    /\ server \in [Databases -> Initially]
    /\ queued = 0 /\ path \in Paths /\ home = path /\ tmp_path = NoPath
    /\ version_known = FALSE /\ strayed = FALSE /\ fault = FALSE
    /\ before = server

\* Mutant of Checks: one more, between SET SINGLE_USER and the restore.
ChecksInBody ==
    {"paths", "connect", "source", "open", "copy", "reconnect", "version",
     "header", "verify", "syspaths", "filelist", "restore"}

\* Phases that begin with a RestoreCheckCancel.
Checks == {"paths", "connect", "source", "open", "copy", "reconnect", "version",
           "header", "verify", "syspaths", "filelist"}

\* After its last chunk the copy loop is left without another check.
CheckHere == phase \in Checks /\ (phase = "copy" => copied < Chunks)

\* The job reaches phase p and goes on past its check.
At(p) == phase = p /\ (CheckHere => ~cancel_requested)

dbname == used.dbnames[index]

Return(result) == phase' = "cleanup" /\ outcome' = result

------------------------------------------------------------------------------
(* The job, part by part *)

\* The user picks files from the list, which may still be that of paths set
\* before; there is no batch under way then.  A late cancel is left standing.
QueueRestores ==
    /\ phase = "idle" /\ queued = 0
    /\ queued' \in 1..MaxSelection
    /\ home' \in Paths
    /\ UNCHANGED <<jobVars, cancel_requested, tmp_path, version_known, server,
                   path, strayed, fault, before>>

\* The job of the next file of the batch; its locals are as LeaveJob says.
StartJob ==
    /\ phase = "idle" /\ queued > 0
    /\ phase' = "paths"
    /\ queued' = queued - 1
    /\ file' \in BackupFiles
    /\ used' = file'
    /\ UNCHANGED <<copied, index, exists, outcome, cancel_requested, tmp_path,
                   version_known, server, path, home, strayed, fault, before>>

\* RestoreCheckCancel
Cancelled ==
    /\ CheckHere /\ cancel_requested
    /\ Return("cancelled")
    /\ UNCHANGED <<file, used, copied, index, exists, cancel_requested,
                   server, environment>>

\* The paths are there and can be written: the name of the temporary file is
\* made from local_path_, and a file of that name is created and removed.
CheckPaths ==
    /\ At("paths")
    /\ phase' = "connect"
    /\ tmp_path' = path
    /\ UNCHANGED <<file, used, copied, index, exists, outcome, cancel_requested,
                   server, version_known, queued, path, home, strayed, fault,
                   before>>

\* The first connection, made before time is spent on unpacking.
Connect ==
    /\ At("connect")
    /\ phase' = "source"
    /\ UNCHANGED <<file, used, copied, index, exists, outcome,
                   cancel_requested, server, environment>>

\* The path of the source is put together from the name of the file and the
\* settings of this moment: unless they are those the file was picked under, it
\* may name any other file, or none.
Source == IF path = home THEN {file} ELSE BackupFiles \cup {Missing}

\* The settings of this moment are used.
GoByPath == /\ strayed' = (strayed \/ path # home)
            /\ UNCHANGED <<version_known, queued, path, home, before>>

\* A backup that is not compressed is read by the server where it lies; no
\* temporary file is needed.
UseBackupFile ==
    /\ At("source") /\ ~file.compressed
    /\ used' \in Source /\ GoByPath
    /\ tmp_path' = NoPath
    /\ phase' = "reconnect"
    /\ UNCHANGED <<file, copied, index, exists, outcome,
                   cancel_requested, server, fault>>

\* The bytes have no central directory at their end.
NoDirectory(f) == ~f.compressed \/ f.archive = "incomplete"

\* The end-of-central-directory signature is looked for in the last bytes of an
\* archive; a small archive goes on unread.
SearchTail ==
    /\ At("source") /\ file.compressed
    /\ used' \in Source /\ GoByPath
    /\ \/ phase' = "open" /\ UNCHANGED outcome
       \/ NoDirectory(used') /\ Return("failure")
    /\ UNCHANGED <<file, copied, index, exists, tmp_path, cancel_requested,
                   server, fault>>

OpenArchive ==
    /\ At("open")
    /\ IF NoDirectory(used) \/ used.archive = "empty"
       THEN Return("failure")
       ELSE phase' = "copy" /\ UNCHANGED outcome
    /\ UNCHANGED <<file, used, copied, index, exists, cancel_requested, server,
                   environment>>

CopyChunk ==
    /\ At("copy") /\ copied < Chunks
    /\ copied' = copied + 1
    /\ UNCHANGED <<phase, file, used, index, exists, outcome,
                   cancel_requested, server, environment>>

\* Mutant of Intact: the checksum is not compared.
AnyBytes == TRUE

\* The size and the CRC of what was copied are those the archive states.
Intact == used.archive = "good"

\* The unpacked file when its last bytes are lost: flush and close report
\* nothing, and what was counted and summed up is what was handed to them.
CutShort == {f \in {[used EXCEPT !.backup = b] : b \in {"unreadable", "damaged"}} :
                f \in File}

\* The server reads the unpacked file under remote_path_: if the paths changed
\* since the file was named, it need not be there.
FinishCopy ==
    /\ At("copy") /\ copied = Chunks
    /\ IF Intact
       THEN /\ phase' = "reconnect" /\ UNCHANGED outcome
            /\ \/ used' = used
               \/ used' \in CutShort
               \/ path # tmp_path /\ used' = Missing
            /\ strayed' = (strayed \/ path # tmp_path)
            /\ fault' = (fault \/ used' \in CutShort \ {used})
       ELSE Return("failure") /\ UNCHANGED <<used, strayed, fault>>
    /\ UNCHANGED <<file, copied, index, exists, cancel_requested, server,
                   tmp_path, version_known, queued, path, home, before>>

\* The connection the statements run on.
Reconnect ==
    /\ At("reconnect")
    /\ phase' = "version"
    /\ UNCHANGED <<file, used, copied, index, exists, outcome,
                   cancel_requested, server, environment>>

\* ProductMajorVersion, which is NULL on servers that do not know the property.
GetServerVersion ==
    /\ At("version")
    /\ phase' = "header"
    /\ version_known' \in BOOLEAN
    /\ UNCHANGED <<file, used, copied, index, exists, outcome, cancel_requested,
                   server, tmp_path, queued, path, home, strayed, fault, before>>

\* RESTORE HEADERONLY can read the file, which is no archive then, and shows
\* full backups only, one database per position, at least one of them named,
\* and no newer version than the server's, if that is known.
HeaderAccepted == /\ used.compressed = file.compressed
                  /\ \/ used.backup \in {"full", "damaged"}
                     \/ used.backup = "newer" /\ ~version_known

ReadHeader ==
    /\ At("header")
    /\ IF HeaderAccepted THEN phase' = "verify" /\ UNCHANGED outcome
       ELSE Return("failure")
    /\ UNCHANGED <<file, used, copied, index, exists, cancel_requested,
                   server, environment>>

\* RESTORE VERIFYONLY; that it complains of a newer backup is one of the errors
\* of Fails.
Verify ==
    /\ At("verify")
    /\ IF used.backup = "damaged" THEN Return("failure")
       ELSE phase' = "syspaths" /\ UNCHANGED outcome
    /\ UNCHANGED <<file, used, copied, index, exists, cancel_requested,
                   server, environment>>

\* DATA and LOG path of the server, and the loop's first database.
GetPaths ==
    /\ At("syspaths")
    /\ phase' = "filelist"
    /\ UNCHANGED <<file, used, copied, index, exists, outcome,
                   cancel_requested, server, environment>>

------------------------------------------------------------------------------
(* The loop over the databases of the backup *)

\* RESTORE FILELISTONLY: the logical names in the backup.
GetLogicalNames ==
    /\ At("filelist")
    /\ phase' = "exists"
    /\ UNCHANGED <<file, used, copied, index, exists, outcome,
                   cancel_requested, server, environment>>

\* Mutant of InUse: a database that is being restored counts as existing.
Known(d) == server[d].state # "absent"

\* sys.databases has the database in another state than RESTORING.
InUse(d) == server[d].state \notin {"absent", "restoring"}

CheckExists ==
    /\ At("exists")
    /\ exists' = InUse(dbname)
    /\ phase' = IF exists' THEN "single" ELSE "restore"
    /\ UNCHANGED <<file, used, copied, index, outcome,
                   cancel_requested, server, environment>>

\* ALTER DATABASE ... SET SINGLE_USER WITH ROLLBACK IMMEDIATE
SetSingleUser ==
    /\ At("single")
    /\ IF CanAlter(dbname)
       THEN /\ server' = SetAccess(dbname, "single")
            /\ phase' = "sysfiles" /\ UNCHANGED outcome
       ELSE Return("failure") /\ UNCHANGED server
    /\ UNCHANGED <<file, used, copied, index, exists, cancel_requested,
                   environment>>

\* SELECT filename FROM ...sysfiles
GetSystemFiles ==
    /\ At("sysfiles")
    /\ phase' = "restore"
    /\ UNCHANGED <<file, used, copied, index, exists, outcome,
                   cancel_requested, server, environment>>

\* RESTORE DATABASE ... REPLACE; the restored database comes with the access
\* the server gives it.
RestoreDatabase ==
    /\ At("restore")
    /\ IF CanReplace(dbname)
       THEN /\ \E a \in {"single", "multi"} : server' = Restored(dbname, a)
            /\ phase' = "rename" /\ UNCHANGED outcome
       ELSE Return("failure") /\ UNCHANGED server
    /\ UNCHANGED <<file, used, copied, index, exists, cancel_requested,
                   environment>>

\* ALTER DATABASE ... MODIFY FILE, up to three times each for data and log; the
\* job does not care whether it succeeds.
RenameLogicalFiles ==
    /\ At("rename")
    /\ phase' = "multi"
    /\ UNCHANGED <<file, used, copied, index, exists, outcome,
                   cancel_requested, server, environment>>

\* Mutants of AfterDatabase: one database too many; the loop stays at its
\* database.
OneDatabaseMore ==
    IF index <= Len(used.dbnames)
    THEN phase' = "filelist" /\ index' = index + 1 /\ UNCHANGED outcome
    ELSE Return("success") /\ UNCHANGED index
SameDatabase ==
    IF index < Len(used.dbnames)
    THEN phase' = "filelist" /\ UNCHANGED <<index, outcome>>
    ELSE Return("success") /\ UNCHANGED index

\* The end of the loop body: the next database, or success.
AfterDatabase ==
    IF index < Len(used.dbnames)
    THEN phase' = "filelist" /\ index' = index + 1 /\ UNCHANGED outcome
    ELSE Return("success") /\ UNCHANGED index

\* Mutant of SetMultiUser: the statement is sent only to a database that was
\* set to single user.
SetMultiUserIfSet ==
    /\ At("multi")
    /\ server' = IF exists THEN SetAccess(dbname, "multi") ELSE server
    /\ AfterDatabase
    /\ UNCHANGED <<file, used, copied, exists, cancel_requested,
                   environment>>

\* ALTER DATABASE ... SET MULTI_USER, for every database.
SetMultiUser ==
    /\ At("multi")
    /\ server' = SetAccess(dbname, "multi")
    /\ AfterDatabase
    /\ UNCHANGED <<file, used, copied, exists, cancel_requested,
                   environment>>

------------------------------------------------------------------------------
(* Failures and the end of the job *)

\* What a statement that reports a failure may have done all the same.
Remains ==
    CASE phase = "single"  -> {server, SetAccess(dbname, "single")}
      [] phase = "restore" /\ CanReplace(dbname) ->
           {server, HalfRestored(dbname)}
             \cup {Restored(dbname, a) : a \in {"single", "multi"}}
      [] phase = "multi"   -> {server, SetAccess(dbname, "multi")}
      [] OTHER             -> {server}

\* Mutant of Fails: an error of SET MULTI_USER is ignored.
FailsOrGoesOn ==
    /\ phase \notin {"idle", "cleanup", "rename", "dead"} /\ At(phase)
    /\ phase = "copy" => copied < Chunks
    /\ fault' = TRUE
    /\ server' \in Remains
    /\ IF phase = "multi" THEN AfterDatabase
       ELSE Return("failure") /\ UNCHANGED index
    /\ UNCHANGED <<file, used, copied, exists, cancel_requested, tmp_path,
                   version_known, queued, path, home, strayed, before>>

\* Any system call or statement but the renaming may fail: the job reports the
\* error and returns.
Fails ==
    /\ phase \notin {"idle", "cleanup", "rename", "dead"} /\ At(phase)
    /\ phase = "copy" => copied < Chunks
    /\ fault' = TRUE
    /\ server' \in Remains
    /\ Return("failure")
    /\ UNCHANGED <<file, used, copied, index, exists, cancel_requested, tmp_path,
                   version_known, queued, path, home, strayed, before>>

\* RestoreBackup returns, its locals are gone.
LeaveJob == copied' = 0 /\ index' = 1 /\ exists' = FALSE /\ tmp_path' = NoPath

\* Between two jobs: the next one starts from the databases as they are now.
BetweenJobs ==
    /\ phase' = "idle" /\ outcome' = "none" /\ used' = file
    /\ server' = [d \in Databases |-> [server[d] EXCEPT !.content = 0]]
    /\ before' = server'
    /\ version_known' = FALSE /\ strayed' = FALSE /\ fault' = FALSE

\* The scope exits remove the temporary file, then ~ScopedResult reports;
\* _RestoreFinished clears the flag when the batch ends.
Finish ==
    /\ phase = "cleanup"
    /\ LeaveJob /\ BetweenJobs
    /\ cancel_requested' = (cancel_requested /\ queued > 0)
    /\ UNCHANGED <<file, queued, path, home>>

JobStep == \/ Cancelled \/ CheckPaths \/ Connect \/ UseBackupFile \/ SearchTail
           \/ OpenArchive \/ CopyChunk \/ FinishCopy \/ Reconnect
           \/ GetServerVersion \/ ReadHeader \/ Verify \/ GetPaths
           \/ GetLogicalNames \/ CheckExists \/ SetSingleUser \/ GetSystemFiles
           \/ RestoreDatabase \/ RenameLogicalFiles \/ SetMultiUser \/ Fails
           \/ Finish

------------------------------------------------------------------------------
(* The GUI thread, and the end of the process *)

\* MainWindow::Cancel, also late, when the job has reported.
CancelRestore ==
    /\ phase # "dead" /\ ~cancel_requested
    /\ cancel_requested' = TRUE
    /\ UNCHANGED <<jobVars, server, environment>>

\* The settings dialog stays open to the user while files are picked and
\* restored; BackupBackend::ReloadSettings is a plain call from the GUI thread.
ReloadSettings ==
    /\ phase # "dead"
    /\ path' \in Paths \ {path}
    /\ UNCHANGED <<jobVars, cancel_requested, server, tmp_path, version_known,
                   queued, home, strayed, fault, before>>

\* The process dies, and the queue with it; the statement under way may have had
\* its effect.
Killed ==
    /\ phase # "dead"
    /\ phase' = "dead" /\ outcome' = "none"
    /\ server' \in Remains
    /\ LeaveJob
    /\ cancel_requested' = FALSE /\ queued' = 0
    /\ UNCHANGED <<file, used, version_known, path, home, strayed, fault, before>>

Restart ==
    /\ phase = "dead"
    /\ BetweenJobs
    /\ UNCHANGED <<file, copied, index, exists, tmp_path, cancel_requested, queued,
                   path, home>>

Next == \/ QueueRestores \/ StartJob \/ JobStep
        \/ CancelRestore \/ ReloadSettings \/ Killed \/ Restart

\* The backend thread goes on: every system call and statement returns.
Spec == Init /\ [][Next]_vars /\ WF_vars(JobStep)

------------------------------------------------------------------------------
(* Properties *)

LoopPhases == {"filelist", "exists", "single", "sysfiles", "restore", "rename",
               "multi"}

\* Every variable has its type, and in the loop index is a position of the
\* backup.
TypeOK ==
    /\ phase \in Checks \cup LoopPhases \cup {"cleanup", "idle", "dead"}
    /\ phase \in LoopPhases => index \in DOMAIN used.dbnames
    /\ cancel_requested \in BOOLEAN /\ exists \in BOOLEAN
    /\ file \in BackupFiles /\ used \in File
    /\ copied \in 0..Chunks /\ index \in Nat \ {0}
    /\ outcome \in {"none", "success", "failure", "cancelled"}
    /\ server \in [Databases -> Database] /\ before \in [Databases -> Database]
    /\ version_known \in BOOLEAN /\ strayed \in BOOLEAN /\ fault \in BOOLEAN
    /\ queued \in 0..MaxSelection
    /\ path \in Paths /\ home \in Paths /\ tmp_path \in Paths \cup {NoPath}

\* The file can be restored as far as its bytes are concerned.
Restorable(f) == (f.compressed => f.archive = "good") /\ f.backup = "full"

\* A good backup, but of a newer server.
TooNew(f) == (f.compressed => f.archive = "good") /\ f.backup = "newer"

\* Position i is the last one of its database up to position n.
LastOf(i, n) == \A j \in (i + 1)..n : used.dbnames[j] # used.dbnames[i]

\* "Restore of %1 was successful.": every database of the backup is on line and
\* open to all its users, from the last position that names it, whatever state
\* an earlier attempt left it in; and the backup is that of the picked file,
\* unless the paths that the job went by are not those the file was picked under
\* (which may have been so before the job started).
SuccessIsComplete ==
    outcome = "success" =>
      /\ \A i \in DOMAIN used.dbnames :
           /\ Healthy(server[used.dbnames[i]])
           /\ LastOf(i, Len(used.dbnames)) => server[used.dbnames[i]].content = i
      /\ strayed \/ used = file

\* A cancelled job strands no database: each is what it was before the job or
\* restored from it and open to all users.
CancelStrandsNone ==
    outcome = "cancelled" =>
      \A d \in Databases :
        server[d] = before[d] \/ (Healthy(server[d]) /\ server[d].content > 0)

\* However a job ends, at most one database that was in order before it is
\* left in single user mode or half restored.
Stranded == {d \in Databases : Healthy(before[d]) /\ ~Healthy(server[d])}
AtMostOneStranded == Cardinality(Stranded) <= 1

\* Every database is what it was, or is so but for being in single user mode.
AccessOnly ==
    \A d \in Databases :
      server[d] \in {before[d], [before[d] EXCEPT !.access = "single"]}

\* No database is touched on account of a file that the job did not take for the
\* picked one, that fails the CRC check, lost its last bytes while it was
\* unpacked, is no full backup or does not pass verification.  A backup of a
\* newer server is let through by a server whose version is not known: then
\* databases are set to single user mode, and nothing else happens to them.
UntouchedByBadFile ==
    server # before =>
      /\ strayed \/ used = file
      /\ Restorable(used) \/ (TooNew(used) /\ ~version_known /\ AccessOnly)

\* A job that meets no error of a system call or of the server, and goes by the
\* paths its file was picked under, does not fail on a restorable file: what an
\* earlier failed or killed job left behind, a database in single user mode or
\* RESTORING, does not stop the next attempt.
NoSelfInflictedFailure ==
    outcome = "failure" => fault \/ strayed \/ ~Restorable(file)

\* A job returns, so that its result is reported and the queue goes on.
JobReturns == (phase # "idle") ~> (phase \in {"idle", "dead"})
=============================================================================
