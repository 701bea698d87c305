-------------------------- MODULE RestoreJobProofs --------------------------
(* Proofs about RestoreJob, for every set of databases and backup files, any  *)
(* number of databases in a backup and of chunks in an archive.               *)
EXTENDS RestoreJob, FiniteSetTheorems, TLAPS

\* The parts of the job before its loop over the databases.
EarlyPhases == Checks \ {"filelist"}

\* The parts of the type invariant; what is said of the paths and the queue stands
\* by itself.
ControlType ==
    /\ phase \in Checks \cup LoopPhases \cup {"cleanup", "idle", "dead"}
    /\ copied \in 0..Chunks /\ index \in Nat \ {0}
    /\ outcome \in {"none", "success", "failure", "cancelled"}
FlagType ==
    /\ cancel_requested \in BOOLEAN /\ exists \in BOOLEAN
    /\ version_known \in BOOLEAN /\ strayed \in BOOLEAN /\ fault \in BOOLEAN
FileType == file \in BackupFiles /\ used \in File
ServerType == server \in [Databases -> Database] /\ before \in [Databases -> Database]
IndexInLoop == phase \in LoopPhases => index \in DOMAIN used.dbnames
JobType == ControlType /\ FlagType /\ FileType /\ ServerType /\ IndexInLoop
PathType ==
    /\ queued \in 0..MaxSelection
    /\ path \in Paths /\ home \in Paths /\ tmp_path \in Paths \cup {NoPath}

LEMMA TypeParts ==
  JobType <=> ControlType /\ FlagType /\ FileType /\ ServerType /\ IndexInLoop
  BY Zenon DEF JobType

\* Before its loop the job has touched nothing, and it reports nothing before it
\* is over.
NothingYet ==
    /\ phase \in EarlyPhases \cup {"idle", "dead"} => index = 1
    /\ phase \in EarlyPhases \cup {"idle"} => server = before
    /\ phase # "cleanup" => outcome = "none"

\* The job reads the picked file unless it went by other paths, or lost the end of
\* it while it was unpacked.
SameFile == \/ strayed \/ used = file
            \/ fault /\ used.backup \in {"unreadable", "damaged"}

\* A file the loop may work on.
Admitted == Restorable(used) \/ (TooNew(used) /\ ~version_known)

\* What the job knows of the bytes it reads, from phase to phase.
Examined ==
    /\ phase \in {"open", "copy"} => file.compressed
    /\ phase \in {"reconnect", "version", "header"} =>
         (file.compressed => used.archive = "good" \/ used = Missing)
    /\ phase = "verify" =>
         /\ used.compressed => used.archive = "good"
         /\ \/ used.backup \in {"full", "damaged"}
            \/ used.backup = "newer" /\ ~version_known
    /\ phase \in {"syspaths"} \cup LoopPhases => Admitted

\* The server refuses a newer backup at the first database of the loop.
NewerKept ==
    phase \in LoopPhases /\ used.backup = "newer" =>
      index = 1 /\ phase \notin {"rename", "multi"} /\ AccessOnly

\* A database of server s after the first n positions of the backup: untouched
\* if none of them names it, otherwise restored from the last that does and open
\* to all.
Settled(s, d, n) ==
    /\ (\A j \in 1..n : used.dbnames[j] # d) => s[d] = before[d]
    /\ \A j \in 1..n : used.dbnames[j] = d =>
         /\ Healthy(s[d]) /\ s[d].content > 0
         /\ LastOf(j, n) => s[d].content = j

\* In the loop every other database is settled, and the one at hand too until a
\* statement is sent for it.
OthersSettled ==
    phase \in LoopPhases =>
      \A d \in Databases :
        d # dbname \/ phase \in {"filelist", "exists", "single"} => Settled(server, d, index - 1)

\* What the statements for the database at hand rely on, and have done.
AtHand ==
    /\ phase = "single" => CanAlter(dbname)
    /\ phase \in {"sysfiles", "restore"} => Exclusive(dbname)
    /\ phase \in {"rename", "multi"} =>
         server[dbname].state = "online" /\ server[dbname].content = index

\* All stranded databases are one and the same.
OneStranded == \E e : Stranded \subseteq {e}

\* The inductive invariant.
Inv == /\ JobType /\ NothingYet /\ SameFile /\ Examined /\ NewerKept
       /\ OthersSettled /\ AtHand /\ OneStranded
       /\ SuccessIsComplete /\ CancelStrandsNone /\ UntouchedByBadFile
       /\ NoSelfInflictedFailure

------------------------------------------------------------------------------
\* Strings that name phases are told apart once, here.
LEMMA PhaseSets ==
  /\ EarlyPhases = {"paths", "connect", "source", "open", "copy", "reconnect",
                    "version", "header", "verify", "syspaths"}
  /\ EarlyPhases \cap (LoopPhases \cup {"cleanup", "idle", "dead"}) = {}
  /\ LoopPhases \cap {"cleanup", "idle", "dead"} = {}
  /\ Checks \cup LoopPhases = EarlyPhases \cup LoopPhases
  BY DEF EarlyPhases, Checks, LoopPhases

\* Missing is no file that passes the header.
LEMMA MissingFacts ==
  Missing.compressed = FALSE /\ Missing.backup = "unreadable" /\ Missing \in File
<1>1. Missing \in BackupFile
  <2>1. <<>> \in Seq(Databases)
    OBVIOUS
  <2> QED
    BY <2>1 DEF Missing, BackupFile
<1> QED
  BY <1>1 DEF Missing, File

\* A file whose header can be read names a database.
LEMMA FileFacts ==
  ASSUME FileType
  PROVE  /\ file.compressed \in BOOLEAN /\ used.compressed \in BOOLEAN
         /\ used.dbnames \in Seq(Databases)
         /\ used.backup # "unreadable" => used.dbnames # <<>>
<1>1. file \in File /\ used \in File
  BY BackupFilesAssumption DEF FileType
<1> QED
  BY <1>1 DEF File, BackupFile

\* Nothing is stranded while the databases are as before.
LEMMA NoneStranded == server = before => Stranded = {}
  BY DEF Stranded

\* The initial states satisfy the invariant.
LEMMA InitInv == Init => Inv
<1> SUFFICES ASSUME Init PROVE Inv
  OBVIOUS
<1>1. /\ phase = "idle" /\ file \in BackupFiles /\ used = file
      /\ outcome = "none" /\ server = before
      /\ version_known = FALSE /\ strayed = FALSE
      /\ index = 1 /\ copied = 0
      /\ cancel_requested = FALSE /\ exists = FALSE /\ fault = FALSE
      /\ server \in [Databases -> Initially]
  BY Zenon DEF Init
<1>2. ControlType
  BY <1>1, ChunksAssumption DEF ControlType
<1>3. FlagType
  BY <1>1, Zenon DEF FlagType
<1>4. FileType
  BY <1>1, BackupFilesAssumption DEF FileType
<1>5. ServerType
  <2>1. Initially \subseteq Database
    BY DEF Initially, Database
  <2> QED
    BY <1>1, <2>1 DEF ServerType
<1>6. IndexInLoop /\ NothingYet /\ Examined /\ NewerKept /\ OthersSettled /\ AtHand
  BY <1>1, PhaseSets DEF IndexInLoop, NothingYet, Examined, NewerKept, OthersSettled,
     AtHand, EarlyPhases, Checks, LoopPhases
<1>7. SameFile
  BY <1>1, Zenon DEF SameFile
<1>8. OneStranded
  BY <1>1, NoneStranded DEF OneStranded
<1>9. SuccessIsComplete /\ CancelStrandsNone /\ UntouchedByBadFile /\ NoSelfInflictedFailure
  BY <1>1 DEF SuccessIsComplete, CancelStrandsNone, UntouchedByBadFile,
     NoSelfInflictedFailure
<1> QED
  BY <1>2, <1>3, <1>4, <1>5, <1>6, <1>7, <1>8, <1>9, TypeParts, Zenon DEF Inv

------------------------------------------------------------------------------
\* The parts of the invariant together.
LEMMA Together ==
  ASSUME ControlType', FlagType', FileType', ServerType', IndexInLoop',
         NothingYet', SameFile', Examined', NewerKept', OthersSettled', AtHand',
         OneStranded',
         SuccessIsComplete', CancelStrandsNone', UntouchedByBadFile',
         NoSelfInflictedFailure'
  PROVE  Inv'
<1>1. JobType'
  BY Zenon DEF JobType
<1> QED
  BY <1>1, Zenon DEF Inv

\* A step before the loop that touches no database and stays before the loop, or
\* returns without success, keeps what is said of the databases.
LEMMA EarlyKept ==
  ASSUME Inv, phase \in EarlyPhases, phase' \in EarlyPhases \cup {"cleanup"},
         phase' = "cleanup" \/ outcome' = "none", outcome' # "success",
         UNCHANGED <<index, server, before>>
  PROVE  /\ ServerType' /\ IndexInLoop' /\ NothingYet' /\ NewerKept'
         /\ OthersSettled' /\ AtHand'
         /\ OneStranded' /\ SuccessIsComplete' /\ CancelStrandsNone'
         /\ UntouchedByBadFile'
<1>1. /\ index' = 1 /\ server' = before' /\ phase' \notin LoopPhases
      /\ server' = server /\ before' = before
  <2>1. index = 1 /\ server = before
    BY Zenon DEF Inv, NothingYet
  <2> QED
    BY <2>1, PhaseSets
<1>2. ServerType' /\ IndexInLoop'
  BY <1>1, TypeParts, Zenon DEF Inv, ServerType, IndexInLoop
<1>3. NothingYet'
  BY <1>1, PhaseSets DEF NothingYet
<1>4. OthersSettled' /\ NewerKept'
  BY <1>1, Zenon DEF OthersSettled, NewerKept
<1>5. AtHand'
  <2>1. phase' \notin {"single", "sysfiles", "restore", "rename", "multi"}
    BY <1>1 DEF LoopPhases
  <2> QED
    BY <2>1 DEF AtHand
<1>6. OneStranded'
  <2>1. Stranded' = {}
    BY <1>1 DEF Stranded
  <2> QED
    BY <2>1 DEF OneStranded
<1>7. SuccessIsComplete'
  BY Zenon DEF SuccessIsComplete
<1>8. CancelStrandsNone'
  BY <1>1, Zenon DEF CancelStrandsNone
<1>9. UntouchedByBadFile'
  BY <1>1, Zenon DEF UntouchedByBadFile
<1> QED
  BY <1>2, <1>3, <1>4, <1>5, <1>6, <1>7, <1>8, <1>9

------------------------------------------------------------------------------
\* The parts of the invariant that a step before the loop can disturb, and those
\* it keeps as EarlyKept says.
LEMMA EarlyTogether ==
  ASSUME Inv, phase \in EarlyPhases, phase' \in EarlyPhases \cup {"cleanup"},
         phase' = "cleanup" \/ outcome' = "none",
         outcome' \in {"none", "failure", "cancelled"},
         UNCHANGED <<index, exists, cancel_requested, server, before>>,
         copied' \in 0..Chunks, version_known' \in BOOLEAN, strayed' \in BOOLEAN,
         fault' \in BOOLEAN,
         FileType', SameFile', Examined', NoSelfInflictedFailure'
  PROVE  Inv'
<1>1. ControlType'
  <2>1. index \in Nat \ {0}
    BY TypeParts, Zenon DEF Inv, ControlType
  <2>2. phase' \in Checks \cup LoopPhases \cup {"cleanup", "idle", "dead"}
    BY DEF EarlyPhases
  <2> QED
    BY <2>1, <2>2 DEF ControlType
<1>2. FlagType'
  BY TypeParts, Zenon DEF Inv, FlagType
<1>3. outcome' # "success" /\ UNCHANGED <<index, server, before>>
  OBVIOUS
<1> QED
  BY <1>1, <1>2, <1>3, EarlyKept, Together, Zenon

\* A job that is still before its loop has not failed.
LEMMA NotFailedYet == Inv /\ phase \in EarlyPhases => outcome = "none" /\ server = before
<1> SUFFICES ASSUME Inv, phase \in EarlyPhases PROVE outcome = "none" /\ server = before
  OBVIOUS
<1>1. phase # "cleanup"
  BY PhaseSets
<1> QED
  BY <1>1, Zenon DEF Inv, NothingYet

LEMMA CheckPathsInv == Inv /\ CheckPaths => Inv'
<1> SUFFICES ASSUME Inv, CheckPaths PROVE Inv'
  OBVIOUS
<1>1. /\ phase = "paths" /\ phase' = "connect"
      /\ UNCHANGED <<file, used, copied, index, exists, outcome, cancel_requested,
                     server, version_known, strayed, fault, before>>
  BY Zenon DEF CheckPaths, At
<1>2. phase \in EarlyPhases /\ phase' \in EarlyPhases
  BY <1>1, PhaseSets
<1>3. outcome = "none"
  BY <1>2, NotFailedYet
<1>4. copied' \in 0..Chunks /\ version_known' \in BOOLEAN /\ strayed' \in BOOLEAN
      /\ fault' \in BOOLEAN /\ FileType'
  BY <1>1, TypeParts, Zenon DEF Inv, ControlType, FlagType, FileType
<1>5. SameFile'
  BY <1>1, Zenon DEF Inv, SameFile
<1>6. Examined'
  BY <1>1 DEF Examined, LoopPhases
<1>7. NoSelfInflictedFailure'
  BY <1>1, <1>3 DEF NoSelfInflictedFailure
<1> QED
  BY <1>1, <1>2, <1>3, <1>4, <1>5, <1>6, <1>7, EarlyTogether

LEMMA ConnectInv == Inv /\ Connect => Inv'
<1> SUFFICES ASSUME Inv, Connect PROVE Inv'
  OBVIOUS
<1>1. /\ phase = "connect" /\ phase' = "source"
      /\ UNCHANGED <<file, used, copied, index, exists, outcome, cancel_requested,
                     server, version_known, strayed, fault, before>>
  BY Zenon DEF Connect, At, environment
<1>2. phase \in EarlyPhases /\ phase' \in EarlyPhases
  BY <1>1, PhaseSets
<1>3. outcome = "none"
  BY <1>2, NotFailedYet
<1>4. copied' \in 0..Chunks /\ version_known' \in BOOLEAN /\ strayed' \in BOOLEAN
      /\ fault' \in BOOLEAN /\ FileType'
  BY <1>1, TypeParts, Zenon DEF Inv, ControlType, FlagType, FileType
<1>5. SameFile'
  BY <1>1, Zenon DEF Inv, SameFile
<1>6. Examined'
  BY <1>1 DEF Examined, LoopPhases
<1>7. NoSelfInflictedFailure'
  BY <1>1, <1>3 DEF NoSelfInflictedFailure
<1> QED
  BY <1>1, <1>2, <1>3, <1>4, <1>5, <1>6, <1>7, EarlyTogether

\* Where the job looks for its source, it finds the picked file unless it goes by
\* other paths.
LEMMA SourceFacts ==
  ASSUME FileType, FlagType, GoByPath, NEW f \in Source
  PROVE  f \in File /\ (strayed' \/ f = file) /\ strayed' \in BOOLEAN
<1>1. f \in BackupFiles \cup {Missing, file} /\ (path # home \/ f = file)
  BY DEF Source
<1>2. f \in File
  BY <1>1, BackupFilesAssumption, MissingFacts DEF FileType
<1> QED
  BY <1>1, <1>2 DEF GoByPath, FlagType

LEMMA UseBackupFileInv == Inv /\ UseBackupFile => Inv'
<1> SUFFICES ASSUME Inv, UseBackupFile PROVE Inv'
  OBVIOUS
<1>1. /\ phase = "source" /\ ~file.compressed /\ phase' = "reconnect" /\ used' \in Source
      /\ GoByPath
      /\ UNCHANGED <<file, copied, index, exists, outcome, cancel_requested,
                     server, version_known, fault, before>>
  BY Zenon DEF UseBackupFile, At, GoByPath
<1>2. phase \in EarlyPhases /\ phase' \in EarlyPhases
  BY <1>1, PhaseSets
<1>3. outcome = "none"
  BY <1>2, NotFailedYet
<1>4. copied' \in 0..Chunks /\ version_known' \in BOOLEAN /\ fault' \in BOOLEAN
  BY <1>1, TypeParts, Zenon DEF Inv, ControlType, FlagType
<1>5. used' \in File /\ (strayed' \/ used' = file) /\ strayed' \in BOOLEAN
  BY <1>1, SourceFacts, TypeParts, Zenon DEF Inv
<1>6. FileType'
  BY <1>1, <1>5, TypeParts, Zenon DEF Inv, FileType
<1>7. SameFile'
  BY <1>1, <1>5, Zenon DEF SameFile
<1>8. Examined'
  BY <1>1 DEF Examined, LoopPhases
<1>9. NoSelfInflictedFailure'
  BY <1>1, <1>3 DEF NoSelfInflictedFailure
<1> QED
  BY <1>1, <1>2, <1>3, <1>4, <1>5, <1>6, <1>7, <1>8, <1>9, EarlyTogether

LEMMA SearchTailInv == Inv /\ SearchTail => Inv'
<1> SUFFICES ASSUME Inv, SearchTail PROVE Inv'
  OBVIOUS
<1>1. /\ phase = "source" /\ file.compressed /\ used' \in Source /\ GoByPath
      /\ UNCHANGED <<file, copied, index, exists, cancel_requested,
                     server, version_known, fault, before>>
      /\ \/ phase' = "open" /\ outcome' = outcome
         \/ NoDirectory(used') /\ phase' = "cleanup" /\ outcome' = "failure"
  BY Zenon DEF SearchTail, At, GoByPath, Return
<1>2. phase \in EarlyPhases /\ phase' \in EarlyPhases \cup {"cleanup"}
  BY <1>1, PhaseSets
<1>3. outcome = "none"
  BY <1>2, NotFailedYet
<1>4. copied' \in 0..Chunks /\ version_known' \in BOOLEAN /\ fault' \in BOOLEAN
  BY <1>1, TypeParts, Zenon DEF Inv, ControlType, FlagType
<1>5. used' \in File /\ (strayed' \/ used' = file) /\ strayed' \in BOOLEAN
  BY <1>1, SourceFacts, TypeParts, Zenon DEF Inv
<1>6. FileType'
  BY <1>1, <1>5, TypeParts, Zenon DEF Inv, FileType
<1>7. SameFile'
  BY <1>1, <1>5, Zenon DEF SameFile
<1>8. Examined'
  BY <1>1 DEF Examined, LoopPhases
<1>9. NoSelfInflictedFailure'
  BY <1>1, <1>3, <1>5 DEF NoSelfInflictedFailure, NoDirectory, Restorable
<1> QED
  BY <1>1, <1>2, <1>3, <1>4, <1>5, <1>6, <1>7, <1>8, <1>9, EarlyTogether

LEMMA OpenArchiveInv == Inv /\ OpenArchive => Inv'
<1> SUFFICES ASSUME Inv, OpenArchive PROVE Inv'
  OBVIOUS
<1>1. /\ phase = "open"
      /\ UNCHANGED <<file, used, copied, index, exists, cancel_requested,
                     server, version_known, strayed, fault, before>>
      /\ IF NoDirectory(used) \/ used.archive = "empty"
         THEN phase' = "cleanup" /\ outcome' = "failure"
         ELSE phase' = "copy" /\ outcome' = outcome
  BY Zenon DEF OpenArchive, At, environment, Return
<1>2. phase \in EarlyPhases /\ phase' \in EarlyPhases \cup {"cleanup"}
  BY <1>1, PhaseSets
<1>3. outcome = "none"
  BY <1>2, NotFailedYet
<1>4. copied' \in 0..Chunks /\ version_known' \in BOOLEAN /\ strayed' \in BOOLEAN
      /\ fault' \in BOOLEAN /\ FileType'
  BY <1>1, TypeParts, Zenon DEF Inv, ControlType, FlagType, FileType
<1>5. SameFile'
  BY <1>1, Zenon DEF Inv, SameFile
<1>6. file.compressed /\ (strayed \/ fault \/ used = file)
  BY <1>1 DEF Inv, Examined, SameFile
<1>7. Examined'
  BY <1>1, <1>6 DEF Examined, LoopPhases
<1>8. NoSelfInflictedFailure'
  BY <1>1, <1>3, <1>6 DEF NoSelfInflictedFailure, NoDirectory, Restorable
<1> QED
  BY <1>1, <1>2, <1>3, <1>4, <1>5, <1>7, <1>8, EarlyTogether

LEMMA CopyChunkInv == Inv /\ CopyChunk => Inv'
<1> SUFFICES ASSUME Inv, CopyChunk PROVE Inv'
  OBVIOUS
<1>1. /\ phase = "copy" /\ copied < Chunks /\ copied' = copied + 1
      /\ UNCHANGED <<phase, file, used, index, exists, outcome, cancel_requested,
                     server, version_known, strayed, fault, before>>
  BY Zenon DEF CopyChunk, At, environment
<1>2. phase \in EarlyPhases /\ phase' \in EarlyPhases
  BY <1>1, PhaseSets
<1>3. outcome = "none"
  BY <1>2, NotFailedYet
<1>4. version_known' \in BOOLEAN /\ strayed' \in BOOLEAN
      /\ fault' \in BOOLEAN /\ FileType'
  BY <1>1, TypeParts, Zenon DEF Inv, FlagType, FileType
<1>5. copied' \in 0..Chunks
  <2>1. copied \in 0..Chunks
    BY TypeParts, Zenon DEF Inv, ControlType
  <2> QED
    BY <1>1, <2>1, ChunksAssumption
<1>6. SameFile'
  BY <1>1, Zenon DEF Inv, SameFile
<1>7. Examined'
  BY <1>1 DEF Inv, Examined, LoopPhases
<1>8. NoSelfInflictedFailure'
  BY <1>1, <1>3 DEF NoSelfInflictedFailure
<1> QED
  BY <1>1, <1>2, <1>3, <1>4, <1>5, <1>6, <1>7, <1>8, EarlyTogether

LEMMA FinishCopyInv == Inv /\ FinishCopy => Inv'
<1> SUFFICES ASSUME Inv, FinishCopy PROVE Inv'
  OBVIOUS
<1>1. /\ phase = "copy"
      /\ UNCHANGED <<file, copied, index, exists, cancel_requested,
                     server, version_known, before>>
      /\ \/ /\ Intact /\ phase' = "reconnect" /\ outcome' = outcome
            /\ \/ used' = used
               \/ used' \in CutShort
               \/ path # tmp_path /\ used' = Missing
            /\ strayed' = (strayed \/ path # tmp_path)
            /\ fault' = (fault \/ used' \in CutShort \ {used})
         \/ /\ ~Intact /\ phase' = "cleanup" /\ outcome' = "failure"
            /\ UNCHANGED <<used, strayed, fault>>
  BY Zenon DEF FinishCopy, At, Return
<1>2. phase \in EarlyPhases /\ phase' \in EarlyPhases \cup {"cleanup"}
  BY <1>1, PhaseSets
<1>3. outcome = "none"
  BY <1>2, NotFailedYet
<1>4. copied' \in 0..Chunks /\ version_known' \in BOOLEAN
  BY <1>1, TypeParts, Zenon DEF Inv, ControlType, FlagType
<1>5. strayed \in BOOLEAN /\ fault \in BOOLEAN /\ file \in BackupFiles /\ used \in File
  BY TypeParts, Zenon DEF Inv, FileType, FlagType
<1>6. strayed' \in BOOLEAN /\ fault' \in BOOLEAN
  BY <1>1, <1>5
<1>7. SameFile /\ file.compressed
  BY <1>1 DEF Inv, Examined
<1>8. CASE Intact
  <2>1. /\ phase' = "reconnect" /\ outcome' = outcome
        /\ \/ used' = used
           \/ used' \in CutShort
           \/ path # tmp_path /\ used' = Missing
        /\ strayed' = (strayed \/ path # tmp_path)
        /\ fault' = (fault \/ used' \in CutShort \ {used})
    BY <1>1, <1>8, Zenon
  <2>2. used.archive = "good"
    BY <1>8 DEF Intact
  <2>3. used' \in CutShort =>
          /\ used' \in File /\ used'.archive = "good"
          /\ used'.backup \in {"unreadable", "damaged"}
    BY <1>5, <2>2 DEF CutShort, File, BackupFile
  <2>4. FileType'
    BY <1>1, <1>5, <2>1, <2>3, MissingFacts DEF FileType
  <2>5. SameFile'
    BY <1>1, <1>7, <2>1, <2>3 DEF SameFile
  <2>6. Examined'
    BY <1>1, <2>1, <2>2, <2>3 DEF Examined, LoopPhases
  <2>7. NoSelfInflictedFailure'
    BY <1>3, <2>1 DEF NoSelfInflictedFailure
  <2> QED
    BY <1>1, <1>2, <1>3, <1>4, <1>6, <2>1, <2>4, <2>5, <2>6, <2>7, EarlyTogether
<1>9. CASE ~Intact
  <2>1. /\ phase' = "cleanup" /\ outcome' = "failure"
        /\ UNCHANGED <<used, strayed, fault>>
    BY <1>1, <1>9, Zenon
  <2>2. FileType' /\ SameFile'
    BY <1>1, <1>7, <2>1, TypeParts, Zenon DEF Inv, FileType, SameFile
  <2>3. Examined'
    BY <2>1 DEF Examined, LoopPhases
  <2>4. NoSelfInflictedFailure'
    BY <1>1, <1>7, <1>9, <2>1 DEF NoSelfInflictedFailure, SameFile, Intact, Restorable
  <2> QED
    BY <1>1, <1>2, <1>3, <1>4, <1>6, <2>1, <2>2, <2>3, <2>4, EarlyTogether
<1> QED
  BY <1>8, <1>9

LEMMA ReconnectInv == Inv /\ Reconnect => Inv'
<1> SUFFICES ASSUME Inv, Reconnect PROVE Inv'
  OBVIOUS
<1>1. /\ phase = "reconnect" /\ phase' = "version"
      /\ UNCHANGED <<file, used, copied, index, exists, outcome, cancel_requested,
                     server, version_known, strayed, fault, before>>
  BY Zenon DEF Reconnect, At, environment
<1>2. phase \in EarlyPhases /\ phase' \in EarlyPhases
  BY <1>1, PhaseSets
<1>3. outcome = "none"
  BY <1>2, NotFailedYet
<1>4. copied' \in 0..Chunks /\ version_known' \in BOOLEAN /\ strayed' \in BOOLEAN
      /\ fault' \in BOOLEAN /\ FileType'
  BY <1>1, TypeParts, Zenon DEF Inv, ControlType, FlagType, FileType
<1>5. SameFile'
  BY <1>1, Zenon DEF Inv, SameFile
<1>6. Examined'
  BY <1>1 DEF Inv, Examined, LoopPhases
<1>7. NoSelfInflictedFailure'
  BY <1>1, <1>3 DEF NoSelfInflictedFailure
<1> QED
  BY <1>1, <1>2, <1>3, <1>4, <1>5, <1>6, <1>7, EarlyTogether

LEMMA GetServerVersionInv == Inv /\ GetServerVersion => Inv'
<1> SUFFICES ASSUME Inv, GetServerVersion PROVE Inv'
  OBVIOUS
<1>1. /\ phase = "version" /\ phase' = "header" /\ version_known' \in BOOLEAN
      /\ UNCHANGED <<file, used, copied, index, exists, outcome, cancel_requested,
                     server, strayed, fault, before>>
  BY Zenon DEF GetServerVersion, At
<1>2. phase \in EarlyPhases /\ phase' \in EarlyPhases
  BY <1>1, PhaseSets
<1>3. outcome = "none"
  BY <1>2, NotFailedYet
<1>4. copied' \in 0..Chunks /\ strayed' \in BOOLEAN /\ fault' \in BOOLEAN /\ FileType'
  BY <1>1, TypeParts, Zenon DEF Inv, ControlType, FlagType, FileType
<1>5. SameFile'
  BY <1>1, Zenon DEF Inv, SameFile
<1>6. Examined'
  BY <1>1 DEF Inv, Examined, LoopPhases
<1>7. NoSelfInflictedFailure'
  BY <1>1, <1>3 DEF NoSelfInflictedFailure
<1> QED
  BY <1>1, <1>2, <1>3, <1>4, <1>5, <1>6, <1>7, EarlyTogether

\* The header shows what the job has to know of an archive and of the selection.
LEMMA ReadHeaderInv == Inv /\ ReadHeader => Inv'
<1> SUFFICES ASSUME Inv, ReadHeader PROVE Inv'
  OBVIOUS
<1>1. /\ phase = "header"
      /\ UNCHANGED <<file, used, copied, index, exists, cancel_requested,
                     server, version_known, strayed, fault, before>>
      /\ IF HeaderAccepted THEN phase' = "verify" /\ outcome' = outcome
         ELSE phase' = "cleanup" /\ outcome' = "failure"
  BY Zenon DEF ReadHeader, At, environment, Return
<1>2. phase \in EarlyPhases /\ phase' \in EarlyPhases \cup {"cleanup"}
  BY <1>1, PhaseSets
<1>3. outcome = "none"
  BY <1>2, NotFailedYet
<1>4. copied' \in 0..Chunks /\ version_known' \in BOOLEAN /\ strayed' \in BOOLEAN
      /\ fault' \in BOOLEAN /\ FileType'
  BY <1>1, TypeParts, Zenon DEF Inv, ControlType, FlagType, FileType
<1>5. SameFile'
  BY <1>1, Zenon DEF Inv, SameFile
<1>6. /\ file.compressed => used.archive = "good" \/ used = Missing
      /\ strayed \/ fault \/ used = file
  BY <1>1 DEF Inv, Examined, SameFile
<1>7. Examined'
  BY <1>1, <1>6, MissingFacts DEF Examined, LoopPhases, HeaderAccepted
<1>8. NoSelfInflictedFailure'
  BY <1>1, <1>3, <1>6 DEF NoSelfInflictedFailure, HeaderAccepted, Restorable
<1> QED
  BY <1>1, <1>2, <1>3, <1>4, <1>5, <1>7, <1>8, EarlyTogether

LEMMA VerifyInv == Inv /\ Verify => Inv'
<1> SUFFICES ASSUME Inv, Verify PROVE Inv'
  OBVIOUS
<1>1. /\ phase = "verify"
      /\ UNCHANGED <<file, used, copied, index, exists, cancel_requested,
                     server, version_known, strayed, fault, before>>
      /\ IF used.backup = "damaged" THEN phase' = "cleanup" /\ outcome' = "failure"
         ELSE phase' = "syspaths" /\ outcome' = outcome
  BY Zenon DEF Verify, At, environment, Return
<1>2. phase \in EarlyPhases /\ phase' \in EarlyPhases \cup {"cleanup"}
  BY <1>1, PhaseSets
<1>3. outcome = "none"
  BY <1>2, NotFailedYet
<1>4. copied' \in 0..Chunks /\ version_known' \in BOOLEAN /\ strayed' \in BOOLEAN
      /\ fault' \in BOOLEAN /\ FileType'
  BY <1>1, TypeParts, Zenon DEF Inv, ControlType, FlagType, FileType
<1>5. SameFile'
  BY <1>1, Zenon DEF Inv, SameFile
<1>6. /\ used.compressed => used.archive = "good"
      /\ \/ used.backup \in {"full", "damaged"}
         \/ used.backup = "newer" /\ ~version_known
      /\ strayed \/ fault \/ used = file
  BY <1>1 DEF Inv, Examined, SameFile
<1>7. Examined'
  BY <1>1, <1>6 DEF Examined, LoopPhases, Admitted, Restorable, TooNew
<1>8. NoSelfInflictedFailure'
  BY <1>1, <1>3, <1>6 DEF NoSelfInflictedFailure, Restorable
<1> QED
  BY <1>1, <1>2, <1>3, <1>4, <1>5, <1>7, <1>8, EarlyTogether

------------------------------------------------------------------------------
(* The loop over the databases of the backup *)

\* What holds of the position at hand throughout the loop.
LEMMA LoopFacts ==
  ASSUME Inv, phase \in LoopPhases
  PROVE  /\ index \in 1..Len(used.dbnames) /\ Len(used.dbnames) \in Nat
         /\ dbname \in Databases
         /\ Admitted /\ (strayed \/ used = file) /\ outcome = "none"
<1>1. used.dbnames \in Seq(Databases) /\ index \in DOMAIN used.dbnames
  BY FileFacts, TypeParts, Zenon DEF Inv, IndexInLoop
<1>2. Admitted /\ (strayed \/ used = file)
  BY DEF Inv, Examined, SameFile, Admitted, Restorable, TooNew
<1>3. outcome = "none"
  BY PhaseSets DEF Inv, NothingYet
<1> QED
  BY <1>1, <1>2, <1>3 DEF dbname

\* Before any position every database is settled as it was.
LEMMA NoneNamed == ASSUME NEW d PROVE Settled(before, d, 0)
  BY DEF Settled

\* A database is settled after position n if it is named there, restored from
\* there and open, or if it is another one and was settled before.
LEMMA OneMoreSettled ==
  ASSUME NEW n \in Nat \ {0}, NEW s, NEW d,
         IF d = used.dbnames[n] THEN Healthy(s[d]) /\ s[d].content = n
         ELSE Settled(s, d, n - 1)
  PROVE  Settled(s, d, n)
<1>1. CASE d = used.dbnames[n]
  <2>1. Healthy(s[d]) /\ s[d].content = n /\ n > 0 /\ n \in 1..n
    BY <1>1
  <2>2. ASSUME NEW j \in 1..n, used.dbnames[j] = d, LastOf(j, n) PROVE j = n
    <3>1. CASE j < n
      <4>1. n \in (j + 1)..n
        BY <3>1
      <4> QED
        BY <1>1, <2>2, <4>1, Zenon DEF LastOf
    <3> QED
      BY <3>1
  <2> QED
    BY <1>1, <2>1, <2>2 DEF Settled
<1>2. CASE d # used.dbnames[n]
  <2>1. ASSUME NEW j \in 1..n, used.dbnames[j] = d PROVE j \in 1..(n - 1)
    BY <1>2, <2>1
  <2>2. ASSUME NEW j \in 1..n, LastOf(j, n) PROVE LastOf(j, n - 1)
    BY <2>2 DEF LastOf
  <2>3. Settled(s, d, n - 1) /\ 1..(n - 1) \subseteq 1..n
    BY <1>2
  <2>4. (\A j \in 1..n : used.dbnames[j] # d) => s[d] = before[d]
    BY <2>3, Zenon DEF Settled
  <2>5. ASSUME NEW j \in 1..n, used.dbnames[j] = d
        PROVE  /\ Healthy(s[d]) /\ s[d].content > 0
               /\ LastOf(j, n) => s[d].content = j
    BY <2>1, <2>2, <2>3, <2>5, Zenon DEF Settled
  <2> QED
    BY <2>4, <2>5, Zenon DEF Settled
<1> QED
  BY <1>1, <1>2

\* A settled database is not stranded.
LEMMA SettledIsSafe ==
  ASSUME NEW n \in Nat, NEW s, NEW d, Settled(s, d, n)
  PROVE  s[d] = before[d] \/ (Healthy(s[d]) /\ s[d].content > 0)
  BY Zenon DEF Settled

\* Single user mode is all that a refused backup leads to.
LEMMA SingleIsAccessOnly ==
  ASSUME ServerType, AccessOnly, NEW e \in Databases,
         server' = SetAccess(e, "single"), before' = before
  PROVE  AccessOnly'
<1>1. server \in [Databases -> Database] /\ before \in [Databases -> Database]
  BY DEF ServerType
<1>2. ASSUME NEW d \in Databases
      PROVE  server'[d] \in {before[d], [before[d] EXCEPT !.access = "single"]}
  <2>1. server[d] \in {before[d], [before[d] EXCEPT !.access = "single"]}
    BY DEF AccessOnly
  <2>2. before[d] \in Database
    BY <1>1
  <2>3. server'[d] = IF d = e THEN [server[d] EXCEPT !.access = "single"] ELSE server[d]
    BY <1>1 DEF SetAccess
  <2> QED
    BY <2>1, <2>2, <2>3 DEF Database
<1> QED
  BY <1>2 DEF AccessOnly

\* A step of the loop touches no database but the one at hand, so that at most
\* that one is stranded by it.
LEMMA OnlyAtHand ==
  ASSUME Inv, phase \in LoopPhases,
         \A d \in Databases : d # dbname => server'[d] = server[d],
         server' \in [Databases -> Database],
         used.backup = "newer" => AccessOnly',
         UNCHANGED <<file, used, before, strayed, version_known>>
  PROVE  /\ ServerType' /\ OneStranded' /\ UntouchedByBadFile'
         /\ \A d \in Databases : d # dbname => Settled(server', d, index - 1)
<1>1. index - 1 \in Nat /\ Admitted /\ (strayed \/ used = file)
  BY LoopFacts
<1>2. ASSUME NEW d \in Databases, d # dbname
      PROVE  Settled(server, d, index - 1) /\ Settled(server', d, index - 1)
  <2>1. Settled(server, d, index - 1)
    BY <1>2, Zenon DEF Inv, OthersSettled
  <2> QED
    BY <1>2, <2>1, Zenon DEF Settled
<1>3. ServerType'
  BY TypeParts, Zenon DEF Inv, ServerType
<1>4. OneStranded'
  <2>1. ASSUME NEW d \in Databases, d # dbname, Healthy(before[d]) PROVE Healthy(server'[d])
    BY <1>1, <1>2, <2>1, SettledIsSafe, Zenon
  <2>2. Stranded' \subseteq {dbname}
    <3>1. Stranded' = {d \in Databases : Healthy(before[d]) /\ ~Healthy(server'[d])}
      BY DEF Stranded, Healthy
    <3> QED
      BY <2>1, <3>1
  <2> QED
    BY <2>2 DEF OneStranded
<1>5. UntouchedByBadFile'
  BY <1>1 DEF UntouchedByBadFile, Admitted, Restorable, TooNew
<1> QED
  BY <1>2, <1>3, <1>4, <1>5

\* A step from one part of the loop to the next that touches no database.
LEMMA LoopKept ==
  ASSUME Inv, phase \in LoopPhases, phase' \in LoopPhases,
         phase' \in {"filelist", "exists", "single"} =>
           phase \in {"filelist", "exists", "single"},
         phase' \in {"rename", "multi"} => phase \in {"rename", "multi"},
         exists' \in BOOLEAN, AtHand',
         UNCHANGED <<file, used, copied, index, outcome, cancel_requested, server,
                     version_known, strayed, fault, before>>
  PROVE  Inv'
<1>1. dbname' = dbname /\ outcome' = "none"
  BY LoopFacts, Zenon DEF dbname
<1>2. ControlType' /\ FlagType' /\ FileType' /\ ServerType'
  <2>1. phase' \in Checks \cup LoopPhases \cup {"cleanup", "idle", "dead"}
    OBVIOUS
  <2> QED
    BY <2>1, TypeParts, Zenon DEF Inv, ControlType, FlagType, FileType, ServerType
<1>3. IndexInLoop'
  BY TypeParts, Zenon DEF Inv, IndexInLoop
<1>4. NothingYet'
  BY <1>1, PhaseSets DEF NothingYet
<1>5. SameFile'
  BY Zenon DEF Inv, SameFile
<1>6. Examined'
  <2>1. Admitted
    BY LoopFacts
  <2>2. phase' \notin {"open", "copy", "reconnect", "version", "header", "verify"}
    BY DEF LoopPhases
  <2> QED
    BY <2>1, <2>2 DEF Examined, Admitted, Restorable, TooNew
<1>7. OthersSettled'
  <2>1. ASSUME NEW d \in Databases,
               d # dbname \/ phase' \in {"filelist", "exists", "single"}
        PROVE  Settled(server, d, index - 1)
    BY <2>1, Zenon DEF Inv, OthersSettled
  <2> QED
    BY <1>1, <2>1, Zenon DEF OthersSettled, Settled, LastOf
<1>8. OneStranded' /\ UntouchedByBadFile' /\ NewerKept'
  <2>1. server \in [Databases -> Database]
    BY TypeParts, Zenon DEF Inv, ServerType
  <2>2. used.backup = "newer" => AccessOnly
    BY DEF Inv, NewerKept
  <2>3. used.backup = "newer" => AccessOnly'
    BY <2>2 DEF AccessOnly
  <2>4. NewerKept'
    BY <2>3 DEF Inv, NewerKept
  <2> QED
    BY <2>1, <2>3, <2>4, OnlyAtHand
<1>9. SuccessIsComplete' /\ CancelStrandsNone' /\ NoSelfInflictedFailure'
  BY <1>1 DEF SuccessIsComplete, CancelStrandsNone, NoSelfInflictedFailure
<1> QED
  BY <1>2, <1>3, <1>4, <1>5, <1>6, <1>7, <1>8, <1>9, Together, Zenon

\* The loop begins at the first position, with every database as it was.
LEMMA GetPathsInv == Inv /\ GetPaths => Inv'
<1> SUFFICES ASSUME Inv, GetPaths PROVE Inv'
  OBVIOUS
<1>1. /\ phase = "syspaths" /\ phase' = "filelist"
      /\ UNCHANGED <<file, used, copied, index, exists, outcome, cancel_requested,
                     server, version_known, strayed, fault, before>>
  BY Zenon DEF GetPaths, At, environment
<1>2. phase \in EarlyPhases /\ phase' \in LoopPhases
  BY <1>1, PhaseSets DEF LoopPhases
<1>3. outcome = "none" /\ server = before /\ index = 1
  BY <1>2, NotFailedYet, Zenon DEF Inv, NothingYet
<1>4. Admitted
  BY <1>1, Zenon DEF Inv, Examined
<1>5. ControlType' /\ FlagType' /\ FileType' /\ ServerType'
  <2>1. phase' \in Checks \cup LoopPhases \cup {"cleanup", "idle", "dead"}
    BY <1>2
  <2> QED
    BY <1>1, <2>1, TypeParts, Zenon DEF Inv, ControlType, FlagType, FileType, ServerType
<1>6. IndexInLoop'
  <2>1. used.dbnames \in Seq(Databases) /\ used.dbnames # <<>>
    BY <1>4, FileFacts, TypeParts DEF Inv, Admitted, Restorable, TooNew
  <2>2. 1 \in DOMAIN used.dbnames
    BY <2>1
  <2> QED
    BY <1>1, <1>3, <2>2, Zenon DEF IndexInLoop
<1>7. NothingYet'
  BY <1>1, <1>2, <1>3, PhaseSets, Zenon DEF NothingYet
<1>8. SameFile'
  BY <1>1, Zenon DEF Inv, SameFile
<1>9. Examined' /\ NewerKept'
  <2>1. AccessOnly'
    BY <1>1, <1>3 DEF AccessOnly
  <2> QED
    BY <1>1, <1>3, <1>4, <2>1 DEF Examined, NewerKept, Admitted, Restorable, TooNew
<1>10. OthersSettled'
  <2>1. \A d \in Databases : Settled(server, d, index - 1)
    BY <1>3, NoneNamed
  <2> QED
    BY <1>1, <2>1, Zenon DEF OthersSettled, Settled, LastOf
<1>11. AtHand'
  BY <1>1 DEF AtHand
<1>12. OneStranded'
  BY <1>1, <1>3 DEF OneStranded, Stranded
<1>13. SuccessIsComplete' /\ CancelStrandsNone' /\ UntouchedByBadFile'
       /\ NoSelfInflictedFailure'
  BY <1>1, <1>3 DEF SuccessIsComplete, CancelStrandsNone, UntouchedByBadFile,
     NoSelfInflictedFailure
<1> QED
  BY <1>5, <1>6, <1>7, <1>8, <1>9, <1>10, <1>11, <1>12, <1>13, Together, Zenon

LEMMA GetLogicalNamesInv == Inv /\ GetLogicalNames => Inv'
<1> SUFFICES ASSUME Inv, GetLogicalNames PROVE Inv'
  OBVIOUS
<1>1. /\ phase = "filelist" /\ phase' = "exists"
      /\ UNCHANGED <<file, used, copied, index, exists, outcome, cancel_requested,
                     server, version_known, strayed, fault, before>>
  BY Zenon DEF GetLogicalNames, At, environment
<1>2. phase \in LoopPhases /\ phase' \in LoopPhases
  BY <1>1 DEF LoopPhases
<1>3. exists' \in BOOLEAN
  BY <1>1, TypeParts, Zenon DEF Inv, FlagType
<1>4. AtHand'
  BY <1>1 DEF AtHand
<1> QED
  BY <1>1, <1>2, <1>3, <1>4, LoopKept

\* A database that is on line can be altered; any other can be replaced as it is.
LEMMA CheckExistsInv == Inv /\ CheckExists => Inv'
<1> SUFFICES ASSUME Inv, CheckExists PROVE Inv'
  OBVIOUS
<1>1. /\ phase = "exists" /\ exists' = InUse(dbname)
      /\ phase' = IF exists' THEN "single" ELSE "restore"
      /\ UNCHANGED <<file, used, copied, index, outcome, cancel_requested,
                     server, version_known, strayed, fault, before>>
  BY Zenon DEF CheckExists, At, environment
<1>2. phase \in LoopPhases /\ phase' \in LoopPhases
  BY <1>1 DEF LoopPhases
<1>3. exists' \in BOOLEAN
  BY <1>1, Zenon DEF InUse
<1>4. AtHand'
  <2>1. dbname' = dbname /\ dbname \in Databases
    BY <1>1, <1>2, LoopFacts DEF dbname
  <2>2. server[dbname].state \in {"absent", "online", "restoring"}
    BY <2>1, TypeParts DEF Inv, ServerType, Database
  <2> QED
    BY <1>1, <2>1, <2>2 DEF AtHand, CanAlter, Exclusive, InUse
<1> QED
  BY <1>1, <1>2, <1>3, <1>4, LoopKept

LEMMA GetSystemFilesInv == Inv /\ GetSystemFiles => Inv'
<1> SUFFICES ASSUME Inv, GetSystemFiles PROVE Inv'
  OBVIOUS
<1>1. /\ phase = "sysfiles" /\ phase' = "restore"
      /\ UNCHANGED <<file, used, copied, index, exists, outcome, cancel_requested,
                     server, version_known, strayed, fault, before>>
  BY Zenon DEF GetSystemFiles, At, environment
<1>2. phase \in LoopPhases /\ phase' \in LoopPhases
  BY <1>1 DEF LoopPhases
<1>3. exists' \in BOOLEAN
  BY <1>1, TypeParts, Zenon DEF Inv, FlagType
<1>4. AtHand'
  <2>1. Exclusive(dbname) /\ dbname' = dbname
    BY <1>1 DEF Inv, AtHand, dbname
  <2> QED
    BY <1>1, <2>1 DEF AtHand, Exclusive
<1> QED
  BY <1>1, <1>2, <1>3, <1>4, LoopKept

LEMMA RenameLogicalFilesInv == Inv /\ RenameLogicalFiles => Inv'
<1> SUFFICES ASSUME Inv, RenameLogicalFiles PROVE Inv'
  OBVIOUS
<1>1. /\ phase = "rename" /\ phase' = "multi"
      /\ UNCHANGED <<file, used, copied, index, exists, outcome, cancel_requested,
                     server, version_known, strayed, fault, before>>
  BY Zenon DEF RenameLogicalFiles, At, environment
<1>2. phase \in LoopPhases /\ phase' \in LoopPhases
  BY <1>1 DEF LoopPhases
<1>3. exists' \in BOOLEAN
  BY <1>1, TypeParts, Zenon DEF Inv, FlagType
<1>4. AtHand'
  <2>1. server[dbname].state = "online" /\ server[dbname].content = index /\ dbname' = dbname
    BY <1>1 DEF Inv, AtHand, dbname
  <2> QED
    BY <1>1, <2>1 DEF AtHand
<1> QED
  BY <1>1, <1>2, <1>3, <1>4, LoopKept

\* A statement that succeeds for the database at hand, and is not the last.
LEMMA StatementKept ==
  ASSUME Inv, phase \in LoopPhases,
         phase' \in {"sysfiles", "restore", "rename", "multi"},
         \A d \in Databases : d # dbname => server'[d] = server[d],
         server' \in [Databases -> Database], AtHand', NewerKept',
         UNCHANGED <<file, used, copied, index, exists, outcome, cancel_requested,
                     version_known, strayed, fault, before>>
  PROVE  Inv'
<1>1. dbname' = dbname /\ outcome' = "none" /\ phase' \in LoopPhases
  <2>1. outcome' = "none"
    BY LoopFacts
  <2> QED
    BY <2>1 DEF dbname, LoopPhases
<1>2. ControlType' /\ FlagType' /\ FileType'
  <2>1. phase' \in Checks \cup LoopPhases \cup {"cleanup", "idle", "dead"}
    BY <1>1
  <2> QED
    BY <2>1, TypeParts, Zenon DEF Inv, ControlType, FlagType, FileType
<1>3. IndexInLoop'
  BY TypeParts, Zenon DEF Inv, IndexInLoop
<1>4. NothingYet'
  BY <1>1, PhaseSets DEF NothingYet
<1>5. SameFile'
  BY Zenon DEF Inv, SameFile
<1>6. Examined'
  <2>1. Admitted
    BY LoopFacts
  <2> QED
    BY <2>1 DEF Examined, Admitted, Restorable, TooNew
<1>7. /\ ServerType' /\ OneStranded' /\ UntouchedByBadFile'
      /\ \A d \in Databases : d # dbname => Settled(server', d, index - 1)
  <2>1. used.backup = "newer" => AccessOnly'
    BY <1>1 DEF NewerKept
  <2> QED
    BY <2>1, OnlyAtHand
<1>8. OthersSettled'
  <2>1. phase' \notin {"filelist", "exists", "single"}
    OBVIOUS
  <2>2. ASSUME NEW d \in Databases, d # dbname PROVE Settled(server, d, index - 1)'
    BY <1>7, <2>2, Zenon DEF Settled, LastOf
  <2> QED
    BY <1>1, <2>1, <2>2, Zenon DEF OthersSettled
<1>9. SuccessIsComplete' /\ CancelStrandsNone' /\ NoSelfInflictedFailure'
  BY <1>1 DEF SuccessIsComplete, CancelStrandsNone, NoSelfInflictedFailure
<1> QED
  BY <1>2, <1>3, <1>4, <1>5, <1>6, <1>7, <1>8, <1>9, Together, Zenon

\* The effects of statements: one database of the server changes.
LEMMA SetAccessFacts ==
  ASSUME server \in [Databases -> Database], NEW d \in Databases,
         NEW a \in {"single", "multi"}
  PROVE  /\ SetAccess(d, a) \in [Databases -> Database]
         /\ \A e \in Databases : e # d => SetAccess(d, a)[e] = server[e]
         /\ SetAccess(d, a)[d].access = a
         /\ SetAccess(d, a)[d].state = server[d].state
         /\ SetAccess(d, a)[d].content = server[d].content
  BY DEF SetAccess, Database

LEMMA RestoredFacts ==
  ASSUME server \in [Databases -> Database], NEW d \in Databases,
         NEW a \in {"single", "multi"}, index \in Nat
  PROVE  /\ Restored(d, a) \in [Databases -> Database]
         /\ \A e \in Databases : e # d => Restored(d, a)[e] = server[e]
         /\ Restored(d, a)[d].state = "online" /\ Restored(d, a)[d].content = index
  BY DEF Restored, Database

LEMMA HalfRestoredFacts ==
  ASSUME server \in [Databases -> Database], NEW d \in Databases
  PROVE  /\ HalfRestored(d) \in [Databases -> Database]
         /\ \A e \in Databases : e # d => HalfRestored(d)[e] = server[e]
  BY DEF HalfRestored, Database

LEMMA SetSingleUserInv == Inv /\ SetSingleUser => Inv'
<1> SUFFICES ASSUME Inv, SetSingleUser PROVE Inv'
  OBVIOUS
<1>1. phase = "single" /\ CanAlter(dbname)
  BY DEF SetSingleUser, At, Inv, AtHand
<1>2. /\ server' = SetAccess(dbname, "single") /\ phase' = "sysfiles"
      /\ UNCHANGED <<file, used, copied, index, exists, outcome, cancel_requested,
                     version_known, strayed, fault, before>>
  BY <1>1, Zenon DEF SetSingleUser, environment
<1>3. phase \in LoopPhases
  BY <1>1 DEF LoopPhases
<1>4. server \in [Databases -> Database] /\ dbname \in Databases /\ dbname' = dbname
  BY <1>2, <1>3, LoopFacts, TypeParts DEF Inv, ServerType, dbname
<1>5. /\ server' \in [Databases -> Database] /\ server'[dbname].access = "single"
      /\ \A d \in Databases : d # dbname => server'[d] = server[d]
  BY <1>2, <1>4, SetAccessFacts
<1>6. AtHand'
  BY <1>2, <1>4, <1>5 DEF AtHand, Exclusive
<1>7. NewerKept'
  <2>1. used.backup = "newer" => index = 1 /\ AccessOnly
    BY <1>3 DEF Inv, NewerKept
  <2>2. used.backup = "newer" => AccessOnly'
    BY <1>2, <1>4, <2>1, SingleIsAccessOnly, TypeParts DEF Inv
  <2> QED
    BY <1>2, <2>1, <2>2 DEF NewerKept
<1> QED
  BY <1>2, <1>3, <1>5, <1>6, <1>7, StatementKept

\* After SET MULTI_USER every database is settled as of the position at hand: the
\* job goes on to the next one, or has succeeded.
LEMMA SetMultiUserInv == Inv /\ SetMultiUser => Inv'
<1> SUFFICES ASSUME Inv, SetMultiUser PROVE Inv'
  OBVIOUS
<1>1. /\ phase = "multi" /\ server' = SetAccess(dbname, "multi")
      /\ UNCHANGED <<file, used, copied, exists, cancel_requested,
                     version_known, strayed, fault, before>>
      /\ \/ /\ index < Len(used.dbnames) /\ phase' = "filelist" /\ index' = index + 1
            /\ outcome' = outcome
         \/ /\ ~(index < Len(used.dbnames)) /\ phase' = "cleanup" /\ index' = index
            /\ outcome' = "success"
  BY Zenon DEF SetMultiUser, At, AfterDatabase, Return, environment
<1>2. phase \in LoopPhases /\ phase' \notin EarlyPhases
  BY <1>1, PhaseSets DEF LoopPhases
<1>3. /\ index \in 1..Len(used.dbnames) /\ Len(used.dbnames) \in Nat
      /\ dbname \in Databases
      /\ Restorable(used) /\ used.backup = "full" /\ outcome = "none"
      /\ strayed \/ used = file
  <2>1. used.backup # "newer"
    BY <1>1, <1>2 DEF Inv, NewerKept
  <2> QED
    BY <1>2, <2>1, LoopFacts DEF Admitted, TooNew, Restorable
<1>4. server \in [Databases -> Database]
  BY TypeParts, Zenon DEF Inv, ServerType
<1>5. server[dbname].state = "online" /\ server[dbname].content = index
  BY <1>1 DEF Inv, AtHand
<1>6. /\ server' \in [Databases -> Database]
      /\ Healthy(server'[dbname]) /\ server'[dbname].content = index
      /\ \A d \in Databases : d # dbname => server'[d] = server[d]
  <2>1. "multi" \in {"single", "multi"}
    OBVIOUS
  <2>2. /\ server' \in [Databases -> Database]
        /\ \A d \in Databases : d # dbname => server'[d] = server[d]
        /\ server'[dbname].access = "multi"
        /\ server'[dbname].state = server[dbname].state
        /\ server'[dbname].content = server[dbname].content
    BY <1>1, <1>3, <1>4, <2>1, SetAccessFacts
  <2> QED
    BY <1>5, <2>2 DEF Healthy
<1>7. /\ ServerType' /\ OneStranded' /\ UntouchedByBadFile'
      /\ \A d \in Databases : d # dbname => Settled(server', d, index - 1)
  <2>1. used.backup = "newer" => AccessOnly'
    BY <1>3
  <2> QED
    BY <1>1, <1>2, <1>6, <2>1, OnlyAtHand
<1>8. ASSUME NEW d \in Databases PROVE Settled(server', d, index)
  <2>1. index \in Nat \ {0}
    BY <1>3
  <2>2. d = dbname => Healthy(server'[d]) /\ server'[d].content = index
    BY <1>6
  <2>3. d # dbname => Settled(server', d, index - 1)
    BY <1>7
  <2> QED
    BY <2>1, <2>2, <2>3, OneMoreSettled DEF dbname
<1>9. FlagType' /\ FileType'
  BY <1>1, TypeParts, Zenon DEF Inv, FlagType, FileType
<1>10. ControlType'
  BY <1>1, <1>3, TypeParts DEF Inv, ControlType, LoopPhases, Checks
<1>11. IndexInLoop'
  <2>1. used.dbnames \in Seq(Databases)
    BY FileFacts, TypeParts DEF Inv
  <2>2. phase' = "filelist" => index' \in DOMAIN used.dbnames
    BY <1>1, <1>3, <2>1
  <2>3. phase' = "filelist" \/ phase' \notin LoopPhases
    BY <1>1, PhaseSets
  <2> QED
    BY <1>1, <2>2, <2>3, Zenon DEF IndexInLoop
<1>12. NothingYet'
  BY <1>1, <1>2, <1>3 DEF NothingYet
<1>13. SameFile'
  BY <1>1, Zenon DEF Inv, SameFile
<1>14. Examined' /\ NewerKept'
  BY <1>1, <1>3 DEF Examined, NewerKept, Admitted, Restorable, LoopPhases
<1>15. OthersSettled'
  <2>1. CASE phase' = "filelist"
    <3>1. index' - 1 = index
      BY <1>1, <1>3, <2>1
    <3>2. ASSUME NEW d \in Databases PROVE Settled(server, d, index - 1)'
      <4>1. Settled(server', d, index' - 1)
        BY <1>8, <3>1
      <4> QED
        BY <1>1, <4>1, Zenon DEF Settled, LastOf
    <3> QED
      BY <3>2, Zenon DEF OthersSettled
  <2>2. CASE phase' = "cleanup"
    BY <2>2 DEF OthersSettled, LoopPhases
  <2> QED
    BY <1>1, <2>1, <2>2
<1>16. AtHand'
  BY <1>1 DEF AtHand
<1>17. SuccessIsComplete'
  <2>1. CASE phase' = "cleanup"
    <3>1. index = Len(used.dbnames)
      BY <1>1, <1>3, <2>1
    <3>2. used.dbnames \in Seq(Databases)
      BY FileFacts, TypeParts DEF Inv
    <3>3. ASSUME NEW i \in DOMAIN used.dbnames
          PROVE  /\ Healthy(server'[used.dbnames[i]])
                 /\ LastOf(i, Len(used.dbnames)) => server'[used.dbnames[i]].content = i
      <4>1. i \in 1..index /\ used.dbnames[i] \in Databases
        BY <3>1, <3>2
      <4>2. Settled(server', used.dbnames[i], index)
        BY <1>8, <4>1
      <4> QED
        BY <3>1, <4>1, <4>2, Zenon DEF Settled
    <3> QED
      BY <1>1, <1>3, <3>3, Zenon DEF SuccessIsComplete, LastOf, Healthy
  <2>2. CASE phase' = "filelist"
    BY <1>1, <1>3, <2>2 DEF SuccessIsComplete
  <2> QED
    BY <1>1, <2>1, <2>2
<1>18. CancelStrandsNone' /\ NoSelfInflictedFailure'
  BY <1>1, <1>3 DEF CancelStrandsNone, NoSelfInflictedFailure
<1> QED
  BY <1>7, <1>9, <1>10, <1>11, <1>12, <1>13, <1>14, <1>15, <1>16, <1>17, <1>18,
     Together, Zenon

------------------------------------------------------------------------------
(* Cancelling, failures, and the end of the job *)

\* What a statement under way can leave behind is of the database at hand.
LEMMA RemainsFacts ==
  ASSUME Inv, server' \in Remains
  PROVE  \/ server' = server
         \/ /\ phase \in LoopPhases /\ server' \in [Databases -> Database]
            /\ \A d \in Databases : d # dbname => server'[d] = server[d]
            /\ used.backup = "newer" => server' = SetAccess(dbname, "single")
<1>1. server \in [Databases -> Database] /\ index \in Nat
  BY TypeParts DEF Inv, ServerType, ControlType
<1>2. CASE phase = "single"
  <2>1. phase \in LoopPhases
    BY <1>2 DEF LoopPhases
  <2>2. dbname \in Databases
    BY <2>1, LoopFacts
  <2>3. server' = server \/ server' = SetAccess(dbname, "single")
    BY <1>2 DEF Remains
  <2> QED
    BY <1>1, <2>1, <2>2, <2>3, SetAccessFacts
<1>3. CASE phase = "restore" /\ CanReplace(dbname)
  <2>1. phase \in LoopPhases /\ used.backup # "newer"
    BY <1>3 DEF LoopPhases, CanReplace
  <2>2. dbname \in Databases
    BY <2>1, LoopFacts
  <2>3. \/ server' = server \/ server' = HalfRestored(dbname)
        \/ \E a \in {"single", "multi"} : server' = Restored(dbname, a)
    BY <1>3 DEF Remains
  <2> QED
    BY <1>1, <2>1, <2>2, <2>3, HalfRestoredFacts, RestoredFacts
<1>4. CASE phase = "multi"
  <2>1. phase \in LoopPhases /\ used.backup # "newer"
    BY <1>4 DEF LoopPhases, Inv, NewerKept
  <2>2. dbname \in Databases
    BY <2>1, LoopFacts
  <2>3. server' = server \/ server' = SetAccess(dbname, "multi")
    BY <1>4 DEF Remains
  <2> QED
    BY <1>1, <2>1, <2>2, <2>3, SetAccessFacts
<1>5. CASE /\ phase \notin {"single", "multi"}
           /\ ~(phase = "restore" /\ CanReplace(dbname))
  BY <1>5 DEF Remains
<1> QED
  BY <1>2, <1>3, <1>4, <1>5

\* The job ends, by a return or with the process, and of the databases only the
\* one at hand has changed.
LEMMA EndKept ==
  ASSUME Inv, server' \in Remains, phase' \in {"cleanup", "dead"},
         outcome' \in {"none", "failure", "cancelled"},
         phase' = "dead" => outcome' = "none" /\ index' = 1,
         CancelStrandsNone', NoSelfInflictedFailure',
         cancel_requested' \in BOOLEAN, fault' \in BOOLEAN, fault => fault',
         copied' \in 0..Chunks, index' \in Nat \ {0}, exists' \in BOOLEAN,
         UNCHANGED <<file, used, version_known, strayed, before>>
  PROVE  Inv'
<1>1. phase' \notin EarlyPhases /\ phase' \notin LoopPhases
  BY PhaseSets
<1>2. ControlType' /\ FlagType' /\ FileType'
  <2>1. phase' \in Checks \cup LoopPhases \cup {"cleanup", "idle", "dead"}
    OBVIOUS
  <2>2. outcome' \in {"none", "success", "failure", "cancelled"}
    OBVIOUS
  <2> QED
    BY <2>1, <2>2, TypeParts, Zenon DEF Inv, ControlType, FlagType, FileType
<1>3. IndexInLoop' /\ NothingYet' /\ NewerKept' /\ OthersSettled'
  <2>1. NothingYet'
    BY <1>1 DEF NothingYet
  <2> QED
    BY <1>1, <2>1, Zenon DEF IndexInLoop, NewerKept, OthersSettled
<1>4. SameFile'
  BY Zenon DEF Inv, SameFile
<1>5. Examined' /\ AtHand'
  <2>1. phase' \notin {"open", "copy", "reconnect", "version", "header", "verify",
                      "syspaths", "single", "sysfiles", "restore", "rename", "multi"}
    OBVIOUS
  <2> QED
    BY <1>1, <2>1 DEF Examined, AtHand
<1>6. ServerType' /\ OneStranded' /\ UntouchedByBadFile'
  <2>1. CASE server' = server
    BY <2>1, TypeParts DEF Inv, ServerType, OneStranded, Stranded, UntouchedByBadFile,
       Restorable, TooNew, AccessOnly
  <2>2. CASE /\ phase \in LoopPhases /\ server' \in [Databases -> Database]
             /\ \A d \in Databases : d # dbname => server'[d] = server[d]
             /\ used.backup = "newer" => server' = SetAccess(dbname, "single")
    <3>1. used.backup = "newer" => AccessOnly
      BY <2>2 DEF Inv, NewerKept
    <3>2. used.backup = "newer" => AccessOnly'
      BY <2>2, <3>1, LoopFacts, SingleIsAccessOnly, TypeParts DEF Inv
    <3> QED
      BY <2>2, <3>2, OnlyAtHand
  <2> QED
    BY <2>1, <2>2, RemainsFacts
<1>7. SuccessIsComplete'
  BY DEF SuccessIsComplete
<1> QED
  BY <1>2, <1>3, <1>4, <1>5, <1>6, <1>7, Together, Zenon

LEMMA FailsInv == Inv /\ Fails => Inv'
<1> SUFFICES ASSUME Inv, Fails PROVE Inv'
  OBVIOUS
<1>1. /\ server' \in Remains /\ phase' = "cleanup" /\ outcome' = "failure" /\ fault' = TRUE
      /\ UNCHANGED <<file, used, copied, index, exists, cancel_requested,
                     version_known, strayed, before>>
  BY Zenon DEF Fails, Return
<1>2. /\ cancel_requested' \in BOOLEAN /\ exists' \in BOOLEAN
      /\ copied' \in 0..Chunks /\ index' \in Nat \ {0}
  BY <1>1, TypeParts, Zenon DEF Inv, FlagType, ControlType
<1>3. CancelStrandsNone' /\ NoSelfInflictedFailure'
  BY <1>1 DEF CancelStrandsNone, NoSelfInflictedFailure
<1> QED
  BY <1>1, <1>2, <1>3, EndKept

\* The server replaces the database at hand, or refuses a newer backup.
LEMMA RestoreDatabaseInv == Inv /\ RestoreDatabase => Inv'
<1> SUFFICES ASSUME Inv, RestoreDatabase PROVE Inv'
  OBVIOUS
<1>1. phase = "restore" /\ Exclusive(dbname) /\ phase \in LoopPhases
  BY DEF RestoreDatabase, At, Inv, AtHand, LoopPhases
<1>2. CASE CanReplace(dbname)
  <2>1. /\ \E a \in {"single", "multi"} : server' = Restored(dbname, a)
        /\ phase' = "rename"
        /\ UNCHANGED <<file, used, copied, index, exists, outcome, cancel_requested,
                       version_known, strayed, fault, before>>
    BY <1>2, Zenon DEF RestoreDatabase, environment
  <2>2. /\ server \in [Databases -> Database] /\ dbname \in Databases /\ dbname' = dbname
        /\ index \in Nat
    BY <1>1, <2>1, LoopFacts, TypeParts DEF Inv, ServerType, dbname
  <2>3. /\ server' \in [Databases -> Database]
        /\ server'[dbname].state = "online" /\ server'[dbname].content = index
        /\ \A d \in Databases : d # dbname => server'[d] = server[d]
    BY <2>1, <2>2, RestoredFacts
  <2>4. AtHand' /\ NewerKept'
    BY <1>2, <2>1, <2>2, <2>3 DEF AtHand, NewerKept, CanReplace
  <2> QED
    BY <1>1, <2>1, <2>3, <2>4, StatementKept
<1>3. CASE ~CanReplace(dbname)
  <2>1. /\ phase' = "cleanup" /\ outcome' = "failure"
        /\ UNCHANGED <<file, used, copied, index, exists, cancel_requested, server,
                       version_known, strayed, fault, before>>
    BY <1>3, Zenon DEF RestoreDatabase, Return, environment
  <2>2. /\ cancel_requested' \in BOOLEAN /\ fault' \in BOOLEAN /\ exists' \in BOOLEAN
        /\ copied' \in 0..Chunks /\ index' \in Nat \ {0}
    BY <2>1, TypeParts, Zenon DEF Inv, FlagType, ControlType
  <2>3. server' \in Remains
    BY <1>1, <1>3, <2>1 DEF Remains
  <2>4. used.backup = "newer" /\ (strayed \/ used = file)
    BY <1>1, <1>3, LoopFacts DEF CanReplace
  <2>5. CancelStrandsNone' /\ NoSelfInflictedFailure'
    BY <2>1, <2>4 DEF CancelStrandsNone, NoSelfInflictedFailure, Restorable
  <2> QED
    BY <2>1, <2>2, <2>3, <2>5, EndKept
<1> QED
  BY <1>2, <1>3

LEMMA KilledInv == Inv /\ Killed => Inv'
<1> SUFFICES ASSUME Inv, Killed PROVE Inv'
  OBVIOUS
<1>1. /\ server' \in Remains /\ phase' = "dead" /\ outcome' = "none"
      /\ cancel_requested' = FALSE /\ copied' = 0 /\ index' = 1 /\ exists' = FALSE
      /\ UNCHANGED <<file, used, version_known, strayed, fault, before>>
  BY Zenon DEF Killed, LeaveJob
<1>2. /\ fault' \in BOOLEAN /\ cancel_requested' \in BOOLEAN /\ exists' \in BOOLEAN
      /\ fault => fault'
  BY <1>1, TypeParts DEF Inv, FlagType
<1>4. copied' \in 0..Chunks /\ index' \in Nat \ {0}
  BY <1>1, ChunksAssumption
<1>3. CancelStrandsNone' /\ NoSelfInflictedFailure'
  BY <1>1 DEF CancelStrandsNone, NoSelfInflictedFailure
<1> QED
  BY <1>1, <1>2, <1>3, <1>4, EndKept

\* A cancel is taken before the first database, or between two.
LEMMA CancelledInv == Inv /\ Cancelled => Inv'
<1> SUFFICES ASSUME Inv, Cancelled PROVE Inv'
  OBVIOUS
<1>1. /\ phase \in Checks /\ phase' = "cleanup" /\ outcome' = "cancelled"
      /\ UNCHANGED <<file, used, copied, index, exists, cancel_requested, server,
                     version_known, strayed, fault, before>>
  BY Zenon DEF Cancelled, CheckHere, Return, environment
<1>2. /\ cancel_requested' \in BOOLEAN /\ fault' \in BOOLEAN /\ exists' \in BOOLEAN
      /\ copied' \in 0..Chunks /\ index' \in Nat \ {0}
  BY <1>1, TypeParts, Zenon DEF Inv, FlagType, ControlType
<1>3. server' \in Remains
  BY <1>1 DEF Remains, Checks
<1>4. CancelStrandsNone'
  <2>1. CASE phase \in EarlyPhases
    BY <1>1, <2>1, NotFailedYet DEF CancelStrandsNone
  <2>2. CASE phase = "filelist"
    <3>1. phase \in LoopPhases
      BY <2>2 DEF LoopPhases
    <3>2. index - 1 \in Nat
      BY <3>1, LoopFacts
    <3>3. \A d \in Databases : Settled(server, d, index - 1)
      BY <2>2, <3>1 DEF Inv, OthersSettled
    <3>4. \A d \in Databases :
            server[d] = before[d] \/ (Healthy(server[d]) /\ server[d].content > 0)
      BY <3>2, <3>3, SettledIsSafe
    <3> QED
      BY <1>1, <3>4 DEF CancelStrandsNone, Healthy
  <2> QED
    BY <1>1, <2>1, <2>2 DEF EarlyPhases
<1>5. NoSelfInflictedFailure'
  BY <1>1 DEF NoSelfInflictedFailure
<1> QED
  BY <1>1, <1>2, <1>3, <1>4, <1>5, EndKept

\* Picking files, a click and other settings change none of what the result is
\* about, nor does a step that stutters.
LEMMA OutsideInv ==
  Inv /\ (QueueRestores \/ CancelRestore \/ ReloadSettings \/ UNCHANGED vars) => Inv'
<1> SUFFICES ASSUME Inv,
                    QueueRestores \/ CancelRestore \/ ReloadSettings \/ UNCHANGED vars
             PROVE  Inv'
  OBVIOUS
<1>1. /\ UNCHANGED <<phase, file, used, copied, index, exists, outcome, server,
                     version_known, strayed, fault, before>>
      /\ cancel_requested' = cancel_requested \/ cancel_requested' = TRUE
  <2>1. CASE QueueRestores
    BY <2>1, Zenon DEF QueueRestores, jobVars
  <2>2. CASE CancelRestore
    BY <2>2, Zenon DEF CancelRestore, jobVars, environment
  <2>3. CASE ReloadSettings
    BY <2>3, Zenon DEF ReloadSettings, jobVars
  <2>4. CASE UNCHANGED vars
    BY <2>4, Zenon DEF vars, jobVars, environment
  <2> QED
    BY <2>1, <2>2, <2>3, <2>4
<1>2. FlagType'
  <2>1. cancel_requested' \in BOOLEAN
    BY <1>1, TypeParts, Zenon DEF Inv, FlagType
  <2> QED
    BY <1>1, <2>1, TypeParts, Zenon DEF Inv, FlagType
<1>3. ControlType' /\ FileType' /\ ServerType' /\ IndexInLoop'
  BY <1>1, TypeParts, Zenon DEF Inv, ControlType, FileType, ServerType, IndexInLoop
<1>4. NothingYet' /\ SameFile'
  BY <1>1, Zenon DEF Inv, NothingYet, SameFile
<1>5. Examined' /\ NewerKept'
  <2>1. Admitted' = Admitted /\ AccessOnly' = AccessOnly
    BY <1>1, Zenon DEF Admitted, Restorable, TooNew, AccessOnly
  <2> QED
    BY <1>1, <2>1, Zenon DEF Inv, Examined, NewerKept
<1>6. dbname' = dbname
  BY <1>1, Zenon DEF dbname
<1>7. OthersSettled'
  <2>1. ASSUME NEW d \in Databases, Settled(server, d, index - 1)
        PROVE  Settled(server, d, index - 1)'
    BY <1>1, <2>1, Zenon DEF Settled, LastOf, Healthy
  <2> QED
    BY <1>1, <1>6, <2>1, Zenon DEF Inv, OthersSettled
<1>8. AtHand'
  BY <1>1, <1>6, Zenon DEF Inv, AtHand, CanAlter, Exclusive
<1>9. OneStranded'
  <2>1. Stranded' = Stranded
    BY <1>1, Zenon DEF Stranded, Healthy
  <2> QED
    BY <2>1, Zenon DEF Inv, OneStranded
<1>10. /\ SuccessIsComplete' /\ CancelStrandsNone' /\ UntouchedByBadFile'
       /\ NoSelfInflictedFailure'
  <2>1. SuccessIsComplete' /\ CancelStrandsNone'
    BY <1>1, Zenon DEF Inv, SuccessIsComplete, CancelStrandsNone, LastOf, Healthy
  <2>2. UntouchedByBadFile' /\ NoSelfInflictedFailure'
    BY <1>1, Zenon DEF Inv, UntouchedByBadFile, NoSelfInflictedFailure, Restorable,
       TooNew, AccessOnly
  <2> QED
    BY <2>1, <2>2
<1> QED
  BY <1>2, <1>3, <1>4, <1>5, <1>7, <1>8, <1>9, <1>10, Together, Zenon

\* Where nothing has been done to the databases and nothing is reported, there is
\* nothing to be said of a result.
LEMMA NothingDone ==
  ASSUME server' = before', outcome' = "none"
  PROVE  /\ OneStranded' /\ SuccessIsComplete' /\ CancelStrandsNone'
         /\ UntouchedByBadFile' /\ NoSelfInflictedFailure'
<1>1. OneStranded'
  <2>1. Stranded' = {}
    BY DEF Stranded
  <2> QED
    BY <2>1 DEF OneStranded
<1>2. /\ SuccessIsComplete' /\ CancelStrandsNone' /\ UntouchedByBadFile'
      /\ NoSelfInflictedFailure'
  BY DEF SuccessIsComplete, CancelStrandsNone, UntouchedByBadFile,
     NoSelfInflictedFailure
<1> QED
  BY <1>1, <1>2

\* After a job, or a restart, the databases are what the next job finds.
LEMMA BetweenJobsInv == Inv /\ (Finish \/ Restart) => Inv'
<1> SUFFICES ASSUME Inv, Finish \/ Restart PROVE Inv'
  OBVIOUS
<1>1. /\ phase' = "idle" /\ outcome' = "none" /\ used' = file /\ file' = file
      /\ server' = [d \in Databases |-> [server[d] EXCEPT !.content = 0]]
      /\ before' = server'
      /\ version_known' = FALSE /\ strayed' = FALSE /\ fault' = FALSE
  BY Zenon DEF Finish, Restart, BetweenJobs
<1>2. ControlType /\ FlagType /\ NothingYet
  BY TypeParts, Zenon DEF Inv
<1>3. /\ index' = 1 /\ copied' \in 0..Chunks /\ exists' \in BOOLEAN
      /\ cancel_requested' \in BOOLEAN
  <2>1. CASE Finish
    <3>1. /\ copied' = 0 /\ index' = 1 /\ exists' = FALSE
          /\ cancel_requested' = (cancel_requested /\ queued > 0)
      BY <2>1, Zenon DEF Finish, LeaveJob
    <3>2. copied' \in 0..Chunks
      BY <3>1, ChunksAssumption
    <3>3. cancel_requested' \in BOOLEAN
      BY <3>1
    <3>4. index' = 1 /\ exists' \in BOOLEAN
      BY <3>1
    <3> QED
      BY <3>2, <3>3, <3>4
  <2>2. CASE Restart
    <3>1. phase = "dead" /\ UNCHANGED <<copied, index, exists, cancel_requested>>
      BY <2>2, Zenon DEF Restart
    <3> QED
      BY <1>2, <3>1 DEF ControlType, FlagType, NothingYet
  <2> QED
    BY <2>1, <2>2
<1>4. ControlType' /\ FlagType'
  <2>1. FlagType'
    BY <1>1, <1>3, Zenon DEF FlagType
  <2>2. ControlType'
    BY <1>1, <1>3 DEF ControlType
  <2> QED
    BY <2>1, <2>2
<1>5. FileType' /\ SameFile'
  BY <1>1, TypeParts, BackupFilesAssumption DEF Inv, FileType, SameFile
<1>6. ServerType'
  <2>1. server \in [Databases -> Database]
    BY TypeParts, Zenon DEF Inv, ServerType
  <2>2. ASSUME NEW d \in Databases PROVE [server[d] EXCEPT !.content = 0] \in Database
    BY <2>1 DEF Database
  <2> QED
    BY <1>1, <2>2 DEF ServerType
<1>7. phase' \notin EarlyPhases /\ phase' \notin LoopPhases
  BY <1>1, PhaseSets
<1>8. /\ IndexInLoop' /\ NothingYet' /\ Examined' /\ NewerKept' /\ OthersSettled'
      /\ AtHand'
  BY <1>1, <1>3, <1>7 DEF IndexInLoop, NothingYet, Examined, NewerKept, OthersSettled,
     AtHand
<1> QED
  BY <1>1, <1>4, <1>5, <1>6, <1>8, NothingDone, Together, Zenon

\* A job starts from any databases, as an earlier one or its death has left them.
LEMMA StartJobInv == Inv /\ StartJob => Inv'
<1> SUFFICES ASSUME Inv, StartJob PROVE Inv'
  OBVIOUS
<1>1. /\ phase = "idle" /\ phase' = "paths" /\ file' \in BackupFiles /\ used' = file'
      /\ UNCHANGED <<copied, index, exists, outcome, cancel_requested, version_known,
                     server, strayed, fault, before>>
  BY Zenon DEF StartJob
<1>2. phase' \in EarlyPhases /\ phase' \notin LoopPhases
  BY <1>1, PhaseSets
<1>3. outcome = "none" /\ index = 1 /\ server = before
  BY <1>1 DEF Inv, NothingYet
<1>4. ControlType' /\ FlagType' /\ ServerType'
  <2>1. phase' \in Checks \cup LoopPhases \cup {"cleanup", "idle", "dead"}
    BY <1>1 DEF Checks
  <2> QED
    BY <1>1, <2>1, TypeParts, Zenon DEF Inv, ControlType, FlagType, ServerType
<1>5. FileType' /\ SameFile'
  BY <1>1, BackupFilesAssumption DEF FileType, SameFile
<1>6. IndexInLoop' /\ NothingYet' /\ NewerKept' /\ OthersSettled'
  BY <1>1, <1>2, <1>3, Zenon DEF IndexInLoop, NothingYet, NewerKept, OthersSettled
<1>7. Examined' /\ AtHand'
  BY <1>1, <1>2 DEF Examined, AtHand
<1> QED
  BY <1>1, <1>3, <1>4, <1>5, <1>6, <1>7, NothingDone, Together, Zenon

------------------------------------------------------------------------------
\* Every step keeps the invariant.
LEMMA StepInv == Inv /\ [Next]_vars => Inv'
<1> SUFFICES ASSUME Inv, [Next]_vars PROVE Inv'
  OBVIOUS
<1>1. CASE UNCHANGED vars
  BY <1>1, OutsideInv, Zenon
<1>2. CASE JobStep
  BY <1>2, CancelledInv, CheckPathsInv, ConnectInv, UseBackupFileInv, SearchTailInv,
     OpenArchiveInv, CopyChunkInv, FinishCopyInv, ReconnectInv, GetServerVersionInv,
     ReadHeaderInv, VerifyInv, GetPathsInv, GetLogicalNamesInv, CheckExistsInv,
     SetSingleUserInv, GetSystemFilesInv, RestoreDatabaseInv, RenameLogicalFilesInv,
     SetMultiUserInv, FailsInv, BetweenJobsInv, Zenon DEF JobStep
<1>3. CASE QueueRestores \/ StartJob \/ CancelRestore \/ ReloadSettings \/ Killed \/ Restart
  BY <1>3, StartJobInv, OutsideInv, KilledInv, BetweenJobsInv, Zenon
<1> QED
  BY <1>1, <1>2, <1>3, Zenon DEF Next

\* The queue and the paths: few steps change them, and each gives them values of
\* their type.
LEMMA PathTypeStep == PathType /\ [Next]_vars => PathType'
<1> SUFFICES ASSUME PathType, [Next]_vars PROVE PathType'
  OBVIOUS
<1>1. CASE UNCHANGED <<queued, path, home, tmp_path>>
  BY <1>1, Zenon DEF PathType
<1>2. CASE \/ Cancelled \/ Connect \/ SearchTail \/ OpenArchive \/ CopyChunk \/ FinishCopy
           \/ Reconnect \/ GetServerVersion \/ ReadHeader \/ Verify \/ GetPaths
  <2>1. UNCHANGED <<queued, path, home, tmp_path>>
    BY <1>2, Zenon DEF Cancelled, Connect, SearchTail, OpenArchive, CopyChunk, FinishCopy,
       Reconnect, GetServerVersion, ReadHeader, Verify, GetPaths, GoByPath, environment
  <2> QED
    BY <1>1, <2>1
<1>3. CASE \/ GetLogicalNames \/ CheckExists \/ SetSingleUser \/ GetSystemFiles
           \/ RestoreDatabase \/ RenameLogicalFiles \/ SetMultiUser \/ Fails
           \/ CancelRestore \/ Restart \/ UNCHANGED vars
  <2>1. UNCHANGED <<queued, path, home, tmp_path>>
    BY <1>3, Zenon DEF GetLogicalNames, CheckExists, SetSingleUser, GetSystemFiles,
       RestoreDatabase, RenameLogicalFiles, SetMultiUser, Fails, CancelRestore, Restart,
       vars, environment
  <2> QED
    BY <1>1, <2>1
<1>4. CASE CheckPaths
  <2>1. tmp_path' = path /\ UNCHANGED <<queued, path, home>>
    BY <1>4, Zenon DEF CheckPaths
  <2> QED
    BY <2>1 DEF PathType
<1>5. CASE UseBackupFile \/ Finish
  <2>1. tmp_path' = NoPath /\ UNCHANGED <<queued, path, home>>
    BY <1>5, Zenon DEF UseBackupFile, GoByPath, Finish, LeaveJob
  <2> QED
    BY <2>1 DEF PathType
<1>6. CASE QueueRestores
  <2>1. /\ queued' \in 1..MaxSelection /\ home' \in Paths
        /\ UNCHANGED <<path, tmp_path>>
    BY <1>6, Zenon DEF QueueRestores
  <2> QED
    BY <2>1, SelectionAssumption DEF PathType
<1>7. CASE StartJob
  <2>1. queued > 0 /\ queued' = queued - 1 /\ UNCHANGED <<path, home, tmp_path>>
    BY <1>7, Zenon DEF StartJob
  <2> QED
    BY <2>1, SelectionAssumption DEF PathType
<1>8. CASE ReloadSettings
  <2>1. path' \in Paths \ {path} /\ UNCHANGED <<queued, home, tmp_path>>
    BY <1>8, Zenon DEF ReloadSettings
  <2> QED
    BY <2>1 DEF PathType
<1>9. CASE Killed
  <2>1. queued' = 0 /\ tmp_path' = NoPath /\ UNCHANGED <<path, home>>
    BY <1>9, Zenon DEF Killed, LeaveJob
  <2> QED
    BY <2>1, SelectionAssumption DEF PathType
<1> QED
  BY <1>2, <1>3, <1>4, <1>5, <1>6, <1>7, <1>8, <1>9, Zenon DEF Next, JobStep

\* What the job has examined, touched and left behind agrees in every reachable
\* state, in a job after any number of failed, cancelled and killed ones too.
THEOREM JobInvariant == Spec => []Inv
<1>1. Init => Inv
  BY InitInv
<1>2. Inv /\ [Next]_vars => Inv'
  BY StepInv
<1> QED
  BY <1>1, <1>2, PTL DEF Spec

\* Every variable has its type, and the loop never leaves the positions of its
\* backup.
THEOREM JobTypeCorrect == Spec => []TypeOK
<1>1. Init => PathType
  BY SelectionAssumption DEF Init, PathType
<1>2. PathType /\ [Next]_vars => PathType'
  BY PathTypeStep
<1>3. Inv /\ PathType => TypeOK
  BY Zenon DEF Inv, JobType, PathType, TypeOK, ControlType, FlagType, FileType,
     ServerType, IndexInLoop
<1> QED
  BY <1>1, <1>2, <1>3, JobInvariant, PTL DEF Spec

\* "Restore of %1 was successful." is true of every database in the backup, and of
\* the picked file unless the job went by other paths than those it was picked
\* under.
THEOREM SuccessComplete == Spec => []SuccessIsComplete
<1>1. Inv => SuccessIsComplete
  BY DEF Inv
<1> QED
  BY <1>1, JobInvariant, PTL

\* A cancel never leaves a database in single user mode or half restored.
THEOREM CancelSafe == Spec => []CancelStrandsNone
<1>1. Inv => CancelStrandsNone
  BY DEF Inv
<1> QED
  BY <1>1, JobInvariant, PTL

\* However a job ends, at most one healthy database is left stranded.
THEOREM OneStrandedAtMost == Spec => []AtMostOneStranded
<1>1. Inv => AtMostOneStranded
  <2> SUFFICES ASSUME Inv PROVE Cardinality(Stranded) <= 1
    BY DEF AtMostOneStranded
  <2>1. PICK e : Stranded \subseteq {e}
    BY DEF Inv, OneStranded
  <2>2. IsFiniteSet({e}) /\ Cardinality({e}) = 1
    BY FS_Singleton
  <2>3. Cardinality(Stranded) <= Cardinality({e})
    BY <2>1, <2>2, FS_Subset
  <2> QED
    BY <2>2, <2>3
<1> QED
  BY <1>1, JobInvariant, PTL

\* No database is touched on account of a bad file, or of one that was not picked
\* unless the job went by other paths; a backup too new for a server of unknown
\* version changes the access to databases at most.
THEOREM BadFileTouchesNothing == Spec => []UntouchedByBadFile
<1>1. Inv => UntouchedByBadFile
  BY DEF Inv
<1> QED
  BY <1>1, JobInvariant, PTL

\* Whatever state earlier jobs left the databases in, a job that meets no error and
\* goes by the right paths does not fail on a restorable file.
THEOREM FailureHasCause == Spec => []NoSelfInflictedFailure
<1>1. Inv => NoSelfInflictedFailure
  BY DEF Inv
<1> QED
  BY <1>1, JobInvariant, PTL
=============================================================================
