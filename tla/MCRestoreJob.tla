---------------------------- MODULE MCRestoreJob ----------------------------
(* Instances of RestoreJob for TLC. *)
EXTENDS RestoreJob, TLC

CONSTANTS d1, d2, p1, p2, none

\* One file per way a file can be bad, and good ones: in an archive, with two
\* databases, and with one database in two positions.
MCBackupFiles ==
    [compressed : {FALSE}, archive : {"good"}, backup : {"full"},
     dbnames : {<<d1, d2>>, <<d1, d1>>}]
      \cup
    [compressed : {TRUE}, archive : {"good", "incomplete", "empty", "corrupt"},
     backup : {"full"}, dbnames : {<<d1>>}]
      \cup
    [compressed : {FALSE}, archive : {"good"},
     backup : {"differential", "newer", "damaged", "ambiguous"}, dbnames : {<<d1>>}]
      \cup
    [compressed : {FALSE}, archive : {"good"}, backup : {"unreadable"},
     dbnames : {<<>>}]
=============================================================================
