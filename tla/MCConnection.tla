---------------------------- MODULE MCConnection ----------------------------
(* Instances of Connection for TLC. *)
EXTENDS Connection

\* Two servers, each with a login of its own, and settings that lack something.
MCAccepted == {[server |-> "s1", login |-> "u1"], [server |-> "s2", login |-> "u2"]}
MCSavable == MCAccepted \cup {NoSetting}
=============================================================================
