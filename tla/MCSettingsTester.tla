-------------------------- MODULE MCSettingsTester --------------------------
(* Instances of SettingsTester for TLC. *)
EXTENDS SettingsTester
=============================================================================
