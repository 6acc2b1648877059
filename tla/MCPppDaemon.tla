---------------------------- MODULE MCPppDaemon ----------------------------
(* Small instances of PppDaemon for TLC. *)
EXTENDS PppDaemon

Active == {{}}
Passive == {{"PASSIVE", "RESTART"}, {"SILENT", "RESTART"}}
TwoModes == Active \cup {{"PASSIVE", "RESTART"}}
AllModes == Active \cup Passive
============================================================================
