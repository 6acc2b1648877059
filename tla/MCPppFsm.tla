----------------------------- MODULE MCPppFsm -----------------------------
(* Small instances of PppFsm for TLC. *)
EXTENDS PppFsm

\* lcp_open: plain, passive, silent; ipcp_init: plain.
MCFlagSets == {{}, {"PASSIVE", "RESTART"}, {"SILENT", "RESTART"}}
============================================================================
