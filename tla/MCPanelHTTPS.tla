---------------------------- MODULE MCPanelHTTPS ----------------------------
(* The requests of an administrator, one at a time. *)
EXTENDS PanelHTTPS

CONSTANTS x
=============================================================================
