---------------------------- MODULE MCMcpControl ----------------------------
(* Small instances of McpControl.  No symmetry, for the temporal property. *)
(* Three tokens: the stored one, the one a server has or is started with,  *)
(* and a fresh one.                                                        *)
EXTENDS McpControl
=============================================================================
