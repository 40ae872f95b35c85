---------------------------- MODULE MCNvnHooks ----------------------------
(***************************************************************************)
(* Data of one or two units of a pool's alignment.                         *)
(***************************************************************************)
EXTENDS NvnHooks
============================================================================
