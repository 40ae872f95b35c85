------------------------------- MODULE MCDbgGui -------------------------------
(***************************************************************************)
(* A small instance of DbgGui.                                              *)
(***************************************************************************)
EXTENDS DbgGui
===============================================================================
