---------------------------- MODULE MCPatcher ----------------------------
(***************************************************************************)
(* A module of four words in cache lines of two and three words, one       *)
(* stream patcher and one random access patcher.                           *)
(***************************************************************************)
EXTENDS Patcher

(* Lines of n words.                                                       *)
LinesOf(n) == [a \in 0 .. Size |-> a - (a % n)]
DataLines == LinesOf(2)
InstLines == LinesOf(3)

(* A function before the module, within reach of some words only.          *)
Functions == {-3}
============================================================================
