---------------------------- MODULE MCPadInput ----------------------------
(***************************************************************************)
(* Three casts.  The layer hook samples on one thread, frames are presented *)
(* on the other, and the game reads the controller, or a key is used too;   *)
(* or frames are presented on both, and the layer hook samples on one.      *)
(***************************************************************************)
EXTENDS PadInput

CONSTANTS t1, t2, K

Reads == [callers |-> {t1}, presenters |-> {t2}, readers |-> {t1}, inputs |-> Buttons,
          presses |-> 2]
Board == [callers |-> {t1}, presenters |-> {t2}, readers |-> {}, inputs |-> Inputs,
          presses |-> 1]
Frames == [callers |-> {t1}, presenters |-> {t1, t2}, readers |-> {}, inputs |-> Buttons,
          presses |-> 1]

MCCasts == {Reads, Board, Frames}
============================================================================
