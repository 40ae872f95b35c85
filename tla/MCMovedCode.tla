---------------------------- MODULE MCMovedCode ----------------------------
(***************************************************************************)
(* Instruction mixes and places for MovedCode.  Offsets are fields of 8, 7 *)
(* and 6 bits: a branch reaches 127 words, a conditional branch or a       *)
(* literal load 63, a test branch 31, ADR 255 bytes.                       *)
(***************************************************************************)
EXTENDS MovedCode, TLC

I(op, off) == [op |-> op, off |-> off, reg |-> "X", lo |-> 0]
L(reg, off) == [op |-> "load", off |-> off, reg |-> reg, lo |-> 0]
A(off, lo) == [op |-> "adr", off |-> off, reg |-> "X", lo |-> lo]

\* The trampoline has 50 words from 400, 402 or 500, and no function and no
\* target lies in it; its other mapping is far away.
Site(in, out, mix) == [in |-> in, out |-> out, rw |-> 3000, mix |-> mix]
Near(mix) == Site(435, 500, mix)
Ahead(mix) == {Site(475, 400, mix), Site(476, 402, mix)}
Far(mix) == {Site(1000, 402, mix), Site(1001, 400, mix)}
PageAhead(mix) == Site(1006, 400, mix)
\* Here the targets, or the jump back, are just at the end of some reach.
Edges == (272 .. 276) \cup (334 .. 338) \cup (366 .. 370) \cup (456 .. 466) \cup (526 .. 532)

\* Every jump: among the moved words, forward and back, and out of them.
JumpsNear == {I("plain", 0), I("b", 2), I("b", -1), I("bl", 1), I("bl", -50), I("cond", 1),
           I("cond", 30), I("test", 2), A(1, 0)}
JumpsFar == JumpsNear \ {I("plain", 0), I("bl", 1)}
JumpsOut == {I("b", 3), I("bl", 7), I("cond", 2), I("test", 5), I("cond", 9)}

\* Literal loads, of words behind and among the moved ones.
LoadMix == {L("X", 12), L("X", 1), L("SW", 13), L("W", 20), L("Q", 17), L("D", 3), I("prfm", 4)}

\* Addresses of words and of pages.
Addresses == {A(9, 0), A(5, 0), I("adrp", 2), I("adrp", 9), I("plain", 0), I("b", 6)}

\* The mix that grows most.
Growing == {L("Q", 17), L("SW", 12), I("cond", 30), I("bl", 60), I("b", 2), I("adrp", 1)}

\* What loses its sign, size, register, page or mapping, among what refers to it.
Losing == {I("cond", -2), I("test", 1), L("S", 8), L("X", -3), A(-7, 0), A(9, 3), I("adrp", 1),
           I("b", 1)}

MCSites ==
  {Near(mix) : mix \in {JumpsNear, Addresses, Growing, Losing}}
  \cup UNION {Far(mix) : mix \in {JumpsFar, LoadMix, Addresses, Growing, Losing}}
  \cup Ahead(LoadMix)
  \cup {PageAhead(mix) : mix \in {Growing, Losing}}
  \cup {Site(d, 400, JumpsOut) : d \in Edges}

ASSUME SitesAreOrdinary == Ordinary
=============================================================================
