------------------------------- MODULE MCArmv8 -------------------------------
(***************************************************************************)
(* Calls with operands at and around the limits of their fields, also      *)
(* those for which there is no instruction.  The registers are the first,  *)
(* the last, SP and None, in both widths.                                  *)
(***************************************************************************)
EXTENDS Armv8

Registers == {X(0), X(30), X(SP), X(ZR), W(5), W(ZR)}
Bases == {X(1), X(SP), X(ZR), W(21)}

Around(n) == {n - 1, n, n + 1}
Near(n) == Around(0) \cup Around(n) \cup Around(-n)

AddSubtracts ==
  [op : {"Add", "Adds", "Sub", "Subs"}, rd : Registers, rn : Bases,
   imm : Around(1) \cup Around(4096) \cup {12288, 4095 * 4096, 4096 * 4096, 69632}]
Compares == [op : {"Cmn", "Cmp"}, rn : Bases, imm : Around(1) \cup Around(4096) \cup {344064}]
MoveWides == [op : {"Movn", "Movz", "Movk"}, rd : Registers, imm : {0, 1, 32768, 65535}]
PcRels ==
  [op : {"Adr"}, rd : Registers, imm : Near(2^20) \cup {5, -6}]
  \cup [op : {"Adrp"}, rd : Registers, imm : {4096 * p : p \in {0, 1, 26985, 2^18, -1, -(2^18)}}]
Branches ==
  [op : {"Branch", "BranchLink"}, imm : Near(2^27) \cup {4, -4, 17472, 2^27 - 4, -(2^27) + 4}]
  \cup [op : {"BranchRegister", "Ret"}, rn : Registers] \cup {[op |-> "Nop"]}
Logicals ==
  [op : {"Orr"}, rd : {X(3), W(4), X(ZR)}, rn : {X(4), W(5), X(SP)}, rm : {X(30), W(ZR)},
   shift : 0 .. 3, amount : {0, 8, 31, 32, 63}]
  \cup [op : {"Mov"}, rd : Registers, rm : Registers]
Offsets ==
  [op : {"LdrOffset", "StrOffset"}, rt : {X(7), W(8), X(ZR)}, rn : Bases, rm : {X(30), W(9)},
   extend : DOMAIN Extends, amount : 0 .. 3]
Immediates ==
  [op : {"Ldur", "Stur"}, rt : Registers, rn : Bases, imm : Near(256) \cup {-16}]
  \cup [op : {"Ldr", "Str"}, rt : Registers, rn : Bases, imm : {0, 1, 75, 2048, 4095}]

MCRequests ==
  AddSubtracts \cup Compares \cup MoveWides \cup PcRels \cup Branches \cup Logicals
    \cup Offsets \cup Immediates
===============================================================================
