-------------------------------- MODULE Armv8 --------------------------------
(***************************************************************************)
(* The instruction constructors of lib/armv8.  A constructor sets one bit  *)
(* field of the word after the other, from the most general class to the   *)
(* instruction; the fields of the classes overlap, so that a later one can *)
(* take bits back from an earlier one.                                     *)
(*                                                                         *)
(* A behaviour is one call of a constructor.  A word is the set of its     *)
(* bits that are 1.  An immediate that C++ holds as u32 is the number it   *)
(* stands for, which may be negative; only the bits that are taken of it   *)
(* count.                                                                  *)
(***************************************************************************)
EXTENDS Integers, Sequences, SequencesExt

CONSTANTS Requests   \* calls: the constructor's name and its arguments

VARIABLES
  request,  \* the call
  word,     \* m_Data
  todo      \* fields still to be set

vars == <<request, word, todo>>

-----------------------------------------------------------------------------
\* Registers.  The name of a register is its number, ZR for None32 and None64,
\* SP for SP.

ZR == 31
SP == 32
Register(is64, name) == [is64 |-> is64, name |-> name]
X(n) == Register(TRUE, n)
W(n) == Register(FALSE, n)

\* m_Index has seven bits, and None is -1.
Index(r) == CASE r.name = SP -> 31 [] r.name = ZR -> 127 [] OTHER -> r.name
Is64(r) == IF r.is64 THEN 1 ELSE 0

-----------------------------------------------------------------------------
\* Fields, and the classes that set them.

Field(low, high, value) == [low |-> low, high |-> high, value |-> value]
Flag(low, value) == Field(low, low + 1, value)
Bits(value, n) == {b \in 0 .. n - 1 : (value \div 2^b) % 2 = 1}

Instruction(op0) == <<Field(25, 29, op0)>>

Op100x(op0) == Instruction(\b1000) \o <<Field(23, 26, op0)>>
Op101x(op0) == Instruction(\b1010) \o <<Field(29, 32, op0)>>
Opx1x0(op0) == Instruction(\b0100) \o <<Field(28, 32, op0)>>
Opx101 == Instruction(\b0101) \o
          <<Flag(30, 0), Flag(28, 0), Field(20, 24, 0), Field(10, 15, 0)>>

\* Add, Adds, Sub, Subs, and Cmn and Cmp with the register None.
CalcSh(imm) == imm # 0 /\ imm % 4096 = 0
CalcImm(imm) == IF CalcSh(imm) THEN imm \div 4096 ELSE imm
AddSubtractImmediate(q, op, s) ==
  Op100x(\b010) \o
  <<Flag(31, Is64(q.rd)), Flag(30, op), Flag(29, s),
    Field(0, 5, Index(q.rd)), Field(5, 10, Index(q.rn)),
    Field(10, 22, CalcImm(q.imm)), Flag(22, IF CalcSh(q.imm) THEN 1 ELSE 0)>>
Compare(q) == [rd |-> Register(q.rn.is64, ZR), rn |-> q.rn, imm |-> q.imm]

MoveWideImmediate(q, opc) ==
  Op100x(\b101) \o
  <<Flag(31, Is64(q.rd)), Field(29, 31, opc), Field(21, 23, 0), Field(5, 21, q.imm),
    Field(0, 5, Index(q.rd))>>

\* Adrp shifts a u32: the sign of a negative offset is shifted away.
PagesOf(imm) == (imm \div 4096) % 2^20
PcRelAddressing(q, op, imm) ==
  Op100x(\b000) \o
  <<Flag(31, op), Field(29, 31, imm), Field(5, 24, imm \div 4), Field(0, 5, Index(q.rd))>>

Nop == Op101x(\b110) \o <<Field(12, 26, \b01000000110010), Field(0, 5, \b11111),
                         Field(8, 12, 0), Field(5, 8, 0)>>
\* Mutant: a field of 25 bits.
UnconditionalBranchShort(q, op) ==
  Op101x(\b000) \o <<Flag(31, op), Field(0, 25, q.imm \div 4)>>
UnconditionalBranchImmediate(q, op) ==
  Op101x(\b000) \o <<Flag(31, op), Field(0, 26, q.imm \div 4)>>
UnconditionalBranchRegister(q, opc) ==
  Op101x(\b110) \o
  <<Field(12, 26, \b10000000000000), Field(21, 25, opc), Field(16, 21, \b11111),
    Field(10, 16, 0), Field(5, 10, Index(q.rn)), Field(0, 5, 0)>>

\* Orr, and Mov with the register None as its first operand.
OrrShiftedRegister(q) ==
  Opx101 \o
  <<Flag(31, Is64(q.rd)), Field(29, 31, \b01), Field(22, 24, q.shift), Flag(21, 0),
    Field(16, 21, Index(q.rm)), Field(10, 16, q.amount), Field(5, 10, Index(q.rn)),
    Field(0, 5, Index(q.rd))>>
Move(q) == [rd |-> q.rd, rn |-> Register(q.rd.is64, ZR), rm |-> q.rm, shift |-> 0, amount |-> 0]

\* Loads and stores; opc is 1 for a load.
Size(r) == 2 + Is64(r)

Extends == [uxtb |-> 0, uxth |-> 1, uxtw |-> 2, lsl |-> 3, sxtb |-> 4, sxth |-> 5, sxtw |-> 6,
            sxtx |-> 7]
CreateOption(extend) == IF extend \in {"uxtw", "lsl", "sxtw", "sxtx"} THEN Extends[extend] ELSE 0
CreateS(rt, amount) == IF amount = Size(rt) THEN 1 ELSE 0

LoadStoreRegisterOffset(q, opc) ==
  Opx1x0(\b0011) \o
  <<Field(30, 32, Size(q.rt)), Field(22, 24, opc), Flag(26, 0), Field(23, 25, 0),
    Field(16, 22, \b100000), Field(10, 12, \b10), Flag(26, 0),
    Field(30, 32, Size(q.rt)), Field(16, 21, Index(q.rm)),
    Field(13, 16, CreateOption(q.extend)), Flag(12, CreateS(q.rt, q.amount)),
    Field(0, 5, Index(q.rt)), Field(5, 10, Index(q.rn))>>

LoadStoreRegisterUnscaledImmediate(q, opc) ==
  Opx1x0(\b0011) \o
  <<Field(23, 25, 0), Field(16, 22, 0), Field(10, 12, 0),
    Field(30, 32, Size(q.rt)), Flag(26, 0), Field(22, 24, opc), Field(12, 21, q.imm),
    Field(5, 10, Index(q.rn)), Field(0, 5, Index(q.rt))>>

LoadStoreRegisterUnsignedImmediate(q, opc) ==
  Opx1x0(\b0011) \o
  <<Field(23, 25, \b10), Field(30, 32, Size(q.rt)), Flag(26, 0), Field(22, 24, opc),
    Field(10, 22, q.imm), Field(5, 10, Index(q.rn)), Field(0, 5, Index(q.rt))>>

\* The constructors.

AddImmediate(q)  == AddSubtractImmediate(q, 0, 0)
AddsImmediate(q) == AddSubtractImmediate(q, 0, 1)
SubImmediate(q)  == AddSubtractImmediate(q, 1, 0)
SubsImmediate(q) == AddSubtractImmediate(q, 1, 1)
CmnImmediate(q)  == AddsImmediate(Compare(q))
CmpImmediate(q)  == SubsImmediate(Compare(q))
Movn(q) == MoveWideImmediate(q, \b00)
Movz(q) == MoveWideImmediate(q, \b10)
Movk(q) == MoveWideImmediate(q, \b11)
Adr(q)  == PcRelAddressing(q, 0, q.imm)
Adrp(q) == PcRelAddressing(q, 1, PagesOf(q.imm))
Branch(q)         == UnconditionalBranchImmediate(q, 0)
BranchLink(q)     == UnconditionalBranchImmediate(q, 1)
BranchRegister(q) == UnconditionalBranchRegister(q, \b0000)
Ret(q)            == UnconditionalBranchRegister(q, \b0010)
MovRegister(q) == OrrShiftedRegister(Move(q))
LdrRegisterOffset(q) == LoadStoreRegisterOffset(q, 1)
StrRegisterOffset(q) == LoadStoreRegisterOffset(q, 0)
LdurUnscaledImmediate(q) == LoadStoreRegisterUnscaledImmediate(q, 1)
SturUnscaledImmediate(q) == LoadStoreRegisterUnscaledImmediate(q, 0)
LdrRegisterImmediate(q)  == LoadStoreRegisterUnsignedImmediate(q, 1)
StrRegisterImmediate(q)  == LoadStoreRegisterUnsignedImmediate(q, 0)

Construct(q) ==
  CASE q.op = "Add"  -> AddImmediate(q)      [] q.op = "Adds" -> AddsImmediate(q)
    [] q.op = "Sub"  -> SubImmediate(q)      [] q.op = "Subs" -> SubsImmediate(q)
    [] q.op = "Cmn"  -> CmnImmediate(q)      [] q.op = "Cmp"  -> CmpImmediate(q)
    [] q.op = "Movn" -> Movn(q)              [] q.op = "Movz" -> Movz(q)
    [] q.op = "Movk" -> Movk(q)              [] q.op = "Nop"  -> Nop
    [] q.op = "Adr"  -> Adr(q)               [] q.op = "Adrp" -> Adrp(q)
    [] q.op = "Branch" -> Branch(q)          [] q.op = "BranchLink" -> BranchLink(q)
    [] q.op = "BranchRegister" -> BranchRegister(q)  [] q.op = "Ret" -> Ret(q)
    [] q.op = "Orr"  -> OrrShiftedRegister(q)        [] q.op = "Mov" -> MovRegister(q)
    [] q.op = "LdrOffset" -> LdrRegisterOffset(q)    [] q.op = "StrOffset" -> StrRegisterOffset(q)
    [] q.op = "Ldur" -> LdurUnscaledImmediate(q)     [] q.op = "Stur" -> SturUnscaledImmediate(q)
    [] q.op = "Ldr"  -> LdrRegisterImmediate(q)      [] q.op = "Str"  -> StrRegisterImmediate(q)

-----------------------------------------------------------------------------
Init ==
  /\ request \in Requests
  /\ word = {}
  /\ todo = Construct(request)

SetBits(w, f) ==
  (w \ (f.low .. f.high - 1)) \cup {f.low + b : b \in Bits(f.value, f.high - f.low)}

SetField ==
  /\ todo # <<>>
  /\ word' = SetBits(word, Head(todo))
  /\ todo' = Tail(todo)
  /\ UNCHANGED request

Next == SetField
Spec == Init /\ [][Next]_vars

\* static_assert: the upper and the lower half of some calls' words.
WordOf(q) == FoldLeft(SetBits, {}, Construct(q))
Half(bits, k) == {b \in 0 .. 15 : b + k \in bits}
Asserted(q, upper, lower) ==
  Half(WordOf(q), 16) = Bits(upper, 16) /\ Half(WordOf(q), 0) = Bits(lower, 16)

Imm(op, rd, rn, imm) == [op |-> op, rd |-> rd, rn |-> rn, imm |-> imm]
Access(op, rt, rn, imm) == [op |-> op, rt |-> rt, rn |-> rn, imm |-> imm]
Offset(op, rt, rn, rm, extend, amount) ==
  [op |-> op, rt |-> rt, rn |-> rn, rm |-> rm, extend |-> extend, amount |-> amount]
Shifted(rd, rn, rm, shift, amount) ==
  [op |-> "Orr", rd |-> rd, rn |-> rn, rm |-> rm, shift |-> shift, amount |-> amount]

ASSUME Armv8Asserted ==
  /\ Asserted(Imm("Add", X(4), X(5), 4096), \h9140, \h04A4)
  /\ Asserted(Imm("Adds", W(6), W(7), 356352), \h3141, \h5CE6)
  /\ Asserted(Imm("Sub", X(2), X(3), 46), \hD100, \hB862)
  /\ Asserted(Imm("Subs", X(0), X(1), 12), \hF100, \h3020)
  /\ Asserted([op |-> "Cmn", rn |-> W(1), imm |-> 32], \h3100, \h803F)
  /\ Asserted([op |-> "Cmp", rn |-> X(3), imm |-> 344064], \hF141, \h507F)
  /\ Asserted([op |-> "Adr", rd |-> X(2), imm |-> \h69669], \h3034, \hB342)
  /\ Asserted([op |-> "Adrp", rd |-> X(2), imm |-> \h6969000], \hB003, \h4B42)
  /\ Asserted([op |-> "Nop"], \hD503, \h201F)
  /\ Asserted([op |-> "Branch", imm |-> \h6900], \h1400, \h1A40)
  /\ Asserted([op |-> "BranchLink", imm |-> 8], \h9400, \h0002)
  /\ Asserted([op |-> "BranchRegister", rn |-> X(3)], \hD61F, \h0060)
  /\ Asserted([op |-> "Ret", rn |-> X(30)], \hD65F, \h03C0)
  /\ Asserted(Shifted(X(9), X(10), X(11), 0, 0), \hAA0B, \h0149)
  /\ Asserted(Shifted(X(6), X(7), X(8), 3, 8), \hAAC8, \h20E6)
  /\ Asserted([op |-> "Mov", rd |-> X(6), rm |-> X(7)], \hAA07, \h03E6)
  /\ Asserted(Offset("LdrOffset", X(3), X(4), W(5), "uxtw", 3), \hF865, \h5883)
  /\ Asserted(Offset("StrOffset", X(6), X(7), X(8), "sxtx", 3), \hF828, \hF8E6)
  /\ Asserted(Access("Ldur", W(26), X(27), -69), \hB85B, \hB37A)
  /\ Asserted(Access("Stur", X(30), X(SP), -5), \hF81F, \hB3FE)
  /\ Asserted(Access("Ldr", W(22), X(23), 75), \hB941, \h2EF6)
  /\ Asserted(Access("Str", X(14), X(15), 4), \hF900, \h11EE)

-----------------------------------------------------------------------------
\* What a processor reads in the word.

Read(low, high) ==
  LET v[k \in low .. high] ==
        IF k = low THEN 0 ELSE v[k - 1] + (IF k - 1 \in word THEN 2^(k - 1 - low) ELSE 0)
  IN  v[high]
Signed(low, high) ==
  IF high - 1 \in word THEN Read(low, high) - 2^(high - low) ELSE Read(low, high)
Named(low, at31) == IF Read(low, low + 5) = 31 THEN at31 ELSE Read(low, low + 5)
Wide == 31 \in word

Reads(op, r) == [op |-> op, r |-> r]
Which(opc, ops) == ops[opc + 1]

\* The classes of the architecture; a word belongs to one.  Number 31 is SP
\* or ZR by instruction and operand.
Meaning ==
  CASE Read(23, 29) = \b100010 ->
         Reads(Which(Read(29, 31), <<"Add", "Adds", "Sub", "Subs">>),
               [is64 |-> Wide, rn |-> Named(5, SP),
                rd |-> Named(0, IF 29 \in word THEN ZR ELSE SP),
                imm |-> Read(10, 22) * (IF 22 \in word THEN 4096 ELSE 1)])
    [] Read(23, 29) = \b100101 ->
         Reads(Which(Read(29, 31), <<"Movn", "None", "Movz", "Movk">>),
               [is64 |-> Wide, rd |-> Named(0, ZR), imm |-> Read(5, 21), hw |-> Read(21, 23)])
    [] Read(24, 29) = \b10000 ->
         Reads(IF Wide THEN "Adrp" ELSE "Adr",
               [rd |-> Named(0, ZR), imm |-> Signed(5, 24) * 4 + Read(29, 31)])
    [] Read(26, 31) = \b00101 ->
         Reads(IF Wide THEN "BranchLink" ELSE "Branch", [imm |-> Signed(0, 26) * 4])
    [] Read(12, 32) = \b11010101000000110010 /\ Read(0, 12) = \b11111 ->
         Reads("Nop", <<>>)
    [] Read(25, 32) = \b1101011 /\ Read(10, 21) = \b11111000000 /\ Read(0, 5) = 0
         /\ Read(21, 25) \in {0, 2} ->
         Reads(IF Read(21, 25) = 0 THEN "BranchRegister" ELSE "Ret", [rn |-> Named(5, ZR)])
    [] Read(24, 31) = \b0101010 /\ 21 \notin word ->
         Reads("Orr", [is64 |-> Wide, rd |-> Named(0, ZR), rn |-> Named(5, ZR),
                       rm |-> Named(16, ZR), shift |-> Read(22, 24), amount |-> Read(10, 16)])
    [] Read(23, 30) = \b1110000 /\ 31 \in word /\ 21 \in word /\ Read(10, 12) = 2 ->
         Reads(IF 22 \in word THEN "LdrOffset" ELSE "StrOffset",
               [is64 |-> 30 \in word, rt |-> Named(0, ZR), rn |-> Named(5, SP),
                rm |-> Named(16, ZR), option |-> Read(13, 16), s |-> 12 \in word])
    [] Read(23, 30) = \b1110000 /\ 31 \in word /\ 21 \notin word /\ Read(10, 12) = 0 ->
         Reads(IF 22 \in word THEN "Ldur" ELSE "Stur",
               [is64 |-> 30 \in word, rt |-> Named(0, ZR), rn |-> Named(5, SP),
                imm |-> Signed(12, 21)])
    [] Read(23, 30) = \b1110010 /\ 31 \in word ->
         Reads(IF 22 \in word THEN "Ldr" ELSE "Str",
               [is64 |-> 30 \in word, rt |-> Named(0, ZR), rn |-> Named(5, SP),
                imm |-> Read(10, 22)])
    [] OTHER -> Reads("None", <<>>)

\* What the call asks for; comparisons and moves are other instructions with
\* the register ZR.
Wanted(q) ==
  CASE q.op \in {"Add", "Adds", "Sub", "Subs"} ->
         Reads(q.op, [is64 |-> q.rd.is64, rn |-> q.rn.name, rd |-> q.rd.name, imm |-> q.imm])
    [] q.op \in {"Cmn", "Cmp"} ->
         Reads(IF q.op = "Cmn" THEN "Adds" ELSE "Subs",
               [is64 |-> q.rn.is64, rn |-> q.rn.name, rd |-> ZR, imm |-> q.imm])
    [] q.op \in {"Movn", "Movz", "Movk"} ->
         Reads(q.op, [is64 |-> q.rd.is64, rd |-> q.rd.name, imm |-> q.imm, hw |-> 0])
    [] q.op = "Adr"  -> Reads("Adr", [rd |-> q.rd.name, imm |-> q.imm])
    [] q.op = "Adrp" -> Reads("Adrp", [rd |-> q.rd.name, imm |-> q.imm \div 4096])
    [] q.op = "Nop"  -> Reads("Nop", <<>>)
    [] q.op \in {"Branch", "BranchLink"} -> Reads(q.op, [imm |-> q.imm])
    [] q.op \in {"BranchRegister", "Ret"} -> Reads(q.op, [rn |-> q.rn.name])
    [] q.op = "Orr" ->
         Reads("Orr", [is64 |-> q.rd.is64, rd |-> q.rd.name, rn |-> q.rn.name,
                       rm |-> q.rm.name, shift |-> q.shift, amount |-> q.amount])
    [] q.op = "Mov" ->
         Reads("Orr", [is64 |-> q.rd.is64, rd |-> q.rd.name, rn |-> ZR, rm |-> q.rm.name,
                       shift |-> 0, amount |-> 0])
    [] q.op \in {"LdrOffset", "StrOffset"} ->
         Reads(q.op, [is64 |-> q.rt.is64, rt |-> q.rt.name, rn |-> q.rn.name,
                      rm |-> q.rm.name, option |-> Extends[q.extend], s |-> q.amount # 0])
    [] q.op \in {"Ldur", "Stur", "Ldr", "Str"} ->
         Reads(q.op, [is64 |-> q.rt.is64, rt |-> q.rt.name, rn |-> q.rn.name, imm |-> q.imm])

\* There is such an instruction.  The constructors leave these conditions to
\* their callers: the assertions for them are commented out.
Exists(q) ==
  CASE q.op \in {"Add", "Adds", "Sub", "Subs", "Cmn", "Cmp"} ->
         /\ CalcImm(q.imm) \in 0 .. 4095
         /\ q.rn.name # ZR
         /\ q.op \in {"Add", "Sub"} => q.rd.name # ZR
         /\ q.op \in {"Adds", "Subs"} => q.rd.name # SP
         /\ q.op \notin {"Cmn", "Cmp"} => q.rd.is64 = q.rn.is64
    [] q.op \in {"Movn", "Movz", "Movk"} -> q.rd.name # SP
    [] q.op = "Adr"  -> q.imm \in -(2^20) .. 2^20 - 1 /\ q.rd.is64 /\ q.rd.name # SP
    [] q.op = "Adrp" -> q.imm % 4096 = 0 /\ q.rd.is64 /\ q.rd.name # SP
    [] q.op = "Nop"  -> TRUE
    [] q.op \in {"Branch", "BranchLink"} -> q.imm % 4 = 0 /\ q.imm \in -(2^27) .. 2^27 - 1
    [] q.op \in {"BranchRegister", "Ret"} -> q.rn.is64 /\ q.rn.name # SP
    [] q.op \in {"Orr", "Mov"} ->
         /\ q.rd.is64 = q.rm.is64 /\ SP \notin {q.rd.name, q.rm.name}
         /\ q.op = "Orr" => /\ q.rn.is64 = q.rd.is64 /\ q.rn.name # SP
                            /\ q.amount \in 0 .. (IF q.rd.is64 THEN 63 ELSE 31)
    [] OTHER ->
         /\ q.rt.name # SP /\ q.rn.is64 /\ q.rn.name # ZR
         /\ q.op \in {"LdrOffset", "StrOffset"} =>
              /\ q.extend \in {"uxtw", "lsl", "sxtw", "sxtx"}
              /\ q.rm.name # SP /\ q.rm.is64 = (q.extend \in {"lsl", "sxtx"})
              /\ q.amount \in {0, Size(q.rt)}
         /\ q.op \in {"Ldur", "Stur"} => q.imm \in -256 .. 255
         /\ q.op \in {"Ldr", "Str"} => q.imm \in 0 .. 4095

LosesSign(q) == q.op = "Adrp" /\ q.imm < 0

(* A processor reads in the finished word what the constructor was asked    *)
(* for, if there is such an instruction: whatever bits a field takes from   *)
(* one that was set before it, and however a negative operand is widened or  *)
(* cut.  Only an Adrp to a lower page loses its sign (Adrp).                 *)
WordsSayWhatWasAsked ==
  todo = <<>> /\ Exists(request) /\ ~LosesSign(request) => Meaning = Wanted(request)
===============================================================================
