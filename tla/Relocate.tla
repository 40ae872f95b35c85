------------------------------ MODULE Relocate ------------------------------
(***************************************************************************)
(* Moving instructions to a trampoline (__fix_instructions and the __fix_* *)
(* functions of lib/hook/nx64/hook_impl.cpp).                              *)
(*                                                                         *)
(* Up to five instructions of a function are copied one after the other.   *)
(* One that depends on its own address gets a new offset when its target   *)
(* is in reach of the copy, and becomes a short sequence with a literal    *)
(* when it is not.  A branch to an instruction that has not been moved yet *)
(* is noted in that instruction's fix map and completed when it is.        *)
(*                                                                         *)
(* Addresses count words.  A word of code keeps its operation, its signed  *)
(* offset and one argument; register names, conditions and bit numbers are *)
(* copied by the code without a change and left out.                       *)
(***************************************************************************)
EXTENDS Integers, Sequences

CONSTANTS
  Sites,       \* [in, out, rw, mix]: a function, a trampoline, its alias, and
               \* the instructions that function may begin with
  BranchSpan,  \* values of the offset field of B and BL, in words (2^26)
  CondSpan,    \* of B.cond, CBZ, CBNZ and the literal loads (2^19)
  TestSpan,    \* of TBZ and TBNZ (2^14)
  AdrSpan,     \* of ADR, in bytes (2^21)
  PageWords,   \* words in a page, for ADRP (1024)
  WrapWords    \* words in four gigabytes, where 32-bit offsets wrap (2^30)

MaxInstructions == 5
TrampolineSizeEight == MaxInstructions * 8               \* mutant
TrampolineSize == MaxInstructions * 10
MaxReferences == MaxInstructions * 2

Loads == {"W", "X", "SW", "S", "D", "Q"}
Ops == {"plain", "b", "bl", "cond", "test", "prfm", "load", "adr", "adrp"}

\* lo: the two low bits of an ADR target.
Instructions == [op : Ops, off : Int, reg : Loads, lo : 0 .. 3]

ASSUME RelocateAssumption ==
  /\ \A s \in Sites : /\ s.in \in Nat /\ s.out \in Nat /\ s.rw \in Nat /\ s.out % 2 = 0
                     /\ s.mix \subseteq Instructions
  /\ {BranchSpan, CondSpan, TestSpan, AdrSpan, PageWords, WrapWords} \subseteq Nat \ {0}

\* HookFuncImpl: a near callback takes one word, a far one four, or five where
\* the literal would not be aligned.
Counts(s) == {1, IF (s.in + 2) % 2 # 0 THEN 5 ELSE 4}

VARIABLES
  count,  \* how many instructions are to be moved
  prog,   \* those read so far
  site,   \* where they are and where they go
  i,      \* index of the next one; count + 1 when the jump back is written
  outp,   \* words written
  code,   \* the words
  dat,    \* context::dat[].ins, the new address of each instruction
  fmap,   \* context::dat[].fmap, words to complete when it is known
  begins  \* auxiliary: outp when each instruction, and the jump back, began

vars == <<count, prog, site, i, outp, code, dat, fmap, begins>>

-----------------------------------------------------------------------------
Here == site.in + i
Rx(p) == site.out + p
Rw(p) == site.rw + p
InFixingRange(a) == a >= site.in /\ a < site.in + count
Ref(a) == a - site.in

Abs(n) == IF n < 0 THEN -n ELSE n
Reach(span) == (span \div 2) - 1
Unsigned(span, n) == n % span
\* What a signed field of so many values holds of n.
Signed(span, n) == Unsigned(span, n + (span \div 2)) - (span \div 2)

Word(op, off, arg) == [op |-> op, off |-> off, arg |-> arg]
Nop == Word("nop", 0, 0)
Address(bytes) == <<Word("lit", 0, bytes), Word("high", 0, 0)>>
\* LDR X17, #off; BR X17
LdrX17(off) == Word("ldr17", off, 0)
BrX17 == Word("br17", 0, 0)
AbsoluteJump(to) == <<LdrX17(2), BrX17>> \o Address(4 * to)
\* LDR Xd, #8; B #0xc
AbsoluteLoad(bytes) == <<Word("ldrd", 2, 0), Word("b", 3, 0)>> \o Address(bytes)

Init ==
  /\ site \in Sites
  /\ count \in Counts(site)
  /\ prog = <<>>
  /\ i = 0
  /\ outp = 0
  /\ code = <<>>
  /\ dat = [k \in 0 .. MaxInstructions - 1 |-> 0]
  /\ fmap = [k \in 0 .. MaxInstructions - 1 |-> <<>>]
  /\ begins = <<>>

Moving(ins, ops) == i < count /\ ins.op \in ops
MisalignedNot(p, words) == Rx(p) % words = 0             \* mutant
Misaligned(p, words) == Rx(p) % words # 0

\* n NOPs and then words, at the output pointer.
Put(n, words) == code \o [m \in 1 .. n |-> Nop] \o words

\* process_fix_map: complete the words that wait for instruction i at start.
ProcessFixMap(c, start) ==
  [m \in DOMAIN c |->
     IF \E n \in DOMAIN fmap[i] : fmap[i][n].at = m - 1
       THEN LET f == fmap[i][CHOOSE n \in DOMAIN fmap[i] : fmap[i][n].at = m - 1]
            IN  [c[m] EXCEPT !.off = Signed(f.span, start - Rx(m - 1))]
       ELSE c[m]]

\* The entries of instruction i have been used.
Clear(refs) == [refs EXCEPT ![i] = <<>>]

\* One instruction moved: n NOPs, its words, its new address, the fix maps.
Emit(ins, n, words, start, refs) ==
  /\ code' = ProcessFixMap(Put(n, words), start)
  /\ outp' = outp + n + Len(words)
  /\ dat' = [dat EXCEPT ![i] = start]
  /\ fmap' = Clear(refs)
  /\ begins' = Append(begins, outp)
  /\ prog' = Append(prog, ins)
  /\ i' = i + 1
  /\ UNCHANGED <<count, site>>

\* insert_fix_map: a reference that finds no room is dropped.
Insert(refs, span) ==
  IF Len(refs) < MaxReferences THEN Append(refs, [at |-> outp, span |-> span]) ELSE refs

\* An offset to target t from the output pointer, and who has to complete it.
NewOffsetOld(t) == t - Rx(outp)                          \* mutant
NewOffset(t) ==
  IF ~InFixingRange(t) THEN t - Rx(outp)
  ELSE IF Ref(t) < i THEN dat[Ref(t)] - Rx(outp) ELSE 0
References(t, span) ==
  IF InFixingRange(t) /\ Ref(t) > i
    THEN [fmap EXCEPT ![Ref(t)] = Insert(@, span)] ELSE fmap

TooFar(t, span) == ~InFixingRange(t) /\ Abs(t - Rx(outp)) >= Reach(span)
Pad(needed) == IF needed THEN 1 ELSE 0

-----------------------------------------------------------------------------
\* __fix_branch_imm.  This offset alone keeps its sign: the others are taken out
\* of the instruction as unsigned numbers, of the field's width or of 32 bits.

ZeroExtended(off) == off % WrapWords

BranchAbsolute(ins) ==
  LET t == Here + ins.off
      n == Pad(Misaligned(outp + 2, 2))
  IN  /\ Moving(ins, {"b"}) /\ TooFar(t, BranchSpan)
      /\ Emit(ins, n, AbsoluteJump(t), Rx(outp + n), fmap)

\* LDR X17, #12; ADR X30, #16; BR X17
CallAbsolute(ins) ==
  LET t == Here + ins.off
      n == Pad(~Misaligned(outp + 2, 2))
  IN  /\ Moving(ins, {"bl"}) /\ TooFar(t, BranchSpan)
      /\ Emit(ins, n, <<LdrX17(3), Word("adr30", 4, 0), BrX17>> \o Address(4 * t), Rx(outp + n), fmap)

BranchRelative(ins) ==
  LET t == Here + ins.off
  IN  /\ Moving(ins, {"b", "bl"}) /\ ~TooFar(t, BranchSpan)
      /\ Emit(ins, 0, <<Word(ins.op, Signed(BranchSpan, NewOffset(t)), 0)>>, Rx(outp),
              References(t, BranchSpan))

-----------------------------------------------------------------------------
\* __fix_cond_comp_test_branch

CondField(ins) == IF ins.op = "test" THEN TestSpan ELSE CondSpan
CondTarget(ins) == Here + Unsigned(CondField(ins), ins.off)

CondAbsolute(ins) ==
  LET t == CondTarget(ins)
      n == Pad(Misaligned(outp + 4, 2))
  IN  /\ Moving(ins, {"cond", "test"}) /\ TooFar(t, CondField(ins))
      /\ Emit(ins, n, <<Word(ins.op, 2, 0), Word("b", 5, 0)>> \o AbsoluteJump(t), Rx(outp), fmap)

CondRelative(ins) ==
  LET t == CondTarget(ins)
  IN  /\ Moving(ins, {"cond", "test"}) /\ ~TooFar(t, CondField(ins))
      /\ Emit(ins, 0, <<Word(ins.op, Signed(CondField(ins), NewOffset(t)), 0)>>, Rx(outp),
              References(t, CondField(ins)))

-----------------------------------------------------------------------------
\* __fix_loadlit: a prefetch is dropped, a literal out of reach or among the
\* moved words is copied behind the load.

Prefetch(ins) ==
  /\ Moving(ins, {"prfm"})
  /\ Emit(ins, 0, <<>>, Rx(outp), fmap)

\* Words a register takes, and words the code aligns and copies for it.
Width(reg) == IF reg = "Q" THEN 4 ELSE IF reg \in {"X", "D"} THEN 2 ELSE 1
Aligned(reg) == IF reg = "SW" THEN 2 ELSE Width(reg)
LoadTooFarOnly(t, reg) == Abs(t - Rx(outp)) + Aligned(reg) - 1 >= Reach(CondSpan)  \* mutant
LoadTooFar(t, reg) ==
  InFixingRange(t) \/ Abs(t - Rx(outp)) + Aligned(reg) - 1 >= Reach(CondSpan)
Data(t, words) == [n \in 1 .. words |-> Word("data", 0, t + n - 1)]

LoadCopied(ins) ==
  LET t == Here + ZeroExtended(ins.off)
      al == Aligned(ins.reg)
      n == (-(Rx(outp) + 2)) % al
  IN  /\ Moving(ins, {"load"}) /\ LoadTooFar(t, ins.reg)
      /\ Emit(ins, n, <<Word("load", 2, ins.reg), Word("b", 1 + al, 0)>> \o Data(t, al),
              Rx(outp + n), fmap)

\* The offset is masked with the complement of the opcode's mask: a negative
\* one sets the bits that select the size of W, S, D and Q.
Loaded(reg, off) ==
  IF off >= 0 \/ reg \in {"X", "SW"} THEN reg ELSE IF reg = "W" THEN "X" ELSE "reserved"

LoadRelative(ins) ==
  LET t == Here + ZeroExtended(ins.off)
      n == (t - Rx(outp)) % Aligned(ins.reg)
      off == t - Rx(outp + n)
  IN  /\ Moving(ins, {"load"}) /\ ~LoadTooFar(t, ins.reg)
      /\ Emit(ins, n, <<Word("load", Signed(CondSpan, off), Loaded(ins.reg, off))>>,
              Rx(outp + n), fmap)

-----------------------------------------------------------------------------
\* __fix_pcreladdr.  An adr word's argument is [lo, rd], rd the bits or-ed into
\* its register number.

AdrTooFar(t, lo) == ~InFixingRange(t) /\ Abs(4 * (t - Rx(outp)) + lo) >= Reach(AdrSpan)

AdrAbsolute(ins) ==
  LET t == Here + ZeroExtended(ins.off)
      n == Pad(Misaligned(outp + 2, 2))
  IN  /\ Moving(ins, {"adr"}) /\ AdrTooFar(t, ins.lo)
      /\ Emit(ins, n, AbsoluteLoad(4 * t + ins.lo), Rx(outp + n), fmap)

AdrRelative(ins) ==
  LET t == Here + ZeroExtended(ins.off)
      arg == [lo |-> ins.lo, rd |-> IF InFixingRange(t) THEN 0 ELSE 8 * ins.lo]
  IN  /\ Moving(ins, {"adr"}) /\ ~AdrTooFar(t, ins.lo)
      /\ Emit(ins, 0, <<Word("adr", Signed(AdrSpan \div 4, NewOffset(t)), arg)>>, Rx(outp),
              References(t, AdrSpan \div 4))

Page(a) == a - (a % PageWords)

\* The address noted first is the writable one.
AdrpAbsolute(ins) ==
  LET t == Page(Here) + ZeroExtended(ins.off * PageWords)
      n == Pad(Misaligned(outp + 2, 2))
  IN  /\ Moving(ins, {"adrp"}) /\ ~InFixingRange(t)
      /\ Emit(ins, n, AbsoluteLoad(4 * t), IF n = 0 THEN Rw(outp) ELSE Rx(outp + n), fmap)

AdrpCopied(ins) ==
  /\ Moving(ins, {"adrp"}) /\ InFixingRange(Page(Here) + ZeroExtended(ins.off * PageWords))
  /\ Emit(ins, 0, <<Word("adrp", ins.off, 0)>>, Rw(outp), fmap)

-----------------------------------------------------------------------------
\* __fix_instructions: every other instruction, and the jump back.

Plain(ins) ==
  /\ Moving(ins, {"plain"})
  /\ Emit(ins, 0, <<Word("plain", 0, Here)>>, Rx(outp), fmap)

CloseNear == FALSE                                       \* mutant
CloseTooFar == Abs(Here - Rx(outp)) >= Reach(BranchSpan)

Close ==
  LET n == Pad(CloseTooFar /\ Misaligned(outp + 2, 2))
      words == IF CloseTooFar THEN AbsoluteJump(Here)
               ELSE <<Word("b", Signed(BranchSpan, Here - Rx(outp)), 0)>>
  IN  /\ i = count
      /\ code' = Put(n, words)
      /\ outp' = outp + n + Len(words)
      /\ begins' = Append(begins, outp)
      /\ i' = i + 1
      /\ UNCHANGED <<count, prog, site, dat, fmap>>

Move(ins) ==
  \/ BranchAbsolute(ins) \/ CallAbsolute(ins) \/ BranchRelative(ins)
  \/ CondAbsolute(ins) \/ CondRelative(ins)
  \/ Prefetch(ins) \/ LoadCopied(ins) \/ LoadRelative(ins)
  \/ AdrAbsolute(ins) \/ AdrRelative(ins) \/ AdrpAbsolute(ins) \/ AdrpCopied(ins)
  \/ Plain(ins)

Next == Close \/ \E ins \in site.mix : Move(ins)

Spec == Init /\ [][Next]_vars

Done == i = count + 1

-----------------------------------------------------------------------------
\* "8-byte align": every address literal is on a multiple of eight bytes, and
\* copied data on a multiple of the size of the register.
LiteralsAligned ==
  \A p \in 0 .. outp - 1 :
    /\ code[p + 1].op = "lit" => ~Misaligned(p, 2)
    /\ code[p + 1].op = "load" /\ p + 2 < outp /\ code[p + 3].op = "data"
         => ~Misaligned(p + 2, Aligned(code[p + 1].arg))

\* Five instructions of the largest expansion, NOPs and the jump back fit in a
\* trampoline: the code never checks.
FitsTrampoline == outp <= TrampolineSize

\* insert_fix_map never finds a full map, and no branch is left incomplete.
FixMapsSuffice ==
  /\ \A k \in DOMAIN fmap : Len(fmap[k]) < MaxReferences
  /\ Done => \A k \in DOMAIN fmap : fmap[k] = <<>>

=============================================================================
