----------------------------- MODULE MovedCode -----------------------------
(***************************************************************************)
(* What the words written by Relocate do when they are executed, and what  *)
(* the instructions did where they came from.                              *)
(***************************************************************************)
EXTENDS Relocate

\* Executing the moved words: a step of a processor at state s, a conditional
\* branch of the original code being taken or not.

Written(a) == a >= site.out /\ a < site.out + outp
At(a) == code[a - site.out + 1]
LitAt(a) == IF Written(a) /\ At(a).op = "lit" THEN At(a).arg ELSE -1
\* Whose word a load finds at a: the words under the hook are gone.
DataAt(a) == IF Written(a) THEN (IF At(a).op = "data" THEN At(a).arg ELSE -1)
             ELSE IF InFixingRange(a) THEN -1 ELSE a

Processor(pc) == [pc |-> pc, x17 |-> -1, lr |-> -1, effect |-> <<>>]

Step(s, taken) ==
  LET w == At(s.pc)
      jump == [s EXCEPT !.pc = s.pc + w.off]
      next == [s EXCEPT !.pc = s.pc + 1]
      does(e) == [next EXCEPT !.effect = Append(s.effect, e)]
  IN  CASE w.op = "nop" -> next
        [] w.op = "b" -> jump
        [] w.op = "bl" -> [jump EXCEPT !.lr = s.pc + 1]
        [] w.op \in {"cond", "test"} -> IF taken THEN jump ELSE next
        [] w.op = "ldr17" -> [next EXCEPT !.x17 = LitAt(s.pc + w.off)]
        [] w.op = "adr30" -> [next EXCEPT !.lr = s.pc + w.off]
        [] w.op = "br17" -> [s EXCEPT !.pc = s.x17 \div 4]
        [] w.op = "plain" -> does(<<"plain", w.arg>>)
        [] w.op = "load" ->
             does(<<w.arg, [n \in 1 .. (IF w.arg = "reserved" THEN 0 ELSE Width(w.arg))
                              |-> DataAt(s.pc + w.off + n - 1)]>>)
        [] w.op = "ldrd" -> does(<<"address", LitAt(s.pc + w.off), 0>>)
        [] w.op = "adr" -> does(<<"address", 4 * (s.pc + w.off) + w.arg.lo, w.arg.rd>>)
        [] w.op = "adrp" -> does(<<"address", 4 * (Page(s.pc) + w.off * PageWords), 0>>)
        [] OTHER -> does(<<"undefined">>)

\* The words from lo to hi run until control leaves them; no sequence has more
\* than five of them on a path.
On(s, lo, hi, taken) == IF s.pc >= lo /\ s.pc < hi THEN Step(s, taken) ELSE s
Run(lo, hi, taken) ==
  LET on(s) == On(s, lo, hi, taken)
  IN  on(on(on(on(on(Processor(lo))))))

Moved(k, taken) == Run(Rx(begins[k + 1]), Rx(begins[k + 2]), taken)
JumpBack == Run(Rx(begins[count + 1]), Rx(outp), FALSE)

\* Alignment NOPs change nothing.
Land(a) ==
  IF ~Written(a) THEN a
  ELSE CHOOSE b \in a .. Rx(outp) :
         /\ b = Rx(outp) \/ At(b).op # "nop"
         /\ \A c \in a .. b - 1 : At(c).op = "nop"

From(k) == site.in + k

\* Control at a in the moved code is control at t in the original.
Corresponds(a, t) ==
  \/ a = t /\ ~InFixingRange(t)
  \/ t >= site.in /\ t <= From(count) /\ Land(a) = Land(Rx(begins[Ref(t) + 1]))

-----------------------------------------------------------------------------
\* What the instruction did at its old place.

Target(k) == From(k) + prog[k + 1].off
Effect(k) ==
  LET ins == prog[k + 1]
  IN  CASE ins.op = "plain" -> <<<<"plain", From(k)>>>>
        [] ins.op = "load" ->
             <<<<ins.reg, [n \in 1 .. Width(ins.reg) |-> Target(k) + n - 1]>>>>
        [] ins.op = "adr" -> <<<<"address", 4 * Target(k) + ins.lo, 0>>>>
        [] ins.op = "adrp" ->
             <<<<"address", 4 * (Page(From(k)) + ins.off * PageWords), 0>>>>
        [] OTHER -> <<>>
Jumps(k, taken) ==
  prog[k + 1].op \in IF taken THEN {"b", "bl", "cond", "test"} ELSE {"b", "bl"}

\* The address of a moved instruction is the address of its copy.
SameEffect(k, e) ==
  IF prog[k + 1].op = "adr" /\ InFixingRange(Target(k))
    THEN /\ Len(e) = 1 /\ e[1][1] = "address" /\ e[1][3] = 0
         /\ e[1][2] % 4 = prog[k + 1].lo
         /\ Corresponds(e[1][2] \div 4, Target(k))
    ELSE e = Effect(k)

Faithful(k) ==
  \A taken \in BOOLEAN :
    LET s == Moved(k, taken)
    IN  /\ SameEffect(k, s.effect)
        /\ Corresponds(s.pc, IF Jumps(k, taken) THEN Target(k) ELSE From(k) + 1)
        /\ prog[k + 1].op = "bl" => Corresponds(s.lr, From(k) + 1)

AllFaithful(ops) == Done => \A k \in 0 .. count - 1 : prog[k + 1].op \in ops => Faithful(k)

-----------------------------------------------------------------------------
\* What the code does not carry over to the trampoline.

FirstWord(k) == At(Land(Rx(begins[k + 1])))

\* The offset's sign: it is taken out as an unsigned number.
LosesSign(k) == prog[k + 1].op \in {"cond", "test", "load", "adr", "adrp"} /\ prog[k + 1].off < 0
\* The size of a literal the load now has behind it.
LosesSize(k) ==
  FirstWord(k).op = "load" /\ FirstWord(k).off < 0 /\ prog[k + 1].reg \notin {"X", "SW"}
\* The register of an ADR that is kept and whose target is no word's address.
LosesRegister(k) == FirstWord(k).op = "adr" /\ prog[k + 1].lo # 0 /\ ~InFixingRange(Target(k))
\* The page of an ADRP whose page begins among the moved words.
LosesPage(k) == FirstWord(k).op = "adrp"
\* The mapping of a moved ADRP, for those that refer to it.
LosesAlias(k) ==
  /\ prog[k + 1].op # "load" /\ Target(k) \in site.in .. From(count - 1)
  /\ prog[Ref(Target(k)) + 1].op = "adrp" /\ dat[Ref(Target(k))] = Rw(begins[Ref(Target(k)) + 1])

Excepted(k) ==
  LosesSign(k) \/ LosesSize(k) \/ LosesRegister(k) \/ LosesPage(k) \/ LosesAlias(k)
Kept(ops) ==
  Done => \A k \in 0 .. count - 1 : prog[k + 1].op \in ops /\ ~Excepted(k) => Faithful(k)

-----------------------------------------------------------------------------
\* What the functions and places of the code are like: an offset fits its field,
\* the words a load is given are not in the trampoline, and every field reaches
\* across the words moved, a conditional one ahead and the others both ways.
Trampoline(s) == s.out .. s.out + TrampolineSize - 1
Encoded(s, ins) ==
  /\ ins.op \in {"cond", "test"} => ins.off < CondField(ins)
  /\ ins.op \in {"load", "adr"} => ins.off < WrapWords
  /\ ins.op = "adrp" => ins.off * PageWords < WrapWords
  /\ ins.op = "load" =>
       \A k \in 0 .. MaxInstructions - 1, n \in 0 .. Width(ins.reg) - 1 :
         s.in + k + ins.off + n \notin Trampoline(s)
FieldsReach ==
  /\ CondSpan >= 64 /\ TestSpan >= 64
  /\ BranchSpan >= 2 * TrampolineSize /\ AdrSpan >= 8 * TrampolineSize /\ AdrSpan % 8 = 0
Ordinary == FieldsReach /\ \A s \in Sites : \A ins \in s.mix : Encoded(s, ins)

\* A moved branch goes where the original went, or to that instruction's copy
\* when it was moved as well; a call returns behind its copy.  The exceptions
\* are backward conditional branches and branches to a moved ADRP.
JumpsKept == Kept({"b", "bl", "cond", "test"})

\* A moved literal load fills the same register with the same words, unless the
\* literal was behind it, or now is and the load is not LDR Xt or LDRSW; a moved
\* ADR or ADRP gives the same register the same address, of anything ahead of it
\* that is a word outside of the moved ones, or one of them.
OperandsKept == Kept({"load", "adr", "adrp"})

\* Everything else is copied as it is, and control runs on to the next copy and
\* from the last one to the instruction behind the moved ones.
FlowKept ==
  /\ AllFaithful({"plain", "prfm"})
  /\ Done => JumpBack.pc = From(count) /\ JumpBack.effect = <<>>

=============================================================================
