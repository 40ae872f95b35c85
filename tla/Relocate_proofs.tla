-------------------------- MODULE Relocate_proofs --------------------------
(***************************************************************************)
(* What the code relies on and never checks, for every function, every     *)
(* place and every width.                                                  *)
(*                                                                         *)
(* First, of Relocate alone: the moved words fit in a trampoline, an       *)
(* instruction's fix map is large enough and emptied, and the literals are *)
(* aligned.  No instruction takes more than nine words with its NOPs, and  *)
(* the jump back no more than five; one instruction adds at most one       *)
(* reference, to an instruction that is still to be moved (Bounds).  What  *)
(* is written is a sequence of words with every literal in its place       *)
(* (Placed).                                                               *)
(*                                                                         *)
(* Then, of MovedCode: what is written does what was there.  Every step    *)
(* keeps what the words of every copy are (CopyInv; one lemma for each     *)
(* function of the code), and when the jump back is written the words are  *)
(* executed, one sequence after the other (Faithful).                      *)
(***************************************************************************)
EXTENDS MovedCode, SequenceTheorems, TLAPS

Largest == 9
Indices == 0 .. MaxInstructions - 1
Fixes == [at : Nat, span : Nat]

\* Space: what has been written so far.
Space ==
  /\ outp \in Nat
  /\ i <= count => outp <= Largest * i
  /\ outp <= (Largest * count) + 5

\* Pending: only instructions still to come wait for their address.
Waiting(refs, n) ==
  /\ refs \in [Indices -> Seq(Fixes)]
  /\ \A k \in Indices : Len(refs[k]) <= n
  /\ \A k \in Indices : k < i \/ k >= count => refs[k] = <<>>

Bounds ==
  /\ site \in Sites /\ count \in 1 .. MaxInstructions
  /\ i \in 0 .. count + 1
  /\ Space
  /\ Waiting(fmap, i)

-----------------------------------------------------------------------------
\* Lengths of what is emitted.

WordsOf(s, n) == \E S : s \in Seq(S) /\ Len(s) = n

LEMMA WordsConcat ==
  ASSUME NEW s, NEW t, NEW m \in Nat, NEW n \in Nat, WordsOf(s, m), WordsOf(t, n)
  PROVE  WordsOf(s \o t, m + n)
<1>1. PICK S : s \in Seq(S) /\ Len(s) = m
  BY Zenon DEF WordsOf
<1>2. PICK T : t \in Seq(T) /\ Len(t) = n
  BY Zenon DEF WordsOf
<1>3. PICK U : U = S \cup T
  OBVIOUS
<1>4. s \in Seq(U) /\ t \in Seq(U)
  BY <1>1, <1>2, <1>3
<1>5. s \o t \in Seq(U) /\ Len(s \o t) = m + n
  BY <1>1, <1>2, <1>4, ConcatProperties
<1> QED BY <1>5, Zenon DEF WordsOf

LEMMA WordsTuple ==
  /\ WordsOf(<<>>, 0)
  /\ \A a : WordsOf(<<a>>, 1)
  /\ \A a, b : WordsOf(<<a, b>>, 2)
  /\ \A a, b, c : WordsOf(<<a, b, c>>, 3)
<1>1. WordsOf(<<>>, 0)
  <2>1. <<>> \in Seq({}) /\ Len(<<>>) = 0
    OBVIOUS
  <2> QED BY <2>1, Zenon DEF WordsOf
<1>2. ASSUME NEW a PROVE WordsOf(<<a>>, 1)
  <2>1. <<a>> \in Seq({a}) /\ Len(<<a>>) = 1
    OBVIOUS
  <2> QED BY <2>1, Zenon DEF WordsOf
<1>3. ASSUME NEW a, NEW b PROVE WordsOf(<<a, b>>, 2)
  <2>1. <<a, b>> \in Seq({a, b}) /\ Len(<<a, b>>) = 2
    OBVIOUS
  <2> QED BY <2>1, Zenon DEF WordsOf
<1>4. ASSUME NEW a, NEW b, NEW c PROVE WordsOf(<<a, b, c>>, 3)
  <2>1. <<a, b, c>> \in Seq({a, b, c}) /\ Len(<<a, b, c>>) = 3
    OBVIOUS
  <2> QED BY <2>1, Zenon DEF WordsOf
<1> QED BY <1>1, <1>2, <1>3, <1>4, Zenon

\* An address literal takes two words, a jump or a load through one four, a
\* call five.
LEMMA WordsAddress ==
  ASSUME NEW bytes
  PROVE  WordsOf(Address(bytes), 2)
BY WordsTuple, Zenon DEF Address

LEMMA WordsFour ==
  ASSUME NEW a, NEW b, NEW bytes
  PROVE  WordsOf(<<a, b>> \o Address(bytes), 4)
<1>1. WordsOf(<<a, b>>, 2) /\ WordsOf(Address(bytes), 2)
  BY WordsTuple, WordsAddress, Zenon
<1>2. 2 \in Nat /\ 2 + 2 = 4
  OBVIOUS
<1>3. WordsOf(<<a, b>> \o Address(bytes), 2 + 2)
  BY <1>1, <1>2, WordsConcat, Zenon
<1> QED BY <1>2, <1>3, Zenon

LEMMA WordsJump == \A to : WordsOf(AbsoluteJump(to), 4)
BY WordsFour, Zenon DEF AbsoluteJump

LEMMA WordsLoad == \A bytes : WordsOf(AbsoluteLoad(bytes), 4)
BY WordsFour, Zenon DEF AbsoluteLoad

LEMMA WordsCall ==
  ASSUME NEW a, NEW b, NEW c, NEW bytes
  PROVE  WordsOf(<<a, b, c>> \o Address(bytes), 5)
<1>1. WordsOf(<<a, b, c>>, 3) /\ WordsOf(Address(bytes), 2)
  BY WordsTuple, WordsAddress, Zenon
<1>2. 2 \in Nat /\ 3 \in Nat /\ 3 + 2 = 5
  OBVIOUS
<1>3. WordsOf(<<a, b, c>> \o Address(bytes), 3 + 2)
  BY <1>1, <1>2, WordsConcat, Zenon
<1> QED BY <1>2, <1>3, Zenon

LEMMA WordsCond ==
  ASSUME NEW a, NEW b, NEW to
  PROVE  WordsOf(<<a, b>> \o AbsoluteJump(to), 6)
<1>1. WordsOf(<<a, b>>, 2) /\ WordsOf(AbsoluteJump(to), 4)
  BY WordsTuple, WordsJump, Zenon
<1>2. 2 \in Nat /\ 4 \in Nat /\ 2 + 4 = 6
  OBVIOUS
<1>3. WordsOf(<<a, b>> \o AbsoluteJump(to), 2 + 4)
  BY <1>1, <1>2, WordsConcat, Zenon
<1> QED BY <1>2, <1>3, Zenon

LEMMA WordsData ==
  ASSUME NEW t, NEW n \in Nat
  PROVE  WordsOf(Data(t, n), n)
<1>1. PICK S : S = {Data(t, n)[m] : m \in 1 .. n}
  OBVIOUS
<1>2. DOMAIN Data(t, n) = 1 .. n /\ Data(t, n) = [m \in 1 .. n |-> Data(t, n)[m]]
  BY Zenon DEF Data
<1>3. Data(t, n) \in [1 .. n -> S]
  BY <1>1, <1>2
<1>4. Data(t, n) \in Seq(S) /\ Len(Data(t, n)) = n
  BY <1>3
<1> QED BY <1>4, Zenon DEF WordsOf

LEMMA WordsCopied ==
  ASSUME NEW a, NEW b, NEW t, NEW n \in Nat
  PROVE  WordsOf(<<a, b>> \o Data(t, n), 2 + n)
<1>1. WordsOf(<<a, b>>, 2) /\ 2 \in Nat
  BY WordsTuple
<1> QED BY <1>1, WordsData, WordsConcat, Zenon

-----------------------------------------------------------------------------
\* The state before a step.

LEMMA BoundsTypes ==
  ASSUME Bounds
  PROVE  /\ site.in \in Nat /\ site.out \in Nat /\ count \in Nat /\ i \in Nat
         /\ i < count => i \in Indices /\ i + 1 \in 0 .. count
         /\ outp \in Nat /\ Here \in Nat /\ Rx(outp) \in Nat
BY RelocateAssumption, SMT DEF Bounds, Space, Indices, MaxInstructions, Here, Rx

\* A reference goes to an instruction that is still to come, and leaves room.
LEMMA WaitingReferences ==
  ASSUME Bounds, i < count, NEW t \in Int, NEW span \in Nat
  PROVE  Waiting(References(t, span), i + 1)
<1>1. i \in Indices /\ i \in Nat /\ outp \in Nat /\ count \in 1 .. 5 /\ site.in \in Nat
  BY BoundsTypes DEF Bounds, MaxInstructions
<1>2. Waiting(fmap, i)
  BY DEF Bounds
<1>3. CASE ~(InFixingRange(t) /\ Ref(t) > i)
  BY <1>1, <1>2, <1>3, SMT DEF References, Waiting
<1>4. CASE InFixingRange(t) /\ Ref(t) > i
  <2>1. Ref(t) \in Indices /\ Ref(t) > i /\ Ref(t) < count
    BY <1>1, <1>4, SMT DEF InFixingRange, Ref, Indices, MaxInstructions
  <2>2. PICK r \in Indices : r = Ref(t) /\ r > i /\ r < count
    BY <2>1
  <2>3. fmap[r] \in Seq(Fixes) /\ Len(fmap[r]) <= i /\ Len(fmap[r]) \in Nat
    BY <1>2, <2>2, LenProperties DEF Waiting
  <2>4. [at |-> outp, span |-> span] \in Fixes
    BY <1>1 DEF Fixes
  <2>5. Insert(fmap[r], span) \in Seq(Fixes) /\ Len(Insert(fmap[r], span)) <= i + 1
    <3>1. Len(fmap[r]) < MaxReferences
      BY <1>1, <2>3, SMT DEF Indices, MaxReferences, MaxInstructions
    <3>2. Insert(fmap[r], span) = Append(fmap[r], [at |-> outp, span |-> span])
      BY <3>1 DEF Insert
    <3> QED BY <1>1, <2>3, <2>4, <3>2, AppendProperties
  <2>6. References(t, span) = [fmap EXCEPT ![r] = Insert(fmap[r], span)]
    BY <1>4, <2>2 DEF References
  <2>7. PICK u \in Seq(Fixes) : u = Insert(fmap[r], span) /\ Len(u) <= i + 1
    BY <2>5
  <2>8. Waiting([fmap EXCEPT ![r] = u], i + 1)
    BY <1>1, <1>2, <2>2, <2>7, SMT DEF Waiting, Indices
  <2> QED BY <2>6, <2>7, <2>8
<1> QED BY <1>3, <1>4

LEMMA WaitingSame ==
  ASSUME Bounds, i < count
  PROVE  Waiting(fmap, i + 1)
<1>1. Waiting(fmap, i) /\ i \in Nat
  BY BoundsTypes DEF Bounds
<1>2. \A k \in Indices : Len(fmap[k]) \in Nat
  BY <1>1, LenProperties DEF Waiting
<1> QED BY <1>1, <1>2 DEF Waiting

\* An instruction of at most nine words that leaves the fix maps in order.
LEMMA EmitKeepsBounds ==
  ASSUME Bounds, i < count, NEW ins, NEW n \in Nat, NEW words, NEW w \in Nat, NEW start, NEW refs,
         WordsOf(words, w), n + w <= Largest, Waiting(refs, i + 1),
         Emit(ins, n, words, start, refs)
  PROVE  Bounds'
<1>1. i \in Indices /\ i \in Nat /\ outp \in Nat /\ count \in 1 .. 5
  BY BoundsTypes DEF Bounds, MaxInstructions
<1>2. Len(words) = w
  BY Zenon DEF WordsOf
<1>3. /\ outp' = outp + n + w /\ i' = i + 1 /\ count' = count /\ site' = site
      /\ fmap' = [refs EXCEPT ![i] = <<>>]
  BY <1>2 DEF Emit, Clear
<1>4. Space'
  <2>1. outp <= 9 * i /\ n + w <= 9
    BY DEF Bounds, Space, Largest
  <2>2. outp' <= 9 * (i + 1) /\ outp' \in Nat /\ i + 1 <= count
    BY <1>1, <1>3, <2>1, SMT
  <2> QED BY <1>1, <1>3, <2>2, SMT DEF Space, Largest
<1>5. Waiting(fmap, i)'
  <2>1. \A k \in Indices : fmap'[k] = IF k = i THEN <<>> ELSE refs[k]
    BY <1>3 DEF Waiting
  <2>2. fmap' \in [Indices -> Seq(Fixes)]
    <3>1. <<>> \in Seq(Fixes) /\ refs \in [Indices -> Seq(Fixes)]
      BY DEF Waiting
    <3> QED BY <1>3, <3>1
  <2>3. \A k \in Indices : Len(fmap'[k]) <= i + 1
    BY <1>1, <2>1 DEF Waiting
  <2>4. \A k \in Indices : k < i + 1 \/ k >= count => fmap'[k] = <<>>
    BY <1>1, <2>1, SMT DEF Waiting, Indices
  <2> QED BY <1>3, <2>2, <2>3, <2>4 DEF Waiting
<1>6. site' \in Sites /\ count' \in 1 .. MaxInstructions /\ i' \in 0 .. count' + 1
  BY <1>1, <1>3 DEF Bounds
<1> QED BY <1>4, <1>5, <1>6 DEF Bounds

-----------------------------------------------------------------------------
\* One lemma for each function of the code.

LEMMA PadTypes == \A needed : Pad(needed) \in Nat /\ Pad(needed) <= 1
BY DEF Pad

LEMMA TargetTypes ==
  ASSUME Bounds, NEW ins \in Instructions
  PROVE  /\ Here + ins.off \in Int
         /\ CondTarget(ins) \in Int /\ CondField(ins) \in Nat
         /\ Here + ZeroExtended(ins.off) \in Int
         /\ BranchSpan \in Nat /\ AdrSpan \div 4 \in Nat
<1>1. Here \in Nat /\ ins.off \in Int
  BY BoundsTypes, RelocateAssumption DEF Instructions
<1>2. {BranchSpan, CondSpan, TestSpan, AdrSpan, WrapWords} \subseteq Nat \ {0}
  BY RelocateAssumption
<1>3. CondField(ins) \in Nat \ {0}
  BY <1>2 DEF CondField
<1>4. ins.off % CondField(ins) \in Int /\ ins.off % WrapWords \in Int
  BY <1>1, <1>2, <1>3, SMT
<1> QED BY <1>1, <1>2, <1>3, <1>4 DEF CondTarget, Unsigned, ZeroExtended

LEMMA BranchBounds ==
  ASSUME Bounds, NEW ins \in Instructions,
         BranchAbsolute(ins) \/ CallAbsolute(ins) \/ BranchRelative(ins)
  PROVE  Bounds'
<1>1. i < count
  BY DEF BranchAbsolute, CallAbsolute, BranchRelative, Moving
<1>2. CASE BranchAbsolute(ins)
  <2>1. PICK n, to, start : /\ n \in Nat /\ n <= 1
                            /\ Emit(ins, n, AbsoluteJump(to), start, fmap)
    BY <1>2, PadTypes, Zenon DEF BranchAbsolute
  <2>2. WordsOf(AbsoluteJump(to), 4) /\ n + 4 <= Largest /\ 4 \in Nat
    BY <2>1, WordsJump DEF Largest
  <2> QED BY <1>1, <2>1, <2>2, WaitingSame, EmitKeepsBounds, Zenon
<1>3. CASE CallAbsolute(ins)
  <2>1. PICK n, a, b, c, bytes, start :
          n \in Nat /\ n <= 1 /\ Emit(ins, n, <<a, b, c>> \o Address(bytes), start, fmap)
    BY <1>3, PadTypes, Zenon DEF CallAbsolute
  <2>2. WordsOf(<<a, b, c>> \o Address(bytes), 5) /\ n + 5 <= Largest /\ 5 \in Nat
    BY <2>1, WordsCall DEF Largest
  <2> QED BY <1>1, <2>1, <2>2, WaitingSame, EmitKeepsBounds, Zenon
<1>4. CASE BranchRelative(ins)
  <2>1. PICK w, start : Emit(ins, 0, <<w>>, start, References(Here + ins.off, BranchSpan))
    BY <1>4, Zenon DEF BranchRelative
  <2>2. WordsOf(<<w>>, 1) /\ 0 + 1 <= Largest /\ 0 \in Nat /\ 1 \in Nat
    BY WordsTuple DEF Largest
  <2>3. Waiting(References(Here + ins.off, BranchSpan), i + 1)
    BY <1>1, TargetTypes, WaitingReferences, Zenon
  <2> QED BY <1>1, <2>1, <2>2, <2>3, EmitKeepsBounds, Zenon
<1> QED BY <1>2, <1>3, <1>4

LEMMA CondBounds ==
  ASSUME Bounds, NEW ins \in Instructions, CondAbsolute(ins) \/ CondRelative(ins)
  PROVE  Bounds'
<1>1. i < count
  BY DEF CondAbsolute, CondRelative, Moving
<1>2. CASE CondAbsolute(ins)
  <2>1. PICK n, a, b, to, start :
          n \in Nat /\ n <= 1 /\ Emit(ins, n, <<a, b>> \o AbsoluteJump(to), start, fmap)
    BY <1>2, PadTypes, Zenon DEF CondAbsolute
  <2>2. WordsOf(<<a, b>> \o AbsoluteJump(to), 6) /\ n + 6 <= Largest /\ 6 \in Nat
    BY <2>1, WordsCond DEF Largest
  <2> QED BY <1>1, <2>1, <2>2, WaitingSame, EmitKeepsBounds, Zenon
<1>3. CASE CondRelative(ins)
  <2>1. PICK w, start : Emit(ins, 0, <<w>>, start, References(CondTarget(ins), CondField(ins)))
    BY <1>3, Zenon DEF CondRelative
  <2>2. WordsOf(<<w>>, 1) /\ 0 + 1 <= Largest /\ 0 \in Nat /\ 1 \in Nat
    BY WordsTuple DEF Largest
  <2>3. Waiting(References(CondTarget(ins), CondField(ins)), i + 1)
    BY <1>1, TargetTypes, WaitingReferences, Zenon
  <2> QED BY <1>1, <2>1, <2>2, <2>3, EmitKeepsBounds, Zenon
<1> QED BY <1>2, <1>3

\* The load takes up to three NOPs for a literal of four words.
LEMMA LoadBounds ==
  ASSUME Bounds, NEW ins \in Instructions, Prefetch(ins) \/ LoadCopied(ins) \/ LoadRelative(ins)
  PROVE  Bounds'
<1>1. i < count
  BY DEF Prefetch, LoadCopied, LoadRelative, Moving
<1>2. Aligned(ins.reg) \in {1, 2, 4}
  BY DEF Aligned, Width
<1>3. Rx(outp) \in Nat /\ Here + ZeroExtended(ins.off) \in Int
  BY BoundsTypes, TargetTypes
<1>4. CASE Prefetch(ins)
  <2>1. PICK start : Emit(ins, 0, <<>>, start, fmap)
    BY <1>4, Zenon DEF Prefetch
  <2>2. WordsOf(<<>>, 0) /\ 0 + 0 <= Largest /\ 0 \in Nat
    BY WordsTuple DEF Largest
  <2> QED BY <1>1, <2>1, <2>2, WaitingSame, EmitKeepsBounds, Zenon
<1>5. CASE LoadCopied(ins)
  <2>1. PICK a, b, t, al, n, start :
          /\ al = Aligned(ins.reg) /\ n = (-(Rx(outp) + 2)) % al
          /\ Emit(ins, n, <<a, b>> \o Data(t, al), start, fmap)
    BY <1>5, Zenon DEF LoadCopied
  <2>2. al \in {1, 2, 4} /\ n \in Nat /\ n < al
    BY <1>2, <1>3, <2>1, SMT
  <2>3. n + (2 + al) <= Largest /\ 2 + al \in Nat /\ al \in Nat
    BY <2>2 DEF Largest
  <2>4. WordsOf(<<a, b>> \o Data(t, al), 2 + al)
    BY <2>3, WordsCopied, Zenon
  <2> QED BY <1>1, <2>1, <2>2, <2>3, <2>4, WaitingSame, EmitKeepsBounds, Zenon
<1>6. CASE LoadRelative(ins)
  <2>1. PICK w, t, n, start :
          /\ t = Here + ZeroExtended(ins.off) /\ n = (t - Rx(outp)) % Aligned(ins.reg)
          /\ Emit(ins, n, <<w>>, start, fmap)
    BY <1>6, Zenon DEF LoadRelative
  <2>2. n \in Nat /\ n < 4
    BY <1>2, <1>3, <2>1, SMT
  <2>3. WordsOf(<<w>>, 1) /\ n + 1 <= Largest /\ 1 \in Nat
    BY <2>2, WordsTuple DEF Largest
  <2> QED BY <1>1, <2>1, <2>2, <2>3, WaitingSame, EmitKeepsBounds, Zenon
<1> QED BY <1>4, <1>5, <1>6

LEMMA AddressBounds ==
  ASSUME Bounds, NEW ins \in Instructions,
         AdrAbsolute(ins) \/ AdrRelative(ins) \/ AdrpAbsolute(ins) \/ AdrpCopied(ins)
  PROVE  Bounds'
<1>1. i < count
  BY DEF AdrAbsolute, AdrRelative, AdrpAbsolute, AdrpCopied, Moving
<1>2. CASE AdrAbsolute(ins) \/ AdrpAbsolute(ins)
  <2>1. PICK n, bytes, start :
          n \in Nat /\ n <= 1 /\ Emit(ins, n, AbsoluteLoad(bytes), start, fmap)
    BY <1>2, PadTypes, Zenon DEF AdrAbsolute, AdrpAbsolute
  <2>2. WordsOf(AbsoluteLoad(bytes), 4) /\ n + 4 <= Largest /\ 4 \in Nat
    BY <2>1, WordsLoad DEF Largest
  <2> QED BY <1>1, <2>1, <2>2, WaitingSame, EmitKeepsBounds, Zenon
<1>3. CASE AdrRelative(ins)
  <2>1. PICK w, start : Emit(ins, 0, <<w>>, start,
                             References(Here + ZeroExtended(ins.off), AdrSpan \div 4))
    BY <1>3, Zenon DEF AdrRelative
  <2>2. WordsOf(<<w>>, 1) /\ 0 + 1 <= Largest /\ 0 \in Nat /\ 1 \in Nat
    BY WordsTuple DEF Largest
  <2>3. Waiting(References(Here + ZeroExtended(ins.off), AdrSpan \div 4), i + 1)
    BY <1>1, TargetTypes, WaitingReferences, Zenon
  <2> QED BY <1>1, <2>1, <2>2, <2>3, EmitKeepsBounds, Zenon
<1>4. CASE AdrpCopied(ins)
  <2>1. PICK w, start : Emit(ins, 0, <<w>>, start, fmap)
    BY <1>4, Zenon DEF AdrpCopied
  <2>2. WordsOf(<<w>>, 1) /\ 0 + 1 <= Largest /\ 0 \in Nat /\ 1 \in Nat
    BY WordsTuple DEF Largest
  <2> QED BY <1>1, <2>1, <2>2, WaitingSame, EmitKeepsBounds, Zenon
<1> QED BY <1>2, <1>3, <1>4

LEMMA PlainBounds ==
  ASSUME Bounds, NEW ins \in Instructions, Plain(ins)
  PROVE  Bounds'
<1>1. i < count
  BY DEF Plain, Moving
<1>2. PICK w, start : Emit(ins, 0, <<w>>, start, fmap)
  BY Zenon DEF Plain
<1>3. WordsOf(<<w>>, 1) /\ 0 + 1 <= Largest /\ 0 \in Nat /\ 1 \in Nat
  BY WordsTuple DEF Largest
<1> QED BY <1>1, <1>2, <1>3, WaitingSame, EmitKeepsBounds, Zenon

LEMMA CloseBounds ==
  ASSUME Bounds, Close
  PROVE  Bounds'
<1>1. i = count /\ count \in 1 .. 5 /\ outp \in Nat /\ outp <= 9 * count
  BY DEF Close, Bounds, Space, Largest, MaxInstructions
<1>2. PICK n, words : /\ n \in Nat /\ n <= 1 /\ outp' = outp + n + Len(words)
                      /\ words = AbsoluteJump(Here) \/ \E w : words = <<w>>
  BY PadTypes, Zenon DEF Close
<1>3. Len(words) \in Nat /\ Len(words) <= 4
  <2>1. CASE words = AbsoluteJump(Here)
    <3>1. Len(AbsoluteJump(Here)) = 4
      BY WordsJump, Zenon DEF WordsOf
    <3> QED BY <2>1, <3>1
  <2>2. CASE \E w : words = <<w>>
    BY <2>2
  <2> QED BY <1>2, <2>1, <2>2
<1>4. i' = i + 1 /\ UNCHANGED <<count, site, fmap>>
  BY DEF Close
<1>5. Space'
  BY <1>1, <1>2, <1>3, <1>4, SMT DEF Space, Largest
<1>6. Waiting(fmap, i)'
  <2>1. Waiting(fmap, i) /\ \A k \in Indices : Len(fmap[k]) \in Nat
    BY LenProperties DEF Bounds, Waiting
  <2> QED BY <1>1, <1>4, <2>1, SMT DEF Waiting, Indices
<1> QED BY <1>1, <1>4, <1>5, <1>6 DEF Bounds

LEMMA InitBounds == Init => Bounds
<1> SUFFICES ASSUME Init PROVE Bounds
  OBVIOUS
<1>1. site \in Sites /\ count \in 1 .. 5 /\ i = 0 /\ outp = 0
  BY DEF Init, Counts
<1>2. <<>> \in Seq(Fixes) /\ Len(<<>>) = 0
  OBVIOUS
<1>3. \A k \in Indices : fmap[k] = <<>>
  BY DEF Init, Indices
<1>4. Waiting(fmap, i)
  BY <1>1, <1>2, <1>3 DEF Init, Indices, Waiting
<1> QED BY <1>1, <1>4, SMT DEF Bounds, Space, Largest, MaxInstructions

LEMMA NextBounds == Bounds /\ [Next]_vars => Bounds'
<1> SUFFICES ASSUME Bounds, [Next]_vars PROVE Bounds'
  OBVIOUS
<1>1. CASE Close
  BY <1>1, CloseBounds
<1>2. ASSUME NEW ins \in Instructions, Move(ins) PROVE Bounds'
  BY <1>2, BranchBounds, CondBounds, LoadBounds, AddressBounds, PlainBounds DEF Move
<1>3. CASE UNCHANGED vars
  BY <1>3 DEF vars, Bounds, Space, Waiting
<1>4. site.mix \subseteq Instructions
  BY RelocateAssumption DEF Bounds
<1> QED BY <1>1, <1>2, <1>3, <1>4 DEF Next

LEMMA AlwaysBounds == Spec => []Bounds
BY InitBounds, NextBounds, PTL DEF Spec

-----------------------------------------------------------------------------
\* Whatever is moved, from and to wherever: five instructions and the jump back
\* never write behind the fifty words of a trampoline (TrampolineSize, which
\* __fix_instructions is never told).
THEOREM TrampolineSuffices == Spec => []FitsTrampoline
<1>1. Bounds => FitsTrampoline
  BY SMT DEF Bounds, Space, FitsTrampoline, TrampolineSize, Largest, MaxInstructions
<1> QED BY <1>1, AlwaysBounds, PTL

\* insert_fix_map always finds a free entry, and when the jump back is written
\* no branch among the moved words is left without its target.
THEOREM FixMapsAreLargeEnough == Spec => []FixMapsSuffice
<1>1. Bounds => FixMapsSuffice
  <2> SUFFICES ASSUME Bounds PROVE FixMapsSuffice
    OBVIOUS
  <2>1. i \in Nat /\ i <= 6 /\ count \in 1 .. 5 /\ DOMAIN fmap = Indices
    BY DEF Bounds, Waiting, MaxInstructions
  <2>2. \A k \in Indices : Len(fmap[k]) < MaxReferences
    <3>1. \A k \in Indices : Len(fmap[k]) \in Nat /\ Len(fmap[k]) <= i
      BY LenProperties DEF Bounds, Waiting
    <3> QED BY <2>1, <3>1, SMT DEF MaxReferences, MaxInstructions
  <2>3. Done => \A k \in Indices : fmap[k] = <<>>
    BY <2>1, SMT DEF Bounds, Waiting, Done, Indices
  <2> QED BY <2>1, <2>2, <2>3 DEF FixMapsSuffice
<1> QED BY <1>1, AlwaysBounds, PTL

-----------------------------------------------------------------------------
\* Alignment.  The words written so far, and which of them are literals.

IsWord(w) == \E op, off, arg : w = Word(op, off, arg)

\* What a sequence of words must be like to be written from word p on: no copied
\* data comes before its load and the branch over it.
Fitting(words, p) ==
  \A k \in 1 .. Len(words) :
    /\ IsWord(words[k])
    /\ words[k].op = "lit" => ~Misaligned(p + k - 1, 2)
    /\ words[k].op = "data" => k > 2
    /\ words[k].op = "load" /\ k + 2 <= Len(words) /\ words[k + 2].op = "data"
         => ~Misaligned(p + k + 1, Aligned(words[k].arg))

Placed == WordsOf(code, outp) /\ Fitting(code, 0)

LEMMA WordFields ==
  \A op, off, arg : /\ Word(op, off, arg).op = op
                    /\ Word(op, off, arg).arg = arg
                    /\ IsWord(Word(op, off, arg))
BY DEF Word, IsWord

\* u is s, of m words, and then t, of n.
Joined(s, m, t, n, u) ==
  \A k \in 1 .. m + n : u[k] = IF k <= m THEN s[k] ELSE t[k - m]

LEMMA ConcatIs ==
  ASSUME NEW s, NEW t, NEW m \in Nat, NEW n \in Nat, WordsOf(s, m), WordsOf(t, n)
  PROVE  Joined(s, m, t, n, s \o t)
<1>1. PICK S : s \in Seq(S) /\ Len(s) = m
  BY Zenon DEF WordsOf
<1>2. PICK T : t \in Seq(T) /\ Len(t) = n
  BY Zenon DEF WordsOf
<1>3. PICK U : U = S \cup T
  OBVIOUS
<1>4. s \in Seq(U) /\ t \in Seq(U)
  BY <1>1, <1>2, <1>3
<1> QED BY <1>1, <1>2, <1>4, ConcatProperties DEF Joined

LEMMA FittingJoined ==
  ASSUME NEW s, NEW t, NEW u, NEW m \in Nat, NEW n \in Nat, NEW p \in Nat,
         Len(s) = m, Len(t) = n, Len(u) = m + n,
         Joined(s, m, t, n, u),
         Fitting(s, p), Fitting(t, p + m)
  PROVE  Fitting(u, p)
<1> USE DEF Joined
<1> DEFINE Fits(w, len, q, k) ==
             /\ IsWord(w[k])
             /\ w[k].op = "lit" => ~Misaligned(q + k - 1, 2)
             /\ w[k].op = "data" => k > 2
             /\ w[k].op = "load" /\ k + 2 <= len /\ w[k + 2].op = "data"
                  => ~Misaligned(q + k + 1, Aligned(w[k].arg))
<1>1. /\ \A k \in 1 .. m : Fits(s, m, p, k)
      /\ \A k \in 1 .. n : Fits(t, n, p + m, k)
  BY DEF Fitting
<1> SUFFICES ASSUME NEW k \in 1 .. m + n PROVE Fits(u, m + n, p, k)
  BY DEF Fitting
<1>2. CASE k <= m
  <2>1. u[k] = s[k] /\ k \in 1 .. m /\ Fits(s, m, p, k)
    BY <1>1, <1>2
  <2>2. CASE k + 2 <= m
    <3>1. u[k + 2] = s[k + 2]
      BY <2>2
    <3> QED BY <2>1, <2>2, <3>1
  <2>3. CASE k + 2 > m /\ k + 2 <= m + n
    <3>1. PICK h \in 1 .. n : h = k + 2 - m /\ h <= 2
      BY <1>2, <2>3
    <3>2. u[k + 2] = t[h] /\ t[h].op # "data"
      BY <1>1, <2>3, <3>1
    <3> QED BY <2>1, <3>2
  <2>4. CASE k + 2 > m + n
    BY <2>1, <2>4
  <2> QED BY <2>2, <2>3, <2>4
<1>3. CASE k > m
  <2>1. PICK h \in 1 .. n : h = k - m
    BY <1>3
  <2>2. u[k] = t[h] /\ (k + 2 <= m + n => u[k + 2] = t[h + 2] /\ h + 2 <= n)
    BY <1>3, <2>1
  <2>3. Fits(t, n, p + m, h)
    BY <1>1, <2>1
  <2>4. p + m + h - 1 = p + k - 1 /\ p + m + h + 1 = p + k + 1
    BY <2>1
  <2> QED BY <1>3, <2>1, <2>2, <2>3, <2>4
<1> QED BY <1>2, <1>3

LEMMA FittingConcat ==
  ASSUME NEW s, NEW t, NEW m \in Nat, NEW n \in Nat, NEW p \in Nat,
         WordsOf(s, m), WordsOf(t, n), Fitting(s, p), Fitting(t, p + m)
  PROVE  Fitting(s \o t, p)
<1>1. Len(s) = m /\ Len(t) = n
  BY Zenon DEF WordsOf
<1>2. Len(s \o t) = m + n
  <2>1. WordsOf(s \o t, m + n)
    BY WordsConcat, Zenon
  <2> QED BY <2>1, Zenon DEF WordsOf
<1>3. Joined(s, m, t, n, s \o t)
  BY ConcatIs, Zenon
<1> QED BY <1>1, <1>2, <1>3, FittingJoined, Zenon

\* Words that are no literals fit anywhere.
Codeword(a) == IsWord(a) /\ a.op \notin {"lit", "data"}
Harmless(words) == \A k \in 1 .. Len(words) : Codeword(words[k])

LEMMA HarmlessFits ==
  ASSUME NEW words, NEW n \in Nat, Len(words) = n, Harmless(words), NEW p \in Nat
  PROVE  Fitting(words, p)
BY DEF Harmless, Codeword, Fitting

LEMMA HarmlessTuples ==
  /\ Harmless(<<>>)
  /\ \A a : Codeword(a) => Harmless(<<a>>)
  /\ \A a, b : Codeword(a) /\ Codeword(b) => Harmless(<<a, b>>)
  /\ \A a, b, c : Codeword(a) /\ Codeword(b) /\ Codeword(c) => Harmless(<<a, b, c>>)
<1>1. Harmless(<<>>)
  BY DEF Harmless
<1>2. ASSUME NEW a, Codeword(a) PROVE Harmless(<<a>>)
  BY <1>2 DEF Harmless
<1>3. ASSUME NEW a, NEW b, Codeword(a), Codeword(b) PROVE Harmless(<<a, b>>)
  <2>1. \A k \in 1 .. 2 : Codeword(<<a, b>>[k])
    BY <1>3
  <2> QED BY <2>1 DEF Harmless
<1>4. ASSUME NEW a, NEW b, NEW c, Codeword(a), Codeword(b), Codeword(c)
      PROVE  Harmless(<<a, b, c>>)
  <2>1. \A k \in 1 .. 3 : Codeword(<<a, b, c>>[k])
    BY <1>4
  <2> QED BY <2>1 DEF Harmless
<1> QED BY <1>1, <1>2, <1>3, <1>4, Zenon

LEMMA NopsFit ==
  ASSUME NEW n \in Nat, NEW p \in Nat
  PROVE  /\ WordsOf([m \in 1 .. n |-> Nop], n)
         /\ Fitting([m \in 1 .. n |-> Nop], p)
<1>1. [m \in 1 .. n |-> Nop] \in Seq({Nop}) /\ Len([m \in 1 .. n |-> Nop]) = n
  OBVIOUS
<1>2. IsWord(Nop) /\ Nop.op = "nop"
  BY WordFields DEF Nop
<1>3. Harmless([m \in 1 .. n |-> Nop])
  BY <1>1, <1>2 DEF Harmless, Codeword
<1>4. Fitting([m \in 1 .. n |-> Nop], p)
  BY <1>1, <1>3, HarmlessFits, Zenon
<1> QED BY <1>1, <1>4, Zenon DEF WordsOf

\* Completing words keeps what they are.
LEMMA FixedFit ==
  ASSUME NEW c, NEW start, NEW n \in Nat, WordsOf(c, n), Fitting(c, 0)
  PROVE  WordsOf(ProcessFixMap(c, start), n) /\ Fitting(ProcessFixMap(c, start), 0)
<1>1. DOMAIN c = 1 .. n /\ Len(c) = n
  <2>1. PICK S : c \in Seq(S) /\ Len(c) = n
    BY Zenon DEF WordsOf
  <2> QED BY <2>1
<1>2. PICK d : d = ProcessFixMap(c, start)
  OBVIOUS
<1>3. \A m \in 1 .. n : d[m] = c[m] \/ \E off : d[m] = [c[m] EXCEPT !.off = off]
  BY <1>1, <1>2, Zenon DEF ProcessFixMap
<1>4. DOMAIN d = 1 .. n /\ d = [m \in 1 .. n |-> d[m]]
  BY <1>1, <1>2, Zenon DEF ProcessFixMap
<1>5. \A m \in 1 .. n : IsWord(d[m]) /\ d[m].op = c[m].op /\ d[m].arg = c[m].arg
  <2> SUFFICES ASSUME NEW m \in 1 .. n
               PROVE  IsWord(d[m]) /\ d[m].op = c[m].op /\ d[m].arg = c[m].arg
    OBVIOUS
  <2>1. PICK op, off, arg : c[m] = Word(op, off, arg)
    BY <1>1 DEF Fitting, IsWord
  <2>2. \A new : [c[m] EXCEPT !.off = new] = Word(op, new, arg)
    BY <2>1 DEF Word
  <2>3. PICK new : d[m] = Word(op, new, arg)
    BY <1>3, <2>1, <2>2, ZenonT(40)
  <2>4. /\ IsWord(Word(op, new, arg))
        /\ Word(op, new, arg).op = op /\ Word(op, new, arg).arg = arg
        /\ Word(op, off, arg).op = op /\ Word(op, off, arg).arg = arg
    BY WordFields
  <2> QED BY <2>1, <2>3, <2>4, Zenon
<1>6. d \in Seq({d[m] : m \in 1 .. n}) /\ Len(d) = n
  <2>1. d \in [1 .. n -> {d[m] : m \in 1 .. n}]
    BY <1>4
  <2> QED BY <2>1
<1>8. ASSUME NEW k \in 1 .. n
      PROVE  /\ IsWord(d[k])
             /\ d[k].op = "lit" => ~Misaligned(0 + k - 1, 2)
             /\ d[k].op = "data" => k > 2
             /\ d[k].op = "load" /\ k + 2 <= n /\ d[k + 2].op = "data"
                  => ~Misaligned(0 + k + 1, Aligned(d[k].arg))
  <2>1. /\ c[k].op = "lit" => ~Misaligned(0 + k - 1, 2)
        /\ c[k].op = "data" => k > 2
        /\ c[k].op = "load" /\ k + 2 <= n /\ c[k + 2].op = "data"
             => ~Misaligned(0 + k + 1, Aligned(c[k].arg))
    BY <1>1, Zenon DEF Fitting
  <2>2. IsWord(d[k]) /\ d[k].op = c[k].op /\ d[k].arg = c[k].arg
    BY <1>5
  <2>3. k + 2 <= n => k + 2 \in 1 .. n
    OBVIOUS
  <2>4. k + 2 <= n => d[k + 2].op = c[k + 2].op
    BY <1>5, <2>3, Zenon
  <2> QED BY <2>1, <2>2, <2>4, Zenon
<1>7. Fitting(d, 0)
  BY <1>6, <1>8, Zenon DEF Fitting
<1> QED BY <1>2, <1>6, <1>7, Zenon DEF WordsOf

LEMMA PutFits ==
  ASSUME Bounds, Placed, NEW n \in Nat, NEW words, NEW w \in Nat, WordsOf(words, w),
         Fitting(words, outp + n)
  PROVE  WordsOf(Put(n, words), outp + n + w) /\ Fitting(Put(n, words), 0)
<1>1. outp \in Nat /\ 0 \in Nat /\ outp + n \in Nat /\ 0 + outp = outp /\ 0 + (outp + n) = outp + n
  BY BoundsTypes DEF Bounds, Space
<1>2. PICK nops : nops = [m \in 1 .. n |-> Nop]
  OBVIOUS
<1>3. WordsOf(nops, n) /\ Fitting(nops, outp)
  BY <1>1, <1>2, NopsFit, Zenon
<1>4. WordsOf(code \o nops, outp + n) /\ Fitting(code \o nops, 0)
  BY <1>1, <1>3, WordsConcat, FittingConcat, Zenon DEF Placed
<1>5. WordsOf((code \o nops) \o words, outp + n + w) /\ Fitting((code \o nops) \o words, 0)
  BY <1>1, <1>4, WordsConcat, FittingConcat, Zenon
<1> QED BY <1>2, <1>5, Zenon DEF Put

LEMMA EmitPlaces ==
  ASSUME Bounds, Placed, NEW ins, NEW n \in Nat, NEW words, NEW w \in Nat, NEW start, NEW refs,
         WordsOf(words, w), Fitting(words, outp + n), Emit(ins, n, words, start, refs)
  PROVE  Placed'
<1>1. Len(words) = w
  BY Zenon DEF WordsOf
<1>2. code' = ProcessFixMap(Put(n, words), start) /\ outp' = outp + n + w
  BY <1>1, Zenon DEF Emit
<1>3. outp + n + w \in Nat
  BY BoundsTypes DEF Bounds, Space
<1>4. WordsOf(code', outp') /\ Fitting(code', 0)
  BY <1>2, <1>3, PutFits, FixedFit, Zenon
<1> QED BY <1>4 DEF Placed, WordsOf, Fitting, IsWord, Misaligned, Rx, Emit

-----------------------------------------------------------------------------
\* The sequences the code writes, each where it is written.

LEMMA PadAligns ==
  ASSUME Bounds, NEW k \in Nat
  PROVE  /\ ~Misaligned(outp + Pad(Misaligned(outp + k, 2)) + k, 2)
         /\ ~Misaligned(outp + Pad(~Misaligned(outp + k, 2)) + (k + 1), 2)
<1>1. site.out + outp \in Nat
  BY BoundsTypes DEF Rx
<1>2. PICK x \in Nat : x = site.out + outp + k
  BY <1>1
<1>3. Misaligned(outp + k, 2) <=> x % 2 # 0
  BY <1>1, <1>2, BoundsTypes DEF Misaligned, Rx
<1>4. x % 2 # 0 => (x + 1) % 2 = 0
  BY SMT
<1>5. x % 2 = 0 => (x + 2) % 2 = 0
  BY SMT
<1>6. /\ Misaligned(outp + 0 + k, 2) <=> x % 2 # 0
      /\ Misaligned(outp + 1 + k, 2) <=> (x + 1) % 2 # 0
      /\ Misaligned(outp + 0 + (k + 1), 2) <=> (x + 1) % 2 # 0
      /\ Misaligned(outp + 1 + (k + 1), 2) <=> (x + 2) % 2 # 0
  BY <1>1, <1>2, BoundsTypes DEF Misaligned, Rx
<1> QED BY <1>3, <1>4, <1>5, <1>6 DEF Pad

LEMMA AddressFits ==
  ASSUME NEW bytes, NEW p \in Nat, ~Misaligned(p, 2)
  PROVE  Fitting(Address(bytes), p)
<1>1. PICK a, b : a = Word("lit", 0, bytes) /\ b = Word("high", 0, 0)
  OBVIOUS
<1>2. IsWord(a) /\ a.op = "lit" /\ IsWord(b) /\ b.op = "high"
  BY <1>1, WordFields
<1>3. Fitting(<<a, b>>, p)
  BY <1>2 DEF Fitting
<1> QED BY <1>1, <1>3, Zenon DEF Address

LEMMA FourFit ==
  ASSUME NEW a, NEW b, NEW bytes, NEW p \in Nat, Codeword(a), Codeword(b), ~Misaligned(p + 2, 2)
  PROVE  Fitting(<<a, b>> \o Address(bytes), p)
<1>1. WordsOf(<<a, b>>, 2) /\ WordsOf(Address(bytes), 2) /\ 2 \in Nat /\ p + 2 \in Nat
  BY WordsTuple, WordsAddress
<1>2. Fitting(<<a, b>>, p)
  BY HarmlessTuples, HarmlessFits
<1>3. Fitting(Address(bytes), p + 2)
  BY <1>1, AddressFits, Zenon
<1> QED BY <1>1, <1>2, <1>3, FittingConcat, Zenon

LEMMA JumpFits ==
  ASSUME NEW to, NEW p \in Nat, ~Misaligned(p + 2, 2)
  PROVE  Fitting(AbsoluteJump(to), p)
<1>1. Codeword(LdrX17(2)) /\ Codeword(BrX17)
  BY WordFields DEF Codeword, LdrX17, BrX17
<1> QED BY <1>1, FourFit, Zenon DEF AbsoluteJump

LEMMA LoadFits ==
  ASSUME NEW bytes, NEW p \in Nat, ~Misaligned(p + 2, 2)
  PROVE  Fitting(AbsoluteLoad(bytes), p)
<1>1. Codeword(Word("ldrd", 2, 0)) /\ Codeword(Word("b", 3, 0))
  BY WordFields DEF Codeword
<1> QED BY <1>1, FourFit, Zenon DEF AbsoluteLoad

LEMMA CallFits ==
  ASSUME NEW a, NEW b, NEW c, NEW bytes, NEW p \in Nat,
         Codeword(a), Codeword(b), Codeword(c), ~Misaligned(p + 3, 2)
  PROVE  Fitting(<<a, b, c>> \o Address(bytes), p)
<1>1. WordsOf(<<a, b, c>>, 3) /\ WordsOf(Address(bytes), 2) /\ {2, 3} \subseteq Nat /\ p + 3 \in Nat
  BY WordsTuple, WordsAddress
<1>2. Fitting(<<a, b, c>>, p)
  BY HarmlessTuples, HarmlessFits
<1>3. Fitting(Address(bytes), p + 3)
  BY <1>1, AddressFits, Zenon
<1> QED BY <1>1, <1>2, <1>3, FittingConcat

LEMMA CondFits ==
  ASSUME NEW a, NEW b, NEW to, NEW p \in Nat, Codeword(a), Codeword(b), ~Misaligned(p + 4, 2)
  PROVE  Fitting(<<a, b>> \o AbsoluteJump(to), p)
<1>1. WordsOf(<<a, b>>, 2) /\ WordsOf(AbsoluteJump(to), 4) /\ {2, 4} \subseteq Nat
  BY WordsTuple, WordsJump
<1>2. Fitting(<<a, b>>, p)
  BY HarmlessTuples, HarmlessFits
<1>3. Fitting(AbsoluteJump(to), p + 2)
  <2>1. p + 2 \in Nat /\ (p + 2) + 2 = p + 4
    OBVIOUS
  <2> QED BY <2>1, JumpFits
<1> QED BY <1>1, <1>2, <1>3, FittingConcat

LEMMA CopiedFits ==
  ASSUME NEW reg \in Loads, NEW off, NEW t, NEW p \in Nat,
         ~Misaligned(p + 2, Aligned(reg))
  PROVE  Fitting(<<Word("load", 2, reg), Word("b", off, 0)>> \o Data(t, Aligned(reg)), p)
<1>1. PICK al \in {1, 2, 4} : al = Aligned(reg)
  BY DEF Aligned, Width
<1>2. PICK a, b : a = Word("load", 2, reg) /\ b = Word("b", off, 0)
  OBVIOUS
<1>3. IsWord(a) /\ a.op = "load" /\ a.arg = reg /\ IsWord(b) /\ b.op = "b"
  BY <1>2, WordFields
<1>4. PICK d : d = Data(t, al)
  OBVIOUS
<1>5. WordsOf(<<a, b>>, 2) /\ WordsOf(d, al) /\ al \in Nat /\ 2 \in Nat
  BY <1>4, WordsTuple, WordsData
<1>6. \A k \in 1 .. al : IsWord(d[k]) /\ d[k].op = "data"
  BY <1>4, WordFields DEF Data
<1>7. PICK u : u = <<a, b>> \o d
  OBVIOUS
<1>8. Len(u) = 2 + al
  <2>1. WordsOf(u, 2 + al)
    BY <1>5, <1>7, WordsConcat, Zenon
  <2> QED BY <2>1, Zenon DEF WordsOf
<1>9. Joined(<<a, b>>, 2, d, al, u)
  BY <1>5, <1>7, ConcatIs, Zenon
<1>10. u[1] = a /\ u[2] = b /\ \A k \in 3 .. 2 + al : IsWord(u[k]) /\ u[k].op = "data"
  BY <1>1, <1>6, <1>9 DEF Joined
<1>11. Fitting(u, p)
  BY <1>1, <1>3, <1>8, <1>10 DEF Fitting
<1> QED BY <1>1, <1>2, <1>4, <1>7, <1>11

-----------------------------------------------------------------------------
\* One lemma for each function of the code.

\* Paths that write one word of code, after NOPs or not.
LEMMA OnePlaced ==
  ASSUME Bounds, Placed, NEW ins, NEW n \in Nat, NEW w, NEW start, NEW refs, Codeword(w),
         Emit(ins, n, <<w>>, start, refs)
  PROVE  Placed'
<1>1. outp + n \in Nat /\ 1 \in Nat
  BY DEF Bounds, Space
<1>2. WordsOf(<<w>>, 1) /\ Len(<<w>>) = 1 /\ Harmless(<<w>>)
  BY WordsTuple, HarmlessTuples
<1>3. Fitting(<<w>>, outp + n)
  BY <1>1, <1>2, HarmlessFits, Zenon
<1> QED BY <1>1, <1>2, <1>3, EmitPlaces, Zenon

LEMMA BranchPlaced ==
  ASSUME Bounds, Placed, NEW ins \in Instructions,
         BranchAbsolute(ins) \/ CallAbsolute(ins) \/ BranchRelative(ins)
  PROVE  Placed'
<1>1. outp \in Nat /\ {2, 3, 4, 5} \subseteq Nat /\ 2 + 1 = 3
  BY DEF Bounds, Space
<1>2. CASE BranchAbsolute(ins)
  <2>1. PICK n, to, start : /\ n = Pad(Misaligned(outp + 2, 2))
                            /\ Emit(ins, n, AbsoluteJump(to), start, fmap)
    BY <1>2, Zenon DEF BranchAbsolute
  <2>2. n \in Nat /\ outp + n \in Nat /\ ~Misaligned(outp + n + 2, 2)
    BY <1>1, <2>1, PadTypes, PadAligns
  <2>3. Fitting(AbsoluteJump(to), outp + n) /\ WordsOf(AbsoluteJump(to), 4)
    BY <2>2, JumpFits, WordsJump, Zenon
  <2> QED BY <1>1, <2>1, <2>2, <2>3, EmitPlaces, Zenon
<1>3. CASE CallAbsolute(ins)
  <2>1. PICK n, a, b, c, bytes, start :
          /\ n = Pad(~Misaligned(outp + 2, 2))
          /\ a = LdrX17(3) /\ b = Word("adr30", 4, 0) /\ c = BrX17
          /\ Emit(ins, n, <<a, b, c>> \o Address(bytes), start, fmap)
    BY <1>3, Zenon DEF CallAbsolute
  <2>2. Codeword(a) /\ Codeword(b) /\ Codeword(c)
    BY <2>1, WordFields DEF Codeword, LdrX17, BrX17
  <2>3. n \in Nat /\ outp + n \in Nat /\ ~Misaligned(outp + n + 3, 2)
    BY <1>1, <2>1, PadTypes, PadAligns
  <2>4. /\ Fitting(<<a, b, c>> \o Address(bytes), outp + n)
        /\ WordsOf(<<a, b, c>> \o Address(bytes), 5)
    BY <2>2, <2>3, CallFits, WordsCall, Zenon
  <2> QED BY <1>1, <2>1, <2>3, <2>4, EmitPlaces, Zenon
<1>4. CASE BranchRelative(ins)
  <2>1. ins.op \in {"b", "bl"}
    BY <1>4, Zenon DEF BranchRelative, Moving
  <2>2. PICK off : Emit(ins, 0, <<Word(ins.op, off, 0)>>, Rx(outp),
                        References(Here + ins.off, BranchSpan))
    BY <1>4, Zenon DEF BranchRelative
  <2>3. Codeword(Word(ins.op, off, 0)) /\ 0 \in Nat
    BY <2>1, WordFields DEF Codeword
  <2> QED BY <2>2, <2>3, OnePlaced, Zenon
<1> QED BY <1>2, <1>3, <1>4

LEMMA CondPlaced ==
  ASSUME Bounds, Placed, NEW ins \in Instructions, CondAbsolute(ins) \/ CondRelative(ins)
  PROVE  Placed'
<1>1. outp \in Nat /\ {4, 6} \subseteq Nat
  BY DEF Bounds, Space
<1>2. CASE CondAbsolute(ins)
  <2>1. PICK n, a, b, to, start :
          /\ n = Pad(Misaligned(outp + 4, 2)) /\ ins.op \in {"cond", "test"}
          /\ a = Word(ins.op, 2, 0) /\ b = Word("b", 5, 0)
          /\ Emit(ins, n, <<a, b>> \o AbsoluteJump(to), start, fmap)
    BY <1>2, Zenon DEF CondAbsolute, Moving
  <2>2. Codeword(a) /\ Codeword(b)
    BY <2>1, WordFields DEF Codeword
  <2>3. n \in Nat /\ outp + n \in Nat /\ ~Misaligned(outp + n + 4, 2)
    BY <1>1, <2>1, PadTypes, PadAligns
  <2>4. /\ Fitting(<<a, b>> \o AbsoluteJump(to), outp + n)
        /\ WordsOf(<<a, b>> \o AbsoluteJump(to), 6)
    BY <2>2, <2>3, CondFits, WordsCond, Zenon
  <2> QED BY <1>1, <2>1, <2>3, <2>4, EmitPlaces, Zenon
<1>3. CASE CondRelative(ins)
  <2>1. ins.op \in {"cond", "test"}
    BY <1>3, Zenon DEF CondRelative, Moving
  <2>2. PICK off : Emit(ins, 0, <<Word(ins.op, off, 0)>>, Rx(outp),
                        References(CondTarget(ins), CondField(ins)))
    BY <1>3, Zenon DEF CondRelative
  <2>3. Codeword(Word(ins.op, off, 0)) /\ 0 \in Nat
    BY <2>1, WordFields DEF Codeword
  <2> QED BY <2>2, <2>3, OnePlaced, Zenon
<1> QED BY <1>2, <1>3

\* Before copied data there are as many NOPs as its alignment asks for.
LEMMA LoadPlaced ==
  ASSUME Bounds, Placed, NEW ins \in Instructions,
         Prefetch(ins) \/ LoadCopied(ins) \/ LoadRelative(ins)
  PROVE  Placed'
<1>1. outp \in Nat /\ Rx(outp) \in Nat /\ site.out \in Nat
  BY BoundsTypes
<1>2. Aligned(ins.reg) \in {1, 2, 4} /\ ins.reg \in Loads
  BY DEF Aligned, Width, Instructions
<1>3. CASE Prefetch(ins)
  <2>1. PICK start : Emit(ins, 0, <<>>, start, fmap)
    BY <1>3, Zenon DEF Prefetch
  <2>2. WordsOf(<<>>, 0) /\ Len(<<>>) = 0 /\ Harmless(<<>>) /\ 0 \in Nat /\ outp + 0 \in Nat
    BY <1>1, WordsTuple, HarmlessTuples
  <2>3. Fitting(<<>>, outp + 0)
    BY <2>2, HarmlessFits, Zenon
  <2> QED BY <2>1, <2>2, <2>3, EmitPlaces, Zenon
<1>4. CASE LoadCopied(ins)
  <2>1. PICK off, t, n, start :
          /\ n = (-(Rx(outp) + 2)) % Aligned(ins.reg)
          /\ Emit(ins, n, <<Word("load", 2, ins.reg), Word("b", off, 0)>>
                            \o Data(t, Aligned(ins.reg)), start, fmap)
    BY <1>4, Zenon DEF LoadCopied
  <2>2. n \in Nat /\ ~Misaligned(outp + n + 2, Aligned(ins.reg))
    <3>1. PICK x \in Nat : x = Rx(outp) + 2
      BY <1>1
    <3>2. /\ (-x) % 1 \in Nat /\ (x + ((-x) % 1)) % 1 = 0
          /\ (-x) % 2 \in Nat /\ (x + ((-x) % 2)) % 2 = 0
          /\ (-x) % 4 \in Nat /\ (x + ((-x) % 4)) % 4 = 0
      BY SMT
    <3>3. n \in Nat /\ (x + n) % Aligned(ins.reg) = 0
      BY <1>2, <2>1, <3>1, <3>2
    <3>4. Rx(outp + n + 2) = x + n
      BY <1>1, <3>1, <3>3 DEF Rx
    <3> QED BY <3>3, <3>4 DEF Misaligned
  <2>3. outp + n \in Nat /\ Aligned(ins.reg) \in Nat /\ 2 + Aligned(ins.reg) \in Nat
    BY <1>1, <1>2, <2>2
  <2>4. Fitting(<<Word("load", 2, ins.reg), Word("b", off, 0)>> \o Data(t, Aligned(ins.reg)),
                outp + n)
    BY <1>2, <2>2, <2>3, CopiedFits, Zenon
  <2>5. WordsOf(<<Word("load", 2, ins.reg), Word("b", off, 0)>> \o Data(t, Aligned(ins.reg)),
                2 + Aligned(ins.reg))
    BY <2>3, WordsCopied, Zenon
  <2> QED BY <2>1, <2>2, <2>3, <2>4, <2>5, EmitPlaces, Zenon
<1>5. CASE LoadRelative(ins)
  <2>1. PICK off, arg, t, n, start :
          /\ t = Here + ZeroExtended(ins.off) /\ n = (t - Rx(outp)) % Aligned(ins.reg)
          /\ Emit(ins, n, <<Word("load", off, arg)>>, start, fmap)
    BY <1>5, Zenon DEF LoadRelative
  <2>2. n \in Nat
    <3>1. t \in Int
      BY <2>1, TargetTypes
    <3> QED BY <1>1, <1>2, <2>1, <3>1, SMT
  <2>3. Codeword(Word("load", off, arg))
    BY WordFields DEF Codeword
  <2> QED BY <2>1, <2>2, <2>3, OnePlaced, Zenon
<1> QED BY <1>3, <1>4, <1>5

LEMMA AddressPlaced ==
  ASSUME Bounds, Placed, NEW ins \in Instructions,
         AdrAbsolute(ins) \/ AdrRelative(ins) \/ AdrpAbsolute(ins) \/ AdrpCopied(ins)
  PROVE  Placed'
<1>1. outp \in Nat /\ {0, 2, 4} \subseteq Nat
  BY DEF Bounds, Space
<1>2. CASE AdrAbsolute(ins) \/ AdrpAbsolute(ins)
  <2>1. PICK n, bytes, start : /\ n = Pad(Misaligned(outp + 2, 2))
                               /\ Emit(ins, n, AbsoluteLoad(bytes), start, fmap)
    BY <1>2, Zenon DEF AdrAbsolute, AdrpAbsolute
  <2>2. n \in Nat /\ outp + n \in Nat /\ ~Misaligned(outp + n + 2, 2)
    BY <1>1, <2>1, PadTypes, PadAligns
  <2>3. Fitting(AbsoluteLoad(bytes), outp + n) /\ WordsOf(AbsoluteLoad(bytes), 4)
    BY <2>2, LoadFits, WordsLoad, Zenon
  <2> QED BY <1>1, <2>1, <2>2, <2>3, EmitPlaces
<1>3. CASE AdrRelative(ins)
  <2>1. PICK off, arg : Emit(ins, 0, <<Word("adr", off, arg)>>, Rx(outp),
                             References(Here + ZeroExtended(ins.off), AdrSpan \div 4))
    BY <1>3, Zenon DEF AdrRelative
  <2>2. Codeword(Word("adr", off, arg)) /\ 0 \in Nat
    BY WordFields DEF Codeword
  <2> QED BY <2>1, <2>2, OnePlaced, Zenon
<1>4. CASE AdrpCopied(ins)
  <2>1. Emit(ins, 0, <<Word("adrp", ins.off, 0)>>, Rw(outp), fmap)
    BY <1>4, Zenon DEF AdrpCopied
  <2>2. Codeword(Word("adrp", ins.off, 0)) /\ 0 \in Nat
    BY WordFields DEF Codeword
  <2> QED BY <2>1, <2>2, OnePlaced, Zenon
<1> QED BY <1>2, <1>3, <1>4

LEMMA PlainPlaced ==
  ASSUME Bounds, Placed, NEW ins \in Instructions, Plain(ins)
  PROVE  Placed'
<1>1. PICK start : Emit(ins, 0, <<Word("plain", 0, Here)>>, start, fmap)
  BY Zenon DEF Plain
<1>2. Codeword(Word("plain", 0, Here)) /\ 0 \in Nat
  BY WordFields DEF Codeword
<1> QED BY <1>1, <1>2, OnePlaced, Zenon

LEMMA ClosePlaced ==
  ASSUME Bounds, Placed, Close
  PROVE  Placed'
<1>1. outp \in Nat /\ {1, 2, 4} \subseteq Nat
  BY DEF Bounds, Space
<1>2. PICK n, words, w :
        /\ n \in Nat /\ w \in Nat /\ code' = Put(n, words) /\ outp' = outp + n + Len(words)
        /\ WordsOf(words, w) /\ Fitting(words, outp + n)
  <2>1. CASE CloseTooFar
    <3>1. PICK n : n = Pad(Misaligned(outp + 2, 2))
      OBVIOUS
    <3>2. n = Pad(CloseTooFar /\ Misaligned(outp + 2, 2))
      BY <2>1, <3>1 DEF Pad
    <3>3. /\ code' = Put(n, AbsoluteJump(Here))
          /\ outp' = outp + n + Len(AbsoluteJump(Here))
      BY <2>1, <3>2, Zenon DEF Close
    <3>4. n \in Nat /\ outp + n \in Nat /\ ~Misaligned(outp + n + 2, 2)
      BY <1>1, <3>1, PadTypes, PadAligns
    <3>5. Fitting(AbsoluteJump(Here), outp + n) /\ WordsOf(AbsoluteJump(Here), 4) /\ 4 \in Nat
      BY <1>1, <3>4, JumpFits, WordsJump, Zenon
    <3> QED BY <3>3, <3>4, <3>5, Zenon
  <2>2. CASE ~CloseTooFar
    <3>1. Pad(CloseTooFar /\ Misaligned(outp + 2, 2)) = 0
      BY <2>2 DEF Pad
    <3>2. PICK u, off : /\ u = <<Word("b", off, 0)>>
                        /\ code' = Put(0, u) /\ outp' = outp + 0 + Len(u)
      BY <2>2, <3>1, Zenon DEF Close
    <3>3. Codeword(Word("b", off, 0)) /\ outp + 0 \in Nat /\ 0 \in Nat /\ 1 \in Nat
      BY <1>1, WordFields DEF Codeword
    <3>4. Len(u) = 1 /\ Harmless(u) /\ WordsOf(u, 1)
      BY <3>2, <3>3, HarmlessTuples, WordsTuple
    <3>5. Fitting(u, outp + 0)
      BY <3>3, <3>4, HarmlessFits, Zenon
    <3> QED BY <3>2, <3>3, <3>4, <3>5, Zenon
  <2> QED BY <2>1, <2>2
<1>3. Len(words) = w
  BY <1>2, Zenon DEF WordsOf
<1>4. WordsOf(code', outp') /\ Fitting(code', 0)
  BY <1>2, <1>3, PutFits
<1>5. site' = site
  BY DEF Close
<1> QED BY <1>4, <1>5 DEF Placed, WordsOf, Fitting, IsWord, Misaligned, Rx

LEMMA AlwaysPlaced == Spec => [](Bounds /\ Placed)
<1>1. Init => Bounds /\ Placed
  <2> SUFFICES ASSUME Init PROVE Placed
    BY InitBounds
  <2>1. code = <<>> /\ outp = 0
    BY DEF Init
  <2>2. Len(code) = 0 /\ Harmless(code) /\ WordsOf(code, outp) /\ 0 \in Nat
    BY <2>1, HarmlessTuples, WordsTuple
  <2> QED BY <2>2, HarmlessFits DEF Placed
<1>2. Bounds /\ Placed /\ [Next]_vars => (Bounds /\ Placed)'
  <2> SUFFICES ASSUME Bounds, Placed, [Next]_vars PROVE Placed'
    BY NextBounds
  <2>1. CASE Close
    BY <2>1, ClosePlaced
  <2>2. ASSUME NEW ins \in Instructions, Move(ins) PROVE Placed'
    BY <2>2, BranchPlaced, CondPlaced, LoadPlaced, AddressPlaced, PlainPlaced, Zenon DEF Move
  <2>3. CASE UNCHANGED vars
    BY <2>3 DEF vars, Placed, WordsOf, Fitting, IsWord, Misaligned, Rx
  <2>4. site.mix \subseteq Instructions
    BY RelocateAssumption DEF Bounds
  <2> QED BY <2>1, <2>2, <2>3, <2>4 DEF Next
<1> QED BY <1>1, <1>2, PTL DEF Spec

\* "8-byte align": wherever a trampoline lies and whatever it holds so far, an
\* address literal is on a multiple of eight bytes and copied data on a multiple
\* of the size of the register it is for.
THEOREM LiteralsStayAligned == Spec => []LiteralsAligned
<1>1. Bounds /\ Placed => LiteralsAligned
  <2> SUFFICES ASSUME Bounds, Placed, NEW p \in 0 .. outp - 1
               PROVE  /\ code[p + 1].op = "lit" => ~Misaligned(p, 2)
                      /\ code[p + 1].op = "load" /\ p + 2 < outp /\ code[p + 3].op = "data"
                           => ~Misaligned(p + 2, Aligned(code[p + 1].arg))
    BY DEF LiteralsAligned
  <2>1. Len(code) = outp /\ outp \in Nat
    BY DEF Placed, WordsOf, Bounds, Space
  <2>2. PICK k \in 1 .. outp : k = p + 1
    BY <2>1
  <2>3. 0 + k - 1 = p /\ 0 + k + 1 = p + 2 /\ k + 2 = p + 3 /\ (p + 2 < outp => k + 2 <= outp)
    BY <2>1, <2>2
  <2> QED BY <2>1, <2>2, <2>3 DEF Placed, Fitting
<1> QED BY <1>1, AlwaysPlaced, PTL

-----------------------------------------------------------------------------
(* What the words do.  The copy of instruction k is the words from Begin(k)  *)
(* to Begin(k + 1): up to three NOPs, and one of the sequences below         *)
(* (Copied).  Only an offset of a copy that is one word (Near) ever changes, *)
(* and only while its target is still to be moved: then, and only then, a    *)
(* fix map holds it (Entries).                                               *)

Begin(k) == IF k < Len(begins) THEN begins[k + 1] ELSE outp
Of(p) == code[p + 1]

\* The target of an instruction at a, as the code computes it.
AimFrom(a, ins) ==
  IF ins.op \in {"b", "bl"} THEN a + ins.off
  ELSE IF ins.op \in {"cond", "test"} THEN a + Unsigned(CondField(ins), ins.off)
  ELSE a + ZeroExtended(ins.off)

Relative == {"b", "bl", "cond", "test", "adr"}
Span(ins) ==
  IF ins.op \in {"b", "bl"} THEN BranchSpan
  ELSE IF ins.op \in {"cond", "test"} THEN CondField(ins) ELSE AdrSpan \div 4

\* Instruction k is ins, aims at t, and its copy is the words b to e - 1.
Place(k, ins, t, b, e) ==
  /\ ins = prog[k + 1] /\ t = AimFrom(From(k), ins)
  /\ b = Begin(k) /\ e = Begin(k + 1)

Away(t, b, e) == t < Rx(b) \/ t >= Rx(e)
JumpAt(p, t) == Of(p) = LdrX17(2) /\ Of(p + 1) = BrX17 /\ Of(p + 2) = Word("lit", 0, 4 * t)

FarBranch(ins, t, b, e, n) ==
  /\ ins.op = "b" /\ n <= 1 /\ ~InFixingRange(t) /\ Away(t, b, e)
  /\ e = b + n + 4 /\ JumpAt(b + n, t)

FarCall(ins, t, b, e, n) ==
  LET p == b + n
  IN  /\ ins.op = "bl" /\ n <= 1 /\ ~InFixingRange(t) /\ Away(t, b, e)
      /\ e = p + 5
      /\ Of(p) = LdrX17(3) /\ Of(p + 1) = Word("adr30", 4, 0) /\ Of(p + 2) = BrX17
      /\ Of(p + 3) = Word("lit", 0, 4 * t)

FarCond(ins, t, b, e, n) ==
  LET p == b + n
  IN  /\ ins.op \in {"cond", "test"} /\ n <= 1 /\ ~InFixingRange(t) /\ Away(t, b, e)
      /\ e = p + 6
      /\ Of(p) = Word(ins.op, 2, 0) /\ Of(p + 1) = Word("b", 5, 0) /\ JumpAt(p + 2, t)

\* A word that is noted in another mapping than it runs in.
Aliased(k) == prog[k + 1].op = "adrp" /\ dat[k] = Rw(Begin(k))

\* What the offset of the word at p is, or who is to complete it.
Aimed(p, t) ==
  IF ~InFixingRange(t) THEN Of(p).off = t - Rx(p)
  ELSE \E r \in Indices :
         /\ r = Ref(t)
         /\ IF r < i THEN Aliased(r) \/ Of(p).off = dat[r] - Rx(p)
            ELSE \E m \in DOMAIN fmap[r] : fmap[r][m].at = p

Near(ins, t, b, e, n) ==
  /\ ins.op \in Relative /\ n = 0 /\ e = b + 1
  /\ Of(b) = Word(ins.op, Of(b).off,
                  IF ins.op # "adr" THEN 0
                  ELSE [lo |-> ins.lo, rd |-> IF InFixingRange(t) THEN 0 ELSE 8 * ins.lo])
  /\ Of(b).off \in Int
  /\ Aimed(b, t)

Dropped(ins, b, e, n) == ins.op = "prfm" /\ n = 0 /\ e = b

LoadWithData(ins, t, b, e, n) ==
  LET p == b + n
      al == Aligned(ins.reg)
  IN  /\ ins.op = "load" /\ e = p + 2 + al
      /\ Of(p) = Word("load", 2, ins.reg) /\ Of(p + 1) = Word("b", 1 + al, 0)
      /\ \A m \in 0 .. al - 1 : Of(p + 2 + m) = Word("data", 0, t + m)

NearLoad(ins, t, b, e, n) ==
  LET p == b + n
      off == t - Rx(p)
  IN  /\ ins.op = "load" /\ ~InFixingRange(t) /\ e = p + 1
      /\ Of(p) = Word("load", off, Loaded(ins.reg, off))

LiteralAddress(bytes, b, e, n) ==
  LET p == b + n
  IN  /\ n <= 1 /\ e = p + 4
      /\ Of(p) = Word("ldrd", 2, 0) /\ Of(p + 1) = Word("b", 3, 0)
      /\ Of(p + 2) = Word("lit", 0, bytes)
FarAddress(ins, t, b, e, n) ==
  ins.op = "adr" /\ ~InFixingRange(t) /\ LiteralAddress(4 * t + ins.lo, b, e, n)
FarPage(k, ins, b, e, n) ==
  ins.op = "adrp" /\ LiteralAddress(4 * (Page(From(k)) + ZeroExtended(ins.off * PageWords)), b, e, n)
NearPage(ins, b, e, n) ==
  ins.op = "adrp" /\ n = 0 /\ e = b + 1 /\ Of(b).op = "adrp"

Same(k, ins, b, e, n) ==
  ins.op = "plain" /\ n = 0 /\ e = b + 1 /\ Of(b) = Word("plain", 0, From(k))

Fixed(k, ins, t, b, e, n) ==
  \/ FarBranch(ins, t, b, e, n) \/ FarCall(ins, t, b, e, n) \/ FarCond(ins, t, b, e, n)
  \/ Dropped(ins, b, e, n) \/ LoadWithData(ins, t, b, e, n) \/ NearLoad(ins, t, b, e, n)
  \/ FarAddress(ins, t, b, e, n) \/ FarPage(k, ins, b, e, n) \/ NearPage(ins, b, e, n)
  \/ Same(k, ins, b, e, n)

Nops(p, n) == \A m \in 0 .. n - 1 : Of(p + m) = Nop
Noted(k, b, n) == Aliased(k) \/ \E m \in 0 .. n : dat[k] = Rx(b + m)
Copied(k) ==
  \E n \in 0 .. 3 : \E ins, t, b, e :
    /\ Place(k, ins, t, b, e)
    /\ Nops(b, n) /\ Noted(k, b, n)
    /\ Near(ins, t, b, e, n) \/ Fixed(k, ins, t, b, e, n)

\* Instruction k waits for the address of instruction r.
Owes(k, r) ==
  /\ k < i /\ k < count /\ r > k
  /\ \E ins, t, b, e :
       Place(k, ins, t, b, e) /\ ins.op \in Relative /\ InFixingRange(t) /\ Ref(t) = r
Entry(k, f) == f = [at |-> Begin(k), span |-> Span(prog[k + 1])]
Entries ==
  \A r \in Indices : \A m \in DOMAIN fmap[r] :
    \E k \in Indices : Owes(k, r) /\ Entry(k, fmap[r][m])

\* Copies lie in order, none takes more than nine words.
Trace ==
  /\ begins \in Seq(Nat) /\ Len(begins) = i
  /\ prog \in Seq(Instructions) /\ Len(prog) = IF i <= count THEN i ELSE count
  /\ \A k \in 1 .. Len(prog) : prog[k] \in site.mix
  /\ dat \in [Indices -> Int]
  /\ \A j, k \in 0 .. count : j <= k /\ k <= i =>
       Begin(j) <= Begin(k) /\ Begin(k) - Begin(j) <= Largest * (k - j)
  /\ \A k \in 0 .. count : k <= i => Begin(k) \in Nat /\ Begin(k) <= outp

\* The jump back.
Closes(n, t, b, e) ==
  /\ t = From(count) /\ b = Begin(count) /\ e = outp
  /\ Nops(b, n)
  /\ \/ e = b + n + 4 /\ JumpAt(b + n, t) /\ Away(t, b, e)
     \/ n = 0 /\ e = b + 1 /\ Of(b) = Word("b", t - Rx(b), 0)
Closed == \E n \in 0 .. 1 : \E t, b, e : Closes(n, t, b, e)

Copies ==
  /\ Trace /\ Entries
  /\ \A k \in Indices : k < i /\ k < count => Copied(k)
CopyInv == Bounds /\ Placed /\ Copies


-----------------------------------------------------------------------------
\* What is written is what was there, NOPs and the new words.
Joins(d, n, words, w) ==
  /\ DOMAIN d = 1 .. outp + n + w
  /\ \A k \in 1 .. outp : d[k] = code[k]
  /\ \A k \in 1 .. n : d[outp + k] = Nop
  /\ \A k \in 1 .. w : d[outp + n + k] = words[k]

LEMMA PutIs ==
  ASSUME Bounds, Placed, NEW n \in Nat, NEW words, NEW w \in Nat, WordsOf(words, w),
         NEW d, d = Put(n, words)
  PROVE  Joins(d, n, words, w)
<1>1. outp \in Nat /\ outp + n \in Nat
  BY BoundsTypes
<1>2. PICK nops : nops = [m \in 1 .. n |-> Nop]
  OBVIOUS
<1>3. WordsOf(nops, n) /\ \A k \in 1 .. n : nops[k] = Nop
  BY <1>2, NopsFit, 0 \in Nat
<1>4. WordsOf(code \o nops, outp + n) /\ Joined(code, outp, nops, n, code \o nops)
  BY <1>1, <1>3, WordsConcat, ConcatIs, Zenon DEF Placed
<1>5. PICK c : c = code \o nops
  OBVIOUS
<1>6. WordsOf(c \o words, outp + n + w) /\ Joined(c, outp + n, words, w, c \o words)
  BY <1>1, <1>4, <1>5, WordsConcat, ConcatIs, Zenon
<1>7. d = c \o words
  BY <1>2, <1>5 DEF Put
<1>9. DOMAIN d = 1 .. outp + n + w
  <2>1. PICK S : d \in Seq(S) /\ Len(d) = outp + n + w
    BY <1>6, <1>7, Zenon DEF WordsOf
  <2> QED BY <2>1
<1>10. /\ \A k \in 1 .. outp + n : c[k] = IF k <= outp THEN code[k] ELSE nops[k - outp]
       /\ \A k \in 1 .. outp + n + w : d[k] = IF k <= outp + n THEN c[k] ELSE words[k - (outp + n)]
  BY <1>4, <1>5, <1>6, <1>7 DEF Joined
<1>11. \A k \in 1 .. outp : d[k] = code[k]
  <2> SUFFICES ASSUME NEW k \in 1 .. outp PROVE d[k] = code[k]
    OBVIOUS
  <2>1. k \in 1 .. outp + n + w /\ k \in 1 .. outp + n /\ k <= outp + n /\ k <= outp
    BY <1>1
  <2> QED BY <1>10, <2>1, Zenon
<1>12. \A k \in 1 .. n : d[outp + k] = Nop
  <2> SUFFICES ASSUME NEW k \in 1 .. n PROVE d[outp + k] = Nop
    OBVIOUS
  <2>1. PICK m : m = outp + k
    OBVIOUS
  <2>2. m \in 1 .. outp + n + w /\ m \in 1 .. outp + n /\ m <= outp + n /\ ~(m <= outp) /\ m - outp = k
    BY <1>1, <2>1
  <2>3. d[m] = nops[k]
    BY <1>10, <2>2, Zenon
  <2> QED BY <1>3, <2>1, <2>3
<1>13. \A k \in 1 .. w : d[outp + n + k] = words[k]
  <2> SUFFICES ASSUME NEW k \in 1 .. w PROVE d[outp + n + k] = words[k]
    OBVIOUS
  <2>1. PICK m : m = outp + n + k
    OBVIOUS
  <2>2. m \in 1 .. outp + n + w /\ ~(m <= outp + n) /\ m - (outp + n) = k
    BY <1>1, <2>1
  <2> QED BY <1>10, <2>1, <2>2, Zenon
<1> QED BY <1>9, <1>11, <1>12, <1>13, Zenon DEF Joins

\* process_fix_map changes the words that wait for instruction i.
LEMMA FixedIs ==
  ASSUME NEW c, NEW start, NEW m \in DOMAIN c
  PROVE  /\ (\A n \in DOMAIN fmap[i] : fmap[i][n].at # m - 1) => ProcessFixMap(c, start)[m] = c[m]
         /\ (\E n \in DOMAIN fmap[i] : fmap[i][n].at = m - 1) =>
              \E n \in DOMAIN fmap[i] :
                /\ fmap[i][n].at = m - 1
                /\ ProcessFixMap(c, start)[m] =
                     [c[m] EXCEPT !.off = Signed(fmap[i][n].span, start - Rx(m - 1))]
<1>1. ProcessFixMap(c, start)[m] =
        IF \E n \in DOMAIN fmap[i] : fmap[i][n].at = m - 1
          THEN [c[m] EXCEPT !.off =
                 Signed(fmap[i][CHOOSE n \in DOMAIN fmap[i] : fmap[i][n].at = m - 1].span,
                        start - Rx(m - 1))]
          ELSE c[m]
  BY Zenon DEF ProcessFixMap
<1>2. ASSUME \E n \in DOMAIN fmap[i] : fmap[i][n].at = m - 1
      PROVE  LET h == CHOOSE n \in DOMAIN fmap[i] : fmap[i][n].at = m - 1
             IN  h \in DOMAIN fmap[i] /\ fmap[i][h].at = m - 1
  BY <1>2, Zenon
<1> QED BY <1>1, <1>2, Zenon

\* The state before a step, as far as the copies need it.
LEMMA CopyTypes ==
  ASSUME CopyInv
  PROVE  /\ site \in Sites /\ site.in \in Nat /\ site.out \in Nat /\ site.rw \in Nat
         /\ i \in Nat /\ count \in 1 .. 5 /\ i <= count + 1 /\ outp \in Nat
         /\ i < count => i \in Indices
         /\ i <= count => Begin(i) = outp
         /\ \A k \in Indices : From(k) \in Nat
<1>1. /\ site \in Sites /\ count \in 1 .. 5 /\ i \in 0 .. count + 1 /\ outp \in Nat
  BY DEF CopyInv, Bounds, Space, MaxInstructions
<1>2. site.in \in Nat /\ site.out \in Nat /\ site.rw \in Nat
  BY <1>1, RelocateAssumption
<1>3. i < count => i \in Indices
  BY <1>1 DEF Indices, MaxInstructions
<1>4. i <= count => Begin(i) = outp
  BY <1>1 DEF CopyInv, Copies, Trace, Begin
<1>5. \A k \in Indices : From(k) \in Nat
  BY <1>2 DEF Indices, From
<1> QED BY <1>1, <1>2, <1>3, <1>4, <1>5

\* The other sequences do not depend on an instruction that is moved.
LEMMA OnlyNear ==
  ASSUME NEW k, NEW ins, NEW t, NEW b, NEW e, NEW n, Fixed(k, ins, t, b, e, n),
         ins.op \in Relative, InFixingRange(t)
  PROVE  FALSE
BY DEF Fixed, Relative, FarBranch, FarCall, FarCond, Dropped, LoadWithData, NearLoad, FarAddress,
       FarPage, NearPage, Same

\* One that waits is a copy of one word.
LEMMA OwesNear ==
  ASSUME CopyInv, NEW k \in Indices, NEW r, Owes(k, r)
  PROVE  /\ Begin(k) \in Nat /\ Begin(k + 1) = Begin(k) + 1
         /\ Begin(k) < outp /\ k < i /\ k < count
<1>1. k < i /\ k < count /\ Copied(k)
  BY DEF CopyInv, Copies, Owes
<1>2. PICK ins, t, b, e : Place(k, ins, t, b, e) /\ ins.op \in Relative /\ InFixingRange(t)
  BY DEF Owes
<1>3. PICK n \in 0 .. 3 : Near(ins, t, b, e, n) \/ Fixed(k, ins, t, b, e, n)
  BY <1>1, <1>2, Zenon DEF Copied, Place
<1>4. Near(ins, t, b, e, n)
  BY <1>2, <1>3, OnlyNear
<1>5. b = Begin(k) /\ Begin(k + 1) = b + 1
  BY <1>2, <1>4 DEF Near, Place
<1>6. k \in 0 .. count /\ k + 1 \in 0 .. count /\ k <= i /\ k + 1 <= i
  BY <1>1, CopyTypes DEF Indices
<1>7. Begin(k) \in Nat /\ Begin(k + 1) <= outp
  BY <1>6 DEF CopyInv, Copies, Trace
<1> QED BY <1>1, <1>5, <1>7, CopyTypes

\* Copies do not overlap.
LEMMA InOrder ==
  ASSUME CopyInv, NEW j \in Indices, NEW k \in Indices, j < k, k < i, k < count
  PROVE  Begin(j + 1) <= Begin(k) /\ Begin(j + 1) \in Nat /\ Begin(k) \in Nat
<1>1. j + 1 \in 0 .. count /\ k \in 0 .. count /\ j + 1 <= k /\ k <= i /\ j + 1 <= i
  BY CopyTypes DEF Indices
<1> QED BY <1>1 DEF CopyInv, Copies, Trace

\* Who waits at a word is the one whose word it is.
LEMMA Owner ==
  ASSUME CopyInv, NEW k \in Indices, k < i, k < count, NEW p \in Nat,
         Begin(k) <= p, p < Begin(k + 1),
         NEW j \in Indices, NEW r, Owes(j, r), Begin(j) = p
  PROVE  j = k
<1>1. Begin(j + 1) = Begin(j) + 1 /\ j < i /\ j < count
  BY OwesNear
<1>2. CASE j < k
  BY <1>1, <1>2, InOrder
<1>3. CASE k < j
  BY <1>1, <1>3, InOrder
<1> QED BY <1>2, <1>3 DEF Indices

LEMMA EntryIs ==
  ASSUME CopyInv, NEW r \in Indices, NEW m \in DOMAIN fmap[r]
  PROVE  \E k \in Indices :
           /\ Owes(k, r) /\ fmap[r][m].at = Begin(k)
           /\ fmap[r][m].span = Span(prog[k + 1])
<1>1. PICK k \in Indices : Owes(k, r) /\ Entry(k, fmap[r][m])
  BY DEF CopyInv, Copies, Entries
<1> QED BY <1>1 DEF Entry

\* The word that waits for instruction i, and what it becomes.
Waits(k) == \E m \in DOMAIN fmap[i] : fmap[i][m].at = Begin(k)
Writes(n, words, w) == \A m \in 1 .. w : code'[outp + n + m] = words[m]
Completes(k, start) ==
  code'[Begin(k) + 1] =
    [code[Begin(k) + 1] EXCEPT !.off = Signed(Span(prog[k + 1]), start - Rx(Begin(k)))]

\* One instruction moved: the new words, and those that were there.
LEMMA EmitWords ==
  ASSUME CopyInv, i < count, NEW ins, NEW n \in Nat, NEW words, NEW w \in Nat, NEW start,
         NEW refs, WordsOf(words, w), Emit(ins, n, words, start, refs)
  PROVE  /\ \A m \in 0 .. n - 1 : code'[outp + m + 1] = Nop
         /\ Writes(n, words, w)
         /\ \A p \in 0 .. outp - 1 :
              (\A m \in DOMAIN fmap[i] : fmap[i][m].at # p) => code'[p + 1] = code[p + 1]
         /\ \A k \in Indices : Owes(k, i) /\ Waits(k) => Completes(k, start)
<1>1. Bounds /\ Placed /\ outp \in Nat /\ i \in Indices
  BY CopyTypes DEF CopyInv
<1>2. PICK d : d = Put(n, words)
  OBVIOUS
<1>3. code' = ProcessFixMap(d, start)
  BY <1>2, Zenon DEF Emit
<1>4. /\ DOMAIN d = 1 .. outp + n + w
      /\ \A k \in 1 .. outp : d[k] = code[k]
      /\ \A k \in 1 .. n : d[outp + k] = Nop
      /\ \A k \in 1 .. w : d[outp + n + k] = words[k]
  <2>1. Bounds /\ Placed
    BY <1>1
  <2>2. n \in Nat /\ w \in Nat /\ WordsOf(words, w) /\ d = Put(n, words)
    BY <1>2
  <2>3. Joins(d, n, words, w)
    BY <2>1, <2>2, PutIs, Zenon
  <2> QED BY <2>3, Zenon DEF Joins
<1>5. \A m \in DOMAIN fmap[i] : fmap[i][m].at \in Nat /\ fmap[i][m].at < outp
  BY <1>1, EntryIs, OwesNear
<1>6. \A p \in 0 .. outp + n + w - 1 :
        (\A m \in DOMAIN fmap[i] : fmap[i][m].at # p) => code'[p + 1] = d[p + 1]
  <2> SUFFICES ASSUME NEW p \in 0 .. outp + n + w - 1,
                      \A m \in DOMAIN fmap[i] : fmap[i][m].at # p
               PROVE  code'[p + 1] = d[p + 1]
    OBVIOUS
  <2>1. p + 1 \in DOMAIN d /\ (p + 1) - 1 = p
    <3>1. p + 1 \in 1 .. outp + n + w /\ (p + 1) - 1 = p
      BY <1>1
    <3> QED BY <1>4, <3>1, Zenon
  <2> QED BY <1>3, <2>1, FixedIs
<1>7. \A m \in 0 .. n - 1 : code'[outp + m + 1] = Nop
  <2> SUFFICES ASSUME NEW m \in 0 .. n - 1 PROVE code'[outp + m + 1] = Nop
    OBVIOUS
  <2>1. outp + m \in 0 .. outp + n + w - 1 /\ m + 1 \in 1 .. n /\ outp + m >= outp
    BY <1>1
  <2>2. d[outp + (m + 1)] = Nop
    BY <1>4, <2>1
  <2>3. code'[outp + m + 1] = d[outp + m + 1]
    BY <1>1, <1>5, <1>6, <2>1, SMTT(20)
  <2>4. outp + (m + 1) = outp + m + 1
    BY <1>1
  <2> QED BY <2>2, <2>3, <2>4
<1>8. Writes(n, words, w)
  <2> SUFFICES ASSUME NEW m \in 1 .. w PROVE code'[outp + n + m] = words[m]
    BY DEF Writes
  <2>1. PICK p \in 0 .. outp + n + w - 1 : p = outp + n + m - 1
    BY <1>1
  <2>2. p >= outp /\ p + 1 = outp + n + m
    BY <1>1, <2>1
  <2>3. code'[p + 1] = d[p + 1]
    BY <1>1, <1>5, <1>6, <2>2
  <2> QED BY <1>4, <2>2, <2>3
<1>9. \A p \in 0 .. outp - 1 :
        (\A m \in DOMAIN fmap[i] : fmap[i][m].at # p) => code'[p + 1] = code[p + 1]
  <2> SUFFICES ASSUME NEW p \in 0 .. outp - 1, \A m \in DOMAIN fmap[i] : fmap[i][m].at # p
               PROVE  code'[p + 1] = code[p + 1]
    OBVIOUS
  <2>1. p \in 0 .. outp + n + w - 1 /\ p + 1 \in 1 .. outp
    BY <1>1
  <2> QED BY <1>4, <1>6, <2>1
<1>10. ASSUME NEW k \in Indices, Owes(k, i), Waits(k)
       PROVE  Completes(k, start)
  <2>1. PICK b \in Nat : b = Begin(k) /\ b < outp /\ b < Begin(k + 1) /\ k < i /\ k < count
    BY <1>10, OwesNear
  <2>2. b + 1 \in DOMAIN d /\ (b + 1) - 1 = b /\ d[b + 1] = code[b + 1]
    BY <1>1, <1>4, <2>1
  <2>3. PICK m \in DOMAIN fmap[i] :
          fmap[i][m].at = b
          /\ code'[b + 1] = [d[b + 1] EXCEPT !.off = Signed(fmap[i][m].span, start - Rx(b))]
    BY <1>3, <1>10, <2>1, <2>2, FixedIs DEF Waits
  <2>4. PICK j \in Indices : Owes(j, i) /\ b = Begin(j) /\ fmap[i][m].span = Span(prog[j + 1])
    BY <1>1, <2>3, EntryIs
  <2>5. b \in Nat /\ Begin(k) <= b /\ b < Begin(k + 1)
    BY <2>1
  <2>6. j = k
    BY <2>1, <2>4, <2>5, Owner
  <2> QED BY <2>1, <2>2, <2>3, <2>4, <2>6 DEF Completes
<1> QED BY <1>7, <1>8, <1>9, <1>10

-----------------------------------------------------------------------------
\* What fits a field is kept, and the fields reach across the words moved.
LEMMA SignedIs ==
  ASSUME NEW span \in Nat, NEW n \in Int, -(span \div 2) <= n, n < span \div 2
  PROVE  Signed(span, n) = n
<1>1. PICK h \in Nat : h = span \div 2 /\ 2 * h <= span
  OBVIOUS
<1>2. PICK m \in Nat : m = n + h /\ m < span
  BY <1>1
<1>3. m % span = m
  BY <1>2
<1> QED BY <1>1, <1>2, <1>3 DEF Signed, Unsigned

LEMMA Reaching ==
  ASSUME FieldsReach, NEW ins \in Instructions, ins.op \in Relative
  PROVE  /\ Span(ins) \in Nat /\ Span(ins) \div 2 >= 32
         /\ ins.op \in {"b", "bl", "adr"} => Span(ins) \div 2 >= 50
<1>1. /\ BranchSpan \in Nat /\ CondSpan \in Nat /\ TestSpan \in Nat /\ AdrSpan \in Nat
  BY RelocateAssumption
<1>2. /\ CondSpan >= 64 /\ TestSpan >= 64 /\ BranchSpan >= 100 /\ AdrSpan >= 400
  BY DEF FieldsReach, TrampolineSize, MaxInstructions
<1>3. CASE ins.op \in {"b", "bl"}
  BY <1>1, <1>2, <1>3 DEF Span
<1>4. CASE ins.op \in {"cond", "test"}
  BY <1>1, <1>2, <1>4 DEF Span, CondField
<1>5. CASE ins.op = "adr"
  <2>1. Span(ins) = AdrSpan \div 4
    BY <1>5 DEF Span
  <2>2. PICK a : a = AdrSpan \div 4
    OBVIOUS
  <2>3. a \in Nat /\ a >= 100
    BY <1>1, <1>2, <2>2
  <2> QED BY <2>1, <2>2, <2>3
<1> QED BY <1>3, <1>4, <1>5 DEF Relative

LEMMA NearIsExact ==
  ASSUME NEW span \in Nat, NEW d \in Int, ~(Abs(d) >= Reach(span))
  PROVE  Signed(span, d) = d
<1>1. -(span \div 2) <= d /\ d < span \div 2
  BY DEF Abs, Reach
<1> QED BY <1>1, SignedIs

LEMMA AdrIsExact ==
  ASSUME FieldsReach, NEW d \in Int, NEW lo \in 0 .. 3, ~(Abs(4 * d + lo) >= Reach(AdrSpan))
  PROVE  Signed(AdrSpan \div 4, d) = d
<1>1. AdrSpan \in Nat /\ AdrSpan % 8 = 0
  BY RelocateAssumption DEF FieldsReach
<1>2. PICK h \in Nat : AdrSpan = 8 * h
  BY <1>1
<1>3. AdrSpan \div 2 = 4 * h /\ AdrSpan \div 4 = 2 * h
  BY <1>2
<1>4. (2 * h) \div 2 = h
  OBVIOUS
<1>5. -(4 * h) < 4 * d + lo /\ 4 * d + lo < 4 * h - 1
  BY <1>3 DEF Abs, Reach
<1>6. -h <= d /\ d < h
  BY <1>5
<1>7. 2 * h \in Nat /\ -((2 * h) \div 2) <= d /\ d < (2 * h) \div 2
  BY <1>4, <1>6
<1> QED BY <1>3, <1>7, SignedIs

LEMMA AimTypes ==
  ASSUME NEW a \in Int, NEW ins \in Instructions
  PROVE  /\ AimFrom(a, ins) \in Int
         /\ ins.op \notin {"b", "bl"} => AimFrom(a, ins) >= a
<1>1. ins.off \in Int
  BY DEF Instructions
<1>2. {CondSpan, TestSpan, WrapWords} \subseteq Nat \ {0}
  BY RelocateAssumption
<1>3. PICK f \in Nat \ {0} : f = CondField(ins)
  BY <1>2 DEF CondField
<1>4. ins.off % f \in Nat /\ ins.off % WrapWords \in Nat
  BY <1>1, <1>2, <1>3
<1> QED BY <1>1, <1>3, <1>4 DEF AimFrom, Unsigned, ZeroExtended

-----------------------------------------------------------------------------
\* What one instruction moved leaves of the state.
Advances(ins, n, w, start, refs) ==
  /\ site' = site /\ count' = count /\ i' = i + 1 /\ outp' = outp + n + w
  /\ begins' \in Seq(Nat) /\ Len(begins') = i + 1
  /\ prog' \in Seq(Instructions) /\ Len(prog') = i + 1
  /\ \A k \in 0 .. i : Begin(k)' = Begin(k)
  /\ \A k : k = i + 1 => Begin(k)' = outp + n + w
  /\ \A k \in 0 .. i - 1 : prog'[k + 1] = prog[k + 1]
  /\ prog'[i + 1] = ins
  /\ dat' \in [Indices -> Int]
  /\ \A k \in Indices : dat'[k] = IF k = i THEN start ELSE dat[k]
  /\ \A k \in Indices : fmap'[k] = IF k = i THEN <<>> ELSE refs[k]

LEMMA EmitState ==
  ASSUME CopyInv, i < count, NEW ins \in site.mix, NEW n \in Nat, NEW words, NEW w \in Nat,
         NEW start \in Int, NEW refs, WordsOf(words, w), refs \in [Indices -> Seq(Fixes)],
         Emit(ins, n, words, start, refs)
  PROVE  Advances(ins, n, w, start, refs)
<1>1. /\ i \in Nat /\ outp \in Nat /\ i \in Indices /\ i <= count /\ Begin(i) = outp
      /\ begins \in Seq(Nat) /\ Len(begins) = i
      /\ prog \in Seq(Instructions) /\ Len(prog) = i /\ dat \in [Indices -> Int]
      /\ site \in Sites
  BY CopyTypes DEF CopyInv, Copies, Trace
<1>2. ins \in Instructions
  BY <1>1, RelocateAssumption
<1>3. Len(words) = w
  BY Zenon DEF WordsOf
<1>4. /\ site' = site /\ count' = count /\ i' = i + 1 /\ outp' = outp + n + w
      /\ begins' = Append(begins, outp) /\ prog' = Append(prog, ins)
      /\ dat' = [dat EXCEPT ![i] = start] /\ fmap' = [refs EXCEPT ![i] = <<>>]
  BY <1>3, Zenon DEF Emit, Clear
<1>5. /\ begins' \in Seq(Nat) /\ Len(begins') = i + 1
      /\ \A k \in 1 .. i : begins'[k] = begins[k]
      /\ begins'[i + 1] = outp
  <2>1. begins \in Seq(Nat) /\ outp \in Nat /\ begins' = Append(begins, outp)
    BY <1>1, <1>4
  <2> QED BY <1>1, <2>1, AppendProperties
<1>6. /\ prog' \in Seq(Instructions) /\ Len(prog') = i + 1
      /\ \A k \in 1 .. i : prog'[k] = prog[k]
      /\ prog'[i + 1] = ins
  BY <1>1, <1>2, <1>4, AppendProperties
<1>7. \A k \in 0 .. i : Begin(k)' = Begin(k)
  <2> SUFFICES ASSUME NEW k \in 0 .. i PROVE Begin(k)' = Begin(k)
    OBVIOUS
  <2>1. CASE k < i
    <3>1. k + 1 \in 1 .. i /\ k < i + 1
      BY <1>1, <2>1
    <3> QED BY <1>1, <1>5, <2>1, <3>1 DEF Begin
  <2>2. CASE k = i
    <3>1. Begin(k)' = begins'[i + 1]
      BY <1>1, <1>5, <2>2 DEF Begin
    <3> QED BY <1>1, <1>5, <2>2, <3>1
  <2> QED BY <1>1, <2>1, <2>2
<1>8. ASSUME NEW k, k = i + 1 PROVE Begin(k)' = outp + n + w
  <2>1. ~(k < Len(begins'))
    BY <1>1, <1>5, <1>8
  <2>2. Begin(k)' = outp'
    BY <2>1, Zenon DEF Begin
  <2> QED BY <1>4, <2>2
<1>9. \A k \in 0 .. i - 1 : prog'[k + 1] = prog[k + 1]
  <2> SUFFICES ASSUME NEW k \in 0 .. i - 1 PROVE prog'[k + 1] = prog[k + 1]
    OBVIOUS
  <2>1. k + 1 \in 1 .. i
    BY <1>1
  <2> QED BY <1>6, <2>1
<1>10. dat' \in [Indices -> Int] /\ \A k \in Indices : dat'[k] = IF k = i THEN start ELSE dat[k]
  BY <1>1, <1>4
<1>11. \A k \in Indices : fmap'[k] = IF k = i THEN <<>> ELSE refs[k]
  BY <1>1, <1>4
<1> QED BY <1>4, <1>5, <1>6, <1>7, <1>8, <1>9, <1>10, <1>11, Zenon DEF Advances

LEMMA EmitTrace ==
  ASSUME CopyInv, i < count, NEW ins \in site.mix, NEW n \in Nat, NEW words, NEW w \in Nat,
         NEW start \in Int, NEW refs, WordsOf(words, w), refs \in [Indices -> Seq(Fixes)],
         n + w <= Largest, Emit(ins, n, words, start, refs)
  PROVE  Trace'
<1>1. /\ site' = site /\ count' = count /\ i' = i + 1 /\ outp' = outp + n + w
      /\ begins' \in Seq(Nat) /\ Len(begins') = i + 1
      /\ prog' \in Seq(Instructions) /\ Len(prog') = i + 1
      /\ \A k \in 0 .. i : Begin(k)' = Begin(k)
      /\ \A k : k = i + 1 => Begin(k)' = outp + n + w
      /\ \A k \in 0 .. i - 1 : prog'[k + 1] = prog[k + 1]
      /\ prog'[i + 1] = ins
      /\ dat' \in [Indices -> Int]
  <2>1. Advances(ins, n, w, start, refs)
    BY EmitState, Zenon
  <2> QED BY <2>1, Zenon DEF Advances
<1>2. /\ i \in Nat /\ outp \in Nat /\ count \in Nat /\ Begin(i) = outp
      /\ Len(prog) = i /\ \A k \in 1 .. Len(prog) : prog[k] \in site.mix
      /\ \A j, k \in 0 .. count : j <= k /\ k <= i =>
           Begin(j) <= Begin(k) /\ Begin(k) - Begin(j) <= 9 * (k - j)
      /\ \A k \in 0 .. count : k <= i => Begin(k) \in Nat /\ Begin(k) <= outp
  <2>1. i \in Nat /\ outp \in Nat /\ count \in Nat /\ i <= count /\ Begin(i) = outp
    BY CopyTypes
  <2>2. Trace
    BY DEF CopyInv, Copies
  <2>3. Len(prog) = i /\ \A k \in 1 .. Len(prog) : prog[k] \in site.mix
    BY <2>1, <2>2, Zenon DEF Trace
  <2>4. /\ \A j, k \in 0 .. count : j <= k /\ k <= i =>
             Begin(j) <= Begin(k) /\ Begin(k) - Begin(j) <= 9 * (k - j)
        /\ \A k \in 0 .. count : k <= i => Begin(k) \in Nat /\ Begin(k) <= outp
    BY <2>2, Zenon DEF Trace, Largest
  <2> QED BY <2>1, <2>3, <2>4, Zenon
<1>3. Len(prog') = IF i' <= count' THEN i' ELSE count'
  BY <1>1, <1>2
<1>4. \A k \in 1 .. Len(prog') : prog'[k] \in site'.mix
  <2> SUFFICES ASSUME NEW k \in 1 .. Len(prog') PROVE prog'[k] \in site'.mix
    OBVIOUS
  <2>1. CASE k = i + 1
    BY <1>1, <2>1
  <2>2. CASE k # i + 1
    <3>1. k - 1 \in 0 .. i - 1 /\ (k - 1) + 1 = k /\ k \in 1 .. Len(prog)
      BY <1>1, <1>2, <2>2
    <3>2. prog'[(k - 1) + 1] = prog[(k - 1) + 1]
      BY <1>1, <3>1, Zenon
    <3> QED BY <1>1, <1>2, <3>1, <3>2
  <2> QED BY <2>1, <2>2
<1>5. \A k \in 0 .. count : k <= i + 1 => Begin(k)' \in Nat /\ Begin(k)' <= outp'
  <2> SUFFICES ASSUME NEW k \in 0 .. count, k <= i + 1
               PROVE  Begin(k)' \in Nat /\ Begin(k)' <= outp'
    OBVIOUS
  <2>1. CASE k = i + 1
    BY <1>1, <1>2, <2>1
  <2>2. CASE k <= i
    <3>1. Begin(k)' = Begin(k) /\ Begin(k) \in Nat /\ Begin(k) <= outp
      BY <1>1, <1>2, <2>2, SMTT(20)
    <3> QED BY <1>1, <1>2, <3>1
  <2> QED BY <1>2, <2>1, <2>2
<1>6. \A j, k \in 0 .. count : j <= k /\ k <= i + 1 =>
        Begin(j)' <= Begin(k)' /\ Begin(k)' - Begin(j)' <= 9 * (k - j)
  <2> SUFFICES ASSUME NEW j \in 0 .. count, NEW k \in 0 .. count, j <= k, k <= i + 1
               PROVE  Begin(j)' <= Begin(k)' /\ Begin(k)' - Begin(j)' <= 9 * (k - j)
    OBVIOUS
  <2>1. CASE k <= i
    <3>1. Begin(k)' = Begin(k) /\ Begin(j)' = Begin(j)
      BY <1>1, <1>2, <2>1, SMTT(20)
    <3>2. Begin(j) <= Begin(k) /\ Begin(k) - Begin(j) <= 9 * (k - j)
      BY <1>2, <2>1
    <3> QED BY <3>1, <3>2, Zenon
  <2>2. CASE k = i + 1 /\ j <= i
    <3>1. Begin(j)' = Begin(j) /\ Begin(k)' = outp + n + w
      BY <1>1, <2>2
    <3>2. i \in 0 .. count /\ Begin(j) \in Nat /\ Begin(j) <= outp /\ outp - Begin(j) <= 9 * (i - j)
      BY <1>2, <2>2
    <3>3. n + w <= 9 /\ n + w >= 0
      BY DEF Largest
    <3>4. PICK x \in Nat : x = Begin(j) /\ x <= outp /\ outp - x <= 9 * (i - j)
      BY <3>2
    <3>5. PICK y \in Nat : y = outp + n + w /\ y <= outp + 9 /\ y >= outp
      BY <1>2, <3>3
    <3>6. k - j = (i - j) + 1 /\ i - j \in Nat /\ outp \in Nat
      BY <1>2, <2>2
    <3>7. x <= y /\ y - x <= 9 * (k - j)
      <4>1. PICK g \in Nat, o \in Nat : g = i - j /\ k - j = g + 1 /\ o = outp
        BY <3>6
      <4>2. x <= o /\ o - x <= 9 * g
        BY <3>4, <4>1
      <4>3. o <= y /\ y <= o + 9
        BY <3>5, <4>1
      <4>4. x <= y /\ y - x <= 9 * (g + 1)
        BY <4>2, <4>3
      <4> QED BY <4>1, <4>4, Zenon
    <3> QED BY <3>1, <3>4, <3>5, <3>7, Zenon
  <2>3. CASE k = i + 1 /\ j = i + 1
    <3>1. Begin(j)' = outp + n + w /\ Begin(k)' = outp + n + w
      BY <1>1, <1>2, <2>3
    <3> QED BY <1>2, <2>3, <3>1
  <2> QED BY <1>2, <2>1, <2>2, <2>3
<1> QED BY <1>1, <1>3, <1>4, <1>5, <1>6 DEF Trace, Largest

-----------------------------------------------------------------------------
\* What was copied stays as it is, or is completed.
LEMMA Extent ==
  ASSUME NEW k, NEW ins, NEW t, NEW b \in Nat, NEW e, NEW n \in 0 .. 3,
         Near(ins, t, b, e, n) \/ Fixed(k, ins, t, b, e, n)
  PROVE  e \in Nat /\ b + n <= e
<1>1. Aligned(ins.reg) \in {1, 2, 4}
  BY DEF Aligned, Width
<1>2. CASE Near(ins, t, b, e, n)
  BY <1>2 DEF Near
<1>3. CASE LoadWithData(ins, t, b, e, n)
  BY <1>1, <1>3 DEF LoadWithData
<1>4. CASE Fixed(k, ins, t, b, e, n) /\ ~LoadWithData(ins, t, b, e, n)
  BY <1>4 DEF Fixed, FarBranch, FarCall, FarCond, Dropped, NearLoad, FarAddress, FarPage,
              LiteralAddress, NearPage, Same
<1> QED BY <1>2, <1>3, <1>4

LEMMA JumpStays ==
  ASSUME NEW p \in Nat, NEW t, \A q \in p .. p + 2 : Of(q)' = Of(q), JumpAt(p, t)
  PROVE  JumpAt(p, t)'
<1>1. p \in p .. p + 2 /\ p + 1 \in p .. p + 2 /\ p + 2 \in p .. p + 2
  OBVIOUS
<1>2. Of(p)' = Of(p) /\ Of(p + 1)' = Of(p + 1) /\ Of(p + 2)' = Of(p + 2)
  BY <1>1
<1> QED BY <1>2 DEF JumpAt

LEMMA FixedStays ==
  ASSUME site' = site, count' = count,
         NEW k, NEW ins, NEW t, NEW b \in Nat, NEW e \in Nat, NEW n \in 0 .. 3,
         \A q \in b .. e - 1 : Of(q)' = Of(q), Fixed(k, ins, t, b, e, n)
  PROVE  Fixed(k, ins, t, b, e, n)'
<1>1. /\ InFixingRange(t)' <=> InFixingRange(t)
      /\ Away(t, b, e)' <=> Away(t, b, e)
      /\ From(k)' = From(k)
      /\ \A q : Rx(q)' = Rx(q)
  BY DEF InFixingRange, Away, From, Rx
<1>2. PICK p \in Nat : p = b + n
  OBVIOUS
<1>3. CASE FarBranch(ins, t, b, e, n)
  <2>1. e = p + 4 /\ JumpAt(p, t)
    BY <1>2, <1>3 DEF FarBranch
  <2>2. \A q \in p .. p + 2 : q \in b .. e - 1
    BY <1>2, <2>1
  <2>3. JumpAt(p, t)'
    BY <2>1, <2>2, JumpStays
  <2>4. FarBranch(ins, t, b, e, n)'
    BY <1>1, <1>2, <1>3, <2>3 DEF FarBranch
  <2> QED BY <2>4 DEF Fixed
<1>4. CASE FarCall(ins, t, b, e, n)
  <2>1. e = p + 5
    BY <1>2, <1>4 DEF FarCall
  <2>2. /\ Of(p)' = Of(p) /\ Of(p + 1)' = Of(p + 1) /\ Of(p + 2)' = Of(p + 2)
        /\ Of(p + 3)' = Of(p + 3)
    BY <1>2, <2>1
  <2>3. FarCall(ins, t, b, e, n)'
    BY <1>1, <1>2, <1>4, <2>2 DEF FarCall
  <2> QED BY <2>3 DEF Fixed
<1>5. CASE FarCond(ins, t, b, e, n)
  <2>1. e = p + 6 /\ JumpAt(p + 2, t)
    BY <1>2, <1>5 DEF FarCond
  <2>2. Of(p)' = Of(p) /\ Of(p + 1)' = Of(p + 1)
    BY <1>2, <2>1
  <2>3. \A q \in p + 2 .. (p + 2) + 2 : q \in b .. e - 1
    BY <1>2, <2>1
  <2>4. JumpAt(p + 2, t)'
    BY <2>1, <2>3, JumpStays
  <2>5. FarCond(ins, t, b, e, n)'
    BY <1>1, <1>2, <1>5, <2>2, <2>4 DEF FarCond
  <2> QED BY <2>5 DEF Fixed
<1>6. CASE Dropped(ins, b, e, n)
  BY <1>6 DEF Dropped, Fixed
<1>7. CASE LoadWithData(ins, t, b, e, n)
  <2>1. PICK al \in {1, 2, 4} : al = Aligned(ins.reg)
    BY DEF Aligned, Width
  <2>2. e = p + 2 + al
    BY <1>2, <1>7, <2>1 DEF LoadWithData
  <2>3. /\ Of(p)' = Of(p) /\ Of(p + 1)' = Of(p + 1)
        /\ \A m \in 0 .. al - 1 : Of(p + 2 + m)' = Of(p + 2 + m)
    BY <1>2, <2>1, <2>2
  <2>4. LoadWithData(ins, t, b, e, n)'
    BY <1>2, <1>7, <2>1, <2>3 DEF LoadWithData
  <2> QED BY <2>4 DEF Fixed
<1>8. CASE NearLoad(ins, t, b, e, n)
  <2>1. e = p + 1 /\ Of(p)' = Of(p)
    BY <1>2, <1>8 DEF NearLoad
  <2>2. NearLoad(ins, t, b, e, n)'
    BY <1>1, <1>2, <1>8, <2>1 DEF NearLoad
  <2> QED BY <2>2 DEF Fixed
<1>9. ASSUME NEW bytes, LiteralAddress(bytes, b, e, n)
      PROVE  LiteralAddress(bytes, b, e, n)'
  <2>1. e = p + 4
    BY <1>2, <1>9 DEF LiteralAddress
  <2>2. Of(p)' = Of(p) /\ Of(p + 1)' = Of(p + 1) /\ Of(p + 2)' = Of(p + 2)
    BY <1>2, <2>1
  <2> QED BY <1>2, <1>9, <2>2 DEF LiteralAddress
<1>10. CASE FarAddress(ins, t, b, e, n)
  <2>1. FarAddress(ins, t, b, e, n)'
    BY <1>1, <1>9, <1>10 DEF FarAddress
  <2> QED BY <2>1 DEF Fixed
<1>11. CASE FarPage(k, ins, b, e, n)
  <2>1. PICK bytes : bytes = 4 * (Page(From(k)) + ZeroExtended(ins.off * PageWords))
    OBVIOUS
  <2>2. bytes = (4 * (Page(From(k)) + ZeroExtended(ins.off * PageWords)))'
    BY <1>1, <2>1
  <2>3. LiteralAddress(bytes, b, e, n)'
    BY <1>9, <1>11, <2>1 DEF FarPage
  <2>4. FarPage(k, ins, b, e, n)'
    BY <1>11, <2>2, <2>3 DEF FarPage
  <2> QED BY <2>4 DEF Fixed
<1>12. CASE NearPage(ins, b, e, n)
  <2>1. Of(b)' = Of(b)
    BY <1>12 DEF NearPage
  <2>2. NearPage(ins, b, e, n)'
    BY <1>12, <2>1 DEF NearPage
  <2> QED BY <2>2 DEF Fixed
<1>13. CASE Same(k, ins, b, e, n)
  <2>1. Of(b)' = Of(b)
    BY <1>13 DEF Same
  <2>2. Same(k, ins, b, e, n)'
    BY <1>1, <1>13, <2>1 DEF Same
  <2> QED BY <2>2 DEF Fixed
<1> QED BY <1>3, <1>4, <1>5, <1>6, <1>7, <1>8, <1>10, <1>11, <1>12, <1>13 DEF Fixed

\* The new address of an instruction is one of its NOPs or the word behind them,
\* and a new reference is that of the instruction being moved.
Starts(ins, n, start) ==
  \/ ins.op = "adrp" /\ start = Rw(outp)
  \/ \E m \in 0 .. n : start = Rx(outp + m)
Refers(ins, t, refs) ==
  \/ refs = fmap
  \/ /\ ins.op \in Relative /\ InFixingRange(t)
     /\ \E r \in Indices :
          /\ r > i /\ Ref(t) = r
          /\ refs = [fmap EXCEPT ![r] = Append(fmap[r], [at |-> outp, span |-> Span(ins)])]
Moves(ins, n, words, w, start, refs) ==
  /\ i < count /\ ins \in site.mix /\ n \in 0 .. 3 /\ w \in Nat /\ n + w <= Largest
  /\ WordsOf(words, w) /\ start \in Int /\ Starts(ins, n, start)
  /\ refs \in [Indices -> Seq(Fixes)] /\ Refers(ins, AimFrom(From(i), ins), refs)
  /\ Emit(ins, n, words, start, refs)

LEMMA MovesState ==
  ASSUME CopyInv, NEW ins, NEW n, NEW words, NEW w, NEW start, NEW refs,
         Moves(ins, n, words, w, start, refs)
  PROVE  Advances(ins, n, w, start, refs) /\ Trace'
<1>1. /\ i < count /\ ins \in site.mix /\ n \in Nat /\ w \in Nat /\ n + w <= Largest
      /\ WordsOf(words, w) /\ start \in Int
      /\ refs \in [Indices -> Seq(Fixes)] /\ Emit(ins, n, words, start, refs)
  BY DEF Moves
<1> QED BY <1>1, EmitState, EmitTrace, Zenon

LEMMA PlaceStays ==
  ASSUME CopyInv, NEW ins0, NEW n, NEW words, NEW w, NEW start, NEW refs,
         Moves(ins0, n, words, w, start, refs),
         NEW k \in Indices, k < i, NEW ins, NEW t, NEW b, NEW e, Place(k, ins, t, b, e)
  PROVE  Place(k, ins, t, b, e)'
<1>1. Advances(ins0, n, w, start, refs) /\ i \in Nat
  BY MovesState, CopyTypes
<1>2. k \in 0 .. i /\ k + 1 \in 0 .. i /\ k \in 0 .. i - 1
  BY <1>1 DEF Indices
<1>3. PICK j : j = k + 1
  OBVIOUS
<1>4. Begin(k)' = Begin(k) /\ Begin(j)' = Begin(j) /\ prog'[k + 1] = prog[k + 1] /\ site' = site
  BY <1>1, <1>2, <1>3, Zenon DEF Advances
<1>5. From(k)' = From(k)
  BY <1>4 DEF From
<1> QED BY <1>3, <1>4, <1>5 DEF Place

LEMMA AliasedStays ==
  ASSUME CopyInv, NEW ins, NEW n, NEW words, NEW w, NEW start, NEW refs,
         Moves(ins, n, words, w, start, refs), NEW k \in Indices, k < i
  PROVE  (Aliased(k)' <=> Aliased(k)) /\ dat'[k] = dat[k]
<1>1. Advances(ins, n, w, start, refs) /\ i \in Nat
  BY MovesState, CopyTypes
<1>2. k \in 0 .. i /\ k \in 0 .. i - 1 /\ k # i
  BY <1>1 DEF Indices
<1>3. Begin(k)' = Begin(k) /\ prog'[k + 1] = prog[k + 1] /\ site' = site /\ dat'[k] = dat[k]
  BY <1>1, <1>2 DEF Advances
<1> QED BY <1>3 DEF Aliased, Rw

\* The words of a copy are changed by the fix map of instruction i alone.
LEMMA WordsStay ==
  ASSUME CopyInv, NEW ins0, NEW n0, NEW words, NEW w, NEW start, NEW refs,
         Moves(ins0, n0, words, w, start, refs),
         NEW k \in Indices, k < i, NEW b \in Nat, NEW e \in Nat, b = Begin(k), e = Begin(k + 1),
         ~Owes(k, i)
  PROVE  \A q \in b .. e - 1 : Of(q)' = Of(q)
<1>1. /\ i < count /\ n0 \in Nat /\ w \in Nat /\ WordsOf(words, w)
      /\ Emit(ins0, n0, words, start, refs)
  BY DEF Moves
<1>2. /\ i \in Nat /\ i \in Indices /\ count \in Nat /\ outp \in Nat /\ k < count
      /\ Begin(k + 1) <= outp
  <2>1. /\ k + 1 \in 0 .. count /\ k + 1 <= i
        /\ i \in Nat /\ i \in Indices /\ count \in Nat /\ outp \in Nat /\ k < count
    BY <1>1, CopyTypes DEF Indices
  <2>2. Begin(k + 1) <= outp
    BY <2>1 DEF CopyInv, Copies, Trace
  <2> QED BY <2>1, <2>2
<1> SUFFICES ASSUME NEW q \in b .. e - 1 PROVE Of(q)' = Of(q)
  OBVIOUS
<1>3. \A m \in DOMAIN fmap[i] : fmap[i][m].at # q
  <2> SUFFICES ASSUME NEW m \in DOMAIN fmap[i], fmap[i][m].at = q PROVE FALSE
    OBVIOUS
  <2>1. PICK j \in Indices : Owes(j, i) /\ Begin(j) = q
    BY <1>2, EntryIs
  <2>2. q \in Nat /\ Begin(k) <= q /\ q < Begin(k + 1)
    OBVIOUS
  <2>3. j = k
    BY <1>2, <2>1, <2>2, Owner
  <2> QED BY <2>1, <2>3
<1>4. q \in 0 .. outp - 1
  BY <1>2
<1>5. code'[q + 1] = code[q + 1]
  BY <1>1, <1>3, <1>4, EmitWords
<1> QED BY <1>5 DEF Of

\* An offset between two words of the copies.
LEMMA Apart ==
  ASSUME CopyInv, NEW k \in Indices, NEW r \in 0 .. count, k < r, r <= i, Begin(k + 1) = Begin(k) + 1
  PROVE  Begin(r) - Begin(k) \in 1 .. 1 + Largest * 3 \/ r = 5
<1>1. /\ k + 1 \in 0 .. count /\ k + 1 <= r /\ k + 1 <= i /\ k \in 0 .. count /\ k <= i
      /\ k \in Nat /\ count \in 1 .. 5
  BY CopyTypes DEF Indices
<1>2. /\ Begin(k) \in Nat /\ Begin(r) \in Nat
      /\ Begin(k + 1) <= Begin(r) /\ Begin(r) - Begin(k + 1) <= 9 * (r - (k + 1))
  BY <1>1 DEF CopyInv, Copies, Trace, Largest
<1>3. PICK x \in Nat, y \in Nat : x = Begin(k) /\ y = Begin(r)
  BY <1>2
<1>4. x + 1 <= y /\ y - (x + 1) <= 9 * (r - (k + 1))
  BY <1>2, <1>3
<1>5. r # 5 => y - x <= 28
  BY <1>1, <1>4
<1> QED BY <1>3, <1>4, <1>5 DEF Largest

LEMMA SignedTypes ==
  ASSUME NEW span \in Nat \ {0}, NEW n \in Int
  PROVE  Signed(span, n) \in Int
<1>1. PICK h \in Nat : h = span \div 2
  OBVIOUS
<1>2. (n + h) % span \in Int
  OBVIOUS
<1> QED BY <1>1, <1>2 DEF Signed, Unsigned

\* The word that waited for instruction i now has its offset.
LEMMA Completed ==
  ASSUME CopyInv, FieldsReach,
         NEW ins0, NEW n0, NEW words, NEW w, NEW start, NEW refs,
         Moves(ins0, n0, words, w, start, refs),
         NEW k \in Indices, k < i, NEW ins, NEW t, NEW b, NEW e, Place(k, ins, t, b, e),
         Near(ins, t, b, e, 0), Owes(k, i)
  PROVE  Near(ins, t, b, e, 0)'
<1>1. /\ i < count /\ n0 \in 0 .. 3 /\ n0 \in Nat /\ w \in Nat /\ WordsOf(words, w)
      /\ Emit(ins0, n0, words, start, refs) /\ Starts(ins0, n0, start) /\ start \in Int
  BY DEF Moves
<1>2. /\ i \in Nat /\ i \in Indices /\ i \in 0 .. count /\ i # 5 /\ outp \in Nat /\ Begin(i) = outp
      /\ site.out \in Nat /\ site \in Sites /\ k < count
  BY <1>1, CopyTypes DEF Indices
<1>3. b = Begin(k) /\ ins = prog[k + 1] /\ Begin(k) \in Nat /\ Begin(k + 1) = Begin(k) + 1
  BY OwesNear DEF Place
<1>4. ins.op \in Relative /\ InFixingRange(t) /\ Ref(t) = i
  BY <1>3 DEF Owes, Place
<1>5. ins \in Instructions
  <2>1. k + 1 \in 1 .. Len(prog)
    BY <1>2, CopyTypes DEF CopyInv, Copies, Trace, Indices
  <2> QED BY <1>3, <2>1, ElementOfSeq DEF CopyInv, Copies, Trace
<1>6. \E m \in DOMAIN fmap[i] : fmap[i][m].at = b
  BY <1>2, <1>4 DEF Near, Aimed
<1>7. code'[b + 1] = [code[b + 1] EXCEPT !.off = Signed(Span(ins), start - Rx(b))]
  <2>1. Waits(k)
    BY <1>3, <1>6 DEF Waits
  <2>2. Completes(k, start)
    BY <1>1, <2>1, EmitWords
  <2> QED BY <1>3, <2>2, Zenon DEF Completes
<1>8. Span(ins) \in Nat /\ Span(ins) \div 2 >= 32
  BY <1>5, <1>4, Reaching
<1>9. start - Rx(b) \in Int
  BY <1>1, <1>2, <1>3 DEF Rx
<1>10. PICK off \in Int : off = Signed(Span(ins), start - Rx(b))
  <2>1. Span(ins) \in Nat \ {0}
    BY <1>8
  <2> QED BY <1>9, <2>1, SignedTypes
<1>11. Advances(ins0, n0, w, start, refs)
  BY MovesState
<1>12. site' = site /\ count' = count /\ i' = i + 1 /\ dat'[i] = start /\ prog'[i + 1] = ins0
       /\ (\A r : r = i => Begin(r)' = outp)
  BY <1>2, <1>11 DEF Advances
<1>13. InFixingRange(t)' /\ Ref(t)' = i
  BY <1>4, <1>12 DEF InFixingRange, Ref
<1>14. Of(b)' = Word(ins.op, off,
                     IF ins.op # "adr" THEN 0
                     ELSE [lo |-> ins.lo, rd |-> IF InFixingRange(t) THEN 0 ELSE 8 * ins.lo])
  BY <1>7, <1>10 DEF Near, Of, Word
<1>15. PICK r \in Indices : r = i
  BY <1>2
<1>16. CASE ins0.op = "adrp" /\ start = Rw(outp)
  <2>1. Aliased(r)'
    BY <1>12, <1>15, <1>16 DEF Aliased, Rw
  <2>2. Aimed(b, t)'
    BY <1>2, <1>12, <1>13, <1>15, <2>1 DEF Aimed
  <2> QED BY <1>4, <1>13, <1>14, <2>2 DEF Near, Word
<1>17. CASE \E m \in 0 .. n0 : start = Rx(outp + m)
  <2>1. PICK m \in 0 .. 3 : start = Rx(outp + m)
    BY <1>1, <1>17
  <2>2. Begin(i) - Begin(k) \in 1 .. 28
    BY <1>2, <1>3, Apart DEF Largest
  <2>3. start - Rx(b) = (outp - b) + m /\ outp - b \in 1 .. 28
    BY <1>2, <1>3, <2>1, <2>2 DEF Rx
  <2>4. start - Rx(b) \in 1 .. 31
    BY <2>3
  <2>5. off = start - Rx(b)
    <3>1. PICK d \in Int : d = start - Rx(b) /\ d \in 1 .. 31
      BY <2>4
    <3>2. PICK span \in Nat : span = Span(ins) /\ span \div 2 >= 32
      BY <1>8
    <3>3. -(span \div 2) <= d /\ d < span \div 2
      BY <3>1, <3>2
    <3> QED BY <1>10, <3>1, <3>2, <3>3, SignedIs
  <2>6. Of(b)'.off = dat'[r] - Rx(b)'
    BY <1>12, <1>14, <1>15, <2>5 DEF Word, Rx
  <2>7. Aimed(b, t)'
    BY <1>2, <1>12, <1>13, <1>15, <2>6 DEF Aimed
  <2> QED BY <1>4, <1>13, <1>14, <2>7 DEF Near, Word
<1> QED BY <1>1, <1>16, <1>17 DEF Starts

\* What waits for a later instruction is still in its fix map.
LEMMA ReferencesStay ==
  ASSUME CopyInv, NEW ins, NEW n, NEW words, NEW w, NEW start, NEW refs,
         Moves(ins, n, words, w, start, refs), NEW r \in Indices, r # i, NEW m \in DOMAIN fmap[r]
  PROVE  m \in DOMAIN fmap'[r] /\ fmap'[r][m] = fmap[r][m]
<1>1. fmap'[r] = refs[r]
  BY MovesState DEF Advances
<1>2. fmap[r] \in Seq(Fixes) /\ fmap \in [Indices -> Seq(Fixes)]
  BY DEF CopyInv, Bounds, Waiting
<1>3. CASE refs = fmap
  BY <1>1, <1>3
<1>4. CASE refs # fmap
  <2>1. PICK q \in Indices : refs = [fmap EXCEPT ![q] = Append(fmap[q], [at |-> outp, span |-> Span(ins)])]
    BY <1>4 DEF Moves, Refers
  <2>2. CASE r # q
    BY <1>1, <1>2, <2>1, <2>2
  <2>3. CASE r = q
    <3>1. fmap'[r] = Append(fmap[r], [at |-> outp, span |-> Span(ins)])
      BY <1>1, <1>2, <2>1, <2>3
    <3>2. PICK s \in Seq(Fixes) : s = fmap[r]
      BY <1>2
    <3>3. PICK f : f = [at |-> outp, span |-> Span(ins)]
      OBVIOUS
    <3>4. m \in 1 .. Len(s) /\ Len(s) \in Nat
      BY <3>2
    <3>5. PICK S : s \in Seq(S) /\ f \in S
      <4>1. s \in Seq(Fixes \cup {f}) /\ f \in Fixes \cup {f}
        OBVIOUS
      <4> QED BY <4>1, Zenon
    <3>6. DOMAIN Append(s, f) = 1 .. Len(s) + 1 /\ \A q0 \in 1 .. Len(s) : Append(s, f)[q0] = s[q0]
      BY <3>5, AppendProperties
    <3> QED BY <3>1, <3>2, <3>3, <3>4, <3>6
  <2> QED BY <2>2, <2>3
<1> QED BY <1>3, <1>4

LEMMA NearStays ==
  ASSUME CopyInv, FieldsReach,
         NEW ins0, NEW n0, NEW words, NEW w, NEW start, NEW refs,
         Moves(ins0, n0, words, w, start, refs),
         NEW k \in Indices, k < i, NEW ins, NEW t, NEW b \in Nat, NEW e, Place(k, ins, t, b, e),
         Near(ins, t, b, e, 0)
  PROVE  Near(ins, t, b, e, 0)'
<1>1. CASE Owes(k, i)
  BY <1>1, Completed
<1>2. CASE ~Owes(k, i)
  <2>1. /\ i \in Nat /\ i \in Indices /\ i < count /\ k < count /\ count \in Nat /\ k \in Nat
    <3>1. i < count
      BY Zenon DEF Moves
    <3>2. i \in Nat /\ i \in Indices /\ count \in Nat
      BY <3>1, CopyTypes
    <3> QED BY <3>1, <3>2 DEF Indices
  <2>2. b = Begin(k) /\ e = Begin(k + 1) /\ e = b + 1 /\ e \in Nat
    BY DEF Place, Near
  <2>3. Of(b)' = Of(b)
    <3>1. \A q \in b .. e - 1 : Of(q)' = Of(q)
      BY <1>2, <2>2, WordsStay
    <3> QED BY <2>2, <3>1
  <2>4. Advances(ins0, n0, w, start, refs)
    BY MovesState
  <2>5. site' = site /\ count' = count /\ i' = i + 1
    BY <2>4 DEF Advances
  <2>6. /\ InFixingRange(t)' <=> InFixingRange(t)
        /\ Ref(t)' = Ref(t) /\ Rx(b)' = Rx(b)
    BY <2>5 DEF InFixingRange, Ref, Rx
  <2>7. Aimed(b, t)'
    <3>1. CASE ~InFixingRange(t)
      BY <2>3, <2>6, <3>1 DEF Near, Aimed
    <3>2. CASE InFixingRange(t)
      <4>1. PICK r \in Indices :
              /\ r = Ref(t)
              /\ IF r < i THEN Aliased(r) \/ Of(b).off = dat[r] - Rx(b)
                 ELSE \E m \in DOMAIN fmap[r] : fmap[r][m].at = b
        BY <3>2 DEF Near, Aimed
      <4>2. r # i
        <5>1. ASSUME r = i PROVE Owes(k, i)
          BY <2>1, <3>2, <4>1, <5>1 DEF Owes, Near
        <5> QED BY <1>2, <5>1
      <4>3. CASE r < i
        <5>1. (Aliased(r)' <=> Aliased(r)) /\ dat'[r] = dat[r]
          BY <4>3, AliasedStays
        <5>2. r < i'
          BY <2>1, <2>5, <4>1, <4>3 DEF Indices
        <5>3. Aliased(r)' \/ Of(b)'.off = dat'[r] - Rx(b)'
          BY <2>3, <2>6, <4>1, <4>3, <5>1
        <5> QED BY <2>6, <3>2, <4>1, <5>2, <5>3 DEF Aimed
      <4>4. CASE ~(r < i)
        <5>1. PICK m \in DOMAIN fmap[r] : fmap[r][m].at = b
          BY <4>1, <4>4
        <5>2. m \in DOMAIN fmap'[r] /\ fmap'[r][m].at = b
          BY <4>2, <5>1, ReferencesStay
        <5>3. ~(r < i')
          BY <2>1, <2>5, <4>2, <4>4 DEF Indices
        <5> QED BY <2>6, <3>2, <4>1, <5>2, <5>3 DEF Aimed
      <4> QED BY <4>3, <4>4
    <3> QED BY <3>1, <3>2
  <2> QED BY <2>3, <2>6, <2>7 DEF Near
<1> QED BY <1>1, <1>2

LEMMA CopiedStays ==
  ASSUME CopyInv, FieldsReach,
         NEW ins0, NEW n0, NEW words, NEW w, NEW start, NEW refs,
         Moves(ins0, n0, words, w, start, refs),
         NEW k \in Indices, k < i, k < count
  PROVE  Copied(k)'
<1>1. PICK n \in 0 .. 3 : \E ins, t, b, e :
        /\ Place(k, ins, t, b, e)
        /\ Nops(b, n) /\ Noted(k, b, n)
        /\ Near(ins, t, b, e, n) \/ Fixed(k, ins, t, b, e, n)
  BY DEF CopyInv, Copies, Copied
<1>2. PICK ins, t, b, e :
        /\ Place(k, ins, t, b, e)
        /\ Nops(b, n) /\ Noted(k, b, n)
        /\ Near(ins, t, b, e, n) \/ Fixed(k, ins, t, b, e, n)
  BY <1>1
<1>3. i \in Nat /\ i \in Indices /\ count \in Nat /\ k \in 0 .. count /\ k <= i
  <2>1. i < count
    BY Zenon DEF Moves
  <2>2. i \in Nat /\ i \in Indices /\ count \in Nat
    BY <2>1, CopyTypes
  <2> QED BY <2>1, <2>2 DEF Indices
<1>4. b \in Nat /\ b = Begin(k) /\ e = Begin(k + 1)
  BY <1>2, <1>3 DEF CopyInv, Copies, Trace, Place
<1>5. e \in Nat /\ b + n <= e
  BY <1>2, <1>4, Extent
<1>6. Advances(ins0, n0, w, start, refs)
  BY MovesState
<1>7. site' = site /\ count' = count
  BY <1>6 DEF Advances
<1>8. Place(k, ins, t, b, e)'
  BY <1>2, PlaceStays
<1>9. Noted(k, b, n)'
  <2>1. (Aliased(k)' <=> Aliased(k)) /\ dat'[k] = dat[k]
    BY AliasedStays
  <2>2. \A q : Rx(q)' = Rx(q)
    BY <1>7 DEF Rx
  <2> QED BY <1>2, <2>1, <2>2 DEF Noted
<1>10. CASE Near(ins, t, b, e, n)
  <2>1. n = 0
    BY <1>10 DEF Near
  <2>2. Near(ins, t, b, e, n)'
    BY <1>2, <1>4, <1>10, <2>1, NearStays
  <2>3. Nops(b, n)'
    BY <2>1 DEF Nops
  <2> QED BY <1>8, <1>9, <2>2, <2>3 DEF Copied
<1>11. CASE Fixed(k, ins, t, b, e, n)
  <2>1. ~Owes(k, i)
    <3> SUFFICES ASSUME Owes(k, i) PROVE FALSE
      OBVIOUS
    <3>1. ins.op \in Relative /\ InFixingRange(t)
      BY <1>2 DEF Owes, Place
    <3> QED BY <1>11, <3>1, OnlyNear
  <2>2. \A q \in b .. e - 1 : Of(q)' = Of(q)
    BY <1>4, <1>5, <2>1, WordsStay
  <2>3. Fixed(k, ins, t, b, e, n)'
    BY <1>4, <1>5, <1>7, <1>11, <2>2, FixedStays
  <2>4. Nops(b, n)'
    <3>1. \A m \in 0 .. n - 1 : b + m \in b .. e - 1
      BY <1>4, <1>5
    <3>2. \A m \in 0 .. n - 1 : Of(b + m)' = Of(b + m)
      BY <2>2, <3>1
    <3> QED BY <1>2, <3>2 DEF Nops
  <2> QED BY <1>8, <1>9, <2>3, <2>4 DEF Copied
<1> QED BY <1>2, <1>10, <1>11

\* An instruction still waits, unless it waited for the one that is moved.
LEMMA OwesStays ==
  ASSUME CopyInv, NEW ins0, NEW n, NEW words, NEW w, NEW start, NEW refs,
         Moves(ins0, n, words, w, start, refs),
         NEW k \in Indices, NEW r, Owes(k, r)
  PROVE  Owes(k, r)'
<1>1. /\ i \in Nat /\ k \in Nat /\ k < i /\ k < count /\ r > k
  BY CopyTypes DEF Owes, Indices
<1>2. PICK ins, t, b, e :
        Place(k, ins, t, b, e) /\ ins.op \in Relative /\ InFixingRange(t) /\ Ref(t) = r
  BY DEF Owes
<1>3. Place(k, ins, t, b, e)'
  BY <1>1, <1>2, PlaceStays
<1>4. Advances(ins0, n, w, start, refs)
  BY MovesState
<1>5. site' = site /\ count' = count /\ i' = i + 1
  BY <1>4 DEF Advances
<1>6. InFixingRange(t)' /\ Ref(t)' = r
  BY <1>2, <1>5 DEF InFixingRange, Ref
<1> QED BY <1>1, <1>2, <1>3, <1>5, <1>6 DEF Owes

LEMMA EntriesStay ==
  ASSUME CopyInv, NEW ins, NEW n, NEW words, NEW w, NEW start, NEW refs,
         Moves(ins, n, words, w, start, refs)
  PROVE  Entries'
<1>1. Advances(ins, n, w, start, refs)
  BY MovesState
<1>2. /\ i \in Nat /\ i \in Indices /\ i < count /\ count \in Nat /\ outp = Begin(i)
      /\ fmap \in [Indices -> Seq(Fixes)]
  BY CopyTypes DEF Moves, CopyInv, Bounds, Waiting
<1>3. /\ site' = site /\ count' = count /\ i' = i + 1
      /\ \A k \in 0 .. i : Begin(k)' = Begin(k)
      /\ \A k \in 0 .. i - 1 : prog'[k + 1] = prog[k + 1]
      /\ prog'[i + 1] = ins
      /\ \A k \in Indices : fmap'[k] = IF k = i THEN <<>> ELSE refs[k]
  BY <1>1 DEF Advances
<1> SUFFICES ASSUME NEW r \in Indices, NEW m \in DOMAIN fmap'[r]
             PROVE  \E k \in Indices : Owes(k, r)' /\ Entry(k, fmap[r][m])'
  BY DEF Entries
<1>4. r # i /\ fmap'[r] = refs[r]
  <2>1. r = i => DOMAIN fmap'[r] = {}
    BY <1>3
  <2> QED BY <1>3, <2>1
<1>5. ASSUME NEW q \in DOMAIN fmap[r], fmap'[r][m] = fmap[r][q]
      PROVE  \E k \in Indices : Owes(k, r)' /\ Entry(k, fmap[r][m])'
  <2>1. PICK k \in Indices : Owes(k, r) /\ Entry(k, fmap[r][q])
    BY DEF CopyInv, Copies, Entries
  <2>2. Owes(k, r)'
    BY <2>1, OwesStays
  <2>3. k \in 0 .. i - 1 /\ k \in 0 .. i
    BY <1>2, <2>1 DEF Owes, Indices
  <2>4. Begin(k)' = Begin(k) /\ prog'[k + 1] = prog[k + 1]
    BY <1>3, <2>3
  <2>5. Entry(k, fmap[r][m])'
    BY <1>5, <2>1, <2>4 DEF Entry
  <2> QED BY <2>2, <2>5
<1>6. CASE refs = fmap
  BY <1>4, <1>5, <1>6
<1>7. CASE refs # fmap
  <2>0. PICK t : t = AimFrom(From(i), ins)
    OBVIOUS
  <2>1. PICK q \in Indices :
          /\ ins.op \in Relative /\ InFixingRange(t)
          /\ q > i /\ Ref(t) = q
          /\ refs = [fmap EXCEPT ![q] = Append(fmap[q], [at |-> outp, span |-> Span(ins)])]
    BY <1>7, <2>0 DEF Moves, Refers
  <2>2. CASE r # q
    BY <1>2, <1>4, <1>5, <2>1, <2>2
  <2>3. CASE r = q
    <3>1. PICK s \in Seq(Fixes) : s = fmap[r]
      BY <1>2
    <3>2. PICK f : f = [at |-> outp, span |-> Span(ins)]
      OBVIOUS
    <3>3. fmap'[r] = Append(s, f)
      BY <1>2, <1>4, <2>1, <2>3, <3>1, <3>2
    <3>4. /\ DOMAIN Append(s, f) = 1 .. Len(s) + 1 /\ Len(s) \in Nat
          /\ \A q0 \in 1 .. Len(s) : Append(s, f)[q0] = s[q0]
          /\ Append(s, f)[Len(s) + 1] = f
      <4>1. s \in Seq(Fixes \cup {f}) /\ f \in Fixes \cup {f}
        OBVIOUS
      <4> QED BY <4>1, AppendProperties
    <3>5. CASE m \in 1 .. Len(s)
      BY <1>5, <3>1, <3>3, <3>4, <3>5
    <3>6. CASE m = Len(s) + 1
      <4>1. PICK k \in Indices : k = i
        BY <1>2
      <4>2. PICK b, e, j : b = outp /\ e = Begin(j)' /\ j = k + 1
        OBVIOUS
      <4>3. Begin(k)' = b /\ prog'[k + 1] = ins /\ From(k)' = From(k)
        BY <1>2, <1>3, <4>1, <4>2 DEF From
      <4>4. Place(k, ins, t, b, e)'
        BY <1>3, <2>0, <4>1, <4>2, <4>3 DEF Place
      <4>5. InFixingRange(t)' /\ Ref(t)' = r
        BY <1>3, <2>1, <2>3 DEF InFixingRange, Ref
      <4>6. Owes(k, r)'
        BY <1>2, <1>3, <2>1, <2>3, <4>1, <4>4, <4>5 DEF Owes
      <4>7. Entry(k, fmap[r][m])'
        BY <3>2, <3>3, <3>4, <3>6, <4>2, <4>3 DEF Entry
      <4> QED BY <4>6, <4>7
    <3> QED BY <3>3, <3>4, <3>5, <3>6
  <2> QED BY <2>2, <2>3
<1> QED BY <1>6, <1>7

-----------------------------------------------------------------------------
\* The copy of the instruction that is moved.
Lies(words, w, p) == \A m \in 0 .. w - 1 : Of(p + m)' = words[m + 1]

LEMMA Laid ==
  ASSUME CopyInv, NEW ins, NEW n, NEW words, NEW w, NEW start, NEW refs,
         Moves(ins, n, words, w, start, refs), NEW p \in Nat, p = outp + n
  PROVE  Lies(words, w, p)
<1>1. /\ i < count /\ n \in Nat /\ w \in Nat /\ WordsOf(words, w)
      /\ Emit(ins, n, words, start, refs)
  BY DEF Moves
<1>2. \A m \in 1 .. w : code'[outp + n + m] = words[m]
  <2>1. Writes(n, words, w)
    BY <1>1, EmitWords
  <2> QED BY <2>1, Zenon DEF Writes
<1> SUFFICES ASSUME NEW m \in 0 .. w - 1 PROVE Of(p + m)' = words[m + 1]
  BY DEF Lies
<1>3. PICK q : q = m + 1
  OBVIOUS
<1>4. q \in 1 .. w /\ p + m + 1 = outp + n + q
  BY <1>1, <1>3, CopyTypes
<1>5. code'[p + m + 1] = words[q]
  BY <1>2, <1>4
<1> QED BY <1>3, <1>5 DEF Of

LEMMA NewCopied ==
  ASSUME CopyInv, NEW ins, NEW n, NEW words, NEW w, NEW start, NEW refs,
         Moves(ins, n, words, w, start, refs),
         NEW k \in Indices, k = i, NEW t, NEW b \in Nat, NEW e \in Nat,
         t = AimFrom(From(k), ins), b = outp, e = b + n + w,
         Near(ins, t, b, e, n)' \/ Fixed(k, ins, t, b, e, n)'
  PROVE  Copied(k)'
<1>1. /\ i < count /\ n \in 0 .. 3 /\ n \in Nat /\ w \in Nat /\ WordsOf(words, w)
      /\ Emit(ins, n, words, start, refs) /\ Starts(ins, n, start)
  BY DEF Moves
<1>2. Advances(ins, n, w, start, refs) /\ i \in Nat /\ outp \in Nat
  BY MovesState, CopyTypes
<1>3. PICK j : j = k + 1
  OBVIOUS
<1>4. /\ Begin(k)' = Begin(k) /\ Begin(j)' = e /\ prog'[k + 1] = ins /\ site' = site
      /\ dat'[k] = start
  BY <1>2, <1>3 DEF Advances
<1>5. Begin(k) = b
  BY <1>1, CopyTypes
<1>6. Place(k, ins, t, b, e)'
  BY <1>3, <1>4, <1>5 DEF Place, From
<1>7. Nops(b, n)'
  <2>1. \A m \in 0 .. n - 1 : code'[outp + m + 1] = Nop
    BY <1>1, EmitWords
  <2> QED BY <2>1 DEF Nops, Of
<1>8. Noted(k, b, n)'
  BY <1>1, <1>4, <1>5 DEF Noted, Starts, Aliased, Rx, Rw
<1> QED BY <1>1, <1>6, <1>7, <1>8, Zenon DEF Copied

LEMMA MovesCopies ==
  ASSUME CopyInv, FieldsReach, NEW ins, NEW n, NEW words, NEW w, NEW start, NEW refs,
         Moves(ins, n, words, w, start, refs), NEW k0 \in Indices, k0 = i, Copied(k0)'
  PROVE  Copies'
<1>1. Trace' /\ Entries' /\ Advances(ins, n, w, start, refs)
  BY MovesState, EntriesStay
<1>2. i' = i + 1 /\ count' = count /\ i \in Nat /\ count \in Nat
  <2>1. i \in Nat /\ count \in Nat
    BY CopyTypes
  <2> QED BY <1>1, <2>1, Zenon DEF Advances
<1>3. ASSUME NEW k \in Indices, k < i', k < count' PROVE Copied(k)'
  <2>1. CASE k = i
    BY <2>1
  <2>2. CASE k < i
    BY <1>2, <1>3, <2>2, CopiedStays
  <2> QED BY <1>2, <1>3, <2>1, <2>2 DEF Indices
<1> QED BY <1>1, <1>3 DEF Copies

\* Copies that no fix map changes.
LEMMA MovesFixed ==
  ASSUME CopyInv, i < count, NEW ins \in site.mix, NEW n \in 0 .. 3, NEW words, NEW w \in Nat,
         NEW m \in 0 .. n, WordsOf(words, w), n + w <= Largest,
         Emit(ins, n, words, Rx(outp + m), fmap)
  PROVE  Moves(ins, n, words, w, Rx(outp + m), fmap)
<1>1. Starts(ins, n, Rx(outp + m))
  BY DEF Starts
<1>2. Rx(outp + m) \in Int
  BY CopyTypes DEF Rx
<1>3. fmap \in [Indices -> Seq(Fixes)]
  BY DEF CopyInv, Bounds, Waiting
<1>4. Refers(ins, AimFrom(From(i), ins), fmap)
  BY Zenon DEF Refers
<1> QED BY <1>1, <1>2, <1>3, <1>4, Zenon DEF Moves

LEMMA FixedCopies ==
  ASSUME CopyInv, FieldsReach, NEW ins, NEW n, NEW words, NEW w, NEW start, NEW refs,
         Moves(ins, n, words, w, start, refs),
         NEW t, NEW b \in Nat, NEW e \in Nat,
         t = AimFrom(From(i), ins), b = outp, e = b + n + w,
         \A k : k = i => Fixed(k, ins, t, b, e, n)'
  PROVE  Copies'
<1>1. PICK k \in Indices : k = i
  BY CopyTypes DEF Moves
<1>2. Fixed(k, ins, t, b, e, n)'
  BY <1>1
<1>3. t = AimFrom(From(k), ins)
  BY <1>1
<1>4. Copied(k)'
  BY <1>1, <1>2, <1>3, NewCopied
<1> QED BY <1>1, <1>4, MovesCopies

\* What the sequences are made of.
Has(s, k, x) == s[k] = x

LEMMA JoinedFront ==
  ASSUME NEW s, NEW t, NEW u, NEW m \in Nat, NEW n \in Nat, Joined(s, m, t, n, u),
         NEW k \in 1 .. m
  PROVE  Has(u, k, s[k])
<1>1. k \in 1 .. m + n /\ k <= m
  OBVIOUS
<1> QED BY <1>1, Zenon DEF Joined, Has

LEMMA JoinedBack ==
  ASSUME NEW s, NEW t, NEW u, NEW m \in Nat, NEW n \in Nat, Joined(s, m, t, n, u),
         NEW k \in 1 .. n, NEW j, j = m + k
  PROVE  Has(u, j, t[k])
<1>1. j \in 1 .. m + n /\ ~(j <= m) /\ j - m = k
  OBVIOUS
<1>2. u[j] = t[j - m]
  BY <1>1, Zenon DEF Joined
<1> QED BY <1>1, <1>2 DEF Has

Four(s, a, b, x) == s[1] = a /\ s[2] = b /\ s[3] = Word("lit", 0, x)
LEMMA FourAre ==
  ASSUME NEW a, NEW b, NEW x, NEW s, s = <<a, b>> \o Address(x)
  PROVE  Four(s, a, b, x)
<1>1. PICK u, v : u = <<a, b>> /\ v = Address(x)
  OBVIOUS
<1>2. WordsOf(u, 2) /\ WordsOf(v, 2) /\ 2 \in Nat
  BY <1>1, WordsTuple, WordsAddress, Zenon
<1>3. Joined(u, 2, v, 2, s)
  BY <1>1, <1>2, ConcatIs, Zenon
<1>4. s[1] = u[1] /\ s[2] = u[2] /\ s[3] = v[1]
  <2>1. Has(s, 1, u[1])
    BY <1>2, <1>3, 1 \in 1 .. 2, JoinedFront, Zenon
  <2>2. Has(s, 2, u[2])
    BY <1>2, <1>3, 2 \in 1 .. 2, JoinedFront, Zenon
  <2>3. Has(s, 3, v[1])
    BY <1>2, <1>3, 1 \in 1 .. 2, 3 = 2 + 1, JoinedBack, Zenon
  <2> QED BY <2>1, <2>2, <2>3 DEF Has
<1>5. u[1] = a /\ u[2] = b /\ v[1] = Word("lit", 0, x)
  BY <1>1 DEF Address
<1> QED BY <1>4, <1>5 DEF Four

Five(s, a, b, c, x) == s[1] = a /\ s[2] = b /\ s[3] = c /\ s[4] = Word("lit", 0, x)
LEMMA CallAre ==
  ASSUME NEW a, NEW b, NEW c, NEW x, NEW s, s = <<a, b, c>> \o Address(x)
  PROVE  Five(s, a, b, c, x)
<1>1. PICK u, v : u = <<a, b, c>> /\ v = Address(x)
  OBVIOUS
<1>2. WordsOf(u, 3) /\ WordsOf(v, 2) /\ 2 \in Nat /\ 3 \in Nat
  BY <1>1, WordsTuple, WordsAddress, Zenon
<1>3. Joined(u, 3, v, 2, s)
  BY <1>1, <1>2, ConcatIs, Zenon
<1>4. s[1] = u[1] /\ s[2] = u[2] /\ s[3] = u[3] /\ s[4] = v[1]
  <2>1. Has(s, 1, u[1])
    BY <1>2, <1>3, 1 \in 1 .. 3, JoinedFront, Zenon
  <2>2. Has(s, 2, u[2])
    BY <1>2, <1>3, 2 \in 1 .. 3, JoinedFront, Zenon
  <2>3. Has(s, 3, u[3])
    BY <1>2, <1>3, 3 \in 1 .. 3, JoinedFront, Zenon
  <2>4. Has(s, 4, v[1])
    BY <1>2, <1>3, 1 \in 1 .. 2, 4 = 3 + 1, JoinedBack, Zenon
  <2> QED BY <2>1, <2>2, <2>3, <2>4 DEF Has
<1>5. u[1] = a /\ u[2] = b /\ u[3] = c /\ v[1] = Word("lit", 0, x)
  BY <1>1 DEF Address
<1> QED BY <1>4, <1>5 DEF Five

Six(s, a, b, t) ==
  /\ s[1] = a /\ s[2] = b
  /\ s[3] = LdrX17(2) /\ s[4] = BrX17 /\ s[5] = Word("lit", 0, 4 * t)
LEMMA CondAre ==
  ASSUME NEW a, NEW b, NEW t, NEW s, s = <<a, b>> \o AbsoluteJump(t)
  PROVE  Six(s, a, b, t)
<1>1. PICK u, v : u = <<a, b>> /\ v = AbsoluteJump(t)
  OBVIOUS
<1>2. WordsOf(u, 2) /\ WordsOf(v, 4) /\ 2 \in Nat /\ 4 \in Nat
  BY <1>1, WordsTuple, WordsJump, Zenon
<1>3. Joined(u, 2, v, 4, s)
  BY <1>1, <1>2, ConcatIs, Zenon
<1>4. s[1] = u[1] /\ s[2] = u[2] /\ s[3] = v[1] /\ s[4] = v[2] /\ s[5] = v[3]
  <2>1. Has(s, 1, u[1])
    BY <1>2, <1>3, 1 \in 1 .. 2, JoinedFront, Zenon
  <2>2. Has(s, 2, u[2])
    BY <1>2, <1>3, 2 \in 1 .. 2, JoinedFront, Zenon
  <2>3. Has(s, 3, v[1])
    BY <1>2, <1>3, 1 \in 1 .. 4, 3 = 2 + 1, JoinedBack, Zenon
  <2>4. Has(s, 4, v[2])
    BY <1>2, <1>3, 2 \in 1 .. 4, 4 = 2 + 2, JoinedBack, Zenon
  <2>5. Has(s, 5, v[3])
    BY <1>2, <1>3, 3 \in 1 .. 4, 5 = 2 + 3, JoinedBack, Zenon
  <2> QED BY <2>1, <2>2, <2>3, <2>4, <2>5 DEF Has
<1>5. u[1] = a /\ u[2] = b
  BY <1>1
<1>6. v[1] = LdrX17(2) /\ v[2] = BrX17 /\ v[3] = Word("lit", 0, 4 * t)
  <2>1. v = <<LdrX17(2), BrX17>> \o Address(4 * t)
    BY <1>1, Zenon DEF AbsoluteJump
  <2>2. PICK x : x = 4 * t
    OBVIOUS
  <2>3. v = <<LdrX17(2), BrX17>> \o Address(x)
    BY <2>1, <2>2
  <2>4. Four(v, LdrX17(2), BrX17, x)
    BY <2>3, FourAre, Zenon
  <2> QED BY <2>2, <2>4 DEF Four
<1> QED BY <1>4, <1>5, <1>6 DEF Six

Behind(s, a, b, t, al) ==
  s[1] = a /\ s[2] = b /\ \A m \in 0 .. al - 1 : s[m + 3] = Word("data", 0, t + m)
LEMMA CopiedAre ==
  ASSUME NEW a, NEW b, NEW t \in Int, NEW al \in Nat, NEW s, s = <<a, b>> \o Data(t, al)
  PROVE  Behind(s, a, b, t, al)
<1>1. PICK u, v : u = <<a, b>> /\ v = Data(t, al)
  OBVIOUS
<1>2. WordsOf(u, 2) /\ WordsOf(v, al) /\ 2 \in Nat
  BY <1>1, WordsTuple, WordsData, Zenon
<1>3. Joined(u, 2, v, al, s)
  BY <1>1, <1>2, ConcatIs, Zenon
<1>4. s[1] = u[1] /\ s[2] = u[2] /\ \A m \in 0 .. al - 1 : s[m + 3] = v[m + 1]
  <2>1. 1 \in 1 .. 2 /\ 2 \in 1 .. 2
    OBVIOUS
  <2>2. ASSUME NEW m \in 0 .. al - 1 PROVE s[m + 3] = v[m + 1]
    <3>1. m + 1 \in 1 .. al /\ m + 3 = 2 + (m + 1)
      OBVIOUS
    <3>2. PICK k : k = m + 1 /\ k \in 1 .. al
      BY <3>1
    <3>4. PICK j : j = m + 3 /\ j = 2 + k
      BY <3>1, <3>2
    <3>3. Has(s, j, v[k])
      BY <1>2, <1>3, <3>2, <3>4, JoinedBack, Zenon
    <3> QED BY <3>2, <3>4, <3>3 DEF Has
  <2>3. Has(s, 1, u[1])
    BY <1>2, <1>3, <2>1, JoinedFront, Zenon
  <2>4. Has(s, 2, u[2])
    BY <1>2, <1>3, <2>1, JoinedFront, Zenon
  <2> QED BY <2>2, <2>3, <2>4 DEF Has
<1>5. u[1] = a /\ u[2] = b
  BY <1>1
<1>6. \A m \in 0 .. al - 1 : v[m + 1] = Word("data", 0, t + m)
  BY <1>1 DEF Data
<1> QED BY <1>4, <1>5, <1>6 DEF Behind

-----------------------------------------------------------------------------
\* One lemma for each function of the code.

\* What a step is at: the next instruction, of the function's mix.
LEMMA MovedTypes ==
  ASSUME CopyInv, NEW ins \in site.mix, i < count
  PROVE  /\ ins \in Instructions /\ ins.off \in Int /\ ins.op \in Ops /\ ins.lo \in 0 .. 3
         /\ Here = From(i) /\ Here \in Nat /\ Rx(outp) \in Nat /\ outp \in Nat
         /\ site.out \in Nat /\ i \in Indices /\ count \in 1 .. 5 /\ i \in 0 .. 4
<1>1. /\ site \in Sites /\ site.in \in Nat /\ site.out \in Nat /\ i \in Nat /\ count \in 1 .. 5
      /\ outp \in Nat /\ i \in Indices
  BY CopyTypes
<1>2. ins \in Instructions
  BY <1>1, RelocateAssumption
<1>3. ins.off \in Int /\ ins.op \in Ops /\ ins.lo \in 0 .. 3
  BY <1>2 DEF Instructions
<1>4. Here = From(i) /\ Here \in Nat /\ Rx(outp) \in Nat /\ i \in 0 .. 4
  BY <1>1 DEF Here, From, Rx
<1> QED BY <1>1, <1>2, <1>3, <1>4

\* A target out of reach is not in the copy.
LEMMA FarAway ==
  ASSUME CopyInv, NEW t \in Int, NEW span \in Nat, Abs(t - Rx(outp)) >= Reach(span),
         span \div 2 >= 32, NEW b \in Nat, NEW e \in Nat, b = outp, e <= b + 9
  PROVE  Away(t, b, e)
<1>1. PICK h \in Nat : h = span \div 2 /\ h >= 32
  OBVIOUS
<1>2. Reach(span) >= 31
  BY <1>1 DEF Reach
<1>3. PICK x \in Nat : x = Rx(outp) /\ Rx(b) = x /\ Rx(e) <= x + 9 /\ Rx(e) \in Nat
  BY CopyTypes DEF Rx
<1>4. PICK r \in Int : r = Reach(span) /\ r >= 31
  BY <1>1, <1>2 DEF Reach
<1>5. Abs(t - x) >= r
  BY <1>3, <1>4
<1>6. t < x \/ t >= x + 9
  BY <1>4, <1>5 DEF Abs
<1> QED BY <1>3, <1>6 DEF Away

\* Unchanged: the function, its place and how many instructions are moved.
LEMMA SamePlace ==
  ASSUME CopyInv, NEW ins, NEW n, NEW words, NEW w, NEW start, NEW refs,
         Moves(ins, n, words, w, start, refs)
  PROVE  /\ site' = site /\ count' = count
         /\ \A t : InFixingRange(t)' <=> InFixingRange(t)
         /\ \A t, b, e : Away(t, b, e)' <=> Away(t, b, e)
         /\ \A k : From(k)' = From(k)
         /\ \A q : Rx(q)' = Rx(q)
<1>1. site' = site /\ count' = count
  BY MovesState DEF Advances
<1> QED BY <1>1 DEF InFixingRange, Away, From, Rx

LEMMA BranchCopies ==
  ASSUME CopyInv, FieldsReach, NEW ins \in site.mix, BranchAbsolute(ins)
  PROVE  Copies'
<1>1. ins.op = "b" /\ i < count
  BY DEF BranchAbsolute, Moving
<1>2. /\ ins \in Instructions /\ ins.off \in Int
      /\ Here = From(i) /\ Here \in Nat /\ outp \in Nat /\ site.out \in Nat
  BY <1>1, MovedTypes
<1>3. PICK t \in Int : t = Here + ins.off
  BY <1>2
<1>4. PICK n \in 0 .. 1 : n = Pad(Misaligned(outp + 2, 2))
  BY PadTypes
<1>5. PICK words : words = AbsoluteJump(t)
  OBVIOUS
<1>6. TooFar(t, BranchSpan) /\ Emit(ins, n, words, Rx(outp + n), fmap)
  BY <1>3, <1>4, <1>5, Zenon DEF BranchAbsolute
<1>7. WordsOf(words, 4) /\ 4 \in Nat /\ n + 4 <= Largest /\ n \in 0 .. 3 /\ n \in 0 .. n
  BY <1>5, WordsJump DEF Largest
<1>8. Moves(ins, n, words, 4, Rx(outp + n), fmap)
  BY <1>1, <1>6, <1>7, MovesFixed
<1>9. PICK b \in Nat, p \in Nat, e \in Nat : b = outp /\ p = outp + n /\ e = b + n + 4
  BY <1>2
<1>10. Of(p)' = words[1] /\ Of(p + 1)' = words[2] /\ Of(p + 2)' = words[3]
  <2>1. Lies(words, 4, p)
    BY <1>8, <1>9, Laid
  <2> QED BY <2>1, <1>9 DEF Lies
<1>11. Four(words, LdrX17(2), BrX17, 4 * t)
  BY <1>5, FourAre, Zenon DEF AbsoluteJump
<1>12. JumpAt(p, t)'
  BY <1>10, <1>11 DEF Four, JumpAt
<1>13. ~InFixingRange(t) /\ Away(t, b, e)
  <2>1. ~InFixingRange(t) /\ Abs(t - Rx(outp)) >= Reach(BranchSpan)
    BY <1>6 DEF TooFar
  <2>2. BranchSpan \in Nat /\ BranchSpan \div 2 >= 32
    BY <1>1, <1>2, Reaching DEF Span, Relative
  <2>3. e <= b + 9
    BY <1>9
  <2> QED BY <1>9, <2>1, <2>2, <2>3, FarAway
<1>14. ~InFixingRange(t)' /\ Away(t, b, e)'
  BY <1>8, <1>13, SamePlace
<1>15. FarBranch(ins, t, b, e, n)'
  BY <1>1, <1>9, <1>12, <1>14 DEF FarBranch
<1>16. \A k : k = i => Fixed(k, ins, t, b, e, n)'
  BY <1>15 DEF Fixed
<1>17. t = AimFrom(From(i), ins)
  BY <1>1, <1>2, <1>3 DEF AimFrom
<1> QED BY <1>8, <1>9, <1>16, <1>17, FixedCopies

LEMMA CallCopies ==
  ASSUME CopyInv, FieldsReach, NEW ins \in site.mix, CallAbsolute(ins)
  PROVE  Copies'
<1>1. ins.op = "bl" /\ i < count
  BY DEF CallAbsolute, Moving
<1>2. /\ ins \in Instructions /\ ins.off \in Int
      /\ Here = From(i) /\ Here \in Nat /\ outp \in Nat /\ site.out \in Nat
  BY <1>1, MovedTypes
<1>3. PICK t \in Int : t = Here + ins.off
  BY <1>2
<1>4. PICK n \in 0 .. 1 : n = Pad(~Misaligned(outp + 2, 2))
  BY PadTypes
<1>5. PICK words : words = <<LdrX17(3), Word("adr30", 4, 0), BrX17>> \o Address(4 * t)
  OBVIOUS
<1>6. TooFar(t, BranchSpan) /\ Emit(ins, n, words, Rx(outp + n), fmap)
  BY <1>3, <1>4, <1>5, Zenon DEF CallAbsolute
<1>7. WordsOf(words, 5) /\ 5 \in Nat /\ n + 5 <= Largest /\ n \in 0 .. 3 /\ n \in 0 .. n
  BY <1>5, WordsCall DEF Largest
<1>8. Moves(ins, n, words, 5, Rx(outp + n), fmap)
  BY <1>1, <1>6, <1>7, MovesFixed
<1>9. PICK b \in Nat, p \in Nat, e \in Nat : b = outp /\ p = outp + n /\ e = b + n + 5
  BY <1>2
<1>10. /\ Of(p)' = words[1] /\ Of(p + 1)' = words[2] /\ Of(p + 2)' = words[3]
       /\ Of(p + 3)' = words[4]
  <2>1. Lies(words, 5, p)
    BY <1>8, <1>9, Laid
  <2> QED BY <2>1, <1>9 DEF Lies
<1>11. Five(words, LdrX17(3), Word("adr30", 4, 0), BrX17, 4 * t)
  BY <1>5, CallAre, Zenon
<1>12. ~InFixingRange(t) /\ Away(t, b, e)
  <2>1. ~InFixingRange(t) /\ Abs(t - Rx(outp)) >= Reach(BranchSpan)
    BY <1>6 DEF TooFar
  <2>2. BranchSpan \in Nat /\ BranchSpan \div 2 >= 32
    BY <1>1, <1>2, Reaching DEF Span, Relative
  <2>3. e <= b + 9
    BY <1>9
  <2> QED BY <1>9, <2>1, <2>2, <2>3, FarAway
<1>13. ~InFixingRange(t)' /\ Away(t, b, e)'
  BY <1>8, <1>12, SamePlace
<1>14. FarCall(ins, t, b, e, n)'
  BY <1>1, <1>9, <1>10, <1>11, <1>13 DEF FarCall, Five
<1>15. \A k : k = i => Fixed(k, ins, t, b, e, n)'
  BY <1>14 DEF Fixed
<1>16. t = AimFrom(From(i), ins)
  BY <1>1, <1>2, <1>3 DEF AimFrom
<1> QED BY <1>8, <1>9, <1>15, <1>16, FixedCopies

LEMMA CondCopies ==
  ASSUME CopyInv, FieldsReach, NEW ins \in site.mix, CondAbsolute(ins)
  PROVE  Copies'
<1>1. ins.op \in {"cond", "test"} /\ i < count
  BY DEF CondAbsolute, Moving
<1>2. /\ ins \in Instructions /\ ins.off \in Int
      /\ Here = From(i) /\ Here \in Nat /\ outp \in Nat /\ site.out \in Nat
  BY <1>1, MovedTypes
<1>3. CondTarget(ins) = AimFrom(From(i), ins)
  BY <1>1, <1>2 DEF AimFrom, CondTarget
<1>4. PICK t \in Int : t = CondTarget(ins)
  BY <1>2, <1>3, AimTypes
<1>5. PICK n \in 0 .. 1 : n = Pad(Misaligned(outp + 4, 2))
  BY PadTypes
<1>6. PICK words : words = <<Word(ins.op, 2, 0), Word("b", 5, 0)>> \o AbsoluteJump(t)
  OBVIOUS
<1>7. TooFar(t, CondField(ins)) /\ Emit(ins, n, words, Rx(outp), fmap)
  BY <1>4, <1>5, <1>6, Zenon DEF CondAbsolute
<1>8. WordsOf(words, 6) /\ 6 \in Nat /\ n + 6 <= Largest /\ n \in 0 .. 3 /\ 0 \in 0 .. n
      /\ outp + 0 = outp
  BY <1>2, <1>6, WordsCond DEF Largest
<1>9. Moves(ins, n, words, 6, Rx(outp), fmap)
  BY <1>1, <1>7, <1>8, MovesFixed
<1>10. PICK b \in Nat, p \in Nat, e \in Nat : b = outp /\ p = outp + n /\ e = b + n + 6
  BY <1>2
<1>11. /\ Of(p)' = words[1] /\ Of(p + 1)' = words[2] /\ Of(p + 2)' = words[3]
       /\ Of(p + 3)' = words[4] /\ Of(p + 4)' = words[5]
  <2>1. Lies(words, 6, p)
    BY <1>9, <1>10, Laid
  <2> QED BY <2>1, <1>10 DEF Lies
<1>12. Six(words, Word(ins.op, 2, 0), Word("b", 5, 0), t)
  BY <1>6, CondAre, Zenon
<1>13. JumpAt(p + 2, t)'
  <2>1. (p + 2) + 1 = p + 3 /\ (p + 2) + 2 = p + 4
    OBVIOUS
  <2> QED BY <1>11, <1>12, <2>1 DEF Six, JumpAt
<1>14. ~InFixingRange(t) /\ Away(t, b, e)
  <2>1. ~InFixingRange(t) /\ Abs(t - Rx(outp)) >= Reach(CondField(ins))
    BY <1>7 DEF TooFar
  <2>2. PICK span \in Nat : span = CondField(ins) /\ span \div 2 >= 32
    BY <1>1, <1>2, Reaching DEF Span, Relative
  <2>3. e <= b + 9
    BY <1>10
  <2> QED BY <1>10, <2>1, <2>2, <2>3, FarAway
<1>15. ~InFixingRange(t)' /\ Away(t, b, e)'
  BY <1>9, <1>14, SamePlace
<1>16. FarCond(ins, t, b, e, n)'
  BY <1>1, <1>10, <1>11, <1>12, <1>13, <1>15 DEF FarCond, Six
<1>17. \A k : k = i => Fixed(k, ins, t, b, e, n)'
  BY <1>16 DEF Fixed
<1> QED BY <1>3, <1>4, <1>9, <1>10, <1>17, FixedCopies

LEMMA PlainCopies ==
  ASSUME CopyInv, FieldsReach, NEW ins \in site.mix, Plain(ins) \/ Prefetch(ins)
  PROVE  Copies'
<1>1. i < count
  BY DEF Plain, Prefetch, Moving
<1>2. /\ ins \in Instructions /\ Here = From(i) /\ Here \in Nat /\ outp \in Nat
      /\ outp + 0 = outp /\ 0 \in 0 .. 0 /\ 0 \in 0 .. 3
  BY <1>1, MovedTypes
<1>3. PICK t : t = AimFrom(From(i), ins)
  OBVIOUS
<1>4. CASE Plain(ins)
  <2>1. PICK words : words = <<Word("plain", 0, Here)>>
    OBVIOUS
  <2>2. ins.op = "plain" /\ Emit(ins, 0, words, Rx(outp), fmap)
    BY <1>4, <2>1 DEF Plain, Moving
  <2>3. WordsOf(words, 1) /\ 0 + 1 <= Largest /\ 1 \in Nat
    BY <2>1, WordsTuple DEF Largest
  <2>4. Moves(ins, 0, words, 1, Rx(outp), fmap)
    BY <1>1, <1>2, <2>2, <2>3, MovesFixed
  <2>5. PICK b \in Nat, e \in Nat : b = outp /\ e = b + 0 + 1
    BY <1>2
  <2>6. Of(b)' = Word("plain", 0, Here)
    <3>1. Lies(words, 1, b)
      BY <1>2, <2>4, <2>5, Laid
    <3>2. b + 0 = b /\ 0 \in 0 .. 1 - 1
      BY <1>2, <2>5
    <3> QED BY <2>1, <2>5, <3>1, <3>2 DEF Lies
  <2>7. ASSUME NEW k, k = i PROVE Fixed(k, ins, t, b, e, 0)'
    <3>1. From(k)' = Here
      BY <1>2, <2>4, <2>7, SamePlace
    <3>2. Same(k, ins, b, e, 0)'
      BY <2>2, <2>5, <2>6, <3>1 DEF Same
    <3> QED BY <3>2 DEF Fixed
  <2> QED BY <1>2, <1>3, <2>4, <2>5, <2>7, FixedCopies
<1>5. CASE Prefetch(ins)
  <2>1. ins.op = "prfm" /\ Emit(ins, 0, <<>>, Rx(outp), fmap)
    BY <1>5 DEF Prefetch, Moving
  <2>2. WordsOf(<<>>, 0) /\ 0 + 0 <= Largest /\ 0 \in Nat
    BY WordsTuple DEF Largest
  <2>3. Moves(ins, 0, <<>>, 0, Rx(outp), fmap)
    BY <1>1, <1>2, <2>1, <2>2, MovesFixed
  <2>4. PICK b \in Nat, e \in Nat : b = outp /\ e = b + 0 + 0
    BY <1>2
  <2>5. Dropped(ins, b, e, 0)'
    BY <2>1, <2>4 DEF Dropped
  <2>6. \A k : k = i => Fixed(k, ins, t, b, e, 0)'
    BY <2>5 DEF Fixed
  <2> QED BY <1>2, <1>3, <2>3, <2>4, <2>6, FixedCopies
<1> QED BY <1>4, <1>5

LEMMA LoadCopies ==
  ASSUME CopyInv, FieldsReach, NEW ins \in site.mix, LoadCopied(ins)
  PROVE  Copies'
<1>1. ins.op = "load" /\ i < count
  BY DEF LoadCopied, Moving
<1>2. /\ ins \in Instructions /\ ins.off \in Int
      /\ Here = From(i) /\ Here \in Nat /\ outp \in Nat /\ Rx(outp) \in Nat
  BY <1>1, MovedTypes
<1>3. Here + ZeroExtended(ins.off) = AimFrom(From(i), ins)
  BY <1>1, <1>2 DEF AimFrom
<1>4. PICK t \in Int : t = Here + ZeroExtended(ins.off)
  BY <1>2, <1>3, AimTypes
<1>5. PICK al \in {1, 2, 4} : al = Aligned(ins.reg)
  BY DEF Aligned, Width
<1>6. PICK n \in 0 .. 3 : n = (-(Rx(outp) + 2)) % al /\ n < al
  BY <1>2, <1>5
<1>7. PICK words : words = <<Word("load", 2, ins.reg), Word("b", 1 + al, 0)>> \o Data(t, al)
  OBVIOUS
<1>8. Emit(ins, n, words, Rx(outp + n), fmap)
  BY <1>4, <1>5, <1>6, <1>7, Zenon DEF LoadCopied
<1>9. PICK w \in Nat : w = 2 + al /\ n + w <= 9
  BY <1>5, <1>6
<1>10. WordsOf(words, w) /\ n + w <= Largest /\ n \in 0 .. n /\ al \in Nat
  BY <1>5, <1>7, <1>9, WordsCopied DEF Largest
<1>11. Moves(ins, n, words, w, Rx(outp + n), fmap)
  BY <1>1, <1>8, <1>10, MovesFixed
<1>12. PICK b \in Nat, p \in Nat, e \in Nat : b = outp /\ p = outp + n /\ e = b + n + w
  BY <1>2
<1>13. Lies(words, w, p)
  BY <1>11, <1>12, Laid
<1>14. Behind(words, Word("load", 2, ins.reg), Word("b", 1 + al, 0), t, al)
  BY <1>7, <1>10, CopiedAre, Zenon
<1>15. /\ Of(p)' = Word("load", 2, ins.reg) /\ Of(p + 1)' = Word("b", 1 + al, 0)
  <2>1. 0 \in 0 .. w - 1 /\ 1 \in 0 .. w - 1 /\ p + 0 = p
    BY <1>9
  <2> QED BY <1>13, <1>14, <2>1 DEF Lies, Behind
<1>16. ASSUME NEW m \in 0 .. al - 1 PROVE Of(p + 2 + m)' = Word("data", 0, t + m)
  <2>1. PICK q \in 0 .. w - 1 : q = m + 2
    BY <1>5, <1>9
  <2>2. p + q = p + 2 + m /\ q + 1 = m + 3
    BY <2>1
  <2>3. Of(p + q)' = words[q + 1]
    BY <1>13 DEF Lies
  <2> QED BY <1>14, <2>2, <2>3 DEF Behind
<1>17. LoadWithData(ins, t, b, e, n)'
  BY <1>1, <1>5, <1>9, <1>12, <1>15, <1>16 DEF LoadWithData
<1>18. \A k : k = i => Fixed(k, ins, t, b, e, n)'
  BY <1>17 DEF Fixed
<1> QED BY <1>3, <1>4, <1>11, <1>12, <1>18, FixedCopies

LEMMA NearLoadCopies ==
  ASSUME CopyInv, FieldsReach, NEW ins \in site.mix, LoadRelative(ins)
  PROVE  Copies'
<1>1. ins.op = "load" /\ i < count
  BY DEF LoadRelative, Moving
<1>2. /\ ins \in Instructions /\ ins.off \in Int
      /\ Here = From(i) /\ Here \in Nat /\ outp \in Nat /\ Rx(outp) \in Nat
      /\ site.out \in Nat
  BY <1>1, MovedTypes
<1>3. Here + ZeroExtended(ins.off) = AimFrom(From(i), ins)
  BY <1>1, <1>2 DEF AimFrom
<1>4. PICK t \in Int : t = Here + ZeroExtended(ins.off)
  BY <1>2, <1>3, AimTypes
<1>5. PICK al \in {1, 2, 4} : al = Aligned(ins.reg)
  BY DEF Aligned, Width
<1>6. PICK n \in 0 .. 3 : n = (t - Rx(outp)) % al /\ n < al
  BY <1>2, <1>5
<1>7. PICK off \in Int : off = t - Rx(outp + n)
  BY <1>2, <1>6 DEF Rx
<1>8. PICK words : words = <<Word("load", Signed(CondSpan, off), Loaded(ins.reg, off))>>
  OBVIOUS
<1>9. Emit(ins, n, words, Rx(outp + n), fmap) /\ ~LoadTooFar(t, ins.reg)
  BY <1>4, <1>5, <1>6, <1>7, <1>8, Zenon DEF LoadRelative
<1>10. ~InFixingRange(t) /\ ~(Abs(t - Rx(outp)) + al - 1 >= Reach(CondSpan))
  BY <1>5, <1>9 DEF LoadTooFar
<1>11. Signed(CondSpan, off) = off
  <2>1. CondSpan \in Nat
    BY RelocateAssumption
  <2>2. PICK h \in Nat : h = CondSpan \div 2
    BY <2>1
  <2>3. PICK x \in Int : x = t - Rx(outp) /\ off = x - n
    BY <1>2, <1>6, <1>7 DEF Rx
  <2>4. Abs(x) + al - 1 < h - 1
    <3>1. PICK a \in Nat : a = Abs(x)
      BY DEF Abs
    <3> QED BY <1>5, <1>10, <2>2, <2>3, <3>1 DEF Reach
  <2>5. -h <= off /\ off < h
    <3>1. PICK a \in Nat : a = Abs(x) /\ x <= a /\ -x <= a
      BY DEF Abs
    <3>2. n <= al - 1 /\ 0 <= n /\ al \in Nat
      BY <1>5, <1>6
    <3> QED BY <2>3, <2>4, <3>1, <3>2
  <2> QED BY <2>1, <2>2, <2>5, SignedIs
<1>12. WordsOf(words, 1) /\ 1 \in Nat /\ n + 1 <= Largest /\ n \in 0 .. n
  BY <1>8, WordsTuple DEF Largest
<1>13. Moves(ins, n, words, 1, Rx(outp + n), fmap)
  BY <1>1, <1>9, <1>12, MovesFixed
<1>14. PICK b \in Nat, p \in Nat, e \in Nat : b = outp /\ p = outp + n /\ e = b + n + 1
  BY <1>2
<1>15. Of(p)' = Word("load", off, Loaded(ins.reg, off))
  <2>1. Lies(words, 1, p)
    BY <1>13, <1>14, Laid
  <2>2. 0 \in 0 .. 1 - 1 /\ p + 0 = p
    OBVIOUS
  <2> QED BY <1>8, <1>11, <2>1, <2>2 DEF Lies
<1>16. off = t - Rx(p)' /\ ~InFixingRange(t)'
  BY <1>7, <1>10, <1>13, <1>14, SamePlace
<1>17. NearLoad(ins, t, b, e, n)'
  BY <1>1, <1>14, <1>15, <1>16 DEF NearLoad
<1>18. \A k : k = i => Fixed(k, ins, t, b, e, n)'
  BY <1>17 DEF Fixed
<1> QED BY <1>3, <1>4, <1>13, <1>14, <1>18, FixedCopies

\* An address behind a load.
LEMMA LiteralLaid ==
  ASSUME CopyInv, NEW ins, NEW n \in 0 .. 1, NEW words, NEW start, NEW refs,
         Moves(ins, n, words, 4, start, refs), NEW bytes, words = AbsoluteLoad(bytes),
         NEW b \in Nat, NEW e \in Nat, b = outp, e = b + n + 4
  PROVE  LiteralAddress(bytes, b, e, n)'
<1>1. PICK p \in Nat : p = b + n
  OBVIOUS
<1>2. Of(p)' = words[1] /\ Of(p + 1)' = words[2] /\ Of(p + 2)' = words[3]
  <2>1. Lies(words, 4, p)
    BY <1>1, Laid
  <2> QED BY <2>1, <1>1 DEF Lies
<1>3. Four(words, Word("ldrd", 2, 0), Word("b", 3, 0), bytes)
  BY FourAre, Zenon DEF AbsoluteLoad
<1> QED BY <1>1, <1>2, <1>3 DEF LiteralAddress, Four

LEMMA AddressCopies ==
  ASSUME CopyInv, FieldsReach, NEW ins \in site.mix, AdrAbsolute(ins)
  PROVE  Copies'
<1>1. ins.op = "adr" /\ i < count
  BY DEF AdrAbsolute, Moving
<1>2. /\ ins \in Instructions /\ ins.off \in Int
      /\ Here = From(i) /\ Here \in Nat /\ outp \in Nat /\ Rx(outp) \in Nat
  BY <1>1, MovedTypes
<1>3. Here + ZeroExtended(ins.off) = AimFrom(From(i), ins)
  BY <1>1, <1>2 DEF AimFrom
<1>4. PICK t \in Int : t = Here + ZeroExtended(ins.off)
  BY <1>2, <1>3, AimTypes
<1>5. PICK n \in 0 .. 1 : n = Pad(Misaligned(outp + 2, 2))
  BY PadTypes
<1>6. PICK words : words = AbsoluteLoad(4 * t + ins.lo)
  OBVIOUS
<1>7. AdrTooFar(t, ins.lo) /\ Emit(ins, n, words, Rx(outp + n), fmap)
  BY <1>4, <1>5, <1>6, Zenon DEF AdrAbsolute
<1>8. WordsOf(words, 4) /\ 4 \in Nat /\ n + 4 <= Largest /\ n \in 0 .. 3 /\ n \in 0 .. n
  BY <1>6, WordsLoad DEF Largest
<1>9. Moves(ins, n, words, 4, Rx(outp + n), fmap)
  BY <1>1, <1>7, <1>8, MovesFixed
<1>10. PICK b \in Nat, e \in Nat : b = outp /\ e = b + n + 4
  BY <1>2
<1>11. LiteralAddress(4 * t + ins.lo, b, e, n)'
  BY <1>6, <1>9, <1>10, LiteralLaid
<1>12. ~InFixingRange(t)'
  BY <1>7, <1>9, SamePlace DEF AdrTooFar
<1>13. FarAddress(ins, t, b, e, n)'
  BY <1>1, <1>11, <1>12 DEF FarAddress
<1>14. \A k : k = i => Fixed(k, ins, t, b, e, n)'
  BY <1>13 DEF Fixed
<1> QED BY <1>3, <1>4, <1>9, <1>10, <1>14, FixedCopies

LEMMA PageCopies ==
  ASSUME CopyInv, FieldsReach, NEW ins \in site.mix, AdrpAbsolute(ins) \/ AdrpCopied(ins)
  PROVE  Copies'
<1>1. ins.op = "adrp" /\ i < count
  BY DEF AdrpAbsolute, AdrpCopied, Moving
<1>2. /\ ins \in Instructions /\ ins.off \in Int
      /\ Here = From(i) /\ Here \in Nat /\ outp \in Nat /\ Rx(outp) \in Nat
      /\ site.out \in Nat /\ site.rw \in Nat /\ Rw(outp) \in Int
  BY <1>1, MovedTypes, CopyTypes DEF Rw
<1>3. PICK t : t = AimFrom(From(i), ins)
  OBVIOUS
<1>4. fmap \in [Indices -> Seq(Fixes)] /\ Refers(ins, t, fmap)
  BY Zenon DEF CopyInv, Bounds, Waiting, Refers
<1>5. CASE AdrpAbsolute(ins)
  <2>1. PICK bytes : bytes = 4 * (Page(Here) + ZeroExtended(ins.off * PageWords))
    OBVIOUS
  <2>2. PICK n \in 0 .. 1 : n = Pad(Misaligned(outp + 2, 2))
    BY PadTypes
  <2>3. PICK start : start = IF n = 0 THEN Rw(outp) ELSE Rx(outp + n)
    OBVIOUS
  <2>4. PICK words : words = AbsoluteLoad(bytes)
    OBVIOUS
  <2>5. Emit(ins, n, words, start, fmap)
    BY <1>5, <2>1, <2>2, <2>3, <2>4, Zenon DEF AdrpAbsolute
  <2>6. start \in Int /\ Starts(ins, n, start)
    BY <1>1, <1>2, <2>2, <2>3 DEF Starts, Rx
  <2>7. WordsOf(words, 4) /\ 4 \in Nat /\ n + 4 <= Largest /\ n \in 0 .. 3
    BY <2>4, WordsLoad DEF Largest
  <2>8. Moves(ins, n, words, 4, start, fmap)
    BY <1>1, <1>3, <1>4, <2>5, <2>6, <2>7, Zenon DEF Moves
  <2>9. PICK b \in Nat, e \in Nat : b = outp /\ e = b + n + 4
    BY <1>2
  <2>10. LiteralAddress(bytes, b, e, n)'
    BY <2>4, <2>8, <2>9, LiteralLaid
  <2>11. ASSUME NEW k, k = i PROVE Fixed(k, ins, t, b, e, n)'
    <3>1. From(k)' = Here
      BY <1>2, <2>8, <2>11, SamePlace
    <3>2. FarPage(k, ins, b, e, n)'
      BY <1>1, <2>1, <2>10, <3>1 DEF FarPage
    <3> QED BY <3>2 DEF Fixed
  <2> QED BY <1>3, <2>8, <2>9, <2>11, FixedCopies
<1>6. CASE AdrpCopied(ins)
  <2>1. PICK words : words = <<Word("adrp", ins.off, 0)>>
    OBVIOUS
  <2>2. Emit(ins, 0, words, Rw(outp), fmap)
    BY <1>6, <2>1 DEF AdrpCopied
  <2>3. WordsOf(words, 1) /\ 0 + 1 <= Largest /\ 1 \in Nat /\ 0 \in 0 .. 3
    BY <2>1, WordsTuple DEF Largest
  <2>4. Starts(ins, 0, Rw(outp))
    BY <1>1 DEF Starts
  <2>5. Moves(ins, 0, words, 1, Rw(outp), fmap)
    BY <1>1, <1>2, <1>3, <1>4, <2>2, <2>3, <2>4, Zenon DEF Moves
  <2>6. PICK b \in Nat, e \in Nat : b = outp /\ e = b + 0 + 1
    BY <1>2
  <2>7. Of(b)' = Word("adrp", ins.off, 0)
    <3>1. Lies(words, 1, b)
      BY <1>2, <2>5, <2>6, Laid
    <3>2. b + 0 = b /\ 0 \in 0 .. 1 - 1
      BY <2>6
    <3> QED BY <2>1, <3>1, <3>2 DEF Lies
  <2>8. NearPage(ins, b, e, 0)'
    BY <1>1, <2>6, <2>7 DEF NearPage, Word
  <2>9. \A k : k = i => Fixed(k, ins, t, b, e, 0)'
    BY <2>8 DEF Fixed
  <2> QED BY <1>3, <2>3, <2>5, <2>6, <2>9, FixedCopies
<1> QED BY <1>5, <1>6

\* A copy of one word: its offset is that of its target, or of the copy of its
\* target, or is left to that one's fix map.
NearWord(ins, t, span) ==
  Word(ins.op, Signed(span, NewOffset(t)),
       IF ins.op # "adr" THEN 0
       ELSE [lo |-> ins.lo, rd |-> IF InFixingRange(t) THEN 0 ELSE 8 * ins.lo])

\* The copy of an instruction that was moved begins a few words back.
LEMMA BackIs ==
  ASSUME CopyInv, i < count, NEW r \in Indices, r < i, ~Aliased(r)
  PROVE  dat[r] - Rx(outp) \in -36 .. 3
<1>1. /\ i \in Nat /\ i <= 4 /\ count \in Nat /\ outp \in Nat /\ Begin(i) = outp
      /\ site.out \in Nat /\ r \in Nat
  BY CopyTypes DEF Indices
<1>2. Copied(r)
  BY <1>1 DEF CopyInv, Copies
<1>3. PICK n \in 0 .. 3 : Noted(r, Begin(r), n)
  BY <1>2 DEF Copied, Place
<1>0. PICK b : b = Begin(r)
  OBVIOUS
<1>4. r \in 0 .. count /\ i \in 0 .. count /\ r <= i /\ i <= i
  BY <1>1
<1>5. /\ b \in Nat /\ b <= outp /\ outp - b <= 9 * (i - r)
  BY <1>1, <1>0, <1>4 DEF CopyInv, Copies, Trace, Largest
<1>6. PICK m \in 0 .. 3 : dat[r] = Rx(b + m)
  BY <1>3, <1>0 DEF Noted
<1>7. dat[r] - Rx(outp) = (b + m) - outp
  BY <1>1, <1>5, <1>6 DEF Rx
<1>8. outp - b <= 36
  BY <1>1, <1>5
<1> QED BY <1>1, <1>5, <1>7, <1>8

LEMMA NearMoves ==
  ASSUME CopyInv, i < count, NEW ins \in site.mix, ins.op \in Relative,
         NEW t \in Int, t = AimFrom(From(i), ins), NEW span \in Nat, span = Span(ins),
         NEW words, words = <<NearWord(ins, t, span)>>,
         Emit(ins, 0, words, Rx(outp), References(t, span))
  PROVE  /\ Moves(ins, 0, words, 1, Rx(outp), References(t, span))
         /\ \A r \in Indices : r > i /\ InFixingRange(t) /\ Ref(t) = r =>
              References(t, span)[r] = Append(fmap[r], [at |-> outp, span |-> span])
<1>1. /\ i \in Indices /\ i \in Nat /\ i <= 4 /\ outp \in Nat /\ Rx(outp) \in Int /\ Bounds
      /\ fmap \in [Indices -> Seq(Fixes)] /\ \A k \in Indices : Len(fmap[k]) <= i
  <2>1. i \in Nat /\ count \in 1 .. 5 /\ i \in Indices /\ outp \in Nat /\ site.out \in Nat
    BY CopyTypes
  <2>2. i <= 4 /\ Rx(outp) \in Int
    BY <2>1 DEF Rx
  <2>3. Bounds /\ fmap \in [Indices -> Seq(Fixes)] /\ \A k \in Indices : Len(fmap[k]) <= i
    BY Zenon DEF CopyInv, Bounds, Waiting
  <2> QED BY <2>1, <2>2, <2>3
<1>2. PICK refs : refs = References(t, span)
  OBVIOUS
<1>3. refs \in [Indices -> Seq(Fixes)]
  BY <1>1, <1>2, WaitingReferences DEF Waiting
<1>4. ASSUME NEW r \in Indices, r > i, InFixingRange(t), Ref(t) = r
      PROVE  refs = [fmap EXCEPT ![r] = Append(fmap[r], [at |-> outp, span |-> span])]
  <2>1. Len(fmap[r]) < MaxReferences
    <3>1. fmap[r] \in Seq(Fixes) /\ Len(fmap[r]) <= i
      BY <1>1
    <3>2. Len(fmap[r]) \in Nat
      BY <3>1, LenProperties
    <3> QED BY <1>1, <3>1, <3>2 DEF MaxReferences, MaxInstructions
  <2>2. Insert(fmap[r], span) = Append(fmap[r], [at |-> outp, span |-> span])
    BY <2>1 DEF Insert
  <2>3. refs = [fmap EXCEPT ![r] = Insert(fmap[r], span)]
    BY <1>1, <1>2, <1>4 DEF References
  <2> QED BY <2>2, <2>3, Zenon
<1>5. Refers(ins, t, refs)
  <2>1. CASE InFixingRange(t) /\ Ref(t) > i
    <3>1. PICK r \in Indices : r = Ref(t)
      <4>1. site.in \in Nat /\ count \in 1 .. 5
        BY CopyTypes
      <4>2. Ref(t) \in Indices
        BY <2>1, <4>1 DEF InFixingRange, Ref, Indices, MaxInstructions
      <4> QED BY <4>2
    <3>2. refs = [fmap EXCEPT ![r] = Append(fmap[r], [at |-> outp, span |-> span])]
      BY <1>4, <2>1, <3>1
    <3> QED BY <2>1, <3>1, <3>2 DEF Refers
  <2>2. CASE ~(InFixingRange(t) /\ Ref(t) > i)
    BY <1>2, <2>2 DEF References, Refers
  <2> QED BY <2>1, <2>2
<1>6. Starts(ins, 0, Rx(outp))
  <2>1. outp + 0 = outp /\ 0 \in 0 .. 0
    BY <1>1
  <2> QED BY <2>1 DEF Starts
<1>7. WordsOf(words, 1) /\ 0 + 1 <= Largest /\ 1 \in Nat /\ 0 \in 0 .. 3
  BY WordsTuple DEF Largest
<1>8. Moves(ins, 0, words, 1, Rx(outp), refs)
  BY <1>1, <1>2, <1>3, <1>5, <1>6, <1>7, Zenon DEF Moves
<1>9. ASSUME NEW r \in Indices, r > i, InFixingRange(t), Ref(t) = r
      PROVE  refs[r] = Append(fmap[r], [at |-> outp, span |-> span])
  BY <1>1, <1>4, <1>9
<1> QED BY <1>2, <1>8, <1>9

LEMMA NearCopies ==
  ASSUME CopyInv, FieldsReach, i < count, NEW ins \in site.mix, ins.op \in Relative,
         NEW t \in Int, t = AimFrom(From(i), ins), NEW span \in Nat, span = Span(ins),
         ~InFixingRange(t) => Signed(span, t - Rx(outp)) = t - Rx(outp),
         NEW words, words = <<NearWord(ins, t, span)>>,
         Emit(ins, 0, words, Rx(outp), References(t, span))
  PROVE  Copies'
<1>1. /\ ins \in Instructions /\ Here = From(i) /\ Here \in Nat /\ outp \in Nat
      /\ Rx(outp) \in Nat /\ i \in Indices /\ i \in Nat /\ count \in 1 .. 5 /\ site.in \in Nat
  BY MovedTypes, CopyTypes
<1>2. PICK refs : refs = References(t, span)
  OBVIOUS
<1>3. Moves(ins, 0, words, 1, Rx(outp), refs)
  BY <1>2, NearMoves
<1>4. Advances(ins, 0, 1, Rx(outp), refs)
  BY <1>3, MovesState
<1>5. /\ i' = i + 1 /\ prog'[i + 1] = ins
      /\ \A k \in Indices : dat'[k] = IF k = i THEN Rx(outp) ELSE dat[k]
      /\ \A k \in Indices : fmap'[k] = IF k = i THEN <<>> ELSE refs[k]
  BY <1>4 DEF Advances
<1>6. site' = site /\ (InFixingRange(t)' <=> InFixingRange(t)) /\ (\A q : Rx(q)' = Rx(q))
  BY <1>3, SamePlace
<1>7. PICK b \in Nat, e \in Nat : b = outp /\ e = b + 0 + 1
  BY <1>1
<1>8. PICK off : off = Signed(span, NewOffset(t))
  OBVIOUS
<1>9. Of(b)' = Word(ins.op, off,
                    IF ins.op # "adr" THEN 0
                    ELSE [lo |-> ins.lo, rd |-> IF InFixingRange(t) THEN 0 ELSE 8 * ins.lo])
  <2>1. Lies(words, 1, b)
    BY <1>1, <1>3, <1>7, Laid
  <2>2. b + 0 = b /\ 0 \in 0 .. 1 - 1
    BY <1>7
  <2> QED BY <1>8, <2>1, <2>2 DEF Lies, NearWord
<1>10. span \div 2 >= 32 /\ (ins.op \in {"b", "bl", "adr"} => span \div 2 >= 50)
  BY <1>1, Reaching
<1>11. off \in Int /\ Aimed(b, t)'
  <2>1. Of(b)'.off = off
    BY <1>9 DEF Word
  <2>2. CASE ~InFixingRange(t)
    <3>1. off = t - Rx(outp)
      BY <1>8, <2>2 DEF NewOffset
    <3> QED BY <1>1, <1>6, <1>7, <2>1, <2>2, <3>1 DEF Aimed
  <2>3. CASE InFixingRange(t)
    <3>1. PICK r \in Indices : r = Ref(t)
      <4>1. Ref(t) \in Indices
        BY <1>1, <2>3 DEF InFixingRange, Ref, Indices, MaxInstructions
      <4> QED BY <4>1
    <3>2. r = Ref(t)' /\ r \in Nat
      BY <1>6, <3>1 DEF Ref, Indices
    <3>3. CASE r < i
      <4>1. ins.op \in {"b", "bl"}
        <5>1. ins.op \notin {"b", "bl"} => t >= From(i)
          BY <1>1, AimTypes
        <5>2. t >= From(i) => r >= i
          BY <1>1, <3>1 DEF From, Ref
        <5>3. ~(r >= i)
          BY <1>1, <3>2, <3>3
        <5> QED BY <5>1, <5>2, <5>3
      <4>2. r < i' /\ dat'[r] = dat[r] /\ dat[r] \in Int
        <5>1. dat \in [Indices -> Int]
          BY DEF CopyInv, Copies, Trace
        <5>2. r < i' /\ r # i
          BY <1>1, <1>5, <3>2, <3>3
        <5> QED BY <1>5, <5>1, <5>2
      <4>3. off = Signed(span, dat[r] - Rx(outp))
        BY <1>8, <2>3, <3>1, <3>3 DEF NewOffset
      <4>4. PICK d \in Int : d = dat[r] - Rx(outp)
        BY <1>1, <4>2
      <4>5. off \in Int
        <5>1. span \in Nat \ {0}
          BY <1>10
        <5> QED BY <4>3, <4>4, <5>1, SignedTypes
      <4>6. CASE Aliased(r)
        <5>1. Aliased(r)'
          BY <1>3, <3>3, <4>6, AliasedStays
        <5> QED BY <1>6, <2>3, <3>2, <4>2, <4>5, <5>1 DEF Aimed
      <4>7. CASE ~Aliased(r)
        <5>1. d \in -36 .. 3
          BY <3>3, <4>4, <4>7, BackIs
        <5>2. PICK h \in Nat : h = span \div 2 /\ h >= 50
          BY <1>10, <4>1
        <5>3. -(span \div 2) <= d /\ d < span \div 2
          BY <5>1, <5>2
        <5>4. Signed(span, d) = d
          BY <5>3, SignedIs
        <5>5. off = dat'[r] - Rx(b)'
          BY <1>6, <1>7, <4>2, <4>3, <4>4, <5>4
        <5> QED BY <1>6, <2>1, <2>3, <3>2, <4>2, <4>5, <5>5 DEF Aimed
      <4> QED BY <4>6, <4>7
    <3>4. CASE r >= i
      <4>1. off = 0
        <5>1. NewOffset(t) = 0
          BY <1>1, <2>3, <3>1, <3>2, <3>4 DEF NewOffset
        <5>2. PICK h \in Nat : h = span \div 2 /\ h >= 32
          BY <1>10
        <5>3. -(span \div 2) <= 0 /\ 0 < span \div 2 /\ 0 \in Int
          BY <5>2
        <5> QED BY <1>8, <5>1, <5>3, SignedIs
      <4>2. CASE r = i
        <5>1. r < i' /\ dat'[r] = Rx(b)'
          BY <1>1, <1>5, <1>6, <1>7, <4>2
        <5>2. Of(b)'.off = dat'[r] - Rx(b)'
          BY <1>1, <1>6, <1>7, <2>1, <4>1, <5>1
        <5> QED BY <1>6, <2>3, <3>2, <4>1, <5>1, <5>2 DEF Aimed
      <4>3. CASE r > i
        <5>1. refs[r] = Append(fmap[r], [at |-> outp, span |-> span])
          BY <1>2, <2>3, <3>1, <4>3, NearMoves
        <5>2. fmap'[r] = Append(fmap[r], [at |-> outp, span |-> span])
          BY <1>1, <1>5, <3>2, <4>3, <5>1
        <5>3. PICK s \in Seq(Fixes), f \in Fixes : s = fmap[r] /\ f = [at |-> outp, span |-> span]
          <6>1. fmap \in [Indices -> Seq(Fixes)]
            BY <1>1, Zenon DEF CopyInv, Bounds, Waiting
          <6>2. outp \in Nat /\ span \in Nat
            BY <1>1
          <6>3. [at |-> outp, span |-> span] \in Fixes
            BY <6>2 DEF Fixes
          <6> QED BY <6>1, <6>3
        <5>4. PICK m : m = Len(s) + 1
          OBVIOUS
        <5>5. m \in DOMAIN Append(s, f) /\ Append(s, f)[m] = f
          BY <5>4, AppendProperties, LenProperties
        <5>6. m \in DOMAIN fmap'[r] /\ fmap'[r][m].at = b
          BY <1>7, <5>2, <5>3, <5>5
        <5>7. ~(r < i')
          BY <1>1, <1>5, <3>2, <4>3
        <5> QED BY <1>6, <2>3, <3>2, <4>1, <5>6, <5>7 DEF Aimed
      <4> QED BY <1>1, <3>2, <3>4, <4>2, <4>3
    <3> QED BY <1>1, <3>2, <3>3, <3>4
  <2> QED BY <2>2, <2>3
<1>12. Near(ins, t, b, e, 0)'
  BY <1>6, <1>7, <1>9, <1>11 DEF Near, Word
<1>13. PICK k \in Indices : k = i
  BY <1>1
<1>14. t = AimFrom(From(k), ins)
  BY <1>13
<1>15. 1 \in Nat /\ 0 \in Nat
  OBVIOUS
<1>16. Copied(k)'
  BY <1>3, <1>7, <1>12, <1>13, <1>14, <1>15, NewCopied
<1> QED BY <1>3, <1>13, <1>16, MovesCopies

LEMMA BranchNearCopies ==
  ASSUME CopyInv, FieldsReach, NEW ins \in site.mix, BranchRelative(ins)
  PROVE  Copies'
<1>1. ins.op \in {"b", "bl"} /\ i < count
  BY DEF BranchRelative, Moving
<1>2. /\ ins \in Instructions /\ ins.off \in Int /\ Here = From(i) /\ Here \in Nat
      /\ Rx(outp) \in Nat /\ ins.op \in Relative
  BY <1>1, MovedTypes DEF Relative
<1>3. PICK t \in Int : t = Here + ins.off
  BY <1>2
<1>4. t = AimFrom(From(i), ins)
  BY <1>1, <1>2, <1>3 DEF AimFrom
<1>5. PICK span \in Nat : span = BranchSpan /\ span = Span(ins)
  BY <1>1, RelocateAssumption DEF Span
<1>6. PICK words : words = <<NearWord(ins, t, span)>>
  OBVIOUS
<1>7. words = <<Word(ins.op, Signed(BranchSpan, NewOffset(t)), 0)>>
  BY <1>1, <1>5, <1>6 DEF NearWord
<1>8. ~TooFar(t, BranchSpan) /\ Emit(ins, 0, words, Rx(outp), References(t, span))
  BY <1>3, <1>5, <1>7 DEF BranchRelative
<1>9. ~InFixingRange(t) => Signed(span, t - Rx(outp)) = t - Rx(outp)
  BY <1>2, <1>5, <1>8, NearIsExact DEF TooFar
<1> QED BY <1>1, <1>2, <1>4, <1>5, <1>6, <1>8, <1>9, NearCopies

LEMMA CondNearCopies ==
  ASSUME CopyInv, FieldsReach, NEW ins \in site.mix, CondRelative(ins)
  PROVE  Copies'
<1>1. ins.op \in {"cond", "test"} /\ i < count
  BY DEF CondRelative, Moving
<1>2. /\ ins \in Instructions /\ ins.off \in Int /\ Here = From(i) /\ Here \in Nat
      /\ Rx(outp) \in Nat /\ ins.op \in Relative
  BY <1>1, MovedTypes DEF Relative
<1>3. CondTarget(ins) = AimFrom(From(i), ins)
  BY <1>1, <1>2 DEF AimFrom, CondTarget
<1>4. PICK t \in Int : t = CondTarget(ins)
  BY <1>2, <1>3, AimTypes
<1>5. PICK span \in Nat : span = CondField(ins) /\ span = Span(ins)
  <2>1. CondField(ins) \in Nat
    BY RelocateAssumption DEF CondField
  <2> QED BY <1>1, <2>1 DEF Span
<1>6. PICK words : words = <<NearWord(ins, t, span)>>
  OBVIOUS
<1>7. words = <<Word(ins.op, Signed(CondField(ins), NewOffset(t)), 0)>>
  BY <1>1, <1>5, <1>6 DEF NearWord
<1>8. ~TooFar(t, span) /\ Emit(ins, 0, words, Rx(outp), References(t, span))
  BY <1>4, <1>5, <1>7 DEF CondRelative
<1>9. ~InFixingRange(t) => Signed(span, t - Rx(outp)) = t - Rx(outp)
  BY <1>2, <1>5, <1>8, NearIsExact DEF TooFar
<1>10. t = AimFrom(From(i), ins)
  BY <1>3, <1>4
<1> QED BY <1>1, <1>2, <1>5, <1>6, <1>8, <1>9, <1>10, NearCopies

LEMMA AddressNearCopies ==
  ASSUME CopyInv, FieldsReach, NEW ins \in site.mix, AdrRelative(ins)
  PROVE  Copies'
<1>1. ins.op = "adr" /\ i < count
  BY DEF AdrRelative, Moving
<1>2. /\ ins \in Instructions /\ ins.off \in Int /\ Here = From(i) /\ Here \in Nat
      /\ Rx(outp) \in Nat /\ ins.op \in Relative /\ ins.lo \in 0 .. 3
  BY <1>1, MovedTypes DEF Relative
<1>3. Here + ZeroExtended(ins.off) = AimFrom(From(i), ins)
  BY <1>1, <1>2 DEF AimFrom
<1>4. PICK t \in Int : t = Here + ZeroExtended(ins.off)
  BY <1>2, <1>3, AimTypes
<1>5. PICK span \in Nat : span = AdrSpan \div 4 /\ span = Span(ins)
  <2>1. AdrSpan \in Nat
    BY RelocateAssumption
  <2>2. AdrSpan \div 4 \in Nat
    BY <2>1
  <2> QED BY <1>1, <2>2 DEF Span
<1>6. PICK words : words = <<NearWord(ins, t, span)>>
  OBVIOUS
<1>7. words = <<Word("adr", Signed(AdrSpan \div 4, NewOffset(t)),
                     [lo |-> ins.lo, rd |-> IF InFixingRange(t) THEN 0 ELSE 8 * ins.lo])>>
  BY <1>1, <1>5, <1>6 DEF NearWord
<1>8. ~AdrTooFar(t, ins.lo) /\ Emit(ins, 0, words, Rx(outp), References(t, span))
  BY <1>4, <1>5, <1>7 DEF AdrRelative
<1>9. ~InFixingRange(t) => Signed(span, t - Rx(outp)) = t - Rx(outp)
  BY <1>2, <1>5, <1>8, AdrIsExact DEF AdrTooFar
<1>10. t = AimFrom(From(i), ins)
  BY <1>3, <1>4
<1> QED BY <1>1, <1>2, <1>5, <1>6, <1>8, <1>9, <1>10, NearCopies

-----------------------------------------------------------------------------
\* A step that leaves the moved instructions alone.
Untouched ==
  /\ count' = count /\ site' = site /\ prog' = prog /\ dat' = dat /\ fmap' = fmap
  /\ i' \in {i, i + 1} /\ (i' = i + 1 => i = count)
  /\ \A k \in 0 .. count : k <= i => Begin(k)' = Begin(k)
  /\ \A q \in 0 .. outp - 1 : Of(q)' = Of(q)

LEMMA PlaceSame ==
  ASSUME CopyInv, Untouched, NEW k \in Indices, k < i, k < count,
         NEW ins, NEW t, NEW b, NEW e, Place(k, ins, t, b, e)
  PROVE  Place(k, ins, t, b, e)'
<1>1. PICK j : j = k + 1
  OBVIOUS
<1>2. k \in 0 .. count /\ j \in 0 .. count /\ k <= i /\ j <= i
  BY <1>1, CopyTypes DEF Indices
<1>3. Begin(k)' = Begin(k) /\ Begin(j)' = Begin(j)
  BY <1>2 DEF Untouched
<1> QED BY <1>1, <1>3 DEF Place, Untouched, From

LEMMA CopiedSame ==
  ASSUME CopyInv, Untouched, NEW k \in Indices, k < i, k < count
  PROVE  Copied(k)'
<1>1. PICK n \in 0 .. 3 : \E ins, t, b, e :
        /\ Place(k, ins, t, b, e)
        /\ Nops(b, n) /\ Noted(k, b, n)
        /\ Near(ins, t, b, e, n) \/ Fixed(k, ins, t, b, e, n)
  BY DEF CopyInv, Copies, Copied
<1>2. PICK ins, t, b, e :
        /\ Place(k, ins, t, b, e)
        /\ Nops(b, n) /\ Noted(k, b, n)
        /\ Near(ins, t, b, e, n) \/ Fixed(k, ins, t, b, e, n)
  BY <1>1
<1>3. /\ i \in Nat /\ count \in Nat /\ k \in 0 .. count /\ k <= i /\ outp \in Nat
      /\ k + 1 \in 0 .. count /\ k + 1 <= i /\ i <= count + 1
  BY CopyTypes DEF Indices
<1>4. b \in Nat /\ b = Begin(k) /\ e = Begin(k + 1) /\ e <= outp
  BY <1>2, <1>3 DEF CopyInv, Copies, Trace, Place
<1>5. e \in Nat /\ b + n <= e
  BY <1>2, <1>4, Extent
<1>6. \A q \in b .. e - 1 : Of(q)' = Of(q)
  <2>1. \A q \in b .. e - 1 : q \in 0 .. outp - 1
    BY <1>3, <1>4, <1>5
  <2> QED BY <2>1 DEF Untouched
<1>7. site' = site /\ count' = count
  BY DEF Untouched
<1>8. /\ \A q : Rx(q)' = Rx(q)
      /\ (InFixingRange(t)' <=> InFixingRange(t)) /\ Ref(t)' = Ref(t)
  BY <1>7 DEF Rx, InFixingRange, Ref
<1>9. ASSUME NEW r \in Indices, r < i, r < count PROVE Aliased(r)' <=> Aliased(r)
  <2>1. r \in 0 .. count /\ r <= i
    BY <1>3, <1>9 DEF Indices
  <2>2. Begin(r)' = Begin(r)
    BY <2>1 DEF Untouched
  <2> QED BY <2>2 DEF Aliased, Untouched, Rw
<1>10. Noted(k, b, n)'
  BY <1>2, <1>8, <1>9 DEF Noted, Untouched
<1>11. Nops(b, n)'
  <2>1. \A m \in 0 .. n - 1 : b + m \in b .. e - 1
    BY <1>4, <1>5
  <2>2. \A m \in 0 .. n - 1 : Of(b + m)' = Of(b + m)
    BY <1>6, <2>1
  <2> QED BY <1>2, <2>2 DEF Nops
<1>12. Place(k, ins, t, b, e)'
  BY <1>2, PlaceSame
<1>13. CASE Near(ins, t, b, e, n)
  <2>1. Of(b)' = Of(b)
    BY <1>4, <1>6, <1>13 DEF Near
  <2>2. Aimed(b, t)'
    <3>1. CASE ~InFixingRange(t)
      BY <1>8, <1>13, <2>1, <3>1 DEF Near, Aimed
    <3>2. CASE InFixingRange(t)
      <4>1. PICK r \in Indices :
              /\ r = Ref(t)
              /\ IF r < i THEN Aliased(r) \/ Of(b).off = dat[r] - Rx(b)
                 ELSE \E m \in DOMAIN fmap[r] : fmap[r][m].at = b
        BY <1>13, <3>2 DEF Near, Aimed
      <4>2. r < count /\ r \in Nat
        <5>1. site.in \in Nat /\ t < site.in + count /\ r = t - site.in /\ r \in Nat
          BY <3>2, <4>1, CopyTypes DEF InFixingRange, Ref, Indices
        <5>2. t = r + site.in
          <6>1. t \in Int
            <7>1. ins \in Instructions /\ From(k) \in Int /\ t = AimFrom(From(k), ins)
              <8>1. k + 1 \in 1 .. Len(prog)
                BY <1>3, CopyTypes DEF CopyInv, Copies, Trace, Indices
              <8>2. prog \in Seq(Instructions)
                BY DEF CopyInv, Copies, Trace
              <8>3. prog[k + 1] \in Instructions
                BY <8>1, <8>2, ElementOfSeq
              <8>4. ins = prog[k + 1] /\ t = AimFrom(From(k), ins)
                BY <1>2 DEF Place
              <8>5. From(k) \in Int
                BY CopyTypes
              <8> QED BY <8>3, <8>4, <8>5
            <7> QED BY <7>1, AimTypes
          <6> QED BY <5>1, <6>1
        <5> QED BY <1>3, <5>1, <5>2
      <4>3. (r < i') <=> (r < i)
        BY <1>3, <4>2 DEF Untouched
      <4>4. r < i => (Aliased(r)' <=> Aliased(r))
        BY <1>9, <4>2
      <4> QED BY <1>8, <2>1, <3>2, <4>1, <4>3, <4>4 DEF Aimed, Untouched
    <3> QED BY <3>1, <3>2
  <2>3. Near(ins, t, b, e, n)'
    BY <1>8, <1>13, <2>1, <2>2 DEF Near
  <2> QED BY <1>10, <1>11, <1>12, <2>3 DEF Copied
<1>14. CASE Fixed(k, ins, t, b, e, n)
  <2>1. Fixed(k, ins, t, b, e, n)'
    BY <1>4, <1>5, <1>6, <1>7, <1>14, FixedStays
  <2> QED BY <1>10, <1>11, <1>12, <2>1 DEF Copied
<1> QED BY <1>2, <1>13, <1>14

LEMMA UntouchedCopies ==
  ASSUME CopyInv, Untouched, Trace'
  PROVE  Copies'
<1>1. i \in Nat /\ count \in Nat
  BY CopyTypes
<1>2. ASSUME NEW k \in Indices, k < i', k < count' PROVE Copied(k)'
  <2>1. k < i /\ k < count
    BY <1>1, <1>2 DEF Untouched, Indices
  <2> QED BY <2>1, CopiedSame
<1>3. Entries'
  <2> SUFFICES ASSUME NEW r \in Indices, NEW m \in DOMAIN fmap'[r]
               PROVE  \E k \in Indices : Owes(k, r)' /\ Entry(k, fmap[r][m])'
    BY DEF Entries
  <2>1. fmap' = fmap
    BY DEF Untouched
  <2>2. PICK k \in Indices : Owes(k, r) /\ Entry(k, fmap[r][m])
    BY <2>1 DEF CopyInv, Copies, Entries
  <2>3. k < i /\ k < count /\ r > k
    BY <2>2 DEF Owes
  <2>4. PICK ins, t, b, e :
          Place(k, ins, t, b, e) /\ ins.op \in Relative /\ InFixingRange(t) /\ Ref(t) = r
    BY <2>2 DEF Owes
  <2>5. Place(k, ins, t, b, e)'
    BY <2>3, <2>4, PlaceSame
  <2>6. k < i' /\ k < count' /\ InFixingRange(t)' /\ Ref(t)' = r
    BY <1>1, <2>3, <2>4 DEF Untouched, InFixingRange, Ref, Indices
  <2>7. Owes(k, r)'
    BY <2>3, <2>4, <2>5, <2>6 DEF Owes
  <2>8. Begin(k)' = Begin(k) /\ prog' = prog
    <3>1. k \in 0 .. count /\ k <= i
      BY <1>1, <2>3 DEF Indices
    <3> QED BY <3>1 DEF Untouched
  <2>9. Entry(k, fmap[r][m])'
    BY <2>1, <2>2, <2>8 DEF Entry
  <2> QED BY <2>7, <2>9
<1> QED BY <1>2, <1>3 DEF Copies

-----------------------------------------------------------------------------
\* The jump back, and the invariant as a whole.
JumpsBack(n, words, w) ==
  \/ w = 4 /\ words = AbsoluteJump(Here) /\ CloseTooFar
  \/ n = 0 /\ w = 1 /\ words = <<Word("b", Here - Rx(outp), 0)>>

LEMMA CloseWords ==
  ASSUME CopyInv, FieldsReach, Close
  PROVE  \E n \in 0 .. 1, w \in 1 .. 4 : \E words :
           /\ WordsOf(words, w) /\ code' = Put(n, words) /\ outp' = outp + n + w
           /\ JumpsBack(n, words, w)
<1>1. CASE CloseTooFar
  <2>1. PICK n \in 0 .. 1 : n = Pad(CloseTooFar /\ Misaligned(outp + 2, 2))
    BY PadTypes
  <2>2. PICK words : words = AbsoluteJump(Here)
    OBVIOUS
  <2>3. code' = Put(n, words) /\ outp' = outp + n + Len(words)
    BY <1>1, <2>1, <2>2, Zenon DEF Close
  <2>4. WordsOf(words, 4)
    BY <2>2, WordsJump, Zenon
  <2>5. Len(words) = 4
    BY <2>4, Zenon DEF WordsOf
  <2>6. outp' = outp + n + 4 /\ 4 \in 1 .. 4
    BY <2>3, <2>5
  <2>7. JumpsBack(n, words, 4)
    BY <1>1, <2>2, Zenon DEF JumpsBack
  <2> QED BY <2>3, <2>4, <2>6, <2>7, Zenon
<1>2. CASE ~CloseTooFar
  <2>1. Pad(CloseTooFar /\ Misaligned(outp + 2, 2)) = 0
    BY <1>2 DEF Pad
  <2>2. PICK off : off = Signed(BranchSpan, Here - Rx(outp))
    OBVIOUS
  <2>3. PICK words : words = <<Word("b", off, 0)>>
    OBVIOUS
  <2>4. code' = Put(0, words) /\ outp' = outp + 0 + Len(words)
    BY <1>2, <2>1, <2>2, <2>3, Zenon DEF Close
  <2>5. WordsOf(words, 1) /\ Len(words) = 1
    BY <2>3, WordsTuple
  <2>6. off = Here - Rx(outp)
    <3>1. BranchSpan \in Nat /\ Here - Rx(outp) \in Int
      BY RelocateAssumption, CopyTypes DEF Here, Rx
    <3>2. ~(Abs(Here - Rx(outp)) >= Reach(BranchSpan))
      BY <1>2 DEF CloseTooFar
    <3> QED BY <2>2, <3>1, <3>2, NearIsExact
  <2>7. JumpsBack(0, words, 1)
    BY <2>3, <2>6, Zenon DEF JumpsBack
  <2>8. outp' = outp + 0 + 1 /\ 1 \in 1 .. 4 /\ 0 \in 0 .. 1
    BY <2>4, <2>5
  <2> QED BY <2>4, <2>5, <2>7, <2>8, Zenon
<1> QED BY <1>1, <1>2

LEMMA CloseUntouched ==
  ASSUME CopyInv, FieldsReach, Close
  PROVE  Untouched /\ Trace'
<1>1. PICK n \in 0 .. 1, w \in 1 .. 4 : \E words :
        WordsOf(words, w) /\ code' = Put(n, words) /\ outp' = outp + n + w
  BY CloseWords, Zenon
<1>2. PICK words : WordsOf(words, w) /\ code' = Put(n, words)
  BY <1>1
<1>3. /\ i = count /\ i' = i + 1 /\ begins' = Append(begins, outp)
      /\ count' = count /\ site' = site /\ prog' = prog /\ dat' = dat /\ fmap' = fmap
  BY DEF Close
<1>4. /\ count \in 1 .. 5 /\ outp \in Nat /\ outp' \in Nat /\ outp <= outp'
      /\ begins \in Seq(Nat) /\ Len(begins) = count /\ Begin(count) = outp
      /\ Len(prog) = count
  <2>1. i = count /\ count \in 1 .. 5 /\ outp \in Nat /\ Begin(i) = outp
    BY <1>3, CopyTypes
  <2>2. outp' \in Nat /\ outp <= outp'
    BY <1>1, <2>1
  <2>3. begins \in Seq(Nat) /\ Len(begins) = count /\ Len(prog) = count
    BY <1>3, <2>1 DEF CopyInv, Copies, Trace
  <2> QED BY <2>1, <2>2, <2>3
<1>5. /\ begins' \in Seq(Nat) /\ Len(begins') = count + 1
      /\ \A k \in 1 .. count : begins'[k] = begins[k]
      /\ begins'[count + 1] = outp
  BY <1>3, <1>4, AppendProperties
<1>6. ASSUME NEW k \in 0 .. count PROVE Begin(k)' = Begin(k)
  <2>1. CASE k < count
    <3>1. k + 1 \in 1 .. count
      BY <1>4, <2>1
    <3>2. k < Len(begins')
      BY <1>4, <1>5, <2>1
    <3>3. Begin(k)' = begins'[k + 1] /\ Begin(k) = begins[k + 1]
      BY <1>4, <2>1, <3>2 DEF Begin
    <3> QED BY <1>5, <3>1, <3>3
  <2>2. CASE k = count
    <3>1. k < Len(begins')
      BY <1>4, <1>5, <2>2
    <3>2. Begin(k)' = begins'[k + 1]
      BY <3>1 DEF Begin
    <3> QED BY <1>4, <1>5, <2>2, <3>2
  <2> QED BY <1>4, <2>1, <2>2
<1>7. ASSUME NEW q \in 0 .. outp - 1 PROVE Of(q)' = Of(q)
  <2>1. Bounds /\ Placed /\ n \in Nat /\ w \in Nat
    BY DEF CopyInv
  <2>2. Joins(code', n, words, w)
    BY <1>2, <2>1, PutIs, Zenon
  <2>3. q + 1 \in 1 .. outp
    BY <1>4
  <2> QED BY <2>2, <2>3 DEF Joins, Of
<1>8. Untouched
  BY <1>3, <1>6, <1>7 DEF Untouched
<1>9. /\ prog \in Seq(Instructions) /\ \A k \in 1 .. Len(prog) : prog[k] \in site.mix
      /\ dat \in [Indices -> Int]
      /\ \A j, k \in 0 .. count : j <= k =>
           Begin(j) <= Begin(k) /\ Begin(k) - Begin(j) <= Largest * (k - j)
      /\ \A k \in 0 .. count : Begin(k) \in Nat /\ Begin(k) <= outp
  BY <1>3, <1>4 DEF CopyInv, Copies, Trace
<1>10. \A k \in 0 .. count : Begin(k)' \in Nat /\ Begin(k)' <= outp'
  <2> SUFFICES ASSUME NEW k \in 0 .. count PROVE Begin(k)' \in Nat /\ Begin(k)' <= outp'
    OBVIOUS
  <2>1. Begin(k) \in Nat /\ Begin(k) <= outp
    BY <1>9
  <2>2. Begin(k)' = Begin(k)
    BY <1>6
  <2>3. PICK x \in Nat : x = Begin(k) /\ x <= outp
    BY <2>1
  <2> QED BY <1>4, <2>2, <2>3
<1>11. \A j, k \in 0 .. count : j <= k =>
         Begin(j)' <= Begin(k)' /\ Begin(k)' - Begin(j)' <= Largest * (k - j)
  BY <1>6, <1>9
<1>12. Len(prog') = IF i' <= count' THEN i' ELSE count'
  BY <1>3, <1>4
<1>13. Len(begins') = i' /\ begins' \in Seq(Nat)
  BY <1>3, <1>5
<1>14. Trace'
  BY <1>3, <1>9, <1>10, <1>11, <1>12, <1>13 DEF Trace
<1> QED BY <1>8, <1>14

LEMMA CloseCloses ==
  ASSUME CopyInv, FieldsReach, Close
  PROVE  Closed'
<1>1. PICK n \in 0 .. 1, w \in 1 .. 4 : \E words :
        /\ WordsOf(words, w) /\ code' = Put(n, words) /\ outp' = outp + n + w
        /\ JumpsBack(n, words, w)
  BY CloseWords, Zenon
<1>2. PICK words : WordsOf(words, w) /\ code' = Put(n, words) /\ JumpsBack(n, words, w)
  BY <1>1
<1>3. /\ i = count /\ count' = count /\ site' = site /\ count \in 1 .. 5 /\ outp \in Nat
      /\ Begin(count) = outp /\ site.in \in Nat /\ site.out \in Nat
  BY CopyTypes DEF Close
<1>4. PICK t \in Nat : t = From(count) /\ t = Here
  BY <1>3 DEF From, Here
<1>5. PICK b \in Nat, p \in Nat, e \in Nat : b = outp /\ p = b + n /\ e = outp'
  BY <1>1, <1>3
<1>6. t = From(count)' /\ b = Begin(count)' /\ e = outp'
  <2>1. count \in 0 .. count /\ count <= i
    BY <1>3
  <2>2. Begin(count)' = outp
    <3>1. \A k \in 0 .. count : k <= i => Begin(k)' = Begin(k)
      BY CloseUntouched DEF Untouched
    <3>2. PICK k : k = count
      OBVIOUS
    <3>3. Begin(k)' = Begin(k)
      BY <2>1, <3>1, <3>2
    <3> QED BY <1>3, <3>2, <3>3
  <2> QED BY <1>3, <1>4, <1>5, <2>2 DEF From
<1>7. Joins(code', n, words, w)
  <2>1. Bounds /\ Placed /\ n \in Nat /\ w \in Nat
    BY DEF CopyInv
  <2> QED BY <1>2, <2>1, PutIs, Zenon
<1>8. Nops(b, n)'
  <2>1. \A m \in 0 .. n - 1 : m + 1 \in 1 .. n /\ outp + (m + 1) = b + m + 1
    BY <1>3, <1>5
  <2>2. \A m \in 0 .. n - 1 : code'[b + m + 1] = Nop
    BY <1>7, <2>1 DEF Joins
  <2> QED BY <2>2 DEF Nops, Of
<1>9. \A m \in 0 .. w - 1 : Of(p + m)' = words[m + 1]
  <2> SUFFICES ASSUME NEW m \in 0 .. w - 1 PROVE Of(p + m)' = words[m + 1]
    OBVIOUS
  <2>1. m + 1 \in 1 .. w /\ outp + n + (m + 1) = p + m + 1
    BY <1>3, <1>5
  <2> QED BY <1>7, <2>1 DEF Joins, Of
<1>10. CASE w = 4 /\ words = AbsoluteJump(Here) /\ CloseTooFar
  <2>1. 0 \in 0 .. w - 1 /\ 1 \in 0 .. w - 1 /\ 2 \in 0 .. w - 1
    BY <1>10
  <2>2. Of(p + 0)' = words[0 + 1] /\ Of(p + 1)' = words[1 + 1] /\ Of(p + 2)' = words[2 + 1]
    BY <1>9, <2>1
  <2>3. Of(p)' = words[1] /\ Of(p + 1)' = words[2] /\ Of(p + 2)' = words[3]
    BY <2>2
  <2>4. words = <<LdrX17(2), BrX17>> \o Address(4 * t)
    BY <1>4, <1>10, Zenon DEF AbsoluteJump
  <2>5. Four(words, LdrX17(2), BrX17, 4 * t)
    BY <2>4, FourAre, Zenon
  <2>6. JumpAt(p, t)'
    BY <2>3, <2>5 DEF Four, JumpAt
  <2>7. e = b + n + 4 /\ e <= b + 9
    BY <1>1, <1>3, <1>5, <1>10
  <2>8. Away(t, b, e)
    <3>1. Abs(t - Rx(outp)) >= Reach(BranchSpan)
      BY <1>4, <1>10 DEF CloseTooFar
    <3>2. PICK s \in Nat : s = BranchSpan /\ s \div 2 >= 32
      BY RelocateAssumption DEF FieldsReach, TrampolineSize, MaxInstructions
    <3> QED BY <1>5, <2>7, <3>1, <3>2, FarAway
  <2>9. Away(t, b, e)'
    BY <1>3, <2>8 DEF Away, Rx
  <2>10. JumpAt(b + n, t)'
    BY <1>5, <2>6
  <2>11. Closes(n, t, b, e)'
    BY <1>6, <1>8, <2>7, <2>9, <2>10 DEF Closes
  <2> QED BY <2>11 DEF Closed
<1>11. CASE n = 0 /\ w = 1 /\ words = <<Word("b", Here - Rx(outp), 0)>>
  <2>1. 0 \in 0 .. w - 1
    BY <1>11
  <2>2. Of(p + 0)' = words[0 + 1]
    BY <1>9, <2>1
  <2>3. Of(b)' = Word("b", t - Rx(b), 0)
    BY <1>4, <1>5, <1>11, <2>2
  <2>4. Of(b)' = Word("b", t - Rx(b)', 0)
    BY <1>3, <2>3 DEF Rx
  <2>5. e = b + 1
    BY <1>1, <1>3, <1>5, <1>11
  <2>6. Closes(n, t, b, e)'
    BY <1>6, <1>8, <1>11, <2>4, <2>5 DEF Closes
  <2> QED BY <2>6 DEF Closed
<1> QED BY <1>2, <1>10, <1>11, Zenon DEF JumpsBack

LEMMA StutterKeeps ==
  ASSUME CopyInv, UNCHANGED vars
  PROVE  Copies' /\ (Closed => Closed')
<1>1. /\ count' = count /\ site' = site /\ prog' = prog /\ dat' = dat /\ fmap' = fmap
      /\ i' = i /\ begins' = begins /\ outp' = outp /\ code' = code
  BY DEF vars
<1>2. (\A k : Begin(k)' = Begin(k)) /\ \A q : Of(q)' = Of(q)
  BY <1>1 DEF Begin, Of
<1>3. i \in Nat /\ count \in Nat
  BY CopyTypes
<1>4. Untouched
  BY <1>1, <1>2, <1>3 DEF Untouched
<1>5. Trace'
  BY <1>1, <1>2 DEF CopyInv, Copies, Trace
<1>6. ASSUME Closed PROVE Closed'
  <2>1. PICK n \in 0 .. 1 : \E t, b, e : Closes(n, t, b, e)
    BY <1>6 DEF Closed
  <2>2. PICK t, b, e : Closes(n, t, b, e)
    BY <2>1
  <2>3. Closes(n, t, b, e)'
    BY <1>1, <1>2, <2>2 DEF Closes, From, Nops, JumpAt, Away, Rx
  <2> QED BY <2>3 DEF Closed
<1> QED BY <1>4, <1>5, <1>6, UntouchedCopies

LEMMA InitCopies == Init => Copies
<1> SUFFICES ASSUME Init PROVE Copies
  OBVIOUS
<1>1. /\ begins = <<>> /\ prog = <<>> /\ i = 0 /\ outp = 0 /\ count \in 1 .. 5
      /\ dat = [k \in Indices |-> 0] /\ fmap = [k \in Indices |-> <<>>]
  BY DEF Init, Counts, Indices
<1>2. /\ begins \in Seq(Nat) /\ Len(begins) = 0 /\ prog \in Seq(Instructions) /\ Len(prog) = 0
  BY <1>1
<1>3. \A k \in 0 .. count : k <= i => k = 0 /\ Begin(k) = 0
  BY <1>1, <1>2 DEF Begin
<1>4. Trace
  BY <1>1, <1>2, <1>3 DEF Trace, Largest
<1>5. Entries
  <2>1. \A r \in Indices : DOMAIN fmap[r] = {}
    BY <1>1
  <2> QED BY <2>1 DEF Entries
<1>6. \A k \in Indices : ~(k < i)
  BY <1>1 DEF Indices
<1> QED BY <1>4, <1>5, <1>6 DEF Copies

CodeInv == CopyInv /\ (Done => Closed)

LEMMA MoveCopies ==
  ASSUME CopyInv, FieldsReach, NEW ins \in site.mix, Move(ins)
  PROVE  Copies' /\ i < count /\ i' = i + 1 /\ count' = count
<1>1. Copies'
  BY BranchCopies, CallCopies, BranchNearCopies, CondCopies, CondNearCopies, PlainCopies,
     LoadCopies, NearLoadCopies, AddressCopies, AddressNearCopies, PageCopies, Zenon DEF Move
<1>2. i < count /\ i' = i + 1 /\ count' = count
  BY Zenon DEF Move, BranchAbsolute, CallAbsolute, BranchRelative, CondAbsolute, CondRelative,
     Prefetch, LoadCopied, LoadRelative, AdrAbsolute, AdrRelative, AdrpAbsolute, AdrpCopied, Plain,
     Moving, Emit
<1> QED BY <1>1, <1>2

LEMMA AlwaysCopied == FieldsReach => (Spec => []CodeInv)
<1> SUFFICES ASSUME FieldsReach PROVE Spec => []CodeInv
  OBVIOUS
<1>1. Bounds /\ Placed /\ Init => CodeInv
  <2> SUFFICES ASSUME Bounds, Placed, Init PROVE CodeInv
    OBVIOUS
  <2>1. ~Done
    BY DEF Init, Counts, Done
  <2> QED BY <2>1, InitCopies DEF CodeInv, CopyInv
<1>2. CodeInv /\ [Next]_vars /\ (Bounds /\ Placed)' => CodeInv'
  <2> SUFFICES ASSUME CodeInv, [Next]_vars, (Bounds /\ Placed)' PROVE CodeInv'
    OBVIOUS
  <2>1. CopyInv /\ i \in Nat /\ count \in Nat
    BY CopyTypes DEF CodeInv
  <2>2. CASE Close
    <3>1. Copies' /\ Closed'
      BY <2>1, <2>2, CloseUntouched, UntouchedCopies, CloseCloses
    <3> QED BY <3>1 DEF CodeInv, CopyInv
  <2>3. ASSUME NEW ins \in site.mix, Move(ins) PROVE CodeInv'
    <3>1. Copies' /\ i < count /\ i' = i + 1 /\ count' = count
      BY <2>1, <2>3, MoveCopies
    <3>2. ~Done'
      BY <2>1, <3>1 DEF Done
    <3> QED BY <3>1, <3>2 DEF CodeInv, CopyInv
  <2>4. CASE UNCHANGED vars
    <3>1. Copies' /\ (Closed => Closed')
      BY <2>1, <2>4, StutterKeeps
    <3>2. Done' <=> Done
      BY <2>4 DEF vars, Done
    <3> QED BY <3>1, <3>2 DEF CodeInv, CopyInv
  <2> QED BY <2>2, <2>3, <2>4 DEF Next
<1> QED BY <1>1, <1>2, AlwaysPlaced, PTL DEF Spec

-----------------------------------------------------------------------------
(* What the words do when they are executed.  Ends says where m    *)
(* steps among the words from lo to hi lead from state s.                    *)
St(pc, x17, lr, effect) == [pc |-> pc, x17 |-> x17, lr |-> lr, effect |-> effect]
Ends(s, m, f, lo, hi, taken) ==
  LET on(x) == On(x, lo, hi, taken)
  IN  /\ m = 0 => f = s
      /\ m = 1 => f = on(s)
      /\ m = 2 => f = on(on(s))
      /\ m = 3 => f = on(on(on(s)))
      /\ m = 4 => f = on(on(on(on(s))))
      /\ m = 5 => f = on(on(on(on(on(s)))))

LEMMA RunEnds ==
  ASSUME NEW lo, NEW hi, NEW taken, NEW f, Ends(St(lo, -1, -1, <<>>), 5, f, lo, hi, taken)
  PROVE  Run(lo, hi, taken) = f
BY DEF Run, Ends, Processor, St

LEMMA EndsThen ==
  ASSUME NEW lo, NEW hi, NEW taken, NEW s, NEW u, NEW f, NEW m \in 1 .. 5,
         On(s, lo, hi, taken) = u, Ends(u, m - 1, f, lo, hi, taken)
  PROVE  Ends(s, m, f, lo, hi, taken)
<1>1. m \in {1, 2, 3, 4, 5}
  OBVIOUS
<1>2. CASE m = 1
  BY <1>2, m - 1 = 0 DEF Ends
<1>3. CASE m = 2
  BY <1>3, m - 1 = 1 DEF Ends
<1>4. CASE m = 3
  BY <1>4, m - 1 = 2 DEF Ends
<1>5. CASE m = 4
  BY <1>5, m - 1 = 3 DEF Ends
<1>6. CASE m = 5
  BY <1>6, m - 1 = 4 DEF Ends
<1> QED BY <1>1, <1>2, <1>3, <1>4, <1>5, <1>6

LEMMA EndsThere ==
  ASSUME NEW lo, NEW hi, NEW taken, NEW s, NEW m \in 0 .. 5, On(s, lo, hi, taken) = s
  PROVE  Ends(s, m, s, lo, hi, taken)
BY DEF Ends

\* Control that has left the words stays where it is.
LEMMA Outside ==
  ASSUME NEW lo, NEW hi, NEW taken, NEW a, NEW x, NEW l, NEW f, a < lo \/ a >= hi,
         lo \in Int, hi \in Int, a \in Int
  PROVE  On(St(a, x, l, f), lo, hi, taken) = St(a, x, l, f)
BY DEF On, St

\* One word.
LEMMA WordDoes ==
  ASSUME NEW lo, NEW hi, NEW taken, NEW a, NEW x, NEW l, NEW f, a >= lo, a < hi,
         NEW w, w = At(a)
  PROVE  /\ w.op = "nop" => On(St(a, x, l, f), lo, hi, taken) = St(a + 1, x, l, f)
         /\ w.op = "b" => On(St(a, x, l, f), lo, hi, taken) = St(a + w.off, x, l, f)
         /\ w.op = "bl" => On(St(a, x, l, f), lo, hi, taken) = St(a + w.off, x, a + 1, f)
         /\ w.op = "ldr17" => On(St(a, x, l, f), lo, hi, taken) = St(a + 1, LitAt(a + w.off), l, f)
         /\ w.op = "adr30" => On(St(a, x, l, f), lo, hi, taken) = St(a + 1, x, a + w.off, f)
         /\ w.op = "br17" => On(St(a, x, l, f), lo, hi, taken) = St(x \div 4, x, l, f)
<1>1. PICK s : s = St(a, x, l, f)
  OBVIOUS
<1>2. s.pc = a /\ s.x17 = x /\ s.lr = l /\ s.effect = f
  BY <1>1 DEF St
<1>3. On(s, lo, hi, taken) = Step(s, taken)
  BY <1>2 DEF On
<1>4. ASSUME w.op = "nop" PROVE Step(s, taken) = St(a + 1, x, l, f)
  BY <1>1, <1>4 DEF Step, St
<1>5. ASSUME w.op = "b" PROVE Step(s, taken) = St(a + w.off, x, l, f)
  BY <1>1, <1>5 DEF Step, St
<1>6. ASSUME w.op = "bl" PROVE Step(s, taken) = St(a + w.off, x, a + 1, f)
  BY <1>1, <1>6 DEF Step, St
<1>7. ASSUME w.op = "ldr17" PROVE Step(s, taken) = St(a + 1, LitAt(a + w.off), l, f)
  BY <1>1, <1>7 DEF Step, St
<1>8. ASSUME w.op = "adr30" PROVE Step(s, taken) = St(a + 1, x, a + w.off, f)
  BY <1>1, <1>8 DEF Step, St
<1>9. ASSUME w.op = "br17" PROVE Step(s, taken) = St(x \div 4, x, l, f)
  BY <1>1, <1>9 DEF Step, St
<1> QED BY <1>1, <1>3, <1>4, <1>5, <1>6, <1>7, <1>8, <1>9

Chosen(taken, a, off) == IF taken THEN a + off ELSE a + 1
LEMMA CondDoes ==
  ASSUME NEW lo, NEW hi, NEW taken \in BOOLEAN, NEW a, NEW x, NEW l, NEW f, a >= lo, a < hi,
         NEW w, w = At(a), w.op \in {"cond", "test"}
  PROVE  On(St(a, x, l, f), lo, hi, taken) = St(Chosen(taken, a, w.off), x, l, f)
<1>1. PICK s : s = St(a, x, l, f)
  OBVIOUS
<1>2. s.pc = a
  BY <1>1 DEF St
<1>3. On(s, lo, hi, taken) = Step(s, taken)
  BY <1>2 DEF On
<1>4. ASSUME taken PROVE Step(s, taken) = St(a + w.off, x, l, f)
  BY <1>1, <1>4 DEF Step, St
<1>5. ASSUME ~taken PROVE Step(s, taken) = St(a + 1, x, l, f)
  BY <1>1, <1>5 DEF Step, St
<1>6. (taken => Chosen(taken, a, w.off) = a + w.off) /\ (~taken => Chosen(taken, a, w.off) = a + 1)
  BY Zenon DEF Chosen
<1>7. Step(s, taken) = St(Chosen(taken, a, w.off), x, l, f)
  BY <1>4, <1>5, <1>6, Zenon
<1> QED BY <1>1, <1>3, <1>7

\* A word that does something, from the beginning.
Fetched(w, a) ==
  <<w.arg, [n \in 1 .. (IF w.arg = "reserved" THEN 0 ELSE Width(w.arg)) |-> DataAt(a + w.off + n - 1)]>>

PlainEffect(x) == <<<<"plain", x>>>>
LoadEffect(w, a) == <<Fetched(w, a)>>
AddressEffect(x, rd) == <<<<"address", x, rd>>>>

LEMMA EffectIs ==
  ASSUME NEW lo, NEW hi, NEW taken, NEW a, NEW x, NEW l, a >= lo, a < hi, NEW w, w = At(a)
  PROVE  /\ w.op = "plain" =>
              On(St(a, x, l, <<>>), lo, hi, taken) = St(a + 1, x, l, PlainEffect(w.arg))
         /\ w.op = "load" =>
              On(St(a, x, l, <<>>), lo, hi, taken) = St(a + 1, x, l, LoadEffect(w, a))
         /\ w.op = "ldrd" =>
              On(St(a, x, l, <<>>), lo, hi, taken)
                = St(a + 1, x, l, AddressEffect(LitAt(a + w.off), 0))
         /\ w.op = "adr" =>
              On(St(a, x, l, <<>>), lo, hi, taken)
                = St(a + 1, x, l, AddressEffect(4 * (a + w.off) + w.arg.lo, w.arg.rd))
<1>1. PICK s : s = St(a, x, l, <<>>)
  OBVIOUS
<1>2. s.pc = a /\ s.x17 = x /\ s.lr = l /\ s.effect = <<>>
  BY <1>1 DEF St
<1>3. On(s, lo, hi, taken) = Step(s, taken)
  BY <1>2 DEF On
<1>4. \A e : Append(<<>>, e) = <<e>>
  OBVIOUS
<1>5. ASSUME w.op = "plain" PROVE Step(s, taken) = St(a + 1, x, l, PlainEffect(w.arg))
  <2>1. Step(s, taken) = St(a + 1, x, l, Append(<<>>, <<"plain", w.arg>>))
    BY <1>1, <1>5 DEF Step, St
  <2> QED BY <1>4, <2>1 DEF PlainEffect
<1>6. ASSUME w.op = "load" PROVE Step(s, taken) = St(a + 1, x, l, LoadEffect(w, a))
  <2>1. Step(s, taken) = St(a + 1, x, l, Append(<<>>, Fetched(w, a)))
    BY <1>1, <1>6 DEF Step, St, Fetched
  <2> QED BY <1>4, <2>1, Zenon DEF LoadEffect
<1>7. ASSUME w.op = "ldrd"
      PROVE  Step(s, taken) = St(a + 1, x, l, AddressEffect(LitAt(a + w.off), 0))
  <2>1. Step(s, taken) = St(a + 1, x, l, Append(<<>>, <<"address", LitAt(a + w.off), 0>>))
    BY <1>1, <1>7 DEF Step, St
  <2> QED BY <1>4, <2>1 DEF AddressEffect
<1>8. ASSUME w.op = "adr"
      PROVE  Step(s, taken) = St(a + 1, x, l, AddressEffect(4 * (a + w.off) + w.arg.lo, w.arg.rd))
  <2>1. Step(s, taken)
          = St(a + 1, x, l, Append(<<>>, <<"address", 4 * (a + w.off) + w.arg.lo, w.arg.rd>>))
    BY <1>1, <1>8 DEF Step, St
  <2> QED BY <1>4, <2>1 DEF AddressEffect
<1> QED BY <1>1, <1>3, <1>5, <1>6, <1>7, <1>8

-----------------------------------------------------------------------------
\* When the jump back is written.
LEMMA DoneTypes ==
  ASSUME CodeInv, Done
  PROVE  /\ site \in Sites /\ site.in \in Nat /\ site.out \in Nat
         /\ count \in 1 .. 5 /\ i = count + 1 /\ outp \in Nat /\ outp <= 50
         /\ Len(begins) = count + 1 /\ Len(prog) = count
<1>1. CopyInv /\ i = count + 1
  BY DEF CodeInv, Done
<1>2. /\ site \in Sites /\ site.in \in Nat /\ site.out \in Nat
      /\ count \in 1 .. 5 /\ outp \in Nat
  BY <1>1, CopyTypes
<1>3. outp <= 50
  BY <1>1, <1>2 DEF CopyInv, Bounds, Space, Largest
<1>4. Len(begins) = i /\ Len(prog) = IF i <= count THEN i ELSE count
  BY <1>1 DEF CopyInv, Copies, Trace
<1> QED BY <1>1, <1>2, <1>3, <1>4

LEMMA RxAdds ==
  ASSUME CodeInv, Done, NEW q \in Int, NEW d \in Int
  PROVE  Rx(q) \in Int /\ Rx(q + d) = Rx(q) + d
<1>1. PICK o \in Int : o = site.out
  BY DoneTypes
<1>2. Rx(q) = o + q /\ Rx(q + d) = o + (q + d)
  BY <1>1 DEF Rx
<1> QED BY <1>2

LEMMA AtIs ==
  ASSUME CodeInv, Done, NEW q \in Int
  PROVE  /\ At(Rx(q)) = Of(q)
         /\ (Written(Rx(q)) <=> q >= 0 /\ q < outp)
         /\ Rx(q) \in Int /\ Rx(q + 1) = Rx(q) + 1
<1>1. site.out \in Nat /\ outp \in Nat
  BY DoneTypes
<1>2. At(Rx(q)) = Of(q)
  <2>1. PICK a : a = Rx(q)
    OBVIOUS
  <2>2. a - site.out + 1 = q + 1
    <3>1. PICK o \in Int : o = site.out
      BY <1>1
    <3>2. a = o + q
      BY <2>1, <3>1 DEF Rx
    <3> QED BY <3>1, <3>2
  <2> QED BY <2>1, <2>2, Zenon DEF At, Of
<1>3. Written(Rx(q)) <=> q >= 0 /\ q < outp
  BY <1>1 DEF Written, Rx
<1> QED BY <1>1, <1>2, <1>3 DEF Rx

LEMMA LitIs ==
  ASSUME CodeInv, Done, NEW q \in Nat, q < outp, NEW x, Of(q) = Word("lit", 0, x)
  PROVE  LitAt(Rx(q)) = x
<1>1. At(Rx(q)) = Word("lit", 0, x) /\ Written(Rx(q))
  BY AtIs
<1> QED BY <1>1 DEF LitAt, Word

\* LDR X17, #8; BR X17
LEMMA JumpEnds ==
  ASSUME CodeInv, Done, NEW lo \in Int, NEW hi \in Int, NEW taken, NEW p \in Nat, p + 4 <= outp,
         NEW t \in Int, JumpAt(p, t), NEW x, NEW l, NEW f, NEW m \in 2 .. 5,
         lo <= Rx(p), Rx(p + 4) <= hi, t < lo \/ t >= hi
  PROVE  Ends(St(Rx(p), x, l, f), m, St(t, 4 * t, l, f), lo, hi, taken)
<1>0. PICK a : a = Rx(p)
  OBVIOUS
<1>1. /\ a \in Int /\ Rx(p + 1) = a + 1 /\ Rx(p + 2) = a + 2 /\ Rx(p + 4) = a + 4
      /\ a = Rx(p)
  <2>1. p \in Int /\ 1 \in Int /\ 2 \in Int /\ 4 \in Int
    OBVIOUS
  <2>2. Rx(p) \in Int /\ Rx(p + 1) = Rx(p) + 1
    BY <2>1, RxAdds
  <2>3. Rx(p + 2) = Rx(p) + 2
    BY <2>1, RxAdds, Zenon
  <2>4. Rx(p + 4) = Rx(p) + 4
    BY <2>1, RxAdds, Zenon
  <2> QED BY <1>0, <2>2, <2>3, <2>4
<1>2. At(a) = LdrX17(2) /\ At(a + 1) = BrX17
  <2>1. At(Rx(p)) = Of(p) /\ At(Rx(p + 1)) = Of(p + 1)
    BY AtIs
  <2> QED BY <1>1, <2>1 DEF JumpAt
<1>3. LitAt(a + 2) = 4 * t
  <2>1. p + 2 \in Nat /\ p + 2 < outp
    BY DoneTypes
  <2> QED BY <1>1, <2>1, LitIs DEF JumpAt
<1>4. a >= lo /\ a < hi /\ a + 1 >= lo /\ a + 1 < hi
  BY <1>1
<1>5. On(St(a, x, l, f), lo, hi, taken) = St(a + 1, 4 * t, l, f)
  <2>1. PICK w : w = At(a) /\ w.op = "ldr17" /\ w.off = 2
    BY <1>2 DEF LdrX17, Word
  <2>2. On(St(a, x, l, f), lo, hi, taken) = St(a + 1, LitAt(a + w.off), l, f)
    BY <1>4, <2>1, WordDoes
  <2> QED BY <1>3, <2>1, <2>2
<1>6. On(St(a + 1, 4 * t, l, f), lo, hi, taken) = St(t, 4 * t, l, f)
  <2>1. PICK w, c : w = At(c) /\ w.op = "br17" /\ c = a + 1
    BY <1>2 DEF BrX17, Word
  <2>2. PICK y : y = 4 * t
    OBVIOUS
  <2>3. On(St(c, y, l, f), lo, hi, taken) = St(y \div 4, y, l, f)
    BY <1>4, <2>1, WordDoes
  <2>4. y \div 4 = t
    BY <2>2
  <2> QED BY <2>1, <2>2, <2>3, <2>4
<1>7. On(St(t, 4 * t, l, f), lo, hi, taken) = St(t, 4 * t, l, f)
  BY Outside
<1>8. Ends(St(t, 4 * t, l, f), m - 2, St(t, 4 * t, l, f), lo, hi, taken)
  BY <1>7, EndsThere, m - 2 \in 0 .. 5
<1>9. Ends(St(a + 1, 4 * t, l, f), m - 1, St(t, 4 * t, l, f), lo, hi, taken)
  <2>1. m - 1 \in 1 .. 5 /\ (m - 1) - 1 = m - 2
    OBVIOUS
  <2> QED BY <1>6, <1>8, <2>1, EndsThen
<1>10. Ends(St(a, x, l, f), m, St(t, 4 * t, l, f), lo, hi, taken)
  BY <1>5, <1>9, EndsThen
<1> QED BY <1>1, <1>10

\* NOPs lead to what is behind them.
LEMMA NopEnds ==
  ASSUME CodeInv, Done, NEW lo \in Int, NEW hi \in Int, NEW taken, NEW q \in Nat, Of(q) = Nop,
         lo <= Rx(q), Rx(q) < hi, NEW m \in 1 .. 5, NEW x, NEW l, NEW e, NEW f,
         Ends(St(Rx(q + 1), x, l, e), m - 1, f, lo, hi, taken)
  PROVE  Ends(St(Rx(q), x, l, e), m, f, lo, hi, taken)
<1>0. PICK a, w : a = Rx(q) /\ w = At(a)
  OBVIOUS
<1>1. a = Rx(q) /\ w = At(a) /\ a \in Int /\ Rx(q + 1) = a + 1 /\ w.op = "nop"
  BY <1>0, AtIs DEF Nop, Word
<1>2. On(St(a, x, l, e), lo, hi, taken) = St(a + 1, x, l, e)
  BY <1>1, WordDoes
<1> QED BY <1>1, <1>2, EndsThen

LEMMA NopsEnd ==
  ASSUME CodeInv, Done, NEW lo, NEW hi \in Int, NEW taken, NEW b \in Nat, NEW n \in 0 .. 3,
         Nops(b, n), lo = Rx(b), Rx(b + n) <= hi, NEW f,
         Ends(St(Rx(b + n), -1, -1, <<>>), 5 - n, f, lo, hi, taken)
  PROVE  Run(lo, hi, taken) = f
<1>1. Rx(b) \in Int /\ Rx(b + 1) = Rx(b) + 1 /\ Rx(b + 2) = Rx(b) + 2 /\ Rx(b + 3) = Rx(b) + 3
  <2>1. b \in Int /\ 1 \in Int /\ 2 \in Int /\ 3 \in Int
    OBVIOUS
  <2>2. Rx(b) \in Int /\ Rx(b + 1) = Rx(b) + 1
    BY <2>1, RxAdds
  <2>3. Rx(b + 2) = Rx(b) + 2
    BY <2>1, RxAdds, Zenon
  <2>4. Rx(b + 3) = Rx(b) + 3
    BY <2>1, RxAdds, Zenon
  <2> QED BY <2>2, <2>3, <2>4
<1>2. lo \in Int
  BY <1>1
<1>3. n \in {0, 1, 2, 3} /\ b + 1 \in Nat /\ b + 2 \in Nat /\ b + 0 = b
      /\ (b + 1) + 1 = b + 2 /\ (b + 2) + 1 = b + 3
  OBVIOUS
<1>4. \A m \in 0 .. n - 1 : Of(b + m) = Nop
  BY DEF Nops
<1>5. (n >= 1 => Of(b) = Nop) /\ (n >= 2 => Of(b + 1) = Nop) /\ (n >= 3 => Of(b + 2) = Nop)
  <2>1. n >= 1 => 0 \in 0 .. n - 1
    OBVIOUS
  <2>2. (n >= 2 => 1 \in 0 .. n - 1) /\ (n >= 3 => 2 \in 0 .. n - 1)
    OBVIOUS
  <2> QED BY <1>3, <1>4, <2>1, <2>2
<1>12. \A m \in 0 .. n - 1 : lo <= lo + m /\ lo + m < hi
  <2>1. Rx(b + n) = Rx(b) + n
    BY RxAdds
  <2> QED BY <1>2, <2>1
<1>13. lo + 0 = lo
  BY <1>2
<1> DEFINE E(q, m) == Ends(St(Rx(q), -1, -1, <<>>), m, f, lo, hi, taken)
<1>6. E(b + n, 5 - n)
  OBVIOUS
<1>7. n >= 3 => (E(b + 3, 2) => E(b + 2, 3))
  <2> SUFFICES ASSUME n >= 3, E(b + 3, 2) PROVE E(b + 2, 3)
    OBVIOUS
  <2>1. PICK q \in Nat : q = b + 2 /\ q + 1 = b + 3
    BY <1>3
  <2>2. Of(q) = Nop
    BY <1>5, <2>1
  <2>5. Rx(q) \in Int /\ lo <= Rx(q) /\ Rx(q) < hi
    <3>1. 2 \in 0 .. n - 1
      OBVIOUS
    <3>2. Rx(q) = lo + 2
      BY <1>1, <1>13, <2>1
    <3> QED BY <1>2, <1>12, <3>1, <3>2
  <2>3. E(q + 1, 3 - 1)
    BY <2>1, 3 - 1 = 2
  <2>4. E(q, 3)
    BY <1>2, <2>2, <2>3, <2>5, NopEnds, 3 \in 1 .. 5
  <2> QED BY <2>1, <2>4
<1>8. n >= 2 => (E(b + 2, 3) => E(b + 1, 4))
  <2> SUFFICES ASSUME n >= 2, E(b + 2, 3) PROVE E(b + 1, 4)
    OBVIOUS
  <2>1. PICK q \in Nat : q = b + 1 /\ q + 1 = b + 2
    BY <1>3
  <2>2. Of(q) = Nop
    BY <1>5, <2>1
  <2>5. Rx(q) \in Int /\ lo <= Rx(q) /\ Rx(q) < hi
    <3>1. 1 \in 0 .. n - 1
      OBVIOUS
    <3>2. Rx(q) = lo + 1
      BY <1>1, <1>13, <2>1
    <3> QED BY <1>2, <1>12, <3>1, <3>2
  <2>3. E(q + 1, 4 - 1)
    BY <2>1, 4 - 1 = 3
  <2>4. E(q, 4)
    BY <1>2, <2>2, <2>3, <2>5, NopEnds, 4 \in 1 .. 5
  <2> QED BY <2>1, <2>4
<1>9. n >= 1 => (E(b + 1, 4) => E(b, 5))
  <2> SUFFICES ASSUME n >= 1, E(b + 1, 4) PROVE E(b, 5)
    OBVIOUS
  <2>1. PICK q \in Nat : q = b /\ q + 1 = b + 1
    BY <1>3
  <2>2. Of(q) = Nop
    BY <1>5, <2>1
  <2>5. Rx(q) \in Int /\ lo <= Rx(q) /\ Rx(q) < hi
    <3>1. 0 \in 0 .. n - 1
      OBVIOUS
    <3>2. Rx(q) = lo + 0
      BY <1>1, <1>13, <2>1
    <3> QED BY <1>2, <1>12, <3>1, <3>2
  <2>3. E(q + 1, 5 - 1)
    BY <2>1, 5 - 1 = 4
  <2>4. E(q, 5)
    BY <1>2, <2>2, <2>3, <2>5, NopEnds, 5 \in 1 .. 5
  <2> QED BY <2>1, <2>4
<1> HIDE DEF E
<1>10. E(b, 5)
  BY <1>3, <1>6, <1>7, <1>8, <1>9
<1>11. Ends(St(lo, -1, -1, <<>>), 5, f, lo, hi, taken)
  BY <1>10 DEF E
<1> QED BY <1>11, RunEnds

-----------------------------------------------------------------------------
\* Where control lands: behind the NOPs.
LEMMA LandsHere ==
  ASSUME CodeInv, Done, NEW q \in Nat, q < outp, Of(q).op # "nop"
  PROVE  Land(Rx(q)) = Rx(q)
<1>0. PICK a, z : a = Rx(q) /\ z = Rx(outp)
  OBVIOUS
<1>1. /\ a \in Int /\ z \in Int /\ a < z /\ Written(a) /\ At(a).op # "nop"
      /\ a = Rx(q) /\ z = Rx(outp)
  <2>1. a \in Int /\ z \in Int /\ a < z
    BY <1>0, DoneTypes DEF Rx
  <2>2. At(a) = Of(q) /\ Written(a)
    BY <1>0, AtIs
  <2> QED BY <1>0, <2>1, <2>2
<1> DEFINE P(b) == (b = z \/ At(b).op # "nop") /\ \A c \in a .. b - 1 : At(c).op = "nop"
<1>2. Land(a) = CHOOSE b \in a .. z : P(b)
  BY <1>1 DEF Land
<1>3. a \in a .. z /\ P(a)
  BY <1>1
<1>4. \A b \in a .. z : P(b) => b = a
  <2> SUFFICES ASSUME NEW b \in a .. z, P(b), b # a PROVE FALSE
    OBVIOUS
  <2>1. a \in a .. b - 1
    BY <1>1
  <2> QED BY <1>1, <2>1
<1> HIDE DEF P
<1>5. (CHOOSE b \in a .. z : P(b)) = a
  BY <1>3, <1>4
<1> QED BY <1>1, <1>2, <1>5

LEMMA LandsNext ==
  ASSUME CodeInv, Done, NEW q \in Nat, q < outp, Of(q).op = "nop"
  PROVE  Land(Rx(q)) = Land(Rx(q + 1))
<1>0. PICK a, z : a = Rx(q) /\ z = Rx(outp)
  OBVIOUS
<1>1. /\ a \in Int /\ z \in Int /\ a < z /\ Written(a) /\ At(a).op = "nop"
      /\ a = Rx(q) /\ z = Rx(outp) /\ a + 1 = Rx(q + 1) /\ (Written(a + 1) <=> a + 1 < z)
  <2>1. a \in Int /\ z \in Int /\ a < z /\ a + 1 = Rx(q + 1)
    <3>1. a + 1 = Rx(q + 1) /\ a \in Int
      BY <1>0, RxAdds
    <3>2. z = site.out + outp /\ a = site.out + q
      BY <1>0 DEF Rx
    <3>3. site.out \in Nat /\ outp \in Nat
      BY DoneTypes
    <3> QED BY <3>1, <3>2, <3>3
  <2>2. At(a) = Of(q) /\ Written(a)
    BY <1>0, AtIs
  <2>3. Written(a + 1) <=> a + 1 < z
    BY <1>0, DoneTypes DEF Written, Rx
  <2> QED BY <1>0, <2>1, <2>2, <2>3
<1> DEFINE P(b) == (b = z \/ At(b).op # "nop") /\ \A c \in a .. b - 1 : At(c).op = "nop"
           Q(b) == (b = z \/ At(b).op # "nop") /\ \A c \in a + 1 .. b - 1 : At(c).op = "nop"
<1>2. Land(a) = CHOOSE b \in a .. z : P(b)
  BY <1>1 DEF Land
<1>3. CASE a + 1 < z
  <2>1. Land(a + 1) = CHOOSE b \in a + 1 .. z : Q(b)
    BY <1>1, <1>3 DEF Land
  <2>2. ASSUME NEW b PROVE (b \in a .. z /\ P(b)) <=> (b \in a + 1 .. z /\ Q(b))
    <3>1. CASE b \in a + 1 .. z
      <4>1. \A c \in a .. b - 1 : c = a \/ c \in a + 1 .. b - 1
        BY <1>1, <3>1
      <4>2. \A c \in a + 1 .. b - 1 : c \in a .. b - 1
        BY <1>1, <3>1
      <4>3. b \in a .. z
        BY <1>1, <3>1
      <4> QED BY <1>1, <3>1, <4>1, <4>2, <4>3
    <3>2. CASE b \notin a + 1 .. z
      <4>1. b \in a .. z => b = a
        BY <1>1, <3>2
      <4> QED BY <1>1, <3>2, <4>1
    <3> QED BY <3>1, <3>2
  <2> HIDE DEF P, Q
  <2>3. (CHOOSE b : b \in a .. z /\ P(b)) = (CHOOSE b : b \in a + 1 .. z /\ Q(b))
    BY <2>2
  <2>4. (CHOOSE b \in a .. z : P(b)) = (CHOOSE b \in a + 1 .. z : Q(b))
    BY <2>3
  <2> QED BY <1>1, <1>2, <2>1, <2>4
<1>4. CASE ~(a + 1 < z)
  <2>1. Land(a + 1) = a + 1 /\ a + 1 = z
    BY <1>1, <1>4 DEF Land
  <2>2. z \in a .. z /\ P(z)
    <3>1. \A c \in a .. z - 1 : c = a
      BY <1>1, <2>1
    <3> QED BY <1>1, <3>1
  <2>3. \A b \in a .. z : P(b) => b = z
    <3> SUFFICES ASSUME NEW b \in a .. z, P(b), b # z PROVE FALSE
      OBVIOUS
    <3>1. b = a
      BY <1>1, <2>1
    <3> QED BY <1>1, <3>1
  <2> HIDE DEF P
  <2>4. (CHOOSE b \in a .. z : P(b)) = z
    BY <2>2, <2>3
  <2> QED BY <1>1, <1>2, <2>1, <2>4
<1> QED BY <1>3, <1>4

LEMMA LandsBehind ==
  ASSUME CodeInv, Done, NEW b \in Nat, NEW n \in 0 .. 3, NEW m \in 0 .. n, Nops(b, n), b + n <= outp
  PROVE  Land(Rx(b)) = Land(Rx(b + m))
<1>1. m \in {0, 1, 2, 3} /\ b + 0 = b /\ outp \in Nat
      /\ (b + 1) + 1 = b + 2 /\ (b + 2) + 1 = b + 3
  BY DoneTypes
<1>2. ASSUME NEW q \in 0 .. n - 1 PROVE b + q \in Nat /\ b + q < outp /\ Of(b + q).op = "nop"
  <2>1. Of(b + q) = Nop
    BY DEF Nops
  <2> QED BY <1>1, <2>1 DEF Nop, Word
<1>3. m >= 1 => Land(Rx(b)) = Land(Rx(b + 1))
  <2> SUFFICES ASSUME m >= 1 PROVE Land(Rx(b)) = Land(Rx(b + 1))
    OBVIOUS
  <2>1. 0 \in 0 .. n - 1
    OBVIOUS
  <2> QED BY <1>1, <1>2, <2>1, LandsNext
<1>4. m >= 2 => Land(Rx(b + 1)) = Land(Rx(b + 2))
  <2> SUFFICES ASSUME m >= 2 PROVE Land(Rx(b + 1)) = Land(Rx(b + 2))
    OBVIOUS
  <2>1. 1 \in 0 .. n - 1
    OBVIOUS
  <2>2. Land(Rx(b + 1)) = Land(Rx((b + 1) + 1))
    BY <1>2, <2>1, LandsNext
  <2> QED BY <1>1, <2>2
<1>5. m >= 3 => Land(Rx(b + 2)) = Land(Rx(b + 3))
  <2> SUFFICES ASSUME m >= 3 PROVE Land(Rx(b + 2)) = Land(Rx(b + 3))
    OBVIOUS
  <2>1. 2 \in 0 .. n - 1
    OBVIOUS
  <2>2. Land(Rx(b + 2)) = Land(Rx((b + 2) + 1))
    BY <1>2, <2>1, LandsNext
  <2> QED BY <1>1, <2>2
<1> QED BY <1>1, <1>3, <1>4, <1>5

-----------------------------------------------------------------------------
\* An instruction and its copy, when the jump back is written.
Lays(k, ins, t, b, e, n) ==
  /\ Near(ins, t, b, e, n) \/ Fixed(k, ins, t, b, e, n)
  /\ ins = prog[k + 1] /\ t = AimFrom(From(k), ins)
  /\ ins \in site.mix /\ ins \in Instructions /\ t \in Int /\ From(k) \in Nat
  /\ begins[k + 1] = b /\ begins[k + 2] = e
  /\ b \in Nat /\ e \in Nat /\ b + n <= e /\ e <= outp
  /\ Nops(b, n) /\ Noted(k, b, n)

LEMMA CopyIs ==
  ASSUME CodeInv, Done, NEW k \in 0 .. count - 1
  PROVE  \E n \in 0 .. 3 : \E ins, t, b, e : Lays(k, ins, t, b, e, n)
<1>1. /\ CopyInv /\ count \in 1 .. 5 /\ i = count + 1 /\ Len(begins) = i /\ Len(prog) = count
      /\ k \in Indices /\ k < i /\ k < count
  BY DoneTypes DEF CodeInv, Indices, MaxInstructions
<1>2. PICK n \in 0 .. 3 : \E ins, t, b, e :
        /\ Place(k, ins, t, b, e) /\ Nops(b, n) /\ Noted(k, b, n)
        /\ Near(ins, t, b, e, n) \/ Fixed(k, ins, t, b, e, n)
  BY <1>1 DEF CopyInv, Copies, Copied
<1>3. PICK ins, t, b, e :
        /\ Place(k, ins, t, b, e) /\ Nops(b, n) /\ Noted(k, b, n)
        /\ Near(ins, t, b, e, n) \/ Fixed(k, ins, t, b, e, n)
  BY <1>2
<1>4. ins \in site.mix /\ ins \in Instructions /\ ins = prog[k + 1]
  <2>1. k + 1 \in 1 .. Len(prog) /\ prog \in Seq(Instructions)
    BY <1>1 DEF CopyInv, Copies, Trace
  <2>2. prog[k + 1] \in Instructions
    BY <2>1, ElementOfSeq
  <2>3. prog[k + 1] \in site.mix
    BY <1>1, <2>1 DEF CopyInv, Copies, Trace
  <2> QED BY <1>3, <2>2, <2>3 DEF Place
<1>5. From(k) \in Nat
  BY <1>1, CopyTypes
<1>6. t = AimFrom(From(k), ins) /\ t \in Int
  BY <1>3, <1>4, <1>5, AimTypes DEF Place
<1>7. b = Begin(k) /\ e = Begin(k + 1) /\ b \in Nat /\ e <= outp
  <2>1. k \in 0 .. count /\ k + 1 \in 0 .. count /\ k <= i /\ k + 1 <= i
    BY <1>1
  <2> QED BY <1>1, <1>3, <2>1 DEF Place, CopyInv, Copies, Trace
<1>8. begins[k + 1] = b /\ begins[k + 2] = e
  <2>1. k < Len(begins) /\ k + 1 < Len(begins) /\ (k + 1) + 1 = k + 2
    BY <1>1
  <2> QED BY <1>7, <2>1 DEF Begin
<1>9. e \in Nat /\ b + n <= e
  BY <1>3, <1>7, Extent
<1> QED BY <1>3, <1>4, <1>5, <1>6, <1>7, <1>8, <1>9 DEF Lays

\* What a copy's words are to lead to, and that they then are faithful.
Outcome(k, taken, f) ==
  /\ SameEffect(k, f.effect)
  /\ Corresponds(f.pc, IF Jumps(k, taken) THEN Target(k) ELSE From(k) + 1)
  /\ prog[k + 1].op = "bl" => Corresponds(f.lr, From(k) + 1)

Leads(k, b, e, n, taken) ==
  \E f : /\ Ends(St(Rx(b + n), -1, -1, <<>>), 5 - n, f, Rx(b), Rx(e), taken)
         /\ Outcome(k, taken, f)

LEMMA FaithfulIf ==
  ASSUME CodeInv, Done, NEW k \in 0 .. count - 1, NEW n \in 0 .. 3, NEW ins, NEW t, NEW b, NEW e,
         Lays(k, ins, t, b, e, n), \A taken \in BOOLEAN : Leads(k, b, e, n, taken)
  PROVE  Faithful(k)
<1> SUFFICES ASSUME NEW taken \in BOOLEAN PROVE Outcome(k, taken, Moved(k, taken))
  BY Zenon DEF Faithful, Outcome
<1>1. PICK f : /\ Ends(St(Rx(b + n), -1, -1, <<>>), 5 - n, f, Rx(b), Rx(e), taken)
               /\ Outcome(k, taken, f)
  BY DEF Leads
<1>2. /\ b \in Nat /\ e \in Nat /\ b + n <= e /\ Nops(b, n)
      /\ begins[k + 1] = b /\ begins[k + 2] = e
  BY DEF Lays
<1>3. PICK hi : hi = Rx(e)
  OBVIOUS
<1>4. hi \in Int /\ Rx(b + n) <= hi
  <2>1. site.out \in Nat
    BY DoneTypes
  <2> QED BY <1>2, <1>3, <2>1 DEF Rx
<1>5. Ends(St(Rx(b + n), -1, -1, <<>>), 5 - n, f, Rx(b), hi, taken)
  BY <1>1, <1>3
<1>6. PICK lo : lo = Rx(b)
  OBVIOUS
<1>7. Ends(St(Rx(b + n), -1, -1, <<>>), 5 - n, f, lo, hi, taken)
  BY <1>5, <1>6
<1>8. Run(lo, hi, taken) = f
  BY <1>2, <1>4, <1>6, <1>7, NopsEnd
<1>9. Moved(k, taken) = f
  BY <1>2, <1>3, <1>6, <1>8 DEF Moved
<1> QED BY <1>1, <1>9

\* Control at a copy, or at an address that was noted for it.
LEMMA ArrivesAtCopy ==
  ASSUME CodeInv, Done, NEW r \in 0 .. count, NEW a, Land(a) = Land(Rx(begins[r + 1])), NEW t, t = From(r)
  PROVE  Corresponds(a, t)
<1>1. PICK o \in Nat : o = site.in /\ t = o + r /\ From(count) = o + count
  BY DoneTypes DEF From
<1>2. t >= site.in /\ t <= From(count)
  <2>1. count \in Nat
    BY DoneTypes
  <2> QED BY <1>1, <2>1
<1>3. Ref(t) = r
  BY <1>1 DEF Ref
<1> QED BY <1>2, <1>3 DEF Corresponds

LEMMA Follows ==
  ASSUME CodeInv, Done, NEW k \in 0 .. count - 1, NEW n \in 0 .. 3, NEW ins, NEW t, NEW b, NEW e,
         Lays(k, ins, t, b, e, n)
  PROVE  Corresponds(Rx(e), From(k) + 1)
<1>1. PICK r \in 0 .. count : r = k + 1 /\ r + 1 = k + 2
  BY DoneTypes
<1>2. From(k) + 1 = From(r)
  <2>1. PICK o \in Nat : o = site.in
    BY DoneTypes
  <2> QED BY <1>1, <2>1 DEF From
<1>3. begins[r + 1] = e
  BY <1>1 DEF Lays
<1> QED BY <1>2, <1>3, ArrivesAtCopy

LEMMA InRange ==
  ASSUME CodeInv, Done, NEW t \in Int, InFixingRange(t), NEW r, r = Ref(t)
  PROVE  r \in 0 .. count - 1 /\ t = From(r)
<1>1. PICK o \in Nat : o = site.in
  BY DoneTypes
<1>2. t >= o /\ t < o + count /\ r = t - o
  BY <1>1 DEF InFixingRange, Ref
<1>3. r \in 0 .. count - 1 /\ t = o + r
  <2>1. count \in Nat
    BY DoneTypes
  <2> QED BY <1>1, <1>2, <2>1
<1> QED BY <1>1, <1>3 DEF From

LEMMA ArrivesAtNote ==
  ASSUME CodeInv, Done, NEW t \in Int, InFixingRange(t), NEW r, r = Ref(t), ~Aliased(r)
  PROVE  Corresponds(dat[r], t)
<1>1. r \in 0 .. count - 1 /\ r \in 0 .. count /\ t = From(r)
  BY InRange, DoneTypes
<1>2. PICK n \in 0 .. 3 : \E ins, s, b, e : Lays(r, ins, s, b, e, n)
  BY <1>1, CopyIs
<1>3. PICK ins, s, b, e : Lays(r, ins, s, b, e, n)
  BY <1>2
<1>4. b \in Nat /\ b + n <= outp /\ Nops(b, n) /\ Noted(r, b, n) /\ begins[r + 1] = b
  BY <1>3, DoneTypes DEF Lays
<1>5. PICK m \in 0 .. n : dat[r] = Rx(b + m)
  BY <1>4 DEF Noted
<1>6. Land(Rx(b)) = Land(Rx(b + m))
  BY <1>4, LandsBehind
<1>7. Land(dat[r]) = Land(Rx(begins[r + 1]))
  BY <1>4, <1>5, <1>6
<1> QED BY <1>1, <1>7, ArrivesAtCopy

\* The target as the code computes it is the target.
LEMMA AimIsTarget ==
  ASSUME CodeInv, Done, Ordinary, NEW k \in 0 .. count - 1, NEW n \in 0 .. 3,
         NEW ins, NEW t, NEW b, NEW e, Lays(k, ins, t, b, e, n), ~LosesSign(k),
         ins.op \in Relative \cup {"load"}
  PROVE  t = Target(k)
<1>1. /\ ins = prog[k + 1] /\ t = AimFrom(From(k), ins) /\ ins \in site.mix /\ ins.off \in Int
      /\ From(k) \in Nat
  BY DEF Lays, Instructions
<1>2. Encoded(site, ins)
  BY <1>1, DoneTypes DEF Ordinary
<1>3. ins.op \notin {"b", "bl"} => ins.off \in Nat
  BY <1>1 DEF LosesSign, Relative
<1>4. ins.op \in {"cond", "test"} => ins.off < CondField(ins) /\ CondField(ins) \in Nat \ {0}
  BY <1>2, RelocateAssumption DEF Encoded, CondField
<1>5. ins.op \in {"load", "adr"} => ins.off < WrapWords /\ WrapWords \in Nat \ {0}
  BY <1>2, RelocateAssumption DEF Encoded
<1>6. \A x \in Nat, y \in Nat \ {0} : x < y => x % y = x
  OBVIOUS
<1>7. Target(k) = From(k) + ins.off
  BY <1>1 DEF Target
<1>8. CASE ins.op \in {"b", "bl"}
  BY <1>1, <1>7, <1>8 DEF AimFrom
<1>9. CASE ins.op \in {"cond", "test"}
  <2>1. Unsigned(CondField(ins), ins.off) = ins.off
    BY <1>3, <1>4, <1>6, <1>9 DEF Unsigned
  <2> QED BY <1>1, <1>7, <1>9, <2>1 DEF AimFrom
<1>10. CASE ins.op \in {"load", "adr"}
  <2>1. ZeroExtended(ins.off) = ins.off
    BY <1>3, <1>5, <1>6, <1>10 DEF ZeroExtended
  <2> QED BY <1>1, <1>7, <1>10, <2>1 DEF AimFrom
<1> QED BY <1>8, <1>9, <1>10 DEF Relative

\* A word that keeps its offset is where the original was, or at a copy.
LEMMA NearArrives ==
  ASSUME CodeInv, Done, NEW k \in 0 .. count - 1, NEW n \in 0 .. 3,
         NEW ins, NEW t, NEW b, NEW e, Lays(k, ins, t, b, e, n), Near(ins, t, b, e, n),
         t = Target(k), ~LosesAlias(k)
  PROVE  Corresponds(Rx(b) + Of(b).off, t)
<1>1. Aimed(b, t) /\ ins.op # "load" /\ ins = prog[k + 1] /\ b \in Nat /\ t \in Int /\ Of(b).off \in Int
  BY DEF Near, Lays, Relative
<1>2. PICK a \in Int : a = Rx(b)
  BY <1>1, AtIs
<1>3. CASE ~InFixingRange(t)
  <2>1. Of(b).off = t - a
    BY <1>1, <1>2, <1>3 DEF Aimed
  <2>2. a + Of(b).off = t
    BY <1>1, <1>2, <2>1
  <2> QED BY <1>2, <1>3, <2>2 DEF Corresponds
<1>4. CASE InFixingRange(t)
  <2>1. PICK r \in Indices :
          /\ r = Ref(t)
          /\ IF r < i THEN Aliased(r) \/ Of(b).off = dat[r] - Rx(b)
             ELSE \E m \in DOMAIN fmap[r] : fmap[r][m].at = b
    BY <1>1, <1>4 DEF Aimed
  <2>2. r \in 0 .. count - 1 /\ t = From(r)
    BY <1>1, <1>4, <2>1, InRange
  <2>3. r < i
    BY <2>2, DoneTypes
  <2>4. ~Aliased(r)
    <3>1. Target(k) \in site.in .. From(count - 1)
      <4>1. PICK o \in Nat : o = site.in
        BY DoneTypes
      <4>2. t = o + r /\ From(count - 1) = o + (count - 1)
        BY <2>2, <4>1 DEF From
      <4>3. count \in Nat
        BY DoneTypes
      <4> QED BY <2>2, <4>1, <4>2, <4>3
    <3>2. Begin(r) = begins[r + 1]
      BY <2>2, DoneTypes DEF Begin
    <3> QED BY <1>1, <2>1, <3>1, <3>2 DEF LosesAlias, Aliased
  <2>5. Of(b).off = dat[r] - a
    BY <1>2, <2>1, <2>3, <2>4
  <2>6. dat[r] \in Int
    BY <2>1 DEF CodeInv, CopyInv, Copies, Trace
  <2>7. a + Of(b).off = dat[r]
    BY <1>2, <2>5, <2>6
  <2>8. Corresponds(dat[r], t)
    BY <1>1, <1>4, <2>1, <2>4, ArrivesAtNote
  <2> QED BY <1>2, <2>7, <2>8
<1> QED BY <1>3, <1>4

-----------------------------------------------------------------------------
\* The jumps.  What a jump does to nothing but control is no effect.
LEMMA NoEffect ==
  ASSUME NEW k, prog[k + 1].op \in {"b", "bl", "cond", "test", "prfm"}
  PROVE  SameEffect(k, <<>>)
<1>1. Effect(k) = <<>>
  BY DEF Effect
<1> QED BY <1>1 DEF SameEffect

LEMMA BranchFaithful ==
  ASSUME CodeInv, Done, Ordinary, NEW k \in 0 .. count - 1, NEW n \in 0 .. 3,
         NEW ins, NEW t, NEW b, NEW e, Lays(k, ins, t, b, e, n), ~Excepted(k),
         FarBranch(ins, t, b, e, n)
  PROVE  Faithful(k)
<1>1. /\ ins = prog[k + 1] /\ ins.op = "b" /\ ~InFixingRange(t) /\ Away(t, b, e) /\ t \in Int
      /\ b \in Nat /\ e \in Nat /\ e <= outp /\ n \in 0 .. 1 /\ e = b + n + 4
  BY DEF Lays, FarBranch
<1>2. PICK p \in Nat : p = b + n
  BY <1>1
<1>3. JumpAt(p, t)
  BY <1>2 DEF FarBranch
<1>4. t = Target(k)
  BY <1>1, AimIsTarget DEF Relative, Excepted
<1>5. ASSUME NEW taken \in BOOLEAN PROVE Leads(k, b, e, n, taken)
  <2>1. PICK lo, hi : lo = Rx(b) /\ hi = Rx(e)
    OBVIOUS
  <2>2. lo \in Int /\ hi \in Int /\ Rx(p) = lo + n /\ Rx(p + 4) = hi
    <3>1. p + 4 = e
      BY <1>1, <1>2
    <3> QED BY <1>1, <1>2, <2>1, <3>1, RxAdds
  <2>3. t < lo \/ t >= hi
    BY <1>1, <2>1 DEF Away
  <2>4. p + 4 <= outp /\ lo <= Rx(p) /\ Rx(p + 4) <= hi
    BY <1>1, <1>2, <2>2
  <2>5. PICK m \in 2 .. 5 : m = 5 - n
    BY <1>1
  <2>6. Ends(St(Rx(p), -1, -1, <<>>), m, St(t, 4 * t, -1, <<>>), lo, hi, taken)
    BY <1>1, <1>3, <2>2, <2>3, <2>4, JumpEnds
  <2>7. Outcome(k, taken, St(t, 4 * t, -1, <<>>))
    <3>1. Jumps(k, taken)
      BY <1>1 DEF Jumps
    <3>2. SameEffect(k, <<>>)
      BY <1>1, NoEffect
    <3>3. Corresponds(t, t)
      BY <1>1 DEF Corresponds
    <3> QED BY <1>1, <1>4, <3>1, <3>2, <3>3 DEF Outcome, St
  <2> QED BY <1>2, <2>1, <2>5, <2>6, <2>7 DEF Leads
<1> QED BY <1>5, FaithfulIf

LEMMA CallFaithful ==
  ASSUME CodeInv, Done, Ordinary, NEW k \in 0 .. count - 1, NEW n \in 0 .. 3,
         NEW ins, NEW t, NEW b, NEW e, Lays(k, ins, t, b, e, n), ~Excepted(k),
         FarCall(ins, t, b, e, n)
  PROVE  Faithful(k)
<1>1. /\ ins = prog[k + 1] /\ ins.op = "bl" /\ ~InFixingRange(t) /\ Away(t, b, e) /\ t \in Int
      /\ b \in Nat /\ e \in Nat /\ e <= outp /\ n \in 0 .. 1 /\ e = b + n + 5
  BY DEF Lays, FarCall
<1>2. PICK p \in Nat : p = b + n
  BY <1>1
<1>3. /\ Of(p) = LdrX17(3) /\ Of(p + 1) = Word("adr30", 4, 0) /\ Of(p + 2) = BrX17
      /\ Of(p + 3) = Word("lit", 0, 4 * t)
  BY <1>2 DEF FarCall
<1>4. t = Target(k)
  BY <1>1, AimIsTarget DEF Relative, Excepted
<1>5. ASSUME NEW taken \in BOOLEAN PROVE Leads(k, b, e, n, taken)
  <2>1. PICK lo, hi, a, c, d : /\ lo = Rx(b) /\ hi = Rx(e) /\ a = Rx(p) /\ c = Rx(p + 1)
                               /\ d = Rx(p + 2)
    OBVIOUS
  <2>2. lo \in Int /\ hi \in Int /\ a = lo + n /\ c = a + 1 /\ d = c + 1 /\ hi = a + 5
    <3>1. p + 5 = e /\ p \in Int /\ p + 1 \in Int /\ (p + 1) + 1 = p + 2
      BY <1>1, <1>2
    <3>2. d = c + 1
      BY <2>1, <3>1, RxAdds, 1 \in Int
    <3>3. hi = a + 5
      BY <2>1, <3>1, RxAdds, 5 \in Int
    <3>4. lo \in Int /\ hi \in Int /\ a = lo + n
      BY <1>1, <1>2, <2>1, RxAdds
    <3>5. c = a + 1
      BY <2>1, <3>1, RxAdds, 1 \in Int
    <3> QED BY <3>2, <3>3, <3>4, <3>5
  <2>3. t < lo \/ t >= hi
    BY <1>1, <2>1 DEF Away
  <2>4. At(a) = LdrX17(3) /\ At(c) = Word("adr30", 4, 0) /\ At(d) = BrX17
    <3>1. At(a) = Of(p) /\ At(c) = Of(p + 1) /\ At(d) = Of(p + 2)
      BY <1>2, <2>1, AtIs
    <3> QED BY <1>3, <3>1
  <2>5. LitAt(a + 3) = 4 * t
    <3>1. PICK q \in Nat : q = p + 3 /\ q < outp
      BY <1>1, <1>2, DoneTypes
    <3>2. Rx(q) = a + 3
      BY <1>2, <2>1, <3>1, RxAdds, p \in Int, 3 \in Int
    <3>3. Of(q) = Word("lit", 0, 4 * t)
      BY <1>3, <3>1
    <3>4. LitAt(Rx(q)) = 4 * t
      BY <3>1, <3>3, LitIs
    <3> QED BY <3>2, <3>4
  <2>6. On(St(a, -1, -1, <<>>), lo, hi, taken) = St(c, 4 * t, -1, <<>>)
    <3>1. PICK w : w = At(a) /\ w.op = "ldr17" /\ w.off = 3
      BY <2>4 DEF LdrX17, Word
    <3>2. a >= lo /\ a < hi
      BY <1>1, <2>2
    <3>3. On(St(a, -1, -1, <<>>), lo, hi, taken) = St(a + 1, LitAt(a + w.off), -1, <<>>)
      BY <3>1, <3>2, WordDoes
    <3> QED BY <2>2, <2>5, <3>1, <3>3
  <2>7. PICK x : x = 4 * t /\ x \div 4 = t
    BY <1>1
  <2>8. On(St(c, x, -1, <<>>), lo, hi, taken) = St(d, x, hi, <<>>)
    <3>1. PICK w : w = At(c) /\ w.op = "adr30" /\ w.off = 4
      BY <2>4 DEF Word
    <3>2. c >= lo /\ c < hi /\ c + 4 = hi
      BY <1>1, <2>2
    <3>3. On(St(c, x, -1, <<>>), lo, hi, taken) = St(c + 1, x, c + w.off, <<>>)
      BY <3>1, <3>2, WordDoes
    <3> QED BY <2>2, <3>1, <3>2, <3>3
  <2>9. On(St(d, x, hi, <<>>), lo, hi, taken) = St(t, x, hi, <<>>)
    <3>1. PICK w : w = At(d) /\ w.op = "br17"
      BY <2>4 DEF BrX17, Word
    <3>2. d >= lo /\ d < hi
      BY <1>1, <2>2
    <3>3. On(St(d, x, hi, <<>>), lo, hi, taken) = St(x \div 4, x, hi, <<>>)
      BY <3>1, <3>2, WordDoes
    <3> QED BY <2>7, <3>3
  <2> DEFINE f == St(t, x, hi, <<>>)
  <2>10. On(f, lo, hi, taken) = f
    BY <1>1, <2>2, <2>3, Outside
  <2>11. n \in {0, 1} /\ 5 - n \in 1 .. 5 /\ (5 - n) - 1 \in 1 .. 5 /\ ((5 - n) - 1) - 1 \in 1 .. 5
         /\ (((5 - n) - 1) - 1) - 1 \in 0 .. 5
    BY <1>1
  <2> HIDE DEF f
  <2>12. Ends(f, (((5 - n) - 1) - 1) - 1, f, lo, hi, taken)
    BY <2>10, <2>11, EndsThere
  <2>13. Ends(St(d, x, hi, <<>>), ((5 - n) - 1) - 1, f, lo, hi, taken)
    BY <2>9, <2>11, <2>12, EndsThen DEF f
  <2>14. Ends(St(c, x, -1, <<>>), (5 - n) - 1, f, lo, hi, taken)
    BY <2>8, <2>11, <2>13, EndsThen
  <2>15. Ends(St(a, -1, -1, <<>>), 5 - n, f, lo, hi, taken)
    BY <2>6, <2>7, <2>11, <2>14, EndsThen
  <2>16. Outcome(k, taken, f)
    <3>1. Jumps(k, taken)
      BY <1>1 DEF Jumps
    <3>2. SameEffect(k, <<>>)
      BY <1>1, NoEffect
    <3>3. Corresponds(t, t)
      BY <1>1 DEF Corresponds
    <3>4. Corresponds(hi, From(k) + 1)
      BY <2>1, Follows
    <3> QED BY <1>4, <3>1, <3>2, <3>3, <3>4 DEF Outcome, St, f
  <2> QED BY <1>2, <2>1, <2>15, <2>16 DEF Leads
<1> QED BY <1>5, FaithfulIf

LEMMA CondFaithful ==
  ASSUME CodeInv, Done, Ordinary, NEW k \in 0 .. count - 1, NEW n \in 0 .. 3,
         NEW ins, NEW t, NEW b, NEW e, Lays(k, ins, t, b, e, n), ~Excepted(k),
         FarCond(ins, t, b, e, n)
  PROVE  Faithful(k)
<1>1. /\ ins = prog[k + 1] /\ ins.op \in {"cond", "test"} /\ ~InFixingRange(t) /\ Away(t, b, e)
      /\ t \in Int /\ b \in Nat /\ e \in Nat /\ e <= outp /\ n \in 0 .. 1 /\ e = b + n + 6
  BY DEF Lays, FarCond
<1>2. PICK p \in Nat : p = b + n
  BY <1>1
<1>3. Of(p) = Word(ins.op, 2, 0) /\ Of(p + 1) = Word("b", 5, 0) /\ JumpAt(p + 2, t)
  BY <1>2 DEF FarCond
<1>4. t = Target(k)
  BY <1>1, AimIsTarget DEF Relative, Excepted
<1>5. SameEffect(k, <<>>)
  BY <1>1, NoEffect
<1>6. ASSUME NEW taken \in BOOLEAN PROVE Leads(k, b, e, n, taken)
  <2>1. PICK lo, hi, a, c, d : /\ lo = Rx(b) /\ hi = Rx(e) /\ a = Rx(p) /\ c = Rx(p + 1)
                               /\ d = Rx(p + 2)
    OBVIOUS
  <2>2. lo \in Int /\ hi \in Int /\ a = lo + n /\ c = a + 1 /\ d = a + 2 /\ hi = a + 6
    <3>1. p + 6 = e /\ p \in Int /\ p + 1 \in Int
      BY <1>1, <1>2
    <3>2. d = a + 2
      BY <2>1, <3>1, RxAdds, 2 \in Int
    <3>3. hi = a + 6
      BY <2>1, <3>1, RxAdds, 6 \in Int
    <3> QED BY <1>1, <1>2, <2>1, <3>1, <3>2, <3>3, RxAdds
  <2>3. t < lo \/ t >= hi
    BY <1>1, <2>1 DEF Away
  <2>4. a >= lo /\ a < hi /\ c >= lo /\ c < hi /\ n \in {0, 1}
    BY <1>1, <2>2
  <2>5. PICK w : w = At(a) /\ w.op \in {"cond", "test"} /\ w.off = 2
    <3>1. At(a) = Of(p)
      BY <1>2, <2>1, AtIs
    <3> QED BY <1>1, <1>3, <3>1 DEF Word
  <2>6. 5 - n \in 1 .. 5 /\ (5 - n) - 1 \in 1 .. 5 /\ ((5 - n) - 1) - 1 \in 0 .. 5
    BY <2>4
  <2>7. CASE taken
    <3>1. On(St(a, -1, -1, <<>>), lo, hi, taken) = St(a + w.off, -1, -1, <<>>)
      <4>1. On(St(a, -1, -1, <<>>), lo, hi, taken) = St(Chosen(taken, a, w.off), -1, -1, <<>>)
        BY <2>4, <2>5, CondDoes
      <4>2. Chosen(taken, a, w.off) = a + w.off
        BY <2>7, Zenon DEF Chosen
      <4> QED BY <4>1, <4>2
    <3>2. On(St(a, -1, -1, <<>>), lo, hi, taken) = St(d, -1, -1, <<>>)
      BY <2>2, <2>5, <3>1
    <3>3. PICK q \in Nat : q = p + 2 /\ q + 4 = e
      BY <1>1, <1>2
    <3>4. PICK m \in 2 .. 5 : m = (5 - n) - 1
      BY <2>4
    <3>5. q + 4 <= outp /\ JumpAt(q, t) /\ Rx(q) = d /\ Rx(q + 4) = hi /\ lo <= d
      BY <1>1, <1>3, <2>1, <2>2, <2>4, <3>3
    <3>6. Rx(q + 4) <= hi
      BY <2>2, <3>5
    <3>7. Ends(St(Rx(q), -1, -1, <<>>), m, St(t, 4 * t, -1, <<>>), lo, hi, taken)
      BY <1>1, <2>2, <2>3, <3>5, <3>6, JumpEnds
    <3>8. Ends(St(a, -1, -1, <<>>), 5 - n, St(t, 4 * t, -1, <<>>), lo, hi, taken)
      BY <2>6, <3>2, <3>4, <3>5, <3>7, EndsThen
    <3>9. Outcome(k, taken, St(t, 4 * t, -1, <<>>))
      <4>1. Jumps(k, taken)
        BY <1>1, <2>7 DEF Jumps
      <4>2. Corresponds(t, t)
        BY <1>1 DEF Corresponds
      <4> QED BY <1>1, <1>4, <1>5, <4>1, <4>2 DEF Outcome, St
    <3> QED BY <1>2, <2>1, <3>8, <3>9 DEF Leads
  <2>8. CASE ~taken
    <3>1. On(St(a, -1, -1, <<>>), lo, hi, taken) = St(c, -1, -1, <<>>)
      <4>1. On(St(a, -1, -1, <<>>), lo, hi, taken) = St(a + 1, -1, -1, <<>>)
        <5>1. On(St(a, -1, -1, <<>>), lo, hi, taken) = St(Chosen(taken, a, w.off), -1, -1, <<>>)
          BY <2>4, <2>5, CondDoes
        <5>2. Chosen(taken, a, w.off) = a + 1
          BY <2>8, Zenon DEF Chosen
        <5> QED BY <5>1, <5>2
      <4> QED BY <2>2, <4>1
    <3>2. On(St(c, -1, -1, <<>>), lo, hi, taken) = St(hi, -1, -1, <<>>)
      <4>1. PICK v : v = At(c) /\ v.op = "b" /\ v.off = 5
        <5>1. At(c) = Of(p + 1)
          BY <1>2, <2>1, AtIs
        <5> QED BY <1>3, <5>1 DEF Word
      <4>2. On(St(c, -1, -1, <<>>), lo, hi, taken) = St(c + v.off, -1, -1, <<>>)
        BY <2>4, <4>1, WordDoes
      <4>3. c + v.off = hi
        BY <2>2, <2>4, <4>1
      <4> QED BY <4>2, <4>3
    <3> DEFINE f == St(hi, -1, -1, <<>>)
    <3>3. On(f, lo, hi, taken) = f
      BY <2>2, Outside
    <3> HIDE DEF f
    <3>4. Ends(f, ((5 - n) - 1) - 1, f, lo, hi, taken)
      BY <2>6, <3>3, EndsThere
    <3>5. Ends(St(c, -1, -1, <<>>), (5 - n) - 1, f, lo, hi, taken)
      BY <2>6, <3>2, <3>4, EndsThen DEF f
    <3>6. Ends(St(a, -1, -1, <<>>), 5 - n, f, lo, hi, taken)
      BY <2>6, <3>1, <3>5, EndsThen
    <3>7. Outcome(k, taken, f)
      <4>1. ~Jumps(k, taken)
        BY <1>1, <2>8 DEF Jumps
      <4>2. Corresponds(hi, From(k) + 1)
        BY <2>1, Follows
      <4> QED BY <1>1, <1>5, <4>1, <4>2 DEF Outcome, St, f
    <3> QED BY <1>2, <2>1, <3>6, <3>7 DEF Leads
  <2> QED BY <2>7, <2>8
<1> QED BY <1>6, FaithfulIf

\* A copy of one word that jumps, to itself or away.
LEMMA NearEnds ==
  ASSUME NEW lo \in Int, NEW hi, hi = lo + 1, NEW taken, NEW l0, NEW l, NEW a \in Int,
         On(St(lo, -1, l0, <<>>), lo, hi, taken) = St(a, -1, l, <<>>),
         a = lo => On(St(lo, -1, l, <<>>), lo, hi, taken) = St(a, -1, l, <<>>)
  PROVE  Ends(St(lo, -1, l0, <<>>), 5, St(a, -1, l, <<>>), lo, hi, taken)
<1> DEFINE f == St(a, -1, l, <<>>)
<1>1. On(f, lo, hi, taken) = f
  <2>1. CASE a = lo
    BY <2>1
  <2>2. CASE a # lo
    <3>1. a < lo \/ a >= hi
      BY <2>2
    <3> QED BY <3>1, Outside
  <2> QED BY <2>1, <2>2
<1> HIDE DEF f
<1>2. Ends(f, 5 - 1, f, lo, hi, taken)
  BY <1>1, EndsThere, 5 - 1 \in 0 .. 5
<1> QED BY <1>2, EndsThen, 5 \in 1 .. 5 DEF f

LEMMA NearJumpFaithful ==
  ASSUME CodeInv, Done, Ordinary, NEW k \in 0 .. count - 1, NEW n \in 0 .. 3,
         NEW ins, NEW t, NEW b, NEW e, Lays(k, ins, t, b, e, n), ~Excepted(k),
         Near(ins, t, b, e, n), ins.op # "adr"
  PROVE  Faithful(k)
<1>1. /\ ins = prog[k + 1] /\ ins.op \in {"b", "bl", "cond", "test"} /\ t \in Int
      /\ b \in Nat /\ e \in Nat /\ e <= outp /\ n = 0 /\ e = b + 1
      /\ Of(b) = Word(ins.op, Of(b).off, 0) /\ Of(b).off \in Int
  BY DEF Lays, Near, Relative
<1>2. t = Target(k)
  BY <1>1, AimIsTarget DEF Relative, Excepted
<1>3. Corresponds(Rx(b) + Of(b).off, Target(k))
  BY <1>2, NearArrives DEF Excepted
<1>4. SameEffect(k, <<>>)
  BY <1>1, NoEffect
<1>5. Corresponds(Rx(e), From(k) + 1)
  BY Follows
<1>6. ASSUME NEW taken \in BOOLEAN PROVE Leads(k, b, e, n, taken)
  <2>1. PICK lo, hi, w, a : lo = Rx(b) /\ hi = Rx(e) /\ w = Of(b) /\ a = lo + w.off
    OBVIOUS
  <2>2. lo \in Int /\ hi = lo + 1 /\ a \in Int /\ w = At(lo) /\ w.op = ins.op /\ lo >= lo /\ lo < hi
    <3>1. lo \in Int /\ hi = lo + 1
      BY <1>1, <2>1, RxAdds
    <3>2. w = At(lo)
      BY <1>1, <2>1, AtIs
    <3>3. w.op = ins.op
      BY <1>1, <2>1 DEF Word
    <3> QED BY <1>1, <2>1, <3>1, <3>2, <3>3
  <2>3. Rx(b + n) = lo /\ 5 - n = 5
    BY <1>1, <2>1
  <2>4. ASSUME NEW l, \A m : On(St(lo, -1, m, <<>>), lo, hi, taken) = St(a, -1, l, <<>>),
               Jumps(k, taken), ins.op = "bl" => l = hi
        PROVE  Leads(k, b, e, n, taken)
    <3>1. Ends(St(lo, -1, -1, <<>>), 5, St(a, -1, l, <<>>), lo, hi, taken)
      BY <2>2, <2>4, NearEnds
    <3>2. Outcome(k, taken, St(a, -1, l, <<>>))
      BY <1>1, <1>3, <1>4, <1>5, <2>1, <2>4 DEF Outcome, St
    <3> QED BY <2>1, <2>3, <3>1, <3>2 DEF Leads
  <2>5. CASE ins.op = "bl"
    <3>1. \A m : On(St(lo, -1, m, <<>>), lo, hi, taken) = St(a, -1, hi, <<>>)
      <4> SUFFICES ASSUME NEW m PROVE On(St(lo, -1, m, <<>>), lo, hi, taken) = St(a, -1, hi, <<>>)
        OBVIOUS
      <4>1. On(St(lo, -1, m, <<>>), lo, hi, taken) = St(lo + w.off, -1, lo + 1, <<>>)
        BY <2>2, <2>5, WordDoes
      <4> QED BY <2>1, <2>2, <4>1
    <3>2. Jumps(k, taken)
      BY <1>1, <2>5 DEF Jumps
    <3> QED BY <2>4, <3>1, <3>2
  <2>6. CASE ins.op = "b" \/ (ins.op \in {"cond", "test"} /\ taken)
    <3>1. \A m : On(St(lo, -1, m, <<>>), lo, hi, taken) = St(a, -1, m, <<>>)
      <4> SUFFICES ASSUME NEW m PROVE On(St(lo, -1, m, <<>>), lo, hi, taken) = St(a, -1, m, <<>>)
        OBVIOUS
      <4>1. CASE ins.op = "b"
        <5>1. On(St(lo, -1, m, <<>>), lo, hi, taken) = St(lo + w.off, -1, m, <<>>)
          BY <2>2, <4>1, WordDoes
        <5> QED BY <2>1, <5>1
      <4>2. CASE ins.op \in {"cond", "test"} /\ taken
        <5>1. On(St(lo, -1, m, <<>>), lo, hi, taken) = St(lo + w.off, -1, m, <<>>)
          <6>1. On(St(lo, -1, m, <<>>), lo, hi, taken) = St(Chosen(taken, lo, w.off), -1, m, <<>>)
            <7>1. w.op \in {"cond", "test"}
              BY <2>2, <4>2, Zenon
            <7> QED BY <2>2, <7>1, CondDoes
          <6>2. Chosen(taken, lo, w.off) = lo + w.off
            BY <4>2, Zenon DEF Chosen
          <6> QED BY <6>1, <6>2
        <5> QED BY <2>1, <5>1
      <4> QED BY <2>6, <4>1, <4>2
    <3>2. Jumps(k, taken)
      BY <1>1, <2>6 DEF Jumps
    <3>3. Ends(St(lo, -1, -1, <<>>), 5, St(a, -1, -1, <<>>), lo, hi, taken)
      BY <2>2, <3>1, NearEnds
    <3>4. Outcome(k, taken, St(a, -1, -1, <<>>))
      BY <1>1, <1>3, <1>4, <2>1, <2>6, <3>2 DEF Outcome, St
    <3> QED BY <2>1, <2>3, <3>3, <3>4 DEF Leads
  <2>7. CASE ins.op \in {"cond", "test"} /\ ~taken
    <3>1. On(St(lo, -1, -1, <<>>), lo, hi, taken) = St(hi, -1, -1, <<>>)
      <4>1. On(St(lo, -1, -1, <<>>), lo, hi, taken) = St(lo + 1, -1, -1, <<>>)
        <5>1. On(St(lo, -1, -1, <<>>), lo, hi, taken) = St(Chosen(taken, lo, w.off), -1, -1, <<>>)
          BY <2>2, <2>7, CondDoes
        <5>2. Chosen(taken, lo, w.off) = lo + 1
          BY <2>7, Zenon DEF Chosen
        <5> QED BY <5>1, <5>2
      <4> QED BY <2>2, <4>1
    <3>2. Ends(St(lo, -1, -1, <<>>), 5, St(hi, -1, -1, <<>>), lo, hi, taken)
      <4>1. hi \in Int /\ hi # lo
        BY <2>2
      <4> QED BY <2>2, <3>1, <4>1, NearEnds
    <3>3. ~Jumps(k, taken)
      BY <1>1, <2>7 DEF Jumps
    <3>4. Outcome(k, taken, St(hi, -1, -1, <<>>))
      BY <1>1, <1>4, <1>5, <2>1, <2>7, <3>3 DEF Outcome, St
    <3> QED BY <2>1, <2>3, <3>2, <3>4 DEF Leads
  <2> QED BY <1>1, <2>5, <2>6, <2>7
<1> QED BY <1>6, FaithfulIf

-----------------------------------------------------------------------------
\* The other instructions: one word does something, control goes on to the next
\* copy, over the literal if there is one.
Passes == {"plain", "prfm", "load", "adr", "adrp"}

LEMMA PassesOn ==
  ASSUME CodeInv, Done, NEW k \in 0 .. count - 1, NEW n \in 0 .. 3,
         NEW ins, NEW t, NEW b, NEW e, Lays(k, ins, t, b, e, n), ins.op \in Passes,
         NEW taken, NEW effect, SameEffect(k, effect)
  PROVE  Outcome(k, taken, St(Rx(e), -1, -1, effect))
<1>1. ins = prog[k + 1]
  BY DEF Lays
<1>2. ~Jumps(k, taken)
  BY <1>1 DEF Jumps, Passes
<1>3. Corresponds(Rx(e), From(k) + 1)
  BY Follows
<1>4. prog[k + 1].op # "bl"
  BY <1>1 DEF Passes
<1> QED BY <1>2, <1>3, <1>4 DEF Outcome, St

LEMMA OneWordLeads ==
  ASSUME CodeInv, Done, NEW k \in 0 .. count - 1, NEW n \in 0 .. 3,
         NEW ins, NEW t, NEW b, NEW e, Lays(k, ins, t, b, e, n), ins.op \in Passes,
         NEW taken, NEW effect, SameEffect(k, effect),
         On(St(Rx(b + n), -1, -1, <<>>), Rx(b), Rx(e), taken) = St(Rx(b + n) + 1, -1, -1, effect),
         e = b + n + 1
  PROVE  Leads(k, b, e, n, taken)
<1>1. b \in Nat /\ e \in Nat
  BY DEF Lays
<1>2. PICK lo, hi : lo = Rx(b) /\ hi = Rx(e)
  OBVIOUS
<1>3. lo \in Int /\ hi \in Int
  BY <1>1, <1>2, AtIs
<1>4. Rx(b + n) + 1 = hi
  <2>1. PICK p \in Int : p = b + n
    BY <1>1
  <2> QED BY <1>2, <2>1, AtIs
<1>5. PICK f : f = St(hi, -1, -1, effect)
  OBVIOUS
<1>6. On(f, lo, hi, taken) = f
  BY <1>3, <1>5, Outside
<1>7. (5 - n) - 1 \in 0 .. 5 /\ 5 - n \in 1 .. 5
  OBVIOUS
<1>8. Ends(f, (5 - n) - 1, f, lo, hi, taken)
  BY <1>6, <1>7, EndsThere
<1>9. On(St(Rx(b + n), -1, -1, <<>>), lo, hi, taken) = f
  BY <1>2, <1>4, <1>5
<1>10. Ends(St(Rx(b + n), -1, -1, <<>>), 5 - n, f, lo, hi, taken)
  BY <1>7, <1>8, <1>9, EndsThen
<1>11. Outcome(k, taken, f)
  BY <1>2, <1>5, PassesOn
<1> QED BY <1>2, <1>10, <1>11 DEF Leads

LEMMA OverLeads ==
  ASSUME CodeInv, Done, NEW k \in 0 .. count - 1, NEW n \in 0 .. 3,
         NEW ins, NEW t, NEW b, NEW e, Lays(k, ins, t, b, e, n), ins.op \in Passes,
         NEW taken, NEW effect, SameEffect(k, effect),
         On(St(Rx(b + n), -1, -1, <<>>), Rx(b), Rx(e), taken) = St(Rx(b + n) + 1, -1, -1, effect),
         NEW d \in Nat \ {0}, Of(b + n + 1) = Word("b", d, 0), e = b + n + 1 + d
  PROVE  Leads(k, b, e, n, taken)
<1>1. b \in Nat /\ e \in Nat
  BY DEF Lays
<1>2. PICK lo, hi, a : lo = Rx(b) /\ hi = Rx(e) /\ a = Rx(b + n)
  OBVIOUS
<1>3. PICK p \in Nat : p = b + n
  BY <1>1
<1>4. lo \in Int /\ hi \in Int /\ a = lo + n /\ hi = a + (1 + d) /\ Rx(p + 1) = a + 1
  <2>1. e = p + (1 + d) /\ 1 + d \in Int
    BY <1>3
  <2>2. hi = a + (1 + d)
    BY <1>2, <1>3, <2>1, RxAdds
  <2> QED BY <1>1, <1>2, <1>3, <2>2, RxAdds
<1>5. PICK f : f = St(hi, -1, -1, effect)
  OBVIOUS
<1>6. On(f, lo, hi, taken) = f
  BY <1>4, <1>5, Outside
<1>7. On(St(a + 1, -1, -1, effect), lo, hi, taken) = f
  <2>1. PICK w, c : c = a + 1 /\ w = At(c)
    OBVIOUS
  <2>2. w.op = "b" /\ w.off = d
    <3>1. w = Of(p + 1)
      BY <1>3, <1>4, <2>1, AtIs
    <3>2. w = Word("b", d, 0)
      BY <1>3, <3>1
    <3> QED BY <3>2 DEF Word
  <2>3. c >= lo /\ c < hi /\ c + w.off = hi
    BY <1>4, <2>1, <2>2
  <2>4. On(St(c, -1, -1, effect), lo, hi, taken) = St(c + w.off, -1, -1, effect)
    BY <2>1, <2>2, <2>3, WordDoes
  <2> QED BY <1>5, <2>1, <2>3, <2>4
<1>8. ((5 - n) - 1) - 1 \in 0 .. 5 /\ (5 - n) - 1 \in 1 .. 5 /\ 5 - n \in 1 .. 5
  OBVIOUS
<1>9. Ends(f, ((5 - n) - 1) - 1, f, lo, hi, taken)
  BY <1>6, <1>8, EndsThere
<1>10. Ends(St(a + 1, -1, -1, effect), (5 - n) - 1, f, lo, hi, taken)
  BY <1>7, <1>8, <1>9, EndsThen
<1>11. On(St(a, -1, -1, <<>>), lo, hi, taken) = St(a + 1, -1, -1, effect)
  BY <1>2
<1>12. Ends(St(a, -1, -1, <<>>), 5 - n, f, lo, hi, taken)
  BY <1>8, <1>10, <1>11, EndsThen
<1>13. Outcome(k, taken, f)
  BY <1>2, <1>5, PassesOn
<1> QED BY <1>2, <1>12, <1>13 DEF Leads

\* The word behind the NOPs is the first.
LEMMA FirstIs ==
  ASSUME CodeInv, Done, NEW k \in 0 .. count - 1, NEW n \in 0 .. 3,
         NEW ins, NEW t, NEW b, NEW e, Lays(k, ins, t, b, e, n), b + n < e, Of(b + n).op # "nop"
  PROVE  FirstWord(k) = Of(b + n)
<1>1. b \in Nat /\ e \in Nat /\ e <= outp /\ outp \in Nat /\ Nops(b, n) /\ begins[k + 1] = b
  BY DoneTypes DEF Lays
<1>2. PICK p \in Nat : p = b + n /\ p < outp
  BY <1>1
<1>3. Land(Rx(b)) = Land(Rx(b + n))
  <2>1. n \in 0 .. n /\ b + n <= outp
    BY <1>1
  <2> QED BY <1>1, <2>1, LandsBehind
<1>4. Land(Rx(p)) = Rx(p)
  BY <1>2, LandsHere
<1>5. At(Rx(p)) = Of(p)
  BY <1>2, AtIs
<1> QED BY <1>1, <1>2, <1>3, <1>4, <1>5 DEF FirstWord

\* The range of the first word's step.
LEMMA FirstRange ==
  ASSUME CodeInv, Done, NEW k \in 0 .. count - 1, NEW n \in 0 .. 3,
         NEW ins, NEW t, NEW b, NEW e, Lays(k, ins, t, b, e, n), b + n < e
  PROVE  /\ Rx(b + n) \in Int /\ Rx(b + n) >= Rx(b) /\ Rx(b + n) < Rx(e) /\ At(Rx(b + n)) = Of(b + n)
         /\ b + n \in Nat /\ b + n < outp
<1>1. b \in Nat /\ e \in Nat /\ e <= outp /\ outp \in Nat
  BY DoneTypes DEF Lays
<1>2. PICK p \in Nat : p = b + n /\ p < outp
  BY <1>1
<1>3. Rx(p) \in Int /\ At(Rx(p)) = Of(p)
  BY <1>2, AtIs
<1>4. PICK o \in Nat : o = site.out
  BY DoneTypes
<1>5. Rx(p) >= Rx(b) /\ Rx(p) < Rx(e)
  BY <1>1, <1>2, <1>4 DEF Rx
<1> QED BY <1>2, <1>3, <1>5

LEMMA PlainFaithful ==
  ASSUME CodeInv, Done, NEW k \in 0 .. count - 1, NEW n \in 0 .. 3,
         NEW ins, NEW t, NEW b, NEW e, Lays(k, ins, t, b, e, n), Same(k, ins, b, e, n)
  PROVE  Faithful(k)
<1>1. /\ ins = prog[k + 1] /\ ins.op = "plain" /\ n = 0 /\ e = b + 1
      /\ Of(b) = Word("plain", 0, From(k)) /\ b \in Nat
  BY DEF Lays, Same
<1>2. b + n = b /\ b + n < e
  BY <1>1
<1>3. PICK a, w : a = Rx(b + n) /\ w = At(a)
  OBVIOUS
<1>4. w.op = "plain" /\ w.arg = From(k)
  <2>1. w = Word("plain", 0, From(k))
    BY <1>1, <1>2, <1>3, FirstRange
  <2> QED BY <2>1 DEF Word
<1>5. PICK effect : effect = PlainEffect(From(k))
  OBVIOUS
<1>6. SameEffect(k, effect)
  BY <1>1, <1>5 DEF SameEffect, Effect, PlainEffect
<1>7. ASSUME NEW taken \in BOOLEAN PROVE Leads(k, b, e, n, taken)
  <2>1. a >= Rx(b) /\ a < Rx(e)
    BY <1>2, <1>3, FirstRange
  <2>2. On(St(a, -1, -1, <<>>), Rx(b), Rx(e), taken) = St(a + 1, -1, -1, effect)
    BY <1>3, <1>4, <1>5, <2>1, EffectIs
  <2>3. ins.op \in Passes /\ e = b + n + 1
    BY <1>1 DEF Passes
  <2> QED BY <1>3, <1>6, <2>2, <2>3, OneWordLeads
<1> QED BY <1>7, FaithfulIf

LEMMA PrefetchFaithful ==
  ASSUME CodeInv, Done, NEW k \in 0 .. count - 1, NEW n \in 0 .. 3,
         NEW ins, NEW t, NEW b, NEW e, Lays(k, ins, t, b, e, n), Dropped(ins, b, e, n)
  PROVE  Faithful(k)
<1>1. ins = prog[k + 1] /\ ins.op = "prfm" /\ n = 0 /\ e = b /\ b \in Nat
  BY DEF Lays, Dropped
<1>2. SameEffect(k, <<>>)
  BY <1>1, NoEffect
<1>3. ASSUME NEW taken \in BOOLEAN PROVE Leads(k, b, e, n, taken)
  <2>1. PICK a, f : a = Rx(b) /\ f = St(a, -1, -1, <<>>)
    OBVIOUS
  <2>2. a \in Int /\ a = Rx(e) /\ a = Rx(b + n) /\ 5 - n \in 0 .. 5
    BY <1>1, <2>1, AtIs
  <2>3. On(f, a, a, taken) = f
    BY <2>1, <2>2, Outside
  <2>4. Ends(f, 5 - n, f, a, a, taken)
    BY <2>2, <2>3, EndsThere
  <2>5. ins.op \in Passes
    BY <1>1 DEF Passes
  <2>6. Outcome(k, taken, f)
    BY <1>2, <2>1, <2>2, <2>5, PassesOn
  <2> QED BY <2>1, <2>2, <2>4, <2>6 DEF Leads
<1> QED BY <1>3, FaithfulIf

-----------------------------------------------------------------------------
\* Literal loads.
LEMMA LoadedIs ==
  ASSUME NEW k, NEW reg, NEW t \in Int, prog[k + 1].op = "load", prog[k + 1].reg = reg, reg \in Loads,
         Target(k) = t, NEW w, w.arg = reg, NEW a,
         \A m \in 0 .. Width(reg) - 1 : DataAt(a + w.off + (m + 1) - 1) = t + m
  PROVE  SameEffect(k, LoadEffect(w, a))
<1>1. reg # "reserved" /\ Width(reg) \in {1, 2, 4}
  BY DEF Loads, Width
<1>2. \A j \in 1 .. Width(reg) : DataAt(a + w.off + j - 1) = t + j - 1
  <2> SUFFICES ASSUME NEW j \in 1 .. Width(reg) PROVE DataAt(a + w.off + j - 1) = t + j - 1
    OBVIOUS
  <2>1. PICK m \in 0 .. Width(reg) - 1 : m + 1 = j
    <3>1. j - 1 \in 0 .. Width(reg) - 1 /\ (j - 1) + 1 = j
      BY <1>1
    <3> QED BY <3>1
  <2>2. DataAt(a + w.off + (m + 1) - 1) = t + m
    OBVIOUS
  <2>3. t + m = t + j - 1
    BY <1>1, <2>1
  <2> QED BY <2>1, <2>2, <2>3
<1>3. PICK d : d = [j \in 1 .. Width(reg) |-> DataAt(a + w.off + j - 1)]
  OBVIOUS
<1>4. d = [j \in 1 .. Width(reg) |-> t + j - 1]
  BY <1>2, <1>3
<1>5. Fetched(w, a) = <<reg, d>>
  BY <1>1, <1>3 DEF Fetched
<1>6. Effect(k) = <<<<reg, [j \in 1 .. Width(reg) |-> t + j - 1]>>>>
  BY DEF Effect
<1>7. LoadEffect(w, a) = Effect(k)
  BY <1>4, <1>5, <1>6, Zenon DEF LoadEffect
<1> QED BY <1>7 DEF SameEffect

LEMMA LoadFaithful ==
  ASSUME CodeInv, Done, Ordinary, NEW k \in 0 .. count - 1, NEW n \in 0 .. 3,
         NEW ins, NEW t, NEW b, NEW e, Lays(k, ins, t, b, e, n), ~Excepted(k),
         LoadWithData(ins, t, b, e, n)
  PROVE  Faithful(k)
<1>1. /\ ins = prog[k + 1] /\ ins.op = "load" /\ ins.reg \in Loads /\ t \in Int
      /\ b \in Nat /\ e \in Nat /\ e <= outp /\ ins.op \in Passes
  BY DEF Lays, LoadWithData, Instructions, Passes
<1>2. PICK p \in Nat : p = b + n
  BY <1>1
<1>3. PICK al \in {1, 2, 4} : al = Aligned(ins.reg) /\ Width(ins.reg) <= al /\ Width(ins.reg) \in {1, 2, 4}
  BY <1>1 DEF Aligned, Width, Loads
<1>4. /\ e = p + 2 + al /\ Of(p) = Word("load", 2, ins.reg) /\ Of(p + 1) = Word("b", 1 + al, 0)
      /\ \A m \in 0 .. al - 1 : Of(p + 2 + m) = Word("data", 0, t + m)
  BY <1>2, <1>3 DEF LoadWithData
<1>5. t = Target(k)
  BY <1>1, AimIsTarget DEF Relative, Excepted
<1>6. PICK a, w : a = Rx(b + n) /\ w = At(a)
  OBVIOUS
<1>7. a \in Int /\ a >= Rx(b) /\ a < Rx(e) /\ w = Of(p)
  <2>1. b + n < e
    BY <1>2, <1>3, <1>4
  <2> QED BY <1>2, <1>6, <2>1, FirstRange
<1>8. w.op = "load" /\ w.off = 2 /\ w.arg = ins.reg
  BY <1>4, <1>7 DEF Word
<1>9. \A m \in 0 .. Width(ins.reg) - 1 : DataAt(a + w.off + (m + 1) - 1) = t + m
  <2> SUFFICES ASSUME NEW m \in 0 .. Width(ins.reg) - 1
               PROVE  DataAt(a + w.off + (m + 1) - 1) = t + m
    OBVIOUS
  <2>6. m \in 0 .. al - 1 /\ m \in Nat
    BY <1>3
  <2>7. outp \in Nat /\ p + 2 + m < e
    BY <1>4, <2>6, DoneTypes
  <2>1. PICK q \in Nat : q = p + 2 + m /\ q < outp
    BY <1>1, <2>6, <2>7
  <2>2. Of(q) = Word("data", 0, t + m)
    BY <1>4, <2>1, <2>6
  <2>3. At(Rx(q)) = Of(q) /\ Written(Rx(q))
    BY <2>1, AtIs
  <2>4. DataAt(Rx(q)) = t + m
    BY <2>2, <2>3 DEF DataAt, Word
  <2>5. Rx(q) = a + w.off + (m + 1) - 1
    <3>1. q = p + (2 + m) /\ 2 + m \in Int /\ p \in Int
      BY <2>1, <2>6
    <3>2. Rx(q) = Rx(p) + (2 + m)
      BY <3>1, RxAdds
    <3>3. Rx(p) = a /\ w.off = 2
      BY <1>2, <1>6, <1>8
    <3> QED BY <1>7, <2>6, <3>2, <3>3
  <2> QED BY <2>4, <2>5
<1>10. SameEffect(k, LoadEffect(w, a))
  BY <1>1, <1>5, <1>8, <1>9, LoadedIs
<1>11. ASSUME NEW taken \in BOOLEAN PROVE Leads(k, b, e, n, taken)
  <2>1. On(St(a, -1, -1, <<>>), Rx(b), Rx(e), taken) = St(a + 1, -1, -1, LoadEffect(w, a))
    BY <1>6, <1>7, <1>8, EffectIs
  <2>2. PICK d \in Nat \ {0} : d = 1 + al
    BY <1>3
  <2>3. Of(b + n + 1) = Word("b", d, 0) /\ e = b + n + 1 + d
    BY <1>2, <1>3, <1>4, <2>2
  <2> QED BY <1>1, <1>6, <1>10, <2>1, <2>3, OverLeads
<1> QED BY <1>11, FaithfulIf

LEMMA NearLoadFaithful ==
  ASSUME CodeInv, Done, Ordinary, NEW k \in 0 .. count - 1, NEW n \in 0 .. 3,
         NEW ins, NEW t, NEW b, NEW e, Lays(k, ins, t, b, e, n), ~Excepted(k),
         NearLoad(ins, t, b, e, n)
  PROVE  Faithful(k)
<1>1. /\ ins = prog[k + 1] /\ ins.op = "load" /\ ins.reg \in Loads /\ t \in Int /\ ins.off \in Int
      /\ b \in Nat /\ e \in Nat /\ e <= outp /\ ins.op \in Passes /\ ~InFixingRange(t)
      /\ e = b + n + 1 /\ ins \in site.mix
  BY DEF Lays, NearLoad, Instructions, Passes
<1>2. PICK a, w, off : a = Rx(b + n) /\ w = At(a) /\ off = t - a
  OBVIOUS
<1>3. a \in Int /\ a >= Rx(b) /\ a < Rx(e) /\ w = Of(b + n) /\ off \in Int /\ a + off = t
  <2>1. b + n < e
    BY <1>1
  <2>2. a \in Int /\ a >= Rx(b) /\ a < Rx(e) /\ w = Of(b + n)
    BY <1>2, <2>1, FirstRange
  <2> QED BY <1>1, <1>2, <2>2
<1>4. w.op = "load" /\ w.off = off /\ w.arg = Loaded(ins.reg, off)
  <2>1. w = Word("load", off, Loaded(ins.reg, off))
    BY <1>2, <1>3 DEF NearLoad
  <2> QED BY <2>1 DEF Word
<1>5. w.arg = ins.reg
  <2>1. b + n < e /\ Of(b + n).op # "nop"
    BY <1>1, <1>3, <1>4
  <2>2. FirstWord(k) = w
    BY <1>3, <2>1, FirstIs
  <2>3. off < 0 => ins.reg \in {"X", "SW"}
    BY <1>1, <1>4, <2>2 DEF Excepted, LosesSize
  <2> QED BY <1>3, <1>4, <2>3 DEF Loaded
<1>6. t = Target(k)
  BY <1>1, AimIsTarget DEF Relative, Excepted
<1>7. Width(ins.reg) \in {1, 2, 4}
  BY DEF Width
<1>8. PICK o \in Nat : o = site.in
  BY DoneTypes
<1>14. count \in Nat /\ k \in Nat /\ k < count
  BY DoneTypes
<1>9. t = o + k + ins.off /\ ins.off >= 0
  <2>1. ins.off >= 0
    BY <1>1 DEF Excepted, LosesSign
  <2> QED BY <1>1, <1>6, <1>8, <2>1 DEF Target, From
<1>10. ASSUME NEW m \in 0 .. Width(ins.reg) - 1 PROVE DataAt(t + m) = t + m
  <2>1. ~InFixingRange(t + m)
    <3>1. ~(t >= o /\ t < o + count)
      BY <1>1, <1>8 DEF InFixingRange
    <3>2. t >= o + count
      BY <1>1, <1>9, <1>14, <3>1
    <3>3. ~(t + m < o + count)
      BY <1>1, <1>7, <1>14, <3>2
    <3> QED BY <1>8, <3>3 DEF InFixingRange
  <2>2. ~Written(t + m)
    <3>1. Encoded(site, ins)
      BY <1>1, DoneTypes DEF Ordinary
    <3>2. k \in 0 .. MaxInstructions - 1
      BY DoneTypes DEF MaxInstructions
    <3>3. o + k + ins.off + m \notin Trampoline(site)
      BY <1>1, <1>8, <3>1, <3>2 DEF Encoded
    <3>4. t + m \notin Trampoline(site)
      BY <1>9, <3>3
    <3>5. Trampoline(site) = site.out .. site.out + 49
      BY DoneTypes DEF Trampoline, TrampolineSize, MaxInstructions
    <3>6. ASSUME Written(t + m) PROVE t + m \in site.out .. site.out + 49
      <4>1. t + m \in Int /\ t + m >= site.out /\ t + m < site.out + outp
        BY <1>1, <1>7, <3>6 DEF Written
      <4>2. site.out \in Nat /\ outp \in Nat /\ outp <= 50
        BY DoneTypes
      <4> QED BY <4>1, <4>2
    <3> QED BY <3>4, <3>5, <3>6
  <2> QED BY <2>1, <2>2 DEF DataAt
<1>11. \A m \in 0 .. Width(ins.reg) - 1 : DataAt(a + w.off + (m + 1) - 1) = t + m
  <2> SUFFICES ASSUME NEW m \in 0 .. Width(ins.reg) - 1
               PROVE  DataAt(a + w.off + (m + 1) - 1) = t + m
    OBVIOUS
  <2>1. a + w.off + (m + 1) - 1 = t + m
    BY <1>3, <1>4, <1>7
  <2> QED BY <1>10, <2>1
<1>12. SameEffect(k, LoadEffect(w, a))
  BY <1>1, <1>5, <1>6, <1>11, LoadedIs
<1>13. ASSUME NEW taken \in BOOLEAN PROVE Leads(k, b, e, n, taken)
  <2>1. On(St(a, -1, -1, <<>>), Rx(b), Rx(e), taken) = St(a + 1, -1, -1, LoadEffect(w, a))
    BY <1>2, <1>3, <1>4, EffectIs
  <2> QED BY <1>1, <1>2, <1>12, <2>1, OneWordLeads
<1> QED BY <1>13, FaithfulIf

-----------------------------------------------------------------------------
\* Addresses.
LEMMA LiteralFaithful ==
  ASSUME CodeInv, Done, NEW k \in 0 .. count - 1, NEW n \in 0 .. 3,
         NEW ins, NEW t, NEW b, NEW e, Lays(k, ins, t, b, e, n), ins.op \in Passes,
         NEW bytes, LiteralAddress(bytes, b, e, n), SameEffect(k, AddressEffect(bytes, 0))
  PROVE  Faithful(k)
<1>1. b \in Nat /\ e \in Nat /\ e <= outp /\ e = b + n + 4 /\ outp \in Nat
  BY DoneTypes DEF Lays, LiteralAddress
<1>2. PICK p \in Nat : p = b + n
  BY <1>1
<1>3. Of(p) = Word("ldrd", 2, 0) /\ Of(p + 1) = Word("b", 3, 0) /\ Of(p + 2) = Word("lit", 0, bytes)
  BY <1>2 DEF LiteralAddress
<1>4. PICK a, w : a = Rx(b + n) /\ w = At(a)
  OBVIOUS
<1>5. a \in Int /\ a >= Rx(b) /\ a < Rx(e) /\ w = Of(p)
  <2>1. b + n < e
    BY <1>1
  <2> QED BY <1>2, <1>4, <2>1, FirstRange
<1>6. w.op = "ldrd" /\ w.off = 2
  BY <1>3, <1>5 DEF Word
<1>7. LitAt(a + w.off) = bytes
  <2>1. PICK q \in Nat : q = p + 2 /\ q < outp
    BY <1>1, <1>2
  <2>2. Rx(q) = a + 2
    BY <1>2, <1>4, <2>1, RxAdds, p \in Int, 2 \in Int
  <2>3. Of(q) = Word("lit", 0, bytes)
    BY <1>3, <2>1
  <2>4. LitAt(Rx(q)) = bytes
    BY <2>1, <2>3, LitIs
  <2> QED BY <1>6, <2>2, <2>4
<1>8. ASSUME NEW taken \in BOOLEAN PROVE Leads(k, b, e, n, taken)
  <2>1. On(St(a, -1, -1, <<>>), Rx(b), Rx(e), taken)
          = St(a + 1, -1, -1, AddressEffect(LitAt(a + w.off), 0))
    BY <1>4, <1>5, <1>6, EffectIs
  <2>2. On(St(a, -1, -1, <<>>), Rx(b), Rx(e), taken) = St(a + 1, -1, -1, AddressEffect(bytes, 0))
    BY <1>7, <2>1
  <2>3. PICK d \in Nat \ {0} : d = 3
    OBVIOUS
  <2>4. Of(b + n + 1) = Word("b", d, 0) /\ e = b + n + 1 + d
    BY <1>1, <1>2, <1>3, <2>3
  <2> QED BY <1>4, <2>2, <2>4, OverLeads
<1> QED BY <1>8, FaithfulIf

LEMMA FarAddressFaithful ==
  ASSUME CodeInv, Done, Ordinary, NEW k \in 0 .. count - 1, NEW n \in 0 .. 3,
         NEW ins, NEW t, NEW b, NEW e, Lays(k, ins, t, b, e, n), ~Excepted(k),
         FarAddress(ins, t, b, e, n)
  PROVE  Faithful(k)
<1>1. /\ ins = prog[k + 1] /\ ins.op = "adr" /\ ~InFixingRange(t)
      /\ LiteralAddress(4 * t + ins.lo, b, e, n) /\ ins.op \in Passes
  BY DEF Lays, FarAddress, Passes
<1>2. t = Target(k)
  BY <1>1, AimIsTarget DEF Relative, Excepted
<1>3. AddressEffect(4 * t + ins.lo, 0) = Effect(k)
  BY <1>1, <1>2 DEF AddressEffect, Effect
<1>4. SameEffect(k, AddressEffect(4 * t + ins.lo, 0))
  BY <1>1, <1>2, <1>3 DEF SameEffect
<1> QED BY <1>1, <1>4, LiteralFaithful

LEMMA FarPageFaithful ==
  ASSUME CodeInv, Done, Ordinary, NEW k \in 0 .. count - 1, NEW n \in 0 .. 3,
         NEW ins, NEW t, NEW b, NEW e, Lays(k, ins, t, b, e, n), ~Excepted(k),
         FarPage(k, ins, b, e, n)
  PROVE  Faithful(k)
<1>1. /\ ins = prog[k + 1] /\ ins.op = "adrp" /\ ins.op \in Passes /\ ins \in site.mix
      /\ ins.off \in Int
  BY DEF Lays, FarPage, Passes, Instructions
<1>2. PICK d : d = ins.off * PageWords
  OBVIOUS
<1>3. ZeroExtended(d) = d
  <2>1. ins.off \in Nat
    BY <1>1 DEF Excepted, LosesSign
  <2>2. PageWords \in Nat /\ WrapWords \in Nat \ {0}
    BY RelocateAssumption
  <2>3. d \in Nat
    BY <1>2, <2>1, <2>2
  <2>4. Encoded(site, ins)
    BY <1>1, DoneTypes DEF Ordinary
  <2>5. d < WrapWords
    BY <1>1, <1>2, <2>4 DEF Encoded
  <2>6. d % WrapWords = d
    BY <2>2, <2>3, <2>5
  <2> QED BY <2>6 DEF ZeroExtended
<1>4. LiteralAddress(4 * (Page(From(k)) + d), b, e, n)
  BY <1>2, <1>3 DEF FarPage
<1>5. AddressEffect(4 * (Page(From(k)) + d), 0) = Effect(k)
  BY <1>1, <1>2 DEF AddressEffect, Effect
<1>6. SameEffect(k, AddressEffect(4 * (Page(From(k)) + d), 0))
  BY <1>1, <1>5 DEF SameEffect
<1> QED BY <1>1, <1>4, <1>6, LiteralFaithful

LEMMA NearPageExcepted ==
  ASSUME CodeInv, Done, NEW k \in 0 .. count - 1, NEW n \in 0 .. 3,
         NEW ins, NEW t, NEW b, NEW e, Lays(k, ins, t, b, e, n), NearPage(ins, b, e, n)
  PROVE  Excepted(k)
<1>1. b \in Nat /\ n = 0 /\ e = b + 1 /\ Of(b).op = "adrp"
  BY DEF Lays, NearPage
<1>2. b + n = b /\ b + n < e /\ Of(b + n).op # "nop"
  BY <1>1
<1>3. FirstWord(k) = Of(b)
  BY <1>2, FirstIs
<1> QED BY <1>1, <1>3 DEF Excepted, LosesPage

LEMMA AddressParts ==
  ASSUME NEW x \in Int, NEW lo \in 0 .. 3
  PROVE  (4 * x + lo) % 4 = lo /\ (4 * x + lo) \div 4 = x
OBVIOUS

LEMMA NearAddressFaithful ==
  ASSUME CodeInv, Done, Ordinary, NEW k \in 0 .. count - 1, NEW n \in 0 .. 3,
         NEW ins, NEW t, NEW b, NEW e, Lays(k, ins, t, b, e, n), ~Excepted(k),
         Near(ins, t, b, e, n), ins.op = "adr"
  PROVE  Faithful(k)
<1>1. /\ ins = prog[k + 1] /\ ins.op \in Passes /\ t \in Int /\ ins.lo \in 0 .. 3
      /\ b \in Nat /\ e \in Nat /\ n = 0 /\ e = b + 1 /\ Of(b).off \in Int
  BY DEF Lays, Near, Passes, Instructions
<1>2. PICK rd : rd = IF InFixingRange(t) THEN 0 ELSE 8 * ins.lo
  OBVIOUS
<1>3. PICK off \in Int : off = Of(b).off
  BY <1>1
<1>4. Of(b) = Word("adr", off, [lo |-> ins.lo, rd |-> rd])
  BY <1>2, <1>3 DEF Near
<1>5. PICK a, w : a = Rx(b + n) /\ w = At(a)
  OBVIOUS
<1>6. /\ a \in Int /\ a = Rx(b) /\ a >= Rx(b) /\ a < Rx(e) /\ w = Of(b)
      /\ b + n = b /\ b + n < e
  <2>1. b + n = b /\ b + n < e
    BY <1>1
  <2> QED BY <1>5, <2>1, FirstRange
<1>7. w.op = "adr" /\ w.off = off /\ w.arg.lo = ins.lo /\ w.arg.rd = rd
  BY <1>4, <1>6 DEF Word
<1>8. PICK x \in Int : x = a + off
  BY <1>6
<1>9. t = Target(k)
  BY <1>1, AimIsTarget DEF Relative, Excepted
<1>10. Corresponds(x, t)
  BY <1>3, <1>6, <1>8, <1>9, NearArrives DEF Excepted
<1>11. SameEffect(k, AddressEffect(4 * x + ins.lo, rd))
  <2>1. CASE InFixingRange(t)
    <3>1. rd = 0
      BY <1>2, <2>1
    <3>2. PICK y : y = 4 * x + ins.lo
      OBVIOUS
    <3>3. y % 4 = ins.lo /\ y \div 4 = x
      BY <1>1, <3>2, AddressParts
    <3>4. PICK v : v = AddressEffect(y, rd)
      OBVIOUS
    <3>5. Len(v) = 1 /\ v[1][1] = "address" /\ v[1][2] = y /\ v[1][3] = 0
      BY <3>1, <3>4 DEF AddressEffect
    <3>6. SameEffect(k, v)
      BY <1>1, <1>9, <1>10, <2>1, <3>3, <3>5 DEF SameEffect
    <3> QED BY <3>2, <3>4, <3>6
  <2>2. CASE ~InFixingRange(t)
    <3>1. FirstWord(k) = w
      BY <1>6, <1>7, FirstIs
    <3>2. ins.lo = 0
      BY <1>1, <1>7, <1>9, <2>2, <3>1 DEF Excepted, LosesRegister
    <3>3. rd = 0
      BY <1>2, <2>2, <3>2
    <3>4. x = t
      <4>1. Of(b).off = t - Rx(b)
        BY <2>2 DEF Near, Aimed
      <4> QED BY <1>1, <1>3, <1>6, <1>8, <4>1
    <3>5. AddressEffect(4 * x + ins.lo, rd) = Effect(k)
      BY <1>1, <1>9, <3>3, <3>4 DEF AddressEffect, Effect
    <3> QED BY <1>9, <2>2, <3>5 DEF SameEffect
  <2> QED BY <2>1, <2>2
<1>12. ASSUME NEW taken \in BOOLEAN PROVE Leads(k, b, e, n, taken)
  <2>1. On(St(a, -1, -1, <<>>), Rx(b), Rx(e), taken)
          = St(a + 1, -1, -1, AddressEffect(4 * (a + w.off) + w.arg.lo, w.arg.rd))
    BY <1>5, <1>6, <1>7, EffectIs
  <2>2. 4 * (a + w.off) + w.arg.lo = 4 * x + ins.lo
    BY <1>7, <1>8
  <2>3. On(St(a, -1, -1, <<>>), Rx(b), Rx(e), taken)
          = St(a + 1, -1, -1, AddressEffect(4 * x + ins.lo, rd))
    BY <1>7, <2>1, <2>2
  <2>4. e = b + n + 1
    BY <1>1
  <2> QED BY <1>1, <1>5, <1>11, <2>3, <2>4, OneWordLeads
<1> QED BY <1>12, FaithfulIf

-----------------------------------------------------------------------------
\* The jump back, whichever it is.
LEMMA BackFaithful ==
  ASSUME CodeInv, Done
  PROVE  JumpBack.pc = From(count) /\ JumpBack.effect = <<>>
<1>1. PICK n \in 0 .. 1 : \E t, b, e : Closes(n, t, b, e)
  BY DEF CodeInv, Closed
<1>2. PICK t, b, e : Closes(n, t, b, e)
  BY <1>1
<1>3. t = From(count) /\ b = Begin(count) /\ e = outp /\ Nops(b, n) /\ b = begins[count + 1]
  BY <1>2, DoneTypes DEF Closes, Begin
<1>4. t \in Int /\ b \in Nat /\ e \in Nat
  <2>1. t \in Int /\ e \in Nat
    BY <1>3, DoneTypes DEF From
  <2>2. count \in 0 .. count /\ count <= i
    BY DoneTypes
  <2> QED BY <1>3, <2>1, <2>2 DEF CodeInv, CopyInv, Copies, Trace
<1>5. PICK lo, hi, p, taken : lo = Rx(b) /\ hi = Rx(e) /\ p = b + n /\ taken = FALSE
  OBVIOUS
<1>6. JumpBack = Run(lo, hi, taken)
  BY <1>3, <1>5 DEF JumpBack
<1>7. lo \in Int /\ hi \in Int /\ p \in Nat /\ p \in Int /\ Rx(p) = lo + n
  <2>1. b \in Int /\ e \in Int /\ n \in Int /\ p \in Nat /\ p \in Int
    BY <1>4, <1>5
  <2>2. Rx(b) \in Int /\ Rx(e) \in Int /\ Rx(b + n) = Rx(b) + n
    BY <2>1, RxAdds
  <2> QED BY <1>5, <2>1, <2>2
<1>8. \A l : St(t, l, -1, <<>>).pc = t /\ St(t, l, -1, <<>>).effect = <<>>
  BY DEF St
<1>9. CASE e = b + n + 4 /\ JumpAt(b + n, t) /\ Away(t, b, e)
  <2>1. p + 4 = e /\ JumpAt(p, t) /\ (t < lo \/ t >= hi)
    BY <1>4, <1>5, <1>9 DEF Away
  <2>2. PICK m \in 2 .. 5 : m = 5 - n
    OBVIOUS
  <2>3. p + 4 <= outp /\ lo <= Rx(p) /\ Rx(p + 4) <= hi
    BY <1>3, <1>4, <1>5, <1>7, <2>1
  <2>4. Ends(St(Rx(p), -1, -1, <<>>), m, St(t, 4 * t, -1, <<>>), lo, hi, taken)
    BY <1>4, <1>7, <2>1, <2>3, JumpEnds
  <2>5. Ends(St(Rx(b + n), -1, -1, <<>>), 5 - n, St(t, 4 * t, -1, <<>>), lo, hi, taken)
    BY <1>5, <2>2, <2>4
  <2>6. Rx(b + n) <= hi /\ n \in 0 .. 3
    <3>1. Rx(p + 4) = Rx(p) + 4
      BY <1>7, RxAdds, 4 \in Int, Zenon
    <3> QED BY <1>5, <1>7, <2>3, <3>1
  <2>7. Run(lo, hi, taken) = St(t, 4 * t, -1, <<>>)
    BY <1>3, <1>4, <1>5, <1>7, <2>5, <2>6, NopsEnd
  <2> QED BY <1>3, <1>6, <1>8, <2>7
<1>10. CASE n = 0 /\ e = b + 1 /\ Of(b) = Word("b", t - Rx(b), 0)
  <2>1. hi = lo + 1
    BY <1>4, <1>5, <1>10, RxAdds
  <2>2. PICK w : w = At(lo)
    OBVIOUS
  <2>3. w = Of(b)
    BY <1>4, <1>5, <2>2, AtIs
  <2>4. w.op = "b" /\ w.off = t - lo
    BY <1>5, <1>10, <2>3 DEF Word
  <2>5. lo + w.off = t /\ lo >= lo /\ lo < hi
    BY <1>4, <1>7, <2>1, <2>4
  <2>6. On(St(lo, -1, -1, <<>>), lo, hi, taken) = St(t, -1, -1, <<>>)
    <3>1. On(St(lo, -1, -1, <<>>), lo, hi, taken) = St(lo + w.off, -1, -1, <<>>)
      BY <2>2, <2>4, <2>5, WordDoes
    <3> QED BY <2>5, <3>1
  <2>7. Ends(St(lo, -1, -1, <<>>), 5, St(t, -1, -1, <<>>), lo, hi, taken)
    BY <1>4, <1>7, <2>1, <2>6, NearEnds
  <2>8. Run(lo, hi, taken) = St(t, -1, -1, <<>>)
    BY <2>7, RunEnds
  <2> QED BY <1>3, <1>6, <1>8, <2>8
<1> QED BY <1>2, <1>9, <1>10 DEF Closes

LEMMA AllOthersFaithful ==
  ASSUME CodeInv, Done, Ordinary, NEW k \in 0 .. count - 1, ~Excepted(k)
  PROVE  Faithful(k)
<1>1. PICK n \in 0 .. 3 : \E ins, t, b, e : Lays(k, ins, t, b, e, n)
  BY CopyIs
<1>2. PICK ins, t, b, e : Lays(k, ins, t, b, e, n)
  BY <1>1
<1>3. Near(ins, t, b, e, n) \/ Fixed(k, ins, t, b, e, n)
  BY <1>2 DEF Lays
<1>4. CASE Near(ins, t, b, e, n)
  BY <1>2, <1>4, NearJumpFaithful, NearAddressFaithful
<1>5. CASE Fixed(k, ins, t, b, e, n)
  BY <1>2, <1>5, BranchFaithful, CallFaithful, CondFaithful, PrefetchFaithful, LoadFaithful,
     NearLoadFaithful, FarAddressFaithful, FarPageFaithful, NearPageExcepted, PlainFaithful, Zenon
     DEF Fixed
<1> QED BY <1>3, <1>4, <1>5

\* What no exception concerns.
LEMMA OthersFaithful ==
  ASSUME CodeInv, Done, NEW k \in 0 .. count - 1, prog[k + 1].op \in {"plain", "prfm"}
  PROVE  Faithful(k)
<1>1. PICK n \in 0 .. 3 : \E ins, t, b, e : Lays(k, ins, t, b, e, n)
  BY CopyIs
<1>2. PICK ins, t, b, e : Lays(k, ins, t, b, e, n)
  BY <1>1
<1>3. ins.op \in {"plain", "prfm"} /\ (Near(ins, t, b, e, n) \/ Fixed(k, ins, t, b, e, n))
  BY <1>2 DEF Lays
<1>4. Dropped(ins, b, e, n) \/ Same(k, ins, b, e, n)
  BY <1>3 DEF Near, Relative, Fixed, FarBranch, FarCall, FarCond, LoadWithData, NearLoad,
     FarAddress, FarPage, NearPage
<1> QED BY <1>2, <1>4, PrefetchFaithful, PlainFaithful, Zenon

\* Wherever a function and a trampoline lie, whatever instructions the function
\* begins with and however wide the fields are: a branch, call or conditional
\* branch written by __fix_branch_imm and __fix_cond_comp_test_branch goes where
\* the original went, or to the copy of its target when that was moved, and a
\* call returns behind its copy; but for the backward conditional branches and
\* the branches to a moved ADRP.
THEOREM JumpsAreKept == Ordinary => (Spec => []JumpsKept)
<1> SUFFICES ASSUME Ordinary PROVE Spec => []JumpsKept
  OBVIOUS
<1>1. FieldsReach
  BY DEF Ordinary
<1>2. CodeInv => JumpsKept
  BY AllOthersFaithful DEF JumpsKept, Kept
<1> QED BY <1>1, <1>2, AlwaysCopied, PTL

\* A moved literal load (__fix_loadlit) fills the same register with the same
\* words, a moved ADR or ADRP (__fix_pcreladdr) gives the same address in the
\* same register, at every place and distance, with the exceptions that the
\* property names.
THEOREM OperandsAreKept == Ordinary => (Spec => []OperandsKept)
<1> SUFFICES ASSUME Ordinary PROVE Spec => []OperandsKept
  OBVIOUS
<1>1. FieldsReach
  BY DEF Ordinary
<1>2. CodeInv => OperandsKept
  BY AllOthersFaithful DEF OperandsKept, Kept
<1> QED BY <1>1, <1>2, AlwaysCopied, PTL

\* __fix_instructions copies every other instruction as it is, control runs on
\* from copy to copy, and the jump back leads to the instruction behind the last
\* one moved, with no effect of its own.
THEOREM FlowIsKept == Ordinary => (Spec => []FlowKept)
<1> SUFFICES ASSUME Ordinary PROVE Spec => []FlowKept
  OBVIOUS
<1>1. FieldsReach
  BY DEF Ordinary
<1>2. CodeInv => FlowKept
  BY OthersFaithful, BackFaithful DEF FlowKept, AllFaithful
<1> QED BY <1>1, <1>2, AlwaysCopied, PTL

=============================================================================
