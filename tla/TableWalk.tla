----------------------------- MODULE TableWalk -----------------------------
(***************************************************************************)
(* A loop over a table, one entry after the other, as FoldLeft of an       *)
(* operator Op(state, entry).  FoldLeft is a recursive function over sets  *)
(* of indices; here it is shown to end where the walk through the entries, *)
(* in their order, ends.  The linker's loops are instances of this module, *)
(* each with its own Op.                                                   *)
(***************************************************************************)
EXTENDS SequencesExt, WellFoundedInduction, TLAPS

CONSTANT Op(_, _)

(* walk[k] is the state after k entries.                                    *)
Walks(walk, start, table) ==
  /\ walk[0] = start
  /\ \A k \in 1 .. Len(table) : walk[k] = Op(walk[k - 1], table[k])

IsTable(table) == Len(table) \in Nat /\ DOMAIN table = 1 .. Len(table)

(* Among natural numbers there is a least.                                  *)
LEMMA LeastNatural ==
  ASSUME NEW T, T \subseteq Nat, T # {}
  PROVE  \E n \in T : \A k \in T : n <= k
<1> DEFINE Before == OpToRel(<, Nat)
<1>1. IsWellFoundedOn(Before, Nat)
  BY NatLessThanWellFounded
<1>2. \A a, b \in Nat : <<a, b>> \in Before <=> a < b
  BY DEF OpToRel
<1> HIDE DEF Before
<1>3. PICK n \in T : \A k \in T : ~(<<k, n>> \in Before)
  BY <1>1, WFMin
<1>4. \A k \in T : ~(k < n)
  BY <1>2, <1>3
<1>5. \A k \in T : n <= k
  BY <1>4
<1> QED BY <1>5

(* Induction: a set of numbers that has 0 and with n has n + 1.             *)
LEMMA Counting ==
  ASSUME NEW S, 0 \in S, \A n \in Nat : n \in S => n + 1 \in S
  PROVE  Nat \subseteq S
<1> SUFFICES ASSUME Nat \ S # {} PROVE FALSE
  OBVIOUS
<1>1. PICK n \in Nat \ S : \A k \in Nat \ S : n <= k
  BY LeastNatural
<1>2. n # 0
  OBVIOUS
<1>3. n - 1 \in Nat /\ ~(n <= n - 1)
  BY <1>2
<1> QED BY <1>1, <1>3

LEMMA MaxOfInterval ==
  ASSUME NEW n \in Nat, NEW s \in SUBSET (1 .. n), s # {}
  PROVE  /\ Max(s) \in s
         /\ \A k \in s : Max(s) >= k
<1> DEFINE T == {n - k : k \in s}
<1>1. T \subseteq Nat /\ T # {}
  <2>1. \A k \in s : n - k \in Nat
    OBVIOUS
  <2> QED BY <2>1
<1>2. PICK d \in T : \A k \in T : d <= k
  BY <1>1, LeastNatural
<1>3. PICK m \in s : d = n - m
  OBVIOUS
<1>4. \A k \in s : m >= k
  BY <1>2, <1>3
<1> QED BY <1>4 DEF Max

Iterates(iter, start, table, n) ==
  iter = [s \in SUBSET (1 .. n) |->
            IF s = {} THEN start ELSE Op(iter[s \ {Max(s)}], table[Max(s)])]

LEMMA IterateExists ==
  ASSUME NEW start, NEW table
  PROVE  \A n \in Nat : \E iter : Iterates(iter, start, table, n)
<1> DEFINE S == {n \in Nat : \E iter : Iterates(iter, start, table, n)}
<1>1. 0 \in S
  <2> DEFINE iter == [s \in SUBSET (1 .. 0) |-> start]
  <2>1. \A s \in SUBSET (1 .. 0) : s = {}
    OBVIOUS
  <2>2. Iterates(iter, start, table, 0)
    BY <2>1 DEF Iterates
  <2> QED BY <2>2
<1>2. ASSUME NEW n \in Nat, n \in S PROVE n + 1 \in S
  <2>1. PICK iter : Iterates(iter, start, table, n)
    BY <1>2
  <2> DEFINE next == [s \in SUBSET (1 .. n + 1) |->
                        IF n + 1 \in s THEN Op(iter[s \ {n + 1}], table[n + 1]) ELSE iter[s]]
  <2>2. ASSUME NEW s \in SUBSET (1 .. n + 1)
        PROVE  next[s] = IF s = {} THEN start ELSE Op(next[s \ {Max(s)}], table[Max(s)])
    <3>1. CASE n + 1 \in s
      <4>1. Max(s) = n + 1
        <5>1. Max(s) \in s /\ \A k \in s : Max(s) >= k
          <6>1. n + 1 \in Nat /\ s # {}
            BY <3>1
          <6> QED BY <6>1, MaxOfInterval
        <5>2. Max(s) \in 1 .. n + 1 /\ Max(s) >= n + 1
          BY <5>1, <3>1
        <5> QED BY <5>2
      <4>2. next[s \ {n + 1}] = iter[s \ {n + 1}]
        OBVIOUS
      <4> QED BY <3>1, <4>1, <4>2
    <3>2. CASE n + 1 \notin s /\ s # {}
      <4>1. s \in SUBSET (1 .. n)
        BY <3>2
      <4>2. Max(s) \in s
        BY <3>2, <4>1, MaxOfInterval
      <4>3. iter[s] = Op(iter[s \ {Max(s)}], table[Max(s)])
        BY <2>1, <3>2, <4>1 DEF Iterates
      <4>4. next[s \ {Max(s)}] = iter[s \ {Max(s)}]
        BY <3>2
      <4> QED BY <3>2, <4>3, <4>4
    <3>3. CASE s = {}
      BY <2>1, <3>3 DEF Iterates
    <3> QED BY <3>1, <3>2, <3>3
  <2> HIDE DEF next
  <2>3. next = [s \in SUBSET (1 .. n + 1) |-> next[s]]
    BY DEF next
  <2>4. Iterates(next, start, table, n + 1)
    BY <2>2, <2>3 DEF Iterates
  <2> QED BY <2>4
<1> HIDE DEF S
<1>3. Nat \subseteq S
  BY <1>1, <1>2, Counting
<1> QED BY <1>3 DEF S

(* FoldLeft(Op, start, table) is where a walk through the table ends.       *)
LEMMA FoldLeftWalks ==
  ASSUME NEW start, NEW table, IsTable(table)
  PROVE  \E walk : Walks(walk, start, table) /\ walk[Len(table)] = FoldLeft(Op, start, table)
<1> DEFINE n == Len(table)
           iter == CHOOSE iter : Iterates(iter, start, table, n)
           walk == [k \in 0 .. n |-> iter[1 .. k]]
<1>1. n \in Nat /\ DOMAIN table = 1 .. n
  BY DEF IsTable
<1>2. Iterates(iter, start, table, n)
  BY <1>1, IterateExists
<1>3. FoldLeft(Op, start, table) = iter[1 .. n]
  BY <1>1 DEF FoldLeft, MapThenFoldSet, Iterates
<1> HIDE DEF iter, n
<1>4. walk[0] = start
  BY <1>1, <1>2 DEF Iterates
<1>5. ASSUME NEW k \in 1 .. n PROVE walk[k] = Op(walk[k - 1], table[k])
  <2>1. 1 .. k \in SUBSET (1 .. n) /\ 1 .. k # {}
    BY <1>1
  <2>2. Max(1 .. k) = k
    <3>1. Max(1 .. k) \in 1 .. k /\ \A j \in 1 .. k : Max(1 .. k) >= j
      BY <1>1, <2>1, MaxOfInterval
    <3> QED BY <3>1, <1>1
  <2>3. (1 .. k) \ {k} = 1 .. k - 1
    BY <1>1
  <2>4. iter[1 .. k] = Op(iter[(1 .. k) \ {Max(1 .. k)}], table[Max(1 .. k)])
    BY <1>2, <2>1 DEF Iterates
  <2>5. k \in 0 .. n /\ k - 1 \in 0 .. n
    BY <1>1
  <2> QED BY <2>2, <2>3, <2>4, <2>5
<1>6. Walks(walk, start, table)
  BY <1>4, <1>5 DEF Walks, n
<1>7. walk[n] = FoldLeft(Op, start, table)
  BY <1>1, <1>3
<1> QED BY <1>6, <1>7, Zenon DEF n
=============================================================================
