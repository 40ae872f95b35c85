-------------------------- MODULE Patcher_proofs --------------------------
(***************************************************************************)
(* For every number of patchers, however their ranges overlap, and for     *)
(* every module and line size: each word that a fetch may still see in an  *)
(* older version lies in a range that will be flushed.                     *)
(*                                                                         *)
(* The two halves of a flush need two facts.  A word whose store is still  *)
(* in the data cache belongs to a patcher that has not cleaned its range   *)
(* yet; so when another one invalidates the word's line too early, someone *)
(* is left to do it again.                                                 *)
(***************************************************************************)
EXTENDS Patcher, TLAPS

UncleanIsPending ==
  \A a \in unclean : \E p \in Patchers : a \in Pending(p) /\ phase[p] # "cleaned"

Flushable == TypeOK /\ UncleanIsPending /\ StaleIsPending

(* What of the state decides whether a word is pending at q.               *)
Same(q) ==
  /\ phase'[q] = phase[q]
  /\ q \in Stream => start'[q] = start[q] /\ current'[q] = current[q]
  /\ q \in Random => lowest'[q] = lowest[q] /\ highest'[q] = highest[q]

----------------------------------------------------------------------------
(* Both loops over cache lines reach every word of the range.              *)
LEMMA LinesCover ==
  ASSUME NEW line, IsLine(line), PatcherAssumption,
         NEW first \in 0 .. Size, NEW size \in Int,
         NEW a \in Word, a \in first .. first + size - 1
  PROVE  a \in Lines(line, first, size)
<1>1. a \in 0 .. Size /\ first <= a /\ a < first + size
  BY DEF Word, PatcherAssumption
<1>2. line[first] <= line[a] /\ line[a] <= a
  BY <1>1 DEF IsLine
<1>3. line[a] \in Int
  BY <1>1 DEF IsLine
<1>4. line[a] < first + size
  BY <1>1, <1>2, <1>3
<1> QED BY <1>2, <1>4 DEF Lines

(* The range of a patcher, of either class.                                *)
LEMMA PendingRange ==
  ASSUME TypeOK, NEW p \in Patchers, NEW a \in Pending(p)
  PROVE  /\ First(p) \in 0 .. Size
         /\ Length(p) \in Int
         /\ a \in First(p) .. First(p) + Length(p) - 1
<1>1. ~NothingToFlush(p) /\ a \in First(p) .. First(p) + Length(p) - 1
  BY DEF Pending
<1>2. CASE p \in Stream
  BY <1>1, <1>2 DEF TypeOK, First, Length
<1>3. CASE p \notin Stream
  <2>1. p \in Random
    BY <1>3 DEF Patchers
  <2>2. lowest[p] # Unset /\ highest[p] # Unset
    BY <1>1, <1>3 DEF NothingToFlush, IsUnset
  <2>3. lowest[p] \in Word /\ highest[p] \in 1 .. Size
    BY <2>1, <2>2 DEF TypeOK
  <2> QED BY <1>1, <1>3, <2>3, PatcherAssumption DEF First, Length, Word, PatcherAssumption
<1> QED BY <1>2, <1>3

LEMMA PendingSame ==
  ASSUME NEW q \in Patchers, Same(q)
  PROVE  Pending(q)' = Pending(q)
<1>1. CASE q \in Stream
  BY <1>1 DEF Same, Pending, NothingToFlush, DoneNothing, First, Length
<1>2. CASE q \notin Stream
  BY <1>2 DEF Same, Pending, NothingToFlush, IsUnset, First, Length, Patchers, Unset
<1> QED BY <1>1, <1>2

(* A step of p that stores some words, or none, adds them to its range and *)
(* takes nothing out of it.                                                *)
LEMMA StoreKeeps ==
  ASSUME Flushable, NEW p \in Patchers, NEW words,
         \A q \in Patchers \ {p} : Same(q),
         Pending(p) \cup words \subseteq Pending(p)',
         phase[p] # "cleaned", phase'[p] # "cleaned",
         unclean' = unclean \cup words,
         stale' = stale \cup words
  PROVE  UncleanIsPending' /\ StaleIsPending'
<1>1. \A q \in Patchers : Pending(q) \subseteq Pending(q)'
  BY PendingSame
<1>2. ASSUME NEW a \in unclean'
      PROVE  \E q \in Patchers : a \in Pending(q)' /\ phase'[q] # "cleaned"
  <2>1. CASE a \in words
    BY <2>1
  <2>2. CASE a \in unclean
    <3>1. PICK q \in Patchers : a \in Pending(q) /\ phase[q] # "cleaned"
      BY <2>2 DEF Flushable, UncleanIsPending
    <3>2. phase'[q] # "cleaned"
      BY <3>1 DEF Same
    <3> QED BY <3>1, <3>2, <1>1
  <2> QED BY <1>2, <2>1, <2>2
<1>3. ASSUME NEW a \in stale'
      PROVE  \E q \in Patchers : a \in Pending(q)'
  BY <1>1, <1>3 DEF Flushable, StaleIsPending
<1> QED BY <1>2, <1>3 DEF UncleanIsPending, StaleIsPending

----------------------------------------------------------------------------
(* The words a store writes, and the types it keeps.                       *)
LEMMA StoreTypes ==
  ASSUME TypeOK, NEW first \in 0 .. Size, NEW w \in Nat \ {0},
         NEW field \in 0 .. Span - 1 \cup {NoBranch},
         NEW target \in Targets \cup {NoBranch},
         Store(first, w, field, target)
  PROVE  /\ first \in Word /\ first + w \in 1 .. Size
         /\ code' \in [Word -> 0 .. Span - 1 \cup {NoBranch}]
         /\ asked' \in [Word -> Targets \cup {NoBranch}]
         /\ unclean' \subseteq stale' /\ stale' \subseteq Word
<1>1. first .. first + w - 1 \subseteq Word
  BY DEF Store
<1>2. first \in first .. first + w - 1 /\ first + w - 1 \in first .. first + w - 1
  OBVIOUS
<1>3. first \in Word /\ first + w - 1 \in Word
  BY <1>1, <1>2
<1>4. first + w \in 1 .. Size
  BY <1>3, PatcherAssumption DEF Word, PatcherAssumption
<1>5. code' \in [Word -> 0 .. Span - 1 \cup {NoBranch}]
  BY DEF Store, TypeOK
<1>6. asked' \in [Word -> Targets \cup {NoBranch}]
  BY DEF Store, TypeOK
<1>7. unclean' \subseteq stale' /\ stale' \subseteq Word
  BY <1>1 DEF Store, TypeOK
<1> QED BY <1>3, <1>4, <1>5, <1>6, <1>7

(* Write and BranchInst.                                                   *)
LEMMA StreamStores ==
  ASSUME Flushable, NEW p \in Stream, NEW w \in Nat \ {0},
         NEW field \in 0 .. Span - 1 \cup {NoBranch},
         NEW target \in Targets \cup {NoBranch},
         phase[p] = "live", Store(current[p], w, field, target), Advance(p, w)
  PROVE  Flushable'
<1> USE DEF Flushable
<1>1. current[p] \in 0 .. Size /\ start[p] \in 0 .. Size /\ start[p] <= current[p]
  BY DEF TypeOK
<1>2. /\ current[p] \in Word /\ current[p] + w \in 1 .. Size
      /\ code' \in [Word -> 0 .. Span - 1 \cup {NoBranch}]
      /\ asked' \in [Word -> Targets \cup {NoBranch}]
      /\ unclean' \subseteq stale' /\ stale' \subseteq Word
  BY <1>1, StoreTypes
<1>3. current'[p] = current[p] + w /\ start'[p] = start[p] /\ phase'[p] = "live"
  BY DEF Advance, TypeOK, Patchers
<1>4. TypeOK'
  BY <1>1, <1>2, <1>3 DEF TypeOK, Advance
<1>5. \A q \in Patchers \ {p} : Same(q)
  BY DEF Same, Advance, TypeOK
<1>6. Pending(p) \cup (current[p] .. current[p] + w - 1) \subseteq Pending(p)'
  <2>1. Pending(p) \subseteq start[p] .. current[p] - 1
    BY <1>1 DEF Pending, First, Length
  <2>2. Pending(p)' = start[p] .. current[p] + w - 1
    BY <1>1, <1>3 DEF Pending, First, Length, NothingToFlush, DoneNothing
  <2> QED BY <1>1, <2>1, <2>2
<1>7. p \in Patchers
  BY DEF Patchers
<1>8. UncleanIsPending' /\ StaleIsPending'
  BY <1>3, <1>5, <1>6, <1>7, StoreKeeps DEF Store
<1> QED BY <1>4, <1>8

LEMMA RandomStores ==
  ASSUME Flushable, NEW p \in Random, NEW a \in Word, NEW w \in Nat \ {0},
         WriteAt(p, a, w)
  PROVE  Flushable'
<1> USE DEF Flushable
<1>0. p \in Patchers /\ p \notin Stream /\ a \in 0 .. Size /\ Size \in Nat /\ a \in Nat
  BY PatcherAssumption DEF Patchers, PatcherAssumption, Word
<1>1. /\ a + w \in 1 .. Size
      /\ code' \in [Word -> 0 .. Span - 1 \cup {NoBranch}]
      /\ asked' \in [Word -> Targets \cup {NoBranch}]
      /\ unclean' \subseteq stale' /\ stale' \subseteq Word
  BY <1>0, StoreTypes DEF WriteAt
<1>2. phase' = phase /\ phase[p] = "live" /\ UNCHANGED <<after, start, current>>
  BY DEF WriteAt
<1>3. /\ lowest' = [lowest EXCEPT ![p] = lowest'[p]]
      /\ highest' = [highest EXCEPT ![p] = highest'[p]]
  BY DEF WriteAt, SetLowest, SetHighest, TypeOK
<1>4. /\ lowest'[p] \in Word /\ highest'[p] \in 1 .. Size
      /\ lowest'[p] <= a /\ a + w <= highest'[p]
      /\ ~IsUnset(lowest[p], highest[p]) =>
           lowest'[p] <= lowest[p] /\ highest[p] <= highest'[p]
  <2>1. lowest'[p] = IF IsUnset(lowest[p], highest[p]) \/ a < lowest[p] THEN a ELSE lowest[p]
    BY DEF WriteAt, SetLowest, TypeOK
  <2>2. highest'[p] = IF IsUnset(lowest'[p], highest[p]) \/ a + w > highest[p]
                      THEN a + w ELSE highest[p]
    BY DEF WriteAt, SetHighest, TypeOK
  <2>3. CASE IsUnset(lowest[p], highest[p])
    <3>1. highest[p] = Unset /\ lowest'[p] = a
      BY <2>1, <2>3 DEF IsUnset, TypeOK
    <3>2. highest'[p] = a + w
      BY <2>2, <3>1 DEF IsUnset
    <3> QED BY <1>0, <1>1, <2>3, <3>1, <3>2
  <2>4. CASE ~IsUnset(lowest[p], highest[p])
    <3>1. lowest[p] \in Word /\ highest[p] \in 1 .. Size /\ highest[p] # Unset
      BY <2>4 DEF IsUnset, TypeOK
    <3>2. lowest'[p] \in Word /\ lowest'[p] <= a /\ lowest'[p] <= lowest[p]
      BY <1>0, <2>1, <2>4, <3>1 DEF Word
    <3>3. lowest'[p] # Unset
      BY <1>0, <3>2 DEF Word, Unset
    <3>4. highest'[p] = IF a + w > highest[p] THEN a + w ELSE highest[p]
      BY <2>2, <3>1, <3>3 DEF IsUnset
    <3>5. highest'[p] \in 1 .. Size /\ a + w <= highest'[p] /\ highest[p] <= highest'[p]
      BY <1>0, <1>1, <3>1, <3>4
    <3> QED BY <3>2, <3>5
  <2> QED BY <2>3, <2>4
<1>5. lowest'[p] # Unset /\ highest'[p] # Unset
  BY <1>0, <1>4 DEF Word, Unset
<1>6. TypeOK'
  <2>1. lowest' \in [Random -> Word \cup {Unset}] /\ highest' \in [Random -> 1 .. Size \cup {Unset}]
    BY <1>3, <1>4 DEF TypeOK
  <2>2. \A q \in Random : lowest'[q] = Unset <=> highest'[q] = Unset
    BY <1>3, <1>5 DEF TypeOK
  <2> QED BY <1>1, <1>2, <2>1, <2>2 DEF TypeOK, Unset
<1>7. \A q \in Patchers \ {p} : Same(q)
  BY <1>2, <1>3 DEF Same, TypeOK
<1>8. Pending(p) \cup (a .. a + w - 1) \subseteq Pending(p)'
  <2>1. Pending(p)' = lowest'[p] .. highest'[p] - 1
    BY <1>0, <1>2, <1>4, <1>5 DEF Pending, First, Length, NothingToFlush, IsUnset, Word, Unset
  <2>2. CASE IsUnset(lowest[p], highest[p])
    <3>1. Pending(p) = {}
      BY <1>0, <2>2 DEF Pending, NothingToFlush
    <3> QED BY <1>0, <1>4, <2>1, <3>1 DEF Word
  <2>3. CASE ~IsUnset(lowest[p], highest[p])
    <3>1. lowest[p] \in Word /\ highest[p] \in 1 .. Size
      BY <2>3 DEF IsUnset, TypeOK
    <3>2. Pending(p) \subseteq lowest[p] .. highest[p] - 1
      BY <1>0, <3>1 DEF Pending, First, Length, Word
    <3> QED BY <1>0, <1>4, <2>1, <2>3, <3>1, <3>2 DEF Word
  <2> QED BY <2>2, <2>3
<1>9. UncleanIsPending' /\ StaleIsPending'
  BY <1>0, <1>2, <1>7, <1>8, StoreKeeps DEF WriteAt, Store
<1> QED BY <1>6, <1>9

----------------------------------------------------------------------------
(* Steps of p that store nothing and lose none of its range.               *)
LEMMA QuietKeeps ==
  ASSUME Flushable, NEW p \in Patchers,
         \A q \in Patchers \ {p} : Same(q),
         Pending(p) \subseteq Pending(p)',
         phase[p] # "cleaned", phase'[p] # "cleaned",
         UNCHANGED <<unclean, stale>>
  PROVE  UncleanIsPending' /\ StaleIsPending'
<1>1. Pending(p) \cup {} \subseteq Pending(p)' /\ unclean' = unclean \cup {} /\ stale' = stale \cup {}
  OBVIOUS
<1> HIDE DEF Flushable
<1> QED BY <1>1, StoreKeeps

LEMMA Constructs ==
  ASSUME Flushable, NEW p \in Patchers,
         \/ p \in Stream /\ \E a \in Word : ConstructStream(p, a)
         \/ p \in Random /\ ConstructRandom(p)
  PROVE  Flushable'
<1> USE DEF Flushable
<1>1. phase[p] = "none" /\ phase' = [phase EXCEPT ![p] = "live"]
  BY DEF ConstructStream, ConstructRandom
<1>2. TypeOK'
  <2>1. CASE p \in Stream /\ \E a \in Word : ConstructStream(p, a)
    <3>1. PICK a \in Word : ConstructStream(p, a)
      BY <2>1
    <3>2. a \in 0 .. Size /\ a <= a
      BY PatcherAssumption DEF Word, PatcherAssumption
    <3> QED BY <2>1, <3>1, <3>2 DEF ConstructStream, TypeOK, memory
  <2>2. CASE p \in Random /\ ConstructRandom(p)
    BY <2>2 DEF ConstructRandom, TypeOK, memory
  <2> QED BY <2>1, <2>2
<1>3. \A q \in Patchers \ {p} : Same(q)
  BY DEF Same, ConstructStream, ConstructRandom, TypeOK, Patchers
<1>4. Pending(p) = {}
  BY <1>1 DEF Pending
<1>5. UncleanIsPending' /\ StaleIsPending'
  BY <1>1, <1>3, <1>4, QuietKeeps DEF ConstructStream, ConstructRandom, memory, TypeOK
<1> QED BY <1>2, <1>5

(* Destroy and Seek without anything to flush.                             *)
LEMMA NothingPending ==
  ASSUME NEW p \in Patchers, NothingToFlush(p)
  PROVE  Pending(p) = {}
BY DEF Pending

(* Flush is entered.                                                       *)
LEMMA Flushes ==
  ASSUME Flushable, NEW p \in Patchers, NEW then \in Word \cup {Stay, End},
         phase[p] = "live", Flush(p, then), UNCHANGED <<place, memory>>
  PROVE  Flushable'
<1> USE DEF Flushable
<1>1. TypeOK'
  BY DEF TypeOK, Flush, place, memory
<1>2. \A q \in Patchers \ {p} : Same(q)
  BY DEF Same, Flush, place, TypeOK
<1>3. Pending(p) = Pending(p)' /\ phase'[p] = "flush"
  BY DEF Pending, Flush, place, NothingToFlush, DoneNothing, First, Length, TypeOK
<1>4. UncleanIsPending' /\ StaleIsPending'
  BY <1>2, <1>3, QuietKeeps DEF memory
<1> QED BY <1>1, <1>4

LEMMA Destroys ==
  ASSUME Flushable, NEW p \in Patchers, Destroy(p)
  PROVE  Flushable'
<1>1. CASE NothingToFlush(p)
  <2>1. TypeOK'
    BY <1>1 DEF Flushable, TypeOK, Destroy, place, memory
  <2>2. \A q \in Patchers \ {p} : Same(q)
    BY <1>1 DEF Same, Destroy, place, Flushable, TypeOK
  <2>3. Pending(p) \subseteq Pending(p)' /\ phase[p] = "live" /\ phase'[p] = "none"
    BY <1>1, NothingPending DEF Destroy, Flushable, TypeOK
  <2>4. UncleanIsPending' /\ StaleIsPending'
    BY <2>2, <2>3, QuietKeeps DEF Destroy, memory
  <2> QED BY <2>1, <2>4 DEF Flushable
<1>2. CASE ~NothingToFlush(p)
  BY <1>2, Flushes DEF Destroy
<1> QED BY <1>1, <1>2

LEMMA Seeks ==
  ASSUME Flushable, NEW p \in Stream, NEW a \in Word, Seek(p, a)
  PROVE  Flushable'
<1>0. p \in Patchers /\ a \in 0 .. Size /\ a <= a
  BY PatcherAssumption DEF Patchers, Word, PatcherAssumption
<1>1. CASE DoneNothing(p)
  <2>1. TypeOK'
    BY <1>0, <1>1 DEF Flushable, TypeOK, Seek, memory
  <2>2. \A q \in Patchers \ {p} : Same(q)
    BY <1>1 DEF Same, Seek, Flushable, TypeOK
  <2>3. Pending(p) \subseteq Pending(p)' /\ phase[p] = "live" /\ phase'[p] = "live"
    BY <1>0, <1>1, NothingPending DEF Seek, NothingToFlush
  <2>4. UncleanIsPending' /\ StaleIsPending'
    BY <1>0, <2>2, <2>3, QuietKeeps DEF Seek, memory
  <2> QED BY <2>1, <2>4 DEF Flushable
<1>2. CASE ~DoneNothing(p)
  BY <1>0, <1>2, Flushes DEF Seek, place
<1> QED BY <1>1, <1>2

----------------------------------------------------------------------------
(* The two halves of a flush.                                              *)
LEMMA Cleans ==
  ASSUME Flushable, PatcherAssumption, NEW p \in Patchers, CleanData(p)
  PROVE  Flushable'
<1> USE DEF Flushable
<1>1. TypeOK'
  BY DEF CleanData, TypeOK, place
<1>2. \A q \in Patchers : Pending(q)' = Pending(q)
  BY DEF CleanData, place, TypeOK, Pending, NothingToFlush, DoneNothing, First, Length
<1>3. StaleIsPending'
  BY <1>2 DEF StaleIsPending, CleanData
<1>4. ASSUME NEW a \in unclean'
      PROVE  \E q \in Patchers : a \in Pending(q)' /\ phase'[q] # "cleaned"
  <2>1. a \in unclean /\ a \notin Lines(DataLine, First(p), Length(p)) /\ a \in Word
    BY <1>4 DEF CleanData, TypeOK
  <2>2. a \notin Pending(p)
    BY <2>1, PendingRange, LinesCover DEF PatcherAssumption
  <2>3. PICK q \in Patchers : a \in Pending(q) /\ phase[q] # "cleaned"
    BY <2>1 DEF UncleanIsPending
  <2>4. phase'[q] = phase[q]
    BY <2>2, <2>3 DEF CleanData, TypeOK
  <2> QED BY <1>2, <2>3, <2>4
<1> QED BY <1>1, <1>3, <1>4 DEF UncleanIsPending

LEMMA Invalidates ==
  ASSUME Flushable, PatcherAssumption, NEW p \in Patchers, InvalidateInst(p)
  PROVE  Flushable'
<1> USE DEF Flushable
<1>1. TypeOK'
  <2>1. stale' \subseteq Word /\ unclean' \subseteq stale'
    BY DEF InvalidateInst, TypeOK
  <2>2. start' \in [Stream -> 0 .. Size] /\ current' \in [Stream -> 0 .. Size]
        /\ \A q \in Stream : start'[q] <= current'[q]
    <3>1. CASE p \in Stream
      <4> DEFINE to == IF after[p] \in Word THEN after[p] ELSE current[p]
      <4>1. to \in 0 .. Size /\ to <= to
        BY <3>1 DEF TypeOK, Word
      <4> QED BY <3>1, <4>1 DEF InvalidateInst, TypeOK
    <3>2. CASE p \notin Stream
      BY <3>2 DEF InvalidateInst, TypeOK
    <3> QED BY <3>1, <3>2
  <2> QED BY <2>1, <2>2 DEF InvalidateInst, TypeOK
<1>2. \A q \in Patchers \ {p} : Same(q)
  BY DEF Same, InvalidateInst, TypeOK
<1>3. \A q \in Patchers \ {p} : Pending(q)' = Pending(q) /\ phase'[q] = phase[q]
  BY <1>2, PendingSame DEF Same
<1>4. ASSUME NEW a \in unclean
      PROVE  \E q \in Patchers \ {p} : a \in Pending(q) /\ phase[q] # "cleaned"
  BY <1>4 DEF UncleanIsPending, InvalidateInst
<1>5. UncleanIsPending'
  BY <1>3, <1>4 DEF UncleanIsPending, InvalidateInst
<1>6. ASSUME NEW a \in stale'
      PROVE  \E q \in Patchers : a \in Pending(q)'
  <2>1. a \in stale /\ a \in Word
    BY <1>6 DEF InvalidateInst, TypeOK
  <2>2. CASE a \in unclean
    BY <1>3, <1>4, <2>2
  <2>3. CASE a \notin unclean
    <3>1. a \notin Lines(InstLine, First(p), Length(p))
      BY <1>6, <2>3 DEF InvalidateInst
    <3>2. a \notin Pending(p)
      BY <2>1, <3>1, PendingRange, LinesCover DEF PatcherAssumption
    <3>3. PICK q \in Patchers : a \in Pending(q)
      BY <2>1 DEF StaleIsPending
    <3> QED BY <1>3, <3>2, <3>3
  <2> QED BY <2>2, <2>3
<1> QED BY <1>1, <1>5, <1>6 DEF StaleIsPending

----------------------------------------------------------------------------
LEMMA InitFlushable ==
  ASSUME Init, PatcherAssumption
  PROVE  Flushable
<1>1. 0 \in 0 .. Size /\ 0 <= 0
  BY DEF PatcherAssumption
<1>2. TypeOK
  BY <1>1 DEF Init, TypeOK
<1> QED BY <1>2 DEF Init, Flushable, UncleanIsPending, StaleIsPending

LEMMA NextFlushable ==
  ASSUME Flushable, PatcherAssumption, [Next]_vars
  PROVE  Flushable'
<1> USE DEF Patchers
<1>1. ASSUME NEW p \in Stream, NEW a \in Word, ConstructStream(p, a) PROVE Flushable'
  BY <1>1, Constructs
<1>2. ASSUME NEW p \in Stream, NEW w \in Widths, Write(p, w) PROVE Flushable'
  <2>1. w \in Nat \ {0}
    BY DEF PatcherAssumption
  <2> QED BY <1>2, <2>1, StreamStores DEF Write
<1>3. ASSUME NEW p \in Stream, NEW t \in Targets, BranchInst(p, t) PROVE Flushable'
  <2>1. current[p] \in Int /\ t \in Int
    BY DEF Flushable, TypeOK, PatcherAssumption
  <2>2. Field(Relative(p, t)) \in 0 .. Span - 1
    BY <2>1 DEF Field, Relative, PatcherAssumption
  <2>3. 1 \in Nat \ {0}
    OBVIOUS
  <2> QED BY <1>3, <2>2, <2>3, StreamStores DEF BranchInst
<1>4. ASSUME NEW p \in Stream, NEW a \in Word, Seek(p, a) PROVE Flushable'
  BY <1>4, Seeks
<1>5. ASSUME NEW p \in Random, ConstructRandom(p) PROVE Flushable'
  BY <1>5, Constructs
<1>6. ASSUME NEW p \in Random, NEW a \in Word, NEW w \in Widths, WriteAt(p, a, w)
      PROVE  Flushable'
  <2>1. w \in Nat \ {0}
    BY DEF PatcherAssumption
  <2> QED BY <1>6, <2>1, RandomStores
<1>7. ASSUME NEW p \in Random, FlushNow(p) PROVE Flushable'
  BY <1>7, Flushes DEF FlushNow
<1>8. ASSUME NEW p \in Patchers, Destroy(p) PROVE Flushable'
  BY <1>8, Destroys
<1>9. ASSUME NEW p \in Patchers, CleanData(p) PROVE Flushable'
  BY <1>9, Cleans
<1>10. ASSUME NEW p \in Patchers, InvalidateInst(p) PROVE Flushable'
  BY <1>10, Invalidates
<1>11. ASSUME UNCHANGED vars PROVE Flushable'
  BY <1>11 DEF vars, Flushable, TypeOK, UncleanIsPending, StaleIsPending, Pending,
       NothingToFlush, DoneNothing, First, Length
<1> QED BY <1>1, <1>2, <1>3, <1>4, <1>5, <1>6, <1>7, <1>8, <1>9, <1>10, <1>11 DEF Next

(* Every word a patcher has changed is flushed, or is going to be: Flush    *)
(* covers what the writes and seeks leave it, in both classes.              *)
THEOREM StoresAreFlushed == Spec => []StaleIsPending
<1>1. Init => Flushable
  BY InitFlushable, PatcherAssumption
<1>2. Flushable /\ [Next]_vars => Flushable'
  BY NextFlushable, PatcherAssumption
<1>3. Flushable => StaleIsPending
  BY DEF Flushable
<1> QED BY <1>1, <1>2, <1>3, PTL DEF Spec

(* The patchers' ranges stay inside the module.                            *)
THEOREM PatchersStayTyped == Spec => []TypeOK
<1>1. Init => Flushable
  BY InitFlushable, PatcherAssumption
<1>2. Flushable /\ [Next]_vars => Flushable'
  BY NextFlushable, PatcherAssumption
<1>3. Flushable => TypeOK
  BY DEF Flushable
<1> QED BY <1>1, <1>2, <1>3, PTL DEF Spec

----------------------------------------------------------------------------
(* Branches.  A word holds the low bits of the distance from itself to what *)
(* was asked; a distance within reach is what the signed field says.        *)
Landing ==
  \A a \in Word : asked[a] # NoBranch => asked[a] \in Int /\ code[a] = (asked[a] - a) % Span

LEMMA LowBits ==
  ASSUME NEW n \in Nat \ {0}, NEW x \in Int, NEW q \in Int, NEW r \in 0 .. n - 1, x = n * q + r
  PROVE  x % n = r
BY SMTT(30)

LEMMA FieldSays ==
  ASSUME PatcherAssumption, NEW x \in Int, InReach(x)
  PROVE  Signed(x % Span) = x
<1>1. Span \in Nat \ {0} /\ -Span <= 2 * x /\ 2 * x < Span
  BY DEF PatcherAssumption, InReach
<1>2. CASE x >= 0
  <2>1. x = Span * 0 + x /\ x \in 0 .. Span - 1
    BY <1>1, <1>2
  <2>2. x % Span = x
    BY <1>1, <2>1, LowBits
  <2> QED BY <1>1, <2>2 DEF Signed
<1>3. CASE x < 0
  <2>1. x = Span * (-1) + (x + Span) /\ x + Span \in 0 .. Span - 1 /\ -1 \in Int
    BY <1>1, <1>3
  <2>2. x % Span = x + Span
    BY <1>1, <2>1, LowBits
  <2> QED BY <1>1, <1>3, <2>2 DEF Signed
<1> QED BY <1>2, <1>3

LEMMA LandingStep ==
  ASSUME Flushable, Landing, PatcherAssumption, [Next]_vars
  PROVE  Landing'
<1> USE DEF memory, place
<1>1. ASSUME NEW p \in Stream, NEW t \in Targets, BranchInst(p, t) PROVE Landing'
  <2>1. current[p] \in Int /\ t \in Int
    BY DEF Flushable, TypeOK, PatcherAssumption
  <2>2. ASSUME NEW a \in Word
        PROVE  IF a = current[p] THEN asked'[a] = t /\ code'[a] = (t - a) % Span
                                 ELSE asked'[a] = asked[a] /\ code'[a] = code[a]
    <3> DEFINE field == Field(Relative(p, t))
    <3>1. Store(current[p], 1, field, t)
      BY <1>1 DEF BranchInst
    <3>2. a \in current[p] .. current[p] + 1 - 1 <=> a = current[p]
      BY <2>1 DEF Word
    <3>3. a = current[p] => field = (t - a) % Span
      BY DEF Field, Relative
    <3> HIDE DEF field
    <3> QED BY <3>1, <3>2, <3>3 DEF Store
  <2> QED BY <2>1, <2>2 DEF Landing
<1>2. ASSUME NEW first \in Int, NEW w, Store(first, w, NoBranch, NoBranch) PROVE Landing'
  BY <1>2 DEF Store, Landing
<1>3. ASSUME NEW p \in Stream, NEW w \in Widths, Write(p, w) PROVE Landing'
  BY <1>2, <1>3 DEF Write, Flushable, TypeOK
<1>4. ASSUME NEW p \in Random, NEW a \in Word, NEW w \in Widths, WriteAt(p, a, w) PROVE Landing'
  BY <1>2, <1>4 DEF WriteAt, Word
<1>5. CASE UNCHANGED <<code, asked>>
  BY <1>5 DEF Landing
<1>6. ASSUME NEW p \in Stream, NEW a \in Word, ConstructStream(p, a) \/ Seek(p, a) PROVE Landing'
  BY <1>5, <1>6 DEF ConstructStream, Seek
<1>7. ASSUME NEW p \in Random, ConstructRandom(p) \/ FlushNow(p) PROVE Landing'
  BY <1>5, <1>7 DEF ConstructRandom, FlushNow
<1>8. ASSUME NEW p \in Patchers, Destroy(p) \/ CleanData(p) \/ InvalidateInst(p) PROVE Landing'
  BY <1>5, <1>8 DEF Destroy, CleanData, InvalidateInst
<1>9. CASE UNCHANGED vars
  BY <1>5, <1>9 DEF vars
<1> QED BY <1>1, <1>3, <1>4, <1>6, <1>7, <1>8, <1>9 DEF Next

(* A branch that is in reach goes where it was asked to, for every size of  *)
(* the field, whatever writes and seeks, of this or another patcher, came   *)
(* before it.                                                               *)
THEOREM PatchedBranchesLand == Spec => []BranchesLand
<1>1. Init => Landing
  BY DEF Init, Landing
<1>2. Flushable /\ Landing => BranchesLand
  <2> SUFFICES ASSUME Landing, NEW a \in Word, asked[a] # NoBranch, InReach(asked[a] - a)
               PROVE  code[a] # NoBranch /\ a + Signed(code[a]) = asked[a]
    BY DEF BranchesLand
  <2>1. asked[a] \in Int /\ a \in Int /\ code[a] = (asked[a] - a) % Span
    BY DEF Landing, Word
  <2>2. code[a] \in Int
    BY <2>1, PatcherAssumption DEF PatcherAssumption
  <2>3. Signed(code[a]) = asked[a] - a
    BY <2>1, FieldSays, PatcherAssumption
  <2> QED BY <2>1, <2>2, <2>3, PatcherAssumption DEF PatcherAssumption
<1>3. Init => Flushable
  BY InitFlushable, PatcherAssumption
<1>4. Flushable /\ Landing /\ [Next]_vars => (Flushable /\ Landing)'
  BY NextFlushable, LandingStep, PatcherAssumption
<1> QED BY <1>1, <1>2, <1>3, <1>4, PTL DEF Spec
============================================================================
