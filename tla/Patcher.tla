------------------------------ MODULE Patcher ------------------------------
(***************************************************************************)
(* The two patchers of lib/patch.  Both store through the writable alias   *)
(* of the game's main module and make the stores visible to instruction    *)
(* fetches of the executable view, by cleaning the data cache at the alias *)
(* and invalidating the instruction cache at the code: a StreamPatcher for *)
(* the words between m_Start and m_Current, a RandomAccessPatcher for      *)
(* everything between the lowest and the highest word it has written.      *)
(*                                                                         *)
(* Addresses are counted in words from the start of the main module, as    *)
(* the patchers' arguments are.  A word is known by the branch offset it   *)
(* holds, if any; everything else that can be written is one value.        *)
(***************************************************************************)
EXTENDS Integers

CONSTANTS
  Size,      \* words of the main module that the alias covers
  Stream,    \* the StreamPatcher and CodePatcher objects
  Random,    \* the RandomAccessPatcher objects
  Widths,    \* the sizes of what is written, in words
  Targets,   \* the functions branches are written to
  Span,      \* the number of values of a branch's offset field
  DataLine,  \* the first word of a word's line in the data cache
  InstLine,  \* and in the instruction cache
  NoBranch   \* in place of the offset of a word that is no patched branch

Word == 0 .. Size - 1

(* A line begins at or before each of its words, and lines are in order.   *)
IsLine(line) ==
  /\ line \in [0 .. Size -> 0 .. Size]
  /\ \A a \in 0 .. Size : line[a] <= a
  /\ \A a, b \in 0 .. Size : a <= b => line[a] <= line[b]

ASSUME PatcherAssumption ==
  /\ Size \in Nat \ {0}
  /\ Stream \cap Random = {}
  /\ Widths \subseteq Nat \ {0}
  /\ Targets \subseteq Int
  /\ Span \in Nat \ {0} /\ Span % 2 = 0
  /\ NoBranch \notin Int
  /\ IsLine(DataLine) /\ IsLine(InstLine)

VARIABLES
  phase,    \* phase[p]: "none", "live", "flush", "cleaned"
  after,    \* after[p]: what follows the flush: an address to seek to, Stay, End
  start,    \* m_Start of a stream patcher
  current,  \* m_Current
  lowest,   \* m_Lowest of a random access patcher
  highest,  \* m_Highest
  code,     \* code[a]: the offset field of the branch in word a, or NoBranch
  unclean,  \* words whose last store is in the data cache only
  stale,    \* words of which a fetch may still see an older value
  asked     \* asked[a]: the function the branch in a was written for (history)

vars == <<phase, after, start, current, lowest, highest, code, unclean, stale, asked>>
place == <<start, current, lowest, highest>>
memory == <<code, unclean, stale, asked>>

Patchers == Stream \cup Random
Unset == Size + 1                \* UINTPTR_MAX, above every address
Stay == -1
End == -2

Init ==
  /\ phase = [p \in Patchers |-> "none"]
  /\ after = [p \in Patchers |-> End]
  /\ start = [p \in Stream |-> 0] /\ current = [p \in Stream |-> 0]
  /\ lowest = [p \in Random |-> Unset] /\ highest = [p \in Random |-> Unset]
  /\ code = [a \in Word |-> NoBranch] /\ asked = code
  /\ unclean = {} /\ stale = {}

----------------------------------------------------------------------------
(* Stores and caches.                                                      *)

(* At<T>(first) = value: the store reaches the data cache; what a fetch     *)
(* reads is the older word until the line has been cleaned and invalidated. *)
Store(first, width, field, target) ==
  LET words == first .. first + width - 1 IN
  /\ words \subseteq Word
  /\ code' = [a \in Word |-> IF a \in words THEN field ELSE code[a]]
  /\ asked' = [a \in Word |-> IF a \in words THEN target ELSE asked[a]]
  /\ unclean' = unclean \cup words
  /\ stale' = stale \cup words

(* The loops of armDCacheFlush and armICacheInvalidate: the line of the     *)
(* first word, then every line that begins before the end of the range.     *)
Lines(line, first, size) ==
  {a \in Word : /\ line[first] <= line[a]
                /\ line[a] = line[first] \/ line[a] < first + size}

----------------------------------------------------------------------------
(* What a patcher has to flush.                                            *)

DoneNothing(p) == start[p] = current[p]

\* Mutant: only one bound is looked at.
IsUnsetLowest(low, high) == low = Unset

IsUnset(low, high) == low = Unset \/ high = Unset

First(p) == IF p \in Stream THEN start[p] ELSE lowest[p]
Length(p) ==
  IF p \in Stream THEN current[p] - start[p] ELSE highest[p] - lowest[p]
NothingToFlush(p) == IF p \in Stream THEN DoneNothing(p) ELSE IsUnset(lowest[p], highest[p])

(* The words a patcher has stored and not yet flushed lie here.             *)
Pending(p) ==
  IF phase[p] = "none" \/ NothingToFlush(p) THEN {}
                                            ELSE First(p) .. First(p) + Length(p) - 1

(* Flush(): armDCacheFlush at the writable, armICacheInvalidate at the      *)
(* executable address; what the caller does then is noted in after.         *)
Flush(p, then) ==
  /\ phase' = [phase EXCEPT ![p] = "flush"]
  /\ after' = [after EXCEPT ![p] = then]

CleanData(p) ==
  /\ phase[p] = "flush"
  /\ phase' = [phase EXCEPT ![p] = "cleaned"]
  /\ unclean' = unclean \ Lines(DataLine, First(p), Length(p))
  /\ UNCHANGED <<after, place, code, stale, asked>>

(* A line that is invalidated is fetched again from where cleaned lines     *)
(* are, so a word that is not clean is still read as it was.                *)
InvalidateInst(p) ==
  /\ phase[p] = "cleaned"
  /\ stale' = stale \ (Lines(InstLine, First(p), Length(p)) \ unclean)
  /\ phase' = [phase EXCEPT ![p] = IF after[p] = End THEN "none" ELSE "live"]
  /\ IF p \in Stream
     THEN LET to == IF after[p] \in Word THEN after[p] ELSE current[p] IN
          /\ start' = [start EXCEPT ![p] = to]
          /\ current' = [current EXCEPT ![p] = to]
     ELSE UNCHANGED <<start, current>>
  /\ after' = [after EXCEPT ![p] = End]
  /\ UNCHANGED <<lowest, highest, code, unclean, asked>>

(* Either destructor.                                                      *)
Destroy(p) ==
  /\ phase[p] = "live"
  /\ IF NothingToFlush(p)
     THEN phase' = [phase EXCEPT ![p] = "none"] /\ UNCHANGED after
     ELSE Flush(p, End)
  /\ UNCHANGED <<place, memory>>

----------------------------------------------------------------------------
(* StreamPatcher and CodePatcher.                                          *)

ConstructStream(p, a) ==
  /\ phase[p] = "none"
  /\ phase' = [phase EXCEPT ![p] = "live"]
  /\ start' = [start EXCEPT ![p] = a]
  /\ current' = [current EXCEPT ![p] = a]
  /\ UNCHANGED <<after, lowest, highest, memory>>

Advance(p, width) ==
  /\ current' = [current EXCEPT ![p] = @ + width]
  /\ UNCHANGED <<phase, after, start, lowest, highest>>

Write(p, width) ==
  /\ phase[p] = "live"
  /\ Store(current[p], width, NoBranch, NoBranch)
  /\ Advance(p, width)

\* Mutant: the base is m_Start.
RelativeToStart(p, t) == t - start[p]

(* RelativeAddressFromBase, RelativeAddressFromPointer.                    *)
Relative(p, t) == t - current[p]

(* SetImm26 keeps the low bits of the offset; nothing asks if all fit.      *)
Field(offset) == offset % Span

BranchInst(p, t) ==
  /\ phase[p] = "live"
  /\ Store(current[p], 1, Field(Relative(p, t)), t)
  /\ Advance(p, 1)

\* Mutant: a seek does not flush.
SeekDrops(p, a) ==
  /\ phase[p] = "live"
  /\ Relative(p, a) # 0
  /\ start' = [start EXCEPT ![p] = a]
  /\ current' = [current EXCEPT ![p] = a]
  /\ UNCHANGED <<phase, after, lowest, highest, memory>>

(* Seek and SeekRel; a seek to where the patcher is does not even flush.    *)
Seek(p, a) ==
  /\ phase[p] = "live"
  /\ Relative(p, a) # 0
  /\ IF DoneNothing(p)
     THEN /\ start' = [start EXCEPT ![p] = a]
          /\ current' = [current EXCEPT ![p] = a]
          /\ UNCHANGED <<phase, after>>
     ELSE Flush(p, a) /\ UNCHANGED <<start, current>>
  /\ UNCHANGED <<lowest, highest, memory>>

----------------------------------------------------------------------------
(* RandomAccessPatcher.                                                    *)

ConstructRandom(p) ==
  /\ phase[p] = "none"
  /\ phase' = [phase EXCEPT ![p] = "live"]
  /\ lowest' = [lowest EXCEPT ![p] = Unset]
  /\ highest' = [highest EXCEPT ![p] = Unset]
  /\ UNCHANGED <<after, start, current, memory>>

(* std::min and std::max once both bounds are set.  SetHighest follows      *)
(* SetLowest: on the first write it still finds m_Highest unset.            *)
SetLowest(p, a) ==
  lowest' = [lowest EXCEPT
    ![p] = IF IsUnset(@, highest[p]) \/ a < @ THEN a ELSE @]
SetHighest(p, a) ==
  highest' = [highest EXCEPT
    ![p] = IF IsUnset(lowest'[p], @) \/ a > @ THEN a ELSE @]

WriteAt(p, a, width) ==
  /\ phase[p] = "live"
  /\ Store(a, width, NoBranch, NoBranch)
  /\ SetLowest(p, a)
  /\ SetHighest(p, a + width)
  /\ UNCHANGED <<phase, after, start, current>>

(* The public Flush forgets nothing: its range is flushed again later.      *)
FlushNow(p) ==
  /\ phase[p] = "live"
  /\ ~NothingToFlush(p)
  /\ Flush(p, Stay)
  /\ UNCHANGED <<place, memory>>

----------------------------------------------------------------------------
Next ==
  \/ \E p \in Stream, a \in Word : ConstructStream(p, a)
  \/ \E p \in Stream, w \in Widths : Write(p, w)
  \/ \E p \in Stream, t \in Targets : BranchInst(p, t)
  \/ \E p \in Stream, a \in Word : Seek(p, a)
  \/ \E p \in Random : ConstructRandom(p)
  \/ \E p \in Random, a \in Word, w \in Widths : WriteAt(p, a, w)
  \/ \E p \in Random : FlushNow(p)
  \/ \E p \in Patchers : Destroy(p) \/ CleanData(p) \/ InvalidateInst(p)

Spec == Init /\ [][Next]_vars

----------------------------------------------------------------------------
TypeOK ==
  /\ phase \in [Patchers -> {"none", "live", "flush", "cleaned"}]
  /\ after \in [Patchers -> Word \cup {Stay, End}]
  /\ start \in [Stream -> 0 .. Size] /\ current \in [Stream -> 0 .. Size]
  /\ \A p \in Stream : start[p] <= current[p]
  /\ lowest \in [Random -> Word \cup {Unset}]
  /\ highest \in [Random -> 1 .. Size \cup {Unset}]
  /\ \A p \in Random : lowest[p] = Unset <=> highest[p] = Unset
  /\ code \in [Word -> 0 .. Span - 1 \cup {NoBranch}]
  /\ asked \in [Word -> Targets \cup {NoBranch}]
  /\ unclean \subseteq stale /\ stale \subseteq Word

(* Whoever may still be fetched in an older version is about to be flushed: *)
(* each such word lies in the range of a patcher that will flush it, and    *)
(* when the last patcher is gone the game executes what was written.  This  *)
(* is about Flush and the ranges the writes and seeks leave it, for any     *)
(* number of patchers that overlap.                                         *)
StaleIsPending ==
  \A a \in stale : \E p \in Patchers : a \in Pending(p)

(* A branch goes where it was asked to go, from the word it ended up in,    *)
(* unless the distance is beyond its field: the offset is computed from     *)
(* m_Current, which writes and seeks move, and the field is never checked.  *)
Signed(field) == IF 2 * field < Span THEN field ELSE field - Span

InReach(offset) == -Span <= 2 * offset /\ 2 * offset < Span

BranchesLand ==
  \A a \in Word :
    asked[a] # NoBranch /\ InReach(asked[a] - a) =>
      code[a] # NoBranch /\ a + Signed(code[a]) = asked[a]
=============================================================================
