---------------------------- MODULE Menu_proofs ----------------------------
(***************************************************************************)
(* The menu: what opens it (PadInput), what draws it (NvnHooks) and what    *)
(* it shows (DbgGui), each for itself.                                      *)
(*                                                                         *)
(* PadInput.  For any set of buttons and keys, and whichever threads the   *)
(* layer hook, the frames and the game's reads run on: PadInput implements  *)
(* InputSampler (SamplerIsImplemented), opening and closing the menu each   *)
(* take a press of ZR (FlipsTakePresses), and ImGui misses only changes     *)
(* that no frame was left to make an event of (EventsReachImGui).           *)
(* The first two rest on what a sample finds that no other overlaps         *)
(* (Apart): from the shift to the read the previous state is the current    *)
(* one, and up to the filter the flag that spares our own reads is set.     *)
(* The last needs neither: it follows each change from the sample that      *)
(* finds it to the event, or to the step that takes it away.                *)
(*                                                                         *)
(* NvnHooks.  With one thread that initialises command buffers, for all     *)
(* sizes of data and any number of frames: no assertion about ImGui's       *)
(* context or the backend fails, nothing is drawn with a set-up that        *)
(* failed, and a frame that is submitted has its data.  hasInitImGui is the *)
(* only thing the presenting thread asks.  That it stands for a context and *)
(* a backend (SetUp) needs to know where the loader is; that it stays set,  *)
(* that the test in cmdBufInit and the assignment after InitImGui are not   *)
(* separated by another loader.                                             *)
(*                                                                         *)
(* DbgGui.  For every bound on what the user does: a frame that finds the   *)
(* menu finds the components it draws (FramesFindMenu), the free camera     *)
(* takes over where the game's was (CameraTakesOver), and it keeps looking  *)
(* where it is said to (CameraLooksAhead).                                  *)
(***************************************************************************)
EXTENDS PadInput, NvnHooks, DbgGui, TLAPS

-----------------------------------------------------------------------------
(* PadInput.                                                                *)

Labels == {"idle", "shift", "input", "keys", "hide"} \cup InSample
Reading == {"read", "filter", "end"}
HasRead == {"others", "board", "toggle"}

Typed ==
  /\ held \subseteq Buttons /\ cur \subseteq Buttons /\ prev \subseteq Buttons
  /\ down \subseteq Keys /\ curKeys \subseteq Keys /\ prevKeys \subseteq Keys
  /\ isReadInput \in BOOLEAN /\ toggleInput \in BOOLEAN
  /\ pc \in [Threads -> Labels]
  /\ call \in [Threads -> {"layer", "frame"}]
  /\ todo \in [Threads -> SUBSET Inputs]
  /\ buffer \in [Threads -> SUBSET Buttons]
  /\ presses \in Nat /\ hidden \in Nat /\ flips \in Nat

(* Of two samples under way both are mixed; a sample that is not finds what  *)
(* it has stored itself; and the flag that spares our reads is set only      *)
(* within one, or from the start until the first has ended.                  *)
Apart ==
  /\ mixed \subseteq Samplers
  /\ \A t, u \in Samplers : t # u => t \in mixed
  /\ \A t \in Samplers \ mixed :
       /\ pc[t] \in {"style", "read"} => prev = cur
       /\ pc[t] \in {"read", "filter"} => isReadInput
  /\ isReadInput =>
       \/ \E t \in Threads : pc[t] \in Reading
       \/ ~toggleInput /\ \A t \in Threads : pc[t] \notin HasRead

Sane == Typed /\ Apart

LEMMA SaneInit == Init => Sane
<1> SUFFICES ASSUME Init PROVE Sane
  OBVIOUS
<1>1. \A t \in Threads : pc[t] = "idle"
  BY DEF Init
<1>2. Samplers = {}
  BY <1>1 DEF Samplers, InSample
<1>3. Typed
  BY DEF Init, Typed, Labels, InSample
<1>4. Apart
  BY <1>1, <1>2 DEF Init, Apart, HasRead
<1> QED BY <1>3, <1>4 DEF Sane

LEMMA TypedStep ==
  ASSUME PadInputAssumption, Typed, [Next]_vars
  PROVE  Typed'
<1> USE DEF Typed, Labels, InSample, pad, board, flags, control, history, counts
<1>1. CASE UNCHANGED vars
  BY <1>1 DEF vars
<1>2. ASSUME NEW b \in Buttons, Press(b) \/ Release(b) PROVE Typed'
  BY <1>2 DEF Press, Release
<1>3. ASSUME NEW k \in Keys, Type(k) PROVE Typed'
  BY <1>3 DEF Type
<1>4. ASSUME NEW t \in Threads, NEW label \in Labels, Goto(t, label)
      PROVE  pc' \in [Threads -> Labels]
  BY <1>4 DEF Goto
<1>5. ASSUME NEW t \in Threads, LayerCalc(t) \/ ProcDraw(t) PROVE Typed'
  BY <1>4, <1>5 DEF LayerCalc, ProcDraw
<1>6. ASSUME NEW t \in Threads, Shift(t) PROVE Typed'
  BY <1>4, <1>6 DEF Shift
<1>7. ASSUME NEW t \in Threads, BeginRead(t) PROVE Typed'
  BY <1>4, <1>7 DEF BeginRead
<1>8. ASSUME NEW t \in Threads, Read(t) PROVE Typed'
  BY <1>4, <1>8 DEF Read
<1>9. ASSUME NEW t \in Threads, Filter(t) PROVE Typed'
  BY <1>4, <1>9 DEF Filter, Filtered
<1>10. ASSUME NEW t \in Threads, EndRead(t) PROVE Typed'
  BY <1>4, <1>10 DEF EndRead
<1>11. ASSUME NEW t \in Threads, ShiftOthers(t) \/ ReadOthers(t) PROVE Typed'
  BY <1>4, <1>11 DEF ShiftOthers, ReadOthers
<1>12. ASSUME NEW t \in Threads, Toggle(t) PROVE Typed'
  <2>1. pc' \in [Threads -> Labels]
    BY <1>4, <1>12 DEF Toggle
  <2> QED BY <1>12, <2>1 DEF Toggle
<1>13. ASSUME NEW t \in Threads, UpdateInput(t) PROVE Typed'
  <2>1. pc' \in [Threads -> Labels]
    BY <1>4, <1>13 DEF UpdateInput
  <2> QED BY <1>13, <2>1 DEF UpdateInput
<1>14. ASSUME NEW t \in Threads, NEW x \in Inputs, Key(t, x) PROVE Typed'
  <2>1. pc' \in [Threads -> Labels]
    BY <1>4, <1>14 DEF Key
  <2> QED BY <1>14, <2>1 DEF Key
<1>15. ASSUME NEW t \in Threads, GameRead(t) \/ DisableButtons(t) PROVE Typed'
  BY <1>4, <1>15 DEF GameRead, DisableButtons
<1> QED BY <1>1, <1>2, <1>3, <1>5, <1>6, <1>7, <1>8, <1>9, <1>10, <1>11, <1>12,
           <1>13, <1>14, <1>15 DEF Next, UpdatePadState

(* Where a step of t leaves everybody.                                      *)
LEMMA Goes ==
  ASSUME Typed, NEW t \in Threads, NEW label, Goto(t, label)
  PROVE  /\ pc'[t] = label
         /\ \A u \in Threads \ {t} : pc'[u] = pc[u]
BY DEF Typed, Goto

(* Steps that are no part of a sample change nothing that a sample uses.     *)
Outside(t) ==
  LayerCalc(t) \/ ProcDraw(t) \/ UpdateInput(t) \/ (\E x \in Inputs : Key(t, x))
  \/ GameRead(t) \/ DisableButtons(t)
Elsewhere == {"idle", "shift", "input", "keys", "hide"}

LEMMA OutsideKeeps ==
  ASSUME Typed, NEW t \in Threads, Outside(t)
  PROVE  /\ UNCHANGED <<held, pad, flags, mixed, counts, Samplers>>
         /\ pc[t] \in Elsewhere /\ pc'[t] \in Elsewhere
         /\ \A u \in Threads \ {t} : pc'[u] = pc[u]
<1>1. /\ UNCHANGED <<held, pad, flags, mixed, counts>>
      /\ pc[t] \in Elsewhere
      /\ \E label \in Elsewhere : Goto(t, label)
  BY DEF Outside, LayerCalc, ProcDraw, UpdateInput, Key, GameRead, DisableButtons,
         At, Elsewhere, pad, flags, history, counts
<1>2. pc'[t] \in Elsewhere /\ \A u \in Threads \ {t} : pc'[u] = pc[u]
  BY <1>1, Goes
<1>3. Samplers' = Samplers
  BY <1>1, <1>2 DEF Samplers, InSample, Elsewhere
<1> QED BY <1>1, <1>2, <1>3

(* Steps within a sample, from its shift to its end.                        *)
Inside(t) == BeginRead(t) \/ Read(t) \/ Filter(t) \/ EndRead(t)
             \/ ShiftOthers(t) \/ ReadOthers(t)

LEMMA InsideKeeps ==
  ASSUME Typed, NEW t \in Threads, Inside(t)
  PROVE  /\ UNCHANGED <<held, toggleInput, mixed, presses, flips, Samplers, buffer, shown>>
         /\ t \in Samplers
         /\ \A u \in Threads \ {t} : pc'[u] = pc[u]
         /\ pc'[t] \in InSample
<1>1. /\ UNCHANGED <<held, toggleInput, mixed, presses, flips, buffer, shown>>
      /\ pc[t] \in InSample
      /\ \E label \in InSample : Goto(t, label)
  BY DEF Inside, BeginRead, Read, Filter, EndRead, ShiftOthers, ReadOthers,
         At, InSample, pad, flags, history, counts
<1>2. pc'[t] \in InSample /\ \A u \in Threads \ {t} : pc'[u] = pc[u]
  BY <1>1, Goes
<1>3. Samplers' = Samplers
  BY <1>1, <1>2 DEF Samplers
<1> QED BY <1>1, <1>2, <1>3 DEF Samplers

LEMMA ShiftEnters ==
  ASSUME Typed, NEW t \in Threads, Shift(t)
  PROVE  /\ t \notin Samplers /\ Samplers' = Samplers \cup {t}
         /\ pc[t] = "shift" /\ pc'[t] = "style"
         /\ \A u \in Threads \ {t} : pc'[u] = pc[u]
<1>1. pc[t] = "shift" /\ Goto(t, "style")
  BY DEF Shift, At
<1>2. pc'[t] = "style" /\ \A u \in Threads \ {t} : pc'[u] = pc[u]
  BY <1>1, Goes
<1> QED BY <1>1, <1>2 DEF Samplers, InSample

LEMMA ToggleLeaves ==
  ASSUME Typed, NEW t \in Threads, Toggle(t)
  PROVE  /\ t \in Samplers /\ Samplers' = Samplers \ {t}
         /\ pc[t] = "toggle" /\ pc'[t] = IF call[t] = "frame" THEN "input" ELSE "idle"
         /\ \A u \in Threads \ {t} : pc'[u] = pc[u]
<1>1. pc[t] = "toggle" /\ Goto(t, IF call[t] = "frame" THEN "input" ELSE "idle")
  BY DEF Toggle, At
<1>2. /\ pc'[t] = IF call[t] = "frame" THEN "input" ELSE "idle"
      /\ \A u \in Threads \ {t} : pc'[u] = pc[u]
  BY <1>1 DEF Typed, Goto
<1> QED BY <1>1, <1>2 DEF Samplers, InSample

(* Everything that a step may be.                                           *)
LEMMA Steps ==
  ASSUME [Next]_vars
  PROVE  \/ UNCHANGED vars
         \/ \E b \in Buttons : Press(b) \/ Release(b)
         \/ \E k \in Keys : Type(k)
         \/ \E t \in Threads : Outside(t) \/ Inside(t) \/ Shift(t) \/ Toggle(t)
BY DEF Next, UpdatePadState, Outside, Inside

(* While samples are mixed all of them are.                                 *)
LEMMA AllMixed == Apart /\ mixed # {} => Samplers = mixed
BY DEF Apart

LEMMA ApartStep ==
  ASSUME Typed, Apart, [Next]_vars
  PROVE  Apart'
<1>1. CASE UNCHANGED vars \/ (\E b \in Buttons : Press(b) \/ Release(b)) \/ (\E k \in Keys : Type(k))
  <2>1. UNCHANGED <<pc, prev, cur, mixed, flags>>
    BY <1>1 DEF vars, Press, Release, Type, pad, flags, control, history
  <2> QED BY <2>1 DEF Apart, Samplers, flags
<1>2. ASSUME NEW t \in Threads, Outside(t) PROVE Apart'
  <2>1. /\ UNCHANGED <<prev, cur, isReadInput, toggleInput, mixed, Samplers>>
        /\ pc[t] \in Elsewhere /\ pc'[t] \in Elsewhere
        /\ \A u \in Threads \ {t} : pc'[u] = pc[u]
    BY <1>2, OutsideKeeps DEF pad, flags
  <2>2. \A u \in Samplers : pc'[u] = pc[u]
    BY <2>1 DEF Samplers, Elsewhere, InSample
  <2>3. /\ \A u \in Threads : pc[u] \in Reading <=> pc'[u] \in Reading
        /\ \A u \in Threads : pc[u] \in HasRead <=> pc'[u] \in HasRead
    BY <2>1 DEF Elsewhere, Reading, HasRead
  <2> QED BY <2>1, <2>2, <2>3 DEF Apart
<1>3. ASSUME NEW t \in Threads, Shift(t) PROVE Apart'
  <2>1. /\ Samplers' = Samplers \cup {t} /\ t \notin Samplers
        /\ pc[t] = "shift" /\ pc'[t] = "style"
        /\ \A u \in Threads \ {t} : pc'[u] = pc[u]
    BY <1>3, ShiftEnters
  <2>2. /\ prev' = cur /\ cur' = cur /\ UNCHANGED <<isReadInput, toggleInput>>
        /\ mixed' = IF Samplers = {} THEN mixed ELSE mixed \cup Samplers \cup {t}
    BY <1>3 DEF Shift, flags
  <2>3. isReadInput' =>
          \/ \E u \in Threads : pc'[u] \in Reading
          \/ ~toggleInput' /\ \A u \in Threads : pc'[u] \notin HasRead
    BY <2>1, <2>2 DEF Apart, Reading, HasRead
  <2> QED BY <2>1, <2>2, <2>3 DEF Apart
<1>4. ASSUME NEW t \in Threads, Toggle(t) PROVE Apart'
  <2>1. /\ t \in Samplers /\ Samplers' = Samplers \ {t}
        /\ pc[t] = "toggle" /\ pc'[t] \in {"input", "idle"}
        /\ \A u \in Threads \ {t} : pc'[u] = pc[u]
    BY <1>4, ToggleLeaves
  <2>2. UNCHANGED <<prev, cur, isReadInput>> /\ mixed' = mixed \ {t}
    BY <1>4 DEF Toggle, pad
  <2>3. isReadInput' => \E u \in Threads : pc'[u] \in Reading
    BY <2>1, <2>2 DEF Apart, Reading, HasRead
  <2>4. \A u \in Samplers' : u \in mixed'
    BY <2>1, <2>2 DEF Apart
  <2> QED BY <2>1, <2>2, <2>3, <2>4 DEF Apart
<1>5. ASSUME NEW t \in Threads, Inside(t) PROVE Apart'
  <2>1. /\ UNCHANGED <<toggleInput, mixed, Samplers>> /\ t \in Samplers
        /\ \A u \in Threads \ {t} : pc'[u] = pc[u]
    BY <1>5, InsideKeeps
  <2>2. /\ mixed' \subseteq Samplers'
        /\ \A u, v \in Samplers' : u # v => u \in mixed'
        /\ \A u \in Samplers' \ mixed' : u = t
    BY <2>1 DEF Apart
  <2>3. CASE BeginRead(t)
    <3>1. pc[t] = "style" /\ pc'[t] \in {"read", "end"}
      BY <2>3, Goes DEF BeginRead, At
    <3>2. isReadInput' /\ UNCHANGED <<prev, cur>>
      BY <2>3 DEF BeginRead, pad
    <3> QED BY <2>1, <2>2, <3>1, <3>2 DEF Apart, Reading
  <2>4. CASE Read(t)
    <3>1. pc[t] = "read" /\ pc'[t] = "filter" /\ UNCHANGED isReadInput
      BY <2>4, Goes DEF Read, At, flags
    <3> QED BY <2>1, <2>2, <3>1 DEF Apart, Reading
  <2>5. CASE Filter(t)
    <3>1. pc[t] = "filter" /\ pc'[t] = "end" /\ UNCHANGED isReadInput
      BY <2>5, Goes DEF Filter, At, flags
    <3> QED BY <2>1, <2>2, <3>1 DEF Apart, Reading
  <2>6. CASE EndRead(t)
    <3>1. pc[t] = "end" /\ pc'[t] = "others" /\ ~isReadInput'
      BY <2>6, Goes DEF EndRead, At
    <3> QED BY <2>1, <2>2, <3>1 DEF Apart, Reading
  <2>7. CASE ShiftOthers(t) \/ ReadOthers(t)
    <3>1. pc[t] \in {"others", "board"} /\ pc'[t] \in {"board", "toggle"} /\ UNCHANGED isReadInput
      BY <2>7, Goes DEF ShiftOthers, ReadOthers, At, flags
    <3>2. isReadInput' => \E u \in Threads : pc'[u] \in Reading
      BY <2>1, <3>1 DEF Apart, Reading, HasRead
    <3> QED BY <2>1, <2>2, <3>1, <3>2 DEF Apart
  <2> QED BY <1>5, <2>3, <2>4, <2>5, <2>6, <2>7 DEF Inside
<1> QED BY <1>1, <1>2, <1>3, <1>4, <1>5, Steps

LEMMA SaneStep == Sane /\ [Next]_vars => Sane'
BY TypedStep, ApartStep, PadInputAssumption DEF Sane

-----------------------------------------------------------------------------
(* A press of ZR that no sample has seen, or whose toggle is still to come, *)
(* counts as a flip already; so does one that an overlapping sample hid.    *)
Clean == Samplers \ mixed
Unseen == IF ZR \in held \ cur THEN 1 ELSE 0
Coming == IF \E t \in Clean : Sampled(t) /\ Toggles THEN 1 ELSE 0
Paid(f, c, u, p, h) == f + c + u <= p + h
Counted == Paid(flips, Coming, Unseen, presses, hidden)

(* A press, what takes no more than before, a flip that was to come, a sample *)
(* that finds a press, and a press that is hidden.                          *)
LEMMA PaidPress == \A f, c, u, p, h, uu, pp \in Int :
  Paid(f, c, u, p, h) /\ uu <= u + 1 /\ pp = p + 1 => Paid(f, c, uu, pp, h)
BY DEF Paid
LEMMA PaidLess == \A f, c, u, p, h, cc, uu \in Int :
  Paid(f, c, u, p, h) /\ cc <= c /\ uu <= u => Paid(f, cc, uu, p, h)
BY DEF Paid
LEMMA PaidFlip == \A f, u, p, h, ff \in Int :
  Paid(f, 1, u, p, h) /\ ff = f + 1 => Paid(ff, 0, u, p, h)
BY DEF Paid
LEMMA PaidSample == \A f, c, u, p, h, cc \in Int :
  Paid(f, c, u, p, h) /\ cc <= u /\ 0 <= c => Paid(f, cc, 0, p, h)
BY DEF Paid
LEMMA PaidHidden == \A f, c, u, p, h, uu, hh \in Int :
  Paid(f, c, u, p, h) /\ 0 <= c /\ uu <= u + 1 /\ hh = h + 1 => Paid(f, 0, uu, p, hh)
BY DEF Paid

LEMMA PaidNone == \A f, p, h \in Int : Paid(f, 0, 0, p, h) => f <= p + h
BY DEF Paid

(* If none is clean in the end, no flip is to come.                         *)
LEMMA CountedKept ==
  ASSUME Typed, Typed', Counted,
         UNCHANGED <<held, cur, presses, flips>>, hidden' = hidden,
         Coming' = Coming \/ Coming' = 0
  PROVE  Counted'
<1>1. /\ Unseen' = Unseen /\ Unseen \in Int /\ Unseen <= Unseen
      /\ Coming \in Int /\ Coming' \in Int /\ Coming' <= Coming
  BY DEF Coming, Unseen
<1>2. flips \in Int /\ presses \in Int /\ hidden \in Int
  BY DEF Typed
<1>3. Paid(flips, Coming', Unseen, presses, hidden)
  BY <1>1, <1>2, PaidLess DEF Counted
<1> QED BY <1>1, <1>3 DEF Counted

LEMMA CountedStep ==
  ASSUME PadInputAssumption, Sane, Sane', Counted, [Next]_vars
  PROVE  Counted'
<1> USE DEF Sane
<1>1. /\ flips \in Int /\ presses \in Int /\ hidden \in Int
      /\ flips' \in Int /\ presses' \in Int /\ hidden' \in Int
  BY DEF Typed
<1>2. ASSUME UNCHANGED <<pc, prev, cur, mixed>> PROVE Coming' = Coming
  BY <1>2 DEF Coming, Clean, Samplers, Sampled, Toggles, IsHold, IsPress
<1>3. ASSUME \A t \in Clean' : ~(Sampled(t)' /\ Toggles') PROVE Coming' = 0
  BY <1>3 DEF Coming
<1>4. Coming \in Int /\ Unseen \in Int /\ Coming' \in Int /\ Unseen' \in Int
  BY DEF Coming, Unseen
<1>5. 0 <= Coming
  BY DEF Coming
<1>6. CASE UNCHANGED vars \/ \E k \in Keys : Type(k)
  <2>1. UNCHANGED <<pc, prev, cur, mixed, held, presses, flips, hidden>>
    BY <1>6 DEF vars, Type, pad, control, history, counts
  <2> QED BY <1>2, <2>1, CountedKept
<1>7. ASSUME NEW b \in Buttons, Press(b) \/ Release(b) PROVE Counted'
  <2>1. UNCHANGED <<pc, prev, cur, mixed, flips, hidden>>
    BY <1>7 DEF Press, Release, pad, control, history, counts
  <2>2. Coming' = Coming
    BY <1>2, <2>1
  <2>3. CASE Press(b) /\ b = ZR
    <3>1. ZR \notin held /\ presses' = presses + 1
      BY <2>3 DEF Press
    <3>2. Unseen' <= Unseen + 1
      BY <3>1 DEF Unseen
    <3> QED BY <1>1, <1>4, <2>1, <2>2, <3>1, <3>2, PaidPress DEF Counted
  <2>4. CASE Press(b) /\ b # ZR
    <3>1. presses' = presses /\ (ZR \in held' <=> ZR \in held)
      BY <2>4 DEF Press
    <3>2. Unseen' = Unseen
      BY <2>1, <3>1 DEF Unseen
    <3> QED BY <2>1, <2>2, <3>1, <3>2 DEF Counted
  <2>5. CASE Release(b)
    <3>1. presses' = presses /\ (ZR \in held' => ZR \in held)
      BY <2>5 DEF Release, history, counts
    <3>2. Unseen' <= Unseen /\ Coming <= Coming
      BY <2>1, <3>1 DEF Unseen, Coming
    <3> QED BY <1>1, <1>4, <2>1, <2>2, <3>1, <3>2, PaidLess DEF Counted
  <2> QED BY <1>7, <2>3, <2>4, <2>5
<1>8. ASSUME NEW t \in Threads, Outside(t) PROVE Counted'
  <2>1. /\ UNCHANGED <<held, prev, cur, mixed, presses, flips, hidden, Samplers>>
        /\ pc[t] \in Elsewhere /\ \A u \in Threads \ {t} : pc'[u] = pc[u]
    BY <1>8, OutsideKeeps DEF pad, counts
  <2>2. \A u \in Clean : u \in Threads \ {t}
    BY <2>1 DEF Clean, Samplers, Elsewhere, InSample
  <2>3. \A u \in Clean : Sampled(u)' <=> Sampled(u)
    BY <2>1, <2>2 DEF Sampled
  <2>4. Clean' = Clean /\ (Toggles' <=> Toggles)
    BY <2>1 DEF Clean, Toggles, IsHold, IsPress
  <2>5. Coming' = Coming
    BY <2>3, <2>4 DEF Coming
  <2> QED BY <2>1, <2>5, CountedKept
<1>9. ASSUME NEW t \in Threads, Shift(t) PROVE Counted'
  <2>1. Samplers' = Samplers \cup {t} /\ pc'[t] = "style"
    BY <1>9, ShiftEnters
  <2>2. /\ mixed' = IF Samplers = {} THEN mixed ELSE mixed \cup Samplers \cup {t}
        /\ UNCHANGED <<held, cur, presses, flips, hidden>>
    BY <1>9 DEF Shift, counts
  <2>3. \A u \in Clean' : u = t
    BY <2>1, <2>2 DEF Clean
  <2>4. Coming' = 0
    BY <1>3, <2>1, <2>3 DEF Sampled
  <2> QED BY <2>2, <2>4, CountedKept
<1>10. ASSUME NEW t \in Threads, Toggle(t) PROVE Counted'
  <2>1. t \in Samplers /\ Samplers' = Samplers \ {t} /\ pc[t] = "toggle"
    BY <1>10, ToggleLeaves
  <2>2. /\ flips' = (IF Toggles /\ t \notin mixed THEN flips + 1 ELSE flips)
        /\ mixed' = mixed \ {t} /\ UNCHANGED <<held, cur, presses, hidden>>
    BY <1>10 DEF Toggle, pad
  <2>3. Clean' = {}
    BY <2>1, <2>2 DEF Clean, Apart
  <2>4. Coming' = 0 /\ Unseen' = Unseen
    BY <1>3, <2>2, <2>3 DEF Unseen
  <2>5. Toggles /\ t \notin mixed => Coming = 1
    BY <2>1 DEF Coming, Clean, Sampled
  <2>6. CASE Toggles /\ t \notin mixed
    BY <1>1, <1>4, <2>2, <2>4, <2>5, <2>6, PaidFlip DEF Counted
  <2>7. CASE ~(Toggles /\ t \notin mixed)
    BY <2>2, <2>4, <2>7, CountedKept
  <2> QED BY <2>6, <2>7
<1>11. ASSUME NEW t \in Threads, Inside(t) PROVE Counted'
  <2>1. /\ UNCHANGED <<held, mixed, presses, flips, Samplers>> /\ t \in Samplers
        /\ \A u \in Threads \ {t} : pc'[u] = pc[u]
    BY <1>11, InsideKeeps
  <2>2. Clean' = Clean /\ \A u \in Clean : u = t
    BY <2>1 DEF Clean, Apart
  <2>3. CASE BeginRead(t)
    <3>1. pc[t] = "style" /\ UNCHANGED <<prev, cur, hidden>>
      BY <2>3 DEF BeginRead, At, pad, history, counts
    <3>2. t \in Clean => prev = cur
      BY <3>1 DEF Clean, Apart
    <3>3. Coming' = 0
      BY <1>3, <2>2, <3>1, <3>2 DEF Toggles, IsPress
    <3> QED BY <2>1, <3>1, <3>3, CountedKept
  <2>4. CASE Read(t)
    <3>1. pc[t] = "read" /\ cur' = held /\ UNCHANGED <<prev, hidden>>
      BY <2>4 DEF Read, At, counts
    <3>2. t \in Clean => prev = cur
      BY <3>1 DEF Clean, Apart
    <3>3. Coming' = 1 => ZR \in held \ cur
      BY <2>2, <3>1, <3>2 DEF Coming, Toggles, IsPress
    <3>4. Unseen' = 0
      BY <2>1, <3>1 DEF Unseen
    <3>5. Coming' <= Unseen
      <4>1. Coming' = 0 \/ Coming' = 1
        BY DEF Coming
      <4>2. Coming' = 1 => Unseen = 1
        BY <3>3 DEF Unseen
      <4>3. Unseen = 0 \/ Unseen = 1
        BY DEF Unseen
      <4> QED BY <4>1, <4>2, <4>3
    <3> QED BY <1>1, <1>4, <1>5, <2>1, <3>1, <3>4, <3>5, PaidSample DEF Counted
  <2>5. CASE Filter(t)
    <3>1. /\ pc[t] = "filter" /\ prev' = prev /\ cur' = Filtered(cur)
          /\ hidden' = IF ZR \in held /\ ZR \in cur \ cur' THEN hidden + 1 ELSE hidden
      BY <2>5 DEF Filter, At
    <3>2. CASE t \in Clean
      <4>1. isReadInput
        BY <3>1, <3>2 DEF Clean, Apart
      <4>2. cur' = cur /\ hidden' = hidden
        BY <3>1, <4>1 DEF Filtered, Disabled
      <4>3. Sampled(t) /\ (Toggles' <=> Toggles)
        BY <3>1, <4>2 DEF Sampled, Toggles, IsHold, IsPress
      <4>4. Coming' = Coming \/ Coming' = 0
        BY <2>2, <3>2, <4>3 DEF Coming
      <4> QED BY <2>1, <4>2, <4>4, CountedKept
    <3>3. CASE t \notin Clean
      <4>1. Coming' = 0
        BY <1>3, <2>2, <3>3
      <4>2. CASE hidden' = hidden + 1
        <5>1. Unseen' <= Unseen + 1
          BY DEF Unseen
        <5> QED BY <1>1, <1>4, <1>5, <2>1, <4>1, <4>2, <5>1, PaidHidden DEF Counted
      <4>3. CASE hidden' = hidden
        <5>1. ZR \in held \ cur' => ZR \in held \ cur
          BY <1>1, <3>1, <4>3
        <5>2. Unseen' <= Unseen
          BY <2>1, <5>1 DEF Unseen
        <5> QED BY <1>1, <1>4, <1>5, <2>1, <4>1, <4>3, <5>2, PaidLess DEF Counted
      <4> QED BY <3>1, <4>2, <4>3
    <3> QED BY <3>2, <3>3
  <2>6. CASE EndRead(t) \/ ShiftOthers(t) \/ ReadOthers(t)
    <3>1. /\ UNCHANGED <<prev, cur, hidden>>
          /\ pc[t] \in {"end", "others", "board"}
      BY <2>6 DEF EndRead, ShiftOthers, ReadOthers, At, pad, history, counts
    <3>2. Sampled(t) /\ (Toggles' <=> Toggles)
      BY <3>1 DEF Sampled, Toggles, IsHold, IsPress
    <3>3. Coming' = Coming \/ Coming' = 0
      BY <2>2, <3>2 DEF Coming
    <3> QED BY <2>1, <3>1, <3>3, CountedKept
  <2> QED BY <1>11, <2>3, <2>4, <2>5, <2>6 DEF Inside
<1> QED BY <1>6, <1>7, <1>8, <1>9, <1>10, <1>11, Steps

(* Opening and closing the menu each take a press of ZR of their own, on     *)
(* whatever threads the samples are taken: a sample that overlaps no other  *)
(* flips it only for a press, or for a ZR that an overlapping one hid.      *)
THEOREM FlipsTakePresses == Spec => []FlipsArePresses
<1>1. Init => Counted
  <2> SUFFICES ASSUME Init PROVE Counted
    OBVIOUS
  <2>1. Samplers = {}
    BY DEF Init, Samplers, InSample
  <2>2. Coming = 0 /\ Unseen = 0
    BY <2>1 DEF Coming, Clean, Unseen, Init
  <2> QED BY <2>2 DEF Init, Counted, Paid
<1>2. Sane /\ Sane' /\ Counted /\ [Next]_vars => Counted'
  BY CountedStep, PadInputAssumption
<1>3. Sane /\ Counted => FlipsArePresses
  <2> SUFFICES ASSUME Sane, Counted PROVE FlipsArePresses
    OBVIOUS
  <2>1. /\ Coming \in Int /\ Unseen \in Int /\ 0 <= Coming /\ 0 <= Unseen
        /\ flips \in Int /\ presses \in Int /\ hidden \in Int
    BY DEF Coming, Unseen, Sane, Typed
  <2>2. Paid(flips, 0, 0, presses, hidden)
    BY <2>1, PaidLess DEF Counted
  <2> QED BY <2>1, <2>2, PaidNone DEF FlipsArePresses
<1> QED BY <1>1, <1>2, <1>3, SaneInit, SaneStep, PTL DEF Spec

----------------------------------------------------------------------------
(* The value that the refinement gives to InputSampler's open.              *)
Open == toggleInput # Opening
InRead == {t \in Threads : pc[t] = "hide"}

(* A step that keeps what a sample sees and where the samplers are keeps open.*)
LEMMA OpenKept ==
  ASSUME UNCHANGED <<prev, cur, toggleInput>>,
         \A t \in Threads : Sampled(t)' <=> Sampled(t)
  PROVE  Open' = Open
<1>1. Toggles' <=> Toggles
  BY DEF Toggles, IsHold, IsPress
<1>2. Opening' = Opening
  BY <1>1 DEF Opening
<1> QED BY <1>2 DEF Open

(* Without a sample under way, or with one whose outcome is not known yet.   *)
LEMMA OpenIs ==
  ASSUME Typed, \A t \in Threads : ~(Sampled(t) /\ Toggles)
  PROVE  Open = toggleInput
BY DEF Open, Opening, Typed

(* A clean sample is the only one.                                          *)
LEMMA CleanStep ==
  ASSUME Sane, Sane', NEW t \in Threads, Inside(t), mixed = {}
  PROVE  Sampler!Sample \/ UNCHANGED <<held, cur, Open, Samplers, mixed, InRead, buffer, shown>>
<1>1. /\ UNCHANGED <<held, toggleInput, mixed, Samplers, buffer, shown>> /\ t \in Samplers
      /\ \A u \in Threads \ {t} : pc'[u] = pc[u]
      /\ pc'[t] \in InSample
  BY InsideKeeps DEF Sane
<1>2. Samplers = {t}
  BY <1>1 DEF Sane, Apart
<1>3. /\ \A u \in Threads \ {t} : ~Sampled(u) /\ ~Sampled(u)'
      /\ InRead' = InRead
  BY <1>1, <1>2 DEF Samplers, Sampled, InSample, InRead
<1>4. Opening = (Sampled(t) /\ Toggles) /\ Opening' = (Sampled(t)' /\ Toggles')
  BY <1>3 DEF Opening
<1>5. CASE BeginRead(t)
  <2>1. pc[t] = "style" /\ UNCHANGED <<prev, cur>>
    BY <1>5 DEF BeginRead, At, pad
  <2>2. prev = cur
    BY <1>2, <2>1 DEF Sane, Apart
  <2>3. ~Toggles /\ ~Toggles'
    BY <2>1, <2>2 DEF Toggles, IsPress
  <2>4. Open' = Open
    BY <1>1, <1>4, <2>3 DEF Open
  <2> QED BY <1>1, <1>3, <2>1, <2>4
<1>6. CASE Read(t)
  <2>1. pc[t] = "read" /\ pc'[t] = "filter" /\ cur' = held /\ prev' = prev
    BY <1>6, Goes DEF Read, At, Sane
  <2>2. prev = cur
    BY <1>2, <2>1 DEF Sane, Apart
  <2>3. ~Opening /\ (Opening' <=> ZL \in cur' /\ ZR \in cur' \ cur)
    BY <1>4, <2>1, <2>2 DEF Sampled, Toggles, IsHold, IsPress
  <2>4. Open' = (Open # (ZL \in cur' /\ ZR \in cur' \ cur))
    <3>1. toggleInput \in BOOLEAN /\ toggleInput' = toggleInput
      BY <1>1 DEF Sane, Typed
    <3>2. Opening = FALSE
      BY <2>3 DEF Opening
    <3>3. Open = toggleInput
      BY <3>1, <3>2 DEF Open
    <3>4. CASE ZL \in cur' /\ ZR \in cur' \ cur
      <4>1. Opening' = TRUE
        BY <2>3, <3>4 DEF Opening
      <4>2. Open' = ~toggleInput
        BY <3>1, <4>1 DEF Open
      <4> QED BY <3>1, <3>3, <3>4, <4>2
    <3>5. CASE ~(ZL \in cur' /\ ZR \in cur' \ cur)
      <4>1. Opening' = FALSE
        BY <2>3, <3>5 DEF Opening
      <4>2. Open' = toggleInput
        BY <3>1, <4>1 DEF Open
      <4> QED BY <3>1, <3>3, <3>5, <4>2
    <3> QED BY <3>4, <3>5
  <2> QED BY <1>1, <1>2, <1>3, <2>1, <2>4 DEF Sampler!Sample, Sampler!game, Open, InRead
<1>7. CASE Filter(t)
  <2>1. pc[t] = "filter" /\ pc'[t] = "end" /\ cur' = Filtered(cur) /\ prev' = prev
    BY <1>7, Goes DEF Filter, At, Sane
  <2>2. isReadInput
    BY <1>2, <2>1 DEF Sane, Apart
  <2>3. cur' = cur
    BY <2>1, <2>2 DEF Filtered, Disabled
  <2>4. \A u \in Threads : Sampled(u)' <=> Sampled(u)
    BY <1>3, <2>1 DEF Sampled
  <2>5. Open' = Open
    BY <1>1, <2>1, <2>3, <2>4, OpenKept
  <2> QED BY <1>1, <1>3, <2>3, <2>5
<1>8. CASE EndRead(t) \/ ShiftOthers(t) \/ ReadOthers(t)
  <2>1. /\ UNCHANGED <<prev, cur>>
        /\ pc[t] \in {"end", "others", "board"} /\ pc'[t] \in {"others", "board", "toggle"}
    BY <1>8, Goes DEF EndRead, ShiftOthers, ReadOthers, At, pad, Sane
  <2>2. \A u \in Threads : Sampled(u)' <=> Sampled(u)
    BY <1>3, <2>1 DEF Sampled
  <2>3. Open' = Open
    BY <1>1, <2>1, <2>2, OpenKept
  <2> QED BY <1>1, <1>3, <2>1, <2>3
<1> QED BY <1>5, <1>6, <1>7, <1>8 DEF Inside

(* While samples are mixed, and in the step that mixes them, a step within   *)
(* one may do anything with it.                                             *)
LEMMA MixedStep ==
  ASSUME Sane, Sane', NEW t \in Threads, Inside(t) \/ Shift(t) \/ Toggle(t),
         mixed # {} \/ mixed' # {}
  PROVE  Sampler!Overlap
<1>1. Samplers # {} /\ (Samplers' # {} <=> mixed' # {})
  <2>1. CASE Inside(t)
    <3>1. UNCHANGED <<mixed, Samplers>>
      BY <2>1, InsideKeeps DEF Sane
    <3> QED BY <3>1, AllMixed DEF Sane
  <2>2. CASE Shift(t)
    <3>1. /\ Samplers' = Samplers \cup {t}
          /\ mixed' = IF Samplers = {} THEN mixed ELSE mixed \cup Samplers \cup {t}
      BY <2>2, ShiftEnters DEF Shift, Sane
    <3> QED BY <3>1, AllMixed DEF Sane, Apart
  <2>3. CASE Toggle(t)
    <3>1. Samplers' = Samplers \ {t} /\ mixed' = mixed \ {t}
      BY <2>3, ToggleLeaves DEF Toggle, Sane
    <3> QED BY <3>1, AllMixed DEF Sane, Apart
  <2> QED BY <2>1, <2>2, <2>3
<1>2. /\ UNCHANGED <<held, buffer, shown>>
      /\ \A u \in Threads \ {t} : pc'[u] = pc[u]
      /\ pc[t] # "hide" /\ pc'[t] # "hide"
  <2>1. CASE Inside(t)
    BY <2>1, InsideKeeps DEF Sane, Samplers, InSample
  <2>2. CASE Shift(t)
    BY <2>2, ShiftEnters DEF Shift, Sane
  <2>3. CASE Toggle(t)
    BY <2>3, ToggleLeaves DEF Toggle, Sane
  <2> QED BY <2>1, <2>2, <2>3
<1>3. InRead' = InRead
  BY <1>2 DEF InRead
<1>4. Open' \in BOOLEAN /\ cur' \in SUBSET Buttons
  BY DEF Open, Sane, Typed
<1> QED BY <1>1, <1>2, <1>3, <1>4 DEF Sampler!Overlap, Sampler!game, Open, InRead

(* What the game is shown.                                                  *)
LEMMA ShowStep ==
  ASSUME Sane, NEW t \in Threads, DisableButtons(t), Open' = Open,
         UNCHANGED <<held, cur, mixed, Samplers>>, InRead' = InRead \ {t}, t \in InRead
  PROVE  Sampler!Show(t)
<1>1. shown' = Filtered(buffer[t]) /\ buffer' = [buffer EXCEPT ![t] = {}]
  BY DEF DisableButtons
<1>2. CASE Samplers # {}
  <2>1. shown' \in {{}, buffer[t]}
    BY <1>1 DEF Filtered
  <2> QED BY <1>1, <1>2, <2>1 DEF Sampler!Show, Sampler!menu, Open, InRead
<1>3. CASE Samplers = {}
  <2>1. \A u \in Threads : ~Sampled(u) /\ pc[u] \notin Reading
    BY <1>3 DEF Samplers, Sampled, InSample, Reading
  <2>2. Open = toggleInput
    BY <2>1, OpenIs DEF Sane
  <2>3. Disabled <=> toggleInput
    BY <2>1 DEF Sane, Apart, Disabled
  <2>4. shown' \in IF Open THEN {{}} ELSE {buffer[t]}
    BY <1>1, <2>2, <2>3 DEF Filtered
  <2> QED BY <1>1, <1>3, <2>4 DEF Sampler!Show, Sampler!menu, Open, InRead
<1> QED BY <1>2, <1>3

LEMMA OutsideStep ==
  ASSUME Sane, NEW t \in Threads, Outside(t)
  PROVE  Sampler!Next \/ UNCHANGED <<held, cur, Open, Samplers, mixed, InRead, buffer, shown>>
<1>1. /\ UNCHANGED <<held, prev, cur, toggleInput, mixed, Samplers>>
      /\ pc[t] \in Elsewhere /\ pc'[t] \in Elsewhere
      /\ \A u \in Threads \ {t} : pc'[u] = pc[u]
  BY OutsideKeeps DEF Sane, pad, flags
<1>2. Open' = Open
  <2>1. \A u \in Threads : Sampled(u)' <=> Sampled(u)
    BY <1>1 DEF Sampled, Elsewhere
  <2> QED BY <1>1, <2>1, OpenKept
<1>3. CASE GameRead(t)
  <2>1. pc[t] = "idle" /\ pc'[t] = "hide" /\ shown' = shown
        /\ buffer' = [buffer EXCEPT ![t] = held]
    BY <1>3, Goes DEF GameRead, At, Sane
  <2>2. t \notin InRead /\ InRead' = InRead \cup {t}
    BY <1>1, <2>1 DEF InRead
  <2>3. Sampler!Look(t)
    BY <1>1, <1>2, <2>1, <2>2 DEF Sampler!Look, Sampler!menu, Open, InRead
  <2> QED BY <2>3 DEF Sampler!Next
<1>4. CASE DisableButtons(t)
  <2>1. pc[t] = "hide" /\ pc'[t] = "idle"
    BY <1>4, Goes DEF DisableButtons, At, Sane
  <2>2. t \in InRead /\ InRead' = InRead \ {t}
    BY <1>1, <2>1 DEF InRead
  <2>3. Sampler!Show(t)
    BY <1>1, <1>2, <1>4, <2>2, ShowStep
  <2> QED BY <2>3 DEF Sampler!Next
<1>5. CASE LayerCalc(t) \/ ProcDraw(t) \/ UpdateInput(t) \/ \E x \in Inputs : Key(t, x)
  <2>1. /\ UNCHANGED <<buffer, shown>>
        /\ pc[t] \in {"idle", "input", "keys"}
        /\ \E label \in {"idle", "shift", "keys"} : Goto(t, label)
    BY <1>5 DEF LayerCalc, ProcDraw, UpdateInput, Key, At
  <2>2. pc'[t] \in {"idle", "shift", "keys"}
    BY <2>1, Goes DEF Sane
  <2>3. InRead' = InRead
    BY <1>1, <2>1, <2>2 DEF InRead
  <2> QED BY <1>1, <1>2, <2>1, <2>3
<1> QED BY <1>3, <1>4, <1>5 DEF Outside

(* The samples and the game's reads, on any threads, are those of            *)
(* InputSampler: from its shift to its toggle a sample that overlaps no     *)
(* other takes effect at its read, and what the game is shown outside of    *)
(* samples depends on the menu alone.                                       *)
THEOREM SamplerIsImplemented == Spec => ActsAsSampler
<1>1. Init => Sampler!Init
  <2> SUFFICES ASSUME Init PROVE Sampler!Init
    OBVIOUS
  <2>1. \A t \in Threads : pc[t] = "idle"
    BY DEF Init
  <2>2. Samplers = {} /\ InRead = {} /\ Opening = FALSE
    BY <2>1 DEF Samplers, InSample, InRead, Opening, Sampled
  <2>3. Open = FALSE
    BY <2>2 DEF Init, Open
  <2> QED BY <2>2, <2>3 DEF Init, Sampler!Init, Open, InRead
<1>2. Sane /\ Sane' /\ [Next]_vars => [Sampler!Next]_(Sampler!vars)
  <2> SUFFICES ASSUME Sane, Sane', [Next]_vars
               PROVE  \/ Sampler!Next
                      \/ UNCHANGED <<held, cur, Open, Samplers, mixed, InRead, buffer, shown>>
    BY DEF Sampler!vars, Sampler!menu, Sampler!game, Open, InRead
  <2>1. ASSUME UNCHANGED pc PROVE UNCHANGED <<Samplers, InRead>> /\ \A t \in Threads : Sampled(t)' <=> Sampled(t)
    BY <2>1 DEF Samplers, InRead, Sampled
  <2>2. CASE UNCHANGED vars \/ \E k \in Keys : Type(k)
    <3>1. UNCHANGED <<pc, held, prev, cur, toggleInput, mixed, buffer, shown>>
      BY <2>2 DEF vars, Type, pad, flags, control, history
    <3> QED BY <2>1, <3>1, OpenKept
  <2>3. ASSUME NEW b \in Buttons, Press(b) \/ Release(b) PROVE Sampler!Use
    <3>1. UNCHANGED <<pc, prev, cur, toggleInput, mixed, buffer, shown>>
      BY <2>3 DEF Press, Release, pad, flags, control, history
    <3>2. Open' = Open
      BY <2>1, <3>1, OpenKept
    <3>3. held' \in SUBSET Buttons
      BY DEF Sane, Typed
    <3> QED BY <2>1, <3>1, <3>2, <3>3
        DEF Sampler!Use, Sampler!menu, Sampler!game, Open, InRead
  <2>4. ASSUME NEW t \in Threads, Outside(t)
        PROVE  Sampler!Next \/ UNCHANGED <<held, cur, Open, Samplers, mixed, InRead, buffer, shown>>
    BY <2>4, OutsideStep
  <2>5. ASSUME NEW t \in Threads, Inside(t)
        PROVE  Sampler!Next \/ UNCHANGED <<held, cur, Open, Samplers, mixed, InRead, buffer, shown>>
    BY <2>5, CleanStep, MixedStep DEF Sampler!Next
  <2>6. ASSUME NEW t \in Threads, Shift(t) PROVE Sampler!Next
    <3>1. CASE mixed # {} \/ mixed' # {}
      BY <2>6, <3>1, MixedStep DEF Sampler!Next
    <3>2. CASE mixed = {} /\ mixed' = {}
      <4>1. /\ Samplers' = Samplers \cup {t} /\ pc[t] = "shift" /\ pc'[t] = "style"
            /\ \A u \in Threads \ {t} : pc'[u] = pc[u]
        BY <2>6, ShiftEnters DEF Sane
      <4>2. /\ mixed' = IF Samplers = {} THEN mixed ELSE mixed \cup Samplers \cup {t}
            /\ UNCHANGED <<held, cur, toggleInput, buffer, shown>>
        BY <2>6 DEF Shift, flags
      <4>3. Samplers = {}
        BY <3>2, <4>2
      <4>4. /\ \A u \in Threads : ~Sampled(u) /\ ~Sampled(u)'
            /\ InRead' = InRead
        BY <4>1, <4>3 DEF Samplers, Sampled, InSample, InRead
      <4>5. Open' = Open
        BY <4>2, <4>4 DEF Open, Opening
      <4> QED BY <3>2, <4>1, <4>2, <4>3, <4>4, <4>5
          DEF Sampler!Begin, Sampler!Next, Sampler!game, Open, InRead
    <3> QED BY <3>1, <3>2
  <2>7. ASSUME NEW t \in Threads, Toggle(t) PROVE Sampler!Next
    <3>1. CASE mixed # {} \/ mixed' # {}
      BY <2>7, <3>1, MixedStep DEF Sampler!Next
    <3>2. CASE mixed = {} /\ mixed' = {}
      <4>1. /\ t \in Samplers /\ Samplers' = Samplers \ {t}
            /\ pc[t] = "toggle" /\ pc'[t] \in {"input", "idle"}
            /\ \A u \in Threads \ {t} : pc'[u] = pc[u]
        BY <2>7, ToggleLeaves DEF Sane
      <4>2. Samplers = {t}
        BY <3>2, <4>1 DEF Sane, Apart
      <4>3. /\ toggleInput' = (toggleInput # Toggles)
            /\ UNCHANGED <<held, cur, buffer, shown>>
        BY <2>7 DEF Toggle, pad
      <4>4. /\ \A u \in Threads \ {t} : ~Sampled(u)
            /\ \A u \in Threads : ~Sampled(u)'
            /\ Sampled(t) /\ InRead' = InRead
        BY <4>1, <4>2 DEF Samplers, Sampled, InSample, InRead
      <4>5. Opening = Toggles /\ Opening' = FALSE
        BY <4>4 DEF Opening, Toggles, IsHold, IsPress
      <4>6. Open' = Open
        BY <4>3, <4>5 DEF Open, Sane, Typed
      <4> QED BY <3>2, <4>1, <4>2, <4>3, <4>4, <4>6
          DEF Sampler!End, Sampler!Next, Sampler!game, Open, InRead
    <3> QED BY <3>1, <3>2
  <2> QED BY <2>2, <2>3, <2>4, <2>5, <2>6, <2>7, Steps DEF Sampler!Next
<1> QED BY <1>1, <1>2, SaneInit, SaneStep, PTL DEF Spec, ActsAsSampler, Sampler!Spec

-----------------------------------------------------------------------------
(* ImGui is wrong about a button or key only if its last change is new to    *)
(* the frame that is still to make the event, or is one of the missed.       *)
Believed == cur \cup curKeys
Wrong(x) == (x \in keys) # (x \in Believed)
New == NewButtons \cup NewKeys
Settled(x) == Wrong(x) => x \in New /\ \E t \in Threads : Due(t, x)
Following == \A x \in Inputs \ missed : Settled(x)

(* A step that looks at nothing but where t is.                              *)
LEMMA FollowingKept ==
  ASSUME Following, UNCHANGED <<keys, cur, curKeys, prev, prevKeys>>, missed \subseteq missed',
         \A x \in Inputs, u \in Threads : Due(u, x) => Due(u, x)'
  PROVE  Following'
BY DEF Following, Settled, Wrong, Believed, New, NewButtons, NewKeys

(* The other threads' frames are none of t's business.                       *)
LEMMA OthersDue ==
  ASSUME NEW t \in Threads, \A u \in Threads \ {t} : pc'[u] = pc[u],
         \A u \in Threads \ {t} : call'[u] = call[u] /\ todo'[u] = todo[u]
  PROVE  \A x \in Inputs : \A u \in Threads \ {t} : Due(u, x)' <=> Due(u, x)
BY DEF Due

LEMMA FollowingSample ==
  ASSUME PadInputAssumption, Typed, Typed', Following,
         NEW t \in Threads, Inside(t) \/ Shift(t)
  PROVE  Following'
<1> USE DEF Inputs
<1>1. \A u \in Threads \ {t} : pc'[u] = pc[u]
  BY InsideKeeps, ShiftEnters
<1>2. UNCHANGED <<keys, call, todo>>
  BY DEF Inside, Shift, BeginRead, Read, Filter, EndRead, ShiftOthers, ReadOthers, control
<1>3. \A x \in Inputs : \A u \in Threads \ {t} : Due(u, x)' <=> Due(u, x)
  BY <1>1, <1>2, OthersDue
<1>4. /\ \A b \in Buttons : b \notin curKeys \cup prevKeys \cup curKeys' \cup prevKeys'
      /\ \A k \in Keys : k \notin cur \cup prev \cup cur' \cup prev'
  BY DEF PadInputAssumption, Typed
<1>5. ASSUME NEW x \in Inputs, x \notin missed, (x \in Believed') = (x \in Believed),
             (x \in New') = (x \in New), Due(t, x) => Due(t, x)'
      PROVE  Settled(x)'
  BY <1>2, <1>3, <1>5 DEF Following, Settled, Wrong
<1>6. CASE Shift(t)
  <2>1. /\ pc[t] = "shift" /\ prev' = cur /\ UNCHANGED <<cur, curKeys, prevKeys>>
        /\ missed' = missed \cup Lost(NewButtons)
    BY <1>6 DEF Shift, At, board
  <2>2. ASSUME NEW x \in Inputs \ missed' PROVE Settled(x)'
    <3>1. x \notin missed /\ ~Due(t, x) /\ Believed' = Believed
      BY <2>1 DEF Due, Believed
    <3>2. CASE x \in NewButtons
      <4>1. \A u \in Threads : ~Due(u, x)
        BY <2>1, <3>2 DEF Lost
      <4> QED BY <1>2, <3>1, <4>1 DEF Following, Settled, Wrong
    <3>3. CASE x \notin NewButtons
      <4>1. (x \in New') = (x \in New)
        BY <2>1, <3>3 DEF New, NewButtons, NewKeys
      <4> QED BY <1>5, <3>1, <4>1
    <3> QED BY <3>2, <3>3
  <2> QED BY <2>2 DEF Following
<1>7. CASE ShiftOthers(t)
  <2>1. /\ pc[t] = "others" /\ pc'[t] = "board"
        /\ prevKeys' = curKeys /\ UNCHANGED <<cur, curKeys, prev>>
        /\ missed' = missed \cup Lost(NewKeys)
    BY <1>7, Goes DEF ShiftOthers, At, pad
  <2>2. ASSUME NEW x \in Inputs \ missed' PROVE Settled(x)'
    <3>1. x \notin missed /\ Believed' = Believed /\ (Due(t, x) => Due(t, x)')
      BY <1>2, <2>1 DEF Due, Believed
    <3>2. CASE x \in NewKeys
      <4>1. \A u \in Threads : ~Due(u, x)
        BY <2>1, <3>2 DEF Lost
      <4> QED BY <1>2, <3>1, <4>1 DEF Following, Settled, Wrong
    <3>3. CASE x \notin NewKeys
      <4>1. (x \in New') = (x \in New)
        BY <2>1, <3>3 DEF New, NewButtons, NewKeys
      <4> QED BY <1>5, <3>1, <4>1
    <3> QED BY <3>2, <3>3
  <2> QED BY <2>2 DEF Following
<1>8. CASE Read(t)
  <2>1. /\ pc[t] = "read" /\ pc'[t] = "filter"
        /\ cur' = held /\ UNCHANGED <<curKeys, prev, prevKeys>>
        /\ SampledBy(t, Changed, NewButtons)
    BY <1>8, Goes DEF Read, At, board
  <2>2. ASSUME NEW x \in Inputs \ missed' PROVE Settled(x)'
    <3>1. ~Due(t, x)
      BY <2>1 DEF Due
    <3>2. CASE x \in Changed
      <4>1. call[t] = "frame" /\ x \notin NewButtons /\ x \in Buttons
        BY <2>1, <2>2, <3>2 DEF SampledBy, Changed, Typed
      <4>2. x \in New'
        BY <2>1, <3>2, <4>1 DEF New, NewButtons, Changed
      <4>3. Due(t, x)'
        BY <1>2, <2>1, <4>1 DEF Due
      <4> QED BY <4>2, <4>3 DEF Settled
    <3>3. CASE x \notin Changed
      <4>1. x \notin missed
        BY <2>1, <2>2, <3>3 DEF SampledBy
      <4>2. (x \in cur') = (x \in cur)
        BY <2>1, <3>3 DEF Changed
      <4> QED BY <1>5, <2>1, <3>1, <4>1, <4>2 DEF Believed, New, NewButtons, NewKeys
    <3> QED BY <3>2, <3>3
  <2> QED BY <2>2 DEF Following
<1>9. CASE ReadOthers(t)
  <2>1. /\ pc[t] = "board" /\ pc'[t] = "toggle"
        /\ curKeys' = down /\ UNCHANGED <<cur, prev, prevKeys>>
        /\ SampledBy(t, ChangedKeys, NewKeys)
    BY <1>9, Goes DEF ReadOthers, At, pad
  <2>2. ASSUME NEW x \in Inputs \ missed' PROVE Settled(x)'
    <3>1. Due(t, x) => Due(t, x)'
      BY <1>2, <2>1 DEF Due
    <3>2. CASE x \in ChangedKeys
      <4>1. call[t] = "frame" /\ x \notin NewKeys
        BY <2>1, <2>2, <3>2 DEF SampledBy
      <4>2. x \in New'
        BY <2>1, <3>2, <4>1 DEF New, NewKeys, ChangedKeys
      <4>3. Due(t, x)'
        BY <1>2, <2>1, <4>1 DEF Due
      <4> QED BY <4>2, <4>3 DEF Settled
    <3>3. CASE x \notin ChangedKeys
      <4>1. x \notin missed
        BY <2>1, <2>2, <3>3 DEF SampledBy
      <4>2. (x \in curKeys') = (x \in curKeys)
        BY <2>1, <3>3 DEF ChangedKeys
      <4> QED BY <1>5, <2>1, <3>1, <4>1, <4>2 DEF Believed, New, NewButtons, NewKeys
    <3> QED BY <3>2, <3>3
  <2> QED BY <2>2 DEF Following
<1>10. CASE Filter(t)
  <2>1. /\ pc[t] = "filter" /\ pc'[t] = "end"
        /\ cur' \subseteq cur /\ UNCHANGED <<curKeys, prev, prevKeys>>
        /\ missed' = missed \cup (cur \ cur')
    BY <1>10, Goes DEF Filter, Filtered, At, board
  <2>2. ASSUME NEW x \in Inputs \ missed' PROVE Settled(x)'
    <3>1. x \notin missed /\ (x \in cur') = (x \in cur)
      BY <2>1, <2>2
    <3>2. Due(t, x) => Due(t, x)'
      BY <1>2, <2>1 DEF Due
    <3> QED BY <1>5, <2>1, <3>1, <3>2 DEF Believed, New, NewButtons, NewKeys
  <2> QED BY <2>2 DEF Following
<1>11. CASE BeginRead(t) \/ EndRead(t)
  <2>1. /\ pc[t] \in {"style", "end"} /\ pc'[t] \in {"read", "end", "others"}
        /\ pc[t] = "end" => pc'[t] = "others"
        /\ UNCHANGED <<cur, curKeys, prev, prevKeys, missed>>
    BY <1>11, Goes DEF BeginRead, EndRead, At, pad, board, history
  <2>2. \A x \in Inputs, u \in Threads : Due(u, x) => Due(u, x)'
    BY <1>2, <1>3, <2>1 DEF Due
  <2> QED BY <1>2, <2>1, <2>2, FollowingKept
<1> QED BY <1>6, <1>7, <1>8, <1>9, <1>10, <1>11 DEF Inside

LEMMA FollowingOutside ==
  ASSUME PadInputAssumption, Typed, Typed', Following, NEW t \in Threads, Outside(t)
  PROVE  Following'
<1> USE DEF Inputs
<1>1. /\ UNCHANGED <<cur, prev>>
      /\ \A u \in Threads \ {t} : pc'[u] = pc[u]
  BY OutsideKeeps DEF pad
<1>2. UNCHANGED <<curKeys, prevKeys>>
  BY DEF Outside, LayerCalc, ProcDraw, UpdateInput, Key, GameRead, DisableButtons, board
<1>3. \A u \in Threads \ {t} : call'[u] = call[u] /\ todo'[u] = todo[u]
  <2>1. CASE LayerCalc(t) \/ ProcDraw(t)
    BY <2>1 DEF LayerCalc, ProcDraw, Typed
  <2>2. CASE UpdateInput(t) \/ \E x \in Inputs : Key(t, x)
    BY <2>2 DEF UpdateInput, Key, Typed
  <2>3. CASE GameRead(t) \/ DisableButtons(t)
    BY <2>3 DEF GameRead, DisableButtons
  <2> QED BY <2>1, <2>2, <2>3 DEF Outside
<1>4. \A x \in Inputs : \A u \in Threads \ {t} : Due(u, x)' <=> Due(u, x)
  BY <1>1, <1>3, OthersDue
<1>5. ASSUME \A x \in Inputs : Due(t, x) => Due(t, x)', UNCHANGED <<keys, missed>>
      PROVE  Following'
  BY <1>1, <1>2, <1>4, <1>5, FollowingKept
<1>6. CASE LayerCalc(t) \/ ProcDraw(t) \/ GameRead(t) \/ DisableButtons(t)
  <2>1. pc[t] \in {"idle", "hide"} /\ UNCHANGED <<keys, missed>>
    BY <1>6 DEF LayerCalc, ProcDraw, GameRead, DisableButtons, At, history
  <2> QED BY <1>5, <2>1 DEF Due
<1>7. CASE UpdateInput(t)
  <2>1. CASE toggleInput
    <3>1. pc[t] = "input" /\ pc'[t] = "keys" /\ todo'[t] = Inputs /\ UNCHANGED <<call, keys, missed>>
      BY <1>7, <2>1, Goes DEF UpdateInput, At, Typed
    <3> QED BY <1>5, <3>1 DEF Due
  <2>2. CASE ~toggleInput
    <3>1. missed' = missed \cup New /\ UNCHANGED keys
      BY <1>7, <2>2 DEF UpdateInput, New
    <3>2. ASSUME NEW x \in Inputs \ missed' PROVE ~Wrong(x)'
      <4>1. ~Wrong(x)
        BY <3>1, <3>2 DEF Following, Settled
      <4> QED BY <1>1, <1>2, <3>1, <4>1 DEF Wrong, Believed
    <3> QED BY <3>2 DEF Following, Settled
  <2> QED BY <2>1, <2>2
<1>8. ASSUME NEW x \in Inputs, Key(t, x) PROVE Following'
  <2>1. /\ pc[t] = "keys" /\ x \in todo[t] /\ AddKeyEvent(x)
        /\ todo'[t] = todo[t] \ {x} /\ UNCHANGED <<call, missed>>
        /\ pc'[t] = IF todo[t] = {x} THEN "idle" ELSE "keys"
    BY <1>8, Goes DEF Key, At, Typed, history
  <2>2. ASSUME NEW y \in Inputs \ missed', y # x PROVE Settled(y)'
    <3>1. (y \in keys') = (y \in keys)
      BY <2>1, <2>2 DEF AddKeyEvent
    <3>2. Due(t, y) => Due(t, y)'
      BY <2>1, <2>2 DEF Due
    <3>3. Settled(y)
      BY <2>1, <2>2 DEF Following
    <3> QED BY <1>1, <1>2, <1>4, <3>1, <3>2, <3>3
        DEF Settled, Wrong, Believed, New, NewButtons, NewKeys
  <2>3. ASSUME x \notin missed' PROVE ~Wrong(x)'
    <3>1. /\ x \in Buttons => x \notin curKeys \cup prevKeys
          /\ x \in Keys => x \notin cur \cup prev
      BY DEF PadInputAssumption, Typed
    <3>2. CASE Pressed(x)
      <4>1. x \in keys' /\ x \in Believed
        BY <2>1, <3>2 DEF AddKeyEvent, Pressed, IsPress, IsKeyPress, Believed
      <4> QED BY <1>1, <1>2, <4>1 DEF Wrong, Believed
    <3>3. CASE ~Pressed(x) /\ Released(x)
      <4>1. x \notin keys' /\ x \notin Believed
        BY <2>1, <3>1, <3>3 DEF AddKeyEvent, Released, IsRelease, IsKeyRelease, Believed
      <4> QED BY <1>1, <1>2, <4>1 DEF Wrong, Believed
    <3>4. CASE ~Pressed(x) /\ ~Released(x)
      <4>1. x \notin New /\ UNCHANGED keys
        BY <2>1, <3>4 DEF AddKeyEvent, Pressed, Released, IsPress, IsKeyPress, IsRelease,
                          IsKeyRelease, New, NewButtons, NewKeys
      <4>2. ~Wrong(x)
        BY <2>1, <2>3, <4>1 DEF Following, Settled
      <4> QED BY <1>1, <1>2, <4>1, <4>2 DEF Wrong, Believed
    <3> QED BY <3>2, <3>3, <3>4
  <2> QED BY <2>2, <2>3 DEF Following, Settled
<1> QED BY <1>6, <1>7, <1>8 DEF Outside

(* On whatever threads samples are taken and frames presented, ImGui gets    *)
(* an event for every change that none of the named ways of losing it took.  *)
THEOREM EventsReachImGui == Spec => []KeysFollow
<1>1. Init => Following
  BY DEF Init, Following, Settled, Wrong, Believed
<1>2. Sane /\ Sane' /\ Following /\ [Next]_vars => Following'
  <2> SUFFICES ASSUME Sane, Sane', Following, [Next]_vars PROVE Following'
    OBVIOUS
  <2>1. CASE UNCHANGED vars \/ (\E b \in Buttons : Press(b) \/ Release(b)) \/ (\E k \in Keys : Type(k))
    <3>1. UNCHANGED <<pc, call, todo, keys, cur, curKeys, prev, prevKeys, missed>>
      BY <2>1 DEF vars, Press, Release, Type, pad, board, control, history
    <3> QED BY <3>1, FollowingKept DEF Due
  <2>2. ASSUME NEW t \in Threads, Toggle(t) PROVE Following'
    <3>1. /\ UNCHANGED <<keys, cur, curKeys, prev, prevKeys, missed, call, todo>>
          /\ pc[t] = "toggle" /\ pc'[t] = IF call[t] = "frame" THEN "input" ELSE "idle"
          /\ \A u \in Threads \ {t} : pc'[u] = pc[u]
      BY <2>2, ToggleLeaves DEF Toggle, pad, board, Sane
    <3>2. \A x \in Inputs, u \in Threads : Due(u, x) => Due(u, x)'
      BY <3>1 DEF Due
    <3> QED BY <3>1, <3>2, FollowingKept
  <2> QED BY <2>1, <2>2, FollowingSample, FollowingOutside, PadInputAssumption, Steps DEF Sane
<1>3. Following => KeysFollow
  BY DEF Following, Settled, Wrong, Believed, KeysFollow
<1> QED BY <1>1, <1>2, <1>3, SaneInit, SaneStep, PTL DEF Spec

-----------------------------------------------------------------------------
(* NvnHooks.                                                                *)

OneLoader == \A t, u \in Loaders : t = u

HookLabels == {"idle", "check", "fail", "context", "backend", "setup", "done"}

LoaderAt(t) ==
  /\ loader[t] \in {"idle", "check"} /\ ~hasInitImGui => backend = "none"
  /\ loader[t] \in {"fail", "context", "backend"} => ~hasInitImGui /\ backend = "none"
  /\ loader[t] \in {"backend", "setup", "done"} => context
  /\ loader[t] = "setup" => backend = "made" /\ ~hasInitImGui
  /\ loader[t] = "done" => backend # "none"

SetUp ==
  /\ loader \in [Loaders -> HookLabels]
  /\ hasInitImGui \in BOOLEAN
  /\ \A t \in Loaders : LoaderAt(t)
  /\ hasInitImGui => HasBackendData
  /\ draw # "idle" => hasInitImGui
  /\ backend = "initialized" => missing = <<>>
  /\ draw \in {"vtx", "idx", "ready", "record", "submit"} \/ submitted # <<>>
       => hasInitImGui /\ backend = "initialized"
  /\ ~aborted

LEMMA SetUpInit == HooksInit => SetUp
  BY DEF HooksInit, SetUp, LoaderAt, HookLabels

(* What one loader does.                                                   *)
LEMMA LoaderKeepsSetUp ==
  ASSUME OneLoader, SetUp, NEW t \in Loaders,
         \/ CmdBufInit(t) \/ InitImGui(t) \/ InitFails(t)
         \/ CreateContext(t) \/ InitBackend(t)
         \/ SetupStep(t) \/ SetupDone(t) \/ InitDone(t)
  PROVE  SetUp'
<1>1. Loaders = {t}
  BY DEF OneLoader
<1>2. \A label \in HookLabels : LoaderGoes(t, label) => loader' \in [Loaders -> HookLabels] /\ loader'[t] = label
  BY DEF SetUp, LoaderGoes
<1> USE <1>1, <1>2 DEF SetUp, LoaderAt, HookLabels, LoaderIs, HasBackendData
<1>a. CASE CmdBufInit(t)
  BY <1>a DEF CmdBufInit, renderVars, imgui
<1>b. CASE InitImGui(t)
  BY <1>b DEF InitImGui, renderVars, imgui
<1>c. CASE InitFails(t)
  BY <1>c DEF InitFails, renderVars
<1>d. CASE CreateContext(t)
  BY <1>d DEF CreateContext, renderVars
<1>e. CASE InitBackend(t)
  BY <1>e DEF InitBackend, renderVars
<1>f. CASE SetupStep(t)
  BY <1>f DEF SetupStep, renderVars
<1>g. CASE SetupDone(t)
  BY <1>g DEF SetupDone, renderVars
<1>h. CASE InitDone(t)
  BY <1>h DEF InitDone, renderVars
<1> QED BY <1>a, <1>b, <1>c, <1>d, <1>e, <1>f, <1>g, <1>h

LEMMA SetUpStep == OneLoader /\ SetUp /\ [HooksNext]_hooksVars => SetUp'
<1> SUFFICES ASSUME OneLoader, SetUp, [HooksNext]_hooksVars PROVE SetUp'
  OBVIOUS
<1>1. ASSUME UNCHANGED <<loader, imgui>>, ~aborted',
             draw' # "idle" => hasInitImGui,
             draw' \in {"vtx", "idx", "ready", "record", "submit"} \/ submitted' # <<>>
               => hasInitImGui /\ backend = "initialized"
      PROVE  SetUp'
  BY <1>1 DEF SetUp, LoaderAt, HasBackendData, imgui
<1>2. CASE UNCHANGED hooksVars
  BY <1>1, <1>2 DEF hooksVars, renderVars, SetUp
<1>3. ASSUME NEW name, NvnBootstrap(name) \/ GetProc(name) PROVE SetUp'
  BY <1>1, <1>3 DEF NvnBootstrap, GetProc, renderVars, SetUp
<1>4. CASE DeviceInit \/ QueueInit \/ ToggleMenu
  BY <1>1, <1>4 DEF DeviceInit, QueueInit, ToggleMenu, renderVars, SetUp
<1>5. CASE SetViewport
  <2>1. ~aborted'
    BY <1>5 DEF SetViewport, SetUp, HasBackendData
  <2> QED BY <1>1, <1>5, <2>1 DEF SetViewport, renderVars, SetUp
<1>6. CASE PresentTexture
  BY <1>1, <1>6 DEF PresentTexture, Drawing, SetUp
<1>7. CASE NewFrame
  <2>1. ~aborted'
    BY <1>7 DEF NewFrame, Drawing, SetUp
  <2> QED BY <1>1, <1>7, <2>1 DEF NewFrame, Drawing, SetUp
<1>8. CASE RenderDrawData
  BY <1>1, <1>8 DEF RenderDrawData, Drawing, SetUp
<1>9. CASE ResizeVtx \/ ResizeIdx \/ Ready \/ Record \/ SubmitCommands
  BY <1>1, <1>9 DEF ResizeVtx, ResizeIdx, Ready, Record, SubmitCommands, Drawing, SetUp
<1>10. CASE GpuFinishes
  BY <1>1, <1>10 DEF GpuFinishes, SetUp
<1> QED BY <1>2, <1>3, <1>4, <1>5, <1>6, <1>7, <1>8, <1>9, <1>10, LoaderKeepsSetUp DEF HooksNext

----------------------------------------------------------------------------
(* Frames and their buffers.                                               *)

Buffer == [size : Nat, ready : BOOLEAN, made : Nat, frame : Nat]
Sizing == [vtx : Nat, idx : Nat]
Submission == [frame : Nat, need : Sizing, vtx : Nat, idx : Nat]

(* A buffer that is ready has room from the moment it has been resized.     *)
Frames ==
  /\ frame \in Nat /\ need \in Sizing /\ vtx \in Buffer /\ idx \in Buffer
  /\ submitted \in Seq(Submission)
  /\ \A i \in 1 .. Len(submitted) :
       /\ submitted[i].frame <= frame
       /\ draw # "idle" => submitted[i].frame < frame
  /\ draw \in {"idx", "ready", "record", "submit"} => (vtx.ready => need.vtx <= vtx.size)
  /\ draw \in {"ready", "record", "submit"} => (idx.ready => need.idx <= idx.size)
  /\ draw \in {"record", "submit"} => IsBufferReady
  /\ draw = "submit" => vtx.frame = frame /\ idx.frame = frame

Buffered == Frames /\ LastFrameComplete

LEMMA BufferedInit == HooksInit => Buffered
  BY DEF HooksInit, Buffered, Frames, LastFrameComplete, None, Buffer, Sizing

(* What ResizeVtx and ResizeIdx leave: the buffer as it was, or one made    *)
(* for the size asked for, or one that is not ready.                        *)
LEMMA ResizedFits ==
  ASSUME NvnHooksAssumption, NEW room \in Buffer, NEW size \in Nat, frame \in Nat,
         NEW b \in Resized(room, size)
  PROVE  b \in Buffer /\ (b.ready => size <= b.size)
<1>1. CASE TooSmall(room, size)
  <2>1. b \in Make(size)
    BY <1>1 DEF Resized
  <2>2. CASE \E r \in BOOLEAN :
               b = [size |-> size, ready |-> r, made |-> frame, frame |-> 0]
    BY <2>2 DEF Buffer
  <2>3. CASE \E any \in {0} \cup Sizes :
               b = [size |-> any, ready |-> FALSE, made |-> frame, frame |-> 0]
    BY <2>3 DEF Buffer, NvnHooksAssumption
  <2> QED BY <2>1, <2>2, <2>3 DEF Make
<1>2. CASE ~TooSmall(room, size)
  BY <1>2 DEF Resized, TooSmall, Buffer
<1> QED BY <1>1, <1>2

(* Steps that leave the presenting thread, its buffers and the GPU alone.   *)
LEMMA BufferedFrame ==
  ASSUME Buffered, UNCHANGED <<frame, draw, need, vtx, idx, submitted>>
  PROVE  Buffered'
BY DEF Buffered, Frames, LastFrameComplete, Complete, IsBufferReady

LEMMA BufferedStep == NvnHooksAssumption /\ Buffered /\ [HooksNext]_hooksVars => Buffered'
<1> SUFFICES ASSUME NvnHooksAssumption, Buffered, [HooksNext]_hooksVars PROVE Buffered'
  OBVIOUS
<1>1. CASE UNCHANGED <<frame, draw, need, vtx, idx, submitted>>
  BY <1>1, BufferedFrame
<1> USE DEF Buffered, Drawing
<1>2. CASE PresentTexture
  <2>1. frame' = frame + 1 /\ draw' = "newFrame" /\ submitted' = submitted
    BY <1>2 DEF PresentTexture
  <2>2. \A i \in 1 .. Len(submitted) : submitted[i].frame \in Nat
    <3>1. \A i \in 1 .. Len(submitted) : submitted[i] \in Submission
      BY DEF Frames
    <3> QED BY <3>1 DEF Submission
  <2>3. Frames'
    BY <1>2, <2>1, <2>2 DEF PresentTexture, Frames
  <2> QED BY <2>1, <2>3 DEF LastFrameComplete
<1>3. CASE NewFrame
  BY <1>3 DEF NewFrame, Frames, LastFrameComplete
<1>4. CASE RenderDrawData
  <2>1. need' \in Sizing
    BY <1>4 DEF RenderDrawData, Frames, Sizing, NvnHooksAssumption
  <2>2. Frames'
    BY <1>4, <2>1 DEF RenderDrawData, Frames
  <2>3. draw' = "idle" /\ submitted' # <<>> => Last(submitted').frame < frame'
    BY <1>4 DEF RenderDrawData, Frames, Last
  <2> QED BY <2>2, <2>3 DEF LastFrameComplete
<1>5. CASE ResizeVtx
  <2>1. vtx' \in Buffer /\ (vtx'.ready => need.vtx <= vtx'.size)
    BY <1>5, ResizedFits DEF ResizeVtx, Frames, Sizing
  <2> QED BY <1>5, <2>1 DEF ResizeVtx, Frames, LastFrameComplete
<1>6. CASE ResizeIdx
  <2>1. idx' \in Buffer /\ (idx'.ready => need.idx <= idx'.size)
    BY <1>6, ResizedFits DEF ResizeIdx, Frames, Sizing
  <2> QED BY <1>6, <2>1 DEF ResizeIdx, Frames, LastFrameComplete
<1>7. CASE Ready
  <2>1. Frames'
    BY <1>7 DEF Ready, Frames, IsBufferReady
  <2>2. draw' = "idle" /\ submitted' # <<>> => Last(submitted').frame < frame'
    BY <1>7 DEF Ready, Frames, Last
  <2> QED BY <2>1, <2>2 DEF LastFrameComplete
<1>8. CASE Record
  BY <1>8 DEF Record, Frames, LastFrameComplete, IsBufferReady, Buffer
<1>9. CASE SubmitCommands
  <2> DEFINE s == [frame |-> frame, need |-> need, vtx |-> vtx.made, idx |-> idx.made]
  <2>1. s \in Submission
    BY DEF Submission, Frames, Buffer
  <2>2. submitted' = Append(submitted, s) /\ draw' = "idle"
    BY <1>9 DEF SubmitCommands
  <2>3. Frames'
    BY <1>9, <2>1, <2>2 DEF SubmitCommands, Frames
  <2>4. Last(submitted') = s
    BY <2>1, <2>2 DEF Frames, Last
  <2>5. Complete(Last(submitted))'
    BY <1>9, <2>4 DEF SubmitCommands, Frames, Complete, IsBufferReady
  <2> QED BY <2>3, <2>5 DEF LastFrameComplete
<1>10. CASE GpuFinishes
  <2>1. submitted \in Seq(Submission) /\ submitted # <<>> /\ submitted' = Tail(submitted)
    BY <1>10 DEF GpuFinishes, Frames
  <2>2. submitted' \in Seq(Submission)
    BY <2>1
  <2>3. \A i \in 1 .. Len(submitted') : i + 1 \in 1 .. Len(submitted) /\ submitted'[i] = submitted[i + 1]
    BY <2>1
  <2>4. Frames'
    BY <1>10, <2>2, <2>3 DEF GpuFinishes, Frames, IsBufferReady
  <2>5. submitted' # <<>> => Last(submitted') = Last(submitted)
    BY <2>1 DEF Last
  <2> QED BY <1>10, <2>4, <2>5 DEF GpuFinishes, LastFrameComplete, Complete
<1> QED
  <2>1. ASSUME NEW name, NvnBootstrap(name) \/ GetProc(name) PROVE Buffered'
    BY <1>1, <2>1 DEF NvnBootstrap, GetProc, renderVars
  <2>2. CASE DeviceInit \/ QueueInit \/ SetViewport \/ ToggleMenu
    BY <1>1, <2>2 DEF DeviceInit, QueueInit, SetViewport, ToggleMenu, renderVars
  <2>3. ASSUME NEW t \in Loaders,
               \/ CmdBufInit(t) \/ InitImGui(t) \/ InitFails(t)
               \/ CreateContext(t) \/ InitBackend(t)
               \/ SetupStep(t) \/ SetupDone(t) \/ InitDone(t)
        PROVE  Buffered'
    BY <1>1, <2>3 DEF CmdBufInit, InitImGui, InitFails, CreateContext, InitBackend,
                      SetupStep, SetupDone, InitDone, renderVars
  <2>4. CASE UNCHANGED hooksVars
    BY <1>1, <2>4 DEF hooksVars, renderVars
  <2> QED BY <1>2, <1>3, <1>4, <1>5, <1>6, <1>7, <1>8, <1>9, <1>10,
             <2>1, <2>2, <2>3, <2>4 DEF HooksNext

----------------------------------------------------------------------------
(* ImGui is set up once and used only then: no assertion fails, whatever    *)
(* order the game initialises its objects in, as long as one thread         *)
(* initialises command buffers.                                             *)
THEOREM OneLoaderNeverAborts ==
  ASSUME OneLoader
  PROVE  HooksSpec => []NeverAborts
<1>1. SetUp => NeverAborts
  BY DEF SetUp, NeverAborts
<1> QED BY <1>1, SetUpInit, SetUpStep, PTL DEF HooksSpec

(* Nothing is drawn with a backend whose set-up failed.                     *)
THEOREM OneLoaderDrawsInitialized ==
  ASSUME OneLoader
  PROVE  HooksSpec => []DrawsInitialized
<1>1. SetUp => DrawsInitialized
  BY DEF SetUp, DrawsInitialized
<1> QED BY <1>1, SetUpInit, SetUpStep, PTL DEF HooksSpec

(* What was submitted last has its data, although either buffer may have    *)
(* failed to grow in this frame or an earlier one: for any number of        *)
(* loaders.                                                                 *)
THEOREM SubmittedFramesComplete == HooksSpec => []LastFrameComplete
<1>1. Buffered => LastFrameComplete
  BY DEF Buffered
<1> QED BY <1>1, BufferedInit, BufferedStep, NvnHooksAssumption, PTL DEF HooksSpec

-----------------------------------------------------------------------------
(* DbgGui.                                                                  *)

(* Nobody sees the menu before its constructor is over, and by then the     *)
(* barrier of Graphics' patches has sent off every pointer stored before it.*)
Published ==
  /\ made \in 0 .. Len(Components)
  /\ instance => made = Len(Components)
  /\ render \notin {"idle", "instance"} => made = Len(Components)
  /\ made >= Drawn => late \subseteq {"Graphics"}

LEMMA PublishedStep == Published /\ [MenuNext]_guiVars => Published'
<1> SUFFICES ASSUME Published, [MenuNext]_guiVars PROVE Published'
  OBVIOUS
<1> USE DEF Published, Components, Drawn, drawVars, menuVars, cameraVars
<1>1. CASE CreateHeap
  BY <1>1 DEF CreateHeap
<1>2. CASE Construct
  BY <1>2 DEF Construct, Patching
<1>3. CASE SetInstance
  BY <1>3 DEF SetInstance
<1>4. CASE Settle
  BY <1>4 DEF Settle
<1>5. CASE DrawDbgGui
  BY <1>5 DEF DrawDbgGui
<1>6. CASE GetInstance
  BY <1>6 DEF GetInstance
<1>7. ASSUME NEW k \in 1 .. Drawn, DrawMissing(Components[k]) PROVE Published'
  <2>1. Components[k] \notin {"idle", "instance"}
    OBVIOUS
  <2> QED BY <1>7, <2>1 DEF DrawMissing
<1>8. CASE DrawMenuBar
  BY <1>8 DEF DrawMenuBar, Draws
<1>9. CASE DrawDemo
  BY <1>9 DEF DrawDemo, Draws
<1>10. CASE DrawCamera
  BY <1>10 DEF DrawCamera, Draws
<1>11. CASE DragPos \/ DragAt
  BY <1>11 DEF DragPos, DragAt
<1>12. CASE DrawGraphics
  BY <1>12 DEF DrawGraphics, Draws
<1>13. CASE CameraHook
  BY <1>13 DEF CameraHook, UpdateCameraInput, Step, StoreStep, NoMoreSteps, LookAhead,
               StoreSight, ToggleFree, FollowPlace, FollowAt, FollowDirection, TakeOver,
               TakeSight, GameMoves
<1>14. CASE UNCHANGED guiVars
  BY <1>14 DEF guiVars
<1> QED
  BY <1>1, <1>2, <1>3, <1>4, <1>5, <1>6, <1>7, <1>8, <1>9, <1>10, <1>11, <1>12, <1>13, <1>14
  DEF MenuNext, Main, Render

LEMMA PublishedFinds == Published => FramesFindMenu
<1> SUFFICES ASSUME Published,
                    NEW c \in {"MenuBar", "ImGuiDemo", "Camera"}, render = c
             PROVE  ~Missing(c)
  BY DEF FramesFindMenu
<1>1. made = 5 /\ c \notin late
  BY DEF Published, Components, Drawn
<1>2. \E k \in 1 .. made : Components[k] = c
  <2>1. Components[1] = "MenuBar" /\ Components[2] = "ImGuiDemo" /\ Components[3] = "Camera"
    BY DEF Components
  <2> QED BY <1>1, <2>1
<1> QED BY <1>1, <1>2 DEF Missing

(* A frame that finds the menu finds every component it draws but Graphics, *)
(* however its construction and the frames interleave and the stores arrive.*)
THEOREM MenuIsFound == MenuSpec => []FramesFindMenu
<1>1. MenuInit => Published
  BY DEF MenuInit, Published, Components, Drawn
<1> QED BY <1>1, PublishedStep, PublishedFinds, PTL DEF MenuSpec

-----------------------------------------------------------------------------
(* Once the place was copied from the game's camera, and as long as no store *)
(* went over a move, it is that place and the moves since; and a copy that   *)
(* is still right belongs to a drag or a step under way.                     *)
Follows ==
  /\ pos \in Nat /\ moved \in Nat
  /\ game \in [pos : Nat, at : Int]
  /\ copied \in Nat \cup {Never}
  /\ copied # Never /\ ~torn => pos = copied + moved
  /\ "window" \in fresh => render = "dragPos" /\ stale = pos
  /\ "hook" \in fresh => hook = "step" /\ work = pos
  /\ render = "dragPos" => stale \in Nat
  /\ hook = "step" => work \in Nat
  /\ sight \in Int /\ dir \in Int /\ work \in Int /\ stale \in Int

LEMMA FollowsInit == MenuInit => Follows
BY DbgGuiAssumption DEF MenuInit, Follows, Never

LEMMA FollowsStep == Follows /\ [MenuNext]_guiVars => Follows'
<1> SUFFICES ASSUME Follows, [MenuNext]_guiVars PROVE Follows'
  OBVIOUS
<1> USE DEF menuVars, drawVars, hookVars, viewVars, moveHistory, cameraVars
<1>1. CASE Main
  BY <1>1 DEF Follows, Main, CreateHeap, Construct, SetInstance, Settle
<1>2. CASE DrawDbgGui \/ GetInstance
  BY <1>2 DEF Follows, DrawDbgGui, GetInstance
<1>3. ASSUME NEW k \in 1 .. Drawn, DrawMissing(Components[k]) PROVE Follows'
  <2>1. render # "dragPos"
    BY <1>3 DEF DrawMissing, Components, Drawn
  <2> QED BY <1>3, <2>1 DEF Follows, DrawMissing
<1>4. CASE DrawMenuBar \/ DrawDemo \/ DrawGraphics
  BY <1>4 DEF Follows, DrawMenuBar, DrawDemo, DrawGraphics, Draws
<1>5. CASE DrawCamera
  BY <1>5 DEF Follows, DrawCamera, Draws
<1>6. CASE DragPos
  <2>1. /\ Moves("window", stale + 1) /\ render = "dragPos"
        /\ render' = "Graphics" /\ stale' = 0
        /\ UNCHANGED <<copied, hook, work, game, sight, dir>>
    BY <1>6 DEF DragPos
  <2>2. /\ pos' \in Nat /\ moved' \in Nat /\ fresh' = {}
        /\ copied' # Never /\ ~torn' => pos' = copied' + moved'
    <3>1. pos' = stale + 1 /\ moved' = moved + 1 /\ fresh' = {}
      BY <2>1 DEF Moves
    <3>2. ~torn' => ~torn /\ "window" \in fresh
      BY <2>1, Zenon DEF Moves
    <3> QED BY <2>1, <3>1, <3>2 DEF Follows, Never
  <2>3. stale' \in Int
    BY <2>1
  <2> QED BY <2>1, <2>2, <2>3 DEF Follows
<1>7. CASE DragAt
  BY <1>7 DEF Follows, DragAt
<1>8. CASE UpdateCameraInput
  BY <1>8 DEF Follows, UpdateCameraInput
<1>9. CASE Step
  BY <1>9 DEF Follows, Step
<1>10. CASE StoreStep
  <2>1. /\ Moves("hook", work + 1) /\ hook = "step"
        /\ hook' = "move" /\ work' = 0
        /\ UNCHANGED <<copied, render, stale, game, sight, dir>>
    BY <1>10 DEF StoreStep
  <2>2. /\ pos' \in Nat /\ moved' \in Nat /\ fresh' = {}
        /\ copied' # Never /\ ~torn' => pos' = copied' + moved'
    <3>1. pos' = work + 1 /\ moved' = moved + 1 /\ fresh' = {}
      BY <2>1 DEF Moves
    <3>2. ~torn' => ~torn /\ "hook" \in fresh
      BY <2>1, Zenon DEF Moves
    <3> QED BY <2>1, <3>1, <3>2 DEF Follows, Never
  <2>3. work' \in Int
    BY <2>1
  <2> QED BY <2>1, <2>2, <2>3 DEF Follows
<1>11. CASE NoMoreSteps \/ LookAhead \/ StoreSight
  BY <1>11 DEF Follows, NoMoreSteps, LookAhead, StoreSight
<1>12. CASE ToggleFree \/ FollowAt \/ FollowDirection
  BY <1>12 DEF Follows, ToggleFree, FollowAt, FollowDirection
<1>13. CASE FollowPlace
  BY <1>13 DEF Follows, FollowPlace
<1>14. CASE TakeOver \/ TakeSight
  BY <1>14 DEF Follows, TakeOver, TakeSight
<1>15. CASE GameMoves
  BY <1>15, DbgGuiAssumption DEF Follows, GameMoves
<1>16. CASE UNCHANGED guiVars
  BY <1>16 DEF Follows, guiVars
<1> QED
  BY <1>1, <1>2, <1>3, <1>4, <1>5, <1>6, <1>7, <1>8, <1>9, <1>10, <1>11, <1>12, <1>13, <1>14,
     <1>15, <1>16 DEF MenuNext, Render, CameraHook

(* When the free camera takes over, the game's is put where it was followed  *)
(* last, moved by what the user did since, whoever did it: the hook or the   *)
(* window, by key or by drag, as long as no store went over a move.          *)
THEOREM CameraGoesOn == MenuSpec => CameraTakesOver
<1>1. Follows /\ [MenuNext]_guiVars =>
        [TakeOver /\ copied # Never /\ ~torn => game'.pos = copied + moved]_guiVars
  BY DEF Follows, TakeOver
<1> QED BY <1>1, FollowsInit, FollowsStep, PTL DEF MenuSpec, CameraTakesOver

-----------------------------------------------------------------------------
(* From sAt = sPos + sDirection to its last read, what the hook holds or has *)
(* stored is ahead of the place, but for what the window has dragged since.  *)
Looks ==
  /\ dragged \subseteq {"pos", "at"}
  /\ hook = "sight" /\ "pos" \notin dragged => work = pos + dir
  /\ hook \in {"toggle", "copy", "takeAt"} /\ dragged = {} => sight = pos + dir
  /\ hook = "takeAt" /\ dragged = {} => game.pos = pos
  /\ hook \notin LookedAhead => dragged = {}

LEMMA LooksStep == Follows /\ Looks /\ [MenuNext]_guiVars => Looks'
<1> SUFFICES ASSUME Follows, Looks, [MenuNext]_guiVars PROVE Looks'
  OBVIOUS
<1> USE DEF menuVars, drawVars, hookVars, viewVars, moveHistory, cameraVars, LookedAhead
<1>1. CASE Main
  BY <1>1 DEF Looks, Main, CreateHeap, Construct, SetInstance, Settle
<1>2. CASE DrawDbgGui \/ GetInstance \/ DrawMenuBar \/ DrawDemo \/ DrawGraphics
  BY <1>2 DEF Looks, DrawDbgGui, GetInstance, DrawMenuBar, DrawDemo, DrawGraphics
<1>3. ASSUME NEW k \in 1 .. Drawn, DrawMissing(Components[k]) PROVE Looks'
  BY <1>3 DEF Looks, DrawMissing
<1>4. CASE DrawCamera
  BY <1>4 DEF Looks, DrawCamera
<1>5. CASE DragPos
  BY <1>5 DEF Looks, DragPos, Dragged
<1>6. CASE DragAt
  BY <1>6 DEF Looks, DragAt, Dragged
<1>7. CASE UpdateCameraInput \/ Step \/ NoMoreSteps
  BY <1>7 DEF Looks, UpdateCameraInput, Step, NoMoreSteps
<1>8. CASE StoreStep
  BY <1>8 DEF Looks, StoreStep
<1>9. CASE LookAhead
  BY <1>9 DEF Looks, LookAhead
<1>10. CASE StoreSight
  BY <1>10 DEF Looks, StoreSight
<1>11. CASE ToggleFree
  BY <1>11 DEF Looks, ToggleFree
<1>12. CASE FollowPlace \/ FollowAt \/ FollowDirection
  BY <1>12 DEF Looks, FollowPlace, FollowAt, FollowDirection
<1>13. CASE TakeOver
  BY <1>13 DEF Follows, Looks, TakeOver
<1>14. CASE TakeSight \/ GameMoves
  BY <1>14 DEF Looks, TakeSight, GameMoves
<1>15. CASE UNCHANGED guiVars
  BY <1>15 DEF Looks, guiVars
<1> QED
  BY <1>1, <1>2, <1>3, <1>4, <1>5, <1>6, <1>7, <1>8, <1>9, <1>10, <1>11, <1>12, <1>13, <1>14,
     <1>15 DEF MenuNext, Render, CameraHook

(* The game's camera looks ahead of its place in the free camera's direction *)
(* unless the window moved one of the two during that very call: what was    *)
(* dragged before is taken along or undone (updateCameraInput).              *)
THEOREM CameraKeepsItsSight == MenuSpec => CameraLooksAhead
<1>1. MenuInit => Looks
  BY DEF MenuInit, Looks, LookedAhead
<1>2. Follows /\ Looks /\ [MenuNext]_guiVars =>
        [TakeSight /\ dragged = {} => game'.at = game'.pos + dir]_guiVars
  BY DEF Follows, Looks, TakeSight
<1> QED BY <1>1, <1>2, FollowsInit, FollowsStep, LooksStep, PTL DEF MenuSpec, CameraLooksAhead
=============================================================================
