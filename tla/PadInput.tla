------------------------------ MODULE PadInput ------------------------------
(***************************************************************************)
(* Controller, keyboard and mouse in helpers/InputHelper, the hooks that    *)
(* hide the controller from the game, and the events the renderer backend  *)
(* makes of them.                                                          *)
(*                                                                         *)
(* Three kinds of calls share InputHelper's static members without a lock: *)
(* the layer hook, on a thread of the game's, and newFrame, on the one that *)
(* presents, both sample the buttons (updatePadState), and the game's own   *)
(* reads end in disableButtons.  Each step below may be followed by one of  *)
(* another thread.  Which threads do what the code does not say: they may   *)
(* be one thread or several.  Keyboard and mouse, which no hook filters,    *)
(* are one device here.                                                     *)
(***************************************************************************)
EXTENDS Naturals

CONSTANTS
  Threads,     \* the game's threads
  Casts,       \* who may do what: the threads that call what LayerCalc hooks
               \* (callers), present frames (presenters) and read the controller
               \* (readers), the buttons and keys in use (inputs), and, a bound,
               \* how often ZR is pressed (presses)
  Buttons,     \* the controller's buttons that matter
  Keys,        \* keys of the keyboard and buttons of the mouse
  ZL, ZR,      \* two of them
  MaxHidden    \* bound: samples overlap until ZR was hidden so often

Inputs == Buttons \cup Keys

ASSUME PadInputAssumption ==
  /\ {ZL, ZR} \subseteq Buttons
  /\ Keys \cap Buttons = {}
  /\ MaxHidden \in Nat
  /\ Casts \subseteq [callers : SUBSET Threads, presenters : SUBSET Threads,
                     readers : SUBSET Threads, inputs : SUBSET Inputs,
                     presses : Nat]

VARIABLES
  cast,         \* who does what
  held,         \* the buttons that are down
  cur,          \* curControllerState
  prev,         \* prevControllerState
  down,         \* the keys that are down
  curKeys,      \* curKeyboardState and curMouseState
  prevKeys,     \* prevKeyboardState and prevMouseState
  isReadInput,  \* the pad hooks serve one of our own reads
  toggleInput,  \* the menu is open
  pc,           \* where each thread is
  call,         \* call[t]: "layer" or "frame", who samples
  todo,         \* todo[t]: what the loops of updateInput have not looked at
  buffer,       \* buffer[t]: the state a game's read has filled
  shown,        \* what the game was shown last
  keys,         \* the keys ImGui believes to be down
  mixed,        \* the threads whose sample another one has overlapped (history)
  missed,       \* the buttons and keys whose last change the layer hook
                \* sampled, or another thread's sample took away (history)
  presses,      \* how often ZR was pressed (history)
  hidden,       \* how often an overlapping sample lost a ZR held down (history)
  flips         \* how often a sample that overlaps no other opened or closed
                \* the menu (history)

pad == <<cur, prev>>
board == <<down, curKeys, prevKeys>>
flags == <<isReadInput, toggleInput>>
control == <<pc, call, todo, buffer>>
counts == <<presses, hidden, flips>>
history == <<mixed, missed, counts>>
vars == <<cast, held, pad, board, flags, control, shown, keys, history>>

Init ==
  /\ cast \in Casts
  /\ held = {} /\ cur = {} /\ prev = {}
  /\ down = {} /\ curKeys = {} /\ prevKeys = {}
  /\ isReadInput = TRUE /\ toggleInput = FALSE
  /\ pc = [t \in Threads |-> "idle"]
  /\ call = [t \in Threads |-> "layer"]
  /\ todo = [t \in Threads |-> {}]
  /\ buffer = [t \in Threads |-> {}]
  /\ shown = {} /\ keys = {}
  /\ mixed = {} /\ missed = {}
  /\ presses = 0 /\ hidden = 0 /\ flips = 0

Goto(t, label) == pc' = [pc EXCEPT ![t] = label]
At(t, label) == pc[t] = label

----------------------------------------------------------------------------
(* The user.                                                               *)

Press(b) ==
  /\ b \in cast.inputs \ held
  /\ b = ZR => presses < cast.presses
  /\ held' = held \cup {b}
  /\ presses' = IF b = ZR THEN presses + 1 ELSE presses
  /\ UNCHANGED <<pad, board, flags, control, shown, keys, mixed, missed, hidden, flips>>

Release(b) ==
  /\ b \in held
  /\ held' = held \ {b}
  /\ UNCHANGED <<pad, board, flags, control, shown, keys, history>>

Type(k) ==
  /\ k \in cast.inputs
  /\ down' = IF k \in down THEN down \ {k} ELSE down \cup {k}
  /\ UNCHANGED <<held, pad, curKeys, prevKeys, flags, control, shown, keys, history>>

----------------------------------------------------------------------------
(* Who samples: the layer hook after the original function, and, through   *)
(* presentTexture and procDraw, newFrame, but only while the menu is open.  *)

LayerCalc(t) ==
  /\ t \in cast.callers /\ At(t, "idle")
  /\ call' = [call EXCEPT ![t] = "layer"]
  /\ Goto(t, "shift")
  /\ UNCHANGED <<held, pad, board, flags, todo, buffer, shown, keys, history>>

ProcDraw(t) ==
  /\ t \in cast.presenters /\ At(t, "idle")
  /\ toggleInput
  /\ call' = [call EXCEPT ![t] = "frame"]
  /\ Goto(t, "shift")
  /\ UNCHANGED <<held, pad, board, flags, todo, buffer, shown, keys, history>>

----------------------------------------------------------------------------
(* updatePadState, and in it tryGetContState.                              *)

InSample == {"style", "read", "filter", "end", "others", "board", "toggle"}
Samplers == {t \in Threads : pc[t] \in InSample}

(* A frame of t is still to make an event of what it sampled of x.          *)
Due(t, x) ==
  /\ call[t] = "frame"
  /\ \/ pc[t] \in {"toggle", "input"}
     \/ x \in Buttons /\ pc[t] \in {"filter", "end", "others", "board"}
     \/ pc[t] = "keys" /\ x \in todo[t]

(* What another thread's shift takes from the frames.                       *)
Lost(new) == {x \in new : \E u \in Threads : Due(u, x)}

(* A change is sampled.  One that takes back another, since the shift, is   *)
(* news to nobody.                                                          *)
SampledBy(t, changed, new) ==
  missed' = (missed \ changed) \cup (IF call[t] = "frame" THEN changed \cap new ELSE changed)

(* The buttons, and the keys, whose sample differs from the one before.     *)
NewButtons == (cur \ prev) \cup (prev \ cur)
NewKeys == (curKeys \ prevKeys) \cup (prevKeys \ curKeys)

Shift(t) ==
  /\ At(t, "shift")
  /\ Samplers # {} => hidden < MaxHidden
  /\ prev' = cur
  /\ mixed' = IF Samplers = {} THEN mixed ELSE mixed \cup Samplers \cup {t}
  /\ missed' = missed \cup Lost(NewButtons)
  /\ Goto(t, "style")
  /\ UNCHANGED <<held, cur, board, flags, call, todo, buffer, shown, keys, counts>>

(* Whether there is a controller of a known style at all; without one the   *)
(* state stays as it is.                                                    *)
BeginRead(t) ==
  /\ At(t, "style")
  /\ isReadInput' = TRUE
  /\ Goto(t, "read") \/ Goto(t, "end")
  /\ UNCHANGED <<held, pad, board, toggleInput, call, todo, buffer, shown, keys, history>>

(* The original GetNpadStates under the hook.                              *)
Changed == (cur \ held) \cup (held \ cur)

Read(t) ==
  /\ At(t, "read")
  /\ cur' = held
  /\ SampledBy(t, Changed, NewButtons)
  /\ Goto(t, "filter")
  /\ UNCHANGED <<held, prev, board, flags, call, todo, buffer, shown, keys, mixed, counts>>

(* disableButtons: what it leaves of a state.                              *)
Disabled == ~isReadInput /\ toggleInput
Filtered(state) == IF Disabled THEN {} ELSE state

Filter(t) ==
  /\ At(t, "filter")
  /\ cur' = Filtered(cur)
  /\ missed' = missed \cup (cur \ cur')
  /\ hidden' = IF ZR \in held /\ ZR \in cur \ cur' THEN hidden + 1 ELSE hidden
  /\ Goto(t, "end")
  /\ UNCHANGED <<held, prev, board, flags, call, todo, buffer, shown, keys, mixed,
                 presses, flips>>

\* Mutant: isReadInput stays set.
EndReadForgets(t) ==
  /\ At(t, "end")
  /\ Goto(t, "others")
  /\ UNCHANGED <<held, pad, board, flags, call, todo, buffer, shown, keys, history>>

EndRead(t) ==
  /\ At(t, "end")
  /\ isReadInput' = FALSE
  /\ Goto(t, "others")
  /\ UNCHANGED <<held, pad, board, toggleInput, call, todo, buffer, shown, keys, history>>

(* The shift of keyboard and mouse, then GetKeyboardState, GetMouseState.    *)
ShiftOthers(t) ==
  /\ At(t, "others")
  /\ prevKeys' = curKeys
  /\ missed' = missed \cup Lost(NewKeys)
  /\ Goto(t, "board")
  /\ UNCHANGED <<held, pad, down, curKeys, flags, call, todo, buffer, shown, keys, mixed, counts>>

ChangedKeys == (curKeys \ down) \cup (down \ curKeys)

ReadOthers(t) ==
  /\ At(t, "board")
  /\ curKeys' = down
  /\ SampledBy(t, ChangedKeys, NewKeys)
  /\ Goto(t, "toggle")
  /\ UNCHANGED <<held, pad, down, prevKeys, flags, call, todo, buffer, shown, keys, mixed, counts>>

(* isHoldZL() && isPressZR()                                               *)
IsHold(b) == b \in cur
IsPress(b) == b \in cur \ prev
IsRelease(b) == b \in prev \ cur

(* The same of keyboard and mouse, and of whichever device has x.            *)
IsKeyPress(k) == k \in curKeys \ prevKeys
IsKeyRelease(k) == k \in prevKeys \ curKeys
Pressed(x) == IsPress(x) \/ IsKeyPress(x)
Released(x) == IsRelease(x) \/ IsKeyRelease(x)

\* Mutant: isPressZR is isHoldZR.
BothHeld == IsHold(ZL) /\ IsHold(ZR)

Toggles == IsHold(ZL) /\ IsPress(ZR)

Toggle(t) ==
  /\ At(t, "toggle")
  /\ toggleInput' = (toggleInput # Toggles)
  /\ flips' = IF Toggles /\ t \notin mixed THEN flips + 1 ELSE flips
  /\ mixed' = mixed \ {t}
  /\ Goto(t, IF call[t] = "frame" THEN "input" ELSE "idle")
  /\ UNCHANGED <<held, pad, board, isReadInput, call, todo, buffer, shown, keys, missed,
                 presses, hidden>>

----------------------------------------------------------------------------
(* updateInput: an event for every button and key pressed or released, but  *)
(* none of its sample from a frame that finds the menu closed by now.       *)

UpdateInput(t) ==
  /\ At(t, "input")
  /\ IF toggleInput
     THEN /\ Goto(t, "keys")
          /\ todo' = [todo EXCEPT ![t] = Inputs]
          /\ UNCHANGED missed
     ELSE /\ Goto(t, "idle")
          /\ missed' = missed \cup NewButtons \cup NewKeys
          /\ UNCHANGED todo
  /\ UNCHANGED <<held, pad, board, flags, call, buffer, shown, keys, mixed, counts>>

\* Mutant: no event for a release.
AddKeyEventPressed(x) == keys' = IF Pressed(x) THEN keys \cup {x} ELSE keys

AddKeyEvent(x) ==
  keys' = IF Pressed(x) THEN keys \cup {x}
          ELSE IF Released(x) THEN keys \ {x} ELSE keys

Key(t, x) ==
  /\ At(t, "keys")
  /\ x \in todo[t] /\ (x \in Keys => todo[t] \subseteq Keys)
  /\ AddKeyEvent(x)
  /\ todo' = [todo EXCEPT ![t] = @ \ {x}]
  /\ Goto(t, IF todo[t] = {x} THEN "idle" ELSE "keys")
  /\ UNCHANGED <<held, pad, board, flags, call, buffer, shown, history>>

----------------------------------------------------------------------------
(* A read of the game's: the original, then disableButtons on its state.   *)

GameRead(t) ==
  /\ t \in cast.readers /\ At(t, "idle")
  /\ buffer' = [buffer EXCEPT ![t] = held]
  /\ Goto(t, "hide")
  /\ UNCHANGED <<held, pad, board, flags, call, todo, shown, keys, history>>

DisableButtons(t) ==
  /\ At(t, "hide")
  /\ shown' = Filtered(buffer[t])
  /\ buffer' = [buffer EXCEPT ![t] = {}]
  /\ Goto(t, "idle")
  /\ UNCHANGED <<held, pad, board, flags, call, todo, keys, history>>

----------------------------------------------------------------------------
UpdatePadState(t) ==
  Shift(t) \/ BeginRead(t) \/ Read(t) \/ Filter(t) \/ EndRead(t)
  \/ ShiftOthers(t) \/ ReadOthers(t) \/ Toggle(t)

Next ==
  /\ \/ \E b \in Buttons : Press(b) \/ Release(b)
     \/ \E k \in Keys : Type(k)
     \/ \E t \in Threads :
          \/ LayerCalc(t) \/ ProcDraw(t)
          \/ UpdatePadState(t)
          \/ UpdateInput(t)
          \/ \E x \in Inputs : Key(t, x)
          \/ GameRead(t) \/ DisableButtons(t)
  /\ UNCHANGED cast

Spec == Init /\ [][Next]_vars

----------------------------------------------------------------------------
(* Opening and closing each take a press of ZR of their own: holding the    *)
(* buttons over several samples, by whichever caller, or losing and finding *)
(* the controller again, flips nothing twice (updatePadState).  Samples     *)
(* that overlap may flip what they like, but of them a later one inherits   *)
(* no more than the ZR which disableButtons hid from them.                  *)
FlipsArePresses == flips <= presses + hidden

(* ImGui's picture of a button or key is wrong only while a frame is still  *)
(* to make its events, unless the layer hook sampled the last change, a     *)
(* frame that found the menu closed did, or another thread's sample took    *)
(* it from the frame: such a change is gone when updateInput looks.         *)
KeysFollow ==
  \A x \in Inputs :
    x \notin missed /\ (x \in keys) # (x \in cur \cup curKeys)
      => \E t \in Threads : Due(t, x)

(* As long as no two samples overlap, the three kinds of calls are what     *)
(* InputSampler says, however the game's reads overlap the samples.  A      *)
(* sample counts from the moment the original has filled in the state.      *)
Sampled(t) == pc[t] \in {"filter", "end", "others", "board", "toggle"}

Opening == \E t \in Threads : Sampled(t) /\ Toggles

Sampler == INSTANCE InputSampler WITH
  open <- (toggleInput # Opening),
  sampling <- (Samplers # {}),
  overlap <- (mixed # {}),
  reading <- {t \in Threads : pc[t] = "hide"}

ActsAsSampler == Sampler!Spec
=============================================================================
