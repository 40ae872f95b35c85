---------------------------- MODULE InputSampler ----------------------------
(***************************************************************************)
(* What the input helper promises as long as samples do not overlap: each  *)
(* shows the buttons as they are at one moment; ZR pressed with ZL held    *)
(* opens the menu or closes it, once for each press; and while the menu is *)
(* open the game is shown no button, except that a read of the game's      *)
(* which ends within a sample may be shown what it has read.  While two    *)
(* samples overlap nothing is promised; then all is as before.             *)
(***************************************************************************)
CONSTANTS Threads, Buttons, ZL, ZR

VARIABLES
  held,     \* the buttons that are down
  cur,      \* the buttons of the last sample
  open,     \* toggleInput
  sampling, \* a sample is under way
  overlap,  \* two samples have overlapped and one of them is not over
  reading,  \* the threads in a read of the game's
  buffer,   \* buffer[t]: the state such a read has filled
  shown     \* what the game was shown last

menu == <<cur, open, sampling, overlap>>
game == <<reading, buffer, shown>>
vars == <<held, menu, game>>

Init ==
  /\ held = {} /\ cur = {} /\ open = FALSE
  /\ sampling = FALSE /\ overlap = FALSE
  /\ reading = {} /\ buffer = [t \in Threads |-> {}] /\ shown = {}

Use ==
  /\ held' \in SUBSET Buttons
  /\ UNCHANGED <<menu, game>>

Begin ==
  /\ ~sampling /\ sampling' = TRUE
  /\ UNCHANGED <<held, cur, open, overlap, game>>

Sample ==
  /\ sampling
  /\ cur' = held
  /\ open' = (open # (ZL \in cur' /\ ZR \in cur' \ cur))
  /\ UNCHANGED <<held, sampling, overlap, game>>

End ==
  /\ sampling /\ sampling' = FALSE
  /\ UNCHANGED <<held, cur, open, overlap, game>>

Overlap ==
  /\ sampling /\ (overlap \/ overlap')
  /\ overlap' \in BOOLEAN /\ sampling' = overlap'
  /\ cur' \in SUBSET Buttons /\ open' \in BOOLEAN
  /\ UNCHANGED <<held, game>>

Look(t) ==
  /\ t \notin reading /\ reading' = reading \cup {t}
  /\ buffer' = [buffer EXCEPT ![t] = held]
  /\ UNCHANGED <<held, menu, shown>>

Show(t) ==
  /\ t \in reading /\ reading' = reading \ {t}
  /\ shown' \in IF sampling THEN {{}, buffer[t]}
                ELSE IF open THEN {{}} ELSE {buffer[t]}
  /\ buffer' = [buffer EXCEPT ![t] = {}]
  /\ UNCHANGED <<held, menu>>

Next ==
  \/ Use \/ Begin \/ Sample \/ End \/ Overlap
  \/ \E t \in Threads : Look(t) \/ Show(t)

Spec == Init /\ [][Next]_vars
=============================================================================
