-------------------------------- MODULE DbgGui --------------------------------
(***************************************************************************)
(* The debug menu (program/pe/DbgGui) between three threads of the game:    *)
(* the main thread constructs it (createRootHeap), the render thread draws  *)
(* it in every frame with the menu open (drawDbgGui), the game's own camera *)
(* code calls disgustingCameraHook once Camera's constructor has patched it *)
(* in.  Nothing orders the three.                                           *)
(*                                                                          *)
(* A store of the main thread can reach the other cores late, and stores    *)
(* can overtake each other, until the barrier of a flush: every patcher and *)
(* every hook ends with one.                                                *)
(*                                                                          *)
(* Of the camera's vectors one coordinate stands for the three, which are   *)
(* loaded and stored one by one; a place is a number, a unit vector is 1 or *)
(* -1.  Hook and window load and store sPos and sAt in steps of their own.  *)
(* sUp takes the road of sPos, but nothing moves it except a drag.          *)
(***************************************************************************)
EXTENDS Integers, Sequences, FiniteSets

CONSTANTS
  MaxMoves,   \* bound: moves of the user between two calls that follow
  MaxPlace,   \* bound: places of either camera, 0 .. MaxPlace
  MaxFlips    \* bound: how often the window and the camera are switched

ASSUME DbgGuiAssumption == {MaxMoves, MaxPlace, MaxFlips} \subseteq Nat

\* mComponents; the array has room for those up to Graphics.
Components == <<"MenuBar", "ImGuiDemo", "Camera", "Graphics", "HeapViewer">>
Drawn == 4
Windows == {"Camera"}                    \* the one whose contents matter here
Patching == {"Camera", "Graphics"}       \* constructors that flush

VARIABLES
  heap,      \* pe::gui::heap: "unset", "made", or "null" if tryCreate fails
  made,      \* components constructed
  instance,  \* DbgGui::instance() is set
  late,      \* components whose pointer may not have reached the other cores;
             \* no frame reads HeapViewer's
  shared,    \* mSharedData: windows shown
  render,    \* what the render thread does
  stale,     \* the render thread's copy of what it drags
  hook,      \* what the camera hook does
  work,      \* the hook's copy of what it is about to store
  enabled,   \* sEnabled
  pos, sight, dir, \* sPos, sAt, sDirection
  game,      \* the game's camera: its mPos and mAt
  fresh,     \* history: who holds a copy of sPos that is still right
  copied, moved, torn, \* history: the place last followed, the moves since, and
                       \* whether one of them was lost between load and store
  dragged,   \* history: what was dragged since the hook looked ahead
  switches   \* history: for the bound

menuVars == <<heap, made, instance, late>>
drawVars == <<shared, render, stale>>
hookVars == <<hook, work, game>>
viewVars == <<enabled, pos, sight, dir>>
moveHistory == <<fresh, copied, moved, torn, dragged>>
cameraVars == <<hookVars, viewVars, moveHistory>>
guiVars == <<menuVars, drawVars, cameraVars, switches>>

Never == -1
LookedAhead == {"sight", "toggle", "copy", "takeAt"}
CanMove == moved < MaxMoves /\ pos < MaxPlace          \* the bounds
CanSwitch == switches < MaxFlips

MenuInit ==
  /\ heap = "unset" /\ made = 0 /\ instance = FALSE /\ late = {}
  /\ shared = {}
  /\ render = "idle" /\ stale = 0
  /\ hook = "idle" /\ work = 0 /\ enabled = FALSE
  /\ pos = 0 /\ sight = 1 /\ dir = 1
  /\ game \in {[pos |-> p, at |-> p + d] : p \in 0 .. MaxPlace, d \in {1, -1}}
  /\ fresh = {} /\ copied = Never /\ moved = 0 /\ torn = FALSE /\ dragged = {}
  /\ switches = 0

-----------------------------------------------------------------------------
\* createRootHeap and DbgGui::DbgGui on the main thread.

\* The menu is constructed with whatever tryCreate returns.
CreateHeap ==
  /\ heap = "unset"
  /\ heap' \in {"made", "null"}
  /\ UNCHANGED <<made, instance, late, drawVars, cameraVars, switches>>

\* The pointer to HeapViewer goes over the flags behind the array.
Construct ==
  LET c == Components[made + 1]
  IN
  /\ heap # "unset" /\ made < Len(Components)
  /\ made' = made + 1
  /\ IF made < Drawn
     THEN late' = (IF c \in Patching THEN {} ELSE late) \cup {c} /\ UNCHANGED shared
     ELSE shared' \in SUBSET Windows /\ UNCHANGED late
  /\ UNCHANGED <<heap, instance, render, stale, cameraVars, switches>>

\* Mutant: the instance is set before its constructor runs.
SetInstanceFirst ==
  /\ heap # "unset" /\ made = 0 /\ ~instance
  /\ instance' = TRUE
  /\ UNCHANGED <<heap, made, late, drawVars, cameraVars, switches>>

\* DbgGui::createInstance, of SEAD_SINGLETON_DISPOSER.
SetInstance ==
  /\ made = Len(Components) /\ ~instance
  /\ instance' = TRUE
  /\ UNCHANGED <<heap, made, late, drawVars, cameraVars, switches>>

\* Stores reach the other cores.
Settle ==
  /\ late # {}
  /\ late' = {}
  /\ UNCHANGED <<heap, made, instance, drawVars, cameraVars, switches>>

-----------------------------------------------------------------------------
\* drawDbgGui and DbgGui::draw on the render thread.

\* drawDbgGui: ScopedCurrentHeapSetter, with a heap that may still be null, then
\* the instance.
DrawDbgGui ==
  /\ render = "idle"
  /\ render' = "instance"
  /\ UNCHANGED <<menuVars, shared, stale, cameraVars, switches>>

GetInstance ==
  /\ render = "instance"
  /\ render' = IF instance THEN "MenuBar" ELSE "idle"
  /\ UNCHANGED <<menuVars, shared, stale, cameraVars, switches>>

\* A component's pointer is read: one that was not constructed, or has not
\* arrived, may still be null.
Draws(c) ==
  /\ render = c
  /\ c \in {Components[k] : k \in 1 .. made}
Missing(c) == c \in late \/ c \notin {Components[k] : k \in 1 .. made}
DrawMissing(c) ==
  /\ render = c /\ Missing(c)
  /\ render' = "null"
  /\ UNCHANGED <<menuVars, shared, stale, cameraVars, switches>>

\* MenuBar::draw: at most one box is clicked in a frame.
DrawMenuBar ==
  /\ Draws("MenuBar")
  /\ \/ UNCHANGED <<shared, switches>>
     \/ /\ CanSwitch /\ switches' = switches + 1
        /\ \E w \in Windows :
             shared' = IF w \in shared THEN shared \ {w} ELSE shared \cup {w}
  /\ render' = "ImGuiDemo"
  /\ UNCHANGED <<menuVars, stale, cameraVars>>

\* ImGuiDemo::draw changes nothing but its own flag.
DrawDemo ==
  /\ Draws("ImGuiDemo")
  /\ render' = "Camera"
  /\ UNCHANGED <<menuVars, shared, stale, cameraVars, switches>>

\* Camera::draw: the user clicks the box, or drags sPos or sAt; a drag adds to
\* what it has read.
DrawCamera ==
  /\ Draws("Camera")
  /\ \/ /\ render' = "Graphics"
        /\ UNCHANGED <<stale, enabled, fresh, switches>>
     \/ /\ "Camera" \in shared /\ CanSwitch
        /\ enabled' = ~enabled /\ switches' = switches + 1
        /\ render' = "Graphics"
        /\ UNCHANGED <<stale, fresh>>
     \/ /\ "Camera" \in shared /\ CanMove
        /\ stale' = pos /\ fresh' = fresh \cup {"window"}
        /\ render' = "dragPos"
        /\ UNCHANGED <<enabled, switches>>
     \/ /\ "Camera" \in shared /\ sight < MaxPlace
        /\ stale' = sight
        /\ render' = "dragAt"
        /\ UNCHANGED <<enabled, fresh, switches>>
  /\ UNCHANGED <<menuVars, shared, hookVars, pos, sight, dir,
                 copied, moved, torn, dragged>>

\* A move of sPos is stored; it is lost on whoever has read the place before it,
\* and takes with it what was stored since it was read itself.
Moves(who, place) ==
  /\ pos' = place
  /\ moved' = moved + 1
  /\ torn' = (torn \/ who \notin fresh)
  /\ fresh' = {}

\* It is recorded while the hook is on its way from sAt = sPos + sDirection.
Dragged(vector) ==
  dragged' = IF hook \in LookedAhead THEN dragged \cup {vector} ELSE dragged

DragPos ==
  /\ render = "dragPos"
  /\ Moves("window", stale + 1)
  /\ Dragged("pos")
  /\ render' = "Graphics" /\ stale' = 0
  /\ UNCHANGED <<menuVars, shared, hookVars, enabled, sight, dir,
                 copied, switches>>

DragAt ==
  /\ render = "dragAt"
  /\ sight' = stale + 1
  /\ Dragged("at")
  /\ render' = "Graphics" /\ stale' = 0
  /\ UNCHANGED <<menuVars, shared, hookVars, enabled, pos, dir,
                 fresh, copied, moved, torn, switches>>

\* Graphics::draw: what it writes to its own flags and to the game's code has
\* no part in this.
DrawGraphics ==
  /\ Draws("Graphics")
  /\ render' = "idle"
  /\ UNCHANGED <<menuVars, shared, stale, cameraVars, switches>>

-----------------------------------------------------------------------------
\* disgustingCameraHook, in place once Camera is constructed.

\* Mutant: with the middle button held the view is left as it is.
UpdateCameraInputHolds ==
  /\ hook = "idle" /\ made >= 3
  /\ \/ hook' = "toggle" /\ UNCHANGED dir
     \/ hook' = "move" /\ dir' \in {1, -1}
  /\ UNCHANGED <<menuVars, drawVars, work, game, enabled, pos, sight, moveHistory, switches>>

\* updateCameraInput: with the middle button held nothing moves; else the mouse
\* turns the direction, which is normalised.
UpdateCameraInput ==
  /\ hook = "idle" /\ made >= 3
  /\ \/ hook' = "ahead" /\ UNCHANGED dir
     \/ hook' = "move" /\ dir' \in {1, -1}
  /\ UNCHANGED <<menuVars, drawVars, work, game, enabled, pos, sight, moveHistory, switches>>

\* Wheel and keys, each of which adds to sPos.
Step ==
  /\ hook = "move" /\ CanMove
  /\ work' = pos /\ fresh' = fresh \cup {"hook"}
  /\ hook' = "step"
  /\ UNCHANGED <<menuVars, drawVars, game, viewVars, copied, moved, torn, dragged, switches>>

StoreStep ==
  /\ hook = "step"
  /\ Moves("hook", work + 1)
  /\ hook' = "move" /\ work' = 0
  /\ UNCHANGED <<menuVars, drawVars, game, enabled, sight, dir, copied, dragged, switches>>

NoMoreSteps ==
  /\ hook = "move"
  /\ hook' = "ahead"
  /\ UNCHANGED <<menuVars, drawVars, work, game, viewVars, moveHistory, switches>>

\* sAt = sPos + sDirection, on either way through updateCameraInput.
LookAhead ==
  /\ hook = "ahead"
  /\ work' = pos + dir
  /\ hook' = "sight"
  /\ UNCHANGED <<menuVars, drawVars, game, viewVars, moveHistory, switches>>

StoreSight ==
  /\ hook = "sight"
  /\ sight' = work
  /\ dragged' = dragged \ {"at"}
  /\ hook' = "toggle" /\ work' = 0
  /\ UNCHANGED <<menuVars, drawVars, game, enabled, pos, dir, fresh, copied, moved, torn,
                 switches>>

\* O, or ZR and Plus, are held: in every call.
ToggleFree ==
  /\ hook = "toggle"
  /\ \/ UNCHANGED <<enabled, switches>>
     \/ CanSwitch /\ switches' = switches + 1 /\ enabled' = ~enabled
  /\ hook' = "copy"
  /\ UNCHANGED <<menuVars, drawVars, work, game, pos, sight, dir, moveHistory>>

\* Mutant: the free camera starts at the place where it was left.
FollowPlaceNot ==
  /\ hook = "copy" /\ ~enabled
  /\ copied' = game.pos /\ moved' = 0 /\ torn' = FALSE /\ fresh' = {} /\ dragged' = {}
  /\ hook' = "followAt"
  /\ UNCHANGED <<menuVars, drawVars, work, game, viewVars, switches>>

\* The free camera is off: it follows the game's.
FollowPlace ==
  /\ hook = "copy" /\ ~enabled
  /\ pos' = game.pos
  /\ copied' = game.pos /\ moved' = 0 /\ torn' = FALSE /\ fresh' = {} /\ dragged' = {}
  /\ hook' = "followAt"
  /\ UNCHANGED <<menuVars, drawVars, work, game, enabled, sight, dir, switches>>

FollowAt ==
  /\ hook = "followAt"
  /\ sight' = game.at
  /\ hook' = "followDir"
  /\ UNCHANGED <<menuVars, drawVars, work, game, enabled, pos, dir, moveHistory, switches>>

\* sDirection = sAt - sPos: of the values just stored, or of those read again.
FollowDirection ==
  /\ hook = "followDir"
  /\ dir' \in {game.at - game.pos, sight - pos}
  /\ hook' = "idle"
  /\ UNCHANGED <<menuVars, drawVars, work, game, enabled, pos, sight, moveHistory, switches>>

\* It is on: the game's camera is where it is, and looks where it does.
TakeOver ==
  /\ hook = "copy" /\ enabled
  /\ game' = [game EXCEPT !.pos = pos]
  /\ hook' = "takeAt"
  /\ UNCHANGED <<menuVars, drawVars, work, viewVars, moveHistory, switches>>

TakeSight ==
  /\ hook = "takeAt"
  /\ game' = [game EXCEPT !.at = sight]
  /\ dragged' = {}
  /\ hook' = "idle"
  /\ UNCHANGED <<menuVars, drawVars, work, viewVars, fresh, copied, moved, torn, switches>>

\* The game moves its camera before it asks for the matrix.
GameMoves ==
  /\ hook = "idle"
  /\ game' \in {[pos |-> p, at |-> p + d] : p \in 0 .. MaxPlace, d \in {1, -1}}
  /\ UNCHANGED <<menuVars, drawVars, hook, work, viewVars, moveHistory, switches>>

-----------------------------------------------------------------------------
Main == CreateHeap \/ Construct \/ SetInstance \/ Settle
Render == \/ DrawDbgGui \/ GetInstance \/ \E k \in 1 .. Drawn : DrawMissing(Components[k])
          \/ DrawMenuBar \/ DrawDemo \/ DrawCamera \/ DragPos \/ DragAt \/ DrawGraphics
CameraHook == \/ UpdateCameraInput \/ Step \/ StoreStep \/ NoMoreSteps \/ LookAhead \/ StoreSight
              \/ ToggleFree \/ FollowPlace \/ FollowAt \/ FollowDirection
              \/ TakeOver \/ TakeSight \/ GameMoves

MenuNext == Main \/ Render \/ CameraHook

MenuSpec == MenuInit /\ [][MenuNext]_guiVars

-----------------------------------------------------------------------------
(* A frame that finds the menu finds every component it draws, at whatever  *)
(* moment the main thread constructs it and in whatever order its stores    *)
(* arrive, except Graphics: that pointer is stored after the last barrier   *)
(* of the constructor (createInstance, drawDbgGui).                         *)
FramesFindMenu ==
  \A c \in {"MenuBar", "ImGuiDemo", "Camera"} : render = c => ~Missing(c)

(* The free camera takes over where the game's was: at its place of the     *)
(* last call that followed it, moved by all that the user did since, with   *)
(* wheel, keys and drags.  Not so before the first such call, when the box  *)
(* in the window can already be checked; and not once a move was lost,      *)
(* because one thread stored the place between another's load and store.    *)
CameraTakesOver ==
  [][TakeOver /\ copied # Never /\ ~torn => game'.pos = copied + moved]_guiVars

(* The game's camera is handed a place and a point ahead of that place in   *)
(* the free camera's direction, however place and point were dragged before *)
(* this call: a drag of sAt has no lasting effect, one of sPos takes the    *)
(* view along, also with the middle button held.  Drags between the hook's  *)
(* own sAt = sPos + sDirection and its last read show in the one frame.     *)
CameraLooksAhead ==
  [][TakeSight /\ dragged = {} => game'.at = game'.pos + dir]_guiVars
===============================================================================
