------------------------------ MODULE NvnHooks ------------------------------
(***************************************************************************)
(* How the debug menu gets onto the screen: the hooks of the game's        *)
(* graphics calls in program/imgui_nvn.cpp, the set-up of the ImGui        *)
(* backend, and renderDrawData with its two growing buffers.               *)
(*                                                                         *)
(* The game looks its graphics functions up by name, twice over, and       *)
(* initialises the device, queues and command buffers; Loaders are the     *)
(* threads that do.  One more thread presents frames.  The GPU executes    *)
(* what was submitted some time later.  Whether the menu is open (the      *)
(* subject of PadInput) changes at any time.                               *)
(***************************************************************************)
EXTENDS Naturals, Sequences, SequencesExt

CONSTANTS
  Loaders,    \* threads that initialise command buffers
  Sizes,      \* sizes of vertex and index data, in units of a pool's alignment
  MaxFrames   \* bound: frames that are drawn

ASSUME NvnHooksAssumption == Sizes \subseteq Nat /\ MaxFrames \in Nat

(* The functions the hooks replace; each is saved in a temp* pointer.       *)
Bootstrapped == {"nvnDeviceInitialize", "nvnDeviceGetProcAddress"}
Replaced == {"nvnQueueInitialize", "nvnCommandBufferInitialize",
             "nvnCommandBufferSetViewport", "nvnQueuePresentTexture"}

(* What the recorded commands need, in the order setupShaders and setupFont *)
(* make it: the buffers and pools as much as what is put into them.         *)
SetupShaders == <<"shaderProgram", "shaderMemory", "shaders", "uniformMemory">>
SetupFont == <<"sampTexMemPool", "samplerPool", "texPool",
               "fontMemPool", "fontTexture", "fontSampler">>
SetupSteps == SetupShaders \o SetupFont

None == [size |-> 0, ready |-> FALSE, made |-> 0, frame |-> 0]

VARIABLES
  saved,         \* names whose original is known
  device, queue, \* nvnDevice, nvnQueue are set
  cmdBuf,        \* nvnCmdBuf is set
  hasInitImGui,
  context,       \* ImGui has a context
  funcPtrs,      \* isSetPtrs: ImGui's allocator functions are known
  backend,       \* "none", "made" or "initialized" (isInitialized)
  missing,       \* the members of SetupSteps that do not stand yet
  loader,        \* where each loader is
  menu,          \* toggleInput
  frame,         \* frames begun so far
  draw,          \* where the presenting thread is
  need,          \* the size of the frame's vertex and index data
  vtx, idx,      \* vtxBuffer, idxBuffer: [size, ready, made, frame]
  submitted,     \* submissions the GPU has not finished
  aborted        \* an assertion has failed

hooks == <<saved, device, queue, cmdBuf>>
imgui == <<hasInitImGui, funcPtrs, context, backend, missing>>
renderVars == <<menu, frame, draw, need, vtx, idx, submitted>>
hooksVars == <<hooks, imgui, loader, renderVars, aborted>>

HooksInit ==
  /\ saved = {}
  /\ device = FALSE /\ queue = FALSE /\ cmdBuf = FALSE
  /\ hasInitImGui = FALSE /\ context = FALSE /\ backend = "none"
  /\ funcPtrs = FALSE /\ missing = SetupSteps
  /\ loader = [t \in Loaders |-> "idle"]
  /\ menu = FALSE
  /\ frame = 0 /\ draw = "idle" /\ need = [vtx |-> 0, idx |-> 0]
  /\ vtx = None /\ idx = None
  /\ submitted = <<>>
  /\ aborted = FALSE

Running == ~aborted

----------------------------------------------------------------------------
(* Looking functions up.  The wrapper is handed out with the original saved.*)

NvnBootstrap(name) ==
  /\ Running
  /\ saved' = saved \cup ({name} \cap Bootstrapped)
  /\ UNCHANGED <<device, queue, cmdBuf, imgui, loader, renderVars, aborted>>

GetProc(name) ==
  /\ Running
  /\ "nvnDeviceGetProcAddress" \in saved
  /\ saved' = saved \cup ({name} \cap Replaced)
  /\ UNCHANGED <<device, queue, cmdBuf, imgui, loader, renderVars, aborted>>

(* deviceInit loads the module's own nvn functions through the saved        *)
(* nvnDeviceGetProcAddress; the game has asked for that one first.          *)
DeviceInit ==
  /\ Running
  /\ Bootstrapped \subseteq saved
  /\ device' = TRUE
  /\ UNCHANGED <<saved, queue, cmdBuf, imgui, loader, renderVars, aborted>>

QueueInit ==
  /\ Running
  /\ device /\ "nvnQueueInitialize" \in saved
  /\ queue' = TRUE
  /\ UNCHANGED <<saved, device, cmdBuf, imgui, loader, renderVars, aborted>>

----------------------------------------------------------------------------
(* cmdBufInit and, in it, InitImGui.                                       *)

LoaderGoes(t, label) == loader' = [loader EXCEPT ![t] = label]
LoaderIs(t, label) == Running /\ loader[t] = label

CmdBufInit(t) ==
  /\ LoaderIs(t, "idle")
  /\ device /\ "nvnCommandBufferInitialize" \in saved
  /\ cmdBuf' = TRUE
  /\ LoaderGoes(t, "check")
  /\ UNCHANGED <<saved, device, queue, imgui, renderVars, aborted>>

\* Mutant: the flag is set before the work is done.
InitImGuiEarly(t) ==
  /\ LoaderIs(t, "check")
  /\ hasInitImGui' = (hasInitImGui \/ (device /\ queue /\ cmdBuf))
  /\ LoaderGoes(t, IF hasInitImGui THEN "idle"
                   ELSE IF device /\ queue /\ cmdBuf THEN "context" ELSE "fail")
  /\ UNCHANGED <<hooks, funcPtrs, context, backend, missing, renderVars, aborted>>

(* Without a queue InitImGui returns false, and that is stored.             *)
InitImGui(t) ==
  /\ LoaderIs(t, "check")
  /\ LoaderGoes(t, IF hasInitImGui THEN "idle"
                   ELSE IF device /\ queue /\ cmdBuf THEN "context" ELSE "fail")
  /\ UNCHANGED <<hooks, imgui, renderVars, aborted>>

InitFails(t) ==
  /\ LoaderIs(t, "fail")
  /\ hasInitImGui' = FALSE
  /\ LoaderGoes(t, "idle")
  /\ UNCHANGED <<hooks, funcPtrs, context, backend, missing, renderVars, aborted>>

(* malloc and free are looked up the first time only.                       *)
GetAllocatorFuncs == funcPtrs' = TRUE

CreateContext(t) ==
  /\ LoaderIs(t, "context")
  /\ GetAllocatorFuncs
  /\ context' = TRUE
  /\ LoaderGoes(t, "backend")
  /\ UNCHANGED <<hooks, hasInitImGui, backend, missing, renderVars, aborted>>

(* "Already Initialized Imgui Backend!"                                    *)
InitBackend(t) ==
  /\ LoaderIs(t, "backend")
  /\ IF backend = "none"
     THEN backend' = "made" /\ LoaderGoes(t, "setup") /\ UNCHANGED aborted
     ELSE aborted' = TRUE /\ UNCHANGED <<backend, loader>>
  /\ UNCHANGED <<hooks, hasInitImGui, funcPtrs, context, missing, renderVars>>

(* getBackendData: "Backend has not been initialized!"                      *)
HasBackendData == context /\ backend # "none"

(* setupShaders && setupFont: every call may fail, and the first that does  *)
(* ends the set-up; what was made before it stays.                          *)
SetupStep(t) ==
  /\ LoaderIs(t, "setup")
  /\ missing # <<>>
  /\ IF HasBackendData
     THEN \/ /\ missing' = Tail(missing)
             /\ UNCHANGED <<loader, aborted>>
          \/ LoaderGoes(t, "done") /\ UNCHANGED <<missing, aborted>>
     ELSE aborted' = TRUE /\ UNCHANGED <<missing, loader>>
  /\ UNCHANGED <<hooks, hasInitImGui, funcPtrs, context, backend, renderVars>>

(* After a failure isInitialized stays false, and nobody is told.           *)
SetupDone(t) ==
  /\ LoaderIs(t, "setup")
  /\ missing = <<>>
  /\ backend' = "initialized"
  /\ LoaderGoes(t, "done")
  /\ UNCHANGED <<hooks, hasInitImGui, funcPtrs, context, missing, renderVars, aborted>>

(* The plain store to hasInitImGui is taken to arrive after those of the     *)
(* backend: between them InitImGui makes two calls of a system service       *)
(* (initKBM), and the kernel synchronises before it answers.                *)
InitDone(t) ==
  /\ LoaderIs(t, "done")
  /\ hasInitImGui' = TRUE
  /\ LoaderGoes(t, "idle")
  /\ UNCHANGED <<hooks, funcPtrs, context, backend, missing, renderVars, aborted>>

----------------------------------------------------------------------------
(* setViewport: the display size follows the game's viewport.  GetIO, like  *)
(* getBackendData, asserts that there is something to get.                  *)

SetViewport ==
  /\ Running
  /\ device /\ "nvnCommandBufferSetViewport" \in saved
  /\ aborted' = (hasInitImGui /\ ~context)
  /\ UNCHANGED <<hooks, imgui, loader, renderVars>>

ToggleMenu ==
  /\ Running
  /\ menu' = ~menu
  /\ UNCHANGED <<hooks, imgui, loader, frame, draw, need, vtx, idx, submitted, aborted>>

----------------------------------------------------------------------------
(* presentTexture, procDraw and renderDrawData.                            *)

Drawing(label) == Running /\ draw = label

PresentTexture ==
  /\ Drawing("idle")
  /\ queue /\ "nvnQueuePresentTexture" \in saved
  /\ hasInitImGui /\ menu
  /\ frame < MaxFrames
  /\ frame' = frame + 1
  /\ draw' = "newFrame"
  /\ UNCHANGED <<hooks, imgui, loader, menu, need, vtx, idx, submitted, aborted>>

NewFrame ==
  /\ Drawing("newFrame")
  /\ aborted' = ~HasBackendData
  /\ draw' = "render"
  /\ UNCHANGED <<hooks, imgui, loader, menu, frame, need, vtx, idx, submitted>>

\* Mutant: isInitialized is not asked.
RenderUnchecked ==
  /\ Drawing("render")
  /\ \/ draw' = "idle" /\ UNCHANGED need
     \/ /\ draw' = "vtx"
        /\ need' \in [vtx : Sizes, idx : Sizes]
  /\ UNCHANGED <<hooks, imgui, loader, menu, frame, vtx, idx, submitted, aborted>>

(* Frames without draw lists, and all frames of a backend whose set-up      *)
(* failed, end here.                                                        *)
RenderDrawData ==
  /\ Drawing("render")
  /\ \/ draw' = "idle" /\ UNCHANGED need
     \/ /\ backend = "initialized"
        /\ draw' = "vtx"
        /\ need' \in [vtx : Sizes, idx : Sizes]
  /\ UNCHANGED <<hooks, imgui, loader, menu, frame, vtx, idx, submitted, aborted>>

(* A buffer that is missing or too small is finalized, freed and made anew. *)
(* If its pool cannot be made the size it reports afterwards is arbitrary;  *)
(* if only the buffer on it cannot, the size is right.                      *)
TooSmall(buffer, size) == buffer = None \/ buffer.size < size

Make(size) ==
  {[size |-> size, ready |-> r, made |-> frame, frame |-> 0] : r \in BOOLEAN}
  \cup {[size |-> s, ready |-> FALSE, made |-> frame, frame |-> 0] : s \in {0} \cup Sizes}

Resized(buffer, size) ==
  IF TooSmall(buffer, size) THEN Make(size) ELSE {buffer}

ResizeVtx ==
  /\ Drawing("vtx")
  /\ vtx' \in Resized(vtx, need.vtx)
  /\ draw' = "idx"
  /\ UNCHANGED <<hooks, imgui, loader, menu, frame, need, idx, submitted, aborted>>

ResizeIdx ==
  /\ Drawing("idx")
  /\ idx' \in Resized(idx, need.idx)
  /\ draw' = "ready"
  /\ UNCHANGED <<hooks, imgui, loader, menu, frame, need, vtx, submitted, aborted>>

\* Mutant: || in place of &&.
IsBufferReadyEither == vtx.ready \/ idx.ready

IsBufferReady == vtx.ready /\ idx.ready

Ready ==
  /\ Drawing("ready")
  /\ draw' = IF IsBufferReady THEN "record" ELSE "idle"
  /\ UNCHANGED <<hooks, imgui, loader, menu, frame, need, vtx, idx, submitted, aborted>>

(* The lists are copied into both buffers while the commands that read them *)
(* are recorded.                                                            *)
Record ==
  /\ Drawing("record")
  /\ vtx' = [vtx EXCEPT !.frame = frame]
  /\ idx' = [idx EXCEPT !.frame = frame]
  /\ draw' = "submit"
  /\ UNCHANGED <<hooks, imgui, loader, menu, frame, need, submitted, aborted>>

SubmitCommands ==
  /\ Drawing("submit")
  /\ submitted' = Append(submitted,
       [frame |-> frame, need |-> need, vtx |-> vtx.made, idx |-> idx.made])
  /\ draw' = "idle"
  /\ UNCHANGED <<hooks, imgui, loader, menu, frame, need, vtx, idx, aborted>>

GpuFinishes ==
  /\ submitted # <<>>
  /\ submitted' = Tail(submitted)
  /\ UNCHANGED <<hooks, imgui, loader, menu, frame, draw, need, vtx, idx, aborted>>

----------------------------------------------------------------------------
HooksNext ==
  \/ \E name \in Bootstrapped : NvnBootstrap(name)
  \/ \E name \in Replaced : GetProc(name)
  \/ DeviceInit \/ QueueInit
  \/ \E t \in Loaders :
       \/ CmdBufInit(t) \/ InitImGui(t) \/ InitFails(t)
       \/ CreateContext(t) \/ InitBackend(t) \/ SetupStep(t) \/ SetupDone(t) \/ InitDone(t)
  \/ SetViewport \/ ToggleMenu
  \/ PresentTexture \/ NewFrame \/ RenderDrawData
  \/ ResizeVtx \/ ResizeIdx \/ Ready \/ Record \/ SubmitCommands
  \/ GpuFinishes

HooksSpec == HooksInit /\ [][HooksNext]_hooksVars

----------------------------------------------------------------------------
(* ImGui is set up once and used only then: no assertion of InitBackend,    *)
(* getBackendData or GetIO fails, whatever order the game initialises its   *)
(* objects in, while frames are presented and viewports set all the time.   *)
NeverAborts == ~aborted

(* What is submitted has its data: both buffers stand, are ready and hold   *)
(* all of the frame, although either may have failed to grow in this frame  *)
(* or an earlier one; until the next frame touches them.                    *)
Complete(s) ==
  /\ s.frame = frame
  /\ vtx.ready /\ idx.ready
  /\ s.vtx = vtx.made /\ s.idx = idx.made
  /\ vtx.frame = s.frame /\ idx.frame = s.frame
  /\ s.need.vtx <= vtx.size /\ s.need.idx <= idx.size

LastFrameComplete ==
  draw = "idle" /\ submitted # <<>> =>
    Last(submitted).frame < frame \/ Complete(Last(submitted))

(* Nothing is drawn with a backend that was set up halfway: when commands   *)
(* are recorded, and for as long as the GPU has some, all that they bind    *)
(* stands, although every part of the set-up may have failed unnoticed.     *)
DrawsInitialized ==
  draw \in {"vtx", "idx", "ready", "record", "submit"} \/ submitted # <<>>
    => hasInitImGui /\ missing = <<>>
=============================================================================
