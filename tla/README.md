# zeldar: TLA+ models and proofs

zeldar is a native module that is loaded into a game process. At start it finds
the game's code in memory, maps writable aliases of that code, redirects
functions of the game to its own callbacks, and from inside the game's graphics
calls draws a debug menu whose windows patch more code while the game runs.

The specifications here model that machinery: what the module does to the
address space and to the code of a running process, step by step, and what it
promises in doing so. Each is written from the source under `src/src`; the
comments name the functions, and `PROJECT.json` gives the lines.

## 1. Inventory

| Part | Source | State | Operations | What makes it correct |
|---|---|---|---|---|
| address-space manager | `lib/nx/kernel/virtmem.c` | `g_Reservations`, region bounds | `virtmemFindAslr`, `virtmemAddReservation`, `virtmemRemoveReservation` | a slice is held by one reservation; a search ends |
| writable aliases | `lib/util/sys/rw_pages.*` | `m_Claim`, `m_Owner`, kernel page table | constructor, destructor, moves | an alias shows exactly the code it was made for; what is mapped is unmapped once |
| hook installation | `lib/hook/**` | trampoline index, pools, the words of hooked functions, `OrigRef`, the inline entries | `Hook`, `HookInline`, install functions | a call of a hooked function runs the callback, the original body, nothing else |
| instruction relocation | `hook_impl.cpp` `__fix_*` | fix map, moved words | one function per instruction class | a moved instruction does what it did, in the space a trampoline has |
| patchers | `lib/patch/*` | start, current, lowest, highest | write, seek, flush | every written word is flushed at its own address |
| memory layout | `lib/util/sys/mem_layout.*` | module table, regions | `FindModules`, `FindRegions` | every module is found, in order, none invented |
| process handle | `lib/util/sys/cur_proc_handle.*` | `s_Handle`, a session, a thread | `Get` | the handle is ours, and both threads end |
| runtime linker | `lib/reloc/**` | `ModuleObject`, GOT | `Relocate`, `ResolveSymbols`, lazy binding | eager and lazy binding agree; a call reaches a definition of its symbol |
| encoders | `lib/armv8/**`, `lib/util/math/*` | none | one constructor per instruction | fields hold what they are given or it is rejected |
| start-up | `lib/init/*`, `program/main.cpp` | what is initialised | `exl_init`, `exl_main`, callbacks | nothing is used before it is set up |
| graphics hooks | `program/imgui_nvn.cpp` | saved pointers, `hasInitImGui` | bootstrap, `getProc`, `presentTexture`, ... | ImGui is initialised once, and drawn only then |
| renderer backend | `imgui_backend/*` | buffers, pools | `renderDrawData`, `MemoryBuffer` | the GPU reads only live buffers of this frame |
| input | `helpers/InputHelper.*` | current and previous states, toggle | `updatePadState`, queries, `disableButtons` | an edge flips the menu once and reaches ImGui |
| debug menu | `program/pe/DbgGui/**` | components, flags, patched words | `createInstance`, `draw` | a frame finds its components; the free camera goes on where the game's was and looks ahead of it; the code patched is the code the flag asks for (it is not, see section 3) |
| file helper, shader compiler | `helpers/fsHelper.*`, `imgui_backend/nvn_glslc*`, `CompiledData` | file, compiler | write, load, compile | not reached in this build, not modelled |
| diagnostics, stubs, SDK headers | `lib/diag`, `svc.s`, `cache.s`, `nn`, `nvn`, `sead` | none of their own | | not modelled |

How they interact: `exl_init` sets up the memory layout, the address-space
manager and the patcher, in this order; `exl_main` initialises the hook pools,
installs `MainInitHook`, writes one branch with a `CodePatcher` and installs the
graphics and input hooks. The game then calls the callbacks from its own
threads. Hooks, pools and patchers all go through `RwPages`, and `RwPages`
through the address-space manager. The menu's constructor, run when the game
creates its heaps, installs one more hook and three patches; its `draw`, on the
render thread, patches code in every frame.

What is hard: no lock is taken anywhere (`virtmemLock` is empty, `Hook` says
"TODO: thread safety"); code is patched under the feet of threads that execute
it; the page table is shared with a game that maps memory of its own; instruction
words are moved to another address; two threads sample the controllers.
`PROJECT.json` lists these hazards with their lines.

## 2. Modules

| Module | Models |
|---|---|
| `CodeLease` | what the address-space manager promises: exclusive leases of slices |
| `RwPages` | the search, the reservation list, mapping, comparison, unmapping and the moves, thread by thread |
| `HookInstall` | installing hooks word by word while callers run |
| `Relocate` | moving instructions to a trampoline: the `__fix_*` functions, path by path |
| `MovedCode` | extends it: what the moved words do when they are executed |
| `Patcher` | stream and random access patchers against the fetches of the processor |
| `MemLayout` | finding the process's modules and the regions of the address space, in both places that do |
| `ProcHandle` | the process handle, and the session with ourselves that finds it |
| `Boot` | extends both: start-up, from `exl_module_init` to the last step of `exl_main` |
| `Rtld` | relocating and linking a module, lazily or at once, and the calls through its table |
| `Armv8` | the instruction constructors, bit field by bit field, against the architecture's decoding |
| `InputSampler` | what the input helper promises: atomic samples, one toggle for each press |
| `PadInput` | controller, keyboard and mouse: samples, the hooks on the game's reads, the events for ImGui |
| `NvnHooks` | the graphics hooks, the set-up of ImGui, frames and their buffers against the GPU |
| `DbgGui` | the menu's construction, its frames and its free camera, on three threads |

`MCRwPages`, `MCHookInstall`, `MCMovedCode`, `MCPatcher`, `MCBoot`, `MCRtld`,
`MCArmv8`, `MCPadInput`, `MCNvnHooks` and `MCDbgGui` are the small instances, and
`RwPages_proofs`, `HookInstall_proofs`, `Relocate_proofs`, `Patcher_proofs`,
`Boot_proofs`, `Rtld_proofs` and `Menu_proofs` (of `PadInput`, `NvnHooks` and `DbgGui`)
hold the theorems, and `TableWalk` lemmas about a loop over a table, whatever it does with
an entry. Definitions that say `mutant` next to them are wrong versions of the
one they precede; `PROJECT.json` names the property that notices each.

### RwPages

`pc[t]` says where a thread is in a constructor or destructor; `obj`,
`alignedRw`, `tries` and `cursor` are its locals. `claim` and `owner` are the
members of the objects, `resv` is `g_Reservations`, `ptab` the part of the
kernel's page table that covers the ASLR region. Between two labels no other
thread can change what the step uses: `Pick` is one random draw with the page
table question (`_memregionIsMapped`), `Scan` the walk over the reservations,
`Reserve` the new list node, `Map` one `svcMapProcessMemory`, `Verify` the
`memcmp`; `Unmap` and `Release` are the destructor. `MoveConstruct` and
`MoveAssign` are the two move operations. `GameMap` is the game's own allocator.

Addresses are words, `PageSize` words to a page, because the offset of a claim in
its page matters: `GetAlignedSize` rounds the size up and forgets that offset.
Every random draw is possible; draws that touch the alias or heap region go
round the inner loop (`Redraw`) and are not counted. `MAX_ATTEMPTS` is small.

`CodeLease` has two actions, `Acquire` and `Return`. `RwPages` implements it
(`Exclusive`), with `Reserve` as `Acquire` and `Release` as `Return`, as long as
one thread is at work.

### HookInstall

The functions to hook and the trampolines are arrays of words. A word is an
original instruction of a function (tagged by its place), part of a hook (`NOP`,
`LDR`, `BR`, the two literal words, or a near branch) or a closing branch back.
A hook is installed in the steps another thread can see: take a trampoline slot,
move the words, write each of the four or five words (a near hook writes one),
return, assign `OrigRef`; `HookInline` adds its entry and callback after `Hook`
has returned. Callers enter a function at any moment, before, during or after its
patches, execute word after word of what is there at that moment, and log which
callbacks and which original instructions they ran. `torn` is a history variable: a
caller is torn from the moment on at which it stands among the words that a
function's first far patch is overwriting, or runs one of them while the patch is half
written, to the end of its call.

The instructions a hook moves are here all of the kind that is copied unchanged;
the other kinds are the subject of `Relocate`.

### Relocate and MovedCode

A behaviour of `Relocate` is one call of `__fix_instructions`: the actions take
the instructions one after the other, each action being one path through one
`__fix_*` function, and `Close` writes the jump back. `dat` and `fmap` are the
two halves of `context::dat`, `code` the words written, `outp` the two output
pointers (they always move together). Where the code moves is chosen in `Init`,
and `count` with it: one instruction for a near hook, four or five for a far one,
by the alignment of the function.

An instruction is its operation, its signed offset and, where it matters, the
kind of register and the two low bits of an `adr`. Registers, conditions and
tested bits are copied by the code and left out. Offsets are kept as numbers,
and the width of a field as the number of its values (`BranchSpan` for 2^26),
so that the proofs hold for any width and TLC can use small ones. The
truncations the code makes are in the definitions: `Signed` is what a field
holds of a number, `ZeroExtended` what an `int32_t` and-ed with `~3u` becomes
when it is added to an `int64_t`, `Loaded` and the `rd` of an `adr` what happens
to the bits of the opcode or register next to the field.

`MovedCode` executes the words (`Step`, `Run`) and compares: each moved
instruction must have the `Effect` the original had at its old place, and pass
control to what `Corresponds` to the original's successor. This is the promise
of the trampoline, stated without reference to how the code keeps it. The words
under the hook count as destroyed, so a literal there must have been copied.

### Patcher

`Store` is a store through the alias: the words become `unclean` (in the data cache
only) and `stale` (a fetch may see the older value). `CleanData` and
`InvalidateInst` are the two halves of `Flush`, each over whole cache lines
(`Lines`), so a neighbour's words can be flushed along; a line that is invalidated
before it is clean stays stale. Patchers overlap, and are constructed,
flushed and destroyed as their owners like. What is written is one value,
except for the branches of `CodePatcher`, whose offset is computed by `Relative`
from the current position and kept modulo the width of its field.

### MemLayout, ProcHandle and Boot

The address space is a sequence of regions, each what `svcQueryMemory` and its
permissions make of it: `text`, `rodata`, `data` or `other`. `Query` is one round of
the loop in `FindModules`, with the three states it goes through; a region that
breaks a module's pattern is dropped. A kernel is which `svcGetInfo` values it
knows, how wide an address space a refused `svcUnmapMemory` betrays, whether it
answers the Mesosphere query and whether it delivers the message. The regions are
worked out twice, by `mem_layout.cpp` and by `virtmem.c`, and both are here.

`ProcHandle` follows `Get` of one client and the thread it starts, one kernel call at
a step: two ends of a session, a message whose third word the kernel fills in, and
a stack that belongs to the frame that waits. The result of `svcSendSyncRequest`
is ignored, as in the code.

`Boot` runs the steps of `exl_module_init`, `exl_init` and `exl_main` in their order.
Each construction of an alias asks for the handle; what it then does is `RwPages`.
Once start-up is over other clients construct aliases too (the menu does).

### Rtld

A module is its dynamic section, a table of REL or RELA entries, jump slots and its
words. `Link` is `Initialize`, `Relocate` and `ResolveSymbols` of a module's object;
`exl_dynamic`'s relocation of the program itself is a way of its own to get there.
The words the linker reads back from the table (the lazy stub, the offsets) are
words of the model's memory. Callers load a slot, go through the stub and
`__rtld_lazy_bind_symbol`, or jump; other modules `Join` the list at either end
meanwhile, since who loads them is outside of this code.

`ImagesAssumption` says what a static linker writes: a table in one form with its size and
count, whose counted entries are the relative ones and come first; each word relocated by
one entry; slots in the order of their entries behind the three words of the linkage
table's head, which no other entry touches; entry sizes, where they are given, those of
the ELF types. The code relies on all of it and checks next to nothing.

### Armv8

A behaviour is one constructor call. `todo` is the list of bit fields that the base
classes and the constructor set, in that order, and `word` is the set of bits that
are 1, so that a field that overlaps an earlier one takes its bits back, as in
`BitSet`. `Meaning` reads the finished word by the encoding tables of the
architecture, which owe nothing to the code; `Wanted` is the call, and `Exists` says
for which calls there is an instruction.

### PadInput and InputSampler

`cur` and `prev` are the two controller states, one set of buttons each;
`updatePadState` and `tryGetContState` are the actions from `Shift` to `Toggle`,
with a step for every access to a static member, since the layer hook, the frames
and the game's reads share these. `GameRead` and `DisableButtons` are the pad
hooks: the original fills the state, then `disableButtons` may clear it. Our own
read goes through the same hook (`Filter`) and is spared by `isReadInput`.
`Key` is one turn of one of the loops in `updateInput`. Keyboard and mouse (`Keys`,
`curKeys`, `prevKeys`) are sampled after the controller, in `ReadOthers`; no hook hides
them, and they have no part in the refinement.

`InputSampler` has a sample, and a read of the game's, as one step each. Which threads
the layer hook's callers, the frames and the game's reads run on is a parameter
(a cast: `callers`, `presenters`, `readers`, which may share threads). `PadInput` implements
`InputSampler` (`ActsAsSampler`): a sample takes effect when the original has filled in
the state, so the toggle that follows is already counted in `open`. While two samples
overlap `InputSampler` promises nothing (`Overlap`), since the code has two threads write
the same members without a lock; as soon as neither is under way everything is
promised again. The game's reads may overlap samples.
The history variables say which samples were overlapped (`mixed`), which changes no frame
is left to make an event of (`missed`), how often a held ZR was hidden from a sample
by the pad hooks, because the other sample had cleared `isReadInput` (`hidden`), and
count presses and toggles.

### NvnHooks

`saved` is the set of `temp*` pointers that are set. A loader thread goes through
`cmdBufInit` and `InitImGui`, which is split where another thread can see the
difference: the test of `hasInitImGui`, the context, `bd`, each thing that
`setupShaders` and `setupFont` make, any of which can fail, `isInitialized`, and
the assignment of the result. A presenting thread goes through
`presentTexture`, `newFrame` and `renderDrawData`; a vertex or index buffer is its
size, whether it is ready, and in which frame it was made and last filled.
`MemoryBuffer`'s constructor may fail at the pool, after which its size is not
initialised, or at the buffer. `submitted` holds what the GPU has not finished.
`hasInitImGui` is a plain `bool` that another thread reads. Its store is taken to arrive
after those of the backend: between them `InitImGui` makes two calls of a system
service (`initKBM`, `imgui_nvn.cpp:231`), and the kernel synchronises before it answers. (The
late stores of `DbgGui` have no such call between them.)

### DbgGui

Three threads of the game: the main thread constructs the menu component by
component (`Construct`) and publishes it (`SetInstance`), the render thread draws
frames, the game's camera code calls `disgustingCameraHook`. `late` holds the
components whose pointer another core may not see yet: a store becomes visible at
any time (`Settle`), and at the latest at the barrier of a flush, which every hook
and patcher ends with. `mComponents` has room for four; the fifth pointer falls
on the flags behind it and is whatever they have become. `CreateHeap` may fail
(`tryCreate`), which the code does not ask: the menu is constructed with whatever it
returned.

The hook and the window work on the same `sPos` and `sAt`: the hook adds wheel and keys
to the place (`Step`, `StoreStep`), derives the point looked at from it (`LookAhead`,
`StoreSight`), and copies both from or to the game's camera; the window drags either
(`DragPos`, `DragAt`). Loads and stores of these are steps of their own. One coordinate
stands for three, as the three are loaded and stored one by one, and `sUp`, which only a drag
changes, is left out. `copied`, `moved`, `fresh` and `torn` say where the free camera
has to be and whether a move was lost between another's load and store, `dragged` what
was dragged since the hook last derived the point looked at.

## 3. Runs

| Run | Question | Expected |
|---|---|---|
| `rw_one` | one thread, two objects, two code ranges, a game that maps pages between calls: aliases, leases, search | holds |
| `rw_two` | two threads, a concurrent game, move assignment: does a finished alias still show its code | holds |
| `rw_race` | can the kernel refuse a mapping when two threads construct | violated: `virtmemLock` is empty |
| `hooks` | six plans: chains of hooks on near and far functions, inline hooks, two installing threads, more hooks than the pool holds, each with a caller that calls at any moment | holds |
| `moved` | mixes of jumps, literal loads and address computations, near, far and at the end of each reach: what they do, and the space they take | holds |
| `patcher` | is every word a fetch may see in an old version going to be flushed; do branches land | holds |
| `boot` | every small address space on eight kernels: are modules and regions found, is the exchange with ourselves sound, does an ordinary process start | holds |
| `rtld` | a module in every form, linked at once or lazily while two threads call and libraries come late | holds |
| `encode` | every constructor at the limits of its fields: is the finished word the instruction asked for | holds |
| `pad` | the layer hook on a thread, frames on another or on both, whose samples overlap, and reads of the game's or a key: toggles against presses, ImGui's keys, refinement of `InputSampler` | holds |
| `graphics` | any order of initialisation while frames are presented, a set-up that fails anywhere, buffers that fail to grow | holds |
| `menu` | a menu under construction while it is drawn, late stores, a camera that hook and window drag at once, load by load | holds |

### Exceptions

Where the code falls short of a promise, the property says for what it does not
hold, by a named operator, and holds of everything else. No exception can be left
out: the run fails without it. They are:

* `Overhangs` (`ViewsAgree`): a claim whose words cross one page boundary more than
  its size makes up for is mapped one page short (`rw_pages.hpp:27`);
* `Behind` (`SlotsDistinct`): the place behind the pool is handed out, since the limit
  is compared with `>` (`hook_impl.cpp:545`);
* `torn` (`CallsRunEveryHook`, `NoWildJump`, `NothingRunsUnpublished`): a call that the first
  far patch of a function was written around. The five stores have no order that
  a caller among them could survive (`hook_impl.cpp:577-586`; `Hook` says "TODO:
  thread safety"). A second patch of a far function, and a patch of one word, are
  not excepted: `NoWildJump` says that they harm no caller;
* the window of publication (`NothingRunsUnpublished`): a callback can find `OrigRef()` unset, or
  an inline entry can be entered unwritten, between the last store of the patch and the
  assignments by the same thread (`trampoline.hpp:38`, `inline_impl.cpp:57-76`), and at no
  other time. A caller that meets it dies;
* `Skipped` (`CallsRunEveryHook`): the first word of a function with an inline hook is
  skipped (`inline_impl.cpp:69`);
* `Shadowed` and `Full` (`ModulesFound`, `OrdinaryStarts`): a module directly behind
  a beginning that leads nowhere is missed (`mem_layout.cpp:66`), and a table that
  is exactly full aborts (`mem_layout.cpp:37`);
* `Guessed` (`RegionsAgree`): on the first kernel `mem_layout` takes the end of a
  region for its size (`mem_layout.cpp:136`);
* `Counted` and `BoundTwice` (`WordsLinked`, `CallsArrive`): a module without a count
  of relative entries has none relocated, and a REL slot bound at once keeps the
  offset of its stub in the sum. A module with `DT_RELAENT` aborts
  (`ModuleObject.cpp:91`), and so nothing is said of it;
* `LosesSign` of `Armv8` (`WordsSayWhatWasAsked`): an ADRP to a lower page;
* Graphics (`FramesFindMenu`): its pointer is stored after the last barrier of the
  constructor, so a frame can find it missing;
* `hidden` and `mixed` (`FlipsArePresses`, `ActsAsSampler`): samples that overlap may flip the menu
  without a press of their own, or not at all (`InputHelper.cpp:66`), and a ZR that
  one of them lost although it was held counts as pressed again for a later sample;
* `missed` (`KeysFollow`): a change of a button or key never reaches ImGui if the layer hook
  sampled it between two frames, if another thread's sample shifted it away before the
  frame made its event, if `disableButtons` hid it from an overlapping sample, or if it was
  in the sample of a frame that found the menu closed (`InputHelper.cpp:66`,
  `imgui_impl_nvn.cpp:463`);
* `torn` of `DbgGui` (`CameraTakesOver`): a move of the camera is lost when hook or window stores
  the place between the other's load and store (`Camera.cpp:79-127`, `:173`);
* `dragged` (`CameraLooksAhead`): a drag between the hook's `sAt = sPos + sDirection` and its last
  read of the two shows in that one frame (`Camera.cpp:130`).

Two more operators say of which processes and functions a statement is made. They speak
of the constants only, the theorems have them as hypotheses, and `MCHookInstall` and
`MCMovedCode` assert them, so that every run is of such a process:

* `Orderly` (`HookInstall`): each hook has a callback of its own, which a hook is in this
  code (a type with a static `OrigRef`); two threads do not hook the same function, nor
  both take inline entries ("TODO: thread safety"); and an inline hook is its function's
  first. When functions are called is not restricted;
* `Ordinary` (`MovedCode`): what is moved can be encoded (a distance fits its field), the
  words a load is given are not in the trampoline it moves to, and the fields reach over
  the fifty words of a trampoline (`FieldsReach`; a branch reaches 2^25 words, `tbz`, the
  shortest, 2^13).

What a moved instruction may lose is spelled out in `MovedCode`, one operator per
cause (`Excepted`), for `JumpsKept` and `OperandsKept`:

* `LosesSign`: an offset below zero of a conditional branch, literal load, `adr`
  or `adrp` (lines 240, 328, 391, 428);
* `LosesSize`: a literal that ends up behind its load, except of LDR Xt and LDRSW
  (line 357: the sign bits fall on the size);
* `LosesRegister`: an unaligned `adr` that is kept (line 418);
* `LosesPage`: an `adrp` whose page begins among the moved words (line 439);
* `LosesAlias`: a branch to a moved `adrp` (line 424: its address is noted in the
  writable mapping).

The comment above the code names `ADDR_PCREL19` and `ADDR_PCREL14` as what it
fixes, so the first is listed as a finding.

Three more defects are outside of what the runs let happen. The first two contradict no
statement of the source; the third stands in two lines and takes no interleaving to see:

* `operator=(RwPages&&)` takes the other's claim and forgets its own, so that the
  alias it had stays mapped and reserved for good. `rw_two` includes it
  (`MoveAssigned`), and its properties hold nevertheless; `AliasesStayReserved`
  of `rw_one` does not with it. No code of this program assigns an alias.
* Two threads that initialise command buffers can both find `hasInitImGui` false;
  the second fails the assertion of `InitBackend`: `NeverAborts` fails with a
  second loader.
* `Graphics::draw` writes a NOP over the game's call for Ultrahand voxels in every frame that
  draws the window without a click on its box, and the call itself in the frame of a
  click, whichever way the box goes (`Graphics.cpp:78-82`). Once the window has been
  open the voxels are off, checked or not; the three boxes beside it decide by their flags.

Bounds. `rw_one`: five pages, one of them forbidden, so a two-page claim has
exactly the slices 0 and 3, and slices can be free, taken by the game, or
reserved; two objects, so that one alias can stand while the other is searched
for, moved to and from; two attempts, so that a search can fail once and succeed
and can give up. A claim lies inside one page or spans two memory ranges, so
mapping and unmapping take one and two calls. `rw_two` has a second thread and
lets the game act at every point. The hook runs have three functions, one
for each form a hook can take (one word, four words, five with the alignment
NOP), plans of up to six hooks, so that functions are hooked two and three times
and a replacement comes between, and a pool of four slots, which is
what most plans need; the plan `Full` asks for one more than the pool and the place
behind it have. One caller is enough: a caller writes nothing that anyone else reads, so
that two would only be looked at together. It may call any function as often as it
likes; a call that dies ends the process, as in the code.

In the `moved` runs a branch reaches 127 words, a conditional branch or literal
load 63, a `tbz` 31 and an `adr` 255 bytes, a page has 16 words, and 32-bit
offsets wrap at 65536 words; every mix of one, four or five instructions of the
listed sets is checked. The distances between function and trampoline are chosen
so that targets lie inside and outside of every reach, and, for the jumps, at
each distance around the last one that is inside. No target lies in the
trampoline itself. The largest mix that is met takes 44 of the 50 words; the
theorem covers the rest.

`patcher` has two patchers, one of each kind, whose ranges overlap on a module of
four words, with data lines of two and instruction lines of three, so that a word
can be flushed as another's neighbour in one cache and not in the other; stores are
not limited. The branch goes to a function within reach of some words only.
`pad` has two threads whose samples overlap, in three casts: the layer hook and the game's
reads on one and frames on the other, with two presses of ZR, one to open the menu and one to
close it; the same with a key in place of the reads; and frames on both, so that frames
take changes from each other. Once an overlapping sample has lost a held ZR samples do not
overlap any more: that bound has to stop what could otherwise flip the menu for ever. `graphics` has one loader, since
two can meet in `InitImGui` (above), data of one or two units, so that buffers
are too small or large enough, and three frames, so that a buffer can be made,
kept and replaced while two submissions are pending.

`boot` puts address spaces together of up to four pieces, each a module or one of five
fragments, with a table of three modules, so that the table can be exactly full
and overflow, a fragment can stand before, between and behind modules, and the
main module can be any of them. The eight kernels are today's with and without
Mesosphere, one that does not deliver the message, the first one with either width
and with none, and two that know one of the newer regions only. A second client
is enough for two to ask at once. Addresses of regions are in units of 2 MiB.
A loader links a module once and before any of its code runs, which is not in this
repository: nothing under `src` calls `ModuleObject::ResolveSymbols`. A second pass would
add the base again and end at the assertion of the first lazy slot
(`ModuleObject.cpp:289`), so that `ResolveSymbols` is taken
once, before the first call.
`rtld` has one relative word, two symbolic words and two slots, every kind of symbol
(strong, weak, hidden, defined locally, elsewhere, nowhere, by the manual lookup), in
the four combinations of REL and RELA, with and without a count; two libraries, one of
which may come late or in front. `encode` takes, for every constructor, operands one
below, at and above each limit, and the first, the last, SP and the zero register.
`menu` has three places and two moves, so that one can be lost on the other, and lets
the user switch twice, window and camera together, since the second switch
is the first that can meet leftovers of the one before.

A search whose slices all touch the alias or heap region is not among the runs:
`_memregionFindRandom` then never leaves its inner loop. `rw_one` leaves slices
outside of them.

Fairness. `rw_one` assumes weak fairness of a thread that is in
a constructor or destructor: nothing in these calls waits, so a scheduled thread
makes progress. Nothing is assumed of the random source, of the game, or of
threads that are idle. `boot` assumes weak fairness of the loader, of what it does
in `Get`, and of the thread it starts there: the kernel schedules both. Waiting for
the other one is a guard, so that `StartUpEnds` says that neither waits for ever.

Deadlock is not checked where an abort or the end of the work stops the model.

## 4. Proofs

The theorems hold for every value of the constants that the module's assumption admits.
Each rests on an inductive invariant that says at each label what the next steps need.

### RwPages_proofs

* `TypeCorrect`: `Spec => []TypeOK`. `TypeOK` is not inductive: that a picked
  slice lies in the region needs the size of the claim the thread works on, and
  so that the thread's object exists, still has the arguments of a request, and
  is no other thread's. `Typing` adds this: `Located` says what holds at each
  label, `Owned` that threads work on different objects. There is one lemma per
  action; `LocatedFrame` carries the threads a step leaves alone.
* `DisjointAlone`: with one thread, no two reservations share a page. The
  invariant `Alone` adds `SliceFree`: at `Reserve`, the slice the search chose is
  free of reservations. It holds because nothing of another thread comes in
  between, which is what the comment on `virtmemFindAslr` asks a mutex for.
* `LeasesAlone`: with one thread, `Spec => Exclusive`, from the same invariant:
  `Reserve` is an `Acquire`, `Release` a `Return`, all else a stutter.
* `ShowsItsCode` and `ComparisonHolds`: `AliasShowsItsCode` and `ViewsAgree`, without any
  assumption: any number of threads, a game that maps and unmaps at any point, and move
  assignment. Two threads can then reserve the same slice (`rw_race`), so the argument does
  not go through the reservations: `Shows(o, x, p)` says that object `o` has mapped code
  page `p` at page `x` and not unmapped it, where the object is under work up to, or
  from, its `cursor`. The invariant `Shown` says that the page table agrees (`Mapped`) and
  that no two objects show the same page (`Apart`). A page is mapped only where nothing is,
  so a second thread that was handed the same slice is refused; and a destructor unmaps what its own object shows.
* `StayReserved` and `UnmapNeverRefused`: any number of threads and the game at any point,
  without move assignment: `AliasesStayReserved`, and svcUnmapProcessMemory always
  succeeds. The invariant `Kept` adds the reservation list: each node is in the claim of
  one object (`Ledger`), each owner has one except while it searches (`Staged`), what an
  object shows lies in its reservation (`Within`), and every page of code is shown by an
  object (`Covered`). Without `Covered` a page could outlive its owner.
* `NeverRefusedAlone`: `KernelNeverRefuses` assumes `Soloist`: one thread, a game that maps
  nothing while a constructor or destructor runs, and no move assignment. That is the
  situation of the code when it starts; afterwards the game's threads run, and `rw_race`
  shows that the statement is then lost. `Free` adds to `Kept` that the pages of the slice
  found free are so until they are mapped, one range after the other.

### HookInstall_proofs

* `TrampolinesDistinct`: any number of threads, any programs of hook calls, any size of
  the pool. A trampoline is given out by one atomic addition, so every slot in a
  thread's hands or in an `OrigRef` is at most `index` (`GivenOut`), and a new one is
  above. `Apart` adds that what a thread holds is not yet any callback's, which the
  assignment of `OrigRef` needs.
* `TypesHold`, `PatchesRunWhole`, `HooksPublished` and `EveryHookRuns`: `TypeOK`, `NoWildJump`,
  `NothingRunsUnpublished` and `CallsRunEveryHook`, for an `Orderly` process with any
  functions, plans, threads and callers, and calls at any moment. A call that returns has
  run the callbacks of all hooks that stood at one moment of the call, newest first, and
  then the function's own words; a caller in or before the words of a patch comes to no
  harm, but for a function's first far patch (`torn`); it meets an unset `OrigRef` or an unwritten
  entry only while the thread that patched the function is about to publish it. The invariant
  `IInv` is that of a chain. The words of a function are its own or jump to its newest
  hook (`Calls`), but while they are first overwritten by a far patch, when `Half` says that
  whoever is among them is torn; the trampoline of hook m holds the moved words of what was
  there before and goes on with hook m - 1 (`Continues`) from the moment on at which it is
  copied; a hook in a log is published, or its installer is between patch and publication
  (`Published`, `Late`).
  `Working` says for each label of an installer which part of its
  link is built, `Calling` where in the chain a caller is and that it has run what is
  above, and which literal it may hold in X17 (`Arriving`). That the steps of installers do
  not disturb callers is one lemma, since a chain only grows (`Grows`). `Chained` holds as
  long as nothing has crashed: a crash ends the process between two steps of a link.

### Relocate_proofs

* `TrampolineSuffices`: `Spec => []FitsTrampoline`, for every set of instructions, every
  place and every field width. The code checks
  `TrampolineSize < count * 10`, but nothing ensures that an instruction takes no
  more than ten words. The invariant `Space` shows that it takes no more than
  nine: a copied 128-bit literal, with up to three NOPs. With the jump back that
  is 50 words at most, exactly what there is.
* `FixMapsAreLargeEnough`: `Spec => []FixMapsSuffice`, which no run needs to check beside it: a
  dropped note would break `JumpsKept`. `insert_fix_map` drops a
  note without an error when the map is full. The invariant `Waiting` says that
  only instructions still to come have notes, and no more than `i` each: every
  instruction leaves one at most.

* `LiteralsStayAligned`: `Spec => []LiteralsAligned`. The invariant `Placed` says that the
  words are a sequence as long as `outp`, in which each literal is where its size asks for
  and no data comes before its load and the branch over it. `Fitting` states this for any
  sequence at any place; one lemma for each sequence the code writes shows that the NOPs
  put it there, and `FittingConcat` and `FixedFit` that appending a sequence and completing
  a branch keep it.

* `JumpsAreKept`, `OperandsAreKept` and `FlowIsKept`: `JumpsKept`, `OperandsKept` and `FlowKept`,
  for `Ordinary` functions anywhere. The proof has two halves.
  `CopyInv` is kept by every step: each instruction already moved has a sequence of words of
  one of the forms the code writes (`Near`, the word itself with a new offset, or `Fixed`,
  the far forms, copied literals and plain words, with their NOPs), its address in
  `dat` is that of the sequence or of its NOPs (`Noted`), and a word whose target is
  still to be moved is in the fix map of that target and nowhere else (`Entries`,
  `Owes`), so that `process_fix_map` completes exactly the words that wait, once, with the
  distance to the right copy (`Completed`), which fits the field since a sequence is
  at most nine words. `Closed` is the same for the jump back. Then nothing moves any more,
  and the second half executes the words: `NopsEnd` runs through alignment, one lemma
  for each form through the rest (`Ends`), and `LandsBehind` and `ArrivesAtNote` say
  that an address in `dat` is where control for that instruction goes on.
  `Run` takes five steps, no sequence has more, and the theorem shows
  that five are enough, or control would not be where `Corresponds` wants it.

All need `Bounds`, the conjunction with the ranges of `i` and `count`, and one lemma
per source function; `EmitKeepsBounds` and `EmitPlaces` are the common part.

### Patcher_proofs

For any number of patchers with any ranges, any number of words to a cache line and any
number of stores.

* `StoresAreFlushed`: `Spec => []StaleIsPending`. A word that fetches may still
  see in an older version lies in the range that a patcher will flush. The
  invariant `Flushable` adds `UncleanIsPending`: a word whose last version is not
  clean is waited for by a patcher that has not yet cleaned it, without which
  the instruction cache could be invalidated first and then fetch old words.
* `PatchersStayTyped`: `Spec => []TypeOK`, which includes that the two bounds of a
  random access patcher are unset together.
* `PatchedBranchesLand`: `Spec => []BranchesLand`, for every target. The offset is
  computed where the patcher stands and kept modulo the field. `Landing` says that each such
  word is the difference of target and place in its field; `FieldSays` that a field
  decodes to the difference where the target is in reach.

### Boot_proofs

* `GetReturnsOurs`, `OneExchange`, `BorrowedStackLives`: for any number of clients and
  whatever a kernel leaves in a result register. `Phase` lists where client, server and
  message of an exchange can be together; `Exchange` adds that the loader alone is ever
  in one, since it has the handle before another client asks. This is where the three
  statements meet: a second exchange would need a client that finds no handle after
  start-up. Assumed is that the process's handle is not the invalid one.
* `ModulesAreFound`: for every address space and size of the table. `Fragment` says what
  the state of the scan knows of the last two regions, `Tabled` that the table is in
  order and ends before what is being followed, `Covered` that a module that has begun is
  either being followed or `Shadowed`. That the loop looks at address 0 once more when it
  wraps is harmless because that region is of no module, which is assumed of the spaces.
* `RegionsMatch`: what either code finds depends on the kernel alone; the two are compared
  kernel by kernel.

* `OrdinaryProcessesStart`: `Spec => []OrdinaryStarts`. Where modules and regions can be found
  and the kernel can hand over the handle (`Ordinary` of `Boot`), start-up meets no fault but
  a thread that cannot be made; when it is over the patcher's alias is of the main module's
  text and rodata and the menu is drawn. From the invariants above, `OrderInv` (the table is
  sorted and has our own module in it) and `StartInv` (at each step of start-up, what the
  earlier ones have left).

### TableWalk and Rtld_proofs

For any modules, tables of any length in either form, any number of threads, and modules
that join while threads call; assumed are the images of `ImagesAssumption`, and that bases
are above zero and a module's symbols are named once.

* The lemma everything here cites, `FoldLeftWalks` of `TableWalk`: the loops of the linker are folds, which the community modules define by a
  recursive function over sets of indices. For whatever operator, the fold ends where the
  walk through the entries, one after the other, ends. Induction is over numbers:
  `LeastNatural` and `Counting` say of sets what the library's induction rules say of
  predicates, and the set is that of the `n` for which the statement holds. `TableWalk` is
  instantiated once for each loop.
* What the loops compute. `InitializeReads`: the object has the last value of each tag.
  `Written`: a loop over entries that each have a word of their own leaves in it what the
  entry makes of the word in the file, because no earlier turn touched it. From this
  `Relocates` (after `Relocate` or `exl_dynamic`), `TableDone` (after the symbolic entries)
  and `SlotsDone` (after the slots, whose stubs agree), put together in `ResolveSymbolsLinks`.
* What a lookup finds. `ResolvesToDefinition`: `TryResolveSymbol` is the definition in the
  first module that exports the symbol, or fails if no module does. `KnownNow` and
  `StillDefined`: a module that joins, in front or behind, takes no definition away, so that
  a lookup that fails later would have failed when the module was linked.
* `SpecWordsLinked`: `Spec => []WordsLinked`; relative words from relocation on, symbolic
  words from linking on, whatever is called and loaded afterwards, because no slot is a
  word of the table.
* `SpecCallsArrive`: `Spec => []CallsArrive`. The invariant (`IInv`) has each slot at its stub
  or at a word at which a call arrives (`SlotLinked`), and each thread at a slot of the
  table with something that reaches its symbol (`Calling`); the index the trampoline
  computes is that of the slot's entry (`LazyBindFinds`). Two threads that bind one slot may
  store different definitions, each of which was one at some time. What is bound twice over
  in the REL form (`BoundTwice`) is the hard part: a thread has landed at such a word and the
  slot must still have it. It does, because a thread on its way from the stub has read
  the stub in the slot, and while one is, nobody has landed at such a word (`Twice`).

### Menu_proofs

The module extends `PadInput`, `NvnHooks` and `DbgGui`, which share no name (`HooksSpec`,
`MenuSpec`); its theorems are about one of them each.

NvnHooks:

* `OneLoaderNeverAborts`, `OneLoaderDrawsInitialized`: with one thread that initialises
  command buffers (`OneLoader`), any order of initialisation and any number of frames. That
  `hasInitImGui` stands for a context and a finished backend is only inductive with the
  place of the loader (`LoaderAt`); a second loader breaks it between test and assignment.
* `SubmittedFramesComplete`: any number of loaders, all data sizes and all failures to grow
  a buffer. `Frames` carries room and contents from the resize to the submission.

PadInput, for any set of buttons and keys, and any threads that sample, present and read, the
same or different ones:

* `FlipsTakePresses`: `FlipsArePresses`. `Counted` counts a press of ZR as a flip from the moment
  it is made: it is yet to be sampled (`Unseen`), its toggle is to come (`Coming`), or it is
  in `flips`. What an overlapping sample hides is paid from `hidden`.
* `SamplerIsImplemented`: `ActsAsSampler`, the refinement of `InputSampler`. A
  sample takes effect before the code assigns the toggle, so `open` is mapped to
  `toggleInput # Opening`. It rests on what a sample finds that no other overlaps
  (`Apart`): up to its read the previous state is the current one, and up to its filter
  `isReadInput` is set.
* `EventsReachImGui`: `KeysFollow`. It follows each change from the sample that finds it to the
  event, or to the step that takes it away (`Following`): a button or key that ImGui has
  wrong is new, and a frame is still to make its event (`Due`).

DbgGui:

* `MenuIsFound`: a frame finds no component missing but Graphics, for any interleaving and
  any arrival of the stores: what is stored before the barrier of Graphics' patches is
  visible before the menu is (`Published`).
* `CameraGoesOn`: `CameraTakesOver`, for any number of places and moves: the place is that
  copied last plus the moves since as long as none was lost, and whoever holds a copy that is
  still right (`fresh`) holds exactly that.
* `CameraKeepsItsSight`: `CameraLooksAhead`: between the hook's own sum and its last read
  the point is the place plus the direction, except for what is in `dragged`.

### What is only model-checked

* Liveness under fairness: `SearchEnds`, `StartUpEnds`. It is beyond the prover.
* The bit fields of `Armv8` (`WordsSayWhatWasAsked`), a finite question per constructor that
  the run answers at each limit.

## 5. Plan

What is left:

* The storage behind `MemoryBuffer`, with `Finalize` and what the GPU still reads.

## 6. Not modelled

* Third-party declarations: about 15000 of the 26800 lines under `src/src` are the headers
  of nvn, the Nintendo SDK, sead, ImGui's configuration and the generated declarations of
  system calls. They have no behaviour of this program in them; where the program calls
  them, the effect is in the model of the caller and marked external. The map covers
  about 3700 lines, which is more than a third of the program's own 10100.
* `fsHelper` and the shader compiler: only the shader compiler calls the helper, and
  it is reached only with `isUseTestShader`, whose allocator is commented out. The hazards are listed nevertheless.
* `OrrImmediate` (`lib/armv8`): its header is commented out of
  `logical_immediate/base.hpp:27`.
* The class and deprecated macro forms of hooks: they expand to the calls that are modelled.
* Layout and styling of the menu, camera arithmetic, the words and flags of the Graphics
  window, the list of draw functions beyond its
  first entry. The sticks, the mouse's place and its wheel: of the wheel, `updateInput`
  passes on a turn up or to the right only (`imgui_impl_nvn.cpp:482`).
* Diagnostics: the abort paths end in a reboot to a payload; an abort is an end here, and
  the register contents it reports are left out, as is logging.
* System call stubs, cache instructions, the entry stub and the module header: assembly
  with one effect each, which is in the model of the caller.
* A lost node of the reservation list: two unsynchronised insertions can drop one. `Reserve`
  is one step, so `rw_two` and `rw_race` do not contain this; the race on the page table
  that they do contain needs no lost node.
