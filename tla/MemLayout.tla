------------------------------ MODULE MemLayout ------------------------------
(***************************************************************************)
(* What start-up learns about the process it is in: where the modules are  *)
(* (FindModules) and where the kernel's regions are, once for              *)
(* lib/util/sys/mem_layout.cpp and once for lib/nx/kernel/virtmem.c.       *)
(*                                                                         *)
(* An address space is the sequence of regions svcQueryMemory reports, in  *)
(* address order; a region is of a kind: "text" (CodeStatic, Rx), "rodata" *)
(* (CodeStatic, R), "data" (CodeMutable, Rw) or "other", as is the one at  *)
(* address 0.  A module is one of each of the first three, one behind the  *)
(* other.                                                                  *)
(***************************************************************************)
EXTENDS Integers, Sequences, FiniteSets

CONSTANTS
  Spaces,      \* address spaces the process may have
  MaxModules,  \* s_MaxModules
  Kernels      \* kernels: [infos, bits, mesosphere, delivers]

RegionKinds == {"text", "rodata", "data", "other"}
Regions == {"alias", "heap", "aslr", "stack"}

ASSUME MemLayoutAssumption ==
  /\ MaxModules \in Nat \ {0}
  /\ \A s \in Spaces : s \in Seq(RegionKinds) /\ Len(s) > 1 /\ s[1] = "other"
  /\ \A k \in Kernels : k.infos \subseteq Regions /\ k.bits \in {0, 32, 36}

VARIABLES
  space,     \* the address space
  self,      \* the region __module_start lies in
  kernel,    \* the kernel
  scanning,  \* FindModules is in its loop
  offset,    \* region asked about last, 0 before the first
  state,     \* what FindModules looks for: kind of the next region
  cur,       \* curModInfo: the text and rodata found so far
  modules,   \* s_ModuleInfos[0] .. s_ModuleInfos[s_ModuleCount - 1]
  selfIdx,   \* s_SelfModuleIdx
  layout,    \* s_Alias, s_Heap, s_Aslr, s_Stack
  virtmem    \* g_AliasRegion, g_HeapRegion, g_AslrRegion, g_StackRegion

scanVars == <<scanning, offset, state, cur, modules, selfIdx>>
layoutVars == <<space, self, kernel, scanVars, layout, virtmem>>

NoModule == [text |-> 0, rodata |-> 0]
NoRange == [start |-> 0, end |-> 0]

LayoutInit ==
  /\ space \in Spaces
  /\ self \in {i \in DOMAIN space : space[i] = "text"}
  /\ kernel \in Kernels
  /\ scanning = TRUE
  /\ offset = 0
  /\ state = "text"
  /\ cur = NoModule
  /\ modules = <<>>
  /\ selfIdx = -1
  /\ layout = [r \in Regions |-> NoRange]
  /\ virtmem = [r \in Regions |-> NoRange]

-----------------------------------------------------------------------------
\* FindModules: one round of its loop.

\* meminfo.addr + meminfo.size; behind the last region this is address 0.
Following == IF offset = Len(space) THEN 1 ELSE offset + 1

Full == Len(modules) >= MaxModules          \* TooManyStaticModules

FindText ==
  /\ state = "text"
  /\ IF space[Following] = "text"
       THEN state' = "rodata" /\ cur' = [NoModule EXCEPT !.text = Following]
       ELSE UNCHANGED <<state, cur>>
  /\ UNCHANGED <<modules, selfIdx>>

Reset == state' = "text" /\ cur' = NoModule

FindRodata ==
  /\ state = "rodata"
  /\ IF space[Following] = "rodata"
       THEN state' = "data" /\ cur' = [cur EXCEPT !.rodata = Following]
       ELSE Reset
  /\ UNCHANGED <<modules, selfIdx>>

\* Mutant: the rodata and data of one module may lie apart.
FindDataPatient ==
  /\ state = "data"
  /\ IF space[Following] = "data"
       THEN /\ Reset
            /\ modules' = Append(modules,
                 [text |-> cur.text, rodata |-> cur.rodata, data |-> Following])
            /\ selfIdx' = IF cur.text = self THEN Len(modules) ELSE selfIdx
       ELSE UNCHANGED <<state, cur, modules, selfIdx>>

FindData ==
  /\ state = "data"
  /\ Reset
  /\ IF space[Following] = "data"
       THEN /\ modules' = Append(modules,
                 [text |-> cur.text, rodata |-> cur.rodata, data |-> Following])
            /\ selfIdx' = IF cur.text = self THEN Len(modules) ELSE selfIdx
       ELSE UNCHANGED <<modules, selfIdx>>

\* The loop ends when the address space has wrapped, after the region there
\* has been looked at.
Query ==
  /\ scanning /\ ~Full
  /\ offset' = Following
  /\ scanning' = (Following > offset)
  /\ FindText \/ FindRodata \/ FindData
  /\ UNCHANGED <<space, self, kernel, layout, virtmem>>

\* The assertions behind the loop; they allow MaxModules modules.
ScanSound == selfIdx # -1 /\ selfIdx < MaxModules /\ Len(modules) <= MaxModules

\* GetModuleInfo(index): the caller asserts HasModule.
HasModule(index) == index < Len(modules)
GetModuleInfo(index) == modules[index + 1]
FirstModuleIdx == 0                         \* mutant: the rtld
MainModuleIdx == 1

-----------------------------------------------------------------------------
\* The regions.  Addresses are in units of 2 MiB.

\* svcGetInfo's address and size of a region.
Info(r) == CASE r = "alias" -> <<65536, 4096>> [] r = "heap" -> <<81920, 4096>>
             [] r = "aslr"  -> <<64, 131072>>  [] r = "stack" -> <<98304, 1024>>
Answered(r) == [start |-> Info(r)[1], end |-> Info(r)[1] + Info(r)[2]]

\* What a refused svcUnmapMemory tells on a kernel without aslr and stack
\* infos: the two numbers of each region in the source.
Guess(r) == IF kernel.bits = 32
              THEN IF r = "aslr" THEN <<1, 2048>> ELSE <<1, 512>>
              ELSE IF r = "aslr" THEN <<64, 32768>> ELSE <<64, 1024>>

\* Mutant: a 32-bit process is taken for a 36-bit one.
InferredWide(r) == IF r = "aslr" THEN [start |-> 64, end |-> 32832]
                                 ELSE [start |-> 64, end |-> 1088]

\* InferAslrAndStack: Range(start, size), with an end for its size.
Inferred(r) == [start |-> Guess(r)[1], end |-> Guess(r)[1] + Guess(r)[2]]
\* _memregionInitHardcoded(start, end).
Hardcoded(r) == [start |-> Guess(r)[1], end |-> Guess(r)[2]]

CanFindRegions ==
  /\ {"alias", "heap"} \subseteq kernel.infos
  /\ {"aslr", "stack"} \subseteq kernel.infos \/ kernel.bits # 0

\* If one of aslr and stack is refused, both are inferred.
FindRegions ==
  /\ layout' = [r \in Regions |->
                  IF r \in {"alias", "heap"} \/ {"aslr", "stack"} \subseteq kernel.infos
                    THEN Answered(r) ELSE Inferred(r)]
  /\ UNCHANGED <<space, self, kernel, scanVars, virtmem>>

\* virtmemSetup: a kernel that has aslr must have stack.
CanSetupVirtmem ==
  /\ {"alias", "heap"} \subseteq kernel.infos
  /\ IF "aslr" \in kernel.infos THEN "stack" \in kernel.infos ELSE kernel.bits # 0

VirtmemSetup ==
  /\ virtmem' = [r \in Regions |->
                   IF r \in {"alias", "heap"} \/ "aslr" \in kernel.infos
                     THEN Answered(r) ELSE Hardcoded(r)]
  /\ UNCHANGED <<space, self, kernel, scanVars, layout>>

-----------------------------------------------------------------------------
\* What is true of an address space, whatever FindModules makes of it.

IsModule(i) == /\ i + 2 \in DOMAIN space
               /\ space[i] = "text" /\ space[i + 1] = "rodata" /\ space[i + 2] = "data"

ModuleStarts == {i \in DOMAIN space : IsModule(i)}

\* A module directly behind a text, or a text and a rodata, that lead nowhere.
Shadowed(i) == \/ i > 1 /\ space[i - 1] = "text"
               \/ i > 2 /\ space[i - 2] = "text" /\ space[i - 1] = "rodata"

(* Until the loop is over, and however it is left: the table holds modules  *)
(* of the process, in order, and none that the loop has passed is missing   *)
(* but those behind a fragment; FindModules drops the region that breaks a  *)
(* pattern instead of looking at it again.                                  *)
ModulesFound ==
  /\ \A n \in DOMAIN modules :
       /\ IsModule(modules[n].text)
       /\ modules[n].rodata = modules[n].text + 1
       /\ modules[n].data = modules[n].text + 2
       /\ n > 1 => modules[n - 1].data < modules[n].text
  /\ \A i \in DOMAIN space :
       IsModule(i) /\ (i + 2 <= offset \/ ~scanning) /\ ~Full
         => Shadowed(i) \/ \E n \in DOMAIN modules : modules[n].text = i
  /\ selfIdx # -1 => modules[selfIdx + 1].text = self

(* The two sets of regions, found by different code from the same kernel,   *)
(* agree, except that on a kernel that has to be guessed mem_layout takes   *)
(* the end of aslr and stack for a size, and ends them too late.            *)
Guessed(r) == r \in {"aslr", "stack"} /\ ~ {"aslr", "stack"} \subseteq kernel.infos
RegionsAgree ==
  virtmem["heap"] # NoRange =>
    \A r \in Regions :
      /\ virtmem[r].start = layout[r].start
      /\ layout[r].end = virtmem[r].end + IF Guessed(r) THEN layout[r].start ELSE 0
=============================================================================
