--------------------------------- MODULE Boot ---------------------------------
(***************************************************************************)
(* Start-up (lib/init/init.cpp and exl_main in program/main.cpp): the      *)
(* game's loader calls exl_module_init, which finds the modules and the    *)
(* regions, sets up the address-space manager and the patcher, runs the    *)
(* static initialisers and installs the hooks.  Only then other threads    *)
(* exist; they construct writable aliases as well, and for each alias a    *)
(* thread asks for the process handle.                                     *)
(***************************************************************************)
EXTENDS MemLayout, ProcHandle

CONSTANTS Loader    \* the thread that starts the process up

ASSUME BootAssumption == Loader \in Clients

VARIABLES
  step,     \* what start-up does now
  aliases,  \* what has a writable alias: step |-> [from, to] in regions
  drawQueue \* functions procDraw calls

vars == <<layoutVars, handleVars, fault, step, aliases, drawQueue>>
bootVars == <<step, aliases, drawQueue>>

\* exl_init up to the patcher, __init_array, and exl_main from hookjit.
Steps ==
  <<"modules", "regions", "virtmem", "patcher", "arrays", "hookjit", "inlinejit",
    "mainhook", "branch", "gfxhooks", "drawfunc", "running">>

\* Steps that construct an alias: of the main module, of a pool, or, for the
\* time of one Hook(), of the hooked function.
AliasSteps == {"patcher", "hookjit", "inlinejit", "mainhook", "gfxhooks"}
Temporary == {"mainhook", "gfxhooks"}

Done(s) == LET n == CHOOSE i \in DOMAIN Steps : Steps[i] = s IN step' = Steps[n + 1]
Doing(s) == fault = "no" /\ step = s
Fail(why) == fault' = why /\ UNCHANGED step

Init ==
  /\ LayoutInit /\ HandleInit
  /\ fault = "no"
  /\ step = Steps[1]
  /\ aliases = <<>>
  /\ drawQueue = <<>>

-----------------------------------------------------------------------------
\* exl_init.

FindModules ==
  /\ Doing("modules")
  /\ \/ Query /\ UNCHANGED <<fault, step>>
     \/ /\ scanning /\ Full
        /\ Fail("TooManyStaticModules")
        /\ UNCHANGED layoutVars
     \/ /\ ~scanning
        /\ IF ScanSound THEN Done("modules") /\ UNCHANGED fault ELSE Fail("NoSelf")
        /\ UNCHANGED layoutVars
  /\ UNCHANGED <<handleVars, aliases, drawQueue>>

InitRegions ==
  /\ Doing("regions")
  /\ IF CanFindRegions THEN FindRegions /\ Done("regions") /\ UNCHANGED fault
     ELSE Fail("WeirdKernel") /\ UNCHANGED layoutVars
  /\ UNCHANGED <<handleVars, aliases, drawQueue>>

InitVirtmem ==
  /\ Doing("virtmem")
  /\ IF CanSetupVirtmem THEN VirtmemSetup /\ Done("virtmem") /\ UNCHANGED fault
     ELSE Fail("WeirdKernel") /\ UNCHANGED layoutVars
  /\ UNCHANGED <<handleVars, aliases, drawQueue>>

-----------------------------------------------------------------------------
\* RwPages::RwPages: room in the aslr region, the process handle, the
\* mapping.  RwPages has the rest.

\* InitPatcherImpl: from the start of the main module to the end of its
\* rodata.
PatcherClaim == [from |-> GetModuleInfo(MainModuleIdx).text,
                 to |-> GetModuleInfo(MainModuleIdx).rodata]
Claim(s) == IF s = "patcher" THEN PatcherClaim ELSE [from |-> self, to |-> self]

Constructing(t) == IF t = Loader THEN step \in AliasSteps ELSE step = "running"

FindSpace(t) ==
  /\ In(t, "out") /\ Constructing(t)
  /\ IF step = "patcher" /\ ~HasModule(MainModuleIdx)
       THEN fault' = "NoMain" /\ UNCHANGED client
     ELSE IF virtmem["aslr"] = NoRange THEN fault' = "NoSpace" /\ UNCHANGED client
     ELSE Enter(t, "get") /\ UNCHANGED fault
  /\ UNCHANGED <<layoutVars, handle, server, request, word3, got, exchanges, bootVars>>

Map(t) ==
  /\ In(t, "returned")
  /\ IF got[t] # Ours THEN Fail("MapRefused") /\ UNCHANGED <<client, aliases>>
     ELSE /\ Enter(t, "out")
          /\ UNCHANGED fault
          /\ IF t = Loader
               THEN /\ Done(step)
                    /\ aliases' = IF step \in Temporary THEN aliases
                                  ELSE Append(aliases, Claim(step))
               ELSE UNCHANGED <<step, aliases>>
  /\ UNCHANGED <<layoutVars, handle, server, request, word3, got, exchanges, drawQueue>>

-----------------------------------------------------------------------------
\* __init_array constructs drawQueue; exl_main writes a branch through the
\* patcher's alias and adds the draw function.

InitArray ==
  /\ Doing("arrays")
  /\ drawQueue' = <<>>
  /\ Done("arrays")
  /\ UNCHANGED <<layoutVars, handleVars, fault, aliases>>

BranchInst ==
  /\ Doing("branch")
  /\ IF aliases = <<>> THEN Fail("NoAlias") ELSE Done("branch") /\ UNCHANGED fault
  /\ UNCHANGED <<layoutVars, handleVars, aliases, drawQueue>>

AddDrawFunc ==
  /\ Doing("drawfunc")
  /\ drawQueue' = Append(drawQueue, "drawDbgGui")
  /\ Done("drawfunc")
  /\ UNCHANGED <<layoutVars, handleVars, fault, aliases>>

-----------------------------------------------------------------------------
GetHandle(t) == /\ \/ ClientStep(t, kernel.mesosphere, kernel.delivers)
                   \/ ServerStep(t)
                /\ UNCHANGED <<layoutVars, bootVars>>

StartUp == \/ FindModules \/ InitRegions \/ InitVirtmem \/ FindSpace(Loader) \/ Map(Loader)
           \/ InitArray \/ BranchInst \/ AddDrawFunc
Hooked(t) == t # Loader /\ (FindSpace(t) \/ Map(t))

Next == \/ StartUp
        \/ \E t \in Clients : Hooked(t) \/ GetHandle(t)

Spec == Init /\ [][Next]_vars

\* The kernel schedules the loader and the thread it waits for.
FairSpec ==
  /\ Spec
  /\ WF_vars(StartUp)
  /\ WF_vars(ClientStep(Loader, kernel.mesosphere, kernel.delivers)
             /\ UNCHANGED <<layoutVars, bootVars>>)
  /\ WF_vars(ServerStep(Loader) /\ UNCHANGED <<layoutVars, bootVars>>)

-----------------------------------------------------------------------------
(* A process such as the game's: at least the loader and the main module,   *)
(* fewer modules than the table has room for (FindModules aborts on a full  *)
(* table, although the assertion behind its loop allows one), none behind a *)
(* fragment, ours among them; and a kernel that answers and delivers.       *)
Ordinary ==
  /\ Cardinality(ModuleStarts) \in 2 .. MaxModules - 1
  /\ \A i \in ModuleStarts : ~Shadowed(i)
  /\ self \in ModuleStarts
  /\ {"alias", "heap"} \subseteq kernel.infos
  /\ kernel.infos = Regions \/ (kernel.bits # 0 /\ "aslr" \notin kernel.infos)
  /\ kernel.mesosphere \/ kernel.delivers

(* Start-up of an ordinary process does not abort, unless no thread can be  *)
(* made: each step finds what it needs set up by the steps before it.  When  *)
(* it is over the patcher writes to the second module of the address space,  *)
(* its text and its rodata, and the menu is drawn.                           *)
OrdinaryStarts ==
  /\ Ordinary => fault \in {"no", "NoThread"}
  /\ step = "running" /\ Ordinary =>
    /\ \A i \in ModuleStarts :
         Cardinality({j \in ModuleStarts : j < i}) = 1 => aliases[1] = [from |-> i, to |-> i + 1]
    /\ drawQueue = <<"drawDbgGui">>

(* Start-up ends, in a running process or an abort: neither of the two      *)
(* threads of the exchange waits for ever for the other.                    *)
StartUpEnds == <>(step = "running" \/ fault # "no")
===============================================================================
