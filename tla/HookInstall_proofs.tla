------------------------- MODULE HookInstall_proofs -------------------------
(***************************************************************************)
(* No two hooks share a trampoline, for any threads and programs of hook   *)
(* calls, any functions and any size of the pool (SlotsDistinct): a        *)
(* trampoline is given out by one atomic addition, so a new one is above   *)
(* every trampoline a thread holds or a callback has; what a thread holds  *)
(* until Hook() returns, no callback has yet (Apart).                      *)
(*                                                                         *)
(* And the hooks of an orderly process work, however its threads interleave*)
(* (TypeOK, NoWildJump, NothingRunsUnpublished, CallsRunEveryHook).  The   *)
(* invariant is the one of a chain: the words of a function jump to its    *)
(* newest hook (Calls), the trampoline of hook m goes on with hook m - 1   *)
(* or the function's own words (Continues), the callback of hook m knows   *)
(* that trampoline once its install has ended (Published); installers are  *)
(* somewhere in building such a link (Working) and callers somewhere in    *)
(* following the chain, having run what is above (Calling).  A chain only  *)
(* grows (Grows), so no step of an installer disturbs a caller, but for    *)
(* the first far patch of a function: a caller it is written around is     *)
(* torn, and nothing is said of that call.                                 *)
(***************************************************************************)
EXTENDS HookInstall, SequenceTheorems, TLAPS

Slots == (0 .. HookMax) \cup {None}
Holding == {"copy", "patch", "load", "swap", "return", "entry", "callback"}
Holds(i) == ipc[i] \in Holding

SlotTypes ==
  /\ index \in Int /\ index >= -1
  /\ slot \in [Installers -> Slots]
  /\ orig \in [Callbacks -> Slots]
  /\ ipc \in [Installers -> Holding \cup {"start", "grab", "advance", "alloc"}]

GivenOut ==
  /\ \A i \in Installers : slot[i] # None => slot[i] <= index
  /\ \A cb \in Callbacks : orig[cb] # None => orig[cb] <= index

Apart ==
  /\ \A i, j \in Installers : i # j /\ slot[i] # None => slot[i] # slot[j]
  /\ \A i \in Installers : Holds(i) /\ slot[i] # None => \A cb \in Callbacks : orig[cb] # slot[i]
  /\ \A a, b \in Callbacks : a # b /\ orig[a] # None => orig[a] # orig[b]

SlotInv == SlotTypes /\ GivenOut /\ Apart

LEMMA SlotInvInit == Init => SlotInv
BY HookAssumption DEF Init, SlotInv, SlotTypes, GivenOut, Apart, Holds, Holding, Slots

\* A step that leaves index, slots and callbacks alone and takes no thread into
\* a hook call.
LEMMA Untouched ==
  ASSUME SlotInv, UNCHANGED <<index, slot, orig>>,
         ipc' \in [Installers -> Holding \cup {"start", "grab", "advance", "alloc"}],
         \A i \in Installers : Holds(i)' => Holds(i)
  PROVE  SlotInv'
BY DEF SlotInv, SlotTypes, GivenOut, Apart

LEMMA AllocStep ==
  ASSUME SlotInv, HookAssumption, NEW i \in Installers, Alloc(i)
  PROVE  SlotInv'
<1> USE DEF SlotInv, SlotTypes
<1>1. CASE index + 1 > HookMax
  <2>1. index' = index + 1 /\ UNCHANGED <<slot, ipc, orig>>
    BY <1>1 DEF Alloc
  <2>2. \A j \in Installers : Holds(j)' = Holds(j)
    BY <2>1 DEF Holds
  <2> QED BY <2>1, <2>2, HookAssumption DEF GivenOut, Apart, Slots
<1>2. CASE ~ (index + 1 > HookMax)
  <2>1. /\ index' = index + 1 /\ UNCHANGED orig
        /\ slot' = [slot EXCEPT ![i] = index + 1]
        /\ ipc' = [ipc EXCEPT ![i] = "copy"]
    BY <1>2 DEF Alloc, Goto
  <2>2. index + 1 \in 0 .. HookMax /\ index + 1 # None
    BY <1>2, HookAssumption
  <2>3. SlotTypes'
    BY <2>1, <2>2 DEF Slots, Holding
  <2>4. GivenOut'
    BY <2>1, <2>2, HookAssumption DEF GivenOut, Slots
  <2>5. \A j \in Installers : slot[j] # None => slot[j] # index + 1
    BY HookAssumption DEF GivenOut, Slots
  <2>6. \A cb \in Callbacks : orig[cb] # index + 1
    BY <2>2, HookAssumption DEF GivenOut, Slots
  <2>7. Apart'
    BY <2>1, <2>2, <2>5, <2>6 DEF Apart, Holds
  <2> QED BY <2>3, <2>4, <2>7
<1> QED BY <1>1, <1>2

LEMMA ReturnStep ==
  ASSUME SlotInv, HookAssumption, NEW i \in Installers, Return(i)
  PROVE  SlotInv'
<1> USE DEF SlotInv, SlotTypes
<1>1. UNCHANGED <<index, slot>> /\ Holds(i)
  BY DEF Return, At, Installing, Holds, Holding
<1>2. CASE Hook(i).kind = "inline"
  <2>1. ipc' = [ipc EXCEPT ![i] = "entry"] /\ UNCHANGED orig
    BY <1>2 DEF Return, Goto
  <2> QED BY <1>1, <2>1, Untouched DEF Holds, Holding
<1>3. CASE Hook(i).kind # "inline"
  <2> DEFINE cb == Hook(i).cb
             new == IF Hook(i).kind = "tramp" THEN slot[i] ELSE orig[cb]
  <2>1. orig' = [orig EXCEPT ![cb] = new] /\ ipc' = [ipc EXCEPT ![i] = "start"]
    BY <1>3 DEF Return, Goto
  <2>2. \A j \in Installers : Holds(j)' => Holds(j) /\ j # i
    BY <2>1 DEF Holds, Holding
  <2>3. \A c \in Callbacks : orig'[c] = orig[c] \/ (c = cb /\ orig'[c] = slot[i])
    BY <2>1
  <2>4. SlotTypes'
    BY <1>1, <2>1, <2>3 DEF Slots, Holding
  <2>5. GivenOut'
    BY <1>1, <2>3 DEF GivenOut
  <2>6. Apart'
    <3>1. \A j \in Installers : Holds(j)' /\ slot'[j] # None =>
            \A c \in Callbacks : orig'[c] # slot'[j]
      BY <1>1, <2>2, <2>3 DEF Apart
    <3>2. \A a, b \in Callbacks : a # b /\ orig'[a] # None => orig'[a] # orig'[b]
      BY <1>1, <2>3 DEF Apart
    <3> QED BY <1>1, <3>1, <3>2 DEF Apart
  <2> QED BY <2>4, <2>5, <2>6
<1> QED BY <1>2, <1>3

LEMMA SlotInvStep ==
  ASSUME SlotInv, HookAssumption, [Next]_vars
  PROVE  SlotInv'
<1> USE DEF installerVars, memoryVars, callerVars
<1>1. ASSUME NEW i \in Installers, Start(i) PROVE SlotInv'
  <2>1. /\ UNCHANGED <<index, orig>>
        /\ slot' = [slot EXCEPT ![i] = None]
    BY <1>1 DEF Start
  <2>2. \/ UNCHANGED ipc
        \/ \E l \in Holding \cup {"grab", "alloc"} : ipc' = [ipc EXCEPT ![i] = l]
    <3>1. CASE Hook(i).kind = "tramp"
      BY <1>1, <3>1 DEF Start, Goto
    <3>2. CASE Hook(i).kind = "replace"
      BY <1>1, <3>2 DEF Start, Goto, Holding
    <3>3. CASE Hook(i).kind \notin {"tramp", "replace"}
      BY <1>1, <3>3 DEF Start, Goto
    <3> QED BY <3>1, <3>2, <3>3
  <2>3. \A j \in Installers : j # i => Holds(j)' = Holds(j)
    BY <2>2 DEF SlotInv, SlotTypes, Holds
  <2>4. SlotTypes'
    BY <2>1, <2>2 DEF SlotInv, SlotTypes, Slots
  <2> QED BY <2>1, <2>3, <2>4 DEF SlotInv, SlotTypes, GivenOut, Apart
<1>2. ASSUME NEW i \in Installers,
             Grab(i) \/ Advance(i) \/ Copy(i) \/ Patch(i) \/ Load(i) \/ Swap(i) \/ WriteEntry(i)
                     \/ WriteCallback(i)
      PROVE  SlotInv'
  <2>1. UNCHANGED <<index, slot, orig>>
    BY <1>2 DEF Grab, Advance, Copy, Patch, Load, Swap, WriteEntry, WriteCallback
  <2>2. \/ UNCHANGED ipc
        \/ \E l \in {"advance", "alloc", "start"} : ipc' = [ipc EXCEPT ![i] = l]
        \/ ipc[i] \in Holding /\ \E l \in Holding : ipc' = [ipc EXCEPT ![i] = l]
    BY <1>2
    DEF Grab, Advance, Copy, Patch, Load, Swap, WriteEntry, WriteCallback, Goto, At, Installing, Holding
  <2> QED BY <2>1, <2>2, Untouched DEF SlotInv, SlotTypes, Holds, Holding
<1>3. ASSUME NEW c \in Callers, Run(c) \/ (\E f \in Funcs : Call(c, f)) PROVE SlotInv'
  <2>1. UNCHANGED <<installerVars, memoryVars>>
    BY <1>3 DEF Run, Call, RunFunction, RunTrampoline, RunCallback, RunEntry, Done, Execute
  <2> QED BY <2>1, Untouched DEF SlotInv, SlotTypes, Holds
<1>4. CASE UNCHANGED vars
  BY <1>4, Untouched DEF vars, SlotInv, SlotTypes, Holds
<1> QED
  BY <1>1, <1>2, <1>3, <1>4, AllocStep, ReturnStep DEF Next, Install

LEMMA SlotInvDistinct == SlotInv /\ HookAssumption => SlotsDistinct
<1> SUFFICES ASSUME SlotInv, HookAssumption PROVE SlotsDistinct
  OBVIOUS
<1>1. \A i \in Installers : slot[i] # None => InPool(slot[i])
  BY HookAssumption DEF SlotInv, SlotTypes, Slots, InPool, Behind
<1>2. \A i \in Installers : Allocated(i) => Holds(i)
  BY DEF Allocated, At, Installing, Holds, Holding
<1> QED BY <1>1, <1>2 DEF SlotsDistinct, SlotInv, Apart

(* No two hooks share a trampoline and none lies outside the pool and the   *)
(* one place behind it, for every number of threads that install hooks at   *)
(* the same time, every program of hook calls and every size of the pool.   *)
THEOREM TrampolinesDistinct == Spec => []SlotsDistinct
<1>1. SlotInv /\ [Next]_vars => SlotInv'
  BY SlotInvStep, HookAssumption
<1> QED BY <1>1, SlotInvInit, SlotInvDistinct, HookAssumption, PTL DEF Spec

-----------------------------------------------------------------------------
\* Types.

Places == [in : {"code", "tramp", "callback", "entry", "done", "idle", "junk"},
           id : Funcs \cup Callbacks \cup Int \cup {None}, pc : Nat]
CodeWords ==
  {w \in [op : Ops, to : Places \cup {None}, i : Words] :
     w.op \in {"b", "lit", "ldrc"} => w.to \in Places}
SlotWords == {ws \in Seq(CodeWords) : Len(ws) <= 5}

InstallersTyped ==
  /\ next \in [Installers -> Nat \ {0}] /\ \A i \in Installers : next[i] <= Len(plan[i]) + 1
  /\ word \in [Installers -> Words]
  /\ expect \in [Installers -> CodeWords]
  /\ entry \in [Installers -> (0 .. EntryMax) \cup {None}]
MemoryTyped ==
  /\ entryIndex \in Nat
  /\ code \in [Funcs -> [Words -> CodeWords]]
  /\ tramp \in [0 .. HookMax -> [words : SlotWords, fn : Funcs \cup {None}, resume : Nat]]
  /\ entries \in [0 .. EntryMax -> [slot : Slots, skip : Nat, cb : Callbacks \cup {None}]]
  /\ log \in [Funcs -> Seq(Hooks)]
\* A caller a patch was written around can be anywhere.
CallersTyped ==
  /\ at = [c \in Callers |-> at[c]] /\ x17 = [c \in Callers |-> x17[c]]
  /\ trace = [c \in Callers |-> trace[c]]
  /\ call \in [Callers -> [fn : Funcs \cup {None}, since : Nat]]
  /\ torn \in [Callers -> BOOLEAN]
  /\ \A c \in Callers : ~torn[c] =>
       /\ at[c] \in Places /\ x17[c] \in Places
       /\ trace[c] \in Seq(Nat \cup Callbacks \cup {None})
Typed ==
  /\ plan \in Plans /\ InstallersTyped /\ MemoryTyped /\ CallersTyped
  /\ crash \in {"no", "PoolFull", "WildJump", "NullOrig", "EmptyEntry", "Torn"}

-----------------------------------------------------------------------------
\* What memory holds of a function's hooks, and where callers are in them.

Placing == {"advance", "alloc"} \cup Holding    \* an inline hook has its entry
Late == {"return", "entry", "callback"}         \* the patch is written
Busy(i, labels) == ~Finished(i) /\ ipc[i] \in labels

\* The index of the first word of a patch that is not a NOP, and the one that jumps.
First(f) == IF f \in Far /\ f \in Misaligned THEN 1 ELSE 0
Jumps(f) == IF f \in Far THEN First(f) + 1 ELSE 0

\* The words of a function that is patched to go to p, and of their copy.
Patched(f, p, k) ==
  IF f \notin Far THEN IF k = 0 THEN B(p) ELSE Body(k)
  ELSE IF k < First(f) THEN Nop
  ELSE IF k = First(f) THEN Ldr
  ELSE IF k = First(f) + 1 THEN Br
  ELSE IF k = First(f) + 2 THEN Lit(p)
  ELSE IF k = First(f) + 3 THEN LitHigh
  ELSE Body(k)
Copied(f, p, k) == IF f \in Far /\ k = First(f) THEN W("ldrc", p, 0) ELSE Patched(f, p, k)

\* Entry e belongs to hook h, which may still be under installation.
Serves(e, h) ==
  \/ entries[e].cb = h.cb
  \/ \E i \in Installers : Busy(i, Placing) /\ entry[i] = e /\ Hook(i) = h

\* A jump to p calls hook h.
Leads(p, h) ==
  IF h.kind = "inline" THEN p.id \in 0 .. EntryMax /\ p = Entry(p.id) /\ Serves(p.id, h)
                       ELSE p = Callback(h.cb)

\* Function f calls the newest of its hooks.
Aim(f) == IF f \in Far THEN code[f][First(f) + 2].to ELSE code[f][0].to
Calls(f, m) ==
  IF m = 0 THEN \A k \in Words : code[f][k] = Body(k)
  ELSE Leads(Aim(f), log[f][m]) /\ \A k \in Words : code[f][k] = Patched(f, Aim(f), k)

\* Trampoline s is complete and goes on with the m-th hook of f, or the function.
Complete(s) ==
  s \in 0 .. HookMax /\ s <= index /\ \A i \in Installers : Busy(i, {"copy"}) => slot[i] # s
AimOf(s, f) == tramp[s].words[First(f) + 1].to
Continues(s, f, m) ==
  /\ Complete(s)
  /\ tramp[s].fn = f /\ tramp[s].resume = Count(f) /\ Len(tramp[s].words) = Count(f)
  /\ IF m = 0 THEN \A k \in 0 .. Count(f) - 1 : tramp[s].words[k + 1] = Body(k)
     ELSE /\ Leads(AimOf(s, f), log[f][m])
          /\ \A k \in 0 .. Count(f) - 1 : tramp[s].words[k + 1] = Copied(f, AimOf(s, f), k)

\* Hook m of f has what its callback needs to go on.
Published(f, m) ==
  LET h == log[f][m]
  IN  CASE h.kind = "tramp" -> orig[h.cb] # None /\ Continues(orig[h.cb], f, m - 1)
        [] h.kind = "replace" -> TRUE
        [] OTHER -> \E e \in 0 .. EntryMax :
             /\ entries[e].cb = h.cb
             /\ Continues(entries[e].slot, f, m - 1) /\ entries[e].skip = BranchSkip

\* Where an installer is, what it has done: an inline hook has an entry of its own,
InlineWork(i) ==
  /\ ipc[i] \in {"grab", "advance", "entry", "callback"} => Hook(i).kind = "inline"
  /\ ipc[i] = "grab" => entryIndex < EntryMax
  /\ ipc[i] = "advance" => entry[i] = entryIndex
  /\ Hook(i).kind = "inline" /\ ipc[i] \in Placing =>
       /\ entry[i] \in 0 .. EntryMax - 1
       /\ ipc[i] # "advance" => entry[i] < entryIndex
       /\ entries[entry[i]].cb = None
  /\ Hook(i).kind = "inline" /\ ipc[i] \notin Late => log[Fn(i)] = <<>>
  /\ ipc[i] = "callback" => entries[entry[i]].slot = slot[i] /\ entries[entry[i]].skip = BranchSkip

\* a trampoline holds the words copied so far,
CopyWork(i) ==
  /\ ipc[i] \in {"alloc", "copy"} => Hook(i).kind # "replace"
  /\ ipc[i] \in {"grab", "advance", "alloc"} => word[i] = 0
  /\ ipc[i] = "copy" =>
       /\ slot[i] # None /\ word[i] < Count(Fn(i))
       /\ Len(tramp[slot[i]].words) = word[i]
       /\ \A n \in 0 .. word[i] - 1 : tramp[slot[i]].words[n + 1] = Moved(Fn(i), n)

\* a function the words written so far,
PatchWork(i) ==
  /\ ipc[i] = "patch" =>
       /\ Fn(i) \in Far /\ word[i] < Jumps(Fn(i)) + 2
       /\ \A n \in 0 .. word[i] - 1 : code[Fn(i)][n] = Patched(Fn(i), Target(i), n)
  /\ ipc[i] \in {"load", "swap"} => Fn(i) \notin Far
  /\ ipc[i] = "swap" => expect[i] = code[Fn(i)][0]
  /\ ipc[i] \in {"patch", "load", "swap"} /\ Hook(i).kind # "replace" =>
       slot[i] # None /\ Continues(slot[i], Fn(i), Len(log[Fn(i)]))

\* and the patch that is complete is the newest of the log.
LateWork(i) ==
  ipc[i] \in Late =>
    /\ log[Fn(i)] # <<>> /\ log[Fn(i)][Len(log[Fn(i)])] = Hook(i)
    /\ Hook(i).kind # "replace" =>
         slot[i] # None /\ Continues(slot[i], Fn(i), Len(log[Fn(i)]) - 1)

Working(i) == InlineWork(i) /\ CopyWork(i) /\ PatchWork(i) /\ LateWork(i)

\* Hook number n of installer i has been written.
Placed(i, n) == n < next[i] \/ (n = next[i] /\ ipc[i] \in Late)

\* The log is of hooks that have been placed, each function's by one thread.
Logged ==
  \A f \in Funcs : \A m \in 1 .. Len(log[f]) :
    /\ \E i \in Installers : \E n \in DOMAIN plan[i] :
         /\ log[f][m] = plan[i][n] /\ plan[i][n].fn = f
         /\ Placed(i, n)
         /\ n = next[i] => m = Len(log[f])
    /\ log[f][m].kind = "inline" => m = 1

\* Nothing is published before its time.
Reserved ==
  /\ \A i \in Installers : \A n \in DOMAIN plan[i] : n >= next[i] =>
       /\ orig[plan[i][n].cb] = None
       /\ \A e \in 0 .. EntryMax : entries[e].cb # plan[i][n].cb
  /\ \A e \in 0 .. EntryMax : e >= entryIndex => entries[e].cb = None
  /\ \A d, e \in 0 .. EntryMax : entries[d].cb = entries[e].cb /\ entries[d].cb # None => d = e

Chain(f) ==
  /\ \A k \in Words : k >= Count(f) => code[f][k] = Body(k)
  /\ ~Half(f) => Calls(f, Len(log[f]))
  /\ \A m \in 1 .. Len(log[f]) :
       \/ Published(f, m)
       \/ m = Len(log[f]) /\ \E i \in Installers : Busy(i, Late) /\ Fn(i) = f

-----------------------------------------------------------------------------
\* Callers.

\* Caller c has run the hooks of f above m, of n, and is about to run hook m.
AtHook(c, f, m, n) ==
  /\ m > 0 /\ trace[c] = Ran(f, m, n)
  /\ \/ Leads(at[c], log[f][m])
     \/ /\ at[c].in = "tramp" /\ Continues(at[c].id, f, m)
        /\ at[c].pc \in 0 .. Jumps(f)
        /\ f \in Far /\ at[c].pc = Jumps(f) => x17[c] = AimOf(at[c].id, f)

\* Caller c has run all hooks and is in the words of f.
InBody(c, f, n) ==
  LET pc == at[c].pc
  IN  /\ pc \in Skipped(f, n) .. 5
      /\ trace[c] = Ran(f, 0, n) \o Bodies(Skipped(f, n), pc)
      /\ \/ at[c].in = "tramp" /\ Continues(at[c].id, f, 0) /\ pc <= Count(f)
         \/ at[c].in = "code" /\ at[c].id = f /\ (pc >= Count(f) \/ (pc > 0 /\ n = 0 /\ f \in Far /\ log[f] = <<>>))

\* Caller c is in the patch of f; the literal it loaded is of some hook of f.
Arriving(c, f) ==
  /\ at[c].in = "code" /\ at[c].id = f /\ trace[c] = <<>>
  /\ \/ at[c].pc = 0
     \/ /\ f \in Far /\ log[f] # <<>> /\ at[c].pc \in 0 .. Jumps(f)
        /\ at[c].pc = Jumps(f) =>
             \E n \in call[c].since .. Len(log[f]) : n > 0 /\ Leads(x17[c], log[f][n])

Calling(c) ==
  LET f == call[c].fn
  IN  ~torn[c] /\ at[c].in # "idle" =>
        /\ f \in Funcs /\ call[c].since <= Len(log[f])
        /\ \/ at[c].in = "done" /\ AsExpected(c)
           \/ Arriving(c, f)
           \/ \E n \in call[c].since .. Len(log[f]) : \E m \in 0 .. n :
                /\ \A l \in m + 1 .. n : ~Replaces(log[f][l])
                /\ AtHook(c, f, m, n) \/ (m = 0 /\ InBody(c, f, n))

Chained ==
  crash = "no" =>
    /\ \A i \in Installers : ~Finished(i) => Working(i)
    /\ Logged /\ Reserved
    /\ \A f \in Funcs : Chain(f)
    /\ \A c \in Callers : Calling(c)

\* The accidents that do not happen.
Safe == NoWildJump /\ (crash # "no" => NothingRunsUnpublished)

IInv == Typed /\ SlotInv /\ Chained /\ Safe

-----------------------------------------------------------------------------
\* Facts about hooks, plans and patches.

LEMMA HookFacts ==
  ASSUME HookAssumption, Typed, NEW i \in Installers
  PROVE  /\ plan[i] \in Seq(Hooks)
         /\ \A n \in DOMAIN plan[i] :
              /\ plan[i][n] \in Hooks /\ plan[i][n].fn \in Funcs
              /\ plan[i][n].cb \in Callbacks /\ plan[i][n].kind \in Kinds
         /\ ~Finished(i) => next[i] \in DOMAIN plan[i]
<1>1. plan[i] \in Seq(Hooks)
  BY DEF HookAssumption, Typed
<1>2. \A n \in DOMAIN plan[i] : plan[i][n] \in Hooks
  BY <1>1
<1>3. \A h \in Hooks : h.fn \in Funcs /\ h.cb \in Callbacks /\ h.kind \in Kinds
  BY DEF HookAssumption, Callbacks
<1>4. ~Finished(i) => next[i] \in DOMAIN plan[i]
  BY <1>1 DEF Finished, Typed, InstallersTyped
<1> QED BY <1>1, <1>2, <1>3, <1>4

LEMMA CurrentHook ==
  ASSUME HookAssumption, Typed, NEW i \in Installers, ~Finished(i)
  PROVE  /\ next[i] \in DOMAIN plan[i] /\ Hook(i) \in Hooks /\ Fn(i) \in Funcs
         /\ Hook(i).cb \in Callbacks /\ Hook(i).kind \in Kinds
BY HookFacts DEF Hook, Fn

LEMMA HooksApart ==
  ASSUME HookAssumption, Orderly, Typed,
         NEW i \in Installers, NEW n \in DOMAIN plan[i],
         NEW j \in Installers, NEW m \in DOMAIN plan[j]
  PROVE  /\ i # j \/ n # m => plan[i][n].cb # plan[j][m].cb
         /\ i # j => /\ plan[i][n].fn # plan[j][m].fn
                     /\ plan[i][n].kind # "inline" \/ plan[j][m].kind # "inline"
         /\ i = j /\ m < n /\ plan[i][n].fn = plan[j][m].fn => plan[i][n].kind # "inline"
BY DEF Orderly, Typed

LEMMA Apartness ==
  ASSUME HookAssumption, Orderly, Typed,
         NEW i \in Installers, ~Finished(i), NEW j \in Installers, ~Finished(j), i # j
  PROVE  /\ Fn(i) # Fn(j) /\ Hook(i).cb # Hook(j).cb
         /\ Hook(i).kind # "inline" \/ Hook(j).kind # "inline"
BY HooksApart, CurrentHook DEF Hook, Fn

LEMMA PatchFacts ==
  ASSUME HookAssumption, NEW f \in Funcs
  PROVE  /\ First(f) \in 0 .. 1 /\ Jumps(f) \in 0 .. 2 /\ Count(f) \in 1 .. 5
         /\ f \in Far => Jumps(f) = First(f) + 1 /\ Count(f) = First(f) + 4
         /\ f \notin Far => First(f) = 0 /\ Jumps(f) = 0 /\ Count(f) = 1
BY DEF First, Jumps, Count

-----------------------------------------------------------------------------
\* What every step keeps: a log grows at its end, a complete trampoline and an
\* entry in use do not change.

Grows ==
  /\ \A f \in Funcs : /\ Len(log[f]) <= Len(log'[f])
                      /\ \A m \in 1 .. Len(log[f]) : log'[f][m] = log[f][m]
  /\ \A s : Complete(s) => Complete(s)' /\ tramp'[s] = tramp[s]
  /\ \A e \in 0 .. EntryMax : \A h \in Hooks :
       h.kind = "inline" /\ Serves(e, h) => Serves(e, h)'
  /\ \A e \in 0 .. EntryMax : entries[e].cb # None => entries'[e] = entries[e]
  /\ \A cb \in Callbacks : orig[cb] # None => orig'[cb] = orig[cb]

LEMMA LeadsStays ==
  ASSUME Grows, NEW p, NEW h \in Hooks, Leads(p, h)
  PROVE  Leads(p, h)'
BY DEF Grows, Leads

LEMMA LogType ==
  ASSUME Typed, NEW f \in Funcs
  PROVE  /\ log[f] \in Seq(Hooks) /\ Len(log[f]) \in Nat
         /\ \A m \in 1 .. Len(log[f]) : log[f][m] \in Hooks
BY DEF Typed, MemoryTyped

LEMMA ContinuesStays ==
  ASSUME Typed, Grows, NEW f \in Funcs, NEW m \in 0 .. Len(log[f]), NEW s, Continues(s, f, m)
  PROVE  Continues(s, f, m)'
<1>1. Complete(s)' /\ tramp'[s] = tramp[s]
  BY DEF Grows, Continues
<1>2. AimOf(s, f)' = AimOf(s, f)
  BY <1>1 DEF AimOf
<1>3. CASE m = 0
  BY <1>1, <1>3 DEF Continues
<1>4. CASE m # 0
  <2>1. log'[f][m] = log[f][m] /\ log[f][m] \in Hooks
    BY <1>4, LogType DEF Grows
  <2>2. Leads(AimOf(s, f), log[f][m])'
    <3> DEFINE p == AimOf(s, f)
               h == log[f][m]
    <3> HIDE DEF p, h
    <3>1. Leads(p, h)
      BY <1>4 DEF p, h, Continues
    <3>2. p' = p /\ h' = h
      BY <1>2, <2>1 DEF p, h
    <3>3. h \in Hooks
      BY <2>1 DEF h
    <3>4. Leads(p, h)'
      BY <3>1, <3>2, <3>3 DEF Grows, Leads
    <3> QED BY <3>4 DEF p, h
  <2> QED BY <1>1, <1>2, <1>4, <2>2 DEF Continues
<1> QED BY <1>3, <1>4

LEMMA PublishedStays ==
  ASSUME Typed, HookAssumption, Grows, NEW f \in Funcs, NEW m \in 1 .. Len(log[f]), Published(f, m)
  PROVE  Published(f, m)'
<1> DEFINE h == log[f][m]
<1>1. h' = h /\ h \in Hooks /\ h.kind \in Kinds /\ h.cb \in Callbacks
  BY LogType DEF Grows, HookAssumption, Callbacks
<1>2. m - 1 \in 0 .. Len(log[f])
  BY LogType
<1>3. CASE h.kind = "tramp"
  <2>1. orig'[h.cb] = orig[h.cb] /\ orig[h.cb] # None
    BY <1>1, <1>3 DEF Published, Grows
  <2>2. Continues(orig[h.cb], f, m - 1)'
    <3> DEFINE s == orig[h.cb]
    <3> HIDE DEF s
    <3>1. Continues(s, f, m - 1)
      BY <1>3 DEF Published, s
    <3>2. s' = s
      BY <2>1, <1>1 DEF s
    <3>3. Continues(s, f, m - 1)'
      BY <3>1, <3>2, <1>2, ContinuesStays
    <3> QED BY <3>3, <3>2 DEF s
  <2> QED BY <1>1, <1>3, <2>1, <2>2 DEF Published
<1>4. CASE h.kind = "replace"
  BY <1>1, <1>4 DEF Published
<1>5. CASE h.kind = "inline"
  <2>1. PICK e \in 0 .. EntryMax : /\ entries[e].cb = h.cb
                                   /\ Continues(entries[e].slot, f, m - 1)
                                   /\ entries[e].skip = BranchSkip
    BY <1>5 DEF Published
  <2>2. entries'[e] = entries[e]
    BY <1>1, <2>1 DEF Grows, HookAssumption
  <2>3. Continues(entries[e].slot, f, m - 1)'
    BY <2>1, <2>2, <1>2, ContinuesStays
  <2> QED BY <1>1, <1>5, <2>1, <2>2, <2>3 DEF Published
<1> QED BY <1>1, <1>3, <1>4, <1>5 DEF Kinds

-----------------------------------------------------------------------------
\* What a step of installer i leaves alone.

LEMMA InstallLeaves ==
  ASSUME Typed, SlotInv, NEW i \in Installers, Install(i)
  PROVE  /\ crash = "no" /\ ~Finished(i)
         /\ UNCHANGED <<at, x17, trace, call>>
         /\ torn' \in [Callers -> BOOLEAN] /\ \A c \in Callers : torn[c] => torn'[c]
         /\ ipc[i] # "patch" => torn' = torn
         /\ \A j \in Installers : j # i =>
              /\ next'[j] = next[j] /\ ipc'[j] = ipc[j] /\ slot'[j] = slot[j]
              /\ entry'[j] = entry[j] /\ word'[j] = word[j] /\ expect'[j] = expect[j]
         /\ ipc[i] \notin {"patch", "swap"} => code' = code /\ log' = log
         /\ ipc[i] \notin {"alloc", "copy"} => tramp' = tramp
         /\ ipc[i] # "alloc" => index' = index
         /\ ipc[i] # "return" => orig' = orig
         /\ ipc[i] \notin {"entry", "callback"} => entries' = entries
         /\ ipc[i] # "advance" => entryIndex' = entryIndex
<1> USE DEF Typed, InstallersTyped, MemoryTyped, CallersTyped, SlotInv, SlotTypes, memoryVars, callerVars,
            At, Installing, Alive, Goto
<1>1. CASE Start(i) \/ Grab(i) \/ Advance(i)
  BY <1>1 DEF Start, Grab, Advance
<1>2. CASE Alloc(i) \/ Copy(i)
  BY <1>2 DEF Alloc, Copy
<1>3. CASE Patch(i) \/ Load(i) \/ Swap(i)
  BY <1>3 DEF Patch, Load, Swap, Written
<1>4. CASE Return(i) \/ WriteEntry(i) \/ WriteCallback(i)
  BY <1>4 DEF Return, WriteEntry, WriteCallback
<1> QED BY <1>1, <1>2, <1>3, <1>4 DEF Install

-----------------------------------------------------------------------------
\* Every step of an installer keeps what Grows says.

LEMMA LogGrows ==
  ASSUME Typed, SlotInv, HookAssumption, NEW i \in Installers, Install(i)
  PROVE  \A f \in Funcs : /\ log'[f] = IF f = Fn(i) /\ log' # log THEN Append(log[f], Hook(i)) ELSE log[f]
                          /\ Len(log[f]) <= Len(log'[f])
                          /\ \A m \in 1 .. Len(log[f]) : log'[f][m] = log[f][m]
<1>1. CASE log' = log
  BY <1>1, LogType
<1>2. CASE log' # log
  <2>1. log' = [log EXCEPT ![Fn(i)] = Append(@, Hook(i))] /\ ~Finished(i)
    BY <1>2, InstallLeaves
    DEF Install, Start, Grab, Advance, Alloc, Copy, Patch, Load, Swap, Return, WriteEntry,
        WriteCallback, memoryVars, Written
  <2> SUFFICES ASSUME NEW f \in Funcs
               PROVE  /\ log'[f] = IF f = Fn(i) THEN Append(log[f], Hook(i)) ELSE log[f]
                      /\ Len(log[f]) <= Len(log'[f])
                      /\ \A m \in 1 .. Len(log[f]) : log'[f][m] = log[f][m]
    BY <1>2
  <2>2. log \in [Funcs -> Seq(Hooks)] /\ Hook(i) \in Hooks
    BY <2>1, CurrentHook DEF Typed, MemoryTyped
  <2>3. log'[f] = IF f = Fn(i) THEN Append(log[f], Hook(i)) ELSE log[f]
    BY <2>1, <2>2
  <2> QED BY <2>2, <2>3
<1> QED BY <1>1, <1>2

\* Where a step can take the installer that makes it.
LEMMA Moves ==
  ASSUME Typed, SlotInv, NEW i \in Installers, Install(i)
  PROVE  /\ next'[i] = next[i] /\ plan' = plan =>
              /\ ipc'[i] \in Late \ {"return"} => ipc[i] \in Late
              /\ ipc[i] = "grab" => ipc'[i] = "advance" /\ entry'[i] = entryIndex
              /\ ipc[i] \in Placing => ipc'[i] \in Placing /\ entry'[i] = entry[i]
              /\ ipc'[i] = "copy" => ipc[i] \in {"alloc", "copy"}
         /\ next'[i] # next[i] => next'[i] = next[i] + 1 /\ ipc'[i] = "start"
                                  /\ ipc[i] \in {"return", "callback"}
<1> USE DEF Typed, InstallersTyped, SlotInv, SlotTypes, At, Installing, Goto, Placing, Late, Holding
<1>1. CASE Start(i)
  BY <1>1 DEF Start
<1>2. CASE Grab(i)
  BY <1>2 DEF Grab
<1>3. CASE Advance(i)
  BY <1>3 DEF Advance
<1>4. CASE Alloc(i)
  BY <1>4 DEF Alloc
<1>5. CASE Copy(i)
  BY <1>5 DEF Copy
<1>6. CASE Patch(i)
  BY <1>6 DEF Patch
<1>7. CASE Load(i)
  BY <1>7 DEF Load
<1>8. CASE Swap(i)
  BY <1>8 DEF Swap
<1>9. CASE Return(i)
  BY <1>9 DEF Return
<1>10. CASE WriteEntry(i)
  BY <1>10 DEF WriteEntry
<1>11. CASE WriteCallback(i)
  BY <1>11 DEF WriteCallback
<1> QED
  BY <1>1, <1>2, <1>3, <1>4, <1>5, <1>6, <1>7, <1>8, <1>9, <1>10, <1>11 DEF Install

LEMMA CompleteGrows ==
  ASSUME Typed, SlotInv, HookAssumption, plan' = plan, crash' = "no",
         NEW i \in Installers, Install(i), Working(i), NEW s, Complete(s)
  PROVE  Complete(s)' /\ tramp'[s] = tramp[s]
<1> USE DEF SlotInv, SlotTypes
<1>1. ~Finished(i) /\ s \in 0 .. HookMax /\ s <= index
  BY InstallLeaves DEF Complete
<1>2. index' >= index /\ (ipc[i] = "alloc" => slot'[i] = index + 1) /\ tramp'[s] = tramp[s]
  <2>1. CASE Alloc(i)
    BY <1>1, <2>1 DEF Alloc, Typed, MemoryTyped
  <2>2. CASE Copy(i)
    <3>1. Busy(i, {"copy"}) /\ slot[i] # s /\ slot[i] \in 0 .. HookMax
      BY <1>1, <2>2 DEF Copy, At, Installing, Busy, Complete, Working, CopyWork, Slots
    <3> QED BY <1>1, <2>2, <3>1 DEF Copy, At, Installing, Typed, MemoryTyped
  <2>3. CASE ~Alloc(i) /\ ~Copy(i)
    <3>1. ipc[i] \notin {"alloc", "copy"}
      BY <2>3 DEF Install, Start, Grab, Advance, Patch, Load, Swap, Return, WriteEntry,
                  WriteCallback, At, Installing
    <3> QED BY <3>1, InstallLeaves
  <2> QED BY <2>1, <2>2, <2>3
<1>3. ASSUME NEW j \in Installers, Busy(j, {"copy"})' PROVE slot'[j] # s
  <2>1. CASE j # i
    <3>1. Busy(j, {"copy"}) /\ slot'[j] = slot[j]
      BY <1>3, <2>1, InstallLeaves DEF Busy, Finished
    <3> QED BY <3>1 DEF Complete
  <2>2. CASE j = i /\ ipc[i] = "alloc"
    BY <1>1, <1>2, <2>2
  <2>3. CASE j = i /\ ipc[i] # "alloc"
    <3>1. ipc'[i] = "copy" /\ ipc[i] # "alloc"
      BY <1>3, <2>3 DEF Busy
    <3>2. next'[i] = next[i] /\ ipc[i] = "copy"
      BY <3>1, Moves
    <3>3. slot'[i] = slot[i]
      BY <3>2 DEF Install, Start, Grab, Advance, Alloc, Copy, Patch, Load, Swap, Return,
                  WriteEntry, WriteCallback, At, Installing
    <3>4. Busy(i, {"copy"})
      BY <1>1, <3>2 DEF Busy
    <3> QED BY <2>3, <3>3, <3>4 DEF Complete
  <2> QED BY <2>1, <2>2, <2>3
<1>4. index' \in Int
  BY SlotInvStep, <1>2 DEF Install, Alloc, Start, Grab, Advance, Copy, Patch, Load, Swap, Return,
                  WriteEntry, WriteCallback, memoryVars
<1> QED BY <1>1, <1>2, <1>3, <1>4 DEF Complete

LEMMA EntriesGrow ==
  ASSUME Typed, SlotInv, HookAssumption, plan' = plan, crash' = "no",
         NEW i \in Installers, Install(i), Working(i),
         NEW e \in 0 .. EntryMax
  PROVE  /\ entries[e].cb # None => entries'[e] = entries[e]
         /\ \A h \in Hooks : h.kind = "inline" /\ Serves(e, h) => Serves(e, h)'
<1> USE DEF SlotInv, SlotTypes
<1>1. /\ ~Finished(i) /\ Hook(i) \in Hooks /\ Hook(i).kind \in Kinds
      /\ \A h \in Hooks : h.cb # None /\ h.cb \in Callbacks
  BY InstallLeaves, CurrentHook DEF HookAssumption, Callbacks
<1>2. /\ entries'[e] # entries[e] => entries[e].cb = None /\ entry[i] = e /\ ipc[i] \in {"entry", "callback"}
      /\ ipc[i] = "callback" /\ entry[i] = e => entries'[e].cb = Hook(i).cb
  <2>1. CASE WriteEntry(i)
    <3>1. ipc[i] = "entry" /\ entry[i] \in 0 .. EntryMax - 1 /\ entries[entry[i]].cb = None
      BY <2>1, <1>1 DEF WriteEntry, At, Installing, Working, InlineWork, Placing, Holding
    <3> QED BY <2>1, <3>1 DEF WriteEntry, Typed, MemoryTyped
  <2>2. CASE WriteCallback(i)
    <3>1. ipc[i] = "callback" /\ entry[i] \in 0 .. EntryMax - 1 /\ entries[entry[i]].cb = None
      BY <2>2, <1>1 DEF WriteCallback, At, Installing, Working, InlineWork, Placing, Holding
    <3> QED BY <2>2, <3>1 DEF WriteCallback, Typed, MemoryTyped
  <2>3. CASE ~WriteEntry(i) /\ ~WriteCallback(i)
    <3>1. ipc[i] \notin {"entry", "callback"}
      BY <2>3 DEF Install, Start, Grab, Advance, Alloc, Copy, Patch, Load, Swap, Return, At, Installing
    <3> QED BY <3>1, InstallLeaves
  <2> QED BY <2>1, <2>2, <2>3
<1>3. ASSUME NEW h \in Hooks, h.kind = "inline", Serves(e, h) PROVE Serves(e, h)'
  <2>1. CASE entries[e].cb = h.cb
    BY <1>1, <1>2, <2>1 DEF Serves
  <2>2. ASSUME NEW j \in Installers, Busy(j, Placing), entry[j] = e, Hook(j) = h
        PROVE  Serves(e, h)'
    <3>1. CASE j # i
      <4>1. Busy(j, Placing)' /\ entry'[j] = e /\ Hook(j)' = h
        BY <2>2, <3>1, InstallLeaves DEF Busy, Finished, Hook
      <4> QED BY <4>1 DEF Serves
    <3>2. CASE j = i /\ next'[i] = next[i]
      <4>1. Busy(i, Placing)' /\ entry'[i] = e /\ Hook(i)' = h
        BY <1>1, <2>2, <3>2, Moves DEF Busy, Finished, Hook
      <4> QED BY <4>1 DEF Serves
    <3>3. CASE j = i /\ next'[i] # next[i]
      <4>1. ipc[i] = "callback"
        <5>1. ~Return(i)
          BY <1>3, <2>2, <3>3 DEF Return
        <5> QED
          BY <3>3, <5>1, Moves DEF Install, Start, Grab, Advance, Alloc, Copy, Patch, Load, Swap,
                                   WriteEntry, WriteCallback, At, Installing
      <4>2. entries'[e].cb = h.cb
        BY <1>2, <2>2, <3>3, <4>1
      <4> QED BY <4>2 DEF Serves
    <3> QED BY <3>1, <3>2, <3>3
  <2> QED BY <1>3, <2>1, <2>2 DEF Serves
<1> QED BY <1>2, <1>3

LEMMA InstallGrows ==
  ASSUME Typed, SlotInv, HookAssumption, plan' = plan, crash' = "no", Reserved,
         NEW i \in Installers, Install(i), Working(i)
  PROVE  Grows
<1>1. ASSUME NEW cb \in Callbacks, orig[cb] # None PROVE orig'[cb] = orig[cb]
  <2>1. CASE Return(i)
    <3>1. ~Finished(i) /\ next[i] \in DOMAIN plan[i] /\ next[i] \in Nat
      BY InstallLeaves, CurrentHook DEF Typed, InstallersTyped
    <3>2. Hook(i).cb # cb
      BY <1>1, <3>1 DEF Reserved, Hook
    <3> QED BY <2>1, <3>2 DEF Return, SlotInv, SlotTypes
  <2>2. CASE ~Return(i)
    <3>1. ipc[i] # "return"
      BY <2>2 DEF Install, Start, Grab, Advance, Alloc, Copy, Patch, Load, Swap, WriteEntry,
                  WriteCallback, At, Installing
    <3> QED BY <3>1, InstallLeaves
  <2> QED BY <2>1, <2>2
<1> QED BY <1>1, LogGrows, CompleteGrows, EntriesGrow DEF Grows

-----------------------------------------------------------------------------
\* A step of installer i keeps what is known of the other installers, and of
\* functions and callers.

Step(i) == Install(i) /\ plan' = plan /\ crash' = "no"

LEMMA StepFacts ==
  ASSUME IInv, HookAssumption, NEW i \in Installers, Step(i)
  PROVE  /\ Typed /\ SlotInv /\ crash = "no" /\ ~Finished(i) /\ Working(i) /\ Grows
         /\ Logged /\ Reserved
         /\ next[i] \in DOMAIN plan[i] /\ next[i] \in Nat \ {0}
         /\ Hook(i) \in Hooks /\ Fn(i) \in Funcs /\ Hook(i).cb \in Callbacks /\ Hook(i).kind \in Kinds
         /\ \A f \in Funcs : Chain(f)
<1>1. Typed /\ SlotInv /\ crash = "no" /\ ~Finished(i)
  BY InstallLeaves DEF IInv, Step
<1>2. Working(i) /\ Logged /\ Reserved /\ \A f \in Funcs : Chain(f)
  BY <1>1 DEF IInv, Chained
<1> QED BY <1>1, <1>2, CurrentHook, InstallGrows DEF Step, Typed, InstallersTyped

LEMMA WorkingStays ==
  ASSUME IInv, HookAssumption, Orderly, NEW i \in Installers, Step(i),
         NEW j \in Installers, j # i, ~Finished(j)
  PROVE  Working(j)'
<1>1. /\ Working(j) /\ Typed /\ Grows
      /\ ~Finished(i) /\ Working(i) /\ Hook(i).kind \in Kinds
  BY StepFacts DEF IInv, Chained
<1>2. Fn(j) # Fn(i) /\ (Hook(j).kind # "inline" \/ Hook(i).kind # "inline")
      /\ Fn(j) \in Funcs /\ Hook(j).kind \in Kinds
  BY <1>1, Apartness, CurrentHook
<1>3. /\ Hook(j)' = Hook(j) /\ Fn(j)' = Fn(j) /\ Target(j)' = Target(j)
      /\ word'[j] = word[j] /\ ipc'[j] = ipc[j] /\ slot'[j] = slot[j] /\ entry'[j] = entry[j]
      /\ expect'[j] = expect[j]
  BY InstallLeaves DEF IInv, Step, Hook, Fn, Target
<1>4. log'[Fn(j)] = log[Fn(j)] /\ code'[Fn(j)] = code[Fn(j)]
  <2>1. CASE Patch(i)
    BY <1>1, <1>2, <2>1, LogGrows DEF Patch, Store, Step, IInv, Typed, MemoryTyped
  <2>2. CASE Swap(i)
    BY <1>1, <1>2, <2>2, LogGrows DEF Swap, Store, Step, IInv, Typed, MemoryTyped
  <2>3. CASE ~Patch(i) /\ ~Swap(i)
    <3>1. ipc[i] \notin {"patch", "swap"}
      BY <2>3 DEF Step, Install, Start, Grab, Advance, Alloc, Copy, Load, Return, WriteEntry,
                  WriteCallback, At, Installing
    <3> QED BY <1>1, <3>1, InstallLeaves DEF Step, IInv
  <2> QED BY <2>1, <2>2, <2>3
<1>5. ipc[j] = "copy" => tramp'[slot[j]] = tramp[slot[j]]
  <2> SUFFICES ASSUME ipc[j] = "copy" PROVE tramp'[slot[j]] = tramp[slot[j]]
    OBVIOUS
  <2>1. slot[j] \in 0 .. HookMax /\ slot[j] <= index /\ slot[j] # slot[i] /\ index \in Int
    BY <1>1 DEF Working, CopyWork, IInv, SlotInv, SlotTypes, GivenOut, Apart, Slots
  <2>2. CASE Alloc(i)
    BY <2>1, <2>2 DEF Alloc, IInv, Typed, MemoryTyped, Step
  <2>3. CASE Copy(i)
    <3>1. slot[i] # None /\ slot[i] \in Slots
      BY <1>1, <2>3 DEF Copy, At, Installing, Working, CopyWork, IInv, SlotInv, SlotTypes
    <3> QED BY <2>1, <2>3, <3>1 DEF Copy, IInv, Typed, MemoryTyped, Slots
  <2>4. CASE ~Alloc(i) /\ ~Copy(i)
    <3>1. ipc[i] \notin {"alloc", "copy"}
      BY <2>4 DEF Step, Install, Start, Grab, Advance, Patch, Load, Swap, Return, WriteEntry,
                  WriteCallback, At, Installing
    <3> QED BY <1>1, <3>1, InstallLeaves DEF Step, IInv
  <2> QED BY <2>2, <2>3, <2>4
<1>6. Hook(j).kind = "inline" => entryIndex' = entryIndex /\ entries' = entries
  <2> SUFFICES ASSUME Hook(j).kind = "inline" PROVE entryIndex' = entryIndex /\ entries' = entries
    OBVIOUS
  <2>1. ipc[i] \notin {"advance", "entry", "callback"}
    BY <1>1, <1>2 DEF Working, InlineWork
  <2> QED BY <1>1, <2>1, InstallLeaves DEF Step, IInv
<1>7. \A g \in Funcs : \A m \in 0 .. Len(log[g]) : \A s :
        Continues(s, g, m) => Continues(s, g, m)'
  BY <1>1, ContinuesStays
<1>8. Len(log[Fn(j)]) \in 0 .. Len(log[Fn(j)]) /\ (log[Fn(j)] # <<>> => Len(log[Fn(j)]) - 1 \in 0 .. Len(log[Fn(j)]))
  BY <1>1, <1>2, LogType
<1>9. \A n : Moved(Fn(j), n)' = Moved(Fn(j), n)
  BY <1>3, <1>4 DEF Moved, Literal
<1>10. InlineWork(j)'
  BY <1>1, <1>3, <1>4, <1>6 DEF Working, InlineWork
<1>11. CopyWork(j)'
  BY <1>1, <1>3, <1>5, <1>9 DEF Working, CopyWork
<1>12. PatchWork(j)'
  <2>1. PatchWork(j)
    BY <1>1 DEF Working
  <2>2. (ipc[j] = "patch" => \A n \in 0 .. word[j] - 1 : code[Fn(j)][n] = Patched(Fn(j), Target(j), n))'
    BY <1>3, <1>4, <2>1 DEF PatchWork
  <2>3. (ipc[j] \in {"patch", "load", "swap"} /\ Hook(j).kind # "replace" =>
           slot[j] # None /\ Continues(slot[j], Fn(j), Len(log[Fn(j)])))'
    <3> SUFFICES ASSUME ipc[j] \in {"patch", "load", "swap"}, Hook(j).kind # "replace"
                 PROVE  slot'[j] # None /\ Continues(slot[j], Fn(j), Len(log[Fn(j)]))'
      BY <1>3
    <3>1. slot[j] # None /\ Continues(slot[j], Fn(j), Len(log[Fn(j)]))
      BY <2>1 DEF PatchWork
    <3>2. Continues(slot[j], Fn(j), Len(log[Fn(j)]))'
      BY <1>2, <1>3, <1>4, <1>7, <1>8, <3>1
    <3> QED BY <1>3, <3>1, <3>2
  <2> QED BY <1>3, <1>4, <2>1, <2>2, <2>3 DEF PatchWork
<1>13. LateWork(j)'
  BY <1>1, <1>2, <1>3, <1>4, <1>7, <1>8 DEF Working, LateWork
<1> QED BY <1>10, <1>11, <1>12, <1>13 DEF Working

LEMMA CallsStays ==
  ASSUME Typed, Grows, NEW f \in Funcs, code'[f] = code[f], log'[f] = log[f],
         Calls(f, Len(log[f]))
  PROVE  Calls(f, Len(log[f]))'
<1>1. CASE Len(log[f]) = 0
  BY <1>1 DEF Calls
<1>2. CASE Len(log[f]) # 0
  <2> DEFINE p == Aim(f)
             h == log[f][Len(log[f])]
  <2>1. h \in Hooks /\ p' = p /\ h' = h
    BY <1>2, LogType DEF Aim
  <2>2. Leads(p, h) /\ \A k \in Words : code[f][k] = Patched(f, p, k)
    BY <1>2 DEF Calls
  <2> HIDE DEF p, h
  <2>3. Leads(p, h)'
    BY <2>1, <2>2 DEF Grows, Leads
  <2>4. \A k \in Words : code'[f][k] = Patched(f, p', k)
    BY <2>1, <2>2
  <2> QED BY <1>2, <2>3, <2>4 DEF Calls, p, h
<1> QED BY <1>1, <1>2

\* A function whose words stay: its installer is at another function or neither
\* writes the patch nor ends the call.
LEMMA ChainStays ==
  ASSUME IInv, HookAssumption, Orderly, NEW i \in Installers, Step(i), NEW f \in Funcs,
         f # Fn(i) \/ ipc[i] \notin {"patch", "swap"},
         f # Fn(i) \/ next'[i] = next[i]
  PROVE  Chain(f)'
<1>1. /\ Chain(f) /\ Typed /\ SlotInv /\ Grows /\ ~Finished(i) /\ Working(i) /\ Fn(i) \in Funcs
      /\ next[i] \in Nat
  BY StepFacts
<1>2. code'[f] = code[f] /\ log'[f] = log[f]
  <2>1. CASE Patch(i)
    BY <1>1, <2>1, LogGrows DEF Patch, Store, Step, Typed, MemoryTyped, At, Installing
  <2>2. CASE Swap(i)
    BY <1>1, <2>2, LogGrows DEF Swap, Store, Step, Typed, MemoryTyped, At, Installing
  <2>3. CASE ~Patch(i) /\ ~Swap(i)
    <3>1. ipc[i] \notin {"patch", "swap"}
      BY <2>3 DEF Step, Install, Start, Grab, Advance, Alloc, Copy, Load, Return, WriteEntry,
                  WriteCallback, At, Installing
    <3> QED BY <1>1, <3>1, InstallLeaves DEF Step
  <2> QED BY <2>1, <2>2, <2>3
<1>3. \A j \in Installers : j # i => /\ Finished(j)' = Finished(j) /\ ipc'[j] = ipc[j]
                                     /\ Fn(j)' = Fn(j)
  BY <1>1, InstallLeaves DEF Step, Finished, Fn, Hook
<1>4. next'[i] = next[i] => /\ Finished(i)' = Finished(i) /\ Fn(i)' = Fn(i)
                            /\ (ipc[i] \in Late => ipc'[i] \in Late)
  BY <1>1, Moves DEF Step, Finished, Fn, Hook, Late, Placing, Holding, Install, Return,
     WriteEntry, WriteCallback, Goto, SlotInv, SlotTypes, At, Installing, Start, Grab, Advance, Alloc, Copy, Patch, Load, Swap
<1>5. ~Half(f)' => Calls(f, Len(log[f]))'
  <2> SUFFICES ASSUME ~Half(f)' PROVE Calls(f, Len(log[f]))'
    OBVIOUS
  <2>1. ~Half(f)
    <3> SUFFICES ASSUME Half(f) PROVE FALSE
      OBVIOUS
    <3>1. PICK j \in Installers : Installing(j, "patch") /\ Fn(j) = f /\ word[j] > 0
      BY DEF Half
    <3>2. j # i
      BY <3>1 DEF Installing
    <3>3. word'[j] = word[j]
      BY <1>1, <3>2, InstallLeaves DEF Step
    <3> QED BY <1>2, <1>3, <3>1, <3>2, <3>3 DEF Half, Installing
  <2> QED BY <1>1, <1>2, <2>1, CallsStays DEF Chain
<1>6. ASSUME NEW m \in 1 .. Len(log'[f])
      PROVE  \/ Published(f, m)'
             \/ m = Len(log'[f]) /\ \E j \in Installers : Busy(j, Late)' /\ Fn(j)' = f
  <2>1. CASE Published(f, m)
    BY <1>1, <1>2, <2>1, PublishedStays
  <2>2. ASSUME m = Len(log[f]), NEW j \in Installers, Busy(j, Late), Fn(j) = f
        PROVE  \E q \in Installers : Busy(q, Late)' /\ Fn(q)' = f
    <3>1. CASE j # i
      BY <1>3, <2>2, <3>1 DEF Busy
    <3>2. CASE j = i
      BY <1>4, <2>2, <3>2 DEF Busy
    <3> QED BY <3>1, <3>2
  <2> QED BY <1>1, <1>2, <2>1, <2>2 DEF Chain
<1> QED BY <1>1, <1>2, <1>5, <1>6 DEF Chain

LEMMA LoggedStays ==
  ASSUME IInv, HookAssumption, Orderly, NEW i \in Installers, Step(i)
  PROVE  Logged'
<1>1. /\ Logged /\ Typed /\ SlotInv /\ ~Finished(i) /\ Working(i)
      /\ next[i] \in DOMAIN plan[i] /\ next[i] \in Nat \ {0} /\ Fn(i) \in Funcs /\ Hook(i) \in Hooks
  BY StepFacts
<1>2. plan' = plan
  BY DEF Step
<1>3. ASSUME NEW j \in Installers, NEW n \in DOMAIN plan[j], Placed(j, n)
      PROVE  Placed(j, n)' /\ (n = next'[j] => n = next[j] /\ next'[j] = next[j])
  <2>0. next[j] \in Nat /\ n \in Nat /\ next'[i] \in Nat
    <3>1. next'[i] = next[i] \/ next'[i] = next[i] + 1
      BY <1>1, Moves DEF Step
    <3> QED BY <1>1, <3>1, HookFacts DEF Typed, InstallersTyped
  <2>1. CASE j # i
    BY <1>1, <1>3, <2>1, InstallLeaves DEF Step, Placed
  <2>2. CASE j = i /\ next'[i] # next[i]
    BY <1>1, <1>3, <2>0, <2>2, Moves DEF Step, Placed
  <2>3. CASE j = i /\ next'[i] = next[i]
    <3>1. ipc[i] \in Late => ipc'[i] \in Late
      BY <1>1, <2>3, Moves
      DEF Step, Late, Placing, Holding, Install, Return, WriteEntry, WriteCallback, Goto, SlotInv,
          SlotTypes, At, Installing, Start, Grab, Advance, Alloc, Copy, Patch, Load, Swap
    <3> QED BY <1>3, <2>0, <2>3, <3>1 DEF Placed
  <2> QED BY <2>1, <2>2, <2>3
<1>4. ASSUME NEW f \in Funcs, NEW m \in 1 .. Len(log[f])
      PROVE  \E j \in Installers : \E n \in DOMAIN plan[j] :
               /\ log[f][m] = plan[j][n] /\ plan[j][n].fn = f /\ Placed(j, n)'
               /\ n = next'[j] => m = Len(log[f]) /\ n = next[j] /\ Placed(j, n)
  BY <1>1, <1>3 DEF Logged
<1>5. ASSUME NEW f \in Funcs, log'[f] = log[f], NEW m \in 1 .. Len(log'[f])
      PROVE  /\ \E j \in Installers : \E n \in DOMAIN plan'[j] :
                  /\ log'[f][m] = plan'[j][n] /\ plan'[j][n].fn = f
                  /\ Placed(j, n)'
                  /\ n = next'[j] => m = Len(log'[f])
             /\ log'[f][m].kind = "inline" => m = 1
  <2>1. m \in 1 .. Len(log[f]) /\ log'[f][m] = log[f][m] /\ Len(log'[f]) = Len(log[f])
    BY <1>5
  <2>2. log[f][m].kind = "inline" => m = 1
    BY <1>1, <2>1 DEF Logged
  <2>3. PICK j \in Installers : \E n \in DOMAIN plan[j] :
               /\ log[f][m] = plan[j][n] /\ plan[j][n].fn = f /\ Placed(j, n)'
               /\ n = next'[j] => m = Len(log[f])
    BY <1>4, <2>1
  <2> QED BY <1>2, <2>1, <2>2, <2>3
<1>6. ASSUME NEW f \in Funcs, log'[f] # log[f], NEW m \in 1 .. Len(log'[f])
      PROVE  /\ \E j \in Installers : \E n \in DOMAIN plan'[j] :
                  /\ log'[f][m] = plan'[j][n] /\ plan'[j][n].fn = f
                  /\ Placed(j, n)'
                  /\ n = next'[j] => m = Len(log'[f])
             /\ log'[f][m].kind = "inline" => m = 1
  <2>1. f = Fn(i) /\ log'[f] = Append(log[f], Hook(i))
    BY <1>1, <1>6, LogGrows DEF Step
  <2>2. Patch(i) \/ Swap(i)
    BY <1>6 DEF Step, Install, Start, Grab, Advance, Alloc, Copy, Load, Return, WriteEntry,
                WriteCallback, memoryVars
  <2>3. ipc[i] \notin Late /\ ipc'[i] = "return" /\ next'[i] = next[i]
    <3>1. CASE Patch(i)
      BY <1>1, <1>6, <3>1 DEF Patch, At, Installing, Late, Goto, SlotInv, SlotTypes
    <3>2. CASE Swap(i)
      BY <1>1, <3>2 DEF Swap, At, Installing, Late, Goto, SlotInv, SlotTypes
    <3> QED BY <2>2, <3>1, <3>2
  <2>4. log[f] \in Seq(Hooks)
    BY <1>1, LogType
  <2>5. CASE m = Len(log'[f])
    <3>1. log'[f][m] = Hook(i) /\ m = Len(log[f]) + 1
      BY <1>1, <2>1, <2>4, <2>5
    <3>2. Placed(i, next[i])'
      BY <2>3 DEF Placed, Late
    <3>3. Hook(i).kind = "inline" => log[f] = <<>>
      BY <1>1, <2>1, <2>3 DEF Working, InlineWork
    <3>4. Hook(i) = plan[i][next[i]] /\ Hook(i).fn = f
      BY <2>1 DEF Hook, Fn
    <3>5. next'[i] = next[i] /\ next[i] \in DOMAIN plan'[i] /\ log'[f][m] = plan'[i][next[i]]
          /\ plan'[i][next[i]].fn = f /\ Placed(i, next[i])'
      BY <1>1, <1>2, <2>3, <3>1, <3>2, <3>4
    <3>6. log'[f][m].kind = "inline" => m = 1
      BY <3>1, <3>3, <2>4
    <3> QED BY <2>5, <3>5, <3>6
  <2>6. CASE m # Len(log'[f])
    <3>1. m \in 1 .. Len(log[f]) /\ log'[f][m] = log[f][m]
      BY <1>1, <2>1, <2>4, <2>6
    <3>0. PICK j \in Installers : \E n \in DOMAIN plan[j] :
            /\ log[f][m] = plan[j][n] /\ plan[j][n].fn = f /\ Placed(j, n)'
            /\ n = next'[j] => n = next[j] /\ Placed(j, n)
      BY <1>4, <3>1
    <3>2. PICK n \in DOMAIN plan[j] :
            /\ log[f][m] = plan[j][n] /\ plan[j][n].fn = f /\ Placed(j, n)'
            /\ n = next'[j] => n = next[j] /\ Placed(j, n)
      BY <3>0
    <3>3. j = i
      <4>1. plan[i][next[i]].fn = f
        BY <2>1 DEF Fn, Hook
      <4> QED BY <1>1, <3>2, <4>1, HooksApart
    <3>4. n # next'[i]
      BY <2>3, <3>2, <3>3, <1>1, HookFacts DEF Placed
    <3>5. log[f][m].kind = "inline" => m = 1
      BY <1>1, <3>1 DEF Logged
    <3> QED BY <1>2, <3>1, <3>2, <3>3, <3>4, <3>5
  <2> QED BY <2>5, <2>6
<1> QED BY <1>5, <1>6 DEF Logged

LEMMA ReservedStays ==
  ASSUME IInv, HookAssumption, Orderly, NEW i \in Installers, Step(i)
  PROVE  Reserved'
<1>1. /\ Reserved /\ Typed /\ SlotInv /\ ~Finished(i) /\ Working(i)
      /\ next[i] \in DOMAIN plan[i] /\ next[i] \in Nat \ {0} /\ Hook(i).cb \in Callbacks
      /\ Hook(i) = plan[i][next[i]]
  BY StepFacts DEF Hook
<1>2. plan' = plan
  BY DEF Step
<1>3. \A j \in Installers : next[j] \in Nat /\ next'[j] \in Nat /\ next'[j] >= next[j]
  <2>1. next'[i] = next[i] \/ next'[i] = next[i] + 1
    BY <1>1, Moves DEF Step
  <2> QED BY <1>1, <2>1, InstallLeaves DEF Step, Typed, InstallersTyped
<1>4. \A cb \in Callbacks : orig'[cb] # orig[cb] => cb = Hook(i).cb /\ next'[i] = next[i] + 1
  <2>1. CASE Return(i)
    BY <1>1, <2>1 DEF Return, SlotInv, SlotTypes, Typed, InstallersTyped
  <2>2. CASE ~Return(i)
    <3>1. ipc[i] # "return"
      BY <2>2 DEF Step, Install, Start, Grab, Advance, Alloc, Copy, Patch, Load, Swap, WriteEntry,
                  WriteCallback, At, Installing
    <3> QED BY <1>1, <3>1, InstallLeaves DEF Step
  <2> QED BY <2>1, <2>2
<1>5. \A e \in 0 .. EntryMax : entries'[e].cb # entries[e].cb =>
        /\ entries'[e].cb = Hook(i).cb /\ e = entry[i] /\ entry[i] < entryIndex
        /\ next'[i] = next[i] + 1
  <2>1. CASE WriteCallback(i)
    <3>1. entry[i] \in 0 .. EntryMax - 1 /\ entry[i] < entryIndex
      BY <1>1, <2>1 DEF WriteCallback, At, Installing, Working, InlineWork, Placing, Holding
    <3> QED BY <1>1, <2>1, <3>1 DEF WriteCallback, Typed, MemoryTyped, InstallersTyped
  <2>2. CASE WriteEntry(i)
    BY <1>1, <2>2 DEF WriteEntry, Typed, MemoryTyped
  <2>3. CASE ~WriteCallback(i) /\ ~WriteEntry(i)
    <3>1. ipc[i] \notin {"entry", "callback"}
      BY <2>3 DEF Step, Install, Start, Grab, Advance, Alloc, Copy, Patch, Load, Swap, Return, At, Installing
    <3> QED BY <1>1, <3>1, InstallLeaves DEF Step
  <2> QED BY <2>1, <2>2, <2>3
<1>6. entryIndex' \in Nat /\ entryIndex' >= entryIndex /\ entryIndex \in Nat
  <2>1. CASE Advance(i)
    BY <1>1, <2>1 DEF Advance, Typed, MemoryTyped
  <2>2. CASE ~Advance(i)
    <3>1. ipc[i] # "advance"
      BY <2>2 DEF Step, Install, Start, Grab, Alloc, Copy, Patch, Load, Swap, Return, WriteEntry,
                  WriteCallback, At, Installing
    <3>2. entryIndex' = entryIndex
      BY <1>1, <3>1, InstallLeaves DEF Step
    <3>3. entryIndex \in Nat
      BY <1>1 DEF Typed, MemoryTyped
    <3> QED BY <3>2, <3>3
  <2> QED BY <2>1, <2>2
<1>7. ASSUME NEW j \in Installers, NEW n \in DOMAIN plan[j], n >= next'[j]
      PROVE  /\ n >= next[j] /\ plan[j][n].cb \in Callbacks /\ plan[j][n].cb # None
             /\ next'[i] = next[i] + 1 => plan[j][n].cb # Hook(i).cb
  <2>1. n \in Nat /\ plan[j][n].cb \in Callbacks
    BY <1>1, HookFacts
  <2>2. next'[i] = next[i] + 1 => i # j \/ next[i] # n
    BY <1>1, <1>7, <2>1
  <2>3. next'[i] = next[i] + 1 => plan[j][n].cb # Hook(i).cb
    BY <1>1, <2>2, HooksApart
  <2> QED BY <1>3, <1>7, <2>1, <2>3 DEF HookAssumption
<1>8. ASSUME NEW j \in Installers, NEW n \in DOMAIN plan[j], n >= next'[j]
      PROVE  /\ orig'[plan[j][n].cb] = None
             /\ \A e \in 0 .. EntryMax : entries'[e].cb # plan[j][n].cb
  <2>1. /\ n >= next[j] /\ plan[j][n].cb \in Callbacks
        /\ next'[i] = next[i] + 1 => plan[j][n].cb # Hook(i).cb
    BY <1>7, <1>8
  <2>2. /\ orig[plan[j][n].cb] = None
        /\ \A e \in 0 .. EntryMax : entries[e].cb # plan[j][n].cb
    BY <1>1, <2>1 DEF Reserved
  <2> QED BY <1>4, <1>5, <2>1, <2>2
<1>9. \A e \in 0 .. EntryMax : e >= entryIndex' => entries'[e].cb = None
  <2> SUFFICES ASSUME NEW e \in 0 .. EntryMax, e >= entryIndex' PROVE entries'[e].cb = None
    OBVIOUS
  <2>1. e >= entryIndex
    BY <1>6
  <2>2. entries[e].cb = None
    BY <1>1, <2>1 DEF Reserved
  <2>3. CASE entries'[e].cb = entries[e].cb
    BY <2>2, <2>3
  <2>4. CASE entries'[e].cb # entries[e].cb
    <3>1. e < entryIndex
      BY <1>5, <2>4
    <3> QED BY <1>6, <2>1, <3>1
  <2> QED BY <2>3, <2>4
<1>10. \A d, e \in 0 .. EntryMax : entries'[d].cb = entries'[e].cb /\ entries'[d].cb # None => d = e
  <2>1. \A e \in 0 .. EntryMax : entries[e].cb # Hook(i).cb
    BY <1>1 DEF Reserved
  <2> QED BY <1>1, <1>5, <2>1 DEF Reserved
<1> QED BY <1>2, <1>8, <1>9, <1>10 DEF Reserved

\* What was run before, and what would be expected of it, does not depend on
\* later hooks.
LEMMA ExpectedStays ==
  ASSUME Typed, Grows, NEW f \in Funcs, NEW n \in 0 .. Len(log[f])
  PROVE  /\ \A m \in 0 .. n : Ran(f, m, n)' = Ran(f, m, n)
         /\ Skipped(f, n)' = Skipped(f, n)
         /\ \A done : Expected(f, n, done) => Expected(f, n, done)'
<1>1. \A m \in 1 .. n : log'[f][m] = log[f][m]
  BY LogType DEF Grows
<1>2. \A m \in 0 .. n : Ran(f, m, n)' = Ran(f, m, n)
  <2> SUFFICES ASSUME NEW m \in 0 .. n PROVE Ran(f, m, n)' = Ran(f, m, n)
    OBVIOUS
  <2>1. \A k \in 1 .. n - m : n + 1 - k \in 1 .. n
    BY LogType
  <2>2. \A k \in 1 .. n - m : log'[f][n + 1 - k] = log[f][n + 1 - k]
    BY <1>1, <2>1
  <2> QED BY <2>2 DEF Ran
<1>3. Skipped(f, n)' = Skipped(f, n)
  BY <1>1, LogType DEF Skipped
<1>4. ASSUME NEW done, Expected(f, n, done) PROVE Expected(f, n, done)'
  <2>1. PICK m \in 0 .. n :
          /\ \A l \in m + 1 .. n : ~Replaces(log[f][l])
          /\ IF m = 0 THEN done = Ran(f, 0, n) \o Bodies(Skipped(f, n), 5)
                      ELSE Replaces(log[f][m]) /\ done = Ran(f, m - 1, n)
    BY <1>4 DEF Expected
  <2>2. \A l \in m + 1 .. n : ~Replaces(log'[f][l])
    BY <1>1, <2>1, LogType
  <2>3. CASE m = 0
    BY <1>2, <1>3, <2>1, <2>2, <2>3, LogType DEF Expected
  <2>4. CASE m # 0
    <3>1. m - 1 \in 0 .. n /\ m \in 1 .. n
      BY <2>4, LogType
    <3>2. Replaces(log'[f][m]) /\ done = Ran(f, m - 1, n)'
      BY <1>1, <1>2, <2>1, <2>4, <3>1
    <3> QED BY <2>2, <2>4, <3>2 DEF Expected
  <2> QED BY <2>3, <2>4
<1> QED BY <1>2, <1>3, <1>4

LEMMA AtHookStays ==
  ASSUME Typed, Grows, NEW c \in Callers, NEW f \in Funcs,
         at'[c] = at[c], x17'[c] = x17[c], trace'[c] = trace[c],
         NEW n \in 0 .. Len(log[f]), NEW m \in 0 .. n, AtHook(c, f, m, n)
  PROVE  AtHook(c, f, m, n)'
<1>1. m > 0 /\ m \in 1 .. Len(log[f]) /\ m \in 0 .. Len(log[f])
  BY LogType DEF AtHook
<1>2. trace'[c] = Ran(f, m, n)'
  BY ExpectedStays DEF AtHook
<1>3. CASE Leads(at[c], log[f][m])
  <2> DEFINE p == at[c]
             h == log[f][m]
  <2>1. h \in Hooks /\ p' = p /\ h' = h
    BY <1>1, LogType DEF Grows
  <2>2. Leads(p, h)
    BY <1>3
  <2> HIDE DEF p, h
  <2>3. Leads(p, h)'
    BY <2>1, <2>2 DEF Grows, Leads
  <2> QED BY <1>1, <1>2, <2>3 DEF AtHook, p, h
<1>4. CASE ~Leads(at[c], log[f][m])
  <2> DEFINE s == at[c].id
  <2>1. /\ at[c].in = "tramp" /\ Continues(s, f, m) /\ at[c].pc \in 0 .. Jumps(f)
        /\ f \in Far /\ at[c].pc = Jumps(f) => x17[c] = AimOf(s, f)
    BY <1>4 DEF AtHook
  <2>2. s' = s
    OBVIOUS
  <2> HIDE DEF s
  <2>3. Continues(s, f, m)'
    BY <1>1, <2>1, <2>2, ContinuesStays
  <2>4. AimOf(s, f)' = AimOf(s, f)
    BY <2>1, <2>2 DEF Continues, Grows, AimOf
  <2> QED BY <1>1, <1>2, <2>1, <2>2, <2>3, <2>4 DEF AtHook, s
<1> QED BY <1>3, <1>4

LEMMA InBodyStays ==
  ASSUME Typed, HookAssumption, Grows, NEW c \in Callers, NEW f \in Funcs,
         at'[c] = at[c], x17'[c] = x17[c], trace'[c] = trace[c],
         NEW n \in 0 .. Len(log[f]), InBody(c, f, n),
         f \in Far /\ log[f] = <<>> /\ Inside(c, f) => log'[f] = log[f]
  PROVE  InBody(c, f, n)'
<1>1. Ran(f, 0, n)' = Ran(f, 0, n) /\ Skipped(f, n)' = Skipped(f, n) /\ 0 \in 0 .. Len(log[f])
  BY ExpectedStays, LogType
<1> DEFINE s == at[c].id
<1>2. s' = s
  OBVIOUS
<1> HIDE DEF s
<1>3. Continues(s, f, 0) => Continues(s, f, 0)'
  BY <1>1, <1>2, ContinuesStays
<1>4. ASSUME at[c].in = "code", at[c].id = f, at[c].pc > 0, n = 0, f \in Far, log[f] = <<>>
      PROVE  at[c].pc >= Count(f) \/ log'[f] = <<>>
  <2>1. Skipped(f, n) = 0 /\ at[c].pc \in 0 .. 5 /\ Count(f) \in 1 .. 5
    BY <1>4, PatchFacts DEF InBody, Skipped
  <2>2. at[c].pc >= Count(f) \/ Inside(c, f)
    BY <1>4, <2>1 DEF Inside
  <2> QED BY <1>4, <2>2
<1> QED BY <1>1, <1>2, <1>3, <1>4 DEF InBody, s

LEMMA CallingKept ==
  ASSUME Typed, Typed', HookAssumption, Grows, NEW c \in Callers, Calling(c),
         at'[c] = at[c], x17'[c] = x17[c], trace'[c] = trace[c], call'[c] = call[c],
         torn[c] => torn'[c],
         ~torn'[c] => \A g \in Far : log[g] = <<>> /\ Inside(c, g) => log'[g] = log[g]
  PROVE  Calling(c)'
<1> SUFFICES ASSUME ~torn[c], ~torn'[c], at[c].in # "idle" PROVE Calling(c)'
  BY DEF Calling
<1>1. PICK f \in Funcs : f = call[c].fn
  BY DEF Calling
<1>2. PICK since \in Nat : since = call[c].since
  BY DEF Typed, CallersTyped
<1>3. since <= Len(log[f]) /\ Len(log[f]) \in Nat /\ Len(log[f]) <= Len(log'[f]) /\ Len(log'[f]) \in Nat
  <2>1. log'[f] \in Seq(Hooks)
    BY DEF Typed, MemoryTyped
  <2> QED BY <1>1, <1>2, <2>1, LogType DEF Calling, Grows
<1>4. ASSUME NEW n \in 0 .. Len(log[f])
      PROVE  /\ \A done : Expected(f, n, done) => Expected(f, n, done)'
             /\ \A l \in 1 .. n : log'[f][l] = log[f][l]
  <2>1. \A l \in 1 .. n : l \in 1 .. Len(log[f])
    BY <1>3
  <2> QED BY <2>1, ExpectedStays DEF Grows
<1>5. \A n \in since .. Len(log[f]) : n \in since .. Len(log'[f]) /\ n \in 0 .. Len(log[f])
  BY <1>3
<1>6. f \in Far /\ log[f] = <<>> /\ Inside(c, f) => log'[f] = log[f]
  OBVIOUS
<1>7. CASE at[c].in = "done" /\ AsExpected(c)
  <2>1. PICK n \in since .. Len(log[f]) : Expected(f, n, trace[c])
    BY <1>1, <1>2, <1>7 DEF AsExpected
  <2>2. PICK done : done = trace[c]
    OBVIOUS
  <2>3. Expected(f, n, done)' /\ n \in since .. Len(log'[f])
    BY <1>4, <1>5, <2>1, <2>2
  <2>4. AsExpected(c)'
    BY <1>1, <1>2, <2>2, <2>3 DEF AsExpected
  <2> QED BY <1>1, <1>2, <1>3, <1>7, <2>4 DEF Calling
<1>8. CASE Arriving(c, f)
  <2>1. log[f] # <<>> => log'[f] # <<>>
    <3>1. log'[f] \in Seq(Hooks) /\ log[f] \in Seq(Hooks)
      BY DEF Typed, MemoryTyped
    <3> QED BY <1>3, <3>1
  <2>2. ASSUME NEW n \in since .. Len(log[f]), n > 0, Leads(x17[c], log[f][n])
        PROVE  n \in since .. Len(log'[f]) /\ Leads(x17[c], log[f][n])'
    <3> DEFINE p == x17[c]
               h == log[f][n]
    <3>1. n \in since .. Len(log'[f]) /\ n \in 1 .. Len(log[f])
      BY <1>3, <2>2
    <3>2. h \in Hooks /\ p' = p /\ h' = h
      BY <3>1, LogType DEF Grows
    <3>3. Leads(p, h)
      BY <2>2
    <3> HIDE DEF p, h
    <3>4. Leads(p, h)'
      BY <3>2, <3>3 DEF Grows, Leads
    <3> QED BY <3>1, <3>4 DEF p, h
  <2>3. Arriving(c, f)'
    BY <1>1, <1>2, <1>8, <2>1, <2>2 DEF Arriving
  <2> QED BY <1>1, <1>2, <1>3, <2>3 DEF Calling
<1>9. ASSUME NEW n \in since .. Len(log[f]), NEW m \in 0 .. n,
             \A l \in m + 1 .. n : ~Replaces(log[f][l]),
             AtHook(c, f, m, n) \/ (m = 0 /\ InBody(c, f, n))
      PROVE  Calling(c)'
  <2>1. n \in 0 .. Len(log[f]) /\ n \in since .. Len(log'[f])
    BY <1>5
  <2>2. \A l \in m + 1 .. n : l \in 1 .. n
    BY <2>1
  <2>3. \A l \in m + 1 .. n : ~Replaces(log'[f][l])
    BY <1>4, <1>9, <2>1, <2>2
  <2>4. AtHook(c, f, m, n) => AtHook(c, f, m, n)'
    BY <2>1, AtHookStays
  <2>5. InBody(c, f, n) => InBody(c, f, n)'
    BY <1>6, <2>1, InBodyStays
  <2> QED BY <1>1, <1>2, <1>3, <1>9, <2>1, <2>3, <2>4, <2>5 DEF Calling
<1> QED BY <1>1, <1>2, <1>7, <1>8, <1>9 DEF Calling

-----------------------------------------------------------------------------
\* Types, for the installers.

LEMMA AppendType ==
  ASSUME NEW S, NEW s \in Seq(S), NEW e \in S
  PROVE  /\ Append(s, e) \in Seq(S) /\ Len(Append(s, e)) = Len(s) + 1
         /\ \A k \in 1 .. Len(s) : Append(s, e)[k] = s[k]
         /\ Append(s, e)[Len(s) + 1] = e
OBVIOUS

LEMMA WordTypes ==
  ASSUME NEW p \in Places
  PROVE  /\ B(p) \in CodeWords /\ Lit(p) \in CodeWords /\ W("ldrc", p, 0) \in CodeWords
         /\ Nop \in CodeWords /\ Ldr \in CodeWords /\ Br \in CodeWords /\ LitHigh \in CodeWords
         /\ \A k \in Words : Body(k) \in CodeWords
BY DEF B, Lit, W, Nop, Ldr, Br, LitHigh, Body, CodeWords, Ops, Words

LEMMA PlaceTypes ==
  ASSUME HookAssumption
  PROVE  /\ Junk \in Places /\ Nowhere \in Places
         /\ \A cb \in Callbacks : Callback(cb) \in Places
         /\ \A e \in Int : Entry(e) \in Places
BY DEF Junk, Nowhere, Callback, Entry, Place, Places

LEMMA MovedType ==
  ASSUME HookAssumption, Typed, NEW f \in Funcs, NEW k \in Words
  PROVE  Moved(f, k) \in CodeWords /\ Literal(f, k + 2) \in Places
<1>1. \A l \in Words : code[f][l] \in CodeWords
  BY DEF Typed, MemoryTyped
<1>2. Literal(f, k + 2) \in Places
  BY <1>1, PlaceTypes DEF Literal, CodeWords
<1> QED BY <1>1, <1>2, WordTypes DEF Moved

LEMMA TargetType ==
  ASSUME IInv, HookAssumption, NEW i \in Installers, Step(i), ipc[i] \in Placing
  PROVE  Target(i) \in Places
<1>1. Working(i) /\ Hook(i).cb \in Callbacks
  BY StepFacts
<1>2. Hook(i).kind = "inline" => entry[i] \in Int
  BY <1>1 DEF Working, InlineWork
<1> QED BY <1>1, <1>2, PlaceTypes DEF Target

\* What copying a word writes.
LEMMA CopyWrites ==
  ASSUME Typed, NEW i \in Installers, Copy(i), slot[i] \in 0 .. HookMax
  PROVE  /\ tramp'[slot[i]].words = Append(tramp[slot[i]].words, Moved(Fn(i), word[i]))
         /\ tramp'[slot[i]].fn = Fn(i) /\ tramp'[slot[i]].resume = word[i] + 1
         /\ Append(tramp[slot[i]].words, Moved(Fn(i), word[i])) \in SlotWords /\ Fn(i) \in Funcs
            /\ word[i] \in Nat =>
              tramp' \in [0 .. HookMax -> [words : SlotWords, fn : Funcs \cup {None}, resume : Nat]]
<1> DEFINE ws == Append(tramp[slot[i]].words, Moved(Fn(i), word[i]))
           s == slot[i]
<1>1. tramp' = [tramp EXCEPT ![s].words = ws, ![s].fn = Fn(i), ![s].resume = word[i] + 1]
  BY DEF Copy
<1>2. tramp \in [0 .. HookMax -> [words : SlotWords, fn : Funcs \cup {None}, resume : Nat]]
  BY DEF Typed, MemoryTyped
<1> HIDE DEF ws, s
<1>3. s \in 0 .. HookMax
  BY DEF s
<1>4. tramp'[s].words = ws /\ tramp'[s].fn = Fn(i) /\ tramp'[s].resume = word[i] + 1
  BY <1>1, <1>2, <1>3
<1>5. ws \in SlotWords /\ Fn(i) \in Funcs /\ word[i] \in Nat =>
        tramp' \in [0 .. HookMax -> [words : SlotWords, fn : Funcs \cup {None}, resume : Nat]]
  <2> SUFFICES ASSUME ws \in SlotWords, Fn(i) \in Funcs, word[i] + 1 \in Nat
               PROVE  tramp' \in [0 .. HookMax -> [words : SlotWords, fn : Funcs \cup {None}, resume : Nat]]
    OBVIOUS
  <2> DEFINE Slot == [words : SlotWords, fn : Funcs \cup {None}, resume : Nat]
  <2>1. tramp'[s] = [words |-> ws, fn |-> Fn(i), resume |-> word[i] + 1]
    BY <1>1, <1>2, <1>3
  <2>2. tramp'[s] \in Slot
    BY <2>1
  <2>3. DOMAIN tramp' = 0 .. HookMax /\ tramp' = [d \in 0 .. HookMax |-> tramp'[d]]
    BY <1>1, <1>2
  <2>4. \A d \in 0 .. HookMax : d # s => tramp'[d] = tramp[d]
    BY <1>1, <1>2
  <2>5. \A d \in 0 .. HookMax : tramp'[d] \in Slot
    BY <1>2, <2>2, <2>4
  <2> HIDE DEF Slot
  <2>6. tramp' \in [0 .. HookMax -> Slot]
    BY <2>3, <2>5
  <2> QED BY <2>6 DEF Slot
<1> QED BY <1>4, <1>5 DEF ws, s

LEMMA CopyTyped ==
  ASSUME IInv, HookAssumption, NEW i \in Installers, Step(i), Copy(i)
  PROVE  InstallersTyped' /\ MemoryTyped'
<1>1. /\ Typed /\ SlotInv /\ Working(i) /\ Fn(i) \in Funcs /\ ipc[i] = "copy"
      /\ plan' = plan
  BY StepFacts DEF Copy, At, Installing, Step
<1>2. /\ slot[i] \in 0 .. HookMax /\ word[i] \in Words /\ word[i] < Count(Fn(i)) /\ word[i] + 1 \in Nat
      /\ Len(tramp[slot[i]].words) = word[i] /\ Count(Fn(i)) \in 1 .. 5
  BY <1>1, PatchFacts
  DEF Working, CopyWork, SlotInv, SlotTypes, Slots, Typed, InstallersTyped, Words, Count
<1>3. Append(tramp[slot[i]].words, Moved(Fn(i), word[i])) \in SlotWords
  <2>1. tramp[slot[i]].words \in Seq(CodeWords) /\ Moved(Fn(i), word[i]) \in CodeWords
    BY <1>1, <1>2, MovedType DEF Typed, MemoryTyped, SlotWords
  <2> QED BY <1>2, <2>1, AppendType DEF SlotWords
<1>4. InstallersTyped'
  <2>1. word' \in [Installers -> Words]
    <3>1. word[i] + 1 < Count(Fn(i)) => word[i] + 1 \in Words
      BY <1>2 DEF Words
    <3>2. \/ word' = [word EXCEPT ![i] = 0]
          \/ word' = [word EXCEPT ![i] = word[i] + 1] /\ word[i] + 1 < Count(Fn(i))
      BY DEF Copy
    <3>3. word \in [Installers -> Words] /\ 0 \in Words
      BY <1>1 DEF Typed, InstallersTyped, Words
    <3> QED BY <3>1, <3>2, <3>3
  <2> QED BY <1>1, <2>1 DEF Copy, Typed, InstallersTyped
<1>5. tramp' \in [0 .. HookMax -> [words : SlotWords, fn : Funcs \cup {None}, resume : Nat]]
  BY <1>1, <1>2, <1>3, CopyWrites DEF Words
<1>6. MemoryTyped'
  BY <1>1, <1>5 DEF Copy, Typed, MemoryTyped
<1> QED BY <1>4, <1>6

LEMMA PatchWords ==
  ASSUME HookAssumption, Typed, NEW i \in Installers, ~Finished(i), Fn(i) \in Far,
         NEW k \in Nat, k < Jumps(Fn(i)) + 2
  PROVE  /\ Len(FarPatch(i)) = Jumps(Fn(i)) + 2
         /\ FarPatch(i)[k + 1] = Patched(Fn(i), Target(i), k)
BY CurrentHook DEF FarPatch, Patched, Jumps, First

LEMMA CodeTyped ==
  ASSUME IInv, HookAssumption, NEW i \in Installers, Step(i), Patch(i) \/ Swap(i)
  PROVE  InstallersTyped' /\ MemoryTyped'
<1>1. /\ Typed /\ SlotInv /\ Working(i) /\ Fn(i) \in Funcs /\ ipc[i] \in {"patch", "swap"}
      /\ plan' = plan /\ ~Finished(i) /\ Hook(i) \in Hooks
  BY StepFacts DEF Patch, Swap, At, Installing, Step
<1>2. Target(i) \in Places
  BY <1>1, TargetType DEF Placing, Holding
<1>3. CASE Patch(i)
  <2> DEFINE f == Fn(i)
             k == word[i]
             w == FarPatch(i)[k + 1]
  <2>1. /\ f \in Far /\ k < Jumps(f) + 2 /\ k \in Words
        /\ Len(FarPatch(i)) = Jumps(f) + 2 /\ w = Patched(f, Target(i), k)
    <3>1. f \in Far /\ k < Jumps(f) + 2
      BY <1>1, <1>3 DEF Patch, At, Installing, Working, PatchWork
    <3>2. k \in Words /\ k \in Nat
      BY <1>1 DEF Typed, InstallersTyped, Words
    <3> HIDE DEF k
    <3> QED BY <1>1, <3>1, <3>2, PatchWords DEF w
  <2>2. k + 1 \in Words /\ w \in CodeWords /\ LitHigh \in CodeWords
    BY <1>1, <1>2, <2>1, PatchFacts, WordTypes DEF Patched, Words
  <2>3. code \in [Funcs -> [Words -> CodeWords]]
    BY <1>1 DEF Typed, MemoryTyped
  <2>4. code' \in [Funcs -> [Words -> CodeWords]]
    <3>1. CASE k + 1 = Len(FarPatch(i))
      <4>1. code' = [code EXCEPT ![f][k] = w, ![f][k + 1] = LitHigh]
        BY <1>3, <3>1 DEF Patch
      <4> QED BY <1>1, <2>1, <2>2, <2>3, <4>1
    <3>2. CASE k + 1 # Len(FarPatch(i))
      <4>1. code' = [code EXCEPT ![f][k] = w]
        BY <1>3, <3>2 DEF Patch, Store
      <4> QED BY <1>1, <2>1, <2>2, <2>3, <4>1
    <3> QED BY <3>1, <3>2
  <2>5. word' \in [Installers -> Words]
    BY <1>1, <1>3, <2>2 DEF Patch, Typed, InstallersTyped
  <2>6. log' \in [Funcs -> Seq(Hooks)]
    <3>1. log' = log \/ log' = [log EXCEPT ![f] = Append(log[f], Hook(i))]
      BY <1>3 DEF Patch, Written
    <3>2. log \in [Funcs -> Seq(Hooks)] /\ Append(log[f], Hook(i)) \in Seq(Hooks)
      BY <1>1, AppendType DEF Typed, MemoryTyped
    <3> QED BY <3>1, <3>2
  <2> QED BY <1>1, <1>3, <2>4, <2>5, <2>6 DEF Patch, Typed, MemoryTyped, InstallersTyped
<1>4. CASE Swap(i)
  <2>1. code' \in [Funcs -> [Words -> CodeWords]]
    <3>1. code' = code \/ code' = [code EXCEPT ![Fn(i)][0] = B(Target(i))]
      BY <1>4 DEF Swap, Store
    <3>2. code \in [Funcs -> [Words -> CodeWords]] /\ B(Target(i)) \in CodeWords /\ 0 \in Words
      BY <1>1, <1>2, WordTypes DEF Typed, MemoryTyped, Words
    <3> DEFINE b == B(Target(i))
    <3> HIDE DEF b
    <3>3. code' = code \/ code' = [code EXCEPT ![Fn(i)][0] = b]
      BY <3>1 DEF b
    <3>4. b \in CodeWords
      BY <3>2 DEF b
    <3>5. [code[Fn(i)] EXCEPT ![0] = b] \in [Words -> CodeWords]
      BY <1>1, <3>2, <3>4
    <3>6. code' = code \/ code' = [code EXCEPT ![Fn(i)] = [code[Fn(i)] EXCEPT ![0] = b]]
      BY <3>3
    <3> QED BY <1>1, <3>2, <3>5, <3>6
  <2>2. log' \in [Funcs -> Seq(Hooks)]
    <3>1. log' = [log EXCEPT ![Fn(i)] = Append(log[Fn(i)], Hook(i))]
      BY <1>4 DEF Swap, Written
    <3>2. log \in [Funcs -> Seq(Hooks)] /\ Append(log[Fn(i)], Hook(i)) \in Seq(Hooks)
      BY <1>1, AppendType DEF Typed, MemoryTyped
    <3> QED BY <3>1, <3>2
  <2> QED BY <1>1, <1>4, <2>1, <2>2 DEF Swap, Typed, MemoryTyped, InstallersTyped
<1> QED BY <1>3, <1>4

LEMMA EntryTypes ==
  ASSUME NEW t \in [0 .. EntryMax -> [slot : Slots, skip : Nat, cb : Callbacks \cup {None}]],
         NEW e \in 0 .. EntryMax, NEW s \in Slots, NEW k \in Nat, NEW c \in Callbacks
  PROVE  /\ [t EXCEPT ![e].slot = s, ![e].skip = k]
              \in [0 .. EntryMax -> [slot : Slots, skip : Nat, cb : Callbacks \cup {None}]]
         /\ [t EXCEPT ![e].cb = c]
              \in [0 .. EntryMax -> [slot : Slots, skip : Nat, cb : Callbacks \cup {None}]]
OBVIOUS

LEMMA InstallTyped ==
  ASSUME IInv, HookAssumption, NEW i \in Installers, Step(i)
  PROVE  Typed'
<1>1. /\ Typed /\ SlotInv /\ Working(i) /\ Fn(i) \in Funcs /\ Hook(i).cb \in Callbacks
      /\ ~Finished(i) /\ next[i] \in Nat \ {0} /\ plan' = plan
      /\ Len(plan[i]) \in Nat
  <2>1. plan[i] \in Seq(Hooks)
    BY HookFacts, StepFacts
  <2> QED BY <2>1, StepFacts DEF Step
<1>2. plan' \in Plans /\ CallersTyped' /\ crash' = "no"
  <2>1. /\ UNCHANGED <<at, x17, trace, call>>
        /\ torn' \in [Callers -> BOOLEAN] /\ \A c \in Callers : torn[c] => torn'[c]
    BY <1>1, InstallLeaves DEF Step
  <2>2. CallersTyped'
    BY <1>1, <2>1 DEF Typed, CallersTyped
  <2> QED BY <1>1, <2>2 DEF Step, Typed
<1>3. InstallersTyped' /\ MemoryTyped'
  <2> USE DEF Typed, InstallersTyped, MemoryTyped
  <2>1. CASE Start(i)
    <3>1. word' = [word EXCEPT ![i] = 0] /\ UNCHANGED <<next, entry, expect, memoryVars>>
      BY <2>1 DEF Start
    <3>2. UNCHANGED <<next, entry, expect, entryIndex, code, tramp, entries, log>>
      BY <3>1 DEF memoryVars
    <3>3. word' \in [Installers -> Words]
      BY <1>1, <3>1 DEF Words
    <3>4. InstallersTyped'
      BY <1>1, <3>2, <3>3
    <3>5. MemoryTyped'
      BY <1>1, <3>2
    <3> QED BY <3>4, <3>5
  <2>2. CASE Grab(i)
    <3>1. entryIndex \in 0 .. EntryMax
      <4>1. entryIndex < EntryMax /\ entryIndex \in Nat
        BY <1>1, <2>2 DEF Grab, At, Installing, Working, InlineWork
      <4> QED BY <4>1, HookAssumption
    <3>2. /\ entry' = [entry EXCEPT ![i] = entryIndex] /\ UNCHANGED <<next, word, expect>>
          /\ UNCHANGED <<entryIndex, code, tramp, entries, log>>
      BY <2>2 DEF Grab, memoryVars
    <3>3. InstallersTyped'
      BY <1>1, <3>1, <3>2
    <3>4. MemoryTyped'
      BY <1>1, <3>2
    <3> QED BY <3>3, <3>4
  <2>3. CASE Advance(i)
    <3>1. /\ entryIndex' = entryIndex + 1
          /\ UNCHANGED <<next, slot, entry, word, expect, index, code, tramp, orig, entries, log>>
      BY <2>3 DEF Advance
    <3>2. entryIndex' \in Nat
      BY <1>1, <3>1
    <3>3. MemoryTyped'
      BY <1>1, <3>1, <3>2
    <3>4. InstallersTyped'
      BY <1>1, <3>1
    <3> QED BY <3>3, <3>4
  <2>4. CASE Alloc(i)
    <3>1. /\ index + 1 \in 0 .. HookMax /\ tramp' = [tramp EXCEPT ![index + 1].words = <<>>]
      BY <1>1, <1>2, <2>4 DEF Alloc, SlotInv, SlotTypes
    <3>2. <<>> \in SlotWords
      BY DEF SlotWords
    <3>3. tramp' \in [0 .. HookMax -> [words : SlotWords, fn : Funcs \cup {None}, resume : Nat]]
      <4>1. tramp[index + 1] \in [words : SlotWords, fn : Funcs \cup {None}, resume : Nat]
        BY <1>1, <3>1
      <4> DEFINE s == index + 1
      <4>2. s \in 0 .. HookMax /\ tramp' = [tramp EXCEPT ![s].words = <<>>]
        BY <3>1
      <4>3. tramp \in [0 .. HookMax -> [words : SlotWords, fn : Funcs \cup {None}, resume : Nat]]
        BY <1>1
      <4> HIDE DEF s
      <4> QED BY <3>2, <4>2, <4>3
    <3> QED BY <1>1, <2>4, <3>3 DEF Alloc
  <2>5. CASE Copy(i)
    BY <2>5, CopyTyped
  <2>6. CASE Patch(i) \/ Swap(i)
    BY <2>6, CodeTyped
  <2>7. CASE Load(i)
    <3>1. code[Fn(i)][0] \in CodeWords
      BY <1>1 DEF Words
    <3> QED BY <1>1, <2>7, <3>1 DEF Load, memoryVars
  <2>8. CASE Return(i)
    <3>1. next' = next \/ next' = [next EXCEPT ![i] = next[i] + 1]
      BY <2>8 DEF Return
    <3>2. InstallersTyped'
      <4>1. next[i] \in Nat \ {0} /\ next[i] <= Len(plan[i])
        BY <1>1 DEF Finished
      <4>2. next \in [Installers -> Nat \ {0}] /\ \A j \in Installers : next[j] <= Len(plan[j]) + 1
        BY <1>1
      <4>3. next' \in [Installers -> Nat \ {0}]
        BY <3>1, <4>1, <4>2
      <4>4. \A j \in Installers : next'[j] = next[j] \/ (j = i /\ next'[j] = next[i] + 1)
        BY <3>1, <4>2
      <4>5. \A j \in Installers : next'[j] <= Len(plan[j]) + 1
        <5> SUFFICES ASSUME NEW j \in Installers PROVE next'[j] <= Len(plan[j]) + 1
          OBVIOUS
        <5>1. CASE next'[j] = next[j]
          BY <4>2, <5>1
        <5>2. CASE j = i /\ next'[j] = next[i] + 1
          BY <1>1, <4>1, <5>2
        <5> QED BY <4>4, <5>1, <5>2
      <4>6. UNCHANGED <<entry, word, expect>>
        BY <2>8 DEF Return
      <4> QED BY <1>1, <4>3, <4>5, <4>6
    <3>3. MemoryTyped'
      <4>1. UNCHANGED <<entryIndex, code, tramp, entries, log>>
        BY <2>8 DEF Return
      <4> QED BY <1>1, <4>1
    <3> QED BY <3>2, <3>3
  <2>9. CASE WriteEntry(i)
    <3>1. entry[i] \in 0 .. EntryMax /\ slot[i] \in Slots /\ BranchSkip \in Nat
      BY <1>1, <2>9 DEF WriteEntry, At, Installing, Working, InlineWork, Placing, Holding, BranchSkip, SlotInv, SlotTypes
    <3>2. entries' \in [0 .. EntryMax -> [slot : Slots, skip : Nat, cb : Callbacks \cup {None}]]
      <4>1. entries' = [entries EXCEPT ![entry[i]].slot = slot[i], ![entry[i]].skip = BranchSkip]
        BY <2>9 DEF WriteEntry
      <4>2. entries \in [0 .. EntryMax -> [slot : Slots, skip : Nat, cb : Callbacks \cup {None}]]
        BY <1>1
      <4> HIDE DEF Typed, InstallersTyped, MemoryTyped
      <4> QED BY <1>1, <3>1, <4>1, <4>2, EntryTypes
    <3>3. UNCHANGED <<next, slot, entry, word, expect, entryIndex, code, tramp, log>>
      BY <2>9 DEF WriteEntry
    <3> QED BY <1>1, <3>2, <3>3
  <2>10. CASE WriteCallback(i)
    <3>1. entry[i] \in 0 .. EntryMax
      BY <1>1, <2>10 DEF WriteCallback, At, Installing, Working, InlineWork, Placing, Holding
    <3>2. entries' \in [0 .. EntryMax -> [slot : Slots, skip : Nat, cb : Callbacks \cup {None}]]
      <4>1. entries' = [entries EXCEPT ![entry[i]].cb = Hook(i).cb]
        BY <2>10 DEF WriteCallback
      <4>2. entries \in [0 .. EntryMax -> [slot : Slots, skip : Nat, cb : Callbacks \cup {None}]]
        BY <1>1
      <4>3. None \in Slots /\ 0 \in Nat
        BY DEF Slots
      <4> HIDE DEF Typed, InstallersTyped, MemoryTyped
      <4> QED BY <1>1, <3>1, <4>1, <4>2, <4>3, EntryTypes
    <3>3. /\ next' = [next EXCEPT ![i] = next[i] + 1]
          /\ UNCHANGED <<slot, entry, word, expect, entryIndex, code, tramp, log>>
      BY <2>10 DEF WriteCallback
    <3>4. \A j \in Installers : next'[j] \in Nat \ {0} /\ next'[j] <= Len(plan[j]) + 1
      <4>1. next[i] <= Len(plan[i])
        BY <1>1 DEF Finished
      <4>2. \A j \in Installers : next[j] \in Nat \ {0} /\ next[j] <= Len(plan[j]) + 1
        BY <1>1
      <4>3. \A j \in Installers : j # i => next'[j] = next[j]
        BY <1>1, <3>3
      <4>4. next'[i] = next[i] + 1
        BY <1>1, <3>3
      <4> HIDE DEF Typed, InstallersTyped, MemoryTyped
      <4> QED BY <1>1, <4>1, <4>2, <4>3, <4>4
    <3>5. next' \in [Installers -> Nat \ {0}]
      <4>1. next \in [Installers -> Nat \ {0}] /\ next[i] + 1 \in Nat \ {0}
        BY <1>1
      <4> HIDE DEF Typed, InstallersTyped, MemoryTyped
      <4> QED BY <3>3, <4>1
    <3> QED BY <1>1, <3>2, <3>3, <3>4, <3>5
  <2> QED
    BY <2>1, <2>2, <2>3, <2>4, <2>5, <2>6, <2>7, <2>8, <2>9, <2>10 DEF Step, Install
<1> QED BY <1>2, <1>3 DEF Typed

LEMMA CallingStays ==
  ASSUME IInv, HookAssumption, Orderly, NEW i \in Installers, Step(i), NEW c \in Callers
  PROVE  Calling(c)'
<1>1. /\ Typed /\ SlotInv /\ Grows /\ Working(i) /\ Calling(c) /\ Fn(i) \in Funcs
      /\ UNCHANGED <<at, x17, trace, call>> /\ (torn[c] => torn'[c])
  BY StepFacts, InstallLeaves DEF IInv, Chained, Step
<1>2. ~torn'[c] => \A g \in Far : log[g] = <<>> /\ Inside(c, g) => log'[g] = log[g]
  <2> SUFFICES ASSUME NEW g \in Far, log[g] = <<>>, Inside(c, g), log'[g] # log[g] PROVE torn'[c]
    OBVIOUS
  <2>1. g = Fn(i)
    BY <1>1, LogGrows DEF Step, HookAssumption
  <2>2. CASE Patch(i)
    BY <2>1, <2>2 DEF Patch
  <2>3. CASE Swap(i)
    BY <1>1, <2>1, <2>3 DEF Swap, At, Installing, Working, PatchWork
  <2>4. CASE ~Patch(i) /\ ~Swap(i)
    BY <2>4 DEF Step, Install, Start, Grab, Advance, Alloc, Copy, Load, Return, WriteEntry,
                WriteCallback, memoryVars
  <2> QED BY <2>2, <2>3, <2>4
<1> QED BY <1>1, <1>2, InstallTyped, CallingKept

-----------------------------------------------------------------------------
\* What an installer knows of its own work, step by step.

LEMMA NewCall ==
  ASSUME IInv, HookAssumption, Orderly, NEW i \in Installers, Step(i), next'[i] # next[i],
         ~Finished(i)'
  PROVE  Working(i)'
<1>1. /\ Typed /\ SlotInv /\ Typed' /\ Logged' /\ ipc'[i] = "start" /\ ipc'[i] \notin Late
  BY StepFacts, InstallTyped, LoggedStays, Moves DEF Step, Late
<1>2. /\ next'[i] \in DOMAIN plan'[i] /\ next'[i] \in Nat /\ Fn(i)' \in Funcs
      /\ Fn(i)' = plan'[i][next'[i]].fn /\ Hook(i)' = plan'[i][next'[i]]
  <2>1. /\ next[i] \in DOMAIN plan[i] /\ Fn(i) \in Funcs
        /\ Hook(i) \in Hooks /\ Hook(i).cb \in Callbacks /\ Hook(i).kind \in Kinds
    BY StepFacts
  <2>2. plan' = plan /\ plan \in Plans /\ plan[i] \in Seq(Hooks)
    BY <1>1, HookFacts DEF Step, Typed
  <2>3. next'[i] \in Nat \ {0} /\ next'[i] <= Len(plan'[i])
    BY <1>1, <2>2 DEF Typed, InstallersTyped, Finished
  <2>4. \A n \in DOMAIN plan[i] : plan[i][n].fn \in Funcs
    BY <1>1, HookFacts
  <2> QED BY <2>2, <2>3, <2>4 DEF Fn, Hook
<1>3. Hook(i)'.kind = "inline" => log'[Fn(i)'] = <<>>
  <2> SUFFICES ASSUME Hook(i)'.kind = "inline", log'[Fn(i)'] # <<>> PROVE FALSE
    OBVIOUS
  <2>1. 1 \in 1 .. Len(log'[Fn(i)'])
    <3>1. log'[Fn(i)'] \in Seq(Hooks)
      BY <1>1, <1>2 DEF Typed, MemoryTyped
    <3> QED BY <3>1
  <2>2. PICK j \in Installers : \E n \in DOMAIN plan'[j] :
          plan'[j][n].fn = Fn(i)' /\ Placed(j, n)'
    BY <1>1, <1>2, <2>1 DEF Logged
  <2>3. PICK n \in DOMAIN plan'[j] : plan'[j][n].fn = Fn(i)' /\ Placed(j, n)'
    BY <2>2
  <2>4. plan' = plan
    BY DEF Step
  <2>5. j = i
    BY <1>1, <1>2, <2>3, <2>4, HooksApart
  <2>6. n < next'[i]
    BY <1>1, <2>3, <2>5 DEF Placed
  <2> QED BY <1>1, <1>2, <2>3, <2>4, <2>5, <2>6, HooksApart
<1> QED BY <1>1, <1>3 DEF Working, InlineWork, CopyWork, PatchWork, LateWork, Placing, Holding, Late

LEMMA SameCall ==
  ASSUME IInv, HookAssumption, NEW i \in Installers, Step(i), next'[i] = next[i]
  PROVE  Hook(i)' = Hook(i) /\ Fn(i)' = Fn(i)
BY DEF Step, Hook, Fn

LEMMA StartWorks ==
  ASSUME IInv, HookAssumption, NEW i \in Installers, Step(i), Start(i)
  PROVE  Working(i)'
<1>1. /\ Working(i) /\ SlotInv /\ Hook(i).kind \in Kinds /\ Fn(i) \in Funcs /\ Typed
      /\ next' = next /\ log' = log /\ word'[i] = 0 /\ entryIndex' = entryIndex /\ ipc[i] = "start"
  BY StepFacts DEF Start, At, Installing, memoryVars, Typed, InstallersTyped
<1>2. Hook(i)' = Hook(i) /\ Fn(i)' = Fn(i)
  BY <1>1, SameCall
<1>3. \/ ipc'[i] = "alloc" /\ Hook(i).kind = "tramp"
      \/ ipc'[i] = "patch" /\ Hook(i).kind = "replace" /\ Fn(i) \in Far
      \/ ipc'[i] = "load" /\ Hook(i).kind = "replace" /\ Fn(i) \notin Far
      \/ ipc'[i] = "grab" /\ Hook(i).kind = "inline" /\ entryIndex < EntryMax
  <2>1. CASE Hook(i).kind = "tramp"
    BY <1>1, <2>1 DEF Start, Goto, SlotInv, SlotTypes
  <2>2. CASE Hook(i).kind = "replace"
    BY <1>1, <2>2 DEF Start, Goto, SlotInv, SlotTypes
  <2>3. CASE Hook(i).kind = "inline"
    BY <1>1, <2>3 DEF Start, Goto, SlotInv, SlotTypes, Step, Typed, MemoryTyped, HookAssumption
  <2> QED BY <1>1, <2>1, <2>2, <2>3 DEF Kinds
<1>4. InlineWork(i)'
  BY <1>1, <1>2, <1>3 DEF Working, InlineWork, Placing, Holding, Late
<1>5. CopyWork(i)' /\ LateWork(i)'
  BY <1>1, <1>2, <1>3 DEF CopyWork, LateWork, Late
<1>6. PatchWork(i)'
  BY <1>1, <1>2, <1>3, PatchFacts DEF PatchWork
<1> QED BY <1>4, <1>5, <1>6 DEF Working

LEMMA GrabWorks ==
  ASSUME IInv, HookAssumption, NEW i \in Installers, Step(i), Grab(i) \/ Advance(i)
  PROVE  Working(i)'
<1>1. /\ Working(i) /\ SlotInv /\ Hook(i).kind \in Kinds /\ Fn(i) \in Funcs /\ Typed /\ Reserved
      /\ next' = next /\ log' = log /\ entries' = entries /\ word' = word
      /\ Hook(i).kind = "inline" /\ ~Finished(i)
  BY StepFacts DEF Grab, Advance, At, Installing, memoryVars, Working, InlineWork
<1>2. Hook(i)' = Hook(i) /\ Fn(i)' = Fn(i)
  BY <1>1, SameCall
<1>3. CASE Grab(i)
  <2>1. /\ ipc'[i] = "advance" /\ entry'[i] = entryIndex /\ entryIndex' = entryIndex
        /\ entryIndex \in 0 .. EntryMax - 1 /\ log[Fn(i)] = <<>>
    BY <1>1, <1>3 DEF Grab, Goto, At, Installing, memoryVars, SlotInv, SlotTypes, Typed, InstallersTyped, MemoryTyped,
                      Working, InlineWork, HookAssumption, Late
  <2>2. entries[entryIndex].cb = None
    BY <1>1, <2>1 DEF Reserved
  <2>3. InlineWork(i)'
    BY <1>1, <1>2, <2>1, <2>2 DEF InlineWork
  <2>4. word[i] = 0
    BY <1>1, <1>3 DEF Grab, At, Installing, Working, CopyWork
  <2>5. CopyWork(i)' /\ PatchWork(i)' /\ LateWork(i)'
    BY <1>1, <1>2, <2>1, <2>2, <2>4 DEF Working, CopyWork, PatchWork, LateWork, Late
  <2> QED BY <2>3, <2>5 DEF Working
<1>4. CASE Advance(i)
  <2>1. /\ ipc'[i] = "alloc" /\ entry'[i] = entry[i] /\ entryIndex' = entryIndex + 1
        /\ ipc[i] = "advance" /\ entryIndex \in Nat
    BY <1>1, <1>4 DEF Advance, Goto, At, Installing, SlotInv, SlotTypes, Typed, MemoryTyped
  <2>2. /\ entry[i] = entryIndex /\ entry[i] \in 0 .. EntryMax - 1 /\ entries[entry[i]].cb = None
        /\ log[Fn(i)] = <<>> /\ word[i] = 0
    BY <1>1, <2>1 DEF Working, InlineWork, CopyWork, Late, Placing
  <2>3. InlineWork(i)'
    BY <1>1, <1>2, <2>1, <2>2 DEF InlineWork
  <2>4. CopyWork(i)' /\ PatchWork(i)' /\ LateWork(i)'
    BY <1>1, <1>2, <2>1, <2>2 DEF Working, CopyWork, PatchWork, LateWork, Late
  <2> QED BY <2>3, <2>4 DEF Working
<1> QED BY <1>3, <1>4

LEMMA AllocWorks ==
  ASSUME IInv, HookAssumption, NEW i \in Installers, Step(i), Alloc(i)
  PROVE  Working(i)'
<1>1. /\ Working(i) /\ SlotInv /\ Hook(i).kind \in Kinds /\ Fn(i) \in Funcs /\ Typed
      /\ next' = next /\ log' = log /\ entries' = entries /\ word' = word /\ entry' = entry
      /\ entryIndex' = entryIndex /\ ipc[i] = "alloc" /\ Hook(i).kind # "replace"
  BY StepFacts DEF Alloc, At, Installing, Working, CopyWork
<1>2. Hook(i)' = Hook(i) /\ Fn(i)' = Fn(i)
  BY <1>1, SameCall
<1>3. /\ ipc'[i] = "copy" /\ slot'[i] = index + 1 /\ index + 1 \in 0 .. HookMax
      /\ tramp' = [tramp EXCEPT ![index + 1].words = <<>>]
  BY <1>1 DEF Alloc, Goto, SlotInv, SlotTypes, Step
<1>4. tramp'[slot'[i]].words = <<>> /\ slot'[i] # None
  BY <1>1, <1>3 DEF Typed, MemoryTyped, HookAssumption
<1>5. InlineWork(i)'
  BY <1>1, <1>2, <1>3 DEF Working, InlineWork, Late, Placing, Holding
<1>6. CopyWork(i)'
  <2>1. word[i] = 0 /\ word[i] < Count(Fn(i))
    BY <1>1, PatchFacts DEF Working, CopyWork
  <2> QED BY <1>1, <1>2, <1>3, <1>4, <2>1 DEF CopyWork
<1>7. PatchWork(i)' /\ LateWork(i)'
  BY <1>1, <1>2, <1>3 DEF PatchWork, LateWork, Late
<1> QED BY <1>5, <1>6, <1>7 DEF Working

\* Moved is what Copied says, where the function is patched; and the function
\* itself, where it is not.
LEMMA MovedFacts ==
  ASSUME HookAssumption, NEW f \in Funcs, NEW k \in 0 .. Count(f) - 1, NEW p
  PROVE  /\ (\A l \in Words : code[f][l] = Body(l)) => Moved(f, k) = Body(k)
         /\ (\A l \in Words : code[f][l] = Patched(f, p, l)) => Moved(f, k) = Copied(f, p, k)
<1>1. k \in Words
  BY PatchFacts DEF Words
<1>2. (\A l \in Words : code[f][l] = Body(l)) => Moved(f, k) = Body(k)
  BY <1>1 DEF Moved, Body, Ldr, W
<1>3. ASSUME \A l \in Words : code[f][l] = Patched(f, p, l)
      PROVE  Moved(f, k) = Copied(f, p, k)
  <2>1. code[f][k] = Patched(f, p, k)
    BY <1>1, <1>3
  <2>2. CASE f \in Far /\ k = First(f)
    <3>1. code[f][k] = Ldr /\ k + 2 \in Words /\ code[f][k + 2] = Lit(p)
      BY <1>3, <2>1, <2>2, PatchFacts DEF Patched, Words
    <3>2. Literal(f, k + 2) = p
      BY <3>1 DEF Literal, Lit, W
    <3> QED BY <2>2, <3>1, <3>2 DEF Moved, Copied
  <2>3. CASE ~(f \in Far /\ k = First(f))
    <3>1. Patched(f, p, k) # Ldr
      BY <2>3 DEF Patched, B, Body, Nop, Ldr, Br, Lit, LitHigh, W
    <3> QED BY <2>1, <2>3, <3>1 DEF Moved, Copied
  <2> QED BY <2>2, <2>3
<1> QED BY <1>2, <1>3

\* The words of a trampoline that is complete are the words of the function.
LEMMA CopyContinues ==
  ASSUME IInv, HookAssumption, Orderly, NEW i \in Installers, Step(i), Copy(i),
         ~(word[i] + 1 < Count(Fn(i)))
  PROVE  Continues(slot[i], Fn(i), Len(log[Fn(i)]))'
<1> DEFINE f == Fn(i)
           s == slot[i]
           m == Len(log[f])
<1>1. /\ Working(i) /\ SlotInv /\ f \in Funcs /\ Typed /\ Grows /\ Chain(f) /\ ~Finished(i)
      /\ slot' = slot /\ log' = log /\ code' = code /\ index' = index /\ ipc[i] = "copy"
      /\ next' = next /\ Count(f) \in 1 .. 5 /\ word[i] \in Nat /\ plan' = plan
  <2>1. /\ Working(i) /\ SlotInv /\ f \in Funcs /\ Typed /\ Grows /\ Chain(f) /\ ~Finished(i)
    BY StepFacts
  <2>2. Count(f) \in 1 .. 5
    BY <2>1, PatchFacts
  <2>3. word[i] \in Nat
    <3>1. word[i] \in Words
      BY <2>1 DEF Typed, InstallersTyped
    <3> QED BY <3>1 DEF Words
  <2>4. /\ slot' = slot /\ log' = log /\ code' = code /\ index' = index /\ ipc[i] = "copy"
        /\ next' = next /\ plan' = plan
    BY DEF Copy, At, Installing, Step
  <2> QED BY <2>1, <2>2, <2>3, <2>4
<1>2. f' = f /\ s' = s /\ m' = m /\ Aim(f)' = Aim(f)
  BY <1>1, SameCall DEF Aim
<1>3. /\ s \in 0 .. HookMax /\ s <= index /\ word[i] + 1 = Count(f) /\ s # None
      /\ Len(tramp[s].words) = word[i]
      /\ \A n \in 0 .. word[i] - 1 : tramp[s].words[n + 1] = Moved(f, n)
  <2>1. /\ s # None /\ word[i] < Count(f) /\ Len(tramp[s].words) = word[i]
        /\ \A n \in 0 .. word[i] - 1 : tramp[s].words[n + 1] = Moved(f, n)
    BY <1>1 DEF Working, CopyWork
  <2>2. s \in Slots /\ s <= index
    BY <1>1, <2>1 DEF SlotInv, SlotTypes, GivenOut
  <2>3. word[i] + 1 = Count(f)
    BY <1>1, <2>1
  <2> QED BY <2>1, <2>2, <2>3 DEF Slots
<1>4. /\ tramp'[s].fn = f /\ tramp'[s].resume = Count(f)
      /\ tramp'[s].words = Append(tramp[s].words, Moved(f, word[i]))
  BY <1>1, <1>3, CopyWrites
<1>5. tramp[s].words \in Seq(CodeWords) /\ Moved(f, word[i]) \in CodeWords
  <2>1. word[i] \in Words
    BY <1>1 DEF Typed, InstallersTyped
  <2> QED BY <1>1, <1>3, <2>1, MovedType DEF Typed, MemoryTyped, SlotWords
<1>6. /\ Len(tramp'[s].words) = Count(f)
      /\ \A k \in 0 .. Count(f) - 1 : tramp'[s].words[k + 1] = Moved(f, k)
  <2> HIDE DEF f, s
  <2>1. /\ Len(tramp'[s].words) = word[i] + 1 /\ tramp'[s].words[word[i] + 1] = Moved(f, word[i])
        /\ \A k \in 1 .. word[i] : tramp'[s].words[k] = tramp[s].words[k]
    BY <1>3, <1>4, <1>5, AppendType
  <2> SUFFICES ASSUME NEW k \in 0 .. Count(f) - 1 PROVE tramp'[s].words[k + 1] = Moved(f, k)
    BY <1>3, <2>1
  <2>2. CASE k = word[i]
    BY <2>1, <2>2
  <2>3. CASE k # word[i]
    <3>1. k \in 0 .. word[i] - 1 /\ k + 1 \in 1 .. word[i]
      BY <1>1, <1>3, <2>3
    <3> QED BY <1>3, <2>1, <3>1
  <2> QED BY <2>2, <2>3
<1>7. Complete(s)'
  <2>1. ipc'[i] # "copy"
    BY <1>1 DEF Copy, Goto, SlotInv, SlotTypes
  <2>2. \A j \in Installers : j # i => slot[j] # s
    BY <1>3 DEF IInv, SlotInv, Apart
  <2> QED BY <1>1, <1>2, <1>3, <2>1, <2>2 DEF Complete, Busy
<1>8. Calls(f, m)
  <2>1. \A j \in Installers : ~Finished(j) /\ ipc[j] = "patch" => Fn(j) # f
    BY <1>1, Apartness
  <2>2. ~Half(f)
    BY <2>1 DEF Half, Installing
  <2> QED BY <1>1, <2>2 DEF Chain
<1>9. CASE m = 0
  <2>1. \A k \in 0 .. Count(f) - 1 : tramp'[s].words[k + 1] = Body(k)
    BY <1>1, <1>6, <1>8, <1>9, MovedFacts DEF Calls
  <2> QED BY <1>2, <1>4, <1>6, <1>7, <1>9, <2>1 DEF Continues
<1>10. CASE m # 0
  <2> DEFINE p == Aim(f)
             h == log[f][m]
  <2>1. Leads(p, h) /\ \A k \in Words : code[f][k] = Patched(f, p, k)
    BY <1>8, <1>10 DEF Calls
  <2>2. \A k \in 0 .. Count(f) - 1 : tramp'[s].words[k + 1] = Copied(f, p, k)
    BY <1>1, <1>6, <2>1, MovedFacts
  <2>3. AimOf(s, f)' = p
    <3>1. First(f) \in 0 .. Count(f) - 1 /\ (f \in Far \/ First(f) = 0)
      BY <1>1, PatchFacts
    <3>2. AimOf(s, f)' = Copied(f, p, First(f)).to
      BY <1>2, <2>2, <3>1 DEF AimOf
    <3> QED BY <3>1, <3>2 DEF Copied, Patched, B, W
  <2>4. h \in Hooks /\ h' = h /\ p' = p
    BY <1>1, <1>2, <1>10, LogType
  <2>5. Leads(p, h)'
    <3> HIDE DEF p, h
    <3> QED BY <1>1, <2>1, <2>4 DEF Grows, Leads
  <2> QED BY <1>2, <1>4, <1>6, <1>7, <1>10, <2>2, <2>3, <2>4, <2>5 DEF Continues
<1> QED BY <1>9, <1>10

LEMMA CopyWorks ==
  ASSUME IInv, HookAssumption, Orderly, NEW i \in Installers, Step(i), Copy(i)
  PROVE  Working(i)'
<1> DEFINE f == Fn(i)
           s == slot[i]
<1>1. /\ Working(i) /\ SlotInv /\ Hook(i).kind \in Kinds /\ f \in Funcs /\ Typed
      /\ next' = next /\ log' = log /\ entries' = entries /\ entry' = entry /\ code' = code
      /\ entryIndex' = entryIndex /\ ipc[i] = "copy" /\ Hook(i).kind # "replace" /\ slot' = slot
  BY StepFacts DEF Copy, At, Installing, Working, CopyWork
<1>2. Hook(i)' = Hook(i) /\ f' = f
  BY <1>1, SameCall
<1>3. /\ s \in 0 .. HookMax /\ s # None /\ word[i] \in Words /\ word[i] \in Nat
      /\ Len(tramp[s].words) = word[i]
      /\ \A n \in 0 .. word[i] - 1 : tramp[s].words[n + 1] = Moved(f, n)
      /\ Count(f) \in 1 .. 5
  BY <1>1, PatchFacts
  DEF Working, CopyWork, SlotInv, SlotTypes, Slots, Typed, InstallersTyped, Words
<1>4. CASE word[i] + 1 < Count(f)
  <2>1. word'[i] = word[i] + 1 /\ ipc'[i] = "copy"
    BY <1>1, <1>4 DEF Copy, Typed, InstallersTyped
  <2>2. tramp[s].words \in Seq(CodeWords) /\ Moved(f, word[i]) \in CodeWords
    BY <1>1, <1>3, MovedType DEF Typed, MemoryTyped, SlotWords
  <2>3. tramp'[s].words = Append(tramp[s].words, Moved(f, word[i]))
    BY <1>1, <1>3, CopyWrites
  <2>4. /\ Len(tramp'[s].words) = word[i] + 1
        /\ tramp'[s].words[word[i] + 1] = Moved(f, word[i])
        /\ \A k \in 1 .. word[i] : tramp'[s].words[k] = tramp[s].words[k]
    <3> DEFINE ws == tramp[s].words
               w == Moved(f, word[i])
    <3>1. ws \in Seq(CodeWords) /\ w \in CodeWords /\ Len(ws) = word[i] /\ tramp'[s].words = Append(ws, w)
      BY <1>3, <2>2, <2>3
    <3> HIDE DEF ws, w, s
    <3>2. /\ Len(Append(ws, w)) = Len(ws) + 1 /\ Append(ws, w)[Len(ws) + 1] = w
          /\ \A k \in 1 .. Len(ws) : Append(ws, w)[k] = ws[k]
      BY <3>1
    <3>3. /\ Len(tramp'[s].words) = word[i] + 1 /\ tramp'[s].words[word[i] + 1] = w
          /\ \A k \in 1 .. word[i] : tramp'[s].words[k] = ws[k]
      BY <3>1, <3>2
    <3> QED BY <3>3 DEF ws, w
  <2>5. \A n \in 0 .. word'[i] - 1 : tramp'[s].words[n + 1] = Moved(f, n)
    <3> SUFFICES ASSUME NEW n \in 0 .. word[i] PROVE tramp'[s].words[n + 1] = Moved(f, n)
      BY <1>3, <2>1
    <3>1. n = word[i] \/ (n \in 0 .. word[i] - 1 /\ n + 1 \in 1 .. word[i])
      BY <1>3
    <3> QED BY <1>3, <2>4, <3>1
  <2>6. \A n : Moved(f, n)' = Moved(f, n)
    BY <1>1, <1>2 DEF Moved, Literal
  <2>7. CopyWork(i)'
    BY <1>1, <1>2, <1>3, <1>4, <2>1, <2>4, <2>5, <2>6 DEF CopyWork
  <2>8. InlineWork(i)'
    BY <1>1, <1>2, <2>1 DEF Working, InlineWork, Late, Placing, Holding
  <2>9. PatchWork(i)' /\ LateWork(i)'
    BY <2>1 DEF PatchWork, LateWork, Late
  <2> QED BY <2>7, <2>8, <2>9 DEF Working
<1>5. CASE ~(word[i] + 1 < Count(f))
  <2>1. word'[i] = 0 /\ ipc'[i] = IF f \in Far THEN "patch" ELSE "load"
    BY <1>1, <1>5 DEF Copy, Goto, Typed, InstallersTyped, SlotInv, SlotTypes
  <2>2. Continues(s, f, Len(log[f]))'
    BY <1>5, CopyContinues
  <2>3. InlineWork(i)'
    BY <1>1, <1>2, <2>1 DEF Working, InlineWork, Late, Placing, Holding
  <2>4. CopyWork(i)' /\ LateWork(i)'
    BY <2>1 DEF CopyWork, LateWork, Late
  <2>5. PatchWork(i)'
    <3>1. 0 < Jumps(f) + 2 /\ 0 .. 0 - 1 = {}
      BY <1>1, PatchFacts
    <3> QED BY <1>1, <1>2, <1>3, <2>1, <2>2, <3>1 DEF PatchWork
  <2> QED BY <2>3, <2>4, <2>5 DEF Working
<1> QED BY <1>4, <1>5

LEMMA LoadWorks ==
  ASSUME IInv, HookAssumption, NEW i \in Installers, Step(i), Load(i)
  PROVE  Working(i)'
<1>1. /\ Working(i) /\ SlotInv /\ Hook(i).kind \in Kinds /\ Fn(i) \in Funcs /\ Typed /\ Grows
      /\ next' = next /\ log' = log /\ entries' = entries /\ word' = word /\ entry' = entry
      /\ code' = code /\ slot' = slot /\ entryIndex' = entryIndex
      /\ ipc[i] = "load" /\ ipc'[i] = "swap" /\ expect'[i] = code[Fn(i)][0]
  BY StepFacts DEF Load, At, Installing, Goto, memoryVars, SlotInv, SlotTypes, Typed, InstallersTyped
<1>2. Hook(i)' = Hook(i) /\ Fn(i)' = Fn(i)
  BY <1>1, SameCall
<1>3. Hook(i).kind # "replace" => slot[i] # None /\ Continues(slot[i], Fn(i), Len(log[Fn(i)]))'
  <2>1. \A f \in Funcs : \A m \in 0 .. Len(log[f]) : \A s :
          Continues(s, f, m) => Continues(s, f, m)'
    BY <1>1, ContinuesStays
  <2>2. Len(log[Fn(i)]) \in 0 .. Len(log[Fn(i)])
    BY <1>1, LogType
  <2>3. Hook(i).kind # "replace" => slot[i] # None /\ Continues(slot[i], Fn(i), Len(log[Fn(i)]))
    BY <1>1 DEF Working, PatchWork
  <2> QED BY <1>1, <1>2, <2>1, <2>2, <2>3
<1>4. InlineWork(i)'
  BY <1>1, <1>2 DEF Working, InlineWork, Late, Placing, Holding
<1>5. CopyWork(i)' /\ LateWork(i)'
  BY <1>1 DEF CopyWork, LateWork, Late
<1>6. PatchWork(i)'
  BY <1>1, <1>2, <1>3 DEF Working, PatchWork
<1> QED BY <1>4, <1>5, <1>6 DEF Working

\* The last word of a patch is written: the installer's hook is the newest.
Lands(i) ==
  /\ log' = [log EXCEPT ![Fn(i)] = Append(@, Hook(i))]
  /\ ipc' = [ipc EXCEPT ![i] = "return"]
  /\ UNCHANGED <<next, slot, entry, entryIndex, tramp, orig, entries, index>>
  /\ ipc[i] \in {"patch", "swap"}
  /\ \A k \in Words : code'[Fn(i)][k] = Patched(Fn(i), Target(i), k)

LEMMA LandsWorks ==
  ASSUME IInv, HookAssumption, Orderly, NEW i \in Installers, Step(i), Lands(i)
  PROVE  Working(i)' /\ Chain(Fn(i))'
<1> DEFINE f == Fn(i)
           h == Hook(i)
           m == Len(log[f])
<1>1. /\ Working(i) /\ SlotInv /\ h.kind \in Kinds /\ h \in Hooks /\ f \in Funcs /\ Typed /\ Grows /\ Chain(f)
      /\ ~Finished(i) /\ log[f] \in Seq(Hooks) /\ m \in Nat /\ plan' = plan
  BY StepFacts, LogType DEF Step
<1>2. h' = h /\ f' = f
  BY <1>1, SameCall DEF Lands
<1>3. /\ ipc'[i] = "return" /\ log'[f] = Append(log[f], h)
      /\ ipc[i] \in {"patch", "swap"}
  BY <1>1 DEF Lands, SlotInv, SlotTypes, Typed, MemoryTyped
<1>4. /\ Len(log'[f]) = m + 1 /\ log'[f][m + 1] = h
      /\ \A l \in 1 .. m : log'[f][l] = log[f][l]
  BY <1>1, <1>3, AppendType
<1>5. InlineWork(i)'
  BY <1>1, <1>2, <1>3 DEF Working, InlineWork, Late, Placing, Holding, Lands
<1>6. CopyWork(i)' /\ PatchWork(i)'
  BY <1>3 DEF CopyWork, PatchWork
<1>7. LateWork(i)'
  <2>1. h.kind # "replace" => slot[i] # None /\ Continues(slot[i], f, m)
    BY <1>1, <1>3 DEF Working, PatchWork
  <2>2. \A g \in Funcs : \A l \in 0 .. Len(log[g]) : \A s : Continues(s, g, l) => Continues(s, g, l)'
    BY <1>1, ContinuesStays
  <2>3. m \in 0 .. m /\ slot' = slot /\ Len(log'[f]) - 1 = m /\ log'[f] # <<>>
    BY <1>1, <1>3, <1>4 DEF Lands
  <2>4. h.kind # "replace" => slot'[i] # None /\ Continues(slot[i], f, Len(log[f]) - 1)'
    BY <1>1, <1>2, <2>1, <2>2, <2>3
  <2>5. log'[f][Len(log'[f])] = h
    BY <1>4
  <2> QED BY <1>2, <2>3, <2>4, <2>5 DEF LateWork
<1>8. Calls(f, Len(log[f]))'
  <2> DEFINE p == Target(i)
  <2>1. Leads(p, h)'
    <3>1. CASE h.kind = "inline"
      <4>1. entry[i] \in 0 .. EntryMax - 1 /\ p = Entry(entry[i])
        BY <1>1, <1>3, <3>1 DEF Working, InlineWork, Placing, Holding, Target
      <4>2. p' = p /\ p.id = entry[i] /\ entry' = entry
        BY <1>2, <3>1, <4>1 DEF Target, Lands, Entry, Place
      <4>3. Busy(i, Placing)'
        BY <1>1, <1>3 DEF Busy, Placing, Holding, Finished, Lands
      <4>4. Serves(entry[i], h)'
        BY <1>2, <4>2, <4>3 DEF Serves
      <4> QED BY <1>2, <3>1, <4>1, <4>2, <4>4 DEF Leads, Entry, Place, Target
    <3>2. CASE h.kind # "inline"
      BY <1>2, <3>2 DEF Leads, Target
    <3> QED BY <3>1, <3>2
  <2>2. Aim(f)' = p
    <3>1. f \in Far => code'[f][First(f) + 2] = Lit(p)
      <4> DEFINE l == First(f) + 2
      <4>1. First(f) \in 0 .. 1 /\ l \in Words
        BY <1>1, PatchFacts DEF Words
      <4>2. code'[f][l] = Patched(f, p, l)
        BY <4>1 DEF Lands
      <4>3. ~(l < First(f)) /\ l # First(f) /\ l # First(f) + 1
        BY <4>1
      <4> QED BY <4>2, <4>3 DEF Patched
    <3>2. f \notin Far => code'[f][0] = B(p)
      BY <1>1 DEF Lands, Patched, Words
    <3> QED BY <1>2, <3>1, <3>2 DEF Aim, Lit, B, W
  <2>3. p' = p
    BY <1>2 DEF Target, Lands
  <2> QED BY <1>2, <1>4, <2>1, <2>2, <2>3 DEF Calls, Lands
<1>9. ASSUME NEW l \in 1 .. Len(log'[f])
      PROVE  \/ Published(f, l)'
             \/ l = Len(log'[f]) /\ Busy(i, Late)' /\ Fn(i)' = f
  <2>1. CASE l = m + 1
    BY <1>1, <1>2, <1>3, <1>4, <2>1 DEF Busy, Late, Finished, Lands
  <2>2. CASE l \in 1 .. m
    <3>1. ~ \E j \in Installers : Busy(j, Late) /\ Fn(j) = f
      BY <1>1, <1>3, Apartness DEF Busy, Late
    <3>2. Published(f, l)
      BY <1>1, <2>2, <3>1 DEF Chain
    <3>3. \A g \in Funcs : \A k \in 1 .. Len(log[g]) : Published(g, k) => Published(g, k)'
      BY <1>1, PublishedStays
    <3> QED BY <1>1, <1>2, <2>2, <3>2, <3>3
  <2> QED BY <1>1, <1>4, <2>1, <2>2
<1>10. \A k \in Words : k >= Count(f) => code'[f][k] = Body(k)
  BY <1>1, PatchFacts DEF Lands, Patched, Words
<1> QED BY <1>2, <1>5, <1>6, <1>7, <1>8, <1>9, <1>10 DEF Working, Chain

LEMMA PatchWorks ==
  ASSUME IInv, HookAssumption, Orderly, NEW i \in Installers, Step(i), Patch(i)
  PROVE  Working(i)' /\ Chain(Fn(i))'
<1> DEFINE f == Fn(i)
           k == word[i]
<1>1. /\ Working(i) /\ SlotInv /\ f \in Funcs /\ Typed /\ Grows /\ Chain(f)
      /\ ~Finished(i) /\ ipc[i] = "patch" /\ f \in Far /\ k \in Nat /\ k < Jumps(f) + 2
      /\ \A n \in 0 .. k - 1 : code[f][n] = Patched(f, Target(i), n)
      /\ next' = next
  <2>1. /\ Working(i) /\ SlotInv /\ f \in Funcs /\ Typed /\ Grows /\ Chain(f) /\ ~Finished(i)
    BY StepFacts
  <2>2. ipc[i] = "patch" /\ next' = next
    BY DEF Patch, At, Installing
  <2>3. PatchWork(i)
    BY <2>1 DEF Working
  <2>4. k \in Nat
    <3>1. k \in Words
      BY <2>1 DEF Typed, InstallersTyped
    <3> QED BY <3>1 DEF Words
  <2> QED BY <2>1, <2>2, <2>3, <2>4 DEF PatchWork
<1>2. Hook(i)' = Hook(i) /\ f' = f
  BY <1>1, SameCall
<1>3. /\ Len(FarPatch(i)) = Jumps(f) + 2 /\ FarPatch(i)[k + 1] = Patched(f, Target(i), k)
      /\ k \in Words /\ k + 1 \in Words
      /\ Jumps(f) = First(f) + 1 /\ Count(f) = First(f) + 4 /\ First(f) \in 0 .. 1
  <2>1. /\ Len(FarPatch(i)) = Jumps(f) + 2 /\ FarPatch(i)[k + 1] = Patched(f, Target(i), k)
    BY <1>1, PatchWords
  <2>2. Jumps(f) = First(f) + 1 /\ Count(f) = First(f) + 4 /\ First(f) \in 0 .. 1
    BY <1>1, PatchFacts
  <2> HIDE DEF f, k
  <2>3. k \in Words /\ k + 1 \in Words
    BY <1>1, <2>2 DEF Words
  <2> QED BY <2>1, <2>2, <2>3
<1>4. code \in [Funcs -> [Words -> CodeWords]]
  BY <1>1 DEF Typed, MemoryTyped
<1>5. CASE k + 1 = Len(FarPatch(i))
  <2>1. code' = [code EXCEPT ![f][k] = FarPatch(i)[k + 1], ![f][k + 1] = LitHigh]
    BY <1>5 DEF Patch
  <2>2. \A n \in Words : code'[f][n] = IF n = k + 1 THEN LitHigh
                                       ELSE IF n = k THEN FarPatch(i)[k + 1] ELSE code[f][n]
    <3> DEFINE w == FarPatch(i)[k + 1]
    <3> HIDE DEF f, k, w
    <3> QED BY <1>1, <1>3, <1>4, <2>1 DEF w
  <2>3. Patched(f, Target(i), k + 1) = LitHigh
    BY <1>1, <1>3, <1>5 DEF Patched
  <2>4. \A n \in Words : n > k + 1 => code[f][n] = Patched(f, Target(i), n)
    <3>1. \A n \in Words : n > k + 1 => n >= Count(f) /\ Patched(f, Target(i), n) = Body(n)
      BY <1>1, <1>3, <1>5 DEF Patched, Words
    <3> QED BY <1>1, <3>1 DEF Chain
  <2>5. \A n \in Words : code'[f][n] = Patched(f, Target(i), n)
    <3> SUFFICES ASSUME NEW n \in Words PROVE code'[f][n] = Patched(f, Target(i), n)
      OBVIOUS
    <3>1. n \in 0 .. k - 1 \/ n = k \/ n = k + 1 \/ n > k + 1
      BY <1>1 DEF Words
    <3> QED BY <1>1, <1>3, <2>2, <2>3, <2>4, <3>1
  <2>6. Lands(i)
    BY <1>1, <1>5, <2>5 DEF Patch, Lands, Written, Goto
  <2> QED BY <2>6, LandsWorks
<1>6. CASE k + 1 # Len(FarPatch(i))
  <2>1. /\ code' = [code EXCEPT ![f][k] = FarPatch(i)[k + 1]]
        /\ word'[i] = k + 1 /\ ipc'[i] = "patch" /\ log' = log /\ slot' = slot /\ entry' = entry
        /\ entries' = entries /\ entryIndex' = entryIndex
    BY <1>1, <1>6 DEF Patch, Store, Typed, InstallersTyped
  <2>2. \A n \in Words : code'[f][n] = IF n = k THEN FarPatch(i)[k + 1] ELSE code[f][n]
    <3> DEFINE w == FarPatch(i)[k + 1]
    <3> HIDE DEF f, k, w
    <3> QED BY <1>1, <1>3, <1>4, <2>1 DEF w
  <2>3. Target(i)' = Target(i)
    BY <1>2, <2>1 DEF Target
  <2>4. \A n \in 0 .. k : code'[f][n] = Patched(f, Target(i), n)
    <3> SUFFICES ASSUME NEW n \in 0 .. k PROVE code'[f][n] = Patched(f, Target(i), n)
      OBVIOUS
    <3>1. n \in Words /\ (n = k \/ n \in 0 .. k - 1)
      BY <1>1, <1>3 DEF Words
    <3> QED BY <1>1, <1>3, <2>2, <3>1
  <2>5. Hook(i).kind # "replace" => slot[i] # None /\ Continues(slot[i], f, Len(log[f]))'
    <3>1. \A g \in Funcs : \A m \in 0 .. Len(log[g]) : \A s :
            Continues(s, g, m) => Continues(s, g, m)'
      BY <1>1, ContinuesStays
    <3>2. Len(log[f]) \in 0 .. Len(log[f])
      BY <1>1, LogType
    <3>3. Hook(i).kind # "replace" => slot[i] # None /\ Continues(slot[i], f, Len(log[f]))
      BY <1>1 DEF Working, PatchWork
    <3> QED BY <1>1, <1>2, <2>1, <3>1, <3>2, <3>3
  <2>6. InlineWork(i)'
    BY <1>1, <1>2, <2>1 DEF Working, InlineWork, Late, Placing, Holding
  <2>7. CopyWork(i)' /\ LateWork(i)'
    BY <2>1 DEF CopyWork, LateWork, Late
  <2>8. PatchWork(i)'
    <3>1. k + 1 < Jumps(f) + 2 /\ (k + 1) - 1 = k
      BY <1>1, <1>3, <1>6
    <3> QED BY <1>1, <1>2, <2>1, <2>3, <2>4, <2>5, <3>1 DEF PatchWork
  <2>9. Chain(f)'
    <3>1. \A n \in Words : n >= Count(f) => code'[f][n] = Body(n)
      BY <1>1, <1>3, <2>2 DEF Chain
    <3>2. ~Half(f)' => Calls(f, Len(log[f]))'
      <4> SUFFICES ASSUME ~Half(f)' PROVE Calls(f, Len(log[f]))'
        OBVIOUS
      <4>1. Installing(i, "patch")' /\ word'[i] > 0
        BY <1>1, <2>1 DEF Installing, Finished, Step
      <4>2. log[f] # <<>>
        BY <1>2, <2>1, <4>1 DEF Half
      <4>3. Calls(f, Len(log[f])) /\ Len(log[f]) \in Nat \ {0}
        BY <1>1, <4>2, LogType DEF Half, Chain
      <4>4. \A n \in Words : code[f][n] = Patched(f, Aim(f), n)
        BY <4>3 DEF Calls
      <4>5. Patched(f, Target(i), k) = Patched(f, Aim(f), k)
        BY <1>1, <1>3, <1>6 DEF Patched
      <4>6. code'[f] = code[f]
        <5>1. \A n \in Words : code'[f][n] = code[f][n]
          BY <1>3, <2>2, <4>4, <4>5
        <5>2. DOMAIN code'[f] = Words /\ DOMAIN code[f] = Words
              /\ code'[f] = [n \in DOMAIN code'[f] |-> code'[f][n]]
              /\ code[f] = [n \in DOMAIN code[f] |-> code[f][n]]
          <6> DEFINE w == FarPatch(i)[k + 1]
          <6> HIDE DEF f, k, w
          <6> QED BY <1>1, <1>4, <2>1 DEF w
        <5> QED BY <5>1, <5>2
      <4>7. PICK g \in Funcs : g = f
        BY <1>1
      <4>8. Calls(g, Len(log[g]))'
        BY <1>1, <2>1, <4>3, <4>6, <4>7, CallsStays
      <4> QED BY <1>2, <4>7, <4>8
    <3>3. ASSUME NEW l \in 1 .. Len(log'[f]) PROVE Published(f, l)'
      <4>1. ~ \E j \in Installers : Busy(j, Late) /\ Fn(j) = f
        BY <1>1, Apartness DEF Busy, Late
      <4>2. Published(f, l)
        BY <1>1, <2>1, <4>1 DEF Chain
      <4>3. \A g \in Funcs : \A q \in 1 .. Len(log[g]) : Published(g, q) => Published(g, q)'
        BY <1>1, PublishedStays
      <4> QED BY <1>1, <1>2, <2>1, <4>2, <4>3
    <3> QED BY <1>2, <2>1, <3>1, <3>2, <3>3 DEF Chain
  <2> QED BY <2>6, <2>7, <2>8, <2>9 DEF Working
<1> QED BY <1>5, <1>6

LEMMA SwapWorks ==
  ASSUME IInv, HookAssumption, Orderly, NEW i \in Installers, Step(i), Swap(i)
  PROVE  Working(i)' /\ Chain(Fn(i))'
<1> DEFINE f == Fn(i)
<1>1. /\ Working(i) /\ SlotInv /\ f \in Funcs /\ Typed /\ Chain(f)
      /\ ~Finished(i) /\ ipc[i] = "swap" /\ f \notin Far /\ expect[i] = code[f][0]
  BY StepFacts DEF Swap, At, Installing, Working, PatchWork
<1>2. code' = [code EXCEPT ![f][0] = B(Target(i))]
  BY <1>1 DEF Swap, Store
<1>3. \A k \in Words : k # 0 => code[f][k] = Body(k)
  <2>1. Count(f) = 1
    BY <1>1, PatchFacts
  <2> QED BY <1>1, <2>1 DEF Chain, Words
<1>4. \A k \in Words : code'[f][k] = Patched(f, Target(i), k)
  <2>1. \A k \in Words : code'[f][k] = IF k = 0 THEN B(Target(i)) ELSE code[f][k]
    BY <1>1, <1>2 DEF Typed, MemoryTyped, Words
  <2> QED BY <1>1, <1>3, <2>1 DEF Patched
<1>5. Lands(i)
  BY <1>1, <1>4 DEF Swap, Lands, Written, Goto
<1> QED BY <1>5, LandsWorks

\* What Late work on f says once f is left: its newest hook has to be published.
LEMMA CallEnds ==
  ASSUME IInv, HookAssumption, Orderly, NEW i \in Installers, Step(i), ipc[i] \in Late,
         UNCHANGED <<code, log>>, next'[i] # next[i],
         NEW f \in Funcs, f = Fn(i), Published(f, Len(log[f]))'
  PROVE  Chain(f)'
<1>1. /\ Typed /\ Grows /\ Chain(f) /\ ~Finished(i) /\ log[f] \in Seq(Hooks) /\ log'[f] = log[f]
  BY StepFacts, LogType
<1>2. \A j \in Installers : ~Finished(j) /\ Fn(j) = f => j = i
  BY <1>1, Apartness
<1>3. Calls(f, Len(log[f]))'
  <2>1. Calls(f, Len(log[f]))
    BY <1>1, <1>2 DEF Chain, Half, Installing, Late
  <2> QED BY <1>1, <2>1, CallsStays
<1>4. ASSUME NEW m \in 1 .. Len(log[f]), m # Len(log[f]) PROVE Published(f, m)'
  <2>1. Published(f, m)
    BY <1>1, <1>4 DEF Chain
  <2> QED BY <1>1, <2>1, PublishedStays
<1>5. \A k \in Words : k >= Count(f) => code'[f][k] = Body(k)
  BY <1>1 DEF Chain
<1> QED BY <1>1, <1>3, <1>4, <1>5 DEF Chain

\* What follows the last store of the patch.
LEMMA LateFacts ==
  ASSUME IInv, HookAssumption, NEW i \in Installers, Step(i), ipc[i] \in Late, UNCHANGED <<log>>
  PROVE  /\ Working(i) /\ SlotInv /\ Typed /\ Reserved /\ Fn(i) \in Funcs /\ Hook(i).kind \in Kinds
         /\ Hook(i).cb \in Callbacks /\ log[Fn(i)] # <<>> /\ Len(log[Fn(i)]) \in Nat \ {0}
         /\ log[Fn(i)][Len(log[Fn(i)])] = Hook(i)
         /\ Hook(i).kind # "replace" => slot[i] # None
         /\ \A f \in Funcs : \A s : f = Fn(i) /\ s = slot[i] /\ Hook(i).kind # "replace" =>
              Continues(s, f, Len(log[f]) - 1)'
<1>1. /\ Working(i) /\ SlotInv /\ Typed /\ Grows /\ Fn(i) \in Funcs /\ Hook(i).kind \in Kinds /\ Reserved
      /\ Hook(i).cb \in Callbacks
  BY StepFacts
<1>2. /\ log[Fn(i)] # <<>> /\ log[Fn(i)][Len(log[Fn(i)])] = Hook(i)
      /\ Hook(i).kind # "replace" => slot[i] # None /\ Continues(slot[i], Fn(i), Len(log[Fn(i)]) - 1)
  BY <1>1 DEF Working, LateWork
<1>3. Len(log[Fn(i)]) \in Nat \ {0}
  BY <1>1, <1>2, LogType
<1>4. ASSUME NEW f \in Funcs, NEW s, f = Fn(i), s = slot[i], Hook(i).kind # "replace"
      PROVE  Continues(s, f, Len(log[f]) - 1)'
  <2>1. Continues(s, f, Len(log[f]) - 1) /\ Len(log[f]) - 1 \in 0 .. Len(log[f])
    BY <1>2, <1>3, <1>4
  <2>2. \A m \in 0 .. Len(log[f]) : Continues(s, f, m) => Continues(s, f, m)'
    BY <1>1, ContinuesStays
  <2> QED BY <2>1, <2>2
<1> QED BY <1>1, <1>2, <1>3, <1>4

LEMMA ReturnWorks ==
  ASSUME IInv, HookAssumption, Orderly, NEW i \in Installers, Step(i), Return(i),
         NEW f \in Funcs, f = Fn(i)
  PROVE  (~Finished(i)' => Working(i)') /\ Chain(f)'
<1>0. ipc[i] \in Late /\ UNCHANGED <<log, code, slot, entry, entries, entryIndex, word, tramp>>
  BY DEF Return, At, Installing, Late
<1>1. f = Fn(i)
  OBVIOUS
<1>2. PICK s : s = slot[i]
  OBVIOUS
<1> DEFINE h == Hook(i)
           m == Len(log[f])
<1>3. /\ Working(i) /\ SlotInv /\ Typed /\ h.kind \in Kinds /\ h.cb \in Callbacks /\ log[f] # <<>>
      /\ m \in Nat \ {0} /\ log[f][m] = h
      /\ h.kind # "replace" => s # None /\ Continues(s, f, m - 1)'
  BY <1>0, <1>1, <1>2, LateFacts
<1>4. CASE h.kind = "inline"
  <2>1. next' = next /\ ipc'[i] = "entry" /\ ipc[i] = "return"
    BY <1>3, <1>4 DEF Return, Goto, At, Installing, SlotInv, SlotTypes
  <2>2. h' = h /\ Fn(i)' = f
    BY <1>1, <2>1, SameCall
  <2>3. InlineWork(i)'
    <3>1. /\ entry[i] \in 0 .. EntryMax - 1 /\ entry[i] < entryIndex
          /\ entries[entry[i]].cb = None
      BY <1>3, <1>4, <2>1 DEF Working, InlineWork, Placing, Holding
    <3> QED BY <1>0, <1>4, <2>1, <2>2, <3>1 DEF InlineWork, Late
  <2>4. CopyWork(i)' /\ PatchWork(i)'
    BY <2>1 DEF CopyWork, PatchWork
  <2>5. LateWork(i)'
    BY <1>0, <1>1, <1>2, <1>3, <1>4, <2>1, <2>2 DEF LateWork
  <2>6. Chain(f)'
    BY <2>1, ChainStays
  <2> QED BY <2>3, <2>4, <2>5, <2>6 DEF Working
<1>5. CASE h.kind # "inline"
  <2>1. /\ next'[i] # next[i]
        /\ orig' = [orig EXCEPT ![h.cb] = IF h.kind = "tramp" THEN slot[i] ELSE orig[h.cb]]
    BY <1>3, <1>5 DEF Return, Typed, InstallersTyped
  <2>2. Published(f, m)'
    <3>1. log'[f][m'] = h
      BY <1>0, <1>3
    <3>2. CASE h.kind = "tramp"
      <4>1. orig'[h.cb] = s
        BY <1>2, <1>3, <2>1, <3>2 DEF SlotInv, SlotTypes
      <4> QED BY <1>3, <3>1, <3>2, <4>1 DEF Published
    <3>3. CASE h.kind = "replace"
      BY <3>1, <3>3 DEF Published
    <3> QED BY <1>3, <1>5, <3>2, <3>3 DEF Kinds
  <2>3. Chain(f)'
    BY <1>0, <1>1, <2>1, <2>2, CallEnds
  <2>4. ~Finished(i)' => Working(i)'
    BY <2>1, NewCall
  <2> QED BY <2>3, <2>4
<1> QED BY <1>4, <1>5

LEMMA WriteEntryWorks ==
  ASSUME IInv, HookAssumption, Orderly, NEW i \in Installers, Step(i), WriteEntry(i),
         NEW f \in Funcs, f = Fn(i)
  PROVE  Working(i)' /\ Chain(f)'
<1>0. ipc[i] \in Late /\ UNCHANGED <<next, log, code, slot, entry, entryIndex, word, tramp>> /\ ipc[i] = "entry"
  BY DEF WriteEntry, At, Installing, Late
<1>1. f = Fn(i)
  OBVIOUS
<1>2. PICK s : s = slot[i]
  OBVIOUS
<1> DEFINE h == Hook(i)
           m == Len(log[f])
<1>3. /\ Working(i) /\ SlotInv /\ Typed /\ h.kind \in Kinds /\ h.cb \in Callbacks /\ log[f] # <<>>
      /\ m \in Nat \ {0} /\ log[f][m] = h
      /\ h.kind # "replace" => s # None /\ Continues(s, f, m - 1)'
  BY <1>0, <1>1, <1>2, LateFacts
<1>4. h' = h /\ Fn(i)' = f
  BY <1>0, <1>1, SameCall
<1>5. /\ h.kind = "inline" /\ ipc'[i] = "callback" /\ entry[i] \in 0 .. EntryMax
      /\ entry[i] \in 0 .. EntryMax - 1 /\ entry[i] < entryIndex /\ entries[entry[i]].cb = None
  BY <1>0, <1>3 DEF WriteEntry, Goto, Working, InlineWork, Placing, Holding, SlotInv, SlotTypes
<1>6. /\ entries'[entry[i]].slot = slot[i] /\ entries'[entry[i]].skip = BranchSkip
      /\ entries'[entry[i]].cb = None
  <2> DEFINE e == entry[i]
             skip == BranchSkip
             v == slot[i]
  <2>1. entries' = [entries EXCEPT ![e].slot = v, ![e].skip = skip]
    BY DEF WriteEntry
  <2>2. entries \in [0 .. EntryMax -> [slot : Slots, skip : Nat, cb : Callbacks \cup {None}]]
        /\ e \in 0 .. EntryMax /\ entries[e].cb = None
    BY <1>3, <1>5 DEF Typed, MemoryTyped
  <2> HIDE DEF e, skip, v
  <2>3. entries'[e].slot = v /\ entries'[e].skip = skip /\ entries'[e].cb = None
    BY <2>1, <2>2
  <2> QED BY <2>3 DEF e, skip, v
<1>7. InlineWork(i)'
  BY <1>0, <1>1, <1>3, <1>4, <1>5, <1>6 DEF InlineWork, Late, Placing, Holding
<1>8. CopyWork(i)' /\ PatchWork(i)'
  BY <1>5 DEF CopyWork, PatchWork
<1>9. LateWork(i)'
  BY <1>0, <1>1, <1>2, <1>3, <1>4, <1>5 DEF LateWork
<1>10. Chain(f)'
  BY <1>0, ChainStays
<1> QED BY <1>7, <1>8, <1>9, <1>10 DEF Working

LEMMA WriteCallbackWorks ==
  ASSUME IInv, HookAssumption, Orderly, NEW i \in Installers, Step(i), WriteCallback(i),
         NEW f \in Funcs, f = Fn(i)
  PROVE  (~Finished(i)' => Working(i)') /\ Chain(f)'
<1>0. ipc[i] \in Late /\ UNCHANGED <<log, code, slot, entry, entryIndex, word, tramp>> /\ ipc[i] = "callback"
  BY DEF WriteCallback, At, Installing, Late
<1>1. f = Fn(i)
  OBVIOUS
<1>2. PICK s : s = slot[i]
  OBVIOUS
<1> DEFINE h == Hook(i)
           m == Len(log[f])
           e == entry[i]
<1>3. /\ Working(i) /\ SlotInv /\ Typed /\ h.kind \in Kinds /\ h.cb \in Callbacks /\ log[f] # <<>>
      /\ m \in Nat \ {0} /\ log[f][m] = h
      /\ h.kind # "replace" => s # None /\ Continues(s, f, m - 1)'
  BY <1>0, <1>1, <1>2, LateFacts
<1>4. /\ h.kind = "inline" /\ e \in 0 .. EntryMax
      /\ entries[e].slot = s /\ entries[e].skip = BranchSkip
  BY <1>0, <1>2, <1>3 DEF Working, InlineWork, Placing, Holding
<1>5. next'[i] # next[i]
  BY <1>3 DEF WriteCallback, Typed, InstallersTyped
<1>6. entries'[e].slot = s /\ entries'[e].skip = BranchSkip /\ entries'[e].cb = h.cb
  BY <1>3, <1>4 DEF WriteCallback, Typed, MemoryTyped
<1>7. Published(f, m)'
  <2>1. log'[f][m'] = h
    BY <1>0, <1>3
  <2>2. PICK d \in 0 .. EntryMax : d = e
    BY <1>4
  <2>3. Continues(entries[d].slot, f, m - 1)' /\ entries'[d].cb = h.cb /\ entries'[d].skip = BranchSkip
    BY <1>3, <1>4, <1>6, <2>2
  <2> QED BY <1>4, <2>1, <2>3 DEF Published
<1>8. Chain(f)'
  BY <1>0, <1>1, <1>5, <1>7, CallEnds
<1>9. ~Finished(i)' => Working(i)'
  BY <1>5, NewCall
<1> QED BY <1>8, <1>9

-----------------------------------------------------------------------------
\* Every step of an installer.

LEMMA OwnWork ==
  ASSUME IInv, HookAssumption, Orderly, NEW i \in Installers, Step(i), NEW f \in Funcs, f = Fn(i)
  PROVE  (~Finished(i)' => Working(i)') /\ Chain(f)'
<1>1. CASE Start(i) \/ Grab(i) \/ Advance(i) \/ Alloc(i) \/ Copy(i) \/ Load(i)
  <2>1. next' = next /\ ipc[i] \notin {"patch", "swap"}
    BY <1>1 DEF Start, Grab, Advance, Alloc, Copy, Load, At, Installing
  <2>2. Chain(f)'
    BY <2>1, ChainStays
  <2> QED BY <1>1, <2>2, StartWorks, GrabWorks, AllocWorks, CopyWorks, LoadWorks
<1>2. CASE Patch(i) \/ Swap(i)
  <2>1. Working(i)' /\ Chain(Fn(i))'
    BY <1>2, PatchWorks, SwapWorks
  <2>2. Fn(i)' = f
    BY <1>2, SameCall DEF Patch, Swap
  <2> QED BY <2>1, <2>2
<1>3. CASE Return(i) \/ WriteEntry(i) \/ WriteCallback(i)
  BY <1>3, ReturnWorks, WriteEntryWorks, WriteCallbackWorks
<1> QED BY <1>1, <1>2, <1>3 DEF Step, Install

LEMMA InstallStep ==
  ASSUME IInv, HookAssumption, Orderly, NEW i \in Installers, Step(i)
  PROVE  Typed' /\ Chained' /\ Safe'
<1>1. Fn(i) \in Funcs /\ Typed /\ SlotInv /\ ~Finished(i)
  BY StepFacts
<1>2. \A j \in Installers : ~Finished(j)' => Working(j)'
  <2> SUFFICES ASSUME NEW j \in Installers, ~Finished(j)' PROVE Working(j)'
    OBVIOUS
  <2>1. CASE j = i
    BY <1>1, <2>1, OwnWork
  <2>2. CASE j # i
    <3>1. ~Finished(j)
      BY <1>1, <2>2, InstallLeaves DEF Step, Finished
    <3> QED BY <2>2, <3>1, WorkingStays
  <2> QED BY <2>1, <2>2
<1>3. \A f \in Funcs : Chain(f)'
  BY <1>1, OwnWork, ChainStays
<1>4. Safe'
  BY DEF Step, Safe, NoWildJump
<1> QED
  BY <1>2, <1>3, <1>4, InstallTyped, LoggedStays, ReservedStays, CallingStays DEF Chained

-----------------------------------------------------------------------------
\* Callers change nothing but themselves.

Still == UNCHANGED <<plan, next, ipc, slot, entry, word, expect, index, entryIndex, code, tramp,
                     orig, entries, log>>

LEMMA StillTyped ==
  ASSUME Typed, Still
  PROVE  plan' \in Plans /\ InstallersTyped' /\ MemoryTyped'
BY DEF Typed, Still, InstallersTyped, MemoryTyped

LEMMA StillLeads ==
  ASSUME Still
  PROVE  /\ \A i \in Installers : /\ Finished(i)' = Finished(i) /\ Hook(i)' = Hook(i) /\ Fn(i)' = Fn(i)
                                  /\ Target(i)' = Target(i)
         /\ \A e, h : Serves(e, h)' = Serves(e, h)
         /\ \A p, h : Leads(p, h)' = Leads(p, h)
         /\ \A s : Complete(s)' = Complete(s)
         /\ \A s, f : AimOf(s, f)' = AimOf(s, f)
         /\ \A f : Aim(f)' = Aim(f)
<1>1. plan' = plan
  BY DEF Still
<1>2. \A i : Finished(i)' = Finished(i) /\ Hook(i)' = Hook(i) /\ Fn(i)' = Fn(i)
  BY <1>1 DEF Still, Finished, Hook, Fn
<1>3. \A i : Target(i)' = Target(i)
  BY <1>2 DEF Still, Target
<1>4. \A e, h : Serves(e, h)' = Serves(e, h)
  BY <1>2 DEF Still, Serves, Busy
<1>5. \A p, h : Leads(p, h)' = Leads(p, h)
  BY <1>4 DEF Leads
<1>6. \A s : Complete(s)' = Complete(s)
  BY <1>2 DEF Still, Complete, Busy
<1>7. (\A s, f : AimOf(s, f)' = AimOf(s, f)) /\ (\A f : Aim(f)' = Aim(f))
  BY DEF Still, AimOf, Aim
<1> QED BY <1>2, <1>3, <1>4, <1>5, <1>6, <1>7

LEMMA StillContinues ==
  ASSUME Still
  PROVE  \A s, f, m : Continues(s, f, m)' = Continues(s, f, m)
<1> SUFFICES ASSUME NEW s, NEW f, NEW m PROVE Continues(s, f, m)' = Continues(s, f, m)
  OBVIOUS
<1> DEFINE p == AimOf(s, f)
           h == log[f][m]
<1>1. p' = p /\ h' = h /\ Complete(s)' = Complete(s)
  BY StillLeads DEF Still
<1>2. Leads(p, h)' = Leads(p, h)
  <2> HIDE DEF p, h
  <2> QED BY <1>1, StillLeads
<1> QED BY <1>1, <1>2 DEF Continues, Still

LEMMA StillGrows ==
  ASSUME Still, Typed
  PROVE  Grows
<1>1. \A f \in Funcs : Len(log[f]) \in Nat
  BY LogType
<1> QED BY <1>1, StillLeads DEF Still, Grows

LEMMA StillWorks ==
  ASSUME Still, Typed, HookAssumption
  PROVE  /\ \A i \in Installers : Working(i) => Working(i)'
         /\ Logged => Logged'
         /\ Reserved => Reserved'
         /\ \A f \in Funcs : Chain(f) => Chain(f)'
<1>1. ASSUME NEW i \in Installers, Working(i) PROVE Working(i)'
  <2>1. InlineWork(i)'
    BY <1>1, StillLeads DEF Still, Working, InlineWork
  <2>2. CopyWork(i)'
    BY <1>1, StillLeads DEF Still, Working, CopyWork, Moved, Literal
  <2>3. PatchWork(i)'
    BY <1>1, StillLeads, StillContinues DEF Still, Working, PatchWork
  <2>4. LateWork(i)'
    BY <1>1, StillLeads, StillContinues DEF Still, Working, LateWork
  <2> QED BY <2>1, <2>2, <2>3, <2>4 DEF Working
<1>2. Logged => Logged'
  BY DEF Still, Logged, Placed
<1>3. Reserved => Reserved'
  BY DEF Still, Reserved
<1>4. ASSUME NEW f \in Funcs, Chain(f) PROVE Chain(f)'
  <2>1. Calls(f, Len(log[f])) => Calls(f, Len(log[f]))'
    BY StillGrows, CallsStays DEF Still
  <2>2. \A m \in 1 .. Len(log[f]) : Published(f, m) => Published(f, m)'
    BY StillGrows, PublishedStays
  <2>3. Half(f)' = Half(f)
    BY StillLeads DEF Still, Half, Installing
  <2> QED BY <1>4, <2>1, <2>2, <2>3, StillLeads DEF Still, Chain, Busy
<1> QED BY <1>1, <1>2, <1>3, <1>4

LEMMA StillUnpublished ==
  ASSUME NothingRunsUnpublished, Still,
         \A d \in Callers : ~torn'[d] => ~torn[d] /\ at'[d] = at[d]
  PROVE  NothingRunsUnpublished'
<1>1. \A i \in Installers : /\ Hook(i)' = Hook(i) /\ entry'[i] = entry[i]
                            /\ \A l : Installing(i, l)' = Installing(i, l)
  BY StillLeads DEF Still, Installing
<1>2. \A d \in Callers : ~torn'[d] => /\ OrigUnset(d)' = OrigUnset(d)
                                      /\ EntryUnwritten(d)' = EntryUnwritten(d)
  BY DEF Still, OrigUnset, EntryUnwritten, IsReplacement
<1> QED BY <1>1, <1>2 DEF NothingRunsUnpublished

-----------------------------------------------------------------------------
\* Where callers are, and what they meet there.

\* What a caller needs to know before it executes a word.
LEMMA CallerFacts ==
  ASSUME IInv, crash = "no"
  PROVE  /\ Typed /\ SlotInv /\ Logged /\ Reserved
         /\ \A i \in Installers : ~Finished(i) => Working(i)
         /\ \A f \in Funcs : Chain(f) /\ (~Half(f) => Calls(f, Len(log[f])))
         /\ \A c \in Callers : Calling(c)
BY DEF IInv, Chained, Chain

Traces == Seq(Nat \cup Callbacks \cup {None})

\* Caller c is in a call of f that runs the n oldest hooks of f, and has got as
\* far as hook m.
Runs(c, f, n, m) ==
  /\ f = call[c].fn /\ f \in Funcs /\ call[c].since <= Len(log[f])
  /\ n \in call[c].since .. Len(log[f]) /\ m \in 0 .. n
  /\ \A l \in m + 1 .. n : ~Replaces(log[f][l])

LEMMA RunsFacts ==
  ASSUME Typed, NEW c \in Callers, NEW f, NEW n, NEW m, Runs(c, f, n, m)
  PROVE  /\ f \in Funcs /\ n \in 0 .. Len(log[f]) /\ m \in 0 .. n /\ n \in Nat /\ m \in Nat
         /\ Len(log[f]) \in Nat /\ call[c].since \in Nat
         /\ m \in 0 .. Len(log[f]) /\ (m # 0 => m \in 1 .. Len(log[f]) /\ m \in 1 .. n)
         /\ \A l \in 1 .. n : l \in 1 .. Len(log[f])
<1>1. f \in Funcs /\ call[c].since \in Nat
  BY DEF Runs, Typed, CallersTyped
<1>2. Len(log[f]) \in Nat
  BY <1>1, LogType
<1> QED BY <1>1, <1>2 DEF Runs

\* Sequences of callbacks and words.

LEMMA BodiesFacts ==
  ASSUME NEW S, NEW R \in Seq(S), NEW j \in Nat, NEW k \in Nat, j <= k
  PROVE  R \o Bodies(k, k) = R /\ Append(R \o Bodies(j, k), k) = R \o Bodies(j, k + 1)
<1>1. Bodies(j, k) \in Seq(Nat) /\ Len(Bodies(j, k)) = k - j
  BY DEF Bodies
<1>2. Bodies(j, k + 1) \in Seq(Nat) /\ Len(Bodies(j, k + 1)) = k + 1 - j
  BY DEF Bodies
<1>3. Bodies(k, k) = <<>>
  BY DEF Bodies
<1>4. Append(Bodies(j, k), k) = Bodies(j, k + 1)
  BY <1>1, <1>2 DEF Bodies
<1>5. R \in Seq(S \cup Nat) /\ Bodies(j, k) \in Seq(S \cup Nat) /\ <<k>> \in Seq(S \cup Nat)
  BY <1>1
<1>6. Append(R \o Bodies(j, k), k) = R \o Append(Bodies(j, k), k)
  <2>1. R \o Bodies(j, k) \in Seq(S \cup Nat)
    BY <1>5
  <2>2. /\ Append(R \o Bodies(j, k), k) = (R \o Bodies(j, k)) \o <<k>>
        /\ Append(Bodies(j, k), k) = Bodies(j, k) \o <<k>>
    BY <1>5, <2>1, AppendIsConcat
  <2> QED BY <1>5, <2>1, <2>2, ConcatAssociative
<1> QED BY <1>3, <1>4, <1>6

LEMMA RanFacts ==
  ASSUME Typed, NEW f \in Funcs, NEW n \in 0 .. Len(log[f])
  PROVE  /\ \A m \in 1 .. n : Append(Ran(f, m, n), log[f][m].cb) = Ran(f, m - 1, n)
         /\ Ran(f, n, n) = <<>>
         /\ Skipped(f, n) \in {0, 1}
         /\ \A k \in Nat : Ran(f, 0, n) \o Bodies(k, k) = Ran(f, 0, n)
         /\ \A j, k \in Nat : j <= k =>
              Append(Ran(f, 0, n) \o Bodies(j, k), k) = Ran(f, 0, n) \o Bodies(j, k + 1)
<1>1. n \in Nat
  BY LogType
<1>2. ASSUME NEW m \in 1 .. n PROVE Append(Ran(f, m, n), log[f][m].cb) = Ran(f, m - 1, n)
  <2>1. n - m \in Nat /\ n - (m - 1) = (n - m) + 1
    BY <1>1
  <2>2. Ran(f, m, n) \in Seq({log[f][l].cb : l \in 1 .. n}) /\ Len(Ran(f, m, n)) = n - m
    BY <1>1, <2>1 DEF Ran
  <2>3. Append(Ran(f, m, n), log[f][m].cb) \in Seq({log[f][l].cb : l \in 1 .. n})
    BY <1>1, <2>2, AppendType
  <2>4. DOMAIN Append(Ran(f, m, n), log[f][m].cb) = 1 .. n - (m - 1)
    BY <2>1, <2>2
  <2>5. ASSUME NEW k \in 1 .. n - (m - 1)
        PROVE  Append(Ran(f, m, n), log[f][m].cb)[k] = log[f][n + 1 - k].cb
    <3>1. CASE k = (n - m) + 1
      BY <1>1, <2>1, <2>2, <3>1
    <3>2. CASE k # (n - m) + 1
      <4>1. k \in 1 .. n - m
        BY <1>1, <2>1, <3>2
      <4>2. Append(Ran(f, m, n), log[f][m].cb)[k] = Ran(f, m, n)[k]
        BY <2>2, <4>1
      <4> QED BY <4>1, <4>2 DEF Ran
    <3> QED BY <3>1, <3>2
  <2> DEFINE s == Append(Ran(f, m, n), log[f][m].cb)
  <2>6. s = [k \in 1 .. n - (m - 1) |-> s[k]]
    BY <2>3, <2>4
  <2> QED BY <2>5, <2>6 DEF Ran
<1>3. Ran(f, n, n) = <<>>
  BY <1>1 DEF Ran
<1>4. Skipped(f, n) \in {0, 1}
  BY DEF Skipped, BranchSkip
<1>5. Ran(f, 0, n) \in Seq({log[f][l].cb : l \in 1 .. n})
  BY <1>1 DEF Ran
<1>6. ASSUME NEW j \in Nat, NEW k \in Nat, j <= k
      PROVE  /\ Ran(f, 0, n) \o Bodies(k, k) = Ran(f, 0, n)
             /\ Append(Ran(f, 0, n) \o Bodies(j, k), k) = Ran(f, 0, n) \o Bodies(j, k + 1)
  BY <1>5, <1>6, BodiesFacts
<1>7. ASSUME NEW k \in Nat PROVE Ran(f, 0, n) \o Bodies(k, k) = Ran(f, 0, n)
  <2>1. k <= k
    OBVIOUS
  <2> QED BY <1>6, <2>1
<1> QED BY <1>2, <1>3, <1>4, <1>6, <1>7

\* Where a caller is tells how far the call has come.
LEMMA WhereCalling ==
  ASSUME IInv, NEW c \in Callers, crash = "no", ~torn[c], at[c].in # "idle", at[c].in # "done"
  PROVE  /\ call[c].fn \in Funcs /\ call[c].since <= Len(log[call[c].fn])
         /\ \/ Arriving(c, call[c].fn)
            \/ \E n, m : Runs(c, call[c].fn, n, m)
                         /\ (AtHook(c, call[c].fn, m, n) \/ (m = 0 /\ InBody(c, call[c].fn, n)))
<1>1. Calling(c)
  BY CallerFacts
<1> QED BY <1>1 DEF Calling, Runs

LEMMA LeadsPlace ==
  ASSUME HookAssumption, NEW p, NEW h \in Hooks, Leads(p, h)
  PROVE  /\ p \in Places /\ p # Junk /\ p.in \in {"entry", "callback"}
         /\ p.in = "entry" <=> h.kind = "inline"
<1>1. h.cb \in Callbacks
  BY DEF Callbacks
<1>2. CASE h.kind = "inline"
  <2>1. p.id \in Int /\ p = Entry(p.id)
    BY <1>2 DEF Leads
  <2> QED BY <1>2, <2>1, PlaceTypes DEF Entry, Place, Junk
<1>3. CASE h.kind # "inline"
  BY <1>1, <1>3, PlaceTypes DEF Leads, Callback, Place, Junk
<1> QED BY <1>2, <1>3

LEMMA CallerTypes ==
  ASSUME Typed, NEW c \in Callers, ~torn[c]
  PROVE  /\ at[c] \in Places /\ x17[c] \in Places /\ trace[c] \in Traces /\ at[c].pc \in Nat
         /\ \A k \in Nat \cup Callbacks \cup {None} : Append(trace[c], k) \in Traces
<1>1. at[c] \in Places /\ x17[c] \in Places /\ trace[c] \in Traces
  BY DEF Typed, CallersTyped, Traces
<1>2. at[c].pc \in Nat
  BY <1>1 DEF Places
<1> QED BY <1>1, <1>2 DEF Traces

LEMMA HookReached ==
  ASSUME IInv, HookAssumption, NEW c \in Callers, crash = "no", ~torn[c], at[c].in \in {"entry", "callback"}
  PROVE  \E f, n, m : /\ Runs(c, f, n, m) /\ m # 0 /\ trace[c] = Ran(f, m, n) /\ Leads(at[c], log[f][m])
                      /\ f \in Funcs /\ m \in 1 .. Len(log[f]) /\ m \in 1 .. n /\ n \in 0 .. Len(log[f])
                      /\ log[f][m] \in Hooks /\ (log[f][m].kind = "inline" <=> at[c].in = "entry")
                      /\ Append(trace[c], log[f][m].cb) = Ran(f, m - 1, n)
                      /\ Append(trace[c], log[f][m].cb) \in Traces
<1>1. Typed
  BY DEF IInv
<1>2. ~Arriving(c, call[c].fn) /\ \A f, n : ~InBody(c, f, n)
  BY DEF Arriving, InBody
<1>3. PICK f, n, m : Runs(c, f, n, m) /\ AtHook(c, f, m, n)
  BY <1>2, WhereCalling
<1>4. m # 0 /\ trace[c] = Ran(f, m, n) /\ Leads(at[c], log[f][m])
  BY <1>1, <1>3, RunsFacts DEF AtHook
<1>5. f \in Funcs /\ m \in 1 .. Len(log[f]) /\ m \in 1 .. n /\ n \in 0 .. Len(log[f])
  BY <1>1, <1>3, <1>4, RunsFacts
<1>6. log[f][m] \in Hooks
  BY <1>1, <1>5, LogType
<1>7. log[f][m].kind = "inline" <=> at[c].in = "entry"
  BY <1>4, <1>6, LeadsPlace
<1>8. Append(trace[c], log[f][m].cb) = Ran(f, m - 1, n)
  <2>1. \A l \in 1 .. n : Append(Ran(f, l, n), log[f][l].cb) = Ran(f, l - 1, n)
    BY <1>1, <1>5, RanFacts
  <2> QED BY <1>4, <1>5, <2>1
<1>9. Append(trace[c], log[f][m].cb) \in Traces
  BY <1>1, <1>6, CallerTypes DEF Callbacks
<1> QED BY <1>3, <1>4, <1>5, <1>6, <1>7, <1>8, <1>9

\* What a hook needs to go on is there, unless it is being installed.
LEMMA PublishedOrLate ==
  ASSUME IInv, HookAssumption, crash = "no", NEW f \in Funcs, NEW m \in 1 .. Len(log[f])
  PROVE  \/ Published(f, m)
         \/ /\ orig[log[f][m].cb] = None /\ \A e \in 0 .. EntryMax : entries[e].cb # log[f][m].cb
            /\ \E i \in Installers : Busy(i, Late) /\ Hook(i) = log[f][m]
<1> SUFFICES ASSUME ~Published(f, m)
             PROVE  /\ orig[log[f][m].cb] = None /\ \A e \in 0 .. EntryMax : entries[e].cb # log[f][m].cb
                    /\ \E i \in Installers : Busy(i, Late) /\ Hook(i) = log[f][m]
  OBVIOUS
<1>1. /\ Typed /\ Reserved /\ Chain(f)
      /\ \A i \in Installers : ~Finished(i) => Working(i)
  BY CallerFacts
<1>2. PICK i \in Installers : Busy(i, Late) /\ Fn(i) = f /\ m = Len(log[f])
  BY <1>1 DEF Chain
<1>3. ~Finished(i) /\ log[f][m] = Hook(i)
  BY <1>1, <1>2 DEF Busy, Working, LateWork
<1>4. next[i] \in DOMAIN plan[i] /\ Hook(i) = plan[i][next[i]] /\ next[i] \in Nat
  BY <1>1, <1>3, CurrentHook DEF Hook, Typed, InstallersTyped
<1> QED BY <1>1, <1>2, <1>3, <1>4 DEF Reserved

LEMMA IsReplacing ==
  ASSUME IInv, HookAssumption, Orderly, crash = "no", NEW f \in Funcs, NEW m \in 1 .. Len(log[f])
  PROVE  /\ IsReplacement(log[f][m].cb) <=> log[f][m].kind = "replace"
         /\ log[f][m].kind = "inline" => m = 1
<1>1. Typed /\ Logged
  BY CallerFacts
<1>2. PICK i \in Installers : \E n \in DOMAIN plan[i] : log[f][m] = plan[i][n]
  BY <1>1 DEF Logged
<1>3. ASSUME NEW j \in Installers, NEW l \in DOMAIN plan[j], plan[j][l].cb = log[f][m].cb
      PROVE  plan[j][l] = log[f][m]
  BY <1>1, <1>2, <1>3, HooksApart
<1> QED BY <1>1, <1>2, <1>3 DEF IsReplacement, Logged

\* An inline entry that has a callback is complete; one that has none is being written.
LEMMA EntryInUse ==
  ASSUME IInv, HookAssumption, Orderly, crash = "no",
         NEW f \in Funcs, NEW m \in 1 .. Len(log[f]), log[f][m].kind = "inline", log[f][m].cb \in Callbacks,
         NEW e \in 0 .. EntryMax, Serves(e, log[f][m])
  PROVE  /\ entries[e].cb # None => /\ entries[e].cb = log[f][m].cb
                                    /\ Continues(entries[e].slot, f, m - 1) /\ entries[e].skip = BranchSkip
                                    /\ entries[e].slot \in 0 .. HookMax /\ entries[e].slot # None
         /\ entries[e].cb = None => \E i \in Installers :
              Busy(i, Late) /\ Hook(i) = log[f][m] /\ entry[i] = e
<1> DEFINE h == log[f][m]
<1>1. /\ Typed /\ Reserved /\ Logged /\ h.cb # None
      /\ \A i \in Installers : ~Finished(i) => Working(i)
  BY CallerFacts DEF HookAssumption
<1>2. ASSUME NEW i \in Installers, Busy(i, Placing), entry[i] = e, Hook(i) = h
      PROVE  entries[e].cb = None /\ Busy(i, Late)
  <2>1. Working(i) /\ ~Finished(i) /\ ipc[i] \in Placing
    BY <1>1, <1>2 DEF Busy
  <2>2. PICK j \in Installers : \E n \in DOMAIN plan[j] : h = plan[j][n] /\ Placed(j, n)
    BY <1>1 DEF Logged
  <2>3. PICK n \in DOMAIN plan[j] : h = plan[j][n] /\ Placed(j, n)
    BY <2>2
  <2>4. next[i] \in DOMAIN plan[i] /\ plan[i][next[i]] = h
    BY <1>1, <1>2, <2>1, CurrentHook DEF Hook
  <2>5. j = i /\ n = next[i]
    BY <1>1, <2>3, <2>4, HooksApart
  <2>6. ipc[i] \in Late
    <3>1. next[i] \in Nat
      BY <1>1 DEF Typed, InstallersTyped
    <3> QED BY <2>3, <2>5, <3>1 DEF Placed
  <2> QED BY <1>1, <1>2, <2>1, <2>6 DEF Working, InlineWork, Busy
<1>3. ASSUME entries[e].cb = h.cb
      PROVE  /\ Continues(entries[e].slot, f, m - 1) /\ entries[e].skip = BranchSkip
             /\ entries[e].slot \in 0 .. HookMax /\ entries[e].slot # None
  <2>1. Published(f, m)
    BY <1>3, PublishedOrLate
  <2>2. PICK d \in 0 .. EntryMax : entries[d].cb = h.cb /\ Continues(entries[d].slot, f, m - 1)
                                   /\ entries[d].skip = BranchSkip
    BY <2>1 DEF Published
  <2>3. d = e
    BY <1>1, <1>3, <2>2 DEF Reserved
  <2>4. entries[e].slot \in 0 .. HookMax
    BY <2>2, <2>3 DEF Continues, Complete
  <2> QED BY <2>2, <2>3, <2>4, HookAssumption
<1> QED BY <1>1, <1>2, <1>3 DEF Serves

\* Who is at a hook before its time is there while it is being published.
LEMMA Unpublished ==
  ASSUME IInv, HookAssumption, Orderly, crash = "no"
  PROVE  NothingRunsUnpublished
<1> SUFFICES ASSUME NEW c \in Callers, ~torn[c]
             PROVE  /\ OrigUnset(c) => \E i \in Installers : Installing(i, "return") /\ Hook(i).cb = at[c].id
                    /\ EntryUnwritten(c) => \E i \in Installers :
                         /\ \E l \in {"return", "entry", "callback"} : Installing(i, l)
                         /\ Hook(i).kind = "inline" /\ entry[i] = at[c].id
  BY DEF NothingRunsUnpublished
<1>1. \A i \in Installers : ~Finished(i) => Working(i)
  BY CallerFacts
<1>2. ASSUME OrigUnset(c)
      PROVE  \E i \in Installers : Installing(i, "return") /\ Hook(i).cb = at[c].id
  <2>1. PICK f, m : /\ Leads(at[c], log[f][m]) /\ f \in Funcs /\ m \in 1 .. Len(log[f])
                    /\ log[f][m] \in Hooks /\ log[f][m].kind # "inline"
    BY <1>2, HookReached DEF OrigUnset
  <2> DEFINE h == log[f][m]
  <2>2. at[c].id = h.cb /\ h.kind \in Kinds
    BY <2>1 DEF Leads, Callback, Place, HookAssumption
  <2>3. h.kind = "tramp"
    BY <1>2, <2>1, <2>2, IsReplacing DEF OrigUnset, Kinds
  <2>4. ~Published(f, m)
    BY <1>2, <2>2, <2>3 DEF OrigUnset, Published
  <2>5. PICK i \in Installers : Busy(i, Late) /\ Hook(i) = h
    BY <2>1, <2>4, PublishedOrLate
  <2>6. ipc[i] = "return" /\ ~Finished(i)
    BY <1>1, <2>3, <2>5 DEF Busy, Late, Working, InlineWork
  <2> QED BY <2>2, <2>5, <2>6 DEF Installing
<1>3. ASSUME EntryUnwritten(c)
      PROVE  \E i \in Installers : /\ \E l \in {"return", "entry", "callback"} : Installing(i, l)
                                   /\ Hook(i).kind = "inline" /\ entry[i] = at[c].id
  <2>1. PICK f, m : /\ Leads(at[c], log[f][m]) /\ f \in Funcs /\ m \in 1 .. Len(log[f])
                    /\ log[f][m] \in Hooks /\ log[f][m].kind = "inline"
    BY <1>3, HookReached DEF EntryUnwritten
  <2>2. PICK e \in 0 .. EntryMax : e = at[c].id /\ Serves(e, log[f][m]) /\ log[f][m].cb \in Callbacks
    BY <2>1 DEF Leads, Callbacks
  <2>3. entries[e].cb = None
    BY <1>3, <2>1, <2>2, EntryInUse DEF EntryUnwritten
  <2>4. PICK i \in Installers : Busy(i, Late) /\ Hook(i) = log[f][m] /\ entry[i] = e
    BY <2>1, <2>2, <2>3, EntryInUse
  <2> QED BY <2>1, <2>2, <2>4 DEF Busy, Late, Installing
<1> QED BY <1>2, <1>3

\* A pool is full.
LEMMA FullStep ==
  ASSUME IInv, HookAssumption, Orderly, NEW i \in Installers, Install(i), plan' = plan, crash' # "no"
  PROVE  Typed' /\ Chained' /\ Safe'
<1>1. /\ Typed /\ SlotInv /\ crash = "no" /\ UNCHANGED <<at, x17, trace, call>>
      /\ ipc[i] # "patch" => torn' = torn
  BY InstallLeaves DEF IInv
<1>2. Start(i) \/ Alloc(i)
  BY <1>1 DEF Install, Grab, Advance, Copy, Patch, Load, Swap, Return, WriteEntry, WriteCallback
<1>3. /\ crash' = "PoolFull" /\ torn' = torn
      /\ UNCHANGED <<next, ipc, entry, expect, entryIndex, code, tramp, orig, entries, log>>
  BY <1>1, <1>2 DEF Start, Alloc, memoryVars, callerVars
<1>4. word' \in [Installers -> Words]
  <2>1. word \in [Installers -> Words] /\ 0 \in Words
    BY <1>1 DEF Typed, InstallersTyped, Words
  <2>2. word' = word \/ word' = [word EXCEPT ![i] = 0]
    BY <1>2 DEF Start, Alloc
  <2> QED BY <2>1, <2>2
<1>5. InstallersTyped' /\ MemoryTyped' /\ CallersTyped'
  BY <1>1, <1>3, <1>4 DEF Typed, InstallersTyped, MemoryTyped, CallersTyped
<1>6. NothingRunsUnpublished'
  BY <1>1, <1>3, Unpublished DEF NothingRunsUnpublished, OrigUnset, EntryUnwritten, IsReplacement,
     Installing, Finished, Hook
<1>7. plan' \in Plans
  BY <1>1 DEF Typed
<1> QED BY <1>3, <1>5, <1>6, <1>7 DEF Typed, Chained, Safe, NoWildJump

-----------------------------------------------------------------------------
\* Every step of a caller.

LEMMA CallerStep ==
  ASSUME IInv, HookAssumption, Orderly, NEW c \in Callers, Still, crash = "no",
         \A d \in Callers : d # c => /\ at'[d] = at[d] /\ x17'[d] = x17[d] /\ trace'[d] = trace[d]
                                     /\ call'[d] = call[d] /\ torn'[d] = torn[d],
         Typed', Safe', crash' = "no" => Calling(c)'
  PROVE  IInv'
<1>1. /\ Typed /\ Logged /\ Reserved
      /\ \A i \in Installers : ~Finished(i) => Working(i)
      /\ \A f \in Funcs : Chain(f)
      /\ \A d \in Callers : Calling(d)
  BY CallerFacts
<1>2. SlotInv'
  BY Untouched DEF IInv, SlotInv, SlotTypes, Holds, Still
<1>3. /\ Logged' /\ Reserved'
      /\ \A i \in Installers : ~Finished(i)' => Working(i)'
      /\ \A f \in Funcs : Chain(f)'
  BY <1>1, StillWorks, StillLeads
<1>4. ASSUME crash' = "no", NEW d \in Callers PROVE Calling(d)'
  <2>1. CASE d = c
    BY <1>4, <2>1
  <2>2. CASE d # c
    <3>1. \A g \in Far : log'[g] = log[g]
      BY DEF Still
    <3> QED BY <1>1, <2>2, <3>1, StillGrows, CallingKept
  <2> QED BY <2>1, <2>2
<1> QED BY <1>2, <1>3, <1>4 DEF IInv, Chained

\* A step of a caller is its own; it is torn once it is.
LEMMA RunLeaves ==
  ASSUME Typed, NEW c \in Callers, Run(c), plan' = plan
  PROVE  /\ Still /\ crash = "no" /\ call' = call
         /\ \E p, q, t : /\ at' = [at EXCEPT ![c] = p] /\ x17' = [x17 EXCEPT ![c] = q]
                         /\ trace' = [trace EXCEPT ![c] = t]
         /\ \E b \in BOOLEAN : torn' = [torn EXCEPT ![c] = b] /\ (torn[c] => b)
         /\ torn'[c] => crash' \in {"no", "Torn"}
<1>1. /\ Still /\ crash = "no" /\ call' = call
  BY DEF Run, RunFunction, RunTrampoline, RunCallback, RunEntry, Done, Execute, In, Alive,
         Still, installerVars, memoryVars
<1>2. /\ at = [at EXCEPT ![c] = at[c]] /\ x17 = [x17 EXCEPT ![c] = x17[c]]
      /\ trace = [trace EXCEPT ![c] = trace[c]] /\ torn = [torn EXCEPT ![c] = torn[c]]
      /\ torn[c] \in BOOLEAN
  BY DEF Typed, CallersTyped
<1>3. \E b \in BOOLEAN : torn' = [torn EXCEPT ![c] = b] /\ (torn[c] => b)
  <2>1. CASE RunFunction(c)
    <3> DEFINE b == torn[c] \/ (at[c].pc < Count(at[c].id) /\ Half(at[c].id))
    <3>1. torn' = [torn EXCEPT ![c] = b] /\ b \in BOOLEAN /\ (torn[c] => b)
      BY <2>1 DEF RunFunction
    <3> QED BY <3>1
  <2>2. CASE ~RunFunction(c)
    <3>1. torn' = torn
      BY <2>2 DEF Run, RunTrampoline, RunCallback, RunEntry, Done
    <3> QED BY <1>2, <3>1
  <2> QED BY <2>1, <2>2
<1>4. ASSUME NEW w, NEW lit, Execute(c, w, lit)
      PROVE  /\ \E p : at' = [at EXCEPT ![c] = p]
             /\ \E q : x17' = [x17 EXCEPT ![c] = q]
             /\ \E t : trace' = [trace EXCEPT ![c] = t]
             /\ torn'[c] => crash' \in {"no", "Torn"}
  <2>1. (\E q : x17' = [x17 EXCEPT ![c] = q]) /\ (\E t : trace' = [trace EXCEPT ![c] = t])
    BY <1>4 DEF Execute
  <2>2. \/ Forward(c) /\ crash' = crash
        \/ \E p : Jump(c, p) /\ crash' = crash
        \/ Die(c, "WildJump")
    BY <1>4 DEF Execute
  <2>3. \E p : at' = [at EXCEPT ![c] = p]
    BY <1>2, <2>2 DEF Forward, Jump, Die
  <2>4. torn'[c] => crash' \in {"no", "Torn"}
    BY <1>1, <2>2 DEF Die
  <2> QED BY <2>1, <2>3, <2>4
<1>5. /\ \E p : at' = [at EXCEPT ![c] = p]
      /\ \E q : x17' = [x17 EXCEPT ![c] = q]
      /\ \E t : trace' = [trace EXCEPT ![c] = t]
      /\ torn'[c] => crash' \in {"no", "Torn"}
  <2>1. CASE RunFunction(c)
    BY <1>1, <1>2, <1>4, <2>1 DEF RunFunction, Jump
  <2>2. CASE RunTrampoline(c)
    BY <1>1, <1>2, <1>4, <2>2 DEF RunTrampoline, Jump
  <2>3. CASE RunCallback(c)
    <3>1. \/ \E p : Jump(c, p) /\ crash' = crash
          \/ Die(c, "NullOrig")
      BY <2>3 DEF RunCallback
    <3>2. \E p : at' = [at EXCEPT ![c] = p]
      BY <1>2, <3>1 DEF Jump, Die
    <3>3. torn'[c] => crash' \in {"no", "Torn"}
      BY <1>1, <3>1 DEF Die
    <3> QED BY <2>3, <3>2, <3>3 DEF RunCallback
  <2>4. CASE RunEntry(c)
    <3>1. \/ \E p : Jump(c, p) /\ crash' = crash
          \/ Die(c, "EmptyEntry")
      BY <2>4 DEF RunEntry
    <3>2. \E p : at' = [at EXCEPT ![c] = p]
      BY <1>2, <3>1 DEF Jump, Die
    <3>3. torn'[c] => crash' \in {"no", "Torn"}
      BY <1>1, <3>1 DEF Die
    <3> QED BY <1>2, <2>4, <3>2, <3>3 DEF RunEntry
  <2>5. CASE Done(c)
    BY <1>1, <1>2, <2>5 DEF Done, Jump
  <2> QED BY <2>1, <2>2, <2>3, <2>4, <2>5 DEF Run
<1>6. \E p, q, t : /\ at' = [at EXCEPT ![c] = p] /\ x17' = [x17 EXCEPT ![c] = q]
                  /\ trace' = [trace EXCEPT ![c] = t]
  <2>1. PICK p : at' = [at EXCEPT ![c] = p]
    BY <1>5, Zenon
  <2>2. PICK q : x17' = [x17 EXCEPT ![c] = q]
    BY <1>5, Zenon
  <2>3. PICK t : trace' = [trace EXCEPT ![c] = t]
    BY <1>5, Zenon
  <2> QED BY <2>1, <2>2, <2>3, Zenon
<1> QED BY <1>1, <1>3, <1>5, <1>6, Zenon

LEMMA NotTorn ==
  ASSUME Typed, NEW c \in Callers, Run(c), plan' = plan, ~torn'[c]
  PROVE  ~torn[c] /\ torn' = torn
<1>1. PICK b \in BOOLEAN : torn' = [torn EXCEPT ![c] = b] /\ (torn[c] => b)
  BY RunLeaves
<1>2. torn \in [Callers -> BOOLEAN]
  BY DEF Typed, CallersTyped
<1>3. ~b /\ ~torn[c]
  BY <1>1, <1>2
<1>4. b = torn[c]
  BY <1>2, <1>3
<1> QED BY <1>1, <1>2, <1>3, <1>4

\* Nothing is promised to a caller that is torn, nor does it harm another.
LEMMA TornStep ==
  ASSUME IInv, HookAssumption, Orderly, NEW c \in Callers, Run(c), plan' = plan, torn'[c]
  PROVE  IInv'
<1>1. Typed /\ Still /\ crash = "no" /\ call' = call /\ crash' \in {"no", "Torn"}
  BY RunLeaves DEF IInv
<1>2. PICK p, q, t : /\ at' = [at EXCEPT ![c] = p] /\ x17' = [x17 EXCEPT ![c] = q]
                     /\ trace' = [trace EXCEPT ![c] = t]
  BY <1>1, RunLeaves
<1>3. PICK b \in BOOLEAN : torn' = [torn EXCEPT ![c] = b]
  BY <1>1, RunLeaves
<1>4. /\ torn' \in [Callers -> BOOLEAN]
      /\ at' = [d \in Callers |-> at'[d]] /\ x17' = [d \in Callers |-> x17'[d]]
      /\ trace' = [d \in Callers |-> trace'[d]]
      /\ \A d \in Callers : d # c => /\ at'[d] = at[d] /\ x17'[d] = x17[d] /\ trace'[d] = trace[d]
                                     /\ call'[d] = call[d] /\ torn'[d] = torn[d]
  BY <1>1, <1>2, <1>3 DEF Typed, CallersTyped
<1>5. CallersTyped'
  <2>1. \A d \in Callers : ~torn'[d] =>
          /\ at'[d] \in Places /\ x17'[d] \in Places
          /\ trace'[d] \in Seq(Nat \cup Callbacks \cup {None})
    BY <1>1, <1>4 DEF Typed, CallersTyped
  <2> QED BY <1>1, <1>4, <2>1 DEF Typed, CallersTyped
<1>6. Typed'
  BY <1>1, <1>5, StillTyped DEF Typed
<1>7. Safe'
  <2>1. NothingRunsUnpublished
    BY <1>1, Unpublished
  <2>2. NothingRunsUnpublished'
    BY <1>1, <1>4, <2>1, StillUnpublished
  <2> QED BY <1>1, <2>2 DEF Safe, NoWildJump
<1>8. Calling(c)'
  BY DEF Calling
<1> QED BY <1>1, <1>4, <1>6, <1>7, <1>8, CallerStep

-----------------------------------------------------------------------------
\* Caller c goes to p with q in X17 and has done t.
Goes(c, p, q, t) ==
  /\ at' = [at EXCEPT ![c] = p] /\ x17' = [x17 EXCEPT ![c] = q] /\ trace' = [trace EXCEPT ![c] = t]
  /\ call' = call /\ torn' = torn
Forth(c) == [at[c] EXCEPT !.pc = at[c].pc + 1]

LEMMA GoesFacts ==
  ASSUME Typed, Still, NEW c \in Callers,
         NEW p \in Places, NEW q \in Places, NEW t \in Traces, Goes(c, p, q, t)
  PROVE  /\ at'[c] = p /\ x17'[c] = q /\ trace'[c] = t /\ call'[c] = call[c]
         /\ \A d \in Callers : d # c => /\ at'[d] = at[d] /\ x17'[d] = x17[d] /\ trace'[d] = trace[d]
                                        /\ call'[d] = call[d] /\ torn'[d] = torn[d]
         /\ crash' \in {"no", "NullOrig", "EmptyEntry"} => Typed'
<1>1. /\ at'[c] = p /\ x17'[c] = q /\ trace'[c] = t /\ call'[c] = call[c]
      /\ \A d \in Callers : d # c => /\ at'[d] = at[d] /\ x17'[d] = x17[d] /\ trace'[d] = trace[d]
                                     /\ call'[d] = call[d] /\ torn'[d] = torn[d]
      /\ at' = [d \in Callers |-> at'[d]] /\ x17' = [d \in Callers |-> x17'[d]]
      /\ trace' = [d \in Callers |-> trace'[d]]
  BY DEF Typed, CallersTyped, Goes
<1>2. \A d \in Callers : ~torn'[d] =>
        /\ at'[d] \in Places /\ x17'[d] \in Places
        /\ trace'[d] \in Seq(Nat \cup Callbacks \cup {None})
  BY <1>1 DEF Typed, CallersTyped, Traces, Goes
<1>3. CallersTyped' /\ plan' \in Plans /\ InstallersTyped' /\ MemoryTyped'
  BY <1>1, <1>2, StillTyped DEF Typed, CallersTyped, Goes
<1> QED BY <1>1, <1>3 DEF Typed

LEMMA GoesStep ==
  ASSUME IInv, HookAssumption, Orderly, NEW c \in Callers, crash = "no", Still,
         NEW p \in Places, NEW q \in Places, NEW t \in Traces, Goes(c, p, q, t),
         crash' = "no", Calling(c)'
  PROVE  IInv'
<1>1. Safe'
  BY DEF Safe, NoWildJump
<1> QED BY <1>1, GoesFacts, CallerStep DEF IInv

LEMMA DiesStep ==
  ASSUME IInv, HookAssumption, Orderly, NEW c \in Callers, crash = "no", Still,
         NEW q \in Places, NEW t \in Traces, at[c] \in Places, Goes(c, at[c], q, t),
         crash' \in {"NullOrig", "EmptyEntry"}
  PROVE  IInv'
<1>1. Safe'
  <2>1. \A d \in Callers : at'[d] = at[d] /\ torn'[d] = torn[d]
    BY GoesFacts DEF IInv, Goes
  <2>2. NothingRunsUnpublished'
    BY <2>1, Unpublished, StillUnpublished
  <2> QED BY <2>2 DEF Safe, NoWildJump
<1> QED BY <1>1, GoesFacts, CallerStep DEF IInv

LEMMA ExecuteWord ==
  ASSUME Typed, NEW c \in Callers, ~torn[c], torn' = torn, NEW w, NEW lit, Execute(c, w, lit)
  PROVE  /\ Still \/ plan' # plan
         /\ w.op \in {"body", "nop", "ldr", "ldrc"} =>
              /\ crash' = crash
              /\ Goes(c, Forth(c), IF w.op = "ldr" THEN lit ELSE IF w.op = "ldrc" THEN w.to ELSE x17[c],
                      IF w.op = "body" THEN Append(trace[c], w.i) ELSE trace[c])
         /\ w.op = "br" /\ x17[c] # Junk => crash' = crash /\ Goes(c, x17[c], x17[c], trace[c])
         /\ w.op = "b" => crash' = crash /\ Goes(c, w.to, x17[c], trace[c])
<1>1. Still \/ plan' # plan
  BY DEF Execute, Still, installerVars, memoryVars
<1>2. /\ trace' = [trace EXCEPT ![c] = IF w.op = "body" THEN Append(trace[c], w.i) ELSE trace[c]]
      /\ call' = call
  BY DEF Execute
<1>3. CASE w.op \in {"body", "nop", "ldr", "ldrc"}
  <2>1. crash' = crash /\ at' = [at EXCEPT ![c] = Forth(c)]
    BY <1>3 DEF Execute, Forward, Forth, Typed, CallersTyped
  <2>2. x17' = [x17 EXCEPT ![c] = IF w.op = "ldr" THEN lit ELSE IF w.op = "ldrc" THEN w.to ELSE x17[c]]
    BY <1>3 DEF Execute
  <2> QED BY <1>1, <1>2, <1>3, <2>1, <2>2 DEF Goes
<1>4. CASE w.op = "br" /\ x17[c] # Junk
  BY <1>1, <1>2, <1>4 DEF Execute, Goes, Jump
<1>5. CASE w.op = "b"
  BY <1>1, <1>2, <1>5 DEF Execute, Goes, Jump
<1> QED BY <1>1, <1>3, <1>4, <1>5

LEMMA ForthFacts ==
  ASSUME Typed, NEW c \in Callers, ~torn[c]
  PROVE  Forth(c) \in Places /\ Forth(c).in = at[c].in /\ Forth(c).id = at[c].id
         /\ Forth(c).pc = at[c].pc + 1 /\ at[c].pc \in Nat
<1>1. PICK r \in Places : r = at[c]
  BY DEF Typed, CallersTyped
<1>2. r.pc \in Nat /\ r.pc + 1 \in Nat
  BY DEF Places
<1>3. [r EXCEPT !.pc = r.pc + 1] \in Places
  BY <1>2 DEF Places
<1>4. /\ [r EXCEPT !.pc = r.pc + 1].in = r.in /\ [r EXCEPT !.pc = r.pc + 1].id = r.id
      /\ [r EXCEPT !.pc = r.pc + 1].pc = r.pc + 1
  BY DEF Places
<1> QED BY <1>1, <1>2, <1>3, <1>4 DEF Forth

-----------------------------------------------------------------------------
\* Where a caller may be after its step.

LEMMA StillRuns ==
  ASSUME Still
  PROVE  /\ \A f, m, n : Ran(f, m, n)' = Ran(f, m, n)
         /\ \A f, n : Skipped(f, n)' = Skipped(f, n)
         /\ \A f, n, done : Expected(f, n, done)' = Expected(f, n, done)
BY DEF Still, Ran, Skipped, Expected

LEMMA GoesOn ==
  ASSUME Typed, Still, NEW c \in Callers, NEW f, NEW n, NEW m, Runs(c, f, n, m),
         call'[c] = call[c], AtHook(c, f, m, n)' \/ (m = 0 /\ InBody(c, f, n)')
  PROVE  Calling(c)'
BY DEF Runs, Calling, Still

LEMMA GoesDone ==
  ASSUME Typed, Still, NEW c \in Callers, NEW f, NEW n, NEW m, Runs(c, f, n, m),
         call'[c] = call[c], at'[c].in = "done", NEW t, trace'[c] = t, Expected(f, n, t)
  PROVE  Calling(c)'
<1>1. Expected(f, n, t)'
  BY StillRuns
<1>2. AsExpected(c)'
  BY <1>1 DEF Runs, AsExpected, Still
<1> QED BY <1>2 DEF Runs, Calling, Still

LEMMA GoesToHook ==
  ASSUME Typed, Still, HookAssumption, NEW c \in Callers, NEW f, NEW n, NEW m, Runs(c, f, n, m), m # 0,
         NEW p \in Places, NEW q \in Places, NEW t \in Traces, Goes(c, p, q, t),
         t = Ran(f, m, n), Leads(p, log[f][m])
  PROVE  Calling(c)'
<1>1. at'[c] = p /\ trace'[c] = t /\ call'[c] = call[c]
  BY GoesFacts
<1>2. PICK h : h = log[f][m]
  OBVIOUS
<1>3. Leads(p, h)' /\ log'[f][m] = h
  BY <1>2, StillLeads DEF Still
<1>4. trace'[c] = Ran(f, m, n)'
  BY <1>1, StillRuns
<1>5. AtHook(c, f, m, n)'
  BY <1>1, <1>3, <1>4, RunsFacts DEF AtHook
<1> QED BY <1>1, <1>5, GoesOn

LEMMA GoesInCopy ==
  ASSUME Typed, Still, HookAssumption, NEW c \in Callers, NEW f, NEW n, NEW m, Runs(c, f, n, m), m # 0,
         NEW p \in Places, NEW q \in Places, NEW t \in Traces, Goes(c, p, q, t),
         t = Ran(f, m, n), p.in = "tramp", NEW s, p.id = s, Continues(s, f, m), p.pc \in 0 .. Jumps(f),
         f \in Far /\ p.pc = Jumps(f) => q = AimOf(s, f)
  PROVE  Calling(c)'
<1>1. at'[c] = p /\ x17'[c] = q /\ trace'[c] = t /\ call'[c] = call[c]
  BY GoesFacts
<1>2. Continues(s, f, m)' /\ AimOf(s, f)' = AimOf(s, f)
  BY StillContinues, StillLeads
<1>3. trace'[c] = Ran(f, m, n)'
  BY <1>1, StillRuns
<1>4. Continues(at[c].id, f, m)' /\ AimOf(at[c].id, f)' = AimOf(s, f)
  BY <1>1, <1>2
<1>5. AtHook(c, f, m, n)'
  BY <1>1, <1>3, <1>4, RunsFacts DEF AtHook
<1> QED BY <1>1, <1>5, GoesOn

LEMMA GoesInBody ==
  ASSUME Typed, Still, HookAssumption, NEW c \in Callers, NEW f, NEW n, Runs(c, f, n, 0),
         NEW p \in Places, NEW q \in Places, NEW t \in Traces, Goes(c, p, q, t),
         p.pc \in Skipped(f, n) .. 5, t = Ran(f, 0, n) \o Bodies(Skipped(f, n), p.pc),
         \/ p.in = "tramp" /\ Continues(p.id, f, 0) /\ p.pc <= Count(f)
         \/ p.in = "code" /\ p.id = f /\ (p.pc >= Count(f) \/ (p.pc > 0 /\ n = 0 /\ f \in Far /\ log[f] = <<>>))
  PROVE  Calling(c)'
<1>1. at'[c] = p /\ x17'[c] = q /\ trace'[c] = t /\ call'[c] = call[c]
  BY DEF Goes, Typed, CallersTyped
<1>2. PICK s : s = p.id
  OBVIOUS
<1>3. Continues(s, f, 0) => Continues(at[c].id, f, 0)'
  <2>1. Continues(s, f, 0) => Continues(s, f, 0)'
    BY StillContinues
  <2> QED BY <1>1, <1>2, <2>1
<1>4. Ran(f, 0, n)' = Ran(f, 0, n) /\ Skipped(f, n)' = Skipped(f, n)
  BY StillRuns
<1>5. InBody(c, f, n)'
  BY <1>1, <1>2, <1>3, <1>4 DEF InBody, Still
<1> QED BY <1>1, <1>5, GoesOn

LEMMA GoesInPatch ==
  ASSUME Typed, Still, HookAssumption, NEW c \in Callers, NEW f \in Funcs, f = call[c].fn,
         call[c].since <= Len(log[f]), log[f] # <<>>, f \in Far,
         NEW p \in Places, NEW q \in Places, Goes(c, p, q, <<>>),
         p.in = "code", p.id = f, p.pc \in 0 .. Jumps(f),
         p.pc = Jumps(f) => \E n \in call[c].since .. Len(log[f]) : n > 0 /\ Leads(q, log[f][n])
  PROVE  Calling(c)'
<1>1. <<>> \in Traces
  BY DEF Traces
<1>2. at'[c] = p /\ x17'[c] = q /\ trace'[c] = <<>> /\ call'[c] = call[c]
  BY <1>1, GoesFacts
<1>3. ASSUME NEW n, Leads(q, log[f][n]) PROVE Leads(x17[c], log[f][n])'
  <2>1. PICK h : h = log[f][n]
    OBVIOUS
  <2>2. Leads(q, h)' /\ log'[f][n] = h
    BY <1>3, <2>1, StillLeads DEF Still
  <2> QED BY <1>2, <2>2
<1>4. Arriving(c, f)'
  BY <1>2, <1>3 DEF Arriving, Still
<1> QED BY <1>2, <1>4 DEF Calling, Still

-----------------------------------------------------------------------------
\* The steps of a caller.

LEMMA CallStep ==
  ASSUME IInv, HookAssumption, Orderly, NEW c \in Callers, NEW f \in Funcs, Call(c, f), plan' = plan
  PROVE  IInv'
<1>1. /\ Typed /\ crash = "no" /\ crash' = "no" /\ Still
  BY DEF Call, In, Alive, IInv, Still, installerVars, memoryVars
<1>2. Place("code", f, 0) \in Places /\ Junk \in Places /\ <<>> \in Traces /\ Len(log[f]) \in Nat
  <2>1. Place("code", f, 0) \in Places
    BY DEF Place, Places
  <2>2. Len(log[f]) \in Nat
    BY <1>1, LogType
  <2> QED BY <2>1, <2>2, PlaceTypes DEF Traces
<1>3. /\ at' = [at EXCEPT ![c] = Place("code", f, 0)] /\ x17' = [x17 EXCEPT ![c] = Junk]
      /\ trace' = [trace EXCEPT ![c] = <<>>]
      /\ call' = [call EXCEPT ![c] = [fn |-> f, since |-> Len(log[f])]]
      /\ torn' = [torn EXCEPT ![c] = FALSE]
  BY DEF Call, Jump
<1>7. /\ at'[c] = Place("code", f, 0) /\ x17'[c] = Junk /\ trace'[c] = <<>>
      /\ call'[c] = [fn |-> f, since |-> Len(log[f])]
      /\ at' = [d \in Callers |-> at'[d]] /\ x17' = [d \in Callers |-> x17'[d]]
      /\ trace' = [d \in Callers |-> trace'[d]]
      /\ \A d \in Callers : d # c => /\ at'[d] = at[d] /\ x17'[d] = x17[d] /\ trace'[d] = trace[d]
                                     /\ call'[d] = call[d] /\ torn'[d] = torn[d]
  BY <1>1, <1>3 DEF Typed, CallersTyped
<1>4. CallersTyped'
  <2>1. \A d \in Callers : ~torn'[d] =>
          /\ at'[d] \in Places /\ x17'[d] \in Places
          /\ trace'[d] \in Seq(Nat \cup Callbacks \cup {None})
    BY <1>1, <1>2, <1>7 DEF Typed, CallersTyped, Traces
  <2>2. call' \in [Callers -> [fn : Funcs \cup {None}, since : Nat]] /\ torn' \in [Callers -> BOOLEAN]
    BY <1>1, <1>2, <1>3 DEF Typed, CallersTyped
  <2> QED BY <1>7, <2>1, <2>2 DEF CallersTyped
<1>5. Typed' /\ Safe'
  BY <1>1, <1>4, StillTyped DEF Typed, Safe, NoWildJump
<1>6. Calling(c)'
  <2>2. Arriving(c, f)'
    BY <1>7 DEF Arriving, Place
  <2>3. call'[c].fn = f /\ call'[c].since <= Len(log'[f])
    BY <1>1, <1>2, <1>7 DEF Still
  <2> QED BY <2>2, <2>3 DEF Calling
<1> QED BY <1>1, <1>5, <1>6, <1>7, CallerStep

LEMMA DoneStep ==
  ASSUME IInv, HookAssumption, Orderly, NEW c \in Callers, Done(c), plan' = plan, ~torn[c]
  PROVE  IInv'
<1>1. /\ Typed /\ crash = "no" /\ crash' = "no" /\ at[c].in = "done" /\ Still
      /\ at' = [at EXCEPT ![c] = Nowhere] /\ UNCHANGED <<x17, trace, call, torn>>
  BY DEF Done, Jump, In, Alive, IInv, Still, installerVars, memoryVars
<1>2. Goes(c, Nowhere, x17[c], trace[c]) /\ x17[c] \in Places /\ trace[c] \in Traces /\ Nowhere \in Places
  BY <1>1, PlaceTypes DEF Goes, Typed, CallersTyped, Traces
<1>3. Calling(c)'
  BY <1>1 DEF Calling, Nowhere, Place, Typed, CallersTyped
<1> QED BY <1>1, <1>2, <1>3, GoesStep

\* A function that is patched jumps to its newest hook.
LEMMA PatchedWords ==
  ASSUME HookAssumption, NEW f \in Funcs, NEW p, NEW k \in 0 .. Jumps(f)
  PROVE  /\ k \in Words /\ k \in 0 .. Count(f) - 1 /\ k + 1 \in Nat /\ k < Count(f)
         /\ f \notin Far => Patched(f, p, k) = B(p) /\ Copied(f, p, k) = B(p)
         /\ f \in Far /\ k < First(f) => Patched(f, p, k) = Nop /\ Copied(f, p, k) = Nop
         /\ f \in Far /\ k = First(f) => Patched(f, p, k) = Ldr /\ Copied(f, p, k) = W("ldrc", p, 0)
         /\ f \in Far /\ k = Jumps(f) => Patched(f, p, k) = Br /\ Copied(f, p, k) = Br
         /\ f \in Far => k < First(f) \/ k = First(f) \/ k = Jumps(f)
         /\ f \in Far => Jumps(f) = First(f) + 1
<1>1. /\ First(f) \in 0 .. 1 /\ Jumps(f) \in 0 .. 2 /\ Count(f) \in 1 .. 5
      /\ f \in Far => Jumps(f) = First(f) + 1 /\ Count(f) = First(f) + 4
      /\ f \notin Far => First(f) = 0 /\ Jumps(f) = 0 /\ Count(f) = 1
  BY PatchFacts
<1>2. k \in Words /\ k \in 0 .. Count(f) - 1 /\ k + 1 \in Nat /\ k < Count(f)
  BY <1>1 DEF Words
<1> QED BY <1>1, <1>2 DEF Patched, Copied

\* Who is not torn by its step found the patch whole.
LEMMA UntornWhole ==
  ASSUME NEW c \in Callers, RunFunction(c), Typed, ~torn[c], torn' = torn,
         at[c].pc < Count(at[c].id)
  PROVE  ~Half(at[c].id)
<1>1. torn \in [Callers -> BOOLEAN]
  BY DEF Typed, CallersTyped
<1> QED BY <1>1 DEF RunFunction

\* A caller in the patch, or in the words of a function nobody has hooked.
LEMMA ArrivingStep ==
  ASSUME IInv, HookAssumption, Orderly, NEW c \in Callers, RunFunction(c), plan' = plan,
         ~torn[c], torn' = torn,
         NEW f \in Funcs, f = call[c].fn, call[c].since <= Len(log[f]), Arriving(c, f)
  PROVE  IInv'
<1> DEFINE k == at[c].pc
           m == Len(log[f])
           w == code[f][k]
           lit == Literal(f, k + 2)
<1>1. /\ Typed /\ crash = "no" /\ at[c].in = "code" /\ at[c].id = f /\ trace[c] = <<>>
      /\ k \in 0 .. Jumps(f) /\ m \in Nat /\ call[c].since \in Nat
  <2>1. Typed /\ crash = "no" /\ at[c].in = "code" /\ at[c].id = f /\ trace[c] = <<>>
    BY DEF RunFunction, In, Alive, IInv, Arriving
  <2>2. call[c].since \in Nat
    BY <2>1 DEF Typed, CallersTyped
  <2>3. m \in Nat
    BY <2>1, LogType
  <2>4. k \in 0 .. Jumps(f)
    BY PatchFacts DEF Arriving
  <2> QED BY <2>1, <2>2, <2>3, <2>4
<1>2. /\ Calls(f, m) /\ k \in Words /\ k \in 0 .. Count(f) - 1
      /\ trace[c] \in Traces /\ x17[c] \in Places
      /\ Forth(c) \in Places /\ Forth(c).in = "code" /\ Forth(c).id = f /\ Forth(c).pc = k + 1
  <2>1. k \in Words /\ k \in 0 .. Count(f) - 1 /\ k < Count(f)
    BY <1>1, PatchedWords
  <2>2. ~Half(f)
    BY <1>1, <2>1, UntornWhole
  <2> QED BY <1>1, <2>1, <2>2, CallerFacts, CallerTypes, ForthFacts
<1>3. Execute(c, w, lit)
  BY <1>1, <1>2 DEF RunFunction
<1>4. Still
  BY <1>1, <1>3, ExecuteWord
<1>5. Runs(c, f, m, m) /\ trace[c] = Ran(f, m, m)
  <2>1. Ran(f, m, m) = <<>>
    <3>1. m \in 0 .. Len(log[f])
      BY <1>1
    <3> QED BY <1>1, <3>1, RanFacts
  <2>2. m \in call[c].since .. Len(log[f]) /\ m \in 0 .. m /\ \A l \in m + 1 .. m : FALSE
    BY <1>1
  <2> QED BY <1>1, <2>1, <2>2 DEF Runs
<1>6. CASE m = 0
  <2>1. w = Body(k) /\ k = 0
    BY <1>1, <1>2, <1>6 DEF Calls, Arriving
  <2>2. crash' = crash /\ Goes(c, Forth(c), x17[c], Append(trace[c], 0))
    <3>1. w.op = "body" /\ w.i = 0
      BY <2>1 DEF Body, W
    <3> HIDE DEF w, lit
    <3> QED BY <1>1, <1>3, <3>1, ExecuteWord
  <2>3. Append(trace[c], 0) \in Traces
    BY <1>1, CallerTypes
  <2>4. Append(trace[c], 0) = Ran(f, 0, 0) \o Bodies(0, 1) /\ Skipped(f, 0) = 0
    <3>1. 0 \in 0 .. Len(log[f]) /\ 0 <= 0 /\ 0 + 1 = 1
      BY <1>1
    <3>2. /\ Ran(f, 0, 0) = <<>> /\ Ran(f, 0, 0) \o Bodies(0, 0) = Ran(f, 0, 0)
          /\ Append(Ran(f, 0, 0) \o Bodies(0, 0), 0) = Ran(f, 0, 0) \o Bodies(0, 0 + 1)
      <4>1. /\ Ran(f, 0, 0) = <<>>
            /\ \A j, h \in Nat : j <= h =>
                 Append(Ran(f, 0, 0) \o Bodies(j, h), h) = Ran(f, 0, 0) \o Bodies(j, h + 1)
            /\ \A j \in Nat : Ran(f, 0, 0) \o Bodies(j, j) = Ran(f, 0, 0)
        BY <1>1, <3>1, RanFacts
      <4>2. 0 \in Nat /\ 0 <= 0
        OBVIOUS
      <4> QED BY <4>1, <4>2
    <3> QED BY <1>1, <3>1, <3>2 DEF Skipped
  <2>5. Calling(c)'
    <3>1. Forth(c).pc \in 0 .. 5 /\ Forth(c).pc = 1 /\ (f \notin Far => Count(f) = 1) /\ log[f] = <<>>
      BY <1>1, <1>2, <1>6, <2>1, PatchFacts, LogType
    <3>2. Runs(c, f, 0, 0)
      BY <1>5, <1>6
    <3> DEFINE p == Forth(c)
               t == Append(trace[c], 0)
    <3>3. p.pc \in Skipped(f, 0) .. 5 /\ t = Ran(f, 0, 0) \o Bodies(Skipped(f, 0), p.pc)
      BY <2>4, <3>1
    <3>4. p.in = "code" /\ p.id = f
          /\ (p.pc >= Count(f) \/ (p.pc > 0 /\ 0 = 0 /\ f \in Far /\ log[f] = <<>>))
      BY <1>2, <3>1
    <3>5. Goes(c, p, x17[c], t) /\ p \in Places /\ t \in Traces
      BY <1>2, <2>2, <2>3
    <3> HIDE DEF p, t
    <3> QED BY <1>1, <1>2, <1>4, <3>2, <3>3, <3>4, <3>5, GoesInBody
  <2> QED BY <1>1, <1>2, <1>4, <2>2, <2>3, <2>5, GoesStep
<1>7. CASE m # 0
  <2> DEFINE p == Aim(f)
             h == log[f][m]
  <2>1. /\ Leads(p, h) /\ h \in Hooks /\ w = Patched(f, p, k)
        /\ \A l \in Words : code[f][l] = Patched(f, p, l)
    BY <1>1, <1>2, <1>7, LogType DEF Calls
  <2>2. p \in Places /\ p # Junk
    BY <2>1, LeadsPlace
  <2>3. CASE f \notin Far
    <3>1. w = B(p)
      BY <1>1, <2>1, <2>3, PatchedWords
    <3>2. crash' = crash /\ Goes(c, p, x17[c], trace[c])
      BY <1>1, <1>3, <3>1, ExecuteWord DEF B, W
    <3>3. Calling(c)'
      BY <1>1, <1>2, <1>4, <1>5, <1>7, <2>1, <2>2, <3>2, GoesToHook
    <3> QED BY <1>1, <1>2, <1>4, <2>2, <3>2, <3>3, GoesStep
  <2>4. CASE f \in Far /\ k = Jumps(f)
    <3>1. w = Br
      BY <1>1, <2>1, <2>4, PatchedWords
    <3>2. PICK n \in call[c].since .. Len(log[f]) : n > 0 /\ Leads(x17[c], log[f][n])
      <4>1. k # 0
        BY <2>4, PatchFacts
      <4> QED BY <1>1, <2>4, <4>1 DEF Arriving
    <3>3. n \in 1 .. Len(log[f]) /\ n \in 0 .. Len(log[f]) /\ n # 0 /\ n \in Nat
      BY <1>1, <3>2
    <3>4. x17[c] \in Places /\ x17[c] # Junk
      <4>1. log[f][n] \in Hooks
        BY <1>1, <3>3, LogType
      <4> QED BY <1>1, <3>2, <4>1, LeadsPlace
    <3>5. crash' = crash /\ Goes(c, x17[c], x17[c], trace[c])
      BY <1>1, <1>3, <3>1, <3>4, ExecuteWord DEF Br, W
    <3>6. Runs(c, f, n, n) /\ trace[c] = Ran(f, n, n)
      <4>1. Ran(f, n, n) = <<>>
        BY <1>1, <3>3, RanFacts
      <4>2. n \in call[c].since .. Len(log[f]) /\ n \in 0 .. n /\ \A l \in n + 1 .. n : FALSE
        BY <3>2, <3>3
      <4> QED BY <1>1, <4>1, <4>2 DEF Runs
    <3>7. Calling(c)'
      BY <1>1, <1>2, <1>4, <3>2, <3>3, <3>4, <3>5, <3>6, GoesToHook
    <3> QED BY <1>1, <1>2, <1>4, <3>4, <3>5, <3>7, GoesStep
  <2>5. CASE f \in Far /\ k < Jumps(f)
    <3> DEFINE q == IF k = First(f) THEN p ELSE x17[c]
    <3>1. /\ (k = First(f) /\ w = Ldr) \/ (k < First(f) /\ w = Nop)
          /\ k + 1 \in 0 .. Jumps(f) /\ (k + 1 = Jumps(f) => k = First(f))
      BY <1>1, <2>1, <2>5, PatchedWords, PatchFacts
    <3>2. k = First(f) => lit = p
      <4>1. k = First(f) => k + 2 \in Words /\ Patched(f, p, k + 2) = Lit(p)
        BY <2>5, PatchFacts DEF Patched, Words
      <4> QED BY <2>1, <4>1 DEF Literal, Lit, W
    <3>3. crash' = crash /\ Goes(c, Forth(c), q, <<>>)
      <4>1. (k = First(f) /\ w.op = "ldr") \/ (k # First(f) /\ w.op = "nop")
        BY <1>1, <3>1, PatchFacts DEF Ldr, Nop, W
      <4> HIDE DEF k, w, lit, p
      <4> QED BY <1>1, <1>3, <3>2, <4>1, ExecuteWord
    <3>4. q \in Places /\ <<>> \in Traces
      BY <1>1, <1>2, <2>2
    <3>5. Calling(c)'
      <4>1. log[f] # <<>> /\ m \in call[c].since .. Len(log[f]) /\ m > 0
        BY <1>1, <1>7
      <4>2. k + 1 = Jumps(f) => Leads(q, log[f][m])
        BY <2>1, <3>1
      <4> DEFINE g == Forth(c)
      <4>3. g \in Places /\ g.in = "code" /\ g.id = f /\ g.pc \in 0 .. Jumps(f) /\ Goes(c, g, q, <<>>)
            /\ (g.pc = Jumps(f) => \E n \in call[c].since .. Len(log[f]) : n > 0 /\ Leads(q, log[f][n]))
        BY <1>2, <3>1, <3>3, <4>1, <4>2
      <4> HIDE DEF g, q
      <4> QED BY <1>1, <1>4, <2>5, <3>4, <4>1, <4>3, GoesInPatch
    <3> QED BY <1>1, <1>2, <1>4, <3>3, <3>4, <3>5, GoesStep
  <2> QED BY <1>1, <2>3, <2>4, <2>5, PatchFacts
<1> QED BY <1>6, <1>7

\* A caller that executes a word of the function goes on in its body.
LEMMA BodyWord ==
  ASSUME IInv, HookAssumption, Orderly, NEW c \in Callers, crash = "no", at[c].in \in {"code", "tramp"},
         plan' = plan, ~torn[c], torn' = torn, NEW f, NEW n, Runs(c, f, n, 0), InBody(c, f, n),
         NEW w, NEW lit, Execute(c, w, lit), w = Body(at[c].pc), at[c].pc \in Words,
         at[c].in = "tramp" => at[c].pc < Count(f)
  PROVE  IInv'
<1> DEFINE pc == at[c].pc
           p == Forth(c)
           from == Skipped(f, n)
           t == Append(trace[c], pc)
<1>1. /\ Typed /\ Still /\ f \in Funcs /\ n \in 0 .. Len(log[f])
      /\ p \in Places /\ p.in = at[c].in /\ p.id = at[c].id /\ p.pc = pc + 1 /\ pc \in Nat
      /\ x17[c] \in Places /\ t \in Traces
  <2>1. Typed /\ Still
    BY ExecuteWord DEF IInv
  <2>2. f \in Funcs /\ n \in 0 .. Len(log[f])
    BY <2>1, RunsFacts
  <2> QED BY <2>1, <2>2, ForthFacts, CallerTypes
<1>2. crash' = crash /\ Goes(c, p, x17[c], t)
  <2>1. w.op = "body" /\ w.i = pc
    BY DEF Body, W
  <2> QED BY <1>1, <2>1, ExecuteWord
<1>3. /\ from \in {0, 1} /\ from <= pc
      /\ trace[c] = Ran(f, 0, n) \o Bodies(from, pc)
      /\ Append(Ran(f, 0, n) \o Bodies(from, pc), pc) = Ran(f, 0, n) \o Bodies(from, pc + 1)
  <2>1. /\ from \in {0, 1}
        /\ \A j, k \in Nat : j <= k =>
             Append(Ran(f, 0, n) \o Bodies(j, k), k) = Ran(f, 0, n) \o Bodies(j, k + 1)
    BY <1>1, RanFacts
  <2>2. from <= pc /\ trace[c] = Ran(f, 0, n) \o Bodies(from, pc)
    BY <1>1, <2>1 DEF InBody
  <2>3. from \in Nat
    BY <2>1
  <2> HIDE DEF pc, from
  <2> QED BY <1>1, <2>1, <2>2, <2>3
<1>4. p.pc \in from .. 5 /\ t = Ran(f, 0, n) \o Bodies(from, p.pc)
  <2>1. pc + 1 \in from .. 5
    <3>1. pc \in 0 .. 4
      BY DEF Words
    <3> QED BY <1>3, <3>1
  <2> HIDE DEF pc, from, t
  <2>2. t = Append(trace[c], pc)
    BY DEF t, pc
  <2> QED BY <1>1, <1>3, <2>1, <2>2
<1>5. \/ p.in = "tramp" /\ Continues(p.id, f, 0) /\ p.pc <= Count(f)
      \/ p.in = "code" /\ p.id = f /\ (p.pc >= Count(f) \/ (p.pc > 0 /\ n = 0 /\ f \in Far /\ log[f] = <<>>))
  <2>1. Count(f) \in Nat
    BY <1>1, PatchFacts
  <2> QED BY <1>1, <2>1 DEF InBody
<1>6. Calling(c)'
  <2> HIDE DEF p, t
  <2> QED BY <1>1, <1>2, <1>4, <1>5, GoesInBody
<1> QED BY <1>1, <1>2, <1>6, GoesStep

\* A caller in the words of a function behind its patch.
LEMMA BodyStep ==
  ASSUME IInv, HookAssumption, Orderly, NEW c \in Callers, RunFunction(c), plan' = plan,
         ~torn[c], torn' = torn, NEW f, NEW n, Runs(c, f, n, 0), InBody(c, f, n)
  PROVE  IInv'
<1> DEFINE k == at[c].pc
<1>1. /\ Typed /\ crash = "no" /\ at[c].in = "code" /\ at[c].id = f
      /\ f \in Funcs /\ n \in 0 .. Len(log[f]) /\ n \in Nat /\ Len(log[f]) \in Nat
      /\ k \in Nat /\ k \in Skipped(f, n) .. 5
      /\ trace[c] = Ran(f, 0, n) \o Bodies(Skipped(f, n), k)
      /\ k >= Count(f) \/ log[f] = <<>>
  <2>1. Typed /\ crash = "no" /\ at[c].in = "code"
    BY DEF RunFunction, In, Alive, IInv
  <2>2. f \in Funcs /\ n \in 0 .. Len(log[f]) /\ n \in Nat /\ Len(log[f]) \in Nat /\ k \in Nat
    BY <2>1, RunsFacts, CallerTypes
  <2> QED BY <2>1, <2>2 DEF InBody
<1>2. CASE k \in Words
  <2>1. code[f][k] = Body(k)
    <3>1. Chain(f) /\ Count(f) \in Nat
      BY <1>1, CallerFacts, PatchFacts
    <3>2. CASE k >= Count(f)
      BY <1>2, <3>1, <3>2 DEF Chain
    <3>3. CASE k < Count(f)
      <4>1. Len(log[f]) = 0 /\ ~Half(f)
        BY <1>1, <3>1, <3>3, UntornWhole
      <4> QED BY <1>2, <3>1, <4>1 DEF Chain, Calls
    <3> QED BY <1>1, <3>1, <3>2, <3>3
  <2>2. Execute(c, code[f][k], Literal(f, k + 2))
    BY <1>1, <1>2 DEF RunFunction
  <2> QED BY <1>1, <1>2, <2>1, <2>2, BodyWord
<1>3. CASE k \notin Words
  <2> DEFINE p == Place("done", None, 0)
  <2>1. /\ Still /\ crash' = crash /\ Goes(c, p, x17[c], trace[c])
        /\ p \in Places /\ x17[c] \in Places /\ trace[c] \in Traces
    <3>1. p \in Places
      BY DEF Place, Places
    <3>2. x17[c] \in Places /\ trace[c] \in Traces
      BY <1>1, CallerTypes
    <3>3. at' = [at EXCEPT ![c] = p] /\ UNCHANGED <<x17, trace, call, installerVars, memoryVars, crash>>
      BY <1>1, <1>3 DEF RunFunction, Jump
    <3>4. Still /\ crash' = crash
      BY <3>3 DEF Still, installerVars, memoryVars
    <3>5. Goes(c, p, x17[c], trace[c])
      BY <1>1, <3>3 DEF Goes, Typed, CallersTyped
    <3> QED BY <3>1, <3>2, <3>4, <3>5
  <2>2. trace[c] = Ran(f, 0, n) \o Bodies(Skipped(f, n), 5)
    <3>1. Skipped(f, n) \in {0, 1}
      BY <1>1, RanFacts
    <3>2. k \in 0 .. 5 /\ ~ (k \in 0 .. 4)
      <4> HIDE DEF k
      <4> QED BY <1>1, <1>3, <3>1 DEF Words
    <3>3. k = 5
      <4> HIDE DEF k
      <4> QED BY <3>2
    <3> QED BY <1>1, <3>3
  <2>3. Expected(f, n, trace[c])
    <3>1. 0 \in 0 .. n /\ \A l \in 0 + 1 .. n : ~Replaces(log[f][l])
      BY <1>1 DEF Runs
    <3> QED BY <2>2, <3>1 DEF Expected
  <2>4. Calling(c)'
    <3>1. at'[c] = p /\ trace'[c] = trace[c] /\ call'[c] = call[c]
      BY <1>1, <2>1 DEF Goes, Typed, CallersTyped
    <3>2. p.in = "done"
      BY DEF Place
    <3>3. PICK t : t = trace[c]
      OBVIOUS
    <3> HIDE DEF p
    <3> QED BY <1>1, <2>1, <2>3, <3>1, <3>2, <3>3, GoesDone
  <2> QED BY <1>1, <2>1, <2>4, GoesStep
<1> QED BY <1>2, <1>3

LEMMA FunctionStep ==
  ASSUME IInv, HookAssumption, Orderly, NEW c \in Callers, RunFunction(c), plan' = plan,
         ~torn[c], torn' = torn
  PROVE  IInv'
<1> DEFINE f == call[c].fn
<1>1. crash = "no" /\ at[c].in = "code" /\ Typed
  BY DEF RunFunction, In, Alive, IInv
<1>2. CASE Arriving(c, f)
  BY <1>1, <1>2, WhereCalling, ArrivingStep
<1>3. ASSUME NEW n, NEW m, Runs(c, f, n, m), AtHook(c, f, m, n) PROVE FALSE
  <2>1. f \in Funcs /\ m \in 1 .. Len(log[f])
    BY <1>1, <1>3, RunsFacts DEF AtHook
  <2>2. log[f][m] \in Hooks
    BY <1>1, <2>1, LogType
  <2>3. Leads(at[c], log[f][m])
    BY <1>1, <1>3 DEF AtHook
  <2> QED BY <1>1, <2>2, <2>3, LeadsPlace
<1>4. ASSUME NEW n, Runs(c, f, n, 0), InBody(c, f, n) PROVE IInv'
  BY <1>4, BodyStep
<1> QED BY <1>1, <1>2, <1>3, <1>4, WhereCalling

\* A caller in the copy of a patch goes on to the hook the copy calls.
LEMMA CopyRuns ==
  ASSUME IInv, HookAssumption, Orderly, NEW c \in Callers, RunTrampoline(c), plan' = plan,
         ~torn[c], torn' = torn, NEW f, NEW n, NEW m, Runs(c, f, n, m), AtHook(c, f, m, n)
  PROVE  IInv'
<1> DEFINE k == at[c].pc
           s == at[c].id
           p == AimOf(s, f)
           w == tramp[s].words[k + 1]
           h == log[f][m]
<1>1. /\ Typed /\ crash = "no" /\ at[c].in = "tramp"
      /\ f \in Funcs /\ m \in 1 .. Len(log[f]) /\ m # 0 /\ h \in Hooks
  <2>1. Typed /\ crash = "no" /\ at[c].in = "tramp"
    BY DEF RunTrampoline, In, Alive, IInv
  <2>2. f \in Funcs /\ m \in 1 .. Len(log[f]) /\ m # 0
    BY <2>1, RunsFacts DEF AtHook
  <2> QED BY <2>1, <2>2, LogType
<1>2. /\ Continues(s, f, m) /\ k \in 0 .. Jumps(f) /\ trace[c] = Ran(f, m, n)
      /\ f \in Far /\ k = Jumps(f) => x17[c] = p
  <2>1. ~Leads(at[c], h)
    BY <1>1, LeadsPlace
  <2> QED BY <2>1 DEF AtHook
<1>3. /\ x17[c] \in Places /\ trace[c] \in Traces
      /\ Forth(c) \in Places /\ Forth(c).in = "tramp" /\ Forth(c).id = s /\ Forth(c).pc = k + 1
  BY <1>1, CallerTypes, ForthFacts
<1>4. k < Count(f) /\ k \in 0 .. Count(f) - 1 /\ Len(tramp[s].words) = Count(f)
      /\ w = Copied(f, p, k) /\ Leads(p, h)
  <2>1. k \in 0 .. Count(f) - 1 /\ k < Count(f)
    BY <1>1, <1>2, PatchedWords
  <2> QED BY <1>1, <1>2, <2>1 DEF Continues
<1>5. Execute(c, w, Junk)
  BY <1>4 DEF RunTrampoline
<1>6. Still
  BY <1>1, <1>5, ExecuteWord
<1>7. p \in Places /\ p # Junk
  BY <1>1, <1>4, LeadsPlace
<1>8. ASSUME crash' = crash, Goes(c, p, x17[c], trace[c]) PROVE IInv'
  <2>1. Calling(c)'
    <3> HIDE DEF p
    <3> QED BY <1>1, <1>2, <1>3, <1>4, <1>6, <1>7, <1>8, GoesToHook
  <2> QED BY <1>1, <1>3, <1>6, <1>7, <1>8, <2>1, GoesStep
<1>9. ASSUME NEW q \in Places, crash' = crash, Goes(c, Forth(c), q, trace[c]), k + 1 \in 0 .. Jumps(f),
             f \in Far /\ k + 1 = Jumps(f) => q = p
      PROVE  IInv'
  <2>1. Calling(c)'
    <3> DEFINE g == Forth(c)
    <3>1. g \in Places /\ g.in = "tramp" /\ g.id = s /\ g.pc = k + 1 /\ Goes(c, g, q, trace[c])
      BY <1>3, <1>9
    <3>2. PICK r : r = s
      OBVIOUS
    <3>3. g.pc \in 0 .. Jumps(f) /\ (f \in Far /\ g.pc = Jumps(f) => q = AimOf(r, f))
      BY <1>9, <3>1, <3>2
    <3>4. g.in = "tramp" /\ g.id = r /\ Continues(r, f, m)
      BY <1>2, <3>1, <3>2
    <3> HIDE DEF g, p, s, k
    <3> QED BY <1>1, <1>2, <1>3, <1>6, <3>1, <3>3, <3>4, GoesInCopy
  <2> QED BY <1>1, <1>3, <1>6, <1>9, <2>1, GoesStep
<1>10. CASE f \notin Far
  <2>1. w.op = "b" /\ w.to = p
    <3>1. w = B(p)
      BY <1>1, <1>2, <1>4, <1>10, PatchedWords
    <3> QED BY <3>1 DEF B, W
  <2>2. crash' = crash /\ Goes(c, p, x17[c], trace[c])
    <3> HIDE DEF w, p
    <3> QED BY <1>1, <1>5, <2>1, ExecuteWord
  <2> QED BY <1>8, <2>2
<1>11. CASE f \in Far /\ k = Jumps(f)
  <2>1. w.op = "br" /\ x17[c] = p
    <3>1. w = Br
      BY <1>1, <1>2, <1>4, <1>11, PatchedWords
    <3> QED BY <1>2, <1>11, <3>1 DEF Br, W
  <2>2. crash' = crash /\ Goes(c, p, x17[c], trace[c])
    <3> HIDE DEF w, p
    <3> QED BY <1>1, <1>5, <1>7, <2>1, ExecuteWord
  <2> QED BY <1>8, <2>2
<1>12. CASE f \in Far /\ k < Jumps(f)
  <2> DEFINE q == IF k = First(f) THEN p ELSE x17[c]
  <2>1. /\ (k = First(f) /\ w = W("ldrc", p, 0)) \/ (k < First(f) /\ w = Nop)
        /\ k + 1 \in 0 .. Jumps(f) /\ (k + 1 = Jumps(f) => k = First(f))
    BY <1>1, <1>2, <1>4, <1>12, PatchedWords, PatchFacts
  <2>2. k = First(f) \/ (k # First(f) /\ w.op = "nop")
    BY <1>1, <2>1, PatchFacts DEF Nop, W
  <2>3. k = First(f) => w.op = "ldrc" /\ w.to = p
    BY <1>1, <2>1, PatchFacts DEF W
  <2>4. crash' = crash /\ Goes(c, Forth(c), q, trace[c]) /\ q \in Places
    <3> HIDE DEF w, p, k
    <3> QED BY <1>1, <1>3, <1>5, <1>7, <2>2, <2>3, ExecuteWord
  <2> QED BY <1>9, <2>1, <2>4
<1> QED BY <1>1, <1>2, <1>10, <1>11, <1>12, PatchFacts

\* A caller in a copy of the function's own words.
LEMMA CopiedBody ==
  ASSUME IInv, HookAssumption, Orderly, NEW c \in Callers, RunTrampoline(c), plan' = plan,
         ~torn[c], torn' = torn, NEW f, NEW n, Runs(c, f, n, 0), InBody(c, f, n)
  PROVE  IInv'
<1> DEFINE k == at[c].pc
           s == at[c].id
<1>1. /\ Typed /\ crash = "no" /\ at[c].in = "tramp" /\ f \in Funcs
      /\ Continues(s, f, 0) /\ k <= Count(f) /\ k \in Nat /\ Count(f) \in 1 .. 5
      /\ k \in Skipped(f, n) .. 5
      /\ trace[c] = Ran(f, 0, n) \o Bodies(Skipped(f, n), k)
  <2>1. Typed /\ crash = "no" /\ at[c].in = "tramp"
    BY DEF RunTrampoline, In, Alive, IInv
  <2>2. f \in Funcs /\ k \in Nat
    BY <2>1, RunsFacts, CallerTypes
  <2> QED BY <2>1, <2>2, PatchFacts DEF InBody
<1>2. tramp[s].fn = f /\ tramp[s].resume = Count(f) /\ Len(tramp[s].words) = Count(f)
      /\ \A l \in 0 .. Count(f) - 1 : tramp[s].words[l + 1] = Body(l)
  BY <1>1 DEF Continues
<1>3. CASE k < Count(f)
  <2>1. tramp[s].words[k + 1] = Body(k) /\ k \in Words
    <3>1. k \in 0 .. Count(f) - 1 /\ k \in 0 .. 4
      BY <1>1, <1>3
    <3> QED BY <1>2, <3>1 DEF Words
  <2>2. Execute(c, tramp[s].words[k + 1], Junk)
    BY <1>2, <1>3 DEF RunTrampoline
  <2> QED BY <1>1, <1>3, <2>1, <2>2, BodyWord
<1>4. CASE ~(k < Count(f))
  <2> DEFINE p == Place("code", f, Count(f))
  <2>1. k = Count(f)
    BY <1>1, <1>4
  <2>2. /\ p.in = "code" /\ p.id = f /\ p.pc = Count(f) /\ p \in Places
        /\ x17[c] \in Places /\ trace[c] \in Traces
    <3>1. p \in Places
      BY <1>1 DEF Place, Places
    <3> QED BY <1>1, <3>1, CallerTypes DEF Place
  <2>3. at' = [at EXCEPT ![c] = p] /\ UNCHANGED <<x17, trace, call, installerVars, memoryVars, crash>>
    BY <1>2, <1>4 DEF RunTrampoline, Jump
  <2>4. Still /\ crash' = crash
    BY <2>3 DEF Still, installerVars, memoryVars
  <2>5. Goes(c, p, x17[c], trace[c])
    BY <1>1, <2>3 DEF Goes, Typed, CallersTyped
  <2>6. p.pc \in Skipped(f, n) .. 5 /\ trace[c] = Ran(f, 0, n) \o Bodies(Skipped(f, n), p.pc)
        /\ p.pc >= Count(f)
    BY <1>1, <2>1, <2>2
  <2>7. Calling(c)'
    <3> HIDE DEF p
    <3> QED BY <1>1, <2>2, <2>4, <2>5, <2>6, GoesInBody
  <2> QED BY <1>1, <2>2, <2>4, <2>5, <2>7, GoesStep
<1> QED BY <1>3, <1>4

LEMMA TrampolineStep ==
  ASSUME IInv, HookAssumption, Orderly, NEW c \in Callers, RunTrampoline(c), plan' = plan,
         ~torn[c], torn' = torn
  PROVE  IInv'
<1> DEFINE f == call[c].fn
<1>1. crash = "no" /\ at[c].in = "tramp" /\ Typed
  BY DEF RunTrampoline, In, Alive, IInv
<1>2. ~Arriving(c, f)
  BY <1>1 DEF Arriving
<1> QED BY <1>1, <1>2, WhereCalling, CopyRuns, CopiedBody

-----------------------------------------------------------------------------
\* A hook that has been reached runs, and goes on to the one before it.

LEMMA GoesBehind ==
  ASSUME Typed, Still, HookAssumption, NEW c \in Callers, NEW f, NEW n, NEW m, Runs(c, f, n, m), m # 0,
         ~Replaces(log[f][m]), NEW s \in 0 .. HookMax, NEW d, NEW q \in Places, NEW t \in Traces,
         Goes(c, Place("tramp", s, d), q, t), t = Ran(f, m - 1, n), Continues(s, f, m - 1),
         d = IF log[f][m].kind = "inline" THEN BranchSkip ELSE 0, log[f][m].kind = "inline" => m = 1
  PROVE  Calling(c)'
<1> DEFINE p == Place("tramp", s, d)
<1>1. /\ f \in Funcs /\ n \in Nat /\ m \in 1 .. n /\ m \in Nat /\ Len(log[f]) \in Nat
      /\ n \in 0 .. Len(log[f])
  BY RunsFacts
<1>2. Runs(c, f, n, m - 1)
  <2>1. \A l \in (m - 1) + 1 .. n : ~Replaces(log[f][l])
    <3> SUFFICES ASSUME NEW l \in (m - 1) + 1 .. n PROVE ~Replaces(log[f][l])
      OBVIOUS
    <3>1. l = m \/ l \in m + 1 .. n
      BY <1>1
    <3> QED BY <3>1 DEF Runs
  <2>2. m - 1 \in 0 .. n
    BY <1>1
  <2> QED BY <2>1, <2>2 DEF Runs
<1>3. p.in = "tramp" /\ p.id = s /\ p.pc = d /\ p \in Places /\ d \in {0, 1}
  <2>1. d \in {0, 1}
    BY DEF BranchSkip
  <2> QED BY <2>1, HookAssumption DEF Place, Places
<1>4. Count(f) \in 1 .. 5 /\ 0 \in 0 .. Jumps(f) /\ (f \in Far => Jumps(f) # 0)
  BY <1>1, PatchFacts
<1>5. CASE m = 1
  <2>1. d = Skipped(f, n)
    BY <1>1, <1>5 DEF Skipped
  <2>2. p.pc \in Skipped(f, n) .. 5 /\ p.pc <= Count(f) /\ t = Ran(f, 0, n) \o Bodies(Skipped(f, n), p.pc)
    <3>1. Ran(f, 0, n) \o Bodies(d, d) = Ran(f, 0, n)
      <4>1. d \in Nat
        BY <1>3
      <4> QED BY <1>1, <4>1, RanFacts
    <3>2. d \in d .. 5 /\ d <= Count(f)
      BY <1>3, <1>4
    <3>3. t = Ran(f, 0, n)
      BY <1>5
    <3> HIDE DEF p
    <3> QED BY <1>3, <2>1, <3>1, <3>2, <3>3
  <2>3. Runs(c, f, n, 0) /\ Continues(p.id, f, 0) /\ Goes(c, p, q, t)
    BY <1>2, <1>3, <1>5
  <2> HIDE DEF p
  <2> QED BY <1>3, <2>2, <2>3, GoesInBody
<1>6. CASE m # 1
  <2>1. m - 1 # 0 /\ p.pc = 0 /\ p.pc \in 0 .. Jumps(f) /\ (f \in Far => p.pc # Jumps(f)) /\ Goes(c, p, q, t)
    BY <1>1, <1>3, <1>4, <1>6
  <2> DEFINE l == m - 1
  <2>2. Runs(c, f, n, l) /\ l # 0 /\ t = Ran(f, l, n) /\ Continues(s, f, l)
    BY <1>2, <2>1
  <2> HIDE DEF p, l
  <2> QED BY <1>3, <2>1, <2>2, GoesInCopy
<1> QED BY <1>5, <1>6

LEMMA CallbackStep ==
  ASSUME IInv, HookAssumption, Orderly, NEW c \in Callers, RunCallback(c), plan' = plan,
         ~torn[c], torn' = torn
  PROVE  IInv'
<1>1. crash = "no" /\ at[c].in = "callback" /\ Typed /\ SlotInv /\ Still
  BY DEF RunCallback, In, Alive, IInv, Still, installerVars, memoryVars
<1>2. PICK f, n, m : /\ Runs(c, f, n, m) /\ m # 0 /\ trace[c] = Ran(f, m, n) /\ Leads(at[c], log[f][m])
                     /\ f \in Funcs /\ m \in 1 .. Len(log[f]) /\ m \in 1 .. n /\ n \in 0 .. Len(log[f])
                     /\ log[f][m] \in Hooks /\ log[f][m].kind # "inline"
                     /\ Append(trace[c], log[f][m].cb) = Ran(f, m - 1, n)
                     /\ Append(trace[c], log[f][m].cb) \in Traces
  BY <1>1, HookReached
<1> DEFINE h == log[f][m]
           t == Append(trace[c], h.cb)
<1>3. at[c].id = h.cb /\ h.cb \in Callbacks /\ h.kind \in Kinds
  BY <1>2 DEF Leads, Callback, Place, HookAssumption, Callbacks
<1>4. Junk \in Places /\ x17[c] \in Places /\ (IsReplacement(h.cb) <=> h.kind = "replace")
      /\ (h.kind = "inline" => m = 1)
  BY <1>1, <1>2, PlaceTypes, IsReplacing, CallerTypes
<1>5. /\ trace' = [trace EXCEPT ![c] = t] /\ x17' = [x17 EXCEPT ![c] = Junk] /\ call' = call
      /\ IF h.kind = "replace" THEN at' = [at EXCEPT ![c] = Place("done", None, 0)] /\ crash' = crash
         ELSE IF orig[h.cb] = None THEN crash' = "NullOrig" /\ at' = at
         ELSE at' = [at EXCEPT ![c] = Place("tramp", orig[h.cb], 0)] /\ crash' = crash
  BY <1>3, <1>4 DEF RunCallback, Jump, Die
<1>6. CASE h.kind = "replace"
  <2> DEFINE p == Place("done", None, 0)
  <2>1. p \in Places /\ p.in = "done" /\ crash' = crash /\ Goes(c, p, Junk, t)
    BY <1>5, <1>6 DEF Goes, Place, Places
  <2>2. Expected(f, n, t)
    <3>1. m \in 0 .. n /\ (\A l \in m + 1 .. n : ~Replaces(log[f][l])) /\ Replaces(log[f][m])
      BY <1>2, <1>6 DEF Runs, Replaces
    <3> QED BY <1>2, <3>1 DEF Expected
  <2>3. Calling(c)'
    <3>1. at'[c].in = "done" /\ trace'[c] = t /\ call'[c] = call[c]
      BY <1>1, <2>1 DEF Goes, Typed, CallersTyped
    <3> HIDE DEF t
    <3> QED BY <1>1, <1>2, <2>2, <3>1, GoesDone
  <2> HIDE DEF p
  <2> QED BY <1>1, <1>2, <1>4, <2>1, <2>3, GoesStep
<1>7. CASE h.kind # "replace" /\ orig[h.cb] = None
  <2>1. crash' = "NullOrig" /\ Goes(c, at[c], Junk, t) /\ at[c] \in Places
    BY <1>1, <1>5, <1>7, CallerTypes DEF Goes, Typed, CallersTyped
  <2> QED BY <1>1, <1>2, <1>4, <2>1, DiesStep
<1>8. CASE h.kind # "replace" /\ orig[h.cb] # None
  <2> DEFINE s == orig[h.cb]
             p == Place("tramp", s, 0)
  <2>1. s \in 0 .. HookMax /\ s # None
    BY <1>1, <1>3, <1>8 DEF SlotInv, SlotTypes, Slots
  <2>2. p \in Places /\ crash' = crash /\ Goes(c, p, Junk, t)
    BY <1>5, <1>8, <2>1 DEF Goes, Place, Places
  <2>3. Continues(s, f, m - 1)
    <3>1. Published(f, m)
      BY <1>1, <1>2, <1>8, PublishedOrLate
    <3> QED BY <1>2, <1>3, <1>8, <3>1 DEF Published, Kinds
  <2>4. ~Replaces(log[f][m])
    BY <1>8 DEF Replaces
  <2>5. Calling(c)'
    <3>1. t \in Traces /\ t = Ran(f, m - 1, n) /\ 0 = IF log[f][m].kind = "inline" THEN BranchSkip ELSE 0
      BY <1>2
    <3>2. PICK r \in 0 .. HookMax : r = s
      BY <2>1
    <3>3. Goes(c, Place("tramp", r, 0), Junk, t) /\ Continues(r, f, m - 1)
      BY <2>2, <2>3, <3>2
    <3> HIDE DEF s, t
    <3> QED BY <1>1, <1>2, <1>4, <2>4, <3>1, <3>3, GoesBehind
  <2> HIDE DEF p
  <2> QED BY <1>1, <1>2, <1>4, <2>2, <2>5, GoesStep
<1> QED BY <1>6, <1>7, <1>8

LEMMA EntryStep ==
  ASSUME IInv, HookAssumption, Orderly, NEW c \in Callers, RunEntry(c), plan' = plan,
         ~torn[c], torn' = torn
  PROVE  IInv'
<1>1. crash = "no" /\ at[c].in = "entry" /\ Typed /\ Still
  BY DEF RunEntry, In, Alive, IInv, Still, installerVars, memoryVars
<1>2. PICK f, n, m : /\ Runs(c, f, n, m) /\ m # 0 /\ trace[c] = Ran(f, m, n) /\ Leads(at[c], log[f][m])
                     /\ f \in Funcs /\ m \in 1 .. Len(log[f]) /\ m \in 1 .. n /\ n \in 0 .. Len(log[f])
                     /\ log[f][m] \in Hooks /\ log[f][m].kind = "inline"
                     /\ Append(trace[c], log[f][m].cb) = Ran(f, m - 1, n)
                     /\ Append(trace[c], log[f][m].cb) \in Traces
  BY <1>1, HookReached
<1> DEFINE h == log[f][m]
           e == at[c].id
           cb == entries[e].cb
           t == Append(trace[c], cb)
<1>3. e \in 0 .. EntryMax /\ Serves(e, h) /\ h.cb \in Callbacks
  BY <1>2 DEF Leads, Callbacks
<1>4. /\ cb # None => /\ cb = h.cb /\ Continues(entries[e].slot, f, m - 1) /\ entries[e].skip = BranchSkip
                      /\ entries[e].slot \in 0 .. HookMax /\ entries[e].slot # None
  <2> HIDE DEF e
  <2>1. e \in 0 .. EntryMax /\ Serves(e, log[f][m]) /\ log[f][m].cb \in Callbacks
        /\ m \in 1 .. Len(log[f]) /\ log[f][m].kind = "inline"
    BY <1>2, <1>3
  <2>2. at[c].in # "idle" /\ f \in Funcs
    BY <1>1, <1>2
  <2> DEFINE g == log[f][m]
  <2>3. entries[e].cb # None => /\ entries[e].cb = g.cb
                                /\ Continues(entries[e].slot, f, m - 1) /\ entries[e].skip = BranchSkip
                                /\ entries[e].slot \in 0 .. HookMax /\ entries[e].slot # None
    <3> HIDE DEF cb
    <3> QED BY <1>1, <2>1, <2>2, EntryInUse
  <2> QED BY <2>3
<1>5. x17[c] \in Places /\ m = 1
  BY <1>1, <1>2, IsReplacing, CallerTypes
<1>6. /\ trace' = [trace EXCEPT ![c] = t] /\ x17' = x17 /\ call' = call
      /\ IF cb = None THEN crash' = "EmptyEntry" /\ at' = at
         ELSE at' = [at EXCEPT ![c] = Place("tramp", entries[e].slot, entries[e].skip)] /\ crash' = crash
  BY <1>4 DEF RunEntry, Jump, Die
<1>7. CASE cb = None
  <2>1. t \in Traces /\ at[c] \in Places
    BY <1>1, <1>7, CallerTypes
  <2>2. crash' = "EmptyEntry" /\ Goes(c, at[c], x17[c], t)
    BY <1>1, <1>6, <1>7 DEF Goes, Typed, CallersTyped
  <2> QED BY <1>1, <1>5, <2>1, <2>2, DiesStep
<1>8. CASE cb # None
  <2> DEFINE s == entries[e].slot
             p == Place("tramp", s, BranchSkip)
  <2>1. s \in 0 .. HookMax /\ Continues(s, f, m - 1) /\ t = Ran(f, m - 1, n) /\ t \in Traces
    BY <1>2, <1>4, <1>8
  <2>2. p \in Places /\ crash' = crash /\ Goes(c, p, x17[c], t)
    <3>1. p \in Places
      BY <2>1 DEF Place, Places, BranchSkip
    <3> QED BY <1>1, <1>4, <1>6, <1>8, <3>1 DEF Goes, Typed, CallersTyped
  <2>3. ~Replaces(log[f][m])
    BY <1>2 DEF Replaces
  <2>4. Calling(c)'
    <3>1. BranchSkip = IF log[f][m].kind = "inline" THEN BranchSkip ELSE 0
      BY <1>2
    <3>2. PICK r \in 0 .. HookMax : r = s
      BY <2>1
    <3>3. Goes(c, Place("tramp", r, BranchSkip), x17[c], t) /\ Continues(r, f, m - 1)
      BY <2>1, <2>2, <3>2
    <3> HIDE DEF s, t, cb
    <3> QED BY <1>1, <1>2, <1>5, <2>1, <2>3, <3>1, <3>3, GoesBehind
  <2> HIDE DEF p
  <2> QED BY <1>1, <1>5, <2>1, <2>2, <2>4, GoesStep
<1> QED BY <1>7, <1>8

-----------------------------------------------------------------------------
\* The invariant, and what it gives.

LEMMA IInvInit ==
  ASSUME Init, HookAssumption
  PROVE  IInv
<1>1. plan \in Plans /\ crash = "no" /\ SlotInv
  BY SlotInvInit DEF Init
<1>2. InstallersTyped
  <2>1. \A i \in Installers : Len(plan[i]) \in Nat
    BY <1>1 DEF HookAssumption
  <2>2. Nop \in CodeWords /\ 0 \in Words
    BY DEF Nop, W, CodeWords, Ops, Words
  <2> QED BY <2>1, <2>2 DEF Init, InstallersTyped
<1>3. MemoryTyped
  <2>1. \A k \in Words : Body(k) \in CodeWords
    BY DEF Body, W, CodeWords, Ops, Words
  <2>2. EmptySlot \in [words : SlotWords, fn : Funcs \cup {None}, resume : Nat]
    BY DEF EmptySlot, SlotWords
  <2>3. EmptyEntry \in [slot : Slots, skip : Nat, cb : Callbacks \cup {None}]
    BY DEF EmptyEntry, Slots
  <2> QED BY <2>1, <2>2, <2>3 DEF Init, MemoryTyped
<1>4. CallersTyped
  BY PlaceTypes DEF Init, CallersTyped
<1>5. ASSUME NEW i \in Installers, ~Finished(i) PROVE Working(i)
  <2>1. Fn(i) \in Funcs
    BY <1>1, <1>2, <1>3, <1>4, <1>5, CurrentHook DEF Typed
  <2> QED BY <2>1 DEF Init, Working, InlineWork, CopyWork, PatchWork, LateWork, Late, Placing, Holding
<1>6. Logged
  BY DEF Init, Logged
<1>7. Reserved
  <2>1. \A i \in Installers : \A n \in DOMAIN plan[i] :
          plan[i][n].cb \in Callbacks /\ plan[i][n].cb # None
    BY <1>1, <1>2, HookFacts, <1>3, <1>4 DEF Typed, HookAssumption
  <2>2. \A e \in 0 .. EntryMax : entries[e].cb = None
    BY DEF Init, EmptyEntry
  <2> QED BY <2>1, <2>2 DEF Init, Reserved
<1>8. \A f \in Funcs : Chain(f)
  BY DEF Init, Chain, Calls
<1>9. \A c \in Callers : Calling(c)
  BY DEF Init, Calling, Nowhere, Place
<1> QED BY <1>1, <1>2, <1>3, <1>4, <1>5, <1>6, <1>7, <1>8, <1>9
       DEF IInv, Typed, Chained, Safe, NoWildJump

LEMMA IInvStep ==
  ASSUME IInv, HookAssumption, Orderly, [Next]_vars
  PROVE  IInv'
<1>1. ASSUME plan' = plan, NEW i \in Installers, Install(i) PROVE IInv'
  <2>1. SlotInv'
    BY SlotInvStep DEF IInv
  <2>2. CASE crash' = "no"
    BY <1>1, <2>1, <2>2, InstallStep DEF Step, IInv
  <2>3. CASE crash' # "no"
    BY <1>1, <2>1, <2>3, FullStep DEF IInv
  <2> QED BY <2>2, <2>3
<1>2. ASSUME plan' = plan, NEW c \in Callers, NEW f \in Funcs, Call(c, f) PROVE IInv'
  BY <1>2, CallStep
<1>3. ASSUME plan' = plan, NEW c \in Callers, Run(c) PROVE IInv'
  <2>1. CASE torn'[c]
    BY <1>3, <2>1, TornStep
  <2>2. CASE ~torn'[c]
    <3>1. ~torn[c] /\ torn' = torn
      BY <1>3, <2>2, NotTorn DEF IInv
    <3> QED BY <1>3, <3>1, FunctionStep, TrampolineStep, CallbackStep, EntryStep, DoneStep DEF Run
  <2> QED BY <2>1, <2>2
<1>4. CASE UNCHANGED vars
  <2>1. Still /\ UNCHANGED <<at, x17, trace, call, torn, crash>>
    BY <1>4 DEF vars, Still, installerVars, memoryVars, callerVars
  <2>2. SlotInv'
    BY SlotInvStep DEF IInv
  <2>3. Typed /\ Typed'
    BY <2>1, StillTyped DEF IInv, Typed, CallersTyped
  <2>4. Chained'
    <3> SUFFICES ASSUME crash = "no" PROVE Chained'
      BY <2>1 DEF Chained
    <3>1. /\ \A i \in Installers : ~Finished(i)' => Working(i)'
          /\ Logged' /\ Reserved' /\ \A f \in Funcs : Chain(f)'
      BY <2>1, <2>3, StillWorks, StillLeads DEF IInv, Chained
    <3>2. \A c \in Callers : Calling(c)'
      <4>1. \A g \in Far : log'[g] = log[g]
        BY <2>1 DEF Still
      <4> QED BY <2>1, <2>3, <4>1, StillGrows, CallingKept DEF IInv, Chained
    <3> QED BY <3>1, <3>2 DEF Chained
  <2>5. Safe'
    <3>1. NothingRunsUnpublished => NothingRunsUnpublished'
      BY <2>1, StillUnpublished
    <3> QED BY <2>1, <3>1 DEF IInv, Safe, NoWildJump
  <2> QED BY <2>2, <2>3, <2>4, <2>5 DEF IInv
<1> QED BY <1>1, <1>2, <1>3, <1>4 DEF Next

LEMMA IInvGives ==
  ASSUME IInv, HookAssumption, Orderly
  PROVE  TypeOK /\ NoWildJump /\ NothingRunsUnpublished /\ CallsRunEveryHook
<1>1. Typed /\ SlotInv /\ Safe
  BY DEF IInv
<1>2. TypeOK
  <2>1. \A i \in Installers : next[i] \in 1 .. Len(plan[i]) + 1 /\ word[i] \in Words
    <3>1. \A i \in Installers : Len(plan[i]) \in Nat
      BY <1>1 DEF HookAssumption, Typed
    <3> QED BY <1>1, <3>1 DEF Typed, InstallersTyped
  <2>2. \A f \in Funcs : \A k \in Words : IsWord(code[f][k])
    BY <1>1 DEF Typed, MemoryTyped, CodeWords, IsWord
  <2>3. \A s \in 0 .. HookMax : Len(tramp[s].words) <= 5
    BY <1>1 DEF Typed, MemoryTyped, SlotWords
  <2> QED BY <1>1, <2>1, <2>2, <2>3 DEF TypeOK, Typed, InstallersTyped, MemoryTyped, SlotInv, SlotTypes, Slots
<1>3. CallsRunEveryHook
  <2> SUFFICES ASSUME NEW c \in Callers, In(c, "done"), ~torn[c] PROVE AsExpected(c)
    BY DEF CallsRunEveryHook
  <2>1. Calling(c) /\ at[c].in = "done"
    BY DEF IInv, Chained, In, Alive
  <2>2. ~Arriving(c, call[c].fn) /\ \A f, n : ~InBody(c, f, n)
    BY <2>1 DEF Arriving, InBody
  <2>3. CASE ~AsExpected(c)
    <3>1. PICK n, m : Runs(c, call[c].fn, n, m) /\ AtHook(c, call[c].fn, m, n)
      BY <2>1, <2>2, <2>3 DEF Calling, Runs
    <3>2. m \in 1 .. Len(log[call[c].fn]) /\ call[c].fn \in Funcs
      BY <1>1, <3>1, RunsFacts DEF AtHook
    <3>3. log[call[c].fn][m] \in Hooks
      BY <1>1, <3>2, LogType
    <3> QED BY <2>1, <3>1, <3>3, LeadsPlace DEF AtHook
  <2> QED BY <2>3
<1>4. NothingRunsUnpublished
  BY <1>1, Unpublished DEF Safe
<1> QED BY <1>1, <1>2, <1>3, <1>4 DEF Safe

(* For processes whose hooks keep out of each other's way (Orderly), with  *)
(* any number of threads that install hooks and that call, any programs of *)
(* hook calls, any functions, near and far, and any size of the pools:     *)
(* slots, entries, words of code, trampolines and callbacks have their     *)
(* types.                                                                  *)
THEOREM TypesHold == Orderly => (Spec => []TypeOK)
<1> SUFFICES ASSUME Orderly PROVE Spec => []TypeOK
  OBVIOUS
<1>1. Init => IInv
  BY IInvInit, HookAssumption
<1>2. IInv /\ [Next]_vars => IInv'
  BY IInvStep, HookAssumption
<1>3. IInv => TypeOK
  BY IInvGives, HookAssumption
<1> QED BY <1>1, <1>2, <1>3, PTL DEF Spec

(* In such a process, however callers' steps and the stores of HookFuncImpl *)
(* interleave, no caller branches through a register it did not load, nor   *)
(* executes a literal, unless the first far patch of a function is being    *)
(* written around it.  A caller in the words of a near function, or in the  *)
(* words of a far function being hooked again, comes to no harm: a second   *)
(* patch stores what is there already and turns the literal at once, and    *)
(* whatever literal it loaded leads to some hook of the function (Arriving).*)
THEOREM PatchesRunWhole == Orderly => (Spec => []NoWildJump)
<1> SUFFICES ASSUME Orderly PROVE Spec => []NoWildJump
  OBVIOUS
<1>1. Init => IInv
  BY IInvInit, HookAssumption
<1>2. IInv /\ [Next]_vars => IInv'
  BY IInvStep, HookAssumption
<1>3. IInv => NoWildJump
  BY IInvGives, HookAssumption
<1> QED BY <1>1, <1>2, <1>3, PTL DEF Spec

(* A caller meets an OrigRef() that is unset, or an inline entry that is   *)
(* not written, only while the thread that patched the function is between *)
(* the last store of the patch and its own assignment or writes of the     *)
(* entry: every other hook in a log is published (Chain, Published, Late), *)
(* and so the callers of a process that calls nothing before its installs  *)
(* have returned meet none.                                                *)
THEOREM HooksPublished == Orderly => (Spec => []NothingRunsUnpublished)
<1> SUFFICES ASSUME Orderly PROVE Spec => []NothingRunsUnpublished
  OBVIOUS
<1>1. Init => IInv
  BY IInvInit, HookAssumption
<1>2. IInv /\ [Next]_vars => IInv'
  BY IInvStep, HookAssumption
<1>3. IInv => NothingRunsUnpublished
  BY IInvGives, HookAssumption
<1> QED BY <1>1, <1>2, <1>3, PTL DEF Spec

(* And a call that returns has run every hook of the function that was in  *)
(* place at one moment of the call, each once and newest first, down to a  *)
(* replacement or to each word of the function in order: a trampoline goes *)
(* on with the hook before its own for as long as it exists (Continues),   *)
(* whatever other threads install meanwhile.                               *)
THEOREM EveryHookRuns == Orderly => (Spec => []CallsRunEveryHook)
<1> SUFFICES ASSUME Orderly PROVE Spec => []CallsRunEveryHook
  OBVIOUS
<1>1. Init => IInv
  BY IInvInit, HookAssumption
<1>2. IInv /\ [Next]_vars => IInv'
  BY IInvStep, HookAssumption
<1>3. IInv => CallsRunEveryHook
  BY IInvGives, HookAssumption
<1> QED BY <1>1, <1>2, <1>3, PTL DEF Spec

=============================================================================
