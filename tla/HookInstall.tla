----------------------------- MODULE HookInstall -----------------------------
(***************************************************************************)
(* Installing hooks (lib/hook/nx64/{hook_impl,inline_impl}.cpp and the     *)
(* wrappers lib/hook/{trampoline,replace,inline}.hpp) against the threads  *)
(* that call the hooked functions.                                         *)
(*                                                                         *)
(* A function is its first five words, then the rest of its body.  Hook()  *)
(* takes a trampoline slot, copies the words it will overwrite there, and  *)
(* overwrites them: five words one by one when the callback is far away,   *)
(* one word with a compare-and-swap when it is near.  A caller executes    *)
(* one word per step and sees whatever is in memory by then.  What the     *)
(* copy does to PC-relative words is the subject of Relocate; here the     *)
(* words of a fresh function are position independent.                     *)
(***************************************************************************)
EXTENDS Integers, Sequences, Functions

CONSTANTS
  Installers,  \* threads that run a program of hook calls
  Callers,     \* threads that call hooked functions
  Funcs,       \* functions
  Far,         \* functions more than 128 MiB away from the callbacks
  Misaligned,  \* functions whose word 2 is not 8-byte aligned
  Plans,       \* what the process may do: installer |-> sequence of [fn, cb, kind]
  HookMax,     \* trampoline slots in the pool
  EntryMax,    \* inline entries in the pool
  None

Words == 0 .. 4
Kinds == {"tramp", "replace", "inline"}
Hooks == UNION {UNION {Range(p[i]) : i \in Installers} : p \in Plans}
Callbacks == {h.cb : h \in Hooks}

ASSUME HookAssumption ==
  /\ Far \subseteq Funcs /\ Misaligned \subseteq Funcs
  /\ HookMax \in Nat \ {0} /\ EntryMax \in Nat \ {0}
  /\ Plans \subseteq [Installers -> Seq(Hooks)]
  /\ \A h \in Hooks : h.fn \in Funcs /\ h.kind \in Kinds
  /\ None \notin Int \cup Funcs \cup Callbacks

VARIABLES
  plan,    \* what the process does
  next,    \* installer |-> number of the hook call it is in
  ipc,     \* installer |-> where it is in that call
  slot,    \* installer |-> its trampoline slot, or None
  entry,   \* installer |-> its inline entry, or None
  word,    \* installer |-> the word of the function it copies or writes
  expect,  \* installer |-> what the compare-and-swap expects
  index,   \* AllocForTrampoline's static counter
  entryIndex, \* s_EntryIndex
  code,    \* function |-> its first five words
  tramp,   \* slot |-> words copied there and where it jumps back to
  orig,    \* callback |-> OrigRef(), a slot or None
  entries, \* inline entry |-> slot its branch goes to and callback it calls
  log,     \* function |-> hooks whose patch was written, oldest first
  at,      \* caller |-> what it executes next
  x17,     \* caller |-> target in X17
  trace,   \* caller |-> callbacks run and body words executed in this call
  call,    \* caller |-> function called and hooks written by then
  torn,    \* caller |-> a far patch was written around it in this call (history)
  crash    \* why the process died, "no" while it runs

installerVars == <<next, ipc, slot, entry, word, expect>>
memoryVars == <<index, entryIndex, code, tramp, orig, entries, log>>
callerVars == <<at, x17, trace, call, torn>>
vars == <<plan, installerVars, memoryVars, callerVars, crash>>

-----------------------------------------------------------------------------
\* Words of code, jump targets and places a caller can be at.

W(op, to, i) == [op |-> op, to |-> to, i |-> i]
Body(i) == W("body", None, i)
Nop == W("nop", None, 0)
Ldr == W("ldr", None, 0)          \* LDR X17, #0x8
Br == W("br", None, 0)            \* BR X17
Lit(to) == W("lit", to, 0)        \* low half of the literal
LitHigh == W("data", None, 0)
B(to) == W("b", to, 0)            \* B, ADDR_PCREL26

Place(in, id, pc) == [in |-> in, id |-> id, pc |-> pc]
Junk == Place("junk", None, 0)
Callback(c) == Place("callback", c, 0)
Entry(e) == Place("entry", e, 0)
Nowhere == Place("idle", None, 0)

EmptySlot == [words |-> <<>>, fn |-> None, resume |-> 0]
EmptyEntry == [slot |-> None, skip |-> 0, cb |-> None]

Init ==
  /\ plan \in Plans
  /\ next = [i \in Installers |-> 1]
  /\ ipc = [i \in Installers |-> "start"]
  /\ slot = [i \in Installers |-> None]
  /\ entry = [i \in Installers |-> None]
  /\ word = [i \in Installers |-> 0]
  /\ expect = [i \in Installers |-> Nop]
  /\ index = -1
  /\ entryIndex = 0
  /\ code = [f \in Funcs |-> [k \in Words |-> Body(k)]]
  /\ tramp = [s \in 0 .. HookMax |-> EmptySlot]
  /\ orig = [c \in Callbacks |-> None]
  /\ entries = [e \in 0 .. EntryMax |-> EmptyEntry]
  /\ log = [f \in Funcs |-> <<>>]
  /\ at = [c \in Callers |-> Nowhere]
  /\ x17 = [c \in Callers |-> Junk]
  /\ trace = [c \in Callers |-> <<>>]
  /\ call = [c \in Callers |-> [fn |-> None, since |-> 0]]
  /\ torn = [c \in Callers |-> FALSE]
  /\ crash = "no"

Alive == crash = "no"
Finished(i) == next[i] > Len(plan[i])
Hook(i) == plan[i][next[i]]
Fn(i) == Hook(i).fn
\* How many words the patch overwrites.
Count(f) == IF f \notin Far THEN 1 ELSE IF f \in Misaligned THEN 5 ELSE 4
Target(i) == IF Hook(i).kind = "inline" THEN Entry(entry[i]) ELSE Callback(Hook(i).cb)
Installing(i, l) == ~Finished(i) /\ ipc[i] = l
At(i, l) == Alive /\ Installing(i, l)
Goto(i, l) == ipc' = [ipc EXCEPT ![i] = l]

-----------------------------------------------------------------------------
\* What the three kinds do first.  HookInline is the check, the use and the
\* increment of s_EntryIndex.

Start(i) ==
  /\ At(i, "start")
  /\ CASE Hook(i).kind = "tramp" -> Goto(i, "alloc") /\ UNCHANGED crash
       [] Hook(i).kind = "replace" ->
            /\ Goto(i, IF Fn(i) \in Far THEN "patch" ELSE "load")
            /\ UNCHANGED crash
       [] OTHER ->
            IF entryIndex >= EntryMax
              THEN crash' = "PoolFull" /\ UNCHANGED ipc
              ELSE Goto(i, "grab") /\ UNCHANGED crash
  /\ word' = [word EXCEPT ![i] = 0]
  /\ slot' = [slot EXCEPT ![i] = None]
  /\ UNCHANGED <<next, entry, expect, memoryVars, callerVars>>

Grab(i) ==
  /\ At(i, "grab")
  /\ entry' = [entry EXCEPT ![i] = entryIndex]
  /\ Goto(i, "advance")
  /\ UNCHANGED <<next, slot, word, expect, memoryVars, callerVars, crash>>

Advance(i) ==
  /\ At(i, "advance")
  /\ entryIndex' = entryIndex + 1
  /\ Goto(i, "alloc")
  /\ UNCHANGED <<next, slot, entry, word, expect, index, code, tramp, orig, entries,
                 log, callerVars, crash>>

\* Mutant: the counter is read and not written back.
AllocForgets(i) ==
  /\ At(i, "alloc")
  /\ slot' = [slot EXCEPT ![i] = index + 1]
  /\ tramp' = [tramp EXCEPT ![index + 1].words = <<>>]
  /\ Goto(i, "copy")
  /\ UNCHANGED <<next, entry, word, expect, index, entryIndex, code, orig, entries, log,
                 callerVars, crash>>

\* AllocForTrampoline: i = __sync_add_and_fetch(&index, 1); fails if i > HookMax.
Alloc(i) ==
  /\ At(i, "alloc")
  /\ index' = index + 1
  /\ IF index + 1 > HookMax
       THEN crash' = "PoolFull" /\ UNCHANGED <<slot, ipc, tramp>>
       ELSE /\ slot' = [slot EXCEPT ![i] = index + 1]
            /\ tramp' = [tramp EXCEPT ![index + 1].words = <<>>]
            /\ Goto(i, "copy")
            /\ UNCHANGED crash
  /\ UNCHANGED <<next, entry, word, expect, entryIndex, code, orig, entries, log, callerVars>>

\* __fix_instructions: one word of the function moves to the trampoline.  An
\* LDR whose literal is among the copied words takes the literal with it.
Literal(f, k) == IF k \in Words /\ code[f][k].op = "lit" THEN code[f][k].to ELSE Junk
MovedUnfixed(f, k) == code[f][k]          \* mutant: the literal stays behind
Moved(f, k) == IF code[f][k] = Ldr THEN W("ldrc", Literal(f, k + 2), 0) ELSE code[f][k]

\* Mutants: a NOP before every word, and a jump back one word too far.
CopyPads(i) ==
  /\ At(i, "copy")
  /\ tramp' = [tramp EXCEPT ![slot[i]].words = @ \o <<Nop, Moved(Fn(i), word[i])>>,
                            ![slot[i]].fn = Fn(i),
                            ![slot[i]].resume = word[i] + 1]
  /\ IF word[i] + 1 < Count(Fn(i))
       THEN word' = [word EXCEPT ![i] = @ + 1] /\ UNCHANGED ipc
       ELSE /\ word' = [word EXCEPT ![i] = 0]
            /\ Goto(i, IF Fn(i) \in Far THEN "patch" ELSE "load")
  /\ UNCHANGED <<next, slot, entry, expect, index, entryIndex, code, orig, entries, log,
                 callerVars, crash>>
CopyOvershoots(i) ==
  /\ At(i, "copy")
  /\ tramp' = [tramp EXCEPT ![slot[i]].words = Append(@, Moved(Fn(i), word[i])),
                            ![slot[i]].fn = Fn(i),
                            ![slot[i]].resume = word[i] + 2]
  /\ IF word[i] + 1 < Count(Fn(i))
       THEN word' = [word EXCEPT ![i] = @ + 1] /\ UNCHANGED ipc
       ELSE /\ word' = [word EXCEPT ![i] = 0]
            /\ Goto(i, IF Fn(i) \in Far THEN "patch" ELSE "load")
  /\ UNCHANGED <<next, slot, entry, expect, index, entryIndex, code, orig, entries, log,
                 callerVars, crash>>
Copy(i) ==
  /\ At(i, "copy")
  /\ tramp' = [tramp EXCEPT ![slot[i]].words = Append(@, Moved(Fn(i), word[i])),
                            ![slot[i]].fn = Fn(i),
                            ![slot[i]].resume = word[i] + 1]
  /\ IF word[i] + 1 < Count(Fn(i))
       THEN word' = [word EXCEPT ![i] = @ + 1] /\ UNCHANGED ipc
       ELSE /\ word' = [word EXCEPT ![i] = 0]
            /\ Goto(i, IF Fn(i) \in Far THEN "patch" ELSE "load")
  /\ UNCHANGED <<next, slot, entry, expect, index, entryIndex, code, orig, entries, log,
                 callerVars, crash>>

-----------------------------------------------------------------------------
\* HookFuncImpl: overwriting the function.

Store(f, k, w) == code' = [code EXCEPT ![f][k] = w]
Written(i) == log' = [log EXCEPT ![Fn(i)] = Append(@, Hook(i))]

\* The far patch as the sequence of its stores; the literal is one store of
\* two words.
FarPatch(i) == (IF Fn(i) \in Misaligned THEN <<Nop>> ELSE <<>>) \o
               <<Ldr, Br, Lit(Target(i))>>

\* The first far patch of f is partly written.  Later ones store the same words
\* again and then the new literal at once.
Half(f) ==
  /\ log[f] = <<>>
  /\ \E i \in Installers : Installing(i, "patch") /\ Fn(i) = f /\ word[i] > 0

\* c stands behind the first of the words a patch of f overwrites.
Inside(c, f) == at[c].in = "code" /\ at[c].id = f /\ at[c].pc \in 1 .. Count(f) - 1

Patch(i) ==
  LET k == word[i]
      w == FarPatch(i)[k + 1]
      last == k + 1 = Len(FarPatch(i))
  IN
  /\ At(i, "patch")
  /\ IF last
       THEN /\ code' = [code EXCEPT ![Fn(i)][k] = w, ![Fn(i)][k + 1] = LitHigh]
            /\ Written(i)
            /\ Goto(i, "return")
            /\ UNCHANGED word
       ELSE /\ Store(Fn(i), k, w)
            /\ word' = [word EXCEPT ![i] = k + 1]
            /\ UNCHANGED <<log, ipc>>
  /\ torn' = [c \in Callers |-> torn[c] \/ (log[Fn(i)] = <<>> /\ Inside(c, Fn(i)))]
  /\ UNCHANGED <<next, slot, entry, expect, index, entryIndex, tramp, orig, entries,
                 at, x17, trace, call, crash>>

\* __sync_cmpswap(original, *original, B): the expected value is read first,
\* and a swap that fails goes unnoticed.
Load(i) ==
  /\ At(i, "load")
  /\ expect' = [expect EXCEPT ![i] = code[Fn(i)][0]]
  /\ Goto(i, "swap")
  /\ UNCHANGED <<next, slot, entry, word, memoryVars, callerVars, crash>>

Swap(i) ==
  /\ At(i, "swap")
  /\ IF code[Fn(i)][0] = expect[i] THEN Store(Fn(i), 0, B(Target(i))) ELSE UNCHANGED code
  /\ Written(i)
  /\ Goto(i, "return")
  /\ UNCHANGED <<next, slot, entry, word, expect, index, entryIndex, tramp, orig, entries,
                 callerVars, crash>>

\* Mutant: the caller of Hook() drops what it returned.
ReturnDropped(i) ==
  /\ At(i, "return")
  /\ next' = [next EXCEPT ![i] = @ + 1]
  /\ Goto(i, "start")
  /\ UNCHANGED <<slot, entry, word, expect, memoryVars, callerVars, crash>>

\* Hook() returned: OrigRef() is assigned, or the inline entry is written.
Return(i) ==
  /\ At(i, "return")
  /\ IF Hook(i).kind = "inline"
       THEN Goto(i, "entry") /\ UNCHANGED <<next, orig>>
       ELSE /\ orig' = [orig EXCEPT ![Hook(i).cb] =
                          IF Hook(i).kind = "tramp" THEN slot[i] ELSE @]
            /\ next' = [next EXCEPT ![i] = @ + 1]
            /\ Goto(i, "start")
  /\ UNCHANGED <<slot, entry, word, expect, index, entryIndex, code, tramp, entries, log,
                 callerVars, crash>>

\* The branch of the entry is its word 3, Branch(trampoline - (entryCb + 8)):
\* it lands BranchSkip words into the trampoline.
BranchSkip == ((3 * 4) - 8) \div 4

WriteEntry(i) ==
  /\ At(i, "entry")
  /\ entries' = [entries EXCEPT ![entry[i]].slot = slot[i], ![entry[i]].skip = BranchSkip]
  /\ Goto(i, "callback")
  /\ UNCHANGED <<next, slot, entry, word, expect, index, entryIndex, code, tramp, orig, log,
                 callerVars, crash>>

WriteCallback(i) ==
  /\ At(i, "callback")
  /\ entries' = [entries EXCEPT ![entry[i]].cb = Hook(i).cb]
  /\ next' = [next EXCEPT ![i] = @ + 1]
  /\ Goto(i, "start")
  /\ UNCHANGED <<slot, entry, word, expect, index, entryIndex, code, tramp, orig, log,
                 callerVars, crash>>

-----------------------------------------------------------------------------
\* The callers.

In(c, where) == Alive /\ at[c].in = where
Jump(c, place) == at' = [at EXCEPT ![c] = place]
Forward(c) == at' = [at EXCEPT ![c].pc = @ + 1]
Die(c, why) == crash' = (IF torn'[c] THEN "Torn" ELSE why) /\ UNCHANGED at

Call(c, f) ==
  /\ In(c, "idle")
  /\ Jump(c, Place("code", f, 0))
  /\ x17' = [x17 EXCEPT ![c] = Junk]
  /\ trace' = [trace EXCEPT ![c] = <<>>]
  /\ call' = [call EXCEPT ![c] = [fn |-> f, since |-> Len(log[f])]]
  /\ torn' = [torn EXCEPT ![c] = FALSE]
  /\ UNCHANGED <<installerVars, memoryVars, crash>>

\* Execute word w; lit is what an LDR X17, #0x8 there would load.
Execute(c, w, lit) ==
  /\ CASE w.op = "body" -> Forward(c) /\ UNCHANGED crash
       [] w.op = "nop"  -> Forward(c) /\ UNCHANGED crash
       [] w.op = "ldr"  -> Forward(c) /\ UNCHANGED crash
       [] w.op = "ldrc" -> Forward(c) /\ UNCHANGED crash
       [] w.op = "br"   -> IF x17[c] = Junk THEN Die(c, "WildJump")
                                            ELSE Jump(c, x17[c]) /\ UNCHANGED crash
       [] w.op = "b"    -> Jump(c, w.to) /\ UNCHANGED crash
       [] OTHER         -> Die(c, "WildJump")
  /\ x17' = [x17 EXCEPT ![c] = CASE w.op = "ldr" -> lit
                                 [] w.op = "ldrc" -> w.to
                                 [] OTHER -> @]
  /\ trace' = [trace EXCEPT ![c] = IF w.op = "body" THEN Append(@, w.i) ELSE @]
  /\ UNCHANGED <<call, installerVars, memoryVars>>

\* In the function: a patched or original word, or the rest of the body.
RunFunction(c) ==
  LET f == at[c].id
      k == at[c].pc
  IN
  /\ In(c, "code")
  /\ torn' = [torn EXCEPT ![c] = @ \/ (k < Count(f) /\ Half(f))]
  /\ IF k \in Words
       THEN Execute(c, code[f][k], Literal(f, k + 2))
       ELSE /\ Jump(c, Place("done", None, 0))
            /\ UNCHANGED <<x17, trace, call, installerVars, memoryVars, crash>>

\* In a trampoline: a copied word, or the jump back behind the patch.
RunTrampoline(c) ==
  LET s == at[c].id
      k == at[c].pc
  IN
  /\ In(c, "tramp")
  /\ UNCHANGED torn
  /\ IF k < Len(tramp[s].words)
       THEN Execute(c, tramp[s].words[k + 1], Junk)
       ELSE /\ Jump(c, Place("code", tramp[s].fn, tramp[s].resume))
            /\ UNCHANGED <<x17, trace, call, installerVars, memoryVars, crash>>

\* A trampoline callback calls Orig() once, a replacement does not.
IsReplacement(cb) ==
  \E i \in Installers : \E n \in DOMAIN plan[i] :
    plan[i][n].cb = cb /\ plan[i][n].kind = "replace"

RunCallback(c) ==
  LET cb == at[c].id IN
  /\ In(c, "callback")
  /\ UNCHANGED torn
  /\ trace' = [trace EXCEPT ![c] = Append(@, cb)]
  /\ x17' = [x17 EXCEPT ![c] = Junk]
  /\ IF IsReplacement(cb) THEN Jump(c, Place("done", None, 0)) /\ UNCHANGED crash
     ELSE IF orig[cb] = None THEN Die(c, "NullOrig")
     ELSE Jump(c, Place("tramp", orig[cb], 0)) /\ UNCHANGED crash
  /\ UNCHANGED <<call, installerVars, memoryVars>>

\* An inline entry and exl_inline_hook_impl: save LR, call the callback with
\* the registers, restore them, branch to the trampoline.
RunEntry(c) ==
  LET e == entries[at[c].id] IN
  /\ In(c, "entry")
  /\ UNCHANGED torn
  /\ trace' = [trace EXCEPT ![c] = Append(@, e.cb)]
  /\ IF e.slot = None \/ e.cb = None THEN Die(c, "EmptyEntry")
       ELSE Jump(c, Place("tramp", e.slot, e.skip)) /\ UNCHANGED crash
  /\ UNCHANGED <<x17, call, installerVars, memoryVars>>

\* The result of the call is used; the caller may call again.
Done(c) ==
  /\ In(c, "done")
  /\ Jump(c, Nowhere)
  /\ UNCHANGED <<x17, trace, call, torn, installerVars, memoryVars, crash>>

Install(i) ==
  \/ Start(i) \/ Grab(i) \/ Advance(i) \/ Alloc(i) \/ Copy(i) \/ Patch(i)
  \/ Load(i) \/ Swap(i) \/ Return(i) \/ WriteEntry(i) \/ WriteCallback(i)
Run(c) == RunFunction(c) \/ RunTrampoline(c) \/ RunCallback(c) \/ RunEntry(c) \/ Done(c)

Next ==
  /\ \/ \E i \in Installers : Install(i)
     \/ \E c \in Callers, f \in Funcs : Call(c, f)
     \/ \E c \in Callers : Run(c)
  /\ UNCHANGED plan

Spec == Init /\ [][Next]_vars

-----------------------------------------------------------------------------
Ops == {"body", "nop", "ldr", "ldrc", "br", "b", "lit", "data"}
IsWord(w) == w.op \in Ops /\ w.i \in Words

\* Type invariant of installers, code memory and callers.
TypeOK ==
  /\ plan \in Plans
  /\ \A i \in Installers : next[i] \in 1 .. Len(plan[i]) + 1 /\ word[i] \in Words
  /\ slot \in [Installers -> (0 .. HookMax) \cup {None}]
  /\ entry \in [Installers -> (0 .. EntryMax) \cup {None}]
  /\ index \in Int /\ entryIndex \in Nat
  /\ \A f \in Funcs : \A k \in Words : IsWord(code[f][k])
  /\ \A s \in 0 .. HookMax : Len(tramp[s].words) <= 5
  /\ orig \in [Callbacks -> (0 .. HookMax) \cup {None}]
  /\ crash \in {"no", "PoolFull", "WildJump", "NullOrig", "EmptyEntry", "Torn"}

\* A process whose hooks keep out of each other's way, as the hooks of exl_main do:
\* each has a callback of its own (a hook is a type, with its OrigRef); two threads
\* hook no common function and do not both take inline entries ("TODO: thread
\* safety"); an inline hook is the first of its function, since it skips a word
\* (BranchSkip).
Orderly ==
  \A p \in Plans : \A i, j \in Installers : \A n \in DOMAIN p[i], m \in DOMAIN p[j] :
    LET g == p[i][n]
        h == p[j][m]
    IN  /\ i # j \/ n # m => g.cb # h.cb
        /\ i # j => g.fn # h.fn /\ (g.kind # "inline" \/ h.kind # "inline")
        /\ i = j /\ m < n /\ g.fn = h.fn => g.kind # "inline"

\* The callbacks of the n oldest hooks of f but the m oldest, newest first, and
\* the words of f; an inline hook goes on one word too far.
Ran(f, m, n) == [k \in 1 .. n - m |-> log[f][n + 1 - k].cb]
Skipped(f, n) == IF n > 0 /\ log[f][1].kind = "inline" THEN BranchSkip ELSE 0
Bodies(from, to) == [k \in 1 .. to - from |-> from + k - 1]
Replaces(h) == h.kind = "replace"

\* What a call of f does once the n oldest hooks are in place: the newest hook
\* first, down to a replacement or to the words of the function itself.
Expected(f, n, done) ==
  \E m \in 0 .. n :
    /\ \A l \in m + 1 .. n : ~Replaces(log[f][l])
    /\ IF m = 0 THEN done = Ran(f, 0, n) \o Bodies(Skipped(f, n), 5)
                ELSE Replaces(log[f][m]) /\ done = Ran(f, m - 1, n)

\* One of the moments during the call explains what it did.
AsExpected(c) ==
  LET f == call[c].fn
  IN  \E n \in call[c].since .. Len(log[f]) : Expected(f, n, trace[c])

\* A call runs every hook that was in place when it began, each once, newest
\* first, and then each word of the function once and in order: patching,
\* trampolines and chains of hooks on one function lose and repeat nothing,
\* but for the first word of a function with an inline hook.  Only a call a
\* function's first far patch was written around may differ.
CallsRunEveryHook == \A c \in Callers : In(c, "done") /\ ~torn[c] => AsExpected(c)

\* However the stores of patches fall between a caller's steps, it never branches
\* through an X17 it did not load and never executes a literal, unless the first
\* far patch of a function was being written around it: a second patch of a
\* function, a near one or one of another function does it no harm.
NoWildJump == crash # "WildJump"

\* Where a caller can be before its time: in a callback whose Orig() is still
\* unset, or in an inline entry not written to the end.
OrigUnset(c) ==
  at[c].in = "callback" /\ ~IsReplacement(at[c].id) /\ orig[at[c].id] = None
EntryUnwritten(c) ==
  at[c].in = "entry" /\ (entries[at[c].id].slot = None \/ entries[at[c].id].cb = None)

\* Nobody gets to a hook that is not published, but between the last store of the
\* patch and what the same installer does next: until it has assigned OrigRef(),
\* or written the inline entry it took.
NothingRunsUnpublished ==
  \A c \in Callers : ~torn[c] =>
    /\ OrigUnset(c) => \E i \in Installers : Installing(i, "return") /\ Hook(i).cb = at[c].id
    /\ EntryUnwritten(c) => \E i \in Installers :
         /\ \E l \in {"return", "entry", "callback"} : Installing(i, l)
         /\ Hook(i).kind = "inline" /\ entry[i] = at[c].id

\* No two hooks share a trampoline, in whatever order threads allocate, and
\* every trampoline lies in the pool (static_assert in hook_impl.cpp), but one:
\* the limit is compared with >, so the place behind the pool is handed out too.
Behind == HookMax
InPool(s) == s \in 0 .. HookMax - 1 \/ s = Behind
Allocated(i) == At(i, "copy") \/ At(i, "patch") \/ At(i, "load") \/ At(i, "swap") \/
                At(i, "return") \/ At(i, "entry") \/ At(i, "callback")
SlotsDistinct ==
  /\ \A i \in Installers : slot[i] # None => InPool(slot[i])
  /\ \A i, j \in Installers : i # j /\ Allocated(i) /\ Allocated(j) /\ slot[i] # None
       => slot[i] # slot[j]
  /\ \A i \in Installers : Allocated(i) /\ slot[i] # None =>
       \A cb \in Callbacks : orig[cb] # slot[i]
  /\ \A a, b \in Callbacks : a # b /\ orig[a] # None => orig[a] # orig[b]
=============================================================================
