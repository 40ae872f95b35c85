--------------------------------- MODULE Rtld ---------------------------------
(***************************************************************************)
(* The runtime linker (lib/reloc): a module's object reads its dynamic      *)
(* section, relocates the module, resolves its symbols or leaves its jump   *)
(* slots to lazy binding, which happens at the first call.  exl_dynamic is  *)
(* the relocation of this program itself when it is its own entry point.    *)
(*                                                                          *)
(* Addresses count words; a module is mapped at its base.  Who loads other  *)
(* modules is outside of this code: they join the list of loaded modules    *)
(* at any time and at either end.  A loader links a module once, before any *)
(* of its code runs: nothing in this code calls ResolveSymbols, and a       *)
(* second pass would end at the assertion of the first lazy slot.           *)
(***************************************************************************)
EXTENDS Integers, Sequences, FiniteSets, SequencesExt

CONSTANTS
  Images,   \* modules to link: records [dynamic, table, plt, words]
  Modules,  \* all that can be loaded, Self among them
  Self,     \* the module being linked
  Base,     \* module |-> module_base
  Chain,    \* module |-> its symbols, as its hash chain has them
  Manual,   \* name |-> what g_LookupGlobalManualFunctionPointer answers, or 0
  Threads   \* callers of the linked module's imports

ASSUME RtldAssumption ==
  /\ Self \in Modules
  /\ Base \in [Modules -> Nat \ {0}]
  /\ Chain \in [Modules -> Seq([name : STRING, defined : BOOLEAN, local : BOOLEAN, value : Nat])]
  \* a symbol of a module is named once
  /\ \A m \in Modules : IsInjective([k \in DOMAIN Chain[m] |-> Chain[m][k].name])
  /\ Manual \in [DOMAIN Manual -> Nat]

SizeofRel == 16
SizeofRela == 24
SizeofSym == 24
Resolver == -2                 \* __rtld_runtime_resolve
ObjectPtr == -1                \* the module's object

-----------------------------------------------------------------------------
\* A module as a static linker writes it.  The dynamic section has pairs
\* <<tag, value>>; where a tag comes twice, the last one is read.

ValueOf(i, tag, default) ==
  LET k == SelectLastInSeq(i.dynamic, LAMBDA d : d[1] = tag)
  IN  IF k = 0 THEN default ELSE i.dynamic[k][2]
Tag(i, tag) == ValueOf(i, tag, 0)
Count(i) == Tag(i, "RELACOUNT") + Tag(i, "RELCOUNT")

Symbols == [name : DOMAIN Manual, hidden : BOOLEAN, weak : BOOLEAN]
Entries ==
  [form : {"REL", "RELA"}, type : STRING, at : Nat, addend : Int,
   sym : Symbols]

Types(i) ==
  /\ i.words \in Seq(Int) /\ i.table \in Seq(Entries) /\ i.plt \in Seq(Entries)
  /\ i.dynamic \in Seq(Range(i.dynamic))
  /\ \A tag \in {"PLTRELSZ", "PLTGOT", "RELASZ", "RELSZ", "RELACOUNT", "RELCOUNT"} :
       Tag(i, tag) \in Nat
  /\ ValueOf(i, "RELENT", SizeofRel) = SizeofRel
  /\ ValueOf(i, "RELAENT", SizeofRela) = SizeofRela

\* The table is in one form, and the size and count of that form are its own.
OneForm(i) ==
  \/ /\ \A k \in DOMAIN i.table : i.table[k].form = "REL"
     /\ Tag(i, "RELSZ") = Len(i.table) * SizeofRel
     /\ Tag(i, "RELASZ") = 0 /\ Tag(i, "RELACOUNT") = 0
  \/ /\ \A k \in DOMAIN i.table : i.table[k].form = "RELA"
     /\ Tag(i, "RELASZ") = Len(i.table) * SizeofRela
     /\ Tag(i, "RELSZ") = 0 /\ Tag(i, "RELCOUNT") = 0

\* Each word is relocated once.  If there is a count, it is that of the relative
\* entries, and they come first.
Table(i) ==
  /\ OneForm(i)
  /\ \A k \in DOMAIN i.table : i.table[k].at \in DOMAIN i.words
  /\ \A j, k \in DOMAIN i.table : i.table[j].at = i.table[k].at => j = k
  /\ Count(i) <= Len(i.table)
  /\ Count(i) # 0 => \A k \in DOMAIN i.table : i.table[k].type = "relative" <=> k <= Count(i)

\* The slots follow the three words of the linkage table's head, in the order of
\* their entries; no other entry relocates a word of the linkage table.
LinkageTable(i) ==
  LET got == Tag(i, "PLTGOT")
  IN  /\ Tag(i, "PLTRELSZ")
           = Len(i.plt) * (IF ValueOf(i, "PLTREL", "REL") = "RELA" THEN SizeofRela ELSE SizeofRel)
      /\ \A k \in DOMAIN i.plt :
           /\ got # 0
           /\ i.plt[k].type = "slot" /\ i.plt[k].addend >= 0
           /\ i.plt[k].at = got + 2 + k
           /\ i.plt[k].at \in DOMAIN i.words /\ i.words[i.plt[k].at] >= 0
      /\ got # 0 => \A k \in DOMAIN i.table : i.table[k].at \notin got + 1 .. got + 2 + Len(i.plt)

ASSUME ImagesAssumption == \A i \in Images : Types(i) /\ Table(i) /\ LinkageTable(i)

-----------------------------------------------------------------------------
VARIABLES
  img,        \* the module as it is in its file
  object,     \* exl_nx_module_runtime, or another module's ModuleObject
  mem,        \* offset |-> word of the module's image
  list,       \* g_pAutoLoadList from back to front
  manual,     \* a manual lookup function is set
  linkedWith, \* history: list and manual when the symbols were resolved
  phase,      \* what has been done to the module
  pc, at,     \* per thread: where it is in a call, and the slot or address
  found       \* per thread: result of its lookup

linkVars == <<img, object, mem, linkedWith, phase>>
callVars == <<pc, at, found>>
vars == <<linkVars, list, manual, callVars>>

Relocated(offset) == Base[Self] + offset

\* In .bss, which is zero.
ZeroObject ==
  [isRela |-> FALSE, pltSize |-> 0, plt |-> 0, table |-> 0, got |-> 0, relaSize |-> 0,
   relSize |-> 0, relCount |-> 0, relaCount |-> 0, stub |-> 0]

Init ==
  /\ img \in Images
  /\ object = ZeroObject
  /\ mem = img.words
  /\ list \in {<<>>, <<Self>>} \cup {<<m>> : m \in Modules}
  /\ manual \in BOOLEAN
  /\ linkedWith = [list |-> <<>>, manual |-> FALSE]
  /\ phase = "mapped"
  /\ pc = [t \in Threads |-> "idle"]
  /\ at = [t \in Threads |-> 0]
  /\ found = [t \in Threads |-> 0]

-----------------------------------------------------------------------------
\* ModuleObject::Initialize.

\* An entry <<tag, value>> of the dynamic section.  rela_or_rel is a union.
ReadTag(o, d) ==
  LET value == d[2]
  IN  CASE d[1] = "PLTRELSZ" -> [o EXCEPT !.pltSize = value]
        [] d[1] = "PLTGOT" -> [o EXCEPT !.got = value]
        [] d[1] \in {"REL", "RELA"} -> [o EXCEPT !.table = value]
        [] d[1] = "RELASZ" -> [o EXCEPT !.relaSize = value]
        [] d[1] = "RELSZ" -> [o EXCEPT !.relSize = value]
        [] d[1] = "PLTREL" -> [o EXCEPT !.isRela = (value = "RELA")]
        [] d[1] = "JMPREL" -> [o EXCEPT !.plt = value]
        [] d[1] = "RELACOUNT" -> [o EXCEPT !.relaCount = value]
        [] d[1] = "RELCOUNT" -> [o EXCEPT !.relCount = value]
        [] OTHER -> o

\* Everything is reset but the two counts.
Reset(o) == [ZeroObject EXCEPT !.relCount = o.relCount, !.relaCount = o.relaCount]

\* The assertion on DT_RELAENT has its comparison the wrong way round.
AssertsEntry(d) ==
  \/ d[1] = "RELAENT" /\ d[2] = SizeofRela
  \/ d[1] = "RELENT" /\ d[2] # SizeofRel
  \/ d[1] = "SYMENT" /\ d[2] # SizeofSym
  \/ d[1] = "PLTREL" /\ d[2] \notin {"REL", "RELA"}

Initialize ==
  /\ phase = "mapped"
  /\ IF \E k \in DOMAIN img.dynamic : AssertsEntry(img.dynamic[k])
       THEN phase' = "aborted" /\ UNCHANGED object
       ELSE /\ object' = FoldLeft(ReadTag, Reset(object), img.dynamic)
            /\ phase' = "initialized"
  /\ UNCHANGED <<img, mem, linkedWith, list, manual, callVars>>

-----------------------------------------------------------------------------
\* Relative relocations.

RelRelative(m, e) == IF e.type = "relative" THEN [m EXCEPT ![e.at] = Relocated(@)] ELSE m
RelaRelative(m, e) ==
  IF e.type = "relative" THEN [m EXCEPT ![e.at] = Relocated(e.addend)] ELSE m
Relatives(m, nRel, nRela) ==
  FoldLeft(RelaRelative,
           FoldLeft(RelRelative, m, SubSeq(img.table, 1, nRel)),
           SubSeq(img.table, 1, nRela))

\* ModuleObject::Relocate.
Relocate ==
  /\ phase = "initialized"
  /\ mem' = Relatives(mem, object.relCount, object.relaCount)
  /\ phase' = "relocated"
  /\ UNCHANGED <<img, object, linkedWith, list, manual, callVars>>

\* exl_dynamic: without a count, or with a count of zero, all entries.
OwnTag(tag, default) == ValueOf(img, tag, default)
OwnCount(count, size, ent, sizeof) ==
  IF OwnTag(count, 0) # 0 THEN OwnTag(count, 0) ELSE OwnTag(size, 0) \div OwnTag(ent, sizeof)

OwnDynamic ==
  /\ phase = "mapped"
  /\ mem' = Relatives(mem, OwnCount("RELCOUNT", "RELSZ", "RELENT", SizeofRel),
                           OwnCount("RELACOUNT", "RELASZ", "RELAENT", SizeofRela))
  /\ phase' = "own"
  /\ UNCHANGED <<img, object, linkedWith, list, manual, callVars>>

-----------------------------------------------------------------------------
\* Looking symbols up.  A symbol referred to is [name, hidden, weak], one in a
\* chain [name, defined, local, value].

\* The chain's index of a definition, or 0.
GetSymbolByName(m, name) ==
  SelectInSeq(Chain[m], LAMBDA s : s.defined /\ s.name = name)
AddressIn(m, name) == Base[m] + Chain[m][GetSymbolByName(m, name)].value

LookupGlobalAuto(name) ==
  LET Exports(m) == LET k == GetSymbolByName(m, name) IN k # 0 /\ ~Chain[m][k].local
      k == SelectInSeq(list, Exports)
  IN  IF k = 0 THEN 0 ELSE AddressIn(list[k], name)

Failed == -1
TryResolveSymbol(s) ==
  IF s.hidden
    THEN IF GetSymbolByName(Self, s.name) # 0 THEN AddressIn(Self, s.name)
         ELSE IF s.weak THEN 0 ELSE Failed
    ELSE LET auto == LookupGlobalAuto(s.name)
             address == IF auto = 0 /\ manual THEN Manual[s.name] ELSE auto
         IN  IF address # 0 THEN address ELSE Failed

-----------------------------------------------------------------------------
\* ModuleObject::ResolveSymbols.

IsAbsolute(e) == e.type \in {"abs", "glob"}

\* Mutant: the addend is taken from the word instead of the entry.
RelaLikeRel(m, e) ==
  IF IsAbsolute(e) /\ TryResolveSymbol(e.sym) # Failed
    THEN [m EXCEPT ![e.at] = @ + TryResolveSymbol(e.sym)] ELSE m

ResolveSymbolRelAbsolute(m, e) ==
  IF IsAbsolute(e) /\ TryResolveSymbol(e.sym) # Failed
    THEN [m EXCEPT ![e.at] = @ + TryResolveSymbol(e.sym)] ELSE m
ResolveSymbolRelaAbsolute(m, e) ==
  IF IsAbsolute(e) /\ TryResolveSymbol(e.sym) # Failed
    THEN [m EXCEPT ![e.at] = TryResolveSymbol(e.sym) + e.addend] ELSE m

\* One jump slot: l has the words, got_stub_ptr and whether an assertion failed.
\* The word of a slot is the offset of the stub.
ResolveJumpSlot(l, e, lazy) ==
  LET stub == Relocated(l.mem[e.at])
      address == TryResolveSymbol(e.sym)
      bound == IF address = Failed THEN stub
               ELSE IF object.isRela THEN address + e.addend ELSE l.mem[e.at] + address
  IN  IF l.failed \/ e.type # "slot" THEN l
      ELSE IF l.stub \notin {0, stub} THEN [l EXCEPT !.failed = TRUE]
      ELSE [l EXCEPT !.stub = stub, !.mem[e.at] = IF lazy THEN stub ELSE bound]

SetGot(m) ==
  IF object.got = 0 THEN m
  ELSE [m EXCEPT ![object.got + 1] = ObjectPtr, ![object.got + 2] = Resolver]

ResolveSymbols(lazy) ==
  LET From(n, size) == SubSeq(img.table, n + 1, size)
      absolute ==
        FoldLeft(ResolveSymbolRelaAbsolute,
                 FoldLeft(ResolveSymbolRelAbsolute, mem,
                          From(object.relCount, object.relSize \div SizeofRel)),
                 From(object.relaCount, object.relaSize \div SizeofRela))
      Slot(l, e) == ResolveJumpSlot(l, e, lazy)
      entries == object.pltSize \div (IF object.isRela THEN SizeofRela ELSE SizeofRel)
      slots == FoldLeft(Slot, [mem |-> absolute, stub |-> object.stub, failed |-> FALSE],
                        SubSeq(img.plt, 1, entries))
  IN
  /\ phase = "relocated"
  /\ IF slots.failed
       THEN phase' = "aborted" /\ UNCHANGED <<mem, object, linkedWith>>
       ELSE /\ mem' = SetGot(slots.mem)
            /\ object' = [object EXCEPT !.stub = slots.stub]
            /\ linkedWith' = [list |-> list, manual |-> manual]
            /\ phase' = "linked"
  /\ UNCHANGED <<img, list, manual, callVars>>

-----------------------------------------------------------------------------
\* Calls through the linkage table, and lazy binding.

Slots == {img.plt[k].at : k \in DOMAIN img.plt}

\* The linkage stub branches to the slot's word, which may lead back here.
Call(t, slot) ==
  /\ phase = "linked" /\ pc[t] = "idle"
  /\ slot \in Slots
  /\ IF mem[slot] = object.stub
       THEN /\ at' = [at EXCEPT ![t] = slot]
            /\ pc' = [pc EXCEPT ![t] = IF mem[object.got + 2] = Resolver THEN "bind" ELSE "lost"]
       ELSE /\ at' = [at EXCEPT ![t] = mem[slot]]
            /\ pc' = [pc EXCEPT ![t] = "landed"]
  /\ found' = [found EXCEPT ![t] = slot]
  /\ UNCHANGED <<linkVars, list, manual>>

\* Mutant: the index is not corrected for the table's own third word.
LazyIndexFromGot(slot) == slot - (object.got + 2)

\* __rtld_runtime_resolve: (x17 - x16 - 8) / 8, counted in words.
LazyIndex(slot) == slot - (object.got + 2) - 1

\* __rtld_lazy_bind_symbol; an unresolved symbol is 0.
LazyBind(t) ==
  LET k == LazyIndex(at[t]) + 1
      address == IF k \in DOMAIN img.plt THEN TryResolveSymbol(img.plt[k].sym) ELSE Failed
  IN
  /\ pc[t] = "bind"
  /\ found' = [found EXCEPT ![t] =
       IF address \in {Failed, 0} THEN 0
       ELSE IF object.isRela THEN address + img.plt[k].addend ELSE address]
  /\ pc' = [pc EXCEPT ![t] = "store"]
  /\ UNCHANGED <<linkVars, list, manual, at>>

\* The result is stored in the slot and branched to.
StoreAndJump(t) ==
  /\ pc[t] = "store"
  /\ mem' = [mem EXCEPT ![at[t]] = found[t]]
  /\ at' = [at EXCEPT ![t] = found[t]]
  /\ found' = [found EXCEPT ![t] = at[t]]
  /\ pc' = [pc EXCEPT ![t] = "landed"]
  /\ UNCHANGED <<img, object, linkedWith, phase, list, manual>>

\* The called function returns; address 0 has none.
Return(t) ==
  /\ pc[t] = "landed" /\ at[t] # 0
  /\ pc' = [pc EXCEPT ![t] = "idle"]
  /\ at' = [at EXCEPT ![t] = 0]
  /\ found' = [found EXCEPT ![t] = 0]
  /\ UNCHANGED <<linkVars, list, manual>>

-----------------------------------------------------------------------------
\* nn::ro: a module, perhaps the one being linked, joins the list.
Join(m) ==
  /\ m \notin Range(list)
  /\ list' \in {<<m>> \o list, Append(list, m)}
  /\ UNCHANGED <<linkVars, manual, callVars>>

Link == Initialize \/ Relocate \/ OwnDynamic \/ \E lazy \in BOOLEAN : ResolveSymbols(lazy)
Calls(t) == (\E slot \in Slots : Call(t, slot)) \/ LazyBind(t) \/ StoreAndJump(t) \/ Return(t)

\* A process that has called address 0 is over.
Running == \A t \in Threads : pc[t] = "landed" => at[t] # 0
Next == Running /\ (Link \/ (\E t \in Threads : Calls(t)) \/ \E m \in Modules : Join(m))

Spec == Init /\ [][Next]_vars

-----------------------------------------------------------------------------
\* What the ELF specification says of the words, whatever the form of the table.

Exporters(name, l) ==
  {k \in DOMAIN l : \E s \in Range(Chain[l[k]]) : s.name = name /\ s.defined /\ ~s.local}
Valued(m, name) ==
  Base[m] + (CHOOSE s \in Range(Chain[m]) : s.name = name /\ s.defined).value

\* Where a symbol is, given the loaded modules: in the first that exports it; a
\* hidden one in its own module, or nowhere (0) if that is all right.  The code
\* takes a weak symbol that is not hidden for unresolved as well.
Definition(s, with) ==
  IF s.hidden
    THEN IF \E x \in Range(Chain[Self]) : x.name = s.name /\ x.defined
           THEN {Valued(Self, s.name)} ELSE IF s.weak THEN {0} ELSE {}
    ELSE LET ks == Exporters(s.name, with.list)
         IN  IF ks # {} THEN {Valued(with.list[k], s.name) : k \in {k \in ks : \A j \in ks : k <= j}}
             ELSE {Manual[s.name] : x \in {x \in {s.name} : with.manual /\ Manual[x] # 0}}

Addend(e) == IF e.form = "RELA" THEN e.addend ELSE img.words[e.at]

\* Relative entries come first and are counted, except in a module that says no
\* count: the object then relocates none of them, exl_dynamic all.
Counted(k) == k <= OwnTag("RELACOUNT", 0) + OwnTag("RELCOUNT", 0) \/ phase = "own"

\* After relocation every word of a relative entry points into the module, once
\* relocated, and after linking every word of a symbolic entry points to the
\* symbol's definition, if any loaded module had one (Relocate, exl_dynamic,
\* ResolveSymbols).
WordsLinked ==
  \A k \in DOMAIN img.table :
    LET e == img.table[k]
    IN  /\ e.type = "relative" /\ Counted(k) /\ phase \in {"own", "relocated", "linked"}
             => mem[e.at] = Relocated(Addend(e))
        /\ e.type \in {"abs", "glob"} /\ phase = "linked"
             => LET ds == Definition(e.sym, linkedWith)
                IN  IF ds = {} THEN mem[e.at] = img.words[e.at]
                    ELSE mem[e.at] - Addend(e) \in ds

\* A slot of the REL form that was bound without laziness: the offset of its
\* stub is added to the address.
BoundTwice(e) == ~object.isRela /\ mem[e.at] # object.stub /\ mem[e.at] # 0
                 /\ mem[e.at] - img.words[e.at] \in Definition(e.sym, linkedWith)

\* A call arrives at a definition of its symbol in a loaded module, whether the
\* slot was bound at once or by this or another thread's first call, and while
\* modules are loaded; it arrives nowhere only if the symbol had no definition
\* when the module was linked (__rtld_lazy_bind_symbol, ResolveSymbols).
Seen == {[list |-> <<m>>, manual |-> FALSE] : m \in Range(list)}
          \cup {[list |-> <<>>, manual |-> manual]}
CallsArrive ==
  \A t \in Threads :
    /\ pc[t] # "lost"
    /\ pc[t] = "landed" =>
         \E e \in Range(img.plt) :
           /\ e.at = found[t]
           /\ IF at[t] = 0 THEN Definition(e.sym, linkedWith) \subseteq {0}
              ELSE \/ BoundTwice(e)
                   \/ at[t] - (IF object.isRela THEN e.addend ELSE 0)
                        \in UNION {Definition(e.sym, with) : with \in Seen}
===============================================================================
