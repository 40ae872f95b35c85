---------------------------- MODULE Rtld_proofs ----------------------------
(***************************************************************************)
(* For every set of modules, with tables of any length in either form, any  *)
(* number of threads, and while modules are loaded: every word of a linked  *)
(* module is what its entry asks for (WordsLinked), and a call through the  *)
(* linkage table arrives at a definition of its symbol (CallsArrive).       *)
(*                                                                         *)
(* First what the code's loops compute.  Each is a fold over a table; by    *)
(* TableWalk it ends where the walk through the entries ends, and what a    *)
(* walk has done after n entries is shown for the set of all such n.  The   *)
(* loops before a word's own entry leave it alone, so that the word is      *)
(* computed from what the file has (Written).                              *)
(*                                                                         *)
(* Then the invariant (IInv): memory between the phases, every slot at its  *)
(* stub or where a call arrives, every thread at a slot, and what it has    *)
(* found.                                                                  *)
(***************************************************************************)
EXTENDS Rtld, TLAPS

(* One of the loops; the others follow where they are needed.               *)

Tags == INSTANCE TableWalk WITH Op <- ReadTag

(* SelectInSeq and SelectLastInSeq return the least and the greatest index. *)
LEMMA FirstIndex ==
  ASSUME NEW n \in Nat, NEW I, I \subseteq 1 .. n, I # {}
  PROVE  /\ Min(I) \in I
         /\ \A k \in I : Min(I) <= k
<1>1. I \subseteq Nat
  OBVIOUS
<1>2. PICK m \in I : \A k \in I : m <= k
  BY <1>1, Tags!LeastNatural
<1> QED BY <1>2 DEF Min

LEMMA LastIndex ==
  ASSUME NEW n \in Nat, NEW I, I \subseteq 1 .. n, I # {}
  PROVE  /\ Max(I) \in I
         /\ \A k \in I : Max(I) >= k
<1>1. Tags!Max(I) \in I /\ \A k \in I : Tags!Max(I) >= k
  BY Tags!MaxOfInterval
<1> QED BY <1>1 DEF Max, Tags!Max

-----------------------------------------------------------------------------
(* Looking symbols up.                                                      *)

ChainSymbols == [name : STRING, defined : BOOLEAN, local : BOOLEAN, value : Nat]
Defines(m, name) == \E x \in Range(Chain[m]) : x.name = name /\ x.defined

LEMMA ChainType ==
  ASSUME NEW m \in Modules
  PROVE  /\ Chain[m] \in Seq(ChainSymbols) /\ Len(Chain[m]) \in Nat
         /\ DOMAIN Chain[m] = 1 .. Len(Chain[m])
         /\ \A k \in 1 .. Len(Chain[m]) : Chain[m][k] \in ChainSymbols
         /\ Base[m] \in Nat \ {0}
<1>1. Chain[m] \in Seq(ChainSymbols) /\ Base[m] \in Nat \ {0}
  BY RtldAssumption DEF ChainSymbols
<1> HIDE DEF ChainSymbols
<1> QED BY <1>1

LEMMA NamedOnce ==
  ASSUME NEW m \in Modules, NEW j \in 1 .. Len(Chain[m]), NEW k \in 1 .. Len(Chain[m]),
         Chain[m][j].name = Chain[m][k].name
  PROVE  j = k
<1> DEFINE names == [i \in DOMAIN Chain[m] |-> Chain[m][i].name]
<1>1. \A a, b \in DOMAIN names : names[a] = names[b] => a = b
  BY RtldAssumption DEF IsInjective
<1>2. DOMAIN Chain[m] = 1 .. Len(Chain[m])
  BY ChainType
<1> QED BY <1>1, <1>2

(* GetSymbolByName finds the definition the name stands for, if there is one. *)
LEMMA SymbolFound ==
  ASSUME NEW m \in Modules, NEW name
  PROVE  /\ GetSymbolByName(m, name) # 0 <=> Defines(m, name)
         /\ GetSymbolByName(m, name) # 0 =>
              /\ GetSymbolByName(m, name) \in 1 .. Len(Chain[m])
              /\ Chain[m][GetSymbolByName(m, name)].name = name
              /\ Chain[m][GetSymbolByName(m, name)].defined
              /\ AddressIn(m, name) = Valued(m, name)
              /\ Valued(m, name) \in Nat \ {0}
<1> DEFINE I == {i \in 1 .. Len(Chain[m]) : Chain[m][i].defined /\ Chain[m][i].name = name}
           k == GetSymbolByName(m, name)
<1>1. k = IF I # {} THEN Min(I) ELSE 0
  BY DEF GetSymbolByName, SelectInSeq
<1>2. Len(Chain[m]) \in Nat /\ DOMAIN Chain[m] = 1 .. Len(Chain[m])
  BY ChainType
<1>3. I # {} => k \in I
  BY <1>1, <1>2, FirstIndex
<1>4. I # {} <=> Defines(m, name)
  BY <1>2 DEF Defines, Range
<1>5. ASSUME k \in I PROVE AddressIn(m, name) = Valued(m, name) /\ Valued(m, name) \in Nat \ {0}
  <2> DEFINE s == CHOOSE s \in Range(Chain[m]) : s.name = name /\ s.defined
  <2>1. s \in Range(Chain[m]) /\ s.name = name /\ s.defined
    BY <1>4, <1>5 DEF Defines
  <2>2. PICK j \in 1 .. Len(Chain[m]) : s = Chain[m][j]
    BY <2>1, <1>2 DEF Range
  <2>3. j = k
    BY <1>5, <2>1, <2>2, NamedOnce
  <2>4. AddressIn(m, name) = Base[m] + s.value
    BY <2>2, <2>3 DEF AddressIn
  <2>5. Base[m] \in Nat \ {0} /\ s.value \in Nat
    BY <2>2, ChainType DEF ChainSymbols
  <2> QED BY <2>4, <2>5 DEF Valued
<1>6. k # 0 <=> I # {}
  BY <1>1, <1>3
<1> QED BY <1>3, <1>4, <1>5, <1>6

(* The list as it is now, and a list as it was when a module was linked.    *)
Now == [list |-> list, manual |-> manual]
IsList(with) == with.list \in Seq(Modules)

LEMMA ExportersFound ==
  ASSUME list \in Seq(Modules), NEW name
  PROVE  /\ LookupGlobalAuto(name) = 0 <=> Exporters(name, list) = {}
         /\ LookupGlobalAuto(name) # 0 =>
              \E k \in Exporters(name, list) :
                /\ \A j \in Exporters(name, list) : k <= j
                /\ LookupGlobalAuto(name) = Valued(list[k], name)
                /\ Valued(list[k], name) \in Nat \ {0}
<1> DEFINE Exports(m) == GetSymbolByName(m, name) # 0 /\ ~Chain[m][GetSymbolByName(m, name)].local
           I == {i \in 1 .. Len(list) : Exports(list[i])}
           first == IF I # {} THEN Min(I) ELSE 0
<1>1. LookupGlobalAuto(name) = IF first = 0 THEN 0 ELSE AddressIn(list[first], name)
  BY DEF LookupGlobalAuto, SelectInSeq
<1>2. Len(list) \in Nat /\ DOMAIN list = 1 .. Len(list) /\ \A k \in 1 .. Len(list) : list[k] \in Modules
  OBVIOUS
<1>3. ASSUME NEW m \in Modules
      PROVE  Exports(m) <=> \E s \in Range(Chain[m]) : s.name = name /\ s.defined /\ ~s.local
  <2> DEFINE g == GetSymbolByName(m, name)
  <2>1. DOMAIN Chain[m] = 1 .. Len(Chain[m])
    BY ChainType
  <2>2. ASSUME Exports(m) PROVE \E s \in Range(Chain[m]) : s.name = name /\ s.defined /\ ~s.local
    <3>1. g \in 1 .. Len(Chain[m]) /\ Chain[m][g].name = name /\ Chain[m][g].defined
      BY <2>2, SymbolFound
    <3> QED BY <2>1, <2>2, <3>1 DEF Range
  <2>3. ASSUME NEW s \in Range(Chain[m]), s.name = name, s.defined, ~s.local PROVE Exports(m)
    <3>1. Defines(m, name)
      BY <2>3 DEF Defines
    <3>2. g # 0 /\ g \in 1 .. Len(Chain[m]) /\ Chain[m][g].name = name
      BY <3>1, SymbolFound
    <3>3. PICK j \in 1 .. Len(Chain[m]) : s = Chain[m][j]
      BY <2>1 DEF Range
    <3>4. j = g
      BY <2>3, <3>2, <3>3, NamedOnce
    <3> QED BY <2>3, <3>2, <3>3, <3>4
  <2> QED BY <2>2, <2>3
<1>4. I = Exporters(name, list)
  BY <1>2, <1>3 DEF Exporters
<1>5. ASSUME I # {}
      PROVE  /\ first \in I /\ \A j \in I : first <= j
             /\ LookupGlobalAuto(name) = Valued(list[first], name)
             /\ Valued(list[first], name) \in Nat \ {0}
  <2>1. first \in I /\ \A j \in I : first <= j
    BY <1>2, <1>5, FirstIndex
  <2>2. first # 0 /\ list[first] \in Modules /\ Exports(list[first])
    <3>1. \A i \in I : i # 0 /\ list[i] \in Modules /\ Exports(list[i])
      BY <1>2
    <3> HIDE DEF I, Exports, first
    <3> QED BY <2>1, <3>1
  <2>3. AddressIn(list[first], name) = Valued(list[first], name)
    BY <2>2, SymbolFound
  <2>4. Valued(list[first], name) \in Nat \ {0}
    BY <2>2, SymbolFound
  <2> QED BY <1>1, <2>1, <2>2, <2>3, <2>4
<1> HIDE DEF I
<1>6. I = {} => LookupGlobalAuto(name) = 0
  BY <1>1
<1>7. LookupGlobalAuto(name) = 0 <=> I = {}
  BY <1>5, <1>6
<1>8. LookupGlobalAuto(name) # 0 =>
        \E k \in I : /\ \A j \in I : k <= j
                     /\ LookupGlobalAuto(name) = Valued(list[k], name)
                     /\ Valued(list[k], name) \in Nat \ {0}
  BY <1>5, <1>6
<1> QED BY <1>4, <1>7, <1>8

(* TryResolveSymbol finds the definition the modules have now, or fails if  *)
(* they have none.  Only a weak hidden symbol is at address 0.              *)
Finds(s, address) ==
  \/ address = Failed /\ Definition(s, Now) = {}
  \/ /\ address \in Nat /\ Definition(s, Now) = {address}
     /\ address = 0 => s.hidden

LEMMA ResolvesToDefinition ==
  ASSUME list \in Seq(Modules), manual \in BOOLEAN, NEW s \in Symbols
  PROVE  Finds(s, TryResolveSymbol(s))
<1> DEFINE address == TryResolveSymbol(s)
<1>1. CASE s.hidden
  <2>1. Self \in Modules
    BY RtldAssumption
  <2>2. GetSymbolByName(Self, s.name) # 0 <=> Defines(Self, s.name)
    BY <2>1, SymbolFound
  <2>3. CASE Defines(Self, s.name)
    <3>1. AddressIn(Self, s.name) = Valued(Self, s.name) /\ Valued(Self, s.name) \in Nat \ {0}
      BY <2>1, <2>2, <2>3, SymbolFound
    <3>2. address = Valued(Self, s.name)
      BY <1>1, <2>2, <2>3, <3>1 DEF TryResolveSymbol
    <3>3. Definition(s, Now) = {Valued(Self, s.name)}
      BY <1>1, <2>3 DEF Definition, Defines
    <3> QED BY <3>1, <3>2, <3>3 DEF Finds
  <2>4. CASE ~Defines(Self, s.name)
    <3>1. address = IF s.weak THEN 0 ELSE Failed
      BY <1>1, <2>2, <2>4 DEF TryResolveSymbol
    <3>2. Definition(s, Now) = IF s.weak THEN {0} ELSE {}
      BY <1>1, <2>4 DEF Definition, Defines
    <3> QED BY <1>1, <3>1, <3>2 DEF Finds
  <2> QED BY <2>3, <2>4
<1>2. CASE ~s.hidden
  <2> DEFINE ks == Exporters(s.name, list)
             auto == LookupGlobalAuto(s.name)
  <2>1. Now.list = list /\ Now.manual = manual
    BY DEF Now
  <2>2. Definition(s, Now) =
          IF ks # {} THEN {Valued(list[k], s.name) : k \in {k \in ks : \A j \in ks : k <= j}}
          ELSE {Manual[s.name] : x \in {x \in {s.name} : manual /\ Manual[x] # 0}}
    BY <1>2, <2>1 DEF Definition
  <2>3. auto = 0 <=> ks = {}
    BY ExportersFound
  <2>4. CASE ks # {}
    <3>1. PICK k \in ks : /\ \A j \in ks : k <= j
                          /\ auto = Valued(list[k], s.name)
                          /\ Valued(list[k], s.name) \in Nat \ {0}
      BY <2>3, <2>4, ExportersFound
    <3>2. ASSUME NEW l \in ks, \A j \in ks : l <= j PROVE l = k
      <4>1. k \in DOMAIN list /\ l \in DOMAIN list
        BY DEF Exporters
      <4>2. k \in Nat /\ l \in Nat
        BY <4>1
      <4> QED BY <3>1, <3>2, <4>2
    <3>3. {k1 \in ks : \A j \in ks : k1 <= j} = {k}
      BY <3>1, <3>2
    <3>4. Definition(s, Now) = {auto}
      BY <2>2, <2>4, <3>1, <3>3
    <3>5. address = auto
      BY <1>2, <3>1 DEF TryResolveSymbol
    <3> QED BY <3>1, <3>4, <3>5 DEF Finds
  <2>5. CASE ks = {}
    <3>1. auto = 0
      BY <2>3, <2>5
    <3>2. Manual[s.name] \in Nat
      BY RtldAssumption DEF Symbols
    <3>3. CASE manual /\ Manual[s.name] # 0
      <4>1. address = Manual[s.name]
        BY <1>2, <3>1, <3>3 DEF TryResolveSymbol
      <4>2. Definition(s, Now) = {Manual[s.name]}
        BY <2>2, <2>5, <3>3
      <4> QED BY <3>2, <3>3, <4>1, <4>2 DEF Finds
    <3>4. CASE ~(manual /\ Manual[s.name] # 0)
      <4>1. address = Failed
        BY <1>2, <3>1, <3>4 DEF TryResolveSymbol
      <4>2. Definition(s, Now) = {}
        BY <2>2, <2>5, <3>4
      <4> QED BY <4>1, <4>2 DEF Finds
    <3> QED BY <3>3, <3>4
  <2> QED BY <2>4, <2>5
<1> QED BY <1>1, <1>2

(* A module that joins does not take a definition away: what was defined    *)
(* when the module was linked is what a call may still arrive at.           *)
Extends(with) ==
  /\ with.list \in Seq(Modules) /\ list \in Seq(Modules)
  /\ Range(with.list) \subseteq Range(list)
  /\ with.manual = manual

Known(s) == UNION {Definition(s, with) : with \in Seen}

LEMMA KnownNow ==
  ASSUME NEW with, Extends(with), NEW s
  PROVE  Definition(s, with) \subseteq Known(s)
<1>1. [list |-> <<>>, manual |-> manual] \in Seen
  BY DEF Seen
<1>2. CASE s.hidden
  <2>1. Definition(s, with) = Definition(s, [list |-> <<>>, manual |-> manual])
    BY <1>2 DEF Definition
  <2> QED BY <1>1, <2>1 DEF Known
<1>3. CASE ~s.hidden /\ Exporters(s.name, with.list) = {}
  <2>1. Exporters(s.name, <<>>) = {}
    BY DEF Exporters
  <2>2. Definition(s, with) = Definition(s, [list |-> <<>>, manual |-> manual])
    BY <1>3, <2>1 DEF Definition, Extends
  <2> QED BY <1>1, <2>2 DEF Known
<1>4. CASE ~s.hidden /\ Exporters(s.name, with.list) # {}
  <2>1. ASSUME NEW x \in Definition(s, with) PROVE x \in Known(s)
    <3>1. PICK k \in Exporters(s.name, with.list) : x = Valued(with.list[k], s.name)
      BY <1>4 DEF Definition
    <3> DEFINE m == with.list[k]
               one == [list |-> <<m>>, manual |-> FALSE]
    <3>2. k \in DOMAIN with.list /\ \E y \in Range(Chain[m]) : y.name = s.name /\ y.defined /\ ~y.local
      BY DEF Exporters
    <3>3. m \in Range(list)
      BY <3>2 DEF Extends, Range
    <3>4. one \in Seen
      BY <3>3 DEF Seen
    <3>5. Exporters(s.name, <<m>>) = {1}
      BY <3>2 DEF Exporters
    <3>6. x \in Definition(s, one)
      <4>1. one.list = <<m>> /\ one.list[1] = m
        OBVIOUS
      <4>2. {l \in {1} : \A j \in {1} : l <= j} = {1}
        OBVIOUS
      <4> HIDE DEF one, m
      <4>3. Definition(s, one) = {Valued(one.list[l], s.name) : l \in {1}}
        BY <1>4, <3>5, <4>1, <4>2 DEF Definition
      <4>4. x = Valued(m, s.name)
        BY <3>1 DEF m
      <4> QED BY <4>1, <4>3, <4>4
    <3> QED BY <3>4, <3>6 DEF Known
  <2> QED BY <2>1
<1> QED BY <1>2, <1>3, <1>4

LEMMA StillDefined ==
  ASSUME NEW with, Extends(with), manual \in BOOLEAN, NEW s \in Symbols,
         Definition(s, Now) \subseteq {0}
  PROVE  Definition(s, with) \subseteq {0}
<1>1. Now.list = list /\ Now.manual = manual
  BY DEF Now
<1>2. CASE s.hidden
  BY <1>2 DEF Definition
<1>3. CASE ~s.hidden
  <2>1. TryResolveSymbol(s) = Failed /\ Definition(s, Now) = {}
    <3>1. Finds(s, TryResolveSymbol(s))
      BY ResolvesToDefinition DEF Extends
    <3> QED BY <1>3, <3>1 DEF Finds
  <2>2. Exporters(s.name, list) = {}
    <3>1. CASE LookupGlobalAuto(s.name) = 0
      BY <3>1, ExportersFound DEF Extends
    <3>2. CASE LookupGlobalAuto(s.name) # 0
      <4>1. LookupGlobalAuto(s.name) \in Nat \ {0}
        BY <3>2, ExportersFound DEF Extends
      <4>2. TryResolveSymbol(s) = LookupGlobalAuto(s.name)
        BY <1>3, <3>2 DEF TryResolveSymbol
      <4> QED BY <2>1, <4>1, <4>2 DEF Failed
    <3> QED BY <3>1, <3>2
  <2>3. Exporters(s.name, with.list) = {}
    <3> SUFFICES ASSUME NEW k \in Exporters(s.name, with.list) PROVE FALSE
      OBVIOUS
    <3>1. PICK j \in DOMAIN list : list[j] = with.list[k]
      BY DEF Extends, Range, Exporters
    <3>2. j \in Exporters(s.name, list)
      BY <3>1 DEF Exporters
    <3> QED BY <2>2, <3>2
  <2>4. Definition(s, with) = Definition(s, Now)
    BY <1>1, <1>3, <2>2, <2>3 DEF Definition, Extends
  <2> QED BY <2>1, <2>4
<1> QED BY <1>2, <1>3

-----------------------------------------------------------------------------
(* ModuleObject::Initialize: the object has the value of each tag's last    *)
(* entry.                                                                   *)

LastOf(dynamic, n, tag, default) ==
  LET I == {i \in 1 .. n : dynamic[i][1] = tag}
  IN  IF I = {} THEN default ELSE dynamic[Max(I)][2]

LEMMA LastOfNone ==
  ASSUME NEW dynamic, NEW tag, NEW default
  PROVE  LastOf(dynamic, 0, tag, default) = default
<1>1. {i \in 1 .. 0 : dynamic[i][1] = tag} = {}
  OBVIOUS
<1> QED BY <1>1 DEF LastOf

LEMMA LastOfNext ==
  ASSUME NEW dynamic, NEW n \in Nat, NEW tag, NEW default
  PROVE  LastOf(dynamic, n + 1, tag, default)
           = IF dynamic[n + 1][1] = tag THEN dynamic[n + 1][2] ELSE LastOf(dynamic, n, tag, default)
<1> DEFINE I(k) == {i \in 1 .. k : dynamic[i][1] = tag}
<1>1. CASE dynamic[n + 1][1] = tag
  <2>1. n + 1 \in I(n + 1) /\ I(n + 1) \subseteq 1 .. n + 1
    BY <1>1
  <2>2. Max(I(n + 1)) \in I(n + 1) /\ \A k \in I(n + 1) : Max(I(n + 1)) >= k
    BY <2>1, n + 1 \in Nat, LastIndex
  <2>3. Max(I(n + 1)) = n + 1
    BY <2>1, <2>2
  <2> QED BY <1>1, <2>1, <2>3 DEF LastOf
<1>2. CASE dynamic[n + 1][1] # tag
  <2>1. I(n + 1) = I(n)
    BY <1>2
  <2> QED BY <1>2, <2>1 DEF LastOf
<1> QED BY <1>1, <1>2

LEMMA ValueIsLast ==
  ASSUME NEW i, Len(i.dynamic) \in Nat, NEW tag, NEW default
  PROVE  ValueOf(i, tag, default) = LastOf(i.dynamic, Len(i.dynamic), tag, default)
<1> DEFINE I == {k \in 1 .. Len(i.dynamic) : i.dynamic[k][1] = tag}
<1>1. I # {} => Max(I) \in 1 .. Len(i.dynamic)
  BY LastIndex
<1> QED BY <1>1 DEF ValueOf, LastOf, SelectLastInSeq

(* The object o has what n entries say.                                     *)
HasRead(o, dynamic, n) ==
  /\ DOMAIN o = DOMAIN ZeroObject
  /\ o.isRela <=> LastOf(dynamic, n, "PLTREL", "REL") = "RELA"
  /\ o.pltSize = LastOf(dynamic, n, "PLTRELSZ", 0)
  /\ o.got = LastOf(dynamic, n, "PLTGOT", 0)
  /\ o.relaSize = LastOf(dynamic, n, "RELASZ", 0)
  /\ o.relSize = LastOf(dynamic, n, "RELSZ", 0)
  /\ o.relaCount = LastOf(dynamic, n, "RELACOUNT", 0)
  /\ o.relCount = LastOf(dynamic, n, "RELCOUNT", 0)

LEMMA HasReadNext ==
  ASSUME NEW o, NEW dynamic, NEW n \in Nat, HasRead(o, dynamic, n)
  PROVE  HasRead(ReadTag(o, dynamic[n + 1]), dynamic, n + 1)
<1> DEFINE d == dynamic[n + 1]
           next == ReadTag(o, d)
<1>1. \A tag, default : LastOf(dynamic, n + 1, tag, default)
                          = IF d[1] = tag THEN d[2] ELSE LastOf(dynamic, n, tag, default)
  BY LastOfNext
<1>2. DOMAIN o = {"isRela", "pltSize", "plt", "table", "got", "relaSize", "relSize",
                  "relCount", "relaCount", "stub"}
  BY DEF HasRead, ZeroObject
<1> HIDE DEF d
<1>3. DOMAIN next = DOMAIN o
  BY DEF ReadTag
<1>4. next.isRela <=> IF d[1] = "PLTREL" THEN d[2] = "RELA" ELSE o.isRela
  BY <1>2 DEF ReadTag
<1>5. next.pltSize = IF d[1] = "PLTRELSZ" THEN d[2] ELSE o.pltSize
  BY <1>2 DEF ReadTag
<1>6. next.got = IF d[1] = "PLTGOT" THEN d[2] ELSE o.got
  BY <1>2 DEF ReadTag
<1>7. next.relaSize = IF d[1] = "RELASZ" THEN d[2] ELSE o.relaSize
  BY <1>2 DEF ReadTag
<1>8. next.relSize = IF d[1] = "RELSZ" THEN d[2] ELSE o.relSize
  BY <1>2 DEF ReadTag
<1>9. next.relaCount = IF d[1] = "RELACOUNT" THEN d[2] ELSE o.relaCount
  BY <1>2 DEF ReadTag
<1>10. next.relCount = IF d[1] = "RELCOUNT" THEN d[2] ELSE o.relCount
  BY <1>2 DEF ReadTag
<1> HIDE DEF next
<1>11. HasRead(next, dynamic, n + 1)
  BY <1>1, <1>3, <1>4, <1>5, <1>6, <1>7, <1>8, <1>9, <1>10 DEF HasRead
<1> QED BY <1>11 DEF next, d

ReadObject(o, i) == HasRead(o, i.dynamic, Len(i.dynamic))

LEMMA InitializeReads ==
  ASSUME NEW i \in Images
  PROVE  ReadObject(FoldLeft(ReadTag, Reset(ZeroObject), i.dynamic), i)
<1> DEFINE d == i.dynamic
           start == Reset(ZeroObject)
<1>1. Tags!IsTable(d)
  <2>1. d \in Seq(Range(d))
    BY ImagesAssumption DEF Types
  <2> HIDE DEF d
  <2> QED BY <2>1 DEF Tags!IsTable
<1>2. PICK w : Tags!Walks(w, start, d) /\ w[Len(d)] = Tags!FoldLeft(ReadTag, start, d)
  BY <1>1, Tags!FoldLeftWalks, Zenon
<1>3. Tags!FoldLeft(ReadTag, start, d) = FoldLeft(ReadTag, start, d)
  BY DEF FoldLeft, MapThenFoldSet, Max, Tags!FoldLeft, Tags!MapThenFoldSet, Tags!Max
<1> DEFINE S == {n \in Nat : n <= Len(d) => HasRead(w[n], d, n)}
<1>4. 0 \in S
  <2>1. w[0] = start
    BY <1>2 DEF Tags!Walks
  <2>2. \A tag, default : LastOf(d, 0, tag, default) = default
    BY LastOfNone
  <2>3. HasRead(start, d, 0)
    BY <2>2 DEF HasRead, Reset, ZeroObject
  <2> QED BY <2>1, <2>3
<1>5. ASSUME NEW n \in Nat, n \in S PROVE n + 1 \in S
  <2> SUFFICES ASSUME n + 1 <= Len(d) PROVE HasRead(w[n + 1], d, n + 1)
    OBVIOUS
  <2>1. Len(d) \in Nat
    BY <1>1 DEF Tags!IsTable
  <2>2. HasRead(w[n], d, n)
    BY <1>5, <2>1
  <2>3. w[n + 1] = ReadTag(w[n], d[n + 1])
    <3>1. n + 1 \in 1 .. Len(d) /\ (n + 1) - 1 = n
      BY <2>1
    <3>2. w[n + 1] = ReadTag(w[(n + 1) - 1], d[n + 1])
      BY <1>2, <3>1 DEF Tags!Walks
    <3> QED BY <3>1, <3>2
  <2> QED BY <2>2, <2>3, HasReadNext
<1> HIDE DEF S
<1>6. Nat \subseteq S
  BY <1>4, <1>5, Tags!Counting
<1>7. HasRead(w[Len(d)], d, Len(d))
  BY <1>1, <1>6 DEF S, Tags!IsTable
<1> QED BY <1>2, <1>3, <1>7 DEF ReadObject

-----------------------------------------------------------------------------
(* The loops that change words.  Each word has one entry, so when the loop  *)
(* comes to it the word is still what it was.                               *)

(* m2 is m, but the words of the entries in A have their value.             *)
Written(m, m2, table, A, value) ==
  /\ m2 \in [DOMAIN m -> Int]
  /\ \A k \in A : m2[table[k].at] = value[k]
  /\ \A o \in DOMAIN m : (\A k \in A : table[k].at # o) => m2[o] = m[o]

(* A walk through n entries of the table, those after the first a.          *)
WritesOnce(walk, m, a, n, table, A, value) ==
  /\ a \in Nat /\ n \in Nat /\ m \in [DOMAIN m -> Int] /\ walk[0] = m
  /\ A \subseteq a + 1 .. a + n
  /\ \A k \in A : value[k] \in Int /\ table[k].at \in DOMAIN m
  /\ \A j, k \in A : table[j].at = table[k].at => j = k
  /\ \A k \in 1 .. n :
       IF a + k \in A
         THEN walk[k - 1] \in [DOMAIN m -> Int] /\ walk[k - 1][table[a + k].at] = m[table[a + k].at]
                => walk[k] = [walk[k - 1] EXCEPT ![table[a + k].at] = value[a + k]]
         ELSE walk[k] = walk[k - 1]

LEMMA WalkWrites ==
  ASSUME NEW walk, NEW m, NEW a, NEW n, NEW table, NEW A, NEW value,
         WritesOnce(walk, m, a, n, table, A, value)
  PROVE  Written(m, walk[n], table, A, value)
<1> DEFINE To(k) == A \cap (a + 1 .. a + k)
           S == {k \in Nat : k <= n => Written(m, walk[k], table, To(k), value)}
<1>0. a \in Nat /\ n \in Nat /\ A \subseteq a + 1 .. a + n
  BY DEF WritesOnce
<1>1. 0 \in S
  <2>1. To(0) = {}
    BY <1>0
  <2>2. m \in [DOMAIN m -> Int] /\ walk[0] = m
    BY DEF WritesOnce
  <2> QED BY <2>1, <2>2 DEF Written
<1>2. ASSUME NEW k \in Nat, k \in S PROVE k + 1 \in S
  <2> SUFFICES ASSUME k + 1 <= n PROVE Written(m, walk[k + 1], table, To(k + 1), value)
    OBVIOUS
  <2> DEFINE e == a + (k + 1)
             at0 == table[e].at
  <2>1. Written(m, walk[k], table, To(k), value)
    BY <1>0, <1>2
  <2>2. k + 1 \in 1 .. n /\ (k + 1) - 1 = k
    BY <1>0
  <2>3. CASE e \notin A
    <3>1. To(k + 1) = To(k)
      BY <1>0, <2>3
    <3>2. walk[k + 1] = walk[k]
      BY <2>2, <2>3 DEF WritesOnce
    <3> QED BY <2>1, <3>1, <3>2
  <2>4. CASE e \in A
    <3>1. To(k + 1) = To(k) \cup {e} /\ e \notin To(k) /\ To(k) \subseteq A
      BY <1>0, <2>4
    <3>2. at0 \in DOMAIN m /\ value[e] \in Int
      BY <2>4 DEF WritesOnce
    <3>3. \A j \in To(k) : table[j].at # at0
      BY <2>4, <3>1 DEF WritesOnce
    <3>4. walk[k] \in [DOMAIN m -> Int] /\ walk[k][at0] = m[at0]
      BY <2>1, <3>2, <3>3 DEF Written
    <3>5. walk[k + 1] = [walk[k] EXCEPT ![at0] = value[e]]
      BY <2>2, <2>4, <3>4 DEF WritesOnce
    <3> HIDE DEF at0, e, To
    <3>6. walk[k + 1] \in [DOMAIN m -> Int]
      BY <3>2, <3>4, <3>5
    <3>7. ASSUME NEW j \in To(k + 1) PROVE walk[k + 1][table[j].at] = value[j]
      <4>1. CASE j = e
        BY <3>2, <3>4, <3>5, <4>1 DEF at0
      <4>2. CASE j # e
        <5>1. j \in To(k)
          BY <3>1, <4>2
        <5>2. walk[k][table[j].at] = value[j]
          BY <2>1, <5>1 DEF Written
        <5>3. table[j].at \in DOMAIN m
          BY <3>1, <5>1 DEF WritesOnce
        <5> QED BY <3>3, <3>4, <3>5, <5>1, <5>2, <5>3
      <4> QED BY <4>1, <4>2
    <3>8. ASSUME NEW o \in DOMAIN m, \A j \in To(k + 1) : table[j].at # o
          PROVE  walk[k + 1][o] = m[o]
      <4>1. at0 # o /\ \A j \in To(k) : table[j].at # o
        BY <3>1, <3>8 DEF at0
      <4>2. walk[k][o] = m[o]
        BY <2>1, <4>1 DEF Written
      <4> QED BY <3>4, <3>5, <4>1, <4>2
    <3> QED BY <3>6, <3>7, <3>8 DEF Written
  <2> QED BY <2>3, <2>4
<1> HIDE DEF S
<1>3. Nat \subseteq S
  BY <1>1, <1>2, Tags!Counting
<1>4. To(n) = A
  BY <1>0
<1> QED BY <1>0, <1>3, <1>4 DEF S

(* What an image's assumption says, in the form the loops need.             *)
Words == [DOMAIN img.words -> Int]
TableSize == Len(img.table)

LEMMA TableOfImage ==
  ASSUME img \in Images
  PROVE  /\ img.table \in Seq(Entries) /\ TableSize \in Nat /\ DOMAIN img.table = 1 .. TableSize
         /\ \A k \in 1 .. TableSize : img.table[k] \in Entries /\ img.table[k].at \in DOMAIN img.words
         /\ \A j, k \in 1 .. TableSize : img.table[j].at = img.table[k].at => j = k
         /\ img.words \in Words
<1>1. img.table \in Seq(Entries)
  BY ImagesAssumption DEF Types
<1>2. TableSize \in Nat /\ DOMAIN img.table = 1 .. TableSize /\ \A k \in 1 .. TableSize : img.table[k] \in Entries
  BY <1>1 DEF TableSize
<1>3. Table(img)
  BY ImagesAssumption
<1>4. \A k \in 1 .. TableSize : img.table[k].at \in DOMAIN img.words
  BY <1>2, <1>3 DEF Table
<1>5. \A j, k \in 1 .. TableSize : img.table[j].at = img.table[k].at => j = k
  BY <1>2, <1>3 DEF Table
<1>6. img.words \in Seq(Int)
  BY ImagesAssumption DEF Types
<1>7. img.words \in Words
  BY <1>6 DEF Words
<1> QED BY <1>1, <1>2, <1>4, <1>5, <1>7

LEMMA PartOfTable ==
  ASSUME NEW table \in Seq(Entries), NEW a \in Nat, NEW b \in Nat, b <= Len(table), a <= b
  PROVE  /\ Tags!IsTable(SubSeq(table, a + 1, b))
         /\ Len(SubSeq(table, a + 1, b)) = b - a
         /\ \A k \in 1 .. b - a : SubSeq(table, a + 1, b)[k] = table[a + k]
<1>1. Len(SubSeq(table, a + 1, b)) = b - a
  OBVIOUS
<1>2. DOMAIN SubSeq(table, a + 1, b) = 1 .. b - a
  OBVIOUS
<1>3. ASSUME NEW k \in 1 .. b - a PROVE SubSeq(table, a + 1, b)[k] = table[a + k]
  OBVIOUS
<1> QED BY <1>1, <1>2, <1>3 DEF Tags!IsTable

Rels == INSTANCE TableWalk WITH Op <- RelRelative
Relas == INSTANCE TableWalk WITH Op <- RelaRelative

RelativeTo(n) == {k \in 1 .. n : img.table[k].type = "relative"}
RelValue(m) == [k \in 1 .. TableSize |-> Relocated(m[img.table[k].at])]
RelaValue == [k \in 1 .. TableSize |-> Relocated(img.table[k].addend)]

LEMMA RelocatedType ==
  ASSUME NEW offset \in Int
  PROVE  Relocated(offset) \in Int
  BY RtldAssumption DEF Relocated

(* ModuleObject::Relocate and exl_dynamic, REL: each relative word is        *)
(* relocated.                                                               *)
LEMMA RelLoop ==
  ASSUME img \in Images, NEW m \in Words, NEW n \in 0 .. TableSize
  PROVE  Written(m, FoldLeft(RelRelative, m, SubSeq(img.table, 1, n)), img.table, RelativeTo(n), RelValue(m))
<1> DEFINE T == SubSeq(img.table, 1, n)
<1>1. Rels!IsTable(T) /\ Len(T) = n /\ \A k \in 1 .. n : T[k] = img.table[k]
  <2>1. n \in Nat /\ n <= Len(img.table) /\ 0 <= n /\ img.table \in Seq(Entries)
    BY TableOfImage DEF TableSize
  <2>2. /\ Tags!IsTable(SubSeq(img.table, 0 + 1, n))
        /\ Len(SubSeq(img.table, 0 + 1, n)) = n - 0
        /\ \A k \in 1 .. n - 0 : SubSeq(img.table, 0 + 1, n)[k] = img.table[0 + k]
    BY <2>1, PartOfTable, 0 \in Nat
  <2> QED BY <2>1, <2>2 DEF Tags!IsTable, Rels!IsTable
<1>2. PICK w : Rels!Walks(w, m, T) /\ w[Len(T)] = Rels!FoldLeft(RelRelative, m, T)
  BY <1>1, Rels!FoldLeftWalks, Zenon
<1>3. Rels!FoldLeft(RelRelative, m, T) = FoldLeft(RelRelative, m, T)
  BY DEF FoldLeft, MapThenFoldSet, Max, Rels!FoldLeft, Rels!MapThenFoldSet, Rels!Max
<1> HIDE DEF T
<1>4. WritesOnce(w, m, 0, n, img.table, RelativeTo(n), RelValue(m))
  <2>1. n \in Nat /\ DOMAIN m = DOMAIN img.words /\ m \in [DOMAIN m -> Int]
    BY TableOfImage DEF Words
  <2>2. w[0] = m
    BY <1>2 DEF Rels!Walks
  <2>3. RelativeTo(n) \subseteq 1 .. n /\ RelativeTo(n) \subseteq 1 .. TableSize
    BY TableOfImage DEF RelativeTo
  <2>4. \A k \in 1 .. TableSize : RelValue(m)[k] = Relocated(m[img.table[k].at]) /\ RelValue(m)[k] \in Int
    BY <2>1, TableOfImage, RelocatedType DEF RelValue
  <2>5. ASSUME NEW k \in 1 .. n
        PROVE  IF k \in RelativeTo(n)
                 THEN w[k - 1] \in [DOMAIN m -> Int] /\ w[k - 1][img.table[k].at] = m[img.table[k].at]
                        => w[k] = [w[k - 1] EXCEPT ![img.table[k].at] = RelValue(m)[k]]
                 ELSE w[k] = w[k - 1]
    <3>1. w[k] = RelRelative(w[k - 1], img.table[k])
      BY <1>1, <1>2 DEF Rels!Walks
    <3>2. k \in RelativeTo(n) <=> img.table[k].type = "relative"
      BY DEF RelativeTo
    <3>3. CASE k \in RelativeTo(n)
      <4>1. RelValue(m)[k] = Relocated(m[img.table[k].at])
        BY <2>3, <2>4, <3>3
      <4> QED BY <3>1, <3>2, <3>3, <4>1 DEF RelRelative
    <3>4. CASE k \notin RelativeTo(n)
      BY <3>1, <3>2, <3>4 DEF RelRelative
    <3> QED BY <3>3, <3>4
  <2>6. \A k \in 1 .. n : 0 + k = k
    OBVIOUS
  <2>7. 0 + 1 = 1 /\ 0 + n = n
    BY <2>1
  <2> QED BY <2>1, <2>2, <2>3, <2>4, <2>5, <2>6, <2>7, TableOfImage, ZenonT(40) DEF WritesOnce
<1>5. Written(m, w[n], img.table, RelativeTo(n), RelValue(m))
  BY <1>4, WalkWrites
<1> QED BY <1>1, <1>2, <1>3, <1>5 DEF T

(* The same for RELA: the word becomes the relocated addend.                *)
LEMMA RelaLoop ==
  ASSUME img \in Images, NEW m \in Words, NEW n \in 0 .. TableSize
  PROVE  Written(m, FoldLeft(RelaRelative, m, SubSeq(img.table, 1, n)), img.table, RelativeTo(n), RelaValue)
<1> DEFINE T == SubSeq(img.table, 1, n)
<1>1. Relas!IsTable(T) /\ Len(T) = n /\ \A k \in 1 .. n : T[k] = img.table[k]
  <2>1. n \in Nat /\ n <= Len(img.table) /\ 0 <= n /\ img.table \in Seq(Entries)
    BY TableOfImage DEF TableSize
  <2>2. /\ Tags!IsTable(SubSeq(img.table, 0 + 1, n))
        /\ Len(SubSeq(img.table, 0 + 1, n)) = n - 0
        /\ \A k \in 1 .. n - 0 : SubSeq(img.table, 0 + 1, n)[k] = img.table[0 + k]
    BY <2>1, PartOfTable, 0 \in Nat
  <2> QED BY <2>1, <2>2 DEF Tags!IsTable, Relas!IsTable
<1>2. PICK w : Relas!Walks(w, m, T) /\ w[Len(T)] = Relas!FoldLeft(RelaRelative, m, T)
  BY <1>1, Relas!FoldLeftWalks, Zenon
<1>3. Relas!FoldLeft(RelaRelative, m, T) = FoldLeft(RelaRelative, m, T)
  BY DEF FoldLeft, MapThenFoldSet, Max, Relas!FoldLeft, Relas!MapThenFoldSet, Relas!Max
<1> HIDE DEF T
<1>4. WritesOnce(w, m, 0, n, img.table, RelativeTo(n), RelaValue)
  <2>1. n \in Nat /\ DOMAIN m = DOMAIN img.words /\ m \in [DOMAIN m -> Int]
    BY TableOfImage DEF Words
  <2>2. w[0] = m
    BY <1>2 DEF Relas!Walks
  <2>3. RelativeTo(n) \subseteq 1 .. n /\ RelativeTo(n) \subseteq 1 .. TableSize
    BY TableOfImage DEF RelativeTo
  <2>4. \A k \in 1 .. TableSize : RelaValue[k] = Relocated(img.table[k].addend) /\ RelaValue[k] \in Int
    <3>1. \A k \in 1 .. TableSize : img.table[k].addend \in Int
      BY TableOfImage DEF Entries
    <3> QED BY <3>1, RelocatedType DEF RelaValue
  <2>5. ASSUME NEW k \in 1 .. n
        PROVE  IF k \in RelativeTo(n)
                 THEN w[k - 1] \in [DOMAIN m -> Int] /\ w[k - 1][img.table[k].at] = m[img.table[k].at]
                        => w[k] = [w[k - 1] EXCEPT ![img.table[k].at] = RelaValue[k]]
                 ELSE w[k] = w[k - 1]
    <3>1. w[k] = RelaRelative(w[k - 1], img.table[k])
      BY <1>1, <1>2 DEF Relas!Walks
    <3>2. k \in RelativeTo(n) <=> img.table[k].type = "relative"
      BY DEF RelativeTo
    <3>3. CASE k \in RelativeTo(n)
      <4>1. RelaValue[k] = Relocated(img.table[k].addend)
        BY <2>3, <2>4, <3>3
      <4> QED BY <3>1, <3>2, <3>3, <4>1 DEF RelaRelative
    <3>4. CASE k \notin RelativeTo(n)
      BY <3>1, <3>2, <3>4 DEF RelaRelative
    <3> QED BY <3>3, <3>4
  <2>6. \A k \in 1 .. n : 0 + k = k
    OBVIOUS
  <2>7. 0 + 1 = 1 /\ 0 + n = n
    BY <2>1
  <2> QED BY <2>1, <2>2, <2>3, <2>4, <2>5, <2>6, <2>7, TableOfImage, ZenonT(40) DEF WritesOnce
<1>5. Written(m, w[n], img.table, RelativeTo(n), RelaValue)
  BY <1>4, WalkWrites
<1> QED BY <1>1, <1>2, <1>3, <1>5 DEF T

LEMMA NothingWritten ==
  ASSUME NEW m, m \in [DOMAIN m -> Int], NEW m2, NEW table, NEW value, Written(m, m2, table, {}, value)
  PROVE  m2 = m
  BY DEF Written

(* m has the relative words of the first n entries relocated and the others *)
(* as they are in the file.                                                 *)
Relocates(m, n) ==
  /\ m \in Words
  /\ \A k \in RelativeTo(n) : m[img.table[k].at] = Relocated(Addend(img.table[k]))
  /\ \A o \in DOMAIN img.words : (\A k \in RelativeTo(n) : img.table[k].at # o) => m[o] = img.words[o]

AllOf(form) == \A k \in 1 .. TableSize : img.table[k].form = form

LEMMA RelativesRel ==
  ASSUME img \in Images, NEW n \in 0 .. TableSize, AllOf("REL")
  PROVE  Relocates(Relatives(img.words, n, 0), n)
<1> DEFINE m == FoldLeft(RelRelative, img.words, SubSeq(img.table, 1, n))
           m2 == FoldLeft(RelaRelative, m, SubSeq(img.table, 1, 0))
<1>1. img.words \in Words /\ TableSize \in Nat
  BY TableOfImage
<1>2. Written(img.words, m, img.table, RelativeTo(n), RelValue(img.words))
  BY <1>1, RelLoop
<1> HIDE DEF m
<1>3. m \in Words
  BY <1>2 DEF Written, Words
<1>4. Written(m, m2, img.table, RelativeTo(0), RelaValue)
  BY <1>1, <1>3, RelaLoop, 0 \in 0 .. TableSize
<1> HIDE DEF m2
<1>5. m2 = m
  <2>1. RelativeTo(0) = {} /\ m \in [DOMAIN m -> Int]
    BY <1>3 DEF RelativeTo, Words
  <2> QED BY <1>4, <2>1, NothingWritten
<1>6. Relocates(m, n)
  <2>1. ASSUME NEW k \in RelativeTo(n) PROVE m[img.table[k].at] = Relocated(Addend(img.table[k]))
    <3>1. k \in 1 .. TableSize
      BY <1>1 DEF RelativeTo
    <3>2. m[img.table[k].at] = Relocated(img.words[img.table[k].at])
      BY <1>2, <3>1 DEF Written, RelValue
    <3>3. Addend(img.table[k]) = img.words[img.table[k].at]
      BY <3>1 DEF Addend, AllOf
    <3> QED BY <3>2, <3>3
  <2> QED BY <1>2, <1>3, <2>1 DEF Relocates, Written
<1> QED BY <1>5, <1>6 DEF Relatives, m, m2

LEMMA RelativesRela ==
  ASSUME img \in Images, NEW n \in 0 .. TableSize, AllOf("RELA")
  PROVE  Relocates(Relatives(img.words, 0, n), n)
<1> DEFINE m == FoldLeft(RelRelative, img.words, SubSeq(img.table, 1, 0))
           m2 == FoldLeft(RelaRelative, m, SubSeq(img.table, 1, n))
<1>1. img.words \in Words /\ TableSize \in Nat
  BY TableOfImage
<1>2. Written(img.words, m, img.table, RelativeTo(0), RelValue(img.words))
  BY <1>1, RelLoop, 0 \in 0 .. TableSize
<1> HIDE DEF m
<1>3. m = img.words
  <2>1. RelativeTo(0) = {} /\ img.words \in [DOMAIN img.words -> Int]
    BY <1>1 DEF RelativeTo, Words
  <2> QED BY <1>2, <2>1, NothingWritten
<1>4. Written(img.words, m2, img.table, RelativeTo(n), RelaValue)
  BY <1>1, <1>3, RelaLoop
<1> HIDE DEF m2
<1>5. Relocates(m2, n)
  <2>1. ASSUME NEW k \in RelativeTo(n) PROVE m2[img.table[k].at] = Relocated(Addend(img.table[k]))
    <3>1. k \in 1 .. TableSize
      BY <1>1 DEF RelativeTo
    <3>2. m2[img.table[k].at] = Relocated(img.table[k].addend)
      BY <1>4, <3>1 DEF Written, RelaValue
    <3>3. Addend(img.table[k]) = img.table[k].addend
      BY <3>1 DEF Addend, AllOf
    <3> QED BY <3>2, <3>3
  <2>2. m2 \in Words
    BY <1>4 DEF Written, Words
  <2> QED BY <1>4, <2>1, <2>2 DEF Relocates, Written
<1> QED BY <1>5 DEF Relatives, m, m2

(* The table's form decides which of the two loops has entries.             *)
LEMMA FormOfTable ==
  ASSUME img \in Images
  PROVE  \/ /\ AllOf("REL")
            /\ OwnTag("RELASZ", 0) = 0 /\ OwnTag("RELACOUNT", 0) = 0
            /\ OwnTag("RELSZ", 0) = TableSize * SizeofRel /\ OwnTag("RELCOUNT", 0) = Count(img)
         \/ /\ AllOf("RELA")
            /\ OwnTag("RELSZ", 0) = 0 /\ OwnTag("RELCOUNT", 0) = 0
            /\ OwnTag("RELASZ", 0) = TableSize * SizeofRela /\ OwnTag("RELACOUNT", 0) = Count(img)
<1>1. OneForm(img) /\ DOMAIN img.table = 1 .. TableSize
  BY ImagesAssumption, TableOfImage DEF Table
<1>2. \A tag : OwnTag(tag, 0) = Tag(img, tag)
  BY DEF OwnTag, Tag
<1>3. Tag(img, "RELCOUNT") \in Nat /\ Tag(img, "RELACOUNT") \in Nat
  BY ImagesAssumption DEF Types
<1>4. Tag(img, "RELACOUNT") = 0 => Tag(img, "RELCOUNT") = Count(img)
  BY <1>3 DEF Count
<1>5. Tag(img, "RELCOUNT") = 0 => Tag(img, "RELACOUNT") = Count(img)
  BY <1>3 DEF Count
<1> QED BY <1>1, <1>2, <1>4, <1>5 DEF OneForm, AllOf, TableSize

LEMMA CountType ==
  ASSUME img \in Images
  PROVE  /\ Count(img) \in 0 .. TableSize
         /\ Count(img) # 0 => \A k \in 1 .. TableSize : img.table[k].type = "relative" <=> k <= Count(img)
<1>1. Tag(img, "RELCOUNT") \in Nat /\ Tag(img, "RELACOUNT") \in Nat
  BY ImagesAssumption DEF Types
<1>2. Table(img)
  BY ImagesAssumption
<1>3. Count(img) \in Nat /\ Count(img) <= TableSize
  BY <1>1, <1>2 DEF Count, Table, TableSize
<1> QED BY <1>2, <1>3, TableOfImage DEF Table

-----------------------------------------------------------------------------
(* ModuleObject::ResolveSymbols: the words of symbols.                      *)

SymRels == INSTANCE TableWalk WITH Op <- ResolveSymbolRelAbsolute
SymRelas == INSTANCE TableWalk WITH Op <- ResolveSymbolRelaAbsolute

Resolves(s) == TryResolveSymbol(s) # Failed
ResolvedIn(a, b) ==
  {k \in a + 1 .. b : IsAbsolute(img.table[k]) /\ Resolves(img.table[k].sym)}
SymRelValue(m) ==
  [k \in 1 .. TableSize |-> m[img.table[k].at] + TryResolveSymbol(img.table[k].sym)]
SymRelaValue ==
  [k \in 1 .. TableSize |-> TryResolveSymbol(img.table[k].sym) + img.table[k].addend]

LEMMA ResolvesType ==
  ASSUME list \in Seq(Modules), manual \in BOOLEAN, NEW s \in Symbols
  PROVE  TryResolveSymbol(s) \in Int /\ (Resolves(s) => TryResolveSymbol(s) \in Nat)
<1>1. Finds(s, TryResolveSymbol(s))
  BY ResolvesToDefinition
<1> QED BY <1>1 DEF Finds, Failed, Resolves

LEMMA SymRelLoop ==
  ASSUME img \in Images, list \in Seq(Modules), manual \in BOOLEAN,
         NEW m \in Words, NEW b \in 0 .. TableSize, NEW a \in 0 .. b
  PROVE  Written(m, FoldLeft(ResolveSymbolRelAbsolute, m, SubSeq(img.table, a + 1, b)),
                 img.table, ResolvedIn(a, b), SymRelValue(m))
<1> DEFINE T == SubSeq(img.table, a + 1, b)
           n == b - a
<1>0. a \in Nat /\ TableSize \in Nat /\ n \in Nat /\ a + n = b /\ a <= b
      /\ b \in Nat /\ b <= TableSize
  BY TableOfImage
<1>1. SymRels!IsTable(T) /\ Len(T) = n /\ \A k \in 1 .. n : T[k] = img.table[a + k]
  <2>1. b <= Len(img.table)
    BY <1>0 DEF TableSize
  <2>2. Tags!IsTable(T) /\ Len(T) = n /\ \A k \in 1 .. n : T[k] = img.table[a + k]
    BY <1>0, <2>1, TableOfImage, PartOfTable
  <2> QED BY <2>2 DEF Tags!IsTable, SymRels!IsTable
<1>2. PICK w : SymRels!Walks(w, m, T) /\ w[Len(T)] = SymRels!FoldLeft(ResolveSymbolRelAbsolute, m, T)
  BY <1>1, SymRels!FoldLeftWalks, Zenon
<1>3. SymRels!FoldLeft(ResolveSymbolRelAbsolute, m, T) = FoldLeft(ResolveSymbolRelAbsolute, m, T)
  BY DEF FoldLeft, MapThenFoldSet, Max, SymRels!FoldLeft, SymRels!MapThenFoldSet, SymRels!Max
<1> HIDE DEF T, n
<1>4. WritesOnce(w, m, a, n, img.table, ResolvedIn(a, b), SymRelValue(m))
  <2>1. DOMAIN m = DOMAIN img.words /\ m \in [DOMAIN m -> Int]
    BY DEF Words
  <2>2. w[0] = m
    BY <1>2 DEF SymRels!Walks
  <2>3. ResolvedIn(a, b) \subseteq a + 1 .. a + n /\ ResolvedIn(a, b) \subseteq 1 .. TableSize
    BY <1>0 DEF ResolvedIn
  <2>4. \A k \in 1 .. TableSize :
          /\ SymRelValue(m)[k] = m[img.table[k].at] + TryResolveSymbol(img.table[k].sym)
          /\ SymRelValue(m)[k] \in Int
    <3>1. ASSUME NEW k \in 1 .. TableSize
          PROVE  m[img.table[k].at] \in Int /\ TryResolveSymbol(img.table[k].sym) \in Int
      <4>1. img.table[k] \in Entries /\ img.table[k].at \in DOMAIN m
        BY <2>1, TableOfImage
      <4>2. img.table[k].sym \in Symbols
        BY <4>1 DEF Entries
      <4> QED BY <2>1, <4>1, <4>2, ResolvesType
    <3> QED BY <3>1 DEF SymRelValue
  <2>5. ASSUME NEW k \in 1 .. n
        PROVE  IF a + k \in ResolvedIn(a, b)
                 THEN w[k - 1] \in [DOMAIN m -> Int] /\ w[k - 1][img.table[a + k].at] = m[img.table[a + k].at]
                        => w[k] = [w[k - 1] EXCEPT ![img.table[a + k].at] = SymRelValue(m)[a + k]]
                 ELSE w[k] = w[k - 1]
    <3> DEFINE e == img.table[a + k]
    <3>1. w[k] = ResolveSymbolRelAbsolute(w[k - 1], e)
      BY <1>1, <1>2 DEF SymRels!Walks
    <3>2. a + k \in a + 1 .. b /\ a + k \in 1 .. TableSize
      BY <1>0
    <3>3. a + k \in ResolvedIn(a, b) <=> IsAbsolute(e) /\ TryResolveSymbol(e.sym) # Failed
      BY <3>2 DEF ResolvedIn, Resolves
    <3> HIDE DEF e
    <3>4. CASE a + k \in ResolvedIn(a, b)
      <4>1. SymRelValue(m)[a + k] = m[e.at] + TryResolveSymbol(e.sym)
        BY <2>4, <3>2 DEF e
      <4>2. w[k] = [w[k - 1] EXCEPT ![e.at] = w[k - 1][e.at] + TryResolveSymbol(e.sym)]
        BY <3>1, <3>3, <3>4 DEF ResolveSymbolRelAbsolute
      <4> QED BY <3>4, <4>1, <4>2 DEF e
    <3>5. CASE a + k \notin ResolvedIn(a, b)
      BY <3>1, <3>3, <3>5 DEF ResolveSymbolRelAbsolute
    <3> QED BY <3>4, <3>5
  <2>6. \A k \in ResolvedIn(a, b) : SymRelValue(m)[k] \in Int /\ img.table[k].at \in DOMAIN m
    BY <2>1, <2>3, <2>4, TableOfImage
  <2>7. \A j, k \in ResolvedIn(a, b) : img.table[j].at = img.table[k].at => j = k
    BY <2>3, TableOfImage
  <2> QED BY <1>0, <2>1, <2>2, <2>3, <2>5, <2>6, <2>7 DEF WritesOnce
<1>5. Written(m, w[n], img.table, ResolvedIn(a, b), SymRelValue(m))
  BY <1>4, WalkWrites
<1> QED BY <1>1, <1>2, <1>3, <1>5 DEF T

LEMMA SymRelaLoop ==
  ASSUME img \in Images, list \in Seq(Modules), manual \in BOOLEAN,
         NEW m \in Words, NEW b \in 0 .. TableSize, NEW a \in 0 .. b
  PROVE  Written(m, FoldLeft(ResolveSymbolRelaAbsolute, m, SubSeq(img.table, a + 1, b)),
                 img.table, ResolvedIn(a, b), SymRelaValue)
<1> DEFINE T == SubSeq(img.table, a + 1, b)
           n == b - a
<1>0. a \in Nat /\ TableSize \in Nat /\ n \in Nat /\ a + n = b /\ a <= b
      /\ b \in Nat /\ b <= TableSize
  BY TableOfImage
<1>1. SymRelas!IsTable(T) /\ Len(T) = n /\ \A k \in 1 .. n : T[k] = img.table[a + k]
  <2>1. b <= Len(img.table)
    BY <1>0 DEF TableSize
  <2>2. Tags!IsTable(T) /\ Len(T) = n /\ \A k \in 1 .. n : T[k] = img.table[a + k]
    BY <1>0, <2>1, TableOfImage, PartOfTable
  <2> QED BY <2>2 DEF Tags!IsTable, SymRelas!IsTable
<1>2. PICK w : SymRelas!Walks(w, m, T) /\ w[Len(T)] = SymRelas!FoldLeft(ResolveSymbolRelaAbsolute, m, T)
  BY <1>1, SymRelas!FoldLeftWalks, Zenon
<1>3. SymRelas!FoldLeft(ResolveSymbolRelaAbsolute, m, T) = FoldLeft(ResolveSymbolRelaAbsolute, m, T)
  BY DEF FoldLeft, MapThenFoldSet, Max, SymRelas!FoldLeft, SymRelas!MapThenFoldSet, SymRelas!Max
<1> HIDE DEF T, n
<1>4. WritesOnce(w, m, a, n, img.table, ResolvedIn(a, b), SymRelaValue)
  <2>1. DOMAIN m = DOMAIN img.words /\ m \in [DOMAIN m -> Int]
    BY DEF Words
  <2>2. w[0] = m
    BY <1>2 DEF SymRelas!Walks
  <2>3. ResolvedIn(a, b) \subseteq a + 1 .. a + n /\ ResolvedIn(a, b) \subseteq 1 .. TableSize
    BY <1>0 DEF ResolvedIn
  <2>4. \A k \in 1 .. TableSize :
          /\ SymRelaValue[k] = TryResolveSymbol(img.table[k].sym) + img.table[k].addend
          /\ SymRelaValue[k] \in Int
    <3>1. ASSUME NEW k \in 1 .. TableSize
          PROVE  img.table[k].addend \in Int /\ TryResolveSymbol(img.table[k].sym) \in Int
      <4>1. img.table[k] \in Entries /\ img.table[k].at \in DOMAIN m
        BY <2>1, TableOfImage
      <4>2. img.table[k].sym \in Symbols /\ img.table[k].addend \in Int
        BY <4>1 DEF Entries
      <4> QED BY <2>1, <4>1, <4>2, ResolvesType
    <3> QED BY <3>1 DEF SymRelaValue
  <2>5. ASSUME NEW k \in 1 .. n
        PROVE  IF a + k \in ResolvedIn(a, b)
                 THEN w[k - 1] \in [DOMAIN m -> Int] /\ w[k - 1][img.table[a + k].at] = m[img.table[a + k].at]
                        => w[k] = [w[k - 1] EXCEPT ![img.table[a + k].at] = SymRelaValue[a + k]]
                 ELSE w[k] = w[k - 1]
    <3> DEFINE e == img.table[a + k]
    <3>1. w[k] = ResolveSymbolRelaAbsolute(w[k - 1], e)
      BY <1>1, <1>2 DEF SymRelas!Walks
    <3>2. a + k \in a + 1 .. b /\ a + k \in 1 .. TableSize
      BY <1>0
    <3>3. a + k \in ResolvedIn(a, b) <=> IsAbsolute(e) /\ TryResolveSymbol(e.sym) # Failed
      BY <3>2 DEF ResolvedIn, Resolves
    <3> HIDE DEF e
    <3>4. CASE a + k \in ResolvedIn(a, b)
      <4>1. SymRelaValue[a + k] = TryResolveSymbol(e.sym) + e.addend
        BY <2>4, <3>2 DEF e
      <4>2. w[k] = [w[k - 1] EXCEPT ![e.at] = TryResolveSymbol(e.sym) + e.addend]
        BY <3>1, <3>3, <3>4 DEF ResolveSymbolRelaAbsolute
      <4> QED BY <3>4, <4>1, <4>2 DEF e
    <3>5. CASE a + k \notin ResolvedIn(a, b)
      BY <3>1, <3>3, <3>5 DEF ResolveSymbolRelaAbsolute
    <3> QED BY <3>4, <3>5
  <2>6. \A k \in ResolvedIn(a, b) : SymRelaValue[k] \in Int /\ img.table[k].at \in DOMAIN m
    BY <2>1, <2>3, <2>4, TableOfImage
  <2>7. \A j, k \in ResolvedIn(a, b) : img.table[j].at = img.table[k].at => j = k
    BY <2>3, TableOfImage
  <2> QED BY <1>0, <2>1, <2>2, <2>3, <2>5, <2>6, <2>7 DEF WritesOnce
<1>5. Written(m, w[n], img.table, ResolvedIn(a, b), SymRelaValue)
  BY <1>4, WalkWrites
<1> QED BY <1>1, <1>2, <1>3, <1>5 DEF T

(* m has the relative words relocated, the others as their symbols say, and *)
(* nothing else is changed.                                                 *)
SymbolWord(e) ==
  IF Resolves(e.sym) THEN TryResolveSymbol(e.sym) + Addend(e) ELSE img.words[e.at]
TableDone(m) ==
  /\ m \in Words
  /\ \A k \in RelativeTo(Count(img)) : m[img.table[k].at] = Relocated(Addend(img.table[k]))
  /\ \A k \in 1 .. TableSize :
       IsAbsolute(img.table[k]) => m[img.table[k].at] = SymbolWord(img.table[k])
  /\ \A o \in DOMAIN img.words : (\A k \in 1 .. TableSize : img.table[k].at # o) => m[o] = img.words[o]

LEMMA SymbolsAfterRelatives ==
  ASSUME img \in Images, NEW m, Relocates(m, Count(img)), NEW m2, NEW value,
         Written(m, m2, img.table, ResolvedIn(Count(img), TableSize), value),
         \A k \in ResolvedIn(Count(img), TableSize) :
           m[img.table[k].at] = img.words[img.table[k].at] => value[k] = SymbolWord(img.table[k])
  PROVE  TableDone(m2)
<1> DEFINE a == Count(img)
           A == ResolvedIn(a, TableSize)
<1>1. a \in 0 .. TableSize /\ TableSize \in Nat /\ a \in Nat
  BY CountType, TableOfImage
<1>2. \A j, k \in 1 .. TableSize : img.table[j].at = img.table[k].at => j = k
  BY TableOfImage
<1>3. m \in Words /\ DOMAIN m = DOMAIN img.words
  BY DEF Relocates, Words
<1>4. m2 \in Words
  BY <1>3 DEF Written, Words
<1>5. A \subseteq a + 1 .. TableSize /\ A \subseteq 1 .. TableSize
  BY <1>1 DEF ResolvedIn
<1>6. RelativeTo(a) \subseteq 1 .. a /\ RelativeTo(a) \subseteq 1 .. TableSize
  BY <1>1 DEF RelativeTo
<1>7. ASSUME NEW k \in RelativeTo(a) PROVE m2[img.table[k].at] = Relocated(Addend(img.table[k]))
  <2>1. \A j \in A : j # k
    BY <1>1, <1>5, <1>6
  <2>2. \A j \in A : img.table[j].at # img.table[k].at
    BY <2>1, <1>2, <1>5, <1>6
  <2>3. img.table[k].at \in DOMAIN m
    BY <1>3, <1>6, TableOfImage
  <2>4. m2[img.table[k].at] = m[img.table[k].at]
    BY <2>2, <2>3 DEF Written
  <2> QED BY <2>4 DEF Relocates
<1>8. ASSUME NEW k \in 1 .. TableSize, IsAbsolute(img.table[k])
      PROVE  m2[img.table[k].at] = SymbolWord(img.table[k])
  <2> DEFINE e == img.table[k]
  <2>1. e.type # "relative"
    BY <1>8 DEF IsAbsolute
  <2>2. k \in a + 1 .. TableSize
    <3>1. CASE a = 0
      BY <3>1, <1>1
    <3>2. CASE a # 0
      <4>1. ~(k <= a)
        BY <2>1, <3>2, CountType
      <4> QED BY <4>1, <1>1
    <3> QED BY <3>1, <3>2
  <2>3. \A j \in RelativeTo(a) : img.table[j].at # e.at
    <3>1. \A j \in RelativeTo(a) : j # k
      BY <1>1, <1>6, <2>2
    <3> QED BY <3>1, <1>2, <1>6
  <2>4. e.at \in DOMAIN img.words
    BY TableOfImage
  <2>5. m[e.at] = img.words[e.at]
    BY <2>3, <2>4 DEF Relocates
  <2>6. CASE Resolves(e.sym)
    <3>1. k \in A
      BY <1>8, <2>2, <2>6 DEF ResolvedIn
    <3> QED BY <2>5, <3>1 DEF Written
  <2>7. CASE ~Resolves(e.sym)
    <3>1. \A j \in A : j # k
      BY <2>7 DEF ResolvedIn
    <3>2. \A j \in A : img.table[j].at # e.at
      BY <3>1, <1>2, <1>5
    <3>3. m2[e.at] = m[e.at]
      BY <3>2, <2>4, <1>3 DEF Written
    <3> QED BY <2>5, <2>7, <3>3 DEF SymbolWord
  <2> QED BY <2>6, <2>7
<1>9. ASSUME NEW o \in DOMAIN img.words, \A k \in 1 .. TableSize : img.table[k].at # o
      PROVE  m2[o] = img.words[o]
  <2>1. m2[o] = m[o]
    BY <1>3, <1>5, <1>9 DEF Written
  <2>2. m[o] = img.words[o]
    BY <1>6, <1>9 DEF Relocates
  <2> QED BY <2>1, <2>2
<1> HIDE DEF a, A
<1> QED BY <1>4, <1>7, <1>8, <1>9 DEF TableDone, a

(* Both loops, over the parts of the table that are not counted.            *)
Absolutes(m, nRel, rels, nRela, relas) ==
  FoldLeft(ResolveSymbolRelaAbsolute,
           FoldLeft(ResolveSymbolRelAbsolute, m, SubSeq(img.table, nRel + 1, rels)),
           SubSeq(img.table, nRela + 1, relas))

LEMMA AbsolutesRel ==
  ASSUME img \in Images, list \in Seq(Modules), manual \in BOOLEAN,
         AllOf("REL"), NEW m, Relocates(m, Count(img))
  PROVE  TableDone(Absolutes(m, Count(img), TableSize, 0, 0))
<1> DEFINE a == Count(img)
           m1 == FoldLeft(ResolveSymbolRelAbsolute, m, SubSeq(img.table, a + 1, TableSize))
           m2 == FoldLeft(ResolveSymbolRelaAbsolute, m1, SubSeq(img.table, 0 + 1, 0))
<1>1. a \in 0 .. TableSize /\ TableSize \in Nat /\ TableSize \in 0 .. TableSize /\ m \in Words
  BY CountType, TableOfImage DEF Relocates
<1>2. Written(m, m1, img.table, ResolvedIn(a, TableSize), SymRelValue(m))
  BY <1>1, SymRelLoop
<1> HIDE DEF m1
<1>3. m1 \in Words
  BY <1>1, <1>2 DEF Written, Words
<1>4. 0 \in 0 .. TableSize /\ 0 \in 0 .. 0
  BY <1>1
<1>5. Written(m1, m2, img.table, ResolvedIn(0, 0), SymRelaValue)
  BY <1>3, <1>4, SymRelaLoop
<1> HIDE DEF m2
<1>6. m2 = m1
  <2>1. ResolvedIn(0, 0) = {} /\ m1 \in [DOMAIN m1 -> Int]
    BY <1>3 DEF ResolvedIn, Words
  <2> QED BY <1>5, <2>1, NothingWritten
<1>7. ASSUME NEW k \in ResolvedIn(a, TableSize), m[img.table[k].at] = img.words[img.table[k].at]
      PROVE  SymRelValue(m)[k] = SymbolWord(img.table[k])
  <2>1. k \in 1 .. TableSize /\ Resolves(img.table[k].sym)
    BY <1>1 DEF ResolvedIn
  <2>2. SymRelValue(m)[k] = img.words[img.table[k].at] + TryResolveSymbol(img.table[k].sym)
    BY <1>7, <2>1 DEF SymRelValue
  <2>3. Addend(img.table[k]) = img.words[img.table[k].at]
    BY <2>1 DEF Addend, AllOf
  <2>4. img.words[img.table[k].at] \in Int /\ TryResolveSymbol(img.table[k].sym) \in Int
    <3>1. img.table[k].sym \in Symbols
      BY <2>1, TableOfImage DEF Entries
    <3> QED BY <2>1, <3>1, TableOfImage, ResolvesType DEF Words
  <2> QED BY <2>1, <2>2, <2>3, <2>4 DEF SymbolWord
<1>8. TableDone(m1)
  BY <1>2, <1>7, SymbolsAfterRelatives
<1> QED BY <1>6, <1>8 DEF Absolutes, m1, m2, a

LEMMA AbsolutesRela ==
  ASSUME img \in Images, list \in Seq(Modules), manual \in BOOLEAN,
         AllOf("RELA"), NEW m, Relocates(m, Count(img))
  PROVE  TableDone(Absolutes(m, 0, 0, Count(img), TableSize))
<1> DEFINE a == Count(img)
           m1 == FoldLeft(ResolveSymbolRelAbsolute, m, SubSeq(img.table, 0 + 1, 0))
           m2 == FoldLeft(ResolveSymbolRelaAbsolute, m1, SubSeq(img.table, a + 1, TableSize))
<1>1. a \in 0 .. TableSize /\ TableSize \in Nat /\ TableSize \in 0 .. TableSize /\ m \in Words
  BY CountType, TableOfImage DEF Relocates
<1>2. 0 \in 0 .. TableSize /\ 0 \in 0 .. 0
  BY <1>1
<1>3. Written(m, m1, img.table, ResolvedIn(0, 0), SymRelValue(m))
  BY <1>1, <1>2, SymRelLoop
<1> HIDE DEF m1
<1>4. m1 = m
  <2>1. ResolvedIn(0, 0) = {} /\ m \in [DOMAIN m -> Int]
    BY <1>1 DEF ResolvedIn, Words
  <2> QED BY <1>3, <2>1, NothingWritten
<1>5. Written(m, m2, img.table, ResolvedIn(a, TableSize), SymRelaValue)
  BY <1>1, <1>4, SymRelaLoop
<1> HIDE DEF m2
<1>6. ASSUME NEW k \in ResolvedIn(a, TableSize)
      PROVE  SymRelaValue[k] = SymbolWord(img.table[k])
  <2>1. k \in 1 .. TableSize /\ Resolves(img.table[k].sym)
    BY <1>1 DEF ResolvedIn
  <2>2. Addend(img.table[k]) = img.table[k].addend
    BY <2>1 DEF Addend, AllOf
  <2> QED BY <2>1, <2>2 DEF SymRelaValue, SymbolWord
<1>7. TableDone(m2)
  BY <1>5, <1>6, SymbolsAfterRelatives
<1> QED BY <1>7 DEF Absolutes, m1, m2, a

-----------------------------------------------------------------------------
(* ModuleObject::ResolveSymbols: the jump slots.                            *)

PltSize == Len(img.plt)
Got == Tag(img, "PLTGOT")

LEMMA PltOfImage ==
  ASSUME img \in Images
  PROVE  /\ img.plt \in Seq(Entries) /\ PltSize \in Nat /\ DOMAIN img.plt = 1 .. PltSize /\ Got \in Nat
         /\ \A k \in 1 .. PltSize :
              /\ img.plt[k] \in Entries /\ img.plt[k].type = "slot" /\ img.plt[k].addend \in Nat
              /\ Got # 0 /\ img.plt[k].at = Got + 2 + k
              /\ img.plt[k].at \in DOMAIN img.words /\ img.words[img.plt[k].at] \in Nat
         /\ \A j, k \in 1 .. PltSize : img.plt[j].at = img.plt[k].at => j = k
         /\ Got # 0 => \A k \in 1 .. TableSize : img.table[k].at \notin Got + 1 .. Got + 2 + PltSize
<1>1. img.plt \in Seq(Entries) /\ Got \in Nat
  BY ImagesAssumption DEF Types, Got
<1>2. PltSize \in Nat /\ DOMAIN img.plt = 1 .. PltSize /\ \A k \in 1 .. PltSize : img.plt[k] \in Entries
  BY <1>1 DEF PltSize
<1>3. LinkageTable(img)
  BY ImagesAssumption
<1>4. ASSUME NEW k \in 1 .. PltSize
      PROVE  /\ img.plt[k].type = "slot" /\ img.plt[k].addend \in Nat
             /\ Got # 0 /\ img.plt[k].at = Got + 2 + k
             /\ img.plt[k].at \in DOMAIN img.words /\ img.words[img.plt[k].at] \in Nat
  <2>1. /\ img.plt[k].type = "slot" /\ img.plt[k].addend >= 0
        /\ Got # 0 /\ img.plt[k].at = Got + 2 + k
        /\ img.plt[k].at \in DOMAIN img.words /\ img.words[img.plt[k].at] >= 0
    BY <1>2, <1>3 DEF LinkageTable, Got
  <2>2. img.plt[k].addend \in Int
    BY <1>2 DEF Entries
  <2>3. img.words[img.plt[k].at] \in Int
    BY <2>1, TableOfImage DEF Words
  <2> QED BY <2>1, <2>2, <2>3
<1>5. \A j, k \in 1 .. PltSize : img.plt[j].at = img.plt[k].at => j = k
  BY <1>1, <1>4
<1>6. Got # 0 => \A k \in 1 .. TableSize : img.table[k].at \notin Got + 1 .. Got + 2 + PltSize
  BY <1>3, TableOfImage DEF LinkageTable, Got, PltSize
<1> QED BY <1>1, <1>2, <1>4, <1>5, <1>6

Stub(e) == Relocated(img.words[e.at])
SlotWord(e, lazy) ==
  IF lazy \/ ~Resolves(e.sym) THEN Stub(e)
  ELSE IF object.isRela THEN TryResolveSymbol(e.sym) + e.addend
  ELSE img.words[e.at] + TryResolveSymbol(e.sym)
SlotWords(lazy) == [k \in 1 .. PltSize |-> SlotWord(img.plt[k], lazy)]

LEMMA SlotWordType ==
  ASSUME img \in Images, list \in Seq(Modules), manual \in BOOLEAN,
         NEW lazy \in BOOLEAN, NEW k \in 1 .. PltSize
  PROVE  /\ Stub(img.plt[k]) \in Nat \ {0}
         /\ SlotWord(img.plt[k], lazy) \in Nat
<1> DEFINE e == img.plt[k]
<1>1. e.sym \in Symbols /\ img.words[e.at] \in Nat /\ e.addend \in Nat
  BY PltOfImage DEF Entries
<1> HIDE DEF e
<1>2. Stub(e) \in Nat \ {0}
  BY <1>1, RtldAssumption DEF Stub, Relocated
<1>3. Resolves(e.sym) => TryResolveSymbol(e.sym) \in Nat
  BY <1>1, ResolvesType
<1>4. SlotWord(e, lazy) \in Nat
  BY <1>1, <1>2, <1>3 DEF SlotWord
<1> QED BY <1>2, <1>4 DEF e

(* A walk over the slots, with what the loop keeps of them.                 *)
WalksSlots(w, m, lazy) ==
  /\ w[0] = [mem |-> m, stub |-> object.stub, failed |-> FALSE]
  /\ \A k \in 1 .. PltSize : w[k] = ResolveJumpSlot(w[k - 1], img.plt[k], lazy)

LEMMA SlotsNotFailed ==
  ASSUME img \in Images, NEW w, NEW m, NEW lazy, WalksSlots(w, m, lazy), ~w[PltSize].failed
  PROVE  \A k \in 0 .. PltSize : ~w[k].failed
<1>1. PltSize \in Nat
  BY PltOfImage
<1> DEFINE S == {d \in Nat : d <= PltSize => ~w[PltSize - d].failed}
<1>2. 0 \in S
  BY <1>1
<1>3. ASSUME NEW d \in Nat, d \in S PROVE d + 1 \in S
  <2> SUFFICES ASSUME d + 1 <= PltSize, w[PltSize - (d + 1)].failed PROVE FALSE
    OBVIOUS
  <2> DEFINE k == PltSize - d
  <2>1. k \in 1 .. PltSize /\ k - 1 = PltSize - (d + 1)
    BY <1>1
  <2>2. w[k] = ResolveJumpSlot(w[k - 1], img.plt[k], lazy)
    BY <2>1 DEF WalksSlots
  <2>3. w[k] = w[k - 1]
    BY <2>1, <2>2 DEF ResolveJumpSlot
  <2>4. ~w[k].failed
    BY <1>1, <1>3
  <2> QED BY <2>1, <2>3, <2>4
<1> HIDE DEF S
<1>4. Nat \subseteq S
  BY <1>2, <1>3, Tags!Counting
<1>5. ASSUME NEW k \in 0 .. PltSize PROVE ~w[k].failed
  <2>1. PltSize - k \in Nat /\ PltSize - k <= PltSize /\ PltSize - (PltSize - k) = k
    BY <1>1
  <2> QED BY <1>4, <2>1 DEF S
<1> QED BY <1>5

SlotFields == {"mem", "stub", "failed"}
LEMMA SlotStep ==
  ASSUME NEW l, DOMAIN l = SlotFields, ~l.failed, NEW e, e.type = "slot", NEW lazy,
         ~ResolveJumpSlot(l, e, lazy).failed
  PROVE  /\ DOMAIN ResolveJumpSlot(l, e, lazy) = SlotFields
         /\ l.stub \in {0, Relocated(l.mem[e.at])}
         /\ ResolveJumpSlot(l, e, lazy).stub = Relocated(l.mem[e.at])
         /\ ResolveJumpSlot(l, e, lazy).mem =
              [l.mem EXCEPT ![e.at] =
                 IF lazy \/ ~Resolves(e.sym) THEN Relocated(l.mem[e.at])
                 ELSE IF object.isRela THEN TryResolveSymbol(e.sym) + e.addend
                 ELSE l.mem[e.at] + TryResolveSymbol(e.sym)]
  BY DEF ResolveJumpSlot, SlotFields, Resolves

LEMMA SlotFieldsKept ==
  ASSUME img \in Images, NEW w, NEW m, NEW lazy, WalksSlots(w, m, lazy), ~w[PltSize].failed
  PROVE  \A k \in 0 .. PltSize : DOMAIN w[k] = SlotFields
<1>1. PltSize \in Nat /\ \A k \in 0 .. PltSize : ~w[k].failed
  BY PltOfImage, SlotsNotFailed
<1> DEFINE S == {k \in Nat : k <= PltSize => DOMAIN w[k] = SlotFields}
<1>2. 0 \in S
  BY DEF WalksSlots, SlotFields
<1>3. ASSUME NEW k \in Nat, k \in S PROVE k + 1 \in S
  <2> SUFFICES ASSUME k + 1 <= PltSize PROVE DOMAIN w[k + 1] = SlotFields
    OBVIOUS
  <2>1. k + 1 \in 1 .. PltSize /\ (k + 1) - 1 = k /\ k \in 0 .. PltSize /\ k + 1 \in 0 .. PltSize
    BY <1>1
  <2>2. w[k + 1] = ResolveJumpSlot(w[k], img.plt[k + 1], lazy)
    BY <2>1 DEF WalksSlots
  <2>3. DOMAIN w[k] = SlotFields /\ ~w[k].failed /\ ~w[k + 1].failed /\ img.plt[k + 1].type = "slot"
    BY <1>1, <1>3, <2>1, PltOfImage
  <2>4. ~ResolveJumpSlot(w[k], img.plt[k + 1], lazy).failed
    BY <2>2, <2>3
  <2>5. DOMAIN ResolveJumpSlot(w[k], img.plt[k + 1], lazy) = SlotFields
    BY <2>3, <2>4, SlotStep
  <2> QED BY <2>2, <2>5
<1> HIDE DEF S
<1>4. Nat \subseteq S
  BY <1>2, <1>3, Tags!Counting
<1> QED BY <1>1, <1>4 DEF S

(* The walk writes each slot's word once, as SlotWord says of the file's.   *)
LEMMA SlotWalkWrites ==
  ASSUME img \in Images, list \in Seq(Modules), manual \in BOOLEAN,
         NEW w, NEW m \in Words, NEW lazy \in BOOLEAN,
         WalksSlots(w, m, lazy), ~w[PltSize].failed,
         \A k \in 1 .. PltSize : m[img.plt[k].at] = img.words[img.plt[k].at],
         NEW n \in 0 .. PltSize
  PROVE  Written(m, w[n].mem, img.plt, 1 .. n, SlotWords(lazy))
<1> DEFINE v == [k \in 0 .. n |-> w[k].mem]
<1>1. PltSize \in Nat /\ n \in Nat /\ n <= PltSize
  BY PltOfImage
<1>2. DOMAIN m = DOMAIN img.words /\ m \in [DOMAIN m -> Int]
  BY DEF Words
<1>3. v[0] = m
  BY <1>1 DEF WalksSlots
<1>4. \A k \in 1 .. n : SlotWords(lazy)[k] \in Int /\ img.plt[k].at \in DOMAIN m
  <2> SUFFICES ASSUME NEW k \in 1 .. n PROVE SlotWords(lazy)[k] \in Int /\ img.plt[k].at \in DOMAIN m
    OBVIOUS
  <2>1. k \in 1 .. PltSize
    BY <1>1
  <2>2. SlotWord(img.plt[k], lazy) \in Nat
    BY <2>1, SlotWordType
  <2> QED BY <1>2, <2>1, <2>2, PltOfImage DEF SlotWords
<1>5. \A j, k \in 1 .. n : img.plt[j].at = img.plt[k].at => j = k
  BY <1>1, PltOfImage
<1>6. ASSUME NEW k \in 1 .. n,
             v[k - 1] \in [DOMAIN m -> Int], v[k - 1][img.plt[k].at] = m[img.plt[k].at]
      PROVE  v[k] = [v[k - 1] EXCEPT ![img.plt[k].at] = SlotWords(lazy)[k]]
  <2> DEFINE e == img.plt[k]
             l == w[k - 1]
  <2>1. k \in 1 .. PltSize /\ k - 1 \in 0 .. PltSize /\ k \in 0 .. PltSize /\ k - 1 \in 0 .. n /\ k \in 0 .. n
    BY <1>1
  <2>2. w[k] = ResolveJumpSlot(l, e, lazy)
    BY <2>1 DEF WalksSlots
  <2>3. DOMAIN l = SlotFields /\ ~l.failed /\ ~w[k].failed
    BY <2>1, SlotsNotFailed, SlotFieldsKept
  <2>4. e.type = "slot"
    BY <2>1, PltOfImage
  <2>5. v[k - 1] = l.mem /\ v[k] = w[k].mem
    BY <2>1
  <2>6. l.mem[e.at] = img.words[e.at]
    BY <1>6, <2>1, <2>5
  <2> HIDE DEF v, l, e
  <2>7. ~ResolveJumpSlot(l, e, lazy).failed
    BY <2>2, <2>3
  <2>8. w[k].mem =
          [l.mem EXCEPT ![e.at] =
             IF lazy \/ ~Resolves(e.sym) THEN Relocated(l.mem[e.at])
             ELSE IF object.isRela THEN TryResolveSymbol(e.sym) + e.addend
             ELSE l.mem[e.at] + TryResolveSymbol(e.sym)]
    BY <2>2, <2>3, <2>4, <2>7, SlotStep
  <2>9. w[k].mem = [l.mem EXCEPT ![e.at] = SlotWord(e, lazy)]
    BY <2>6, <2>8 DEF SlotWord, Stub
  <2>10. SlotWords(lazy)[k] = SlotWord(e, lazy)
    BY <2>1 DEF SlotWords, e
  <2> QED BY <2>5, <2>9, <2>10 DEF e
<1> HIDE DEF v
<1>7. \A k \in 1 .. n : 0 + k = k /\ 0 + k \in 1 .. n
  OBVIOUS
<1>8. 0 + 1 = 1 /\ 0 + n = n /\ 0 \in Nat
  BY <1>1
<1>9. WritesOnce(v, m, 0, n, img.plt, 1 .. n, SlotWords(lazy))
  BY <1>1, <1>2, <1>3, <1>4, <1>5, <1>6, <1>7, <1>8, ZenonT(40) DEF WritesOnce
<1>10. Written(m, v[n], img.plt, 1 .. n, SlotWords(lazy))
  BY <1>9, WalkWrites
<1> QED BY <1>1, <1>10 DEF v

(* got_stub_ptr is the stub of every slot.                                  *)
LEMMA SlotWalkStub ==
  ASSUME img \in Images, list \in Seq(Modules), manual \in BOOLEAN,
         NEW w, NEW m \in Words, NEW lazy \in BOOLEAN,
         WalksSlots(w, m, lazy), ~w[PltSize].failed,
         \A k \in 1 .. PltSize : m[img.plt[k].at] = img.words[img.plt[k].at]
  PROVE  \A k \in 1 .. PltSize : w[PltSize].stub = Stub(img.plt[k])
<1> DEFINE S == {n \in Nat : n <= PltSize => \A k \in 1 .. n : w[n].stub = Stub(img.plt[k])}
<1>1. PltSize \in Nat
  BY PltOfImage
<1>2. 0 \in S
  OBVIOUS
<1>3. ASSUME NEW n \in Nat, n \in S PROVE n + 1 \in S
  <2> SUFFICES ASSUME n + 1 <= PltSize, NEW k \in 1 .. n + 1 PROVE w[n + 1].stub = Stub(img.plt[k])
    OBVIOUS
  <2> DEFINE e == img.plt[n + 1]
             l == w[n]
  <2>1. n + 1 \in 1 .. PltSize /\ (n + 1) - 1 = n /\ n \in 0 .. PltSize /\ n + 1 \in 0 .. PltSize
    BY <1>1
  <2>2. w[n + 1] = ResolveJumpSlot(l, e, lazy)
    BY <2>1 DEF WalksSlots
  <2>3. DOMAIN l = SlotFields /\ ~l.failed /\ ~w[n + 1].failed
    BY <2>1, SlotsNotFailed, SlotFieldsKept
  <2>4. e.type = "slot" /\ e.at \in DOMAIN img.words
    BY <2>1, PltOfImage
  <2>5. l.mem[e.at] = img.words[e.at]
    <3>1. Written(m, l.mem, img.plt, 1 .. n, SlotWords(lazy))
      BY <2>1, SlotWalkWrites
    <3>2. \A j \in 1 .. n : img.plt[j].at # e.at
      <4>1. \A j \in 1 .. n : j \in 1 .. PltSize /\ j # n + 1
        BY <1>1, <2>1
      <4> QED BY <2>1, <4>1, PltOfImage
    <3>3. e.at \in DOMAIN m
      BY <2>4 DEF Words
    <3>4. l.mem[e.at] = m[e.at]
      BY <3>1, <3>2, <3>3 DEF Written
    <3> QED BY <2>1, <3>4
  <2> HIDE DEF l, e
  <2>6. ~ResolveJumpSlot(l, e, lazy).failed
    BY <2>2, <2>3
  <2>7. l.stub \in {0, Stub(e)} /\ w[n + 1].stub = Stub(e)
    <3>1. e.type = "slot"
      BY <2>4
    <3>2. DOMAIN l = SlotFields /\ ~l.failed
      BY <2>3
    <3>3. l.stub \in {0, Relocated(l.mem[e.at])}
      BY <2>6, <3>1, <3>2, SlotStep
    <3>4. ResolveJumpSlot(l, e, lazy).stub = Relocated(l.mem[e.at])
      BY <2>6, <3>1, <3>2 DEF ResolveJumpSlot, SlotFields
    <3>5. Stub(e) = Relocated(l.mem[e.at])
      BY <2>5 DEF Stub
    <3> QED BY <2>2, <3>3, <3>4, <3>5
  <2>8. CASE k = n + 1
    BY <2>7, <2>8 DEF e
  <2>9. CASE k # n + 1
    <3>1. k \in 1 .. n /\ k \in 1 .. PltSize
      BY <1>1, <2>1, <2>9
    <3>2. l.stub = Stub(img.plt[k])
      BY <1>1, <1>3, <2>1, <3>1 DEF l
    <3>3. Stub(img.plt[k]) # 0
      BY <3>1, SlotWordType
    <3> QED BY <2>7, <3>2, <3>3
  <2> QED BY <2>8, <2>9
<1> HIDE DEF S
<1>4. Nat \subseteq S
  BY <1>2, <1>3, Tags!Counting
<1> QED BY <1>1, <1>4 DEF S

(* What the loop over the slots leaves: every slot has its word, the rest   *)
(* of the module is as before.                                              *)
SlotsDone(m, l, lazy) ==
  /\ Written(m, l.mem, img.plt, 1 .. PltSize, SlotWords(lazy))
  /\ \A k \in 1 .. PltSize : l.stub = Stub(img.plt[k])

LEMMA SlotWalkDone ==
  ASSUME img \in Images, list \in Seq(Modules), manual \in BOOLEAN,
         NEW w, NEW m \in Words, NEW lazy \in BOOLEAN,
         WalksSlots(w, m, lazy), ~w[PltSize].failed,
         \A k \in 1 .. PltSize : m[img.plt[k].at] = img.words[img.plt[k].at]
  PROVE  SlotsDone(m, w[PltSize], lazy)
<1>1. PltSize \in Nat /\ PltSize \in 0 .. PltSize
  BY PltOfImage
<1>2. Written(m, w[PltSize].mem, img.plt, 1 .. PltSize, SlotWords(lazy))
  BY <1>1, SlotWalkWrites
<1>3. \A k \in 1 .. PltSize : w[PltSize].stub = Stub(img.plt[k])
  BY SlotWalkStub
<1> QED BY <1>2, <1>3 DEF SlotsDone

LazySlot(l, e) == ResolveJumpSlot(l, e, TRUE)
EagerSlot(l, e) == ResolveJumpSlot(l, e, FALSE)
LazySlots == INSTANCE TableWalk WITH Op <- LazySlot
EagerSlots == INSTANCE TableWalk WITH Op <- EagerSlot

Unresolved(m) == [mem |-> m, stub |-> object.stub, failed |-> FALSE]

LEMMA LazySlotLoop ==
  ASSUME img \in Images, list \in Seq(Modules), manual \in BOOLEAN, NEW m \in Words,
         \A k \in 1 .. PltSize : m[img.plt[k].at] = img.words[img.plt[k].at],
         NEW l, l = FoldLeft(LazySlot, Unresolved(m), SubSeq(img.plt, 1, PltSize)), ~l.failed
  PROVE  SlotsDone(m, l, TRUE)
<1> DEFINE T == SubSeq(img.plt, 1, PltSize)
<1>1. LazySlots!IsTable(T) /\ Len(T) = PltSize /\ \A k \in 1 .. PltSize : T[k] = img.plt[k]
  <2>1. PltSize \in Nat /\ PltSize <= Len(img.plt) /\ 0 <= PltSize /\ img.plt \in Seq(Entries)
    BY PltOfImage DEF PltSize
  <2>2. /\ Tags!IsTable(SubSeq(img.plt, 0 + 1, PltSize))
        /\ Len(SubSeq(img.plt, 0 + 1, PltSize)) = PltSize - 0
        /\ \A k \in 1 .. PltSize - 0 : SubSeq(img.plt, 0 + 1, PltSize)[k] = img.plt[0 + k]
    BY <2>1, PartOfTable, 0 \in Nat
  <2> QED BY <2>1, <2>2 DEF Tags!IsTable, LazySlots!IsTable
<1>2. PICK w : LazySlots!Walks(w, Unresolved(m), T)
               /\ w[Len(T)] = LazySlots!FoldLeft(LazySlot, Unresolved(m), T)
  BY <1>1, LazySlots!FoldLeftWalks, Zenon
<1>3. LazySlots!FoldLeft(LazySlot, Unresolved(m), T) = FoldLeft(LazySlot, Unresolved(m), T)
  BY DEF FoldLeft, MapThenFoldSet, Max, LazySlots!FoldLeft, LazySlots!MapThenFoldSet, LazySlots!Max
<1>4. w[PltSize] = l
  BY <1>1, <1>2, <1>3
<1> HIDE DEF T
<1>5. WalksSlots(w, m, TRUE)
  BY <1>1, <1>2 DEF LazySlots!Walks, WalksSlots, LazySlot, Unresolved
<1>6. SlotsDone(m, w[PltSize], TRUE)
  BY <1>4, <1>5, SlotWalkDone, TRUE \in BOOLEAN
<1> QED BY <1>4, <1>6

LEMMA EagerSlotLoop ==
  ASSUME img \in Images, list \in Seq(Modules), manual \in BOOLEAN, NEW m \in Words,
         \A k \in 1 .. PltSize : m[img.plt[k].at] = img.words[img.plt[k].at],
         NEW l, l = FoldLeft(EagerSlot, Unresolved(m), SubSeq(img.plt, 1, PltSize)), ~l.failed
  PROVE  SlotsDone(m, l, FALSE)
<1> DEFINE T == SubSeq(img.plt, 1, PltSize)
<1>1. EagerSlots!IsTable(T) /\ Len(T) = PltSize /\ \A k \in 1 .. PltSize : T[k] = img.plt[k]
  <2>1. PltSize \in Nat /\ PltSize <= Len(img.plt) /\ 0 <= PltSize /\ img.plt \in Seq(Entries)
    BY PltOfImage DEF PltSize
  <2>2. /\ Tags!IsTable(SubSeq(img.plt, 0 + 1, PltSize))
        /\ Len(SubSeq(img.plt, 0 + 1, PltSize)) = PltSize - 0
        /\ \A k \in 1 .. PltSize - 0 : SubSeq(img.plt, 0 + 1, PltSize)[k] = img.plt[0 + k]
    BY <2>1, PartOfTable, 0 \in Nat
  <2> QED BY <2>1, <2>2 DEF Tags!IsTable, EagerSlots!IsTable
<1>2. PICK w : EagerSlots!Walks(w, Unresolved(m), T)
               /\ w[Len(T)] = EagerSlots!FoldLeft(EagerSlot, Unresolved(m), T)
  BY <1>1, EagerSlots!FoldLeftWalks, Zenon
<1>3. EagerSlots!FoldLeft(EagerSlot, Unresolved(m), T) = FoldLeft(EagerSlot, Unresolved(m), T)
  BY DEF FoldLeft, MapThenFoldSet, Max, EagerSlots!FoldLeft, EagerSlots!MapThenFoldSet, EagerSlots!Max
<1>4. w[PltSize] = l
  BY <1>1, <1>2, <1>3
<1> HIDE DEF T
<1>5. WalksSlots(w, m, FALSE)
  BY <1>1, <1>2 DEF EagerSlots!Walks, WalksSlots, EagerSlot, Unresolved
<1>6. SlotsDone(m, w[PltSize], FALSE)
  BY <1>4, <1>5, SlotWalkDone, FALSE \in BOOLEAN
<1> QED BY <1>4, <1>6

-----------------------------------------------------------------------------
(* ModuleObject::ResolveSymbols as a whole.                                 *)

LEMMA ReadFields ==
  ASSUME img \in Images, ReadObject(object, img)
  PROVE  /\ object.isRela <=> OwnTag("PLTREL", "REL") = "RELA"
         /\ object.pltSize = OwnTag("PLTRELSZ", 0)
         /\ object.got = Got
         /\ object.relaSize = OwnTag("RELASZ", 0)
         /\ object.relSize = OwnTag("RELSZ", 0)
         /\ object.relaCount = OwnTag("RELACOUNT", 0)
         /\ object.relCount = OwnTag("RELCOUNT", 0)
         /\ DOMAIN object = DOMAIN ZeroObject
<1>1. img.dynamic \in Seq(Range(img.dynamic))
  BY ImagesAssumption DEF Types
<1>2. Len(img.dynamic) \in Nat
  BY <1>1
<1>3. \A tag, default : OwnTag(tag, default) = LastOf(img.dynamic, Len(img.dynamic), tag, default)
  BY <1>2, ValueIsLast DEF OwnTag
<1>4. Got = OwnTag("PLTGOT", 0)
  BY DEF Got, Tag, OwnTag
<1> QED BY <1>3, <1>4 DEF ReadObject, HasRead

LEMMA EntriesOfPlt ==
  ASSUME img \in Images, ReadObject(object, img)
  PROVE  object.pltSize \div (IF object.isRela THEN SizeofRela ELSE SizeofRel) = PltSize
<1> DEFINE size == IF object.isRela THEN SizeofRela ELSE SizeofRel
<1>1. OwnTag("PLTRELSZ", 0) = PltSize * (IF OwnTag("PLTREL", "REL") = "RELA" THEN SizeofRela ELSE SizeofRel)
  BY ImagesAssumption DEF LinkageTable, OwnTag, Tag, PltSize
<1>2. object.pltSize = PltSize * size
  BY <1>1, ReadFields
<1>3. PltSize \in Nat
  BY PltOfImage
<1>4. CASE object.isRela
  <2>1. object.pltSize = PltSize * 24
    BY <1>2, <1>4 DEF SizeofRela
  <2>2. object.pltSize \div 24 = PltSize
    BY <1>3, <2>1
  <2> QED BY <1>4, <2>2 DEF SizeofRela
<1>5. CASE ~object.isRela
  <2>1. object.pltSize = PltSize * 16
    BY <1>2, <1>5 DEF SizeofRel
  <2>2. object.pltSize \div 16 = PltSize
    BY <1>3, <2>1
  <2> QED BY <1>5, <2>2 DEF SizeofRel
<1> QED BY <1>4, <1>5

LEMMA AbsolutesDone ==
  ASSUME img \in Images, list \in Seq(Modules), manual \in BOOLEAN,
         ReadObject(object, img), Relocates(mem, Count(img))
  PROVE  TableDone(Absolutes(mem, object.relCount, object.relSize \div SizeofRel,
                             object.relaCount, object.relaSize \div SizeofRela))
<1>1. TableSize \in Nat
  BY TableOfImage
<1>2. (TableSize * 16) \div 16 = TableSize /\ (TableSize * 24) \div 24 = TableSize
      /\ 0 \div 16 = 0 /\ 0 \div 24 = 0
  BY <1>1
<1>3. CASE /\ AllOf("REL")
           /\ OwnTag("RELASZ", 0) = 0 /\ OwnTag("RELACOUNT", 0) = 0
           /\ OwnTag("RELSZ", 0) = TableSize * SizeofRel /\ OwnTag("RELCOUNT", 0) = Count(img)
  <2>1. /\ object.relCount = Count(img) /\ object.relSize \div SizeofRel = TableSize
        /\ object.relaCount = 0 /\ object.relaSize \div SizeofRela = 0
    BY <1>2, <1>3, ReadFields DEF SizeofRel, SizeofRela
  <2>2. TableDone(Absolutes(mem, Count(img), TableSize, 0, 0))
    BY <1>3, AbsolutesRel
  <2> QED BY <2>1, <2>2
<1>4. CASE /\ AllOf("RELA")
           /\ OwnTag("RELSZ", 0) = 0 /\ OwnTag("RELCOUNT", 0) = 0
           /\ OwnTag("RELASZ", 0) = TableSize * SizeofRela /\ OwnTag("RELACOUNT", 0) = Count(img)
  <2>1. /\ object.relCount = 0 /\ object.relSize \div SizeofRel = 0
        /\ object.relaCount = Count(img) /\ object.relaSize \div SizeofRela = TableSize
    BY <1>2, <1>4, ReadFields DEF SizeofRel, SizeofRela
  <2>2. TableDone(Absolutes(mem, 0, 0, Count(img), TableSize))
    BY <1>4, AbsolutesRela
  <2> QED BY <2>1, <2>2
<1> QED BY <1>3, <1>4, FormOfTable

(* What linking leaves in memory.                                           *)
LinkedMemory(m, stub, lazy) ==
  /\ m \in Words
  /\ \A k \in RelativeTo(Count(img)) : m[img.table[k].at] = Relocated(Addend(img.table[k]))
  /\ \A k \in 1 .. TableSize :
       IsAbsolute(img.table[k]) => m[img.table[k].at] = SymbolWord(img.table[k])
  /\ \A k \in 1 .. PltSize :
       /\ m[img.plt[k].at] = SlotWord(img.plt[k], lazy)
       /\ m[Got + 2] = Resolver
       /\ stub = Stub(img.plt[k])

LEMMA LinkedMemoryDone ==
  ASSUME img \in Images, ReadObject(object, img), list \in Seq(Modules), manual \in BOOLEAN,
         NEW lazy \in BOOLEAN, NEW m, TableDone(m), NEW l, SlotsDone(m, l, lazy)
  PROVE  LinkedMemory(SetGot(l.mem), l.stub, lazy)
<1> DEFINE m2 == l.mem
           m3 == SetGot(m2)
<1>1. m \in Words /\ DOMAIN m = DOMAIN img.words
  BY DEF TableDone, Words
<1>2. m2 \in Words
  BY <1>1 DEF SlotsDone, Written, Words
<1>3. object.got = Got /\ Got \in Nat /\ PltSize \in Nat
  BY ReadFields, PltOfImage
<1>4. m3 \in Words
  <2> DEFINE a == object.got + 1
             b == object.got + 2
             once == [m2 EXCEPT ![a] = ObjectPtr]
  <2>1. ObjectPtr \in Int /\ Resolver \in Int
    BY DEF ObjectPtr, Resolver
  <2>2. m3 = IF object.got = 0 THEN m2 ELSE [once EXCEPT ![b] = Resolver]
    BY DEF SetGot
  <2> HIDE DEF a, b, m2, m3
  <2>3. once \in Words
    BY <1>2, <2>1 DEF Words
  <2> HIDE DEF once
  <2>4. [once EXCEPT ![b] = Resolver] \in Words
    BY <2>1, <2>3 DEF Words
  <2> QED BY <1>2, <2>2, <2>4
<1>5. \A o \in DOMAIN img.words : o \notin {Got + 1, Got + 2} \/ Got = 0 => m3[o] = m2[o]
  BY <1>2, <1>3 DEF SetGot, Words
<1> HIDE DEF m3
<1>6. ASSUME NEW k \in 1 .. TableSize PROVE m3[img.table[k].at] = m[img.table[k].at]
  <2> DEFINE o == img.table[k].at
  <2>1. o \in DOMAIN img.words
    BY TableOfImage
  <2>2. Got # 0 => o \notin Got + 1 .. Got + 2 + PltSize
    BY PltOfImage
  <2>3. \A j \in 1 .. PltSize : img.plt[j].at # o
    <3>1. \A j \in 1 .. PltSize : Got # 0 /\ img.plt[j].at = Got + 2 + j
      BY PltOfImage
    <3>2. \A j \in 1 .. PltSize : Got + 2 + j \in Got + 1 .. Got + 2 + PltSize
      BY <1>3
    <3> QED BY <2>2, <3>1, <3>2
  <2>4. m2[o] = m[o]
    BY <1>1, <2>1, <2>3 DEF SlotsDone, Written
  <2>5. o \notin {Got + 1, Got + 2} \/ Got = 0
    <3>1. Got + 1 \in Got + 1 .. Got + 2 + PltSize /\ Got + 2 \in Got + 1 .. Got + 2 + PltSize
      BY <1>3
    <3> QED BY <2>2, <3>1
  <2> QED BY <1>5, <2>1, <2>4, <2>5
<1>7. ASSUME NEW k \in 1 .. PltSize
      PROVE  /\ m3[img.plt[k].at] = SlotWord(img.plt[k], lazy)
             /\ m3[Got + 2] = Resolver
             /\ l.stub = Stub(img.plt[k])
  <2> DEFINE o == img.plt[k].at
  <2>1. o \in DOMAIN img.words /\ o = Got + 2 + k /\ Got # 0
    BY PltOfImage
  <2>2. m2[o] = SlotWord(img.plt[k], lazy)
    BY DEF SlotsDone, Written, SlotWords
  <2>3. o \notin {Got + 1, Got + 2}
    BY <1>3, <2>1
  <2>4. m3[o] = m2[o]
    BY <1>5, <2>1, <2>3
  <2>5. Got + 2 \in DOMAIN img.words /\ Got + 1 # Got + 2
    <3>1. img.words \in Seq(Int)
      BY ImagesAssumption DEF Types
    <3>2. DOMAIN img.words = 1 .. Len(img.words) /\ Len(img.words) \in Nat
      BY <3>1
    <3> QED BY <1>3, <2>1, <3>2
  <2>6. m3[Got + 2] = Resolver
    BY <1>2, <1>3, <2>1, <2>5 DEF m3, SetGot, Words
  <2>7. l.stub = Stub(img.plt[k])
    BY DEF SlotsDone
  <2> QED BY <2>2, <2>4, <2>6, <2>7
<1>8. \A k \in RelativeTo(Count(img)) : k \in 1 .. TableSize
  BY CountType, TableOfImage DEF RelativeTo
<1>9. \A k \in RelativeTo(Count(img)) : m3[img.table[k].at] = Relocated(Addend(img.table[k]))
  BY <1>6, <1>8 DEF TableDone
<1>10. \A k \in 1 .. TableSize :
         IsAbsolute(img.table[k]) => m3[img.table[k].at] = SymbolWord(img.table[k])
  BY <1>6 DEF TableDone
<1>11. LinkedMemory(m3, l.stub, lazy)
  BY <1>4, <1>7, <1>9, <1>10 DEF LinkedMemory
<1> QED BY <1>11 DEF m3

LEMMA ResolveSymbolsLinks ==
  ASSUME img \in Images, list \in Seq(Modules), manual \in BOOLEAN,
         ReadObject(object, img), Relocates(mem, Count(img)),
         NEW lazy \in BOOLEAN, ResolveSymbols(lazy), phase' = "linked"
  PROVE  /\ LinkedMemory(mem', object'.stub, lazy)
         /\ object' = [object EXCEPT !.stub = object'.stub]
         /\ linkedWith' = Now
<1> DEFINE m == Absolutes(mem, object.relCount, object.relSize \div SizeofRel,
                          object.relaCount, object.relaSize \div SizeofRela)
           Slot(l, e) == ResolveJumpSlot(l, e, lazy)
           l == FoldLeft(Slot, Unresolved(m), SubSeq(img.plt, 1, PltSize))
<1>1. TableDone(m)
  BY AbsolutesDone
<1>2. /\ ~l.failed
      /\ mem' = SetGot(l.mem) /\ object' = [object EXCEPT !.stub = l.stub]
      /\ linkedWith' = [list |-> list, manual |-> manual]
  BY EntriesOfPlt DEF ResolveSymbols, Absolutes, Unresolved
<1> HIDE DEF m
<1>3. m \in Words
  BY <1>1 DEF TableDone
<1>4. \A k \in 1 .. PltSize : m[img.plt[k].at] = img.words[img.plt[k].at]
  <2> SUFFICES ASSUME NEW k \in 1 .. PltSize PROVE m[img.plt[k].at] = img.words[img.plt[k].at]
    OBVIOUS
  <2>1. img.plt[k].at \in DOMAIN img.words /\ img.plt[k].at = Got + 2 + k /\ Got # 0
        /\ Got \in Nat /\ PltSize \in Nat
    BY PltOfImage
  <2>2. img.plt[k].at \in Got + 1 .. Got + 2 + PltSize
    BY <2>1
  <2>3. \A j \in 1 .. TableSize : img.table[j].at # img.plt[k].at
    BY <2>1, <2>2, PltOfImage
  <2> QED BY <1>1, <2>1, <2>3 DEF TableDone
<1>5. SlotsDone(m, l, lazy)
  <2>1. CASE lazy = TRUE
    <3>1. l = FoldLeft(LazySlot, Unresolved(m), SubSeq(img.plt, 1, PltSize))
      BY <2>1 DEF LazySlot, FoldLeft, MapThenFoldSet
    <3> HIDE DEF l
    <3> QED BY <1>2, <1>3, <1>4, <2>1, <3>1, LazySlotLoop
  <2>2. CASE lazy = FALSE
    <3>1. l = FoldLeft(EagerSlot, Unresolved(m), SubSeq(img.plt, 1, PltSize))
      BY <2>2 DEF EagerSlot, FoldLeft, MapThenFoldSet
    <3> HIDE DEF l
    <3> QED BY <1>2, <1>3, <1>4, <2>2, <3>1, EagerSlotLoop
  <2> QED BY <2>1, <2>2
<1> HIDE DEF l
<1>6. LinkedMemory(SetGot(l.mem), l.stub, lazy)
  BY <1>1, <1>5, LinkedMemoryDone
<1>7. object'.stub = l.stub
  <2>1. "stub" \in DOMAIN object
    BY ReadFields DEF ZeroObject
  <2> QED BY <1>2, <2>1
<1> QED BY <1>2, <1>6, <1>7 DEF Now

-----------------------------------------------------------------------------
(* The inductive invariant.  A slot has its stub's address, or one at which *)
(* a call arrives.  A slot bound without laziness in the REL form has a     *)
(* word of its own kind (BoundTwice), and keeps it as long as no thread is  *)
(* on its way from the stub: a thread that is stores a definition instead.  *)

Addition(e) == IF object.isRela THEN e.addend ELSE 0
Reaches(e, x) ==
  IF x = 0 THEN Definition(e.sym, linkedWith) \subseteq {0} ELSE x - Addition(e) \in Known(e.sym)
Binding(slot) == \E t \in Threads : pc[t] \in {"bind", "store"} /\ at[t] = slot
Twice(e) == BoundTwice(e) /\ ~Binding(e.at)
Arrives(e, x) == Reaches(e, x) \/ (x # 0 /\ Twice(e))

Typed ==
  /\ img \in Images
  /\ list \in Seq(Modules) /\ manual \in BOOLEAN
  /\ pc \in [Threads -> {"idle", "bind", "store", "landed"}]
  /\ at \in [Threads -> Int] /\ found \in [Threads -> Int]

(* What is in memory before the module is linked.                           *)
RelativesDone(n) ==
  \A k \in RelativeTo(n) : mem[img.table[k].at] = Relocated(Addend(img.table[k]))
Loaded ==
  /\ phase \in {"mapped", "initialized"} => mem = img.words
  /\ phase = "mapped" => object = ZeroObject
  /\ phase \in {"initialized", "relocated", "linked"} => ReadObject(object, img)
  /\ phase = "relocated" => Relocates(mem, Count(img))
  /\ phase = "own" => RelativesDone(TableSize)

(* And after.                                                               *)
WordLinked(e) ==
  LET ds == Definition(e.sym, linkedWith)
  IN  IF ds = {} THEN mem[e.at] = img.words[e.at] ELSE mem[e.at] - Addend(e) \in ds
TableLinked ==
  /\ RelativesDone(Count(img))
  /\ \A k \in 1 .. TableSize : IsAbsolute(img.table[k]) => WordLinked(img.table[k])
SlotLinked(e) ==
  /\ object.stub = Stub(e)
  /\ mem[Got + 2] = Resolver
  /\ mem[e.at] = object.stub \/ Arrives(e, mem[e.at])
Linked ==
  /\ Extends(linkedWith) /\ mem \in Words
  /\ TableLinked
  /\ \A k \in 1 .. PltSize : SlotLinked(img.plt[k])

Binds(t, k) == at[t] = img.plt[k].at
Stores(t, k) == at[t] = img.plt[k].at /\ Reaches(img.plt[k], found[t])
Lands(t, k) == found[t] = img.plt[k].at /\ Arrives(img.plt[k], at[t])
Calling(t) ==
  /\ pc[t] = "bind" => \E k \in 1 .. PltSize : Binds(t, k)
  /\ pc[t] = "store" => \E k \in 1 .. PltSize : Stores(t, k)
  /\ pc[t] = "landed" => \E k \in 1 .. PltSize : Lands(t, k)

NobodyCalls == \A t \in Threads : pc[t] = "idle"
IInv ==
  /\ Typed /\ Loaded
  /\ phase = "linked" => Linked /\ \A t \in Threads : Calling(t)
  /\ phase # "linked" => NobodyCalls

LEMMA InitIInv == Init => IInv
<1> SUFFICES ASSUME Init PROVE IInv
  OBVIOUS
<1>1. list \in Seq(Modules)
  <2>1. <<>> \in Seq(Modules) /\ \A m \in Modules : <<m>> \in Seq(Modules)
    OBVIOUS
  <2> QED BY <2>1, RtldAssumption DEF Init
<1>2. Typed
  BY <1>1 DEF Init, Typed
<1>3. Loaded
  BY DEF Init, Loaded
<1> QED BY <1>2, <1>3 DEF Init, IInv, NobodyCalls

(* A step that leaves threads and the list alone keeps the types.           *)
LEMMA TypedKept == Typed /\ UNCHANGED <<img, list, manual, callVars>> => Typed'
  BY DEF Typed, callVars

LEMMA InitializeKeeps == IInv /\ Initialize => IInv'
<1> SUFFICES ASSUME IInv, Initialize PROVE IInv'
  OBVIOUS
<1>1. Typed' /\ img \in Images
  BY TypedKept DEF IInv, Initialize, Typed
<1>2. mem = img.words /\ object = ZeroObject /\ NobodyCalls
  BY DEF IInv, Loaded, Initialize
<1>3. phase' = "initialized" => ReadObject(object', img)
  BY <1>1, <1>2, InitializeReads DEF Initialize
<1>4. Loaded'
  BY <1>2, <1>3 DEF Loaded, Initialize, ReadObject
<1>5. NobodyCalls' /\ phase' # "linked"
  BY <1>2 DEF NobodyCalls, Initialize, callVars
<1> QED BY <1>1, <1>4, <1>5 DEF IInv

LEMMA RelocateKeeps == IInv /\ Relocate => IInv'
<1> SUFFICES ASSUME IInv, Relocate PROVE IInv'
  OBVIOUS
<1>1. Typed' /\ img \in Images
  BY TypedKept DEF IInv, Relocate, Typed
<1>2. mem = img.words /\ ReadObject(object, img) /\ NobodyCalls
  BY DEF IInv, Loaded, Relocate
<1>3. Relocates(Relatives(img.words, object.relCount, object.relaCount), Count(img))
  <2>1. CASE AllOf("REL") /\ OwnTag("RELACOUNT", 0) = 0 /\ OwnTag("RELCOUNT", 0) = Count(img)
    BY <1>1, <1>2, <2>1, ReadFields, RelativesRel, CountType
  <2>2. CASE AllOf("RELA") /\ OwnTag("RELCOUNT", 0) = 0 /\ OwnTag("RELACOUNT", 0) = Count(img)
    BY <1>1, <1>2, <2>2, ReadFields, RelativesRela, CountType
  <2> QED BY <1>1, <2>1, <2>2, FormOfTable
<1>4. Relocates(mem', Count(img))
  BY <1>2, <1>3 DEF Relocate
<1>5. Relocates(mem, Count(img))'
  BY <1>4 DEF Relocate, Relocates, RelativeTo, Words, Addend, Count, Tag
<1>6. Loaded'
  BY <1>2, <1>5 DEF Loaded, Relocate, ReadObject
<1>7. NobodyCalls' /\ phase' # "linked"
  BY <1>2 DEF NobodyCalls, Relocate, callVars
<1> QED BY <1>1, <1>6, <1>7 DEF IInv

LEMMA OwnCounts ==
  ASSUME img \in Images
  PROVE  \/ /\ AllOf("REL")
            /\ OwnCount("RELACOUNT", "RELASZ", "RELAENT", SizeofRela) = 0
            /\ OwnCount("RELCOUNT", "RELSZ", "RELENT", SizeofRel)
                 = IF Count(img) # 0 THEN Count(img) ELSE TableSize
         \/ /\ AllOf("RELA")
            /\ OwnCount("RELCOUNT", "RELSZ", "RELENT", SizeofRel) = 0
            /\ OwnCount("RELACOUNT", "RELASZ", "RELAENT", SizeofRela)
                 = IF Count(img) # 0 THEN Count(img) ELSE TableSize
<1>1. TableSize \in Nat
  BY TableOfImage
<1>2. (TableSize * 16) \div 16 = TableSize /\ (TableSize * 24) \div 24 = TableSize
      /\ 0 \div 16 = 0 /\ 0 \div 24 = 0
  BY <1>1
<1>3. OwnTag("RELENT", SizeofRel) = 16 /\ OwnTag("RELAENT", SizeofRela) = 24
  BY ImagesAssumption DEF Types, OwnTag, SizeofRel, SizeofRela
<1>4. SizeofRel = 16 /\ SizeofRela = 24
  BY DEF SizeofRel, SizeofRela
<1> QED BY <1>2, <1>3, <1>4, FormOfTable DEF OwnCount

LEMMA OwnDynamicKeeps == IInv /\ OwnDynamic => IInv'
<1> SUFFICES ASSUME IInv, OwnDynamic PROVE IInv'
  OBVIOUS
<1>1. Typed' /\ img \in Images
  BY TypedKept DEF IInv, OwnDynamic, Typed
<1>2. mem = img.words /\ NobodyCalls
  BY DEF IInv, Loaded, OwnDynamic
<1> DEFINE n == IF Count(img) # 0 THEN Count(img) ELSE TableSize
<1>3. n \in 0 .. TableSize /\ TableSize \in Nat
  BY <1>1, CountType, TableOfImage
<1>4. RelativeTo(n) = RelativeTo(TableSize)
  <2>1. CASE Count(img) # 0
    BY <1>1, <1>3, <2>1, CountType DEF RelativeTo
  <2> QED BY <2>1
<1> HIDE DEF n
<1>5. Relocates(mem', n)
  <2>1. CASE /\ AllOf("REL")
             /\ OwnCount("RELACOUNT", "RELASZ", "RELAENT", SizeofRela) = 0
             /\ OwnCount("RELCOUNT", "RELSZ", "RELENT", SizeofRel) = n
    <3>1. Relocates(Relatives(img.words, n, 0), n)
      BY <1>1, <1>3, <2>1, RelativesRel
    <3> QED BY <1>2, <2>1, <3>1 DEF OwnDynamic
  <2>2. CASE /\ AllOf("RELA")
             /\ OwnCount("RELCOUNT", "RELSZ", "RELENT", SizeofRel) = 0
             /\ OwnCount("RELACOUNT", "RELASZ", "RELAENT", SizeofRela) = n
    <3>1. Relocates(Relatives(img.words, 0, n), n)
      BY <1>1, <1>3, <2>2, RelativesRela
    <3> QED BY <1>2, <2>2, <3>1 DEF OwnDynamic
  <2> QED BY <1>1, <2>1, <2>2, OwnCounts DEF n
<1>6. \A k \in RelativeTo(TableSize) : mem'[img.table[k].at] = Relocated(Addend(img.table[k]))
  BY <1>4, <1>5 DEF Relocates
<1>7. RelativesDone(TableSize)'
  BY <1>6 DEF OwnDynamic, RelativesDone, RelativeTo, Addend, TableSize
<1>8. Loaded'
  BY <1>7 DEF Loaded, OwnDynamic
<1>9. NobodyCalls' /\ phase' # "linked"
  BY <1>2 DEF NobodyCalls, OwnDynamic, callVars
<1> QED BY <1>1, <1>8, <1>9 DEF IInv

(* Linking: each slot gets its stub's address, or one that reaches.         *)
LEMMA SymbolWordLinks ==
  ASSUME Typed, NEW k \in 1 .. TableSize
  PROVE  LET e == img.table[k]
             ds == Definition(e.sym, Now)
         IN  IF ds = {} THEN SymbolWord(e) = img.words[e.at] ELSE SymbolWord(e) - Addend(e) \in ds
<1> DEFINE e == img.table[k]
<1>1. e \in Entries /\ e.at \in DOMAIN img.words /\ img.words \in Words
  BY TableOfImage DEF Typed
<1>2. e.sym \in Symbols /\ Addend(e) \in Int
  BY <1>1 DEF Entries, Addend, Words
<1>3. Finds(e.sym, TryResolveSymbol(e.sym))
  BY <1>2, ResolvesToDefinition DEF Typed
<1> HIDE DEF e
<1>4. CASE TryResolveSymbol(e.sym) = Failed /\ Definition(e.sym, Now) = {}
  BY <1>4 DEF SymbolWord, Resolves, e
<1>5. CASE TryResolveSymbol(e.sym) \in Nat /\ Definition(e.sym, Now) = {TryResolveSymbol(e.sym)}
  <2>1. SymbolWord(e) = TryResolveSymbol(e.sym) + Addend(e)
    BY <1>5 DEF SymbolWord, Resolves, Failed
  <2>2. SymbolWord(e) - Addend(e) = TryResolveSymbol(e.sym)
    BY <1>2, <1>5, <2>1
  <2> QED BY <1>5, <2>2 DEF e
<1> QED BY <1>3, <1>4, <1>5 DEF Finds

(* What a bound slot has, in the two forms.                                 *)
Bound(e, x) ==
  /\ object.isRela =>
       IF x = 0 THEN Definition(e.sym, Now) \subseteq {0} ELSE x - e.addend \in Definition(e.sym, Now)
  /\ ~object.isRela =>
       IF x = 0 THEN Definition(e.sym, Now) \subseteq {0}
       ELSE x - img.words[e.at] \in Definition(e.sym, Now)

LEMMA SlotWordBound ==
  ASSUME Typed, NEW lazy \in BOOLEAN, NEW k \in 1 .. PltSize
  PROVE  LET e == img.plt[k]
         IN  SlotWord(e, lazy) = Stub(e) \/ Bound(e, SlotWord(e, lazy))
<1> DEFINE e == img.plt[k]
           x == SlotWord(e, lazy)
           address == TryResolveSymbol(e.sym)
<1>1. e.sym \in Symbols /\ e.addend \in Nat /\ img.words[e.at] \in Nat
  BY PltOfImage DEF Entries, Typed
<1>2. Finds(e.sym, address)
  BY <1>1, ResolvesToDefinition DEF Typed
<1> HIDE DEF e
<1>3. CASE lazy \/ ~Resolves(e.sym)
  BY <1>3 DEF SlotWord, e
<1>4. CASE ~lazy /\ Resolves(e.sym)
  <2>1. address \in Nat /\ Definition(e.sym, Now) = {address}
    BY <1>2, <1>4 DEF Finds, Resolves
  <2>2. x = IF object.isRela THEN address + e.addend ELSE img.words[e.at] + address
    BY <1>4 DEF SlotWord
  <2>3. CASE object.isRela
    <3>1. x = address + e.addend
      BY <2>2, <2>3
    <3>2. x - e.addend = address /\ (x = 0 => address = 0)
      BY <1>1, <2>1, <3>1
    <3>3. Bound(e, x)
      BY <2>1, <2>3, <3>2 DEF Bound
    <3> QED BY <3>3 DEF e
  <2>4. CASE ~object.isRela
    <3>1. x = img.words[e.at] + address
      BY <2>2, <2>4
    <3>2. x - img.words[e.at] = address /\ (x = 0 => address = 0)
      BY <1>1, <2>1, <3>1
    <3>3. Bound(e, x)
      BY <2>1, <2>4, <3>2 DEF Bound
    <3> QED BY <3>3 DEF e
  <2> QED BY <2>3, <2>4
<1> QED BY <1>3, <1>4

LEMMA ResolveSymbolsKeeps == IInv /\ (\E lazy \in BOOLEAN : ResolveSymbols(lazy)) => IInv'
<1> SUFFICES ASSUME IInv, NEW lazy \in BOOLEAN, ResolveSymbols(lazy) PROVE IInv'
  OBVIOUS
<1>1. Typed /\ Typed' /\ img \in Images /\ list \in Seq(Modules) /\ manual \in BOOLEAN
  BY TypedKept DEF IInv, ResolveSymbols, Typed
<1>2. ReadObject(object, img) /\ Relocates(mem, Count(img)) /\ NobodyCalls
  BY DEF IInv, Loaded, ResolveSymbols
<1>3. img' = img /\ list' = list /\ manual' = manual /\ pc' = pc
  BY DEF ResolveSymbols, callVars
<1>4. phase' \in {"aborted", "linked"}
  BY DEF ResolveSymbols
<1>5. CASE phase' = "aborted"
  <2>1. Loaded'
    BY <1>5 DEF Loaded
  <2>2. NobodyCalls' /\ phase' # "linked"
    BY <1>2, <1>3, <1>5 DEF NobodyCalls
  <2> QED BY <1>1, <2>1, <2>2 DEF IInv
<1>6. CASE phase' = "linked"
  <2>1. /\ LinkedMemory(mem', object'.stub, lazy)
        /\ object' = [object EXCEPT !.stub = object'.stub]
        /\ linkedWith' = Now
    BY <1>1, <1>2, <1>6, ResolveSymbolsLinks
  <2>2. ReadObject(object', img)
    BY <1>2, <2>1 DEF ReadObject, HasRead, ZeroObject
  <2>3. Loaded'
    BY <1>3, <1>6, <2>2 DEF Loaded, ReadObject
  <2>4. object'.isRela = object.isRela
    BY <1>1, <1>2, <2>1, ReadFields DEF ZeroObject
  <2>5. Extends(linkedWith)'
    BY <1>1, <1>3, <2>1 DEF Extends, Now
  <2>6. (mem \in Words)'
    BY <1>3, <2>1 DEF LinkedMemory, Words
  <2>7. TableLinked'
    <3>1. RelativesDone(Count(img))'
      BY <1>3, <2>1 DEF LinkedMemory, RelativesDone, RelativeTo, Addend, Count, Tag
    <3>2. ASSUME NEW k \in 1 .. TableSize, IsAbsolute(img.table[k])
          PROVE  WordLinked(img.table[k])'
      <4>1. mem'[img.table[k].at] = SymbolWord(img.table[k])
        BY <2>1, <3>2 DEF LinkedMemory
      <4> QED BY <1>1, <1>3, <2>1, <4>1, SymbolWordLinks DEF WordLinked, Addend
    <3> QED BY <1>3, <3>1, <3>2 DEF TableLinked, TableSize, IsAbsolute
  <2>8. ASSUME NEW k \in 1 .. PltSize PROVE SlotLinked(img.plt[k])'
    <3>1. PICK e : e = img.plt[k]
      OBVIOUS
    <3>2. PICK x : x = SlotWord(e, lazy)
      OBVIOUS
    <3>3. mem'[e.at] = x /\ mem'[Got + 2] = Resolver /\ object'.stub = Stub(e)
      BY <2>1, <3>1, <3>2 DEF LinkedMemory
    <3>4. x = object'.stub \/ Bound(e, x)
      BY <1>1, <3>1, <3>2, <3>3, SlotWordBound
    <3>5. Definition(e.sym, Now) \subseteq Known(e.sym)
      <4>1. Extends(Now)
        BY <1>1 DEF Extends, Now
      <4> QED BY <4>1, KnownNow
    <3>6. Definition(e.sym, Now) \subseteq Known(e.sym)'
      BY <1>3, <3>5 DEF Known, Seen
    <3>7. ~Binding(e.at)'
      BY <1>2, <1>3 DEF NobodyCalls, Binding
    <3>8. ASSUME Bound(e, x), object.isRela PROVE Reaches(e, x)'
      BY <2>1, <2>4, <3>6, <3>8 DEF Bound, Reaches, Addition
    <3>9. ASSUME x # object'.stub, Bound(e, x), ~object.isRela
          PROVE  Reaches(e, x)' \/ (x # 0 /\ Twice(e)')
      BY <1>3, <2>1, <2>4, <3>3, <3>7, <3>9 DEF Bound, Reaches, Twice, BoundTwice
    <3>10. x = object'.stub \/ Arrives(e, x)'
      BY <3>4, <3>8, <3>9 DEF Arrives
    <3>11. SlotLinked(e)'
      BY <1>3, <3>3, <3>10 DEF SlotLinked, Got, Stub, Tag
    <3> QED BY <1>3, <3>1, <3>11
  <2>9. \A t \in Threads : Calling(t)'
    BY <1>2, <1>3 DEF NobodyCalls, Calling
  <2>10. Linked'
    BY <1>3, <2>5, <2>6, <2>7, <2>8 DEF Linked, PltSize
  <2> QED BY <1>1, <1>6, <2>3, <2>9, <2>10 DEF IInv
<1> QED BY <1>4, <1>5, <1>6

-----------------------------------------------------------------------------
(* Calls.                                                                   *)

(* What a linked module does not change any more.                           *)
StillLinked == UNCHANGED <<img, object, linkedWith, phase>> /\ phase = "linked"

LEMMA LoadedKept == Loaded /\ StillLinked => Loaded'
  BY DEF Loaded, StillLinked, ReadObject

LEMMA ReachesKept ==
  ASSUME StillLinked, Seen \subseteq Seen', NEW e, NEW x, Reaches(e, x)
  PROVE  Reaches(e, x)'
<1>1. Known(e.sym) \subseteq Known(e.sym)'
  BY DEF Known
<1> QED BY <1>1 DEF Reaches, Addition, StillLinked

(* A word bound twice stays so, if its slot is left alone and nobody new    *)
(* binds it.                                                                *)
LEMMA ArrivesKept ==
  ASSUME StillLinked, Seen \subseteq Seen', NEW e, NEW x, Arrives(e, x),
         mem'[e.at] = mem[e.at],
         mem[e.at] = object.stub \/ (Binding(e.at)' => Binding(e.at))
  PROVE  Arrives(e, x)'
<1>1. Reaches(e, x) => Reaches(e, x)'
  BY ReachesKept
<1>2. Twice(e) => Twice(e)'
  BY DEF Twice, BoundTwice, StillLinked
<1> QED BY <1>1, <1>2 DEF Arrives

(* While no word is stored, only threads have to be looked at.              *)
LEMMA LinkedKept ==
  ASSUME Linked, StillLinked, Seen \subseteq Seen', Extends(linkedWith)', mem' = mem,
         \A slot : mem[slot] = object.stub \/ (Binding(slot)' => Binding(slot))
  PROVE  Linked'
<1>1. TableLinked'
  BY DEF Linked, TableLinked, RelativesDone, RelativeTo, WordLinked, StillLinked, Addend, Count, Tag,
         TableSize
<1>2. ASSUME NEW e, SlotLinked(e) PROVE SlotLinked(e)'
  <2>1. Arrives(e, mem[e.at]) => Arrives(e, mem[e.at])'
    <3>1. PICK x : x = mem[e.at]
      OBVIOUS
    <3>2. Arrives(e, x) => Arrives(e, x)'
      BY ArrivesKept
    <3> QED BY <3>1, <3>2
  <2> QED BY <1>2, <2>1 DEF SlotLinked, Got, Tag, Stub, StillLinked
<1>3. ASSUME NEW k \in 1 .. PltSize PROVE SlotLinked(img.plt[k])'
  <2>1. PICK e : e = img.plt[k]
    OBVIOUS
  <2>2. SlotLinked(e)'
    BY <1>2, <2>1 DEF Linked
  <2> QED BY <2>1, <2>2 DEF StillLinked
<1>4. (mem \in Words)'
  BY DEF Linked, Words, StillLinked
<1> QED BY <1>1, <1>3, <1>4 DEF Linked, StillLinked, PltSize

LEMMA CallingKept ==
  ASSUME StillLinked, Seen \subseteq Seen', mem' = mem,
         \A slot : mem[slot] = object.stub \/ (Binding(slot)' => Binding(slot)),
         NEW t, Calling(t), pc'[t] = pc[t], at'[t] = at[t], found'[t] = found[t]
  PROVE  Calling(t)'
<1>1. ASSUME NEW k \in 1 .. PltSize, Stores(t, k) PROVE Stores(t, k)'
  <2>1. PICK e : e = img.plt[k]
    OBVIOUS
  <2>2. PICK x : x = found[t]
    OBVIOUS
  <2>3. Reaches(e, x)'
    BY <1>1, <2>1, <2>2, ReachesKept DEF Stores
  <2> QED BY <1>1, <2>1, <2>2, <2>3 DEF Stores, StillLinked
<1>2. ASSUME NEW k \in 1 .. PltSize, Lands(t, k) PROVE Lands(t, k)'
  <2>1. PICK e : e = img.plt[k]
    OBVIOUS
  <2>2. PICK x : x = at[t]
    OBVIOUS
  <2>3. Arrives(e, x)'
    BY <1>2, <2>1, <2>2, ArrivesKept DEF Lands
  <2> QED BY <1>2, <2>1, <2>2, <2>3 DEF Lands, StillLinked
<1> QED BY <1>1, <1>2 DEF Calling, Binds, PltSize, StillLinked

LEMMA InvOfLinked ==
  ASSUME IInv, phase = "linked"
  PROVE  /\ Typed /\ Loaded /\ Linked /\ \A t \in Threads : Calling(t)
         /\ img \in Images /\ object.got = Got /\ ReadObject(object, img)
<1>1. Typed /\ Loaded /\ Linked /\ \A t \in Threads : Calling(t)
  BY DEF IInv
<1>2. img \in Images /\ ReadObject(object, img)
  BY <1>1 DEF Typed, Loaded
<1> QED BY <1>1, <1>2, ReadFields

LEMMA CallKeeps ==
  ASSUME IInv, NEW t \in Threads, NEW slot \in Slots, Call(t, slot)
  PROVE  IInv'
<1>1. /\ Typed /\ Loaded /\ Linked /\ \A u \in Threads : Calling(u)
      /\ img \in Images /\ object.got = Got /\ ReadObject(object, img)
  BY InvOfLinked DEF Call
<1>2. StillLinked /\ mem' = mem /\ UNCHANGED <<img, list, manual>> /\ Seen' = Seen
  BY DEF Call, StillLinked, linkVars, Seen
<1>3. PICK k \in 1 .. PltSize : slot = img.plt[k].at
  BY <1>1, PltOfImage DEF Slots
<1>4. SlotLinked(img.plt[k])
  BY <1>1 DEF Linked
<1>5. slot \in Int /\ mem[slot] \in Int /\ mem[object.got + 2] = Resolver
  <2>1. slot = Got + 2 + k /\ slot \in DOMAIN img.words /\ Got \in Nat /\ PltSize \in Nat
    BY <1>1, <1>3, PltOfImage
  <2>2. mem[slot] \in Int
    BY <1>1, <2>1 DEF Linked, Words
  <2> QED BY <1>1, <1>4, <2>1, <2>2 DEF SlotLinked
<1>6. /\ pc' = [pc EXCEPT ![t] = IF mem[slot] = object.stub THEN "bind" ELSE "landed"]
      /\ at' = [at EXCEPT ![t] = IF mem[slot] = object.stub THEN slot ELSE mem[slot]]
      /\ found' = [found EXCEPT ![t] = slot]
      /\ pc[t] = "idle"
  BY <1>5 DEF Call
<1>7. Typed'
  BY <1>1, <1>2, <1>5, <1>6 DEF Typed
<1>8. /\ pc'[t] = (IF mem[slot] = object.stub THEN "bind" ELSE "landed")
      /\ at'[t] = (IF mem[slot] = object.stub THEN slot ELSE mem[slot])
      /\ found'[t] = slot
      /\ \A u \in Threads : u # t => pc'[u] = pc[u] /\ at'[u] = at[u] /\ found'[u] = found[u]
  BY <1>1, <1>6 DEF Typed
<1>9. ASSUME NEW s PROVE mem[s] = object.stub \/ (Binding(s)' => Binding(s))
  BY <1>6, <1>8 DEF Binding
<1>10. Linked'
  <2>1. Extends(linkedWith)'
    BY <1>1, <1>2 DEF Linked, Extends, StillLinked
  <2> QED BY <1>1, <1>2, <1>9, <2>1, LinkedKept
<1>11. ASSUME NEW u \in Threads PROVE Calling(u)'
  <2>1. CASE u # t
    BY <1>1, <1>2, <1>8, <1>9, <2>1, CallingKept
  <2>2. CASE u = t /\ mem[slot] = object.stub
    <3>1. Binds(t, k)'
      BY <1>2, <1>3, <1>8, <2>2 DEF Binds
    <3> QED BY <1>2, <1>8, <2>2, <3>1 DEF Calling, PltSize
  <2>3. CASE u = t /\ mem[slot] # object.stub
    <3>1. PICK e : e = img.plt[k]
      OBVIOUS
    <3>2. PICK x : x = mem[slot]
      OBVIOUS
    <3>3. Arrives(e, x)
      BY <1>3, <1>4, <2>3, <3>1, <3>2 DEF SlotLinked
    <3>4. Arrives(e, x)'
      BY <1>2, <1>9, <3>3, ArrivesKept
    <3>5. Lands(t, k)'
      BY <1>2, <1>3, <1>8, <2>3, <3>1, <3>2, <3>4 DEF Lands
    <3> QED BY <1>2, <1>8, <2>3, <3>5 DEF Calling, PltSize
  <2> QED BY <2>1, <2>2, <2>3
<1>12. Loaded'
  BY <1>1, <1>2, LoadedKept
<1>13. phase' = "linked"
  BY <1>2 DEF StillLinked
<1> QED BY <1>7, <1>10, <1>11, <1>12, <1>13 DEF IInv

(* The lookup of the slot's own symbol: the index is that of its entry.     *)
LEMMA LazyBindFinds ==
  ASSUME IInv, NEW t \in Threads, LazyBind(t), phase = "linked"
  PROVE  \E k \in 1 .. PltSize : Binds(t, k) /\ found'[t] \in Int /\ Reaches(img.plt[k], found'[t])
<1>1. /\ Typed /\ Loaded /\ Linked /\ \A u \in Threads : Calling(u)
      /\ img \in Images /\ object.got = Got /\ ReadObject(object, img)
  BY InvOfLinked
<1>2. PICK k \in 1 .. PltSize : Binds(t, k)
  BY <1>1 DEF LazyBind, Calling
<1>3. img.plt[k].at = Got + 2 + k /\ Got \in Nat /\ PltSize \in Nat /\ DOMAIN img.plt = 1 .. PltSize
  BY <1>1, PltOfImage
<1>4. LazyIndex(at[t]) + 1 = k
  BY <1>1, <1>2, <1>3 DEF LazyIndex, Binds
<1>5. PICK e : e = img.plt[k]
  OBVIOUS
<1>6. e.sym \in Symbols /\ e.addend \in Nat
  BY <1>1, <1>5, PltOfImage DEF Entries
<1> DEFINE address == TryResolveSymbol(e.sym)
<1>7. Finds(e.sym, address)
  BY <1>1, <1>6, ResolvesToDefinition DEF Typed
<1>8. Extends(linkedWith) /\ Extends(Now) /\ manual \in BOOLEAN
  BY <1>1 DEF Linked, Typed, Extends, Now
<1>9. found'[t] = IF address \in {Failed, 0} THEN 0
                  ELSE IF object.isRela THEN address + e.addend ELSE address
  BY <1>1, <1>3, <1>4, <1>5 DEF LazyBind, Typed
<1> HIDE DEF address
<1>10. CASE address \in {Failed, 0}
  <2>1. Definition(e.sym, Now) \subseteq {0}
    BY <1>7, <1>10 DEF Finds, Failed
  <2>2. Definition(e.sym, linkedWith) \subseteq {0}
    BY <1>6, <1>8, <2>1, StillDefined
  <2>3. found'[t] = 0
    BY <1>9, <1>10
  <2>4. Reaches(e, 0)
    BY <2>2 DEF Reaches
  <2> QED BY <1>2, <1>5, <2>3, <2>4
<1>11. CASE address \notin {Failed, 0}
  <2>1. address \in Nat \ {0} /\ Definition(e.sym, Now) = {address}
    BY <1>7, <1>11 DEF Finds
  <2>2. address \in Known(e.sym)
    BY <1>8, <2>1, KnownNow
  <2>3. found'[t] = IF object.isRela THEN address + e.addend ELSE address
    BY <1>9, <1>11
  <2>4. found'[t] \in Int /\ found'[t] # 0 /\ found'[t] - Addition(e) = address
    <3>1. CASE object.isRela
      BY <1>6, <2>1, <2>3, <3>1 DEF Addition
    <3>2. CASE ~object.isRela
      BY <2>1, <2>3, <3>2 DEF Addition
    <3> QED BY <3>1, <3>2
  <2>5. Reaches(e, found'[t])
    BY <2>2, <2>4 DEF Reaches
  <2> QED BY <1>2, <1>5, <2>4, <2>5
<1> QED BY <1>10, <1>11

LEMMA LazyBindKeeps ==
  ASSUME IInv, NEW t \in Threads, LazyBind(t)
  PROVE  IInv'
<1>0. phase = "linked"
  BY DEF IInv, LazyBind, NobodyCalls
<1>1. /\ Typed /\ Loaded /\ Linked /\ \A u \in Threads : Calling(u)
      /\ img \in Images /\ object.got = Got /\ ReadObject(object, img)
  BY <1>0, InvOfLinked
<1>2. StillLinked /\ mem' = mem /\ UNCHANGED <<img, list, manual>> /\ Seen' = Seen
  BY <1>0 DEF LazyBind, StillLinked, linkVars, Seen
<1>3. PICK k \in 1 .. PltSize : Binds(t, k) /\ found'[t] \in Int /\ Reaches(img.plt[k], found'[t])
  BY <1>0, LazyBindFinds
<1>4. /\ pc[t] = "bind" /\ pc'[t] = "store" /\ at' = at
      /\ \A u \in Threads : u # t => pc'[u] = pc[u] /\ found'[u] = found[u]
  BY <1>1 DEF LazyBind, Typed
<1>5. Typed'
  <2>1. pc' = [pc EXCEPT ![t] = "store"] /\ found' = [found EXCEPT ![t] = found'[t]]
    BY <1>1 DEF LazyBind, Typed
  <2> QED BY <1>1, <1>2, <1>3, <1>4, <2>1 DEF Typed
<1>6. ASSUME NEW s PROVE mem[s] = object.stub \/ (Binding(s)' => Binding(s))
  BY <1>4 DEF Binding
<1>7. Linked'
  <2>1. Extends(linkedWith)'
    BY <1>1, <1>2 DEF Linked, Extends, StillLinked
  <2> QED BY <1>1, <1>2, <1>6, <2>1, LinkedKept
<1>8. ASSUME NEW u \in Threads PROVE Calling(u)'
  <2>1. CASE u # t
    BY <1>1, <1>2, <1>4, <1>6, <2>1, CallingKept
  <2>2. CASE u = t
    <3>1. PICK e : e = img.plt[k]
      OBVIOUS
    <3>2. PICK x : x = found'[t]
      OBVIOUS
    <3>3. Reaches(e, x)'
      BY <1>2, <1>3, <3>1, <3>2, ReachesKept
    <3>4. Stores(t, k)'
      BY <1>2, <1>3, <1>4, <3>1, <3>2, <3>3 DEF Stores, Binds
    <3> QED BY <1>2, <1>4, <2>2, <3>4 DEF Calling, PltSize
  <2> QED BY <2>1, <2>2
<1>9. Loaded'
  BY <1>1, <1>2, LoadedKept
<1> QED BY <1>5, <1>7, <1>8, <1>9, <1>2 DEF IInv, StillLinked

LEMMA StoreAndJumpKeeps ==
  ASSUME IInv, NEW t \in Threads, StoreAndJump(t)
  PROVE  IInv'
<1>0. phase = "linked"
  BY DEF IInv, StoreAndJump, NobodyCalls
<1>1. /\ Typed /\ Loaded /\ Linked /\ \A u \in Threads : Calling(u)
      /\ img \in Images /\ object.got = Got /\ ReadObject(object, img)
  BY <1>0, InvOfLinked
<1>2. StillLinked /\ UNCHANGED <<img, list, manual>> /\ Seen' = Seen
  BY <1>0 DEF StoreAndJump, StillLinked, Seen
<1>3. PICK k \in 1 .. PltSize : Stores(t, k)
  BY <1>1 DEF StoreAndJump, Calling
<1>4. PICK slot : slot = at[t]
  OBVIOUS
<1>5. PICK x : x = found[t]
  OBVIOUS
<1>6. slot = img.plt[k].at /\ Reaches(img.plt[k], x) /\ Binding(slot)
  BY <1>3, <1>4, <1>5 DEF Stores, Binding, StoreAndJump
<1>7. slot \in DOMAIN img.words /\ slot = Got + 2 + k /\ Got # 0 /\ Got \in Nat /\ PltSize \in Nat
  BY <1>1, <1>6, PltOfImage
<1>8. x \in Int /\ slot \in Int
  BY <1>1, <1>4, <1>5 DEF Typed
<1>9. /\ mem' = [mem EXCEPT ![slot] = x] /\ pc' = [pc EXCEPT ![t] = "landed"]
      /\ at' = [at EXCEPT ![t] = x] /\ found' = [found EXCEPT ![t] = slot]
      /\ pc[t] = "store"
  BY <1>4, <1>5 DEF StoreAndJump
<1>10. /\ pc'[t] = "landed" /\ at'[t] = x /\ found'[t] = slot
       /\ \A u \in Threads : u # t => pc'[u] = pc[u] /\ at'[u] = at[u] /\ found'[u] = found[u]
  BY <1>1, <1>9 DEF Typed
<1>11. /\ (mem \in Words)' /\ mem'[slot] = x
       /\ \A o \in DOMAIN img.words : o # slot => mem'[o] = mem[o]
  BY <1>1, <1>2, <1>7, <1>8, <1>9 DEF Linked, Words
<1>12. Typed'
  BY <1>1, <1>2, <1>8, <1>9 DEF Typed
<1>13. ASSUME NEW s, s # slot PROVE Binding(s)' => Binding(s)
  BY <1>4, <1>9, <1>10 DEF Binding
\* The word of another entry's slot, and what called through it.
<1>14. ASSUME NEW j \in 1 .. PltSize, j # k
       PROVE  mem'[img.plt[j].at] = mem[img.plt[j].at] /\ img.plt[j].at # slot
  <2>1. img.plt[j].at \in DOMAIN img.words /\ img.plt[j].at = Got + 2 + j
    BY <1>1, PltOfImage
  <2>2. img.plt[j].at # slot
    BY <1>7, <1>14, <2>1
  <2> QED BY <1>11, <2>1, <2>2
<1>15. ASSUME NEW j \in 1 .. PltSize, NEW y, Arrives(img.plt[j], y) PROVE Arrives(img.plt[j], y)'
  <2>1. PICK e : e = img.plt[j]
    OBVIOUS
  <2>2. CASE j = k
    <3>1. Reaches(e, y)
      BY <1>6, <1>15, <2>1, <2>2 DEF Arrives, Twice
    <3>2. Reaches(e, y)'
      BY <1>2, <3>1, ReachesKept
    <3> QED BY <1>2, <2>1, <3>2 DEF Arrives
  <2>3. CASE j # k
    <3>1. mem'[e.at] = mem[e.at] /\ (Binding(e.at)' => Binding(e.at))
      BY <1>13, <1>14, <2>1, <2>3
    <3>2. Arrives(e, y)'
      BY <1>2, <1>15, <2>1, <3>1, ArrivesKept
    <3> QED BY <1>2, <2>1, <3>2
  <2> QED BY <2>2, <2>3
<1>16. Reaches(img.plt[k], x)'
  <2>1. PICK e : e = img.plt[k]
    OBVIOUS
  <2>2. Reaches(e, x)'
    BY <1>2, <1>6, <2>1, ReachesKept
  <2> QED BY <1>2, <2>1, <2>2
<1>17. TableLinked'
  <2>1. ASSUME NEW j \in 1 .. TableSize
        PROVE  mem'[img.table[j].at] = mem[img.table[j].at]
    <3>1. img.table[j].at \in DOMAIN img.words
      BY <1>1, TableOfImage
    <3>2. img.table[j].at \notin Got + 1 .. Got + 2 + PltSize
      BY <1>1, <1>7, PltOfImage
    <3>3. slot \in Got + 1 .. Got + 2 + PltSize
      BY <1>7
    <3> QED BY <1>11, <3>1, <3>2, <3>3
  <2>2. RelativeTo(Count(img)) \subseteq 1 .. TableSize
    BY <1>1, CountType, TableOfImage DEF RelativeTo
  <2>3. RelativesDone(Count(img))'
    BY <1>1, <1>2, <2>1, <2>2 DEF Linked, TableLinked, RelativesDone, RelativeTo, Addend, Count, Tag
  <2>4. ASSUME NEW j \in 1 .. TableSize, IsAbsolute(img.table[j])
        PROVE  WordLinked(img.table[j])'
    <3>1. WordLinked(img.table[j])
      BY <1>1, <2>4 DEF Linked, TableLinked
    <3> QED BY <1>2, <2>1, <3>1 DEF WordLinked, StillLinked, Addend
  <2> QED BY <1>2, <2>3, <2>4 DEF TableLinked, TableSize, IsAbsolute
<1>18. ASSUME NEW j \in 1 .. PltSize PROVE SlotLinked(img.plt[j])'
  <2>1. SlotLinked(img.plt[j])
    BY <1>1 DEF Linked
  <2>2. mem'[Got + 2] = mem[Got + 2]
    BY <1>7, <1>9
  <2>3. PICK e : e = img.plt[j]
    OBVIOUS
  <2>4. PICK y : y = mem'[e.at]
    OBVIOUS
  <2>5. y = object.stub \/ Arrives(e, y)'
    <3>1. CASE j = k
      BY <1>2, <1>6, <1>11, <1>16, <2>3, <2>4, <3>1 DEF Arrives
    <3>2. CASE j # k
      <4>1. y = mem[e.at]
        BY <1>14, <2>3, <2>4, <3>2
      <4>2. y = object.stub \/ Arrives(img.plt[j], y)
        BY <2>1, <2>3, <4>1 DEF SlotLinked
      <4>3. Arrives(img.plt[j], y) => Arrives(img.plt[j], y)'
        BY <1>15
      <4> QED BY <1>2, <2>3, <4>2, <4>3
    <3> QED BY <3>1, <3>2
  <2>6. SlotLinked(e)'
    BY <1>2, <2>1, <2>2, <2>3, <2>4, <2>5 DEF SlotLinked, StillLinked, Stub, Got, Tag
  <2> QED BY <1>2, <2>3, <2>6
<1>19. Linked'
  <2>1. Extends(linkedWith)'
    BY <1>1, <1>2 DEF Linked, Extends, StillLinked
  <2> QED BY <1>2, <1>11, <1>17, <1>18, <2>1 DEF Linked, PltSize
<1>20. ASSUME NEW u \in Threads PROVE Calling(u)'
  <2>1. CASE u = t
    <3>1. Lands(t, k)'
      BY <1>2, <1>6, <1>10, <1>16 DEF Lands, Arrives
    <3> QED BY <1>2, <1>10, <2>1, <3>1 DEF Calling, PltSize
  <2>2. CASE u # t
    <3>1. Calling(u) /\ pc'[u] = pc[u] /\ at'[u] = at[u] /\ found'[u] = found[u]
      BY <1>1, <1>10, <2>2
    <3>2. ASSUME NEW j \in 1 .. PltSize, Stores(u, j) PROVE Stores(u, j)'
      <4>1. PICK e : e = img.plt[j]
        OBVIOUS
      <4>2. PICK y : y = found[u]
        OBVIOUS
      <4>3. Reaches(e, y)'
        BY <1>2, <3>2, <4>1, <4>2, ReachesKept DEF Stores
      <4> QED BY <1>2, <3>1, <3>2, <4>1, <4>2, <4>3 DEF Stores
    <3>3. ASSUME NEW j \in 1 .. PltSize, Lands(u, j) PROVE Lands(u, j)'
      <4>1. PICK y : y = at[u]
        OBVIOUS
      <4>2. Arrives(img.plt[j], y)'
        BY <1>15, <3>3, <4>1 DEF Lands
      <4> QED BY <1>2, <3>1, <3>3, <4>1, <4>2 DEF Lands
    <3> QED BY <1>2, <3>1, <3>2, <3>3 DEF Calling, Binds, PltSize
  <2> QED BY <2>1, <2>2
<1>21. Loaded'
  BY <1>1, <1>2, LoadedKept
<1> QED BY <1>2, <1>12, <1>19, <1>20, <1>21 DEF IInv, StillLinked

LEMMA ReturnKeeps ==
  ASSUME IInv, NEW t \in Threads, Return(t)
  PROVE  IInv'
<1>0. phase = "linked"
  BY DEF IInv, Return, NobodyCalls
<1>1. /\ Typed /\ Loaded /\ Linked /\ \A u \in Threads : Calling(u)
      /\ img \in Images /\ object.got = Got /\ ReadObject(object, img)
  BY <1>0, InvOfLinked
<1>2. StillLinked /\ mem' = mem /\ UNCHANGED <<img, list, manual>> /\ Seen' = Seen
  BY <1>0 DEF Return, StillLinked, linkVars, Seen
<1>3. Typed'
  BY <1>1, <1>2 DEF Typed, Return
<1>4. /\ pc'[t] = "idle"
      /\ \A u \in Threads : u # t => pc'[u] = pc[u] /\ at'[u] = at[u] /\ found'[u] = found[u]
  BY <1>1 DEF Return, Typed
<1>5. ASSUME NEW s PROVE mem[s] = object.stub \/ (Binding(s)' => Binding(s))
  BY <1>4 DEF Binding
<1>6. Linked'
  <2>1. Extends(linkedWith)'
    BY <1>1, <1>2 DEF Linked, Extends, StillLinked
  <2> QED BY <1>1, <1>2, <1>5, <2>1, LinkedKept
<1>7. ASSUME NEW u \in Threads PROVE Calling(u)'
  <2>1. CASE u # t
    BY <1>1, <1>2, <1>4, <1>5, <2>1, CallingKept
  <2>2. CASE u = t
    BY <1>4, <2>2 DEF Calling
  <2> QED BY <2>1, <2>2
<1>8. Loaded'
  BY <1>1, <1>2, LoadedKept
<1> QED BY <1>2, <1>3, <1>6, <1>7, <1>8 DEF IInv, StillLinked

(* When more modules are loaded, more may be known, and nothing is lost.    *)
LEMMA MoreLoaded ==
  ASSUME IInv, UNCHANGED <<img, object, mem, linkedWith, phase, manual, pc, at, found>>,
         list' \in Seq(Modules), Range(list) \subseteq Range(list')
  PROVE  IInv'
<1>1. Seen \subseteq Seen'
  BY DEF Seen
<1>2. Typed'
  BY DEF IInv, Typed
<1>3. Loaded'
  BY DEF IInv, Loaded, ReadObject, Relocates, RelativeTo, Words, Addend, Count, Tag, RelativesDone, TableSize
<1>4. CASE phase # "linked"
  BY <1>2, <1>3, <1>4 DEF IInv, NobodyCalls
<1>5. CASE phase = "linked"
  <2>1. Linked /\ \A u \in Threads : Calling(u)
    BY <1>5 DEF IInv
  <2>2. StillLinked
    BY <1>5 DEF StillLinked
  <2>3. ASSUME NEW s PROVE mem[s] = object.stub \/ (Binding(s)' => Binding(s))
    BY DEF Binding
  <2>4. Extends(linkedWith)'
    BY <2>1 DEF Linked, Extends
  <2>5. Linked'
    BY <1>1, <2>1, <2>2, <2>3, <2>4, LinkedKept
  <2>6. ASSUME NEW u \in Threads PROVE Calling(u)'
    BY <1>1, <2>1, <2>2, <2>3, CallingKept
  <2> QED BY <1>2, <1>3, <2>2, <2>5, <2>6 DEF IInv, StillLinked
<1> QED BY <1>4, <1>5

(* A module joins.                                                          *)
LEMMA JoinKeeps ==
  ASSUME IInv, NEW m \in Modules, Join(m)
  PROVE  IInv'
<1>1. /\ UNCHANGED <<img, object, mem, linkedWith, phase, manual, pc, at, found>>
      /\ list' \in {<<m>> \o list, Append(list, m)}
  BY DEF Join, linkVars, callVars
<1>2. list \in Seq(Modules)
  BY DEF IInv, Typed
<1>3. list' \in Seq(Modules) /\ Range(list) \subseteq Range(list')
  <2>1. CASE list' = <<m>> \o list
    <3>1. list' \in Seq(Modules) /\ Len(list) \in Nat /\ DOMAIN list = 1 .. Len(list)
      BY <1>2, <2>1
    <3>2. \A k \in 1 .. Len(list) : k + 1 \in DOMAIN list' /\ list'[k + 1] = list[k]
      BY <1>2, <2>1
    <3> QED BY <3>1, <3>2 DEF Range
  <2>2. CASE list' = Append(list, m)
    <3>1. list' \in Seq(Modules) /\ Len(list) \in Nat /\ DOMAIN list = 1 .. Len(list)
      BY <1>2, <2>2
    <3>2. \A k \in 1 .. Len(list) : k \in DOMAIN list' /\ list'[k] = list[k]
      BY <1>2, <2>2
    <3> QED BY <3>1, <3>2 DEF Range
  <2> QED BY <1>1, <2>1, <2>2
<1> QED BY <1>1, <1>3, MoreLoaded

LEMMA NextKeeps == IInv /\ [Next]_vars => IInv'
<1> SUFFICES ASSUME IInv, [Next]_vars PROVE IInv'
  OBVIOUS
<1>1. CASE Link
  BY <1>1, InitializeKeeps, RelocateKeeps, OwnDynamicKeeps, ResolveSymbolsKeeps DEF Link
<1>2. ASSUME NEW t \in Threads, Calls(t) PROVE IInv'
  BY <1>2, CallKeeps, LazyBindKeeps, StoreAndJumpKeeps, ReturnKeeps DEF Calls
<1>3. ASSUME NEW m \in Modules, Join(m) PROVE IInv'
  BY <1>3, JoinKeeps
<1>4. CASE UNCHANGED vars
  <2>1. UNCHANGED <<img, object, mem, linkedWith, phase, list, manual, pc, at, found>>
    BY <1>4 DEF vars, linkVars, callVars
  <2>2. list \in Seq(Modules)
    BY DEF IInv, Typed
  <2> QED BY <2>1, <2>2, MoreLoaded
<1> QED BY <1>1, <1>2, <1>3, <1>4 DEF Next

LEMMA AlwaysIInv == Spec => []IInv
<1> QED BY InitIInv, NextKeeps, PTL DEF Spec

LEMMA IInvWordsLinked == IInv => WordsLinked
<1> SUFFICES ASSUME IInv, NEW k \in DOMAIN img.table
             PROVE  LET e == img.table[k]
                    IN  /\ e.type = "relative" /\ Counted(k) /\ phase \in {"own", "relocated", "linked"}
                             => mem[e.at] = Relocated(Addend(e))
                        /\ e.type \in {"abs", "glob"} /\ phase = "linked"
                             => LET ds == Definition(e.sym, linkedWith)
                                IN  IF ds = {} THEN mem[e.at] = img.words[e.at]
                                    ELSE mem[e.at] - Addend(e) \in ds
  BY DEF WordsLinked
<1> DEFINE e == img.table[k]
<1>1. Typed /\ Loaded /\ img \in Images
  BY DEF IInv, Typed
<1>2. k \in 1 .. TableSize /\ TableSize \in Nat
  BY <1>1, TableOfImage
<1>3. Counted(k) /\ phase # "own" => k \in 1 .. Count(img)
  <2>1. Count(img) = OwnTag("RELACOUNT", 0) + OwnTag("RELCOUNT", 0) /\ Count(img) \in 0 .. TableSize
    BY <1>1, CountType DEF Count, Tag, OwnTag
  <2> QED BY <1>2, <2>1 DEF Counted
<1>4. ASSUME e.type = "relative", Counted(k), phase \in {"own", "relocated", "linked"}
      PROVE  mem[e.at] = Relocated(Addend(e))
  <2>1. CASE phase = "own"
    <3>1. k \in RelativeTo(TableSize)
      BY <1>2, <1>4 DEF RelativeTo
    <3> QED BY <1>1, <2>1, <3>1 DEF Loaded, RelativesDone
  <2>2. CASE phase # "own"
    <3>1. k \in RelativeTo(Count(img))
      BY <1>3, <1>4, <2>2 DEF RelativeTo
    <3>2. CASE phase = "relocated"
      BY <1>1, <3>1, <3>2 DEF Loaded, Relocates
    <3>3. CASE phase = "linked"
      BY <3>1, <3>3 DEF IInv, Linked, TableLinked, RelativesDone
    <3> QED BY <1>4, <2>2, <3>2, <3>3
  <2> QED BY <2>1, <2>2
<1>5. ASSUME e.type \in {"abs", "glob"}, phase = "linked" PROVE WordLinked(e)
  BY <1>2, <1>5 DEF IInv, Linked, TableLinked, IsAbsolute
<1> QED BY <1>4, <1>5 DEF WordLinked

LEMMA IInvCallsArrive == IInv => CallsArrive
<1> SUFFICES ASSUME IInv, NEW t \in Threads
             PROVE  /\ pc[t] # "lost"
                    /\ pc[t] = "landed" =>
                         \E e \in Range(img.plt) :
                           /\ e.at = found[t]
                           /\ IF at[t] = 0 THEN Definition(e.sym, linkedWith) \subseteq {0}
                              ELSE \/ BoundTwice(e)
                                   \/ at[t] - (IF object.isRela THEN e.addend ELSE 0)
                                        \in UNION {Definition(e.sym, with) : with \in Seen}
  BY DEF CallsArrive
<1>1. pc[t] # "lost"
  BY DEF IInv, Typed
<1>2. ASSUME pc[t] = "landed"
      PROVE  \E e \in Range(img.plt) :
               /\ e.at = found[t]
               /\ IF at[t] = 0 THEN Definition(e.sym, linkedWith) \subseteq {0}
                  ELSE \/ BoundTwice(e)
                       \/ at[t] - (IF object.isRela THEN e.addend ELSE 0)
                            \in UNION {Definition(e.sym, with) : with \in Seen}
  <2>1. phase = "linked" /\ Typed
    BY <1>2 DEF IInv, NobodyCalls
  <2>2. PICK k \in 1 .. PltSize : Lands(t, k)
    BY <1>2, <2>1 DEF IInv, Calling
  <2>3. img.plt[k] \in Range(img.plt)
    BY <2>1, PltOfImage DEF Range, Typed
  <2> QED BY <2>2, <2>3 DEF Lands, Arrives, Reaches, Twice, Known, Addition
<1> QED BY <1>1, <1>2

-----------------------------------------------------------------------------
(* After ModuleObject::Relocate and exl_dynamic every relative word points  *)
(* into the module, and after ModuleObject::ResolveSymbols every symbolic   *)
(* word to its symbol's definition, whatever the table's length and form    *)
(* and however many modules are loaded.                                     *)
THEOREM SpecWordsLinked == Spec => []WordsLinked
<1> QED BY AlwaysIInv, IInvWordsLinked, PTL

(* A call through the linkage table arrives at a definition of its symbol,  *)
(* while any number of threads bind slots and modules are loaded            *)
(* (__rtld_lazy_bind_symbol, ModuleObject::ResolveSymbols).                 *)
THEOREM SpecCallsArrive == Spec => []CallsArrive
<1> QED BY AlwaysIInv, IInvCallsArrive, PTL

=============================================================================
