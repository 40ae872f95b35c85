-------------------------------- MODULE MCRtld --------------------------------
(***************************************************************************)
(* A module with one relative word, two symbolic words and two jump slots,  *)
(* in every form, and two libraries, one of which may come late.            *)
(***************************************************************************)
EXTENDS Rtld, TLC

CONSTANTS lib, late

MCBase == (Self :> 100) @@ (lib :> 200) @@ (late :> 300)

Sym(name, defined, local, value) ==
  [name |-> name, defined |-> defined, local |-> local, value |-> value]
MCChain ==
  (Self :> <<Sym("x", FALSE, FALSE, 0), Sym("own", TRUE, FALSE, 3), Sym("part", TRUE, TRUE, 5)>>)
  @@ (lib :> <<Sym("part", TRUE, TRUE, 1), Sym("x", TRUE, FALSE, 4)>>)
  @@ (late :> <<Sym("own", TRUE, FALSE, 6), Sym("x", TRUE, FALSE, 2), Sym("part", TRUE, FALSE, 7)>>)
MCManual == [n \in {"x", "own", "part", "hook", "none"} |-> IF n = "hook" THEN 400 ELSE 0]

Ref(name, hidden, weak) == [name |-> name, hidden |-> hidden, weak |-> weak]
Refs == {Ref("x", FALSE, FALSE), Ref("own", TRUE, FALSE), Ref("own", FALSE, FALSE),
         Ref("part", FALSE, FALSE), Ref("hook", FALSE, FALSE), Ref("none", TRUE, TRUE)}

\* Words 1 to 3 are data, 4 to 6 the table's head, 7 and 8 slots; the stub is at 9.
Words(form) == <<IF form = "REL" THEN 2 ELSE 0, IF form = "REL" THEN 1 ELSE 0, 0, 0, 0, 0, 9, 9>>

Entry(form, type, offset, sym, addend) ==
  [form |-> form, type |-> type, at |-> offset, sym |-> sym, addend |-> addend]

Image(form, pltForm, counted, ent, a, b) ==
  LET size(f, n) == n * (IF f = "REL" THEN SizeofRel ELSE SizeofRela)
  IN  [words |-> Words(form),
       table |-> <<Entry(form, "relative", 1, a, 2), Entry(form, "abs", 2, a, 1),
                   Entry(form, "glob", 3, b, 0)>>,
       plt |-> <<Entry(pltForm, "slot", 7, a, 0), Entry(pltForm, "slot", 8, b, 1)>>,
       dynamic |-> <<<<"NEEDED", 0>>, <<"SYMENT", SizeofSym>>, <<form, 1>>, <<form \o "SZ", size(form, 3)>>,
                     <<"PLTGOT", 4>>, <<"PLTREL", pltForm>>,
                     <<"PLTRELSZ", size(pltForm, 2)>>, <<"JMPREL", 1>>>>
                   \o (IF counted THEN <<<<form \o "COUNT", 1>>>> ELSE <<>>)
                   \o (IF ent THEN <<<<form \o "ENT", size(form, 1)>>>> ELSE <<>>)]

Forms == {"REL", "RELA"}
MCImages ==
  {Image(f, f, TRUE, FALSE, a, Ref("x", FALSE, FALSE)) : f \in Forms, a \in Refs}
  \cup {Image(f, g, c, TRUE, a, Ref("own", TRUE, FALSE)) :
          f \in Forms, g \in Forms, c \in BOOLEAN, a \in {Ref("part", FALSE, FALSE)}}
  \cup {Image(f, g, FALSE, FALSE, a, a) : f \in Forms, g \in Forms, a \in {Ref("hook", FALSE, FALSE)}}

MCSymmetry == Permutations(Threads)
===============================================================================
