-------------------------------- MODULE MCBoot --------------------------------
(***************************************************************************)
(* Address spaces put together of up to four pieces: modules, beginnings   *)
(* of modules that lead nowhere, and anything else, with an unmapped       *)
(* region at either end.  The table has room for three modules.  The       *)
(* kernels are today's with and without mesosphere, one that refuses the   *)
(* message, the first one with either address width, one that gives no     *)
(* hint, and two that know only one of the newer regions.                  *)
(***************************************************************************)
EXTENDS Boot, SequencesExt

Pieces == {<<"text", "rodata", "data">>, <<"text">>, <<"text", "rodata">>,
           <<"rodata">>, <<"data">>, <<"other">>}

MCSpaces == {<<"other">> \o FlattenSeq(p) \o <<"other">> :
               p \in UNION {[1 .. n -> Pieces] : n \in 1 .. 4}}

Modern == [infos |-> Regions, bits |-> 0, mesosphere |-> TRUE, delivers |-> TRUE]
First(bits) == [infos |-> {"alias", "heap"}, bits |-> bits, mesosphere |-> FALSE,
                delivers |-> TRUE]

MCKernels == {Modern, [Modern EXCEPT !.mesosphere = FALSE],
              [Modern EXCEPT !.mesosphere = FALSE, !.delivers = FALSE],
              First(32), First(36), First(0),
              [First(36) EXCEPT !.infos = @ \cup {"aslr"}],
              [First(36) EXCEPT !.infos = @ \cup {"stack"}]}
===============================================================================
