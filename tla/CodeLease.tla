------------------------------ MODULE CodeLease ------------------------------
(***************************************************************************)
(* What the address-space manager of lib/nx/kernel/virtmem.c promises to   *)
(* its users: a slice of the ASLR region is leased to one holder at a      *)
(* time, never inside the alias or heap region, until the holder returns   *)
(* it.  Finding the slice, writing down the reservation and mapping code   *)
(* there are one step here; RwPages shows the steps the code takes.        *)
(***************************************************************************)
EXTENDS Integers

CONSTANTS
  Slots,       \* the places a lease is written down in (reservation nodes)
  Usable,      \* pages of the region outside the alias and heap regions
  NoLease      \* an empty slot

VARIABLE lease \* slot |-> set of pages, or NoLease

Held == {s \in Slots : lease[s] # NoLease}

\* The slots are empty before virtmemSetup returns.
Init == lease = [s \in Slots |-> NoLease]

\* A free slice becomes the property of one slot.
Acquire(s, pages) ==
  /\ lease[s] = NoLease
  /\ pages \subseteq Usable
  /\ \A h \in Held : lease[h] \cap pages = {}
  /\ lease' = [lease EXCEPT ![s] = pages]

Return(s) ==
  /\ lease[s] # NoLease
  /\ lease' = [lease EXCEPT ![s] = NoLease]

Next == \E s \in Slots :
          \/ \E pages \in SUBSET Usable : Acquire(s, pages)
          \/ Return(s)

Spec == Init /\ [][Next]_lease

=============================================================================
