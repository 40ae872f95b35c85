------------------------------- MODULE RwPages -------------------------------
(***************************************************************************)
(* The writable aliases of code pages (lib/util/sys/rw_pages.{hpp,cpp})    *)
(* and the address-space manager they stand on (lib/nx/kernel/virtmem.c).  *)
(*                                                                         *)
(* Constructing an RwPages picks a random slice of the ASLR region, checks *)
(* it against the kernel's page table and the reservation list, reserves   *)
(* it, maps the code there one memory range at a time and compares the two *)
(* views.  No lock is held: virtmemLock is empty, and the steps below are  *)
(* the points where another thread can run.                                *)
(*                                                                         *)
(* Code addresses are words; PageSize words make a page.  The ASLR region  *)
(* is the pages 0..AslrSize-1.                                             *)
(***************************************************************************)
EXTENDS Integers, FiniteSets

CONSTANTS
  Threads,        \* threads that construct and destroy RwPages objects
  Objs,           \* the RwPages objects
  Nodes,          \* reservation nodes malloc can hand out, numbers
  PageSize,       \* words in a page
  AslrSize,       \* pages of the ASLR region
  Forbidden,      \* pages of the alias and heap regions
  Requests,       \* constructor arguments: records [ro, size] in words
  RegionEnd,      \* code page |-> end page of the memory range it is in
  MaxAttempts,    \* RANDOM_MAX_ATTEMPTS
  GameConcurrent, \* the game maps memory while a thread is in these calls
  MoveAssigned,   \* objects are also assigned to with operator=(RwPages&&)
  Game,           \* a page mapped by the game, not by an alias
  None            \* no object, no page, no claim

AslrPages == 0 .. AslrSize - 1

RoPage(addr) == addr \div PageSize                         \* GetAlignedRo
Pages(size) == (size + PageSize - 1) \div PageSize         \* GetAlignedSize
Span(first, n) == first .. first + n - 1

Claims == [ro : Nat, rw : Nat, size : Nat, node : Nodes \cup {None}]
CodePages == UNION {Span(RoPage(q.ro), Pages(q.size)) : q \in Requests}

ASSUME RwPagesAssumption ==
  /\ PageSize \in Nat \ {0} /\ AslrSize \in Nat \ {0}
  /\ MaxAttempts \in Nat \ {0}
  /\ Forbidden \subseteq AslrPages
  /\ Requests \subseteq [ro : Nat, size : Nat \ {0}]
  /\ RegionEnd \in [CodePages -> Nat]
  /\ \A p \in CodePages : RegionEnd[p] > p
  /\ Nodes \subseteq Nat
  /\ \A S \in SUBSET AslrPages : None # S
  /\ None \notin Nat /\ Game \notin Nat /\ None # Game /\ None \notin Objs \cup Claims
  /\ GameConcurrent \in BOOLEAN /\ MoveAssigned \in BOOLEAN

VARIABLES
  pc,       \* thread |-> where it is in the constructor or destructor
  obj,      \* thread |-> object it works on
  alignedRw,\* thread |-> first page of the slice it picked
  tries,    \* thread |-> attempts of _memregionFindRandom so far
  cursor,   \* thread |-> code page at which ForEachMemRange stands
  claim,    \* object |-> m_Claim, or None for storage never constructed
  owner,    \* object |-> m_Owner
  resv,     \* g_Reservations: node |-> set of reserved pages
  ptab,     \* page of the region |-> code page mapped there, Game or None
  abort     \* why the process aborted, "no" while it runs

threadVars == <<pc, obj, alignedRw, tries, cursor>>
vars == <<threadVars, claim, owner, resv, ptab, abort>>

Reserved == DOMAIN resv
At(t, l) == abort = "no" /\ pc[t] = l
Idle(t) == pc[t] = "idle"
Request(o) == [ro |-> claim[o].ro, size |-> claim[o].size]
First(o) == RoPage(claim[o].ro)
Count(o) == Pages(claim[o].size)
Goto(t, l) == pc' = [pc EXCEPT ![t] = l]
Abort(why) == abort' = why

\* The default member initialisers of Claim.
EmptyClaim == [ro |-> 0, rw |-> 0, size |-> 0, node |-> None]

Init ==
  /\ pc = [t \in Threads |-> "idle"]
  /\ obj = [t \in Threads |-> None]
  /\ alignedRw = [t \in Threads |-> 0]
  /\ tries = [t \in Threads |-> 0]
  /\ cursor = [t \in Threads |-> 0]
  /\ claim = [o \in Objs |-> None]
  /\ owner = [o \in Objs |-> FALSE]
  /\ resv = [n \in {} |-> {}]
  /\ ptab \in [AslrPages -> {None, Game}]
  /\ abort = "no"

-----------------------------------------------------------------------------
\* RwPages::RwPages(ro, size), from the claim to the comparison.

Begin(t, o, q) ==
  /\ At(t, "idle") /\ claim[o] = None
  /\ \A u \in Threads : obj[u] # o
  /\ claim' = [claim EXCEPT ![o] =
                [ro |-> q.ro, rw |-> 0, size |-> q.size, node |-> None]]
  /\ owner' = [owner EXCEPT ![o] = TRUE]
  /\ obj' = [obj EXCEPT ![t] = o]
  /\ tries' = [tries EXCEPT ![t] = 0]
  \* "size > region_size" returns NULL, and the constructor asserts.
  /\ IF Pages(q.size) > AslrSize
       THEN Abort("NoSpace") /\ UNCHANGED pc
       ELSE Goto(t, "pick") /\ UNCHANGED abort
  /\ UNCHANGED <<alignedRw, cursor, resv, ptab>>

\* The slices the random offset can fall on, and those the inner loop leaves
\* at once because they touch the alias or the heap region.
Offsets(n) == 0 .. AslrSize - n
AllowedAnywhere(n) == Offsets(n)                 \* mutant: regions not avoided
Allowed(n) == {p \in Offsets(n) : Span(p, n) \cap Forbidden = {}}

\* Mutants: the attempts are not limited, or not counted.
RetryForever(t) ==
  /\ tries' = [tries EXCEPT ![t] = @ + 1]
  /\ Goto(t, "pick")
  /\ UNCHANGED abort
RetryUncounted(t) == Goto(t, "pick") /\ UNCHANGED <<tries, abort>>

Retry(t) ==
  /\ tries' = [tries EXCEPT ![t] = @ + 1]
  /\ IF tries[t] + 1 = MaxAttempts
       THEN Abort("NoSpace") /\ UNCHANGED pc
       ELSE Goto(t, "pick") /\ UNCHANGED abort

\* Mutant: the page table is not asked.
PickUnasked(t) ==
  /\ At(t, "pick")
  /\ \E p \in Allowed(Count(obj[t])) : alignedRw' = [alignedRw EXCEPT ![t] = p]
  /\ Goto(t, "scan")
  /\ UNCHANGED <<obj, tries, cursor, claim, owner, resv, ptab, abort>>

\* Draw an allowed slice; _memregionIsMapped with a guard of zero.
Pick(t) ==
  /\ At(t, "pick")
  /\ \E p \in Allowed(Count(obj[t])) :
       /\ alignedRw' = [alignedRw EXCEPT ![t] = p]
       /\ IF \E x \in Span(p, Count(obj[t])) : ptab[x] # None
            THEN Retry(t)
            ELSE Goto(t, "scan") /\ UNCHANGED <<tries, abort>>
  /\ UNCHANGED <<obj, cursor, claim, owner, resv, ptab>>

\* The draw touched the alias or heap region: "continue" in for(;;).
Redraw(t) ==
  /\ At(t, "pick")
  /\ Offsets(Count(obj[t])) # Allowed(Count(obj[t]))
  /\ UNCHANGED vars

\* _memregionIsReserved.
Scan(t) ==
  /\ At(t, "scan")
  /\ IF \E n \in Reserved :
          resv[n] \cap Span(alignedRw[t], Count(obj[t])) # {}
       THEN Retry(t)
       ELSE Goto(t, "reserve") /\ UNCHANGED <<tries, abort>>
  /\ UNCHANGED <<obj, alignedRw, cursor, claim, owner, resv, ptab>>

\* virtmemAddReservation: a new node in front of the list.
AddReservation(n, pages) ==
  resv' = [m \in Reserved \cup {n} |-> IF m = n THEN pages ELSE resv[m]]

Reserve(t) ==
  /\ At(t, "reserve")
  /\ \/ /\ Nodes \subseteq Reserved           \* malloc returned NULL
        /\ Abort("NoMemory")
        /\ UNCHANGED <<threadVars, claim, resv>>
     \/ \E n \in Nodes \ Reserved :
          /\ \A m \in Nodes \ Reserved : n <= m
          /\ AddReservation(n, Span(alignedRw[t], Count(obj[t])))
          /\ claim' = [claim EXCEPT ![obj[t]].node = n]
          /\ cursor' = [cursor EXCEPT ![t] = First(obj[t])]
          /\ Goto(t, "map")
          /\ UNCHANGED <<obj, alignedRw, tries, abort>>
  /\ UNCHANGED <<owner, ptab>>

-----------------------------------------------------------------------------
\* ForEachMemRange: the part of the claim inside the current memory range.

End(o) == First(o) + Count(o)
RangeEnd(t) ==
  IF cursor[t] \in CodePages /\ RegionEnd[cursor[t]] < End(obj[t])
    THEN RegionEnd[cursor[t]] ELSE End(obj[t])
Range(t) == cursor[t] .. RangeEnd(t) - 1
Seen(x) == IF x \in AslrPages THEN ptab[x] ELSE None
Image(t, rw, p) == rw + (p - First(obj[t]))        \* alignedRw + offset

\* svcMapProcessMemory of one range; R_ABORT_UNLESS.
Map(t) ==
  /\ At(t, "map")
  /\ IF \A p \in Range(t) : Seen(Image(t, alignedRw[t], p)) = None
       THEN /\ ptab' = [x \in AslrPages |->
                 LET p == x - alignedRw[t] + First(obj[t])
                 IN  IF p \in Range(t) THEN p ELSE ptab[x]]
            /\ cursor' = [cursor EXCEPT ![t] = RangeEnd(t)]
            /\ IF RangeEnd(t) < End(obj[t]) THEN UNCHANGED pc ELSE Goto(t, "verify")
            /\ UNCHANGED abort
       ELSE Abort("Map") /\ UNCHANGED <<pc, cursor, ptab>>
  /\ UNCHANGED <<obj, alignedRw, tries, claim, owner, resv>>

\* The words a user of the claim reads and writes, as code pages, and the
\* page where it finds each of them.
\* (The mutant compares one word more.)
TouchedToEnd(o) == RoPage(claim[o].ro) .. RoPage(claim[o].ro + claim[o].size)
Touched(o) == RoPage(claim[o].ro) .. RoPage(claim[o].ro + claim[o].size - 1)
Alias(o, first, p) == first + (p - First(o))

\* m_Rw is set; memcmp of [m_Ro, m_Ro + size) with [m_Rw, m_Rw + size).  A
\* page that is not there faults; another page may or may not be equal.
Verify(t) ==
  LET o == obj[t]
      view(p) == Seen(Alias(o, alignedRw[t], p))
  IN
  /\ At(t, "verify")
  /\ IF \E p \in Touched(o) : view(p) = None
       THEN Abort("Fault") /\ UNCHANGED <<pc, obj, claim>>
       ELSE \/ /\ \E p \in Touched(o) : view(p) # p
               /\ Abort("Differs")
               /\ UNCHANGED <<pc, obj, claim>>
            \/ /\ claim' = [claim EXCEPT ![o].rw =
                     alignedRw[t] * PageSize + (claim[o].ro % PageSize)]
               /\ Goto(t, "idle")
               /\ obj' = [obj EXCEPT ![t] = None]
               /\ UNCHANGED abort
  /\ UNCHANGED <<alignedRw, tries, cursor, owner, resv, ptab>>

-----------------------------------------------------------------------------
\* RwPages::~RwPages().

Live(o) == claim[o] # None /\ \A t \in Threads : obj[t] # o

\* A moved-from object has nothing to do; an owner starts unmapping.
Destroy(t, o) ==
  /\ At(t, "idle") /\ Live(o)
  /\ IF owner[o]
       THEN /\ obj' = [obj EXCEPT ![t] = o]
            /\ cursor' = [cursor EXCEPT ![t] = First(o)]
            /\ Goto(t, "unmap")
            /\ UNCHANGED claim
       ELSE /\ claim' = [claim EXCEPT ![o] = None]
            /\ UNCHANGED <<obj, cursor, pc>>
  /\ UNCHANGED <<alignedRw, tries, owner, resv, ptab, abort>>

\* svcUnmapProcessMemory of one range; the kernel refuses an empty range and
\* a pair that is not mapped.
Unmap(t) ==
  LET rw == claim[obj[t]].rw \div PageSize IN      \* GetAlignedRw
  /\ At(t, "unmap")
  /\ IF Range(t) # {} /\ \A p \in Range(t) : Seen(Image(t, rw, p)) = p
       THEN /\ ptab' = [x \in AslrPages |->
                 IF x - rw + First(obj[t]) \in Range(t) THEN None ELSE ptab[x]]
            /\ cursor' = [cursor EXCEPT ![t] = RangeEnd(t)]
            /\ IF RangeEnd(t) < End(obj[t]) THEN UNCHANGED pc ELSE Goto(t, "release")
            /\ UNCHANGED abort
       ELSE Abort("Unmap") /\ UNCHANGED <<pc, cursor, ptab>>
  /\ UNCHANGED <<obj, alignedRw, tries, claim, owner, resv>>

\* virtmemRemoveReservation.
Release(t) ==
  /\ At(t, "release")
  /\ resv' = [n \in Reserved \ {claim[obj[t]].node} |-> resv[n]]
  /\ claim' = [claim EXCEPT ![obj[t]] = None]
  /\ owner' = [owner EXCEPT ![obj[t]] = FALSE]
  /\ obj' = [obj EXCEPT ![t] = None]
  /\ Goto(t, "idle")
  /\ UNCHANGED <<alignedRw, tries, cursor, ptab, abort>>

-----------------------------------------------------------------------------
\* Mutants: the claim is copied, or the ownership stays behind.
MoveConstructCopies(o, from) ==
  /\ abort = "no" /\ Live(from) /\ claim[o] = None
  /\ \A t \in Threads : obj[t] # o
  /\ claim' = [claim EXCEPT ![o] = claim[from]]
  /\ owner' = [owner EXCEPT ![o] = owner[from]]
  /\ UNCHANGED <<threadVars, resv, ptab, abort>>
MoveConstructDisowns(o, from) ==
  /\ abort = "no" /\ Live(from) /\ claim[o] = None
  /\ \A t \in Threads : obj[t] # o
  /\ claim' = [claim EXCEPT ![o] = claim[from], ![from] = EmptyClaim]
  /\ owner' = [owner EXCEPT ![from] = FALSE]
  /\ UNCHANGED <<threadVars, resv, ptab, abort>>

\* RwPages(RwPages&&): claim and ownership change hands.
MoveConstruct(o, from) ==
  /\ abort = "no" /\ Live(from) /\ claim[o] = None
  /\ \A t \in Threads : obj[t] # o
  /\ claim' = [claim EXCEPT ![o] = claim[from], ![from] = EmptyClaim]
  /\ owner' = [owner EXCEPT ![o] = owner[from], ![from] = FALSE]
  /\ UNCHANGED <<threadVars, resv, ptab, abort>>

\* operator=(RwPages&&): the claim changes hands, m_Owner of the target does
\* not change.
MoveAssign(o, from) ==
  /\ MoveAssigned /\ abort = "no"
  /\ o # from /\ Live(o) /\ Live(from)
  /\ claim' = [claim EXCEPT ![o] = claim[from], ![from] = EmptyClaim]
  /\ owner' = [owner EXCEPT ![from] = FALSE]
  /\ UNCHANGED <<threadVars, resv, ptab, abort>>

\* The game's own allocator maps and unmaps pages of the region and knows
\* nothing of the reservations.
GameMap(x) ==
  /\ abort = "no"
  /\ GameConcurrent \/ \A t \in Threads : Idle(t)
  /\ \/ ptab[x] = None /\ ptab' = [ptab EXCEPT ![x] = Game]
     \/ ptab[x] = Game /\ ptab' = [ptab EXCEPT ![x] = None]
  /\ UNCHANGED <<threadVars, claim, owner, resv, abort>>

Construct(t) == Pick(t) \/ Redraw(t) \/ Scan(t) \/ Reserve(t) \/ Map(t) \/ Verify(t)
Destruct(t) == Unmap(t) \/ Release(t)

Next ==
  \/ \E t \in Threads, o \in Objs : \E q \in Requests : Begin(t, o, q)
  \/ \E t \in Threads : Construct(t)
  \/ \E t \in Threads, o \in Objs : Destroy(t, o)
  \/ \E t \in Threads : Destruct(t)
  \/ \E o, from \in Objs : MoveConstruct(o, from)
  \/ \E o, from \in Objs : MoveAssign(o, from)
  \/ \E x \in AslrPages : GameMap(x)

Spec == Init /\ [][Next]_vars

\* A thread inside a constructor or destructor keeps running.
FairSpec == Spec /\ \A t \in Threads : WF_vars(Construct(t) \/ Destruct(t))

-----------------------------------------------------------------------------
Labels == {"idle", "pick", "scan", "reserve", "map", "verify", "unmap", "release"}
Reasons == {"no", "NoSpace", "NoMemory", "Map", "Fault", "Differs", "Unmap"}

\* Type invariant of the aliases, the reservation list and the page table.
TypeOK ==
  /\ pc \in [Threads -> Labels]
  /\ obj \in [Threads -> Objs \cup {None}]
  /\ alignedRw \in [Threads -> AslrPages]
  /\ tries \in [Threads -> 0 .. MaxAttempts]
  /\ cursor \in [Threads -> Nat]
  /\ claim \in [Objs -> {None} \cup Claims]
  /\ owner \in [Objs -> BOOLEAN]
  /\ Reserved \subseteq Nodes /\ resv \in [Reserved -> SUBSET AslrPages]
  /\ ptab \in [AslrPages -> CodePages \cup {Game, None}]
  /\ abort \in Reasons

\* A claim whose last word lies behind as many pages, from its first on, as its
\* size makes: where in its page it begins is not counted.
Overhangs(o) == (claim[o].ro % PageSize) + claim[o].size >
                  PageSize * ((claim[o].size + PageSize - 1) \div PageSize)

\* A finished alias shows, at every word of the claim, the code it was made
\* for: a patch written through GetRw() lands in the function being patched.
\* A claim that overhangs can pass for finished, beside another alias.
AliasShowsItsCode ==
  \A o \in Objs : Live(o) /\ owner[o] =>
    \A p \in Touched(o) \cap Span(First(o), Count(o)) :
      Seen(Alias(o, claim[o].rw \div PageSize, p)) = p

\* Code mapped into the region lies in a reservation some object or running
\* constructor will give back, so that no later search is handed the slice
\* and no alias outlives its owner.
InHand == {claim[o].node : o \in {o \in Objs : claim[o] # None /\ owner[o]}}
AliasesStayReserved ==
  /\ Reserved \subseteq InHand
  /\ \A x \in AslrPages : ptab[x] \in CodePages =>
       \E n \in Reserved : x \in resv[n]

\* Two reservations never share a page.
ReservationsDisjoint ==
  \A m, n \in Reserved : m # n => resv[m] \cap resv[n] = {}

\* The kernel never refuses to map or unmap an alias: the slice the search
\* returned is still free when it is used, and the destructor undoes exactly
\* what the constructor did, once.
KernelNeverRefuses == abort \notin {"Map", "Unmap"}

\* "Ensure the data at the different mapping is the same": the comparison at
\* the end of the constructor finds both views complete and equal, except for
\* a claim that is mapped one page short.
ViewsAgree ==
  abort \in {"Fault", "Differs"} => \E t \in Threads : ~Idle(t) /\ Overhangs(obj[t])

\* virtmemFindAslr answers, with a slice or with NULL, so a thread that
\* entered a constructor or destructor leaves it or the process aborts.
SearchEnds == \A t \in Threads : ~Idle(t) ~> (Idle(t) \/ abort # "no")

\* The reservation list is a register of exclusive leases.
Leases == [n \in Nodes |-> IF n \in Reserved THEN resv[n] ELSE None]
Lease == INSTANCE CodeLease WITH
  Slots <- Nodes,
  Usable <- AslrPages \ Forbidden,
  NoLease <- None,
  lease <- Leases

\* virtmem.h's contract: each reservation takes a slice nobody holds.
Exclusive == Lease!Spec

=============================================================================
