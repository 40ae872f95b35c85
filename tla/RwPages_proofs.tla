--------------------------- MODULE RwPages_proofs ---------------------------
(***************************************************************************)
(* Proofs about RwPages.                                                   *)
(*                                                                         *)
(* Typing says what the objects at work look like at every point of the    *)
(* constructor and destructor; TypeOK follows from it.  With one thread    *)
(* the slice a search returned is still free of reservations when it is    *)
(* reserved, hence reservations are disjoint and every step of the code is *)
(* a step of CodeLease.                                                    *)
(*                                                                         *)
(* With any number of threads slices may be reserved twice, yet no page is *)
(* taken from the alias that is mapped there: Shows(o, x, p) says that     *)
(* object o has mapped its code page p at page x and not unmapped it, and  *)
(* Shown that the page table agrees and no two objects show one page.      *)
(* Kept adds the reservation list to it, for objects that are not assigned *)
(* to, and Free what a thread that is alone finds when it comes to map.    *)
(***************************************************************************)
EXTENDS RwPages, TLAPS

-----------------------------------------------------------------------------
\* The object of a busy thread has been given the arguments of a request.
Busy(t) ==
  /\ obj[t] \in Objs
  /\ claim[obj[t]] # None
  /\ pc[t] # "unmap" /\ pc[t] # "release" => Request(obj[t]) \in Requests

\* What holds at each label of the constructor.
Located(t) ==
  /\ pc[t] # "idle" => Busy(t)
  /\ pc[t] = "idle" => obj[t] = None
  /\ pc[t] \in {"pick", "scan", "reserve"} => tries[t] < MaxAttempts
  /\ pc[t] \in {"scan", "reserve"} => alignedRw[t] \in Allowed(Count(obj[t]))
  /\ pc[t] = "map" => cursor[t] >= First(obj[t])

Owned == \A t, u \in Threads : t # u /\ obj[t] # None => obj[t] # obj[u]

Typing ==
  /\ TypeOK
  /\ Owned
  /\ abort = "no" => \A t \in Threads : Located(t)

-----------------------------------------------------------------------------
\* A request covers at least one page, and its first page is a page of code.
LEMMA RequestPages ==
  ASSUME NEW q \in Requests
  PROVE  /\ RoPage(q.ro) \in Nat
         /\ Pages(q.size) \in Nat \ {0}
         /\ Span(RoPage(q.ro), Pages(q.size)) \subseteq CodePages
<1>1. q.ro \in Nat /\ q.size \in Nat \ {0} /\ PageSize \in Nat \ {0}
  BY RwPagesAssumption
<1>2. RoPage(q.ro) \in Nat
  BY <1>1, SMT DEF RoPage
<1>3. Pages(q.size) \in Nat \ {0}
  BY <1>1, SMT DEF Pages
<1>4. Span(RoPage(q.ro), Pages(q.size)) \subseteq CodePages
  BY DEF CodePages
<1> QED BY <1>2, <1>3, <1>4

\* The page numbers of a claim, whatever its origin, are natural numbers.
LEMMA ClaimPages ==
  ASSUME NEW ro \in Nat, NEW size \in Nat
  PROVE  RoPage(ro) \in Nat /\ Pages(size) \in Nat
<1>1. PageSize \in Nat \ {0}
  BY RwPagesAssumption
<1>2. RoPage(ro) \in Nat
  BY <1>1, SMT DEF RoPage
<1>3. Pages(size) \in Nat
  BY <1>1, SMT DEF Pages
<1> QED BY <1>2, <1>3

LEMMA TypingInit == Init => Typing
<1> SUFFICES ASSUME Init PROVE Typing
  OBVIOUS
<1>1. TypeOK
  <2>1. 0 \in AslrPages /\ 0 \in 0 .. MaxAttempts
    BY RwPagesAssumption DEF AslrPages
  <2>2. DOMAIN resv = {} /\ resv \in [Reserved -> SUBSET AslrPages]
    BY DEF Init, Reserved
  <2>3. ptab \in [AslrPages -> CodePages \cup {Game, None}]
    BY DEF Init
  <2> QED BY <2>1, <2>2, <2>3 DEF Init, TypeOK, Labels, Reasons, Reserved
<1>2. Owned /\ \A t \in Threads : Located(t)
  BY DEF Init, Owned, Located
<1> QED BY <1>1, <1>2 DEF Typing

\* A step that leaves a thread and its object alone leaves it where it is.
LEMMA LocatedFrame ==
  ASSUME NEW u \in Threads, Located(u),
         pc'[u] = pc[u], obj'[u] = obj[u], tries'[u] = tries[u],
         alignedRw'[u] = alignedRw[u], cursor'[u] = cursor[u],
         obj[u] \in Objs => claim'[obj[u]] = claim[obj[u]]
  PROVE  Located(u)'
<1>1. CASE pc[u] = "idle"
  BY <1>1 DEF Located
<1>2. CASE pc[u] # "idle"
  <2>1. Busy(u) /\ obj[u] \in Objs /\ claim'[obj[u]] = claim[obj[u]]
    BY <1>2 DEF Located, Busy
  <2>2. /\ Request(obj[u])' = Request(obj[u])
        /\ First(obj[u])' = First(obj[u]) /\ Count(obj[u])' = Count(obj[u])
    BY <2>1 DEF Request, First, Count
  <2>3. Busy(u)'
    BY <2>1, <2>2 DEF Busy
  <2> QED BY <1>2, <2>2, <2>3 DEF Located
<1> QED BY <1>1, <1>2

-----------------------------------------------------------------------------
\* The searching steps leave every object and the page table alone.
LEMMA TypingBegin ==
  ASSUME Typing, NEW t \in Threads, NEW o \in Objs, NEW q \in Requests, Begin(t, o, q)
  PROVE  Typing'
<1> USE DEF Typing, At, Idle, Goto, Abort
<1>1. q \in [ro : Nat, size : Nat \ {0}] /\ 0 \in 0 .. MaxAttempts /\ 0 < MaxAttempts
  BY RwPagesAssumption
<1>2. TypeOK'
  <2>1. [ro |-> q.ro, rw |-> 0, size |-> q.size, node |-> None] \in Claims
    BY <1>1 DEF Claims
  <2>2. claim' \in [Objs -> {None} \cup Claims]
    BY <2>1 DEF Begin, TypeOK
  <2>3. pc' \in [Threads -> Labels] /\ abort' \in Reasons
    BY DEF Begin, TypeOK, Labels, Reasons
  <2>4. /\ obj' \in [Threads -> Objs \cup {None}]
        /\ tries' \in [Threads -> 0 .. MaxAttempts]
        /\ owner' \in [Objs -> BOOLEAN]
    BY <1>1 DEF Begin, TypeOK
  <2> QED BY <2>2, <2>3, <2>4 DEF Begin, TypeOK, Reserved
<1>3. Owned'
  BY DEF Begin, TypeOK, Owned
<1>4. ASSUME abort' = "no", NEW u \in Threads PROVE Located(u)'
  <2>1. CASE u = t
    <3>1. claim'[o] = [ro |-> q.ro, rw |-> 0, size |-> q.size, node |-> None]
      BY DEF Begin, TypeOK
    <3>2. Request(o)' = q
      BY <1>1, <3>1 DEF Request
    <3>3. claim'[o] # None
      BY <1>1, <3>1, RwPagesAssumption DEF Claims
    <3> QED BY <1>1, <1>4, <2>1, <3>2, <3>3 DEF Begin, TypeOK, Located, Busy
  <2>2. CASE u # t
    <3>1. Located(u) /\ obj[u] # o
      BY <1>4 DEF Begin
    <3>2. obj'[u] = obj[u] /\ pc'[u] = pc[u] /\ claim'[obj[u]] = claim[obj[u]]
      BY <2>2, <3>1 DEF Begin, TypeOK
    <3> QED BY <1>4, <2>2, <3>1, <3>2 DEF Begin, TypeOK, Located, Busy, Request, First, Count
  <2> QED BY <2>1, <2>2
<1> QED BY <1>2, <1>3, <1>4

LEMMA TypingSearch ==
  ASSUME Typing, NEW t \in Threads, Pick(t) \/ Scan(t)
  PROVE  Typing'
<1> USE DEF Typing, At, Goto, Abort, Retry
<1>1. Located(t) /\ obj[t] \in Objs /\ Request(obj[t]) \in Requests /\ tries[t] < MaxAttempts
  BY DEF Pick, Scan, Located, Busy
<1>2. Count(obj[t]) \in Nat \ {0}
  BY <1>1, RequestPages DEF Request, Count
<1>3. Allowed(Count(obj[t])) \subseteq AslrPages
  BY <1>2, RwPagesAssumption DEF Allowed, Offsets, AslrPages
<1>4. tries[t] + 1 \in 0 .. MaxAttempts
  BY <1>1, RwPagesAssumption DEF TypeOK
<1>5. tries[t] + 1 # MaxAttempts => tries[t] + 1 < MaxAttempts
  BY <1>1, <1>4, RwPagesAssumption DEF TypeOK
<1>6. CASE Pick(t)
  <2>1. TypeOK'
    BY <1>3, <1>4, <1>6 DEF Pick, TypeOK, Labels, Reasons, Reserved
  <2>2. Owned'
    BY <1>6 DEF Pick, Owned
  <2>3. ASSUME abort' = "no", NEW u \in Threads PROVE Located(u)'
    <3>1. CASE u = t
      BY <1>1, <1>5, <1>6, <2>3, <3>1 DEF Pick, TypeOK, Located, Busy, Request, Count
    <3>2. CASE u # t
      BY <1>6, <2>3, <3>2 DEF Pick, TypeOK, Located, Busy, Request, Count, First
    <3> QED BY <3>1, <3>2
  <2> QED BY <2>1, <2>2, <2>3
<1>7. CASE Scan(t)
  <2>1. TypeOK'
    BY <1>4, <1>7 DEF Scan, TypeOK, Labels, Reasons, Reserved
  <2>2. Owned'
    BY <1>7 DEF Scan, Owned
  <2>3. ASSUME abort' = "no", NEW u \in Threads PROVE Located(u)'
    <3>1. CASE u = t
      BY <1>1, <1>5, <1>7, <2>3, <3>1 DEF Scan, TypeOK, Located, Busy, Request, Count
    <3>2. CASE u # t
      BY <1>7, <2>3, <3>2 DEF Scan, TypeOK, Located, Busy, Request, Count, First
    <3> QED BY <3>1, <3>2
  <2> QED BY <2>1, <2>2, <2>3
<1> QED BY <1>6, <1>7

-----------------------------------------------------------------------------
\* The steps that reserve, map, compare, unmap and release.
LEMMA TypingReserve ==
  ASSUME Typing, NEW t \in Threads, Reserve(t)
  PROVE  Typing'
<1> USE DEF Typing, At, Goto, Abort
<1>1. Located(t) /\ obj[t] \in Objs /\ Request(obj[t]) \in Requests
  BY DEF Reserve, Located, Busy
<1>2. claim[obj[t]] \in Claims
  BY <1>1 DEF TypeOK, Reserve, Located, Busy
<1>3. First(obj[t]) \in Nat /\ Count(obj[t]) \in Nat \ {0}
  BY <1>1, RequestPages DEF Request, First, Count
<1>4. CASE UNCHANGED <<threadVars, claim, resv>>
  BY <1>4 DEF Reserve, TypeOK, Reasons, Reserved, Owned, Located, Busy, Request, First, Count,
              threadVars
<1>5. CASE \E n \in Nodes \ Reserved :
             /\ AddReservation(n, Span(alignedRw[t], Count(obj[t])))
             /\ claim' = [claim EXCEPT ![obj[t]].node = n]
             /\ cursor' = [cursor EXCEPT ![t] = First(obj[t])]
             /\ pc' = [pc EXCEPT ![t] = "map"]
             /\ UNCHANGED <<obj, alignedRw, tries, abort>>
  <2>1. PICK n \in Nodes \ Reserved :
             /\ AddReservation(n, Span(alignedRw[t], Count(obj[t])))
             /\ claim' = [claim EXCEPT ![obj[t]].node = n]
             /\ cursor' = [cursor EXCEPT ![t] = First(obj[t])]
             /\ pc' = [pc EXCEPT ![t] = "map"]
             /\ UNCHANGED <<obj, alignedRw, tries, abort>>
    BY <1>5
  <2>2. UNCHANGED <<owner, ptab>>
    BY DEF Reserve
  <2>3. Span(alignedRw[t], Count(obj[t])) \subseteq AslrPages
    BY <1>1, <1>3, RwPagesAssumption DEF Reserve, Located, Allowed, Offsets, Span, AslrPages
  <2>4. Reserved' = Reserved \cup {n} /\ resv' \in [Reserved' -> SUBSET AslrPages]
    BY <2>1, <2>3 DEF AddReservation, Reserved, TypeOK
  <2>5. /\ claim'[obj[t]] = [claim[obj[t]] EXCEPT !.node = n]
        /\ \A o \in Objs : o # obj[t] => claim'[o] = claim[o]
    BY <2>1, <1>1 DEF TypeOK
  <2>6. [claim[obj[t]] EXCEPT !.node = n] \in Claims
    BY <1>2, <2>1 DEF Claims
  <2>7. claim' \in [Objs -> {None} \cup Claims]
    BY <2>1, <2>6, <1>1 DEF TypeOK
  <2>8. TypeOK'
    BY <1>3, <2>1, <2>2, <2>4, <2>7 DEF TypeOK, Labels, Reserved
  <2>9. Owned'
    BY <2>1 DEF Owned
  <2>10. claim'[obj[t]] # None /\ Request(obj[t])' = Request(obj[t])
    BY <1>2, <2>1, <2>5, <2>6, RwPagesAssumption DEF Request, Claims
  <2>11. ASSUME abort' = "no", NEW u \in Threads PROVE Located(u)'
    <3>1. CASE u = t
      <4>1. First(obj[t])' = First(obj[t])
        BY <2>1, <2>10 DEF First, Request
      <4> QED BY <1>1, <1>3, <2>1, <2>10, <3>1, <4>1 DEF Located, Busy, TypeOK
    <3>2. CASE u # t
      <4>1. obj[u] # None => obj[u] # obj[t]
        BY <3>2 DEF Owned
      <4>2. obj[u] # None => obj[u] \in Objs /\ claim'[obj[u]] = claim[obj[u]]
        BY <4>1, <2>5 DEF TypeOK
      <4>3. /\ pc'[u] = pc[u] /\ obj'[u] = obj[u] /\ tries'[u] = tries[u]
            /\ alignedRw'[u] = alignedRw[u] /\ cursor'[u] = cursor[u]
        BY <2>1, <3>2 DEF TypeOK
      <4>4. Located(u) /\ (obj[u] \in Objs => obj[u] # None)
        BY RwPagesAssumption DEF Reserve
      <4> QED BY <4>2, <4>3, <4>4, LocatedFrame
    <3> QED BY <3>1, <3>2
  <2> QED BY <2>8, <2>9, <2>11
<1> QED BY <1>4, <1>5 DEF Reserve

\* ForEachMemRange moves forward inside the claim.
LEMMA RangeInside ==
  ASSUME Typing, NEW t \in Threads, obj[t] \in Objs, claim[obj[t]] \in Claims
  PROVE  /\ First(obj[t]) \in Nat /\ Count(obj[t]) \in Nat
         /\ RangeEnd(t) \in Nat /\ RangeEnd(t) <= End(obj[t])
         /\ cursor[t] >= First(obj[t]) => RangeEnd(t) >= First(obj[t])
<1>1. First(obj[t]) \in Nat /\ Count(obj[t]) \in Nat
  BY ClaimPages DEF Claims, First, Count
<1>2. End(obj[t]) \in Nat /\ End(obj[t]) >= First(obj[t])
  BY <1>1 DEF End
<1>3. cursor[t] \in Nat
  BY DEF Typing, TypeOK
<1>4. cursor[t] \in CodePages => RegionEnd[cursor[t]] \in Nat /\ RegionEnd[cursor[t]] > cursor[t]
  BY RwPagesAssumption
<1> QED BY <1>1, <1>2, <1>3, <1>4 DEF RangeEnd

LEMMA TypingMap ==
  ASSUME Typing, NEW t \in Threads, Map(t)
  PROVE  Typing'
<1> USE DEF Typing, At, Goto, Abort
<1>1. /\ Located(t) /\ obj[t] \in Objs /\ Request(obj[t]) \in Requests
      /\ claim[obj[t]] \in Claims /\ cursor[t] >= First(obj[t])
  BY DEF Map, Located, Busy, TypeOK
<1>2. /\ First(obj[t]) \in Nat /\ RangeEnd(t) \in Nat
      /\ RangeEnd(t) <= End(obj[t]) /\ RangeEnd(t) >= First(obj[t])
  BY <1>1, RangeInside
<1>3. Range(t) \subseteq CodePages
  <2>1. Span(First(obj[t]), Count(obj[t])) \subseteq CodePages /\ Count(obj[t]) \in Nat
    BY <1>1, RequestPages DEF Request, First, Count
  <2>2. Range(t) \subseteq Span(First(obj[t]), Count(obj[t]))
    BY <1>1, <1>2, <2>1 DEF Range, Span, End, TypeOK
  <2> QED BY <2>1, <2>2
<1>4. TypeOK'
  <2>1. ptab' \in [AslrPages -> CodePages \cup {Game, None}]
    BY <1>3 DEF Map, TypeOK
  <2>2. cursor' \in [Threads -> Nat] /\ pc' \in [Threads -> Labels] /\ abort' \in Reasons
    BY <1>2 DEF Map, TypeOK, Labels, Reasons
  <2> QED BY <2>1, <2>2 DEF Map, TypeOK, Reserved
<1>5. Owned'
  BY DEF Map, Owned
<1>6. ASSUME abort' = "no", NEW u \in Threads PROVE Located(u)'
  <2>1. CASE u = t
    BY <1>1, <1>2, <1>6, <2>1 DEF Map, TypeOK, Located, Busy, Request, Count, First
  <2>2. CASE u # t
    BY <1>6, <2>2 DEF Map, TypeOK, Located, Busy, Request, Count, First
  <2> QED BY <2>1, <2>2
<1> QED BY <1>4, <1>5, <1>6

LEMMA TypingVerify ==
  ASSUME Typing, NEW t \in Threads, Verify(t)
  PROVE  Typing'
<1> USE DEF Typing, At, Goto, Abort
<1>1. /\ Located(t) /\ obj[t] \in Objs /\ claim[obj[t]] # None /\ claim[obj[t]] \in Claims
      /\ \A u \in Threads : Located(u)
  BY DEF Verify, Located, Busy, TypeOK
<1>2. CASE UNCHANGED <<pc, obj, claim>> /\ abort' \in {"Fault", "Differs"}
  BY <1>2 DEF Verify, TypeOK, Reasons, Reserved, Owned
<1>3. CASE /\ claim' = [claim EXCEPT ![obj[t]].rw =
                 alignedRw[t] * PageSize + (claim[obj[t]].ro % PageSize)]
           /\ Goto(t, "idle")
           /\ obj' = [obj EXCEPT ![t] = None]
           /\ UNCHANGED abort
  <2>1. alignedRw[t] * PageSize + (claim[obj[t]].ro % PageSize) \in Nat
    <3>1. alignedRw[t] \in Nat /\ PageSize \in Nat \ {0} /\ claim[obj[t]].ro \in Nat
      BY <1>1, RwPagesAssumption DEF TypeOK, AslrPages, Claims
    <3>2. alignedRw[t] * PageSize \in Nat
      BY <3>1, SMT
    <3>3. claim[obj[t]].ro % PageSize \in Nat
      BY <3>1, SMT
    <3> QED BY <3>2, <3>3
  <2>2. claim' \in [Objs -> {None} \cup Claims]
    BY <1>1, <1>3, <2>1 DEF TypeOK, Claims
  <2>3. TypeOK'
    BY <1>3, <2>2 DEF Verify, TypeOK, Labels, Reserved
  <2>4. Owned'
    BY <1>3 DEF Owned, TypeOK
  <2>5. ASSUME NEW u \in Threads PROVE Located(u)'
    <3>1. CASE u = t
      BY <1>3, <3>1 DEF TypeOK, Located
    <3>2. CASE u # t
      <4>1. obj[u] \in Objs => obj[u] # obj[t]
        BY <3>2, RwPagesAssumption DEF Owned
      <4>2. obj[u] \in Objs => claim'[obj[u]] = claim[obj[u]]
        BY <1>3, <4>1 DEF TypeOK
      <4>3. /\ pc'[u] = pc[u] /\ obj'[u] = obj[u] /\ tries'[u] = tries[u]
            /\ alignedRw'[u] = alignedRw[u] /\ cursor'[u] = cursor[u]
        BY <1>3, <3>2 DEF Verify, TypeOK
      <4> QED BY <1>1, <4>2, <4>3, LocatedFrame
    <3> QED BY <3>1, <3>2
  <2> QED BY <2>3, <2>4, <2>5
<1> QED BY <1>2, <1>3 DEF Verify

LEMMA TypingDestroy ==
  ASSUME Typing, NEW t \in Threads, NEW o \in Objs, Destroy(t, o)
  PROVE  Typing'
<1> USE DEF Typing, At, Goto, Idle, Live
<1>1. /\ claim[o] # None /\ claim[o] \in Claims /\ obj[t] = None
      /\ \A u \in Threads : Located(u) /\ obj[u] # o
  BY DEF Destroy, Located, TypeOK
<1>2. First(o) \in Nat
  BY <1>1, ClaimPages DEF Claims, First
<1>3. TypeOK'
  BY <1>2 DEF Destroy, TypeOK, Labels, Reserved
<1>4. Owned'
  BY <1>1 DEF Destroy, Owned, TypeOK
<1>5. ASSUME NEW u \in Threads PROVE Located(u)'
  <2>1. CASE owner[o] /\ u = t
    BY <1>1, <2>1 DEF Destroy, TypeOK, Located, Busy
  <2>2. CASE ~owner[o] \/ u # t
    <3>1. /\ pc'[u] = pc[u] /\ obj'[u] = obj[u] /\ tries'[u] = tries[u]
          /\ alignedRw'[u] = alignedRw[u] /\ cursor'[u] = cursor[u]
      BY <2>2 DEF Destroy, TypeOK
    <3>2. obj[u] \in Objs => claim'[obj[u]] = claim[obj[u]]
      BY <1>1, <2>2 DEF Destroy, TypeOK
    <3> QED BY <1>1, <3>1, <3>2, LocatedFrame
  <2> QED BY <2>1, <2>2
<1> QED BY <1>3, <1>4, <1>5

LEMMA TypingUnmap ==
  ASSUME Typing, NEW t \in Threads, Unmap(t)
  PROVE  Typing'
<1> USE DEF Typing, At, Goto, Abort
<1>1. /\ obj[t] \in Objs /\ claim[obj[t]] # None /\ claim[obj[t]] \in Claims
      /\ \A u \in Threads : Located(u)
  BY DEF Unmap, Located, Busy, TypeOK
<1>2. RangeEnd(t) \in Nat
  BY <1>1, RangeInside
<1>3. TypeOK'
  <2>1. ptab' \in [AslrPages -> CodePages \cup {Game, None}]
    BY DEF Unmap, TypeOK
  <2>2. cursor' \in [Threads -> Nat] /\ pc' \in [Threads -> Labels] /\ abort' \in Reasons
    BY <1>2 DEF Unmap, TypeOK, Labels, Reasons
  <2> QED BY <2>1, <2>2 DEF Unmap, TypeOK, Reserved
<1>4. Owned'
  BY DEF Unmap, Owned
<1>5. ASSUME NEW u \in Threads PROVE Located(u)'
  <2>1. CASE u = t
    <3>1. pc'[t] \in {"unmap", "release"} /\ obj' = obj /\ claim' = claim
      BY DEF Unmap, TypeOK
    <3> QED BY <1>1, <2>1, <3>1 DEF Located, Busy
  <2>2. CASE u # t
    <3>1. /\ pc'[u] = pc[u] /\ obj'[u] = obj[u] /\ tries'[u] = tries[u]
          /\ alignedRw'[u] = alignedRw[u] /\ cursor'[u] = cursor[u] /\ claim' = claim
      BY <2>2 DEF Unmap, TypeOK
    <3> QED BY <1>1, <3>1, LocatedFrame
  <2> QED BY <2>1, <2>2
<1> QED BY <1>3, <1>4, <1>5

LEMMA TypingRelease ==
  ASSUME Typing, NEW t \in Threads, Release(t)
  PROVE  Typing'
<1> USE DEF Typing, At, Goto
<1>1. obj[t] \in Objs /\ \A u \in Threads : Located(u)
  BY DEF Release, Located, Busy
<1>2. TypeOK'
  <2>1. Reserved' \subseteq Nodes /\ resv' \in [Reserved' -> SUBSET AslrPages]
    BY DEF Release, TypeOK, Reserved
  <2> QED BY <2>1 DEF Release, TypeOK, Labels
<1>3. Owned'
  BY DEF Release, Owned, TypeOK
<1>4. ASSUME NEW u \in Threads PROVE Located(u)'
  <2>1. CASE u = t
    BY <2>1 DEF Release, TypeOK, Located
  <2>2. CASE u # t
    <3>1. obj[u] \in Objs => obj[u] # obj[t]
      BY <2>2, RwPagesAssumption DEF Owned
    <3>2. obj[u] \in Objs => claim'[obj[u]] = claim[obj[u]]
      BY <3>1 DEF Release, TypeOK
    <3>3. /\ pc'[u] = pc[u] /\ obj'[u] = obj[u] /\ tries'[u] = tries[u]
          /\ alignedRw'[u] = alignedRw[u] /\ cursor'[u] = cursor[u]
      BY <2>2 DEF Release, TypeOK
    <3> QED BY <1>1, <3>2, <3>3, LocatedFrame
  <2> QED BY <2>1, <2>2
<1> QED BY <1>2, <1>3, <1>4

-----------------------------------------------------------------------------
\* Objects only move while no thread works on them.
LEMMA TypingMoves ==
  ASSUME Typing, NEW o \in Objs, NEW from \in Objs,
         MoveConstruct(o, from) \/ MoveAssign(o, from)
  PROVE  Typing'
<1> USE DEF Typing, Live, MoveConstruct, MoveAssign, threadVars
<1>1. /\ claim[from] \in Claims /\ EmptyClaim \in Claims
      /\ \A u \in Threads : Located(u) /\ obj[u] # o /\ obj[u] # from
  BY DEF TypeOK, Claims, EmptyClaim
<1>2. claim' \in [Objs -> {None} \cup Claims]
  BY <1>1 DEF TypeOK
<1>3. TypeOK'
  BY <1>2 DEF TypeOK, Reserved
<1>4. Owned'
  BY DEF Owned
<1>5. ASSUME NEW u \in Threads PROVE Located(u)'
  <2>1. obj[u] \in Objs => claim'[obj[u]] = claim[obj[u]]
    BY <1>1 DEF TypeOK
  <2> QED BY <1>1, <2>1, LocatedFrame
<1> QED BY <1>3, <1>4, <1>5

LEMMA TypingStutter ==
  ASSUME Typing, UNCHANGED <<threadVars, claim, owner, resv, abort>>,
         ptab' = ptab \/ \E x \in AslrPages, v \in {Game, None} : ptab' = [ptab EXCEPT ![x] = v]
  PROVE  Typing'
<1> USE DEF Typing, threadVars
<1>1. TypeOK' /\ Owned'
  BY DEF TypeOK, Reserved, Owned
<1>2. ASSUME abort' = "no", NEW u \in Threads PROVE Located(u)'
  BY <1>2, LocatedFrame
<1> QED BY <1>1, <1>2

LEMMA TypingNext == Typing /\ [Next]_vars => Typing'
<1> SUFFICES ASSUME Typing, [Next]_vars PROVE Typing'
  OBVIOUS
<1>1. ASSUME NEW t \in Threads, Construct(t) PROVE Typing'
  <2>1. CASE Redraw(t)
    BY <2>1, TypingStutter DEF Redraw, vars
  <2> QED BY <1>1, <2>1, TypingSearch, TypingReserve, TypingMap, TypingVerify DEF Construct
<1>2. ASSUME NEW t \in Threads, Destruct(t) PROVE Typing'
  BY <1>2, TypingUnmap, TypingRelease DEF Destruct
<1>3. ASSUME NEW x \in AslrPages, GameMap(x) PROVE Typing'
  BY <1>3, TypingStutter DEF GameMap
<1>4. CASE UNCHANGED vars
  BY <1>4, TypingStutter DEF vars
<1> QED BY <1>1, <1>2, <1>3, <1>4, TypingBegin, TypingDestroy, TypingMoves DEF Next

\* The variables keep their types: whatever threads, objects and memory there
\* are, every slice the search picks lies in the region, every claim is made
\* of addresses and a node of the list, and the code the aliases show is code
\* that was asked for.
THEOREM TypeCorrect == Spec => []TypeOK
<1>1. Init => Typing
  BY TypingInit
<1>2. Typing /\ [Next]_vars => Typing'
  BY TypingNext
<1>3. Typing => TypeOK
  BY DEF Typing
<1> QED BY <1>1, <1>2, <1>3, PTL DEF Spec

-----------------------------------------------------------------------------
\* With one thread nothing comes between the search and the reservation.
SliceFree ==
  abort = "no" => \A t \in Threads : pc[t] = "reserve" =>
    \A n \in Reserved : resv[n] \cap Span(alignedRw[t], Count(obj[t])) = {}

Alone == Typing /\ ReservationsDisjoint /\ SliceFree

\* The steps that leave the list alone, and do not finish a search.
LEMMA AloneFrame ==
  ASSUME Alone, Typing', resv' = resv,
         \A t \in Threads : abort' = "no" /\ pc'[t] = "reserve" =>
           /\ abort = "no" /\ pc[t] = "reserve"
           /\ alignedRw'[t] = alignedRw[t] /\ obj'[t] = obj[t]
           /\ claim'[obj[t]] = claim[obj[t]]
  PROVE  Alone'
<1>1. ReservationsDisjoint'
  BY DEF Alone, ReservationsDisjoint, Reserved
<1>2. SliceFree'
  BY DEF Alone, SliceFree, Reserved, Count
<1> QED BY <1>1, <1>2 DEF Alone

\* A step of the code is a step of CodeLease, and keeps the invariant.
LEMMA AloneNext ==
  ASSUME NEW t, Threads = {t}, Alone, [Next]_vars
  PROVE  Alone' /\ [Lease!Next]_Leases
<1> USE DEF At, Goto, Abort, Retry, Idle
<1>1. Typing /\ Typing'
  BY TypingNext DEF Alone
<1>2. CASE Scan(t)
  <2>1. resv' = resv /\ UNCHANGED <<obj, alignedRw, claim>>
    BY <1>2 DEF Scan
  <2>2. ReservationsDisjoint'
    BY <2>1 DEF Alone, ReservationsDisjoint, Reserved
  <2>3. SliceFree'
    <3>1. CASE \E n \in Reserved : resv[n] \cap Span(alignedRw[t], Count(obj[t])) # {}
      BY <1>1, <1>2, <3>1 DEF Scan, SliceFree, Typing, TypeOK
    <3>2. CASE ~ \E n \in Reserved : resv[n] \cap Span(alignedRw[t], Count(obj[t])) # {}
      BY <2>1, <3>2 DEF SliceFree, Reserved, Count
    <3> QED BY <3>1, <3>2
  <2> QED BY <1>1, <2>1, <2>2, <2>3 DEF Alone, Leases, Reserved
<1>3. CASE Reserve(t) /\ resv' # resv
  <2> DEFINE pages == Span(alignedRw[t], Count(obj[t]))
  <2>1. PICK n \in Nodes \ Reserved : AddReservation(n, pages)
    BY <1>3 DEF Reserve
  <2>2. pc'[t] = "map"
    BY <1>1, <1>3 DEF Reserve, Typing, TypeOK
  <2>3. pages \subseteq AslrPages \ Forbidden
    <3>1. Located(t) /\ obj[t] \in Objs /\ Request(obj[t]) \in Requests
      BY <1>1, <1>3 DEF Reserve, Typing, Located, Busy
    <3>2. Count(obj[t]) \in Nat \ {0} /\ AslrSize \in Nat
      BY <3>1, RequestPages, RwPagesAssumption DEF Request, Count
    <3>3. alignedRw[t] \in Allowed(Count(obj[t]))
      BY <1>3, <3>1 DEF Reserve, Located
    <3>4. pages \subseteq AslrPages
      BY <3>2, <3>3 DEF Allowed, Offsets, Span, AslrPages
    <3> QED BY <3>3, <3>4 DEF Allowed
  <2>4. \A m \in Reserved : resv[m] \cap pages = {}
    BY <1>3 DEF Reserve, Alone, SliceFree
  <2>5. /\ Reserved' = Reserved \cup {n} /\ resv'[n] = pages
        /\ \A m \in Reserved : resv'[m] = resv[m]
    BY <2>1 DEF AddReservation, Reserved
  <2>6. ReservationsDisjoint'
    BY <2>4, <2>5 DEF Alone, ReservationsDisjoint
  <2>7. SliceFree'
    BY <2>2 DEF SliceFree
  <2>8. Lease!Acquire(n, pages)
    <3>1. Leases[n] = None
      BY <2>1 DEF Leases
    <3>2. \A h \in Lease!Held : Leases[h] \cap pages = {}
      BY <2>4 DEF Lease!Held, Leases
    <3>3. Leases' = [Leases EXCEPT ![n] = pages]
      BY <2>1, <2>5 DEF Leases
    <3> QED BY <2>3, <3>1, <3>2, <3>3 DEF Lease!Acquire
  <2>9. Lease!Next
    BY <2>1, <2>3, <2>8 DEF Lease!Next
  <2> QED BY <1>1, <2>6, <2>7, <2>9 DEF Alone
<1>4. CASE Release(t)
  <2> DEFINE n == claim[obj[t]].node
  <2>1. Reserved' = Reserved \ {n} /\ \A m \in Reserved' : resv'[m] = resv[m]
    BY <1>4 DEF Release, Reserved
  <2>2. pc'[t] = "idle"
    BY <1>1, <1>4 DEF Release, Typing, TypeOK
  <2>3. ReservationsDisjoint' /\ SliceFree'
    BY <2>1, <2>2 DEF Alone, ReservationsDisjoint, SliceFree
  <2>4. CASE n \in Reserved
    <3>1. n \in Nodes /\ Leases[n] # None
      BY <1>1, <2>4, RwPagesAssumption DEF Leases, Typing, TypeOK
    <3>2. Leases' = [Leases EXCEPT ![n] = None]
      BY <2>1, <3>1 DEF Leases
    <3>3. Lease!Next
      BY <3>1, <3>2 DEF Lease!Next, Lease!Return
    <3> QED BY <1>1, <2>3, <3>3 DEF Alone
  <2>5. CASE n \notin Reserved
    <3>1. Leases' = Leases
      BY <2>1, <2>5 DEF Leases
    <3> QED BY <1>1, <2>3, <3>1 DEF Alone
  <2> QED BY <2>4, <2>5
<1>5. CASE /\ resv' = resv
           /\ abort' = "no" /\ pc'[t] = "reserve" =>
                /\ abort = "no" /\ pc[t] = "reserve"
                /\ alignedRw'[t] = alignedRw[t] /\ obj'[t] = obj[t]
                /\ claim'[obj[t]] = claim[obj[t]]
  BY <1>1, <1>5, AloneFrame DEF Leases, Reserved
<1>6. ASSUME NEW o \in Objs, NEW q \in Requests, Begin(t, o, q)
      PROVE  resv' = resv /\ (abort' = "no" => pc'[t] # "reserve")
  BY <1>1, <1>6 DEF Begin, Typing, TypeOK
<1>7. ASSUME Pick(t) \/ Map(t) \/ Verify(t) \/ Unmap(t)
      PROVE  resv' = resv /\ (abort' = "no" => pc'[t] # "reserve")
  BY <1>1, <1>7 DEF Pick, Map, Verify, Unmap, Typing, TypeOK
<1>8. ASSUME NEW o \in Objs, Destroy(t, o)
      PROVE  resv' = resv /\ pc'[t] # "reserve"
  BY <1>1, <1>8 DEF Destroy, Typing, TypeOK
<1>9. ASSUME Redraw(t) \/ (Reserve(t) /\ resv' = resv) \/ UNCHANGED vars
      PROVE  /\ resv' = resv
             /\ UNCHANGED <<threadVars, claim, abort>> \/ abort' # "no"
  <2>1. CASE Reserve(t) /\ resv' = resv
    <3>1. ASSUME NEW n \in Nodes \ Reserved, AddReservation(n, Span(alignedRw[t], Count(obj[t])))
          PROVE  FALSE
      BY <2>1, <3>1 DEF AddReservation, Reserved
    <3> QED BY <2>1, <3>1 DEF Reserve
  <2> QED BY <1>9, <2>1 DEF Redraw, vars, threadVars
<1>10. ASSUME NEW o \in Objs, NEW from \in Objs,
             MoveConstruct(o, from) \/ MoveAssign(o, from)
       PROVE  /\ resv' = resv /\ UNCHANGED threadVars /\ abort = "no"
              /\ pc[t] = "reserve" => claim'[obj[t]] = claim[obj[t]]
  <2>1. obj[t] # o /\ obj[t] # from
    BY <1>10 DEF MoveConstruct, MoveAssign, Live
  <2>2. pc[t] = "reserve" => obj[t] \in Objs
    BY <1>1, <1>10 DEF MoveConstruct, MoveAssign, Typing, Located, Busy
  <2> QED BY <1>1, <1>10, <2>1, <2>2 DEF MoveConstruct, MoveAssign, Typing, TypeOK
<1>11. ASSUME NEW x \in AslrPages, GameMap(x)
       PROVE  resv' = resv /\ UNCHANGED <<threadVars, claim, abort>>
  BY <1>11 DEF GameMap
<1>12. CASE \E x \in Threads : Construct(x)
  BY <1>2, <1>3, <1>5, <1>7, <1>9, <1>12 DEF Construct, threadVars
<1>13. CASE \E x \in Threads : Destruct(x)
  BY <1>4, <1>5, <1>7, <1>13 DEF Destruct
<1>14. CASE \E o, from \in Objs : MoveConstruct(o, from) \/ MoveAssign(o, from)
  BY <1>5, <1>10, <1>14 DEF threadVars
<1>15. CASE (\E x \in AslrPages : GameMap(x)) \/ UNCHANGED vars
  BY <1>5, <1>9, <1>11, <1>15 DEF threadVars, vars
<1>16. CASE \E x \in Threads, o \in Objs : (\E q \in Requests : Begin(x, o, q)) \/ Destroy(x, o)
  BY <1>5, <1>6, <1>8, <1>16
<1> QED BY <1>12, <1>13, <1>14, <1>15, <1>16 DEF Next

\* While a single thread installs hooks and patches, no two reservations share
\* a page: the search of virtmemFindAslr and virtmemAddReservation cannot be
\* separated.
THEOREM DisjointAlone ==
  ASSUME NEW t, Threads = {t}
  PROVE  Spec => []ReservationsDisjoint
<1>1. Init => Alone
  BY TypingInit DEF Init, Alone, ReservationsDisjoint, SliceFree, Reserved
<1>2. Alone /\ [Next]_vars => Alone'
  BY AloneNext
<1>3. Alone => ReservationsDisjoint
  BY DEF Alone
<1> QED BY <1>1, <1>2, <1>3, PTL DEF Spec

\* While a single thread is at work, the constructor and destructor implement
\* the register of exclusive leases: a slice goes to one holder at a time,
\* never from the alias or heap region, until its destructor returns it.
THEOREM LeasesAlone ==
  ASSUME NEW t, Threads = {t}
  PROVE  Spec => Exclusive
<1>1. Init => Alone /\ Lease!Init
  <2>1. Init => Alone
    BY TypingInit DEF Init, Alone, ReservationsDisjoint, SliceFree, Reserved
  <2>2. Init => Lease!Init
    BY DEF Init, Lease!Init, Leases, Reserved
  <2> QED BY <2>1, <2>2
<1>2. Alone /\ [Next]_vars => Alone' /\ [Lease!Next]_Leases
  BY AloneNext
<1> QED BY <1>1, <1>2, PTL DEF Spec, Exclusive, Lease!Spec

-----------------------------------------------------------------------------
\* The address of a word is its page and its place in the page.
LEMMA PageOfWord ==
  ASSUME NEW page \in Nat, NEW rest \in Nat, rest < PageSize
  PROVE  (page * PageSize + rest) \div PageSize = page
<1>1. PageSize \in Nat \ {0}
  BY RwPagesAssumption
<1>2. page * PageSize \in Nat
  BY <1>1, SMT
<1> QED BY <1>1, <1>2, SMT

LEMMA PagesBelow ==
  ASSUME NEW a \in Nat, NEW n \in Nat, a < PageSize * n
  PROVE  a \div PageSize < n
<1>1. PageSize \in Nat \ {0}
  BY RwPagesAssumption
<1> DEFINE k == a \div PageSize
<1>2. k \in Nat /\ a >= PageSize * k
  BY <1>1, SMT
<1>3. ASSUME k >= n PROVE FALSE
  <2>1. PageSize * k >= PageSize * n
    BY <1>1, <1>2, <1>3, SMT
  <2> QED BY <1>1, <1>2, <2>1, SMT
<1> QED BY <1>2, <1>3

LEMMA PageAndRest ==
  ASSUME NEW a \in Nat
  PROVE  a = PageSize * (a \div PageSize) + (a % PageSize) /\ a % PageSize \in Nat
<1>1. PageSize \in Nat \ {0}
  BY RwPagesAssumption
<1>2. a % PageSize \in Nat
  BY <1>1, SMT
<1>3. a = PageSize * (a \div PageSize) + (a % PageSize)
  BY <1>1, SMT
<1> QED BY <1>2, <1>3

\* Unless it overhangs, every word of a claim lies in a page of the slice.
LEMMA TouchedInside ==
  ASSUME NEW o, claim[o] \in Claims, ~Overhangs(o), Count(o) > 0, NEW p \in Touched(o)
  PROVE  First(o) <= p /\ p < First(o) + Count(o)
<1> DEFINE ro == claim[o].ro
           size == claim[o].size
<1>1. ro \in Nat /\ size \in Nat /\ PageSize \in Nat \ {0}
  BY RwPagesAssumption DEF Claims
<1>2. First(o) \in Nat /\ Count(o) \in Nat
  BY <1>1, ClaimPages DEF First, Count
<1>3. (ro % PageSize) + size <= PageSize * Count(o)
  BY <1>1, <1>2, SMT DEF Overhangs, Count, Pages
<1>4. ro = PageSize * First(o) + (ro % PageSize) /\ (ro % PageSize) \in Nat
  BY <1>1, PageAndRest DEF First, RoPage
<1>5. size > 0
  <2>1. size = 0 => Count(o) = 0
    BY <1>1, SMT DEF Count, Pages
  <2> QED BY <1>1, <1>2, <2>1
<1>6. ro + size - 1 \in Nat /\ ro + size - 1 < PageSize * (First(o) + Count(o))
  <2>1. PageSize * (First(o) + Count(o)) = PageSize * First(o) + PageSize * Count(o)
    BY <1>1, <1>2, SMT
  <2>2. PageSize * First(o) \in Nat /\ PageSize * Count(o) \in Nat
    BY <1>1, <1>2, SMT
  <2> QED BY <1>1, <1>3, <1>4, <1>5, <2>1, <2>2
<1>7. (ro + size - 1) \div PageSize < First(o) + Count(o)
  BY <1>2, <1>6, PagesBelow
<1>8. (ro + size - 1) \div PageSize \in Nat
  BY <1>1, <1>6, SMT
<1> QED BY <1>2, <1>7, <1>8 DEF Touched, RoPage, First

\* The words of a claim lie in pages with a number.
LEMMA TouchedPages ==
  ASSUME NEW o, claim[o] \in Claims, NEW p \in Touched(o)
  PROVE  p \in Nat /\ p # None
<1>1. RoPage(claim[o].ro) \in Nat
  BY ClaimPages DEF Claims
<1>2. p \in Int /\ p >= RoPage(claim[o].ro)
  BY <1>1 DEF Touched
<1> QED BY <1>1, <1>2, RwPagesAssumption

-----------------------------------------------------------------------------
\* What an object shows: its code page p at page x of the region.
ShowsAt(t, x, p) ==
  LET o == obj[t]
  IN  \/ pc[t] = "map" /\ p \in First(o) .. cursor[t] - 1 /\ x = Alias(o, alignedRw[t], p)
      \/ pc[t] = "verify" /\ p \in First(o) .. End(o) - 1 /\ x = Alias(o, alignedRw[t], p)
      \/ /\ pc[t] = "unmap" /\ p \in cursor[t] .. End(o) - 1
         /\ x = Alias(o, claim[o].rw \div PageSize, p)
Shows(o, x, p) ==
  \/ Live(o) /\ p \in First(o) .. End(o) - 1 /\ x = Alias(o, claim[o].rw \div PageSize, p)
  \/ \E t \in Threads : obj[t] = o /\ ShowsAt(t, x, p)

\* It is mapped there, and no page is shown by two objects.
Mapped == \A o \in Objs : \A x, p : Shows(o, x, p) => x \in AslrPages /\ ptab[x] = p
Apart == \A o, u \in Objs : \A x, p, q : Shows(o, x, p) /\ Shows(u, x, q) => o = u
InRegion ==
  abort = "no" => \A t \in Threads : pc[t] = "map" => alignedRw[t] \in Offsets(Count(obj[t]))
Shown == Mapped /\ Apart /\ InRegion

LEMMA ClaimNumbers ==
  ASSUME TypeOK, NEW o \in Objs, claim[o] # None
  PROVE  /\ claim[o] \in Claims /\ First(o) \in Nat /\ Count(o) \in Nat
         /\ End(o) = First(o) + Count(o) /\ End(o) \in Nat
<1>1. claim[o] \in Claims
  BY DEF TypeOK
<1>2. First(o) \in Nat /\ Count(o) \in Nat
  BY <1>1, ClaimPages DEF Claims, First, Count
<1> QED BY <1>1, <1>2 DEF End

LEMMA NumberedPages == CodePages \subseteq Int /\ None \notin CodePages /\ Game \notin CodePages
<1> SUFFICES ASSUME NEW p \in CodePages PROVE p \in Nat
  BY RwPagesAssumption
<1>1. PICK q \in Requests : p \in Span(RoPage(q.ro), Pages(q.size))
  BY DEF CodePages
<1> QED BY <1>1, RequestPages DEF Span

\* What is shown is a page of code.
LEMMA ShownIsCode ==
  ASSUME TypeOK, abort = "no", \A t \in Threads : Located(t), NEW o \in Objs, NEW x, NEW p,
         Shows(o, x, p)
  PROVE  p \in Nat /\ p # None /\ p # Game /\ claim[o] # None
<1>1. claim[o] # None
  BY DEF Shows, ShowsAt, Live, Located, Busy
<1>2. First(o) \in Nat /\ End(o) \in Nat
  BY <1>1, ClaimNumbers
<1>3. p \in Nat
  <2>1. CASE Live(o) /\ p \in First(o) .. End(o) - 1
    BY <1>2, <2>1
  <2>2. ASSUME NEW t \in Threads, obj[t] = o, ShowsAt(t, x, p) PROVE p \in Nat
    <3>1. cursor[t] \in Nat
      BY DEF TypeOK
    <3> QED BY <1>2, <2>2, <3>1 DEF ShowsAt
  <2> QED BY <2>1, <2>2 DEF Shows
<1> QED BY <1>1, <1>3, RwPagesAssumption

\* An object under work shows what its thread has got to.
AsFarAs(t) == \A x, p : Shows(obj[t], x, p) <=> ShowsAt(t, x, p)

LEMMA WorkedShows ==
  ASSUME Owned, NEW t \in Threads, obj[t] \in Objs
  PROVE  AsFarAs(t)
<1>1. obj[t] # None
  BY RwPagesAssumption
<1>2. \A s \in Threads : obj[s] = obj[t] => s = t
  BY <1>1 DEF Owned
<1> QED BY <1>2 DEF AsFarAs, Shows, Live

LEMMA WorkedShowsNext ==
  ASSUME Owned', NEW t \in Threads, obj'[t] \in Objs
  PROVE  AsFarAs(t)'
<1>1. obj'[t] # None
  BY RwPagesAssumption
<1>2. \A s \in Threads : obj'[s] = obj'[t] => s = t
  BY <1>1 DEF Owned
<1> QED BY <1>2 DEF AsFarAs, Shows, Live

\* A step leaves what an object shows, or shows no more.
SameView(o) == \A x, p : Shows(o, x, p)' <=> Shows(o, x, p)
NoNewView(o) == \A x, p : Shows(o, x, p)' => Shows(o, x, p)
SameViews == \A o \in Objs : SameView(o)
NoNewViews == \A o \in Objs : NoNewView(o)

\* The steps of a thread leave the objects it does not work on alone.
WorksOn(t, o) ==
  /\ obj[t] \in {o, None} /\ obj'[t] \in {o, None}
  /\ \A s \in Threads : s # t =>
       /\ obj'[s] = obj[s] /\ pc'[s] = pc[s]
       /\ cursor'[s] = cursor[s] /\ alignedRw'[s] = alignedRw[s]
  /\ \A u \in Objs : u # o => claim'[u] = claim[u]

LEMMA OthersShow ==
  ASSUME NEW t \in Threads, NEW o, WorksOn(t, o), NEW u \in Objs, u # o
  PROVE  SameView(u)
<1> SUFFICES ASSUME NEW x, NEW p PROVE Shows(u, x, p)' <=> Shows(u, x, p)
  BY DEF SameView
<1>1. u # None /\ claim'[u] = claim[u]
  BY RwPagesAssumption DEF WorksOn
<1>2. \A s \in Threads : (obj'[s] = u <=> obj[s] = u) /\ (obj[s] = u => s # t)
  BY <1>1 DEF WorksOn
<1>3. Live(u)' <=> Live(u)
  BY <1>1, <1>2 DEF Live
<1>4. /\ First(u)' = First(u) /\ End(u)' = End(u)
      /\ Alias(u, claim[u].rw \div PageSize, p)' = Alias(u, claim[u].rw \div PageSize, p)
  BY <1>1 DEF First, Count, End, Alias
<1>5. ASSUME NEW s \in Threads, obj[s] = u PROVE ShowsAt(s, x, p)' <=> ShowsAt(s, x, p)
  BY <1>1, <1>2, <1>4, <1>5 DEF ShowsAt, Alias, First, Count, End, WorksOn
<1> QED BY <1>2, <1>3, <1>4, <1>5 DEF Shows

LEMMA ViewsOfOne ==
  ASSUME NEW t \in Threads, NEW o \in Objs, WorksOn(t, o)
  PROVE  (SameView(o) => SameViews) /\ (NoNewView(o) => NoNewViews)
<1>1. ASSUME NEW u \in Objs, u # o PROVE SameView(u) /\ NoNewView(u)
  <2>1. SameView(u)
    BY <1>1, OthersShow
  <2> QED BY <2>1 DEF SameView, NoNewView
<1> QED BY <1>1 DEF SameViews, NoNewViews

\* The steps that map and unmap nothing.
LEMMA BeginShows ==
  ASSUME Typing, NEW t \in Threads, NEW o \in Objs, NEW q \in Requests, Begin(t, o, q)
  PROVE  SameViews
<1>1. /\ abort = "no" /\ pc[t] = "idle" /\ claim[o] = None /\ \A u \in Threads : obj[u] # o
      /\ obj' = [obj EXCEPT ![t] = o] /\ UNCHANGED <<cursor, alignedRw>>
      /\ pc' = pc \/ pc' = [pc EXCEPT ![t] = "pick"]
      /\ \A u \in Objs : u # o => claim'[u] = claim[u]
  BY DEF Begin, At, Goto, Typing, TypeOK
<1>2. obj \in [Threads -> Objs \cup {None}] /\ pc \in [Threads -> Labels] /\ obj[t] = None
  BY <1>1 DEF Typing, TypeOK, Located
<1>3. WorksOn(t, o)
  BY <1>1, <1>2 DEF WorksOn
<1>4. ASSUME NEW x, NEW p PROVE ~Shows(o, x, p) /\ ~Shows(o, x, p)'
  <2>1. ~Shows(o, x, p)
    BY <1>1 DEF Shows, Live
  <2>2. obj'[t] = o /\ \A s \in Threads : s # t => obj'[s] # o
    BY <1>1, <1>2
  <2>3. pc'[t] \in {"idle", "pick"}
    BY <1>1, <1>2
  <2>4. ~Live(o)' /\ ~ShowsAt(t, x, p)'
    BY <2>2, <2>3 DEF Live, ShowsAt
  <2> QED BY <2>1, <2>2, <2>4 DEF Shows
<1>5. SameView(o)
  BY <1>4 DEF SameView
<1> QED BY <1>3, <1>5, ViewsOfOne

\* A thread that stays with its object and leaves its claim, but for the node.
LEMMA StageShows ==
  ASSUME Typing, Typing', NEW t \in Threads, obj[t] \in Objs, obj' = obj,
         \A s \in Threads : s # t =>
           pc'[s] = pc[s] /\ cursor'[s] = cursor[s] /\ alignedRw'[s] = alignedRw[s],
         \A u \in Objs : u # obj[t] => claim'[u] = claim[u],
         \A x, p : ShowsAt(t, x, p)' <=> ShowsAt(t, x, p)
  PROVE  SameViews
<1>1. PICK o \in Objs : o = obj[t] /\ o = obj'[t]
  OBVIOUS
<1>2. WorksOn(t, o)
  BY <1>1 DEF WorksOn
<1>3. AsFarAs(t) /\ AsFarAs(t)'
  BY <1>1, WorkedShows, WorkedShowsNext DEF Typing
<1>4. SameView(o)
  BY <1>1, <1>3 DEF AsFarAs, SameView
<1> QED BY <1>2, <1>4, ViewsOfOne

LEMMA SearchShows ==
  ASSUME Typing, Typing', NEW t \in Threads, Pick(t) \/ Scan(t) \/ Redraw(t) \/ Reserve(t)
  PROVE  SameViews
<1>1. /\ abort = "no" /\ pc[t] \in {"pick", "scan", "reserve"} /\ obj' = obj
      /\ \A s \in Threads : s # t =>
           pc'[s] = pc[s] /\ cursor'[s] = cursor[s] /\ alignedRw'[s] = alignedRw[s]
      /\ \A u \in Objs : u # obj[t] => claim'[u] = claim[u]
  BY DEF Pick, Scan, Redraw, Reserve, Retry, Abort, At, Goto, vars, threadVars, Typing, TypeOK
<1>2. obj[t] \in Objs /\ claim[obj[t]] # None /\ pc \in [Threads -> Labels] /\ cursor[t] \in Nat
      /\ claim \in [Objs -> {None} \cup Claims]
  BY <1>1 DEF Typing, TypeOK, Located, Busy
<1>3. ASSUME NEW x, NEW p PROVE ~ShowsAt(t, x, p) /\ ~ShowsAt(t, x, p)'
  <2>1. ~ShowsAt(t, x, p)
    BY <1>1 DEF ShowsAt
  <2>2. CASE pc'[t] \in {"pick", "scan", "reserve"}
    BY <2>1, <2>2 DEF ShowsAt
  <2>3. CASE pc'[t] = "map"
    <3>1. cursor'[t] = First(obj[t]) /\ \E n \in Nodes : claim' = [claim EXCEPT ![obj[t]].node = n]
      BY <1>1, <1>2, <2>3 DEF Pick, Scan, Redraw, Reserve, Retry, Goto, vars, threadVars,
           Typing, TypeOK
    <3>2. First(obj[t])' = First(obj[t]) /\ First(obj[t]) \in Nat
      BY <1>1, <1>2, <3>1, ClaimNumbers DEF First, Typing, Claims
    <3> QED BY <1>1, <2>3, <3>1, <3>2 DEF ShowsAt
  <2>4. pc'[t] \in {"pick", "scan", "reserve", "map"}
    BY <1>1, <1>2 DEF Pick, Scan, Redraw, Reserve, Retry, Goto, vars, threadVars
  <2> QED BY <2>1, <2>2, <2>3, <2>4
<1> QED BY <1>1, <1>2, <1>3, StageShows

LEMMA VerifyShows ==
  ASSUME Typing, Typing', InRegion, NEW t \in Threads, Verify(t)
  PROVE  SameViews
<1>1. PICK o \in Objs : o = obj[t] /\ claim[o] # None /\ abort = "no" /\ pc[t] = "verify"
  BY DEF Verify, At, Typing, Located, Busy
<1>2. CASE abort' # "no"
  <2>1. UNCHANGED <<pc, obj, claim, alignedRw, cursor>>
    BY <1>1, <1>2 DEF Verify
  <2>2. \A x, p : ShowsAt(t, x, p)' <=> ShowsAt(t, x, p)
    BY <2>1 DEF ShowsAt, First, End, Count, Alias
  <2> QED BY <1>1, <2>1, <2>2, StageShows
<1>3. CASE abort' = "no"
  <2>1. /\ pc' = [pc EXCEPT ![t] = "idle"] /\ obj' = [obj EXCEPT ![t] = None]
        /\ UNCHANGED <<alignedRw, cursor>>
        /\ claim' = [claim EXCEPT ![o].rw = alignedRw[t] * PageSize + (claim[o].ro % PageSize)]
    BY <1>1, <1>3 DEF Verify, Abort, Goto
  <2>2. /\ pc \in [Threads -> Labels] /\ obj \in [Threads -> Objs \cup {None}]
        /\ claim \in [Objs -> {None} \cup Claims] /\ claim[o] \in Claims
        /\ alignedRw[t] \in Nat
    BY <1>1, ClaimNumbers DEF Typing, TypeOK, AslrPages
  <2>3. WorksOn(t, o)
    BY <1>1, <2>1, <2>2 DEF WorksOn
  <2>4. Live(o)' /\ \A s \in Threads : obj'[s] # o
    <3>1. \A s \in Threads : s # t => obj[s] # o
      BY <1>1, RwPagesAssumption DEF Typing, Owned
    <3>2. o # None /\ claim'[o] # None
      <4>1. /\ claim'[o] \in Claims \cup {None}
            /\ claim'[o] = [claim[o] EXCEPT !.rw = alignedRw[t] * PageSize + (claim[o].ro % PageSize)]
        BY <2>1, <2>2 DEF Typing, TypeOK
      <4>2. claim[o].ro \in Nat /\ claim[o].size \in Nat /\ claim[o].node \in Nodes \cup {None}
        BY <2>2 DEF Claims
      <4>3. PageSize \in Nat \ {0}
        BY RwPagesAssumption
      <4>4. alignedRw[t] * PageSize + (claim[o].ro % PageSize) \in Nat
        <5>1. alignedRw[t] * PageSize \in Nat /\ claim[o].ro % PageSize \in Nat
          BY <2>2, <4>2, <4>3, SMT
        <5> QED BY <5>1
      <4>5. claim'[o] \in Claims
        BY <2>2, <4>1, <4>4 DEF Claims
      <4> QED BY <4>5, RwPagesAssumption
    <3> QED BY <2>1, <2>2, <3>1, <3>2 DEF Live
  <2>5. claim'[o].rw \div PageSize = alignedRw[t]
    <3>1. claim[o].ro \in Nat /\ claim[o].ro % PageSize \in Nat /\ claim[o].ro % PageSize < PageSize
      <4>1. claim[o].ro \in Nat /\ PageSize \in Nat \ {0}
        BY <2>2, RwPagesAssumption DEF Claims
      <4> QED BY <4>1, SMT
    <3>2. claim'[o].rw = alignedRw[t] * PageSize + (claim[o].ro % PageSize)
      BY <2>1, <2>2 DEF Claims
    <3> QED BY <2>2, <3>1, <3>2, PageOfWord
  <2>6. First(o)' = First(o) /\ End(o)' = End(o)
    BY <2>1, <2>2 DEF First, End, Count, Claims
  <2>7. ASSUME NEW x, NEW p PROVE Shows(o, x, p)' <=> ShowsAt(t, x, p)
    <3>1. Shows(o, x, p)' <=> p \in First(o) .. End(o) - 1 /\ x = alignedRw[t] + (p - First(o))
      BY <2>4, <2>5, <2>6 DEF Shows, Alias
    <3>2. ShowsAt(t, x, p) <=> p \in First(o) .. End(o) - 1 /\ x = alignedRw[t] + (p - First(o))
      BY <1>1 DEF ShowsAt, Alias
    <3> QED BY <3>1, <3>2
  <2>8. AsFarAs(t)
    BY <1>1, WorkedShows DEF Typing
  <2>9. SameView(o)
    BY <1>1, <2>7, <2>8 DEF AsFarAs, SameView
  <2> QED BY <2>3, <2>9, ViewsOfOne
<1> QED BY <1>2, <1>3

\* A destructor shows what the object did until it unmaps it; an object that
\* is no owner just goes.
LEMMA DestroyShows ==
  ASSUME Typing, NEW t \in Threads, NEW o \in Objs, Destroy(t, o)
  PROVE  NoNewViews /\ (owner[o] => SameViews)
<1>1. /\ abort = "no" /\ pc[t] = "idle" /\ Live(o) /\ claim[o] # None
      /\ \A s \in Threads : obj[s] # o
      /\ UNCHANGED alignedRw
  BY DEF Destroy, At, Live
<1>2. /\ pc \in [Threads -> Labels] /\ obj \in [Threads -> Objs \cup {None}]
      /\ cursor \in [Threads -> Nat] /\ claim \in [Objs -> {None} \cup Claims] /\ obj[t] = None
  BY <1>1 DEF Typing, TypeOK, Located
<1>3. CASE owner[o]
  <2>1. /\ obj' = [obj EXCEPT ![t] = o] /\ cursor' = [cursor EXCEPT ![t] = First(o)]
        /\ pc' = [pc EXCEPT ![t] = "unmap"] /\ claim' = claim
    BY <1>3 DEF Destroy, Goto
  <2>2. WorksOn(t, o)
    BY <1>1, <1>2, <2>1 DEF WorksOn
  <2>3. /\ obj'[t] = o /\ pc'[t] = "unmap" /\ cursor'[t] = First(o)
        /\ \A s \in Threads : s # t => obj'[s] # o
    BY <1>1, <1>2, <2>1
  <2>4. ASSUME NEW x, NEW p PROVE Shows(o, x, p)' <=> Shows(o, x, p)
    <3>1. Shows(o, x, p) <=>
            p \in First(o) .. End(o) - 1 /\ x = Alias(o, claim[o].rw \div PageSize, p)
      BY <1>1 DEF Shows
    <3>2. Shows(o, x, p)' <=> ShowsAt(t, x, p)'
      BY <2>3 DEF Shows, Live
    <3>3. ShowsAt(t, x, p)' <=>
            p \in First(o) .. End(o) - 1 /\ x = Alias(o, claim[o].rw \div PageSize, p)
      BY <2>1, <2>3 DEF ShowsAt, First, Count, End, Alias
    <3> QED BY <3>1, <3>2, <3>3
  <2>5. SameView(o) /\ NoNewView(o)
    BY <2>4 DEF SameView, NoNewView
  <2> QED BY <2>2, <2>5, ViewsOfOne
<1>4. CASE ~owner[o]
  <2>1. claim' = [claim EXCEPT ![o] = None] /\ UNCHANGED <<obj, cursor, pc>>
    BY <1>4 DEF Destroy
  <2>2. WorksOn(t, o)
    BY <1>1, <1>2, <2>1 DEF WorksOn
  <2>3. claim'[o] = None /\ \A s \in Threads : obj'[s] # o
    BY <1>1, <1>2, <2>1
  <2>4. NoNewView(o)
    BY <2>3 DEF NoNewView, Shows, Live
  <2> QED BY <1>4, <2>2, <2>4, ViewsOfOne
<1> QED BY <1>3, <1>4

LEMMA ReleaseShows ==
  ASSUME Typing, NEW t \in Threads, Release(t)
  PROVE  SameViews
<1>1. PICK o \in Objs : o = obj[t] /\ claim[o] # None /\ pc[t] = "release"
  BY DEF Release, At, Typing, Located, Busy
<1>2. /\ claim' = [claim EXCEPT ![o] = None] /\ obj' = [obj EXCEPT ![t] = None]
      /\ pc' = [pc EXCEPT ![t] = "idle"] /\ UNCHANGED <<alignedRw, cursor>>
  BY <1>1 DEF Release, Goto
<1>3. /\ pc \in [Threads -> Labels] /\ obj \in [Threads -> Objs \cup {None}]
      /\ claim \in [Objs -> {None} \cup Claims]
  BY DEF Typing, TypeOK
<1>4. WorksOn(t, o)
  BY <1>1, <1>2, <1>3 DEF WorksOn
<1>5. \A s \in Threads : obj'[s] # o
  <2>1. \A s \in Threads : s # t => obj[s] # o
    BY <1>1, RwPagesAssumption DEF Typing, Owned
  <2> QED BY <1>2, <1>3, <2>1, RwPagesAssumption
<1>6. claim'[o] = None
  BY <1>2, <1>3
<1>7. AsFarAs(t)
  BY <1>1, WorkedShows DEF Typing
<1>8. ASSUME NEW x, NEW p PROVE ~Shows(o, x, p) /\ ~Shows(o, x, p)'
  BY <1>1, <1>5, <1>6, <1>7 DEF AsFarAs, ShowsAt, Shows, Live
<1>9. SameView(o)
  BY <1>8 DEF SameView
<1> QED BY <1>4, <1>9, ViewsOfOne

\* svcMapProcessMemory: the claim shows one more range, of pages that were free.
Adds(t, o) ==
  /\ \A u \in Objs : u # o => SameView(u)
  /\ \A x, p : Shows(o, x, p)' =>
       Shows(o, x, p) \/ (p \in Range(t) /\ x = Alias(o, alignedRw[t], p))
  /\ \A x, p : p \in Range(t) /\ x = Alias(o, alignedRw[t], p) =>
       Shows(o, x, p)' /\ x \in AslrPages /\ ptab[x] = None /\ ptab'[x] = p
  /\ \A x \in AslrPages : ptab'[x] = ptab[x] \/
       \E p \in Range(t) : x = Alias(o, alignedRw[t], p)
  /\ RangeEnd(t) >= cursor[t] => \A x, p : Shows(o, x, p) => Shows(o, x, p)'

LEMMA MapAdds ==
  ASSUME Typing, Typing', InRegion, NEW t \in Threads, Map(t), abort' = "no",
         NEW o \in Objs, o = obj[t]
  PROVE  Adds(t, o)
<1>1. o = obj[t] /\ claim[o] # None /\ abort = "no" /\ pc[t] = "map"
                        /\ cursor[t] >= First(o)
  BY DEF Map, At, Typing, Located, Busy
<1>2. PICK a : a = alignedRw[t]
  OBVIOUS
<1>3. /\ \A p \in Range(t) : Seen(Image(t, a, p)) = None
      /\ ptab' = [x \in AslrPages |->
                    LET p == x - a + First(o) IN IF p \in Range(t) THEN p ELSE ptab[x]]
      /\ cursor' = [cursor EXCEPT ![t] = RangeEnd(t)]
      /\ IF RangeEnd(t) < End(o) THEN UNCHANGED pc ELSE pc' = [pc EXCEPT ![t] = "verify"]
      /\ UNCHANGED <<obj, alignedRw, claim>>
  BY <1>1, <1>2 DEF Map, Abort, Goto
<1>4. /\ First(o) \in Nat /\ Count(o) \in Nat /\ End(o) = First(o) + Count(o) /\ End(o) \in Nat
      /\ cursor[t] \in Nat /\ RangeEnd(t) \in Nat
      /\ RangeEnd(t) <= End(o) /\ RangeEnd(t) >= First(o)
  BY <1>1, ClaimNumbers, RangeInside DEF Typing, TypeOK
<1>5. a \in 0 .. AslrSize - Count(o) /\ AslrSize \in Nat /\ a \in Nat
  BY <1>1, <1>2, <1>4, RwPagesAssumption DEF InRegion, Offsets
<1>6. /\ pc \in [Threads -> Labels] /\ cursor \in [Threads -> Nat]
      /\ cursor'[t] = RangeEnd(t) /\ obj'[t] = o /\ alignedRw'[t] = a
      /\ pc'[t] = IF RangeEnd(t) < End(o) THEN "map" ELSE "verify"
  BY <1>1, <1>2, <1>3 DEF Typing, TypeOK
<1>7. First(o)' = First(o) /\ End(o)' = End(o)
  BY <1>3 DEF First, End, Count
<1>8. AsFarAs(t) /\ AsFarAs(t)'
  BY <1>1, <1>3, WorkedShows, WorkedShowsNext DEF Typing
<1>9. ASSUME NEW x, NEW p
      PROVE  /\ Shows(o, x, p) <=> p \in First(o) .. cursor[t] - 1 /\ x = a + (p - First(o))
             /\ Shows(o, x, p)' <=> p \in First(o) .. RangeEnd(t) - 1 /\ x = a + (p - First(o))
  <2>1. ShowsAt(t, x, p) <=> p \in First(o) .. cursor[t] - 1 /\ x = a + (p - First(o))
    BY <1>1, <1>2 DEF ShowsAt, Alias
  <2>2. RangeEnd(t) < End(o) \/ RangeEnd(t) = End(o)
    BY <1>4
  <2>3. ShowsAt(t, x, p)' <=> p \in First(o) .. RangeEnd(t) - 1 /\ x = a + (p - First(o))
    BY <1>4, <1>6, <1>7, <2>2 DEF ShowsAt, Alias
  <2> QED BY <1>1, <1>6, <1>8, <2>1, <2>3 DEF AsFarAs
<1>10. Range(t) = cursor[t] .. RangeEnd(t) - 1
  BY DEF Range
<1>11. ASSUME NEW u \in Objs, u # o PROVE SameView(u)
  <2>1. WorksOn(t, o)
    BY <1>1, <1>3, <1>6 DEF WorksOn
  <2> QED BY <1>11, <2>1, OthersShow
<1>12. ASSUME NEW p \in Range(t), NEW x, x = a + (p - First(o))
       PROVE  Shows(o, x, p)' /\ x \in AslrPages /\ ptab[x] = None /\ ptab'[x] = p
  <2>1. p \in Int /\ First(o) <= p /\ p < RangeEnd(t) /\ p < End(o)
    BY <1>1, <1>4, <1>10
  <2>2. x \in AslrPages /\ x - a + First(o) = p
    BY <1>4, <1>5, <1>12, <2>1 DEF AslrPages
  <2>3. Seen(x) = None
    BY <1>1, <1>3, <1>12 DEF Image
  <2> QED BY <1>3, <1>4, <1>9, <1>12, <2>1, <2>2, <2>3 DEF Seen
<1>13. ASSUME NEW x \in AslrPages, ptab'[x] # ptab[x]
       PROVE  \E p \in Range(t) : x = a + (p - First(o))
  <2>1. x - a + First(o) \in Range(t)
    BY <1>3, <1>13
  <2>2. x = a + ((x - a + First(o)) - First(o))
    BY <1>4, <1>5 DEF AslrPages
  <2> QED BY <2>1, <2>2
<1>14. ASSUME NEW x, NEW p, Shows(o, x, p)'
       PROVE  Shows(o, x, p) \/ (p \in Range(t) /\ x = a + (p - First(o)))
  BY <1>4, <1>9, <1>10, <1>14
<1>15. ASSUME RangeEnd(t) >= cursor[t], NEW x, NEW p, Shows(o, x, p) PROVE Shows(o, x, p)'
  BY <1>4, <1>9, <1>15
<1>16. \A p : Alias(o, alignedRw[t], p) = a + (p - First(o))
  BY <1>1, <1>2 DEF Alias
<1>17. \A x, p : Shows(o, x, p)' =>
         Shows(o, x, p) \/ (p \in Range(t) /\ x = Alias(o, alignedRw[t], p))
  BY <1>1, <1>14, <1>16
<1>18. \A x, p : p \in Range(t) /\ x = Alias(o, alignedRw[t], p) =>
         Shows(o, x, p)' /\ x \in AslrPages /\ ptab[x] = None /\ ptab'[x] = p
  BY <1>1, <1>12, <1>16
<1>19. \A x \in AslrPages : ptab'[x] = ptab[x] \/
         \E p \in Range(t) : x = Alias(o, alignedRw[t], p)
  BY <1>13, <1>16
<1>20. RangeEnd(t) >= cursor[t] => \A x, p : Shows(o, x, p) => Shows(o, x, p)'
  BY <1>1, <1>15
<1>21. \A u \in Objs : u # o => SameView(u)
  BY <1>1, <1>11
<1> QED BY <1>17, <1>18, <1>19, <1>20, <1>21 DEF Adds

\* svcUnmapProcessMemory: the claim shows one range less, and only that goes.
Removes(o) ==
  /\ \A u \in Objs : u # o => SameView(u)
  /\ \A x, p : Shows(o, x, p)' =>
       Shows(o, x, p) /\ (x \in AslrPages => ptab'[x] = ptab[x])
  /\ \A x, p : Shows(o, x, p) =>
       Shows(o, x, p)' \/ (x \in AslrPages => ptab'[x] = None)
  /\ \A x \in AslrPages : ptab'[x] = ptab[x] \/
       (ptab'[x] = None /\ \E p : Shows(o, x, p))

LEMMA UnmapRemoves ==
  ASSUME Typing, Typing', NEW t \in Threads, Unmap(t), abort' = "no",
         NEW o \in Objs, o = obj[t]
  PROVE  Removes(o)
<1>1. o = obj[t] /\ claim[o] # None /\ abort = "no" /\ pc[t] = "unmap"
  BY DEF Unmap, At, Typing, Located, Busy
<1>2. PICK a : a = claim[o].rw \div PageSize
  OBVIOUS
<1>3. /\ Range(t) # {}
      /\ ptab' = [x \in AslrPages |-> IF x - a + First(o) \in Range(t) THEN None ELSE ptab[x]]
      /\ cursor' = [cursor EXCEPT ![t] = RangeEnd(t)]
      /\ IF RangeEnd(t) < End(o) THEN UNCHANGED pc ELSE pc' = [pc EXCEPT ![t] = "release"]
      /\ UNCHANGED <<obj, alignedRw, claim>>
  BY <1>1, <1>2 DEF Unmap, Abort, Goto
<1>4. /\ First(o) \in Nat /\ End(o) \in Nat
      /\ cursor[t] \in Nat /\ RangeEnd(t) \in Nat /\ RangeEnd(t) <= End(o)
  BY <1>1, ClaimNumbers, RangeInside DEF Typing, TypeOK
<1>5. a \in Int /\ cursor[t] < RangeEnd(t)
  <2>1. claim[o].rw \in Nat /\ PageSize \in Nat \ {0}
    BY <1>1, ClaimNumbers, RwPagesAssumption DEF Typing, Claims
  <2>2. a \in Int
    BY <1>2, <2>1, SMT
  <2>3. cursor[t] < RangeEnd(t)
    BY <1>3, <1>4 DEF Range
  <2> QED BY <2>2, <2>3
<1>6. /\ pc \in [Threads -> Labels] /\ cursor \in [Threads -> Nat]
      /\ cursor'[t] = RangeEnd(t) /\ obj'[t] = o
      /\ pc'[t] = IF RangeEnd(t) < End(o) THEN "unmap" ELSE "release"
  BY <1>1, <1>2, <1>3 DEF Typing, TypeOK
<1>7. First(o)' = First(o) /\ End(o)' = End(o) /\ claim'[o].rw \div PageSize = a
  BY <1>2, <1>3 DEF First, End, Count
<1>8. AsFarAs(t) /\ AsFarAs(t)'
  BY <1>1, <1>3, WorkedShows, WorkedShowsNext DEF Typing
<1>9. ASSUME NEW x, NEW p
      PROVE  /\ Shows(o, x, p) <=> p \in cursor[t] .. End(o) - 1 /\ x = a + (p - First(o))
             /\ Shows(o, x, p)' <=> p \in RangeEnd(t) .. End(o) - 1 /\ x = a + (p - First(o))
  <2>1. ShowsAt(t, x, p) <=> p \in cursor[t] .. End(o) - 1 /\ x = a + (p - First(o))
    BY <1>1, <1>2 DEF ShowsAt, Alias
  <2>2. RangeEnd(t) < End(o) \/ RangeEnd(t) = End(o)
    BY <1>4
  <2>3. ShowsAt(t, x, p)' <=> p \in RangeEnd(t) .. End(o) - 1 /\ x = a + (p - First(o))
    BY <1>4, <1>6, <1>7, <2>2 DEF ShowsAt, Alias
  <2> QED BY <1>1, <1>6, <1>8, <2>1, <2>3 DEF AsFarAs
<1>10. Range(t) = cursor[t] .. RangeEnd(t) - 1
  BY DEF Range
<1>11. ASSUME NEW u \in Objs, u # o PROVE SameView(u)
  <2>1. WorksOn(t, o)
    BY <1>1, <1>3, <1>6 DEF WorksOn
  <2> QED BY <1>11, <2>1, OthersShow
<1>12. ASSUME NEW x, NEW p, Shows(o, x, p)'
       PROVE  Shows(o, x, p) /\ (x \in AslrPages => ptab'[x] = ptab[x])
  <2>1. p \in RangeEnd(t) .. End(o) - 1 /\ x = a + (p - First(o))
    BY <1>9, <1>12
  <2>2. x - a + First(o) = p /\ p \notin Range(t) /\ p \in cursor[t] .. End(o) - 1
    BY <1>4, <1>5, <1>10, <2>1
  <2> QED BY <1>3, <1>9, <2>1, <2>2
<1>13. ASSUME NEW x, NEW p, Shows(o, x, p), ~Shows(o, x, p)', x \in AslrPages
       PROVE  ptab'[x] = None
  <2>1. p \in cursor[t] .. RangeEnd(t) - 1 /\ x = a + (p - First(o))
    BY <1>4, <1>9, <1>13
  <2>2. x - a + First(o) = p
    BY <1>4, <1>5, <2>1
  <2> QED BY <1>3, <1>10, <1>13, <2>1, <2>2
<1>14. ASSUME NEW x \in AslrPages, ptab'[x] # ptab[x]
       PROVE  ptab'[x] = None /\ \E p : Shows(o, x, p)
  <2>1. x - a + First(o) \in Range(t) /\ ptab'[x] = None
    BY <1>3, <1>14
  <2>2. PICK p : p = x - a + First(o)
    OBVIOUS
  <2>3. p \in cursor[t] .. End(o) - 1 /\ x = a + (p - First(o))
    BY <1>4, <1>5, <1>10, <2>1, <2>2 DEF AslrPages
  <2> QED BY <1>9, <2>1, <2>3
<1>15. \A u \in Objs : u # o => SameView(u)
  BY <1>11
<1>16. \A x, p : Shows(o, x, p)' =>
         Shows(o, x, p) /\ (x \in AslrPages => ptab'[x] = ptab[x])
  BY <1>12
<1>17. \A x, p : Shows(o, x, p) =>
         Shows(o, x, p)' \/ (x \in AslrPages => ptab'[x] = None)
  BY <1>13
<1>18. \A x \in AslrPages : ptab'[x] = ptab[x] \/
         (ptab'[x] = None /\ \E p : Shows(o, x, p))
  BY <1>14
<1> QED BY <1>15, <1>16, <1>17, <1>18 DEF Removes

\* A move takes what the object shows along, and leaves an empty claim.
Moved(o, from) ==
  /\ o # from
  /\ \A x, p : Shows(o, x, p)' => Shows(from, x, p)
  /\ \A x, p : Shows(from, x, p) => Shows(o, x, p)'
  /\ \A x, p : ~Shows(from, x, p)'
  /\ \A u \in Objs : u \notin {o, from} => SameView(u)

LEMMA NoPages == RoPage(0) \in Nat /\ Pages(0) = 0
<1>1. PageSize \in Nat \ {0}
  BY RwPagesAssumption
<1>2. Pages(0) = 0
  BY <1>1, SMT DEF Pages
<1> QED BY <1>2, ClaimPages

LEMMA MoveMoves ==
  ASSUME Typing, NEW o \in Objs, NEW from \in Objs,
         MoveConstruct(o, from) \/ MoveAssign(o, from)
  PROVE  Moved(o, from)
<1>1. /\ o # from /\ claim[from] # None /\ UNCHANGED <<threadVars, ptab>>
      /\ claim' = [claim EXCEPT ![o] = claim[from], ![from] = EmptyClaim]
      /\ \A t \in Threads : obj[t] # o /\ obj[t] # from
  BY DEF MoveConstruct, MoveAssign, Live
<1>2. UNCHANGED <<pc, obj, cursor, alignedRw>>
  BY <1>1 DEF threadVars
<1>3. claim'[o] = claim[from] /\ claim'[from] = EmptyClaim
      /\ \A u \in Objs : u \notin {o, from} => claim'[u] = claim[u]
  BY <1>1 DEF Typing, TypeOK
<1>4. ASSUME NEW x, NEW p PROVE Shows(o, x, p)' <=> Shows(from, x, p)
  <2>1. Shows(from, x, p) <=>
          p \in First(from) .. End(from) - 1 /\ x = Alias(from, claim[from].rw \div PageSize, p)
    BY <1>1 DEF Shows, Live
  <2>2. Shows(o, x, p)' <=>
          (p \in First(o) .. End(o) - 1 /\ x = Alias(o, claim[o].rw \div PageSize, p))'
    BY <1>1, <1>2, <1>3 DEF Shows, Live
  <2>3. First(o)' = First(from) /\ End(o)' = End(from)
    BY <1>3 DEF First, End, Count
  <2>4. (p \in First(o) .. End(o) - 1 /\ x = Alias(o, claim[o].rw \div PageSize, p))' <=>
          p \in First(from) .. End(from) - 1 /\ x = Alias(from, claim[from].rw \div PageSize, p)
    BY <1>3, <2>3 DEF Alias
  <2> QED BY <2>1, <2>2, <2>4
<1>5. ASSUME NEW x, NEW p, Shows(from, x, p)' PROVE FALSE
  <2>1. First(from)' \in Nat /\ End(from)' = First(from)'
    <3>1. First(from)' = RoPage(0) /\ Count(from)' = Pages(0)
      BY <1>3 DEF First, Count, EmptyClaim
    <3> QED BY <3>1, NoPages DEF End
  <2>2. p \in (First(from) .. End(from) - 1)'
    BY <1>1, <1>2, <1>5 DEF Shows
  <2> QED BY <2>1, <2>2
<1>6. ASSUME NEW u \in Objs, u \notin {o, from} PROVE SameView(u)
  <2> SUFFICES ASSUME NEW x, NEW p PROVE Shows(u, x, p)' <=> Shows(u, x, p)
    BY DEF SameView
  <2>1. claim'[u] = claim[u]
    BY <1>3, <1>6
  <2>2. /\ First(u)' = First(u) /\ End(u)' = End(u) /\ (Live(u)' <=> Live(u))
        /\ Alias(u, claim[u].rw \div PageSize, p)' = Alias(u, claim[u].rw \div PageSize, p)
    BY <1>2, <2>1 DEF First, Count, End, Alias, Live
  <2>3. ASSUME NEW s \in Threads, obj[s] = u PROVE ShowsAt(s, x, p)' <=> ShowsAt(s, x, p)
    BY <1>2, <2>1, <2>2, <2>3 DEF ShowsAt, Alias, First, Count, End
  <2> QED BY <1>2, <2>2, <2>3 DEF Shows
<1> QED BY <1>1, <1>4, <1>5, <1>6 DEF Moved

-----------------------------------------------------------------------------
\* What no step disturbs stays mapped, and shown by one object.
LEMMA ViewsKept ==
  ASSUME Typing, Shown, NoNewViews, abort = "no", ptab' = ptab
  PROVE  Mapped' /\ Apart'
<1>1. Mapped'
  BY DEF Shown, Mapped, NoNewViews, NoNewView
<1>2. Apart'
  BY DEF Shown, Apart, NoNewViews, NoNewView
<1> QED BY <1>1, <1>2

LEMMA GameViews ==
  ASSUME Typing, Shown, NEW y \in AslrPages, GameMap(y)
  PROVE  SameViews /\ Mapped' /\ Apart'
<1>1. /\ abort = "no" /\ ptab[y] \in {None, Game} /\ UNCHANGED <<pc, obj, cursor, alignedRw, claim>>
      /\ \A x \in AslrPages : x # y => ptab'[x] = ptab[x]
  BY DEF GameMap, threadVars, Typing, TypeOK
<1>2. SameViews
  BY <1>1 DEF SameViews, SameView, Shows, ShowsAt, Live, First, Count, End, Alias
<1>3. Mapped'
  <2> SUFFICES ASSUME NEW o \in Objs, NEW x, NEW p, Shows(o, x, p)'
               PROVE  x \in AslrPages /\ ptab'[x] = p
    BY DEF Mapped
  <2>1. Shows(o, x, p)
    BY <1>2 DEF SameViews, SameView
  <2>2. p # None /\ p # Game
    BY <1>1, <2>1, ShownIsCode DEF Typing
  <2>3. x \in AslrPages /\ ptab[x] = p
    BY <2>1 DEF Shown, Mapped
  <2> QED BY <1>1, <2>2, <2>3
<1>4. Apart'
  BY <1>2 DEF Shown, Apart, SameViews, SameView
<1> QED BY <1>2, <1>3, <1>4

LEMMA MapViews ==
  ASSUME Typing, Shown, abort = "no", NEW t, NEW o \in Objs, Adds(t, o)
  PROVE  Mapped' /\ Apart'
<1>2. ASSUME NEW u \in Objs, u # o, NEW x, NEW p, Shows(u, x, p)'
      PROVE  x \in AslrPages /\ ptab[x] = p /\ ptab'[x] = p /\ p # None /\ Shows(u, x, p)
  <2>1. Shows(u, x, p)
    BY <1>2 DEF Adds, SameView
  <2>2. x \in AslrPages /\ ptab[x] = p /\ p # None
    BY <2>1, ShownIsCode DEF Shown, Mapped, Typing
  <2> QED BY <2>1, <2>2 DEF Adds
<1>3. ASSUME NEW x, NEW p, Shows(o, x, p)'
      PROVE  x \in AslrPages /\ ptab'[x] = p /\ (Shows(o, x, p) \/ ptab[x] = None)
  <2>1. CASE Shows(o, x, p)
    <3>1. x \in AslrPages /\ ptab[x] = p /\ p # None
      BY <2>1, ShownIsCode DEF Shown, Mapped, Typing
    <3> QED BY <2>1, <3>1 DEF Adds
  <2>2. CASE p \in Range(t) /\ x = Alias(o, alignedRw[t], p)
    BY <2>2 DEF Adds
  <2> QED BY <1>3, <2>1, <2>2 DEF Adds
<1>4. Mapped'
  BY <1>2, <1>3 DEF Mapped
<1>5. Apart'
  <2> SUFFICES ASSUME NEW u \in Objs, NEW v \in Objs, NEW x, NEW p, NEW q,
                      Shows(u, x, p)', Shows(v, x, q)', u # v
               PROVE  FALSE
    BY DEF Apart
  <2>1. CASE u # o /\ v # o
    BY <1>2, <2>1 DEF Shown, Apart
  <2>2. CASE u = o /\ v # o
    BY <1>2, <1>3, <2>2 DEF Shown, Apart
  <2>3. CASE u # o /\ v = o
    BY <1>2, <1>3, <2>3 DEF Shown, Apart
  <2> QED BY <2>1, <2>2, <2>3
<1> QED BY <1>4, <1>5

LEMMA UnmapViews ==
  ASSUME Typing, Shown, abort = "no", NEW o \in Objs, Removes(o)
  PROVE  NoNewViews /\ Mapped' /\ Apart'
<1>1. NoNewViews
  <2> SUFFICES ASSUME NEW u \in Objs PROVE NoNewView(u)
    BY DEF NoNewViews
  <2> QED BY DEF Removes, NoNewView, SameView
<1>2. Mapped'
  <2> SUFFICES ASSUME NEW u \in Objs, NEW x, NEW p, Shows(u, x, p)'
               PROVE  x \in AslrPages /\ ptab'[x] = p
    BY DEF Mapped
  <2>1. Shows(u, x, p)
    BY <1>1 DEF NoNewViews, NoNewView
  <2>2. x \in AslrPages /\ ptab[x] = p
    BY <2>1 DEF Shown, Mapped
  <2>3. CASE u = o
    BY <2>2, <2>3 DEF Removes
  <2>4. CASE u # o
    <3>1. \A q : ~Shows(o, x, q)
      BY <2>1, <2>4 DEF Shown, Apart
    <3> QED BY <2>2, <3>1 DEF Removes
  <2> QED BY <2>3, <2>4
<1>3. Apart'
  BY <1>1 DEF Shown, Apart, NoNewViews, NoNewView
<1> QED BY <1>1, <1>2, <1>3

LEMMA MoveViews ==
  ASSUME Typing, Shown, NEW o \in Objs, NEW from \in Objs, Moved(o, from), ptab' = ptab
  PROVE  Mapped' /\ Apart'
<1>1. ASSUME NEW u \in Objs, NEW x, NEW p, Shows(u, x, p)'
      PROVE  u # from /\ (u = o => Shows(from, x, p)) /\ (u # o => Shows(u, x, p))
  BY <1>1 DEF Moved, SameView
<1>2. Mapped'
  <2> SUFFICES ASSUME NEW u \in Objs, NEW x, NEW p, Shows(u, x, p)'
               PROVE  x \in AslrPages /\ ptab'[x] = p
    BY DEF Mapped
  <2> QED BY <1>1 DEF Shown, Mapped
<1>3. Apart'
  <2> SUFFICES ASSUME NEW u \in Objs, NEW v \in Objs, NEW x, NEW p, NEW q,
                      Shows(u, x, p)', Shows(v, x, q)', u # v
               PROVE  FALSE
    BY DEF Apart
  <2>1. PICK a \in Objs : a = (IF u = o THEN from ELSE u)
    OBVIOUS
  <2>2. PICK b \in Objs : b = (IF v = o THEN from ELSE v)
    OBVIOUS
  <2>3. Shows(a, x, p) /\ Shows(b, x, q)
    BY <1>1, <2>1, <2>2
  <2>4. a # b
    BY <1>1, <2>1, <2>2
  <2> QED BY <2>3, <2>4 DEF Shown, Apart
<1> QED BY <1>2, <1>3

\* A constructor that maps came from its reservation, or maps already.
Mapping(t) ==
  /\ pc[t] = "map" /\ obj'[t] = obj[t] /\ alignedRw'[t] = alignedRw[t]
  /\ claim'[obj[t]] = claim[obj[t]]

LEMMA MappingNext ==
  ASSUME Typing, Typing', [Next]_vars, abort = "no", NEW t \in Threads, pc'[t] = "map"
  PROVE  Reserve(t) \/ Mapping(t)
<1> USE DEF At, Goto, Abort, Retry
<1>1. /\ pc \in [Threads -> Labels] /\ obj \in [Threads -> Objs \cup {None}]
      /\ alignedRw \in [Threads -> AslrPages] /\ claim \in [Objs -> {None} \cup Claims]
      /\ None \notin Objs
      /\ \A s \in Threads : Located(s)
  BY RwPagesAssumption DEF Typing, TypeOK
<1>2. pc[t] = "map" => obj[t] \in Objs
  BY <1>1 DEF Located, Busy
<1>3. \A s \in Threads : s # t /\ pc[t] = "map" => obj[s] # obj[t]
  BY <1>1, <1>2 DEF Typing, Owned
<1>4. ASSUME NEW s \in Threads, NEW o \in Objs, NEW q \in Requests, Begin(s, o, q)
      PROVE  Mapping(t)
  BY <1>1, <1>2, <1>4 DEF Begin, Mapping
<1>5. ASSUME NEW s \in Threads, Pick(s) \/ Redraw(s) \/ Scan(s) PROVE Mapping(t)
  BY <1>1, <1>2, <1>5 DEF Pick, Redraw, Scan, Mapping, vars, threadVars
<1>6. ASSUME NEW s \in Threads, Reserve(s), s # t PROVE Mapping(t)
  BY <1>1, <1>2, <1>3, <1>6 DEF Reserve, Mapping, threadVars
<1>7. ASSUME NEW s \in Threads, Map(s) \/ Unmap(s) PROVE Mapping(t)
  BY <1>1, <1>2, <1>7 DEF Map, Unmap, Mapping
<1>8. ASSUME NEW s \in Threads, Verify(s) \/ Release(s) PROVE Mapping(t)
  BY <1>1, <1>2, <1>3, <1>8 DEF Verify, Release, Mapping
<1>9. ASSUME NEW s \in Threads, NEW o \in Objs, Destroy(s, o) PROVE Mapping(t)
  BY <1>1, <1>2, <1>9 DEF Destroy, Mapping, Live
<1>10. ASSUME NEW o \in Objs, NEW from \in Objs, MoveConstruct(o, from) \/ MoveAssign(o, from)
       PROVE  Mapping(t)
  BY <1>1, <1>2, <1>10 DEF MoveConstruct, MoveAssign, Mapping, Live, threadVars
<1>11. ASSUME (\E x \in AslrPages : GameMap(x)) \/ UNCHANGED vars PROVE Mapping(t)
  BY <1>11 DEF GameMap, Mapping, vars, threadVars
<1>12. CASE \E s \in Threads : Construct(s) \/ Destruct(s)
  BY <1>5, <1>6, <1>7, <1>8, <1>12 DEF Construct, Destruct
<1> QED BY <1>4, <1>9, <1>10, <1>11, <1>12 DEF Next

LEMMA InRegionNext ==
  ASSUME Typing, Typing', InRegion, [Next]_vars, abort = "no"
  PROVE  InRegion'
<1>1. ASSUME NEW t \in Threads, pc'[t] = "map"
      PROVE  alignedRw'[t] \in Offsets(Count(obj[t]))'
  <2>1. CASE Mapping(t)
    <3>1. Count(obj[t])' = Count(obj[t])
      BY <2>1 DEF Mapping, Count
    <3> QED BY <2>1, <3>1 DEF InRegion, Mapping
  <2>2. CASE Reserve(t)
    <3>1. /\ alignedRw[t] \in Allowed(Count(obj[t])) /\ obj[t] \in Objs /\ claim[obj[t]] \in Claims
      BY <2>2, ClaimNumbers DEF Reserve, At, Typing, Located, Busy
    <3>2. obj' = obj /\ alignedRw' = alignedRw
      BY <2>2 DEF Reserve, threadVars
    <3>3. claim'[obj[t]].size = claim[obj[t]].size
      BY <2>2, <3>1 DEF Reserve, Claims, Typing, TypeOK
    <3>4. Count(obj[t])' = Count(obj[t])
      BY <3>2, <3>3 DEF Count
    <3> QED BY <3>1, <3>2, <3>4 DEF Allowed
  <2> QED BY <1>1, <2>1, <2>2, MappingNext
<1> QED BY <1>1 DEF InRegion, Offsets

-----------------------------------------------------------------------------
\* Every step keeps what the objects show.
LEMMA Stopped == ASSUME Typing, [Next]_vars, abort # "no" PROVE UNCHANGED vars
BY DEF Next, Construct, Destruct, Begin, Pick, Redraw, Scan, Reserve, Map, Verify, Destroy, Unmap,
       Release, MoveConstruct, MoveAssign, GameMap, At

\* A refused call leaves everything where it is.
LEMMA RefusedStep ==
  ASSUME NEW t, Map(t) \/ Unmap(t), abort = "no", abort' # "no"
  PROVE  UNCHANGED <<pc, obj, cursor, alignedRw, claim, ptab, owner, resv>>
BY DEF Map, Unmap

LEMMA StillViews ==
  ASSUME UNCHANGED <<pc, obj, cursor, alignedRw, claim>>
  PROVE  SameViews
BY DEF SameViews, SameView, Shows, ShowsAt, Live, First, Count, End, Alias

LEMMA ViewsNext ==
  ASSUME Typing, Typing', Shown, [Next]_vars, abort = "no"
  PROVE  Mapped' /\ Apart'
<1>1. SameViews => NoNewViews
  BY DEF SameViews, SameView, NoNewViews, NoNewView
<1>2. ASSUME NEW t \in Threads, NEW o \in Objs, NEW q \in Requests, Begin(t, o, q)
      PROVE  Mapped' /\ Apart'
  <2>1. ptab' = ptab
    BY <1>2 DEF Begin
  <2> QED BY <1>1, <1>2, <2>1, BeginShows, ViewsKept
<1>3. ASSUME NEW t \in Threads, Construct(t) \/ Destruct(t) PROVE Mapped' /\ Apart'
  <2>1. CASE Pick(t) \/ Scan(t) \/ Redraw(t) \/ Reserve(t)
    <3>1. ptab' = ptab
      BY <2>1 DEF Pick, Scan, Redraw, Reserve, vars
    <3> QED BY <1>1, <2>1, <3>1, SearchShows, ViewsKept
  <2>2. CASE Verify(t)
    <3>1. ptab' = ptab
      BY <2>2 DEF Verify
    <3> QED BY <1>1, <2>2, <3>1, VerifyShows, ViewsKept DEF Shown
  <2>3. CASE Release(t)
    <3>1. ptab' = ptab
      BY <2>3 DEF Release
    <3> QED BY <1>1, <2>3, <3>1, ReleaseShows, ViewsKept
  <2>4. CASE (Map(t) \/ Unmap(t)) /\ abort' # "no"
    <3>1. UNCHANGED <<pc, obj, cursor, alignedRw, claim, ptab>>
      BY <2>4, RefusedStep
    <3> QED BY <1>1, <3>1, StillViews, ViewsKept
  <2>5. CASE (Map(t) \/ Unmap(t)) /\ abort' = "no"
    <3>1. PICK o \in Objs : o = obj[t]
      BY <2>5 DEF Map, Unmap, At, Typing, Located, Busy
    <3>2. CASE Map(t)
      <4>1. Adds(t, o)
        BY <2>5, <3>1, <3>2, MapAdds DEF Shown
      <4> QED BY <4>1, MapViews
    <3>3. CASE Unmap(t)
      <4>1. Removes(o)
        BY <2>5, <3>1, <3>3, UnmapRemoves
      <4> QED BY <4>1, UnmapViews
    <3> QED BY <2>5, <3>2, <3>3
  <2> QED BY <1>3, <2>1, <2>2, <2>3, <2>4, <2>5 DEF Construct, Destruct
<1>4. ASSUME NEW t \in Threads, NEW o \in Objs, Destroy(t, o) PROVE Mapped' /\ Apart'
  <2>1. ptab' = ptab
    BY <1>4 DEF Destroy
  <2> QED BY <1>4, <2>1, DestroyShows, ViewsKept
<1>5. ASSUME NEW o \in Objs, NEW from \in Objs, MoveConstruct(o, from) \/ MoveAssign(o, from)
      PROVE  Mapped' /\ Apart'
  <2>1. ptab' = ptab
    BY <1>5 DEF MoveConstruct, MoveAssign
  <2> QED BY <1>5, <2>1, MoveMoves, MoveViews
<1>6. CASE UNCHANGED vars
  <2>1. UNCHANGED <<pc, obj, cursor, alignedRw, claim, ptab>>
    BY <1>6 DEF vars, threadVars
  <2> QED BY <1>1, <2>1, StillViews, ViewsKept
<1> QED BY <1>2, <1>3, <1>4, <1>5, <1>6, GameViews DEF Next

LEMMA ShownNext == Typing /\ Shown /\ [Next]_vars => Shown'
<1> SUFFICES ASSUME Typing, Shown, [Next]_vars PROVE Shown'
  OBVIOUS
<1>1. Typing'
  BY TypingNext
<1>2. CASE abort = "no"
  BY <1>1, <1>2, ViewsNext, InRegionNext DEF Shown
<1>3. CASE abort # "no"
  <2>1. UNCHANGED <<pc, obj, cursor, alignedRw, claim, ptab, abort>>
    BY <1>3, Stopped DEF vars, threadVars
  <2>2. SameViews
    BY <2>1, StillViews
  <2> QED BY <2>1, <2>2 DEF Shown, Mapped, Apart, InRegion, SameViews, SameView, Count
<1> QED BY <1>2, <1>3

LEMMA AlwaysShown == Spec => [](Typing /\ Shown)
<1>1. Init => Typing /\ Shown
  <2>1. Init => Typing
    BY TypingInit
  <2>2. Init => \A o \in Objs : \A x, p : ~Shows(o, x, p)
    BY DEF Init, Shows, ShowsAt, Live
  <2>3. Init => InRegion
    BY DEF Init, InRegion
  <2> QED BY <2>1, <2>2, <2>3 DEF Shown, Mapped, Apart
<1>2. Typing /\ Shown /\ [Next]_vars => (Typing /\ Shown)'
  BY TypingNext, ShownNext
<1> QED BY <1>1, <1>2, PTL DEF Spec

\* A patch written through GetRw() lands in the code being patched, however
\* many threads construct, move and destroy aliases and whatever the game maps
\* meanwhile: until the destructor of its owner unmaps it, nothing takes the
\* place of a finished alias.
THEOREM ShowsItsCode == Spec => []AliasShowsItsCode
<1>1. Typing /\ Shown => AliasShowsItsCode
  <2> SUFFICES ASSUME Typing, Shown, NEW o \in Objs, Live(o),
                      NEW p \in Touched(o) \cap Span(First(o), Count(o))
               PROVE  Seen(Alias(o, claim[o].rw \div PageSize, p)) = p
    BY DEF AliasShowsItsCode
  <2> DEFINE x == Alias(o, claim[o].rw \div PageSize, p)
  <2>1. p \in First(o) .. End(o) - 1
    <3>1. p \in Span(First(o), Count(o))
      OBVIOUS
    <3>2. First(o) \in Nat /\ Count(o) \in Nat
      BY ClaimNumbers DEF Typing, Live
    <3> QED BY <3>1, <3>2 DEF Span, End
  <2>2. Shows(o, x, p)
    BY <2>1 DEF Shows
  <2>3. x \in AslrPages /\ ptab[x] = p
    BY <2>2 DEF Shown, Mapped
  <2> QED BY <2>3 DEF Seen
<1> QED BY <1>1, AlwaysShown, PTL

LEMMA ComparisonFails ==
  ASSUME Typing, Shown, abort = "no", [Next]_vars, abort' \in {"Fault", "Differs"}
  PROVE  \E t \in Threads : Verify(t)
<1> USE DEF Abort, Retry
<1>1. ASSUME NEW t \in Threads, Construct(t) \/ Destruct(t) PROVE Verify(t)
  BY <1>1 DEF Construct, Destruct, Pick, Redraw, Scan, Reserve, Map, Unmap, Release, vars
<1> QED BY <1>1 DEF Next, Begin, Destroy, MoveConstruct, MoveAssign, GameMap, vars

LEMMA ViewsAgreeNext ==
  ASSUME Typing, Shown, ViewsAgree, [Next]_vars
  PROVE  ViewsAgree'
<1>1. CASE abort # "no"
  <2>1. UNCHANGED vars
    BY <1>1, Stopped
  <2> QED BY <2>1 DEF ViewsAgree, Idle, Overhangs, vars, threadVars
<1>2. CASE abort' \notin {"Fault", "Differs"}
  BY <1>2 DEF ViewsAgree
<1>3. CASE abort = "no" /\ abort' \in {"Fault", "Differs"}
  <2>1. PICK t \in Threads : Verify(t)
    BY <1>3, ComparisonFails
  <2>2. PICK o \in Objs : /\ o = obj[t] /\ claim[o] \in Claims /\ pc[t] = "verify"
                          /\ Request(o) \in Requests
    BY <2>1, ClaimNumbers DEF Verify, At, Typing, Located, Busy
  <2>3. /\ \E p \in Touched(o) : LET v == Seen(Alias(o, alignedRw[t], p)) IN v = None \/ v # p
        /\ UNCHANGED <<pc, obj, claim>>
    BY <1>3, <2>1, <2>2 DEF Verify, Abort
  <2>4. PICK p \in Touched(o) : Seen(Alias(o, alignedRw[t], p)) # p
    BY <2>2, <2>3, TouchedPages
  <2>5. Overhangs(o)
    <3> SUFFICES ASSUME ~Overhangs(o) PROVE FALSE
      OBVIOUS
    <3>1. Count(o) \in Nat \ {0} /\ First(o) \in Nat
      BY <2>2, RequestPages DEF Request, Count, First
    <3>2. p \in Nat
      BY <2>2, TouchedPages
    <3>3. First(o) <= p /\ p < First(o) + Count(o)
      BY <2>2, <3>1, TouchedInside
    <3>4. p \in First(o) .. End(o) - 1
      BY <3>1, <3>2, <3>3 DEF End
    <3>5. PICK x : x = Alias(o, alignedRw[t], p)
      OBVIOUS
    <3>6. Shows(o, x, p)
      BY <2>2, <3>4, <3>5 DEF Shows, ShowsAt
    <3>7. x \in AslrPages /\ ptab[x] = p
      BY <3>6 DEF Shown, Mapped
    <3> QED BY <2>4, <3>5, <3>7 DEF Seen
  <2>6. pc'[t] # "idle" /\ obj'[t] = o /\ Overhangs(o)'
    BY <2>2, <2>3, <2>5 DEF Overhangs
  <2> QED BY <2>6 DEF ViewsAgree, Idle
<1> QED BY <1>1, <1>2, <1>3

\* "Ensure the data at the different mapping is the same": among any number of
\* threads, and with the game at work, the comparison at the end of the
\* constructor only fails for a claim that is mapped one page short.
THEOREM ComparisonHolds == Spec => []ViewsAgree
<1>1. Init => ViewsAgree
  BY DEF Init, ViewsAgree
<1>2. Typing /\ Shown /\ ViewsAgree /\ [Next]_vars => ViewsAgree'
  BY ViewsAgreeNext
<1> QED BY <1>1, <1>2, AlwaysShown, PTL DEF Spec

-----------------------------------------------------------------------------
\* Without operator= every claim is a constructor's or empty, each node of the
\* list is in one claim, and an owner has one but while it searches.
Node(o) == claim[o].node
Built ==
  \A o \in Objs : claim[o] # None =>
    IF owner[o] THEN Request(o) \in Requests ELSE claim[o] = EmptyClaim
Listed ==
  \A o \in Objs : claim[o] # None /\ Node(o) # None => owner[o] /\ Node(o) \in Reserved
Distinct ==
  \A o, u \in Objs : claim[o] # None /\ claim[u] # None /\ o # u /\ Node(o) # None =>
    Node(o) # Node(u)
Handed == \A n \in Reserved : \E o \in Objs : claim[o] # None /\ owner[o] /\ Node(o) = n
Ledger == Built /\ Listed /\ Distinct /\ Handed

Stage(t) ==
  LET o == obj[t]
  IN  /\ pc[t] # "idle" => owner[o]
      /\ pc[t] \in {"pick", "scan", "reserve"} => Node(o) = None
      /\ pc[t] \in {"map", "verify", "unmap", "release"} => Node(o) # None
      /\ pc[t] \in {"map", "verify"} => resv[Node(o)] = Span(alignedRw[t], Count(o))
      /\ pc[t] \in {"map", "unmap"} => First(o) <= cursor[t] /\ cursor[t] < End(o)
Filed == \A o \in Objs : Live(o) /\ owner[o] => Node(o) # None
Staged == abort = "no" => Filed /\ \A t \in Threads : Stage(t)

\* What is shown lies in the reservation, and code is there because it is shown.
Within == \A o \in Objs : \A x, p : Shows(o, x, p) => Node(o) # None /\ x \in resv[Node(o)]
Covered == \A x \in AslrPages : ptab[x] \in CodePages => \E o \in Objs : \E p : Shows(o, x, p)

Kept == Ledger /\ Staged /\ Within /\ Covered /\ abort # "Unmap"

LEMMA KeptReserves == Typing /\ abort = "no" /\ Shown /\ Kept => AliasesStayReserved
<1> SUFFICES ASSUME Typing, abort = "no", Shown, Kept PROVE AliasesStayReserved
  OBVIOUS
<1>1. Reserved \subseteq InHand
  BY DEF Kept, Ledger, Handed, InHand, Node
<1>2. ASSUME NEW x \in AslrPages, ptab[x] \in CodePages
      PROVE  \E n \in Reserved : x \in resv[n]
  <2>1. PICK o \in Objs : \E p : Shows(o, x, p)
    BY <1>2 DEF Kept, Covered
  <2>2. claim[o] # None
    BY <2>1, ShownIsCode DEF Typing
  <2> QED BY <2>1, <2>2 DEF Kept, Within, Ledger, Listed
<1> QED BY <1>1, <1>2 DEF AliasesStayReserved

-----------------------------------------------------------------------------
\* The ledger: claims, ownership and the list.
LEMMA LedgerStays ==
  ASSUME Ledger, UNCHANGED <<claim, owner, resv>> PROVE Ledger'
BY DEF Ledger, Built, Listed, Distinct, Handed, Node, Request, Reserved

\* A new claim, without a node.
LEMMA LedgerBegin ==
  ASSUME Typing, Ledger, NEW t \in Threads, NEW o \in Objs, NEW q \in Requests, Begin(t, o, q)
  PROVE  Ledger'
<1>1. /\ claim[o] = None /\ resv' = resv
      /\ claim'[o] = [ro |-> q.ro, rw |-> 0, size |-> q.size, node |-> None] /\ owner'[o] = TRUE
      /\ \A u \in Objs : u # o => claim'[u] = claim[u] /\ owner'[u] = owner[u]
  BY DEF Begin, Typing, TypeOK
<1>2. Node(o)' = None /\ Request(o)' = q
  BY <1>1, RwPagesAssumption DEF Node, Request
<1>3. \A u \in Objs : u # o => Node(u)' = Node(u) /\ Request(u)' = Request(u)
  BY <1>1 DEF Node, Request
<1>4. Built'
  BY <1>1, <1>2, <1>3 DEF Ledger, Built
<1>5. Listed' /\ Distinct'
  BY <1>1, <1>2, <1>3 DEF Ledger, Listed, Distinct, Reserved
<1>6. Handed'
  BY <1>1, <1>2, <1>3 DEF Ledger, Handed, Reserved
<1> QED BY <1>4, <1>5, <1>6 DEF Ledger

\* The first free node goes into the claim and the list.
ReservesIn(o, n) ==
  /\ n \in Nodes \ Reserved /\ Reserved' = Reserved \cup {n}
  /\ \A m \in Reserved : resv'[m] = resv[m]
  /\ claim' = [claim EXCEPT ![o].node = n] /\ UNCHANGED owner

LEMMA NodeAlone ==
  ASSUME Typing, NEW o \in Objs, claim[o] # None, NEW n \in Nodes,
         claim' = [claim EXCEPT ![o].node = n]
  PROVE  /\ claim'[o] # None /\ Node(o)' = n /\ Request(o)' = Request(o)
         /\ First(o)' = First(o) /\ Count(o)' = Count(o) /\ End(o)' = End(o)
         /\ \A u \in Objs : u # o => claim'[u] = claim[u]
<1>1. claim \in [Objs -> {None} \cup Claims] /\ claim[o] \in Claims
  BY DEF Typing, TypeOK
<1>2. claim'[o] = [claim[o] EXCEPT !.node = n]
  BY <1>1
<1>3. claim'[o] \in Claims /\ claim'[o].node = n
      /\ claim'[o].ro = claim[o].ro /\ claim'[o].size = claim[o].size
  BY <1>1, <1>2 DEF Claims
<1>4. claim'[o] # None
  BY <1>3, RwPagesAssumption
<1> QED BY <1>1, <1>3, <1>4 DEF Node, Request, First, Count, End

LEMMA LedgerReserve ==
  ASSUME Typing, Ledger, NEW o \in Objs, claim[o] # None, owner[o], Node(o) = None,
         NEW n, ReservesIn(o, n)
  PROVE  Ledger'
<1>1. /\ claim'[o] # None /\ Node(o)' = n /\ Request(o)' = Request(o)
      /\ \A u \in Objs : u # o => claim'[u] = claim[u]
  BY NodeAlone DEF ReservesIn
<1>2. n # None /\ n \notin Reserved /\ Reserved' = Reserved \cup {n} /\ owner' = owner
  BY RwPagesAssumption DEF ReservesIn
<1>3. \A u \in Objs : u # o => Node(u)' = Node(u) /\ Request(u)' = Request(u)
  BY <1>1 DEF Node, Request
<1>4. Built'
  BY <1>1, <1>2, <1>3 DEF Ledger, Built
<1>5. Listed'
  BY <1>1, <1>2, <1>3 DEF Ledger, Listed
<1>6. Distinct'
  <2> SUFFICES ASSUME NEW u \in Objs, NEW v \in Objs, claim'[u] # None, claim'[v] # None, u # v,
                      Node(u)' # None
               PROVE  Node(u)' # Node(v)'
    BY DEF Distinct
  <2>1. ASSUME NEW w \in Objs, w # o, claim'[w] # None PROVE Node(w) # n
    BY <1>1, <1>2, <2>1 DEF Ledger, Listed
  <2> QED BY <1>1, <1>2, <1>3, <2>1 DEF Ledger, Distinct
<1>7. Handed'
  <2> SUFFICES ASSUME NEW m \in Reserved'
               PROVE  \E u \in Objs : claim'[u] # None /\ owner'[u] /\ Node(u)' = m
    BY DEF Handed
  <2>1. CASE m = n
    BY <1>1, <1>2, <2>1
  <2>2. CASE m # n
    <3>1. PICK u \in Objs : claim[u] # None /\ owner[u] /\ Node(u) = m
      BY <1>2, <2>2 DEF Ledger, Handed
    <3>2. m # None
      BY <1>2, <2>2, RwPagesAssumption DEF Typing, TypeOK
    <3> QED BY <1>1, <1>2, <1>3, <3>1, <3>2
  <2> QED BY <2>1, <2>2
<1> QED BY <1>4, <1>5, <1>6, <1>7 DEF Ledger

\* m_Rw changes and nothing else.
LEMMA LedgerVerify ==
  ASSUME Typing, Typing', Ledger, NEW o \in Objs, claim[o] # None, owner[o],
         NEW w \in Nat, claim' = [claim EXCEPT ![o].rw = w], UNCHANGED <<owner, resv>>
  PROVE  Ledger' /\ (\A u \in Objs : Node(u)' = Node(u)) /\ claim'[o] # None
<1>1. claim \in [Objs -> {None} \cup Claims] /\ claim[o] \in Claims
  BY DEF Typing, TypeOK
<1>2. claim'[o] = [claim[o] EXCEPT !.rw = w] /\ \A u \in Objs : u # o => claim'[u] = claim[u]
  BY <1>1
<1>3. /\ claim'[o] \in Claims /\ claim'[o].node = claim[o].node
      /\ claim'[o].ro = claim[o].ro /\ claim'[o].size = claim[o].size
  BY <1>1, <1>2 DEF Claims
<1>4. claim'[o] # None
  BY <1>3, RwPagesAssumption
<1>5. \A u \in Objs : /\ Node(u)' = Node(u) /\ Request(u)' = Request(u)
                      /\ (claim'[u] # None <=> claim[u] # None)
  BY <1>2, <1>3, <1>4 DEF Node, Request
<1> QED BY <1>2, <1>4, <1>5 DEF Ledger, Built, Listed, Distinct, Handed, Reserved

\* An object that owns nothing goes, or its claim goes with its reservation.
LEMMA LedgerGone ==
  ASSUME Typing, Ledger, NEW o \in Objs, claim[o] # None,
         claim' = [claim EXCEPT ![o] = None],
         \A u \in Objs : u # o => owner'[u] = owner[u],
         Reserved' = Reserved \ {Node(o)}
  PROVE  Ledger'
<1>1. claim'[o] = None /\ \A u \in Objs : u # o => claim'[u] = claim[u]
  BY DEF Typing, TypeOK
<1>2. \A u \in Objs : u # o => Node(u)' = Node(u) /\ Request(u)' = Request(u)
  BY <1>1 DEF Node, Request
<1>3. Built'
  BY <1>1, <1>2 DEF Ledger, Built
<1>4. Listed'
  BY <1>1, <1>2 DEF Ledger, Listed, Distinct
<1>5. Distinct'
  BY <1>1, <1>2 DEF Ledger, Distinct
<1>6. Handed'
  BY <1>1, <1>2 DEF Ledger, Handed
<1> QED BY <1>3, <1>4, <1>5, <1>6 DEF Ledger

LEMMA LedgerMove ==
  ASSUME Typing, Ledger, NEW o \in Objs, NEW from \in Objs, MoveConstruct(o, from)
  PROVE  Ledger'
<1>1. /\ o # from /\ claim[from] # None /\ claim[o] = None /\ UNCHANGED resv
      /\ claim'[o] = claim[from] /\ owner'[o] = owner[from]
      /\ claim'[from] = EmptyClaim /\ owner'[from] = FALSE
      /\ \A u \in Objs : u \notin {o, from} => claim'[u] = claim[u] /\ owner'[u] = owner[u]
  BY DEF MoveConstruct, Live, Typing, TypeOK
<1>2. /\ Node(from)' = None /\ Node(o)' = Node(from) /\ Request(o)' = Request(from)
      /\ \A u \in Objs : u \notin {o, from} => Node(u)' = Node(u) /\ Request(u)' = Request(u)
  BY <1>1 DEF Node, Request, EmptyClaim
<1>3. Built'
  BY <1>1, <1>2 DEF Ledger, Built
<1>4. Listed'
  BY <1>1, <1>2 DEF Ledger, Listed, Reserved
<1>5. Distinct'
  <2> SUFFICES ASSUME NEW u \in Objs, NEW v \in Objs, claim'[u] # None, claim'[v] # None, u # v,
                      Node(u)' # None
               PROVE  Node(u)' # Node(v)'
    BY DEF Distinct
  <2>1. CASE v = from
    BY <1>2, <2>1
  <2>2. CASE v # from
    <3>1. PICK a \in Objs : a = (IF u = o THEN from ELSE u)
      OBVIOUS
    <3>2. PICK b \in Objs : b = (IF v = o THEN from ELSE v)
      OBVIOUS
    <3>3. a # b /\ claim[a] # None /\ claim[b] # None /\ Node(a) = Node(u)' /\ Node(b) = Node(v)'
      BY <1>1, <1>2, <2>2, <3>1, <3>2
    <3> QED BY <3>3 DEF Ledger, Distinct
  <2> QED BY <2>1, <2>2
<1>6. Handed'
  <2> SUFFICES ASSUME NEW m \in Reserved'
               PROVE  \E u \in Objs : claim'[u] # None /\ owner'[u] /\ Node(u)' = m
    BY DEF Handed
  <2>1. PICK u \in Objs : claim[u] # None /\ owner[u] /\ Node(u) = m
    BY <1>1 DEF Ledger, Handed, Reserved
  <2> QED BY <1>1, <1>2, <2>1
<1> QED BY <1>3, <1>4, <1>5, <1>6 DEF Ledger

-----------------------------------------------------------------------------
\* Where each thread and each object at rest stands.
StageFrame(u) ==
  /\ pc'[u] = pc[u] /\ obj'[u] = obj[u] /\ cursor'[u] = cursor[u] /\ alignedRw'[u] = alignedRw[u]
  /\ obj[u] \in Objs =>
       /\ claim'[obj[u]] = claim[obj[u]] /\ owner'[obj[u]] = owner[obj[u]]
       /\ Node(obj[u]) # None => resv'[Node(obj[u])] = resv[Node(obj[u])]

LEMMA StageKept ==
  ASSUME NEW u \in Threads, Located(u), Stage(u), StageFrame(u)
  PROVE  Stage(u)'
<1>1. CASE pc[u] = "idle"
  BY <1>1 DEF Stage, StageFrame
<1>2. CASE pc[u] # "idle"
  <2>1. PICK o \in Objs : o = obj[u] /\ o = obj'[u]
    BY <1>2 DEF Located, Busy, StageFrame
  <2>2. /\ Node(o)' = Node(o) /\ Count(o)' = Count(o) /\ First(o)' = First(o) /\ End(o)' = End(o)
        /\ (Node(o) # None => resv'[Node(o)] = resv[Node(o)])
    BY <2>1 DEF StageFrame, Node, Count, First, End
  <2> QED BY <1>2, <2>1, <2>2 DEF Stage, StageFrame
<1> QED BY <1>1, <1>2

\* A thread that leaves the other objects and their reservations alone.
Minds(t, o) ==
  /\ WorksOn(t, o) /\ \A u \in Objs : u # o => owner'[u] = owner[u]
  /\ \A u \in Objs : u # o /\ claim[u] # None /\ Node(u) # None => resv'[Node(u)] = resv[Node(u)]

LEMMA StagesOfOne ==
  ASSUME Typing, Kept, abort = "no", NEW t \in Threads, NEW o \in Objs, Minds(t, o),
         \A s \in Threads : s # t => obj[s] # o,
         Stage(t)', Live(o)' /\ owner'[o] => Node(o)' # None
  PROVE  Staged'
<1>1. ASSUME NEW u \in Threads, u # t PROVE Stage(u)'
  <2>1. obj[u] \in Objs => obj[u] # o /\ claim[obj[u]] # None
    BY <1>1, RwPagesAssumption DEF Typing, Located, Busy
  <2>2. StageFrame(u)
    BY <1>1, <2>1 DEF Minds, WorksOn, StageFrame
  <2> QED BY <1>1, <2>2, StageKept DEF Kept, Staged, Typing
<1>2. Filed'
  <2> SUFFICES ASSUME NEW u \in Objs, u # o, Live(u)', owner'[u] PROVE Node(u)' # None
    BY DEF Filed
  <2>1. claim'[u] = claim[u] /\ owner'[u] = owner[u] /\ u # None
    BY RwPagesAssumption DEF Minds, WorksOn
  <2>2. Live(u)
    BY <2>1 DEF Live, Minds, WorksOn
  <2> QED BY <2>1, <2>2 DEF Kept, Staged, Filed, Node
<1> QED BY <1>1, <1>2 DEF Staged

LEMMA StagedBegin ==
  ASSUME Typing, Kept, NEW t \in Threads, NEW o \in Objs, NEW q \in Requests, Begin(t, o, q),
         abort' = "no"
  PROVE  Staged'
<1>1. /\ abort = "no" /\ pc[t] = "idle" /\ claim[o] = None /\ \A u \in Threads : obj[u] # o
      /\ obj' = [obj EXCEPT ![t] = o] /\ UNCHANGED <<cursor, alignedRw, resv>>
      /\ pc' = [pc EXCEPT ![t] = "pick"]
      /\ \A u \in Objs : u # o => claim'[u] = claim[u] /\ owner'[u] = owner[u]
      /\ claim'[o] = [ro |-> q.ro, rw |-> 0, size |-> q.size, node |-> None] /\ owner'[o] = TRUE
  BY DEF Begin, At, Goto, Abort, Typing, TypeOK
<1>2. obj \in [Threads -> Objs \cup {None}] /\ pc \in [Threads -> Labels] /\ obj[t] = None
  BY <1>1 DEF Typing, TypeOK, Located
<1>3. Minds(t, o)
  BY <1>1, <1>2 DEF Minds, WorksOn
<1>4. Stage(t)'
  BY <1>1, <1>2 DEF Stage, Node
<1>5. ~Live(o)'
  BY <1>1, <1>2 DEF Live
<1> QED BY <1>1, <1>3, <1>4, <1>5, StagesOfOne

\* The steps in which a thread stays with its object.
LEMMA StagedWork ==
  ASSUME Typing, Typing', Kept, NEW t \in Threads, abort = "no", abort' = "no",
         Pick(t) \/ Scan(t) \/ Redraw(t) \/ Map(t) \/ Unmap(t)
  PROVE  Staged'
<1> USE DEF At, Goto, Abort, Retry
<1>1. PICK o \in Objs : o = obj[t] /\ claim[o] # None /\ pc[t] # "idle"
  BY DEF Pick, Scan, Redraw, Map, Unmap, Typing, Located, Busy
<1>2. UNCHANGED <<obj, claim, owner, resv>>
  BY DEF Pick, Scan, Redraw, Map, Unmap, vars, threadVars
<1>3. /\ pc \in [Threads -> Labels] /\ cursor \in [Threads -> Nat]
      /\ alignedRw \in [Threads -> AslrPages]
      /\ \A s \in Threads : s # t => obj[s] # o
  BY <1>1, RwPagesAssumption DEF Typing, TypeOK, Owned
<1>4. \A s \in Threads : s # t =>
         pc'[s] = pc[s] /\ cursor'[s] = cursor[s] /\ alignedRw'[s] = alignedRw[s]
  BY <1>3 DEF Pick, Scan, Redraw, Map, Unmap, vars, threadVars
<1>5. Minds(t, o)
  BY <1>1, <1>2, <1>4 DEF Minds, WorksOn
<1>6. /\ Node(o)' = Node(o) /\ Count(o)' = Count(o) /\ First(o)' = First(o) /\ End(o)' = End(o)
      /\ obj'[t] = o /\ owner' = owner /\ resv' = resv
  BY <1>1, <1>2 DEF Node, Count, First, End
<1>7. Stage(t)
  BY DEF Kept, Staged
<1>8. CASE Pick(t) \/ Scan(t) \/ Redraw(t)
  <2>1. pc[t] \in {"pick", "scan", "reserve"} /\ pc'[t] \in {"pick", "scan", "reserve"}
    BY <1>3, <1>8 DEF Pick, Scan, Redraw, vars, threadVars
  <2>2. Stage(t)'
    BY <1>1, <1>6, <1>7, <2>1 DEF Stage
  <2> QED BY <1>3, <1>5, <1>6, <2>2, StagesOfOne DEF Live
<1>9. CASE Map(t) \/ Unmap(t)
  <2>1. /\ First(o) \in Nat /\ End(o) \in Nat
        /\ RangeEnd(t) \in Nat /\ RangeEnd(t) <= End(o)
        /\ cursor[t] >= First(o) => RangeEnd(t) >= First(o)
    BY <1>1, ClaimNumbers, RangeInside DEF Typing
  <2>2. cursor[t] >= First(o)
    BY <1>1, <1>3, <1>7, <1>9, <2>1 DEF Stage, Map, Unmap
  <2>3. /\ cursor'[t] = RangeEnd(t) /\ alignedRw'[t] = alignedRw[t]
        /\ pc'[t] = IF RangeEnd(t) < End(o) THEN pc[t]
                    ELSE IF pc[t] = "map" THEN "verify" ELSE "release"
        /\ pc[t] \in {"map", "unmap"}
    BY <1>1, <1>3, <1>9 DEF Map, Unmap
  <2>4. Stage(t)'
    BY <1>1, <1>6, <1>7, <2>1, <2>2, <2>3 DEF Stage
  <2> QED BY <1>3, <1>5, <1>6, <2>4, StagesOfOne DEF Live
<1> QED BY <1>8, <1>9

\* virtmemAddReservation succeeded.
Reserved1(t, o, n) ==
  /\ ReservesIn(o, n) /\ resv'[n] = Span(alignedRw[t], Count(o))
  /\ cursor' = [cursor EXCEPT ![t] = First(o)] /\ pc' = [pc EXCEPT ![t] = "map"]
  /\ UNCHANGED <<obj, alignedRw, abort, ptab>>

LEMMA ReserveTakes ==
  ASSUME NEW t \in Threads, Reserve(t), abort' = "no", NEW o, o = obj[t]
  PROVE  \E n \in Nodes : Reserved1(t, o, n)
<1>1. PICK n \in Nodes \ Reserved :
          /\ AddReservation(n, Span(alignedRw[t], Count(o)))
          /\ claim' = [claim EXCEPT ![o].node = n]
          /\ cursor' = [cursor EXCEPT ![t] = First(o)]
          /\ pc' = [pc EXCEPT ![t] = "map"]
          /\ UNCHANGED <<obj, alignedRw, tries, abort>>
  BY DEF Reserve, Abort, Goto
<1>2. UNCHANGED <<owner, ptab>>
  BY DEF Reserve
<1>3. /\ Reserved' = Reserved \cup {n} /\ resv'[n] = Span(alignedRw[t], Count(o))
      /\ \A m \in Reserved : resv'[m] = resv[m]
  BY <1>1 DEF AddReservation, Reserved
<1> QED BY <1>1, <1>2, <1>3 DEF Reserved1, ReservesIn

LEMMA StagedReserve ==
  ASSUME Typing, Kept, NEW t \in Threads, Reserve(t), abort = "no",
         NEW o \in Objs, o = obj[t], NEW n \in Nodes, Reserved1(t, o, n)
  PROVE  Staged'
<1>1. /\ claim[o] # None /\ pc[t] = "reserve" /\ Stage(t) /\ Request(o) \in Requests
      /\ \A s \in Threads : s # t => obj[s] # o
  BY RwPagesAssumption DEF Reserve, At, Typing, Owned, Located, Busy, Kept, Staged
<1>2. /\ Node(o)' = n /\ First(o)' = First(o) /\ Count(o)' = Count(o) /\ End(o)' = End(o)
      /\ \A u \in Objs : u # o => claim'[u] = claim[u]
  BY <1>1, NodeAlone DEF Reserved1, ReservesIn
<1>3. First(o) \in Nat /\ First(o) < End(o)
  <2>1. Count(o) \in Nat \ {0} /\ First(o) \in Nat
    BY <1>1, RequestPages DEF Request, Count, First
  <2> QED BY <2>1 DEF End
<1>4. pc \in [Threads -> Labels] /\ cursor \in [Threads -> Nat]
  BY DEF Typing, TypeOK
<1>5. \A u \in Objs : claim[u] # None /\ Node(u) # None => resv'[Node(u)] = resv[Node(u)]
  BY DEF Kept, Ledger, Listed, Reserved1, ReservesIn
<1>6. Minds(t, o)
  BY <1>2, <1>4, <1>5 DEF Minds, WorksOn, Reserved1, ReservesIn
<1>7. pc'[t] = "map" /\ cursor'[t] = First(o) /\ obj'[t] = o /\ owner'[o] = owner[o]
      /\ alignedRw'[t] = alignedRw[t] /\ resv'[n] = Span(alignedRw[t], Count(o)) /\ n # None
  BY <1>4, RwPagesAssumption DEF Reserved1, ReservesIn
<1>8. Stage(t)'
  <2>1. owner[o]
    BY <1>1 DEF Stage
  <2> QED BY <1>2, <1>3, <1>7, <2>1 DEF Stage
<1> QED BY <1>1, <1>6, <1>7, <1>8, StagesOfOne DEF Live

LEMMA StagedVerify ==
  ASSUME Typing, Typing', Kept, NEW t \in Threads, Verify(t), abort' = "no"
  PROVE  Staged' /\ Ledger' /\ \A u \in Objs : Node(u)' = Node(u)
<1>1. PICK o \in Objs : o = obj[t] /\ claim[o] # None /\ abort = "no" /\ pc[t] = "verify"
  BY DEF Verify, At, Typing, Located, Busy
<1>2. PICK w : w = alignedRw[t] * PageSize + (claim[o].ro % PageSize)
  OBVIOUS
<1>3. /\ claim' = [claim EXCEPT ![o].rw = w] /\ pc' = [pc EXCEPT ![t] = "idle"]
      /\ obj' = [obj EXCEPT ![t] = None] /\ UNCHANGED <<alignedRw, cursor, owner, resv>>
  BY <1>1, <1>2 DEF Verify, Goto, Abort
<1>4. w \in Nat
  <2>1. alignedRw[t] \in Nat /\ PageSize \in Nat \ {0} /\ claim[o].ro \in Nat
    BY <1>1, ClaimNumbers, RwPagesAssumption DEF Typing, TypeOK, AslrPages, Claims
  <2>2. alignedRw[t] * PageSize \in Nat /\ claim[o].ro % PageSize \in Nat
    BY <2>1, SMT
  <2> QED BY <1>2, <2>2
<1>5. Stage(t) /\ owner[o] /\ Node(o) # None
  BY <1>1 DEF Kept, Staged, Stage
<1>6. Ledger' /\ (\A u \in Objs : Node(u)' = Node(u)) /\ claim'[o] # None
  BY <1>1, <1>3, <1>4, <1>5, LedgerVerify DEF Kept
<1>7. /\ pc \in [Threads -> Labels] /\ obj \in [Threads -> Objs \cup {None}]
      /\ claim \in [Objs -> {None} \cup Claims]
      /\ \A s \in Threads : s # t => obj[s] # o
  BY <1>1, RwPagesAssumption DEF Typing, TypeOK, Owned
<1>8. Minds(t, o)
  BY <1>1, <1>3, <1>7 DEF Minds, WorksOn
<1>9. Stage(t)'
  BY <1>3, <1>7 DEF Stage
<1>10. Node(o)' # None
  BY <1>5, <1>6
<1>11. Staged'
  BY <1>1, <1>7, <1>8, <1>9, <1>10, StagesOfOne
<1> QED BY <1>6, <1>11

LEMMA StagedDestroy ==
  ASSUME Typing, Kept, NEW t \in Threads, NEW o \in Objs, Destroy(t, o)
  PROVE  Staged'
<1>1. /\ abort = "no" /\ pc[t] = "idle" /\ Live(o) /\ claim[o] # None
      /\ \A s \in Threads : obj[s] # o
      /\ UNCHANGED <<alignedRw, owner, resv>>
  BY DEF Destroy, At, Live
<1>2. /\ pc \in [Threads -> Labels] /\ obj \in [Threads -> Objs \cup {None}]
      /\ cursor \in [Threads -> Nat] /\ claim \in [Objs -> {None} \cup Claims] /\ obj[t] = None
  BY <1>1 DEF Typing, TypeOK, Located
<1>3. CASE owner[o]
  <2>1. /\ obj' = [obj EXCEPT ![t] = o] /\ cursor' = [cursor EXCEPT ![t] = First(o)]
        /\ pc' = [pc EXCEPT ![t] = "unmap"] /\ claim' = claim
    BY <1>3 DEF Destroy, Goto
  <2>2. Minds(t, o)
    BY <1>1, <1>2, <2>1 DEF Minds, WorksOn
  <2>3. First(o) \in Nat /\ First(o) < End(o) /\ Node(o) # None
    <3>1. Request(o) \in Requests /\ Node(o) # None
      BY <1>1, <1>3 DEF Kept, Ledger, Built, Staged, Filed
    <3>2. Count(o) \in Nat \ {0} /\ First(o) \in Nat
      BY <3>1, RequestPages DEF Request, Count, First
    <3> QED BY <3>1, <3>2 DEF End
  <2>4. obj'[t] = o /\ pc'[t] = "unmap" /\ cursor'[t] = First(o)
    BY <1>2, <2>1
  <2>5. Node(o)' = Node(o) /\ First(o)' = First(o) /\ End(o)' = End(o) /\ owner'[o]
    BY <1>1, <1>3, <2>1 DEF Node, First, End, Count
  <2>6. Stage(t)'
    BY <2>3, <2>4, <2>5 DEF Stage
  <2> QED BY <1>1, <2>2, <2>3, <2>5, <2>6, StagesOfOne
<1>4. CASE ~owner[o]
  <2>1. claim' = [claim EXCEPT ![o] = None] /\ UNCHANGED <<obj, cursor, pc>>
    BY <1>4 DEF Destroy
  <2>2. Minds(t, o)
    BY <1>1, <1>2, <2>1 DEF Minds, WorksOn
  <2>3. Stage(t)' /\ ~owner'[o]
    BY <1>1, <1>4, <2>1 DEF Stage
  <2> QED BY <1>1, <2>2, <2>3, StagesOfOne
<1> QED BY <1>3, <1>4

LEMMA ReleaseGives ==
  ASSUME Typing, Kept, NEW t \in Threads, Release(t)
  PROVE  /\ Staged' /\ Ledger'
         /\ \A u \in Objs : u # obj[t] /\ claim[u] # None =>
              Node(u)' = Node(u) /\ (Node(u) # None => resv'[Node(u)] = resv[Node(u)])
<1>1. PICK o \in Objs : o = obj[t] /\ claim[o] # None /\ abort = "no" /\ pc[t] = "release"
  BY DEF Release, At, Typing, Located, Busy
<1>2. /\ claim' = [claim EXCEPT ![o] = None] /\ obj' = [obj EXCEPT ![t] = None]
      /\ pc' = [pc EXCEPT ![t] = "idle"] /\ UNCHANGED <<alignedRw, cursor>>
      /\ owner' = [owner EXCEPT ![o] = FALSE]
      /\ Reserved' = Reserved \ {Node(o)} /\ \A n \in Reserved \ {Node(o)} : resv'[n] = resv[n]
  BY <1>1 DEF Release, Goto, Node, Reserved
<1>3. /\ pc \in [Threads -> Labels] /\ obj \in [Threads -> Objs \cup {None}]
      /\ claim \in [Objs -> {None} \cup Claims] /\ owner \in [Objs -> BOOLEAN]
      /\ \A s \in Threads : s # t => obj[s] # o
  BY <1>1, RwPagesAssumption DEF Typing, TypeOK, Owned
<1>4. \A u \in Objs : u # o => claim'[u] = claim[u] /\ owner'[u] = owner[u]
  BY <1>2, <1>3
<1>5. ASSUME NEW u \in Objs, u # o, claim[u] # None
      PROVE  Node(u)' = Node(u) /\ (Node(u) # None => resv'[Node(u)] = resv[Node(u)])
  <2>1. Node(u)' = Node(u)
    BY <1>4, <1>5 DEF Node
  <2>2. Node(u) # None => Node(u) \in Reserved /\ Node(u) # Node(o)
    BY <1>1, <1>5 DEF Kept, Ledger, Listed, Distinct
  <2> QED BY <1>2, <2>1, <2>2
<1>6. Minds(t, o)
  BY <1>1, <1>2, <1>3, <1>4, <1>5 DEF Minds, WorksOn
<1>7. Stage(t)' /\ ~owner'[o]
  BY <1>2, <1>3 DEF Stage
<1>8. Staged'
  BY <1>1, <1>3, <1>6, <1>7, StagesOfOne
<1>9. Ledger'
  BY <1>1, <1>2, <1>4, LedgerGone DEF Kept
<1> QED BY <1>1, <1>5, <1>8, <1>9

LEMMA StagedStill ==
  ASSUME Typing, Kept, UNCHANGED <<pc, obj, cursor, alignedRw, claim, owner, resv, abort>>
  PROVE  Staged'
<1>1. ASSUME abort = "no", NEW u \in Threads PROVE Stage(u)'
  <2>1. StageFrame(u)
    BY DEF StageFrame
  <2> QED BY <1>1, <2>1, StageKept DEF Kept, Staged, Typing
<1>2. abort = "no" => Filed'
  BY DEF Kept, Staged, Filed, Live, Node
<1> QED BY <1>1, <1>2 DEF Staged

LEMMA StagedMove ==
  ASSUME Typing, Kept, NEW o \in Objs, NEW from \in Objs, MoveConstruct(o, from)
  PROVE  Staged'
<1>1. /\ abort = "no" /\ o # from /\ Live(from) /\ UNCHANGED <<pc, obj, cursor, alignedRw, resv>>
      /\ claim'[o] = claim[from] /\ owner'[o] = owner[from]
      /\ owner'[from] = FALSE
      /\ \A u \in Objs : u \notin {o, from} => claim'[u] = claim[u] /\ owner'[u] = owner[u]
      /\ \A u \in Threads : obj[u] # o /\ obj[u] # from
  BY DEF MoveConstruct, Live, Typing, TypeOK, threadVars
<1>2. ASSUME NEW u \in Threads PROVE Stage(u)'
  <2>1. StageFrame(u)
    BY <1>1 DEF StageFrame
  <2> QED BY <1>1, <2>1, StageKept DEF Kept, Staged, Typing
<1>3. Filed'
  <2> SUFFICES ASSUME NEW u \in Objs, Live(u)', owner'[u] PROVE Node(u)' # None
    BY DEF Filed
  <2>1. u # from
    BY <1>1
  <2>2. CASE u = o
    BY <1>1, <2>2 DEF Kept, Staged, Filed, Node
  <2>3. CASE u # o
    BY <1>1, <2>1, <2>3 DEF Kept, Staged, Filed, Node, Live
  <2> QED BY <2>2, <2>3
<1> QED BY <1>2, <1>3 DEF Staged

-----------------------------------------------------------------------------
\* What is shown and what is reserved.
Settled == Within /\ Covered

LEMMA SettledStays ==
  ASSUME Settled, SameViews,
         \A o \in Objs : (\E x, p : Shows(o, x, p)) =>
           Node(o)' = Node(o) /\ (Node(o) # None => resv'[Node(o)] = resv[Node(o)]),
         \A x \in AslrPages : ptab'[x] \in CodePages => ptab'[x] = ptab[x]
  PROVE  Settled'
<1>1. Within'
  <2> SUFFICES ASSUME NEW o \in Objs, NEW x, NEW p, Shows(o, x, p)'
               PROVE  Node(o)' # None /\ x \in resv'[Node(o)']
    BY DEF Within
  <2>1. Shows(o, x, p)
    BY DEF SameViews, SameView
  <2> QED BY <2>1 DEF Settled, Within
<1>2. Covered'
  <2> SUFFICES ASSUME NEW x \in AslrPages, ptab'[x] \in CodePages
               PROVE  \E o \in Objs : \E p : Shows(o, x, p)'
    BY DEF Covered
  <2>1. PICK o \in Objs : \E p : Shows(o, x, p)
    BY DEF Settled, Covered
  <2> QED BY <2>1 DEF SameViews, SameView
<1> QED BY <1>1, <1>2 DEF Settled

\* ForEachMemRange has a page to go on with.
LEMMA Forward ==
  ASSUME Typing, Kept, abort = "no", NEW t \in Threads, pc[t] \in {"map", "unmap"}
  PROVE  RangeEnd(t) \in Nat /\ RangeEnd(t) > cursor[t] /\ RangeEnd(t) <= End(obj[t])
         /\ cursor[t] \in Nat /\ First(obj[t]) <= cursor[t]
<1>1. PICK o \in Objs : o = obj[t] /\ claim[o] # None
  BY DEF Typing, Located, Busy
<1>2. cursor[t] \in Nat /\ cursor[t] < End(o) /\ End(o) \in Nat /\ First(o) <= cursor[t]
  BY <1>1, ClaimNumbers DEF Kept, Staged, Stage, Typing, TypeOK
<1>3. cursor[t] \in CodePages => RegionEnd[cursor[t]] \in Nat /\ RegionEnd[cursor[t]] > cursor[t]
  BY RwPagesAssumption
<1> QED BY <1>1, <1>2, <1>3 DEF RangeEnd

LEMMA SettledMap ==
  ASSUME Typing, Shown, Kept, abort = "no", NEW t \in Threads, pc[t] = "map",
         NEW o \in Objs, o = obj[t], Adds(t, o), UNCHANGED <<claim, resv>>
  PROVE  Settled'
<1>1. RangeEnd(t) \in Nat /\ RangeEnd(t) > cursor[t] /\ RangeEnd(t) <= End(o)
      /\ cursor[t] \in Nat /\ First(o) <= cursor[t]
  BY Forward
<1>2. \A u \in Objs : Node(u)' = Node(u)
  BY DEF Node
<1>3. Within'
  <2> SUFFICES ASSUME NEW u \in Objs, NEW x, NEW p, Shows(u, x, p)'
               PROVE  Node(u) # None /\ x \in resv[Node(u)]
    BY <1>2 DEF Within
  <2>1. CASE Shows(u, x, p)
    BY <2>1 DEF Kept, Within
  <2>2. CASE ~Shows(u, x, p)
    <3>1. u = o /\ p \in Range(t) /\ x = Alias(o, alignedRw[t], p)
      BY <2>2 DEF Adds, SameView
    <3>2. Node(o) # None /\ resv[Node(o)] = Span(alignedRw[t], Count(o))
      BY DEF Kept, Staged, Stage
    <3>3. claim[o] # None
      BY DEF Typing, Located, Busy
    <3>4. First(o) \in Nat /\ Count(o) \in Nat /\ End(o) = First(o) + Count(o)
      BY <3>3, ClaimNumbers DEF Typing
    <3>5. alignedRw[t] \in Nat
      BY DEF Typing, TypeOK, AslrPages
    <3>6. x \in Span(alignedRw[t], Count(o))
      BY <1>1, <3>1, <3>4, <3>5 DEF Range, Alias, Span
    <3> QED BY <3>1, <3>2, <3>6
  <2> QED BY <2>1, <2>2
<1>4. Covered'
  <2> SUFFICES ASSUME NEW x \in AslrPages, ptab'[x] \in CodePages
               PROVE  \E u \in Objs : \E p : Shows(u, x, p)'
    BY DEF Covered
  <2>1. CASE ptab'[x] # ptab[x]
    BY <2>1 DEF Adds
  <2>2. CASE ptab'[x] = ptab[x]
    <3>1. PICK u \in Objs : \E p : Shows(u, x, p)
      BY <2>2 DEF Kept, Covered
    <3> QED BY <1>1, <3>1 DEF Adds, SameView
  <2> QED BY <2>1, <2>2
<1> QED BY <1>3, <1>4 DEF Settled

LEMMA SettledUnmap ==
  ASSUME Typing, Kept, NEW o \in Objs, Removes(o), UNCHANGED <<claim, resv>>
  PROVE  Settled'
<1>1. \A u \in Objs : Node(u)' = Node(u)
  BY DEF Node
<1>2. Within'
  <2> SUFFICES ASSUME NEW u \in Objs, NEW x, NEW p, Shows(u, x, p)'
               PROVE  Node(u) # None /\ x \in resv[Node(u)]
    BY <1>1 DEF Within
  <2>1. Shows(u, x, p)
    BY DEF Removes, SameView
  <2> QED BY <2>1 DEF Kept, Within
<1>3. Covered'
  <2> SUFFICES ASSUME NEW x \in AslrPages, ptab'[x] \in CodePages
               PROVE  \E u \in Objs : \E p : Shows(u, x, p)'
    BY DEF Covered
  <2>1. ptab'[x] # None
    BY NumberedPages
  <2>2. ptab'[x] = ptab[x]
    BY <2>1 DEF Removes
  <2>3. PICK u \in Objs : \E p : Shows(u, x, p)
    BY <2>2 DEF Kept, Covered
  <2>4. PICK p : Shows(u, x, p)
    BY <2>3
  <2> QED BY <2>1, <2>4 DEF Removes, SameView
<1> QED BY <1>2, <1>3 DEF Settled

LEMMA SettledMove ==
  ASSUME Typing, Kept, NEW o \in Objs, NEW from \in Objs, Moved(o, from),
         abort = "no", claim[o] = None, UNCHANGED <<resv, ptab>>,
         claim' = [claim EXCEPT ![o] = claim[from], ![from] = EmptyClaim]
  PROVE  Settled'
<1>1. Node(o)' = Node(from) /\ \A u \in Objs : u \notin {o, from} => Node(u)' = Node(u)
  BY DEF Node, Moved, Typing, TypeOK
<1>2. Within'
  <2> SUFFICES ASSUME NEW u \in Objs, NEW x, NEW p, Shows(u, x, p)'
               PROVE  Node(u)' # None /\ x \in resv[Node(u)']
    BY DEF Within
  <2>1. u # from
    BY DEF Moved
  <2>2. CASE u = o
    <3>1. Shows(from, x, p)
      BY <2>2 DEF Moved
    <3> QED BY <1>1, <2>2, <3>1 DEF Kept, Within
  <2>3. CASE u # o
    <3>1. Shows(u, x, p)
      BY <2>1, <2>3 DEF Moved, SameView
    <3> QED BY <1>1, <2>1, <2>3, <3>1 DEF Kept, Within
  <2> QED BY <2>2, <2>3
<1>3. Covered'
  <2> SUFFICES ASSUME NEW x \in AslrPages, ptab[x] \in CodePages
               PROVE  \E u \in Objs : \E p : Shows(u, x, p)'
    BY DEF Covered
  <2>1. PICK u \in Objs : \E p : Shows(u, x, p)
    BY DEF Kept, Covered
  <2>2. PICK p : Shows(u, x, p)
    BY <2>1
  <2>3. CASE u = from
    BY <2>2, <2>3 DEF Moved
  <2>4. CASE u # from /\ u # o
    BY <2>2, <2>4 DEF Moved, SameView
  <2>5. CASE u = o
    BY <2>2, <2>5, ShownIsCode DEF Typing
  <2> QED BY <2>3, <2>4, <2>5
<1> QED BY <1>2, <1>3 DEF Settled

\* The destructor meets every page where the constructor put it.
LEMMA NotRefused ==
  ASSUME Typing, Shown, Kept, abort = "no", NEW t \in Threads, Unmap(t)
  PROVE  abort' = "no"
<1>1. pc[t] = "unmap"
  BY DEF Unmap, At
<1>2. PICK o \in Objs : o = obj[t] /\ claim[o] # None
  BY <1>1 DEF Typing, Located, Busy
<1>3. RangeEnd(t) \in Nat /\ RangeEnd(t) > cursor[t] /\ RangeEnd(t) <= End(o) /\ cursor[t] \in Nat
      /\ End(o) \in Nat
  BY <1>1, <1>2, Forward, ClaimNumbers DEF Typing
<1>4. cursor[t] \in Range(t)
  BY <1>3 DEF Range
<1>5. ASSUME NEW p \in Range(t) PROVE Seen(Image(t, claim[o].rw \div PageSize, p)) = p
  <2>1. PICK x : x = Alias(o, claim[o].rw \div PageSize, p)
    OBVIOUS
  <2>2. p \in cursor[t] .. End(o) - 1
    BY <1>3 DEF Range
  <2>3. Shows(o, x, p)
    BY <1>1, <1>2, <2>1, <2>2 DEF Shows, ShowsAt
  <2>4. x \in AslrPages /\ ptab[x] = p
    BY <2>3 DEF Shown, Mapped
  <2> QED BY <1>2, <2>1, <2>4 DEF Seen, Image, Alias
<1> QED BY <1>2, <1>4, <1>5 DEF Unmap

-----------------------------------------------------------------------------
LEMMA KeptStopped == ASSUME Typing, Kept, abort # "no", [Next]_vars PROVE Kept'
<1>1. UNCHANGED <<pc, obj, cursor, alignedRw, claim, owner, resv, ptab, abort>>
  BY Stopped DEF vars, threadVars
<1>2. Ledger'
  BY <1>1, LedgerStays DEF Kept
<1>3. Staged' /\ abort' # "Unmap"
  BY <1>1 DEF Kept, Staged
<1>4. SameViews /\ \A o \in Objs : Node(o)' = Node(o)
  BY <1>1, StillViews DEF Node
<1>5. Settled'
  BY <1>1, <1>4, SettledStays DEF Kept, Settled
<1> QED BY <1>2, <1>3, <1>5 DEF Kept, Settled

\* The steps that touch neither claims nor the list.
LEMMA KeptSearch ==
  ASSUME Typing, Typing', Shown, Kept, abort = "no", NEW t \in Threads,
         Pick(t) \/ Scan(t) \/ Redraw(t)
  PROVE  Kept'
<1>1. UNCHANGED <<claim, owner, resv, ptab>> /\ abort' # "Unmap"
  BY DEF Pick, Scan, Redraw, Retry, Abort, vars
<1>2. Ledger'
  BY <1>1, LedgerStays DEF Kept
<1>3. Staged'
  <2>1. CASE abort' = "no"
    BY <2>1, StagedWork
  <2> QED BY <2>1 DEF Staged
<1>4. SameViews /\ \A o \in Objs : Node(o)' = Node(o)
  BY <1>1, SearchShows DEF Node
<1>5. Settled'
  BY <1>1, <1>4, SettledStays DEF Kept, Settled
<1> QED BY <1>1, <1>2, <1>3, <1>5 DEF Kept, Settled

LEMMA KeptBegin ==
  ASSUME Typing, Kept, abort = "no", NEW t \in Threads, NEW o \in Objs, NEW q \in Requests,
         Begin(t, o, q)
  PROVE  Kept'
<1>1. /\ UNCHANGED <<resv, ptab>> /\ abort' # "Unmap" /\ claim[o] = None
      /\ \A u \in Objs : u # o => claim'[u] = claim[u]
  BY DEF Begin, Abort, Typing, TypeOK
<1>2. Staged'
  <2>1. CASE abort' = "no"
    BY <2>1, StagedBegin
  <2> QED BY <2>1 DEF Staged
<1>3. SameViews
  BY BeginShows
<1>4. \A u \in Objs : (\E x, p : Shows(u, x, p)) => Node(u)' = Node(u)
  BY <1>1, ShownIsCode DEF Node, Typing
<1>5. Settled'
  BY <1>1, <1>3, <1>4, SettledStays DEF Kept, Settled
<1> QED BY <1>1, <1>2, <1>5, LedgerBegin DEF Kept, Settled

LEMMA KeptReserve ==
  ASSUME Typing, Typing', Kept, abort = "no", NEW t \in Threads, Reserve(t)
  PROVE  Kept'
<1>1. PICK o \in Objs : o = obj[t] /\ claim[o] # None /\ pc[t] = "reserve"
  BY DEF Reserve, At, Typing, Located, Busy
<1>2. owner[o] /\ Node(o) = None
  BY <1>1 DEF Kept, Staged, Stage
<1>3. SameViews
  BY SearchShows
<1>4. \A x, p : ~Shows(o, x, p)
  BY <1>1, WorkedShows DEF AsFarAs, ShowsAt, Typing
<1>5. CASE abort' # "no"
  <2>1. UNCHANGED <<claim, owner, resv, ptab>> /\ abort' # "Unmap"
    BY <1>5 DEF Reserve, Abort
  <2>2. Ledger'
    BY <2>1, LedgerStays DEF Kept
  <2>3. \A u \in Objs : Node(u)' = Node(u)
    BY <2>1 DEF Node
  <2>4. Settled'
    BY <1>3, <2>1, <2>3, SettledStays DEF Kept, Settled
  <2> QED BY <1>5, <2>1, <2>2, <2>4 DEF Kept, Settled, Staged
<1>6. CASE abort' = "no"
  <2>1. PICK n \in Nodes : Reserved1(t, o, n)
    BY <1>1, <1>6, ReserveTakes
  <2>2. Staged'
    BY <1>1, <2>1, StagedReserve
  <2>3. ReservesIn(o, n) /\ ptab' = ptab
    BY <2>1 DEF Reserved1
  <2>4. Ledger'
    BY <1>1, <1>2, <2>3, LedgerReserve DEF Kept
  <2>5. \A u \in Objs : u # o => claim'[u] = claim[u]
    BY <1>1, <2>3, NodeAlone DEF ReservesIn
  <2>6. ASSUME NEW u \in Objs, \E x, p : Shows(u, x, p)
        PROVE  Node(u)' = Node(u) /\ (Node(u) # None => resv'[Node(u)] = resv[Node(u)])
    <3>1. u # o /\ claim[u] # None
      BY <1>4, <2>6, ShownIsCode DEF Typing
    <3> QED BY <2>3, <2>5, <3>1 DEF Node, ReservesIn, Kept, Ledger, Listed
  <2>7. Settled'
    BY <1>3, <2>3, <2>6, SettledStays DEF Kept, Settled
  <2> QED BY <1>6, <2>2, <2>4, <2>7 DEF Kept, Settled
<1> QED BY <1>5, <1>6

LEMMA KeptRange ==
  ASSUME Typing, Typing', Shown, Kept, abort = "no", NEW t \in Threads, Map(t) \/ Unmap(t)
  PROVE  Kept'
<1>1. PICK o \in Objs : o = obj[t]
  BY DEF Map, Unmap, At, Typing, Located, Busy
<1>2. UNCHANGED <<claim, owner, resv>>
  BY DEF Map, Unmap
<1>3. Ledger'
  BY <1>2, LedgerStays DEF Kept
<1>4. abort' # "Unmap"
  BY NotRefused DEF Map, Abort
<1>5. CASE abort' = "no"
  <2>1. Staged'
    BY <1>5, StagedWork
  <2>2. CASE Map(t)
    <3>1. Adds(t, o) /\ pc[t] = "map"
      BY <1>1, <1>5, <2>2, MapAdds DEF Shown, Map, At
    <3>2. Settled'
      BY <1>1, <1>2, <3>1, SettledMap
    <3> QED BY <1>3, <1>4, <2>1, <3>2 DEF Kept, Settled
  <2>3. CASE Unmap(t)
    <3>1. Removes(o)
      BY <1>1, <1>5, <2>3, UnmapRemoves
    <3>2. Settled'
      BY <1>2, <3>1, SettledUnmap
    <3> QED BY <1>3, <1>4, <2>1, <3>2 DEF Kept, Settled
  <2> QED BY <2>2, <2>3
<1>6. CASE abort' # "no"
  <2>1. UNCHANGED <<pc, obj, cursor, alignedRw, claim, ptab, resv>>
    BY <1>6, RefusedStep
  <2>2. SameViews /\ \A u \in Objs : Node(u)' = Node(u)
    BY <2>1, StillViews DEF Node
  <2>3. Settled'
    BY <2>1, <2>2, SettledStays DEF Kept, Settled
  <2> QED BY <1>3, <1>4, <1>6, <2>3 DEF Kept, Settled, Staged
<1> QED BY <1>5, <1>6

LEMMA KeptVerify ==
  ASSUME Typing, Typing', Shown, Kept, abort = "no", NEW t \in Threads, Verify(t)
  PROVE  Kept'
<1>1. UNCHANGED <<owner, resv, ptab>> /\ abort' # "Unmap"
  BY DEF Verify, Abort
<1>2. SameViews
  BY VerifyShows DEF Shown
<1>3. Ledger' /\ Staged' /\ \A u \in Objs : Node(u)' = Node(u)
  <2>1. CASE abort' = "no"
    BY <2>1, StagedVerify
  <2>2. CASE abort' # "no"
    <3>1. claim' = claim
      BY <2>2 DEF Verify
    <3>2. Ledger'
      BY <1>1, <3>1, LedgerStays DEF Kept
    <3> QED BY <2>2, <3>1, <3>2 DEF Staged, Node
  <2> QED BY <2>1, <2>2
<1>4. Settled'
  BY <1>1, <1>2, <1>3, SettledStays DEF Kept, Settled
<1> QED BY <1>1, <1>3, <1>4 DEF Kept, Settled

LEMMA KeptDestroy ==
  ASSUME Typing, Kept, abort = "no", NEW t \in Threads, NEW o \in Objs, Destroy(t, o)
  PROVE  Kept'
<1>1. UNCHANGED <<owner, resv, ptab, abort>> /\ Live(o) /\ claim[o] # None
  BY DEF Destroy, Live
<1>2. Staged'
  BY StagedDestroy
<1>3. CASE owner[o]
  <2>1. claim' = claim
    BY <1>3 DEF Destroy
  <2>2. Ledger' /\ \A u \in Objs : Node(u)' = Node(u)
    BY <1>1, <2>1, LedgerStays DEF Kept, Node
  <2>3. SameViews
    BY <1>3, DestroyShows
  <2>4. Settled'
    BY <1>1, <2>2, <2>3, SettledStays DEF Kept, Settled
  <2> QED BY <1>1, <1>2, <2>2, <2>4 DEF Kept, Settled
<1>4. CASE ~owner[o]
  <2>1. claim' = [claim EXCEPT ![o] = None]
    BY <1>4 DEF Destroy
  <2>2. claim[o] = EmptyClaim /\ Node(o) = None
    BY <1>1, <1>4 DEF Kept, Ledger, Built, Node, EmptyClaim
  <2>3. None \notin Reserved
    BY RwPagesAssumption DEF Typing, TypeOK
  <2>4. Ledger'
    <3>1. Reserved' = Reserved \ {Node(o)}
      BY <1>1, <2>2, <2>3 DEF Reserved
    <3> QED BY <1>1, <2>1, <3>1, LedgerGone DEF Kept
  <2>5. \A x, p : ~Shows(o, x, p)
    BY <2>2 DEF Kept, Within
  <2>6. SameViews
    <3>1. NoNewViews
      BY DestroyShows
    <3>2. ASSUME NEW u \in Objs, u # o PROVE SameView(u)
      <4>1. WorksOn(t, o)
        <5>1. UNCHANGED <<obj, cursor, pc, alignedRw>> /\ obj[t] = None
          BY <1>4 DEF Destroy, At, Typing, Located
        <5> QED BY <2>1, <5>1 DEF WorksOn, Typing, TypeOK
      <4> QED BY <3>2, <4>1, OthersShow
    <3> QED BY <2>5, <3>1, <3>2 DEF SameViews, SameView, NoNewViews, NoNewView
  <2>7. \A u \in Objs : u # o => Node(u)' = Node(u)
    BY <2>1 DEF Node, Typing, TypeOK
  <2>8. Settled'
    BY <1>1, <2>5, <2>6, <2>7, SettledStays DEF Kept, Settled
  <2> QED BY <1>1, <1>2, <2>4, <2>8 DEF Kept, Settled
<1> QED BY <1>3, <1>4

LEMMA KeptRelease ==
  ASSUME Typing, Typing', Kept, abort = "no", NEW t \in Threads, Release(t)
  PROVE  Kept'
<1>1. PICK o \in Objs : o = obj[t] /\ pc[t] = "release"
  BY DEF Release, At, Typing, Located, Busy
<1>2. UNCHANGED <<ptab, abort>>
  BY DEF Release
<1>3. /\ Staged' /\ Ledger'
      /\ \A u \in Objs : u # o /\ claim[u] # None =>
           Node(u)' = Node(u) /\ (Node(u) # None => resv'[Node(u)] = resv[Node(u)])
  BY <1>1, ReleaseGives
<1>4. SameViews
  BY ReleaseShows
<1>5. \A x, p : ~Shows(o, x, p)
  BY <1>1, WorkedShows DEF AsFarAs, ShowsAt, Typing
<1>6. ASSUME NEW u \in Objs, \E x, p : Shows(u, x, p) PROVE u # o /\ claim[u] # None
  BY <1>5, <1>6, ShownIsCode DEF Typing
<1>7. Settled'
  BY <1>2, <1>3, <1>4, <1>6, SettledStays DEF Kept, Settled
<1> QED BY <1>2, <1>3, <1>7 DEF Kept, Settled

LEMMA KeptMove ==
  ASSUME Typing, Kept, abort = "no", NEW o \in Objs, NEW from \in Objs, MoveConstruct(o, from)
  PROVE  Kept'
<1>1. /\ UNCHANGED <<resv, ptab, abort>> /\ claim[o] = None
      /\ claim' = [claim EXCEPT ![o] = claim[from], ![from] = EmptyClaim]
  BY DEF MoveConstruct
<1>2. Settled'
  BY <1>1, MoveMoves, SettledMove
<1> QED BY <1>1, <1>2, LedgerMove, StagedMove DEF Kept, Settled

LEMMA KeptGame ==
  ASSUME Typing, Shown, Kept, abort = "no", NEW y \in AslrPages, GameMap(y)
  PROVE  Kept'
<1>1. UNCHANGED <<pc, obj, cursor, alignedRw, claim, owner, resv, abort>>
  BY DEF GameMap, threadVars
<1>2. \A x \in AslrPages : ptab'[x] \in CodePages => ptab'[x] = ptab[x]
  BY NumberedPages DEF GameMap, Typing, TypeOK
<1>3. SameViews /\ \A u \in Objs : Node(u)' = Node(u)
  BY <1>1, GameViews DEF Node
<1>4. Settled'
  BY <1>1, <1>2, <1>3, SettledStays DEF Kept, Settled
<1> QED BY <1>1, <1>4, LedgerStays, StagedStill DEF Kept, Settled

LEMMA KeptNext ==
  ASSUME ~MoveAssigned, Typing, Shown, Kept, [Next]_vars
  PROVE  Kept'
<1>1. Typing'
  BY TypingNext
<1>2. CASE abort # "no"
  BY <1>2, KeptStopped
<1>3. CASE abort = "no"
  <2>1. ASSUME NEW t \in Threads, Construct(t) \/ Destruct(t) PROVE Kept'
    BY <1>1, <1>3, <2>1, KeptSearch, KeptReserve, KeptRange, KeptVerify, KeptRelease
       DEF Construct, Destruct
  <2>2. CASE UNCHANGED vars
    <3>1. UNCHANGED <<pc, obj, cursor, alignedRw, claim, owner, resv, ptab, abort>>
      BY <2>2 DEF vars, threadVars
    <3>2. SameViews /\ \A u \in Objs : Node(u)' = Node(u)
      BY <3>1, StillViews DEF Node
    <3>3. Settled'
      BY <3>1, <3>2, SettledStays DEF Kept, Settled
    <3> QED BY <3>1, <3>3, LedgerStays, StagedStill DEF Kept, Settled
  <2>3. \A o, from \in Objs : ~MoveAssign(o, from)
    BY DEF MoveAssign
  <2> QED BY <1>3, <2>1, <2>2, <2>3, KeptBegin, KeptDestroy, KeptMove, KeptGame DEF Next
<1> QED BY <1>2, <1>3

LEMMA AlwaysKept ==
  ASSUME ~MoveAssigned
  PROVE  Spec => [](Typing /\ Shown /\ Kept)
<1>1. Init => Kept
  <2>1. Init => \A o \in Objs : claim[o] = None /\ \A x, p : ~Shows(o, x, p)
    BY DEF Init, Shows, ShowsAt, Live
  <2>2. Init => Reserved = {}
    BY DEF Init, Reserved
  <2>3. Init => \A x \in AslrPages : ptab[x] \notin CodePages
    BY NumberedPages DEF Init
  <2>4. Init => \A t \in Threads : pc[t] = "idle"
    BY DEF Init
  <2>5. Init => abort = "no"
    BY DEF Init
  <2> QED BY <2>1, <2>2, <2>3, <2>4, <2>5 DEF Kept, Ledger, Built, Listed, Distinct, Handed,
             Staged, Filed, Stage, Live, Within, Covered
<1>2. Typing /\ Shown /\ Kept /\ [Next]_vars => Kept'
  BY KeptNext
<1> QED BY <1>1, <1>2, AlwaysShown, PTL DEF Spec

\* However many threads there are and whatever the game maps, as long as no
\* alias is assigned to: a page of the region that shows code lies in a
\* reservation, so that no search is handed it, and every reservation has an
\* owner that will give it back.
THEOREM StayReserved ==
  ASSUME ~MoveAssigned
  PROVE  Spec => []AliasesStayReserved
<1>1. Init => AliasesStayReserved
  <2>1. Init => Reserved = {}
    BY DEF Init, Reserved
  <2>2. Init => \A x \in AslrPages : ptab[x] \notin CodePages
    BY NumberedPages DEF Init
  <2> QED BY <2>1, <2>2 DEF AliasesStayReserved
<1>2. abort = "no" /\ [Next]_vars /\ ~(abort = "no")' /\ Kept' /\ AliasesStayReserved
        => AliasesStayReserved'
  <2> SUFFICES ASSUME abort = "no", [Next]_vars, ~(abort = "no")', Kept', AliasesStayReserved
               PROVE  AliasesStayReserved'
    OBVIOUS
  <2>1. UNCHANGED <<resv, ptab>>
    BY DEF Next, Construct, Destruct, Begin, Pick, Redraw, Scan, Reserve, Map, Verify, Destroy,
           Unmap, Release, MoveConstruct, MoveAssign, GameMap, Retry, Abort, vars
  <2>2. (Reserved \subseteq InHand)'
    BY DEF Kept, Ledger, Handed, InHand, Node
  <2> QED BY <2>1, <2>2 DEF AliasesStayReserved, Reserved
<1>3. ~(abort = "no") /\ Typing /\ [Next]_vars /\ AliasesStayReserved => AliasesStayReserved'
  BY Stopped DEF AliasesStayReserved, InHand, Reserved, vars
<1>4. Typing /\ abort = "no" /\ Shown /\ Kept => AliasesStayReserved
  BY KeptReserves
<1> QED BY <1>1, <1>2, <1>3, <1>4, AlwaysKept, PTL DEF Spec

-----------------------------------------------------------------------------
\* With one thread, and the game at rest while it is in these calls, the slice
\* stays free from the page-table query until it is mapped.
Free(t) ==
  LET o == obj[t]
  IN  /\ pc[t] \in {"scan", "reserve"} =>
           \A x \in Span(alignedRw[t], Count(o)) : Seen(x) = None
      /\ pc[t] = "map" =>
           \A p \in cursor[t] .. End(o) - 1 : Seen(Alias(o, alignedRw[t], p)) = None
Clear(t) == (abort = "no" => Free(t)) /\ abort # "Map"
Soloist(t) == Threads = {t} /\ ~GameConcurrent /\ ~MoveAssigned

LEMMA FreeStays ==
  ASSUME NEW t \in Threads, Typing, abort = "no", Free(t),
         UNCHANGED <<pc, obj, alignedRw, cursor, ptab>>,
         pc[t] # "idle" => claim'[obj[t]] = claim[obj[t]]
  PROVE  Free(t)'
<1>1. CASE pc[t] = "idle"
  BY <1>1 DEF Free
<1>2. CASE pc[t] # "idle"
  <2>1. PICK o \in Objs : o = obj[t] /\ o = obj'[t]
    BY <1>2 DEF Typing, Located, Busy
  <2>2. Count(o)' = Count(o) /\ End(o)' = End(o) /\ First(o)' = First(o)
    BY <1>2, <2>1 DEF Count, End, First
  <2> QED BY <2>1, <2>2 DEF Free, Seen, Alias
<1> QED BY <1>1, <1>2

LEMMA FreeSearch ==
  ASSUME NEW t \in Threads, Typing, Typing', Free(t), abort' = "no", Pick(t) \/ Scan(t)
  PROVE  Free(t)'
<1>1. PICK o \in Objs : o = obj[t] /\ o = obj'[t]
  BY DEF Pick, Scan, At, Typing, Located, Busy
<1>2. UNCHANGED <<claim, ptab>> /\ Count(o)' = Count(o)
  BY DEF Pick, Scan, Count
<1>3. pc'[t] \in {"pick", "scan", "reserve"}
  BY DEF Pick, Scan, Retry, Goto, Abort, Typing, TypeOK
<1>4. pc'[t] # "pick" => \A x \in Span(alignedRw'[t], Count(o)) : Seen(x) = None
  <2>1. CASE Pick(t)
    BY <1>1, <2>1 DEF Pick, Retry, Goto, Abort, Typing, TypeOK, Seen
  <2>2. CASE Scan(t)
    BY <1>1, <2>2 DEF Scan, At, Free
  <2> QED BY <2>1, <2>2
<1> QED BY <1>1, <1>2, <1>3, <1>4 DEF Free, Seen

LEMMA FreeReserve ==
  ASSUME NEW t \in Threads, Typing, Free(t), abort' = "no", Reserve(t)
  PROVE  Free(t)'
<1>1. PICK o \in Objs : o = obj[t] /\ claim[o] # None /\ pc[t] = "reserve"
  BY DEF Reserve, At, Typing, Located, Busy
<1>2. PICK n \in Nodes : Reserved1(t, o, n)
  BY <1>1, ReserveTakes
<1>3. First(o)' = First(o) /\ End(o)' = End(o)
  BY <1>1, <1>2, NodeAlone DEF Reserved1, ReservesIn
<1>4. /\ pc'[t] = "map" /\ cursor'[t] = First(o) /\ alignedRw' = alignedRw
      /\ obj'[t] = o /\ ptab' = ptab
  BY <1>1, <1>2 DEF Reserved1, Typing, TypeOK
<1>5. First(o) \in Nat /\ Count(o) \in Nat /\ End(o) = First(o) + Count(o) /\ alignedRw[t] \in Nat
  BY <1>1, ClaimNumbers DEF Typing, TypeOK, AslrPages
<1>6. ASSUME NEW p \in First(o) .. End(o) - 1 PROVE Seen(Alias(o, alignedRw[t], p)) = None
  <2>1. Alias(o, alignedRw[t], p) \in Span(alignedRw[t], Count(o))
    BY <1>5 DEF Alias, Span
  <2> QED BY <1>1, <2>1 DEF Free
<1> QED BY <1>3, <1>4, <1>6 DEF Free, Seen, Alias

LEMMA FreeMap ==
  ASSUME NEW t \in Threads, Typing, Free(t), Map(t)
  PROVE  abort' = "no" /\ Free(t)'
<1>1. PICK o \in Objs : o = obj[t] /\ claim[o] # None /\ pc[t] = "map" /\ abort = "no"
                        /\ cursor[t] >= First(o)
  BY DEF Map, At, Typing, Located, Busy
<1>2. PICK a : a = alignedRw[t]
  OBVIOUS
<1>3. /\ First(o) \in Nat /\ End(o) \in Nat /\ cursor[t] \in Nat /\ a \in Nat
      /\ RangeEnd(t) \in Nat /\ RangeEnd(t) <= End(o) /\ RangeEnd(t) >= First(o)
  BY <1>1, <1>2, ClaimNumbers, RangeInside DEF Typing, TypeOK, AslrPages
<1>4. \A p \in cursor[t] .. End(o) - 1 : Seen(a + (p - First(o))) = None
  BY <1>1, <1>2 DEF Free, Alias
<1>5. \A p \in Range(t) : Seen(Image(t, a, p)) = None
  BY <1>1, <1>3, <1>4 DEF Range, Image
<1>6. /\ ptab' = [x \in AslrPages |->
                    LET p == x - a + First(o) IN IF p \in Range(t) THEN p ELSE ptab[x]]
      /\ cursor' = [cursor EXCEPT ![t] = RangeEnd(t)]
      /\ IF RangeEnd(t) < End(o) THEN UNCHANGED pc ELSE pc' = [pc EXCEPT ![t] = "verify"]
      /\ UNCHANGED <<obj, alignedRw, claim, abort>>
  BY <1>1, <1>2, <1>5 DEF Map, Goto
<1>7. First(o)' = First(o) /\ End(o)' = End(o) /\ cursor'[t] = RangeEnd(t)
      /\ obj'[t] = o /\ alignedRw'[t] = a /\ (pc'[t] = "map" \/ pc'[t] = "verify")
  BY <1>1, <1>2, <1>6 DEF First, End, Count, Typing, TypeOK
<1>8. ASSUME pc'[t] = "map", NEW p \in RangeEnd(t) .. End(o) - 1
      PROVE  \A x : x = a + (p - First(o)) => Seen(x)' = None
  <2> SUFFICES ASSUME NEW x, x = a + (p - First(o)) PROVE Seen(x)' = None
    OBVIOUS
  <2>1. x = a + (p - First(o)) /\ p \in Int /\ x \in Int
    BY <1>3
  <2>2. x - a + First(o) = p /\ p \notin Range(t)
    BY <1>3, <2>1 DEF Range
  <2>3. RangeEnd(t) > cursor[t]
    <3>1. RangeEnd(t) < End(o)
      BY <1>3
    <3>2. cursor[t] \in CodePages /\ RangeEnd(t) = RegionEnd[cursor[t]]
      BY <1>1, <1>3, <3>1 DEF RangeEnd
    <3> QED BY <3>2, RwPagesAssumption
  <2>4. Seen(x) = None
    BY <1>3, <1>4, <2>1, <2>3
  <2>5. x \in AslrPages => ptab'[x] = ptab[x]
    BY <1>6, <2>2
  <2>6. Seen(x)' = None
    BY <2>4, <2>5 DEF Seen
  <2> QED BY <2>6
<1> QED BY <1>1, <1>6, <1>7, <1>8 DEF Free, Alias

\* The other steps end at no such label.
LEMMA FreeElse ==
  ASSUME NEW t \in Threads, pc'[t] \notin {"scan", "reserve", "map"}
  PROVE  Free(t)'
BY DEF Free

LEMMA ClearNext ==
  ASSUME NEW t, Soloist(t), Typing, Shown, Clear(t), [Next]_vars
  PROVE  Clear(t)'
<1> USE DEF Clear
<1>1. Typing' /\ t \in Threads /\ Threads = {t} /\ ~GameConcurrent
  BY TypingNext DEF Soloist
<1>2. CASE abort # "no"
  BY <1>2, Stopped DEF vars
<1>3. CASE abort = "no"
  <2> USE <1>3
  <2>1. ASSUME NEW o \in Objs, NEW q \in Requests, Begin(t, o, q) PROVE Clear(t)'
    <3>1. pc'[t] \in {"idle", "pick"} /\ abort' # "Map"
      BY <1>1, <2>1 DEF Begin, At, Goto, Abort, Typing, TypeOK
    <3> QED BY <1>1, <3>1, FreeElse
  <2>2. CASE Pick(t) \/ Scan(t)
    <3>1. abort' # "Map"
      BY <2>2 DEF Pick, Scan, Retry, Abort
    <3> QED BY <1>1, <2>2, <3>1, FreeSearch
  <2>3. CASE Reserve(t)
    <3>1. abort' # "Map"
      BY <2>3 DEF Reserve, Abort
    <3> QED BY <1>1, <2>3, <3>1, FreeReserve
  <2>4. CASE Map(t)
    BY <1>1, <2>4, FreeMap
  <2>5. CASE Verify(t) \/ Unmap(t) \/ Release(t)
    <3>1. pc'[t] \notin {"scan", "reserve", "map"} /\ abort' # "Map"
      BY <1>1, <2>5 DEF Verify, Unmap, Release, At, Goto, Abort, Typing, TypeOK
    <3> QED BY <1>1, <3>1, FreeElse
  <2>6. ASSUME NEW o \in Objs, Destroy(t, o) PROVE Clear(t)'
    <3>1. pc'[t] \in {"idle", "unmap"} /\ abort' = abort
      BY <1>1, <2>6 DEF Destroy, At, Goto, Typing, TypeOK
    <3> QED BY <1>1, <3>1, FreeElse
  <2>7. ASSUME NEW o \in Objs, NEW from \in Objs, MoveConstruct(o, from) PROVE Clear(t)'
    <3>1. /\ UNCHANGED <<pc, obj, alignedRw, cursor, ptab, abort>>
          /\ obj[t] # o /\ obj[t] # from
      BY <1>1, <2>7 DEF MoveConstruct, Live, threadVars
    <3>2. pc[t] # "idle" => claim'[obj[t]] = claim[obj[t]]
      BY <1>1, <2>7, <3>1 DEF MoveConstruct, Typing, TypeOK, Located, Busy
    <3> QED BY <1>1, <3>1, <3>2, FreeStays
  <2>8. ASSUME NEW x \in AslrPages, GameMap(x) PROVE Clear(t)'
    <3>1. pc'[t] = "idle" /\ abort' = abort
      BY <1>1, <2>8 DEF GameMap, Idle, threadVars
    <3> QED BY <1>1, <3>1, FreeElse
  <2>9. CASE Redraw(t) \/ UNCHANGED vars
    <3>1. UNCHANGED <<pc, obj, alignedRw, cursor, ptab, claim, abort>>
      BY <2>9 DEF Redraw, vars, threadVars
    <3> QED BY <1>1, <3>1, FreeStays
  <2>10. \A o, from \in Objs : ~MoveAssign(o, from)
    BY DEF MoveAssign, Soloist
  <2>11. CASE \E u \in Threads : Construct(u) \/ Destruct(u)
    BY <1>1, <2>2, <2>3, <2>4, <2>5, <2>9, <2>11 DEF Construct, Destruct
  <2>12. CASE \E u \in Threads, o \in Objs : (\E q \in Requests : Begin(u, o, q)) \/ Destroy(u, o)
    BY <1>1, <2>1, <2>6, <2>12
  <2> QED BY <2>7, <2>8, <2>9, <2>10, <2>11, <2>12 DEF Next
<1> QED BY <1>2, <1>3

\* The kernel never refuses svcMapProcessMemory or svcUnmapProcessMemory to a
\* thread that is alone, while the game keeps to its own memory and no alias is
\* assigned to: the slice is free until it is mapped, one range after the other,
\* and the destructor meets every page where the constructor put it, once.
THEOREM NeverRefusedAlone ==
  ASSUME NEW t, Soloist(t)
  PROVE  Spec => []KernelNeverRefuses
<1>1. Init => Clear(t)
  BY DEF Init, Clear, Free, Soloist
<1>2. Typing /\ Shown /\ Clear(t) /\ [Next]_vars => Clear(t)'
  BY ClearNext
<1>3. Kept /\ Clear(t) => KernelNeverRefuses
  BY DEF Kept, Clear, KernelNeverRefuses
<1>4. Spec => [](Typing /\ Shown /\ Kept)
  BY AlwaysKept DEF Soloist
<1> QED BY <1>1, <1>2, <1>3, <1>4, PTL DEF Spec

\* Whatever other threads and the game do, svcUnmapProcessMemory is never
\* refused: only the mapping of an alias can be.
THEOREM UnmapNeverRefused ==
  ASSUME ~MoveAssigned
  PROVE  Spec => [](abort # "Unmap")
<1>1. Kept => abort # "Unmap"
  BY DEF Kept
<1> QED BY <1>1, AlwaysKept, PTL

=============================================================================
