-------------------------- MODULE GuestMemoryProofs --------------------------
(***************************************************************************)
(* Proofs about GuestMemory for any number of processes, threads, pages,   *)
(* files and segments, on one host thread or many: type correctness, that  *)
(* no host page is freed while something points at it, and that a page     *)
(* written without a handler has one holder.                               *)
(*                                                                         *)
(* The counts of setPage are right only while every count is at least the  *)
(* number of holders, and a page may be taken over only if a count of one  *)
(* means one holder: both facts, with what each handler remembers between  *)
(* its steps (Control), make the inductive invariant.                      *)
(***************************************************************************)
EXTENDS GuestMemory, FiniteSetTheorems, TLAPS

\* What the type of an entry says of its host page and file.
Shape ==
  \A p \in Proc, g \in Page :
    /\ mmu[p][g].type \in {"cow", "code"} => mmu[p][g].ram \in Ram
    /\ mmu[p][g].type \in {"none", "file"} => mmu[p][g].ram = NoRam
    /\ mmu[p][g].type = "file" => mmu[p][g].file \in File

\* Two forks do not make the same child.
OneParent ==
  \A p, q \in Proc, w, u \in Worker :
    pc[p][w] = "fork" /\ pc[q][u] = "fork" /\ at[p][w].child = at[q][u].child
    => p = q /\ w = u

\* What a handler knows between its steps.
Control ==
  \A p \in Proc, w \in Worker :
    /\ p \notin alive => pc[p][w] = "user"
    /\ pc[p][w] \in {"rw", "store", "cow", "copy", "take", "file", "fill", "code", "wait"}
         => at[p][w].page \in Page
    /\ pc[p][w] \in {"copy", "take", "fill", "fork", "exit", "exec"} => lock[p] = w
    /\ pc[p][w] \in {"copy", "take"} => mmu[p][at[p][w].page].type = "cow"
    /\ pc[p][w] = "code" => mmu[p][at[p][w].page].type = "code"
    /\ pc[p][w] = "fill" => mmu[p][at[p][w].page].type = "file" /\ at[p][w].ram \in Ram
    /\ pc[p][w] = "store" => at[p][w].ram \in Ram
    /\ pc[p][w] = "fork" => at[p][w].child \in Proc \ alive
    /\ pc[p][w] \in {"exit", "exec"} => \A u \in Worker \ {w} : pc[p][u] = "user"

Bounded ==
  \A r \in Ram : IsFiniteSet(Holders(r)) /\ Cardinality(Holders(r)) <= count[r]

\* Who has to be the only holder: an entry that is written without a handler
\* and not shared, one that is being taken over, a handler that fills a page.
Private(p, g) ==
  LET e == mmu[p][g] IN
  /\ e.type = "ram" /\ ~e.shared /\ e.ram # NoRam
  /\ \A s \in Segment : segment[s] # e.ram

Sole(x) ==
  \/ \E p \in Proc, g \in Page : x = <<"entry", p, g>> /\ Private(p, g)
  \/ \E p \in Proc, w \in Worker :
       LET g == at[p][w].page IN
       x = <<"entry", p, g>> /\ pc[p][w] = "take" /\ ~mmu[p][g].shared
  \/ \E p \in Proc, w \in Worker : x = <<"fill", p, w>> /\ pc[p][w] = "fill"

SoleAlone == \A x \in Slots : Sole(x) => Holders(Points(x)) = {x}

IInv ==
  /\ TypeOK /\ Shape /\ OneParent /\ Control
  /\ Bounded /\ SoleAlone

-----------------------------------------------------------------------------
(* Holders, and what a change of one pointer does to their number.          *)

LEMMA PointsAt ==
  /\ \A p \in Proc, g \in Page :
       <<"entry", p, g>> \in Slots /\ Points(<<"entry", p, g>>) = mmu[p][g].ram
  /\ \A p \in Proc, w \in Worker :
       /\ <<"fill", p, w>> \in Slots
       /\ Points(<<"fill", p, w>>) = IF pc[p][w] = "fill" THEN at[p][w].ram ELSE NoRam
  /\ \A f \in Cached : <<"cache", f>> \in Slots /\ Points(<<"cache", f>>) = cache[f]
  /\ \A s \in Segment : <<"segment", s>> \in Slots /\ Points(<<"segment", s>>) = segment[s]
BY DEF Slots, Points

LEMMA PointsAtNext ==
  /\ \A p \in Proc, g \in Page : Points(<<"entry", p, g>>)' = mmu'[p][g].ram
  /\ \A p \in Proc, w \in Worker :
       Points(<<"fill", p, w>>)' = IF pc'[p][w] = "fill" THEN at'[p][w].ram ELSE NoRam
  /\ \A f \in Cached : Points(<<"cache", f>>)' = cache'[f]
  /\ \A s \in Segment : Points(<<"segment", s>>)' = segment'[s]
BY DEF Points

LEMMA SlotCases ==
  ASSUME NEW x \in Slots
  PROVE  \/ \E p \in Proc, g \in Page : x = <<"entry", p, g>>
         \/ \E p \in Proc, w \in Worker : x = <<"fill", p, w>>
         \/ \E f \in Cached : x = <<"cache", f>>
         \/ \E s \in Segment : x = <<"segment", s>>
BY DEF Slots

\* Slots keep their pointers when the variables they are read from stay.
LEMMA SamePointers ==
  ASSUME NEW X,
         \A p \in Proc, g \in Page :
           <<"entry", p, g>> \notin X => mmu'[p][g].ram = mmu[p][g].ram,
         \A p \in Proc, w \in Worker :
           <<"fill", p, w>> \notin X =>
             /\ (pc[p][w] = "fill") = (pc'[p][w] = "fill")
             /\ pc[p][w] = "fill" => at'[p][w].ram = at[p][w].ram,
         \A f \in Cached : <<"cache", f>> \notin X => cache'[f] = cache[f],
         \A s \in Segment : <<"segment", s>> \notin X => segment'[s] = segment[s]
  PROVE  \A y \in Slots \ X : Points(y)' = Points(y)
<1> SUFFICES ASSUME NEW y \in Slots \ X PROVE Points(y)' = Points(y)
  OBVIOUS
<1>1. CASE \E p \in Proc, g \in Page : y = <<"entry", p, g>>
  BY <1>1, PointsAt, PointsAtNext
<1>2. CASE \E p \in Proc, w \in Worker : y = <<"fill", p, w>>
  BY <1>2, PointsAt, PointsAtNext
<1>3. CASE \E f \in Cached : y = <<"cache", f>>
  BY <1>3, PointsAt, PointsAtNext
<1>4. CASE \E s \in Segment : y = <<"segment", s>>
  BY <1>4, PointsAt, PointsAtNext
<1> QED BY <1>1, <1>2, <1>3, <1>4, SlotCases

\* One pointer at most changes, and the counts keep up with it.
LEMMA BoundedAfter ==
  ASSUME TypeOK, Bounded, NEW x \in Slots,
         \A y \in Slots \ {x} : Points(y)' = Points(y),
         count' \in [Ram -> Int],
         \A r \in Ram :
           count'[r] >= count[r] - (IF Points(x) = r THEN 1 ELSE 0)
                                 + (IF Points(x)' = r THEN 1 ELSE 0)
  PROVE  Bounded' /\ count' \in [Ram -> Nat]
<1>1. ASSUME NEW r \in Ram
      PROVE  /\ IsFiniteSet(Holders(r)') /\ Cardinality(Holders(r)') \in Nat
             /\ Cardinality(Holders(r)') <= count'[r]
  <2> DEFINE H == Holders(r)  N == Holders(r)'
  <2>1. IsFiniteSet(H) /\ Cardinality(H) \in Nat /\ Cardinality(H) <= count[r]
    BY FS_CardinalityType DEF Bounded
  <2>2. count[r] \in Nat /\ count'[r] \in Int
    BY DEF TypeOK
  <2>3. \A y \in Slots : (y \in H) = (Points(y) = r) /\ (y \in N) = (Points(y)' = r)
    BY DEF Holders
  <2>4. H \subseteq Slots /\ N \subseteq Slots
    BY DEF Holders, Slots
  <2> HIDE DEF H, N
  <2>5. CASE Points(x)' # r
    <3>1. N = H \ {x}
      BY <2>3, <2>4, <2>5
    <3>2. IsFiniteSet(N) /\ Cardinality(N) = IF x \in H THEN Cardinality(H) - 1 ELSE Cardinality(H)
      BY <2>1, <3>1, FS_RemoveElement
    <3> QED BY <2>1, <2>2, <2>3, <2>5, <3>2, FS_CardinalityType DEF N
  <2>6. CASE Points(x)' = r
    <3>1. N = H \cup {x}
      BY <2>3, <2>4, <2>6
    <3>2. IsFiniteSet(N) /\ Cardinality(N) = IF x \in H THEN Cardinality(H) ELSE Cardinality(H) + 1
      BY <2>1, <3>1, FS_AddElement
    <3> QED BY <2>1, <2>2, <2>3, <2>6, <3>2, FS_CardinalityType DEF N
  <2> QED BY <2>5, <2>6
<1>2. Bounded'
  BY <1>1 DEF Bounded
<1>3. ASSUME NEW r \in Ram PROVE count'[r] \in Nat
  <2>1. count'[r] \in Int /\ Cardinality(Holders(r)') \in Nat /\ Cardinality(Holders(r)') <= count'[r]
    BY <1>1
  <2> QED BY <2>1
<1> QED BY <1>2, <1>3

\* The pointer x changes, and nobody who must be alone holds what it points
\* at next.
LEMMA SoleAfter ==
  ASSUME SoleAlone, NEW x \in Slots,
         \A y \in Slots \ {x} : Points(y)' = Points(y),
         \A y \in Slots \ {x} : Sole(y)' => Sole(y) /\ Points(y) # Points(x)',
         Sole(x)' => Holders(Points(x))' = {x}
  PROVE  SoleAlone'
<1> SUFFICES ASSUME NEW y \in Slots, Sole(y)'
             PROVE  Holders(Points(y))' = {y}
  BY DEF SoleAlone, Slots
<1>1. CASE y = x
  BY <1>1
<1>2. CASE y # x
  <2>1. Holders(Points(y)) = {y}
    BY <1>2 DEF SoleAlone
  <2> QED BY <1>2, <2>1 DEF Holders, Slots
<1> QED BY <1>1, <1>2

\* No pointer changes.
LEMMA Still ==
  ASSUME Bounded, SoleAlone, count' = count,
         \A y \in Slots : Points(y)' = Points(y),
         \A y \in Slots : Sole(y)' => Sole(y) \/ Holders(Points(y)) = {y}
  PROVE  Bounded' /\ SoleAlone'
<1>1. \A r : Holders(r)' = Holders(r)
  BY DEF Holders, Slots
<1>2. Bounded'
  BY <1>1 DEF Bounded
<1>3. ASSUME NEW y \in Slots, Sole(y)' PROVE Holders(Points(y))' = {y}
  <2>1. Holders(Points(y)) = {y}
    BY <1>3 DEF SoleAlone
  <2> QED BY <1>1, <2>1 DEF Holders, Slots
<1>4. SoleAlone'
  BY <1>3 DEF SoleAlone, Slots
<1> QED BY <1>2, <1>4

\* A page that was unused has the one holder it is given to.
LEMMA FreshAlone ==
  ASSUME TypeOK, Bounded, NEW r \in Unused, NEW x \in Slots,
         \A y \in Slots \ {x} : Points(y)' = Points(y), Points(x)' = r
  PROVE  Holders(r) = {} /\ Holders(r)' = {x}
<1>1. IsFiniteSet(Holders(r)) /\ Cardinality(Holders(r)) <= 0
  BY DEF Unused, Bounded
<1>2. Holders(r) = {}
  BY <1>1, FS_CardinalityType, FS_EmptySet
<1>3. \A y \in Slots : Points(y) # r
  BY <1>2 DEF Holders
<1>4. Holders(r)' = {x}
  BY <1>3 DEF Holders, Slots
<1> QED BY <1>2, <1>4

-----------------------------------------------------------------------------
(* Changes of one entry.                                                    *)

\* setPage with no page, a page of the cache or a page of a segment.
LEMMA SetPageKeeps ==
  ASSUME IInv, NEW p \in Proc, NEW g \in Page, NEW e \in Entry, SetPage(p, g, e),
         UNCHANGED objects,
         \/ e.ram = NoRam
         \/ e.type # "ram" /\ \E f \in Cached : cache[f] = e.ram
         \/ \E s \in Segment : segment[s] = e.ram,
         \A q \in Proc, w \in Worker :
           /\ (pc[q][w] = "fill") = (pc'[q][w] = "fill")
           /\ pc[q][w] = "fill" => at'[q][w].ram = at[q][w].ram
           /\ pc'[q][w] = "take" =>
                /\ pc[q][w] = "take" /\ at'[q][w] = at[q][w]
                /\ q = p => at[q][w].page # g
  PROVE  /\ mmu' \in [Proc -> [Page -> Entry]] /\ count' \in [Ram -> Nat]
         /\ Bounded' /\ SoleAlone'
<1> DEFINE x == <<"entry", p, g>>
<1> USE GuestMemoryAssumption
<1>0. TypeOK /\ Shape /\ Control /\ Bounded /\ SoleAlone
  BY DEF IInv
<1>1. mmu' \in [Proc -> [Page -> Entry]]
  BY <1>0 DEF SetPage, TypeOK
<1>2. /\ mmu'[p][g] = e
      /\ \A q \in Proc, h \in Page : q # p \/ h # g => mmu'[q][h] = mmu[q][h]
  BY <1>0 DEF SetPage, TypeOK
<1>3. x \in Slots /\ Points(x) = mmu[p][g].ram /\ Points(x)' = e.ram
  BY <1>2, PointsAt, PointsAtNext
<1>4. \A y \in Slots \ {x} : Points(y)' = Points(y)
  <2>1. \A q \in Proc, h \in Page : <<"entry", q, h>> \notin {x} => mmu'[q][h].ram = mmu[q][h].ram
    BY <1>2
  <2> HIDE DEF x
  <2> QED BY <2>1, SamePointers DEF objects
<1>5. mmu[p][g].ram \in Ram \cup {NoRam} /\ e.ram \in Ram \cup {NoRam}
  BY <1>0 DEF TypeOK, Entry
<1>6. /\ count' \in [Ram -> Int]
      /\ \A r \in Ram : count'[r] = count[r] - (IF Points(x) = r THEN 1 ELSE 0)
                                           + (IF Points(x)' = r THEN 1 ELSE 0)
  BY <1>0, <1>3, <1>5 DEF SetPage, TypeOK, Released, Retained
<1>7. Bounded' /\ count' \in [Ram -> Nat]
  <2>1. ASSUME NEW r \in Ram
        PROVE  count'[r] >= count[r] - (IF Points(x) = r THEN 1 ELSE 0)
                                     + (IF Points(x)' = r THEN 1 ELSE 0)
    <3>1. count[r] \in Nat /\ count'[r] \in Int
      BY <1>0, <1>6 DEF TypeOK
    <3> HIDE DEF x
    <3> QED BY <1>6, <3>1
  <2> HIDE DEF x
  <2> QED BY <1>0, <1>3, <1>4, <1>6, <2>1, BoundedAfter
<1>8. ~Sole(x)'
  <2>1. ~Private(p, g)'
    BY <1>0, <1>2 DEF Private, objects
  <2> QED BY <1>2, <2>1 DEF Sole
<1>9. ASSUME NEW y \in Slots \ {x}, Sole(y)'
      PROVE  Sole(y) /\ Points(y) # Points(x)'
  <2>1. Sole(y)
    <3>1. ASSUME NEW q \in Proc, NEW h \in Page, y = <<"entry", q, h>>, Private(q, h)'
          PROVE  Private(q, h)
      <4>1. q # p \/ h # g
        BY <3>1
      <4> QED BY <1>2, <3>1, <4>1 DEF Private, objects
    <3>2. ASSUME NEW q \in Proc, NEW w \in Worker,
                 y = <<"entry", q, at'[q][w].page>>, pc'[q][w] = "take",
                 ~mmu'[q][at'[q][w].page].shared
          PROVE  /\ y = <<"entry", q, at[q][w].page>> /\ pc[q][w] = "take"
                 /\ ~mmu[q][at[q][w].page].shared
      <4>1. pc[q][w] = "take" /\ at'[q][w] = at[q][w] /\ (q = p => at[q][w].page # g)
        BY <3>2
      <4>2. at[q][w].page \in Page
        BY <1>0, <4>1 DEF Control
      <4> QED BY <1>2, <3>2, <4>1, <4>2
    <3>3. ASSUME NEW q \in Proc, NEW w \in Worker, pc'[q][w] = "fill"
          PROVE  pc[q][w] = "fill"
      BY <3>3
    <3> QED BY <1>9, <3>1, <3>2, <3>3 DEF Sole
  <2>2. Holders(Points(y)) = {y}
    BY <1>0, <2>1 DEF SoleAlone
  <2>3. (\A f \in Cached : y # <<"cache", f>>) /\ (\A s \in Segment : y # <<"segment", s>>)
    BY <2>1 DEF Sole
  <2>4. ASSUME NEW f \in Cached PROVE cache[f] # Points(y)
    <3>1. <<"cache", f>> \in Slots /\ Points(<<"cache", f>>) = cache[f] /\ y # <<"cache", f>>
      BY <2>3, PointsAt
    <3> QED BY <2>2, <3>1 DEF Holders
  <2>5. ASSUME NEW s \in Segment PROVE segment[s] # Points(y)
    <3>1. /\ <<"segment", s>> \in Slots /\ Points(<<"segment", s>>) = segment[s]
          /\ y # <<"segment", s>>
      BY <2>3, PointsAt
    <3> QED BY <2>2, <3>1 DEF Holders
  <2>6. Points(y) # NoRam
    BY <1>0, <2>1, PointsAt DEF Sole, Private, Control, Shape
  <2> QED BY <1>3, <2>1, <2>4, <2>5, <2>6
<1>10. SoleAlone'
  BY <1>0, <1>3, <1>4, <1>8, <1>9, SoleAfter
<1> QED BY <1>1, <1>7, <1>10

LEMMA EntryWith ==
  ASSUME NEW e \in Entry
  PROVE  /\ \A t \in {"none", "ram", "cow", "file", "code"} :
              [e EXCEPT !.type = t] \in Entry
         /\ \A r \in Ram \cup {NoRam} : [e EXCEPT !.ram = r] \in Entry
         /\ \A b \in BOOLEAN :
              [e EXCEPT !.write = b] \in Entry /\ [e EXCEPT !.futex = b] \in Entry
BY DEF Entry

\* A new host page.
LEMMA SetNewPageKeeps ==
  ASSUME IInv, NEW p \in Proc, NEW g \in Page, NEW e \in Entry, NEW r \in Unused,
         NEW v \in Value, NEW extra \in {0, 1}, SetNewPage(p, g, e, r, v, extra),
         UNCHANGED objects,
         \A q \in Proc, w \in Worker :
           /\ (pc[q][w] = "fill") = (pc'[q][w] = "fill")
           /\ pc[q][w] = "fill" => at'[q][w].ram = at[q][w].ram
           /\ pc'[q][w] = "take" =>
                /\ pc[q][w] = "take" /\ at'[q][w] = at[q][w]
                /\ q = p => at[q][w].page # g
  PROVE  /\ mmu' \in [Proc -> [Page -> Entry]] /\ count' \in [Ram -> Nat]
         /\ data' \in [Ram -> Value] /\ Bounded' /\ SoleAlone'
<1> DEFINE x == <<"entry", p, g>>  n == [e EXCEPT !.ram = r]
<1> USE GuestMemoryAssumption
<1>0. TypeOK /\ Shape /\ Control /\ Bounded /\ SoleAlone
  BY DEF IInv
<1>1. r \in Ram /\ count[r] = 0
  BY DEF Unused
<1>2. n \in Entry /\ n.ram = r
  BY <1>1 DEF Entry
<1>3. mmu' = [mmu EXCEPT ![p][g] = n]
  BY DEF SetNewPage
<1> HIDE DEF n
<1>4. /\ mmu' \in [Proc -> [Page -> Entry]]
      /\ mmu'[p][g] = n
      /\ \A q \in Proc, h \in Page : q # p \/ h # g => mmu'[q][h] = mmu[q][h]
  BY <1>0, <1>2, <1>3 DEF TypeOK
<1>14. data' \in [Ram -> Value]
  BY <1>0, <1>1 DEF SetNewPage, TypeOK
<1>5. x \in Slots /\ Points(x) = mmu[p][g].ram /\ Points(x)' = r
  BY <1>2, <1>4, PointsAt, PointsAtNext
<1>6. \A y \in Slots \ {x} : Points(y)' = Points(y)
  <2>1. \A q \in Proc, h \in Page : <<"entry", q, h>> \notin {x} => mmu'[q][h].ram = mmu[q][h].ram
    BY <1>4
  <2> HIDE DEF x
  <2> QED BY <2>1, SamePointers DEF objects
<1>7. Holders(r) = {} /\ Holders(r)' = {x}
  BY <1>0, <1>5, <1>6, FreshAlone
<1>8. \A y \in Slots : Points(y) # r
  BY <1>7 DEF Holders
<1>9. mmu[p][g].ram \in Ram \cup {NoRam} /\ mmu[p][g].ram # r
  BY <1>0, <1>5, <1>8 DEF TypeOK, Entry
<1>10. /\ count' \in [Ram -> Int] /\ count'[r] = 1 + extra
       /\ \A s \in Ram \ {r} : count'[s] = count[s] - (IF Points(x) = s THEN 1 ELSE 0)
  BY <1>0, <1>1, <1>5, <1>9 DEF SetNewPage, TypeOK, Released
<1>11. Bounded' /\ count' \in [Ram -> Nat]
  <2>1. ASSUME NEW s \in Ram
        PROVE  count'[s] >= count[s] - (IF Points(x) = s THEN 1 ELSE 0)
                                     + (IF Points(x)' = s THEN 1 ELSE 0)
    <3>1. count[s] \in Nat /\ count'[s] \in Int
      BY <1>0, <1>10 DEF TypeOK
    <3> HIDE DEF x
    <3>2. CASE s = r
      BY <1>1, <1>5, <1>9, <1>10, <3>1, <3>2
    <3>3. CASE s # r
      BY <1>5, <1>10, <3>1, <3>3
    <3> QED BY <3>2, <3>3
  <2> HIDE DEF x
  <2> QED BY <1>0, <1>5, <1>6, <1>10, <2>1, BoundedAfter
<1>12. ASSUME NEW y \in Slots \ {x}, Sole(y)' PROVE Sole(y)
  <2>1. ASSUME NEW q \in Proc, NEW h \in Page, y = <<"entry", q, h>>, Private(q, h)'
        PROVE  Private(q, h)
    <3>1. q # p \/ h # g
      BY <2>1
    <3> QED BY <1>4, <2>1, <3>1 DEF Private, objects
  <2>2. ASSUME NEW q \in Proc, NEW w \in Worker, pc'[q][w] = "take",
               ~mmu'[q][at'[q][w].page].shared
        PROVE  /\ at'[q][w] = at[q][w] /\ pc[q][w] = "take"
               /\ ~mmu[q][at[q][w].page].shared
    <3>1. pc[q][w] = "take" /\ at'[q][w] = at[q][w] /\ (q = p => at[q][w].page # g)
      BY <2>2
    <3>2. at[q][w].page \in Page
      BY <1>0, <3>1 DEF Control
    <3> QED BY <1>4, <2>2, <3>1, <3>2
  <2>3. ASSUME NEW q \in Proc, NEW w \in Worker, pc'[q][w] = "fill"
        PROVE  pc[q][w] = "fill"
    BY <2>3
  <2> QED BY <1>12, <2>1, <2>2, <2>3 DEF Sole
<1>13. SoleAlone'
  <2> HIDE DEF x
  <2> QED BY <1>0, <1>5, <1>6, <1>7, <1>8, <1>12, SoleAfter
<1> QED BY <1>4, <1>11, <1>13, <1>14

-----------------------------------------------------------------------------
(* The invariant is preserved: one lemma per action.                        *)

\* mmap, munmap and shmat replace an entry no other thread uses.
LEMMA ReplaceKeeps ==
  ASSUME IInv, NEW p \in Proc, NEW g \in Page, NEW e \in Entry, SetPage(p, g, e),
         Quiet(p, g), UNCHANGED <<data, objects, alive, lock, pc, at>>,
         \/ e.type = "none" /\ e.ram = NoRam
         \/ e.type = "ram" /\ e.ram = NoRam
         \/ e.type = "file" /\ e.ram = NoRam /\ e.file \in File
         \/ e.type = "ram" /\ e.ram \in Ram /\ \E s \in Segment : segment[s] = e.ram
  PROVE  IInv'
<1> USE GuestMemoryAssumption
<1>0. TypeOK /\ Shape /\ OneParent /\ Control
  BY DEF IInv
<1>1. /\ mmu'[p][g] = e
      /\ \A q \in Proc, h \in Page : q # p \/ h # g => mmu'[q][h] = mmu[q][h]
  BY <1>0 DEF SetPage, TypeOK
<1>2. \A u \in Worker : pc[p][u] # "user" => at[p][u].page # g
  BY DEF Quiet
<1>3. mmu' \in [Proc -> [Page -> Entry]] /\ count' \in [Ram -> Nat] /\ Bounded' /\ SoleAlone'
  BY <1>2, SetPageKeeps
<1>4. TypeOK'
  BY <1>0, <1>3 DEF TypeOK, objects
<1>5. Shape'
  BY <1>0, <1>1 DEF Shape
<1>6. OneParent'
  BY <1>0 DEF OneParent
<1>7. Control'
  BY <1>0, <1>1, <1>2 DEF Control
<1> QED BY <1>3, <1>4, <1>5, <1>6, <1>7 DEF IInv

LEMMA MapKeeps ==
  ASSUME IInv, NEW p \in Proc, NEW w \in Worker, NEW g \in Page, NEW k \in MapKinds,
         Map(p, w, g, k)
  PROVE  IInv'
<1> DEFINE e == [NoEntry EXCEPT
                   !.type = IF k.file = NoFile THEN "ram" ELSE "file",
                   !.file = k.file, !.shared = k.shared, !.write = k.write]
<1>1. SetPage(p, g, e) /\ Quiet(p, g) /\ UNCHANGED <<data, objects, alive, lock, pc, at>>
  BY DEF Map
<1>2. k \in Kind
  BY GuestMemoryAssumption
<1>3. /\ e \in Entry /\ e.ram = NoRam
      /\ e.type \in {"ram", "file"} /\ (e.type = "file" => e.file \in File)
  BY <1>2 DEF Entry, NoEntry, Kind
<1> HIDE DEF e
<1> QED BY <1>1, <1>3, ReplaceKeeps

LEMMA UnmapKeeps ==
  ASSUME IInv, NEW p \in Proc, NEW w \in Worker, NEW g \in Page, Unmap(p, w, g)
  PROVE  IInv'
<1>1. NoEntry \in Entry /\ NoEntry.type = "none" /\ NoEntry.ram = NoRam
  BY DEF Entry, NoEntry
<1> QED BY <1>1, ReplaceKeeps DEF Unmap

LEMMA AttachKeeps ==
  ASSUME IInv, NEW p \in Proc, NEW w \in Worker, NEW g \in Page, NEW s \in Segment,
         Attach(p, w, g, s)
  PROVE  IInv'
<1> PICK b \in BOOLEAN :
      SetPage(p, g, [NoEntry EXCEPT !.type = "ram", !.ram = segment[s], !.write = b])
  BY DEF Attach
<1> DEFINE e == [NoEntry EXCEPT !.type = "ram", !.ram = segment[s], !.write = b]
<1>1. SetPage(p, g, e) /\ Quiet(p, g) /\ UNCHANGED <<data, objects, alive, lock, pc, at>>
  BY DEF Attach
<1>2. segment[s] \in Ram
  BY DEF Attach, IInv, TypeOK
<1>3. e \in Entry /\ e.type = "ram" /\ e.ram \in Ram /\ segment[s] = e.ram
  BY <1>2 DEF Entry, NoEntry
<1> HIDE DEF e
<1> QED BY <1>1, <1>3, ReplaceKeeps

LEMMA LeavePageKeeps ==
  ASSUME IInv, NEW p \in Proc, NEW w \in Worker, LeavePage(p, w)
  PROVE  IInv'
<1> DEFINE g == at[p][w].page
<1> USE GuestMemoryAssumption
<1>0. TypeOK /\ Shape /\ OneParent /\ Control
  BY DEF IInv
<1>1. /\ pc[p][w] \in {"exit", "exec"} /\ g \in Page /\ SetPage(p, g, NoEntry)
      /\ at' = [at EXCEPT ![p][w].page = @ + 1]
      /\ UNCHANGED <<data, objects, alive, lock, pc>>
  BY DEF LeavePage
<1>2. NoEntry \in Entry /\ NoEntry.type = "none" /\ NoEntry.ram = NoRam
  BY DEF Entry, NoEntry
<1>3. /\ mmu'[p][g] = NoEntry
      /\ \A q \in Proc, h \in Page : q # p \/ h # g => mmu'[q][h] = mmu[q][h]
  BY <1>0, <1>1 DEF SetPage, TypeOK
<1>4. \A u \in Worker \ {w} : pc[p][u] = "user"
  BY <1>0, <1>1 DEF Control
<1>5. \A q \in Proc, u \in Worker : q # p \/ u # w => at'[q][u] = at[q][u]
  BY <1>0, <1>1 DEF TypeOK
<1>6. at' \in [Proc -> [Worker -> Access]] /\ at'[p][w].child = at[p][w].child
  <2>1. at[p][w] \in Access
    BY <1>0 DEF TypeOK
  <2>2. [at[p][w] EXCEPT !.page = @ + 1] \in Access
    BY <1>1, <2>1 DEF Access, Page
  <2> QED BY <1>0, <1>1, <2>1, <2>2 DEF TypeOK, Access
<1>7. mmu' \in [Proc -> [Page -> Entry]] /\ count' \in [Ram -> Nat] /\ Bounded' /\ SoleAlone'
  BY <1>0, <1>1, <1>2, <1>4, <1>5, SetPageKeeps
<1>8. TypeOK'
  BY <1>0, <1>1, <1>6, <1>7 DEF TypeOK, objects
<1>9. Shape'
  BY <1>0, <1>2, <1>3 DEF Shape
<1>10. OneParent'
  BY <1>0, <1>1, <1>5 DEF OneParent
<1>11. Control'
  <2> SUFFICES ASSUME NEW q \in Proc, NEW u \in Worker PROVE Control!(q, u)'
    BY DEF Control
  <2>1. CASE q = p /\ u = w
    BY <1>0, <1>1, <2>1 DEF Control
  <2>2. CASE q = p /\ u # w
    BY <1>0, <1>1, <1>4, <2>2 DEF Control
  <2>3. CASE q # p
    BY <1>0, <1>1, <1>3, <1>5, <2>3 DEF Control
  <2> QED BY <2>1, <2>2, <2>3
<1> QED BY <1>7, <1>8, <1>9, <1>10, <1>11 DEF IInv

\* A step of one thread that moves no pointer and takes no page over.
LEMMA CalmKeeps ==
  ASSUME IInv, NEW p \in Proc, NEW w \in Worker,
         UNCHANGED <<count, objects>>,
         \A q \in Proc, u \in Worker :
           q # p \/ u # w => pc'[q][u] = pc[q][u] /\ at'[q][u] = at[q][u],
         pc[p][w] # "fill", pc'[p][w] \notin {"fill", "take"},
         \A q \in Proc, h \in Page :
           /\ mmu'[q][h].ram = mmu[q][h].ram /\ mmu'[q][h].shared = mmu[q][h].shared
           /\ mmu'[q][h].type = "ram" => mmu[q][h].type = "ram"
  PROVE  Bounded' /\ SoleAlone'
<1>0. TypeOK /\ Control /\ Bounded /\ SoleAlone
  BY DEF IInv
<1>1. \A y \in Slots : Points(y)' = Points(y)
  <2>1. \A q \in Proc, u \in Worker :
          /\ (pc[q][u] = "fill") = (pc'[q][u] = "fill")
          /\ pc[q][u] = "fill" => at'[q][u].ram = at[q][u].ram
    OBVIOUS
  <2> DEFINE X == {}
  <2>2. \A y \in Slots \ X : Points(y)' = Points(y)
    <3> HIDE DEF X
    <3> QED BY <2>1, SamePointers DEF objects
  <2> QED BY <2>2
<1>2. ASSUME NEW y \in Slots, Sole(y)' PROVE Sole(y)
  <2>1. ASSUME NEW q \in Proc, NEW h \in Page, Private(q, h)' PROVE Private(q, h)
    BY <2>1 DEF Private, objects
  <2>2. ASSUME NEW q \in Proc, NEW u \in Worker, pc'[q][u] = "take",
               ~mmu'[q][at'[q][u].page].shared
        PROVE  /\ pc[q][u] = "take" /\ at'[q][u] = at[q][u]
               /\ ~mmu[q][at[q][u].page].shared
    <3>1. pc[q][u] = "take" /\ at'[q][u] = at[q][u]
      BY <2>2
    <3>2. at[q][u].page \in Page
      BY <1>0, <3>1 DEF Control
    <3> QED BY <2>2, <3>1, <3>2
  <2> QED BY <1>2, <2>1, <2>2 DEF Sole
<1> QED BY <1>0, <1>1, <1>2, Still

LEMMA TypeChanged ==
  ASSUME NEW e \in Entry, NEW t \in {"none", "ram", "cow", "file", "code"}
  PROVE  LET n == [e EXCEPT !.type = t] IN
         /\ n \in Entry /\ n.type = t /\ n.ram = e.ram /\ n.file = e.file
         /\ n.shared = e.shared /\ e.ram \in Ram \cup {NoRam}
BY DEF Entry

LEMMA NoAccessType == NoAccess \in Access
BY GuestMemoryAssumption DEF NoAccess, Accessing, Access

\* The end of a handler that leaves the entries as they are.
LEMMA ReturnKeeps ==
  ASSUME IInv, NEW p \in Proc, NEW w \in Worker, Return(p, w), pc[p][w] # "fill",
         UNCHANGED <<mmu, count, objects, alive, lock>>, data' \in [Ram -> Value]
  PROVE  IInv'
<1> USE GuestMemoryAssumption
<1>0. TypeOK /\ Shape /\ OneParent /\ Control
  BY DEF IInv
<1>1. /\ pc'[p][w] = "user" /\ at'[p][w] = NoAccess
      /\ \A q \in Proc, u \in Worker :
           q # p \/ u # w => pc'[q][u] = pc[q][u] /\ at'[q][u] = at[q][u]
  BY <1>0 DEF Return, GoTo, TypeOK
<1>2. Bounded' /\ SoleAlone'
  BY <1>1, CalmKeeps
<1>3. TypeOK'
  BY <1>0, NoAccessType DEF TypeOK, Return, GoTo, objects
<1>4. Shape'
  BY <1>0 DEF Shape
<1>5. OneParent'
  BY <1>0, <1>1 DEF OneParent
<1>6. Control'
  <2> SUFFICES ASSUME NEW q \in Proc, NEW u \in Worker PROVE Control!(q, u)'
    BY DEF Control
  <2>1. CASE q = p /\ u = w
    BY <1>1, <2>1
  <2>2. CASE q # p \/ u # w
    BY <1>0, <1>1, <2>2 DEF Control
  <2> QED BY <2>1, <2>2
<1> QED BY <1>2, <1>3, <1>4, <1>5, <1>6 DEF IInv

LEMMA StoreKeeps ==
  ASSUME IInv, NEW p \in Proc, NEW w \in Worker, Store(p, w)
  PROVE  IInv'
<1>1. at[p][w].val \in Value /\ data \in [Ram -> Value]
  BY DEF IInv, TypeOK, Access
<1> QED BY <1>1, ReturnKeeps DEF Store

LEMMA WakeKeeps ==
  ASSUME IInv, NEW p \in Proc, NEW w \in Worker, Wake(p, w)
  PROVE  IInv'
<1>1. data \in [Ram -> Value]
  BY DEF IInv, TypeOK
<1> QED BY <1>1, ReturnKeeps DEF Wake, host

LEMMA BeginKeeps ==
  ASSUME IInv, NEW p \in Proc, NEW w \in Worker, NEW g \in Page, NEW b \in BOOLEAN,
         NEW v \in Value, Begin(p, w, g, b, v)
  PROVE  IInv'
<1> DEFINE a == Accessing(g, b, v, NoRam, NoProc)
           where == Handler(mmu[p][g], b)
<1> USE GuestMemoryAssumption
<1>0. TypeOK /\ Shape /\ OneParent /\ Control
  BY DEF IInv
<1>1. /\ Runs(p, w) /\ pc' = [pc EXCEPT ![p][w] = where] /\ at' = [at EXCEPT ![p][w] = a]
      /\ UNCHANGED <<mmu, host, objects, alive, lock>>
  BY DEF Begin, GoTo
<1>2. a \in Access /\ a.page = g
  <2>1. g \in 1 .. LastPage + 1
    BY DEF Page
  <2> QED BY <2>1 DEF Access, Accessing
<1>3. where \in {"file", "cow", "code", "rw"} /\ (where = "code" => mmu[p][g].type = "code")
  BY DEF Handler
<1> HIDE DEF a, where
<1>4. /\ pc'[p][w] = where /\ at'[p][w] = a
      /\ \A q \in Proc, u \in Worker :
           q # p \/ u # w => pc'[q][u] = pc[q][u] /\ at'[q][u] = at[q][u]
  BY <1>0, <1>1 DEF TypeOK
<1>5. p \in alive /\ pc[p][w] = "user" /\ \A u \in Worker : pc[p][u] \notin {"exit", "exec"}
  BY <1>1 DEF Runs
<1>6. Bounded' /\ SoleAlone'
  BY <1>1, <1>3, <1>4, <1>5, CalmKeeps DEF host
<1>7. TypeOK'
  BY <1>0, <1>1, <1>2, <1>3 DEF TypeOK, host, objects
<1>8. Shape'
  BY <1>0, <1>1 DEF Shape
<1>9. OneParent'
  BY <1>0, <1>3, <1>4 DEF OneParent
<1>10. Control'
  <2> SUFFICES ASSUME NEW q \in Proc, NEW u \in Worker PROVE Control!(q, u)'
    BY DEF Control
  <2>1. CASE q = p /\ u = w
    BY <1>1, <1>2, <1>3, <1>4, <1>5, <2>1
  <2>2. CASE q # p \/ u # w
    BY <1>0, <1>1, <1>4, <1>5, <2>2 DEF Control
  <2> QED BY <2>1, <2>2
<1> QED BY <1>6, <1>7, <1>8, <1>9, <1>10 DEF IInv

LEMMA ProtectKeeps ==
  ASSUME IInv, NEW p \in Proc, NEW w \in Worker, NEW g \in Page, Protect(p, w, g)
  PROVE  IInv'
<1>0. TypeOK /\ Shape /\ OneParent /\ Control
  BY DEF IInv
<1> PICK b \in BOOLEAN : mmu' = [mmu EXCEPT ![p][g].write = b]
  BY DEF Protect
<1>1. UNCHANGED <<host, objects, alive, lock, pc, at>> /\ pc[p][w] = "user"
  BY DEF Protect, Runs
<1>2. mmu[p][g] \in Entry /\ [mmu[p][g] EXCEPT !.write = b] \in Entry
  <2>1. mmu[p][g] \in Entry
    BY <1>0 DEF TypeOK
  <2> QED BY <2>1, EntryWith
<1>3. /\ mmu' \in [Proc -> [Page -> Entry]]
      /\ mmu'[p][g] = [mmu[p][g] EXCEPT !.write = b]
      /\ \A q \in Proc, h \in Page : q # p \/ h # g => mmu'[q][h] = mmu[q][h]
  BY <1>0, <1>2 DEF TypeOK
<1>4. \A q \in Proc, h \in Page :
        /\ mmu'[q][h].ram = mmu[q][h].ram /\ mmu'[q][h].shared = mmu[q][h].shared
        /\ mmu'[q][h].type = mmu[q][h].type /\ mmu'[q][h].file = mmu[q][h].file
  BY <1>2, <1>3 DEF Entry
<1>5. Bounded' /\ SoleAlone'
  BY <1>1, <1>4, CalmKeeps DEF host
<1>6. TypeOK'
  BY <1>0, <1>1, <1>3 DEF TypeOK, host, objects
<1>7. Shape' /\ OneParent'
  BY <1>0, <1>1, <1>4 DEF Shape, OneParent
<1>8. Control'
  BY <1>0, <1>1, <1>4 DEF Control
<1> QED BY <1>5, <1>6, <1>7, <1>8 DEF IInv

LEMMA ExecuteKeeps ==
  ASSUME IInv, NEW p \in Proc, NEW w \in Worker, NEW g \in Page, Execute(p, w, g)
  PROVE  IInv'
<1> USE GuestMemoryAssumption
<1>0. TypeOK /\ Shape /\ OneParent /\ Control
  BY DEF IInv
<1>1. /\ UNCHANGED <<host, objects, alive, lock, pc, at>>
      /\ pc[p][w] = "user" /\ lock[p] = NoWorker
      /\ mmu' = [mmu EXCEPT ![p][g].type = "code"]
      /\ mmu[p][g].type \in {"ram", "cow"} /\ mmu[p][g].ram # NoRam
  BY DEF Execute, Runs, Free
<1>2. mmu[p][g] \in Entry /\ [mmu[p][g] EXCEPT !.type = "code"] \in Entry
  <2>1. mmu[p][g] \in Entry
    BY <1>0 DEF TypeOK
  <2> QED BY <2>1, EntryWith
<1>3. /\ mmu' \in [Proc -> [Page -> Entry]]
      /\ mmu'[p][g] = [mmu[p][g] EXCEPT !.type = "code"]
      /\ \A q \in Proc, h \in Page : q # p \/ h # g => mmu'[q][h] = mmu[q][h]
  BY <1>0, <1>1, <1>2 DEF TypeOK
<1>4. /\ mmu'[p][g].type = "code"
      /\ \A q \in Proc, h \in Page :
           /\ mmu'[q][h].ram = mmu[q][h].ram /\ mmu'[q][h].shared = mmu[q][h].shared
           /\ mmu'[q][h].file = mmu[q][h].file
  BY <1>2, <1>3 DEF Entry
<1>5. Bounded' /\ SoleAlone'
  BY <1>1, <1>3, <1>4, CalmKeeps DEF host
<1>6. TypeOK'
  BY <1>0, <1>1, <1>3 DEF TypeOK, host, objects
<1>7. Shape' /\ OneParent'
  BY <1>0, <1>1, <1>2, <1>3, <1>4 DEF Shape, OneParent, Entry
<1>8. Control'
  BY <1>0, <1>1, <1>3, <1>4 DEF Control
<1> QED BY <1>5, <1>6, <1>7, <1>8 DEF IInv

LEMMA WaitKeeps ==
  ASSUME IInv, NEW p \in Proc, NEW w \in Worker, NEW g \in Page, Wait(p, w, g)
  PROVE  IInv'
<1> DEFINE a == Accessing(g, FALSE, Zero, mmu[p][g].ram, NoProc)
<1> USE GuestMemoryAssumption
<1>0. TypeOK /\ Shape /\ OneParent /\ Control
  BY DEF IInv
<1>1. /\ UNCHANGED <<host, objects, alive, lock>> /\ pc[p][w] = "user" /\ p \in alive
      /\ mmu' = [mmu EXCEPT ![p][g].futex = TRUE]
      /\ pc' = [pc EXCEPT ![p][w] = "wait"] /\ at' = [at EXCEPT ![p][w] = a]
      /\ \A u \in Worker : pc[p][u] \notin {"exit", "exec"}
  BY DEF Wait, Runs, GoTo
<1>2. mmu[p][g] \in Entry /\ [mmu[p][g] EXCEPT !.futex = TRUE] \in Entry
  <2>1. mmu[p][g] \in Entry
    BY <1>0 DEF TypeOK
  <2> QED BY <2>1, EntryWith
<1>3. a \in Access /\ a.page = g
  <2>1. g \in 1 .. LastPage + 1 /\ mmu[p][g].ram \in Ram \cup {NoRam}
    BY <1>2 DEF Page, Entry
  <2> QED BY <2>1 DEF Access, Accessing
<1> HIDE DEF a
<1>4. /\ mmu' \in [Proc -> [Page -> Entry]]
      /\ mmu'[p][g] = [mmu[p][g] EXCEPT !.futex = TRUE]
      /\ \A q \in Proc, h \in Page : q # p \/ h # g => mmu'[q][h] = mmu[q][h]
  BY <1>0, <1>1, <1>2 DEF TypeOK
<1>5. \A q \in Proc, h \in Page :
        /\ mmu'[q][h].ram = mmu[q][h].ram /\ mmu'[q][h].shared = mmu[q][h].shared
        /\ mmu'[q][h].type = mmu[q][h].type /\ mmu'[q][h].file = mmu[q][h].file
  BY <1>2, <1>4 DEF Entry
<1>6. /\ pc'[p][w] = "wait" /\ at'[p][w] = a
      /\ \A q \in Proc, u \in Worker :
           q # p \/ u # w => pc'[q][u] = pc[q][u] /\ at'[q][u] = at[q][u]
  BY <1>0, <1>1 DEF TypeOK
<1>7. Bounded' /\ SoleAlone'
  BY <1>1, <1>5, <1>6, CalmKeeps DEF host
<1>8. TypeOK'
  BY <1>0, <1>1, <1>3, <1>4 DEF TypeOK, host, objects
<1>9. Shape' /\ OneParent'
  BY <1>0, <1>1, <1>5, <1>6 DEF Shape, OneParent
<1>10. Control'
  <2> SUFFICES ASSUME NEW q \in Proc, NEW u \in Worker PROVE Control!(q, u)'
    BY DEF Control
  <2>1. CASE q = p /\ u = w
    BY <1>1, <1>3, <1>6, <2>1
  <2>2. CASE q # p \/ u # w
    BY <1>0, <1>1, <1>5, <1>6, <2>2 DEF Control
  <2> QED BY <2>1, <2>2
<1> QED BY <1>7, <1>8, <1>9, <1>10 DEF IInv

LEMMA ResolveKeeps ==
  ASSUME IInv, NEW p \in Proc, NEW w \in Worker, Resolve(p, w)
  PROVE  IInv'
<1> DEFINE g == at[p][w].page  e == mmu[p][g]  n == [e EXCEPT !.type = "ram"]
<1> USE GuestMemoryAssumption
<1>0. TypeOK /\ Shape /\ OneParent /\ Control
  BY DEF IInv
<1>1. g \in Page /\ e \in Entry /\ pc[p][w] = "rw" /\ UNCHANGED <<objects, alive, lock>>
  <2>1. pc[p][w] = "rw" /\ UNCHANGED <<objects, alive, lock>>
    BY DEF Resolve
  <2>2. g \in Page
    BY <1>0, <2>1 DEF Control
  <2> QED BY <1>0, <2>1, <2>2 DEF TypeOK
<1>2. CASE Return(p, w) /\ UNCHANGED <<mmu, host>>
  BY <1>0, <1>1, <1>2, ReturnKeeps DEF TypeOK, host
<1>3. ASSUME e.ram = NoRam, e.type # "file", Free(p), NEW r \in Unused,
             SetNewPage(p, g, n, r, Zero, 0), UNCHANGED <<pc, at>>
      PROVE  IInv'
  <2>1. n \in Entry /\ n.type = "ram"
    BY <1>1, EntryWith DEF Entry
  <2> HIDE DEF n
  <2>2. \A u \in Worker : pc[p][u] \notin {"copy", "take", "fill"}
    BY <1>0, <1>3 DEF Control, Free
  <2>3. e.type \notin {"cow", "code"}
    BY <1>0, <1>1, <1>3 DEF Shape
  <2>4. mmu' \in [Proc -> [Page -> Entry]] /\ count' \in [Ram -> Nat]
        /\ data' \in [Ram -> Value] /\ Bounded' /\ SoleAlone'
    BY <1>1, <1>3, <2>1, <2>2, SetNewPageKeeps
  <2>5. /\ mmu'[p][g] = [n EXCEPT !.ram = r]
        /\ \A q \in Proc, h \in Page : q # p \/ h # g => mmu'[q][h] = mmu[q][h]
    BY <1>0, <1>1, <1>3 DEF SetNewPage, TypeOK
  <2>6. r \in Ram /\ mmu'[p][g].type = "ram" /\ mmu'[p][g].ram = r
    BY <2>1, <2>5 DEF Entry, Unused
  <2>7. TypeOK'
    BY <1>0, <1>1, <1>3, <2>4 DEF TypeOK, objects
  <2>8. Shape' /\ OneParent'
    <3>1. Shape'
      <4> SUFFICES ASSUME NEW q \in Proc, NEW h \in Page PROVE Shape!(q, h)'
        BY DEF Shape
      <4>1. CASE q = p /\ h = g
        BY <2>6, <4>1
      <4>2. CASE q # p \/ h # g
        BY <1>0, <2>5, <4>2 DEF Shape
      <4> QED BY <4>1, <4>2
    <3>2. OneParent'
      BY <1>0, <1>3 DEF OneParent
    <3> QED BY <3>1, <3>2
  <2>9. Control'
    BY <1>0, <1>1, <1>3, <2>2, <2>3, <2>5 DEF Control
  <2> QED BY <2>4, <2>7, <2>8, <2>9 DEF IInv
<1>4. CASE e.ram # NoRam /\ GoTo(p, w, "store") /\ Holding(p, w, e.ram) /\ UNCHANGED <<mmu, host>>
  <2>1. e.ram \in Ram /\ at[p][w] \in Access
    BY <1>0, <1>1, <1>4 DEF Entry, TypeOK
  <2>2. [at[p][w] EXCEPT !.ram = e.ram] \in Access
    BY <2>1 DEF Access
  <2>3. at' = [at EXCEPT ![p][w] = [at[p][w] EXCEPT !.ram = e.ram]]
    BY <1>0, <1>4 DEF Holding, TypeOK
  <2>4. /\ pc'[p][w] = "store" /\ at'[p][w] = [at[p][w] EXCEPT !.ram = e.ram]
        /\ \A q \in Proc, u \in Worker :
             q # p \/ u # w => pc'[q][u] = pc[q][u] /\ at'[q][u] = at[q][u]
    BY <1>0, <1>4, <2>3 DEF GoTo, TypeOK
  <2>5. at'[p][w].page = g /\ at'[p][w].ram = e.ram
    BY <2>1, <2>4 DEF Access
  <2>6. Bounded' /\ SoleAlone'
    BY <1>1, <1>4, <2>4, CalmKeeps DEF host
  <2>7. TypeOK'
    BY <1>0, <1>1, <1>4, <2>2, <2>3 DEF TypeOK, host, objects, GoTo
  <2>8. Shape' /\ OneParent'
    BY <1>0, <1>4, <2>4 DEF Shape, OneParent
  <2>9. Control'
    <3> SUFFICES ASSUME NEW q \in Proc, NEW u \in Worker PROVE Control!(q, u)'
      BY DEF Control
    <3>1. CASE q = p /\ u = w
      BY <1>0, <1>1, <2>1, <2>4, <2>5, <3>1 DEF Control
    <3>2. CASE q # p \/ u # w
      BY <1>0, <1>1, <1>4, <2>4, <3>2 DEF Control
    <3> QED BY <3>1, <3>2
  <2> QED BY <2>6, <2>7, <2>8, <2>9 DEF IInv
<1> QED BY <1>2, <1>3, <1>4 DEF Resolve

LEMMA LookCowKeeps ==
  ASSUME IInv, NEW p \in Proc, NEW w \in Worker, LookCow(p, w)
  PROVE  IInv'
<1> DEFINE g == at[p][w].page  e == mmu[p][g]
<1> USE GuestMemoryAssumption
<1>0. TypeOK /\ Shape /\ OneParent /\ Control /\ Bounded /\ SoleAlone
  BY DEF IInv
<1>1. /\ pc[p][w] = "cow" /\ lock[p] = NoWorker /\ g \in Page
      /\ UNCHANGED <<mmu, host, objects, alive, at>>
  BY <1>0 DEF LookCow, Free, Control
<1>2. PICK where \in {"rw", "copy", "take"} :
        /\ pc' = [pc EXCEPT ![p][w] = where]
        /\ where = "rw" => lock' = lock
        /\ where # "rw" => e.type = "cow" /\ lock' = [lock EXCEPT ![p] = w]
        /\ where = "take" => ~MustCopy(e)
  BY DEF LookCow, GoTo
<1>3. /\ pc'[p][w] = where
      /\ \A q \in Proc, u \in Worker :
           /\ q # p \/ u # w => pc'[q][u] = pc[q][u]
           /\ at'[q][u] = at[q][u]
      /\ \A q \in Proc \ {p} : lock'[q] = lock[q]
      /\ where # "rw" => lock'[p] = w
  BY <1>0, <1>1, <1>2 DEF TypeOK
<1>4. \A u \in Worker : pc[p][u] \notin {"copy", "take", "fill", "fork", "exit", "exec"}
  BY <1>0, <1>1 DEF Control
<1>5. ASSUME where = "take", ~e.shared PROVE Holders(e.ram) = {<<"entry", p, g>>}
  <2>1. e.ram \in Ram /\ count[e.ram] \in Nat /\ count[e.ram] <= 1
    BY <1>0, <1>1, <1>2, <1>5 DEF MustCopy, Shape, TypeOK
  <2> DEFINE H == Holders(e.ram)  x == <<"entry", p, g>>
  <2>2. IsFiniteSet(H) /\ Cardinality(H) <= 1 /\ Cardinality(H) \in Nat
    BY <1>0, <2>1, FS_CardinalityType DEF Bounded
  <2>3. x \in H
    BY <1>1, PointsAt DEF Holders
  <2> HIDE DEF H, x
  <2>4. IsFiniteSet(H \ {x}) /\ Cardinality(H \ {x}) = Cardinality(H) - 1
    BY <2>2, <2>3, FS_RemoveElement
  <2>5. H \ {x} = {}
    BY <2>2, <2>4, FS_CardinalityType, FS_EmptySet
  <2>6. H = {x}
    BY <2>3, <2>5
  <2> QED BY <2>6 DEF H, x
<1>6. Bounded' /\ SoleAlone'
  <2> DEFINE X == {}
  <2>1. \A y \in Slots \ X : Points(y)' = Points(y)
    <3>1. \A q \in Proc, u \in Worker : (pc[q][u] = "fill") = (pc'[q][u] = "fill")
      BY <1>1, <1>3
    <3> HIDE DEF X
    <3> QED BY <1>1, <1>3, <3>1, SamePointers DEF objects
  <2>2. ASSUME NEW y \in Slots, Sole(y)' PROVE Sole(y) \/ Holders(Points(y)) = {y}
    <3>1. ASSUME NEW q \in Proc, NEW h \in Page, y = <<"entry", q, h>>, Private(q, h)'
          PROVE  Sole(y)
      BY <1>1, <3>1 DEF Private, Sole, objects
    <3>2. ASSUME NEW q \in Proc, NEW u \in Worker, pc'[q][u] = "take",
                 y = <<"entry", q, at'[q][u].page>>, ~mmu'[q][at'[q][u].page].shared
          PROVE  Sole(y) \/ Holders(Points(y)) = {y}
      <4>1. CASE q = p /\ u = w
        BY <1>1, <1>3, <1>5, <3>2, <4>1, PointsAt
      <4>2. CASE q # p \/ u # w
        BY <1>1, <1>3, <3>2, <4>2 DEF Sole
      <4> QED BY <4>1, <4>2
    <3>3. ASSUME NEW q \in Proc, NEW u \in Worker, pc'[q][u] = "fill", y = <<"fill", q, u>>
          PROVE  Sole(y)
      BY <1>1, <1>3, <3>3 DEF Sole
    <3> QED BY <2>2, <3>1, <3>2, <3>3 DEF Sole
  <2> QED BY <1>0, <1>1, <2>1, <2>2, Still DEF host
<1>7. TypeOK'
  <2>1. lock' \in [Proc -> Worker \cup {NoWorker}]
    BY <1>0, <1>2 DEF TypeOK
  <2> QED BY <1>0, <1>1, <1>2, <2>1 DEF TypeOK, host, objects
<1>8. Shape' /\ OneParent'
  BY <1>0, <1>1, <1>3 DEF Shape, OneParent
<1>9. Control'
  <2> SUFFICES ASSUME NEW q \in Proc, NEW u \in Worker PROVE Control!(q, u)'
    BY DEF Control
  <2>1. CASE q = p /\ u = w
    BY <1>0, <1>1, <1>2, <1>3, <2>1 DEF Control
  <2>2. CASE q = p /\ u # w
    BY <1>0, <1>1, <1>2, <1>3, <1>4, <2>2 DEF Control
  <2>3. CASE q # p
    BY <1>0, <1>1, <1>3, <2>3 DEF Control
  <2> QED BY <2>1, <2>2, <2>3
<1> QED BY <1>6, <1>7, <1>8, <1>9 DEF IInv

LEMMA CopyKeeps ==
  ASSUME IInv, NEW p \in Proc, NEW w \in Worker, Copy(p, w)
  PROVE  IInv'
<1> DEFINE g == at[p][w].page  e == mmu[p][g]  n == [e EXCEPT !.type = "ram"]
<1> USE GuestMemoryAssumption
<1>0. TypeOK /\ Shape /\ OneParent /\ Control
  BY DEF IInv
<1>1. PICK r \in Unused : SetNewPage(p, g, n, r, data[e.ram], 0)
  BY DEF Copy
<1>2. /\ pc[p][w] = "copy" /\ UNCHANGED <<objects, alive, at>>
      /\ lock' = [lock EXCEPT ![p] = NoWorker] /\ pc' = [pc EXCEPT ![p][w] = "rw"]
  BY DEF Copy, GoTo
<1>3. g \in Page /\ lock[p] = w /\ e.type = "cow"
  BY <1>0, <1>2 DEF Control
<1>4. e \in Entry /\ e.ram \in Ram /\ data[e.ram] \in Value
  BY <1>0, <1>3 DEF TypeOK, Shape
<1>5. n \in Entry /\ n.type = "ram"
  BY <1>4, EntryWith DEF Entry
<1> HIDE DEF n
<1>6. \A u \in Worker \ {w} :
        pc[p][u] \notin {"copy", "take", "fill", "fork", "exit", "exec"}
  BY <1>0, <1>3 DEF Control
<1>7. /\ pc'[p][w] = "rw" /\ lock'[p] = NoWorker
      /\ \A q \in Proc, u \in Worker : q # p \/ u # w => pc'[q][u] = pc[q][u]
      /\ \A q \in Proc \ {p} : lock'[q] = lock[q]
  BY <1>0, <1>2 DEF TypeOK
<1>8. \A q \in Proc, u \in Worker :
        /\ (pc[q][u] = "fill") = (pc'[q][u] = "fill")
        /\ pc'[q][u] = "take" => pc[q][u] = "take" /\ q # p
  BY <1>2, <1>6, <1>7
<1>9. mmu' \in [Proc -> [Page -> Entry]] /\ count' \in [Ram -> Nat]
      /\ data' \in [Ram -> Value] /\ Bounded' /\ SoleAlone'
  <2> DEFINE v == data[e.ram]
  <2>1. v \in Value /\ SetNewPage(p, g, n, r, v, 0)
    BY <1>1, <1>4
  <2> HIDE DEF v, g
  <2>2. \A q \in Proc, u \in Worker :
          /\ (pc[q][u] = "fill") = (pc'[q][u] = "fill")
          /\ pc[q][u] = "fill" => at'[q][u].ram = at[q][u].ram
          /\ pc'[q][u] = "take" =>
               /\ pc[q][u] = "take" /\ at'[q][u] = at[q][u]
               /\ q = p => at[q][u].page # g
    BY <1>2, <1>8
  <2> QED BY <1>2, <1>3, <1>5, <2>1, <2>2, SetNewPageKeeps
<1>10. /\ mmu'[p][g] = [n EXCEPT !.ram = r]
       /\ \A q \in Proc, h \in Page : q # p \/ h # g => mmu'[q][h] = mmu[q][h]
  BY <1>0, <1>1, <1>3 DEF SetNewPage, TypeOK
<1>11. r \in Ram /\ mmu'[p][g].type = "ram" /\ mmu'[p][g].ram = r
  BY <1>5, <1>10 DEF Entry, Unused
<1>12. TypeOK'
  BY <1>0, <1>2, <1>9 DEF TypeOK, objects
<1>13. Shape'
  <2> SUFFICES ASSUME NEW q \in Proc, NEW h \in Page PROVE Shape!(q, h)'
    BY DEF Shape
  <2>1. CASE q = p /\ h = g
    BY <1>11, <2>1
  <2>2. CASE q # p \/ h # g
    BY <1>0, <1>10, <2>2 DEF Shape
  <2> QED BY <2>1, <2>2
<1>14. OneParent'
  BY <1>0, <1>2, <1>7 DEF OneParent
<1>15. Control'
  <2> SUFFICES ASSUME NEW q \in Proc, NEW u \in Worker PROVE Control!(q, u)'
    BY DEF Control
  <2>1. CASE q = p /\ u = w
    BY <1>0, <1>2, <1>3, <1>7, <2>1 DEF Control
  <2>2. CASE q = p /\ u # w
    BY <1>0, <1>2, <1>3, <1>6, <1>7, <1>10, <2>2 DEF Control
  <2>3. CASE q # p
    BY <1>0, <1>2, <1>7, <1>10, <2>3 DEF Control
  <2> QED BY <2>1, <2>2, <2>3
<1> QED BY <1>9, <1>12, <1>13, <1>14, <1>15 DEF IInv

LEMMA TakeOverKeeps ==
  ASSUME IInv, NEW p \in Proc, NEW w \in Worker, TakeOver(p, w)
  PROVE  IInv'
<1> DEFINE g == at[p][w].page
<1> USE GuestMemoryAssumption
<1>0. TypeOK /\ Shape /\ OneParent /\ Control /\ Bounded /\ SoleAlone
  BY DEF IInv
<1>1. /\ pc[p][w] = "take" /\ UNCHANGED <<host, objects, alive, at>>
      /\ mmu' = [mmu EXCEPT ![p][g].type = "ram"]
      /\ lock' = [lock EXCEPT ![p] = NoWorker] /\ pc' = [pc EXCEPT ![p][w] = "rw"]
  BY DEF TakeOver, GoTo
<1>2. g \in Page /\ lock[p] = w /\ mmu[p][g].type = "cow"
  BY <1>0, <1>1 DEF Control
<1>3. mmu[p][g] \in Entry /\ [mmu[p][g] EXCEPT !.type = "ram"] \in Entry
  <2>1. mmu[p][g] \in Entry
    BY <1>0, <1>2 DEF TypeOK
  <2> QED BY <2>1, EntryWith
<1>4. /\ mmu' \in [Proc -> [Page -> Entry]]
      /\ mmu'[p][g] = [mmu[p][g] EXCEPT !.type = "ram"]
      /\ \A q \in Proc, h \in Page : q # p \/ h # g => mmu'[q][h] = mmu[q][h]
  BY <1>0, <1>1, <1>2, <1>3 DEF TypeOK
<1>5. /\ mmu'[p][g].type = "ram"
      /\ \A q \in Proc, h \in Page :
           mmu'[q][h].ram = mmu[q][h].ram /\ mmu'[q][h].shared = mmu[q][h].shared
  <2>1. /\ mmu'[p][g].type = "ram" /\ mmu'[p][g].ram = mmu[p][g].ram
        /\ mmu'[p][g].shared = mmu[p][g].shared
    BY <1>3, <1>4 DEF Entry
  <2> HIDE DEF g
  <2> QED BY <1>4, <2>1
<1>6. \A u \in Worker \ {w} :
        pc[p][u] \notin {"copy", "take", "fill", "fork", "exit", "exec"}
  BY <1>0, <1>2 DEF Control
<1>7. /\ pc'[p][w] = "rw" /\ lock'[p] = NoWorker
      /\ \A q \in Proc, u \in Worker : q # p \/ u # w => pc'[q][u] = pc[q][u]
      /\ \A q \in Proc \ {p} : lock'[q] = lock[q]
  BY <1>0, <1>1 DEF TypeOK
<1>8. Bounded' /\ SoleAlone'
  <2> DEFINE X == {}
  <2>1. \A y \in Slots \ X : Points(y)' = Points(y)
    <3>1. \A q \in Proc, u \in Worker : (pc[q][u] = "fill") = (pc'[q][u] = "fill")
      BY <1>1, <1>7
    <3> HIDE DEF X
    <3> QED BY <1>1, <1>5, <3>1, SamePointers DEF objects
  <2>2. ASSUME NEW y \in Slots, Sole(y)' PROVE Sole(y)
    <3>1. ASSUME NEW q \in Proc, NEW h \in Page, y = <<"entry", q, h>>, Private(q, h)'
          PROVE  Sole(y)
      <4>1. CASE q = p /\ h = g
        <5>1. ~mmu[p][g].shared
          BY <1>2, <1>5, <3>1, <4>1 DEF Private
        <5> QED BY <1>1, <3>1, <4>1, <5>1 DEF Sole
      <4>2. CASE q # p \/ h # g
        BY <1>1, <1>4, <3>1, <4>2 DEF Private, Sole, objects
      <4> QED BY <4>1, <4>2
    <3>2. ASSUME NEW q \in Proc, NEW u \in Worker, pc'[q][u] = "take",
                 y = <<"entry", q, at'[q][u].page>>, ~mmu'[q][at'[q][u].page].shared
          PROVE  Sole(y)
      <4>1. (q # p \/ u # w) /\ pc[q][u] = "take"
        BY <1>7, <3>2
      <4>2. at[q][u].page \in Page
        BY <1>0, <4>1 DEF Control
      <4> QED BY <1>1, <1>5, <3>2, <4>1, <4>2 DEF Sole
    <3>3. ASSUME NEW q \in Proc, NEW u \in Worker, pc'[q][u] = "fill", y = <<"fill", q, u>>
          PROVE  Sole(y)
      BY <1>1, <1>7, <3>3 DEF Sole
    <3> QED BY <2>2, <3>1, <3>2, <3>3 DEF Sole
  <2> QED BY <1>0, <1>1, <2>1, <2>2, Still DEF host
<1>9. TypeOK'
  BY <1>0, <1>1, <1>4 DEF TypeOK, host, objects
<1>10. Shape'
  <2> SUFFICES ASSUME NEW q \in Proc, NEW h \in Page PROVE Shape!(q, h)'
    BY DEF Shape
  <2>1. CASE q = p /\ h = g
    BY <1>5, <2>1
  <2>2. CASE q # p \/ h # g
    BY <1>0, <1>4, <2>2 DEF Shape
  <2> QED BY <2>1, <2>2
<1>11. OneParent'
  BY <1>0, <1>1, <1>7 DEF OneParent
<1>12. Control'
  <2> SUFFICES ASSUME NEW q \in Proc, NEW u \in Worker PROVE Control!(q, u)'
    BY DEF Control
  <2>1. CASE q = p /\ u = w
    BY <1>0, <1>1, <1>2, <1>7, <2>1 DEF Control
  <2>2. CASE q = p /\ u # w
    BY <1>0, <1>1, <1>2, <1>4, <1>6, <1>7, <2>2 DEF Control
  <2>3. CASE q # p
    BY <1>0, <1>1, <1>4, <1>7, <2>3 DEF Control
  <2> QED BY <2>1, <2>2, <2>3
<1> QED BY <1>8, <1>9, <1>10, <1>11, <1>12 DEF IInv

LEMMA LookFileKeeps ==
  ASSUME IInv, NEW p \in Proc, NEW w \in Worker, LookFile(p, w)
  PROVE  IInv'
<1> DEFINE g == at[p][w].page  e == mmu[p][g]
<1> USE GuestMemoryAssumption
<1>0. TypeOK /\ Shape /\ OneParent /\ Control /\ Bounded /\ SoleAlone
  BY DEF IInv
<1>1. pc[p][w] = "file" /\ lock[p] = NoWorker /\ UNCHANGED <<objects, alive>>
  BY DEF LookFile, Free
<1>2. g \in Page /\ p \in alive
  BY <1>0, <1>1 DEF Control
<1>3. e \in Entry
  BY <1>0, <1>2 DEF TypeOK
<1>4. \A u \in Worker : pc[p][u] \notin {"copy", "take", "fill", "fork", "exit", "exec"}
  BY <1>0, <1>1 DEF Control
<1>5. CASE GoTo(p, w, "rw") /\ UNCHANGED <<mmu, host, lock, at>>
  <2>1. /\ pc'[p][w] = "rw"
        /\ \A q \in Proc, u \in Worker : q # p \/ u # w => pc'[q][u] = pc[q][u]
    BY <1>0, <1>5 DEF GoTo, TypeOK
  <2>2. Bounded' /\ SoleAlone'
    BY <1>1, <1>5, <2>1, CalmKeeps DEF host
  <2>3. TypeOK'
    BY <1>0, <1>1, <1>5 DEF TypeOK, host, objects, GoTo
  <2>4. Shape' /\ OneParent'
    BY <1>0, <1>5, <2>1 DEF Shape, OneParent
  <2>5. Control'
    <3> SUFFICES ASSUME NEW q \in Proc, NEW u \in Worker PROVE Control!(q, u)'
      BY DEF Control
    <3>1. CASE q = p /\ u = w
      BY <1>1, <1>2, <1>5, <2>1, <3>1
    <3>2. CASE q # p \/ u # w
      BY <1>0, <1>1, <1>5, <2>1, <3>2 DEF Control
    <3> QED BY <3>1, <3>2
  <2> QED BY <2>2, <2>3, <2>4, <2>5 DEF IInv
<1>6. ASSUME e.type = "file", e.file \in Cached, cache[e.file] # NoRam,
             SetPage(p, g, [e EXCEPT !.type = "cow", !.ram = cache[e.file]]),
             GoTo(p, w, "rw"), UNCHANGED <<data, lock, at>>
      PROVE  IInv'
  <2> DEFINE n == [e EXCEPT !.type = "cow", !.ram = cache[e.file]]
  <2>1. cache[e.file] \in Ram
    BY <1>0, <1>6 DEF TypeOK
  <2>2. n \in Entry /\ n.type = "cow" /\ n.ram = cache[e.file] /\ n.ram \in Ram
    BY <1>3, <2>1 DEF Entry
  <2>3. SetPage(p, g, n)
    BY <1>6
  <2> HIDE DEF n
  <2>4. /\ pc'[p][w] = "rw"
        /\ \A q \in Proc, u \in Worker : q # p \/ u # w => pc'[q][u] = pc[q][u]
    BY <1>0, <1>6 DEF GoTo, TypeOK
  <2>5. /\ mmu'[p][g] = n
        /\ \A q \in Proc, h \in Page : q # p \/ h # g => mmu'[q][h] = mmu[q][h]
    BY <1>0, <1>2, <2>3 DEF SetPage, TypeOK
  <2>6. mmu' \in [Proc -> [Page -> Entry]] /\ count' \in [Ram -> Nat] /\ Bounded' /\ SoleAlone'
    <3>1. \A q \in Proc, u \in Worker :
            /\ (pc[q][u] = "fill") = (pc'[q][u] = "fill")
            /\ pc[q][u] = "fill" => at'[q][u].ram = at[q][u].ram
            /\ pc'[q][u] = "take" =>
                 /\ pc[q][u] = "take" /\ at'[q][u] = at[q][u]
                 /\ q = p => at[q][u].page # g
      BY <1>1, <1>4, <1>6, <2>4
    <3> HIDE DEF g, e
    <3> QED BY <1>1, <1>2, <1>6, <2>2, <2>3, <3>1, SetPageKeeps
  <2>7. TypeOK'
    BY <1>0, <1>1, <1>6, <2>6 DEF TypeOK, objects, GoTo
  <2>8. Shape'
    <3> SUFFICES ASSUME NEW q \in Proc, NEW h \in Page PROVE Shape!(q, h)'
      BY DEF Shape
    <3>1. CASE q = p /\ h = g
      BY <2>2, <2>5, <3>1
    <3>2. CASE q # p \/ h # g
      BY <1>0, <2>5, <3>2 DEF Shape
    <3> QED BY <3>1, <3>2
  <2>9. OneParent'
    BY <1>0, <1>6, <2>4 DEF OneParent
  <2>10. Control'
    <3> SUFFICES ASSUME NEW q \in Proc, NEW u \in Worker PROVE Control!(q, u)'
      BY DEF Control
    <3> UNCHANGED <<alive, lock, at>> /\ e.type = "file"
      BY <1>1, <1>6
    <3>1. CASE q = p /\ u = w
      BY <1>1, <1>2, <2>4, <3>1
    <3>2. CASE q = p /\ u # w
      <4>1. mmu[p][at[p][u].page].type = "code" => at[p][u].page # g
        OBVIOUS
      <4> QED BY <1>0, <1>4, <2>4, <2>5, <3>2, <4>1 DEF Control
    <3>3. CASE q # p
      BY <1>0, <2>4, <2>5, <3>3 DEF Control
    <3> QED BY <3>1, <3>2, <3>3
  <2> QED BY <2>6, <2>7, <2>8, <2>9, <2>10 DEF IInv
<1>7. ASSUME e.type = "file", NEW r \in Unused,
             count' = [count EXCEPT ![r] = 1], data' = [data EXCEPT ![r] = Disk[e.file]],
             Holding(p, w, r), lock' = [lock EXCEPT ![p] = w], GoTo(p, w, "fill"),
             UNCHANGED mmu
      PROVE  IInv'
  <2> DEFINE x == <<"fill", p, w>>
  <2>1. r \in Ram /\ count[r] = 0 /\ Disk[e.file] \in Value
    BY <1>0, <1>2, <1>7 DEF Unused, Shape
  <2>2. [at[p][w] EXCEPT !.ram = r] \in Access /\ at[p][w] \in Access
    <3>1. at[p][w] \in Access
      BY <1>0 DEF TypeOK
    <3> QED BY <2>1, <3>1 DEF Access
  <2>3. at' = [at EXCEPT ![p][w] = [at[p][w] EXCEPT !.ram = r]]
    BY <1>0, <1>7 DEF Holding, TypeOK
  <2>4. /\ pc'[p][w] = "fill" /\ at'[p][w].ram = r /\ at'[p][w].page = g
        /\ \A q \in Proc, u \in Worker :
             q # p \/ u # w => pc'[q][u] = pc[q][u] /\ at'[q][u] = at[q][u]
        /\ lock'[p] = w /\ \A q \in Proc \ {p} : lock'[q] = lock[q]
    BY <1>0, <1>7, <2>2, <2>3 DEF GoTo, TypeOK, Access
  <2>5. x \in Slots /\ Points(x) = NoRam /\ Points(x)' = r
    BY <1>1, <2>4, PointsAt, PointsAtNext
  <2>6. \A y \in Slots \ {x} : Points(y)' = Points(y)
    <3>1. \A q \in Proc, u \in Worker :
            <<"fill", q, u>> \notin {x} =>
              /\ (pc[q][u] = "fill") = (pc'[q][u] = "fill")
              /\ pc[q][u] = "fill" => at'[q][u].ram = at[q][u].ram
      BY <2>4
    <3> HIDE DEF x
    <3> QED BY <1>1, <1>7, <3>1, SamePointers DEF objects
  <2>7. Holders(r) = {} /\ Holders(r)' = {x}
    BY <1>0, <2>5, <2>6, FreshAlone
  <2>8. \A y \in Slots : Points(y) # r
    BY <2>7 DEF Holders
  <2>9. count' \in [Ram -> Int] /\ count'[r] = 1 /\ \A s \in Ram \ {r} : count'[s] = count[s]
    BY <1>0, <1>7, <2>1 DEF TypeOK
  <2>10. Bounded' /\ count' \in [Ram -> Nat]
    <3>1. ASSUME NEW s \in Ram
          PROVE  count'[s] >= count[s] - (IF Points(x) = s THEN 1 ELSE 0)
                                       + (IF Points(x)' = s THEN 1 ELSE 0)
      <4>1. count[s] \in Nat /\ count'[s] \in Int /\ Points(x) # s
        BY <1>0, <2>5, <2>9 DEF TypeOK
      <4> HIDE DEF x
      <4> QED BY <2>1, <2>5, <2>9, <4>1
    <3> HIDE DEF x
    <3> QED BY <1>0, <2>5, <2>6, <2>9, <3>1, BoundedAfter
  <2>11. SoleAlone'
    <3>1. ASSUME NEW y \in Slots \ {x}, Sole(y)' PROVE Sole(y)
      <4>1. ASSUME NEW q \in Proc, NEW h \in Page, Private(q, h)' PROVE Private(q, h)
        BY <1>1, <1>7, <4>1 DEF Private, objects
      <4>2. ASSUME NEW q \in Proc, NEW u \in Worker, pc'[q][u] = "take"
            PROVE  pc[q][u] = "take" /\ at'[q][u] = at[q][u]
        BY <2>4, <4>2
      <4>3. ASSUME NEW q \in Proc, NEW u \in Worker, pc'[q][u] = "fill", y = <<"fill", q, u>>
            PROVE  pc[q][u] = "fill"
        BY <2>4, <3>1, <4>3
      <4> QED BY <1>7, <3>1, <4>1, <4>2, <4>3 DEF Sole
    <3> HIDE DEF x
    <3> QED BY <1>0, <2>5, <2>6, <2>7, <2>8, <3>1, SoleAfter
  <2>12. TypeOK'
    <3>1. data' \in [Ram -> Value] /\ lock' \in [Proc -> Worker \cup {NoWorker}]
      BY <1>0, <1>7, <2>1 DEF TypeOK
    <3>2. at' \in [Proc -> [Worker -> Access]]
      BY <1>0, <2>2, <2>3 DEF TypeOK
    <3> QED BY <1>0, <1>1, <1>7, <2>10, <3>1, <3>2 DEF TypeOK, objects, GoTo
  <2>13. Shape' /\ OneParent'
    BY <1>0, <1>7, <2>4 DEF Shape, OneParent
  <2>14. Control'
    <3> SUFFICES ASSUME NEW q \in Proc, NEW u \in Worker PROVE Control!(q, u)'
      BY DEF Control
    <3>1. CASE q = p /\ u = w
      BY <1>1, <1>2, <1>7, <2>1, <2>4, <3>1
    <3>2. CASE q = p /\ u # w
      BY <1>0, <1>1, <1>4, <1>7, <2>4, <3>2 DEF Control
    <3>3. CASE q # p
      BY <1>0, <1>1, <1>7, <2>4, <3>3 DEF Control
    <3> QED BY <3>1, <3>2, <3>3
  <2> QED BY <2>10, <2>11, <2>12, <2>13, <2>14 DEF IInv
<1> QED BY <1>5, <1>6, <1>7 DEF LookFile

\* The reference of a page just read goes from the handler to the entry, and
\* the cache adds its own.
LEMMA FillFileKeeps ==
  ASSUME IInv, NEW p \in Proc, NEW w \in Worker, FillFile(p, w)
  PROVE  IInv'
<1> USE GuestMemoryAssumption
<1>0. TypeOK /\ Shape /\ OneParent /\ Control /\ Bounded /\ SoleAlone
  BY DEF IInv
<1>a. pc[p][w] = "fill"
  BY DEF FillFile
<1> PICK g \in Page : g = at[p][w].page
  BY <1>0, <1>a DEF Control
<1> PICK r \in Ram : r = at[p][w].ram
  BY <1>0, <1>a DEF Control
<1> PICK f : f = mmu[p][g].file
  OBVIOUS
<1> DEFINE e == mmu[p][g]
           t == IF f \in Cached THEN "cow" ELSE "ram"
           n == [e EXCEPT !.type = t, !.ram = r]
           x == <<"fill", p, w>>  y == <<"entry", p, g>>  c == <<"cache", f>>
           C == IF f \in Cached THEN {c} ELSE {}
<1>1. /\ pc[p][w] = "fill" /\ UNCHANGED <<data, segment, alive>>
      /\ mmu' = [mmu EXCEPT ![p][g] = n]
      /\ f \in Cached => /\ cache' = [cache EXCEPT ![f] = r]
                         /\ count' = [count EXCEPT ![r] = @ + 1]
      /\ f \notin Cached => UNCHANGED <<cache, count>>
      /\ lock' = [lock EXCEPT ![p] = NoWorker]
      /\ pc' = [pc EXCEPT ![p][w] = "rw"]
      /\ at' = [at EXCEPT ![p][w].ram = NoRam]
  BY DEF FillFile, GoTo, Holding
<1>2. lock[p] = w /\ e.type = "file"
  BY <1>0, <1>1 DEF Control
<1>3. e \in Entry /\ at[p][w] \in Access /\ e.ram = NoRam
  BY <1>0, <1>2 DEF TypeOK, Shape
<1>4. /\ n \in Entry /\ n.type = t /\ n.ram = r
      /\ t \in {"cow", "ram"} /\ (f \in Cached => t = "cow")
  <2>1. t \in {"cow", "ram"} /\ (f \in Cached => t = "cow")
    OBVIOUS
  <2> HIDE DEF t, e
  <2> QED BY <1>2, <1>3, <2>1 DEF Entry
<1>5. [at[p][w] EXCEPT !.ram = NoRam] \in Access
  BY <1>3 DEF Access
<1> HIDE DEF n, t
<1>6. /\ mmu' \in [Proc -> [Page -> Entry]] /\ mmu'[p][g] = n
      /\ \A q \in Proc, h \in Page : q # p \/ h # g => mmu'[q][h] = mmu[q][h]
  BY <1>0, <1>1, <1>2, <1>4 DEF TypeOK
<1>7. /\ pc'[p][w] = "rw" /\ lock'[p] = NoWorker
      /\ at' = [at EXCEPT ![p][w] = [at[p][w] EXCEPT !.ram = NoRam]]
  BY <1>0, <1>1 DEF TypeOK
<1>8. /\ at'[p][w].page = g
      /\ \A q \in Proc, u \in Worker :
           q # p \/ u # w => pc'[q][u] = pc[q][u] /\ at'[q][u] = at[q][u]
      /\ \A q \in Proc \ {p} : lock'[q] = lock[q]
  BY <1>0, <1>1, <1>3, <1>7 DEF TypeOK, Access
<1>9. \A u \in Worker \ {w} :
        pc[p][u] \notin {"copy", "take", "fill", "fork", "exit", "exec"}
  BY <1>0, <1>2 DEF Control
<1>10. f \in Cached =>
         /\ cache'[f] = r /\ \A h \in Cached \ {f} : cache'[h] = cache[h]
         /\ count'[r] = count[r] + 1 /\ \A s \in Ram \ {r} : count'[s] = count[s]
  BY <1>0, <1>1, <1>2 DEF TypeOK
<1>11. /\ x \in Slots /\ Points(x) = r /\ Points(x)' = NoRam
       /\ y \in Slots \ {x} /\ Points(y) = NoRam /\ Points(y)' = r
       /\ C \in SUBSET (Slots \ {x, y}) /\ \A z \in C : Points(z)' = r
  <2>1. x \in Slots /\ Points(x) = r /\ Points(x)' = NoRam
    BY <1>1, <1>7, PointsAt, PointsAtNext
  <2>2. y \in Slots /\ Points(y) = NoRam /\ Points(y)' = r
    BY <1>2, <1>3, <1>4, <1>6, PointsAt, PointsAtNext
  <2>3. ASSUME f \in Cached PROVE c \in Slots /\ Points(c)' = r
    BY <1>10, <2>3, PointsAt, PointsAtNext
  <2> QED BY <2>1, <2>2, <2>3
<1>12. \A z \in Slots \ (C \cup {x, y}) : Points(z)' = Points(z)
  <2> DEFINE X == C \cup {x, y}
  <2>1. \A q \in Proc, h \in Page : <<"entry", q, h>> \notin X => mmu'[q][h].ram = mmu[q][h].ram
    BY <1>6
  <2>2. \A q \in Proc, u \in Worker :
          <<"fill", q, u>> \notin X => pc'[q][u] = pc[q][u] /\ at'[q][u] = at[q][u]
    BY <1>8
  <2>3. \A h \in Cached : <<"cache", h>> \notin X => cache'[h] = cache[h]
    BY <1>1, <1>10
  <2>4. \A z \in Slots \ X : Points(z)' = Points(z)
    <3> HIDE DEF X
    <3>1. \A s \in Segment : segment'[s] = segment[s]
      BY <1>1
    <3>2. \A q \in Proc, u \in Worker : <<"fill", q, u>> \notin X =>
            /\ (pc[q][u] = "fill") = (pc'[q][u] = "fill")
            /\ pc[q][u] = "fill" => at'[q][u].ram = at[q][u].ram
      BY <2>2
    <3> QED BY <2>1, <2>3, <3>1, <3>2, SamePointers
  <2> QED BY <2>4
<1>13. Holders(r) = {x} /\ Sole(x)
  <2>1. Sole(x)
    BY <1>1 DEF Sole
  <2> QED BY <1>0, <1>11, <2>1 DEF SoleAlone
<1>14. /\ Holders(r)' = C \cup {y}
       /\ \A s \in Ram \ {r} : Holders(s)' = Holders(s) \ C
       /\ \A z \in Slots \ (C \cup {x, y}) :
            Holders(Points(z)) = {z} => Holders(Points(z))' = {z}
  <2> HIDE DEF C, x, y
  <2>1. \A z \in Slots : Points(z) = r => z = x
    BY <1>13 DEF Holders
  <2>2. \A v : /\ \A z \in Slots : z \in Holders(v) <=> Points(z) = v
               /\ \A z \in Slots : z \in Holders(v)' <=> Points(z)' = v
               /\ Holders(v) \subseteq Slots /\ Holders(v)' \subseteq Slots
    BY DEF Holders, Slots
  <2>3. Holders(r)' = C \cup {y}
    <3>1. \A z \in Slots : Points(z)' = r <=> z \in C \cup {y}
      BY <1>11, <1>12, <2>1
    <3> QED BY <1>11, <2>2, <3>1
  <2>4. ASSUME NEW s \in Ram \ {r} PROVE Holders(s)' = Holders(s) \ C
    <3>1. \A z \in Slots : Points(z)' = s <=> Points(z) = s /\ z \notin C
      BY <1>11, <1>12
    <3> QED BY <2>2, <3>1
  <2>5. ASSUME NEW z \in Slots \ (C \cup {x, y}), Holders(Points(z)) = {z}
        PROVE  Holders(Points(z))' = {z}
    <3>1. Points(z) # r /\ Points(z) # NoRam /\ Points(z)' = Points(z)
      BY <1>11, <1>12, <2>1, <2>2, <2>5
    <3>2. \A a \in Slots : Points(a)' = Points(z) <=> Points(a) = Points(z) /\ a \notin C
      BY <1>11, <1>12, <3>1
    <3> QED BY <1>12, <2>2, <2>5, <3>1, <3>2
  <2> QED BY <2>3, <2>4, <2>5
<1>15. count' \in [Ram -> Nat] /\ Bounded'
  <2>1. count' \in [Ram -> Nat]
    BY <1>0, <1>1, <1>10 DEF TypeOK
  <2>2. IsFiniteSet({x}) /\ Cardinality({x}) = 1 /\ count[r] >= 1
    <3>1. Cardinality({x}) = 1 /\ IsFiniteSet({x})
      BY FS_Singleton
    <3>2. Cardinality(Holders(r)) <= count[r]
      BY <1>0 DEF Bounded
    <3> QED BY <1>0, <1>13, <3>1, <3>2 DEF TypeOK
  <2>3. IsFiniteSet(Holders(r)') /\ Cardinality(Holders(r)') <= count'[r]
    <3>1. IsFiniteSet({y}) /\ Cardinality({y}) = 1
      BY FS_Singleton
    <3>2. CASE f \in Cached
      <4>1. Holders(r)' = {y} \cup {c}
        BY <1>14, <3>2
      <4>2. count'[r] = count[r] + 1 /\ count[r] \in Nat
        BY <1>0, <1>10, <3>2 DEF TypeOK
      <4> DEFINE S == {y}
      <4>3. IsFiniteSet(S) /\ Cardinality(S) = 1 /\ Holders(r)' = S \cup {c}
        BY <3>1, <4>1
      <4> HIDE DEF S, y, c
      <4>4. /\ IsFiniteSet(S \cup {c})
            /\ Cardinality(S \cup {c}) = IF c \in S THEN Cardinality(S) ELSE Cardinality(S) + 1
        BY <4>3, FS_AddElement
      <4> QED BY <2>2, <4>2, <4>3, <4>4
    <3>3. CASE f \notin Cached
      <4>1. Holders(r)' = {y}
        BY <1>14, <3>3
      <4> HIDE DEF y
      <4> QED BY <1>1, <2>2, <3>1, <3>3, <4>1
    <3> QED BY <3>2, <3>3
  <2>4. ASSUME NEW s \in Ram \ {r}
        PROVE  IsFiniteSet(Holders(s)') /\ Cardinality(Holders(s)') <= count'[s]
    <3>1. /\ IsFiniteSet(Holders(s)) /\ Cardinality(Holders(s)) <= count[s]
          /\ Cardinality(Holders(s)) \in Nat /\ count[s] \in Nat /\ count'[s] = count[s]
      BY <1>0, <1>1, <1>10, FS_CardinalityType DEF Bounded, TypeOK
    <3>2. Holders(s)' = Holders(s) \ C
      BY <1>14
    <3>3. CASE f \in Cached
      <4>1. Holders(s)' = Holders(s) \ {c}
        BY <3>2, <3>3
      <4> HIDE DEF c
      <4>2. /\ IsFiniteSet(Holders(s) \ {c})
            /\ Cardinality(Holders(s) \ {c}) \in {Cardinality(Holders(s)), Cardinality(Holders(s)) - 1}
        BY <3>1, FS_RemoveElement
      <4> QED BY <3>1, <4>1, <4>2
    <3>4. CASE f \notin Cached
      <4>1. Holders(s)' = Holders(s)
        BY <3>2, <3>4
      <4> QED BY <3>1, <4>1
    <3> QED BY <3>3, <3>4
  <2> QED BY <2>1, <2>3, <2>4 DEF Bounded
<1>16. SoleAlone'
  <2> SUFFICES ASSUME NEW z \in Slots, Sole(z)' PROVE Holders(Points(z))' = {z}
    BY DEF SoleAlone, Slots
  <2>1. CASE z = y
    <3>1. ASSUME NEW q \in Proc, NEW u \in Worker, pc'[q][u] = "take",
                 y = <<"entry", q, at'[q][u].page>>
          PROVE  FALSE
      <4>1. q = p
        BY <3>1
      <4> QED BY <1>7, <1>8, <1>9, <3>1, <4>1
    <3>2. Private(p, g)'
      BY <2>1, <3>1 DEF Sole
    <3>3. f \notin Cached
      BY <1>4, <1>6, <3>2 DEF Private
    <3>4. Holders(r)' = {y}
      BY <1>14, <3>3
    <3> QED BY <1>11, <2>1, <3>4 DEF Holders
  <2>2. CASE z # y
    <3>1. Sole(z) /\ z # x /\ z # c
      <4>1. ASSUME NEW q \in Proc, NEW h \in Page, z = <<"entry", q, h>>, Private(q, h)'
            PROVE  Private(q, h) /\ z # x /\ z # c
        <5>1. q # p \/ h # g
          BY <2>2, <4>1
        <5> QED BY <1>1, <1>6, <4>1, <5>1 DEF Private
      <4>2. ASSUME NEW q \in Proc, NEW u \in Worker, pc'[q][u] = "take",
                   z = <<"entry", q, at'[q][u].page>>, ~mmu'[q][at'[q][u].page].shared
            PROVE  /\ pc[q][u] = "take" /\ z = <<"entry", q, at[q][u].page>>
                   /\ ~mmu[q][at[q][u].page].shared /\ z # x /\ z # c
        <5>1. q # p
          BY <1>7, <1>8, <1>9, <4>2
        <5>2. pc[q][u] = "take" /\ at'[q][u] = at[q][u]
          BY <1>8, <4>2, <5>1
        <5>3. at[q][u].page \in Page
          BY <1>0, <5>2 DEF Control
        <5> QED BY <1>6, <4>2, <5>1, <5>2, <5>3
      <4>3. ASSUME NEW q \in Proc, NEW u \in Worker, pc'[q][u] = "fill", z = <<"fill", q, u>>
            PROVE  pc[q][u] = "fill" /\ z # x /\ z # c
        BY <1>7, <1>8, <4>3
      <4> QED BY <2>2, <4>1, <4>2, <4>3 DEF Sole
    <3>2. Holders(Points(z)) = {z}
      BY <1>0, <3>1 DEF SoleAlone
    <3>3. z \in Slots \ (C \cup {x, y})
      BY <2>2, <3>1
    <3> HIDE DEF C, x, y
    <3> QED BY <1>14, <3>2, <3>3
  <2> QED BY <2>1, <2>2
<1>17. TypeOK'
  <2>1. cache' \in [Cached -> Ram \cup {NoRam}] /\ lock' \in [Proc -> Worker \cup {NoWorker}]
    BY <1>0, <1>1 DEF TypeOK
  <2>2. at' \in [Proc -> [Worker -> Access]]
    BY <1>0, <1>5, <1>7 DEF TypeOK
  <2> QED BY <1>0, <1>1, <1>6, <1>15, <2>1, <2>2 DEF TypeOK
<1>18. Shape'
  <2> SUFFICES ASSUME NEW q \in Proc, NEW h \in Page PROVE Shape!(q, h)'
    BY DEF Shape
  <2>1. CASE q = p /\ h = g
    BY <1>4, <1>6, <2>1
  <2>2. CASE q # p \/ h # g
    BY <1>0, <1>6, <2>2 DEF Shape
  <2> QED BY <2>1, <2>2
<1>19. OneParent'
  BY <1>0, <1>7, <1>8 DEF OneParent
<1>20. Control'
  <2> SUFFICES ASSUME NEW q \in Proc, NEW u \in Worker PROVE Control!(q, u)'
    BY DEF Control
  <2> alive' = alive
    BY <1>1
  <2>1. CASE q = p /\ u = w
    BY <1>0, <1>1, <1>7, <1>8, <2>1 DEF Control
  <2>2. CASE q = p /\ u # w
    <3>1. pc[p][u] = "code" => at[p][u].page # g
      BY <1>0, <1>2 DEF Control
    <3> HIDE DEF e
    <3>2. pc'[p][u] = pc[p][u] /\ at'[p][u] = at[p][u]
      BY <1>8, <2>2
    <3>3. pc[p][u] \notin {"copy", "take", "fill", "fork", "exit", "exec"}
      BY <1>9, <2>2
    <3>4. pc[p][u] = "code" => mmu'[p][at[p][u].page] = mmu[p][at[p][u].page]
      BY <1>0, <1>6, <3>1 DEF Control
    <3> QED BY <1>0, <2>2, <3>2, <3>3, <3>4 DEF Control
  <2>3. CASE q # p
    <3> HIDE DEF e
    <3>1. /\ pc'[q][u] = pc[q][u] /\ at'[q][u] = at[q][u] /\ lock'[q] = lock[q]
          /\ at[q][u].page \in Page => mmu'[q][at[q][u].page] = mmu[q][at[q][u].page]
      BY <1>6, <1>8, <2>3
    <3>2. \A v \in Worker : pc'[q][v] = pc[q][v]
      BY <1>8, <2>3
    <3> QED BY <1>0, <2>3, <3>1, <3>2 DEF Control
  <2> QED BY <2>1, <2>2, <2>3
<1> QED BY <1>15, <1>16, <1>17, <1>18, <1>19, <1>20 DEF IInv

LEMMA WriteCodeKeeps ==
  ASSUME IInv, NEW p \in Proc, NEW w \in Worker, WriteCode(p, w)
  PROVE  IInv'
<1> DEFINE g == at[p][w].page  e == mmu[p][g]  v == at[p][w].val
<1> USE GuestMemoryAssumption
<1>0. TypeOK /\ Shape /\ OneParent /\ Control
  BY DEF IInv
<1>1. /\ pc[p][w] = "code" /\ lock[p] = NoWorker /\ Return(p, w)
      /\ UNCHANGED <<objects, alive, lock>>
  BY DEF WriteCode, Free
<1>2. g \in Page /\ e.type = "code" /\ v \in Value
  BY <1>0, <1>1 DEF Control, TypeOK, Access
<1>3. e \in Entry /\ e.ram \in Ram
  BY <1>0, <1>2 DEF TypeOK, Shape
<1>4. ASSUME UNCHANGED <<mmu, count>>, data' \in [Ram -> Value] PROVE IInv'
  BY <1>1, <1>4, ReturnKeeps
<1>5. ASSUME NEW r \in Unused, SetNewPage(p, g, e, r, v, 1) PROVE IInv'
  <2>1. \A u \in Worker : pc[p][u] \notin {"copy", "take", "fill", "fork", "exit", "exec"}
    BY <1>0, <1>1 DEF Control
  <2>2. /\ pc'[p][w] = "user" /\ at'[p][w] = NoAccess
        /\ \A q \in Proc, u \in Worker :
             q # p \/ u # w => pc'[q][u] = pc[q][u] /\ at'[q][u] = at[q][u]
    BY <1>0, <1>1 DEF Return, GoTo, TypeOK
  <2>3. mmu' \in [Proc -> [Page -> Entry]] /\ count' \in [Ram -> Nat]
        /\ data' \in [Ram -> Value] /\ Bounded' /\ SoleAlone'
    <3>1. \A q \in Proc, u \in Worker :
            /\ (pc[q][u] = "fill") = (pc'[q][u] = "fill")
            /\ pc[q][u] = "fill" => at'[q][u].ram = at[q][u].ram
            /\ pc'[q][u] = "take" =>
                 /\ pc[q][u] = "take" /\ at'[q][u] = at[q][u]
                 /\ q = p => at[q][u].page # g
      BY <1>1, <2>1, <2>2
    <3> HIDE DEF g, e, v
    <3> QED BY <1>1, <1>2, <1>3, <1>5, <3>1, SetNewPageKeeps
  <2>4. /\ mmu'[p][g] = [e EXCEPT !.ram = r]
        /\ \A q \in Proc, h \in Page : q # p \/ h # g => mmu'[q][h] = mmu[q][h]
    BY <1>0, <1>2, <1>5 DEF SetNewPage, TypeOK
  <2>5. r \in Ram /\ mmu'[p][g].type = "code" /\ mmu'[p][g].ram = r
    BY <1>2, <1>3, <2>4 DEF Entry, Unused
  <2>6. TypeOK'
    BY <1>0, <1>1, <2>3, NoAccessType DEF TypeOK, objects, Return, GoTo
  <2>7. Shape'
    <3> SUFFICES ASSUME NEW q \in Proc, NEW h \in Page PROVE Shape!(q, h)'
      BY DEF Shape
    <3>1. CASE q = p /\ h = g
      BY <2>5, <3>1
    <3>2. CASE q # p \/ h # g
      BY <1>0, <2>4, <3>2 DEF Shape
    <3> QED BY <3>1, <3>2
  <2>8. OneParent'
    BY <1>0, <2>2 DEF OneParent
  <2>9. Control'
    <3> SUFFICES ASSUME NEW q \in Proc, NEW u \in Worker PROVE Control!(q, u)'
      BY DEF Control
    <3> UNCHANGED <<alive, lock>>
      BY <1>1
    <3>1. CASE q = p /\ u = w
      BY <2>2, <3>1
    <3>2. CASE q = p /\ u # w
      <4>1. /\ pc'[p][u] = pc[p][u] /\ at'[p][u] = at[p][u]
            /\ pc[p][u] \notin {"copy", "take", "fill", "fork", "exit", "exec"}
        BY <2>1, <2>2, <3>2
      <4>2. ASSUME pc[p][u] = "code" PROVE mmu'[p][at[p][u].page].type = "code"
        <5>1. at[p][u].page \in Page /\ mmu[p][at[p][u].page].type = "code"
          BY <1>0, <4>2 DEF Control
        <5> HIDE DEF e
        <5> QED BY <2>4, <2>5, <5>1
      <4> QED BY <1>0, <3>2, <4>1, <4>2 DEF Control
    <3>3. CASE q # p
      <4>1. /\ pc'[q][u] = pc[q][u] /\ at'[q][u] = at[q][u]
            /\ at[q][u].page \in Page => mmu'[q][at[q][u].page] = mmu[q][at[q][u].page]
            /\ \A z \in Worker : pc'[q][z] = pc[q][z]
        BY <2>2, <2>4, <3>3
      <4> QED BY <1>0, <3>3, <4>1 DEF Control
    <3> QED BY <3>1, <3>2, <3>3
  <2> QED BY <2>3, <2>6, <2>7, <2>8, <2>9 DEF IInv
<1>6. \/ UNCHANGED <<mmu, host>>
      \/ \E r \in Unused : SetNewPage(p, g, e, r, v, 1)
      \/ data' = [data EXCEPT ![e.ram] = v] /\ UNCHANGED <<mmu, count>>
  BY DEF WriteCode
<1> QED BY <1>0, <1>2, <1>3, <1>4, <1>5, <1>6 DEF TypeOK, host

LEMMA NewSegmentKeeps ==
  ASSUME IInv, NEW p \in Proc, NEW w \in Worker, NEW s \in Segment, NewSegment(p, w, s)
  PROVE  IInv'
<1> DEFINE x == <<"segment", s>>
<1> USE GuestMemoryAssumption
<1>0. TypeOK /\ Shape /\ OneParent /\ Control /\ Bounded /\ SoleAlone
  BY DEF IInv
<1>1. PICK r \in Unused :
        /\ segment' = [segment EXCEPT ![s] = r]
        /\ count' = [count EXCEPT ![r] = 1]
        /\ data' = [data EXCEPT ![r] = Zero]
  BY DEF NewSegment
<1>2. segment[s] = NoRam /\ UNCHANGED <<mmu, cache, alive, lock, pc, at>>
  BY DEF NewSegment
<1>3. r \in Ram /\ count[r] = 0
  BY DEF Unused
<1>4. /\ segment' \in [Segment -> Ram \cup {NoRam}] /\ data' \in [Ram -> Value]
      /\ segment'[s] = r /\ \A t \in Segment \ {s} : segment'[t] = segment[t]
      /\ count' \in [Ram -> Int] /\ count'[r] = 1 /\ \A z \in Ram \ {r} : count'[z] = count[z]
  BY <1>0, <1>1, <1>3 DEF TypeOK
<1>5. x \in Slots /\ Points(x) = NoRam /\ Points(x)' = r
  BY <1>2, <1>4, PointsAt, PointsAtNext
<1>6. \A y \in Slots \ {x} : Points(y)' = Points(y)
  <2>1. \A t \in Segment : <<"segment", t>> \notin {x} => segment'[t] = segment[t]
    BY <1>4
  <2> HIDE DEF x
  <2> QED BY <1>2, <2>1, SamePointers
<1>7. Holders(r) = {} /\ Holders(r)' = {x}
  BY <1>0, <1>5, <1>6, FreshAlone
<1>8. \A y \in Slots : Points(y) # r
  BY <1>7 DEF Holders
<1>9. Bounded' /\ count' \in [Ram -> Nat]
  <2>1. ASSUME NEW z \in Ram
        PROVE  count'[z] >= count[z] - (IF Points(x) = z THEN 1 ELSE 0)
                                     + (IF Points(x)' = z THEN 1 ELSE 0)
    <3>1. count[z] \in Nat /\ count'[z] \in Int /\ Points(x) # z
      BY <1>0, <1>4, <1>5 DEF TypeOK
    <3> HIDE DEF x
    <3> QED BY <1>3, <1>4, <1>5, <3>1
  <2> HIDE DEF x
  <2> QED BY <1>0, <1>4, <1>5, <1>6, <2>1, BoundedAfter
<1>10. ASSUME NEW y \in Slots, Sole(y)' PROVE Sole(y) /\ y # x
  <2>1. ASSUME NEW q \in Proc, NEW h \in Page, Private(q, h)' PROVE Private(q, h)
    <3>1. mmu[q][h].ram \in Ram /\ <<"entry", q, h>> \in Slots
          /\ Points(<<"entry", q, h>>) = mmu[q][h].ram
      BY <1>0, <1>2, <2>1, PointsAt DEF Private, TypeOK, Entry
    <3>2. segment[s] # mmu[q][h].ram
      BY <1>2, <3>1
    <3> QED BY <1>2, <1>4, <2>1, <3>2 DEF Private
  <2> QED BY <1>2, <1>10, <2>1 DEF Sole
<1>11. SoleAlone'
  <2>1. ~Sole(x)'
    BY <1>5, <1>10
  <2> HIDE DEF x
  <2> QED BY <1>0, <1>5, <1>6, <1>8, <1>10, <2>1, SoleAfter
<1>12. TypeOK'
  BY <1>0, <1>2, <1>4, <1>9 DEF TypeOK
<1>13. Shape' /\ OneParent' /\ Control'
  BY <1>0, <1>2 DEF Shape, OneParent, Control
<1> QED BY <1>9, <1>11, <1>12, <1>13 DEF IInv

LEMMA ForkKeeps ==
  ASSUME IInv, NEW p \in Proc, NEW w \in Worker, NEW q \in Proc, Fork(p, w, q)
  PROVE  IInv'
<1> DEFINE a == Accessing(1, FALSE, Zero, NoRam, q)
<1> USE GuestMemoryAssumption
<1>0. TypeOK /\ Shape /\ OneParent /\ Control
  BY DEF IInv
<1>1. /\ pc[p][w] = "user" /\ p \in alive /\ lock[p] = NoWorker /\ q \notin alive
      /\ \A z \in Proc, u \in Worker : at[z][u].child # q
      /\ lock' = [lock EXCEPT ![p] = w] /\ pc' = [pc EXCEPT ![p][w] = "fork"]
      /\ at' = [at EXCEPT ![p][w] = a]
      /\ UNCHANGED <<mmu, host, objects, alive>>
      /\ \A u \in Worker : pc[p][u] \notin {"exit", "exec"}
  BY DEF Fork, Runs, Free, GoTo
<1>2. a \in Access /\ a.child = q
  BY DEF Access, Accessing
<1> HIDE DEF a
<1>3. /\ pc'[p][w] = "fork" /\ at'[p][w] = a /\ lock'[p] = w
      /\ \A z \in Proc, u \in Worker :
           z # p \/ u # w => pc'[z][u] = pc[z][u] /\ at'[z][u] = at[z][u]
      /\ \A z \in Proc \ {p} : lock'[z] = lock[z]
  BY <1>0, <1>1 DEF TypeOK
<1>4. \A u \in Worker : pc[p][u] \notin {"copy", "take", "fill", "fork", "exit", "exec"}
  BY <1>0, <1>1 DEF Control
<1>5. Bounded' /\ SoleAlone'
  BY <1>1, <1>3, CalmKeeps DEF host
<1>6. TypeOK'
  <2>1. lock' \in [Proc -> Worker \cup {NoWorker}]
    BY <1>0, <1>1 DEF TypeOK
  <2> QED BY <1>0, <1>1, <1>2, <2>1 DEF TypeOK, host, objects
<1>7. Shape' /\ OneParent'
  BY <1>0, <1>1, <1>2, <1>3 DEF Shape, OneParent
<1>8. Control'
  <2> SUFFICES ASSUME NEW z \in Proc, NEW u \in Worker PROVE Control!(z, u)'
    BY DEF Control
  <2>1. CASE z = p /\ u = w
    BY <1>1, <1>2, <1>3, <2>1
  <2>2. CASE z = p /\ u # w
    BY <1>0, <1>1, <1>3, <1>4, <2>2 DEF Control
  <2>3. CASE z # p
    BY <1>0, <1>1, <1>3, <2>3 DEF Control
  <2> QED BY <2>1, <2>2, <2>3
<1> QED BY <1>5, <1>6, <1>7, <1>8 DEF IInv

LEMMA LeaveKeeps ==
  ASSUME IInv, NEW p \in Proc, NEW w \in Worker, NEW where \in {"exit", "exec"},
         Leave(p, w, where)
  PROVE  IInv'
<1> USE GuestMemoryAssumption
<1>0. TypeOK /\ Shape /\ OneParent /\ Control
  BY DEF IInv
<1>1. /\ p \in alive /\ \A u \in Worker : pc[p][u] = "user"
      /\ lock' = [lock EXCEPT ![p] = w] /\ pc' = [pc EXCEPT ![p][w] = where]
      /\ UNCHANGED <<mmu, host, objects, alive, at>>
  BY DEF Leave, Runs, GoTo
<1>2. /\ pc'[p][w] = where /\ lock'[p] = w
      /\ \A z \in Proc, u \in Worker : z # p \/ u # w => pc'[z][u] = pc[z][u]
      /\ \A z \in Proc \ {p} : lock'[z] = lock[z]
  BY <1>0, <1>1 DEF TypeOK
<1>3. Bounded' /\ SoleAlone'
  BY <1>1, <1>2, CalmKeeps DEF host
<1>4. TypeOK'
  <2>1. lock' \in [Proc -> Worker \cup {NoWorker}]
    BY <1>0, <1>1 DEF TypeOK
  <2> QED BY <1>0, <1>1, <2>1 DEF TypeOK, host, objects
<1>5. Shape' /\ OneParent'
  BY <1>0, <1>1, <1>2 DEF Shape, OneParent
<1>6. Control'
  <2> SUFFICES ASSUME NEW z \in Proc, NEW u \in Worker PROVE Control!(z, u)'
    BY DEF Control
  <2>1. CASE z = p
    BY <1>1, <1>2, <2>1
  <2>2. CASE z # p
    BY <1>0, <1>1, <1>2, <2>2 DEF Control
  <2> QED BY <2>1, <2>2
<1> QED BY <1>3, <1>4, <1>5, <1>6 DEF IInv

LEMMA ForkedKeeps ==
  ASSUME IInv, NEW p \in Proc, NEW w \in Worker, Forked(p, w)
  PROVE  IInv'
<1> USE GuestMemoryAssumption
<1>0. TypeOK /\ Shape /\ OneParent /\ Control
  BY DEF IInv
<1>1. /\ pc[p][w] = "fork" /\ alive' = alive \cup {at[p][w].child}
      /\ lock' = [lock EXCEPT ![p] = NoWorker] /\ Return(p, w)
      /\ UNCHANGED <<mmu, host, objects>>
  BY DEF Forked
<1>2. at[p][w].child \in Proc \ alive /\ lock[p] = w
  BY <1>0, <1>1 DEF Control
<1>3. /\ pc'[p][w] = "user" /\ at'[p][w] = NoAccess /\ lock'[p] = NoWorker
      /\ \A z \in Proc, u \in Worker :
           z # p \/ u # w => pc'[z][u] = pc[z][u] /\ at'[z][u] = at[z][u]
      /\ \A z \in Proc \ {p} : lock'[z] = lock[z]
  BY <1>0, <1>1 DEF Return, GoTo, TypeOK
<1>4. \A u \in Worker \ {w} :
        pc[p][u] \notin {"copy", "take", "fill", "fork", "exit", "exec"}
  BY <1>0, <1>2 DEF Control
<1>5. Bounded' /\ SoleAlone'
  BY <1>1, <1>3, CalmKeeps DEF host
<1>6. TypeOK'
  BY <1>0, <1>1, <1>2, NoAccessType DEF TypeOK, host, objects, Return, GoTo
<1>7. Shape' /\ OneParent'
  BY <1>0, <1>1, <1>3 DEF Shape, OneParent
<1>8. Control'
  <2> SUFFICES ASSUME NEW z \in Proc, NEW u \in Worker PROVE Control!(z, u)'
    BY DEF Control
  <2>1. CASE z = p /\ u = w
    BY <1>3, <2>1
  <2>2. CASE z = p /\ u # w
    BY <1>0, <1>1, <1>3, <1>4, <2>2 DEF Control
  <2>3. CASE z # p
    <3>1. pc[z][u] = "fork" => at[z][u].child # at[p][w].child
      BY <1>0, <1>1, <2>3 DEF OneParent
    <3> QED BY <1>0, <1>1, <1>3, <2>3, <3>1 DEF Control
  <2> QED BY <2>1, <2>2, <2>3
<1> QED BY <1>5, <1>6, <1>7, <1>8 DEF IInv

LEMMA LeftKeeps ==
  ASSUME IInv, NEW p \in Proc, NEW w \in Worker, Left(p, w)
  PROVE  IInv'
<1> USE GuestMemoryAssumption
<1>0. TypeOK /\ Shape /\ OneParent /\ Control
  BY DEF IInv
<1>1. /\ pc[p][w] \in {"exit", "exec"}
      /\ alive' = alive \/ alive' = alive \ {p}
      /\ lock' = [lock EXCEPT ![p] = NoWorker] /\ Return(p, w)
      /\ UNCHANGED <<mmu, host, objects>>
  BY DEF Left
<1>2. \A u \in Worker \ {w} : pc[p][u] = "user"
  BY <1>0, <1>1 DEF Control
<1>3. /\ pc'[p][w] = "user" /\ at'[p][w] = NoAccess /\ lock'[p] = NoWorker
      /\ \A z \in Proc, u \in Worker :
           z # p \/ u # w => pc'[z][u] = pc[z][u] /\ at'[z][u] = at[z][u]
      /\ \A z \in Proc \ {p} : lock'[z] = lock[z]
  BY <1>0, <1>1 DEF Return, GoTo, TypeOK
<1>4. Bounded' /\ SoleAlone'
  BY <1>1, <1>3, CalmKeeps DEF host
<1>5. TypeOK'
  BY <1>0, <1>1, NoAccessType DEF TypeOK, host, objects, Return, GoTo
<1>6. Shape' /\ OneParent'
  BY <1>0, <1>1, <1>3 DEF Shape, OneParent
<1>7. Control'
  <2> SUFFICES ASSUME NEW z \in Proc, NEW u \in Worker PROVE Control!(z, u)'
    BY DEF Control
  <2>1. CASE z = p
    BY <1>2, <1>3, <2>1
  <2>2. CASE z # p
    BY <1>0, <1>1, <1>3, <2>2 DEF Control
  <2> QED BY <2>1, <2>2
<1> QED BY <1>4, <1>5, <1>6, <1>7 DEF IInv

LEMMA ForkPageKeeps ==
  ASSUME IInv, NEW p \in Proc, NEW w \in Worker, ForkPage(p, w)
  PROVE  IInv'
<1> USE GuestMemoryAssumption
<1>0. TypeOK /\ Shape /\ OneParent /\ Control /\ Bounded /\ SoleAlone
  BY DEF IInv
<1>a. pc[p][w] = "fork" /\ at[p][w].page \in Page
  BY DEF ForkPage
<1> PICK g \in Page : g = at[p][w].page
  BY <1>a
<1> PICK q \in Proc \ alive : q = at[p][w].child
  BY <1>0, <1>a DEF Control
<1> DEFINE e == mmu[p][g]
<1>1. /\ pc[p][w] = "fork" /\ lock[p] = w /\ p \in alive /\ q # p /\ e \in Entry
      /\ UNCHANGED <<objects, alive, lock, pc>>
      /\ at' = [at EXCEPT ![p][w].page = @ + 1]
  <2>1. /\ UNCHANGED <<objects, alive, lock, pc>>
        /\ at' = [at EXCEPT ![p][w].page = @ + 1]
    BY DEF ForkPage
  <2>2. lock[p] = w /\ p \in alive /\ q # p
    BY <1>0, <1>a DEF Control
  <2> QED BY <1>0, <1>a, <2>1, <2>2 DEF TypeOK
<1>2. /\ \A u \in Worker : pc[q][u] = "user"
      /\ \A u \in Worker : pc[p][u] \notin {"copy", "take", "fill", "exit", "exec"}
  <2>1. \A u \in Worker : pc[q][u] = "user"
    BY <1>0 DEF Control
  <2>2. \A u \in Worker \ {w} : pc[p][u] \notin {"copy", "take", "fill", "exit", "exec"}
    BY <1>0, <1>1 DEF Control
  <2> QED BY <1>1, <2>1, <2>2
<1>3. /\ at' \in [Proc -> [Worker -> Access]] /\ at'[p][w].child = at[p][w].child
      /\ \A z \in Proc, u \in Worker : z # p \/ u # w => at'[z][u] = at[z][u]
  <2>1. at[p][w] \in Access
    BY <1>0 DEF TypeOK
  <2>2. [at[p][w] EXCEPT !.page = @ + 1] \in Access
    BY <1>a, <2>1 DEF Access, Page
  <2> QED BY <1>0, <1>1, <2>1, <2>2 DEF TypeOK, Access
<1>4. OneParent'
  BY <1>0, <1>1, <1>3 DEF OneParent
\* The entry of the child takes on a shape, that of the parent may become copy-on-write.
<1>5. ASSUME mmu' \in [Proc -> [Page -> Entry]], count' \in [Ram -> Nat],
             data' \in [Ram -> Value], Bounded', SoleAlone',
             \A z \in Proc, h \in Page :
               ~(z = p /\ h = g) /\ ~(z = q /\ h = g) => mmu'[z][h] = mmu[z][h],
             mmu'[p][g] = e \/ (mmu'[p][g].type = "cow" /\ mmu'[p][g].ram \in Ram
                                /\ e.type # "code"),
             Shape!(q, g)'
      PROVE  IInv'
  <2>1. TypeOK'
    BY <1>0, <1>1, <1>3, <1>5 DEF TypeOK, objects
  <2>2. Shape'
    <3> SUFFICES ASSUME NEW z \in Proc, NEW h \in Page PROVE Shape!(z, h)'
      BY DEF Shape
    <3>1. CASE z = p /\ h = g
      BY <1>0, <1>5, <3>1 DEF Shape
    <3>2. CASE z = q /\ h = g
      BY <1>5, <3>2
    <3>3. CASE ~(z = p /\ h = g) /\ ~(z = q /\ h = g)
      BY <1>0, <1>5, <3>3 DEF Shape
    <3> QED BY <3>1, <3>2, <3>3
  <2>3. Control'
    <3> SUFFICES ASSUME NEW z \in Proc, NEW u \in Worker PROVE Control!(z, u)'
      BY DEF Control
    <3>1. CASE z = p /\ u = w
      BY <1>0, <1>1, <1>3, <3>1 DEF Control
    <3>2. CASE z = p /\ u # w
      <4>1. pc'[p][u] = pc[p][u] /\ at'[p][u] = at[p][u]
        BY <1>1, <1>3, <3>2
      <4>2. ASSUME pc[p][u] = "code" PROVE mmu'[p][at[p][u].page].type = "code"
        <5>1. at[p][u].page \in Page /\ mmu[p][at[p][u].page].type = "code"
          BY <1>0, <4>2 DEF Control
        <5> QED BY <1>1, <1>5, <5>1
      <4>3. pc[p][u] \notin {"copy", "take", "fill", "exit", "exec"}
        BY <1>2
      <4> HIDE DEF e
      <4> QED BY <1>0, <1>1, <3>2, <4>1, <4>2, <4>3 DEF Control
    <3>3. CASE z = q
      BY <1>1, <1>2, <3>3
    <3>4. CASE z # p /\ z # q
      <4>1. /\ pc'[z][u] = pc[z][u] /\ at'[z][u] = at[z][u]
            /\ at[z][u].page \in Page => mmu'[z][at[z][u].page] = mmu[z][at[z][u].page]
        BY <1>1, <1>3, <1>5, <3>4
      <4> HIDE DEF e
      <4> QED BY <1>0, <1>1, <3>4, <4>1 DEF Control
    <3> QED BY <3>1, <3>2, <3>3, <3>4
  <2> QED BY <1>4, <1>5, <2>1, <2>2, <2>3 DEF IInv
<1>6. ASSUME CopiesAtOnce(e), NEW r \in Unused,
             SetNewPage(q, g, [e EXCEPT !.type = "ram"], r, data[e.ram], 0)
      PROVE  IInv'
  <2> DEFINE n == [e EXCEPT !.type = "ram"]  v == data[e.ram]
  <2>1. e.ram \in Ram
    BY <1>1, <1>6 DEF CopiesAtOnce, Entry
  <2>2. n \in Entry /\ n.type = "ram" /\ v \in Value /\ SetNewPage(q, g, n, r, v, 0)
    <3>1. n \in Entry /\ n.type = "ram"
      BY <1>1, TypeChanged
    <3>2. v \in Value
      BY <1>0, <2>1 DEF TypeOK
    <3> QED BY <1>6, <3>1, <3>2
  <2> HIDE DEF n, v, e
  <2>3. /\ mmu' \in [Proc -> [Page -> Entry]] /\ count' \in [Ram -> Nat]
        /\ data' \in [Ram -> Value] /\ Bounded' /\ SoleAlone'
    <3>1. \A z \in Proc, u \in Worker :
            /\ (pc[z][u] = "fill") = (pc'[z][u] = "fill")
            /\ pc[z][u] = "fill" => at'[z][u].ram = at[z][u].ram
            /\ pc'[z][u] = "take" =>
                 /\ pc[z][u] = "take" /\ at'[z][u] = at[z][u]
                 /\ z = q => at[z][u].page # g
      BY <1>1, <1>2, <1>3
    <3> QED BY <1>1, <2>2, <3>1, SetNewPageKeeps
  <2>4. /\ mmu'[q][g] = [n EXCEPT !.ram = r]
        /\ \A z \in Proc, h \in Page : z # q \/ h # g => mmu'[z][h] = mmu[z][h]
    BY <1>0, <2>2 DEF SetNewPage, TypeOK
  <2>5. r \in Ram /\ mmu'[q][g].type = "ram" /\ mmu'[q][g].ram = r
    BY <2>2, <2>4 DEF Entry, Unused
  <2>6. mmu'[p][g] = mmu[p][g]
    BY <1>1, <2>4
  <2> QED BY <1>5, <2>3, <2>4, <2>5, <2>6 DEF e
<1>7. ASSUME count' = Retained(count, e.ram), data' = data,
             IF e.ram = NoRam \/ e.type = "code"
             THEN mmu' = [mmu EXCEPT ![q][g] = e]
             ELSE mmu' = [mmu EXCEPT ![q][g] = [e EXCEPT !.type = "cow"],
                                     ![p][g].type = "cow"]
      PROVE  IInv'
  <2> DEFINE n == [e EXCEPT !.type = "cow"]  x == <<"entry", q, g>>
  <2>1. /\ n \in Entry /\ n.type = "cow" /\ n.ram = e.ram /\ n.shared = e.shared
        /\ e.ram \in Ram \cup {NoRam}
    BY <1>1, TypeChanged
  <2>2. IF e.ram = NoRam \/ e.type = "code"
        THEN mmu' = [mmu EXCEPT ![q][g] = e]
        ELSE mmu' = [mmu EXCEPT ![q][g] = n, ![p][g] = n]
    BY <1>0, <1>1, <1>7 DEF TypeOK
  <2> HIDE DEF n
  <2>3. /\ mmu' \in [Proc -> [Page -> Entry]]
        /\ \A z \in Proc, h \in Page :
             ~(z = p /\ h = g) /\ ~(z = q /\ h = g) => mmu'[z][h] = mmu[z][h]
        /\ IF e.ram = NoRam \/ e.type = "code"
           THEN mmu'[p][g] = e /\ mmu'[q][g] = e
           ELSE mmu'[p][g] = n /\ mmu'[q][g] = n
    <3> mmu \in [Proc -> [Page -> Entry]] /\ e \in Entry /\ q # p /\ mmu[p][g] = e
      BY <1>0, <1>1 DEF TypeOK
    <3> HIDE DEF e
    <3>1. CASE e.ram = NoRam \/ e.type = "code"
      <4>1. mmu' = [mmu EXCEPT ![q][g] = e]
        BY <2>2, <3>1
      <4> QED BY <3>1, <4>1
    <3>2. CASE ~(e.ram = NoRam \/ e.type = "code")
      <4>1. mmu' = [mmu EXCEPT ![q][g] = n, ![p][g] = n]
        BY <2>2, <3>2
      <4> QED BY <2>1, <3>2, <4>1
    <3> QED BY <3>1, <3>2
  <2>4. /\ mmu'[p][g].ram = e.ram /\ mmu'[q][g].ram = e.ram
        /\ ~Private(p, g)' /\ ~Private(q, g)'
    BY <2>1, <2>3 DEF Private
  <2> HIDE DEF e
  <2>5. x \in Slots /\ Points(x)' = e.ram
    BY <2>4, PointsAt, PointsAtNext
  <2>6. \A y \in Slots \ {x} : Points(y)' = Points(y)
    <3>1. ASSUME NEW z \in Proc, NEW h \in Page, <<"entry", z, h>> \notin {x}
          PROVE  mmu'[z][h].ram = mmu[z][h].ram
      <4>1. CASE z = p /\ h = g
        BY <2>4, <4>1 DEF e
      <4>2. CASE ~(z = p /\ h = g)
        BY <2>3, <3>1, <4>2
      <4> QED BY <4>1, <4>2
    <3>2. \A z \in Proc, u \in Worker :
            /\ (pc[z][u] = "fill") = (pc'[z][u] = "fill")
            /\ pc[z][u] = "fill" => at'[z][u].ram = at[z][u].ram
      BY <1>1, <1>3
    <3>3. \A z \in Proc, h \in Page :
            <<"entry", z, h>> \notin {x} => mmu'[z][h].ram = mmu[z][h].ram
      BY <3>1
    <3>4. UNCHANGED <<cache, segment>>
      BY <1>1 DEF objects
    <3> HIDE DEF x
    <3> QED BY <3>2, <3>3, <3>4, SamePointers
  <2>7. count' \in [Ram -> Nat] /\ Bounded'
    <3>1. /\ count' \in [Ram -> Int]
          /\ \A r \in Ram : count'[r] = count[r] + (IF Points(x)' = r THEN 1 ELSE 0)
      BY <1>0, <1>7, <2>1, <2>5 DEF Retained, TypeOK
    <3>2. ASSUME NEW r \in Ram
          PROVE  count'[r] >= count[r] - (IF Points(x) = r THEN 1 ELSE 0)
                                       + (IF Points(x)' = r THEN 1 ELSE 0)
      <4>1. count[r] \in Nat /\ count'[r] \in Int
        BY <1>0, <3>1 DEF TypeOK
      <4> HIDE DEF x
      <4> QED BY <3>1, <4>1
    <3> HIDE DEF x
    <3> QED BY <1>0, <2>5, <2>6, <3>1, <3>2, BoundedAfter
  <2>8. ASSUME NEW y \in Slots, Sole(y)'
        PROVE  Sole(y) /\ y # x /\ y # <<"entry", p, g>>
    <3>1. ASSUME NEW z \in Proc, NEW h \in Page, y = <<"entry", z, h>>, Private(z, h)'
          PROVE  Private(z, h) /\ y # x /\ y # <<"entry", p, g>>
      <4>1. ~(z = p /\ h = g) /\ ~(z = q /\ h = g)
        BY <2>4, <3>1
      <4> QED BY <1>1, <2>3, <3>1, <4>1 DEF Private, objects
    <3>2. ASSUME NEW z \in Proc, NEW u \in Worker, pc'[z][u] = "take",
                 y = <<"entry", z, at'[z][u].page>>, ~mmu'[z][at'[z][u].page].shared
          PROVE  /\ pc[z][u] = "take" /\ y = <<"entry", z, at[z][u].page>>
                 /\ ~mmu[z][at[z][u].page].shared /\ y # x /\ y # <<"entry", p, g>>
      <4>1. pc[z][u] = "take" /\ z # p /\ z # q
        BY <1>1, <1>2, <3>2
      <4>2. at'[z][u] = at[z][u] /\ at[z][u].page \in Page
        BY <1>0, <1>3, <4>1 DEF Control
      <4> QED BY <2>3, <3>2, <4>1, <4>2
    <3>3. ASSUME NEW z \in Proc, NEW u \in Worker, pc'[z][u] = "fill", y = <<"fill", z, u>>
          PROVE  pc[z][u] = "fill" /\ y # x /\ y # <<"entry", p, g>>
      BY <1>1, <3>3
    <3> QED BY <2>8, <3>1, <3>2, <3>3 DEF Sole
  <2>9. SoleAlone'
    <3>1. ASSUME NEW y \in Slots, Sole(y)' PROVE Points(y) # e.ram
      <4>1. Holders(Points(y)) = {y} /\ Sole(y) /\ y # <<"entry", p, g>>
        BY <1>0, <2>8, <3>1 DEF SoleAlone
      <4>2. <<"entry", p, g>> \in Slots /\ Points(<<"entry", p, g>>) = e.ram
        BY PointsAt DEF e
      <4> QED BY <4>1, <4>2 DEF Holders
    <3>2. \A y \in Slots \ {x} : Sole(y)' => Sole(y) /\ Points(y) # Points(x)'
      BY <2>5, <2>8, <3>1
    <3>3. ~Sole(x)'
      BY <2>5, <2>8
    <3> HIDE DEF x
    <3> QED BY <1>0, <2>5, <2>6, <3>2, <3>3, SoleAfter
  <2>10. Shape!(q, g)'
    BY <1>0, <2>1, <2>3 DEF Shape, e
  <2>11. mmu'[p][g] = e \/ (mmu'[p][g].type = "cow" /\ mmu'[p][g].ram \in Ram
                            /\ e.type # "code")
    BY <2>1, <2>3
  <2>12. data' \in [Ram -> Value]
    BY <1>0, <1>7 DEF TypeOK
  <2> QED BY <1>5, <2>3, <2>7, <2>9, <2>10, <2>11, <2>12 DEF e
<1> QED BY <1>6, <1>7, <1>a DEF ForkPage

-----------------------------------------------------------------------------
(* The theorems.                                                            *)

LEMMA InitHolds == Init => IInv
<1> SUFFICES ASSUME Init PROVE IInv
  OBVIOUS
<1> USE GuestMemoryAssumption
<1>1. TypeOK
  <2>1. NoEntry \in Entry
    BY DEF Entry, NoEntry
  <2> QED BY <2>1, NoAccessType DEF Init, TypeOK
<1>2. \A p \in Proc, g \in Page :
        mmu[p][g].type = "none" /\ mmu[p][g].ram = NoRam
  BY DEF Init, NoEntry
<1>3. Shape /\ OneParent /\ Control
  BY <1>2 DEF Init, Shape, OneParent, Control
<1>4. \A y \in Slots : Points(y) = NoRam
  <2> SUFFICES ASSUME NEW y \in Slots PROVE Points(y) = NoRam
    OBVIOUS
  <2>1. /\ \A p \in Proc, g \in Page : Points(<<"entry", p, g>>) = NoRam
        /\ \A p \in Proc, w \in Worker : Points(<<"fill", p, w>>) = NoRam
        /\ \A f \in Cached : Points(<<"cache", f>>) = NoRam
        /\ \A s \in Segment : Points(<<"segment", s>>) = NoRam
    BY <1>2, PointsAt DEF Init
  <2> QED BY <2>1, SlotCases
<1>5. ASSUME NEW r \in Ram PROVE IsFiniteSet(Holders(r)) /\ Cardinality(Holders(r)) <= count[r]
  <2>1. Holders(r) = {} /\ count[r] = 0
    BY <1>4 DEF Holders, Init
  <2> QED BY <2>1, FS_EmptySet
<1>6. \A y \in Slots : ~Sole(y)
  BY <1>2 DEF Sole, Private, Init
<1> QED BY <1>1, <1>3, <1>5, <1>6 DEF IInv, Bounded, SoleAlone

LEMMA NextKeeps == IInv /\ [Next]_vars => IInv'
<1> SUFFICES ASSUME IInv, [Next]_vars PROVE IInv'
  OBVIOUS
<1>1. CASE UNCHANGED vars
  <2> UNCHANGED <<mmu, count, data, cache, segment, alive, lock, pc, at>>
    BY <1>1 DEF vars
  <2>1. TypeOK' /\ Shape' /\ OneParent' /\ Control'
    BY DEF IInv, TypeOK, Shape, OneParent, Control
  <2>2. /\ \A r : Holders(r)' = Holders(r)
        /\ \A y : Sole(y)' = Sole(y) /\ Points(y)' = Points(y)
    BY DEF Holders, Slots, Points, Sole, Private
  <2>3. Bounded' /\ SoleAlone'
    BY <2>2 DEF IInv, Bounded, SoleAlone, Slots
  <2> QED BY <2>1, <2>3 DEF IInv
<1>2. ASSUME NEW p \in Proc, NEW w \in Worker, Calls(p, w) PROVE IInv'
  BY <1>2, MapKeeps, UnmapKeeps, ProtectKeeps, ExecuteKeeps, WaitKeeps, AttachKeeps,
     BeginKeeps, NewSegmentKeeps, ForkKeeps, LeaveKeeps DEF Calls
<1>3. ASSUME NEW p \in Proc, NEW w \in Worker, Handlers(p, w) PROVE IInv'
  BY <1>3, ResolveKeeps, StoreKeeps, LookCowKeeps, CopyKeeps, TakeOverKeeps,
     LookFileKeeps, FillFileKeeps, WriteCodeKeeps, WakeKeeps, ForkPageKeeps,
     ForkedKeeps, LeavePageKeeps, LeftKeeps DEF Handlers
<1> QED BY <1>1, <1>2, <1>3 DEF Next

LEMMA Invariance == Spec => []IInv
BY InitHolds, NextKeeps, PTL DEF Spec

\* Every variable keeps its type.
THEOREM TypeCorrect == Spec => []TypeOK
<1>1. IInv => TypeOK
  BY DEF IInv
<1> QED BY <1>1, Invariance, PTL

\* No host page is freed while an entry, the file cache or a segment points
\* at it: every count covers the holders, whatever the handlers of several
\* threads, fork, exec and exit do.
THEOREM NoDanglingCorrect == Spec => []NoDangling
<1>1. IInv => NoDangling
  BY DEF IInv, Bounded, NoDangling
<1> QED BY <1>1, Invariance, PTL

\* What is written without a handler through a private entry is seen through
\* no other entry.
THEOREM PrivateAloneCorrect == Spec => []PrivateAlone
<1>1. IInv => PrivateAlone
  <2> SUFFICES ASSUME IInv, NEW p \in Proc, NEW g \in Page, Private(p, g)
               PROVE  Holders(mmu[p][g].ram) = {<<"entry", p, g>>}
    BY DEF PrivateAlone, Private
  <2>1. Sole(<<"entry", p, g>>)
    BY DEF Sole
  <2> QED BY <2>1, PointsAt DEF IInv, SoleAlone
<1> QED BY <1>1, Invariance, PTL
=============================================================================
