----------------------------- MODULE SpacesProofs -----------------------------
(***************************************************************************)
(* Proofs of what programs see of GuestMemory: one image of every file     *)
(* page, waiters that a fork does not move, and the promise of             *)
(* AddressSpaces.                                                          *)
(*                                                                         *)
(* On one host thread no two threads are inside a handler (Solo), so that  *)
(* what a handler found of its page and its file is still so at its next   *)
(* step.                                                                   *)
(***************************************************************************)
EXTENDS GuestMemoryProofs

Handling(p, w) == pc[p][w] \notin {"user", "wait"}
Solo ==
  \A p, q \in Proc, w, u \in Worker : Handling(p, w) /\ Handling(q, u) => p = q /\ w = u

\* Nothing anonymous is mapped shared.
OnlyFilesShared == \A k \in MapKinds : k.shared => k.file # NoFile

\* What an entry says of its file, and where the pages of the file are.
FileEntry(e) ==
  /\ e.type = "none" => e.file = NoFile /\ ~e.shared
  /\ e.file # NoFile /\ e.type # "file" => e.ram \in Ram
  /\ e.shared /\ e.file \in Cached /\ e.ram # NoRam => e.ram = cache[e.file]
  /\ e.ram # NoRam => \A f \in Cached : e.ram = cache[f] => e.file = f
  /\ e.shared /\ OnlyFilesShared => e.file # NoFile

FileEntries == \A p \in Proc, g \in Page : FileEntry(mmu[p][g])

\* What a handler found before its last step.
Found(p, w) ==
  LET e == mmu[p][at[p][w].page] IN
  /\ pc[p][w] = "copy" => ~e.shared
  /\ pc[p][w] = "fill" /\ e.file \in Cached => cache[e.file] = NoRam

\* A cached page is the page of one file page and of no segment.
CacheApart ==
  \A f \in Cached : cache[f] # NoRam =>
    /\ \A h \in Cached : cache[h] = cache[f] => h = f
    /\ \A s \in Segment : segment[s] # cache[f]

FilesInv ==
  /\ Solo /\ FileEntries /\ CacheApart
  /\ \A p \in Proc, w \in Worker : Found(p, w)

-----------------------------------------------------------------------------
(* Steps of one thread.                                                     *)

LEMMA OthersStay ==
  ASSUME TypeOK, NEW p \in Proc, NEW w \in Worker, Calls(p, w) \/ Handlers(p, w)
  PROVE  \A q \in Proc, u \in Worker :
           q # p \/ u # w => pc'[q][u] = pc[q][u] /\ at'[q][u] = at[q][u]
<1> USE DEF GoTo, Return, Holding
<1>1. CASE Calls(p, w)
  <2>1. ASSUME NEW g \in Page, NEW k \in MapKinds, Map(p, w, g, k)
        PROVE  UNCHANGED <<pc, at>>
    BY <2>1 DEF Map
  <2>2. ASSUME NEW g \in Page, Unmap(p, w, g) \/ Protect(p, w, g) \/ Execute(p, w, g)
        PROVE  UNCHANGED <<pc, at>>
    BY <2>2 DEF Unmap, Protect, Execute
  <2>3. ASSUME NEW g \in Page, NEW s \in Segment, Attach(p, w, g, s)
        PROVE  UNCHANGED <<pc, at>>
    BY <2>3 DEF Attach
  <2>4. ASSUME NEW s \in Segment, NewSegment(p, w, s) PROVE UNCHANGED <<pc, at>>
    BY <2>4 DEF NewSegment
  <2>5. ASSUME NEW X, NEW Y, pc' = [pc EXCEPT ![p][w] = X], at' = [at EXCEPT ![p][w] = Y]
        PROVE  \A q \in Proc, u \in Worker :
                 q # p \/ u # w => pc'[q][u] = pc[q][u] /\ at'[q][u] = at[q][u]
    BY <2>5 DEF TypeOK
  <2>6. ASSUME NEW g \in Page, Wait(p, w, g)
        PROVE  \A q \in Proc, u \in Worker :
                 q # p \/ u # w => pc'[q][u] = pc[q][u] /\ at'[q][u] = at[q][u]
    BY <2>6 DEF Wait, TypeOK
  <2>7. ASSUME NEW g \in Page, NEW b \in BOOLEAN, NEW v \in Value, Begin(p, w, g, b, v)
        PROVE  \A q \in Proc, u \in Worker :
                 q # p \/ u # w => pc'[q][u] = pc[q][u] /\ at'[q][u] = at[q][u]
    BY <2>5, <2>7 DEF Begin
  <2>8. ASSUME NEW q \in Proc, Fork(p, w, q)
        PROVE  \A z \in Proc, u \in Worker :
                 z # p \/ u # w => pc'[z][u] = pc[z][u] /\ at'[z][u] = at[z][u]
    BY <2>8 DEF Fork, TypeOK
  <2>9. ASSUME NEW where \in {"exit", "exec"}, Leave(p, w, where)
        PROVE  \A q \in Proc, u \in Worker :
                 q # p \/ u # w => pc'[q][u] = pc[q][u] /\ at'[q][u] = at[q][u]
    BY <2>9 DEF Leave, TypeOK
  <2> QED BY <1>1, <2>1, <2>2, <2>3, <2>4, <2>6, <2>7, <2>8, <2>9 DEF Calls
<1>2. CASE Handlers(p, w)
  <2>1. CASE Resolve(p, w)
    BY <2>1 DEF Resolve, TypeOK
  <2>2. CASE Store(p, w) \/ Wake(p, w) \/ Forked(p, w) \/ Left(p, w)
    BY <2>2 DEF Store, Wake, Forked, Left, TypeOK
  <2>3. CASE LookCow(p, w) \/ Copy(p, w) \/ TakeOver(p, w)
    BY <2>3 DEF LookCow, Copy, TakeOver, TypeOK
  <2>4. CASE LookFile(p, w)
    <3>1. /\ \E X : pc' = [pc EXCEPT ![p][w] = X]
          /\ at' = at \/ \E r : at' = [at EXCEPT ![p][w].ram = r]
      BY <2>4 DEF LookFile
    <3> QED BY <3>1 DEF TypeOK
  <2>5. CASE FillFile(p, w)
    BY <2>5 DEF FillFile, TypeOK
  <2>6. CASE WriteCode(p, w)
    BY <2>6 DEF WriteCode, TypeOK
  <2>7. CASE ForkPage(p, w) \/ LeavePage(p, w)
    <3>1. pc' = pc /\ at' = [at EXCEPT ![p][w].page = @ + 1]
      BY <2>7 DEF ForkPage, LeavePage
    <3> QED BY <3>1 DEF TypeOK
  <2> QED BY <1>2, <2>1, <2>2, <2>3, <2>4, <2>5, <2>6, <2>7 DEF Handlers
<1> QED BY <1>1, <1>2

\* A thread that calls is in the guest and runs alone; a handler, but for the
\* end of a wait, is the only one.
LEMMA CallerRuns ==
  ASSUME NEW p \in Proc, NEW w \in Worker, Calls(p, w)
  PROVE  Runs(p, w)
BY DEF Calls, Map, Unmap, Protect, Execute, Wait, Attach, Begin, NewSegment, Fork, Leave

LEMMA HandlerHandles ==
  ASSUME NEW p \in Proc, NEW w \in Worker, Handlers(p, w)
  PROVE  Handling(p, w) \/ Wake(p, w)
BY DEF Handlers, Handling, Resolve, Store, LookCow, Copy, TakeOver, LookFile, FillFile,
       WriteCode, ForkPage, Forked, LeavePage, Left

LEMMA SoloKept ==
  ASSUME ~MultiThreaded, TypeOK, Solo, NEW p \in Proc, NEW w \in Worker,
         Calls(p, w) \/ Handlers(p, w)
  PROVE  /\ Solo'
         /\ ~Wake(p, w) => \A q \in Proc, u \in Worker :
                             q # p \/ u # w => ~Handling(q, u) /\ ~Handling(q, u)'
<1>1. \A q \in Proc, u \in Worker : q # p \/ u # w => Handling(q, u)' = Handling(q, u)
  BY OthersStay DEF Handling
<1>2. CASE Wake(p, w)
  <2>1. pc'[p][w] = "user"
    BY <1>2 DEF Wake, Return, GoTo, TypeOK
  <2> QED BY <1>1, <1>2, <2>1 DEF Solo, Handling
<1>3. CASE ~Wake(p, w)
  <2>1. \A q \in Proc, u \in Worker : q # p \/ u # w => ~Handling(q, u)
    <3>1. CASE Calls(p, w)
      BY <3>1, CallerRuns DEF Runs, Handling
    <3>2. CASE Handlers(p, w)
      BY <1>3, <3>2, HandlerHandles DEF Solo
    <3> QED BY <3>1, <3>2
  <2> QED BY <1>1, <2>1 DEF Solo
<1> QED BY <1>2, <1>3

LEMMA OneEntry ==
  ASSUME TypeOK, NEW p \in Proc, NEW g \in Page, NEW e, mmu' = [mmu EXCEPT ![p][g] = e]
  PROVE  /\ mmu'[p][g] = e
         /\ \A q \in Proc, h \in Page : q # p \/ h # g => mmu'[q][h] = mmu[q][h]
BY DEF TypeOK

\* An entry that is retyped: what else it says stays.
LEMMA Retyped ==
  ASSUME NEW e \in Entry, NEW t, NEW r, NEW b, NEW f
  PROVE  /\ LET n == [e EXCEPT !.type = t] IN
            /\ n.type = t /\ n.ram = e.ram /\ n.file = e.file
            /\ n.shared = e.shared /\ n.write = e.write /\ n.futex = e.futex
         /\ LET n == [e EXCEPT !.type = t, !.ram = r] IN
            /\ n.type = t /\ n.ram = r /\ n.file = e.file
            /\ n.shared = e.shared /\ n.write = e.write /\ n.futex = e.futex
         /\ LET n == [[e EXCEPT !.type = t] EXCEPT !.ram = r] IN
            /\ n.type = t /\ n.ram = r /\ n.file = e.file
            /\ n.shared = e.shared /\ n.write = e.write /\ n.futex = e.futex
         /\ LET n == [e EXCEPT !.ram = r] IN
            /\ n.type = e.type /\ n.ram = r /\ n.file = e.file
            /\ n.shared = e.shared /\ n.write = e.write /\ n.futex = e.futex
         /\ LET n == [e EXCEPT !.write = b] IN
            /\ n.type = e.type /\ n.ram = e.ram /\ n.file = e.file
            /\ n.shared = e.shared /\ n.write = b /\ n.futex = e.futex
         /\ LET n == [e EXCEPT !.futex = f] IN
            /\ n.type = e.type /\ n.ram = e.ram /\ n.file = e.file
            /\ n.shared = e.shared /\ n.write = e.write /\ n.futex = f
BY DEF Entry

\* An unused host page is in nobody's hands.
LEMMA UnusedUnheld ==
  ASSUME Bounded, NEW r \in Unused
  PROVE  /\ r \in Ram
         /\ \A p \in Proc, g \in Page : mmu[p][g].ram # r
         /\ \A f \in Cached : cache[f] # r
<1>1. IsFiniteSet(Holders(r)) /\ Cardinality(Holders(r)) <= 0
  BY DEF Unused, Bounded
<1>2. Holders(r) = {}
  BY <1>1, FS_CardinalityType, FS_EmptySet
<1>3. \A x \in Slots : Points(x) # r
  BY <1>2 DEF Holders
<1>4. r \in Ram
  BY DEF Unused
<1>5. ASSUME NEW p \in Proc, NEW g \in Page PROVE mmu[p][g].ram # r
  BY <1>3, PointsAt
<1>6. ASSUME NEW f \in Cached PROVE cache[f] # r
  BY <1>3, PointsAt
<1> QED BY <1>4, <1>5, <1>6

-----------------------------------------------------------------------------
(* One image of each file page: one lemma per action on the entries.        *)

LEMMA OneEntryOfFile ==
  ASSUME TypeOK, FileEntries, NEW p \in Proc, NEW g \in Page, NEW e,
         mmu' = [mmu EXCEPT ![p][g] = e], FileEntry(e), UNCHANGED cache
  PROVE  FileEntries'
<1>1. /\ mmu'[p][g] = e
      /\ \A q \in Proc, h \in Page : q # p \/ h # g => mmu'[q][h] = mmu[q][h]
  BY DEF TypeOK
<1> QED BY <1>1 DEF FileEntries, FileEntry

LEMMA MapFiles ==
  ASSUME IInv, FileEntries, NEW p \in Proc, NEW w \in Worker, NEW g \in Page,
         NEW k \in MapKinds, Map(p, w, g, k)
  PROVE  FileEntries'
<1> DEFINE e == [NoEntry EXCEPT
                   !.type = IF k.file = NoFile THEN "ram" ELSE "file",
                   !.file = k.file, !.shared = k.shared, !.write = k.write]
<1>1. mmu' = [mmu EXCEPT ![p][g] = e] /\ UNCHANGED cache
  BY DEF Map, SetPage, objects
<1>2. FileEntry(e)
  BY GuestMemoryAssumption DEF FileEntry, NoEntry, Kind, OnlyFilesShared
<1> HIDE DEF e
<1> QED BY <1>1, <1>2, OneEntryOfFile DEF IInv

LEMMA UnmapFiles ==
  ASSUME IInv, FileEntries, NEW p \in Proc, NEW w \in Worker, NEW g \in Page,
         Unmap(p, w, g)
  PROVE  FileEntries'
<1>1. mmu' = [mmu EXCEPT ![p][g] = NoEntry] /\ UNCHANGED cache
  BY DEF Unmap, SetPage, objects
<1>2. FileEntry(NoEntry)
  BY DEF FileEntry, NoEntry
<1> QED BY <1>1, <1>2, OneEntryOfFile DEF IInv

LEMMA LeavePageFiles ==
  ASSUME IInv, FileEntries, NEW p \in Proc, NEW w \in Worker, LeavePage(p, w)
  PROVE  FileEntries'
<1>1. /\ at[p][w].page \in Page
      /\ mmu' = [mmu EXCEPT ![p][at[p][w].page] = NoEntry] /\ UNCHANGED cache
  BY DEF LeavePage, SetPage, objects
<1>2. FileEntry(NoEntry)
  BY DEF FileEntry, NoEntry
<1> QED BY <1>1, <1>2, OneEntryOfFile DEF IInv

LEMMA AttachFiles ==
  ASSUME IInv, FileEntries, CacheApart, NEW p \in Proc, NEW w \in Worker,
         NEW g \in Page, NEW s \in Segment, Attach(p, w, g, s)
  PROVE  FileEntries'
<1> PICK b \in BOOLEAN :
      SetPage(p, g, [NoEntry EXCEPT !.type = "ram", !.ram = segment[s], !.write = b])
  BY DEF Attach
<1> DEFINE e == [NoEntry EXCEPT !.type = "ram", !.ram = segment[s], !.write = b]
<1>1. mmu' = [mmu EXCEPT ![p][g] = e] /\ UNCHANGED cache
  BY DEF Attach, SetPage, objects
<1>2. FileEntry(e)
  BY DEF FileEntry, NoEntry, CacheApart
<1> HIDE DEF e
<1> QED BY <1>1, <1>2, OneEntryOfFile DEF IInv

\* An entry that keeps its page of a file and its host page.
LEMMA SameFile ==
  ASSUME IInv, FileEntries, NEW p \in Proc, NEW g \in Page, NEW n,
         mmu' = [mmu EXCEPT ![p][g] = n], UNCHANGED cache,
         n.file = mmu[p][g].file, n.shared = mmu[p][g].shared, n.ram = mmu[p][g].ram,
         n.type = mmu[p][g].type \/ (n.ram \in Ram /\ n.type # "none")
  PROVE  FileEntries'
<1>1. FileEntry(n)
  BY DEF FileEntries, FileEntry
<1> QED BY <1>1, OneEntryOfFile DEF IInv

LEMMA ProtectFiles ==
  ASSUME IInv, FileEntries, NEW p \in Proc, NEW w \in Worker, NEW g \in Page,
         Protect(p, w, g)
  PROVE  FileEntries'
<1>0. PICK b \in BOOLEAN : mmu' = [mmu EXCEPT ![p][g].write = b]
  BY DEF Protect
<1> DEFINE n == [mmu[p][g] EXCEPT !.write = b]
<1>1. mmu' = [mmu EXCEPT ![p][g] = n]
  BY <1>0
<1>2. mmu[p][g] \in Entry /\ UNCHANGED cache
  BY DEF IInv, TypeOK, Protect, objects
<1>3. /\ n.file = mmu[p][g].file /\ n.shared = mmu[p][g].shared
      /\ n.ram = mmu[p][g].ram /\ n.type = mmu[p][g].type
  BY <1>2, Retyped
<1> HIDE DEF n
<1> QED BY <1>1, <1>2, <1>3, SameFile

LEMMA WaitFiles ==
  ASSUME IInv, FileEntries, NEW p \in Proc, NEW w \in Worker, NEW g \in Page,
         Wait(p, w, g)
  PROVE  FileEntries'
<1> DEFINE n == [mmu[p][g] EXCEPT !.futex = TRUE]
<1>1. mmu' = [mmu EXCEPT ![p][g] = n]
  BY DEF Wait
<1>2. mmu[p][g] \in Entry /\ UNCHANGED cache
  BY DEF IInv, TypeOK, Wait, objects
<1>3. /\ n.file = mmu[p][g].file /\ n.shared = mmu[p][g].shared
      /\ n.ram = mmu[p][g].ram /\ n.type = mmu[p][g].type
  BY <1>2, Retyped
<1> HIDE DEF n
<1> QED BY <1>1, <1>2, <1>3, SameFile

LEMMA ExecuteFiles ==
  ASSUME IInv, FileEntries, NEW p \in Proc, NEW w \in Worker, NEW g \in Page,
         Execute(p, w, g)
  PROVE  FileEntries'
<1> DEFINE n == [mmu[p][g] EXCEPT !.type = "code"]
<1>1. mmu' = [mmu EXCEPT ![p][g] = n] /\ mmu[p][g].ram # NoRam
  BY DEF Execute
<1>2. mmu[p][g] \in Entry /\ UNCHANGED cache
  BY DEF IInv, TypeOK, Execute, objects
<1>3. /\ n.file = mmu[p][g].file /\ n.shared = mmu[p][g].shared
      /\ n.ram = mmu[p][g].ram /\ n.type = "code"
  BY <1>2, Retyped
<1>4. mmu[p][g].ram \in Ram
  BY <1>1, <1>2 DEF Entry
<1> HIDE DEF n
<1> QED BY <1>1, <1>2, <1>3, <1>4, SameFile

LEMMA TakeOverFiles ==
  ASSUME IInv, FileEntries, NEW p \in Proc, NEW w \in Worker, TakeOver(p, w)
  PROVE  FileEntries'
<1> DEFINE g == at[p][w].page  n == [mmu[p][g] EXCEPT !.type = "ram"]
<1>1. mmu' = [mmu EXCEPT ![p][g] = n] /\ pc[p][w] = "take"
  BY DEF TakeOver
<1>2. g \in Page /\ mmu[p][g].type = "cow" /\ mmu[p][g].ram \in Ram
  BY <1>1 DEF IInv, Control, Shape
<1>3. mmu[p][g] \in Entry /\ UNCHANGED cache
  BY <1>2 DEF IInv, TypeOK, TakeOver, objects
<1>4. /\ n.file = mmu[p][g].file /\ n.shared = mmu[p][g].shared
      /\ n.ram = mmu[p][g].ram /\ n.type = "ram"
  BY <1>3, Retyped
<1> HIDE DEF n, g
<1> QED BY <1>1, <1>2, <1>3, <1>4, SameFile

\* An entry on a new host page, of a mapping that is not shared or of no file.
LEMMA NewPageFiles ==
  ASSUME IInv, FileEntries, NEW p \in Proc, NEW g \in Page, NEW e \in Entry,
         NEW r \in Unused, NEW v, NEW extra, SetNewPage(p, g, e, r, v, extra),
         UNCHANGED cache, e.type # "none", ~e.shared \/ e.file = NoFile,
         e.shared /\ OnlyFilesShared => e.file # NoFile
  PROVE  FileEntries'
<1> DEFINE n == [e EXCEPT !.ram = r]
<1>1. mmu' = [mmu EXCEPT ![p][g] = n]
  BY DEF SetNewPage
<1>2. /\ n.type = e.type /\ n.ram = r /\ n.file = e.file /\ n.shared = e.shared
  BY Retyped
<1>3. r \in Ram /\ \A f \in Cached : cache[f] # r
  BY UnusedUnheld DEF IInv
<1> HIDE DEF n
<1>4. FileEntry(n)
  BY <1>2, <1>3, GuestMemoryAssumption DEF FileEntry
<1> QED BY <1>1, <1>4, OneEntryOfFile DEF IInv

LEMMA ResolveFiles ==
  ASSUME IInv, FileEntries, NEW p \in Proc, NEW w \in Worker, Resolve(p, w)
  PROVE  FileEntries'
<1> DEFINE g == at[p][w].page  e == mmu[p][g]
<1>1. UNCHANGED cache /\ g \in Page
  BY DEF Resolve, IInv, Control, objects
<1>2. CASE UNCHANGED mmu
  BY <1>1, <1>2 DEF FileEntries, FileEntry
<1>3. CASE ~UNCHANGED mmu
  <2>1. PICK r \in Unused : SetNewPage(p, g, [e EXCEPT !.type = "ram"], r, Zero, 0)
    BY <1>3 DEF Resolve
  <2>2. e.ram = NoRam /\ e.type # "file"
    BY <1>3 DEF Resolve
  <2>3. e \in Entry
    BY <1>1 DEF IInv, TypeOK
  <2> DEFINE n == [e EXCEPT !.type = "ram"]
  <2>4. n \in Entry /\ n.type = "ram" /\ n.file = e.file /\ n.shared = e.shared
    BY <2>3 DEF Entry
  <2>5. e.file = NoFile /\ (e.shared /\ OnlyFilesShared => e.file # NoFile)
    BY <1>1, <2>2, GuestMemoryAssumption DEF FileEntries, FileEntry
  <2> HIDE DEF n, e, g
  <2>6. SetNewPage(p, g, n, r, Zero, 0)
    BY <2>1 DEF n
  <2> QED BY <1>1, <2>4, <2>5, <2>6, NewPageFiles
<1> QED BY <1>2, <1>3

LEMMA CopyFiles ==
  ASSUME IInv, FileEntries, NEW p \in Proc, NEW w \in Worker, Found(p, w), Copy(p, w)
  PROVE  FileEntries'
<1> DEFINE g == at[p][w].page  e == mmu[p][g]
<1>1. UNCHANGED cache /\ g \in Page /\ ~e.shared
  BY DEF Copy, IInv, Control, objects, Found
<1>2. PICK r \in Unused : SetNewPage(p, g, [e EXCEPT !.type = "ram"], r, data[e.ram], 0)
  BY DEF Copy
<1>3. e \in Entry
  BY <1>1 DEF IInv, TypeOK
<1> DEFINE n == [e EXCEPT !.type = "ram"]
<1>4. n \in Entry /\ n.type = "ram" /\ n.file = e.file /\ n.shared = e.shared
  BY <1>3 DEF Entry
<1> HIDE DEF n, e, g
<1>5. SetNewPage(p, g, n, r, data[e.ram], 0)
  BY <1>2 DEF n
<1> QED BY <1>1, <1>4, <1>5, NewPageFiles

LEMMA WriteCodeFiles ==
  ASSUME IInv, FileEntries, NEW p \in Proc, NEW w \in Worker, WriteCode(p, w)
  PROVE  FileEntries'
<1> DEFINE g == at[p][w].page  e == mmu[p][g]  v == at[p][w].val
<1>1. UNCHANGED cache /\ g \in Page /\ e.type = "code"
  BY DEF WriteCode, IInv, Control, objects
<1>2. CASE UNCHANGED mmu
  BY <1>1, <1>2 DEF FileEntries, FileEntry
<1>3. CASE ~UNCHANGED mmu
  <2>1. PICK r \in Unused : SetNewPage(p, g, e, r, v, 1)
    BY <1>3 DEF WriteCode
  <2>2. ~e.shared
    BY <1>3 DEF WriteCode, MustCopy
  <2>3. e \in Entry
    BY <1>1 DEF IInv, TypeOK
  <2> HIDE DEF e, g, v
  <2> QED BY <1>1, <2>1, <2>2, <2>3, NewPageFiles
<1> QED BY <1>2, <1>3

LEMMA LookFileFiles ==
  ASSUME IInv, FileEntries, CacheApart, NEW p \in Proc, NEW w \in Worker, LookFile(p, w)
  PROVE  FileEntries'
<1> DEFINE g == at[p][w].page  e == mmu[p][g]
<1>1. UNCHANGED cache /\ g \in Page
  BY DEF LookFile, IInv, Control, objects
<1>2. CASE UNCHANGED mmu
  BY <1>1, <1>2 DEF FileEntries, FileEntry
<1>3. CASE ~UNCHANGED mmu
  <2> DEFINE n == [e EXCEPT !.type = "cow", !.ram = cache[e.file]]
  <2>1. /\ SetPage(p, g, n)
        /\ e.type = "file" /\ e.file \in Cached /\ cache[e.file] # NoRam
    BY <1>3 DEF LookFile
  <2>2. e \in Entry /\ cache[e.file] \in Ram
    BY <1>1, <2>1 DEF IInv, TypeOK
  <2>3. /\ n.type = "cow" /\ n.ram = cache[e.file] /\ n.file = e.file
        /\ n.shared = e.shared
    BY <2>2, Retyped
  <2> HIDE DEF n
  <2>4. FileEntry(n)
    <3>1. FileEntry(e)
      BY <1>1 DEF FileEntries
    <3> QED BY <2>1, <2>2, <2>3, <3>1 DEF FileEntry, CacheApart
  <2>5. mmu' = [mmu EXCEPT ![p][g] = n]
    BY <2>1 DEF SetPage
  <2> HIDE DEF e, g
  <2> QED BY <1>1, <2>4, <2>5, OneEntryOfFile DEF IInv
<1> QED BY <1>2, <1>3

\* Nobody else holds the page a handler fills.
LEMMA FillerAlone ==
  ASSUME IInv, NEW p \in Proc, NEW w \in Worker, pc[p][w] = "fill"
  PROVE  /\ \A q \in Proc, h \in Page : mmu[q][h].ram # at[p][w].ram
         /\ \A f \in Cached : cache[f] # at[p][w].ram
         /\ \A s \in Segment : segment[s] # at[p][w].ram
<1> DEFINE x == <<"fill", p, w>>  r == at[p][w].ram
<1>1. x \in Slots /\ Points(x) = r /\ Sole(x)
  BY PointsAt DEF Sole
<1>2. \A y \in Slots : Points(y) = r => y = x
  BY <1>1 DEF IInv, SoleAlone, Holders
<1>3. ASSUME NEW q \in Proc, NEW h \in Page PROVE mmu[q][h].ram # r
  BY <1>2, PointsAt
<1>4. ASSUME NEW f \in Cached PROVE cache[f] # r
  BY <1>2, PointsAt
<1>5. ASSUME NEW s \in Segment PROVE segment[s] # r
  BY <1>2, PointsAt
<1> QED BY <1>3, <1>4, <1>5

\* No other mapping of the file has a host page when it comes to the cache.
LEMMA FillFileFiles ==
  ASSUME IInv, FileEntries, NEW p \in Proc, NEW w \in Worker, Found(p, w),
         FillFile(p, w)
  PROVE  FileEntries'
<1> DEFINE g == at[p][w].page  e == mmu[p][g]  r == at[p][w].ram
           n == [e EXCEPT !.type = IF e.file \in Cached THEN "cow" ELSE "ram", !.ram = r]
<1>1. /\ pc[p][w] = "fill" /\ mmu' = [mmu EXCEPT ![p][g] = n]
      /\ cache' = IF e.file \in Cached THEN [cache EXCEPT ![e.file] = r] ELSE cache
  BY DEF FillFile
<1>2. g \in Page /\ r \in Ram /\ e.type = "file" /\ e.file \in File
  BY <1>1 DEF IInv, Control, Shape
<1>3. e \in Entry /\ (e.file \in Cached => cache[e.file] = NoRam)
  BY <1>1, <1>2 DEF IInv, TypeOK, Found
<1>4. n.type \in {"cow", "ram"} /\ n.ram = r /\ n.file = e.file /\ n.shared = e.shared
  BY <1>3, Retyped
<1>5. cache \in [Cached -> Ram \cup {NoRam}] /\ TypeOK
  BY DEF IInv, TypeOK
<1>10. /\ \A q \in Proc, h \in Page : mmu[q][h].ram # r
       /\ \A f \in Cached : cache[f] # r
  BY <1>1, FillerAlone
<1>11. FileEntry(e)
  BY <1>2 DEF FileEntries
<1> HIDE DEF n, e, g, r
<1>6. /\ mmu'[p][g] = n
      /\ \A q \in Proc, h \in Page : q # p \/ h # g => mmu'[q][h] = mmu[q][h]
  BY <1>1, <1>2, <1>5 DEF TypeOK
<1>7. /\ e.file \in Cached => cache'[e.file] = r
      /\ \A f \in Cached : f # e.file => cache'[f] = cache[f]
  BY <1>1, <1>5
<1>8. ASSUME NEW q \in Proc, NEW h \in Page, q = p, h = g PROVE FileEntry(mmu[q][h])'
  <2>1. e.file \in Cached => r = cache'[e.file]
    BY <1>7
  <2>2. /\ mmu'[q][h].ram = r /\ mmu'[q][h].file = e.file
        /\ mmu'[q][h].type \in {"cow", "ram"}
    BY <1>4, <1>6, <1>8
  <2>3. mmu'[q][h].shared = e.shared
    BY <1>4, <1>6, <1>8
  <2>4. \A f \in Cached : cache'[f] = r => f = e.file
    BY <1>7, <1>10
  <2> QED BY <1>2, <1>11, <2>1, <2>2, <2>3, <2>4 DEF FileEntry
<1>9. ASSUME NEW q \in Proc, NEW h \in Page, q # p \/ h # g PROVE FileEntry(mmu[q][h])'
  <2>1. FileEntry(mmu[q][h]) /\ mmu'[q][h] = mmu[q][h]
    BY <1>6, <1>9 DEF FileEntries
  <2>2. ASSUME mmu[q][h].shared, mmu[q][h].file \in Cached, mmu[q][h].ram # NoRam
        PROVE  mmu[q][h].ram = cache'[mmu[q][h].file]
    <3>1. mmu[q][h].ram = cache[mmu[q][h].file]
      BY <2>1, <2>2 DEF FileEntry
    <3>2. mmu[q][h].file # e.file
      BY <1>3, <2>2, <3>1
    <3> QED BY <1>7, <2>2, <3>1, <3>2
  <2>3. ASSUME mmu[q][h].ram # NoRam, NEW f \in Cached, mmu[q][h].ram = cache'[f]
        PROVE  mmu[q][h].file = f
    <3>1. cache'[f] = cache[f]
      BY <1>7, <1>10, <2>3
    <3> QED BY <2>1, <2>3, <3>1 DEF FileEntry
  <2> QED BY <2>1, <2>2, <2>3 DEF FileEntry
<1> QED BY <1>8, <1>9 DEF FileEntries

\* What a step of the loop of KMemory::clone does to the two entries.
Alike(e, n) ==
  n.ram = e.ram /\ n.file = e.file /\ n.shared = e.shared /\ n.futex = e.futex

ForkStep(p, w, g, q) ==
  /\ pc[p][w] = "fork" /\ g \in Page /\ q \in Proc \ alive /\ p \in alive /\ q # p
  /\ UNCHANGED <<objects, alive, pc>>
  /\ at'[p][w].page = g + 1 /\ at'[p][w].child = q
  /\ \A z \in Proc, h \in Page :
       ~(z = p /\ h = g) /\ ~(z = q /\ h = g) => mmu'[z][h] = mmu[z][h]
  /\ \/ /\ CopiesAtOnce(mmu[p][g]) /\ mmu[p][g].ram \in Ram
        /\ \E r \in Unused :
             /\ mmu'[q][g] = [[mmu[p][g] EXCEPT !.type = "ram"] EXCEPT !.ram = r]
             /\ data' = [data EXCEPT ![r] = data[mmu[p][g].ram]]
        /\ mmu'[p][g] = mmu[p][g]
     \/ /\ ~CopiesAtOnce(mmu[p][g])
        /\ data' = data
        /\ Alike(mmu[p][g], mmu'[q][g]) /\ Alike(mmu[p][g], mmu'[p][g])
        /\ \/ mmu'[p][g] = mmu[p][g] /\ mmu'[q][g] = mmu[p][g]
           \/ /\ mmu'[p][g].type = "cow" /\ mmu'[q][g].type = "cow"
              /\ mmu[p][g].type \in {"ram", "cow"} /\ mmu[p][g].ram \in Ram

LEMMA ForkPageDoes ==
  ASSUME IInv, NEW p \in Proc, NEW w \in Worker, ForkPage(p, w)
  PROVE  \E g \in Page, q \in Proc :
           g = at[p][w].page /\ q = at[p][w].child /\ ForkStep(p, w, g, q)
<1> DEFINE page == at[p][w].page  child == at[p][w].child
<1>a. page \in Page /\ child \in Proc
  BY DEF ForkPage, IInv, Control
<1> HIDE DEF page, child
<1>b. PICK g \in Page, q \in Proc : g = page /\ q = child
  BY <1>a
<1>c. g = at[p][w].page /\ q = at[p][w].child
  BY <1>b DEF page, child
<1> SUFFICES ForkStep(p, w, g, q)
  BY <1>c
<1> DEFINE e == mmu[p][g]
<1>0. TypeOK /\ Shape /\ Control
  BY DEF IInv
<1>1. /\ pc[p][w] = "fork" /\ g \in Page /\ UNCHANGED <<objects, alive, pc>>
      /\ at' = [at EXCEPT ![p][w].page = @ + 1]
  BY <1>c DEF ForkPage
<1>2. q \in Proc \ alive /\ p \in alive /\ q # p
  BY <1>0, <1>1, <1>c DEF Control
<1>3. at[p][w] \in Access /\ e \in Entry
  BY <1>0, <1>1 DEF TypeOK
<1>4. at'[p][w].page = g + 1 /\ at'[p][w].child = q
  <2>1. at'[p][w] = [at[p][w] EXCEPT !.page = @ + 1]
    BY <1>0, <1>1 DEF TypeOK
  <2> QED BY <1>3, <1>c, <2>1 DEF Access
<1>5. CASE CopiesAtOnce(e)
  <2>1. PICK r \in Unused : SetNewPage(q, g, [e EXCEPT !.type = "ram"], r, data[e.ram], 0)
    BY <1>5, <1>c DEF ForkPage
  <2> DEFINE n == [[e EXCEPT !.type = "ram"] EXCEPT !.ram = r]
  <2>2. mmu' = [mmu EXCEPT ![q][g] = n] /\ data' = [data EXCEPT ![r] = data[e.ram]]
    BY <2>1 DEF SetNewPage
  <2>3. e.ram \in Ram
    BY <1>3, <1>5 DEF CopiesAtOnce, Entry
  <2> HIDE DEF n
  <2>4. /\ mmu'[q][g] = n
        /\ \A z \in Proc, h \in Page : z # q \/ h # g => mmu'[z][h] = mmu[z][h]
    BY <1>0, <1>1, <1>2, <2>2 DEF TypeOK
  <2>5. mmu'[p][g] = mmu[p][g]
    BY <1>1, <1>2, <2>4
  <2> QED BY <1>1, <1>2, <1>4, <1>5, <2>2, <2>3, <2>4, <2>5 DEF n, ForkStep
<1>6. CASE ~CopiesAtOnce(e)
  <2> DEFINE n == [e EXCEPT !.type = "cow"]
  <2>1. /\ IF e.ram = NoRam \/ e.type = "code"
           THEN mmu' = [mmu EXCEPT ![q][g] = e]
           ELSE mmu' = [mmu EXCEPT ![q][g] = n, ![p][g].type = "cow"]
        /\ data' = data
    BY <1>6, <1>c DEF ForkPage
  <2>2. n.type = "cow" /\ Alike(e, n)
    BY <1>3, Retyped DEF Alike
  <2>3. CASE e.ram = NoRam \/ e.type = "code"
    <3>1. mmu' = [mmu EXCEPT ![q][g] = e]
      BY <2>1, <2>3
    <3> HIDE DEF e
    <3>2. /\ mmu'[q][g] = e
          /\ \A z \in Proc, h \in Page : z # q \/ h # g => mmu'[z][h] = mmu[z][h]
      BY <1>0, <1>1, <1>2, <3>1 DEF TypeOK
    <3>3. mmu'[p][g] = e
      BY <1>1, <1>2, <3>2 DEF e
    <3> QED BY <1>1, <1>2, <1>4, <1>6, <2>1, <3>2, <3>3 DEF e, Alike, ForkStep
  <2>4. CASE ~(e.ram = NoRam \/ e.type = "code")
    <3>1. mmu' = [mmu EXCEPT ![q][g] = n, ![p][g] = n]
      BY <1>0, <1>1, <1>2, <2>1, <2>4 DEF TypeOK
    <3>2. e.ram \in Ram /\ e.type \in {"ram", "cow"}
      BY <1>0, <1>1, <1>3, <2>4 DEF Entry, Shape
    <3> HIDE DEF n
    <3>3. /\ mmu'[q][g] = n /\ mmu'[p][g] = n
          /\ \A z \in Proc, h \in Page :
               ~(z = p /\ h = g) /\ ~(z = q /\ h = g) => mmu'[z][h] = mmu[z][h]
      BY <1>0, <1>1, <1>2, <3>1 DEF TypeOK
    <3> QED BY <1>1, <1>2, <1>4, <1>6, <2>1, <2>2, <3>2, <3>3 DEF Alike, ForkStep
  <2> QED BY <2>3, <2>4
<1> QED BY <1>5, <1>6

LEMMA ForkPageFiles ==
  ASSUME IInv, FileEntries, NEW p \in Proc, NEW w \in Worker, ForkPage(p, w)
  PROVE  FileEntries'
<1>3. PICK g \in Page, q \in Proc : ForkStep(p, w, g, q)
  BY ForkPageDoes
<1>4. /\ g \in Page /\ q \in Proc /\ UNCHANGED cache
      /\ \A z \in Proc, h \in Page :
           ~(z = p /\ h = g) /\ ~(z = q /\ h = g) => mmu'[z][h] = mmu[z][h]
  BY <1>3 DEF ForkStep, objects
<1>5. FileEntry(mmu[p][g]) /\ mmu[p][g] \in Entry
  BY <1>4 DEF FileEntries, IInv, TypeOK
<1>6. FileEntry(mmu[p][g])' /\ FileEntry(mmu[q][g])'
  <2>1. CASE /\ CopiesAtOnce(mmu[p][g]) /\ mmu[p][g].ram \in Ram
             /\ \E r \in Unused :
                  mmu'[q][g] = [[mmu[p][g] EXCEPT !.type = "ram"] EXCEPT !.ram = r]
             /\ mmu'[p][g] = mmu[p][g]
    <3>1. PICK r \in Unused :
            mmu'[q][g] = [[mmu[p][g] EXCEPT !.type = "ram"] EXCEPT !.ram = r]
      BY <2>1
    <3>2. /\ mmu'[q][g].type = "ram" /\ mmu'[q][g].ram = r
          /\ mmu'[q][g].shared = mmu[p][g].shared
      BY <1>5, <3>1, Retyped
    <3>3. ~mmu[p][g].shared /\ r \in Ram /\ \A f \in Cached : cache[f] # r
      BY <2>1, UnusedUnheld DEF CopiesAtOnce, IInv
    <3> QED BY <1>4, <1>5, <2>1, <3>2, <3>3 DEF FileEntry
  <2>2. CASE /\ Alike(mmu[p][g], mmu'[q][g]) /\ Alike(mmu[p][g], mmu'[p][g])
             /\ \/ mmu'[p][g] = mmu[p][g] /\ mmu'[q][g] = mmu[p][g]
                \/ /\ mmu'[p][g].type = "cow" /\ mmu'[q][g].type = "cow"
                   /\ mmu[p][g].type \in {"ram", "cow"} /\ mmu[p][g].ram \in Ram
    BY <1>4, <1>5, <2>2 DEF FileEntry, Alike
  <2> QED BY <1>3, <2>1, <2>2 DEF ForkStep
<1>7. ASSUME NEW z \in Proc, NEW h \in Page PROVE FileEntry(mmu[z][h])'
  <2>1. CASE (z = p /\ h = g) \/ (z = q /\ h = g)
    BY <1>6, <2>1
  <2>2. CASE ~(z = p /\ h = g) /\ ~(z = q /\ h = g)
    BY <1>4, <2>2 DEF FileEntries, FileEntry
  <2> QED BY <2>1, <2>2
<1> QED BY <1>7 DEF FileEntries

LEMMA GoneTo ==
  ASSUME TypeOK, NEW p \in Proc, NEW w \in Worker, NEW t, GoTo(p, w, t)
  PROVE  pc'[p][w] = t
BY DEF GoTo, TypeOK

LEMMA FoundAfter ==
  ASSUME IInv, FilesInv, NEW p \in Proc, NEW w \in Worker,
         Calls(p, w) \/ Handlers(p, w)
  PROVE  Found(p, w)'
<1>0. TypeOK /\ Control
  BY DEF IInv
<1>1. CASE LookCow(p, w)
  <2>1. /\ pc'[p][w] = "copy" => ~mmu[p][at[p][w].page].shared
        /\ pc'[p][w] # "fill" /\ UNCHANGED <<mmu, at>>
    BY <1>0, <1>1 DEF LookCow, GoTo, TypeOK, MustCopy
  <2> QED BY <2>1 DEF Found
<1>2. CASE LookFile(p, w)
  <2>1. CASE ~UNCHANGED mmu \/ pc'[p][w] # "fill"
    <3>1. GoTo(p, w, "rw") \/ (GoTo(p, w, "fill") /\ UNCHANGED mmu)
      BY <1>2 DEF LookFile
    <3>2. pc'[p][w] \notin {"fill", "copy"}
      BY <1>0, <2>1, <3>1, GoneTo
    <3> QED BY <3>2 DEF Found
  <2>2. CASE UNCHANGED mmu /\ pc'[p][w] = "fill"
    <3> DEFINE e == mmu[p][at[p][w].page]
    <3>1. /\ e.file \in Cached => cache[e.file] = NoRam
          /\ \E r : at' = [at EXCEPT ![p][w].ram = r]
          /\ UNCHANGED <<mmu, cache>>
      <4>1. ~GoTo(p, w, "rw")
        BY <1>0, <2>2, GoneTo
      <4> QED BY <1>2, <2>2, <4>1 DEF LookFile, Holding, objects
    <3>2. at'[p][w].page = at[p][w].page
      <4>1. PICK r : at' = [at EXCEPT ![p][w].ram = r]
        BY <3>1
      <4>2. at'[p][w] = [at[p][w] EXCEPT !.ram = r] /\ at[p][w] \in Access
        BY <1>0, <4>1 DEF TypeOK
      <4> QED BY <4>2 DEF Access
    <3> QED BY <2>2, <3>1, <3>2 DEF Found
  <2> QED BY <2>1, <2>2
<1>3. CASE ~LookCow(p, w) /\ ~LookFile(p, w)
  <2>1. CASE Handlers(p, w)
    <3>0. ASSUME NEW t, GoTo(p, w, t), t \notin {"copy", "fill"} PROVE Found(p, w)'
      BY <1>0, <3>0, GoneTo DEF Found
    <3>1. CASE Resolve(p, w)
      <4>1. \/ GoTo(p, w, "user") \/ GoTo(p, w, "store")
            \/ UNCHANGED pc /\ pc[p][w] = "rw"
        BY <3>1 DEF Resolve, Return
      <4> QED BY <3>0, <4>1 DEF Found
    <3>2. CASE \/ Store(p, w) \/ Wake(p, w) \/ WriteCode(p, w)
               \/ Forked(p, w) \/ Left(p, w)
      <4>1. GoTo(p, w, "user")
        BY <3>2 DEF Store, Wake, WriteCode, Forked, Left, Return
      <4> QED BY <3>0, <4>1
    <3>4. CASE Copy(p, w) \/ TakeOver(p, w) \/ FillFile(p, w)
      <4>1. GoTo(p, w, "rw")
        BY <3>4 DEF Copy, TakeOver, FillFile
      <4> QED BY <3>0, <4>1
    <3>3. CASE ForkPage(p, w) \/ LeavePage(p, w)
      BY <1>0, <3>3 DEF ForkPage, LeavePage, Found
    <3> QED BY <1>3, <2>1, <3>1, <3>2, <3>3, <3>4 DEF Handlers
  <2>2. CASE Calls(p, w)
    <3>1. pc[p][w] = "user"
      BY <2>2, CallerRuns DEF Runs
    <3>2. ASSUME UNCHANGED pc PROVE Found(p, w)'
      BY <3>1, <3>2 DEF Found
    <3>3. ASSUME NEW t, GoTo(p, w, t), t \notin {"copy", "fill"} PROVE Found(p, w)'
      BY <1>0, <3>3, GoneTo DEF Found
    <3>4. ASSUME NEW g \in Page,
                 \/ \E k \in MapKinds : Map(p, w, g, k)
                 \/ Unmap(p, w, g) \/ Protect(p, w, g) \/ Execute(p, w, g)
                 \/ \E s \in Segment : Attach(p, w, g, s) \/ NewSegment(p, w, s)
          PROVE  UNCHANGED pc
      BY <3>4 DEF Map, Unmap, Protect, Execute, Attach, NewSegment
    <3>5. ASSUME NEW s \in Segment, NewSegment(p, w, s) PROVE UNCHANGED pc
      BY <3>5 DEF NewSegment
    <3>6. ASSUME NEW g \in Page, Wait(p, w, g) PROVE Found(p, w)'
      BY <3>3, <3>6 DEF Wait
    <3>7. ASSUME NEW g \in Page, NEW b \in BOOLEAN, NEW v \in Value, Begin(p, w, g, b, v)
          PROVE  Found(p, w)'
      <4>1. Handler(mmu[p][g], b) \notin {"copy", "fill"}
        BY DEF Handler
      <4> QED BY <3>3, <3>7, <4>1 DEF Begin
    <3>8. ASSUME NEW q \in Proc, Fork(p, w, q) PROVE Found(p, w)'
      BY <3>3, <3>8 DEF Fork
    <3>9. ASSUME NEW where \in {"exit", "exec"}, Leave(p, w, where) PROVE Found(p, w)'
      BY <3>3, <3>9 DEF Leave
    <3> QED BY <2>2, <3>2, <3>4, <3>5, <3>6, <3>7, <3>8, <3>9 DEF Calls
  <2> QED BY <2>1, <2>2
<1> QED BY <1>1, <1>2, <1>3

LEMMA CacheApartKept ==
  ASSUME IInv, CacheApart, NEW p \in Proc, NEW w \in Worker,
         Calls(p, w) \/ Handlers(p, w)
  PROVE  CacheApart'
<1>0. TypeOK
  BY DEF IInv
<1>1. ASSUME UNCHANGED <<cache, segment>> PROVE CacheApart'
  BY <1>1 DEF CacheApart
<1>2. CASE FillFile(p, w)
  <2> DEFINE r == at[p][w].ram
  <2>1. UNCHANGED segment /\ \E f : cache' = [cache EXCEPT ![f] = r] \/ cache' = cache
    BY <1>2 DEF FillFile
  <2>2. PICK f : cache' = [cache EXCEPT ![f] = r] \/ cache' = cache
    BY <2>1
  <2>3. /\ \A h \in Cached : cache[h] # r
        /\ \A s \in Segment : segment[s] # r
    BY <1>2, FillerAlone DEF FillFile
  <2>4. \A h \in Cached : cache'[h] = IF cache' # cache /\ h = f THEN r ELSE cache[h]
    BY <1>0, <2>2 DEF TypeOK
  <2> HIDE DEF r
  <2> QED BY <2>1, <2>3, <2>4 DEF CacheApart
<1>3. ASSUME NEW s \in Segment, NewSegment(p, w, s) PROVE CacheApart'
  <2>1. PICK r \in Unused : segment' = [segment EXCEPT ![s] = r]
    BY <1>3 DEF NewSegment
  <2>2. UNCHANGED cache /\ \A f \in Cached : cache[f] # r
    BY <1>3, UnusedUnheld DEF NewSegment, IInv
  <2>3. \A z \in Segment : segment'[z] = IF z = s THEN r ELSE segment[z]
    BY <1>0, <2>1 DEF TypeOK
  <2> QED BY <2>2, <2>3 DEF CacheApart
<1>4. CASE Calls(p, w)
  <2>1. ASSUME ~\E s \in Segment : NewSegment(p, w, s) PROVE UNCHANGED <<cache, segment>>
    BY <1>4, <2>1 DEF Calls, Map, Unmap, Protect, Execute, Wait, Attach, Begin, Fork,
                      Leave, objects
  <2> QED BY <1>1, <1>3, <2>1
<1>5. CASE Handlers(p, w)
  <2>1. ASSUME ~FillFile(p, w) PROVE UNCHANGED <<cache, segment>>
    BY <1>5, <2>1 DEF Handlers, Resolve, Store, LookCow, Copy, TakeOver, LookFile,
                      WriteCode, Wake, ForkPage, Forked, LeavePage, Left, objects
  <2> QED BY <1>1, <1>2, <2>1
<1> QED BY <1>4, <1>5

LEMMA FilesKept ==
  ASSUME ~MultiThreaded, IInv, FilesInv, [Next]_vars
  PROVE  FilesInv'
<1>0. TypeOK
  BY DEF IInv
<1>1. CASE UNCHANGED vars
  BY <1>1 DEF vars, FilesInv, Solo, Handling, FileEntries, FileEntry, CacheApart, Found
<1>2. ASSUME NEW p \in Proc, NEW w \in Worker, Calls(p, w) \/ Handlers(p, w)
      PROVE  FilesInv'
  <2>0. FileEntries /\ Found(p, w) /\ Solo /\ CacheApart
    BY DEF FilesInv
  <2>5. CacheApart'
    BY <1>2, CacheApartKept DEF FilesInv
  <2>1. ASSUME UNCHANGED <<mmu, cache>> PROVE FileEntries'
    BY <2>0, <2>1 DEF FileEntries, FileEntry
  <2>2. CASE Calls(p, w)
    <3>1. ASSUME NEW g \in Page, NEW b \in BOOLEAN, NEW v \in Value, Begin(p, w, g, b, v)
          PROVE  FileEntries'
      BY <2>1, <3>1 DEF Begin, objects
    <3>2. ASSUME NEW s \in Segment, NewSegment(p, w, s) PROVE FileEntries'
      BY <2>1, <3>2 DEF NewSegment
    <3>3. ASSUME NEW q \in Proc, Fork(p, w, q) PROVE FileEntries'
      BY <2>1, <3>3 DEF Fork, objects
    <3>4. ASSUME NEW where \in {"exit", "exec"}, Leave(p, w, where) PROVE FileEntries'
      BY <2>1, <3>4 DEF Leave, objects
    <3>5. FileEntries'
      BY <2>0, <2>2, <3>1, <3>2, <3>3, <3>4, MapFiles, UnmapFiles, ProtectFiles,
         ExecuteFiles, WaitFiles, AttachFiles DEF Calls
    <3>6. ~Wake(p, w)
      BY <2>2, CallerRuns DEF Runs, Wake
    <3>7. Solo' /\ \A q \in Proc, u \in Worker : q # p \/ u # w => ~Handling(q, u)'
      BY <1>0, <1>2, <2>0, <3>6, SoloKept
    <3>8. \A q \in Proc, u \in Worker : q # p \/ u # w => Found(q, u)'
      BY <3>7 DEF Found, Handling
    <3>9. Found(p, w)'
      BY <1>2, FoundAfter
    <3> QED BY <2>5, <3>5, <3>7, <3>8, <3>9 DEF FilesInv
  <2>3. CASE Handlers(p, w) /\ ~Wake(p, w)
    <3>1. ASSUME Store(p, w) \/ LookCow(p, w) \/ Forked(p, w) \/ Left(p, w)
          PROVE  FileEntries'
      BY <2>1, <3>1 DEF Store, LookCow, Forked, Left, objects
    <3>2. FileEntries'
      BY <2>0, <2>3, <3>1, ResolveFiles, CopyFiles, TakeOverFiles, LookFileFiles,
         FillFileFiles, WriteCodeFiles, ForkPageFiles, LeavePageFiles DEF Handlers
    <3>3. Solo' /\ \A q \in Proc, u \in Worker : q # p \/ u # w => ~Handling(q, u)'
      BY <1>0, <1>2, <2>0, <2>3, SoloKept
    <3>4. \A q \in Proc, u \in Worker : q # p \/ u # w => Found(q, u)'
      BY <3>3 DEF Found, Handling
    <3>5. Found(p, w)'
      BY <1>2, FoundAfter
    <3> QED BY <2>5, <3>2, <3>3, <3>4, <3>5 DEF FilesInv
  <2>4. CASE Wake(p, w)
    <3>1. UNCHANGED <<mmu, cache>>
      BY <2>4 DEF Wake, objects
    <3>2. Solo'
      BY <1>0, <1>2, <2>0, SoloKept
    <3>3. \A q \in Proc, u \in Worker : q # p \/ u # w => Found(q, u)'
      BY <1>0, <1>2, <3>1, OthersStay DEF FilesInv, Found
    <3>4. Found(p, w)'
      BY <1>2, FoundAfter
    <3> QED BY <2>1, <2>5, <3>1, <3>2, <3>3, <3>4 DEF FilesInv
  <2> QED BY <1>2, <2>2, <2>3, <2>4
<1> QED BY <1>1, <1>2 DEF Next

LEMMA FilesAtStart == Init => FilesInv
BY DEF Init, FilesInv, Solo, Handling, FileEntries, FileEntry, CacheApart, Found, NoEntry

LEMMA FilesInvariance ==
  ASSUME ~MultiThreaded
  PROVE  Spec => []FilesInv
<1>1. IInv /\ FilesInv /\ [Next]_vars => FilesInv'
  BY FilesKept
<1> QED BY <1>1, FilesAtStart, Invariance, PTL DEF Spec

\* On one host thread all shared mappings of a cached file page are the page
\* in the cache, whatever is mapped, forked, executed and released meanwhile.
THEOREM OneFileImageCorrect ==
  ASSUME ~MultiThreaded
  PROVE  Spec => []OneFileImage
<1>1. FilesInv => OneFileImage
  BY DEF FilesInv, FileEntries, FileEntry, OneFileImage
<1> QED BY <1>1, FilesInvariance, PTL

-----------------------------------------------------------------------------
(* Waiters.  The page a thread waits on is marked as long as it waits, so   *)
(* that a fork copies it for the child or leaves it shared.                 *)

Waiting ==
  \A p \in Proc, w \in Worker :
    pc[p][w] = "wait" => at[p][w].ram \in Ram /\ mmu[p][at[p][w].page].futex

\* An entry e of a waiter at host page r, and what a step leaves of it.
Keeps(e, n, r) ==
  /\ n.futex
  /\ e.type = "ram" /\ e.ram = r => (n.type = "cow" => e.shared) /\ n.ram = r

LEMMA WaiterKept ==
  ASSUME IInv, Waiting, NEW p \in Proc, NEW w \in Worker,
         Calls(p, w) \/ Handlers(p, w),
         NEW q \in Proc, NEW u \in Worker, pc[q][u] = "wait", pc'[q][u] = "wait"
  PROVE  \A g \in Page : g = at[q][u].page =>
           Keeps(mmu[q][g], mmu'[q][g], at[q][u].ram)
<1> SUFFICES ASSUME NEW g \in Page, g = at[q][u].page
             PROVE  Keeps(mmu[q][g], mmu'[q][g], at[q][u].ram)
  OBVIOUS
<1>0. TypeOK /\ Shape /\ Control
  BY DEF IInv
<1>1. /\ mmu[q][g].futex /\ mmu[q][g] \in Entry /\ at[q][u].ram \in Ram
      /\ at[q][u].ram # NoRam /\ q \in alive
  BY <1>0, GuestMemoryAssumption DEF Waiting, TypeOK, Control
<1>2. ASSUME UNCHANGED mmu PROVE Keeps(mmu[q][g], mmu'[q][g], at[q][u].ram)
  BY <1>1, <1>2 DEF Keeps
<1>3. ASSUME NEW h \in Page, NEW n, mmu' = [mmu EXCEPT ![p][h] = n],
             q = p /\ g = h => Keeps(mmu[q][g], n, at[q][u].ram)
      PROVE  Keeps(mmu[q][g], mmu'[q][g], at[q][u].ram)
  <2>1. /\ mmu'[p][h] = n
        /\ \A z \in Proc, i \in Page : z # p \/ i # h => mmu'[z][i] = mmu[z][i]
    BY <1>0, <1>3 DEF TypeOK
  <2>2. CASE q = p /\ g = h
    BY <1>3, <2>1, <2>2
  <2>3. CASE q # p \/ g # h
    BY <1>1, <2>1, <2>3 DEF Keeps
  <2> QED BY <2>2, <2>3
<1>4. CASE Calls(p, w)
  <2>1. ASSUME NEW h \in Page, Quiet(p, h), NEW n, SetPage(p, h, n)
        PROVE  Keeps(mmu[q][g], mmu'[q][g], at[q][u].ram)
    BY <1>3, <2>1 DEF Quiet, SetPage
  <2>2. ASSUME NEW h \in Page, NEW k \in MapKinds, Map(p, w, h, k)
        PROVE  Keeps(mmu[q][g], mmu'[q][g], at[q][u].ram)
    BY <2>1, <2>2 DEF Map
  <2>3. ASSUME NEW h \in Page, Unmap(p, w, h)
        PROVE  Keeps(mmu[q][g], mmu'[q][g], at[q][u].ram)
    BY <2>1, <2>3 DEF Unmap
  <2>4. ASSUME NEW h \in Page, NEW s \in Segment, Attach(p, w, h, s)
        PROVE  Keeps(mmu[q][g], mmu'[q][g], at[q][u].ram)
    BY <2>1, <2>4 DEF Attach
  <2>5. ASSUME NEW h \in Page, Protect(p, w, h)
        PROVE  Keeps(mmu[q][g], mmu'[q][g], at[q][u].ram)
    <3>1. PICK b \in BOOLEAN : mmu' = [mmu EXCEPT ![p][h].write = b]
      BY <2>5 DEF Protect
    <3> DEFINE n == [mmu[p][h] EXCEPT !.write = b]
    <3>2. mmu' = [mmu EXCEPT ![p][h] = n]
      BY <3>1
    <3>3. q = p /\ g = h => Keeps(mmu[q][g], n, at[q][u].ram)
      BY <1>1, Retyped DEF Keeps
    <3> HIDE DEF n
    <3> QED BY <1>3, <3>2, <3>3
  <2>6. ASSUME NEW h \in Page, Execute(p, w, h)
        PROVE  Keeps(mmu[q][g], mmu'[q][g], at[q][u].ram)
    <3> DEFINE n == [mmu[p][h] EXCEPT !.type = "code"]
    <3>2. mmu' = [mmu EXCEPT ![p][h] = n]
      BY <2>6 DEF Execute
    <3>3. q = p /\ g = h => Keeps(mmu[q][g], n, at[q][u].ram)
      BY <1>1, Retyped DEF Keeps
    <3> HIDE DEF n
    <3> QED BY <1>3, <3>2, <3>3
  <2>7. ASSUME NEW h \in Page, Wait(p, w, h)
        PROVE  Keeps(mmu[q][g], mmu'[q][g], at[q][u].ram)
    <3> DEFINE n == [mmu[p][h] EXCEPT !.futex = TRUE]
    <3>2. mmu' = [mmu EXCEPT ![p][h] = n]
      BY <2>7 DEF Wait
    <3>3. q = p /\ g = h => Keeps(mmu[q][g], n, at[q][u].ram)
      BY <1>1, Retyped DEF Keeps
    <3> HIDE DEF n
    <3> QED BY <1>3, <3>2, <3>3
  <2>8. ASSUME \/ \E h \in Page, b \in BOOLEAN, v \in Value : Begin(p, w, h, b, v)
               \/ \E s \in Segment : NewSegment(p, w, s)
               \/ \E z \in Proc : Fork(p, w, z)
               \/ \E where \in {"exit", "exec"} : Leave(p, w, where)
        PROVE  UNCHANGED mmu
    BY <2>8 DEF Begin, NewSegment, Fork, Leave
  <2> QED BY <1>2, <1>4, <2>2, <2>3, <2>4, <2>5, <2>6, <2>7, <2>8 DEF Calls
<1>5. CASE Handlers(p, w)
  <2> DEFINE page == at[p][w].page
  <2>1. CASE \/ Store(p, w) \/ LookCow(p, w) \/ Wake(p, w) \/ Forked(p, w)
             \/ Left(p, w)
    BY <1>2, <2>1 DEF Store, LookCow, Wake, Forked, Left
  <2>2. CASE Resolve(p, w)
    <3>1. CASE UNCHANGED mmu
      BY <1>2, <3>1
    <3>2. CASE ~UNCHANGED mmu
      <4>1. /\ mmu[p][page].ram = NoRam /\ page \in Page
            /\ \E r \in Unused :
                 SetNewPage(p, page, [mmu[p][page] EXCEPT !.type = "ram"], r, Zero, 0)
        BY <1>0, <2>2, <3>2 DEF Resolve, Control
      <4>2. PICK r \in Unused :
              mmu' = [mmu EXCEPT ![p][page] = [[mmu[p][page] EXCEPT !.type = "ram"]
                                                 EXCEPT !.ram = r]]
        BY <4>1 DEF SetNewPage
      <4> DEFINE n == [[mmu[p][page] EXCEPT !.type = "ram"] EXCEPT !.ram = r]
      <4>3. q = p /\ g = page => Keeps(mmu[q][g], n, at[q][u].ram)
        BY <1>1, <4>1, Retyped DEF Keeps
      <4> HIDE DEF n, page
      <4>4. mmu' = [mmu EXCEPT ![p][page] = n]
        BY <4>2 DEF n
      <4> QED BY <1>3, <4>1, <4>3, <4>4
    <3> QED BY <3>1, <3>2
  <2>3. CASE Copy(p, w)
    <3>1. page \in Page /\ mmu[p][page].type = "cow"
      BY <1>0, <2>3 DEF Copy, Control
    <3>2. PICK r \in Unused :
            mmu' = [mmu EXCEPT ![p][page] = [[mmu[p][page] EXCEPT !.type = "ram"]
                                               EXCEPT !.ram = r]]
      BY <2>3 DEF Copy, SetNewPage
    <3> DEFINE n == [[mmu[p][page] EXCEPT !.type = "ram"] EXCEPT !.ram = r]
    <3>3. q = p /\ g = page => Keeps(mmu[q][g], n, at[q][u].ram)
      BY <1>1, <3>1, Retyped DEF Keeps
    <3> HIDE DEF n, page
    <3>4. mmu' = [mmu EXCEPT ![p][page] = n]
      BY <3>2 DEF n
    <3> QED BY <1>3, <3>1, <3>3, <3>4
  <2>4. CASE TakeOver(p, w)
    <3>1. page \in Page
      BY <1>0, <2>4 DEF TakeOver, Control
    <3> DEFINE n == [mmu[p][page] EXCEPT !.type = "ram"]
    <3>2. mmu' = [mmu EXCEPT ![p][page] = n]
      BY <2>4 DEF TakeOver
    <3>3. q = p /\ g = page => Keeps(mmu[q][g], n, at[q][u].ram)
      BY <1>1, Retyped DEF Keeps
    <3> HIDE DEF n, page
    <3> QED BY <1>3, <3>1, <3>2, <3>3
  <2>5. CASE LookFile(p, w)
    <3>1. CASE UNCHANGED mmu
      BY <1>2, <3>1
    <3>2. CASE ~UNCHANGED mmu
      <4> DEFINE n == [mmu[p][page] EXCEPT !.type = "cow", !.ram = cache[mmu[p][page].file]]
      <4>1. /\ mmu[p][page].type = "file" /\ page \in Page
            /\ mmu' = [mmu EXCEPT ![p][page] = n]
        BY <1>0, <2>5, <3>2 DEF LookFile, Control, SetPage
      <4>2. q = p /\ g = page => Keeps(mmu[q][g], n, at[q][u].ram)
        BY <1>1, <4>1, Retyped DEF Keeps
      <4> HIDE DEF n, page
      <4> QED BY <1>3, <4>1, <4>2
    <3> QED BY <3>1, <3>2
  <2>6. CASE FillFile(p, w)
    <3> DEFINE n == [mmu[p][page] EXCEPT
                       !.type = IF mmu[p][page].file \in Cached THEN "cow" ELSE "ram",
                       !.ram = at[p][w].ram]
    <3>1. /\ mmu[p][page].type = "file" /\ page \in Page
          /\ mmu' = [mmu EXCEPT ![p][page] = n]
      BY <1>0, <2>6 DEF FillFile, Control
    <3>2. q = p /\ g = page => Keeps(mmu[q][g], n, at[q][u].ram)
      BY <1>1, <3>1, Retyped DEF Keeps
    <3> HIDE DEF n, page
    <3> QED BY <1>3, <3>1, <3>2
  <2>7. CASE WriteCode(p, w)
    <3>1. CASE UNCHANGED mmu
      BY <1>2, <3>1
    <3>2. CASE ~UNCHANGED mmu
      <4>1. mmu[p][page].type = "code" /\ page \in Page
        BY <1>0, <2>7 DEF WriteCode, Control
      <4>2. PICK r \in Unused :
              mmu' = [mmu EXCEPT ![p][page] = [mmu[p][page] EXCEPT !.ram = r]]
        BY <2>7, <3>2 DEF WriteCode, SetNewPage
      <4> DEFINE n == [mmu[p][page] EXCEPT !.ram = r]
      <4>3. q = p /\ g = page => Keeps(mmu[q][g], n, at[q][u].ram)
        BY <1>1, <4>1, Retyped DEF Keeps
      <4> HIDE DEF n, page
      <4>4. mmu' = [mmu EXCEPT ![p][page] = n]
        BY <4>2 DEF n
      <4> QED BY <1>3, <4>1, <4>3, <4>4
    <3> QED BY <3>1, <3>2
  <2>8. CASE LeavePage(p, w)
    <3>1. page \in Page /\ SetPage(p, page, NoEntry) /\ q # p
      BY <1>0, <2>8 DEF LeavePage, Control
    <3> HIDE DEF page
    <3> QED BY <1>3, <3>1 DEF SetPage
  <2>9. CASE ForkPage(p, w)
    <3>1. PICK h \in Page, z \in Proc : ForkStep(p, w, h, z)
      BY <2>9, ForkPageDoes
    <3>2. q # z
      BY <1>1, <3>1 DEF ForkStep
    <3>3. CASE q = p /\ g = h
      <4>1. CASE mmu'[q][g] = mmu[q][g]
        BY <1>1, <4>1 DEF Keeps
      <4>2. CASE mmu'[q][g] # mmu[q][g]
        <5>1. /\ ~CopiesAtOnce(mmu[q][g]) /\ Alike(mmu[q][g], mmu'[q][g])
              /\ mmu[q][g].ram \in Ram
          BY <3>1, <3>3, <4>2 DEF ForkStep
        <5>2. mmu[q][g].shared /\ mmu'[q][g].ram = mmu[q][g].ram
          BY <1>1, <5>1, GuestMemoryAssumption DEF CopiesAtOnce, Alike
        <5>3. mmu'[q][g].futex
          BY <1>1, <5>1 DEF Alike
        <5> QED BY <5>2, <5>3 DEF Keeps
      <4> QED BY <4>1, <4>2
    <3>4. CASE q # p \/ g # h
      BY <1>1, <3>1, <3>2, <3>4 DEF ForkStep, Keeps
    <3> QED BY <3>3, <3>4
  <2> QED BY <1>5, <2>1, <2>2, <2>3, <2>4, <2>5, <2>6, <2>7, <2>8, <2>9 DEF Handlers
<1> QED BY <1>4, <1>5

\* Only Wait makes a thread wait.
LEMMA WaitsAfter ==
  ASSUME IInv, NEW p \in Proc, NEW w \in Worker, Calls(p, w) \/ Handlers(p, w),
         pc'[p][w] = "wait"
  PROVE  \/ \E g \in Page : Wait(p, w, g)
         \/ pc[p][w] = "wait" /\ at'[p][w] = at[p][w]
<1>0. TypeOK
  BY DEF IInv
<1>1. ASSUME NEW t, GoTo(p, w, t) PROVE t = "wait"
  BY <1>0, <1>1, GoneTo
<1>2. CASE Calls(p, w)
  <2>1. ASSUME NEW g \in Page, NEW b \in BOOLEAN, NEW v \in Value PROVE ~Begin(p, w, g, b, v)
    <3>1. Handler(mmu[p][g], b) # "wait"
      BY DEF Handler
    <3> QED BY <1>1, <3>1 DEF Begin
  <2>2. /\ \A q \in Proc : ~Fork(p, w, q)
        /\ \A where \in {"exit", "exec"} : ~Leave(p, w, where)
    BY <1>1 DEF Fork, Leave
  <2>3. ASSUME UNCHANGED <<pc, at>> PROVE pc[p][w] = "wait" /\ at'[p][w] = at[p][w]
    BY <2>3
  <2>4. ASSUME NEW g \in Page,
               \/ \E k \in MapKinds : Map(p, w, g, k)
               \/ Unmap(p, w, g) \/ Protect(p, w, g) \/ Execute(p, w, g)
               \/ \E s \in Segment : Attach(p, w, g, s)
        PROVE  UNCHANGED <<pc, at>>
    BY <2>4 DEF Map, Unmap, Protect, Execute, Attach
  <2>5. ASSUME NEW s \in Segment, NewSegment(p, w, s) PROVE UNCHANGED <<pc, at>>
    BY <2>5 DEF NewSegment
  <2> QED BY <1>2, <2>1, <2>2, <2>3, <2>4, <2>5 DEF Calls
<1>3. CASE Handlers(p, w)
  <2>1. ~Store(p, w) /\ ~Wake(p, w) /\ ~WriteCode(p, w) /\ ~Forked(p, w) /\ ~Left(p, w)
    BY <1>1 DEF Store, Wake, WriteCode, Forked, Left, Return
  <2>2. ~Copy(p, w) /\ ~TakeOver(p, w) /\ ~FillFile(p, w)
    BY <1>1 DEF Copy, TakeOver, FillFile
  <2>3. ~LookCow(p, w) /\ ~LookFile(p, w)
    BY <1>1 DEF LookCow, LookFile
  <2>4. ~ForkPage(p, w) /\ ~LeavePage(p, w)
    BY DEF ForkPage, LeavePage
  <2>5. ~Resolve(p, w)
    BY <1>1 DEF Resolve, Return
  <2> QED BY <1>3, <2>1, <2>2, <2>3, <2>4, <2>5 DEF Handlers
<1> QED BY <1>2, <1>3

LEMMA WaitingKept ==
  ASSUME IInv, Waiting, [Next]_vars
  PROVE  Waiting'
<1>0. TypeOK /\ Control
  BY DEF IInv
<1>1. CASE UNCHANGED vars
  BY <1>1 DEF vars, Waiting
<1>2. ASSUME NEW p \in Proc, NEW w \in Worker, Calls(p, w) \/ Handlers(p, w)
      PROVE  Waiting'
  <2> SUFFICES ASSUME NEW q \in Proc, NEW u \in Worker, pc'[q][u] = "wait"
               PROVE  at'[q][u].ram \in Ram /\ mmu'[q][at'[q][u].page].futex
    BY DEF Waiting
  <2>1. CASE pc[q][u] = "wait" /\ at'[q][u] = at[q][u]
    <3>1. at[q][u].page \in Page
      BY <1>0, <2>1 DEF Control
    <3>2. Keeps(mmu[q][at[q][u].page], mmu'[q][at[q][u].page], at[q][u].ram)
      BY <1>2, <2>1, <3>1, WaiterKept
    <3> QED BY <2>1, <3>2 DEF Keeps, Waiting
  <2>2. CASE q = p /\ u = w /\ \E g \in Page : Wait(p, w, g)
    <3>1. PICK g \in Page : Wait(p, w, g)
      BY <2>2
    <3>2. /\ mmu' = [mmu EXCEPT ![p][g].futex = TRUE] /\ mmu[p][g].ram # NoRam
          /\ at' = [at EXCEPT ![p][w] = Accessing(g, FALSE, Zero, mmu[p][g].ram, NoProc)]
      BY <3>1 DEF Wait
    <3>3. at'[p][w].page = g /\ at'[p][w].ram = mmu[p][g].ram
      BY <1>0, <3>2 DEF TypeOK, Accessing
    <3>4. mmu[p][g] \in Entry /\ mmu'[p][g] = [mmu[p][g] EXCEPT !.futex = TRUE]
      BY <1>0, <3>2 DEF TypeOK
    <3>5. mmu'[p][g].futex /\ mmu[p][g].ram \in Ram
      BY <3>2, <3>4 DEF Entry
    <3> QED BY <2>2, <3>3, <3>5
  <2>3. CASE q # p \/ u # w
    BY <1>0, <1>2, <2>1, <2>3, OthersStay
  <2> QED BY <1>2, <2>1, <2>2, <2>3, WaitsAfter
<1> QED BY <1>1, <1>2 DEF Next

LEMMA WaitingInvariance == Spec => []Waiting
<1>1. Init => Waiting
  BY DEF Init, Waiting
<1>2. IInv /\ Waiting /\ [Next]_vars => Waiting'
  BY WaitingKept
<1> QED BY <1>1, <1>2, Invariance, PTL DEF Spec

\* On one host thread no fork, and no other step, moves the private page of a
\* waiter or makes it copy-on-write while the waiter sleeps, with any number
\* of processes, threads and pages.  (With a host thread each, PAGE_FUTEX is
\* or-ed in without the lock of the process: GuestMemory does not model that
\* wait, and nothing is claimed of it.)
THEOREM ForkKeepsFutexCorrect ==
  ASSUME ~MultiThreaded
  PROVE  Spec => ForkKeepsFutex
<1> DEFINE Stays(p, w) ==
      LET g == at[p][w].page IN
      /\ pc[p][w] = "wait" /\ pc'[p][w] = "wait"
      /\ mmu[p][g].type = "ram" /\ mmu[p][g].ram = at[p][w].ram
      => /\ mmu'[p][g].type = "cow" => mmu[p][g].shared
         /\ mmu'[p][g].ram = at[p][w].ram
<1>1. IInv /\ Waiting /\ [Next]_vars => [\A p \in Proc, w \in Worker : Stays(p, w)]_vars
  <2> SUFFICES ASSUME IInv, Waiting, NEW p \in Proc, NEW w \in Worker,
                      Calls(p, w) \/ Handlers(p, w), NEW q \in Proc, NEW u \in Worker
               PROVE  Stays(q, u)
    BY DEF Next
  <2> SUFFICES ASSUME pc[q][u] = "wait", pc'[q][u] = "wait" PROVE Stays(q, u)
    OBVIOUS
  <2>1. at[q][u].page \in Page
    BY DEF IInv, Control
  <2>2. Keeps(mmu[q][at[q][u].page], mmu'[q][at[q][u].page], at[q][u].ram)
    BY <2>1, WaiterKept
  <2> QED BY <2>2 DEF Keeps
<1> QED BY <1>1, Invariance, WaitingInvariance, PTL DEF Spec, ForkKeepsFutex

-----------------------------------------------------------------------------
(* What a handler has seen to of its page when it comes to it, when programs *)
(* map nothing whose sharing the code does not keep up: no page of a file    *)
(* outside the cache, no anonymous shared page, no segment, no blind write.  *)

Plain ==
  /\ ~MultiThreaded /\ ~BlindWrites
  /\ Segment = {} /\ Cached = File /\ OnlyFilesShared

\* The entry c of the child is what e of the parent was.
CopyOf(e, c) ==
  /\ c.file = e.file /\ c.shared = e.shared
  /\ \/ /\ c.ram = e.ram
        /\ (c.type = "file") = (e.type = "file") /\ (c.type = "none") = (e.type = "none")
     \/ /\ ~e.shared /\ c.type = "ram" /\ c.ram \in Ram /\ e.ram \in Ram
        /\ e.type \notin {"none", "file"} /\ data[c.ram] = data[e.ram]

Begun(p, w) ==
  LET a == at[p][w]
      e == mmu[p][a.page]
  IN
  /\ pc[p][w] = "user" => a.page = 1
  /\ pc[p][w] = "rw" => e.type # "none" /\ (a.write /\ ~e.shared => e.type = "ram")
  /\ pc[p][w] = "store" => a.ram = e.ram /\ (~e.shared => e.type = "ram")
  /\ pc[p][w] = "cow" => e.type = "cow"
  /\ pc[p][w] \in {"file", "fill"} => e.type = "file" /\ (a.write => e.shared)
  /\ pc[p][w] = "fill" => data[a.ram] = Disk[e.file]
  /\ pc[p][w] = "fork" =>
       \A g \in Page : g < a.page => CopyOf(mmu[p][g], mmu[a.child][g])
  /\ pc[p][w] \in {"exit", "exec"} => \A g \in Page : g < a.page => mmu[p][g] = NoEntry

BegunInv == \A p \in Proc, w \in Worker : Begun(p, w)

LEMMA ReturnDoes ==
  ASSUME TypeOK, NEW p \in Proc, NEW w \in Worker, Return(p, w)
  PROVE  pc'[p][w] = "user" /\ at'[p][w].page = 1
BY DEF Return, GoTo, TypeOK, NoAccess, Accessing

LEMMA HoldingDoes ==
  ASSUME TypeOK, NEW p \in Proc, NEW w \in Worker, NEW r, Holding(p, w, r)
  PROVE  /\ at'[p][w].page = at[p][w].page /\ at'[p][w].write = at[p][w].write
         /\ at'[p][w].ram = r
<1>1. at[p][w] \in Access /\ at'[p][w] = [at[p][w] EXCEPT !.ram = r]
  BY DEF Holding, TypeOK
<1> QED BY <1>1 DEF Access

LEMMA BegunCalls ==
  ASSUME Plain, IInv, NEW p \in Proc, NEW w \in Worker, Begun(p, w), Calls(p, w)
  PROVE  Begun(p, w)'
<1>0. TypeOK /\ pc[p][w] = "user" /\ at[p][w].page = 1
  BY CallerRuns DEF IInv, Runs, Begun
<1>1. ASSUME UNCHANGED <<pc, at>> PROVE Begun(p, w)'
  BY <1>0, <1>1 DEF Begun
<1>2. ASSUME NEW g \in Page,
             \/ \E k \in MapKinds : Map(p, w, g, k)
             \/ Unmap(p, w, g) \/ Protect(p, w, g) \/ Execute(p, w, g)
             \/ \E s \in Segment : Attach(p, w, g, s)
      PROVE  UNCHANGED <<pc, at>>
  BY <1>2 DEF Map, Unmap, Protect, Execute, Attach
<1>3. ASSUME NEW s \in Segment, NewSegment(p, w, s) PROVE UNCHANGED <<pc, at>>
  BY <1>3 DEF NewSegment
<1>4. ASSUME NEW g \in Page, Wait(p, w, g) PROVE Begun(p, w)'
  <2>1. pc'[p][w] = "wait"
    BY <1>0, <1>4, GoneTo DEF Wait
  <2> QED BY <2>1 DEF Begun
<1>5. ASSUME NEW g \in Page, NEW b \in BOOLEAN, NEW v \in Value, Begin(p, w, g, b, v)
      PROVE  Begun(p, w)'
  <2> DEFINE e == mmu[p][g]
  <2>1. /\ e.type # "none" /\ (b /\ e.type = "file" => e.shared)
        /\ UNCHANGED mmu
        /\ at' = [at EXCEPT ![p][w] = Accessing(g, b, v, NoRam, NoProc)]
    BY <1>5 DEF Begin, Plain
  <2>2. pc'[p][w] = Handler(e, b)
    BY <1>0, <1>5, GoneTo DEF Begin
  <2>3. at'[p][w].page = g /\ at'[p][w].write = b
    BY <1>0, <2>1 DEF TypeOK, Accessing
  <2>4. e \in Entry
    BY <1>0 DEF TypeOK
  <2>5. CASE Handler(e, b) = "file"
    <3>1. e.type = "file"
      BY <2>5 DEF Handler
    <3> QED BY <2>1, <2>2, <2>3, <2>5, <3>1 DEF Begun
  <2>6. CASE Handler(e, b) = "cow"
    <3>1. e.type = "cow"
      BY <2>6 DEF Handler
    <3> QED BY <2>1, <2>2, <2>3, <2>6, <3>1 DEF Begun
  <2>7. CASE Handler(e, b) = "code"
    BY <2>2, <2>7 DEF Begun
  <2>8. CASE Handler(e, b) = "rw"
    <3>1. b => e.type = "ram"
      <4>1. e.type # "none" /\ e.type \in {"none", "ram", "cow", "file", "code"}
        BY <2>1, <2>4 DEF Entry
      <4> QED BY <2>8, <4>1 DEF Handler
    <3> QED BY <2>1, <2>2, <2>3, <2>8, <3>1 DEF Begun
  <2>9. Handler(e, b) \in {"file", "cow", "code", "rw"}
    BY DEF Handler
  <2> QED BY <2>5, <2>6, <2>7, <2>8, <2>9
<1>6. ASSUME NEW q \in Proc, Fork(p, w, q) PROVE Begun(p, w)'
  <2>1. pc'[p][w] = "fork"
    BY <1>0, <1>6, GoneTo DEF Fork
  <2>2. at'[p][w].page = 1
    BY <1>0, <1>6 DEF Fork, TypeOK, Accessing
  <2>3. \A g \in Page : ~(g < 1)
    BY DEF Page
  <2> QED BY <2>1, <2>2, <2>3 DEF Begun
<1>7. ASSUME NEW where \in {"exit", "exec"}, Leave(p, w, where) PROVE Begun(p, w)'
  <2>1. pc'[p][w] = where /\ UNCHANGED at
    BY <1>0, <1>7, GoneTo DEF Leave
  <2>2. \A g \in Page : ~(g < 1)
    BY DEF Page
  <2> QED BY <1>0, <2>1, <2>2 DEF Begun
<1> QED BY <1>1, <1>2, <1>3, <1>4, <1>5, <1>6, <1>7 DEF Calls

LEMMA BegunHandlers ==
  ASSUME Plain, IInv, NEW p \in Proc, NEW w \in Worker, Begun(p, w), Handlers(p, w)
  PROVE  Begun(p, w)'
<1> DEFINE g == at[p][w].page  e == mmu[p][g]
<1>0. TypeOK /\ Control /\ Shape
  BY DEF IInv
<1>1. ASSUME Return(p, w) PROVE Begun(p, w)'
  BY <1>0, <1>1, ReturnDoes DEF Begun
<1>2. CASE Store(p, w) \/ Wake(p, w) \/ WriteCode(p, w) \/ Forked(p, w) \/ Left(p, w)
  BY <1>1, <1>2 DEF Store, Wake, WriteCode, Forked, Left
<1>3. ASSUME UNCHANGED at, pc'[p][w] = "rw", g \in Page, NEW n,
             mmu' = [mmu EXCEPT ![p][g] = n], n.type = "ram"
      PROVE  Begun(p, w)'
  <2>1. mmu'[p][g] = n /\ at'[p][w] = at[p][w]
    BY <1>0, <1>3 DEF TypeOK
  <2> QED BY <1>3, <2>1 DEF Begun
<1>4. CASE Resolve(p, w)
  <2>1. g \in Page /\ e \in Entry /\ pc[p][w] = "rw"
    <3>1. pc[p][w] = "rw"
      BY <1>4 DEF Resolve
    <3>2. g \in Page
      BY <1>0, <3>1 DEF Control
    <3> QED BY <1>0, <3>1, <3>2 DEF TypeOK
  <2>2. CASE Return(p, w)
    BY <1>1, <2>2
  <2>3. CASE /\ UNCHANGED <<pc, at>>
             /\ \E r \in Unused : SetNewPage(p, g, [e EXCEPT !.type = "ram"], r, Zero, 0)
    <3>1. PICK r \in Unused : SetNewPage(p, g, [e EXCEPT !.type = "ram"], r, Zero, 0)
      BY <2>3
    <3> DEFINE n == [[e EXCEPT !.type = "ram"] EXCEPT !.ram = r]
    <3>2. n.type = "ram"
      BY <2>1, Retyped
    <3>3. mmu' = [mmu EXCEPT ![p][g] = n]
      BY <3>1 DEF SetNewPage
    <3> HIDE DEF n, e, g
    <3> QED BY <1>3, <2>1, <2>3, <3>2, <3>3
  <2>4. CASE /\ GoTo(p, w, "store") /\ Holding(p, w, e.ram) /\ UNCHANGED mmu
             /\ at[p][w].write
    <3>1. pc'[p][w] = "store" /\ at'[p][w].page = g /\ at'[p][w].ram = e.ram
      BY <1>0, <2>4, GoneTo, HoldingDoes
    <3> QED BY <2>1, <2>4, <3>1 DEF Begun
  <2> QED BY <1>4, <2>2, <2>3, <2>4 DEF Resolve
<1>5. CASE LookCow(p, w)
  <2>1. e.type = "cow"
    BY <1>5 DEF LookCow, Begun
  <2>2. \E t \in {"copy", "take"} : GoTo(p, w, t)
    BY <1>5, <2>1 DEF LookCow
  <2>3. pc'[p][w] \in {"copy", "take"}
    BY <1>0, <2>2, GoneTo
  <2> QED BY <2>3 DEF Begun
<1>6. CASE Copy(p, w)
  <2>1. g \in Page /\ e \in Entry /\ GoTo(p, w, "rw") /\ UNCHANGED at
    BY <1>0, <1>6 DEF Copy, Control, TypeOK
  <2>2. PICK r \in Unused : SetNewPage(p, g, [e EXCEPT !.type = "ram"], r, data[e.ram], 0)
    BY <1>6 DEF Copy
  <2> DEFINE n == [[e EXCEPT !.type = "ram"] EXCEPT !.ram = r]
  <2>3. n.type = "ram"
    BY <2>1, Retyped
  <2>4. mmu' = [mmu EXCEPT ![p][g] = n] /\ pc'[p][w] = "rw"
    BY <1>0, <2>1, <2>2, GoneTo DEF SetNewPage
  <2> HIDE DEF n, e, g
  <2> QED BY <1>3, <2>1, <2>3, <2>4
<1>7. CASE TakeOver(p, w)
  <2> DEFINE n == [e EXCEPT !.type = "ram"]
  <2>1. /\ g \in Page /\ e \in Entry /\ GoTo(p, w, "rw") /\ UNCHANGED at
        /\ mmu' = [mmu EXCEPT ![p][g] = n]
    BY <1>0, <1>7 DEF TakeOver, Control, TypeOK
  <2>2. n.type = "ram"
    BY <2>1, Retyped
  <2>3. pc'[p][w] = "rw"
    BY <1>0, <2>1, GoneTo
  <2> HIDE DEF n, e, g
  <2> QED BY <1>3, <2>1, <2>2, <2>3
<1>8. CASE LookFile(p, w)
  <2>1. /\ e.type = "file" /\ (at[p][w].write => e.shared)
        /\ g \in Page /\ e \in Entry /\ e.file \in File
    <3>1. pc[p][w] = "file"
      BY <1>8 DEF LookFile
    <3>2. g \in Page /\ e.type = "file" /\ (at[p][w].write => e.shared)
      BY <1>0, <3>1 DEF Control, Begun
    <3> QED BY <1>0, <3>2 DEF TypeOK, Shape
  <2>2. CASE ~UNCHANGED mmu
    <3> DEFINE n == [e EXCEPT !.type = "cow", !.ram = cache[e.file]]
    <3>1. /\ mmu' = [mmu EXCEPT ![p][g] = n] /\ UNCHANGED at /\ GoTo(p, w, "rw")
      BY <1>8, <2>2 DEF LookFile, SetPage
    <3>2. n.type = "cow" /\ n.shared = e.shared
      BY <2>1, Retyped
    <3>3. pc'[p][w] = "rw"
      BY <1>0, <3>1, GoneTo
    <3> HIDE DEF n
    <3>4. mmu'[p][g] = n /\ at'[p][w] = at[p][w]
      BY <1>0, <2>1, <3>1 DEF TypeOK
    <3> QED BY <2>1, <3>2, <3>3, <3>4 DEF Begun
  <2>3. CASE UNCHANGED mmu
    <3>1. PICK r \in Unused :
            data' = [data EXCEPT ![r] = Disk[e.file]] /\ Holding(p, w, r)
            /\ GoTo(p, w, "fill")
      <4>1. ~SetPage(p, g, [e EXCEPT !.type = "cow", !.ram = cache[e.file]])
        <5> DEFINE n == [e EXCEPT !.type = "cow", !.ram = cache[e.file]]
        <5>1. n.type = "cow"
          BY <2>1, Retyped
        <5> HIDE DEF n
        <5>2. mmu' = [mmu EXCEPT ![p][g] = n] => mmu'[p][g] = n
          BY <1>0, <2>1 DEF TypeOK
        <5>3. mmu'[p][g].type = "file"
          BY <2>1, <2>3
        <5> QED BY <5>1, <5>2, <5>3 DEF SetPage, n
      <4> QED BY <1>8, <2>1, <4>1 DEF LookFile
    <3>2. data'[r] = Disk[e.file]
      BY <1>0, <3>1 DEF TypeOK, Unused
    <3>3. pc'[p][w] = "fill"
      BY <1>0, <3>1, GoneTo
    <3>4. /\ at'[p][w].page = g /\ at'[p][w].ram = r
          /\ at'[p][w].write = at[p][w].write
      BY <1>0, <3>1, HoldingDoes
    <3> QED BY <2>1, <2>3, <3>2, <3>3, <3>4 DEF Begun
  <2> QED BY <2>2, <2>3
<1>9. CASE FillFile(p, w)
  <2> DEFINE n == [e EXCEPT !.type = IF e.file \in Cached THEN "cow" ELSE "ram",
                            !.ram = at[p][w].ram]
  <2>1. /\ e.type = "file" /\ (at[p][w].write => e.shared)
        /\ g \in Page /\ e \in Entry /\ e.file \in Cached
    <3>1. pc[p][w] = "fill"
      BY <1>9 DEF FillFile
    <3>2. g \in Page /\ e.type = "file" /\ (at[p][w].write => e.shared)
      BY <1>0, <3>1 DEF Control, Begun
    <3> QED BY <1>0, <3>2 DEF TypeOK, Shape, Plain
  <2>2. mmu' = [mmu EXCEPT ![p][g] = n] /\ GoTo(p, w, "rw") /\ Holding(p, w, NoRam)
    BY <1>9 DEF FillFile
  <2>3. n.type = "cow" /\ n.shared = e.shared
    BY <2>1, Retyped
  <2>4. pc'[p][w] = "rw" /\ at'[p][w].page = g /\ at'[p][w].write = at[p][w].write
    BY <1>0, <2>2, GoneTo, HoldingDoes
  <2> HIDE DEF n
  <2>5. mmu'[p][g] = n
    BY <1>0, <2>1, <2>2 DEF TypeOK
  <2> QED BY <2>1, <2>3, <2>4, <2>5 DEF Begun
<1>10. CASE LeavePage(p, w)
  <2>1. /\ pc[p][w] \in {"exit", "exec"} /\ g \in Page
        /\ mmu' = [mmu EXCEPT ![p][g] = NoEntry]
        /\ at' = [at EXCEPT ![p][w].page = @ + 1] /\ UNCHANGED pc
    BY <1>10 DEF LeavePage, SetPage
  <2>2. /\ mmu'[p][g] = NoEntry
        /\ \A h \in Page : h # g => mmu'[p][h] = mmu[p][h]
    BY <1>0, <2>1 DEF TypeOK
  <2>3. at'[p][w].page = g + 1
    <3>1. at[p][w] \in Access /\ at'[p][w] = [at[p][w] EXCEPT !.page = @ + 1]
      BY <1>0, <2>1 DEF TypeOK
    <3> QED BY <3>1 DEF Access
  <2>4. \A h \in Page : h < g + 1 => h < g \/ h = g
    BY <2>1 DEF Page
  <2>5. \A h \in Page : h < g => mmu[p][h] = NoEntry
    BY <2>1 DEF Begun
  <2> QED BY <2>1, <2>2, <2>3, <2>4, <2>5 DEF Begun
<1>11. CASE ForkPage(p, w)
  <2>1. PICK i \in Page, q \in Proc :
          i = at[p][w].page /\ q = at[p][w].child /\ ForkStep(p, w, i, q)
    BY <1>11, ForkPageDoes
  <2>2. /\ pc'[p][w] = "fork" /\ at'[p][w].page = i + 1 /\ at'[p][w].child = q
    BY <2>1 DEF ForkStep
  <2>3. ASSUME NEW h \in Page, h < i
        PROVE  CopyOf(mmu[p][h], mmu[q][h])'
    <3>1. mmu'[p][h] = mmu[p][h] /\ mmu'[q][h] = mmu[q][h]
      <4>1. h # i
        BY <2>3 DEF Page
      <4> QED BY <2>1, <4>1 DEF ForkStep
    <3>2. CopyOf(mmu[p][h], mmu[q][h])
      BY <2>1, <2>3 DEF ForkStep, Begun
    <3>3. \/ data' = data
          \/ \E r \in Unused : \E v : data' = [data EXCEPT ![r] = v]
      BY <2>1 DEF ForkStep
    <3>4. /\ mmu[p][h].ram \in Ram => data'[mmu[p][h].ram] = data[mmu[p][h].ram]
          /\ mmu[q][h].ram \in Ram => data'[mmu[q][h].ram] = data[mmu[q][h].ram]
      BY <1>0, <3>3, UnusedUnheld DEF IInv, TypeOK
    <3> QED BY <3>1, <3>2, <3>4 DEF CopyOf
  <2>4. CopyOf(mmu[p][i], mmu[q][i])'
    <3>1. mmu[p][i] \in Entry
      BY <1>0 DEF TypeOK
    <3>2. CASE CopiesAtOnce(mmu[p][i])
      <4>1. PICK r \in Unused :
              /\ mmu'[q][i] = [[mmu[p][i] EXCEPT !.type = "ram"] EXCEPT !.ram = r]
              /\ data' = [data EXCEPT ![r] = data[mmu[p][i].ram]]
        BY <2>1, <3>2 DEF ForkStep
      <4>2. mmu'[p][i] = mmu[p][i] /\ mmu[p][i].ram \in Ram
        BY <2>1, <3>2 DEF ForkStep
      <4>3. /\ mmu'[q][i].type = "ram" /\ mmu'[q][i].ram = r
            /\ mmu'[q][i].file = mmu[p][i].file /\ mmu'[q][i].shared = mmu[p][i].shared
        BY <3>1, <4>1, Retyped
      <4>4. r \in Ram /\ mmu[p][i].ram # r
        BY UnusedUnheld DEF IInv
      <4>5. data'[r] = data[mmu[p][i].ram] /\ data'[mmu[p][i].ram] = data[mmu[p][i].ram]
        BY <1>0, <4>1, <4>2, <4>4 DEF TypeOK
      <4>6. ~mmu[p][i].shared /\ mmu[p][i].type \notin {"none", "file"}
        BY <1>0, <3>2, <4>2, GuestMemoryAssumption DEF CopiesAtOnce, Shape
      <4> QED BY <4>2, <4>3, <4>4, <4>5, <4>6 DEF CopyOf
    <3>3. CASE ~CopiesAtOnce(mmu[p][i])
      <4>1. /\ Alike(mmu[p][i], mmu'[q][i]) /\ Alike(mmu[p][i], mmu'[p][i])
            /\ \/ mmu'[p][i] = mmu[p][i] /\ mmu'[q][i] = mmu[p][i]
               \/ mmu'[p][i].type = "cow" /\ mmu'[q][i].type = "cow"
        BY <2>1, <3>3 DEF ForkStep
      <4> QED BY <4>1 DEF CopyOf, Alike
    <3> QED BY <3>2, <3>3
  <2>5. \A h \in Page : h < i + 1 => h < i \/ h = i
    BY DEF Page
  <2>6. ASSUME NEW h \in Page, h < i + 1
        PROVE  CopyOf(mmu[p][h], mmu[q][h])'
    BY <2>3, <2>4, <2>5, <2>6
  <2> QED BY <2>2, <2>6 DEF Begun, CopyOf
<1> QED BY <1>2, <1>4, <1>5, <1>6, <1>7, <1>8, <1>9, <1>10, <1>11 DEF Handlers

LEMMA BegunStays ==
  ASSUME NEW p \in Proc, NEW w \in Worker, Begun(p, w), UNCHANGED <<mmu, data>>,
         pc'[p][w] = pc[p][w], at'[p][w] = at[p][w]
  PROVE  Begun(p, w)'
<1>1. ASSUME NEW g \in Page
      PROVE  CopyOf(mmu[p][g], mmu[at[p][w].child][g])'
               = CopyOf(mmu[p][g], mmu[at[p][w].child][g])
  BY DEF CopyOf
<1>2. pc[p][w] = "fork" =>
        \A g \in Page : g < at[p][w].page => CopyOf(mmu[p][g], mmu[at[p][w].child][g])'
  BY <1>1 DEF Begun
<1>3. pc'[p][w] = "fork" =>
        \A g \in Page :
          g < at'[p][w].page => CopyOf(mmu[p][g], mmu[at[p][w].child][g])'
  BY <1>2
<1> QED BY <1>3 DEF Begun

LEMMA BegunKept ==
  ASSUME Plain, IInv, FilesInv, BegunInv, [Next]_vars
  PROVE  BegunInv'
<1>0. TypeOK /\ Solo /\ ~MultiThreaded
  BY DEF IInv, FilesInv, Plain
<1>1. CASE UNCHANGED vars
  BY <1>1, BegunStays DEF vars, BegunInv
<1>2. ASSUME NEW p \in Proc, NEW w \in Worker, Calls(p, w) \/ Handlers(p, w)
      PROVE  BegunInv'
  <2>1. Begun(p, w)'
    BY <1>2, BegunCalls, BegunHandlers DEF BegunInv
  <2>2. ASSUME NEW q \in Proc, NEW u \in Worker, q # p \/ u # w
        PROVE  Begun(q, u)'
    <3>1. pc'[q][u] = pc[q][u] /\ at'[q][u] = at[q][u] /\ Begun(q, u)
      BY <1>0, <1>2, <2>2, OthersStay DEF BegunInv
    <3>2. CASE Wake(p, w)
      <4>1. UNCHANGED <<mmu, data>>
        BY <3>2 DEF Wake, host
      <4> QED BY <3>1, <4>1, BegunStays
    <3>3. CASE ~Wake(p, w)
      <4>1. ~Handling(q, u)'
        BY <1>0, <1>2, <2>2, <3>3, SoloKept
      <4> QED BY <3>1, <4>1 DEF Begun, Handling
    <3> QED BY <3>2, <3>3
  <2> QED BY <2>1, <2>2 DEF BegunInv
<1> QED BY <1>1, <1>2 DEF Next

LEMMA BegunInvariance ==
  ASSUME Plain
  PROVE  Spec => []BegunInv
<1>1. Init => BegunInv
  BY DEF Init, BegunInv, Begun, NoAccess, Accessing
<1>2. IInv /\ FilesInv /\ BegunInv /\ [Next]_vars => BegunInv'
  BY BegunKept
<1>3. Spec => []FilesInv
  BY FilesInvariance DEF Plain
<1> QED BY <1>1, <1>2, <1>3, Invariance, PTL DEF Spec

-----------------------------------------------------------------------------
(* What programs see: the mapping of the state to that of AddressSpaces.    *)

Image(f) == IF cache[f] = NoRam THEN Disk[f] ELSE data[cache[f]]
Back(p, g) ==
  IF p \notin alive \/ mmu[p][g].type = "none" THEN "none"
  ELSE IF Followed(p, g) THEN mmu[p][g].file ELSE "own"
Shared(p, g) == p \in alive /\ mmu[p][g].shared
Own(p, g) ==
  IF p \notin alive \/ mmu[p][g].ram = NoRam \/ Followed(p, g) THEN Zero
  ELSE data[mmu[p][g].ram]

\* The page looks to programs as before.
SamePage(p, g) == UNCHANGED <<Back(p, g), Shared(p, g), Own(p, g)>>

LEMMA Unseen ==
  ASSUME UNCHANGED alive, \A f \in File : Image(f)' = Image(f),
         \A p \in Proc, g \in Page : SamePage(p, g)
  PROVE  UNCHANGED Spaces!vars
<1>1. [f \in File |-> Image(f)]' = [f \in File |-> Image(f)]
  OBVIOUS
<1>2. [p \in Proc |-> [g \in Page |-> Back(p, g)]]' = [p \in Proc |-> [g \in Page |-> Back(p, g)]]
  BY DEF SamePage
<1>3. [p \in Proc |-> [g \in Page |-> Shared(p, g)]]' = [p \in Proc |-> [g \in Page |-> Shared(p, g)]]
  BY DEF SamePage
<1>4. [p \in Proc |-> [g \in Page |-> Own(p, g)]]' = [p \in Proc |-> [g \in Page |-> Own(p, g)]]
  BY DEF SamePage
<1> QED BY <1>1, <1>2, <1>3, <1>4 DEF Spaces!vars, Image, Back, Shared, Own

\* One page of one process looks different.
LEMMA OnePageBecomes ==
  ASSUME NEW p \in Proc, NEW g \in Page, NEW b, NEW s, NEW v,
         Back(p, g)' = b, Shared(p, g)' = s, Own(p, g)' = v,
         \A q \in Proc, h \in Page : q # p \/ h # g => SamePage(q, h)
  PROVE  Spaces!Becomes(p, g, b, s, v)
<1> DEFINE B == [q \in Proc |-> [h \in Page |-> Back(q, h)]]
           S == [q \in Proc |-> [h \in Page |-> Shared(q, h)]]
           V == [q \in Proc |-> [h \in Page |-> Own(q, h)]]
<1>1. B' = [B EXCEPT ![p][g] = b]
  BY DEF SamePage
<1>2. S' = [S EXCEPT ![p][g] = s]
  BY DEF SamePage
<1>3. V' = [V EXCEPT ![p][g] = v]
  BY DEF SamePage
<1> QED BY <1>1, <1>2, <1>3 DEF Spaces!Becomes, Back, Shared, Own

\* What entries and the cache point at keeps its contents.
HeldData ==
  /\ \A p \in Proc, g \in Page :
       mmu[p][g].ram \in Ram => data'[mmu[p][g].ram] = data[mmu[p][g].ram]
  /\ \A f \in Cached : cache[f] \in Ram => data'[cache[f]] = data[cache[f]]

LEMMA UnusedData ==
  ASSUME IInv, NEW r \in Unused, NEW v, data' = [data EXCEPT ![r] = v]
  PROVE  HeldData /\ data'[r] = v
<1>1. data \in [Ram -> Value] /\ r \in Ram
  BY DEF IInv, TypeOK, Unused
<1> QED BY <1>1, UnusedUnheld DEF HeldData, IInv

LEMMA SameData ==
  ASSUME UNCHANGED data
  PROVE  HeldData
BY DEF HeldData

\* An entry that differs in nothing programs see.
AlikePage(p, g) ==
  /\ mmu'[p][g].ram = mmu[p][g].ram /\ mmu'[p][g].file = mmu[p][g].file
  /\ mmu'[p][g].shared = mmu[p][g].shared
  /\ (mmu'[p][g].type = "none") = (mmu[p][g].type = "none")
  /\ (mmu'[p][g].type = "file") = (mmu[p][g].type = "file")

LEMMA AlikeSame ==
  ASSUME IInv, UNCHANGED <<alive, cache>>, HeldData, NEW p \in Proc, NEW g \in Page,
         p \in alive => AlikePage(p, g)
  PROVE  SamePage(p, g)
<1>1. mmu[p][g].ram \in Ram \cup {NoRam}
  BY DEF IInv, TypeOK, Entry
<1>2. CASE p \notin alive
  BY <1>2 DEF SamePage, Back, Shared, Own
<1>3. CASE p \in alive
  <2>1. Followed(p, g)' = Followed(p, g)
    BY <1>3 DEF Followed, AlikePage
  <2>2. mmu[p][g].ram # NoRam => data'[mmu[p][g].ram] = data[mmu[p][g].ram]
    BY <1>1 DEF HeldData
  <2> QED BY <1>3, <2>1, <2>2 DEF SamePage, Back, Shared, Own, AlikePage
<1> QED BY <1>2, <1>3

LEMMA ImageSame ==
  ASSUME Plain, IInv, UNCHANGED cache, HeldData
  PROVE  \A f \in File : Image(f)' = Image(f)
<1> SUFFICES ASSUME NEW f \in File PROVE Image(f)' = Image(f)
  OBVIOUS
<1>1. f \in Cached /\ cache[f] \in Ram \cup {NoRam}
  BY DEF Plain, IInv, TypeOK
<1>2. cache[f] # NoRam => data'[cache[f]] = data[cache[f]]
  BY <1>1 DEF HeldData
<1> QED BY <1>2 DEF Image

\* A step that programs do not see.
LEMMA AlikeUnseen ==
  ASSUME Plain, IInv, UNCHANGED <<alive, cache>>, HeldData,
         \A p \in Proc, g \in Page : p \in alive => AlikePage(p, g)
  PROVE  UNCHANGED Spaces!vars
BY AlikeSame, ImageSame, Unseen

\* A step of one page that programs see, and that leaves the files alone.
LEMMA OnePageSeen ==
  ASSUME Plain, IInv, UNCHANGED <<alive, cache>>, HeldData, NEW p \in Proc,
         NEW g \in Page, NEW b, NEW s, NEW v,
         Back(p, g)' = b, Shared(p, g)' = s, Own(p, g)' = v,
         \A q \in Proc, h \in Page : q # p \/ h # g => mmu'[q][h] = mmu[q][h]
  PROVE  /\ Spaces!Becomes(p, g, b, s, v)
         /\ UNCHANGED [f \in File |-> Image(f)]
<1>1. ASSUME NEW q \in Proc, NEW h \in Page, q # p \/ h # g PROVE SamePage(q, h)
  <2>1. AlikePage(q, h)
    BY <1>1 DEF AlikePage
  <2> QED BY <2>1, AlikeSame
<1>2. Spaces!Becomes(p, g, b, s, v)
  BY <1>1, OnePageBecomes
<1>3. UNCHANGED [f \in File |-> Image(f)]
  BY ImageSame
<1> QED BY <1>2, <1>3

LEMMA MapRefines ==
  ASSUME Plain, IInv, NEW p \in Proc, NEW w \in Worker, NEW g \in Page,
         NEW k \in MapKinds, Map(p, w, g, k)
  PROVE  Spaces!Map(p, g, k)
<1> DEFINE e == [NoEntry EXCEPT
                   !.type = IF k.file = NoFile THEN "ram" ELSE "file",
                   !.file = k.file, !.shared = k.shared, !.write = k.write]
<1>1. /\ p \in alive /\ UNCHANGED <<data, cache, alive>>
      /\ mmu' = [mmu EXCEPT ![p][g] = e]
  BY DEF Map, Runs, SetPage, objects
<1>2. /\ e.type = IF k.file = NoFile THEN "ram" ELSE "file"
      /\ e.file = k.file /\ e.shared = k.shared /\ e.ram = NoRam
  BY DEF NoEntry
<1> HIDE DEF e
<1>3. /\ mmu'[p][g] = e
      /\ \A q \in Proc, h \in Page : q # p \/ h # g => mmu'[q][h] = mmu[q][h]
  BY <1>1 DEF IInv, TypeOK
<1>4. /\ Back(p, g)' = IF k.file = NoFile THEN "own" ELSE k.file
      /\ Shared(p, g)' = k.shared /\ Own(p, g)' = Zero
  <2>1. k.shared \in BOOLEAN
    BY GuestMemoryAssumption DEF Kind
  <2>2. CASE k.file = NoFile
    BY <1>1, <1>2, <1>3, <2>1, <2>2 DEF Back, Shared, Own, Followed
  <2>3. CASE k.file # NoFile
    BY <1>1, <1>2, <1>3, <2>1, <2>3 DEF Back, Shared, Own, Followed
  <2> QED BY <2>2, <2>3
<1>5. /\ Spaces!Becomes(p, g, IF k.file = NoFile THEN "own" ELSE k.file, k.shared, Zero)
      /\ UNCHANGED [f \in File |-> Image(f)]
  BY <1>1, <1>3, <1>4, SameData, OnePageSeen
<1> QED BY <1>1, <1>5 DEF Spaces!Map, Image

\* munmap, and a page of the loop of setPagesInvalid.
LEMMA ClearRefines ==
  ASSUME Plain, IInv, NEW p \in Proc, NEW g \in Page, SetPage(p, g, NoEntry),
         p \in alive, UNCHANGED <<data, cache, alive>>
  PROVE  Spaces!Unmap(p, g)
<1>1. NoEntry.type = "none" /\ NoEntry.ram = NoRam /\ ~NoEntry.shared
  BY DEF NoEntry
<1>2. /\ mmu'[p][g] = NoEntry
      /\ \A q \in Proc, h \in Page : q # p \/ h # g => mmu'[q][h] = mmu[q][h]
  BY DEF IInv, TypeOK, SetPage
<1>3. Back(p, g)' = "none" /\ Shared(p, g)' = FALSE /\ Own(p, g)' = Zero
  BY <1>1, <1>2 DEF Back, Shared, Own, Followed
<1>4. /\ Spaces!Becomes(p, g, "none", FALSE, Zero)
      /\ UNCHANGED [f \in File |-> Image(f)]
  BY <1>2, <1>3, SameData, OnePageSeen
<1> QED BY <1>4 DEF Spaces!Unmap, Image

\* A page that is written becomes the process's own.
LEMMA OwnWritten ==
  ASSUME NEW p \in Proc, NEW g \in Page, NEW v, p \in alive, UNCHANGED alive,
         Back(p, g) # "none", Shared(p, g) = FALSE,
         Spaces!Becomes(p, g, "own", FALSE, v), UNCHANGED [f \in File |-> Image(f)]
  PROVE  Spaces!Write(p, g, v)
<1> DEFINE B == [q \in Proc |-> [h \in Page |-> Back(q, h)]]
           S == [q \in Proc |-> [h \in Page |-> Shared(q, h)]]
<1>1. B[p][g] # "none" /\ S[p][g] = FALSE
  OBVIOUS
<1>2. /\ UNCHANGED alive /\ p \in alive
      /\ IF S[p][g] /\ B[p][g] \in File THEN FALSE
         ELSE Spaces!Becomes(p, g, "own", S[p][g], v)
  BY <1>1 DEF Spaces!Becomes
<1> QED BY <1>1, <1>2 DEF Spaces!Write, Spaces!Becomes, Image, Back, Shared, Own

\* A store into the host page of an entry that is shared or its only holder.
LEMMA WriteInPlace ==
  ASSUME Plain, IInv, FilesInv, NEW p \in Proc, NEW g \in Page, NEW v \in Value,
         p \in alive, mmu[p][g].ram \in Ram,
         ~mmu[p][g].shared => Holders(mmu[p][g].ram) = {<<"entry", p, g>>},
         data' = [data EXCEPT ![mmu[p][g].ram] = v], UNCHANGED <<mmu, cache, alive>>
  PROVE  Spaces!Write(p, g, v)
<1> DEFINE e == mmu[p][g]
<1> USE GuestMemoryAssumption
<1>0. TypeOK /\ Shape /\ FileEntries /\ CacheApart /\ Cached = File /\ OnlyFilesShared
  BY DEF IInv, FilesInv, Plain
<1>1. e.type \notin {"none", "file"} /\ e \in Entry /\ FileEntry(e)
  BY <1>0 DEF Shape, TypeOK, FileEntries
<1>2. /\ data'[e.ram] = v
      /\ \A r \in Ram : r # e.ram => data'[r] = data[r]
  BY <1>0 DEF TypeOK
<1>3. \A q \in Proc, h \in Page : mmu[q][h] \in Entry /\ FileEntry(mmu[q][h])
  BY <1>0 DEF TypeOK, FileEntries
<1>4. \A f \in File : cache[f] \in Ram \cup {NoRam}
  BY <1>0 DEF TypeOK
<1>5. CASE e.shared
  <2>1. e.file \in File /\ cache[e.file] = e.ram
    BY <1>0, <1>1, <1>5 DEF FileEntry, Entry
  <2>2. Followed(p, g) /\ Back(p, g) = e.file /\ Shared(p, g)
    BY <1>1, <1>5, <2>1 DEF Followed, Back, Shared
  <2>3. Image(e.file)' = v
    BY <1>2, <2>1 DEF Image
  <2>4. ASSUME NEW f \in File, f # e.file PROVE Image(f)' = Image(f)
    <3>1. cache[f] # e.ram
      BY <1>0, <2>1, <2>4 DEF CacheApart
    <3> QED BY <1>2, <1>4, <2>4, <3>1 DEF Image
  <2>5. ASSUME NEW q \in Proc, NEW h \in Page PROVE SamePage(q, h)
    <3>1. ~Followed(q, h) => mmu[q][h].ram # e.ram
      BY <1>0, <1>3, <2>1 DEF Followed, FileEntry
    <3>2. mmu[q][h].ram \in Ram \cup {NoRam}
      BY <1>3 DEF Entry
    <3>3. Followed(q, h)' = Followed(q, h)
      BY DEF Followed
    <3> QED BY <1>2, <3>1, <3>2, <3>3 DEF SamePage, Back, Shared, Own
  <2>6. [f \in File |-> Image(f)]' = [[f \in File |-> Image(f)] EXCEPT ![Back(p, g)] = v]
    BY <2>1, <2>2, <2>3, <2>4
  <2>7. /\ UNCHANGED [q \in Proc |-> [h \in Page |-> Back(q, h)]]
        /\ UNCHANGED [q \in Proc |-> [h \in Page |-> Shared(q, h)]]
        /\ UNCHANGED [q \in Proc |-> [h \in Page |-> Own(q, h)]]
    BY <2>5 DEF SamePage
  <2>8. Back(p, g) \in File /\ Back(p, g) # "none" /\ Shared(p, g)
    BY <2>1, <2>2, SpacesAssumption
  <2> QED BY <2>6, <2>7, <2>8 DEF Spaces!Write, Image, Back, Shared, Own
<1>6. CASE ~e.shared
  <2>1. /\ \A q \in Proc, h \in Page : q # p \/ h # g => mmu[q][h].ram # e.ram
        /\ \A f \in Cached : cache[f] # e.ram
    <3>1. \A y \in Slots : Points(y) = e.ram => y = <<"entry", p, g>>
      BY <1>6 DEF Holders
    <3>2. ASSUME NEW q \in Proc, NEW h \in Page, q # p \/ h # g PROVE mmu[q][h].ram # e.ram
      <4>1. /\ <<"entry", q, h>> \in Slots /\ Points(<<"entry", q, h>>) = mmu[q][h].ram
            /\ <<"entry", q, h>> # <<"entry", p, g>>
        BY <3>2, PointsAt
      <4> QED BY <3>1, <4>1
    <3>3. ASSUME NEW f \in Cached PROVE cache[f] # e.ram
      BY <3>1, PointsAt
    <3> HIDE DEF e
    <3> QED BY <3>2, <3>3
  <2>2. ~Followed(p, g)
    BY <1>0, <1>1, <2>1 DEF Followed, Entry
  <2>3. Back(p, g) = "own" /\ Shared(p, g) = FALSE
    BY <1>1, <1>6, <2>2 DEF Back, Shared
  <2>4. Back(p, g)' = "own" /\ Shared(p, g)' = FALSE /\ Own(p, g)' = v
    <3>1. ~Followed(p, g)'
      BY <2>2 DEF Followed
    <3> QED BY <1>1, <1>2, <1>6, <3>1 DEF Back, Shared, Own
  <2>5. ASSUME NEW f \in File PROVE Image(f)' = Image(f)
    BY <1>0, <1>2, <1>4, <2>1, <2>5 DEF Image
  <2>6. ASSUME NEW q \in Proc, NEW h \in Page, q # p \/ h # g PROVE SamePage(q, h)
    <3>1. mmu[q][h].ram \in Ram \cup {NoRam} /\ mmu[q][h].ram # e.ram
      BY <1>3, <2>1, <2>6 DEF Entry
    <3>2. Followed(q, h)' = Followed(q, h)
      BY DEF Followed
    <3> QED BY <1>2, <3>1, <3>2 DEF SamePage, Back, Shared, Own
  <2>7. Spaces!Becomes(p, g, "own", FALSE, v)
    BY <2>4, <2>6, OnePageBecomes
  <2>8. UNCHANGED [f \in File |-> Image(f)]
    BY <2>5
  <2> QED BY <2>3, <2>7, <2>8, SpacesAssumption, OwnWritten
<1> QED BY <1>5, <1>6

\* A store that moves a private page to a new host page.
LEMMA WriteNewPage ==
  ASSUME Plain, IInv, NEW p \in Proc, NEW g \in Page, NEW v, NEW r \in Unused, NEW n,
         p \in alive, mmu[p][g].ram \in Ram, ~mmu[p][g].shared,
         mmu' = [mmu EXCEPT ![p][g] = n], n.ram = r, n.file = mmu[p][g].file,
         n.shared = mmu[p][g].shared, n.type \notin {"none", "file"},
         data' = [data EXCEPT ![r] = v], UNCHANGED <<cache, alive>>
  PROVE  Spaces!Write(p, g, v)
<1> USE GuestMemoryAssumption
<1>0. TypeOK /\ Shape /\ Cached = File
  BY DEF IInv, Plain
<1>1. mmu[p][g] \in Entry /\ mmu[p][g].type # "none"
  BY <1>0 DEF TypeOK, Shape
<1>2. /\ mmu'[p][g] = n
      /\ \A q \in Proc, h \in Page : q # p \/ h # g => mmu'[q][h] = mmu[q][h]
  BY <1>0 DEF TypeOK
<1>3. HeldData /\ data'[r] = v /\ r \in Ram /\ \A f \in Cached : cache[f] # r
  BY UnusedData, UnusedUnheld DEF IInv
<1>4. Back(p, g) # "none" /\ Shared(p, g) = FALSE
  <2>1. Followed(p, g) => mmu[p][g].file \in File
    BY <1>1 DEF Followed, Entry
  <2> QED BY <1>1, <2>1, SpacesAssumption DEF Back, Shared
<1>5. Back(p, g)' = "own" /\ Shared(p, g)' = FALSE /\ Own(p, g)' = v
  <2>1. ~Followed(p, g)'
    <3>1. mmu[p][g].file \in File \cup {NoFile}
      BY <1>1 DEF Entry
    <3> QED BY <1>0, <1>2, <1>3, <3>1 DEF Followed
  <2> QED BY <1>2, <1>3, <2>1 DEF Back, Shared, Own
<1>6. Spaces!Becomes(p, g, "own", FALSE, v) /\ UNCHANGED [f \in File |-> Image(f)]
  BY <1>2, <1>3, <1>5, OnePageSeen
<1> QED BY <1>4, <1>6, OwnWritten

LEMMA StoreRefines ==
  ASSUME Plain, IInv, FilesInv, NEW p \in Proc, NEW w \in Worker, Begun(p, w),
         Store(p, w)
  PROVE  \E g \in Page, v \in Value : Spaces!Write(p, g, v)
<1> DEFINE a == at[p][w]
<1>0. TypeOK /\ Control
  BY DEF IInv
<1>1. /\ pc[p][w] = "store" /\ data' = [data EXCEPT ![a.ram] = a.val]
      /\ UNCHANGED <<mmu, cache, alive>>
  BY DEF Store, objects
<1>2. a.page \in Page /\ a.ram \in Ram /\ p \in alive
  BY <1>0, <1>1 DEF Control
<1>3. a.val \in Value
  BY <1>0 DEF TypeOK, Access
<1>4. mmu[p][a.page].ram = a.ram /\ (~mmu[p][a.page].shared => mmu[p][a.page].type = "ram")
  BY <1>1 DEF Begun
<1>5. ~mmu[p][a.page].shared => Holders(mmu[p][a.page].ram) = {<<"entry", p, a.page>>}
  <2>1. ASSUME ~mmu[p][a.page].shared PROVE Sole(<<"entry", p, a.page>>)
    <3>1. Private(p, a.page)
      BY <1>2, <1>4, <2>1, GuestMemoryAssumption DEF Private, Plain
    <3> QED BY <1>2, <3>1 DEF Sole
  <2> QED BY <1>2, <2>1, PointsAt DEF IInv, SoleAlone
<1> HIDE DEF a
<1>6. PICK g \in Page, v \in Value : g = a.page /\ v = a.val
  BY <1>2, <1>3
<1>7. /\ mmu[p][g].ram \in Ram /\ p \in alive
      /\ ~mmu[p][g].shared => Holders(mmu[p][g].ram) = {<<"entry", p, g>>}
      /\ data' = [data EXCEPT ![mmu[p][g].ram] = v] /\ UNCHANGED <<mmu, cache, alive>>
  BY <1>1, <1>2, <1>4, <1>5, <1>6
<1>8. Spaces!Write(p, g, v)
  BY <1>7, WriteInPlace
<1> QED BY <1>6, <1>8

LEMMA CopyRefines ==
  ASSUME Plain, IInv, FilesInv, NEW p \in Proc, NEW w \in Worker, Copy(p, w)
  PROVE  \E g \in Page, v \in Value : Spaces!Write(p, g, v)
<1> DEFINE g == at[p][w].page  e == mmu[p][g]  v == data[e.ram]
<1>0. TypeOK /\ Control /\ Shape /\ Found(p, w)
  BY DEF IInv, FilesInv
<1>1. pc[p][w] = "copy" /\ UNCHANGED <<cache, alive>>
  BY DEF Copy, objects
<1>2. g \in Page /\ e.type = "cow" /\ p \in alive /\ ~e.shared
  BY <1>0, <1>1 DEF Control, Found
<1>3. e.ram \in Ram /\ e \in Entry
  BY <1>0, <1>2 DEF Shape, TypeOK
<1>4. v \in Value
  BY <1>0, <1>3 DEF TypeOK
<1>5. PICK r \in Unused : SetNewPage(p, g, [e EXCEPT !.type = "ram"], r, v, 0)
  BY DEF Copy
<1> DEFINE m == [[e EXCEPT !.type = "ram"] EXCEPT !.ram = r]
<1>6. /\ m.ram = r /\ m.file = e.file /\ m.shared = e.shared /\ m.type = "ram"
  BY <1>3, Retyped
<1>7. mmu' = [mmu EXCEPT ![p][g] = m] /\ data' = [data EXCEPT ![r] = v]
  BY <1>5 DEF SetNewPage
<1>8. PICK h \in Page, u \in Value : h = g /\ u = v
  BY <1>2, <1>4
<1> HIDE DEF m, v
<1>9. /\ mmu[p][h].ram \in Ram /\ ~mmu[p][h].shared /\ p \in alive
      /\ mmu' = [mmu EXCEPT ![p][h] = m] /\ data' = [data EXCEPT ![r] = u]
      /\ m.ram = r /\ m.file = mmu[p][h].file /\ m.shared = mmu[p][h].shared
      /\ m.type \notin {"none", "file"} /\ UNCHANGED <<cache, alive>>
  BY <1>1, <1>2, <1>3, <1>6, <1>7, <1>8
<1>10. Spaces!Write(p, h, u)
  BY <1>9, WriteNewPage
<1> QED BY <1>8, <1>10

LEMMA WriteCodeRefines ==
  ASSUME Plain, IInv, FilesInv, NEW p \in Proc, NEW w \in Worker, WriteCode(p, w)
  PROVE  \/ \E g \in Page, v \in Value : Spaces!Write(p, g, v)
         \/ UNCHANGED Spaces!vars
<1> DEFINE g == at[p][w].page  e == mmu[p][g]  v == at[p][w].val
<1>0. TypeOK /\ Control /\ Shape /\ Bounded
  BY DEF IInv
<1>1. pc[p][w] = "code" /\ UNCHANGED <<cache, alive>>
  BY DEF WriteCode, objects
<1>2. g \in Page /\ e.type = "code" /\ p \in alive
  BY <1>0, <1>1 DEF Control
<1>3. e.ram \in Ram /\ e \in Entry
  BY <1>0, <1>2 DEF Shape, TypeOK
<1>4. v \in Value
  BY <1>0 DEF TypeOK, Access
<1>5. CASE UNCHANGED <<mmu, data>>
  <2>1. \A q \in Proc, h \in Page : AlikePage(q, h)
    BY <1>5 DEF AlikePage
  <2> QED BY <1>1, <1>5, <2>1, SameData, AlikeUnseen
<1>8. PICK h \in Page, u \in Value : h = g /\ u = v
  BY <1>2, <1>4
<1>6. CASE MustCopy(e) /\ \E r \in Unused : SetNewPage(p, g, e, r, v, 1)
  <2>1. PICK r \in Unused : SetNewPage(p, g, e, r, v, 1)
    BY <1>6
  <2> DEFINE m == [e EXCEPT !.ram = r]
  <2>2. m.ram = r /\ m.file = e.file /\ m.shared = e.shared /\ m.type = "code"
    BY <1>2, <1>3, Retyped
  <2>3. mmu' = [mmu EXCEPT ![p][g] = m] /\ data' = [data EXCEPT ![r] = v] /\ ~e.shared
    BY <1>6, <2>1 DEF SetNewPage, MustCopy
  <2> HIDE DEF m, v
  <2>4. /\ mmu[p][h].ram \in Ram /\ ~mmu[p][h].shared /\ p \in alive
        /\ mmu' = [mmu EXCEPT ![p][h] = m] /\ data' = [data EXCEPT ![r] = u]
        /\ m.ram = r /\ m.file = mmu[p][h].file /\ m.shared = mmu[p][h].shared
        /\ m.type \notin {"none", "file"} /\ UNCHANGED <<cache, alive>>
    BY <1>1, <1>2, <1>3, <1>8, <2>2, <2>3
  <2>5. Spaces!Write(p, h, u)
    BY <2>4, WriteNewPage
  <2> QED BY <1>8, <2>5
<1>7. CASE ~MustCopy(e) /\ data' = [data EXCEPT ![e.ram] = v] /\ UNCHANGED mmu
  <2>1. ~e.shared => Holders(e.ram) = {<<"entry", p, g>>}
    <3> SUFFICES ASSUME ~e.shared PROVE Holders(e.ram) = {<<"entry", p, g>>}
      OBVIOUS
    <3> DEFINE H == Holders(e.ram)  x == <<"entry", p, g>>
    <3>1. count[e.ram] <= 1 /\ count[e.ram] \in Nat
      BY <1>0, <1>3, <1>7 DEF MustCopy, TypeOK
    <3>2. IsFiniteSet(H) /\ Cardinality(H) <= 1 /\ x \in H
      <4>1. IsFiniteSet(H) /\ Cardinality(H) <= count[e.ram] /\ Cardinality(H) \in Nat
        BY <1>0, <1>3, FS_CardinalityType DEF Bounded
      <4>2. x \in H
        BY <1>2, PointsAt DEF Holders
      <4> HIDE DEF H
      <4> QED BY <3>1, <4>1, <4>2
    <3> HIDE DEF H, x
    <3>3. Cardinality(H \ {x}) = Cardinality(H) - 1 /\ IsFiniteSet(H \ {x})
      BY <3>2, FS_RemoveElement
    <3>4. Cardinality(H \ {x}) = 0
      BY <3>2, <3>3, FS_CardinalityType
    <3>5. H \ {x} = {}
      BY <3>3, <3>4, FS_EmptySet
    <3> QED BY <3>2, <3>5 DEF H, x
  <2> HIDE DEF v
  <2>2. /\ mmu[p][h].ram \in Ram /\ p \in alive
        /\ ~mmu[p][h].shared => Holders(mmu[p][h].ram) = {<<"entry", p, h>>}
        /\ data' = [data EXCEPT ![mmu[p][h].ram] = u] /\ UNCHANGED <<mmu, cache, alive>>
    BY <1>1, <1>2, <1>3, <1>7, <1>8, <2>1
  <2>3. Spaces!Write(p, h, u)
    BY <2>2, WriteInPlace
  <2> QED BY <1>8, <2>3
<1> QED BY <1>5, <1>6, <1>7 DEF WriteCode, host

-----------------------------------------------------------------------------
(* What programs do not see: faults, copies on write, code pages, waits and *)
(* the child of a fork before it runs.                                      *)

LEMMA QuietUnseen ==
  ASSUME Plain, IInv, UNCHANGED <<mmu, data, cache, alive>>
  PROVE  UNCHANGED Spaces!vars
<1>1. \A p \in Proc, g \in Page : AlikePage(p, g)
  BY DEF AlikePage
<1> QED BY <1>1, SameData, AlikeUnseen

LEMMA AlikeEntryUnseen ==
  ASSUME Plain, IInv, UNCHANGED <<data, cache, alive>>, NEW p \in Proc, NEW g \in Page,
         NEW n, mmu' = [mmu EXCEPT ![p][g] = n],
         n.ram = mmu[p][g].ram, n.file = mmu[p][g].file, n.shared = mmu[p][g].shared,
         (n.type = "none") = (mmu[p][g].type = "none"),
         (n.type = "file") = (mmu[p][g].type = "file")
  PROVE  UNCHANGED Spaces!vars
<1>1. /\ mmu'[p][g] = n
      /\ \A q \in Proc, h \in Page : q # p \/ h # g => mmu'[q][h] = mmu[q][h]
  BY OneEntry DEF IInv
<1>2. \A q \in Proc, h \in Page : AlikePage(q, h)
  BY <1>1 DEF AlikePage
<1> QED BY <1>2, SameData, AlikeUnseen

LEMMA ProtectUnseen ==
  ASSUME Plain, IInv, NEW p \in Proc, NEW w \in Worker, NEW g \in Page, Protect(p, w, g)
  PROVE  UNCHANGED Spaces!vars
<1> DEFINE e == mmu[p][g]
<1>1. PICK b \in BOOLEAN : mmu' = [mmu EXCEPT ![p][g].write = b]
  BY DEF Protect
<1> DEFINE n == [e EXCEPT !.write = b]
<1>2. mmu' = [mmu EXCEPT ![p][g] = n] /\ UNCHANGED <<data, cache, alive>>
  BY <1>1 DEF Protect, host, objects
<1>3. e \in Entry
  BY DEF IInv, TypeOK
<1>4. n.type = e.type /\ n.ram = e.ram /\ n.file = e.file /\ n.shared = e.shared
  BY <1>3, Retyped
<1> HIDE DEF n
<1> QED BY <1>2, <1>4, AlikeEntryUnseen

LEMMA ExecuteUnseen ==
  ASSUME Plain, IInv, NEW p \in Proc, NEW w \in Worker, NEW g \in Page, Execute(p, w, g)
  PROVE  UNCHANGED Spaces!vars
<1> DEFINE e == mmu[p][g]  n == [e EXCEPT !.type = "code"]
<1>1. /\ mmu' = [mmu EXCEPT ![p][g] = n] /\ UNCHANGED <<data, cache, alive>>
      /\ e.type \in {"ram", "cow"}
  BY DEF Execute, host, objects
<1>2. e \in Entry
  BY DEF IInv, TypeOK
<1>3. n.type = "code" /\ n.ram = e.ram /\ n.file = e.file /\ n.shared = e.shared
  BY <1>2, Retyped
<1> HIDE DEF n
<1> QED BY <1>1, <1>3, AlikeEntryUnseen

LEMMA WaitUnseen ==
  ASSUME Plain, IInv, NEW p \in Proc, NEW w \in Worker, NEW g \in Page, Wait(p, w, g)
  PROVE  UNCHANGED Spaces!vars
<1> DEFINE e == mmu[p][g]  n == [e EXCEPT !.futex = TRUE]
<1>1. mmu' = [mmu EXCEPT ![p][g] = n] /\ UNCHANGED <<data, cache, alive>>
  BY DEF Wait, host, objects
<1>2. e \in Entry
  BY DEF IInv, TypeOK
<1>3. n.type = e.type /\ n.ram = e.ram /\ n.file = e.file /\ n.shared = e.shared
  BY <1>2, Retyped
<1> HIDE DEF n
<1> QED BY <1>1, <1>3, AlikeEntryUnseen

LEMMA TakeOverUnseen ==
  ASSUME Plain, IInv, NEW p \in Proc, NEW w \in Worker, TakeOver(p, w)
  PROVE  UNCHANGED Spaces!vars
<1>1. pc[p][w] = "take" /\ UNCHANGED <<data, cache, alive>>
  BY DEF TakeOver, host, objects
<1>2. PICK g \in Page : g = at[p][w].page
  BY <1>1 DEF IInv, Control
<1> DEFINE e == mmu[p][g]  n == [e EXCEPT !.type = "ram"]
<1>3. mmu' = [mmu EXCEPT ![p][g] = n] /\ e.type = "cow" /\ e \in Entry
  BY <1>1, <1>2 DEF TakeOver, IInv, Control, TypeOK
<1>4. n.type = "ram" /\ n.ram = e.ram /\ n.file = e.file /\ n.shared = e.shared
  BY <1>3, Retyped
<1> HIDE DEF n
<1> QED BY <1>1, <1>3, <1>4, AlikeEntryUnseen

\* A new host page for a page that had none, filled with zero.
LEMMA ResolveUnseen ==
  ASSUME Plain, IInv, FilesInv, NEW p \in Proc, NEW w \in Worker, Begun(p, w),
         Resolve(p, w)
  PROVE  UNCHANGED Spaces!vars
<1> USE GuestMemoryAssumption
<1>1. pc[p][w] = "rw" /\ UNCHANGED <<cache, alive>>
  BY DEF Resolve, objects
<1>2. CASE UNCHANGED <<mmu, host>>
  BY <1>1, <1>2, QuietUnseen DEF host
<1>3. PICK g \in Page : g = at[p][w].page
  BY <1>1 DEF IInv, Control
<1> DEFINE e == mmu[p][g]
<1>4. CASE /\ e.ram = NoRam /\ e.type # "file"
           /\ \E r \in Unused : SetNewPage(p, g, [e EXCEPT !.type = "ram"], r, Zero, 0)
  <2>1. PICK r \in Unused : SetNewPage(p, g, [e EXCEPT !.type = "ram"], r, Zero, 0)
    BY <1>4
  <2> DEFINE n == [[e EXCEPT !.type = "ram"] EXCEPT !.ram = r]
  <2>2. mmu' = [mmu EXCEPT ![p][g] = n] /\ data' = [data EXCEPT ![r] = Zero]
    BY <2>1 DEF SetNewPage
  <2>3. e \in Entry /\ e.type # "none" /\ FileEntry(e)
    BY <1>1, <1>3 DEF IInv, TypeOK, Begun, FilesInv, FileEntries
  <2>4. n.type = "ram" /\ n.ram = r /\ n.file = e.file /\ n.shared = e.shared
    BY <2>3, Retyped
  <2> HIDE DEF n
  <2>5. /\ mmu'[p][g] = n
        /\ \A q \in Proc, h \in Page : q # p \/ h # g => mmu'[q][h] = mmu[q][h]
    BY <2>2 DEF IInv, TypeOK
  <2>6. HeldData /\ data'[r] = Zero
    BY <2>2, UnusedData
  <2>7. e.file = NoFile
    BY <1>4, <2>3 DEF FileEntry, Entry
  <2>8. SamePage(p, g)
    <3>1. ~Followed(p, g) /\ ~Followed(p, g)'
      BY <2>4, <2>5, <2>7 DEF Followed
    <3>2. Back(p, g)' = Back(p, g)
      BY <1>1, <2>3, <2>4, <2>5, <3>1 DEF Back
    <3>3. Shared(p, g)' = Shared(p, g)
      BY <1>1, <2>4, <2>5 DEF Shared
    <3>4. Own(p, g) = Zero /\ Own(p, g)' = Zero
      BY <1>4, <2>4, <2>5, <2>6, <3>1 DEF Own
    <3> QED BY <3>2, <3>3, <3>4 DEF SamePage
  <2>9. ASSUME NEW q \in Proc, NEW h \in Page PROVE SamePage(q, h)
    <3>1. CASE q = p /\ h = g
      BY <2>8, <3>1
    <3>2. CASE q # p \/ h # g
      <4>1. AlikePage(q, h)
        BY <2>5, <3>2 DEF AlikePage
      <4> QED BY <1>1, <2>6, <4>1, AlikeSame
    <3> QED BY <3>1, <3>2
  <2> QED BY <1>1, <2>6, <2>9, ImageSame, Unseen
<1> QED BY <1>2, <1>3, <1>4 DEF Resolve

\* A page of a file that gets the host page of the file.
LEMMA StillFollowed ==
  ASSUME NEW p \in Proc, NEW g \in Page, UNCHANGED alive,
         Followed(p, g), Followed(p, g)',
         mmu[p][g].type # "none", mmu'[p][g].type # "none",
         mmu'[p][g].file = mmu[p][g].file, mmu'[p][g].shared = mmu[p][g].shared
  PROVE  SamePage(p, g)
BY DEF SamePage, Back, Shared, Own

LEMMA LookFileUnseen ==
  ASSUME Plain, IInv, FilesInv, NEW p \in Proc, NEW w \in Worker, LookFile(p, w)
  PROVE  UNCHANGED Spaces!vars
<1> USE GuestMemoryAssumption
<1>1. pc[p][w] = "file" /\ UNCHANGED <<cache, alive>>
  BY DEF LookFile, objects
<1>2. PICK g \in Page : g = at[p][w].page
  BY <1>1 DEF IInv, Control
<1> DEFINE e == mmu[p][g]
<1>3. e \in Entry
  BY DEF IInv, TypeOK
<1>4. CASE UNCHANGED <<mmu, host>>
  BY <1>1, <1>4, QuietUnseen DEF host
<1>5. CASE /\ e.type = "file" /\ e.file \in Cached /\ cache[e.file] # NoRam
           /\ SetPage(p, g, [e EXCEPT !.type = "cow", !.ram = cache[e.file]])
           /\ UNCHANGED data
  <2> DEFINE n == [e EXCEPT !.type = "cow", !.ram = cache[e.file]]
  <2>1. mmu' = [mmu EXCEPT ![p][g] = n]
    BY <1>5 DEF SetPage
  <2>2. n.type = "cow" /\ n.ram = cache[e.file] /\ n.file = e.file /\ n.shared = e.shared
    BY <1>3, Retyped
  <2> HIDE DEF n
  <2>3. /\ mmu'[p][g] = n
        /\ \A q \in Proc, h \in Page : q # p \/ h # g => mmu'[q][h] = mmu[q][h]
    BY <2>1 DEF IInv, TypeOK
  <2>4. e.file # NoFile
    BY <1>5
  <2>5. Followed(p, g) /\ Followed(p, g)'
    BY <1>1, <1>5, <2>2, <2>3, <2>4 DEF Followed
  <2>6. SamePage(p, g)
    BY <1>1, <1>5, <2>2, <2>3, <2>5, StillFollowed
  <2>7. ASSUME NEW q \in Proc, NEW h \in Page PROVE SamePage(q, h)
    <3>1. CASE q = p /\ h = g
      BY <2>6, <3>1
    <3>2. CASE q # p \/ h # g
      <4>1. AlikePage(q, h)
        BY <2>3, <3>2 DEF AlikePage
      <4> QED BY <1>1, <1>5, <4>1, SameData, AlikeSame
    <3> QED BY <3>1, <3>2
  <2> QED BY <1>1, <1>5, <2>7, SameData, ImageSame, Unseen
<1>6. CASE /\ UNCHANGED mmu
           /\ \E r \in Unused : data' = [data EXCEPT ![r] = Disk[e.file]]
  <2>1. PICK r \in Unused : data' = [data EXCEPT ![r] = Disk[e.file]]
    BY <1>6
  <2>2. HeldData
    BY <2>1, UnusedData
  <2>3. \A q \in Proc, h \in Page : AlikePage(q, h)
    BY <1>6 DEF AlikePage
  <2> QED BY <1>1, <2>2, <2>3, AlikeUnseen
<1> QED BY <1>2, <1>4, <1>5, <1>6 DEF LookFile

\* The page of the disk becomes the image of the file.
LEMMA FillFileUnseen ==
  ASSUME Plain, IInv, FilesInv, NEW p \in Proc, NEW w \in Worker, Begun(p, w),
         FillFile(p, w)
  PROVE  UNCHANGED Spaces!vars
<1> USE GuestMemoryAssumption
<1>1. pc[p][w] = "fill" /\ UNCHANGED <<data, alive>>
  BY DEF FillFile
<1>2. PICK g \in Page : g = at[p][w].page
  BY <1>1 DEF IInv, Control
<1> DEFINE e == mmu[p][g]  r == at[p][w].ram
           n == [e EXCEPT !.type = IF e.file \in Cached THEN "cow" ELSE "ram", !.ram = r]
<1>3. e \in Entry /\ e.type = "file" /\ e.file \in Cached /\ r \in Ram
  BY <1>1, <1>2 DEF IInv, TypeOK, Control, Shape, Plain
<1>4. mmu' = [mmu EXCEPT ![p][g] = n] /\ cache' = [cache EXCEPT ![e.file] = r]
  BY <1>2, <1>3 DEF FillFile
<1>5. n.type = "cow" /\ n.ram = r /\ n.file = e.file /\ n.shared = e.shared
  BY <1>3, Retyped
<1> HIDE DEF n
<1>6. /\ mmu'[p][g] = n
      /\ \A q \in Proc, h \in Page : q # p \/ h # g => mmu'[q][h] = mmu[q][h]
  BY <1>4 DEF IInv, TypeOK
<1>7. /\ cache'[e.file] = r
      /\ \A f \in Cached : f # e.file => cache'[f] = cache[f]
  BY <1>3, <1>4 DEF IInv, TypeOK
<1>8. cache[e.file] = NoRam /\ data[r] = Disk[e.file]
  BY <1>1, <1>2, <1>3 DEF FilesInv, Found, Begun
<1>9. \A q \in Proc, h \in Page : mmu[q][h].ram # r
  BY <1>1, FillerAlone
<1>10. SamePage(p, g)
  <2>1. Followed(p, g) /\ Followed(p, g)'
    BY <1>3, <1>5, <1>6, <1>7 DEF Followed
  <2> QED BY <1>1, <1>3, <1>5, <1>6, <2>1, StillFollowed
<1>11. ASSUME NEW q \in Proc, NEW h \in Page, q # p \/ h # g PROVE SamePage(q, h)
  <2> DEFINE z == mmu[q][h]
  <2>1. z \in Entry /\ FileEntry(z) /\ mmu'[q][h] = z
    BY <1>6, <1>11 DEF IInv, TypeOK, FilesInv, FileEntries
  <2>2. ASSUME z.file # NoFile, z.type # "file"
        PROVE  (z.ram = cache'[z.file]) = (z.ram = cache[z.file])
    <3>1. z.ram \in Ram /\ z.file \in Cached
      BY <2>1, <2>2 DEF FileEntry, Entry, Plain
    <3>2. CASE z.file = e.file
      BY <1>7, <1>8, <1>9, <3>1, <3>2
    <3>3. CASE z.file # e.file
      BY <1>7, <3>1, <3>3
    <3> QED BY <3>2, <3>3
  <2>3. Followed(q, h)' = Followed(q, h)
    BY <2>1, <2>2 DEF Followed
  <2> QED BY <1>1, <2>1, <2>3 DEF SamePage, Back, Shared, Own
<1>12. ASSUME NEW f \in File PROVE Image(f)' = Image(f)
  <2>1. f \in Cached
    BY DEF Plain
  <2>2. CASE f = e.file
    BY <1>1, <1>3, <1>7, <1>8, <2>2 DEF Image
  <2>3. CASE f # e.file
    BY <1>1, <1>7, <2>1, <2>3 DEF Image
  <2> QED BY <2>2, <2>3
<1>13. \A q \in Proc, h \in Page : SamePage(q, h)
  BY <1>10, <1>11
<1> QED BY <1>1, <1>12, <1>13, Unseen

\* The child of a fork is not yet there.
LEMMA ForkPageUnseen ==
  ASSUME Plain, IInv, NEW p \in Proc, NEW w \in Worker, ForkPage(p, w)
  PROVE  UNCHANGED Spaces!vars
<1>1. PICK g \in Page, q \in Proc : ForkStep(p, w, g, q)
  BY ForkPageDoes
<1>2. HeldData /\ UNCHANGED <<alive, cache>>
  <2>1. \/ data' = data
        \/ \E r \in Unused : \E v : data' = [data EXCEPT ![r] = v]
    BY <1>1 DEF ForkStep
  <2> QED BY <1>1, <2>1, SameData, UnusedData DEF ForkStep, objects
<1>3. ASSUME NEW z \in Proc, NEW h \in Page, z \in alive PROVE AlikePage(z, h)
  <2>1. z # q
    BY <1>1, <1>3 DEF ForkStep
  <2>2. CASE z = p /\ h = g
    BY <1>1, <2>2 DEF ForkStep, Alike, AlikePage
  <2>3. CASE z # p \/ h # g
    <3>1. mmu'[z][h] = mmu[z][h]
      BY <1>1, <2>1, <2>3 DEF ForkStep
    <3> QED BY <3>1 DEF AlikePage
  <2> QED BY <2>2, <2>3
<1> QED BY <1>2, <1>3, AlikeUnseen

-----------------------------------------------------------------------------
(* fork and exit as programs see them.                                      *)

\* The pages of the child that stop following the file of the parent.
Taken(p, q) == {g \in Page : Back(p, g) \in File /\ ~Followed(q, g)}

LEMMA ForkedPage ==
  ASSUME Plain, IInv, FilesInv, NEW p \in alive, NEW q \in Proc \ alive,
         UNCHANGED <<mmu, data, cache>>, alive' = alive \cup {q},
         NEW g \in Page, CopyOf(mmu[p][g], mmu[q][g])
  PROVE  /\ Back(q, g)' = IF g \in Taken(p, q) THEN "own" ELSE Back(p, g)
         /\ Shared(q, g)' = Shared(p, g)
         /\ Own(q, g)' = IF g \in Taken(p, q) THEN Image(Back(p, g)) ELSE Own(p, g)
         /\ g \in Taken(p, q) => Back(p, g) \in File /\ Shared(p, g) = FALSE
<1> USE GuestMemoryAssumption
<1> DEFINE e == mmu[p][g]  c == mmu[q][g]
<1>1. p \in Proc /\ e \in Entry /\ c \in Entry
  BY DEF IInv, TypeOK
<1>2. /\ mmu'[q][g] = c /\ q \in alive' /\ Followed(q, g)' = Followed(q, g)
      /\ Back(q, g)' = IF c.type = "none" THEN "none"
                       ELSE IF Followed(q, g) THEN c.file ELSE "own"
      /\ Shared(q, g)' = c.shared
      /\ Own(q, g)' = IF c.ram = NoRam \/ Followed(q, g) THEN Zero ELSE data[c.ram]
  <2>1. mmu'[q][g] = c /\ q \in alive' /\ Followed(q, g)' = Followed(q, g)
    BY DEF Followed
  <2> QED BY <1>1, <2>1 DEF Back, Shared, Own, Entry
<1>3. /\ Back(p, g) = IF e.type = "none" THEN "none"
                      ELSE IF Followed(p, g) THEN e.file ELSE "own"
      /\ Shared(p, g) = e.shared
      /\ Own(p, g) = IF e.ram = NoRam \/ Followed(p, g) THEN Zero ELSE data[e.ram]
  BY <1>1 DEF Back, Shared, Own, Entry
<1>4. c.file = e.file /\ c.shared = e.shared
  BY DEF CopyOf
<1>5. Back(p, g) \in File => Followed(p, g) /\ Back(p, g) = e.file
  BY <1>3, SpacesAssumption
<1>6. CASE /\ c.ram = e.ram
           /\ (c.type = "file") = (e.type = "file") /\ (c.type = "none") = (e.type = "none")
  <2>1. Followed(q, g) = Followed(p, g)
    BY <1>4, <1>6 DEF Followed
  <2>2. g \notin Taken(p, q)
    BY <1>5, <2>1 DEF Taken
  <2> HIDE DEF e, c
  <2> QED BY <1>2, <1>3, <1>4, <1>6, <2>1, <2>2
<1>7. CASE /\ ~e.shared /\ c.type = "ram" /\ c.ram \in Ram /\ e.ram \in Ram
           /\ e.type \notin {"none", "file"} /\ data[c.ram] = data[e.ram]
  <2>1. \A f \in Cached : cache[f] # c.ram
    <3> DEFINE x == <<"entry", q, g>>
    <3>1. x \in Slots /\ Points(x) = c.ram
      BY PointsAt
    <3>2. Sole(x)
      BY <1>4, <1>7 DEF Sole, Private, Plain
    <3>3. \A y \in Slots : Points(y) = c.ram => y = x
      BY <3>1, <3>2 DEF IInv, SoleAlone, Holders
    <3> QED BY <3>3, PointsAt
  <2>2. ~Followed(q, g)
    BY <1>1, <1>7, <2>1 DEF Followed, Entry, Plain
  <2>3. CASE Followed(p, g)
    <3>1. e.file \in File /\ cache[e.file] = e.ram
      BY <1>1, <1>7, <2>3 DEF Followed, Entry
    <3>2. Back(p, g) = e.file
      BY <1>3, <1>7, <2>3
    <3>3. g \in Taken(p, q) /\ Back(p, g) \in File
      BY <2>2, <3>1, <3>2 DEF Taken
    <3>4. Image(Back(p, g)) = data[e.ram]
      BY <1>7, <3>1, <3>2 DEF Image
    <3> HIDE DEF e, c
    <3> QED BY <1>2, <1>3, <1>4, <1>7, <2>2, <3>3, <3>4
  <2>4. CASE ~Followed(p, g)
    <3>1. g \notin Taken(p, q)
      BY <1>5, <2>4 DEF Taken
    <3> HIDE DEF e, c
    <3> QED BY <1>2, <1>3, <1>4, <1>7, <2>2, <2>4, <3>1
  <2> QED BY <2>3, <2>4
<1> QED BY <1>6, <1>7 DEF CopyOf

\* A process comes or goes, and nobody else sees it.
LEMMA OthersSame ==
  ASSUME NEW p \in Proc, UNCHANGED <<mmu, data, cache>>,
         \A q \in Proc \ {p} : (q \in alive') = (q \in alive)
  PROVE  /\ \A q \in Proc \ {p}, g \in Page : SamePage(q, g)
         /\ \A f \in File : Image(f)' = Image(f)
<1>1. ASSUME NEW q \in Proc \ {p}, NEW g \in Page PROVE SamePage(q, g)
  <2>1. Followed(q, g)' = Followed(q, g)
    BY DEF Followed
  <2> QED BY <2>1 DEF SamePage, Back, Shared, Own
<1>2. \A f \in File : Image(f)' = Image(f)
  BY DEF Image
<1> QED BY <1>1, <1>2

LEMMA ForkedRefines ==
  ASSUME Plain, IInv, FilesInv, NEW p \in Proc, NEW w \in Worker, Begun(p, w),
         Forked(p, w)
  PROVE  \E q \in Proc, taken \in SUBSET Page : Spaces!Fork(p, q, taken)
<1>1. /\ pc[p][w] = "fork" /\ at[p][w].page \notin Page
      /\ UNCHANGED <<mmu, data, cache>> /\ alive' = alive \cup {at[p][w].child}
  BY DEF Forked, host, objects
<1>2. PICK q \in Proc, t \in SUBSET Page : q = at[p][w].child /\ t = Taken(p, q)
  BY <1>1 DEF IInv, Control, Taken
<1>3. p \in alive /\ q \notin alive /\ alive' = alive \cup {q}
  BY <1>1, <1>2 DEF IInv, Control
<1>4. \A g \in Page : CopyOf(mmu[p][g], mmu[q][g])
  <2>1. at[p][w].page \in 1 .. LastPage + 1
    BY DEF IInv, TypeOK, Access
  <2>2. \A g \in Page : g < at[p][w].page
    BY <1>1, <2>1, GuestMemoryAssumption DEF Page
  <2> QED BY <1>1, <1>2, <2>2 DEF Begun
<1>5. ASSUME NEW g \in Page
      PROVE  /\ Back(q, g)' = IF g \in t THEN "own" ELSE Back(p, g)
             /\ Shared(q, g)' = Shared(p, g)
             /\ Own(q, g)' = IF g \in t THEN Image(Back(p, g)) ELSE Own(p, g)
             /\ g \in t => Back(p, g) \in File /\ Shared(p, g) = FALSE
  BY <1>1, <1>2, <1>3, <1>4, ForkedPage
<1>6. /\ \A z \in Proc \ {q}, g \in Page : SamePage(z, g)
      /\ \A f \in File : Image(f)' = Image(f)
  BY <1>1, <1>3, OthersSame
<1> DEFINE I == [f \in File |-> Image(f)]
           B == [z \in Proc |-> [h \in Page |-> Back(z, h)]]
           S == [z \in Proc |-> [h \in Page |-> Shared(z, h)]]
           V == [z \in Proc |-> [h \in Page |-> Own(z, h)]]
<1>7. B' = [B EXCEPT ![q] = [g \in Page |-> IF g \in t THEN "own" ELSE B[p][g]]]
  BY <1>5, <1>6 DEF SamePage
<1>8. S' = [S EXCEPT ![q] = S[p]]
  BY <1>5, <1>6 DEF SamePage
<1>9. V' = [V EXCEPT ![q] =
              [g \in Page |-> IF g \in t THEN I[B[p][g]] ELSE V[p][g]]]
  BY <1>5, <1>6 DEF SamePage
<1>10. \A g \in t : B[p][g] \in File /\ ~S[p][g]
  BY <1>5
<1>11. I' = I
  BY <1>6
<1>12. Spaces!Fork(p, q, t)
  BY <1>3, <1>7, <1>8, <1>9, <1>10, <1>11 DEF Spaces!Fork, Image, Back, Shared, Own
<1> QED BY <1>2, <1>12

\* A process that leaves has no pages any more; one that runs exec stays.
LEMMA LeftRefines ==
  ASSUME Plain, IInv, NEW p \in Proc, NEW w \in Worker, Begun(p, w), Left(p, w)
  PROVE  Spaces!Exit(p) \/ UNCHANGED Spaces!vars
<1>1. /\ pc[p][w] \in {"exit", "exec"} /\ at[p][w].page \notin Page
      /\ UNCHANGED <<mmu, data, cache>>
      /\ alive' = IF pc[p][w] = "exit" THEN alive \ {p} ELSE alive
  BY DEF Left, host, objects
<1>2. CASE pc[p][w] = "exec"
  BY <1>1, <1>2, QuietUnseen
<1>3. CASE pc[p][w] = "exit"
  <2>1. p \in alive /\ alive' = alive \ {p}
    BY <1>1, <1>3 DEF IInv, Control
  <2>2. \A g \in Page : mmu[p][g] = NoEntry
    <3>1. at[p][w].page \in 1 .. LastPage + 1
      BY DEF IInv, TypeOK, Access
    <3>2. \A g \in Page : g < at[p][w].page
      BY <1>1, <3>1, GuestMemoryAssumption DEF Page
    <3> QED BY <1>1, <3>2 DEF Begun
  <2>3. NoEntry.type = "none" /\ NoEntry.ram = NoRam /\ NoEntry.shared = FALSE
    BY DEF NoEntry
  <2>4. ASSUME NEW g \in Page PROVE SamePage(p, g) /\ Back(p, g) = "none"
    BY <1>1, <2>1, <2>2, <2>3 DEF SamePage, Back, Shared, Own
  <2>5. /\ \A z \in Proc \ {p}, g \in Page : SamePage(z, g)
        /\ \A f \in File : Image(f)' = Image(f)
    BY <1>1, <2>1, OthersSame
  <2> DEFINE B == [z \in Proc |-> [h \in Page |-> Back(z, h)]]
             S == [z \in Proc |-> [h \in Page |-> Shared(z, h)]]
             V == [z \in Proc |-> [h \in Page |-> Own(z, h)]]
  <2>6. B' = B /\ \A g \in Page : B[p][g] = "none"
    BY <2>4, <2>5 DEF SamePage
  <2>7. S' = S /\ V' = V
    BY <2>4, <2>5 DEF SamePage
  <2>8. UNCHANGED [f \in File |-> Image(f)]
    BY <2>5
  <2> QED BY <2>1, <2>6, <2>7, <2>8 DEF Spaces!Exit, Image, Back, Shared, Own
<1> QED BY <1>1, <1>2, <1>3

-----------------------------------------------------------------------------
(* The refinement.                                                          *)

LEMMA SpacesStart ==
  ASSUME Plain, Init
  PROVE  Spaces!Init
<1> USE GuestMemoryAssumption
<1>0. NoEntry.type = "none" /\ NoEntry.ram = NoRam /\ NoEntry.shared = FALSE
  BY DEF NoEntry
<1>1. \A p \in Proc, g \in Page : mmu[p][g] = NoEntry
  BY DEF Init
<1>2. [f \in File |-> Image(f)] = Disk
  <2>1. \A f \in File : Image(f) = Disk[f]
    BY DEF Init, Image, Plain
  <2> QED BY <2>1
<1>3. [p \in Proc |-> [g \in Page |-> Back(p, g)]] = [p \in Proc |-> [g \in Page |-> "none"]]
  <2>1. \A p \in Proc, g \in Page : Back(p, g) = "none"
    BY <1>0, <1>1 DEF Back
  <2> QED BY <2>1
<1>4. [p \in Proc |-> [g \in Page |-> Shared(p, g)]] = [p \in Proc |-> [g \in Page |-> FALSE]]
  <2>1. \A p \in Proc, g \in Page : Shared(p, g) = FALSE
    BY <1>0, <1>1 DEF Shared
  <2> QED BY <2>1
<1>5. [p \in Proc |-> [g \in Page |-> Own(p, g)]] = [p \in Proc |-> [g \in Page |-> Zero]]
  <2>1. \A p \in Proc, g \in Page : Own(p, g) = Zero
    BY <1>0, <1>1 DEF Own
  <2> QED BY <2>1
<1>6. alive = {First}
  BY DEF Init
<1> QED BY <1>2, <1>3, <1>4, <1>5, <1>6 DEF Spaces!Init, Image, Back, Shared, Own

LEMMA CallsRefine ==
  ASSUME Plain, IInv, NEW p \in Proc, NEW w \in Worker, Calls(p, w)
  PROVE  Spaces!Next \/ UNCHANGED Spaces!vars
<1>1. ASSUME NEW g \in Page, NEW k \in MapKinds, Map(p, w, g, k)
      PROVE  Spaces!Next
  BY <1>1, MapRefines DEF Spaces!Next
<1>2. ASSUME NEW g \in Page, Unmap(p, w, g) PROVE Spaces!Next
  <2>1. p \in alive /\ SetPage(p, g, NoEntry) /\ UNCHANGED <<data, cache, alive>>
    BY <1>2 DEF Unmap, Runs, objects
  <2>2. Spaces!Unmap(p, g)
    BY <2>1, ClearRefines
  <2> QED BY <2>2 DEF Spaces!Next
<1>3. ASSUME NEW g \in Page, Protect(p, w, g) \/ Execute(p, w, g) \/ Wait(p, w, g)
      PROVE  UNCHANGED Spaces!vars
  BY <1>3, ProtectUnseen, ExecuteUnseen, WaitUnseen
<1>4. ASSUME NEW s \in Segment PROVE FALSE
  BY DEF Plain
<1>5. ASSUME \/ \E g \in Page, b \in BOOLEAN, v \in Value : Begin(p, w, g, b, v)
             \/ \E q \in Proc : Fork(p, w, q)
             \/ \E where \in {"exit", "exec"} : Leave(p, w, where)
      PROVE  UNCHANGED Spaces!vars
  <2>1. UNCHANGED <<mmu, data, cache, alive>>
    BY <1>5 DEF Begin, Fork, Leave, host, objects
  <2> QED BY <2>1, QuietUnseen
<1> QED BY <1>1, <1>2, <1>3, <1>4, <1>5 DEF Calls

LEMMA HandlersRefine ==
  ASSUME Plain, IInv, FilesInv, BegunInv, NEW p \in Proc, NEW w \in Worker,
         Handlers(p, w)
  PROVE  Spaces!Next \/ UNCHANGED Spaces!vars
<1>0. Begun(p, w)
  BY DEF BegunInv
<1>1. CASE LookCow(p, w) \/ Wake(p, w)
  <2>1. UNCHANGED <<mmu, data, cache, alive>>
    BY <1>1 DEF LookCow, Wake, host, objects
  <2> QED BY <2>1, QuietUnseen
<1>2. CASE \/ Resolve(p, w) \/ TakeOver(p, w) \/ LookFile(p, w) \/ FillFile(p, w)
           \/ ForkPage(p, w)
  BY <1>0, <1>2, ResolveUnseen, TakeOverUnseen, LookFileUnseen, FillFileUnseen,
     ForkPageUnseen
<1>3. CASE Store(p, w) \/ Copy(p, w) \/ WriteCode(p, w)
  <2>1. \/ \E g \in Page, v \in Value : Spaces!Write(p, g, v)
        \/ UNCHANGED Spaces!vars
    BY <1>0, <1>3, StoreRefines, CopyRefines, WriteCodeRefines
  <2> QED BY <2>1 DEF Spaces!Next
<1>4. CASE Forked(p, w)
  <2>1. \E q \in Proc, taken \in SUBSET Page : Spaces!Fork(p, q, taken)
    BY <1>0, <1>4, ForkedRefines
  <2> QED BY <2>1 DEF Spaces!Next
<1>5. CASE LeavePage(p, w)
  <2>1. PICK g \in Page : g = at[p][w].page
    BY <1>5 DEF LeavePage
  <2>2. p \in alive /\ SetPage(p, g, NoEntry) /\ UNCHANGED <<data, cache, alive>>
    BY <1>5, <2>1 DEF LeavePage, objects, IInv, Control
  <2>3. Spaces!Unmap(p, g)
    BY <2>2, ClearRefines
  <2> QED BY <2>3 DEF Spaces!Next
<1>6. CASE Left(p, w)
  <2>1. Spaces!Exit(p) \/ UNCHANGED Spaces!vars
    BY <1>0, <1>6, LeftRefines
  <2> QED BY <2>1 DEF Spaces!Next
<1> QED BY <1>1, <1>2, <1>3, <1>4, <1>5, <1>6 DEF Handlers

LEMMA SpacesStep ==
  ASSUME Plain, IInv, FilesInv, BegunInv, [Next]_vars
  PROVE  [Spaces!Next]_Spaces!vars
<1>1. CASE UNCHANGED vars
  <2>1. UNCHANGED <<mmu, data, cache, alive>>
    BY <1>1 DEF vars
  <2> QED BY <2>1, QuietUnseen
<1>2. CASE Next
  BY <1>2, CallsRefine, HandlersRefine DEF Next
<1> QED BY <1>1, <1>2

\* On one host thread, for programs whose mappings the code keeps up, page
\* tables, faults, copies on write, code pages, the cache of file pages and
\* the counts of host pages are not to be seen: mmap, munmap, fork, stores and
\* exit do to programs what AddressSpaces promises.
THEOREM SpacesImplemented ==
  ASSUME Plain
  PROVE  Spec => ImplementsSpaces
<1>1. Init => Spaces!Init
  BY SpacesStart
<1>2. IInv /\ FilesInv /\ BegunInv /\ [Next]_vars => [Spaces!Next]_Spaces!vars
  BY SpacesStep
<1>3. Spec => []FilesInv /\ []BegunInv
  BY FilesInvariance, BegunInvariance DEF Plain
<1> QED BY <1>1, <1>2, <1>3, Invariance, PTL DEF Spec, ImplementsSpaces, Spaces!Spec
=============================================================================
