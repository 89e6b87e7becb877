----------------------------- MODULE GuestMemory -----------------------------
(***************************************************************************)
(* The memory of 32-bit guests: the page table of a process               *)
(* (source/emulation/softmmu/soft_mmu.cpp, kmemory_soft.cpp), the kinds of *)
(* pages that fill themselves in on demand (soft_rw_page.cpp,              *)
(* soft_copy_on_write_page.cpp, soft_file_map.cpp, soft_code_page.cpp),    *)
(* the reference counts of host pages (soft_ram.cpp), and mmap, munmap,    *)
(* mprotect, fork, exec and exit (source/kernel/kmemory.cpp).              *)
(*                                                                         *)
(* Page table entries point at host pages that entries of other processes, *)
(* the cache of file pages and System V segments may point at too.  A      *)
(* handler that changes entries holds KMemory::mutex of its process; the   *)
(* store that follows it, and the store that needs no handler, hold no     *)
(* lock.  Contents are one value per page.                                 *)
(***************************************************************************)
EXTENDS Integers, FiniteSets

CONSTANTS
  Proc, First,    \* processes, and the one that runs at the start
  Worker,         \* threads of each process
  LastPage,       \* guest pages of a process are 1 .. LastPage
  Ram,            \* host pages; bounds what may be allocated at a time
  Value, Zero,    \* contents of a page; a new page holds Zero
  File, Disk,     \* pages of files, and what the disk holds of each
  Cached,         \* those inside MappedFileCache::data
  Segment,        \* pages of System V segments
  MapKinds,       \* what programs map: [file, shared, write]
  Executed,       \* guest pages whose code may be run
  Waits,          \* guest pages that may hold a futex
  Protected,      \* guest pages whose protection may change
  BlindWrites,    \* a private file page may be written before it is read
  MultiThreaded,  \* BOXEDWINE_MULTI_THREADED: one host thread per guest thread
  NoRam, NoFile, NoWorker, NoProc

Page == 1 .. LastPage
Kind == [file : File \cup {NoFile}, shared : BOOLEAN, write : BOOLEAN]

ASSUME GuestMemoryAssumption ==
  /\ First \in Proc
  /\ LastPage \in Nat
  /\ Zero \in Value
  /\ Disk \in [File -> Value]
  /\ Cached \subseteq File
  /\ MapKinds \subseteq Kind
  /\ Executed \subseteq Page /\ Waits \subseteq Page /\ Protected \subseteq Page
  /\ BlindWrites \in BOOLEAN /\ MultiThreaded \in BOOLEAN
  /\ MultiThreaded => Waits = {}  \* PAGE_FUTEX is or-ed in without the lock
  /\ NoRam \notin Ram /\ NoFile \notin File
  /\ NoWorker \notin Worker /\ NoProc \notin Proc

VARIABLES
  mmu,      \* KMemoryData::mmu of each process
  count,    \* RamInfo::refCount of each host page
  data,     \* the contents of each host page
  cache,    \* MappedFileCache::data
  segment,  \* SHM::pages
  alive,    \* the processes
  lock,     \* holder of KMemory::mutex of each process
  pc,       \* where each thread is: in the guest, or in which handler
  at        \* its access: page, value to write, host page, child of a fork

vars == <<mmu, count, data, cache, segment, alive, lock, pc, at>>
host == <<count, data>>
objects == <<cache, segment>>

Entry == [type : {"none", "ram", "cow", "file", "code"}, ram : Ram \cup {NoRam},
          file : File \cup {NoFile}, shared : BOOLEAN, write : BOOLEAN,
          futex : BOOLEAN]
NoEntry == [type |-> "none", ram |-> NoRam, file |-> NoFile, shared |-> FALSE,
            write |-> FALSE, futex |-> FALSE]
Access == [page : 1 .. LastPage + 1, write : BOOLEAN, val : Value,
           ram : Ram \cup {NoRam}, child : Proc \cup {NoProc}]
Accessing(g, b, v, r, q) ==
  [page |-> g, write |-> b, val |-> v, ram |-> r, child |-> q]
NoAccess == Accessing(1, FALSE, Zero, NoRam, NoProc)

Init ==
  /\ mmu = [p \in Proc |-> [g \in Page |-> NoEntry]]
  /\ count = [r \in Ram |-> 0]
  /\ data = [r \in Ram |-> Zero]
  /\ cache = [f \in Cached |-> NoRam]
  /\ segment = [s \in Segment |-> NoRam]
  /\ alive = {First}
  /\ lock = [p \in Proc |-> NoWorker]
  /\ pc = [p \in Proc |-> [w \in Worker |-> "user"]]
  /\ at = [p \in Proc |-> [w \in Worker |-> NoAccess]]

-----------------------------------------------------------------------------
(* Host pages and entries.  setPage retains what the entry points at next   *)
(* and releases what it pointed at.                                         *)

ReleasedTwice(c, r) == IF r = NoRam THEN c ELSE [c EXCEPT ![r] = @ - 2]  \* mutant
Released(c, r) == IF r = NoRam THEN c ELSE [c EXCEPT ![r] = @ - 1]
Retained(c, r) == IF r = NoRam THEN c ELSE [c EXCEPT ![r] = @ + 1]

Unused == {r \in Ram : count[r] = 0}

SetPageUncounted(p, g, e) ==  \* mutant: does not retain
  /\ mmu' = [mmu EXCEPT ![p][g] = e]
  /\ count' = Released(count, mmu[p][g].ram)
\* The entry of page g of p becomes e, its counts those of setPage.
SetPage(p, g, e) ==
  /\ mmu' = [mmu EXCEPT ![p][g] = e]
  /\ count' = Retained(Released(count, mmu[p][g].ram), e.ram)

\* It becomes e on a new host page holding v; the reference of ramPageAlloc
\* has become that of the entry, or is left behind (extra).
SetNewPage(p, g, e, r, v, extra) ==
  /\ mmu' = [mmu EXCEPT ![p][g] = [e EXCEPT !.ram = r]]
  /\ count' = [Released(count, mmu[p][g].ram) EXCEPT ![r] = 1 + extra]
  /\ data' = [data EXCEPT ![r] = v]

\* A handler needs the mutex of the process, or one of its threads holds it.
Free(p) == lock[p] = NoWorker

\* A thread in the guest.  On one host thread, no other is inside a handler.
Runs(p, w) ==
  /\ p \in alive /\ pc[p][w] = "user"
  /\ \A u \in Worker : pc[p][u] \notin {"exit", "exec"}
  /\ MultiThreaded \/ \A q \in Proc : \A u \in Worker : pc[q][u] \in {"user", "wait"}

\* Programs do not unmap or replace a page another of their threads uses.
Quiet(p, g) == \A w \in Worker : pc[p][w] # "user" => at[p][w].page # g

GoTo(p, w, where) == pc' = [pc EXCEPT ![p][w] = where]
Holding(p, w, r) == at' = [at EXCEPT ![p][w].ram = r]
Return(p, w) ==
  /\ GoTo(p, w, "user")
  /\ at' = [at EXCEPT ![p][w] = NoAccess]

-----------------------------------------------------------------------------
(* mmap at a fixed address, munmap, mprotect, shmget and shmat, the decoder. *)

Map(p, w, g, k) ==
  /\ Runs(p, w) /\ Free(p) /\ Quiet(p, g)
  /\ SetPage(p, g, [NoEntry EXCEPT
       !.type = IF k.file = NoFile THEN "ram" ELSE "file",
       !.file = k.file, !.shared = k.shared, !.write = k.write])
  /\ UNCHANGED <<data, objects, alive, lock, pc, at>>

Unmap(p, w, g) ==
  /\ Runs(p, w) /\ Free(p) /\ Quiet(p, g)
  /\ mmu[p][g].type # "none"
  /\ SetPage(p, g, NoEntry)
  /\ UNCHANGED <<data, objects, alive, lock, pc, at>>

Protect(p, w, g) ==
  /\ Runs(p, w) /\ Free(p)
  /\ g \in Protected /\ mmu[p][g].type # "none"
  /\ \E b \in BOOLEAN \ {mmu[p][g].write} :
       mmu' = [mmu EXCEPT ![p][g].write = b]
  /\ UNCHANGED <<host, objects, alive, lock, pc, at>>

NewSegment(p, w, s) ==
  /\ Runs(p, w)
  /\ segment[s] = NoRam
  /\ \E r \in Unused :
       /\ segment' = [segment EXCEPT ![s] = r]
       /\ count' = [count EXCEPT ![r] = 1]
       /\ data' = [data EXCEPT ![r] = Zero]
  /\ UNCHANGED <<mmu, cache, alive, lock, pc, at>>

\* mapPages is given no PAGE_SHARED.
Attach(p, w, g, s) ==
  /\ Runs(p, w) /\ Free(p) /\ Quiet(p, g)
  /\ segment[s] # NoRam
  /\ \E b \in BOOLEAN :
       SetPage(p, g, [NoEntry EXCEPT !.type = "ram", !.ram = segment[s], !.write = b])
  /\ UNCHANGED <<data, objects, alive, lock, pc, at>>

\* The first block of a page is decoded; its bytes have been read by then.
Execute(p, w, g) ==
  /\ Runs(p, w) /\ Free(p)
  /\ g \in Executed
  /\ mmu[p][g].type \in {"ram", "cow"} /\ mmu[p][g].ram # NoRam
  /\ mmu' = [mmu EXCEPT ![p][g].type = "code"]
  /\ UNCHANGED <<host, objects, alive, lock, pc, at>>

-----------------------------------------------------------------------------
(* Access to memory.  The type of the page picks the handler; a page whose   *)
(* canWriteRam is set is written without one, as in state "rw".              *)

Handler(e, write) ==
  CASE e.type = "file" -> "file"
    [] e.type = "cow" /\ write -> "cow"
    [] e.type = "code" /\ write -> "code"
    [] OTHER -> "rw"

\* Reads that fill nothing in change nothing and are left out.
Begin(p, w, g, write, v) ==
  LET e == mmu[p][g] IN
  /\ Runs(p, w)
  /\ e.type # "none"
  /\ ~write => v = Zero /\ e.ram = NoRam
  /\ write /\ e.type = "file" /\ ~e.shared => BlindWrites
  /\ GoTo(p, w, Handler(e, write))
  /\ at' = [at EXCEPT ![p][w] = Accessing(g, write, v, NoRam, NoProc)]
  /\ UNCHANGED <<mmu, host, objects, alive, lock>>

\* RWPage: the address of the word, on a new host page if there is none.
Resolve(p, w) ==
  LET g == at[p][w].page
      e == mmu[p][g]
  IN
  /\ pc[p][w] = "rw"
  /\ \/ /\ at[p][w].write /\ ~e.write
        /\ Return(p, w)
        /\ UNCHANGED <<mmu, host>>
     \/ /\ at[p][w].write => e.write
        /\ e.ram = NoRam /\ e.type # "file" /\ Free(p)
        /\ \E r \in Unused : SetNewPage(p, g, [e EXCEPT !.type = "ram"], r, Zero, 0)
        /\ UNCHANGED <<pc, at>>
     \/ /\ ~at[p][w].write /\ e.ram # NoRam
        /\ Return(p, w)
        /\ UNCHANGED <<mmu, host>>
     \/ /\ at[p][w].write /\ e.write /\ e.ram # NoRam
        /\ GoTo(p, w, "store")
        /\ Holding(p, w, e.ram)
        /\ UNCHANGED <<mmu, host>>
  /\ UNCHANGED <<objects, alive, lock>>

Store(p, w) ==
  /\ pc[p][w] = "store"
  /\ data' = [data EXCEPT ![at[p][w].ram] = at[p][w].val]
  /\ Return(p, w)
  /\ UNCHANGED <<mmu, count, objects, alive, lock>>

MustCopyEven(e) == count[e.ram] > 1               \* mutant: shared pages too
MustCopyLate(e) == ~e.shared /\ count[e.ram] > 2  \* mutant: off by one
MustCopy(e) == ~e.shared /\ count[e.ram] > 1

\* CopyOnWritePage::onDemmand: looks at the count, then copies or takes over.
LookCow(p, w) ==
  LET e == mmu[p][at[p][w].page] IN
  /\ pc[p][w] = "cow" /\ Free(p)
  /\ IF e.type # "cow"
     THEN GoTo(p, w, "rw") /\ UNCHANGED lock
     ELSE /\ lock' = [lock EXCEPT ![p] = w]
          /\ GoTo(p, w, IF MustCopy(e) THEN "copy" ELSE "take")
  /\ UNCHANGED <<mmu, host, objects, alive, at>>

Copy(p, w) ==
  LET g == at[p][w].page
      e == mmu[p][g]
  IN
  /\ pc[p][w] = "copy"
  /\ \E r \in Unused : SetNewPage(p, g, [e EXCEPT !.type = "ram"], r, data[e.ram], 0)
  /\ lock' = [lock EXCEPT ![p] = NoWorker]
  /\ GoTo(p, w, "rw")
  /\ UNCHANGED <<objects, alive, at>>

TakeOver(p, w) ==
  /\ pc[p][w] = "take"
  /\ mmu' = [mmu EXCEPT ![p][at[p][w].page].type = "ram"]
  /\ lock' = [lock EXCEPT ![p] = NoWorker]
  /\ GoTo(p, w, "rw")
  /\ UNCHANGED <<host, objects, alive, at>>

\* FilePage::onDemmand: takes the cached page, or reads one from the disk.
LookFile(p, w) ==
  LET g == at[p][w].page
      e == mmu[p][g]
  IN
  /\ pc[p][w] = "file" /\ Free(p)
  /\ \/ /\ e.type # "file"
        /\ GoTo(p, w, "rw")
        /\ UNCHANGED <<mmu, host, lock, at>>
     \/ /\ e.type = "file" /\ e.file \in Cached /\ cache[e.file] # NoRam
        /\ SetPage(p, g, [e EXCEPT !.type = "cow", !.ram = cache[e.file]])
        /\ GoTo(p, w, "rw")
        /\ UNCHANGED <<data, lock, at>>
     \/ /\ e.type = "file" /\ (e.file \in Cached => cache[e.file] = NoRam)
        /\ \E r \in Unused :
             /\ count' = [count EXCEPT ![r] = 1]
             /\ data' = [data EXCEPT ![r] = Disk[e.file]]
             /\ Holding(p, w, r)
        /\ lock' = [lock EXCEPT ![p] = w]
        /\ GoTo(p, w, "fill")
        /\ UNCHANGED mmu
  /\ UNCHANGED <<objects, alive>>

\* The page goes to the cache, over whatever another process put there since.
FillFile(p, w) ==
  LET g == at[p][w].page
      e == mmu[p][g]
      r == at[p][w].ram
  IN
  /\ pc[p][w] = "fill"
  /\ mmu' = [mmu EXCEPT ![p][g] =
       [e EXCEPT !.type = IF e.file \in Cached THEN "cow" ELSE "ram", !.ram = r]]
  /\ IF e.file \in Cached
     THEN /\ cache' = [cache EXCEPT ![e.file] = r]
          /\ count' = [count EXCEPT ![r] = @ + 1]
     ELSE UNCHANGED <<cache, count>>
  /\ lock' = [lock EXCEPT ![p] = NoWorker]
  /\ GoTo(p, w, "rw")
  /\ Holding(p, w, NoRam)
  /\ UNCHANGED <<data, segment, alive>>

\* CodePage::writeb.  onDemmand keeps the reference of ramPageAlloc beside
\* the one setPage takes.
WriteCode(p, w) ==
  LET g == at[p][w].page
      e == mmu[p][g]
      v == at[p][w].val
  IN
  /\ pc[p][w] = "code" /\ Free(p)
  /\ IF ~e.write \/ data[e.ram] = v
     THEN UNCHANGED <<mmu, host>>
     ELSE IF MustCopy(e)
     THEN \E r \in Unused : SetNewPage(p, g, e, r, v, 1)
     ELSE data' = [data EXCEPT ![e.ram] = v] /\ UNCHANGED <<mmu, count>>
  /\ Return(p, w)
  /\ UNCHANGED <<objects, alive, lock>>

\* A futex of another process may be reached through this page: its word is
\* known by its host address from now on.
Wait(p, w, g) ==
  /\ Runs(p, w) /\ Free(p)
  /\ g \in Waits /\ mmu[p][g].ram # NoRam
  /\ mmu' = [mmu EXCEPT ![p][g].futex = TRUE]
  /\ GoTo(p, w, "wait")
  /\ at' = [at EXCEPT ![p][w] = Accessing(g, FALSE, Zero, mmu[p][g].ram, NoProc)]
  /\ UNCHANGED <<host, objects, alive, lock>>

Wake(p, w) ==
  /\ pc[p][w] = "wait"
  /\ Return(p, w)
  /\ UNCHANGED <<mmu, host, objects, alive, lock>>

-----------------------------------------------------------------------------
(* fork, and the release of all pages by exit and exec.                     *)

Fork(p, w, q) ==
  /\ Runs(p, w) /\ Free(p)
  /\ q \notin alive /\ \A g \in Page : mmu[q][g] = NoEntry
  /\ \A p2 \in Proc : \A u \in Worker : at[p2][u].child # q
  /\ lock' = [lock EXCEPT ![p] = w]
  /\ GoTo(p, w, "fork")
  /\ at' = [at EXCEPT ![p][w] = Accessing(1, FALSE, Zero, NoRam, q)]
  /\ UNCHANGED <<mmu, host, objects, alive>>

CopiesNever(e) == FALSE  \* mutant
CopiesAtOnce(e) == e.ram # NoRam /\ ~e.shared /\ e.futex

\* One page of the loop of KMemory::clone.
ForkPage(p, w) ==
  LET g == at[p][w].page
      e == mmu[p][g]
      q == at[p][w].child
  IN
  /\ pc[p][w] = "fork" /\ g \in Page
  /\ \/ /\ CopiesAtOnce(e)
        /\ \E r \in Unused :
             SetNewPage(q, g, [e EXCEPT !.type = "ram"], r, data[e.ram], 0)
     \/ /\ ~CopiesAtOnce(e)
        /\ IF e.ram = NoRam \/ e.type = "code"
           THEN mmu' = [mmu EXCEPT ![q][g] = e]
           ELSE mmu' = [mmu EXCEPT ![q][g] = [e EXCEPT !.type = "cow"],
                                   ![p][g].type = "cow"]
        /\ count' = Retained(count, e.ram)
        /\ UNCHANGED data
  /\ at' = [at EXCEPT ![p][w].page = @ + 1]
  /\ UNCHANGED <<objects, alive, lock, pc>>

Forked(p, w) ==
  /\ pc[p][w] = "fork" /\ at[p][w].page \notin Page
  /\ alive' = alive \cup {at[p][w].child}
  /\ lock' = [lock EXCEPT ![p] = NoWorker]
  /\ Return(p, w)
  /\ UNCHANGED <<mmu, host, objects>>

\* By the last thread of a process.
Leave(p, w, where) ==
  /\ Runs(p, w) /\ \A u \in Worker : pc[p][u] = "user"
  /\ lock' = [lock EXCEPT ![p] = w]
  /\ GoTo(p, w, where)
  /\ UNCHANGED <<mmu, host, objects, alive, at>>

\* One page of the loop of setPagesInvalid.
LeavePage(p, w) ==
  LET g == at[p][w].page IN
  /\ pc[p][w] \in {"exit", "exec"} /\ g \in Page
  /\ SetPage(p, g, NoEntry)
  /\ at' = [at EXCEPT ![p][w].page = @ + 1]
  /\ UNCHANGED <<data, objects, alive, lock, pc>>

Left(p, w) ==
  /\ pc[p][w] \in {"exit", "exec"} /\ at[p][w].page \notin Page
  /\ alive' = IF pc[p][w] = "exit" THEN alive \ {p} ELSE alive
  /\ lock' = [lock EXCEPT ![p] = NoWorker]
  /\ Return(p, w)
  /\ UNCHANGED <<mmu, host, objects>>

-----------------------------------------------------------------------------
Calls(p, w) ==
  \/ \E g \in Page :
       \/ \E k \in MapKinds : Map(p, w, g, k)
       \/ Unmap(p, w, g) \/ Protect(p, w, g) \/ Execute(p, w, g) \/ Wait(p, w, g)
       \/ \E s \in Segment : Attach(p, w, g, s)
       \/ \E b \in BOOLEAN, v \in Value : Begin(p, w, g, b, v)
  \/ \E s \in Segment : NewSegment(p, w, s)
  \/ \E q \in Proc : Fork(p, w, q)
  \/ \E where \in {"exit", "exec"} : Leave(p, w, where)

Handlers(p, w) ==
  \/ Resolve(p, w) \/ Store(p, w)
  \/ LookCow(p, w) \/ Copy(p, w) \/ TakeOver(p, w)
  \/ LookFile(p, w) \/ FillFile(p, w)
  \/ WriteCode(p, w) \/ Wake(p, w)
  \/ ForkPage(p, w) \/ Forked(p, w) \/ LeavePage(p, w) \/ Left(p, w)

Next == \E p \in Proc, w \in Worker : Calls(p, w) \/ Handlers(p, w)

Spec == Init /\ [][Next]_vars

-----------------------------------------------------------------------------
(* Properties.                                                              *)

TypeOK ==
  /\ mmu \in [Proc -> [Page -> Entry]]
  /\ count \in [Ram -> Nat] /\ data \in [Ram -> Value]
  /\ cache \in [Cached -> Ram \cup {NoRam}]
  /\ segment \in [Segment -> Ram \cup {NoRam}]
  /\ alive \subseteq Proc
  /\ lock \in [Proc -> Worker \cup {NoWorker}]
  /\ pc \in [Proc -> [Worker -> {"user", "rw", "store", "cow", "copy", "take", "file",
                                 "fill", "code", "wait", "fork", "exit", "exec"}]]
  /\ at \in [Proc -> [Worker -> Access]]

\* Whoever may point at a host page, at which one it does, and the converse.
Slots ==
  ({"entry"} \X Proc \X Page) \cup ({"fill"} \X Proc \X Worker)
  \cup ({"cache"} \X Cached) \cup ({"segment"} \X Segment)
Points(x) ==
  CASE x[1] = "entry" -> mmu[x[2]][x[3]].ram
    [] x[1] = "fill" -> IF pc[x[2]][x[3]] = "fill" THEN at[x[2]][x[3]].ram ELSE NoRam
    [] x[1] = "cache" -> cache[x[2]]
    [] x[1] = "segment" -> segment[x[2]]
Holders(r) == {x \in Slots : Points(x) = r}

\* A host page has at least as many references as it has holders: none is
\* freed, and given to someone else, while an entry, the file cache or a
\* segment still points at it (ramPageRelease frees at a count of zero).
NoDangling == \A r \in Ram : Cardinality(Holders(r)) <= count[r]

\* An entry that is written without a handler and is not shared points at a
\* host page of its own: no other process, no file and no other page of its
\* own process sees what is written through it.
PrivateAlone ==
  \A p \in Proc, g \in Page :
    LET e == mmu[p][g] IN
    /\ e.type = "ram" /\ ~e.shared /\ e.ram # NoRam
    /\ \A s \in Segment : segment[s] # e.ram
    => Holders(e.ram) = {<<"entry", p, g>>}

\* All shared mappings of a file page are the page in the cache.
OneFileImage ==
  \A p \in Proc, g \in Page :
    LET e == mmu[p][g] IN
    e.shared /\ e.file \in Cached /\ e.ram # NoRam => e.ram = cache[e.file]

\* While a thread waits on a futex in a page that is its process's own, a
\* fork does not make the page copy-on-write: the next store would move it,
\* and a wake would look for the waiter at the new host address.
ForkKeepsFutex ==
  [][\A p \in Proc, w \in Worker :
       LET g == at[p][w].page IN
       /\ pc[p][w] = "wait" /\ pc'[p][w] = "wait"
       /\ mmu[p][g].type = "ram" /\ mmu[p][g].ram = at[p][w].ram
       => /\ mmu'[p][g].type = "cow" => mmu[p][g].shared
          /\ mmu'[p][g].ram = at[p][w].ram]_vars

\* What programs see of this: private pages are private, shared file pages
\* are the file, and a fork copies the one and shares the other.  Faults,
\* copies on write, code pages and the cache are not to be seen.
Followed(p, g) ==
  LET e == mmu[p][g] IN
  /\ e.file # NoFile
  /\ e.type = "file" \/ e.ram = cache[e.file]

\* A page of a file is told from the other things a page can be.
ASSUME SpacesAssumption == "none" \notin File /\ "own" \notin File

Spaces == INSTANCE AddressSpaces WITH
  image <- [f \in File |-> IF cache[f] = NoRam THEN Disk[f] ELSE data[cache[f]]],
  back <- [p \in Proc |-> [g \in Page |->
            IF p \notin alive \/ mmu[p][g].type = "none" THEN "none"
            ELSE IF Followed(p, g) THEN mmu[p][g].file ELSE "own"]],
  shared <- [p \in Proc |-> [g \in Page |-> p \in alive /\ mmu[p][g].shared]],
  own <- [p \in Proc |-> [g \in Page |->
           IF p \notin alive \/ mmu[p][g].ram = NoRam \/ Followed(p, g) THEN Zero
           ELSE data[mmu[p][g].ram]]]

ImplementsSpaces == Spaces!Spec
=============================================================================
