----------------------------- MODULE CowPaging -----------------------------
(***************************************************************************)
(* Copy-on-write paging of ockernel (src/kernel/src/mm/paging.rs): the     *)
(* page manager's frame bitset, the page-reference counter, free_page,     *)
(* copy_on_write / try_copy_on_write and process teardown, with several    *)
(* CPU threads running the page-fault handler concurrently.                *)
(*                                                                         *)
(* No lock is held across the steps of the fault handler: the counter and  *)
(* the page manager are each locked for one call, and each directory call *)
(* goes through ProcessOrKernelPageDir separately.  Every step below is    *)
(* therefore one such locked call, and threads interleave between them.   *)
(***************************************************************************)
EXTENDS Integers, FiniteSets, FiniteSetsExt

CONSTANTS
    Procs,          \* processes (one page directory each)
    Threads,        \* CPU threads
    TaskOf,         \* [Threads -> Procs]: process of the task each thread runs
    Pages,          \* user virtual pages (numbers)
    Frames,         \* physical frames 0 .. n-1 (bit indices of frame_set)
    HeapSlots,      \* page-size kernel-heap buffers that alloc() can return
    Vals,           \* contents a frame can hold
    InitFrameOf,    \* [Pages -> Frames]: frame shared by all processes after fork
    InitHeapFrame,  \* [HeapSlots -> Frames]: frame backing each heap buffer
    None            \* Option::None

ASSUME TaskOf \in [Threads -> Procs]
ASSUME Range(InitFrameOf) \cap Range(InitHeapFrame) = {}
ASSUME 0 \in Vals

VARIABLES
    dir,       \* dir[p][v]: PageFrame at user page v of process p, or None
    frameSet,  \* PageManager.frame_set: the set of frames whose bit is set
    refs,      \* PAGE_REF_COUNTER: refs[f] = 0 means f is absent from the map
    heap,      \* heap[s]: frame backing heap buffer s in the kernel half
    heapBusy,  \* heap buffers currently handed out by alloc()
    mem,       \* mem[f]: contents of frame f
    alive,     \* processes whose directory has not been dropped
    pc,        \* pc[t]: where thread t is in try_copy_on_write
    fault      \* fault[t]: locals of copy_on_write: addr, page, copied_area

vars == <<dir, frameSet, refs, heap, heapBusy, mem, alive, pc, fault>>

\* PageFrame, reduced to the fields the CoW engine reads or writes.
Entry == [addr : Frames, writable : BOOLEAN, cow : BOOLEAN, ref : BOOLEAN]

FaultLocals == [v : Pages, page : Entry, slot : HeapSlots \cup {None}]

\* PageManager::alloc_frame: the lowest frame whose bit is unset.
AllocFrame(used) == Min(Frames \ used)

\* Fault-injection variant of RemoveReference: never frees at count one.
RemoveReferenceKeepLast(f, st) ==
    IF st.refs[f] >= 1 THEN [st EXCEPT !.refs[f] = @ - 1]
    ELSE [refs |-> [st.refs EXCEPT ![f] = 0], frameSet |-> st.frameSet \ {f}]

\* PageRefCounter::remove_reference on st = [refs, frameSet].  A frame with
\* one reference left, or none in the map, is dropped and its bit cleared.
RemoveReference(f, st) ==
    IF st.refs[f] > 1 THEN [st EXCEPT !.refs[f] = @ - 1]
    ELSE [refs |-> [st.refs EXCEPT ![f] = 0], frameSet |-> st.frameSet \ {f}]

\* free_page (the `shared` branch needs mm/shared.rs and is not modelled).
FreePage(e, st) ==
    IF e.ref THEN RemoveReference(e.addr, st)
    ELSE [st EXCEPT !.frameSet = @ \ {e.addr}]

Counters == [refs |-> refs, frameSet |-> frameSet]

Init ==
    /\ dir = [p \in Procs |-> [v \in Pages |->
                 [addr |-> InitFrameOf[v], writable |-> FALSE,
                  cow |-> TRUE, ref |-> TRUE]]]
    /\ refs = [f \in Frames |->
                 IF f \in Range(InitFrameOf) THEN Cardinality(Procs) ELSE 0]
    /\ frameSet = Range(InitFrameOf) \cup Range(InitHeapFrame)
    /\ heap = InitHeapFrame
    /\ heapBusy = {}
    /\ mem = [f \in Frames |-> 0]
    /\ alive = Procs
    /\ pc = [t \in Threads |-> "user"]
    /\ fault = [t \in Threads |-> None]

Running(t) == /\ pc[t] = "user"
              /\ TaskOf[t] \in alive

\* A user-mode store through a writable mapping (the hardware, not kernel code).
UserWrite(t, v, x) ==
    LET e == dir[TaskOf[t]][v] IN
    /\ Running(t)
    /\ e # None /\ e.writable
    /\ mem' = [mem EXCEPT ![e.addr] = x]
    /\ UNCHANGED <<dir, frameSet, refs, heap, heapBusy, alive, pc, fault>>

\* try_copy_on_write: read the faulting entry once and test the CoW predicate.
Fault(t, v) ==
    LET e == dir[TaskOf[t]][v] IN
    /\ Running(t)
    /\ e # None /\ ~e.writable /\ e.cow /\ e.ref
    /\ pc' = [pc EXCEPT ![t] = "count"]
    /\ fault' = [fault EXCEPT ![t] = [v |-> v, page |-> e, slot |-> None]]
    /\ UNCHANGED <<dir, frameSet, refs, heap, heapBusy, mem, alive>>

\* Fault-injection variant of CheckCount: off by one, treats two sharers as one.
CheckCountOffByOne(t) ==
    /\ pc[t] = "count"
    /\ pc' = [pc EXCEPT ![t] = IF refs[fault[t].page.addr] > 2
                                THEN "copy" ELSE "inplace"]
    /\ UNCHANGED <<dir, frameSet, refs, heap, heapBusy, mem, alive, fault>>

\* copy_on_write: get_references_for(page.addr) > 1 under the counter lock.
CheckCount(t) ==
    /\ pc[t] = "count"
    /\ pc' = [pc EXCEPT ![t] = IF refs[fault[t].page.addr] > 1
                                THEN "copy" ELSE "inplace"]
    /\ UNCHANGED <<dir, frameSet, refs, heap, heapBusy, mem, alive, fault>>

\* Single owner: write the saved entry back with writable set (cow and ref
\* stay set so the counter still frees the frame).
InPlace(t) ==
    LET p == TaskOf[t]
        f == fault[t]
    IN
    /\ pc[t] = "inplace"
    /\ dir' = [dir EXCEPT ![p][f.v] = [f.page EXCEPT !.writable = TRUE]]
    /\ pc' = [pc EXCEPT ![t] = "user"]
    /\ fault' = [fault EXCEPT ![t] = None]
    /\ UNCHANGED <<frameSet, refs, heap, heapBusy, mem, alive>>

\* Copy path, first part: alloc a heap buffer, copy the page through addr,
\* and map addr to the buffer's frame (virt_to_phys of copied_area).
CopyPage(t) ==
    LET p == TaskOf[t]
        f == fault[t]
        cur == dir[p][f.v]
    IN
    /\ pc[t] = "copy"
    /\ \E s \in HeapSlots \ heapBusy :
          /\ heapBusy' = heapBusy \cup {s}
          /\ mem' = [mem EXCEPT ![heap[s]] = mem[cur.addr]]
          /\ dir' = [dir EXCEPT ![p][f.v] =
                       [addr |-> heap[s], writable |-> TRUE,
                        cow |-> FALSE, ref |-> FALSE]]
          /\ fault' = [fault EXCEPT ![t].slot = s]
    /\ pc' = [pc EXCEPT ![t] = "alloc"]
    /\ UNCHANGED <<frameSet, refs, heap, alive>>

\* Fault-injection variant of AllocNew: leaves the buffer on the old frame.
AllocNewNoRemap(t) ==
    LET p == TaskOf[t]
        f == fault[t]
    IN
    /\ pc[t] = "alloc"
    /\ heapBusy' = heapBusy \ {f.slot}
    /\ IF frameSet # Frames
         THEN /\ frameSet' = frameSet \cup {AllocFrame(frameSet)}
              /\ pc' = [pc EXCEPT ![t] = "free"]
              /\ UNCHANGED <<dir, heap, fault>>
         ELSE /\ dir' = [dir EXCEPT ![p][f.v] = f.page]
              /\ pc' = [pc EXCEPT ![t] = "user"]
              /\ fault' = [fault EXCEPT ![t] = None]
              /\ UNCHANGED <<frameSet, heap>>
    /\ UNCHANGED <<refs, mem, alive>>

\* Copy path, second part: alloc_frame for the heap buffer, remap the buffer
\* to it and dealloc the buffer; on NoAvailableFrames restore the saved
\* entry at addr, dealloc and return the error.
AllocNew(t) ==
    LET p == TaskOf[t]
        f == fault[t]
    IN
    /\ pc[t] = "alloc"
    /\ heapBusy' = heapBusy \ {f.slot}
    /\ IF frameSet # Frames
         THEN /\ frameSet' = frameSet \cup {AllocFrame(frameSet)}
              /\ heap' = [heap EXCEPT ![f.slot] = AllocFrame(frameSet)]
              /\ pc' = [pc EXCEPT ![t] = "free"]
              /\ UNCHANGED <<dir, fault>>
         ELSE /\ dir' = [dir EXCEPT ![p][f.v] = f.page]
              /\ pc' = [pc EXCEPT ![t] = "user"]
              /\ fault' = [fault EXCEPT ![t] = None]
              /\ UNCHANGED <<frameSet, heap>>
    /\ UNCHANGED <<refs, mem, alive>>

\* Fault-injection variant of FreeOld: forgets free_page(original_page).
FreeOldSkip(t) ==
    /\ pc[t] = "free"
    /\ pc' = [pc EXCEPT ![t] = "user"]
    /\ fault' = [fault EXCEPT ![t] = None]
    /\ UNCHANGED <<dir, frameSet, refs, heap, heapBusy, mem, alive>>

\* Copy path, last part: free_page(original_page).
FreeOld(t) ==
    LET st == FreePage(fault[t].page, Counters) IN
    /\ pc[t] = "free"
    /\ refs' = st.refs
    /\ frameSet' = st.frameSet
    /\ pc' = [pc EXCEPT ![t] = "user"]
    /\ fault' = [fault EXCEPT ![t] = None]
    /\ UNCHANGED <<dir, heap, heapBusy, mem, alive>>

\* FreeablePageDir::drop -> free_page_dir: free_page on every user page in
\* ascending address order, then the directory is gone.
Exit(p) ==
    LET step(e, st) == IF e = None THEN st ELSE FreePage(e, st)
        st == MapThenFoldSet(step, Counters, LAMBDA v : dir[p][v],
                             LAMBDA S : Max(S), Pages)
    IN
    /\ p \in alive
    /\ \A t \in Threads : TaskOf[t] = p => pc[t] = "user"
    /\ refs' = st.refs
    /\ frameSet' = st.frameSet
    /\ dir' = [dir EXCEPT ![p] = [v \in Pages |-> None]]
    /\ alive' = alive \ {p}
    /\ UNCHANGED <<heap, heapBusy, mem, pc, fault>>

\* Every process has exited: nothing in this component can step any more.
Terminated == alive = {} /\ UNCHANGED vars

Next ==
    \/ \E t \in Threads, v \in Pages, x \in Vals : UserWrite(t, v, x)
    \/ \E t \in Threads, v \in Pages : Fault(t, v)
    \/ \E t \in Threads :
          \/ CheckCount(t) \/ InPlace(t) \/ CopyPage(t)
          \/ AllocNew(t) \/ FreeOld(t)
    \/ \E p \in Procs : Exit(p)
    \/ Terminated

Spec == Init /\ [][Next]_vars

-----------------------------------------------------------------------------
(* Properties *)

TypeOK ==
    /\ dir \in [Procs -> [Pages -> Entry \cup {None}]]
    /\ frameSet \subseteq Frames
    /\ refs \in [Frames -> Nat]
    /\ heap \in [HeapSlots -> Frames]
    /\ heapBusy \subseteq HeapSlots
    /\ mem \in [Frames -> Vals]
    /\ alive \subseteq Procs
    /\ pc \in [Threads -> {"user", "count", "inplace", "copy", "alloc", "free"}]
    /\ fault \in [Threads -> FaultLocals \cup {None}]

Mapped == {pv \in Procs \X Pages : dir[pv[1]][pv[2]] # None}

\* Threads between remapping addr and free_page(original_page): they still
\* hold the reference of the entry they replaced.
Holding == {t \in Threads : pc[t] \in {"alloc", "free"}}

LiveFrames ==
    {dir[pv[1]][pv[2]].addr : pv \in Mapped}
    \cup Range(heap)
    \cup {fault[t].page.addr : t \in Holding}

\* The page manager's bitset marks exactly the frames that a directory, the
\* kernel heap or an unfinished copy_on_write still refers to: free_page and
\* remove_reference never clear the bit of a frame in use (no use after
\* free) and every frame the copy path allocates ends up referred to (no
\* leak).
BitsetExact == frameSet = LiveFrames

RefMappings(f) ==
    {pv \in Mapped : dir[pv[1]][pv[2]].addr = f /\ dir[pv[1]][pv[2]].ref}

\* The reference count of every frame equals the number of reference-counted
\* mappings of it plus the copies in flight that have not yet called
\* free_page: copy_on_write's decrement matches the mapping it replaced.
RefCountExact ==
    \A f \in Frames :
        refs[f] = Cardinality(RefMappings(f))
                  + Cardinality({t \in Holding : fault[t].page.addr = f})

Uses(f) ==
    {pv \in Mapped : dir[pv[1]][pv[2]].addr = f}
    \cup {<<s, 0>> : s \in {h \in HeapSlots \ heapBusy : heap[h] = f}}

\* A frame mapped writable by a process is used nowhere else: neither by
\* another mapping (the CoW sharer) nor by a kernel-heap buffer that the
\* heap may hand out again.  (The buffer a running copy_on_write holds
\* aliases the new page on purpose until the buffer is remapped.)
WritableExclusive ==
    \A pv \in Mapped :
        dir[pv[1]][pv[2]].writable => Uses(dir[pv[1]][pv[2]].addr) = {pv}

View(p, v) == IF dir[p][v] = None THEN None ELSE mem[dir[p][v].addr]

WritesOf(p, v) ==
    \E t \in Threads, x \in Vals : TaskOf[t] = p /\ UserWrite(t, v, x)

\* Address-space isolation: the contents a live process sees at a page change
\* only by a store of that same process to that page; copying, remapping,
\* rollback and frees by the fault handler never change what it sees.
Isolation ==
    [][\A p \in Procs, v \in Pages :
          (p \in alive /\ p \in alive' /\ View(p, v)' # View(p, v))
              => WritesOf(p, v)]_vars
=============================================================================
