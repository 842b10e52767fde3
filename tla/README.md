# TLA+ models of the ockernel memory subsystem

This directory holds TLA+ models of the virtual-memory subsystem of ockernel
(`src/kernel/src/mm/paging.rs`, `src/kernel/src/arch/i586/paging.rs`) and of
the per-CPU task machinery it relies on (`src/kernel/src/task/{cpu,queue}.rs`),
together with the TLC configurations that check them.

## 1. Inventory

### Components

| Component | Source | State it keeps | Operations that change state |
|---|---|---|---|
| Page manager (frame bitset) | `mm/paging.rs` 363-554 | `frame_set` bitset, `page_size`; global `PAGE_MANAGER` behind a spin mutex | `alloc_frame`, `alloc_frame_at`, `set_frame_used`, `set_frame_free`, `free_frame`, `sync_from_dir`, `set_page_manager`; `get_page_manager` spins and drains urgent messages |
| Page-reference counter | `mm/paging.rs` 631-710 | `BTreeMap<phys, count>` behind `PAGE_REF_COUNTER` mutex | `add_reference(s)`, `remove_reference`, `remove_reference_no_free`, `remove_all_references` |
| Page disposal | `mm/paging.rs` 712-781 | none of its own | `free_page` (shared / referenced / plain), `free_page_dir`, `FreeablePageDir::drop` |
| Copy-on-write engine | `mm/paging.rs` 783-892 | none of its own; mutates a directory, the heap mapping, the bitset and the counter | `copy_on_write` (single-owner and copy paths, rollback on allocation failure), `try_copy_on_write` (fault entry) |
| Transient mapper | `mm/paging.rs` 138-325 | a heap buffer and a save list while it runs | `map_memory_from`, `map_memory` |
| Region helpers | `mm/paging.rs` 327-361, 894-906 | none (pure scans) | `find_hole`, `validate_region` |
| Directory selection | `mm/paging.rs` 556-629 | `KERNEL_PAGE_DIR` singleton | `set_kernel_page_dir`, `ProcessOrKernelPageDir` dispatch, `get_page_dir` |
| i586 hardware directory | `arch/i586/paging.rs` | `tables[1024]` (slot + `can_free`), `tables_physical[1024]`, `tables_physical_addr`, `can_free`; global `CURRENT_PAGE_DIR`; CR3 | `PageTableEntry`/`PageFrame` conversions, `add_page_table`, `remove_page_table`, `get_page`, `is_unused`, `virt_to_phys`, `set_page` (lazy table allocation, TLB flush), `switch_to`, `drop` |
| Urgent messages (TLB shootdown) | `task/cpu.rs` 150-157, 174-219 | per-thread `urgent_message_queue: Mutex<VecDeque>` | `send_urgent_message`, `process_urgent_messages` |
| Per-CPU task queue | `task/queue.rs` | `current`, priority-ordered `queue` | `consume`, `insert`, `remove_thread`, `remove_process`; `TaskQueueEntry` priority encoding |
| CPU topology / load balancing | `task/cpu.rs` 1-148, 159-172, 221-296 | cores, threads, `in_kernel`, `has_started`, message queues | `find_thread_to_steal_from`, `find_thread_to_add_to`, `send_message`, `process_messages`, `enter_kernel`/`leave_kernel`, `start` |
| Boot-time memory setup | `platform/ibmpc/mod.rs` | bootstrap page tables, `PAGE_DIR`, `BOOTSTRAP_ADDR` | `x86_prep_page_table`, `kmain` (maps kernel and heap, frees guard pages, module discovery, command line) |
| VFS tree | `src/fs/vfs.rs` | `ROOT_DIR` tree of directories and mount points | `vfs_mkdir`, `add_mount_point`, `remove_mount_point`, `add_device`, `remove_device`, `init` |

Code this subsystem calls that is not in the repository snapshot (`mm/sync.rs`
with `PageDirTracker`, `mm/shared.rs`, `util/array.rs` with `BitSet`, the
scheduler's fork and context switch) is modelled only where a property needs
it, from `spec.md`, and marked `spec_modelled` in `PROJECT.json`.

### How the parts interact

* A write to a read-only copy-on-write page faults; the fault handler calls
  `try_copy_on_write`, which reads the page of the current task's directory,
  then `copy_on_write`. That reads the reference count (counter lock), either
  makes the page writable in place or copies it through a kernel-heap buffer,
  allocates a fresh frame for the heap (page-manager lock) and finally
  releases the old frame through `free_page` (counter lock, then page-manager
  lock). No lock is held across these steps.
* Process teardown drops the process's `FreeablePageDir`, whose `drop` runs
  `free_page` on every user page.
* `get_page_manager` spins on the page-manager lock and, while spinning,
  drains the calling CPU thread's urgent-message queue, so a thread waiting
  for a TLB shootdown cannot deadlock a thread waiting for the lock.
* The i586 `set_page` allocates page tables lazily from the kernel heap and
  translates them through the global `CURRENT_PAGE_DIR` borrow that
  `switch_to` sets.
* `map_memory_from` reads physical addresses from a foreign directory
  (running `copy_on_write` on CoW pages), splices them into the current
  directory over a heap buffer, runs a closure, then restores the buffer.

### What is hard

* Interleaving: several CPU threads run tasks of the same or different
  processes; page faults, process exit and frame allocation run concurrently
  and take the counter and the page-manager lock one at a time.
* Stale state: `try_copy_on_write` reads the page entry once and uses it after
  the counter lock has been released and re-taken; rollback restores that
  saved entry.
* Partial failure: allocation failure in the middle of the copy path.
* Numeric edges: the page rounding of `find_hole` and `validate_region`, the
  32-bit address arithmetic, the Global-bit test, priority encoding.
* Liveness and deadlock: the page-manager spin and the urgent-message drain.

### What makes each component correct

* Page manager + counter + CoW: a frame is marked used exactly when something
  (a directory, the kernel heap, a fault in progress) refers to it; the count
  of a frame equals the number of reference-counted mappings of it; a
  process's view of its own memory changes only through its own writes.
* Region helpers: `find_hole` returns a hole that is really unused and
  finds one whenever `size` bytes, rounded up to pages, are free; `validate_region` returns true only if every page touched by
  `[start, start+len)` is mapped.
* Hardware directory: slot present exactly when the physical entry is
  present; kernel-half entries carry Global; the current directory is never
  dropped; owned tables are freed once.
* Urgent messages: a remote TLB entry is invalidated before that thread uses
  it again; every message is eventually processed; no two threads wait on each
  other forever.
* Task queue: ordered by priority, no duplicate task, `remove_process` removes
  exactly the tasks of that process.

## 2. Plan and status

| Module | Part modelled | Status |
|---|---|---|
| `CowPaging.tla` (+ `MCCowPaging.tla`) | page manager, reference counter, `free_page`, `copy_on_write`/`try_copy_on_write`, process teardown, several CPU threads faulting concurrently | built |
| `RegionOps.tla` (+ `MCRegionOps.tla`) | `find_hole`, `validate_region` as RECURSIVE operators over wrapping addresses | built |
| `TaskQueue.tla` (+ `MCTaskQueue.tla`) | the per-CPU task queue | built |
| `HwPageDir.tla`, `AbstractPageDir.tla` (+ `MCHwPageDir.tla`) | the i586 directory, with a refinement to the abstract `PageDirectory` promise | built |
| `TransientMap.tla` (+ `MCTransientMap.tla`) | `map_memory_from`/`map_memory`, including the CoW call they make | built |
| `Shootdown.tla` (+ `MCShootdown.tla`) | urgent-message queues, `process_urgent_messages`, the `get_page_manager` spin-and-drain, the CR3 flush; liveness under weak fairness of each CPU thread | built |
| `LoadBalance.tla` (+ `MCLoadBalance.tla`) | the four topology scans of `cpu.rs` as RECURSIVE operators, checked against what their doc comments promise | built |
| `PageManagerOps` | `alloc_frame_at`, `free_frame`, `sync_from_dir`: only the boot code calls the first two, and nothing calls the third | not planned |
| VFS | mkdir and mount points | not modelled: outside spec.md's scope, with its tree module absent |

The project keeps twelve runs. Each violation run is the evidence for one
finding. The Global-bit finding is the exception: it is recorded below without a run,
because any property stating it fails in the initial state.

## 3. Modules

### CowPaging (mm/paging.rs)

State: `dir[p][v]` is process `p`'s page entry at user page `v` (a record
`addr, writable, cow, ref` or `None`), `frameSet` is the page manager's
bitset as a set of used frames, `refs[f]` the reference count of frame `f`
(0 = absent from the map), `heap[s]` the frame backing kernel-heap buffer `s`
and `heapBusy` the buffers handed out by `alloc`, `mem[f]` the contents of
frame `f` (a small value), `alive` the processes whose directory still
exists, and per CPU thread `pc` and `fault` (the local variables of
`try_copy_on_write`/`copy_on_write`).

| Action | Code |
|---|---|
| `UserWrite(t, v, x)` | a user store through a writable mapping (hardware) |
| `Fault(t, v)` | `try_copy_on_write`: read the entry, check the CoW predicate |
| `CheckCount(t)` | `copy_on_write` line 787: read the count under the counter lock |
| `InPlace(t)` | lines 857-864: write the saved entry back with `writable` set |
| `CopyPage(t)` | lines 790-821: take a heap buffer, copy, remap `addr` to the buffer's frame |
| `AllocNew(t)` | lines 825-848: `alloc_frame`; on success remap the buffer and free it, on failure restore the saved entry |
| `FreeOld(t)` | line 850: `free_page(original_page)` → `remove_reference` |
| `Exit(p)` | `FreeablePageDir::drop` → `free_page_dir` → `free_page` on every page |

The model starts right after a fork: every user page of the processes is
shared copy-on-write with a count equal to the number of processes, two kernel-heap buffers are mapped,
and the remaining frames are free. Each lock-protected region of the code is
one action; the gaps between them, where no lock is held, are where other
threads interleave.

The single-owner path keeps `copy_on_write` set while setting `writable`
(`paging.rs:859`, with a comment saying so), which contradicts the spec's
PageFrame invariant "copy_on_write ⇒ ¬writable". The code's comment shows
this is deliberate, so no run checks it; `try_copy_on_write` only acts on
non-writable pages, so the leftover flag is harmless.

### RegionOps (mm/paging.rs)

`FindHole` and `ValidateRegion` translate the loops of `find_hole` and
`validate_region` with the page size and address width scaled down
(`PageSize` = 4, `AddrBits` = 5, addresses modulo 32), so that overflow and
rounding edges are reachable. The variables hold one input (the set of
mapped pages, `start`, `end`, `size` or `len`), chosen nondeterministically
in `Init`, so TLC checks every input; `Next` leaves them unchanged.

### TaskQueue (task/queue.rs)

`queue` is a sequence of entries `[id |-> <<process, thread>>, prio |-> n]`
holding the encoded u8 priority, and `current` is the consumed entry. Each
method runs under the queue's mutex, so each is one action: `Insert`,
`Consume`, `RemoveThread`, `RemoveProcess` (a RECURSIVE `RemoveIndices`
that replays the index loop). `FullPriority` is `TaskQueueEntry::new`'s
encoding in u8 arithmetic. The history variables `arrivals` (tasks inserted
and not taken out, in the order of their last insert call; `expected` is its
set) lets the properties compare the queue with the calls.

### HwPageDir and AbstractPageDir (arch/i586/paging.rs)

`slot[d][i]` is `PageDir.tables[i]` (a table and `can_free`), `pde[d][i]`
is `tables_physical[i]`, `entries[t][j]` the entries of page table `t`,
`heap` the heap blocks allocated as tables, `cr3[c]` each CPU's loaded
directory and `current` the global `CURRENT_PAGE_DIR`. Actions: `New`
(`PageDir::new`, which starts with every slot empty and every directory
entry unused),
`SetPage` (lazy `add_page_table` from the heap, with `AllocError` when the
heap is exhausted; the new table's physical address is translated through
`CURRENT_PAGE_DIR`, which the model lets yield any table when the borrowed
directory is no longer alive; then the entry write, skipped with
`BadFrame` for a frame in `BadFrames` (above 4 GiB, so
`PageTableEntry::try_from` fails) after the table was already added; the
TLB flush changes no modelled state), `SwitchTo` and
`Drop` (guarded, as the assertion at line 731 is, only by the local CR3).
Sizes are scaled down: two slots of two entries of four bytes, kernel half
from byte 8.

`AbstractPageDir` states what the `PageDirectory` trait promises: a
partial map from pages to frames, `Set`, `Create`, `Destroy`.
`ImplementsAbstract` instantiates it with `exists <- live` and
`map <- [d |-> [v |-> GetPage(d, v)]]` and TLC checks that every behaviour of
`HwPageDir` is one of `AbstractPageDir` (stuttering steps included).

### Shootdown (task/cpu.rs, mm/paging.rs)

Per CPU thread: `running[t]` (the process of the task-queue's current task,
whose directory is in CR3), `stale[t]` (translations its TLB holds that
memory no longer has), `urgent[t]` (`urgent_message_queue`) and `pc[t]`;
`owner` is the page-manager lock and `work[t]` the shootdown a holder is
sending.

| Action | Code |
|---|---|
| `TryLock(t)` | `get_page_manager`: `try_lock`, and on failure `process_urgent_messages` then retry |
| `Drain(t)` | one iteration of `process_urgent_messages` (the `while let` keeps the queue lock through the body, so pop and flush are one step) |
| `SwitchTo(t, p)` | a context switch ending in `PageDir::switch_to`: the CR3 load flushes the whole TLB, since no entry has the Global bit |
| `SendUrgentMessage(t, u)` | `send_urgent_message` |
| `Update`, `Sent`, `Acknowledged`, `Unlock`, `Schedule` | the sender and the scheduler's drain point, in `mm/sync.rs` and the scheduler, which are not in the tree: modelled from spec.md 4.H (the holder sends to every other thread and waits for the flushes while holding the lock) |

### LoadBalance (task/cpu.rs)

The topology is an input. `cores` is a 0-indexed function of cores, each a
0-indexed function of threads, and each thread is a queue as the scans see
it: the count of waiting tasks and whether a current task is running.
`caller` is the `ThreadID` passed to `find_thread_to_steal_from`. `Init`
ranges over every topology within the bounds, and `Next` leaves the state
unchanged, so each state is one call.
`FindBusiestThread`, `FindEmptiestThread`, `FindThreadToStealFrom` and
`FindThreadToAddTo` replay the scans as RECURSIVE operators, in index order
and with the code's strict comparisons, `usize::MAX` start and early return
on an idle thread. The invariants compare the scans with their doc comments.
`AddToLeastLoaded`: a thread with the smallest load, counting the current
task. `StealFindsWaitingTask`: a thread with a waiting task, on the
caller's core whenever that core has one, and the busiest of its core.

### TransientMap (mm/paging.rs)

`map_memory_from` is a sequential call (it holds no lock across its
steps), so it is an operator `MapMemoryFrom(st, addr, len)` from the state
before to the set of possible results; `Init` chooses the starting state, the
current directory (the source's own, or the kernel's) and every argument,
and `post` is the result. `Gather` replays the page loop, including the
`copy_on_write` call with the arguments the code passes; `CopyOnWrite` is
the same engine as in `CowPaging`, sequential here; `MapMemory` allocates
a run of heap pages (any free run: the allocator's choice), asserts that no
source frame is already behind the buffer, maps the source frames, applies
the closure (it writes a marker value to every page its slice touches) and
maps the saved frames back.

## 4. Runs

| Run | cfg | Expect | Checks | What it shows |
|---|---|---|---|---|
| `cow_pass` | `MCCowPaging.cfg` | pass | `BitsetExact`, `RefCountExact`, `WritableExclusive`, `Isolation` | three processes forked over two pages, one faulting thread each: the CoW engine keeps bitset, counts and isolation exact while one sharer copies and others still share, when the last sharer takes the page in place, through allocation-failure rollback (only two frames are free) and through teardown |
| `cow_two_threads` | `MCCowPagingThreads.cfg` | violation | `BitsetExact` | two threads of one process fault on the same CoW page; both act on the entry read before the count check and a frame is freed twice or leaked |
| `region_pass` | `MCRegionOps.cfg` | pass | `FindHoleSound` | any hole `find_hole` returns is unused, aligned and inside `[start, end)` (sizes that do not wrap) |
| `validate_region` | `MCRegionOpsValidate.cfg` | violation | `ValidateRegionSound` | `validate_region` accepts ranges whose pages are not all mapped: an unaligned range crossing a page boundary has only its first page checked, and a range reaching the last page makes the end wrap to 0 so that nothing is checked (TLC's trace: start 4, len 24, nothing mapped) |
| `hw_pass` | `MCHwPageDir.cfg` | pass | `SlotsConsistent`, `HeapExact`, `ImplementsAbstract` | on one CPU, slots and hardware entries agree, table memory is exact, and the directory implements the abstract `PageDirectory` |
| `hw_drop_loaded` | `MCHwPageDirTwoCPUs.cfg` | violation | `SlotsConsistent` | a directory loaded on another CPU and held in `CURRENT_PAGE_DIR` can be dropped; the next lazy table allocation translates through freed memory |
| `transient_pass` | `MCTransientMap.cfg` | pass | `WritesLandInSource` | with no CoW page in the range, the closure's writes reach the source pages and no other page of the source changes |
| `transient_cow` | `MCTransientMapCow.cfg` | violation | `WritesLandInSource` | with a CoW page in the range the writes go to the heap's replacement frame and the source keeps the copy |
| `loadbalance_pass` | `MCLoadBalance.cfg` | pass | `AddToLeastLoaded`, `StealFindsWaitingTask` | over every topology of up to three cores of two threads with up to two waiting tasks, and every caller, the scans answer what their doc comments promise |
| `shootdown_pass` | `MCShootdown.cfg` | pass | `StaleCovered`, `UpdateCompletes` | every stale TLB translation stays covered by a queued or unsent message (what `process_urgent_messages` skips was flushed by the CR3 load), and every shootdown completes: the drain in the spin loop breaks the holder/spinner wait |
| `taskqueue_pass` | `MCTaskQueue.cfg` | pass | `QueueSorted`, `EqualPriorityFifo` | the queue stays sorted and tasks of equal priority leave in the order of their insert calls (the strict comparison of `insert`), i8 priorities -7, 0, 8 |
| `taskqueue_kill` | `MCTaskQueueKill.cfg` | violation | `QueueMatchesCalls` | `remove_process` removes by indices that shift under it and leaves a thread of the killed process queued |

Every property of a pass run has a mutant in `PROJECT.json`: a variant of a
mapped definition with a plausible bug (the last reference kept, a skipped
free, a dropped guard, a missing remap, a push to the back) under which TLC
finds that property violated.

## 5. Findings

* `paging.rs:787` (`cow_two_threads`): the CoW path is not safe for two
  threads of one process faulting on one page.
* `paging.rs:897` (`validate_region`): the end is computed from the rounded
  start, so the last page of an unaligned range is not checked; and for a
  range that reaches the last page of the address space the end wraps to 0,
  the loop runs no iteration and any such range is accepted.
* `arch/i586/paging.rs:680` (no run): the Global-bit test compares a page
  number with `KERNEL_PAGE_DIR_SPLIT`, so no kernel entry gets the Global bit,
  against spec.md 4.C. `HwPageDir`'s `NewEntry` keeps the comparison as the code
  has it. Every CR3 load in `switch_to` then flushes the kernel half too, which
  is what `Shootdown` assumes.
* `arch/i586/paging.rs:731` (`hw_drop_loaded`): `drop` checks only the local
  CR3, against spec invariant I3.
* `paging.rs:195` (`transient_cow`): `map_memory_from` passes `addr` instead
  of `i` and maps the frame `copy_on_write` returns, which is the heap's
  fresh frame, not the copy.
* `queue.rs:86` (`taskqueue_kill`): `remove_process` removes by stale
  indices.

* `paging.rs:340-352` (no run): `find_hole` turns `size` into
  `(size / page_size) * page_size + page_size` and then also requires the
  page at that distance past the hole start to be unused (`addr - start >=
  size`). An aligned size therefore needs two pages more than it rounds to,
  an unaligned one one more, and a request that fits exactly is refused: a
  one-page request over an empty two-page range returns None. The doc
  comment at `paging.rs:333` says the size is rounded up to a multiple of the
  page size, spec.md 4.i asks for the lowest address with `size` free pages,
  and its open question allows at most one extra page. With `FindHole` of
  `RegionOps`, `FindHole({}, 0, 8, 4)` is None for 4-byte pages. Every run of
  the budget backs another finding, so `region_pass` checks only that what
  `find_hole` returns is a real hole (`FindHoleSound`).

## 6. Bounds, fairness, what is not modelled

* CowPaging (`cow_pass`): three processes with one CPU thread each, two
  user pages, two heap buffers and six frames. Each shared frame starts at
  count 3, so a copy runs while two other sharers remain: the count goes
  3, 2, 1, and the last sharer takes the page in place. Only two frames are free, so
  later copies fail and roll back; exits free frames again. The processes
  start identical, so `ForkSymmetry` lets TLC identify states that differ
  only by a renaming of the processes together with their threads. That
  leaves 133,000 distinct states, checked in under 20 s. With two processes a frame is copied at most once,
  and a decrement that leaves the count above 1 never happens. `cow_two_threads` uses two processes
  with both threads in one of them.
* RegionOps: 5-bit addresses and 4-byte pages give 8 pages, every subset of
  which is a mapping; `Sizes` covers zero, sub-page, page and multi-page sizes.
* TaskQueue: two processes of two threads and the i8 priorities -7, 0 and 8,
  the bottom, middle and top of the range the u8 encoding keeps in order (-8 and 9 wrap).
* HwPageDir: two process directories and the boot directory, two heap
  tables (so the heap can run out), one encodable frame and one frame above
  4 GiB for the pass run (a second encodable frame made the state space too
  large for the five-minute limit; encodable frame values do not interact), two CPUs for the drop run.
* LoadBalance: up to three cores (the caller's core and two others, so that
  the steal scan can skip an empty core before it finds one), up to two threads per core (ties and
  strict comparisons between threads), and up to two waiting tasks per thread
  (so that one thread can be busier than another that also has work).
* TransientMap: three source pages of two bytes, five heap pages, every
  `addr`/`len` in range, source pages absent, private, shared CoW or
  sole-owner CoW.
* Shootdown: three CPU threads (a holder and two others, so a message can
  be queued on a spinner and on a running thread at once), two processes
  (so a thread can run a process other than the message's), one address.
  A holder waits for its flushes, so each queue holds at most one message
  and the state space is finite without a bound.
* Fairness: only `shootdown_pass` checks liveness. It assumes weak fairness
  of each thread's scheduling-point drain, of the drain loop, of the spin
  retry, of the holder's critical section, and of sending. Timer interrupts
  bring each thread to a scheduling point, and the spin loop never blocks.
  Nothing forces a thread to take the lock or to switch tasks. A spinner
  can starve under weak fairness (the lock is an unfair `try_lock`), so
  the check is that a shootdown in progress completes, not that every
  spinner gets the lock. The other runs check safety only.
* Not modelled: `shared` pages (`mm/shared.rs` is not in the snapshot);
  kernel-heap exhaustion inside `copy_on_write` (`alloc` returning null at
  `paging.rs:792` is not checked by the code and would be a null write);
  directory selection (`get_page_dir` and `ProcessOrKernelPageDir` resolve
  processes through `crate::task::get_process`, which is not in the tree); `process_messages` (kill and IPC messages, which call into the scheduler and IPC code that is not in the tree; its two hazards, the held queue guard and a kill lost to a stolen task, are listed in PROJECT.json); `send_urgent_message`'s OutOfMemory path (its caller is not in the tree); boot-time
  setup beyond the boot directory it produces (`HwPageDir`'s `Init`),
  including `alloc_frame_at` and `free_frame`, which only the boot code calls
  (`kmain` runs once, single-threaded, over one fixed layout whose inputs,
  the bootloader's reserved pages and the bump allocator, are not in the
  tree, so a model would replay one straight-line sequence);
  the VFS (`src/src/fs/vfs.rs`: outside the kernel crate, its `tree` module
  is absent, and spec.md puts it out of scope);
  frame contents beyond a small value; logging and formatting.
