----------------------------- MODULE HwPageDir -----------------------------
(***************************************************************************)
(* The x86 non-PAE page directory of src/kernel/src/arch/i586/paging.rs:   *)
(* PageDir's table slots (`tables`, each a table and `can_free`) beside    *)
(* the hardware directory entries (`tables_physical`), the page tables'    *)
(* entries, lazy table allocation from the kernel heap in set_page, the    *)
(* global CURRENT_PAGE_DIR borrow that switch_to sets and that set_page    *)
(* translates new tables through, each CPU's CR3, and drop.                *)
(*                                                                         *)
(* Sizes are scaled down: NSlots directory slots of NEntries entries of    *)
(* PageSize bytes, with the kernel half starting at byte KernelSplit.      *)
(***************************************************************************)
EXTENDS Integers, FiniteSets

CONSTANTS
    CPUs,           \* CPU threads (each has its own CR3)
    Dirs,           \* heap-allocated process directories (PageDir::new)
    BootDir,        \* the kernel directory built by PageDir::bump_allocate
    NSlots,         \* 1024 directory slots
    NEntries,       \* 1024 entries per page table
    PageSize,       \* PAGE_SIZE
    KernelSplit,    \* KERNEL_PAGE_DIR_SPLIT, a byte address
    HeapTables,     \* kernel-heap blocks that alloc_zeroed can return as tables
    BootTable,      \* the bump-allocated kernel page table (can_free = false)
    BootMap,        \* the kernel pages the boot code maps, page -> PageFrame
    Frames,         \* PageFrame values callers pass to set_page
    BadFrames,      \* those whose address does not fit a 32-bit entry
    None            \* Option::None

Slots == 0 .. NSlots - 1
EIdx == 0 .. NEntries - 1
VPages == 0 .. NSlots * NEntries - 1
AllDirs == Dirs \cup {BootDir}
TableIds == HeapTables \cup {BootTable}

VARIABLES
    live,       \* directories that exist
    slot,       \* slot[d][i]: PageDir.tables[i], None or [table, owned]
    pde,        \* pde[d][i]: PageDir.tables_physical[i]
    entries,    \* entries[t][j]: entry j of page table t
    heap,       \* heap blocks currently allocated as page tables
    cr3,        \* cr3[c]: the directory loaded on CPU c
    current     \* CURRENT_PAGE_DIR

vars == <<live, slot, pde, entries, heap, cr3, current>>

\* PageTableEntry as the frame it encodes and its Global bit; the all-zero
\* entry is the one with no frame and no flag.
Pte == [frame : Frames \cup {None}, global : BOOLEAN]
ZeroEntry == [frame |-> None, global |-> FALSE]

\* PageDirEntry as the table address it holds and its Global flag.
Pde == [table : TableIds, global : BOOLEAN]
PdeUnused == [table |-> None, global |-> FALSE]

\* The PageFrame get_page reconstructs from an entry that is not all zero
\* but holds no frame: address 0, present false.
NonPresentFrame == "non-present frame at 0"

TableIndex(v) == v \div NEntries

\* KERNEL_PAGE_DIR_SPLIT / PAGE_SIZE / 1024: the first kernel-half slot.
KernelSlot == (KernelSplit \div PageSize) \div NEntries

EntryIndex(v) == v % NEntries

\* PageTableEntry::is_unused: the raw entry is 0.
IsUnused(e) == e = ZeroEntry

\* Fault-injection variant of GetPage: the is_unused check is dropped.
GetPageNoZeroCheck(d, v) ==
    LET s == slot[d][TableIndex(v)] IN
    IF s = None THEN None
    ELSE LET e == entries[s.table][EntryIndex(v)] IN
         IF e.frame = None THEN NonPresentFrame ELSE e.frame

\* get_page: None for an empty slot or an all-zero entry, else the frame.
GetPage(d, v) ==
    LET s == slot[d][TableIndex(v)] IN
    IF s = None THEN None
    ELSE LET e == entries[s.table][EntryIndex(v)] IN
         IF IsUnused(e) THEN None
         ELSE IF e.frame = None THEN NonPresentFrame ELSE e.frame

\* The entry set_page writes for page number v: TryFrom<PageFrame> (or
\* new_unused), then the Global bit if `addr >= KERNEL_PAGE_DIR_SPLIT`,
\* where `addr` has already been divided by PAGE_SIZE.
NewEntry(v, p) == [frame |-> p, global |-> v >= KernelSplit]

\* add_page_table on one directory's slots and entries: the slot index is
\* addr >> 22, and kernel-half slots get a Global directory entry.
AddPageTable(sl, pd, addr, t, phys, owned) ==
    LET idx == addr \div (PageSize * NEntries) IN
    [slot |-> [sl EXCEPT ![idx] = [table |-> t, owned |-> owned]],
     pde  |-> [pd EXCEPT ![idx] =
                 [table |-> phys,
                  global |-> idx >= KernelSlot]]]

\* The physical address CURRENT_PAGE_DIR.virt_to_phys gives for a new heap
\* table: right while the borrowed directory is alive (kernel halves are
\* identical, I4); a read through a freed directory may give anything.
Translations(t) == IF current \in live THEN {t} ELSE TableIds

\* The heap blocks remove_page_table frees for one slot.
FreedBy(s) == IF s # None /\ s.owned THEN {s.table} ELSE {}

Init ==
    /\ live = {BootDir}
    /\ slot = [d \in AllDirs |-> [i \in Slots |->
                 IF d = BootDir /\ \E v \in DOMAIN BootMap : TableIndex(v) = i
                 THEN [table |-> BootTable, owned |-> FALSE] ELSE None]]
    /\ pde = [d \in AllDirs |-> [i \in Slots |->
                 IF slot[d][i] = None THEN PdeUnused
                 ELSE [table |-> BootTable,
                       global |-> i >= KernelSlot]]]
    /\ entries = [t \in TableIds |-> [j \in EIdx |->
                 IF t = BootTable /\ \E v \in DOMAIN BootMap : EntryIndex(v) = j
                 THEN LET v == CHOOSE v \in DOMAIN BootMap : EntryIndex(v) = j
                      IN NewEntry(v, BootMap[v])
                 ELSE ZeroEntry]]
    /\ heap = {}
    /\ cr3 = [c \in CPUs |-> BootDir]
    /\ current = BootDir

\* PageDir::new: both arrays come from the heap; every slot is set to None
\* and tables_physical is zeroed.
New(d) ==
    /\ d \notin live
    /\ live' = live \cup {d}
    /\ slot' = [slot EXCEPT ![d] = [i \in Slots |-> None]]
    /\ pde' = [pde EXCEPT ![d] = [i \in Slots |-> PdeUnused]]
    /\ UNCHANGED <<entries, heap, cr3, current>>

\* Fault-injection variant of SetPage: a table is allocated and added even
\* when the slot already holds one.
SetPageAlwaysAlloc(d, v, p) ==
    /\ d \in live
    /\ heap # HeapTables
    /\ \E t \in HeapTables \ heap : \E phys \in Translations(t) :
         LET added == AddPageTable(slot[d], pde[d], v * PageSize, t, phys, TRUE)
         IN /\ heap' = heap \cup {t}
            /\ slot' = [slot EXCEPT ![d] = added.slot]
            /\ pde' = [pde EXCEPT ![d] = added.pde]
            /\ entries' = [entries EXCEPT ![t] = [j \in EIdx |->
                  IF j = EntryIndex(v) THEN NewEntry(v, p) ELSE ZeroEntry]]
    /\ UNCHANGED <<live, cr3, current>>

\* PageTableEntry::try_from succeeds: frame.addr fits in 32 bits.  When it
\* fails set_page returns BadFrame after any table it needed has already
\* been allocated and added.
Encodable(p) == p \notin BadFrames

\* set_page(v, p): allocate a zeroed table if the slot is empty (AllocError
\* if the heap has none), translate it through CURRENT_PAGE_DIR and add it
\* as owned; then encode and write the entry.  (The TLB flush changes no
\* state here.)
SetPage(d, v, p) ==
    LET i == TableIndex(v) IN
    /\ d \in live
    /\ IF slot[d][i] # None
         THEN /\ entries' = IF Encodable(p)
                             THEN [entries EXCEPT ![slot[d][i].table][EntryIndex(v)] = NewEntry(v, p)]
                             ELSE entries
              /\ UNCHANGED <<slot, pde, heap>>
         ELSE IF heap = HeapTables
         THEN UNCHANGED <<slot, pde, heap, entries>>
         ELSE \E t \in HeapTables \ heap : \E phys \in Translations(t) :
                LET added == AddPageTable(slot[d], pde[d], v * PageSize, t, phys, TRUE)
                IN /\ heap' = heap \cup {t}
                   /\ slot' = [slot EXCEPT ![d] = added.slot]
                   /\ pde' = [pde EXCEPT ![d] = added.pde]
                   /\ entries' = [entries EXCEPT ![t] = [j \in EIdx |->
                         IF j = EntryIndex(v) /\ Encodable(p) THEN NewEntry(v, p) ELSE ZeroEntry]]
    /\ UNCHANGED <<live, cr3, current>>

\* switch_to on CPU c: load CR3 and set CURRENT_PAGE_DIR, interrupts off.
SwitchTo(c, d) ==
    /\ d \in live
    /\ cr3' = [cr3 EXCEPT ![c] = d]
    /\ current' = d
    /\ UNCHANGED <<live, slot, pde, entries, heap>>

\* Fault-injection variant of Drop: the is_page_dir_current assertion is
\* left out.
DropNoCurrentCheck(c, d) ==
    /\ d \in live \ {BootDir}
    /\ heap' = heap \ UNION {FreedBy(slot[d][i]) : i \in Slots}
    /\ slot' = [slot EXCEPT ![d] = [i \in Slots |-> None]]
    /\ pde' = [pde EXCEPT ![d] = [i \in Slots |-> PdeUnused]]
    /\ live' = live \ {d}
    /\ UNCHANGED <<entries, cr3, current>>

\* Drop of a process PageDir on CPU c: the assertion compares with this
\* CPU's CR3 only; remove_page_table on every slot frees the owned tables,
\* then the arrays are freed.
Drop(c, d) ==
    /\ d \in live \ {BootDir}
    /\ cr3[c] # d
    /\ heap' = heap \ UNION {FreedBy(slot[d][i]) : i \in Slots}
    /\ slot' = [slot EXCEPT ![d] = [i \in Slots |-> None]]
    /\ pde' = [pde EXCEPT ![d] = [i \in Slots |-> PdeUnused]]
    /\ live' = live \ {d}
    /\ UNCHANGED <<entries, cr3, current>>

Next ==
    \/ \E d \in Dirs : New(d)
    \/ \E d \in AllDirs, v \in VPages, p \in Frames \cup {None} : SetPage(d, v, p)
    \/ \E c \in CPUs, d \in AllDirs : SwitchTo(c, d)
    \/ \E c \in CPUs, d \in Dirs : Drop(c, d)

Spec == Init /\ [][Next]_vars

-----------------------------------------------------------------------------
(* Properties *)

TypeOK ==
    /\ live \subseteq AllDirs
    /\ slot \in [AllDirs -> [Slots -> [table : TableIds, owned : BOOLEAN] \cup {None}]]
    /\ pde \in [AllDirs -> [Slots -> Pde \cup {PdeUnused}]]
    /\ entries \in [TableIds -> [EIdx -> Pte]]
    /\ heap \subseteq HeapTables
    /\ cr3 \in [CPUs -> AllDirs]
    /\ current \in AllDirs

\* spec.md section 3: slot i holds a table exactly when directory entry i
\* is present, and the entry gives that table's physical address; the MMU
\* walks tables_physical while get_page and set_page follow `tables`.
SlotsConsistent ==
    \A d \in live, i \in Slots :
        IF slot[d][i] = None THEN pde[d][i] = PdeUnused
        ELSE pde[d][i].table = slot[d][i].table

\* Every page table allocated from the heap belongs to exactly one slot of
\* one live directory, as an owned table: drop frees each exactly once and
\* no table leaks.
HeapExact ==
    /\ heap = UNION {FreedBy(slot[d][i]) : d \in live, i \in Slots}
    /\ \A d1, d2 \in live, i1, i2 \in Slots :
          /\ slot[d1][i1] # None /\ slot[d2][i2] # None
          /\ slot[d1][i1].table = slot[d2][i2].table
          /\ slot[d1][i1].table \in HeapTables
          => <<d1, i1>> = <<d2, i2>>

\* The PageDirectory promise (AbstractPageDir): get_page of each live
\* directory returns what the last set_page stored there, a new directory
\* maps nothing, and the tables shared through the heap never make one
\* directory's set_page visible in another.
Abstract == INSTANCE AbstractPageDir
    WITH DirIds <- AllDirs, VPages <- VPages, Frames <- Frames, None <- None,
         exists <- live,
         map <- [d \in AllDirs |->
                   IF d \in live THEN [v \in VPages |-> GetPage(d, v)]
                   ELSE [v \in VPages |-> None]]

ImplementsAbstract == Abstract!ASpec
=============================================================================
