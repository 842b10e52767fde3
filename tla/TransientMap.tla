---------------------------- MODULE TransientMap ----------------------------
(***************************************************************************)
(* map_memory_from and map_memory of src/kernel/src/mm/paging.rs: map the  *)
(* pages of [addr, addr + len) of a foreign directory F over a kernel-heap *)
(* buffer of the current directory, run the closure on the slice, and map  *)
(* the buffer back.  Pages of F that are copy-on-write are first copied by *)
(* copy_on_write, called as the code calls it.                             *)
(*                                                                         *)
(* The call is sequential (the caller holds no lock the model needs), so   *)
(* it is a pure operator MapMemoryFrom from the state before to the state  *)
(* after.  `pre` and the arguments are chosen in Init over all small       *)
(* inputs; `post` is the result.  The closure writes the value Written to  *)
(* every page of the slice it is given.                                    *)
(*                                                                         *)
(* A state record has the directories `dir` ("F", the source; "O", another *)
(* process sharing F's copy-on-write frames), the heap's backing frames    *)
(* `heap` (the kernel half, identical in every directory), the heap pages  *)
(* in use `heapUsed`, reference counts `refs`, the page manager's bitset   *)
(* `frameSet` and frame contents `mem`.                                    *)
(***************************************************************************)
EXTENDS Integers, Sequences, FiniteSets

CONSTANTS
    PageSize,       \* D::PAGE_SIZE, in bytes
    Pages,          \* user page numbers of F and O
    HeapPages,      \* kernel-heap page numbers 0 .. n-1
    Frames,         \* physical frames
    Written,        \* the value the closure writes
    InitStates,     \* the states the call may start in
    None

VARIABLES
    pre,        \* the state when map_memory_from is called
    cur,        \* the current directory: "F" (F is loaded) or "K" (the kernel's)
    addr,       \* `addr` argument
    len,        \* `len` argument
    post        \* [st |-> state after the call, res |-> outcome]

vars == <<pre, cur, addr, len, post>>

Entry == [addr : Frames, writable : BOOLEAN, cow : BOOLEAN, ref : BOOLEAN]

PageOf(a) == a \div PageSize

\* The user half of the current directory, through which copy_on_write
\* reads `addr`: F's when F is loaded, nothing in the kernel's.
CurrentUser(st) ==
    IF cur = "F" THEN st.dir["F"] ELSE [p \in Pages |-> None]

\* PageRefCounter::remove_reference.
RemoveReference(f, st) ==
    IF st.refs[f] > 1 THEN [st EXCEPT !.refs[f] = @ - 1]
    ELSE [st EXCEPT !.refs[f] = 0, !.frameSet = @ \ {f}]

\* free_page without the `shared` branch.
FreePage(e, st) ==
    IF e.ref THEN RemoveReference(e.addr, st)
    ELSE [st EXCEPT !.frameSet = @ \ {e.addr}]

\* copy_on_write(page_dir = d, addr = a, page), sequentially: the count
\* decides between copying through a one-page heap buffer and making the
\* page writable in place.  The copy reads `a` in the current address
\* space; a read of an unmapped address there is a kernel page fault.
\* The heap may place the buffer on any free heap page.  Returns the set
\* of possible [st, res, frame], frame being the address of the PageFrame
\* returned (new_page: the heap buffer's replacement frame).
CopyOnWrite(st, d, a, page) ==
    LET v == PageOf(a) IN
    IF st.refs[page.addr] > 1
    THEN IF CurrentUser(st)[v] = None
         THEN {[st |-> st, res |-> "fault", frame |-> None]}
         ELSE {
         LET copied == [st EXCEPT
                 !.mem[st.heap[s]] = st.mem[CurrentUser(st)[v].addr],
                 !.heapUsed = @ \cup {s},
                 !.dir[d][v] = [addr |-> st.heap[s], writable |-> TRUE,
                                cow |-> FALSE, ref |-> FALSE]]
             free == Frames \ st.frameSet
         IN IF free = {}
            THEN [st |-> [copied EXCEPT !.dir[d][v] = page, !.heapUsed = @ \ {s}],
                  res |-> "err", frame |-> None]
            ELSE LET n == CHOOSE f \in free : \A g \in free : f <= g
                     remapped == [copied EXCEPT !.heap[s] = n,
                                                !.frameSet = @ \cup {n},
                                                !.heapUsed = @ \ {s}]
                 IN [st |-> FreePage(page, remapped), res |-> "ok", frame |-> n]
         : s \in HeapPages \ st.heapUsed}
    ELSE {[st |-> [st EXCEPT !.dir[d][v] = [page EXCEPT !.writable = TRUE]],
           res |-> "ok", frame |-> page.addr]}

\* The page loop of map_memory_from over i = first, first + PageSize, ...
\* while i <= last: get_page(i) or BadAddress; copy_on_write(from, addr,
\* page) for a copy-on-write page (note: `addr`, not `i`).
RECURSIVE Gather(_, _, _, _)
Gather(st, i, last, acc) ==
    IF i > last THEN {[st |-> st, res |-> "ok", addrs |-> acc]}
    ELSE LET p == PageOf(i)
             e == IF p \in Pages THEN st.dir["F"][p] ELSE None
         IN IF e = None THEN {[st |-> st, res |-> "err", addrs |-> acc]}
            ELSE IF ~e.writable /\ e.cow /\ e.ref
            THEN UNION {IF c.res # "ok"
                        THEN {[st |-> c.st, res |-> c.res, addrs |-> acc]}
                        ELSE Gather(c.st, i + PageSize, last, Append(acc, c.frame))
                        : c \in CopyOnWrite(st, "F", addr, e)}
            ELSE Gather(st, i + PageSize, last, Append(acc, e.addr))

\* Buffer indices 1 .. n whose page the slice [offset, offset + l) touches.
Touched(n, offset, l) ==
    {k \in 1 .. n : (k - 1) * PageSize < offset + l /\ offset < k * PageSize}

\* The heap mapping with buffer page buf[k] backed by frames[k].
Remap(heap, buf, frames) ==
    [h \in HeapPages |->
        IF \E k \in DOMAIN buf : buf[k] = h
        THEN frames[CHOOSE k \in DOMAIN buf : buf[k] = h] ELSE heap[h]]


\* map_memory: allocate n consecutive heap pages (AllocError if there is no
\* such run), save their frames, assert that no source frame is one of
\* them, map the source frames over them, run the closure (it writes
\* Written through every touched page), then map the saved frames back.
MapMemory(st, addrs, offset, l) ==
    LET n == Len(addrs)
        runs == {b \in HeapPages :
                   \A k \in 0 .. n - 1 : b + k \in HeapPages \ st.heapUsed}
    IN IF runs = {} THEN {[st |-> st, res |-> "err"]}
       ELSE {LET buf == [k \in 1 .. n |-> b + k - 1]
                 existing == [k \in 1 .. n |-> st.heap[buf[k]]]
                 mapped == [st EXCEPT !.heap = Remap(@, buf, addrs)]
                 ran == [mapped EXCEPT !.mem = [f \in Frames |->
                            IF \E k \in Touched(n, offset, l) : mapped.heap[buf[k]] = f
                            THEN Written ELSE @[f]]]
             IN IF \E k, j \in 1 .. n : addrs[k] = existing[j]
                THEN [st |-> st, res |-> "panic"]
                ELSE [st |-> [ran EXCEPT !.heap = Remap(@, buf, existing)],
                      res |-> "ok"]
             : b \in runs}

\* Fault-injection variant of MapMemoryFrom: the closure gets the buffer
\* from its start instead of from the offset of addr in its page.
MapMemoryFromNoOffset(st, a, l) ==
    LET first == (a \div PageSize) * PageSize
        e == a + l
        last == IF e % PageSize # 0
                THEN (e \div PageSize) * PageSize + PageSize - 1 ELSE e
    IN UNION {IF g.res # "ok" THEN {[st |-> g.st, res |-> g.res]}
              ELSE MapMemory(g.st, g.addrs, 0, l)
              : g \in Gather(st, first, last, << >>)}

\* map_memory_from: round start down and end up (an unaligned end becomes
\* the last byte of its page, an aligned one stays), collect the frames,
\* then map_memory with the slice offset.
MapMemoryFrom(st, a, l) ==
    LET first == (a \div PageSize) * PageSize
        e == a + l
        last == IF e % PageSize # 0
                THEN (e \div PageSize) * PageSize + PageSize - 1 ELSE e
    IN UNION {IF g.res # "ok" THEN {[st |-> g.st, res |-> g.res]}
              ELSE MapMemory(g.st, g.addrs, a - first, l)
              : g \in Gather(st, first, last, << >>)}

Init ==
    /\ pre \in InitStates
    /\ cur \in {"F", "K"}
    /\ addr \in 0 .. Cardinality(Pages) * PageSize - 1
    /\ len \in 1 .. Cardinality(Pages) * PageSize - addr
    /\ post \in MapMemoryFrom(pre, addr, len)

\* Each state is one completed call.
Next == UNCHANGED vars

Spec == Init /\ [][Next]_vars

-----------------------------------------------------------------------------
(* Properties *)

\* spec.md sections 4.E and 8 (P5): when map_memory_from returns Ok, what
\* the closure wrote is in F's memory at every page of [addr, addr + len),
\* and the process O that shared F's copy-on-write frames sees none of it.
WritesLandInSource ==
    post.res = "ok" =>
        /\ \A p \in PageOf(addr) .. PageOf(addr + len - 1) :
              /\ post.st.dir["F"][p] # None
              /\ post.st.mem[post.st.dir["F"][p].addr] = Written
        /\ \A p \in Pages :
              pre.dir["O"][p] # None =>
                 /\ post.st.dir["O"][p] = pre.dir["O"][p]
                 /\ post.st.mem[pre.dir["O"][p].addr] = pre.mem[pre.dir["O"][p].addr]
=============================================================================
