----------------------------- MODULE TaskQueue -----------------------------
(***************************************************************************)
(* The per-CPU task queue of src/kernel/src/task/queue.rs: the current     *)
(* task and a VecDeque of waiting tasks kept in descending priority.  The  *)
(* queue is only touched under its Mutex, so each method is one step.      *)
(* A history variable `arrivals` records the tasks the callers have put   *)
(* in and not taken out again, in the order of the insert calls, so that  *)
(* the properties can compare the queue with what the calls asked for.    *)
(***************************************************************************)
EXTENDS Integers, Sequences, SequencesExt

CONSTANTS
    Tasks,      \* ProcessIDs: pairs <<process, thread>>
    Prios,      \* the i8 priorities callers pass to TaskQueueEntry::new
    None        \* Option::None

VARIABLES
    current,    \* TaskQueue.current
    queue,      \* TaskQueue.queue
    arrivals    \* history: ids inserted and not yet consumed or removed, by last insert

vars == <<current, queue, arrivals>>

Processes == {t[1] : t \in Tasks}

\* TaskQueueEntry::new: (((priority + 7) as u8) << 4) | 7, in u8 arithmetic.
FullPriority(prio) == ((((prio + 7) % 256) * 16) % 256) + 7

Entry == [id : Tasks, prio : 0 .. 255]

Ids(q) == {q[i].id : i \in DOMAIN q}

\* The tasks the callers expect in the queue.
expected == ToSet(arrivals)

\* arrivals without the tasks that satisfy `gone`, the others keeping
\* their order.
Forget(gone(_)) == SelectSeq(arrivals, LAMBDA t : ~gone(t))

\* Fault-injection variant of InsertPosition: the new entry goes before the
\* first entry of equal or lower priority.
InsertPositionAhead(q, e) ==
    LET lower == {i \in DOMAIN q : e.prio >= q[i].prio} IN
    IF lower = {} THEN Len(q) + 1 ELSE Min(lower)

\* Fault-injection variant of InsertPosition: insert_position is never set,
\* so every entry is pushed at the back.
InsertPositionPushBack(q, e) == Len(q) + 1

\* The loop of insert: the first index whose entry has a strictly lower
\* priority than the new one, or the back of the queue.
InsertPosition(q, e) ==
    LET lower == {i \in DOMAIN q : e.prio > q[i].prio} IN
    IF lower = {} THEN Len(q) + 1 ELSE Min(lower)

Init ==
    /\ current = None
    /\ queue = << >>
    /\ arrivals = << >>

\* insert: Err(Exists) if the id is already queued, else insert at
\* InsertPosition (queue.insert(index) or push_back).
Insert(id, prio) ==
    LET e == [id |-> id, prio |-> FullPriority(prio)] IN
    /\ id \notin Ids(queue)
    /\ queue' = InsertAt(queue, InsertPosition(queue, e), e)
    /\ arrivals' = Append(Forget(LAMBDA t : t = id), id)
    /\ UNCHANGED current

\* consume: current = queue.pop_front().
Consume ==
    /\ IF queue = << >>
         THEN /\ current' = None
              /\ UNCHANGED <<queue, arrivals>>
         ELSE /\ current' = Head(queue)
              /\ queue' = Tail(queue)
              /\ arrivals' = Forget(LAMBDA t : t = Head(queue).id)

\* remove_thread: remove the first entry with this id, if any.
RemoveThread(id) ==
    LET at == {i \in DOMAIN queue : queue[i].id = id} IN
    /\ queue' = IF at = {} THEN queue ELSE RemoveAt(queue, Min(at))
    /\ arrivals' = Forget(LAMBDA t : t = id)
    /\ UNCHANGED current

\* The loop of remove_process: VecDeque::remove at each collected index in
\* ascending order, on the queue as already shortened by earlier removals;
\* an index past the end removes nothing.
RECURSIVE RemoveIndices(_, _)
RemoveIndices(q, idx) ==
    IF idx = << >> THEN q
    ELSE RemoveIndices(IF Head(idx) <= Len(q) THEN RemoveAt(q, Head(idx)) ELSE q,
                       Tail(idx))

\* remove_process: collect the indices of the process's entries, then
\* remove them one by one.
RemoveProcess(pid) ==
    /\ queue' = RemoveIndices(queue,
                   SetToSortSeq({i \in DOMAIN queue : queue[i].id[1] = pid}, <))
    /\ arrivals' = Forget(LAMBDA t : t[1] = pid)
    /\ UNCHANGED current

Next ==
    \/ \E id \in Tasks, p \in Prios : Insert(id, p)
    \/ Consume
    \/ \E id \in Tasks : RemoveThread(id)
    \/ \E pid \in Processes : RemoveProcess(pid)

Spec == Init /\ [][Next]_vars

-----------------------------------------------------------------------------
(* Properties *)

TypeOK ==
    /\ current \in Entry \cup {None}
    /\ queue \in Seq(Entry)
    /\ arrivals \in Seq(Tasks)

\* The waiting tasks are in descending full priority, so consume always
\* hands out a task of the highest priority waiting.
QueueSorted ==
    \A i \in 1 .. Len(queue) - 1 : queue[i].prio >= queue[i + 1].prio

\* Tasks of equal priority are consumed in the order they were inserted:
\* insert places a task after every waiting task of the same full priority,
\* so equal-priority threads take turns.  Compared with the order of the
\* insert calls, across removals of other tasks; a task that a removal
\* wrongly left behind is QueueMatchesCalls's concern and is not compared.
EqualPriorityFifo ==
    \A i, j \in DOMAIN queue :
        (i < j /\ queue[i].prio = queue[j].prio
               /\ {queue[i].id, queue[j].id} \subseteq expected) =>
            \E k, l \in DOMAIN arrivals :
                k < l /\ arrivals[k] = queue[i].id /\ arrivals[l] = queue[j].id

\* The queue holds exactly the tasks its callers have inserted and not yet
\* consumed or removed: remove_thread and remove_process remove the tasks
\* asked for, and no other task is lost.
QueueMatchesCalls == Ids(queue) = expected
=============================================================================
