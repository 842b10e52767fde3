---------------------------- MODULE LoadBalance ----------------------------
(***************************************************************************)
(* The load-balancing queries of src/kernel/src/task/cpu.rs: the CPU is a  *)
(* list of cores, each a list of CPU threads, and each thread has a task   *)
(* queue with some waiting tasks and possibly a current task.  The four    *)
(* queries scan this topology in order, keeping the first best candidate  *)
(* (strict comparisons), as RECURSIVE operators.  The variables hold one   *)
(* topology and one caller; Init ranges over all small ones, and the       *)
(* invariants compare the scans with what their doc comments promise.     *)
(***************************************************************************)
EXTENDS Integers, Sequences, FiniteSets

CONSTANTS
    MaxCores,       \* cores a CPU may have
    MaxThreads,     \* threads a core may have
    MaxTasks,       \* waiting tasks a queue may hold
    None            \* Option::None

\* usize::MAX, the starting value of the minimum searches: larger than any
\* load a queue can have here.
UsizeMax == MaxTasks + 2

\* A CPU thread as the queries see it: task_queue.len() and whether
\* task_queue.current() is some.
Queue == [waiting : 0 .. MaxTasks, busy : BOOLEAN]

\* CPU.cores, each CPUCore.threads, indexed from 0 as the Vecs are.
Core == UNION {[0 .. k - 1 -> Queue] : k \in 0 .. MaxThreads}
Topology == UNION {[0 .. n - 1 -> Core] : n \in 0 .. MaxCores}

NumOf(f) == Cardinality(DOMAIN f)

VARIABLES
    cores,      \* CPU.cores
    caller      \* the ThreadID passed to find_thread_to_steal_from

vars == <<cores, caller>>

\* ThreadIDs that get_thread resolves.
ThreadIds == UNION {{[core |-> c, thread |-> t] : t \in DOMAIN cores[c]} : c \in DOMAIN cores}

\* The count find_emptiest_thread reads: queue.len() plus one for a
\* current task.
Load(q) == q.waiting + (IF q.busy THEN 1 ELSE 0)

\* Fault-injection variant of FindBusiestThread: counts the current task
\* too, as find_emptiest_thread does.
FindBusiestThreadWithCurrent(core) ==
    LET RECURSIVE Scan(_, _, _)
        Scan(i, best, n) ==
            IF i = NumOf(core) THEN best
            ELSE IF Load(core[i]) > n THEN Scan(i + 1, i, Load(core[i]))
            ELSE Scan(i + 1, best, n)
    IN Scan(0, None, 0)

\* CPUCore::find_busiest_thread: the first thread with the most waiting
\* tasks, if any has one.
FindBusiestThread(core) ==
    LET RECURSIVE Scan(_, _, _)
        Scan(i, best, n) ==
            IF i = NumOf(core) THEN best
            ELSE IF core[i].waiting > n THEN Scan(i + 1, i, core[i].waiting)
            ELSE Scan(i + 1, best, n)
    IN Scan(0, None, 0)

\* Fault-injection variant of FindEmptiestThread: the current task is not
\* counted.
FindEmptiestThreadNoCurrent(core) ==
    LET RECURSIVE Scan(_, _, _)
        Scan(i, best, n) ==
            IF i = NumOf(core) THEN IF best = None THEN None
                                    ELSE [thread |-> best, tasks |-> n]
            ELSE IF core[i].waiting < n THEN Scan(i + 1, i, core[i].waiting)
            ELSE Scan(i + 1, best, n)
    IN Scan(0, None, UsizeMax)

\* CPUCore::find_emptiest_thread: the first thread with the fewest tasks,
\* with that count; None for a core without threads.
FindEmptiestThread(core) ==
    LET RECURSIVE Scan(_, _, _)
        Scan(i, best, n) ==
            IF i = NumOf(core) THEN IF best = None THEN None
                                    ELSE [thread |-> best, tasks |-> n]
            ELSE IF Load(core[i]) < n THEN Scan(i + 1, i, Load(core[i]))
            ELSE Scan(i + 1, best, n)
    IN Scan(0, None, UsizeMax)

\* CPU::find_thread_to_steal_from: the busiest thread of the caller's own
\* core, else of the first other core that has a thread with waiting tasks.
\* A core index get returns nothing for ends the search (the `?`).
FindThreadToStealFrom(id) ==
    LET RECURSIVE Others(_)
        Others(c) ==
            IF c = NumOf(cores) THEN None
            ELSE IF c # id.core /\ FindBusiestThread(cores[c]) # None
            THEN [core |-> c, thread |-> FindBusiestThread(cores[c])]
            ELSE Others(c + 1)
    IN IF id.core \notin DOMAIN cores THEN None
       ELSE IF FindBusiestThread(cores[id.core]) # None
       THEN [core |-> id.core, thread |-> FindBusiestThread(cores[id.core])]
       ELSE Others(0)

\* CPU::find_thread_to_add_to: each core's emptiest thread in core order,
\* returned at once if it has no task; otherwise the first of the collected
\* candidates with the strictly smallest count.
FindThreadToAddTo ==
    LET RECURSIVE Collect(_, _)
        Collect(c, possible) ==
            IF c = NumOf(cores) THEN [early |-> None, possible |-> possible]
            ELSE LET e == FindEmptiestThread(cores[c]) IN
                 IF e = None THEN Collect(c + 1, possible)
                 ELSE IF e.tasks = 0
                 THEN [early |-> [core |-> c, thread |-> e.thread], possible |-> possible]
                 ELSE Collect(c + 1, Append(possible,
                        [id |-> [core |-> c, thread |-> e.thread], tasks |-> e.tasks]))
        scan == Collect(0, << >>)
        RECURSIVE Pick(_, _, _)
        Pick(i, best, n) ==
            IF i > Len(scan.possible) THEN best
            ELSE IF scan.possible[i].tasks < n
            THEN Pick(i + 1, scan.possible[i].id, scan.possible[i].tasks)
            ELSE Pick(i + 1, best, n)
    IN IF scan.early # None THEN scan.early ELSE Pick(1, None, UsizeMax)

Init ==
    /\ cores \in Topology
    /\ caller \in IF ThreadIds = {} THEN {None} ELSE ThreadIds

\* The input stays fixed: each state is one call of the queries.
Next == UNCHANGED vars

Spec == Init /\ [][Next]_vars

-----------------------------------------------------------------------------
(* Properties *)

LoadOf(id) == Load(cores[id.core][id.thread])
WaitingOf(id) == cores[id.core][id.thread].waiting

\* find_thread_to_add_to "searches through cores and threads in this CPU to
\* find the one with the least amount of tasks": it names a thread whose
\* queue, counting its current task, is as short as any, and nothing only
\* when the CPU has no thread.  The early return on an idle thread and the
\* per-core minimum must agree with the global one.
AddToLeastLoaded ==
    LET r == FindThreadToAddTo IN
    IF ThreadIds = {} THEN r = None
    ELSE r \in ThreadIds /\ \A j \in ThreadIds : LoadOf(r) <= LoadOf(j)

\* find_thread_to_steal_from "searches through threads in this CPU in
\* hierarchical order to find a thread with at least one extra task": it
\* names a thread with a waiting task, on the caller's own core whenever
\* that core has one, and the busiest of its core; nothing only when no
\* thread has a waiting task.
StealFindsWaitingTask ==
    caller # None =>
      LET r == FindThreadToStealFrom(caller)
          waitingIds == {j \in ThreadIds : WaitingOf(j) > 0}
      IN /\ (r = None) <=> (waitingIds = {})
         /\ r # None =>
              /\ WaitingOf(r) > 0
              /\ (\E j \in waitingIds : j.core = caller.core) => r.core = caller.core
              /\ \A t \in DOMAIN cores[r.core] :
                    cores[r.core][t].waiting <= WaitingOf(r)
=============================================================================
