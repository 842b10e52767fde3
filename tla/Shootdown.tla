----------------------------- MODULE Shootdown -----------------------------
(***************************************************************************)
(* The urgent-message channel of src/kernel/src/task/cpu.rs and the page   *)
(* manager accessor get_page_manager of src/kernel/src/mm/paging.rs, which *)
(* together keep the TLBs of the CPU threads coherent (spec.md 4.H).       *)
(*                                                                         *)
(* Each CPU thread runs a task of some process (its task queue's current   *)
(* task, whose directory is in CR3) and may cache translations in its TLB. *)
(* A thread that holds the page-manager lock commits an update of a page   *)
(* of a process or of the kernel, sends an UrgentMessage to every other    *)
(* thread and waits until they have processed it.  A thread that finds    *)
(* the lock taken drains its own urgent queue while it spins, and every    *)
(* thread drains it at scheduling points.                                  *)
(*                                                                         *)
(* The sending and waiting side lives in mm/sync.rs, which is not part of  *)
(* the source tree; it is modelled from spec.md 4.H.  `stale[t]` is the    *)
(* set of translations t's TLB may hold that no longer match memory.       *)
(***************************************************************************)
EXTENDS Integers, Sequences

CONSTANTS
    Threads,    \* CPU threads (ThreadID)
    Procs,      \* process ids
    Addrs,      \* page addresses that are updated
    None        \* Option::None

Kernel == "kernel"
Spaces == Procs \cup {Kernel}

\* UrgentMessage::TaskPageUpdate and UrgentMessage::KernelPageUpdate.
Message ==
    [kind : {"task"}, process_id : Procs, addr : Addrs]
      \cup [kind : {"kernel"}, addr : Addrs]

\* A translation a TLB may cache: an address in a process's or the kernel's
\* half of the address space.
Translation == [space : Spaces, addr : Addrs]

VARIABLES
    running,    \* running[t]: the process of t's current task (and CR3)
    stale,      \* stale[t]: translations t's TLB holds that memory no longer has
    urgent,     \* urgent[t]: CPUThread.urgent_message_queue
    owner,      \* the thread holding the page-manager lock, or None
    pc,         \* pc[t]: where thread t is
    work        \* work[t]: the message t is sending and the threads still to get it

vars == <<running, stale, urgent, owner, pc, work>>

\* The translation an UrgentMessage is about.
Target(m) ==
    [space |-> IF m.kind = "task" THEN m.process_id ELSE Kernel, addr |-> m.addr]

\* The match in process_urgent_messages: a task page is flushed only if the
\* thread's current task belongs to the message's process; a kernel page
\* always (crate::arch::refresh_page).
Flushed(t, m) ==
    IF m.kind = "kernel" \/ running[t] = m.process_id THEN {Target(m)} ELSE {}

Init ==
    /\ running \in [Threads -> Procs]
    /\ stale = [t \in Threads |-> {}]
    /\ urgent = [t \in Threads |-> << >>]
    /\ owner = None
    /\ pc = [t \in Threads |-> "run"]
    /\ work = [t \in Threads |-> None]

\* Fault-injection variant of TryLock: a failed try_lock retries at once
\* without draining the urgent queue.
TryLockNoDrain(t) ==
    /\ pc[t] \in {"run", "spin"}
    /\ IF owner = None
         THEN owner' = t /\ pc' = [pc EXCEPT ![t] = "hold"]
         ELSE pc' = [pc EXCEPT ![t] = "spin"] /\ UNCHANGED owner
    /\ UNCHANGED <<running, stale, urgent, work>>

\* get_page_manager: manager.try_lock(); on success return the guard, on
\* failure run process_urgent_messages and loop.
TryLock(t) ==
    /\ pc[t] \in {"run", "spin"}
    /\ IF owner = None
         THEN owner' = t /\ pc' = [pc EXCEPT ![t] = "hold"]
         ELSE pc' = [pc EXCEPT ![t] = "drain"] /\ UNCHANGED owner
    /\ UNCHANGED <<running, stale, urgent, work>>

\* One iteration of process_urgent_messages: pop_front under the queue
\* lock, which the while-let keeps for the whole body, then the match and
\* refresh_page.  An empty queue ends the call: back to the spin loop of
\* get_page_manager, or to the scheduling point that called it.
Drain(t) ==
    /\ pc[t] \in {"drain", "sched"}
    /\ IF urgent[t] = << >>
         THEN /\ pc' = [pc EXCEPT ![t] = IF @ = "drain" THEN "spin" ELSE "run"]
              /\ UNCHANGED <<stale, urgent>>
         ELSE /\ urgent' = [urgent EXCEPT ![t] = Tail(@)]
              /\ stale' = [stale EXCEPT ![t] = @ \ Flushed(t, Head(urgent[t]))]
              /\ UNCHANGED pc
    /\ UNCHANGED <<running, owner, work>>

\* A scheduling point drains the urgent queue (spec.md 4.H).
Schedule(t) ==
    /\ pc[t] = "run"
    /\ pc' = [pc EXCEPT ![t] = "sched"]
    /\ UNCHANGED <<running, stale, urgent, owner, work>>

\* Fault-injection variant of SwitchTo: loading CR3 leaves the TLB as it is.
SwitchToKeepTlb(t, p) ==
    /\ pc[t] = "run"
    /\ running' = [running EXCEPT ![t] = p]
    /\ UNCHANGED <<stale, urgent, owner, pc, work>>

\* A context switch to a task of process p ends in PageDir::switch_to,
\* which writes CR3.  That flushes every TLB entry without the Global bit,
\* and set_page never sets it (see HwPageDir), so the whole TLB.
SwitchTo(t, p) ==
    /\ pc[t] = "run"
    /\ running' = [running EXCEPT ![t] = p]
    /\ stale' = [stale EXCEPT ![t] = {}]
    /\ UNCHANGED <<urgent, owner, pc, work>>

\* The lock holder commits set_page on address a of the space s: every
\* other thread that may have it cached (every thread for the kernel half,
\* the threads running s otherwise) now holds a stale translation; the
\* holder's own set_page flushes its entry.  It then sends the message.
Update(t, s, a) ==
    /\ pc[t] = "hold"
    /\ LET m == IF s = Kernel THEN [kind |-> "kernel", addr |-> a]
                ELSE [kind |-> "task", process_id |-> s, addr |-> a]
       IN /\ stale' = [u \in Threads |->
                         IF u # t /\ (s = Kernel \/ running[u] = s)
                         THEN stale[u] \cup {Target(m)} ELSE stale[u]]
          /\ work' = [work EXCEPT ![t] = [msg |-> m, to |-> Threads \ {t}]]
    /\ pc' = [pc EXCEPT ![t] = "send"]
    /\ UNCHANGED <<running, urgent, owner>>

\* send_urgent_message to one thread: lock its queue, push_back.
SendUrgentMessage(t, u) ==
    /\ pc[t] = "send"
    /\ u \in work[t].to
    /\ urgent' = [urgent EXCEPT ![u] = Append(@, work[t].msg)]
    /\ work' = [work EXCEPT ![t].to = @ \ {u}]
    /\ UNCHANGED <<running, stale, owner, pc>>

\* Every thread has been sent the message; wait for them to process it.
Sent(t) ==
    /\ pc[t] = "send"
    /\ work[t].to = {}
    /\ pc' = [pc EXCEPT ![t] = "wait"]
    /\ UNCHANGED <<running, stale, urgent, owner, work>>

\* The message is gone from every queue: drop the page-manager guard.
Acknowledged(t) ==
    /\ pc[t] = "wait"
    /\ \A u \in Threads : \A i \in DOMAIN urgent[u] : urgent[u][i] # work[t].msg
    /\ owner' = None
    /\ pc' = [pc EXCEPT ![t] = "run"]
    /\ work' = [work EXCEPT ![t] = None]
    /\ UNCHANGED <<running, stale, urgent>>

\* The holder used the page manager without changing a mapping.
Unlock(t) ==
    /\ pc[t] = "hold"
    /\ owner' = None
    /\ pc' = [pc EXCEPT ![t] = "run"]
    /\ UNCHANGED <<running, stale, urgent, work>>

ThreadStep(t) ==
    \/ TryLock(t)
    \/ Drain(t)
    \/ Schedule(t)
    \/ \E p \in Procs : SwitchTo(t, p)
    \/ \E s \in Spaces, a \in Addrs : Update(t, s, a)
    \/ \E u \in Threads : SendUrgentMessage(t, u)
    \/ Sent(t)
    \/ Acknowledged(t)
    \/ Unlock(t)

Next == \E t \in Threads : ThreadStep(t)

\* Timer interrupts bring every running thread to a scheduling point; the
\* spin loop of get_page_manager retries and drains without blocking; a
\* lock holder runs to the end of its critical section.  Nothing obliges a
\* thread to call get_page_manager or to switch tasks.
Fairness ==
    \A t \in Threads :
        /\ WF_vars(Schedule(t))
        /\ WF_vars(Drain(t))
        /\ WF_vars(pc[t] = "spin" /\ TryLock(t))
        /\ WF_vars(Unlock(t))
        /\ WF_vars(\E u \in Threads : SendUrgentMessage(t, u))
        /\ WF_vars(Sent(t))
        /\ WF_vars(Acknowledged(t))

Spec == Init /\ [][Next]_vars /\ Fairness

-----------------------------------------------------------------------------
(* Properties *)

TypeOK ==
    /\ running \in [Threads -> Procs]
    /\ stale \in [Threads -> SUBSET Translation]
    /\ urgent \in [Threads -> Seq(Message)]
    /\ owner \in Threads \cup {None}
    /\ pc \in [Threads -> {"run", "spin", "drain", "sched", "hold", "send", "wait"}]
    /\ work \in [Threads -> [msg : Message, to : SUBSET Threads] \cup {None}]

\* Every stale translation in a thread's TLB is still covered by the update
\* that made it stale: its UrgentMessage is waiting in that thread's queue,
\* or the sender has yet to send it there.  So what process_urgent_messages
\* skips (a task page of a process the thread is not running) must have
\* been flushed by the CR3 load of switch_to.
StaleCovered ==
    \A u \in Threads : \A e \in stale[u] :
        \/ \E i \in DOMAIN urgent[u] : Target(urgent[u][i]) = e
        \/ \E t \in Threads : work[t] # None /\ u \in work[t].to
                              /\ Target(work[t].msg) = e

\* A thread that holds the page manager and has started a shootdown
\* eventually gets every acknowledgement and releases the lock: the other
\* threads drain their queues, in particular while they spin on the lock
\* the sender holds (the deadlock the drain in get_page_manager breaks).
UpdateCompletes ==
    \A t \in Threads : pc[t] = "send" ~> pc[t] = "run"
=============================================================================
