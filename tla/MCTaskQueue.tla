---------------------------- MODULE MCTaskQueue ----------------------------
(* TaskQueue with two processes and small sets of i8 priorities.          *)
EXTENDS TaskQueue

CONSTANTS p1, p2

\* Two threads in each process.
TwoTasksEach == {p1, p2} \X {0, 1}

\* The ends and the middle of the range -7 .. 8 that the u8 encoding of
\* TaskQueueEntry::new keeps in order.
MCPrios == {-7, 0, 8}
=============================================================================
