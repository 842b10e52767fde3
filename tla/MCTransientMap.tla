--------------------------- MODULE MCTransientMap ---------------------------
(* TransientMap with three user pages of two bytes, five heap pages and    *)
(* two spare frames.  Frame p backs user page p, frame 3 + h heap page h.  *)
(* Frame contents start as the frame's own number.                         *)
EXTENDS TransientMap

MCPages == 0 .. 2
MCHeapPages == 0 .. 4
MCFrames == 0 .. 9

\* A value no frame starts with.
MCWritten == -1

\* What F has at a page: nothing, a private writable frame, a
\* copy-on-write frame shared with O (count 2), or a copy-on-write frame
\* O has given up (count 1).
StateOf(kind) ==
    LET cowE(p) == [addr |-> p, writable |-> FALSE, cow |-> TRUE, ref |-> TRUE]
    IN
    [dir |-> [F |-> [p \in MCPages |->
                       CASE kind[p] = "none" -> None
                         [] kind[p] = "private" ->
                              [addr |-> p, writable |-> TRUE, cow |-> FALSE, ref |-> FALSE]
                         [] OTHER -> cowE(p)],
              O |-> [p \in MCPages |-> IF kind[p] = "shared" THEN cowE(p) ELSE None]],
     heap |-> [h \in MCHeapPages |-> 3 + h],
     heapUsed |-> {},
     refs |-> [f \in MCFrames |->
                 IF f \in MCPages THEN CASE kind[f] = "shared" -> 2
                                         [] kind[f] = "sole" -> 1
                                         [] OTHER -> 0
                 ELSE 0],
     frameSet |-> {p \in MCPages : kind[p] # "none"} \cup 3 .. 7,
     mem |-> [f \in MCFrames |-> f]]

\* Sources without copy-on-write pages.
PlainStates == {StateOf(k) : k \in [MCPages -> {"none", "private"}]}

\* Sources with copy-on-write pages too.
CowStates == {StateOf(k) : k \in [MCPages -> {"none", "private", "shared", "sole"}]}
=============================================================================
