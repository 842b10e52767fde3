---------------------------- MODULE MCCowPaging ----------------------------
(* Instances of CowPaging for TLC: processes right after a fork sharing  *)
(* two user pages, two kernel-heap buffers and a few free frames.         *)
EXTENDS CowPaging, TLC

CONSTANTS p1, p2, p3, t1, t2, t3, h1, h2

MCProcs == {p1, p2}
MCThreads == {t1, t2}
MCHeapSlots == {h1, h2}
MCPages == {0, 1}
MCFrames == 0 .. 4
MCVals == {0, 1}
MCInitFrameOf == [v \in MCPages |-> v]
MCInitHeapFrame == [s \in MCHeapSlots |-> IF s = h1 THEN 2 ELSE 3]

\* One CPU thread per process.
OneThreadEach == [t \in MCThreads |-> IF t = t1 THEN p1 ELSE p2]

\* Three processes right after a fork, one CPU thread each: each shared
\* frame starts with three references, so a sharer copies while two others
\* still share, the last one takes the page in place, and six frames leave
\* two free, so that later copies meet NoAvailableFrames.
MCProcs3 == {p1, p2, p3}
MCThreads3 == {t1, t2, t3}
MCFrames6 == 0 .. 5
OneThreadEach3 == [t \in MCThreads3 |-> CASE t = t1 -> p1 [] t = t2 -> p2 [] OTHER -> p3]

\* The forked processes start identical, so renaming them, each together
\* with its CPU thread, maps behaviours to behaviours and keeps every
\* property: a symmetry for TLC.
PT == <<<<p1, t1>>, <<p2, t2>>, <<p3, t3>>>>
Renaming(s) ==
    [x \in MCProcs3 \cup MCThreads3 |->
        LET i == CHOOSE i \in 1 .. 3 : x \in {PT[i][1], PT[i][2]}
        IN IF x = PT[i][1] THEN PT[s[i]][1] ELSE PT[s[i]][2]]
ForkSymmetry == {Renaming(s) : s \in Permutations(1 .. 3)}

\* Both CPU threads run tasks of process p1.
SameProcess == [t \in MCThreads |-> p1]
=============================================================================
