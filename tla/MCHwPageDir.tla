---------------------------- MODULE MCHwPageDir ----------------------------
(* HwPageDir with two slots of two entries of four bytes: slot 1 (bytes    *)
(* 8 .. 15) is the kernel half.  Two process directories, two heap tables, *)
(* one kernel page mapped at boot.                                         *)
EXTENDS HwPageDir, TLC

CONSTANTS c1, c2, d1, d2, kd, ht1, ht2, bt, f1, f2, fh

MCCPUsOne == {c1}
MCCPUsTwo == {c1, c2}
MCDirs == {d1, d2}
MCHeapTables == {ht1, ht2}
MCFrames == {f1, f2}

\* One frame value: set_page still tells a mapping from no mapping.
MCOneFrame == {f1}

\* A frame above 4 GiB, which set_page cannot encode, next to f1.
MCOneFrameHigh == {f1, fh}
MCHighFrames == {fh}
MCNoHighFrames == {}

\* The boot code maps kernel page 2 (byte 8) to frame f1.
MCBootMap == 2 :> f1
=============================================================================
