-------------------------- MODULE AbstractPageDir --------------------------
(***************************************************************************)
(* What the PageDirectory trait of src/kernel/src/mm/paging.rs promises    *)
(* (spec.md section 3): a directory is a partial map from virtual pages to *)
(* PageFrames.  get_page returns what the last set_page at that page       *)
(* stored; a new directory maps nothing; a destroyed one is gone.          *)
(***************************************************************************)
CONSTANTS
    DirIds,     \* directories that may exist
    VPages,     \* virtual page numbers
    Frames,     \* PageFrame values callers store
    None        \* Option::None

VARIABLES
    exists,     \* directories that currently exist
    map         \* map[d][v]: the PageFrame at page v of d, or None

avars == <<exists, map>>

Empty == [v \in VPages |-> None]

AInit ==
    /\ exists \in SUBSET DirIds
    /\ map \in [DirIds -> [VPages -> Frames \cup {None}]]
    /\ \A d \in DirIds \ exists : map[d] = Empty

Create(d) ==
    /\ d \notin exists
    /\ exists' = exists \cup {d}
    /\ UNCHANGED map

Set(d, v, p) ==
    /\ d \in exists
    /\ map' = [map EXCEPT ![d][v] = p]
    /\ UNCHANGED exists

Destroy(d) ==
    /\ d \in exists
    /\ exists' = exists \ {d}
    /\ map' = [map EXCEPT ![d] = Empty]

ANext ==
    \E d \in DirIds :
        \/ Create(d)
        \/ Destroy(d)
        \/ \E v \in VPages, p \in Frames \cup {None} : Set(d, v, p)

ASpec == AInit /\ [][ANext]_avars
=============================================================================
