----------------------------- MODULE RegionOps -----------------------------
(***************************************************************************)
(* The two address-range scans of src/kernel/src/mm/paging.rs, find_hole   *)
(* and validate_region, as RECURSIVE operators over wrapping machine       *)
(* addresses of AddrBits bits and a page of PageSize bytes (both scaled    *)
(* down from 32 and 4096 so that every rounding and overflow edge is       *)
(* reachable).  The variables hold one input; Init ranges over all small   *)
(* inputs and the invariants compare the scans with what they promise.     *)
(***************************************************************************)
EXTENDS Integers

CONSTANTS
    AddrBits,   \* width of usize
    PageSize,   \* D::PAGE_SIZE
    Sizes,      \* the values of `size` / `len` a caller may pass
    None        \* Option::None

ASSUME AddrBits \in Nat \ {0} /\ PageSize \in Nat \ {0}

Modulus == 2 ^ AddrBits
Word == 0 .. Modulus - 1
Aligned == {a \in Word : a % PageSize = 0}

ASSUME Sizes \subseteq Word

VARIABLES
    mapped,   \* the page addresses at which the directory has a page
    start,    \* `start` argument
    end,      \* `end` argument (find_hole)
    size      \* `size` (find_hole) or `len` (validate_region)

vars == <<mapped, start, end, size>>

\* usize addition and multiplication wrap (overflow checks are off in a
\* release build).
Wrap(n) == n % Modulus

\* Fault-injection variant of FindHole: a used page does not end the run.
FindHoleNoReset(used, lo, hi, sz) ==
    LET need == Wrap((sz \div PageSize) * PageSize + PageSize)
        RECURSIVE Scan(_, _)
        Scan(addr, holeStart) ==
            IF addr >= hi THEN None
            ELSE IF addr \in used THEN Scan(addr + PageSize, holeStart)
            ELSE IF holeStart = None THEN Scan(addr + PageSize, addr)
            ELSE IF addr - holeStart >= need THEN holeStart
            ELSE Scan(addr + PageSize, holeStart)
    IN Scan(lo, None)

\* find_hole: the size is rounded down to pages and one page is added; the
\* scan keeps the start of the current run of unused pages and returns it
\* once a page `size` bytes past it is also unused.
FindHole(used, lo, hi, sz) ==
    LET need == Wrap((sz \div PageSize) * PageSize + PageSize)
        RECURSIVE Scan(_, _)
        Scan(addr, holeStart) ==
            IF addr >= hi THEN None
            ELSE IF addr \in used THEN Scan(addr + PageSize, None)
            ELSE IF holeStart = None THEN Scan(addr + PageSize, addr)
            ELSE IF addr - holeStart >= need THEN holeStart
            ELSE Scan(addr + PageSize, holeStart)
    IN Scan(lo, None)

\* validate_region: round start down, compute the end from the rounded start
\* plus len, and require every page in between to be mapped.
ValidateRegion(used, st, len) ==
    LET first == (st \div PageSize) * PageSize
        last == Wrap((Wrap(first + len) \div PageSize) * PageSize + PageSize)
        RECURSIVE Check(_)
        Check(addr) ==
            IF addr >= last THEN TRUE
            ELSE IF addr \notin used THEN FALSE
            ELSE Check(addr + PageSize)
    IN Check(first)

Init ==
    /\ mapped \in SUBSET Aligned
    /\ start \in Aligned
    /\ end \in Aligned
    /\ size \in Sizes

\* The input stays fixed: each state is one call of the scans.
Next == UNCHANGED vars

Spec == Init /\ [][Next]_vars

-----------------------------------------------------------------------------
(* Properties *)

TypeOK ==
    /\ mapped \subseteq Aligned
    /\ start \in Aligned /\ end \in Aligned
    /\ size \in Sizes

\* Pages needed for `n` bytes, rounded up (spec.md section 4.i).
PagesFor(n) == (n + PageSize - 1) \div PageSize

IsHole(a, n) ==
    /\ a \in Aligned
    /\ start <= a /\ a + n * PageSize <= end
    /\ \A i \in 0 .. n - 1 : a + i * PageSize \notin mapped

\* find_hole only returns a page-aligned address in [start, end) from which
\* `size` bytes, rounded up to pages, are unused and end by `end`.
FindHoleSound ==
    LET r == FindHole(mapped, start, end, size) IN
    r # None => IsHole(r, PagesFor(size))

\* validate_region returns true only if every page that overlaps
\* [start, start + len) is mapped (the syscall layer relies on it before it
\* touches a user pointer).  Here `start` ranges over aligned and unaligned
\* pointers alike: the rounding of validate_region is what is checked.
ValidateRegionSound ==
    \A off \in 0 .. PageSize - 1 :
        LET st == Wrap(start + off) IN
        (size > 0 /\ ValidateRegion(mapped, st, size))
            => \A b \in st .. st + size - 1 :
                   (Wrap(b) \div PageSize) * PageSize \in mapped
=============================================================================
