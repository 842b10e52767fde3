---------------------------- MODULE MCRegionOps ----------------------------
(* RegionOps with 5-bit addresses and 4-byte pages: eight pages.           *)
EXTENDS RegionOps

\* Sizes whose rounding in find_hole does not wrap past the top of memory.
SizesNoWrap == 0 .. Modulus - PageSize - 1

\* Every usize value.
AllSizes == Word
=============================================================================
