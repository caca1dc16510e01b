----------------------------- MODULE MCSysVShm -----------------------------
\* Instances of SysVShm for TLC.
EXTENDS SysVShm, TLC

MCLen    == 1 :> 4 @@ 2 :> 12
Symmetry == Permutations(Proc) \cup Permutations(Seg)
=============================================================================
