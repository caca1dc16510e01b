------------------------------ MODULE MCMySQL ------------------------------
\* Instances of MySQL for TLC.
EXTENDS MySQL, TLC

Symmetry == Permutations(Addr) \cup Permutations(Zvals)
=============================================================================
