------------------------------- MODULE MCIni -------------------------------
\* Instances of Ini for TLC.
EXTENDS Ini, TLC

CONSTANTS d1, d2

MCRank   == d1 :> 1 @@ d2 :> 2
MCHandlers ==
  d1 :> {"string", "serializer", "callback"} @@ d2 :> {"unempty", "int", "encoding"}
Symmetry   == Permutations(Addr)
=============================================================================
