--------------------------- MODULE MC_TypeCasting ---------------------------
(* Integers of two and three bits stand for those of 8 and 16; a float of  *)
(* 32 bits holds most of their numbers, and one of 64 bits all of them.     *)
EXTENDS TypeCasting

MC_TopBit ==
  [s \in Sizes |-> CASE s = 8 -> 2^1 [] s = 16 -> 2^2 [] s = 32 -> 2^3 [] s = 64 -> 2^4]
MC_Limit == [s \in {32, 64} |-> IF s = 32 THEN 6 ELSE 12]
=============================================================================
