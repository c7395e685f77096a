------------------------- MODULE MCSearchSession -------------------------
(* SearchSession on two addresses with two possible contents, two fixed     *)
(* widths and byte sequences of two lengths.                                *)
EXTENDS SearchSession, TLC

MCTypes == {"int32", "int64", "bytes"}
MCWidth == [t \in MCTypes |-> CASE t = "int32" -> 4 [] t = "int64" -> 8 [] t = "bytes" -> 0]
TwoTypes == {"int32", "bytes"}
TwoWidth == [t \in TwoTypes |-> IF t = "int32" THEN 4 ELSE 0]
ActorSymmetry == Permutations(Actors)
=============================================================================
