---------------------------- MODULE MCPointsLedger ---------------------------
(* Small instances of PointsLedger for TLC.                                *)
EXTENDS PointsLedger, TLC

MCAuthor == [f \in Feedbacks |-> CHOOSE u \in FirstUsers : TRUE]
MCGifts  == {[points |-> 2, days |-> 0], [points |-> 0, days |-> 1]}
Symmetry == Permutations(Threads)
=============================================================================
