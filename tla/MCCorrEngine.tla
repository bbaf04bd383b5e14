----------------------------- MODULE MCCorrEngine -----------------------------
(* Instances of CorrEngine for TLC.                                         *)
EXTENDS CorrEngine

CONSTANTS r1, r2, s1, s2   \* r1 belongs to window 1, r2 to the last window

MCWindowOf == [r \in Row |-> IF r = r1 THEN 1 ELSE MaxWindow]
=============================================================================
