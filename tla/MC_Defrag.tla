------------------------------ MODULE MC_Defrag ------------------------------
EXTENDS Defrag

(* Keys that differ in objectid only, in type only, and in both, so that *)
(* the field-by-field test and the key order can disagree.               *)
MCKeySpace == {Key(1, 1, 0), Key(1, 2, 0), Key(2, 1, 0), Key(2, 2, 0)}
MCKinds == {"fs", "extent", "unshareable"}
MCLevels == {0, 1, 2}
MCMaxChanges == 1
MCMaxFaults == 1
MCNoChanges == 0
MCNoFaults == 0
=============================================================================
