---------------------------- MODULE MCQspiDriver ----------------------------
EXTENDS QspiDriver, TLC

(* The inputs of every run keep to what the calls rely on. *)
ASSUME InputsFit == CallersFit

MCEraseSize == <<2, 4, 8>>
Symmetry == Permutations(Task)
=============================================================================
