--------------------------- MODULE MCBagLearning ----------------------------
(***************************************************************************)
(* Learning with interchangeable names: nothing in the learner compares    *)
(* two names but for equality, and the properties checked are safety.      *)
(***************************************************************************)
EXTENDS BagLearning, TLC

Symmetry == Permutations(Names)

=============================================================================
