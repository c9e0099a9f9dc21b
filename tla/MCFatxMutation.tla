---------------------------- MODULE MCFatxMutation ----------------------------
(* FatxMutation for TLC: names can be exchanged for each other.            *)
EXTENDS FatxMutation, TLC

NameSymmetry == Permutations(Name)
=============================================================================
