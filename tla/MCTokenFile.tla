---------------------------- MODULE MCTokenFile ----------------------------
(***************************************************************************)
(* TokenFile with interchangeable inodes and readers; Spec has no fairness *)
(* and every property is one of safety.                                    *)
(***************************************************************************)
EXTENDS TokenFile, TLC

Symmetry == Permutations(Inodes) \union Permutations(Readers)
=============================================================================
