------------------------------ MODULE MCLogin ------------------------------
(***************************************************************************)
(* Instances of Login: an account of the seed and one that only single     *)
(* sign-on knows.                                                          *)
(***************************************************************************)
EXTENDS Login, TLC

CONSTANTS r1, r2, admin, guest

Symmetry == Permutations(Workers)
=============================================================================
