------------------------------ MODULE MCLattice ------------------------------
(***************************************************************************)
(* An instance of Lattice: two jobs whose hashes fall on one worker of a   *)
(* pool of one and on two of a pool of two, and requests that ask for no   *)
(* worker, for one and for more than there may be.                         *)
(***************************************************************************)
EXTENDS Lattice, TLC

CONSTANTS j1, j2
MCHash == (j1 :> 0) @@ (j2 :> 1)
=============================================================================
