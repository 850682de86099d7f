---------------------------- MODULE MCAdmission ----------------------------
(***************************************************************************)
(* Instances of Admission: an agent and one that is defined meanwhile, two *)
(* profiles that match only themselves, requests that overlap.             *)
(***************************************************************************)
EXTENDS Admission, TLC

CONSTANTS p1, p2

OwnProfile == {<<p1, p1>>, <<p2, p2>>}
Symmetry == Permutations(Requests)
=============================================================================
