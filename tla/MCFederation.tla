---------------------------- MODULE MCFederation ----------------------------
(***************************************************************************)
(* Instances of Federation: two catalogs, of which the seed masks a column *)
(* of its own in each; queries of each, of both and a refused one;         *)
(* requests that share a key or have one each.                             *)
(***************************************************************************)
EXTENDS Federation, TLC

CONSTANTS crm, orders, email, total

Mask == (crm :> {email}) @@ (orders :> {total})
Lists == {<<>>, <<orders, crm>>}
Topics == << [topic |-> "customer", refs |-> <<crm>>],
             [topic |-> "order", refs |-> <<orders>>] >>
Customers == <<crm>>
Symmetry == Permutations(Requests)
=============================================================================
