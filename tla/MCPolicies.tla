----------------------------- MODULE MCPolicies -----------------------------
(***************************************************************************)
(* Instances of Policies: one seeded policy, two ids for created ones; a   *)
(* tool of which calls come with high and with low trust.                  *)
(***************************************************************************)
EXTENDS Policies, TLC

CONSTANTS seed, p1, p2, d1, c1, c2, r1, r2

Symmetry == Permutations({r1, r2}) \cup Permutations({c1, c2}) \cup Permutations({p1, p2})

ShellRow == seed :> [rule |-> [tool |-> "shell", min_trust_score |-> 80, action |-> "require_approval"],
                     priority |-> 130, enabled |-> TRUE]
Permit == [effect |-> "permit", tool |-> "shell", trust |-> {95}, approval |-> FALSE]
Forbid == [effect |-> "forbid", tool |-> "shell", trust |-> {}, approval |-> FALSE]
Lists == {<<Permit, Forbid>>}
NewRules == { [rule |-> [tool |-> "shell", pattern |-> "rm", action |-> "deny"], priority |-> 100] }
ShellCalls == { [tool |-> "shell", trust |-> 90, status |-> "active", text |-> {"rm"}] }
Documents == { << [tools |-> {"shell"}, says |-> "must not"], [tools |-> {"shell"}, says |-> "approval"] >> }
=============================================================================
