----------------------------- MODULE MCHitlGate -----------------------------
(***************************************************************************)
(* Instances of HitlGate: sessions whose listed calls have names of their  *)
(* own, the three deployments the environment variables distinguish, and   *)
(* operators who decide any call at any time.                              *)
(***************************************************************************)
EXTENDS HitlGate

MCPrefix == [s \in Sessions |-> s]

Deployment(blocking, autoApprove, postgres) ==
    [blocking |-> blocking, autoApprove |-> autoApprove, postgres |-> postgres]
MCConsole == Deployment(FALSE, FALSE, FALSE)
MCWaiting == Deployment(TRUE, FALSE, FALSE)
MCDevelopment == Deployment(TRUE, TRUE, FALSE)
MCScaled == Deployment(TRUE, FALSE, TRUE)

MCModes == {MCConsole, MCWaiting, MCDevelopment, MCScaled}
MCConsoleOnly == {MCConsole}
MCScaledOnly == {MCScaled}
=============================================================================
