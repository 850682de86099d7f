------------------------------ MODULE MCSocBus ------------------------------
(***************************************************************************)
(* Instances of SocBus: one actor with a threat of an agent, an identity   *)
(* anomaly and an EDR alert, the last two too far apart to be related, and *)
(* a second actor; the CrowdStrike and webhook services are configured.    *)
(***************************************************************************)
EXTENDS SocBus, TLC

CONSTANTS threat, travel, malware, other, ana, bob, h1

Actor == (threat :> ana) @@ (travel :> ana) @@ (malware :> ana) @@ (other :> bob)
Time == (threat :> 1) @@ (travel :> 2) @@ (malware :> 0) @@ (other :> 1)
Kind == (threat :> {"agent"}) @@ (travel :> {"identity"}) @@ (malware :> {"edr"}) @@ (other :> {"agent"})
Device == (threat :> NoHost) @@ (travel :> NoHost) @@ (malware :> h1) @@ (other :> NoHost)
Source == (threat :> "sonar") @@ (travel :> "okta") @@ (malware :> "falcon") @@ (other :> "sonar")

SonarRules == << [type |-> "injection", severity |-> "critical"],
                 [type |-> "anomaly", severity |-> "medium"] >>

EveryPlan ==
    { <<IngestTask(threat)>>, <<IngestTask(travel)>>, CrowdstrikeSync(<<malware, threat>>),
      TabletopCorrelated(travel, threat, {"anomaly"}, other),
      TabletopJailbreak(threat, {"injection", "anomaly"}, other), TabletopPolicy(other),
      <<[op |-> "run"]>>, <<[op |-> "update", status |-> "closed"]>>,
      <<[op |-> "update", status |-> None]>>, <<[op |-> "update", status |-> "acknowledged"]>>,
      <<[op |-> "bind", actor |-> ana, host |-> h1]>>, <<[op |-> "bind", actor |-> bob, host |-> h1]>> }
Symmetry == Permutations(Requests)
=============================================================================
