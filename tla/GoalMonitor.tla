----------------------------- MODULE GoalMonitor -----------------------------
(***************************************************************************)
(* The goal monitor of one agent session                                   *)
(* (clearframe/clearframe/monitor/goal_monitor.py), with the part of the   *)
(* goal manifest it reads (clearframe/clearframe/core/manifest.py).        *)
(*                                                                         *)
(* Scores are integers in percent: the code's 1.0, 0.30, 0.10 and 0.04 are *)
(* 100, 30, 10 and 4, so its round(..., 3) is exact here.  What a call's   *)
(* arguments contribute is abstracted to two facts the scoring reads: is   *)
(* the target outside every allowed domain, and how many words the call    *)
(* shares with the goal.                                                   *)
(***************************************************************************)
EXTENDS Integers, FiniteSets, Sequences

CONSTANTS
    Tools,               \* every tool name a caller may ask for
    Permission,          \* permitted tool -> [limit, approval]: its ToolPermission
    Unlimited,           \* max_calls_per_session = None
    FileWriteTools,      \* the names of the file-write hard block
    CodeExecTools,       \* the names of the code-execution hard block
    WebTools,            \* the names the domain check applies to
    AllowFileWrite,      \* GoalManifest.allow_file_write
    AllowCodeExecution,  \* GoalManifest.allow_code_execution
    DomainsDeclared,     \* resource_scope.allowed_domains is not empty
    AutoApproveThreshold, AlignmentThreshold,
    MaxConsecutiveLow, PauseOnAmbiguous

Permitted == DOMAIN Permission

ASSUME MonitorAssumption ==
    /\ Permitted \subseteq Tools
    /\ Unlimited \notin Nat
    /\ Permission \in [Permitted -> [limit : Nat \cup {Unlimited}, approval : BOOLEAN]]
    /\ {AllowFileWrite, AllowCodeExecution, DomainsDeclared, PauseOnAmbiguous}
         \subseteq BOOLEAN
    /\ {AutoApproveThreshold, AlignmentThreshold} \subseteq 0..100
    /\ MaxConsecutiveLow \in Nat \ {0}

VARIABLES
    callCounts,          \* _call_counts, 0 for a tool never counted
    consecutiveLow,      \* _consecutive_low
    suspended            \* _suspended

monitorVars == <<callCounts, consecutiveLow, suspended>>

MonitorTypeOK ==
    /\ callCounts \in [Tools -> Nat]
    /\ consecutiveLow \in Nat
    /\ suspended \in BOOLEAN

MonitorInit ==
    /\ callCounts = [t \in Tools |-> 0]
    /\ consecutiveLow = 0
    /\ suspended = FALSE

-----------------------------------------------------------------------------
LimitReached(t) ==
    Permission[t].limit # Unlimited /\ callCounts[t] >= Permission[t].limit

(* A capability switched off in the manifest. *)
CapabilityDenied(t) ==
    \/ t \in FileWriteTools /\ ~AllowFileWrite
    \/ t \in CodeExecTools /\ ~AllowCodeExecution

HardBlockIgnoringSuspension(t) ==
    \/ t \notin Permitted
    \/ LimitReached(t)
    \/ CapabilityDenied(t)

HardBlockIgnoringCapability(t) ==
    \/ suspended
    \/ t \notin Permitted
    \/ LimitReached(t)

(* The early returns of evaluate: score 0, nothing counted. *)
HardBlock(t) ==
    \/ suspended
    \/ t \notin Permitted
    \/ LimitReached(t)
    \/ CapabilityDenied(t)

(* The soft score of a call that passed every hard check. *)
SoftScore(t, outOfScope, overlap) ==
    LET inScope == IF t \in WebTools /\ DomainsDeclared /\ outOfScope THEN 70 ELSE 100
    IN  IF overlap = 0 THEN inScope - 10
        ELSE IF inScope + 4 * overlap > 100 THEN 100 ELSE inScope + 4 * overlap

Score(t, outOfScope, overlap) ==
    IF HardBlock(t) THEN 0 ELSE SoftScore(t, outOfScope, overlap)

Aligned(score) == score >= AutoApproveThreshold \/ score >= AlignmentThreshold

DispositionForgettingApproval(t, score) ==
    IF HardBlock(t) THEN "block"
    ELSE IF score >= AutoApproveThreshold THEN "auto_approve"
    ELSE IF Aligned(score) THEN "approve"
    ELSE IF consecutiveLow + 1 < MaxConsecutiveLow /\ PauseOnAmbiguous THEN "queue"
    ELSE "block"

(* What evaluate answers: the disposition of the ScoredCall. *)
Disposition(t, score) ==
    IF HardBlock(t) THEN "block"
    ELSE IF Permission[t].approval THEN "queue"
    ELSE IF score >= AutoApproveThreshold THEN "auto_approve"
    ELSE IF Aligned(score) THEN "approve"
    ELSE IF consecutiveLow + 1 < MaxConsecutiveLow /\ PauseOnAmbiguous THEN "queue"
    ELSE "block"

Granted(disposition) == disposition \in {"auto_approve", "approve"}

(* Only AUTO_APPROVE resets the run of low scores: APPROVE forgets to. *)
DriftAfterForgettingReset(t, score) ==
    IF Permission[t].approval THEN consecutiveLow
    ELSE IF score >= AutoApproveThreshold THEN 0
    ELSE IF Aligned(score) THEN consecutiveLow
    ELSE consecutiveLow + 1

(* The run of low scores after a soft-scored call.  A call to a tool that    *)
(* needs approval returns before the run is touched.                         *)
DriftAfter(t, score) ==
    IF Permission[t].approval THEN consecutiveLow
    ELSE IF Aligned(score) THEN 0
    ELSE consecutiveLow + 1

(* The state evaluate leaves behind. *)
Evaluate(t, score) ==
    IF HardBlock(t) THEN UNCHANGED monitorVars
    ELSE /\ callCounts' = [callCounts EXCEPT ![t] = @ + 1]
         /\ consecutiveLow' = DriftAfter(t, score)
         /\ suspended' = (suspended \/ consecutiveLow' >= MaxConsecutiveLow)
=============================================================================
