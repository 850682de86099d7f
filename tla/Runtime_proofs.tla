----------------------------- MODULE Runtime_proofs -----------------------------
(***************************************************************************)
(* Theorems about the components of the runtime that stand beside the      *)
(* operators' gate: the session with its goal monitor, the chained audit   *)
(* log and the behavioural collector.  Each part of this module is about   *)
(* one of them and uses neither the constants nor the variables of the     *)
(* other two.                                                              *)
(***************************************************************************)
EXTENDS GovernedSession, AuditLog, Collector,
        SequenceTheorems, FiniteSetTheorems, WellFoundedInduction, TLAPS

-----------------------------------------------------------------------------
(***************************************************************************)
(* The session (GovernedSession), for every set of tasks and tools, every  *)
(* manifest, every configuration of the goal monitor and every capacity of *)
(* the pipe.                                                               *)
(***************************************************************************)
(* The numbers of the configuration are natural numbers. *)
LEMMA Numbers ==
    /\ PipeCapacity \in Nat
    /\ MaxOverlap \in Nat
BY SessionAssumption

(* A score is a percentage. *)
LEMMA ScoreType ==
    ASSUME NEW t \in Tools, NEW outOfScope \in BOOLEAN, NEW overlap \in 0..MaxOverlap
    PROVE  Score(t, outOfScope, overlap) \in 0..100
BY Numbers DEF Score, SoftScore

(* evaluate keeps the monitor's types. *)
LEMMA EvaluateType ==
    ASSUME MonitorTypeOK, NEW t \in Tools, NEW score \in 0..100, Evaluate(t, score)
    PROVE  MonitorTypeOK'
<1>1. CASE HardBlock(t)
  BY <1>1 DEF Evaluate, MonitorTypeOK, monitorVars
<1>2. CASE ~HardBlock(t)
  <2>1. callCounts' \in [Tools -> Nat]
    BY <1>2 DEF Evaluate, MonitorTypeOK
  <2>2. consecutiveLow' \in Nat
    BY <1>2 DEF Evaluate, MonitorTypeOK, DriftAfter
  <2>3. suspended' \in BOOLEAN
    BY <1>2, <2>2 DEF Evaluate, MonitorTypeOK
  <2>. QED
    BY <2>1, <2>2, <2>3 DEF MonitorTypeOK
<1>. QED
  BY <1>1, <1>2

(* An audit entry of the session is an entry, and appending keeps the trail  *)
(* a sequence of entries.                                                    *)
LEMMA EntryType ==
    ASSUME NEW e \in Event, NEW t \in Tools \cup {NoTool}, NEW s \in 0..100
    PROVE  Entry(e, t, s) \in Entries
BY DEF Entry, Entries

LEMMA AppendType ==
    ASSUME trail \in Seq(Entries), NEW x \in Entries
    PROVE  Append(trail, x) \in Seq(Entries)
OBVIOUS

LEMMA AppendTwoType ==
    ASSUME trail \in Seq(Entries), NEW x \in Entries, NEW y \in Entries
    PROVE  trail \o <<x, y>> \in Seq(Entries)
<1>1. <<x, y>> \in Seq(Entries)
  OBVIOUS
<1>. QED
  BY <1>1

-----------------------------------------------------------------------------
(* A step keeps every variable's type. *)
LEMMA TypeCorrectStep ==
    ASSUME TypeOK, [Next]_vars
    PROVE  TypeOK'
<1>1. CASE Start
  <2>1. trail' \in Seq(Entries)
    BY <1>1, EntryType, AppendType DEF Start, TypeOK, Event
  <2>. QED
    BY <1>1, <2>1 DEF Start, TypeOK, MonitorTypeOK, monitorVars
<1>2. CASE End
  <2>1. trail' \in Seq(Entries)
    BY <1>2, EntryType, AppendType DEF End, TypeOK, Event
  <2>. QED
    BY <1>2, <2>1 DEF End, TypeOK, MonitorTypeOK, monitorVars
<1>3. ASSUME NEW k \in Tasks, NEW t \in Tools, NEW outOfScope \in BOOLEAN,
             NEW overlap \in 0..MaxOverlap, CallTool(k, t, outOfScope, overlap)
      PROVE  TypeOK'
  <2> DEFINE score == Score(t, outOfScope, overlap)
  <2>1. score \in 0..100
    BY ScoreType
  <2>2. MonitorTypeOK'
    BY <1>3, <2>1, EvaluateType DEF CallTool, TypeOK
  <2>3. trail' \in Seq(Entries)
    <3>1. \A e \in Event, s \in 0..100 :
             trail \o <<Entry("GOAL_SCORE", t, score), Entry(e, t, s)>> \in Seq(Entries)
      BY <2>1, EntryType, AppendTwoType DEF TypeOK, Event
    <3>. HIDE DEF score
    <3>2. /\ "TOOL_CALL_BLOCKED" \in Event /\ "TOOL_CALL_REQUESTED" \in Event
          /\ "TOOL_CALL_APPROVED" \in Event /\ 0 \in 0..100
      BY DEF Event
    <3>3. \/ trail' = trail \o <<Entry("GOAL_SCORE", t, score), Entry("TOOL_CALL_BLOCKED", t, 0)>>
          \/ trail' = trail \o <<Entry("GOAL_SCORE", t, score), Entry("TOOL_CALL_REQUESTED", t, score)>>
          \/ trail' = trail \o <<Entry("GOAL_SCORE", t, score), Entry("TOOL_CALL_APPROVED", t, score)>>
      BY <1>3 DEF CallTool, score
    <3>. QED
      BY <2>1, <3>1, <3>2, <3>3
  <2>4. /\ pc' \in [Tasks -> TaskState]
        /\ toolOf' \in [Tasks -> Tools \cup {NoTool}]
        /\ executed' \in [Tools -> Nat]
    <3>1. EnterTool(k, t) \/ UNCHANGED <<pc, toolOf, executed>>
      BY <1>3 DEF CallTool
    <3>2. /\ pc \in [Tasks -> TaskState] /\ toolOf \in [Tasks -> Tools \cup {NoTool}]
          /\ executed \in [Tools -> Nat]
      BY DEF TypeOK
    <3>3. pc' \in [Tasks -> TaskState]
      BY <3>1, <3>2 DEF EnterTool, TaskState
    <3>4. toolOf' \in [Tasks -> Tools \cup {NoTool}]
      BY <3>1, <3>2 DEF EnterTool
    <3>5. executed' \in [Tools -> Nat]
      BY <3>1, <3>2 DEF EnterTool
    <3>. QED
      BY <3>3, <3>4, <3>5
  <2>5. rtlSeq' \in Nat
    BY <1>3 DEF CallTool, TypeOK
  <2>6. UNCHANGED <<starts, ends, pipe, chunks, offered>>
    BY <1>3 DEF CallTool
  <2>7. /\ starts' \in Nat /\ ends' \in Nat
        /\ pipe' \in 0..PipeCapacity /\ chunks' \in Nat /\ offered' \in Nat
    BY <2>6 DEF TypeOK
  <2>. QED
    BY <2>2, <2>3, <2>4, <2>5, <2>7 DEF TypeOK
<1>4. ASSUME NEW k \in Tasks, ToolReturns(k)
      PROVE  TypeOK'
  <2>1. trail' \in Seq(Entries)
    <3>1. Entry("TOOL_CALL_COMPLETED", toolOf[k], 0) \in Entries
      BY EntryType DEF TypeOK, Event
    <3>. QED
      BY <1>4, <3>1, AppendType DEF ToolReturns, TypeOK
  <2>2. pipe' \in 0..PipeCapacity
    BY <1>4, Numbers DEF ToolReturns, TypeOK
  <2>3. pc' \in [Tasks -> TaskState] /\ toolOf' \in [Tasks -> Tools \cup {NoTool}]
    BY <1>4 DEF ToolReturns, TypeOK, TaskState
  <2>. QED
    BY <1>4, <2>1, <2>2, <2>3 DEF ToolReturns, TypeOK, MonitorTypeOK, monitorVars
<1>5. ASSUME NEW k \in Tasks, ToolRaises(k)
      PROVE  TypeOK'
  BY <1>5 DEF ToolRaises, TypeOK, MonitorTypeOK, monitorVars, TaskState
<1>6. ASSUME NEW k \in Tasks, IngestContext(k)
      PROVE  TypeOK'
  <2>1. trail' \in Seq(Entries)
    BY <1>6, EntryType, AppendType DEF IngestContext, TypeOK, Event
  <2>2. pipe' \in 0..PipeCapacity /\ chunks' \in Nat /\ offered' \in Nat
    BY <1>6, Numbers DEF IngestContext, TypeOK
  <2>3. pc' \in [Tasks -> TaskState]
    BY <1>6 DEF IngestContext, TypeOK, TaskState
  <2>4. UNCHANGED <<starts, ends, toolOf, rtlSeq, executed, monitorVars>>
    BY <1>6 DEF IngestContext
  <2>. QED
    BY <2>1, <2>2, <2>3, <2>4 DEF TypeOK, MonitorTypeOK, monitorVars
<1>7. CASE UNCHANGED vars
  BY <1>7 DEF vars, sessionVars, monitorVars, TypeOK, MonitorTypeOK
<1>. QED
  BY <1>1, <1>2, <1>3, <1>4, <1>5, <1>6, <1>7 DEF Next, TaskStep

(* Every variable of the session keeps its type. *)
THEOREM TypeCorrect == Spec => []TypeOK
<1>1. Init => TypeOK
  <2> SUFFICES ASSUME Init PROVE TypeOK
    OBVIOUS
  <2>1. MonitorTypeOK
    BY DEF Init, MonitorInit, MonitorTypeOK
  <2>2. trail \in Seq(Entries)
    BY DEF Init
  <2>3. pipe \in 0..PipeCapacity
    BY Numbers DEF Init
  <2>4. executed \in [Tools -> Nat] /\ pc \in [Tasks -> TaskState]
    BY DEF Init, TaskState
  <2>. QED
    BY <2>1, <2>2, <2>3, <2>4 DEF Init, TypeOK
<1>2. TypeOK /\ [Next]_vars => TypeOK'
  BY TypeCorrectStep
<1>. QED
  BY <1>1, <1>2, PTL DEF Spec

-----------------------------------------------------------------------------
(* What a call of call_tool does to the counters: nothing, when a hard check *)
(* stops it; otherwise it is charged, the limit not being reached, and only  *)
(* a granted call of a runnable tool may enter the tool.                     *)
LEMMA CallCases ==
    ASSUME TypeOK, NEW k \in Tasks, NEW t \in Tools, NEW outOfScope \in BOOLEAN,
           NEW overlap \in 0..MaxOverlap, CallTool(k, t, outOfScope, overlap)
    PROVE  \/ HardBlock(t) /\ UNCHANGED <<executed, monitorVars>>
           \/ /\ ~HardBlock(t)
              /\ callCounts' = [callCounts EXCEPT ![t] = @ + 1]
              /\ suspended' \in BOOLEAN
              /\ UNCHANGED executed
           \/ /\ ~HardBlock(t)
              /\ ~Permission[t].approval
              /\ callCounts' = [callCounts EXCEPT ![t] = @ + 1]
              /\ ~suspended'
              /\ t \in Registry
              /\ executed' = [executed EXCEPT ![t] = @ + 1]
<1> DEFINE score == Score(t, outOfScope, overlap)
           verdict == Disposition(t, score)
<1>1. Evaluate(t, score)
  BY DEF CallTool
<1>2. \/ verdict \in {"block", "queue"} /\ UNCHANGED executed
      \/ Granted(verdict) /\ EnterTool(k, t)
  BY DEF CallTool
<1>3. score \in 0..100
  BY ScoreType
<1>. HIDE DEF score
<1>4. CASE HardBlock(t)
  BY <1>1, <1>2, <1>4 DEF Evaluate, Disposition, Granted
<1>5. CASE ~HardBlock(t)
  <2>1. callCounts' = [callCounts EXCEPT ![t] = @ + 1]
    BY <1>1, <1>5 DEF Evaluate
  <2>2. suspended' \in BOOLEAN
    BY <1>1, <1>3, EvaluateType DEF TypeOK, MonitorTypeOK
  <2>3. CASE UNCHANGED executed
    BY <1>5, <2>1, <2>2, <2>3
  <2>4. CASE Granted(verdict) /\ EnterTool(k, t)
    <3>1. ~Permission[t].approval /\ Aligned(score)
      BY <1>5, <2>4 DEF Disposition, Granted, Aligned
    <3>2. consecutiveLow' = 0
      BY <1>1, <1>5, <3>1 DEF Evaluate, DriftAfter
    <3>3. ~suspended'
      <4>1. ~(consecutiveLow' >= MaxConsecutiveLow)
        BY <3>2, MonitorAssumption
      <4>2. ~suspended
        BY <1>5 DEF HardBlock
      <4>3. suspended' = (suspended \/ consecutiveLow' >= MaxConsecutiveLow)
        BY <1>1, <1>5 DEF Evaluate
      <4>. QED
        BY <4>1, <4>2, <4>3
    <3>. QED
      BY <1>5, <2>1, <2>2, <2>4, <3>1, <3>3 DEF EnterTool
  <2>. QED
    BY <1>2, <2>3, <2>4
<1>. QED
  BY <1>4, <1>5

(* Only CallTool disturbs what the gate is about. *)
LEMMA OtherStepsStutter ==
    ASSUME [Next]_vars
    PROVE  \/ UNCHANGED <<executed, monitorVars>>
           \/ \E k \in Tasks, t \in Tools, outOfScope \in BOOLEAN, overlap \in 0..MaxOverlap :
                 CallTool(k, t, outOfScope, overlap)
BY DEF Next, TaskStep, Start, End, ToolReturns, ToolRaises, IngestContext,
       vars, sessionVars, monitorVars

(* A tool's code is entered only after the call was counted, within the      *)
(* limit, and only if the manifest lets it run without an operator.          *)
THEOREM RunsCharged == Spec => []RunsAreCharged
<1>1. Init => RunsAreCharged
  BY MonitorAssumption DEF Init, MonitorInit, RunsAreCharged
<1>2. TypeOK /\ RunsAreCharged /\ [Next]_vars => RunsAreCharged'
  <2> SUFFICES ASSUME TypeOK, RunsAreCharged, [Next]_vars,
                      NEW u \in Tools
               PROVE  /\ executed'[u] <= callCounts'[u]
                      /\ u \in Permitted /\ Permission[u].limit # Unlimited
                           => callCounts'[u] <= Permission[u].limit
                      /\ executed'[u] > 0 => u \in Runnable \cap Registry
    BY DEF RunsAreCharged, Runnable, CapabilityDenied, Permitted
  <2>0. callCounts \in [Tools -> Nat] /\ executed \in [Tools -> Nat]
    BY DEF TypeOK, MonitorTypeOK
  <2>1. CASE UNCHANGED <<executed, monitorVars>>
    BY <2>1 DEF RunsAreCharged, monitorVars
  <2>2. ASSUME NEW k \in Tasks, NEW t \in Tools, NEW outOfScope \in BOOLEAN,
               NEW overlap \in 0..MaxOverlap, CallTool(k, t, outOfScope, overlap),
               ~UNCHANGED <<executed, monitorVars>>
        PROVE  /\ executed'[u] <= callCounts'[u]
               /\ u \in Permitted /\ Permission[u].limit # Unlimited
                    => callCounts'[u] <= Permission[u].limit
               /\ executed'[u] > 0 => u \in Runnable \cap Registry
    <3>1. /\ ~HardBlock(t)
          /\ callCounts' = [callCounts EXCEPT ![t] = @ + 1]
          /\ \/ UNCHANGED executed
             \/ /\ ~Permission[t].approval
                /\ t \in Registry
                /\ executed' = [executed EXCEPT ![t] = @ + 1]
      BY <2>2, CallCases
    <3>2. t \in Permitted /\ ~CapabilityDenied(t)
      BY <3>1 DEF HardBlock
    <3>3. CASE u # t
      BY <2>0, <3>1, <3>3 DEF RunsAreCharged
    <3>4. CASE u = t
      <4>1. executed'[u] <= callCounts'[u]
        BY <2>0, <3>1, <3>4 DEF RunsAreCharged
      <4>2. Permission[u].limit # Unlimited => callCounts'[u] <= Permission[u].limit
        <5>1. Permission[t].limit # Unlimited => Permission[t].limit \in Nat
          BY <3>2, MonitorAssumption
        <5>2. ~LimitReached(t)
          BY <3>1 DEF HardBlock
        <5>. QED
          BY <2>0, <3>1, <3>4, <5>1, <5>2 DEF LimitReached
      <4>3. executed'[u] > 0 => u \in Runnable \cap Registry
        BY <2>0, <3>1, <3>2, <3>4 DEF RunsAreCharged, Runnable
      <4>. QED
        BY <4>1, <4>2, <4>3
    <3>. QED
      BY <3>3, <3>4
  <2>. QED
    BY <2>1, <2>2, OtherStepsStutter
<1>. QED
  BY <1>1, <1>2, TypeCorrect, PTL DEF Spec

(* However the tasks interleave, only granted tools run, within their limit. *)
THEOREM GrantedOnly == Spec => []OnlyGrantedToolsRun
<1>1. TypeOK /\ RunsAreCharged => OnlyGrantedToolsRun
  <2> SUFFICES ASSUME TypeOK, RunsAreCharged, NEW t \in Tools, executed[t] > 0
               PROVE  /\ t \in Permitted /\ t \in Registry
                      /\ ~Permission[t].approval
                      /\ ~CapabilityDenied(t)
                      /\ Permission[t].limit # Unlimited => executed[t] <= Permission[t].limit
    BY DEF OnlyGrantedToolsRun
  <2>1. t \in Runnable \cap Registry
    BY DEF RunsAreCharged
  <2>2. Permission[t].limit # Unlimited => executed[t] <= Permission[t].limit
    <3>1. Permission[t].limit # Unlimited => Permission[t].limit \in Nat
      BY <2>1, MonitorAssumption DEF Runnable
    <3>2. callCounts[t] \in Nat /\ executed[t] \in Nat
      BY DEF TypeOK, MonitorTypeOK
    <3>. QED
      BY <2>1, <3>1, <3>2 DEF RunsAreCharged, Runnable
  <2>. QED
    BY <2>1, <2>2 DEF Runnable
<1>. QED
  BY <1>1, TypeCorrect, RunsCharged, PTL

-----------------------------------------------------------------------------
(* Appending an entry of another event leaves the approvals of the log as    *)
(* they are.                                                                 *)
LEMMA AppendKeepsApprovals ==
    ASSUME trail \in Seq(Entries), NEW x \in Entries, NEW t,
           trail' = Append(trail, x), x.event # "TOOL_CALL_APPROVED"
    PROVE  Logged("TOOL_CALL_APPROVED", t)' = Logged("TOOL_CALL_APPROVED", t)
<1>1. DOMAIN trail = 1..Len(trail) /\ DOMAIN trail' = 1..(Len(trail) + 1)
  OBVIOUS
<1>2. /\ \A i \in 1..Len(trail) : trail'[i] = trail[i]
      /\ trail'[Len(trail) + 1] = x
      /\ Len(trail) \in Nat
  OBVIOUS
<1>. QED
  BY <1>1, <1>2 DEF Logged

(* The two entries of a blocked call leave them as they are, too.            *)
LEMMA BlockKeepsApprovals ==
    ASSUME trail \in Seq(Entries), NEW x \in Entries, NEW y \in Entries, NEW t,
           trail' = trail \o <<x, y>>,
           x.event # "TOOL_CALL_APPROVED", y.event # "TOOL_CALL_APPROVED"
    PROVE  Logged("TOOL_CALL_APPROVED", t)' = Logged("TOOL_CALL_APPROVED", t)
<1>1. DOMAIN trail = 1..Len(trail) /\ DOMAIN trail' = 1..(Len(trail) + 2)
  OBVIOUS
<1>2. /\ \A i \in 1..Len(trail) : trail'[i] = trail[i]
      /\ trail'[Len(trail) + 1] = x
      /\ trail'[Len(trail) + 2] = y
      /\ Len(trail) \in Nat
  OBVIOUS
<1>. QED
  BY <1>1, <1>2 DEF Logged

(* A suspended session approves, counts and starts nothing, for good: no     *)
(* task's next call gets past the monitor, whatever the others are doing.    *)
THEOREM SuspensionFinal == Spec => SuspensionIsFinal
<1> DEFINE Held == suspended =>
              /\ suspended'
              /\ callCounts' = callCounts
              /\ executed' = executed
              /\ \A t \in Tools : Logged("TOOL_CALL_APPROVED", t)' = Logged("TOOL_CALL_APPROVED", t)
<1>1. TypeOK /\ [Next]_vars => Held
  <2> SUFFICES ASSUME TypeOK, [Next]_vars, suspended
               PROVE  Held
    OBVIOUS
  <2> HIDE DEF Held
  <2>1. UNCHANGED <<executed, monitorVars>>
    <3>1. ASSUME NEW t \in Tools
          PROVE  HardBlock(t)
      BY DEF HardBlock
    <3>. QED
      BY <3>1, CallCases, OtherStepsStutter
  <2>2. ASSUME NEW u \in Tools
        PROVE  Logged("TOOL_CALL_APPROVED", u)' = Logged("TOOL_CALL_APPROVED", u)
    <3>0. trail \in Seq(Entries)
      BY DEF TypeOK
    <3>1. CASE UNCHANGED trail
      BY <3>1 DEF Logged
    <3>2. ASSUME NEW e \in Event \ {"TOOL_CALL_APPROVED"}, NEW t \in Tools \cup {NoTool},
                 trail' = Append(trail, Entry(e, t, 0))
          PROVE  Logged("TOOL_CALL_APPROVED", u)' = Logged("TOOL_CALL_APPROVED", u)
      <4>1. Entry(e, t, 0) \in Entries
        BY <3>2, EntryType
      <4>2. Entry(e, t, 0).event # "TOOL_CALL_APPROVED"
        BY <3>2 DEF Entry
      <4>. QED
        BY <3>0, <3>2, <4>1, <4>2, AppendKeepsApprovals
    <3>3. ASSUME NEW k \in Tasks, NEW t \in Tools, NEW outOfScope \in BOOLEAN,
                 NEW overlap \in 0..MaxOverlap, CallTool(k, t, outOfScope, overlap)
          PROVE  Logged("TOOL_CALL_APPROVED", u)' = Logged("TOOL_CALL_APPROVED", u)
      <4> DEFINE score == Score(t, outOfScope, overlap)
                 x == Entry("GOAL_SCORE", t, score)
                 y == Entry("TOOL_CALL_BLOCKED", t, 0)
      <4>1. Disposition(t, score) = "block"
        BY DEF Disposition, HardBlock
      <4>2. trail' = trail \o <<x, y>>
        <5> HIDE DEF score
        <5>1. Disposition(t, score) = "block" => ~Granted(Disposition(t, score))
          BY DEF Granted
        <5>. QED
          BY <3>3, <4>1, <5>1 DEF CallTool, score
      <4>3. score \in 0..100
        BY ScoreType
      <4>4. x \in Entries /\ y \in Entries
        <5> HIDE DEF score
        <5>. QED
          BY <4>3, EntryType DEF Event
      <4>5. x.event # "TOOL_CALL_APPROVED" /\ y.event # "TOOL_CALL_APPROVED"
        BY DEF Entry
      <4>. HIDE DEF x, y
      <4>. QED
        BY <3>0, <4>2, <4>4, <4>5, BlockKeepsApprovals
    <3>4. CASE Start
      BY <3>2, <3>4 DEF Start, Event
    <3>5. CASE End
      BY <3>2, <3>5 DEF End, Event
    <3>6. ASSUME NEW k \in Tasks, ToolReturns(k)
          PROVE  Logged("TOOL_CALL_APPROVED", u)' = Logged("TOOL_CALL_APPROVED", u)
      <4>1. toolOf[k] \in Tools \cup {NoTool}
        BY DEF TypeOK
      <4>. QED
        BY <3>1, <3>2, <3>6, <4>1 DEF ToolReturns, Event
    <3>7. ASSUME NEW k \in Tasks, IngestContext(k)
          PROVE  Logged("TOOL_CALL_APPROVED", u)' = Logged("TOOL_CALL_APPROVED", u)
      BY <3>2, <3>7 DEF IngestContext, Event
    <3>8. ASSUME NEW k \in Tasks, ToolRaises(k)
          PROVE  Logged("TOOL_CALL_APPROVED", u)' = Logged("TOOL_CALL_APPROVED", u)
      BY <3>1, <3>8 DEF ToolRaises
    <3>9. CASE UNCHANGED vars
      BY <3>1, <3>9 DEF vars, sessionVars
    <3>. QED
      BY <3>3, <3>4, <3>5, <3>6, <3>7, <3>8, <3>9 DEF Next, TaskStep
  <2>. QED
    BY <2>1, <2>2 DEF monitorVars, Held
<1>. QED
  BY <1>1, TypeCorrect, PTL DEF Spec, SuspensionIsFinal

-----------------------------------------------------------------------------
(* The session, all its tasks together, implements the abstract gate.        *)
THEOREM Implements == Spec => GateRefined
<1>1. Init => Gate!GateInit
  BY DEF Init, MonitorInit, Gate!GateInit
<1>2. TypeOK /\ [Next]_vars => [Gate!GateNext]_(Gate!gateVars)
  <2> SUFFICES ASSUME TypeOK, [Next]_vars
               PROVE  [Gate!GateNext]_(Gate!gateVars)
    OBVIOUS
  <2>1. CASE UNCHANGED <<executed, monitorVars>>
    BY <2>1 DEF monitorVars, Gate!gateVars
  <2>2. ASSUME NEW k \in Tasks, NEW t \in Tools, NEW outOfScope \in BOOLEAN,
               NEW overlap \in 0..MaxOverlap, CallTool(k, t, outOfScope, overlap),
               ~UNCHANGED <<executed, monitorVars>>
        PROVE  Gate!GateNext
    <3>1. ~HardBlock(t)
      BY <2>2, CallCases
    <3>2. ~suspended /\ t \in Permitted
      BY <3>1 DEF HardBlock
    <3>3. Gate!Affordable(t)
      <4>1. Permission[t].limit = Unlimited \/ Permission[t].limit \in Nat
        BY <3>2, MonitorAssumption
      <4>2. callCounts[t] \in Nat
        BY DEF TypeOK, MonitorTypeOK
      <4>3. Permission[t].limit = Unlimited \/ callCounts[t] < Permission[t].limit
        BY <3>1, <4>1, <4>2 DEF HardBlock, LimitReached
      <4>. QED
        BY <3>2, <4>3 DEF Gate!Affordable
    <3>4. callCounts' = [callCounts EXCEPT ![t] = @ + 1]
      BY <2>2, CallCases
    <3>5. CASE UNCHANGED executed /\ suspended' \in BOOLEAN
      <4>1. Gate!Refuse(t)
        BY <3>2, <3>3, <3>4, <3>5 DEF Gate!Refuse
      <4>. QED
        BY <4>1 DEF Gate!GateNext
    <3>6. CASE /\ ~Permission[t].approval
               /\ ~suspended'
               /\ executed' = [executed EXCEPT ![t] = @ + 1]
      <4>1. suspended' = suspended
        <5>1. suspended \in BOOLEAN /\ suspended' \in BOOLEAN
          BY TypeCorrectStep DEF TypeOK, MonitorTypeOK
        <5>. QED
          BY <3>2, <3>6, <5>1
      <4>2. t \in Runnable
        BY <3>1, <3>2, <3>6 DEF HardBlock, Runnable
      <4>3. Gate!Admit(t)
        BY <3>2, <3>3, <3>4, <3>6, <4>1, <4>2 DEF Gate!Admit
      <4>. QED
        BY <4>3 DEF Gate!GateNext
    <3>. QED
      BY <2>2, <3>5, <3>6, CallCases
  <2>. QED
    BY <2>1, <2>2, OtherStepsStutter
<1>. QED
  BY <1>1, <1>2, TypeCorrect, PTL DEF Spec, GateRefined, Gate!GateSpec

-----------------------------------------------------------------------------
(* Finite sets and one element more or less.                                 *)
LEMMA OneMore ==
    ASSUME NEW S, IsFiniteSet(S), NEW x, x \notin S
    PROVE  /\ IsFiniteSet(S \cup {x})
           /\ Cardinality(S \cup {x}) = Cardinality(S) + 1
           /\ Cardinality(S) \in Nat
BY FS_AddElement, FS_CardinalityType

LEMMA OneLess ==
    ASSUME NEW S, IsFiniteSet(S), NEW x \in S
    PROVE  /\ IsFiniteSet(S \ {x})
           /\ Cardinality(S \ {x}) = Cardinality(S) - 1
           /\ Cardinality(S) \in Nat
           /\ Cardinality(S \ {x}) \in Nat
BY FS_RemoveElement, FS_CardinalityType

(* The places of the completions in the log, and the tasks that wait to hand *)
(* over a chunk.                                                             *)
Completions == {i \in DOMAIN trail : trail[i].event = "TOOL_CALL_COMPLETED"}
Handing == {k \in Tasks : pc[k] = "sending_chunk"}

(* The places of the log are finitely many, and the next one is not yet one. *)
LEMMA PlacesOfLog ==
    ASSUME TypeOK, NEW e, NEW t
    PROVE  /\ IsFiniteSet(Logged(e, t)) /\ IsFiniteSet(Completions)
           /\ Count(e, t) \in Nat /\ Cardinality(Completions) \in Nat
           /\ Logged(e, t) \subseteq 1..Len(trail)
           /\ Completions \subseteq 1..Len(trail)
           /\ Len(trail) \in Nat
<1>1. Len(trail) \in Nat /\ DOMAIN trail = 1..Len(trail)
  BY DEF TypeOK
<1>2. Logged(e, t) \subseteq 1..Len(trail) /\ Completions \subseteq 1..Len(trail)
  BY <1>1 DEF Logged, Completions
<1>3. IsFiniteSet(1..Len(trail))
  BY <1>1, FS_Interval
<1>4. IsFiniteSet(Logged(e, t)) /\ IsFiniteSet(Completions)
  BY <1>2, <1>3, FS_Subset
<1>. QED
  BY <1>1, <1>2, <1>4, FS_CardinalityType DEF Count

(* One more entry, and two more entries of which the first is a score.       *)
LEMMA AfterOne ==
    ASSUME TypeOK, NEW x \in Entries, trail' = Append(trail, x), NEW e, NEW t
    PROVE  /\ Logged(e, t)' = IF x.event = e /\ x.tool = t
                              THEN Logged(e, t) \cup {Len(trail) + 1} ELSE Logged(e, t)
           /\ Completions' = IF x.event = "TOOL_CALL_COMPLETED"
                             THEN Completions \cup {Len(trail) + 1} ELSE Completions
<1>1. DOMAIN trail = 1..Len(trail) /\ DOMAIN trail' = 1..(Len(trail) + 1)
  BY DEF TypeOK
<1>2. /\ \A i \in 1..Len(trail) : trail'[i] = trail[i]
      /\ trail'[Len(trail) + 1] = x
      /\ Len(trail) \in Nat
  BY DEF TypeOK
<1>. QED
  BY <1>1, <1>2 DEF Logged, Completions

LEMMA GrownByTwo ==
    ASSUME NEW n \in Nat, DOMAIN trail = 1..n, DOMAIN trail' = 1..(n + 2),
           \A i \in 1..n : trail'[i] = trail[i], NEW e, NEW t,
           trail'[n + 1].event # e, trail'[n + 1].event # "TOOL_CALL_COMPLETED"
    PROVE  /\ Logged(e, t)' = IF trail'[n + 2].event = e /\ trail'[n + 2].tool = t
                              THEN Logged(e, t) \cup {n + 2} ELSE Logged(e, t)
           /\ Completions' = IF trail'[n + 2].event = "TOOL_CALL_COMPLETED"
                             THEN Completions \cup {n + 2} ELSE Completions
BY DEF Logged, Completions

LEMMA AfterTwo ==
    ASSUME TypeOK, NEW x \in Entries, NEW y \in Entries, NEW e, NEW t,
           x.event # e, x.event # "TOOL_CALL_COMPLETED"
    PROVE  trail' = trail \o <<x, y>> =>
           /\ Logged(e, t)' = IF y.event = e /\ y.tool = t
                              THEN Logged(e, t) \cup {Len(trail) + 2} ELSE Logged(e, t)
           /\ Completions' = IF y.event = "TOOL_CALL_COMPLETED"
                             THEN Completions \cup {Len(trail) + 2} ELSE Completions
<1>1. ASSUME trail' = trail \o <<x, y>>
      PROVE  /\ Logged(e, t)' = IF y.event = e /\ y.tool = t
                                THEN Logged(e, t) \cup {Len(trail) + 2} ELSE Logged(e, t)
             /\ Completions' = IF y.event = "TOOL_CALL_COMPLETED"
                               THEN Completions \cup {Len(trail) + 2} ELSE Completions
  <2>1. DOMAIN trail = 1..Len(trail) /\ DOMAIN trail' = 1..(Len(trail) + 2)
    BY <1>1 DEF TypeOK
  <2>2. /\ \A i \in 1..Len(trail) : trail'[i] = trail[i]
        /\ trail'[Len(trail) + 1] = x
        /\ trail'[Len(trail) + 2] = y
        /\ Len(trail) \in Nat
    BY <1>1 DEF TypeOK
  <2>. QED
    BY <2>1, <2>2, GrownByTwo
<1>. QED
  BY <1>1

(* What a call of a tool appends: a score and a verdict, and an approval if  *)
(* and only if the call goes on.                                             *)
LEMMA CallLogs ==
    ASSUME TypeOK, NEW k \in Tasks, NEW t \in Tools, NEW outOfScope \in BOOLEAN,
           NEW overlap \in 0..MaxOverlap, CallTool(k, t, outOfScope, overlap)
    PROVE  \E x \in Entries, y \in Entries :
              /\ trail' = trail \o <<x, y>>
              /\ x.event = "GOAL_SCORE"
              /\ y.tool = t
              /\ \/ /\ y.event \in {"TOOL_CALL_BLOCKED", "TOOL_CALL_REQUESTED"}
                    /\ UNCHANGED <<pc, toolOf>>
                 \/ /\ y.event = "TOOL_CALL_APPROVED"
                    /\ EnterTool(k, t)
<1> DEFINE score == Score(t, outOfScope, overlap)
           x == Entry("GOAL_SCORE", t, score)
<1>1. score \in 0..100
  BY ScoreType
<1>2. \/ /\ trail' = trail \o <<x, Entry("TOOL_CALL_BLOCKED", t, 0)>>
         /\ UNCHANGED <<pc, toolOf>>
      \/ /\ trail' = trail \o <<x, Entry("TOOL_CALL_REQUESTED", t, score)>>
         /\ UNCHANGED <<pc, toolOf>>
      \/ /\ trail' = trail \o <<x, Entry("TOOL_CALL_APPROVED", t, score)>>
         /\ EnterTool(k, t)
  BY DEF CallTool
<1>. HIDE DEF score
<1>3. /\ x \in Entries /\ x.event = "GOAL_SCORE"
      /\ \A e \in Event, s \in 0..100 :
            Entry(e, t, s) \in Entries /\ Entry(e, t, s).event = e /\ Entry(e, t, s).tool = t
  BY <1>1, EntryType DEF Event, Entry
<1>4. /\ "TOOL_CALL_BLOCKED" \in Event /\ "TOOL_CALL_REQUESTED" \in Event
      /\ "TOOL_CALL_APPROVED" \in Event /\ 0 \in 0..100
  BY DEF Event
<1>. HIDE DEF x
<1>5. ASSUME NEW e \in {"TOOL_CALL_BLOCKED", "TOOL_CALL_REQUESTED"}, NEW s \in 0..100,
             trail' = trail \o <<x, Entry(e, t, s)>>, UNCHANGED <<pc, toolOf>>
      PROVE  \E y \in Entries : /\ trail' = trail \o <<x, y>>
                                /\ y.tool = t
                                /\ y.event \in {"TOOL_CALL_BLOCKED", "TOOL_CALL_REQUESTED"}
  BY <1>3, <1>4, <1>5
<1>6. CASE trail' = trail \o <<x, Entry("TOOL_CALL_APPROVED", t, score)>> /\ EnterTool(k, t)
  <2>1. /\ Entry("TOOL_CALL_APPROVED", t, score) \in Entries
        /\ Entry("TOOL_CALL_APPROVED", t, score).event = "TOOL_CALL_APPROVED"
        /\ Entry("TOOL_CALL_APPROVED", t, score).tool = t
    BY <1>1, <1>3, <1>4
  <2>. QED
    BY <1>3, <1>6, <2>1
<1>7. CASE /\ trail' = trail \o <<x, Entry("TOOL_CALL_REQUESTED", t, score)>>
           /\ UNCHANGED <<pc, toolOf>>
  BY <1>1, <1>3, <1>5, <1>7
<1>8. CASE /\ trail' = trail \o <<x, Entry("TOOL_CALL_BLOCKED", t, 0)>>
           /\ UNCHANGED <<pc, toolOf>>
  BY <1>3, <1>4, <1>5, <1>8
<1>. QED
  BY <1>2, <1>6, <1>7, <1>8

(* What has entered the context is in the log: the reader's chunks, waiting  *)
(* ones included, were hashed, and the pipe holds what was recorded.         *)
THEOREM ContextRecorded == Spec => []ContextIsRecorded
<1> DEFINE Hashes == Logged("CONTEXT_HASH", NoTool)
           Inv == /\ IsFiniteSet(Handing)
                  /\ chunks + Cardinality(Handing) = Cardinality(Hashes)
                  /\ pipe = chunks + Cardinality(Completions)
<1>1. Init => Inv
  <2> SUFFICES ASSUME Init PROVE Inv
    OBVIOUS
  <2>1. Handing = {} /\ Hashes = {} /\ Completions = {}
    BY DEF Init, Handing, Logged, Completions
  <2>2. chunks = 0 /\ pipe = 0
    BY DEF Init
  <2>3. IsFiniteSet({}) /\ Cardinality({}) = 0
    BY FS_EmptySet
  <2>. HIDE DEF Hashes
  <2>. QED
    BY <2>1, <2>2, <2>3
<1>2. TypeOK /\ Inv /\ [Next]_vars => Inv'
  <2> SUFFICES ASSUME TypeOK, Inv, [Next]_vars PROVE Inv'
    OBVIOUS
  <2>0. /\ IsFiniteSet(Hashes) /\ IsFiniteSet(Completions)
        /\ Cardinality(Hashes) \in Nat /\ Cardinality(Completions) \in Nat
        /\ Len(trail) + 1 \notin Hashes /\ Len(trail) + 1 \notin Completions
        /\ Len(trail) \in Nat
    <3>1. /\ IsFiniteSet(Hashes) /\ IsFiniteSet(Completions)
          /\ Hashes \subseteq 1..Len(trail) /\ Completions \subseteq 1..Len(trail)
          /\ Len(trail) \in Nat
      BY PlacesOfLog
    <3>. HIDE DEF Hashes
    <3>. QED
      BY <3>1, FS_CardinalityType
  <2>t. chunks \in Nat /\ pipe \in Nat /\ Cardinality(Handing) \in Nat
    BY FS_CardinalityType, Numbers DEF TypeOK
  <2>c. \A k \in Tasks : pc[k] # "sending_chunk" => k \notin Handing
    BY DEF Handing
  <2>k. pc \in [Tasks -> TaskState]
    BY DEF TypeOK
  <2>1. ASSUME NEW x \in Entries, trail' = Append(trail, x),
               x.event \notin {"CONTEXT_HASH", "TOOL_CALL_COMPLETED"},
               UNCHANGED <<chunks, pipe, pc>>
        PROVE  Inv'
    <3>1. Hashes' = Hashes /\ Completions' = Completions
      BY <2>1, AfterOne
    <3>2. Handing' = Handing
      BY <2>1 DEF Handing
    <3>. QED
      BY <2>1, <3>1, <3>2
  <2>2. ASSUME UNCHANGED <<trail, chunks, pipe>>, Handing' = Handing
        PROVE  Inv'
    BY <2>2 DEF Logged, Completions
  <2>3. CASE Start \/ End
    <3>1. /\ Entry("SESSION_START", NoTool, 0) \in Entries
          /\ Entry("SESSION_END", NoTool, 0) \in Entries
      BY EntryType DEF Event
    <3>2. /\ Entry("SESSION_START", NoTool, 0).event = "SESSION_START"
          /\ Entry("SESSION_END", NoTool, 0).event = "SESSION_END"
      BY DEF Entry
    <3>. HIDE DEF Inv
    <3>. QED
      BY <2>1, <2>3, <3>1, <3>2 DEF Start, End
  <2>4. ASSUME NEW k \in Tasks, NEW t \in Tools, NEW outOfScope \in BOOLEAN,
               NEW overlap \in 0..MaxOverlap, CallTool(k, t, outOfScope, overlap)
        PROVE  Inv'
    <3>1. PICK x \in Entries, y \in Entries :
              /\ trail' = trail \o <<x, y>>
              /\ x.event = "GOAL_SCORE"
              /\ y.tool = t
              /\ \/ /\ y.event \in {"TOOL_CALL_BLOCKED", "TOOL_CALL_REQUESTED"}
                    /\ UNCHANGED <<pc, toolOf>>
                 \/ /\ y.event = "TOOL_CALL_APPROVED"
                    /\ EnterTool(k, t)
      BY <2>4, CallLogs
    <3>2. Hashes' = Hashes /\ Completions' = Completions
      BY <3>1, AfterTwo
    <3>3. Handing' = Handing
      <4>1. pc[k] = "idle"
        BY <2>4 DEF CallTool
      <4>. QED
        BY <2>k, <3>1, <4>1 DEF EnterTool, Handing
    <3>4. UNCHANGED <<chunks, pipe>>
      BY <2>4 DEF CallTool
    <3>. QED
      BY <3>2, <3>3, <3>4
  <2>5. ASSUME NEW k \in Tasks, ToolReturns(k)
        PROVE  Inv'
    <3>1. Handing' = Handing /\ UNCHANGED chunks
      BY <2>5, <2>k DEF ToolReturns, Handing
    <3>2. CASE UNCHANGED <<pipe, trail>>
      BY <2>2, <3>1, <3>2
    <3>3. CASE /\ pipe' = pipe + 1
               /\ trail' = Append(trail, Entry("TOOL_CALL_COMPLETED", toolOf[k], 0))
      <4> DEFINE x == Entry("TOOL_CALL_COMPLETED", toolOf[k], 0)
      <4>1. x \in Entries /\ x.event = "TOOL_CALL_COMPLETED"
        <5>1. x \in Entries
          BY EntryType DEF TypeOK, Event
        <5>. QED
          BY <5>1 DEF Entry
      <4>2. Hashes' = Hashes /\ Completions' = Completions \cup {Len(trail) + 1}
        <5>. HIDE DEF x
        <5>. QED
          BY <3>3, <4>1, AfterOne DEF x
      <4>3. Cardinality(Completions') = Cardinality(Completions) + 1
        BY <2>0, <4>2, OneMore
      <4>. HIDE DEF Hashes, x
      <4>. QED
        BY <2>0, <2>t, <3>1, <3>3, <4>2, <4>3
    <3>. QED
      BY <2>5, <3>2, <3>3 DEF ToolReturns
  <2>6. ASSUME NEW k \in Tasks, ToolRaises(k)
        PROVE  Inv'
    <3>1. Handing' = Handing /\ UNCHANGED <<trail, chunks, pipe>>
      BY <2>6, <2>k DEF ToolRaises, Handing
    <3>. QED
      BY <2>2, <3>1
  <2>7. ASSUME NEW k \in Tasks, IngestContext(k)
        PROVE  Inv'
    <3> DEFINE x == Entry("CONTEXT_HASH", NoTool, 0)
    <3>1. x \in Entries /\ x.event = "CONTEXT_HASH" /\ x.tool = NoTool
      <4>1. x \in Entries
        BY EntryType DEF Event
      <4>. QED
        BY <4>1 DEF Entry
    <3>2. Hashes' = Hashes \cup {Len(trail) + 1} /\ Completions' = Completions
      <4>1. trail' = Append(trail, x)
        BY <2>7 DEF IngestContext
      <4>. HIDE DEF x
      <4>. QED
        BY <3>1, <4>1, AfterOne
    <3>3. Cardinality(Hashes') = Cardinality(Hashes) + 1
      <4>. HIDE DEF Hashes
      <4>. QED
        BY <2>0, <3>2, OneMore
    <3>4. CASE pipe' = pipe + 1 /\ chunks' = chunks + 1 /\ UNCHANGED pc
      <4>1. Handing' = Handing
        BY <3>4 DEF Handing
      <4>. HIDE DEF Hashes
      <4>. QED
        BY <2>0, <2>t, <3>2, <3>3, <3>4, <4>1
    <3>5. CASE pc' = [pc EXCEPT ![k] = "sending_chunk"] /\ UNCHANGED <<pipe, chunks>>
      <4>1. pc[k] # "sending_chunk"
        BY <2>7 DEF IngestContext
      <4>2. Handing' = Handing \cup {k} /\ k \notin Handing
        BY <2>k, <3>5, <4>1 DEF Handing
      <4>3. IsFiniteSet(Handing') /\ Cardinality(Handing') = Cardinality(Handing) + 1
        BY <4>2, OneMore
      <4>. HIDE DEF Hashes
      <4>. QED
        BY <2>0, <2>t, <3>2, <3>3, <3>5, <4>3
    <3>. QED
      BY <2>7, <3>4, <3>5 DEF IngestContext
  <2>8. CASE UNCHANGED vars
    <3>1. UNCHANGED <<trail, chunks, pipe, pc>>
      BY <2>8 DEF vars, sessionVars
    <3>. QED
      BY <2>2, <3>1 DEF Handing
  <2>. QED
    BY <2>3, <2>4, <2>5, <2>6, <2>7, <2>8 DEF Next, TaskStep
<1>3. Inv => ContextIsRecorded
  BY DEF ContextIsRecorded, ContextHashedFirst, PipeHoldsWhatIsRecorded, Handing,
         Completions, Count
<1>. QED
  BY <1>1, <1>2, <1>3, TypeCorrect, PTL DEF Spec

-----------------------------------------------------------------------------
(* The order of the log: a later entry changes nothing of what is said of    *)
(* an earlier completion, and a new completion needs an approval to spare.   *)
Ordered(C, A) ==
    \A i \in C : Cardinality({j \in C : j <= i}) <= Cardinality({j \in A : j < i})

LEMMA ApprovalKeepsOrder ==
    ASSUME NEW n \in Nat, NEW m \in Nat, m > n, NEW C \in SUBSET (1..n),
           NEW A \in SUBSET (1..n), Ordered(C, A)
    PROVE  Ordered(C, A \cup {m})
<1>. SUFFICES ASSUME NEW i \in C
              PROVE  Cardinality({j \in C : j <= i}) <= Cardinality({j \in A \cup {m} : j < i})
  BY DEF Ordered
<1>1. {j \in A \cup {m} : j < i} = {j \in A : j < i}
  OBVIOUS
<1>. QED
  BY <1>1 DEF Ordered

LEMMA CompletionKeepsOrder ==
    ASSUME NEW n \in Nat, NEW C \in SUBSET (1..n), NEW A \in SUBSET (1..n), Ordered(C, A),
           Cardinality(C) + 1 <= Cardinality(A)
    PROVE  Ordered(C \cup {n + 1}, A)
<1>. SUFFICES ASSUME NEW i \in C \cup {n + 1}
              PROVE  Cardinality({j \in C \cup {n + 1} : j <= i}) <= Cardinality({j \in A : j < i})
  BY DEF Ordered
<1>1. CASE i \in C
  <2>1. {j \in C \cup {n + 1} : j <= i} = {j \in C : j <= i}
    BY <1>1
  <2>. QED
    BY <1>1, <2>1 DEF Ordered
<1>2. CASE i = n + 1
  <2>1. {j \in C \cup {n + 1} : j <= i} = C \cup {n + 1}
    <3>1. \A j \in C \cup {n + 1} : j <= i
      BY <1>2
    <3>. QED
      BY <3>1
  <2>4. {j \in A : j < i} = A
    <3>1. \A j \in A : j < i
      BY <1>2
    <3>. QED
      BY <3>1
  <2>2. IsFiniteSet(C) /\ n + 1 \notin C
    <3>1. IsFiniteSet(1..n)
      BY FS_Interval
    <3>2. IsFiniteSet(C)
      BY <3>1, FS_Subset
    <3>. QED
      BY <3>2
  <2>3. Cardinality(C \cup {n + 1}) = Cardinality(C) + 1
    BY <2>2, OneMore
  <2>. QED
    BY <2>1, <2>3, <2>4
<1>. QED
  BY <1>1, <1>2

(* No completion is logged that was not approved, in no prefix of the log.   *)
THEOREM CompletionsApproved == Spec => []EveryCompletionApproved
<1> DEFINE C(u) == Logged("TOOL_CALL_COMPLETED", u)
           A(u) == Logged("TOOL_CALL_APPROVED", u)
           In(u) == Doing("in_tool", u)
           Out(u) == Doing("sending_result", u)
           Fits(u) == /\ IsFiniteSet(In(u))
                      /\ IsFiniteSet(Out(u))
                      /\ Cardinality(C(u)) + Cardinality(In(u)) + Cardinality(Out(u))
                           <= Cardinality(A(u))
                      /\ Ordered(C(u), A(u))
           Inv == \A u \in Tools : Fits(u)
<1>1. Init => Inv
  <2> SUFFICES ASSUME Init, NEW u \in Tools PROVE Fits(u)
    OBVIOUS
  <2>1. In(u) = {} /\ Out(u) = {} /\ C(u) = {} /\ A(u) = {}
    BY DEF Init, Doing, Logged
  <2>2. IsFiniteSet({}) /\ Cardinality({}) = 0 /\ Ordered({}, {})
    BY FS_EmptySet DEF Ordered
  <2>. HIDE DEF In, Out, C, A
  <2>. QED
    BY <2>1, <2>2
<1>2. TypeOK /\ Inv /\ [Next]_vars => Inv'
  <2> SUFFICES ASSUME TypeOK, Inv, [Next]_vars, NEW u \in Tools PROVE Fits(u)'
    OBVIOUS
  <2>0. /\ IsFiniteSet(C(u)) /\ IsFiniteSet(A(u))
        /\ Cardinality(C(u)) \in Nat /\ Cardinality(A(u)) \in Nat
        /\ C(u) \subseteq 1..Len(trail) /\ A(u) \subseteq 1..Len(trail)
        /\ Len(trail) \in Nat
    BY PlacesOfLog DEF Count
  <2>f. Fits(u)
    OBVIOUS
  <2>t. Cardinality(In(u)) \in Nat /\ Cardinality(Out(u)) \in Nat
    BY <2>f, FS_CardinalityType
  <2>k. pc \in [Tasks -> TaskState] /\ toolOf \in [Tasks -> Tools \cup {NoTool}]
    BY DEF TypeOK
  <2>1. ASSUME C(u)' = C(u), A(u)' = A(u), In(u)' = In(u), Out(u)' = Out(u)
        PROVE  Fits(u)'
    <3>. HIDE DEF C, A, In, Out
    <3>. QED
      BY <2>1, <2>f DEF Ordered
  <2>2. ASSUME NEW x \in Entries, trail' = Append(trail, x),
               x.event \notin {"TOOL_CALL_APPROVED", "TOOL_CALL_COMPLETED"}
        PROVE  C(u)' = C(u) /\ A(u)' = A(u)
    BY <2>2, AfterOne
  <2>3. CASE Start \/ End
    <3>1. /\ Entry("SESSION_START", NoTool, 0) \in Entries
          /\ Entry("SESSION_END", NoTool, 0) \in Entries
          /\ Entry("SESSION_START", NoTool, 0).event = "SESSION_START"
          /\ Entry("SESSION_END", NoTool, 0).event = "SESSION_END"
      <4>1. /\ Entry("SESSION_START", NoTool, 0) \in Entries
            /\ Entry("SESSION_END", NoTool, 0) \in Entries
        BY EntryType DEF Event
      <4>. QED
        BY <4>1 DEF Entry
    <3>2. C(u)' = C(u) /\ A(u)' = A(u)
      <4>. HIDE DEF C, A
      <4>. QED
        BY <2>2, <2>3, <3>1 DEF Start, End
    <3>3. In(u)' = In(u) /\ Out(u)' = Out(u)
      BY <2>3 DEF Start, End, Doing
    <3>. QED
      BY <2>1, <3>2, <3>3
  <2>4. ASSUME NEW k \in Tasks, NEW t \in Tools, NEW outOfScope \in BOOLEAN,
               NEW overlap \in 0..MaxOverlap, CallTool(k, t, outOfScope, overlap)
        PROVE  Fits(u)'
    <3>1. PICK x \in Entries, y \in Entries :
              /\ trail' = trail \o <<x, y>>
              /\ x.event = "GOAL_SCORE"
              /\ y.tool = t
              /\ \/ /\ y.event \in {"TOOL_CALL_BLOCKED", "TOOL_CALL_REQUESTED"}
                    /\ UNCHANGED <<pc, toolOf>>
                 \/ /\ y.event = "TOOL_CALL_APPROVED"
                    /\ EnterTool(k, t)
      BY <2>4, CallLogs
    <3>2. C(u)' = C(u)
      BY <3>1, AfterTwo
    <3>3. A(u)' = IF y.event = "TOOL_CALL_APPROVED" /\ t = u
                  THEN A(u) \cup {Len(trail) + 2} ELSE A(u)
      BY <3>1, AfterTwo
    <3>4. pc[k] = "idle"
      BY <2>4 DEF CallTool
    <3>5. Out(u)' = Out(u)
      BY <2>k, <3>1, <3>4 DEF EnterTool, Doing
    <3>6. CASE In(u)' = In(u) /\ A(u)' = A(u)
      BY <2>1, <3>2, <3>5, <3>6
    <3>7. CASE /\ A(u)' = A(u) \cup {Len(trail) + 2}
               /\ \/ In(u)' = In(u)
                  \/ In(u)' = In(u) \cup {k} /\ k \notin In(u)
      <4>1. Len(trail) + 2 \notin A(u)
        <5>. HIDE DEF A
        <5>. QED
          BY <2>0
      <4>2. Cardinality(A(u)') = Cardinality(A(u)) + 1
        <5>. HIDE DEF A
        <5>. QED
          BY <2>0, <3>7, <4>1, OneMore
      <4>3. Ordered(C(u)', A(u)')
        <5>. HIDE DEF A, C
        <5>1. Len(trail) + 2 \in Nat /\ Len(trail) + 2 > Len(trail)
          BY <2>0
        <5>2. Ordered(C(u), A(u) \cup {Len(trail) + 2})
          BY <2>0, <2>f, <5>1, ApprovalKeepsOrder
        <5>. QED
          BY <3>2, <3>7, <5>2
      <4>4. /\ IsFiniteSet(In(u)')
            /\ Cardinality(In(u)') \in Nat
            /\ Cardinality(In(u)') <= Cardinality(In(u)) + 1
        <5>. HIDE DEF In, A, C, Out
        <5>1. CASE In(u)' = In(u)
          BY <2>f, <2>t, <5>1
        <5>2. CASE In(u)' = In(u) \cup {k} /\ k \notin In(u)
          BY <2>f, <2>t, <5>2, OneMore
        <5>. QED
          BY <3>7, <5>1, <5>2
      <4>. HIDE DEF In, Out, C, A
      <4>5. Ordered(C(u), A(u))'
        BY <4>3 DEF Ordered
      <4>. QED
        BY <2>0, <2>f, <2>t, <3>2, <3>5, <4>2, <4>4, <4>5
    <3>8. \/ In(u)' = In(u)
          \/ /\ y.event = "TOOL_CALL_APPROVED" /\ t = u
             /\ In(u)' = In(u) \cup {k} /\ k \notin In(u)
      BY <2>k, <3>1, <3>4 DEF EnterTool, Doing
    <3>. QED
      BY <3>3, <3>6, <3>7, <3>8
  <2>5. ASSUME NEW k \in Tasks, ToolReturns(k)
        PROVE  Fits(u)'
    <3>0. pc[k] = "in_tool"
      BY <2>5 DEF ToolReturns
    <3>1. CASE /\ pc' = [pc EXCEPT ![k] = "sending_result"]
               /\ UNCHANGED <<trail, toolOf>>
      <4>1. C(u)' = C(u) /\ A(u)' = A(u)
        BY <3>1 DEF Logged
      <4>2. CASE toolOf[k] # u
        <5>1. In(u)' = In(u) /\ Out(u)' = Out(u)
          BY <2>k, <3>0, <3>1, <4>2 DEF Doing
        <5>. QED
          BY <2>1, <4>1, <5>1
      <4>3. CASE toolOf[k] = u
        <5>1. /\ In(u)' = In(u) \ {k} /\ k \in In(u)
              /\ Out(u)' = Out(u) \cup {k} /\ k \notin Out(u)
          BY <2>k, <3>0, <3>1, <4>3 DEF Doing
        <5>. HIDE DEF In, Out, C, A
        <5>2. /\ IsFiniteSet(In(u)') /\ IsFiniteSet(Out(u)')
              /\ Cardinality(In(u)') = Cardinality(In(u)) - 1
              /\ Cardinality(Out(u)') = Cardinality(Out(u)) + 1
          BY <2>f, <5>1, OneMore, OneLess
        <5>3. Ordered(C(u), A(u))'
          BY <2>f, <4>1 DEF Ordered
        <5>. QED
          BY <2>0, <2>f, <2>t, <4>1, <5>2, <5>3
      <4>. QED
        BY <4>2, <4>3
    <3>2. CASE /\ trail' = Append(trail, Entry("TOOL_CALL_COMPLETED", toolOf[k], 0))
               /\ pc' = [pc EXCEPT ![k] = "idle"]
               /\ toolOf' = [toolOf EXCEPT ![k] = NoTool]
      <4> DEFINE x == Entry("TOOL_CALL_COMPLETED", toolOf[k], 0)
      <4>1. x \in Entries /\ x.event = "TOOL_CALL_COMPLETED" /\ x.tool = toolOf[k]
        <5>1. x \in Entries
          BY <2>k, EntryType DEF Event
        <5>. QED
          BY <5>1 DEF Entry
      <4>2. /\ C(u)' = IF toolOf[k] = u THEN C(u) \cup {Len(trail) + 1} ELSE C(u)
            /\ A(u)' = A(u)
        <5>. HIDE DEF x
        <5>. QED
          BY <3>2, <4>1, AfterOne DEF x
      <4>3. Out(u)' = Out(u)
        BY <2>k, <3>0, <3>2 DEF Doing
      <4>4. CASE toolOf[k] # u
        <5>1. In(u)' = In(u)
          BY <2>k, <3>0, <3>2, <4>4, SessionAssumption DEF Doing
        <5>. HIDE DEF x
        <5>. QED
          BY <2>1, <4>2, <4>3, <4>4, <5>1
      <4>5. CASE toolOf[k] = u
        <5>1. In(u)' = In(u) \ {k} /\ k \in In(u)
          BY <2>k, <3>0, <3>2, <4>5, SessionAssumption DEF Doing
        <5>. HIDE DEF In, Out, C, A, x
        <5>2. IsFiniteSet(In(u)') /\ Cardinality(In(u)') = Cardinality(In(u)) - 1
              /\ Cardinality(In(u)) - 1 \in Nat
          BY <2>f, <5>1, OneLess
        <5>3. C(u)' = C(u) \cup {Len(trail) + 1} /\ Len(trail) + 1 \notin C(u)
          BY <2>0, <4>2, <4>5
        <5>4. Cardinality(C(u)') = Cardinality(C(u)) + 1
          BY <2>0, <5>3, OneMore
        <5>5. Cardinality(C(u)) + 1 <= Cardinality(A(u))
          BY <2>0, <2>f, <2>t, <5>2
        <5>6. Ordered(C(u) \cup {Len(trail) + 1}, A(u))
          BY <2>0, <2>f, <5>5, CompletionKeepsOrder
        <5>7. Ordered(C(u), A(u))'
          BY <4>2, <5>3, <5>6 DEF Ordered
        <5>. QED
          BY <2>0, <2>f, <2>t, <4>2, <4>3, <5>2, <5>4, <5>7
      <4>. QED
        BY <4>4, <4>5
    <3>. QED
      BY <2>5, <3>1, <3>2 DEF ToolReturns
  <2>6. ASSUME NEW k \in Tasks, ToolRaises(k)
        PROVE  Fits(u)'
    <3>1. C(u)' = C(u) /\ A(u)' = A(u)
      BY <2>6 DEF ToolRaises, Logged
    <3>0. /\ pc[k] = "in_tool"
          /\ pc' = [pc EXCEPT ![k] = "idle"]
          /\ toolOf' = [toolOf EXCEPT ![k] = NoTool]
      BY <2>6 DEF ToolRaises
    <3>2. Out(u)' = Out(u)
      BY <3>0, <2>k DEF Doing
    <3>5. \/ In(u)' = In(u)
          \/ In(u)' = In(u) \ {k} /\ k \in In(u)
      <4>1. CASE toolOf[k] = u
        BY <3>0, <2>k, <4>1 DEF Doing
      <4>2. CASE toolOf[k] # u
        BY <3>0, <2>k, <4>2, SessionAssumption DEF Doing
      <4>. QED
        BY <4>1, <4>2
    <3>3. CASE In(u)' = In(u)
      BY <2>1, <3>1, <3>2, <3>3
    <3>4. CASE In(u)' = In(u) \ {k} /\ k \in In(u)
      <4>. HIDE DEF In, Out, C, A
      <4>1. IsFiniteSet(In(u)') /\ Cardinality(In(u)') = Cardinality(In(u)) - 1
        BY <2>f, <3>4, OneLess
      <4>2. Ordered(C(u), A(u))'
        BY <2>f, <3>1 DEF Ordered
      <4>. QED
        BY <2>0, <2>f, <2>t, <3>1, <3>2, <4>1, <4>2
    <3>. QED
      BY <3>3, <3>4, <3>5
  <2>7. ASSUME NEW k \in Tasks, IngestContext(k)
        PROVE  Fits(u)'
    <3>1. /\ Entry("CONTEXT_HASH", NoTool, 0) \in Entries
          /\ Entry("CONTEXT_HASH", NoTool, 0).event = "CONTEXT_HASH"
      <4>1. Entry("CONTEXT_HASH", NoTool, 0) \in Entries
        BY EntryType DEF Event
      <4>. QED
        BY <4>1 DEF Entry
    <3>2. C(u)' = C(u) /\ A(u)' = A(u)
      <4>1. trail' = Append(trail, Entry("CONTEXT_HASH", NoTool, 0))
        BY <2>7 DEF IngestContext
      <4>. HIDE DEF C, A
      <4>. QED
        BY <2>2, <3>1, <4>1
    <3>3. In(u)' = In(u) /\ Out(u)' = Out(u)
      BY <2>7, <2>k DEF IngestContext, Doing
    <3>. QED
      BY <2>1, <3>2, <3>3
  <2>8. CASE UNCHANGED vars
    <3>1. UNCHANGED <<trail, pc, toolOf>>
      BY <2>8 DEF vars, sessionVars
    <3>2. C(u)' = C(u) /\ A(u)' = A(u) /\ In(u)' = In(u) /\ Out(u)' = Out(u)
      BY <3>1 DEF Logged, Doing
    <3>. QED
      BY <2>1, <3>2
  <2>. QED
    BY <2>3, <2>4, <2>5, <2>6, <2>7, <2>8 DEF Next, TaskStep
<1>3. Inv => EveryCompletionApproved
  BY DEF EveryCompletionApproved, Ordered, Count
<1>. QED
  BY <1>1, <1>2, <1>3, TypeCorrect, PTL DEF Spec

-----------------------------------------------------------------------------
(* What the log shows of the monitor, after an entry that is no score, and   *)
(* after the score and the verdict of a call.                                *)
LEMMA OtherEntryShowsNothing ==
    ASSUME TypeOK, NEW x \in Entries, trail' = Append(trail, x), x.event # "GOAL_SCORE"
    PROVE  /\ \A u : Scored(u)' = Scored(u)
           /\ LowTail' = LowTail
<1>1. DOMAIN trail = 1..Len(trail) /\ DOMAIN trail' = 1..(Len(trail) + 1)
  BY DEF TypeOK
<1>2. /\ \A i \in 1..Len(trail) : trail'[i] = trail[i]
      /\ trail'[Len(trail) + 1] = x
      /\ Len(trail) \in Nat
  BY DEF TypeOK
<1>3. DriftPlaces' = DriftPlaces /\ DriftPlaces \subseteq 1..Len(trail)
  BY <1>1, <1>2 DEF DriftPlaces
<1>4. LowTail' = LowTail
  BY <1>2, <1>3 DEF LowTail, Aligned
<1>. QED
  BY <1>1, <1>2, <1>4 DEF Scored, Logged

LEMMA CallShowsItsScore ==
    ASSUME TypeOK, NEW x \in Entries, NEW y \in Entries, trail' = trail \o <<x, y>>,
           x.event = "GOAL_SCORE", y.event # "GOAL_SCORE"
    PROVE  /\ \A u : Scored(u)' = IF x.tool = u /\ x.score > 0
                                   THEN Scored(u) \cup {Len(trail) + 1} ELSE Scored(u)
           /\ LowTail' = IF x.score > 0 /\ ~Permission[x.tool].approval
                         THEN IF Aligned(x.score) THEN {} ELSE LowTail \cup {Len(trail) + 1}
                         ELSE LowTail
<1> DEFINE n == Len(trail)
<1>1. DOMAIN trail = 1..n /\ DOMAIN trail' = 1..(n + 2) /\ n \in Nat
  BY DEF TypeOK
<1>2. /\ \A i \in 1..n : trail'[i] = trail[i]
      /\ trail'[n + 1] = x
      /\ trail'[n + 2] = y
  BY DEF TypeOK
<1>. HIDE DEF n
<1>3. \A u : Scored(u)' = IF x.tool = u /\ x.score > 0 THEN Scored(u) \cup {n + 1} ELSE Scored(u)
  BY <1>1, <1>2 DEF Scored, Logged
<1>4. DriftPlaces' = IF x.score > 0 /\ ~Permission[x.tool].approval
                     THEN DriftPlaces \cup {n + 1} ELSE DriftPlaces
  BY <1>1, <1>2 DEF DriftPlaces
<1>5. DriftPlaces \subseteq 1..n
  BY <1>1 DEF DriftPlaces
<1>6. ASSUME DriftPlaces' = DriftPlaces PROVE LowTail' = LowTail
  BY <1>1, <1>2, <1>5, <1>6 DEF LowTail, Aligned
<1>7. ASSUME x.score > 0, ~Permission[x.tool].approval, DriftPlaces' = DriftPlaces \cup {n + 1}
      PROVE  LowTail' = IF Aligned(x.score) THEN {} ELSE LowTail \cup {n + 1}
  <2>1. \A i \in DriftPlaces' : i <= n + 1
    BY <1>1, <1>5, <1>7
  <2>2. CASE Aligned(x.score)
    <3>1. ~\E i \in DriftPlaces' : i \in LowTail'
      BY <1>2, <1>7, <2>1, <2>2 DEF LowTail, Aligned
    <3>2. LowTail' \subseteq DriftPlaces'
      BY DEF LowTail
    <3>. QED
      BY <2>2, <3>1, <3>2
  <2>3. CASE ~Aligned(x.score)
    <3>1. ASSUME NEW i \in DriftPlaces PROVE i \in LowTail' <=> i \in LowTail
      BY <1>1, <1>2, <1>5, <1>7, <2>3 DEF LowTail, Aligned
    <3>2. n + 1 \in LowTail'
      BY <1>1, <1>2, <1>5, <1>7, <2>3 DEF LowTail, Aligned
    <3>3. LowTail \subseteq DriftPlaces /\ LowTail' \subseteq DriftPlaces \cup {n + 1}
      BY <1>7 DEF LowTail
    <3>4. LowTail' = LowTail \cup {n + 1}
      BY <3>1, <3>2, <3>3
    <3>. QED
      BY <2>3, <3>4
  <2>. QED
    BY <2>2, <2>3
<1>8. LowTail' = IF x.score > 0 /\ ~Permission[x.tool].approval
                 THEN IF Aligned(x.score) THEN {} ELSE LowTail \cup {n + 1}
                 ELSE LowTail
  BY <1>4, <1>6, <1>7
<1>. QED
  BY <1>3, <1>8 DEF n

(* Both are finite sets of places in the log.                                *)
LEMMA ShownFinite ==
    ASSUME TypeOK, NEW u
    PROVE  /\ IsFiniteSet(Scored(u)) /\ Scored(u) \subseteq 1..Len(trail)
           /\ IsFiniteSet(LowTail) /\ LowTail \subseteq 1..Len(trail)
           /\ Cardinality(LowTail) \in Nat
           /\ Len(trail) + 1 \notin Scored(u) /\ Len(trail) + 1 \notin LowTail
<1>1. DOMAIN trail = 1..Len(trail) /\ Len(trail) \in Nat
  BY DEF TypeOK
<1>2. Scored(u) \subseteq 1..Len(trail) /\ LowTail \subseteq 1..Len(trail)
  BY <1>1 DEF Scored, Logged, LowTail, DriftPlaces
<1>3. IsFiniteSet(1..Len(trail))
  BY <1>1, FS_Interval
<1>4. IsFiniteSet(Scored(u)) /\ IsFiniteSet(LowTail)
  BY <1>2, <1>3, FS_Subset
<1>5. Cardinality(LowTail) \in Nat
  BY <1>4, FS_CardinalityType
<1>. QED
  BY <1>1, <1>2, <1>4, <1>5

(* evaluate scores a call above zero exactly when no hard check stops it.    *)
LEMMA SoftMeansPositive ==
    ASSUME NEW t \in Tools, NEW outOfScope \in BOOLEAN, NEW overlap \in 0..MaxOverlap
    PROVE  Score(t, outOfScope, overlap) > 0 <=> ~HardBlock(t)
<1>1. SoftScore(t, outOfScope, overlap) > 0
  BY Numbers DEF SoftScore
<1>. QED
  BY <1>1 DEF Score

(* What a call leaves of the monitor, and what it logs of its score.         *)
LEMMA CallAccounts ==
    ASSUME TypeOK, AccountsMatchLog, NEW k \in Tasks, NEW t \in Tools, NEW outOfScope \in BOOLEAN,
           NEW overlap \in 0..MaxOverlap, CallTool(k, t, outOfScope, overlap)
    PROVE  AccountsMatchLog'
<1> DEFINE score == Score(t, outOfScope, overlap)
           x == Entry("GOAL_SCORE", t, score)
<1>1. score \in 0..100 /\ (score > 0 <=> ~HardBlock(t))
  BY ScoreType, SoftMeansPositive
<1>2. Evaluate(t, score)
  BY DEF CallTool
<1>3. PICK y \in Entries : trail' = trail \o <<x, y>> /\ y.event # "GOAL_SCORE"
  <2>1. \A e \in Event, s \in 0..100 :
            Entry(e, t, s) \in Entries /\ Entry(e, t, s).event = e
    BY EntryType DEF Event, Entry
  <2>2. /\ "TOOL_CALL_BLOCKED" \in Event /\ "TOOL_CALL_REQUESTED" \in Event
        /\ "TOOL_CALL_APPROVED" \in Event /\ 0 \in 0..100
    BY DEF Event
  <2>3. \E e \in {"TOOL_CALL_BLOCKED", "TOOL_CALL_REQUESTED", "TOOL_CALL_APPROVED"}, s \in 0..100 :
            trail' = trail \o <<x, Entry(e, t, s)>>
    BY <1>1, <2>2 DEF CallTool
  <2>4. PICK e \in {"TOOL_CALL_BLOCKED", "TOOL_CALL_REQUESTED", "TOOL_CALL_APPROVED"}, s \in 0..100 :
            trail' = trail \o <<x, Entry(e, t, s)>>
    BY <2>3
  <2>5. Entry(e, t, s) \in Entries /\ Entry(e, t, s).event # "GOAL_SCORE"
    BY <2>1, <2>2
  <2>. QED
    BY <2>4, <2>5
<1>. HIDE DEF score
<1>4. x \in Entries /\ x.event = "GOAL_SCORE" /\ x.tool = t /\ x.score = score
  BY <1>1, EntryType DEF Event, Entry
<1>. HIDE DEF x
<1>5. /\ \A u : Scored(u)' = IF t = u /\ score > 0 THEN Scored(u) \cup {Len(trail) + 1} ELSE Scored(u)
      /\ LowTail' = IF score > 0 /\ ~Permission[t].approval
                    THEN IF Aligned(score) THEN {} ELSE LowTail \cup {Len(trail) + 1}
                    ELSE LowTail
  BY <1>3, <1>4, CallShowsItsScore
<1>6. /\ callCounts \in [Tools -> Nat] /\ consecutiveLow \in Nat /\ suspended \in BOOLEAN
  BY DEF TypeOK, MonitorTypeOK
<1>7. CASE HardBlock(t)
  <2>1. UNCHANGED <<callCounts, consecutiveLow, suspended>>
    BY <1>2, <1>7 DEF Evaluate, monitorVars
  <2>2. \A u : Scored(u)' = Scored(u) /\ LowTail' = LowTail
    BY <1>1, <1>5, <1>7
  <2>. QED
    BY <2>1, <2>2 DEF AccountsMatchLog, CountsMatchLog, DriftMatchesLog
<1>8. CASE ~HardBlock(t)
  <2>1. CountsMatchLog'
    <3> SUFFICES ASSUME NEW u \in Tools PROVE callCounts'[u] = Cardinality(Scored(u)')
      BY DEF CountsMatchLog
    <3>1. callCounts' = [callCounts EXCEPT ![t] = @ + 1]
      BY <1>2, <1>8 DEF Evaluate
    <3>2. callCounts[u] = Cardinality(Scored(u))
      BY DEF AccountsMatchLog, CountsMatchLog
    <3>3. CASE u = t
      <4>1. Scored(u)' = Scored(u) \cup {Len(trail) + 1}
        BY <1>1, <1>5, <1>8, <3>3
      <4>2. Cardinality(Scored(u)') = Cardinality(Scored(u)) + 1
        BY <4>1, ShownFinite, OneMore
      <4>. QED
        BY <1>6, <3>1, <3>2, <3>3, <4>2
    <3>4. CASE u # t
      BY <1>5, <1>6, <3>1, <3>2, <3>4
    <3>. QED
      BY <3>3, <3>4
  <2>2. consecutiveLow' = Cardinality(LowTail')
    <3>1. consecutiveLow' = DriftAfter(t, score) /\ consecutiveLow = Cardinality(LowTail)
      BY <1>2, <1>8 DEF Evaluate, AccountsMatchLog, DriftMatchesLog
    <3>2. CASE Permission[t].approval
      BY <1>5, <3>1, <3>2 DEF DriftAfter
    <3>3. CASE ~Permission[t].approval /\ Aligned(score)
      BY <1>1, <1>5, <1>8, <3>1, <3>3, FS_EmptySet DEF DriftAfter
    <3>4. CASE ~Permission[t].approval /\ ~Aligned(score)
      <4>1. LowTail' = LowTail \cup {Len(trail) + 1}
        BY <1>1, <1>5, <1>8, <3>4
      <4>2. Cardinality(LowTail') = Cardinality(LowTail) + 1
        BY <4>1, ShownFinite, OneMore
      <4>. QED
        BY <3>1, <3>4, <4>2 DEF DriftAfter
    <3>. QED
      BY <3>2, <3>3, <3>4
  <2>3. suspended' <=> consecutiveLow' >= MaxConsecutiveLow
    <3>1. ~suspended
      BY <1>8 DEF HardBlock
    <3>2. suspended' = (suspended \/ consecutiveLow' >= MaxConsecutiveLow)
      BY <1>2, <1>8 DEF Evaluate
    <3>. QED
      BY <3>1, <3>2
  <2>. QED
    BY <2>1, <2>2, <2>3 DEF AccountsMatchLog, DriftMatchesLog
<1>. QED
  BY <1>7, <1>8

(* The counts, the run of low scores and the suspension of the monitor are   *)
(* what a replay of the log finds, whatever the tasks overlap.               *)
THEOREM AccountsMatch == Spec => []AccountsMatchLog
<1>1. Init => AccountsMatchLog
  <2> SUFFICES ASSUME Init PROVE AccountsMatchLog
    OBVIOUS
  <2>1. LowTail = {} /\ \A u \in Tools : Scored(u) = {}
    BY DEF Init, LowTail, DriftPlaces, Scored, Logged
  <2>2. Cardinality({}) = 0 /\ ~(0 >= MaxConsecutiveLow)
    BY FS_EmptySet, MonitorAssumption
  <2>. QED
    BY <2>1, <2>2 DEF Init, MonitorInit, AccountsMatchLog, CountsMatchLog, DriftMatchesLog
<1>2. TypeOK /\ AccountsMatchLog /\ [Next]_vars => AccountsMatchLog'
  <2> SUFFICES ASSUME TypeOK, AccountsMatchLog, [Next]_vars PROVE AccountsMatchLog'
    OBVIOUS
  <2>1. ASSUME NEW x \in Entries, trail' = Append(trail, x), x.event # "GOAL_SCORE",
               UNCHANGED monitorVars
        PROVE  AccountsMatchLog'
    <3>1. (\A u : Scored(u)' = Scored(u)) /\ LowTail' = LowTail
      BY <2>1, OtherEntryShowsNothing
    <3>. QED
      BY <2>1, <3>1 DEF monitorVars, AccountsMatchLog, CountsMatchLog, DriftMatchesLog
  <2>2. ASSUME UNCHANGED <<trail, callCounts, consecutiveLow, suspended>>
        PROVE  AccountsMatchLog'
    BY <2>2 DEF AccountsMatchLog, CountsMatchLog, DriftMatchesLog, Scored, Logged, LowTail,
                DriftPlaces, Aligned
  <2>3. \A e \in {"SESSION_START", "SESSION_END", "TOOL_CALL_COMPLETED", "CONTEXT_HASH"},
          t \in Tools \cup {NoTool} :
            Entry(e, t, 0) \in Entries /\ Entry(e, t, 0).event # "GOAL_SCORE"
    <3>1. \A e \in Event, t \in Tools \cup {NoTool} : Entry(e, t, 0) \in Entries
      BY EntryType
    <3>2. \A e, t : Entry(e, t, 0).event = e
      BY DEF Entry
    <3>. QED
      BY <3>1, <3>2 DEF Event
  <2>4. CASE Start \/ End
    BY <2>1, <2>3, <2>4 DEF Start, End
  <2>5. ASSUME NEW k \in Tasks, ToolReturns(k) \/ ToolRaises(k) \/ IngestContext(k)
        PROVE  AccountsMatchLog'
    <3>1. UNCHANGED monitorVars /\ toolOf[k] \in Tools \cup {NoTool}
      BY <2>5 DEF ToolReturns, ToolRaises, IngestContext, TypeOK
    <3>2. \/ UNCHANGED trail
          \/ trail' = Append(trail, Entry("TOOL_CALL_COMPLETED", toolOf[k], 0))
          \/ trail' = Append(trail, Entry("CONTEXT_HASH", NoTool, 0))
      BY <2>5 DEF ToolReturns, ToolRaises, IngestContext
    <3>. QED
      BY <2>1, <2>2, <2>3, <3>1, <3>2 DEF monitorVars
  <2>6. CASE UNCHANGED vars
    BY <2>2, <2>6 DEF vars, sessionVars, monitorVars
  <2>. QED
    BY <2>4, <2>5, <2>6, CallAccounts DEF Next, TaskStep
<1>. QED
  BY <1>1, <1>2, TypeCorrect, PTL DEF Spec

-----------------------------------------------------------------------------
(***************************************************************************)
(* The audit log (AuditLog), for every set of writers and payloads and     *)
(* every length of the file: what one writer wrote is intact to            *)
(* verify_chain, for every holder of its secret, also after writes that    *)
(* raised and across restarts that write nothing; whatever is done to the  *)
(* file, a line that verifies was written, and what precedes the first     *)
(* error is the beginning of what was written.  MCAuditRestart.cfg shows   *)
(* that the first and the last need the single author.                     *)
(***************************************************************************)
(* An hmac is an untyped term, so a sequence of lines is only that: some     *)
(* sequence.                                                                 *)
IsSeq(s) == \E S : s \in Seq(S)

(* What the i-th written record must be chained to.                          *)
Before(i) == IF i = 1 THEN Zeros ELSE written[i - 1].hmac

(* The strengthening: as long as w alone wrote, the written records form one *)
(* chain, of which w remembers the end, under one secret, chosen before the  *)
(* first.  Whoever else has the file open does not disturb it.               *)
Shape ==
    /\ IsSeq(written)
    /\ IsSeq(log)
    /\ secretFile \in Keys
    /\ phase \in [Writers -> Phases]
    /\ secret \in [Writers -> Keys]
    /\ DOMAIN prevHmac = Writers

OwnChain(w) ==
    /\ phase[w] \notin {"open", "gone"} => written = <<>>
    /\ prevHmac[w] = Before(Len(written) + 1)
    /\ \A i \in DOMAIN written :
          /\ Parseable(written[i])
          /\ written[i].hmac = Hmac(secret[w], Before(i), written[i].entry)

ChainInv(w) == Shape /\ (authors \subseteq {w} => OwnChain(w))

LEMMA SeqFacts ==
    ASSUME NEW s, IsSeq(s)
    PROVE  Len(s) \in Nat /\ DOMAIN s = 1..Len(s)
BY LenProperties DEF IsSeq

LEMMA AppendFacts ==
    ASSUME NEW s, IsSeq(s), NEW x
    PROVE  /\ IsSeq(Append(s, x))
           /\ Len(Append(s, x)) = Len(s) + 1
           /\ Append(s, x)[Len(s) + 1] = x
           /\ \A i \in 1..Len(s) : Append(s, x)[i] = s[i]
<1>1. PICK S : s \in Seq(S)
  BY DEF IsSeq
<1>2. s \in Seq(S \cup {x})
  BY <1>1, SeqMonotonic
<1>3. Append(s, x) \in Seq(S \cup {x})
  BY <1>2
<1>4. /\ Len(Append(s, x)) = Len(s) + 1
      /\ Append(s, x)[Len(s) + 1] = x
      /\ \A i \in 1..Len(s) : Append(s, x)[i] = s[i]
  BY <1>2
<1>. QED
  BY <1>3, <1>4 DEF IsSeq

LEMMA ExceptFacts ==
    ASSUME NEW s, IsSeq(s), NEW n \in DOMAIN s, NEW x
    PROVE  IsSeq([s EXCEPT ![n] = x])
<1>1. PICK S : s \in Seq(S)
  BY DEF IsSeq
<1>2. s \in Seq(S \cup {x}) /\ n \in 1..Len(s)
  BY <1>1, SeqMonotonic, SeqFacts
<1>3. [s EXCEPT ![n] = x] \in Seq(S \cup {x})
  BY <1>2, ExceptSeq
<1>. QED
  BY <1>3 DEF IsSeq

(* A record has an entry, a line cut short has none.                         *)
LEMMA RecordParses ==
    ASSUME NEW e, NEW h
    PROVE  Parseable(Record(e, h))
BY DEF Parseable, Record, Torn, Garbled

(* Dropping a line leaves a sequence.                                        *)
LEMMA DropFacts ==
    ASSUME NEW s, IsSeq(s), NEW n \in DOMAIN s
    PROVE  IsSeq(SubSeq(s, 1, n - 1) \o SubSeq(s, n + 1, Len(s)))
<1>1. PICK S : s \in Seq(S)
  BY DEF IsSeq
<1>2. n \in 1..Len(s) /\ Len(s) \in Nat
  BY SeqFacts
<1>3. \A i \in 1..Len(s) : s[i] \in S
  BY <1>1, ElementOfSeq
<1>4. SubSeq(s, 1, n - 1) \in Seq(S)
  BY <1>2, <1>3, SubSeqProperties
<1>5. SubSeq(s, n + 1, Len(s)) \in Seq(S)
  BY <1>2, <1>3, SubSeqProperties
<1>. QED
  BY <1>4, <1>5, ConcatProperties DEF IsSeq

LEMMA AppendLineFacts ==
    ASSUME IsSeq(log), NEW line
    PROVE  IsSeq(AppendLine(line))
<1>1. CASE TornTail
  <2>1. Len(log) \in DOMAIN log
    BY <1>1, SeqFacts, EmptySeq DEF TornTail, IsSeq
  <2>. QED
    BY <1>1, <2>1, ExceptFacts DEF AppendLine
<1>2. CASE ~TornTail
  BY <1>2, AppendFacts DEF AppendLine
<1>. QED
  BY <1>1, <1>2

-----------------------------------------------------------------------------
(* The writer's own append extends the chain.                                *)
LEMMA WriteKeepsChain ==
    ASSUME NEW w \in Writers, Shape, OwnChain(w), NEW entry, Write(w, entry)
    PROVE  ChainInv(w)'
<1> DEFINE r == Record(entry, Hmac(secret[w], prevHmac[w], entry))
<1>0. written' = Append(written, r) /\ UNCHANGED <<secretFile, phase, secret>> /\ phase[w] = "open"
  BY DEF Write
<1>1. Parseable(r)
  BY RecordParses
<1>2. r.hmac = Hmac(secret[w], prevHmac[w], entry) /\ r.entry = entry
  BY DEF Record
<1>3. prevHmac' = [prevHmac EXCEPT ![w] = r.hmac]
  BY DEF Write
<1>4. IsSeq(written) /\ IsSeq(log)
  BY DEF Shape, OwnChain
<1>5. IsSeq(log')
  BY <1>4, AppendLineFacts DEF Write
<1> HIDE DEF r
<1>6. /\ IsSeq(written')
      /\ Len(written') = Len(written) + 1
      /\ written'[Len(written) + 1] = r
      /\ \A i \in 1..Len(written) : written'[i] = written[i]
      /\ Len(written) \in Nat
      /\ DOMAIN written = 1..Len(written)
      /\ DOMAIN written' = 1..(Len(written) + 1)
  BY <1>0, <1>4, AppendFacts, SeqFacts
<1>7. \A i \in 1..(Len(written) + 1) : Before(i)' = Before(i)
  BY <1>6 DEF Before
<1>8. prevHmac'[w] = Before(Len(written) + 1)'
  <2>1. prevHmac'[w] = r.hmac
    BY <1>3 DEF Shape, OwnChain
  <2>2. Len(written') + 1 # 1 /\ written'[Len(written') + 1 - 1] = r
    BY <1>6
  <2>. QED
    BY <2>1, <2>2 DEF Before
<1>9. ASSUME NEW i \in DOMAIN written'
      PROVE  /\ Parseable(written'[i])
             /\ written'[i].hmac = Hmac(secret'[w], Before(i)', written'[i].entry)
  <2>1. CASE i \in DOMAIN written
    BY <1>0, <1>6, <1>7, <2>1 DEF Shape, OwnChain
  <2>2. CASE i = Len(written) + 1
    BY <1>0, <1>1, <1>2, <1>6, <1>7, <2>2 DEF Shape, OwnChain
  <2>. QED
    BY <1>6, <1>9, <2>1, <2>2
<1>10. DOMAIN prevHmac' = Writers
  BY <1>3 DEF Shape, OwnChain
<1>. QED
  BY <1>0, <1>5, <1>6, <1>8, <1>9, <1>10 DEF ChainInv, Shape, OwnChain

(* No other step touches the chain.                                          *)
LEMMA OthersKeepChain ==
    ASSUME NEW w \in Writers, ChainInv(w), UNCHANGED <<written, prevHmac, authors>>,
           IsSeq(log'), secretFile' \in Keys, phase' \in [Writers -> Phases], secret' \in [Writers -> Keys],
           \/ secret'[w] = secret[w]
           \/ phase[w] \notin {"open", "gone"},
           phase[w] \in {"open", "gone"} => phase'[w] \in {"open", "gone"}
    PROVE  ChainInv(w)'
<1>1. Shape'
  BY DEF ChainInv, Shape
<1>2. \A i : Before(i)' = Before(i)
  BY DEF Before
<1>3. ASSUME OwnChain(w), secret'[w] = secret[w]
      PROVE  OwnChain(w)'
  BY <1>2, <1>3 DEF OwnChain
<1>4. ASSUME OwnChain(w), phase[w] \notin {"open", "gone"}
      PROVE  OwnChain(w)'
  <2>1. written = <<>> /\ DOMAIN written = {}
    BY <1>4, EmptySeq DEF OwnChain
  <2>. QED
    BY <1>2, <1>4, <2>1 DEF OwnChain
<1>. QED
  BY <1>1, <1>3, <1>4 DEF ChainInv

(* A write of another writer ends the single authorship.                     *)
LEMMA OtherAuthor ==
    ASSUME NEW w \in Writers, NEW x \in Writers, x # w, Shape, NEW entry, Write(x, entry)
    PROVE  ChainInv(w)'
<1>1. ~(authors' \subseteq {w})
  BY DEF Write
<1>2. IsSeq(written') /\ IsSeq(log')
  BY AppendFacts, AppendLineFacts DEF Write, Shape
<1>. QED
  BY <1>1, <1>2 DEF Write, ChainInv, Shape

LEMMA ChainStep ==
    ASSUME NEW w \in Writers, ChainInv(w), [AuditNext]_auditVars
    PROVE  ChainInv(w)'
<1>0. Shape
  BY DEF ChainInv
<1>1. ASSUME NEW x \in Writers, LoadSecret(x)
      PROVE  ChainInv(w)'
  BY <1>0, <1>1, OthersKeepChain DEF LoadSecret, Phases, Shape
<1>2. ASSUME NEW x \in Writers, FindNoSecret(x)
      PROVE  ChainInv(w)'
  BY <1>0, <1>2, OthersKeepChain DEF FindNoSecret, Phases, Shape
<1>3. ASSUME NEW x \in Writers, TruncateSecret(x)
      PROVE  ChainInv(w)'
  BY <1>0, <1>3, OthersKeepChain DEF TruncateSecret, Phases, Keys, Shape
<1>4. ASSUME NEW x \in Writers, WriteSecret(x)
      PROVE  ChainInv(w)'
  BY <1>0, <1>4, OthersKeepChain DEF WriteSecret, Phases, Keys, Shape
<1>5. ASSUME NEW x \in Writers, Close(x)
      PROVE  ChainInv(w)'
  BY <1>0, <1>5, OthersKeepChain DEF Close, Phases, Shape
<1>6. ASSUME NEW x \in Writers, NEW entry \in Payloads, Write(x, entry)
      PROVE  ChainInv(w)'
  <2>1. CASE x # w
    BY <1>0, <1>6, <2>1, OtherAuthor
  <2>2. CASE x = w /\ OwnChain(w)
    BY <1>0, <1>6, <2>2, WriteKeepsChain
  <2>3. CASE x = w /\ ~(authors \subseteq {w})
    <3>1. ~(authors' \subseteq {w})
      BY <1>6, <2>3 DEF Write
    <3>2. IsSeq(written') /\ IsSeq(log')
      BY <1>0, <1>6, AppendFacts, AppendLineFacts DEF Write, Shape
    <3>. QED
      BY <1>0, <1>6, <3>1, <3>2 DEF Write, ChainInv, Shape
  <2>. QED
    BY <2>1, <2>2, <2>3 DEF ChainInv
<1>7. ASSUME NEW x \in Writers, NEW entry \in Payloads, WriteCutShort(x, entry)
      PROVE  ChainInv(w)'
  <2>1. IsSeq(log')
    BY <1>0, <1>7, AppendLineFacts DEF WriteCutShort, Shape
  <2>. QED
    BY <1>0, <1>7, <2>1, OthersKeepChain DEF WriteCutShort, Shape
<1>8. CASE Damage
  <2>1. PICK n \in DOMAIN log :
          \/ \E entry \in Payloads : log' = [log EXCEPT ![n].entry = entry]
          \/ log' = [log EXCEPT ![n].hmac = Junk]
          \/ log' = SubSeq(log, 1, n - 1) \o SubSeq(log, n + 1, Len(log))
    BY <1>8 DEF Damage
  <2>2. IsSeq(log')
    <3>1. CASE \E entry \in Payloads : log' = [log EXCEPT ![n].entry = entry]
      <4>1. PICK entry \in Payloads : log' = [log EXCEPT ![n] = [log[n] EXCEPT !.entry = entry]]
        BY <3>1
      <4>. QED
        BY <1>0, <4>1, ExceptFacts DEF Shape
    <3>2. CASE log' = [log EXCEPT ![n].hmac = Junk]
      <4>1. log' = [log EXCEPT ![n] = [log[n] EXCEPT !.hmac = Junk]]
        BY <3>2
      <4>. QED
        BY <1>0, <4>1, ExceptFacts DEF Shape
    <3>3. CASE log' = SubSeq(log, 1, n - 1) \o SubSeq(log, n + 1, Len(log))
      BY <1>0, <3>3, DropFacts DEF Shape
    <3>. QED
      BY <2>1, <3>1, <3>2, <3>3
  <2>. QED
    BY <1>0, <1>8, <2>2, OthersKeepChain DEF Damage, Shape
<1>9. CASE UNCHANGED auditVars
  BY <1>0, <1>9, OthersKeepChain DEF auditVars, Shape
<1>. QED
  BY <1>1, <1>2, <1>3, <1>4, <1>5, <1>6, <1>7, <1>8, <1>9 DEF AuditNext

-----------------------------------------------------------------------------
(* Where every line before the n-th parses, the last of them is the one the  *)
(* n-th is checked against.                                                  *)
LEMMA PrevIsLast ==
    ASSUME IsSeq(log), NEW n \in DOMAIN log, \A m \in 1..(n - 1) : Parseable(log[m])
    PROVE  PrevOfChecked(n) = IF n = 1 THEN Zeros ELSE log[n - 1].hmac
<1> DEFINE before == {m \in 1..(n - 1) : Parseable(log[m])}
<1>0. n \in 1..Len(log) /\ Len(log) \in Nat
  BY SeqFacts
<1>1. before = 1..(n - 1)
  BY <1>0
<1>2. CASE n = 1
  BY <1>1, <1>2 DEF PrevOfChecked
<1>3. CASE n # 1
  <2>1. n - 1 \in before /\ \A k \in before : k <= n - 1
    BY <1>0, <1>1, <1>3
  <2>2. (CHOOSE m \in before : \A k \in before : k <= m) = n - 1
    <3> DEFINE top == CHOOSE m \in before : \A k \in before : k <= m
    <3>1. top \in before /\ \A k \in before : k <= top
      BY <2>1
    <3>. QED
      BY <1>0, <1>1, <2>1, <3>1
  <2>. QED
    BY <1>3, <2>1, <2>2 DEF PrevOfChecked
<1>. QED
  BY <1>2, <1>3

(* In a file that holds what was written, every line checks: the last line   *)
(* that parses before the n-th is the one before it.                         *)
LEMMA ChainIsClean ==
    ASSUME NEW w \in Writers, Shape, OwnChain(w), Authentic
    PROVE  Errors(secret[w]) = {}
<1> SUFFICES ASSUME NEW n \in DOMAIN log
             PROVE  Parseable(log[n]) /\ log[n].hmac = Hmac(secret[w], PrevOfChecked(n), log[n].entry)
  BY DEF Errors
<1>1. /\ Len(log) \in Nat /\ DOMAIN log = 1..Len(log)
      /\ Len(written) \in Nat /\ DOMAIN written = 1..Len(written)
  BY SeqFacts DEF Shape
<1>2. \A m \in 1..n : m \in DOMAIN written /\ log[m] = written[m] /\ Parseable(log[m])
  BY <1>1 DEF Authentic, OwnChain
<1>3. PrevOfChecked(n) = Before(n)
  <2>1. PrevOfChecked(n) = IF n = 1 THEN Zeros ELSE log[n - 1].hmac
    BY <1>1, <1>2, PrevIsLast DEF Shape
  <2>2. n # 1 => log[n - 1] = written[n - 1]
    BY <1>1, <1>2
  <2>. QED
    BY <2>1, <2>2 DEF Before
<1>. QED
  BY <1>1, <1>2, <1>3 DEF OwnChain

(* What one AuditLog object wrote is intact to verify_chain, whoever with    *)
(* its secret runs it.                                                       *)
THEOREM AuthorVerifies == AuditSpec => []AuthenticLogIsClean
<1> DEFINE Inv == \A w \in Writers : ChainInv(w)
<1>1. AuditInit => Inv
  BY EmptySeq DEF AuditInit, ChainInv, Shape, OwnChain, IsSeq, Before, Phases, Keys
<1>2. Inv /\ [AuditNext]_auditVars => Inv'
  BY ChainStep
<1>3. Inv => AuthenticLogIsClean
  BY ChainIsClean DEF AuthenticLogIsClean, ReadsLogOf, ChainInv
<1>. QED
  BY <1>1, <1>2, <1>3, PTL DEF AuditSpec

-----------------------------------------------------------------------------
(* Types.  The hmacs of the lines are in no set, so what the file holds is a *)
(* sequence over some set of lines, each a record of a payload or a torn one.*)
LineOK(line) ==
    line \in {Torn, Garbled} \/ \E e \in Payloads : \E h : line = Record(e, h)
Lines(s) == \E S : s \in Seq(S) /\ \A x \in S : LineOK(x)

AllParse(s) == \A n \in DOMAIN s : Parseable(s[n])

ITypes == AuditTypeOK /\ Lines(log) /\ Lines(written) /\ AllParse(written)

LEMMA LinesHaveEntries ==
    ASSUME NEW s, Lines(s)
    PROVE  /\ Len(s) \in Nat /\ DOMAIN s = 1..Len(s)
           /\ \A n \in DOMAIN s : LineOK(s[n])
           /\ \A n \in DOMAIN s : Parseable(s[n]) => s[n].entry \in Payloads
<1>1. PICK S : s \in Seq(S) /\ \A x \in S : LineOK(x)
  BY DEF Lines
<1>2. Len(s) \in Nat /\ DOMAIN s = 1..Len(s) /\ \A n \in DOMAIN s : s[n] \in S
  BY <1>1, LenProperties, ElementOfSeq
<1>. QED
  BY <1>1, <1>2 DEF LineOK, Parseable, Record

LEMMA LinesAppend ==
    ASSUME NEW s, Lines(s), NEW x, LineOK(x)
    PROVE  Lines(Append(s, x)) /\ Len(Append(s, x)) = Len(s) + 1
<1>1. PICK S : s \in Seq(S) /\ \A y \in S : LineOK(y)
  BY DEF Lines
<1>2. s \in Seq(S \cup {x})
  BY <1>1, SeqMonotonic
<1>3. Append(s, x) \in Seq(S \cup {x}) /\ Len(Append(s, x)) = Len(s) + 1
  BY <1>2
<1>. QED
  BY <1>1, <1>3 DEF Lines

LEMMA AllParseAppend ==
    ASSUME NEW s, Lines(s), AllParse(s), NEW x, Parseable(x)
    PROVE  AllParse(Append(s, x))
<1>1. IsSeq(s)
  BY DEF Lines, IsSeq
<1>2. /\ DOMAIN Append(s, x) = 1..(Len(s) + 1) /\ DOMAIN s = 1..Len(s) /\ Len(s) \in Nat
      /\ Append(s, x)[Len(s) + 1] = x /\ \A i \in 1..Len(s) : Append(s, x)[i] = s[i]
  BY <1>1, AppendFacts, SeqFacts
<1>. QED
  BY <1>2 DEF AllParse

LEMMA LinesExcept ==
    ASSUME NEW s, Lines(s), NEW n \in DOMAIN s, NEW x, LineOK(x)
    PROVE  Lines([s EXCEPT ![n] = x]) /\ Len([s EXCEPT ![n] = x]) = Len(s)
<1>1. PICK S : s \in Seq(S) /\ \A y \in S : LineOK(y)
  BY DEF Lines
<1>2. s \in Seq(S \cup {x}) /\ n \in 1..Len(s)
  BY <1>1, SeqMonotonic, LinesHaveEntries
<1>3. [s EXCEPT ![n] = x] \in Seq(S \cup {x}) /\ Len([s EXCEPT ![n] = x]) = Len(s)
  BY <1>2, ExceptSeq
<1>. QED
  BY <1>1, <1>3 DEF Lines

LEMMA LinesDrop ==
    ASSUME NEW s, Lines(s), NEW n \in DOMAIN s
    PROVE  /\ Lines(SubSeq(s, 1, n - 1) \o SubSeq(s, n + 1, Len(s)))
           /\ Len(SubSeq(s, 1, n - 1) \o SubSeq(s, n + 1, Len(s))) = Len(s) - 1
<1>1. PICK S : s \in Seq(S) /\ \A y \in S : LineOK(y)
  BY DEF Lines
<1>2. n \in 1..Len(s) /\ Len(s) \in Nat /\ \A i \in 1..Len(s) : s[i] \in S
  BY <1>1, LinesHaveEntries, ElementOfSeq
<1>3. SubSeq(s, 1, n - 1) \in Seq(S) /\ Len(SubSeq(s, 1, n - 1)) = n - 1
  BY <1>2, SubSeqProperties
<1>4. SubSeq(s, n + 1, Len(s)) \in Seq(S) /\ Len(SubSeq(s, n + 1, Len(s))) = Len(s) - n
  BY <1>2, SubSeqProperties
<1>5. SubSeq(s, 1, n - 1) \o SubSeq(s, n + 1, Len(s)) \in Seq(S)
  BY <1>3, <1>4, ConcatProperties
<1>6. Len(SubSeq(s, 1, n - 1) \o SubSeq(s, n + 1, Len(s))) = (n - 1) + (Len(s) - n)
  BY <1>3, <1>4, ConcatProperties
<1>7. (n - 1) + (Len(s) - n) = Len(s) - 1
  BY <1>2
<1>. QED
  BY <1>1, <1>5, <1>6, <1>7 DEF Lines

LEMMA LinesAppendLine ==
    ASSUME Lines(log), NEW line, LineOK(line)
    PROVE  /\ Lines(AppendLine(line))
           /\ Len(AppendLine(line)) \in {Len(log), Len(log) + 1}
<1>1. CASE TornTail
  <2>1. Len(log) \in DOMAIN log
    BY <1>1, LinesHaveEntries, EmptySeq DEF TornTail, Lines
  <2>2. LineOK(IF line = Torn THEN Torn ELSE Garbled)
    BY DEF LineOK
  <2>. QED
    BY <1>1, <2>1, <2>2, LinesExcept DEF AppendLine
<1>2. CASE ~TornTail
  BY <1>2, LinesAppend DEF AppendLine
<1>. QED
  BY <1>1, <1>2

LEMMA DamagedLineOK ==
    ASSUME NEW line, LineOK(line), Parseable(line)
    PROVE  /\ \A e \in Payloads : LineOK([line EXCEPT !.entry = e])
           /\ LineOK([line EXCEPT !.hmac = Junk])
<1>1. PICK e \in Payloads : \E h : line = [entry |-> e, hmac |-> h]
  BY DEF LineOK, Parseable, Record
<1>2. PICK h : line = [entry |-> e, hmac |-> h]
  BY <1>1
<1>3. [line EXCEPT !.hmac = Junk] = Record(e, Junk)
  BY <1>2 DEF Record
<1>4. \A d \in Payloads : [line EXCEPT !.entry = d] = Record(d, h)
  BY <1>2 DEF Record
<1>. QED
  BY <1>3, <1>4 DEF LineOK

LEMMA TypesInit == AuditInit => ITypes
<1> SUFFICES ASSUME AuditInit PROVE ITypes
  OBVIOUS
<1>1. Lines(log) /\ Lines(written) /\ Len(log) = 0
  BY EmptySeq DEF AuditInit, Lines
<1>. QED
  BY <1>1, LinesHaveEntries, AuditAssumption DEF AuditInit, ITypes, AuditTypeOK, Keys, Phases, AllParse

LEMMA TypesStep == ITypes /\ [AuditNext]_auditVars => ITypes'
<1> SUFFICES ASSUME ITypes, [AuditNext]_auditVars PROVE ITypes'
  OBVIOUS
<1>0. /\ Lines(log) /\ Lines(written) /\ AllParse(written) /\ Len(log) \in 0..MaxEntries
      /\ MaxEntries \in Nat /\ MaxDamage \in Nat
  BY AuditAssumption DEF ITypes, AuditTypeOK
(* What a step must show: the rest of the types follow from it.              *)
<1>1. ASSUME Lines(log'), Lines(written'), AllParse(written'), Len(log') \in 0..MaxEntries,
             secretFile' \in Keys, phase' \in [Writers -> Phases], secret' \in [Writers -> Keys],
             DOMAIN prevHmac' = Writers, authors' \subseteq Writers, damage' \in 0..MaxDamage
      PROVE  ITypes'
  <2>1. \A n \in DOMAIN log' : Parseable(log'[n]) => log'[n].entry \in Payloads
    BY <1>1, LinesHaveEntries
  <2>2. \A n \in DOMAIN written' : written'[n].entry \in Payloads
    BY <1>1, LinesHaveEntries DEF AllParse
  <2>. QED
    BY <1>1, <2>1, <2>2 DEF ITypes, AuditTypeOK
<1>2. ASSUME NEW w \in Writers,
             LoadSecret(w) \/ FindNoSecret(w) \/ TruncateSecret(w) \/ WriteSecret(w) \/ Close(w)
      PROVE  ITypes'
  <2>1. secretFile' \in Keys /\ phase' \in [Writers -> Phases] /\ secret' \in [Writers -> Keys]
    BY <1>2 DEF ITypes, AuditTypeOK, LoadSecret, FindNoSecret, TruncateSecret, WriteSecret, Close,
       Keys, Phases
  <2>2. UNCHANGED <<log, written, prevHmac, authors, damage>>
    BY <1>2 DEF LoadSecret, FindNoSecret, TruncateSecret, WriteSecret, Close
  <2>3. DOMAIN prevHmac' = Writers /\ authors' \subseteq Writers /\ damage' \in 0..MaxDamage
    BY <2>2 DEF ITypes, AuditTypeOK
  <2>4. Lines(log') /\ Lines(written') /\ AllParse(written') /\ Len(log') \in 0..MaxEntries
    BY <1>0, <2>2
  <2>. QED
    BY <1>1, <2>1, <2>3, <2>4
<1>3. ASSUME NEW w \in Writers, NEW entry \in Payloads, Write(w, entry)
      PROVE  ITypes'
  <2> DEFINE r == Record(entry, Hmac(secret[w], prevHmac[w], entry))
  <2>1. LineOK(r) /\ Parseable(r)
    BY RecordParses DEF LineOK
  <2>2. log' = AppendLine(r) /\ written' = Append(written, r) /\ Len(log) < MaxEntries
    BY <1>3 DEF Write
  <2> HIDE DEF r
  <2>3. Lines(log') /\ Lines(written') /\ Len(log') \in 0..MaxEntries
    BY <1>0, <2>1, <2>2, LinesAppend, LinesAppendLine
  <2>4. AllParse(written')
    BY <1>0, <2>1, <2>2, LinesAppend, AllParseAppend
  <2>. QED
    BY <1>1, <1>3, <2>3, <2>4 DEF Write, ITypes, AuditTypeOK
<1>4. ASSUME NEW w \in Writers, NEW entry \in Payloads, WriteCutShort(w, entry)
      PROVE  ITypes'
  <2>1. LineOK(Torn)
    BY DEF LineOK
  <2>2. Lines(log') /\ Len(log') \in 0..MaxEntries
    BY <1>0, <1>4, <2>1, LinesAppendLine DEF WriteCutShort
  <2>. QED
    BY <1>0, <1>1, <1>4, <2>2 DEF WriteCutShort, ITypes, AuditTypeOK
<1>5. CASE Damage
  <2>1. PICK n \in DOMAIN log :
          /\ Parseable(log[n])
          /\ \/ \E entry \in Payloads : log' = [log EXCEPT ![n].entry = entry]
             \/ log' = [log EXCEPT ![n].hmac = Junk]
             \/ log' = SubSeq(log, 1, n - 1) \o SubSeq(log, n + 1, Len(log))
    BY <1>5 DEF Damage
  <2>2. LineOK(log[n]) /\ Len(log) >= 1
    BY <1>0, LinesHaveEntries
  <2>3. Lines(log') /\ Len(log') \in 0..MaxEntries
    <3>1. ASSUME NEW entry \in Payloads, log' = [log EXCEPT ![n].entry = entry]
          PROVE  Lines(log') /\ Len(log') = Len(log)
      <4>1. log' = [log EXCEPT ![n] = [log[n] EXCEPT !.entry = entry]]
        BY <3>1
      <4>2. LineOK([log[n] EXCEPT !.entry = entry])
        BY <2>1, <2>2, DamagedLineOK
      <4>. QED
        BY <1>0, <4>1, <4>2, LinesExcept
    <3>2. CASE log' = [log EXCEPT ![n].hmac = Junk]
      <4>1. log' = [log EXCEPT ![n] = [log[n] EXCEPT !.hmac = Junk]]
        BY <3>2
      <4>2. LineOK([log[n] EXCEPT !.hmac = Junk])
        BY <2>1, <2>2, DamagedLineOK
      <4>. QED
        BY <1>0, <4>1, <4>2, LinesExcept
    <3>3. CASE log' = SubSeq(log, 1, n - 1) \o SubSeq(log, n + 1, Len(log))
      BY <1>0, <2>2, <3>3, LinesDrop
    <3>. QED
      BY <1>0, <2>1, <3>1, <3>2, <3>3
  <2>. QED
    BY <1>0, <1>1, <1>5, <2>3 DEF Damage, ITypes, AuditTypeOK
<1>6. CASE UNCHANGED auditVars
  BY <1>0, <1>1, <1>6 DEF auditVars, ITypes, AuditTypeOK
<1>. QED
  BY <1>2, <1>3, <1>4, <1>5, <1>6 DEF AuditNext

(* The file holds torn lines and records of payloads and no more than the    *)
(* bound, and every AuditLog holds a secret some AuditLog made, or none.     *)
THEOREM AuditTypeCorrect == AuditSpec => []AuditTypeOK
<1>1. ITypes => AuditTypeOK
  BY DEF ITypes
<1>. QED
  BY <1>1, TypesInit, TypesStep, PTL DEF AuditSpec

-----------------------------------------------------------------------------
(* What a line can tell.  Every written record carries an hmac computed over *)
(* its own entry, and every record in the file one that is the hmac of some  *)
(* written record, whatever entry it may now stand beside, or Junk.          *)
Computed(s) ==
    \A i \in DOMAIN s : \E e, k, p : s[i] = Record(e, Hmac(k, p, e))
Traced(line, s) ==
    \E e, h : /\ line = Record(e, h)
              /\ h = Junk \/ \E i \in DOMAIN s : s[i].hmac = h
AllTraced(l, s) == \A n \in DOMAIN l : Parseable(l[n]) => Traced(l[n], s)

TraceInv == IsSeq(log) /\ IsSeq(written) /\ Computed(written) /\ AllTraced(log, written)

(* Only the end of the file changes when a line is appended.                 *)
LEMMA AppendLineElements ==
    ASSUME IsSeq(log), NEW line
    PROVE  \A n \in DOMAIN AppendLine(line) :
              \/ n \in DOMAIN log /\ AppendLine(line)[n] = log[n]
              \/ AppendLine(line)[n] = line
              \/ ~Parseable(AppendLine(line)[n])
<1>1. Len(log) \in Nat /\ DOMAIN log = 1..Len(log)
  BY SeqFacts
<1>2. CASE TornTail
  <2>1. Len(log) \in DOMAIN log
    BY <1>2, SeqFacts, EmptySeq DEF TornTail, IsSeq
  <2>2. AppendLine(line) = [log EXCEPT ![Len(log)] = IF line = Torn THEN Torn ELSE Garbled]
    BY <1>2 DEF AppendLine
  <2>3. ~Parseable(IF line = Torn THEN Torn ELSE Garbled)
    BY DEF Parseable
  <2>. HIDE DEF Parseable
  <2>. QED
    BY <2>1, <2>2, <2>3
<1>3. CASE ~TornTail
  <2>1. AppendLine(line) = Append(log, line)
    BY <1>3 DEF AppendLine
  <2>2. /\ IsSeq(Append(log, line))
        /\ Len(Append(log, line)) = Len(log) + 1
        /\ Append(log, line)[Len(log) + 1] = line
        /\ \A i \in 1..Len(log) : Append(log, line)[i] = log[i]
    BY AppendFacts
  <2>3. DOMAIN Append(log, line) = 1..(Len(log) + 1)
    BY <2>2, SeqFacts
  <2>4. ASSUME NEW n \in 1..(Len(log) + 1)
        PROVE  \/ n \in DOMAIN log /\ Append(log, line)[n] = log[n]
               \/ Append(log, line)[n] = line
    <3>1. n \in 1..Len(log) \/ n = Len(log) + 1
      BY <1>1
    <3>. QED
      BY <1>1, <2>2, <3>1
  <2>. QED
    BY <2>1, <2>3, <2>4
<1>. QED
  BY <1>2, <1>3

(* Nothing is new in a file from which a line was dropped.                   *)
LEMMA DropElements ==
    ASSUME NEW s, IsSeq(s), NEW n \in DOMAIN s
    PROVE  \A i \in DOMAIN (SubSeq(s, 1, n - 1) \o SubSeq(s, n + 1, Len(s))) :
              \E j \in DOMAIN s : (SubSeq(s, 1, n - 1) \o SubSeq(s, n + 1, Len(s)))[i] = s[j]
<1>1. PICK S : s \in Seq(S)
  BY DEF IsSeq
<1>2. n \in 1..Len(s) /\ Len(s) \in Nat /\ DOMAIN s = 1..Len(s)
  BY SeqFacts
<1>3. \A i \in 1..Len(s) : s[i] \in S
  BY <1>1, ElementOfSeq
<1> DEFINE a == SubSeq(s, 1, n - 1)
           b == SubSeq(s, n + 1, Len(s))
<1>4. /\ a \in Seq(S) /\ Len(a) = n - 1
      /\ \A i \in 1..(n - 1) : a[i] = s[i]
  BY <1>2, <1>3, SubSeqProperties
<1>5. /\ b \in Seq(S) /\ Len(b) = Len(s) - n
      /\ \A i \in 1..(Len(s) - n) : b[i] = s[n + i]
  <2>1. /\ b \in Seq(S)
        /\ Len(b) = IF n + 1 <= Len(s) THEN Len(s) - (n + 1) + 1 ELSE 0
        /\ \A i \in 1..(Len(s) - (n + 1) + 1) : b[i] = s[(n + 1) + i - 1]
    BY <1>2, <1>3, SubSeqProperties
  <2>. QED
    BY <1>2, <2>1
<1>. HIDE DEF a, b
<1>6. /\ a \o b \in Seq(S)
      /\ Len(a \o b) = Len(a) + Len(b)
      /\ \A i \in 1..(Len(a) + Len(b)) : (a \o b)[i] = IF i <= Len(a) THEN a[i] ELSE b[i - Len(a)]
  BY <1>4, <1>5, ConcatProperties
<1>7. DOMAIN (a \o b) = 1..(Len(a) + Len(b))
  BY <1>6, LenProperties
<1>8. ASSUME NEW i \in 1..(Len(a) + Len(b))
      PROVE  \E j \in DOMAIN s : (a \o b)[i] = s[j]
  <2>1. CASE i <= Len(a)
    <3>1. (a \o b)[i] = a[i]
      BY <1>6, <2>1
    <3>2. i \in 1..(n - 1) /\ i \in 1..Len(s)
      BY <1>2, <1>4, <2>1
    <3>. QED
      BY <1>2, <1>4, <3>1, <3>2
  <2>2. CASE i > Len(a)
    <3>1. i - Len(a) \in 1..(Len(s) - n) /\ n + (i - Len(a)) \in 1..Len(s)
      BY <1>2, <1>4, <1>5, <2>2
    <3>2. (a \o b)[i] = b[i - Len(a)]
      <4>1. ~(i <= Len(a))
        BY <1>2, <1>4, <1>5, <2>2
      <4>. QED
        BY <1>6, <4>1
    <3>. QED
      BY <1>2, <1>5, <3>1, <3>2
  <2>. QED
    BY <1>2, <1>4, <1>5, <2>1, <2>2
<1>. QED
  BY <1>7, <1>8 DEF a, b

LEMMA TraceInit == AuditInit => TraceInv
BY EmptySeq DEF AuditInit, TraceInv, IsSeq, Computed, AllTraced

LEMMA TraceStep == TraceInv /\ [AuditNext]_auditVars => TraceInv'
<1> SUFFICES ASSUME TraceInv, [AuditNext]_auditVars PROVE TraceInv'
  OBVIOUS
<1>0. IsSeq(log) /\ IsSeq(written) /\ Computed(written) /\ AllTraced(log, written)
  BY DEF TraceInv
<1>1. CASE UNCHANGED <<log, written>>
  BY <1>0, <1>1 DEF TraceInv
<1>2. ASSUME NEW w \in Writers, NEW entry \in Payloads, Write(w, entry)
      PROVE  TraceInv'
  <2> DEFINE r == Record(entry, Hmac(secret[w], prevHmac[w], entry))
  <2>1. log' = AppendLine(r) /\ written' = Append(written, r)
    BY <1>2 DEF Write
  <2>2. /\ \E e, k, p : r = Record(e, Hmac(k, p, e))
        /\ \E e : r = Record(e, r.hmac)
    BY DEF Record
  <2>. HIDE DEF r
  <2>3. /\ IsSeq(written') /\ DOMAIN written' = 1..(Len(written) + 1)
        /\ written'[Len(written) + 1] = r
        /\ \A i \in 1..Len(written) : written'[i] = written[i]
        /\ DOMAIN written = 1..Len(written) /\ Len(written) \in Nat
    BY <1>0, <2>1, AppendFacts, SeqFacts
  <2>4. Computed(written')
    BY <1>0, <2>2, <2>3 DEF Computed
  <2>5. Traced(r, written')
    <3>1. Len(written) + 1 \in DOMAIN written'
      BY <2>3
    <3>. QED
      BY <2>2, <2>3, <3>1 DEF Traced
  <2>6. ASSUME NEW line, Traced(line, written)
        PROVE  Traced(line, written')
    BY <2>3, <2>6 DEF Traced
  <2>7. AllTraced(log', written')
    BY <1>0, <2>1, <2>5, <2>6, AppendLineElements DEF AllTraced
  <2>. QED
    BY <1>0, <2>1, <2>3, <2>4, <2>7, AppendLineFacts DEF TraceInv
<1>3. ASSUME NEW w \in Writers, NEW entry \in Payloads, WriteCutShort(w, entry)
      PROVE  TraceInv'
  <2>1. written' = written /\ (log' = log \/ log' = AppendLine(Torn))
    BY <1>3 DEF WriteCutShort
  <2>2. ~Parseable(Torn)
    BY DEF Parseable
  <2>3. CASE log' = AppendLine(Torn)
    <3>1. AllTraced(log', written)
      BY <1>0, <2>2, <2>3, AppendLineElements DEF AllTraced
    <3>. QED
      BY <1>0, <2>1, <2>3, <3>1, AppendLineFacts DEF TraceInv
  <2>. QED
    BY <1>1, <2>1, <2>3
<1>4. CASE Damage
  <2>1. PICK n \in DOMAIN log :
          /\ Parseable(log[n])
          /\ \/ \E entry \in Payloads : log' = [log EXCEPT ![n].entry = entry]
             \/ log' = [log EXCEPT ![n].hmac = Junk]
             \/ log' = SubSeq(log, 1, n - 1) \o SubSeq(log, n + 1, Len(log))
    BY <1>4 DEF Damage
  <2>2. written' = written
    BY <1>4 DEF Damage
  <2>3. PICK e, h : /\ log[n] = Record(e, h)
                    /\ h = Junk \/ \E i \in DOMAIN written : written[i].hmac = h
    BY <1>0, <2>1 DEF AllTraced, Traced
  <2>4. ASSUME NEW x, log' = [log EXCEPT ![n] = x], Traced(x, written)
        PROVE  TraceInv'
    <3>1. IsSeq(log')
      BY <1>0, <2>4, ExceptFacts
    <3>2. AllTraced(log', written)
      BY <1>0, <2>4 DEF AllTraced
    <3>. QED
      BY <1>0, <2>2, <3>1, <3>2 DEF TraceInv
  <2>5. CASE \E entry \in Payloads : log' = [log EXCEPT ![n].entry = entry]
    <3>1. PICK entry \in Payloads : log' = [log EXCEPT ![n].entry = entry]
      BY <2>5
    <3>2. log' = [log EXCEPT ![n] = [log[n] EXCEPT !.entry = entry]]
      BY <3>1
    <3>3. [log[n] EXCEPT !.entry = entry] = Record(entry, h)
      BY <2>3 DEF Record
    <3>4. Traced(Record(entry, h), written)
      BY <2>3 DEF Traced
    <3>. QED
      BY <2>4, <3>2, <3>3, <3>4
  <2>6. CASE log' = [log EXCEPT ![n].hmac = Junk]
    <3>1. log' = [log EXCEPT ![n] = [log[n] EXCEPT !.hmac = Junk]]
      BY <2>6
    <3>2. [log[n] EXCEPT !.hmac = Junk] = Record(e, Junk)
      BY <2>3 DEF Record
    <3>3. Traced(Record(e, Junk), written)
      BY DEF Traced
    <3>. QED
      BY <2>4, <3>1, <3>2, <3>3
  <2>7. CASE log' = SubSeq(log, 1, n - 1) \o SubSeq(log, n + 1, Len(log))
    <3>1. IsSeq(log')
      BY <1>0, <2>7, DropFacts
    <3>2. \A i \in DOMAIN log' : \E j \in DOMAIN log : log'[i] = log[j]
      BY <1>0, <2>7, DropElements
    <3>3. AllTraced(log', written)
      BY <1>0, <3>2 DEF AllTraced
    <3>. QED
      BY <1>0, <2>2, <3>1, <3>3 DEF TraceInv
  <2>. QED
    BY <2>1, <2>5, <2>6, <2>7
<1>5. ASSUME NEW w \in Writers,
             LoadSecret(w) \/ FindNoSecret(w) \/ TruncateSecret(w) \/ WriteSecret(w) \/ Close(w)
      PROVE  TraceInv'
  BY <1>1, <1>5 DEF LoadSecret, FindNoSecret, TruncateSecret, WriteSecret, Close
<1>6. CASE UNCHANGED auditVars
  BY <1>1, <1>6 DEF auditVars
<1>. QED
  BY <1>2, <1>3, <1>4, <1>5, <1>6 DEF AuditNext

(* A line whose hmac is that of its own entry was written as it stands.      *)
LEMMA VerifiedIsWritten ==
    ASSUME TraceInv, NEW key, NEW n \in DOMAIN log \ Errors(key)
    PROVE  /\ Parseable(log[n]) /\ log[n].hmac = Hmac(key, PrevOfChecked(n), log[n].entry)
           /\ \E i \in DOMAIN written : written[i] = log[n]
<1>1. Parseable(log[n]) /\ log[n].hmac = Hmac(key, PrevOfChecked(n), log[n].entry)
  BY DEF Errors
<1>2. PICK e, h : /\ log[n] = Record(e, h)
                  /\ h = Junk \/ \E i \in DOMAIN written : written[i].hmac = h
  BY <1>1 DEF TraceInv, AllTraced, Traced
<1>3. h = <<key, PrevOfChecked(n), e>>
  BY <1>1, <1>2 DEF Record, Hmac
<1>4. h # Junk
  BY <1>3 DEF Junk
<1>5. PICK i \in DOMAIN written : written[i].hmac = h
  BY <1>2, <1>4
<1>6. PICK d, k, p : written[i] = Record(d, Hmac(k, p, d))
  BY DEF TraceInv, Computed
<1>7. h = <<k, p, d>>
  BY <1>5, <1>6 DEF Record, Hmac
<1>8. d = e
  BY <1>3, <1>7
<1>. QED
  BY <1>1, <1>2, <1>5, <1>6, <1>8 DEF Record

(* A record that some secret verifies was written, whole.                    *)
THEOREM VerifiedWasWritten == AuditSpec => []VerifiedLineWasWritten
<1>1. TraceInv => VerifiedLineWasWritten
  BY VerifiedIsWritten DEF VerifiedLineWasWritten
<1>. QED
  BY <1>1, TraceInit, TraceStep, PTL DEF AuditSpec

-----------------------------------------------------------------------------
(* A set of natural numbers that is not empty has a least element: what the  *)
(* arguments by a least counterexample below rest on.                        *)
LEMMA LeastOf ==
    ASSUME NEW T, T \subseteq Nat, T # {}
    PROVE  \E x \in T : \A y \in T : x <= y
<1> DEFINE R == OpToRel(<, Nat)
<1>1. IsWellFoundedOn(R, Nat)
  BY NatLessThanWellFounded, Zenon
<1>2. \A a, b \in Nat : a < b => <<a, b>> \in R
  BY DEF OpToRel
<1>. HIDE DEF R
<1>3. \E x \in T : \A y \in T : ~(<<y, x>> \in R)
  BY <1>1, WFMin
<1>4. PICK x \in T : \A y \in T : ~(<<y, x>> \in R)
  BY <1>3
<1>5. ASSUME NEW y \in T
      PROVE  x <= y
  <2>1. x \in Nat /\ y \in Nat
    OBVIOUS
  <2>2. ~(y < x)
    BY <2>1, <1>2, <1>4, Zenon
  <2>. QED
    BY <2>1, <2>2
<1>. QED
  BY <1>5

(* No two records of a chain share an hmac: the least one that did would     *)
(* have a predecessor that does.                                             *)
LEMMA ChainIsInjective ==
    ASSUME NEW w \in Writers, Shape, OwnChain(w),
           NEW i \in DOMAIN written, NEW j \in DOMAIN written,
           written[i].hmac = written[j].hmac
    PROVE  i = j
<1>0. DOMAIN written = 1..Len(written) /\ Len(written) \in Nat
  BY SeqFacts DEF Shape
<1>c. \A m \in DOMAIN written :
         written[m].hmac = <<secret[w], Before(m), written[m].entry>>
  BY DEF OwnChain, Hmac
<1> DEFINE Shared == {m \in DOMAIN written :
                        \E q \in DOMAIN written : q > m /\ written[q].hmac = written[m].hmac}
<1>1. Shared = {}
  <2> SUFFICES ASSUME Shared # {} PROVE FALSE
    OBVIOUS
  <2>1. Shared \subseteq Nat
    BY <1>0
  <2>2. PICK m \in Shared : \A x \in Shared : m <= x
    <3>. HIDE DEF Shared
    <3>. QED
      BY <2>1, LeastOf
  <2>3. PICK q \in DOMAIN written : q > m /\ written[q].hmac = written[m].hmac
    BY <2>2
  <2>m. m \in DOMAIN written
    BY <2>2
  <2>4. Before(q) = Before(m)
    <3>1. /\ written[q].hmac = <<secret[w], Before(q), written[q].entry>>
          /\ written[m].hmac = <<secret[w], Before(m), written[m].entry>>
      BY <1>c, <2>3, <2>m
    <3>2. <<secret[w], Before(q), written[q].entry>> = <<secret[w], Before(m), written[m].entry>>
      BY <2>3, <3>1
    <3>3. ASSUME NEW a, NEW b, NEW c, NEW d, NEW e, <<a, b, c>> = <<a, d, e>>
          PROVE  b = d
      BY <3>3
    <3>. QED
      BY <3>2, <3>3, Zenon
  <2>5. q # 1 /\ q - 1 \in DOMAIN written /\ Before(q) = written[q - 1].hmac
    BY <1>0, <2>3, <2>m DEF Before
  <2>6. written[q - 1].hmac # Zeros
    BY <1>c, <2>5 DEF Zeros
  <2>7. m # 1
    BY <2>4, <2>5, <2>6 DEF Before
  <2>8. m - 1 \in DOMAIN written /\ Before(m) = written[m - 1].hmac
    BY <1>0, <2>7, <2>m DEF Before
  <2>9. q - 1 > m - 1
    BY <1>0, <2>3, <2>m
  <2>10. m - 1 \in Shared
    BY <2>4, <2>5, <2>8, <2>9
  <2>11. m <= m - 1
    <3>. HIDE DEF Shared
    <3>. QED
      BY <2>2, <2>10
  <2>. QED
    BY <1>0, <2>m, <2>11
<1>2. ~(j > i) /\ ~(i > j)
  <2>1. i \notin Shared /\ j \notin Shared
    BY <1>1
  <2>. QED
    BY <2>1
<1>. QED
  BY <1>0, <1>2

(* Of one author's log, what comes before the first error is what was        *)
(* written: the least line that were not would be chained to the one before  *)
(* it, which is, and only the record written next is.                        *)
LEMMA CleanIsAuthentic ==
    ASSUME NEW w \in Writers, Shape, OwnChain(w), TraceInv, NEW n \in DOMAIN log,
           Errors(secret[w]) \cap (1..n) = {}
    PROVE  n <= Len(written) /\ \A m \in 1..n : log[m] = written[m]
<1> DEFINE Wrong == {m \in 1..n : ~(m \in DOMAIN written /\ log[m] = written[m])}
<1>0. /\ DOMAIN written = 1..Len(written) /\ Len(written) \in Nat
      /\ DOMAIN log = 1..Len(log) /\ Len(log) \in Nat
  BY SeqFacts DEF Shape
<1>c. \A m \in DOMAIN written :
         written[m].hmac = <<secret[w], Before(m), written[m].entry>>
  BY DEF OwnChain, Hmac
<1>1. Wrong = {}
  <2> SUFFICES ASSUME Wrong # {} PROVE FALSE
    OBVIOUS
  <2>1. Wrong \subseteq Nat
    BY <1>0
  <2>2. PICK m \in Wrong : \A x \in Wrong : m <= x
    <3>. HIDE DEF Wrong
    <3>. QED
      BY <2>1, LeastOf
  <2>m. m \in 1..n /\ m \in DOMAIN log
    BY <1>0, <2>2
  <2>3. \A x \in 1..(m - 1) : x \in DOMAIN written /\ log[x] = written[x]
    <3> SUFFICES ASSUME NEW x \in 1..(m - 1), x \in Wrong PROVE FALSE
      BY <1>0, <2>m
    <3>1. m <= x
      <4>. HIDE DEF Wrong
      <4>. QED
        BY <2>2
    <3>. QED
      BY <1>0, <2>m, <3>1
  <2>4. PrevOfChecked(m) = Before(m)
    <3>1. \A x \in 1..(m - 1) : Parseable(log[x])
      BY <2>3 DEF OwnChain
    <3>2. PrevOfChecked(m) = IF m = 1 THEN Zeros ELSE log[m - 1].hmac
      BY <2>m, <3>1, PrevIsLast DEF Shape
    <3>3. m # 1 => log[m - 1] = written[m - 1]
      BY <1>0, <2>m, <2>3
    <3>. QED
      BY <3>2, <3>3 DEF Before
  <2>5. m \in DOMAIN log \ Errors(secret[w])
    BY <2>m
  <2>6. log[m].hmac = <<secret[w], Before(m), log[m].entry>>
    BY <2>4, <2>5, VerifiedIsWritten DEF Hmac
  <2>7. PICK i \in DOMAIN written : written[i] = log[m]
    BY <2>5, VerifiedIsWritten
  <2>8. Before(i) = Before(m)
    BY <1>c, <2>6, <2>7
  <2>9. i = m
    <3>1. CASE i = 1 /\ m # 1
      <4>1. m - 1 \in DOMAIN written /\ Before(m) = written[m - 1].hmac
        BY <1>0, <2>3, <2>m, <3>1 DEF Before
      <4>2. Before(m) # Zeros
        BY <1>c, <4>1 DEF Zeros
      <4>. QED
        BY <2>8, <3>1, <4>2 DEF Before
    <3>2. CASE i # 1 /\ m = 1
      <4>1. i - 1 \in DOMAIN written /\ Before(i) = written[i - 1].hmac
        BY <1>0, <2>7, <3>2 DEF Before
      <4>2. Before(i) # Zeros
        BY <1>c, <4>1 DEF Zeros
      <4>. QED
        BY <2>8, <3>2, <4>2 DEF Before
    <3>3. CASE i # 1 /\ m # 1
      <4>1. /\ i - 1 \in DOMAIN written /\ Before(i) = written[i - 1].hmac
            /\ m - 1 \in DOMAIN written /\ Before(m) = written[m - 1].hmac
        BY <1>0, <2>3, <2>7, <2>m, <3>3 DEF Before
      <4>2. i - 1 = m - 1
        <5>1. written[i - 1].hmac = written[m - 1].hmac
          BY <2>8, <4>1
        <5>. QED
          BY <4>1, <5>1, ChainIsInjective
      <4>. QED
        BY <1>0, <2>7, <2>m, <4>2
    <3>. QED
      BY <3>1, <3>2, <3>3
  <2>. QED
    BY <2>2, <2>7, <2>9
<1>2. n \in 1..n
  BY <1>0
<1>. QED
  BY <1>0, <1>1, <1>2

(* What comes before the first reported line of one author's log can be      *)
(* believed, whatever happened to the rest of the file.                      *)
THEOREM CleanPrefixBelieved == AuditSpec => []CleanPrefixIsAuthentic
<1> DEFINE Inv == \A w \in Writers : ChainInv(w)
<1>1. AuditInit => Inv
  BY EmptySeq DEF AuditInit, ChainInv, Shape, OwnChain, IsSeq, Before, Phases, Keys
<1>2. Inv /\ [AuditNext]_auditVars => Inv'
  BY ChainStep
<1>3. Inv /\ TraceInv => CleanPrefixIsAuthentic
  <2> SUFFICES ASSUME Inv, TraceInv, NEW v \in Writers, NEW w \in Writers,
                      NEW n \in DOMAIN log, ReadsLogOf(v, w),
                      Errors(secret[v]) \cap (1..n) = {}
               PROVE  n <= Len(written) /\ \A m \in 1..n : log[m] = written[m]
    BY DEF CleanPrefixIsAuthentic
  <2>1. secret[v] = secret[w] /\ Shape /\ OwnChain(w)
    BY DEF ReadsLogOf, ChainInv
  <2>. QED
    BY <2>1, CleanIsAuthentic
<1>. QED
  BY <1>1, <1>2, <1>3, TraceInit, TraceStep, PTL DEF AuditSpec

-----------------------------------------------------------------------------
(***************************************************************************)
(* The collector (Collector), for every set of threads and sessions and    *)
(* every size of the buffer.  The inductive invariant CollectorInv says    *)
(* where in the stream of events the buffer ends (IOut), which keys the    *)
(* edits and the burst have (KeysInOrder), and of which sessions the calls *)
(* under way, the burst and the stream are (ISessions).                    *)
(***************************************************************************)
EventKinds == Kinds \cup {"start", "end", "text_edit", "key_down"}
MaybeSession == Sessions \cup {NoSession}
InputEvents == [kind : EventKinds, session : MaybeSession, keys : Seq(Nat)]
Recording == [step : {"gap", "build", "emit"}, kind : Kinds \cup {"key_down"},
              session : MaybeSession]
Writing == [step : {"write"}, events : Seq(Nat)]
CallTyped(q) == q \in {Idle, [step |-> "stamp"]} \/ q \in Recording \/ q \in Writing

CollectorTypes ==
    /\ told \in Seq(InputEvents) /\ buffer \in Seq(Nat) /\ burst \in Seq(Places)
    /\ active \in BOOLEAN /\ session \in MaybeSession /\ typed \in BOOLEAN
    /\ DOMAIN call = Threads /\ \A t \in Threads : CallTyped(call[t])
    /\ taken \in Seq(Nat) /\ dropped \subseteq Nat /\ overlapped \in BOOLEAN

(* A step that tells of some more events, and buffers them or hands them   *)
(* out with what is in the buffer.                                         *)
Grows(events) ==
    /\ Tell(events)
    /\ \/ buffer' = With(events) /\ taken' = taken
       \/ buffer' = <<>> /\ taken' = taken \o With(events)

LEMMA EditTyped ==
  ASSUME CollectorTypes
  PROVE  /\ Edit \in Seq(InputEvents)
         /\ Edit = <<>> <=> burst = <<>>
         /\ burst # <<>> => /\ Len(Edit) = 1
                            /\ Edit[1].kind = "text_edit" /\ Edit[1].keys = burst
                            /\ Edit[1].session = told[burst[1]].session
                            /\ burst[1] \in Places
<1>1. told \in Seq(InputEvents) /\ burst \in Seq(Places) /\ Len(told) \in Nat
  BY LenProperties DEF CollectorTypes
<1>2. CASE burst = <<>>
  <2>1. Edit = <<>>
    BY <1>2 DEF Edit
  <2> QED BY <1>2, <2>1, EmptySeq
<1>3. CASE burst # <<>>
  <2>1. Len(burst) \in Nat \ {0}
    BY <1>1, <1>3, EmptySeq
  <2>2. burst[1] \in Places
    BY <1>1, <2>1, ElementOfSeq
  <2>3. told[burst[1]] \in InputEvents
    BY <1>1, <2>2, ElementOfSeq DEF Places
  <2>4. burst \in Seq(Nat)
    BY <1>1, SeqMonotonic DEF Places
  <2> DEFINE e == [kind |-> "text_edit", session |-> told[burst[1]].session, keys |-> burst]
  <2>5. e \in InputEvents
    BY <2>3, <2>4 DEF InputEvents, EventKinds
  <2>6. Edit = <<e>>
    BY <1>3 DEF Edit
  <2> HIDE DEF e
  <2>7. <<e>> \in Seq(InputEvents) /\ Len(<<e>>) = 1 /\ <<e>>[1] = e /\ <<e>> # <<>>
    BY <2>5
  <2> QED BY <1>3, <2>2, <2>6, <2>7 DEF e
<1> QED BY <1>2, <1>3

LEMMA EventTyped ==
  ASSUME NEW k \in EventKinds, NEW s \in MaybeSession
  PROVE  /\ InputEvent(k, s) \in InputEvents
         /\ InputEvent(k, s).kind = k /\ InputEvent(k, s).session = s
         /\ InputEvent(k, s).keys = <<>>
  BY EmptySeq DEF InputEvent, InputEvents

(* What each operation tells of, and what becomes of the burst.            *)
Told(events) == Grows(events) /\ events \in Seq(InputEvents)

LEMMA EmitGrows ==
  ASSUME NEW events, Emit(events), taken' = taken
  PROVE  Grows(events)
  BY DEF Emit, Grows

LEMMA HandOutGrows ==
  ASSUME HandOut
  PROVE  Grows(Edit) /\ burst' = <<>>
  BY DEF HandOut, Grows

LEMMA OnlyOne ==
  ASSUME NEW S, NEW x \in S
  PROVE  <<x>> \in Seq(S) /\ Len(<<x>>) = 1 /\ <<x>>[1] = x
  OBVIOUS

LEMMA CallTypedAt ==
  ASSUME CollectorTypes, NEW t \in Threads
  PROVE  /\ At(t, "gap") \/ At(t, "build") \/ At(t, "emit") => call[t] \in Recording
         /\ At(t, "write") => call[t] \in Writing
         /\ At(t, "idle") => call[t] = Idle
<1>1. CallTyped(call[t])
  BY DEF CollectorTypes
<1> QED BY <1>1 DEF CallTyped, At, Idle, Recording, Writing

LEMMA GrownStream ==
  ASSUME CollectorTypes, NEW events \in Seq(InputEvents), Tell(events)
  PROVE  /\ told' \in Seq(InputEvents) /\ Len(told') = Len(told) + Len(events)
         /\ Len(told) \in Nat /\ Len(events) \in Nat
         /\ \A i \in 1..Len(told) : told'[i] = told[i]
         /\ \A i \in 1..Len(events) : told'[Len(told) + i] = events[i]
<1>1. told' = told \o events /\ told \in Seq(InputEvents)
  BY DEF Tell, CollectorTypes
<1>2. Len(told) \in Nat /\ Len(events) \in Nat
  BY <1>1, LenProperties
<1>3. told \o events \in Seq(InputEvents) /\ Len(told \o events) = Len(told) + Len(events)
      /\ \A i \in 1..Len(told) + Len(events) :
            (told \o events)[i] = IF i <= Len(told) THEN told[i] ELSE events[i - Len(told)]
  BY <1>1, ConcatProperties
<1>4. ASSUME NEW i \in 1..Len(events) PROVE (told \o events)[Len(told) + i] = events[i]
  <2>1. Len(told) + i \in 1..Len(told) + Len(events) /\ ~(Len(told) + i <= Len(told))
        /\ (Len(told) + i) - Len(told) = i
    BY <1>2
  <2> QED BY <1>3, <2>1
<1>5. ASSUME NEW i \in 1..Len(told) PROVE (told \o events)[i] = told[i]
  <2>1. i \in 1..Len(told) + Len(events) /\ i <= Len(told)
    BY <1>2
  <2> QED BY <1>3, <2>1
<1> QED BY <1>1, <1>2, <1>3, <1>4, <1>5

(* A sequence that ends at n, without gaps.                                *)
EndsAt(s, n) == s \in Seq(Nat) /\ Len(s) <= n /\ \A i \in 1..Len(s) : s[i] = n - Len(s) + i

LEMMA EndsAtFacts ==
  ASSUME NEW n \in Nat, NEW s, EndsAt(s, n)
  PROVE  /\ ToSet(s) = (n - Len(s) + 1)..n
         /\ IsRun(s) /\ Increasing(s) /\ Len(s) \in Nat /\ DOMAIN s = 1..Len(s)
<1>1. Len(s) \in Nat /\ DOMAIN s = 1..Len(s)
  BY LenProperties DEF EndsAt
<1>2. ToSet(s) = { s[i] : i \in 1..Len(s) }
  BY <1>1 DEF ToSet
<1>3. ASSUME NEW k \in (n - Len(s) + 1)..n PROVE k \in ToSet(s)
  <2>1. k - (n - Len(s)) \in 1..Len(s) /\ s[k - (n - Len(s))] = k
    BY <1>1 DEF EndsAt
  <2> QED BY <1>2, <2>1
<1>4. \A k \in ToSet(s) : k \in (n - Len(s) + 1)..n
  BY <1>1, <1>2 DEF EndsAt
<1>5. IsRun(s)
  BY <1>1 DEF IsRun, EndsAt
<1>6. Increasing(s)
  BY <1>1 DEF Increasing, EndsAt
<1> QED BY <1>1, <1>3, <1>4, <1>5, <1>6

(* The buffer, with some more events, still ends at the last of them; what *)
(* a full buffer loses is its beginning.                                   *)
LEMMA WithEnds ==
  ASSUME CollectorTypes, EndsAt(buffer, Len(told)), NEW events \in Seq(InputEvents),
         NEW n \in Nat, n = Len(told) + Len(events)
  PROVE  /\ EndsAt(With(events), n)
         /\ Len(With(events)) <= Len(buffer) + Len(events)
         /\ Len(With(events)) < Len(buffer) + Len(events) => n > BufferSize
         /\ ToSet(buffer \o Numbered(events)) = (Len(told) - Len(buffer) + 1)..n
<1>1. Len(told) \in Nat /\ Len(events) \in Nat /\ Len(buffer) \in Nat /\ buffer \in Seq(Nat)
      /\ BufferSize \in Nat \ {0} /\ DOMAIN events = 1..Len(events)
  BY LenProperties, CollectorAssumption DEF CollectorTypes
<1> DEFINE all == buffer \o Numbered(events)
<1>2. Numbered(events) = [i \in 1..Len(events) |-> Len(told) + i]
  BY <1>1 DEF Numbered
<1>3. Numbered(events) \in Seq(Nat) /\ Len(Numbered(events)) = Len(events)
  <2>1. \A i \in 1..Len(events) : Len(told) + i \in Nat
    BY <1>1
  <2> QED BY <1>1, <1>2, <2>1, IsASeq
<1>4. all \in Seq(Nat) /\ Len(all) = Len(buffer) + Len(events)
      /\ \A i \in 1..Len(all) : all[i] = IF i <= Len(buffer) THEN buffer[i]
                                         ELSE Numbered(events)[i - Len(buffer)]
  BY <1>1, <1>3, ConcatProperties
<1>5. ASSUME NEW i \in 1..Len(all) PROVE all[i] = n - Len(all) + i
  <2>1. CASE i <= Len(buffer)
    <3>1. all[i] = buffer[i] /\ buffer[i] = Len(told) - Len(buffer) + i
      BY <1>1, <1>4, <2>1 DEF EndsAt
    <3> QED BY <1>1, <1>4, <3>1
  <2>2. CASE ~(i <= Len(buffer))
    <3>1. i - Len(buffer) \in 1..Len(events)
      BY <1>1, <1>4, <2>2
    <3>2. all[i] = Len(told) + (i - Len(buffer))
      BY <1>2, <1>4, <2>2, <3>1
    <3> QED BY <1>1, <1>4, <3>2
  <2> QED BY <2>1, <2>2
<1>6. EndsAt(all, n) /\ n - Len(all) = Len(told) - Len(buffer)
  <2>1. Len(buffer) <= Len(told)
    BY DEF EndsAt
  <2>2. Len(all) <= n /\ n - Len(all) = Len(told) - Len(buffer)
    BY <1>1, <1>4, <2>1
  <2> HIDE DEF all
  <2> QED BY <1>4, <1>5, <2>2 DEF EndsAt
<1>7. ToSet(all) = (Len(told) - Len(buffer) + 1)..n
  <2> HIDE DEF all
  <2> QED BY <1>6, EndsAtFacts
<1> HIDE DEF all
<1>8. With(events) = IF Len(all) <= BufferSize THEN all ELSE Latest(all)
  BY DEF With, all
<1>9. CASE Len(all) <= BufferSize
  BY <1>1, <1>4, <1>6, <1>7, <1>8, <1>9 DEF all
<1>10. CASE ~(Len(all) <= BufferSize)
  <2> DEFINE a == Len(all) - BufferSize + 1
  <2>1. a \in 1..Len(all) /\ a \in Int /\ Len(all) \in Int /\ a <= Len(all) /\ Len(all) - a + 1 = BufferSize
    BY <1>1, <1>4, <1>10
  <2>2. \A i \in a..Len(all) : all[i] \in Nat
    <3>1. \A i \in a..Len(all) : i \in 1..Len(all)
      BY <2>1
    <3> QED BY <1>4, <3>1, ElementOfSeq
  <2>3. Latest(all) = SubSeq(all, a, Len(all))
    BY DEF Latest
  <2> HIDE DEF a
  <2>4. /\ Latest(all) \in Seq(Nat) /\ Len(Latest(all)) = BufferSize
        /\ \A i \in 1..BufferSize : Latest(all)[i] = all[a + i - 1]
    BY <2>1, <2>2, <2>3, SubSeqProperties
  <2>5. ASSUME NEW i \in 1..BufferSize PROVE Latest(all)[i] = n - BufferSize + i
    <3>1. a + i - 1 \in 1..Len(all) /\ (n - Len(all)) + (a + i - 1) = n - BufferSize + i
      BY <1>1, <1>4, <2>1 DEF a
    <3> QED BY <1>5, <2>4, <3>1
  <2>6. n > BufferSize
    BY <1>1, <1>4, <1>6, <1>10 DEF EndsAt
  <2>7. EndsAt(Latest(all), n)
    BY <1>1, <2>4, <2>5, <2>6 DEF EndsAt
  <2> QED BY <1>1, <1>4, <1>7, <1>8, <1>10, <2>4, <2>6, <2>7 DEF all
<1> QED BY <1>9, <1>10

LEMMA ConcatFacts ==
  ASSUME NEW s \in Seq(Nat), NEW u \in Seq(Nat)
  PROVE  /\ s \o u \in Seq(Nat) /\ ToSet(s \o u) = ToSet(s) \cup ToSet(u)
         /\ Increasing(s) /\ Increasing(u) /\ (\A k \in ToSet(s), l \in ToSet(u) : k < l)
            => Increasing(s \o u)
<1> DEFINE su == s \o u
<1>1. Len(s) \in Nat /\ Len(u) \in Nat /\ DOMAIN s = 1..Len(s) /\ DOMAIN u = 1..Len(u)
  BY LenProperties
<1>2. su \in Seq(Nat) /\ Len(su) = Len(s) + Len(u)
      /\ \A i \in 1..Len(s) + Len(u) : su[i] = IF i <= Len(s) THEN s[i] ELSE u[i - Len(s)]
  BY ConcatProperties
<1> HIDE DEF su
<1>3. DOMAIN su = 1..Len(s) + Len(u)
  BY <1>2, LenProperties
<1>4. \A i \in 1..Len(s) : i \in DOMAIN su /\ su[i] = s[i]
  BY <1>1, <1>2, <1>3
<1>5. ASSUME NEW i \in 1..Len(u) PROVE Len(s) + i \in DOMAIN su /\ su[Len(s) + i] = u[i]
  <2>1. Len(s) + i \in 1..Len(s) + Len(u) /\ ~(Len(s) + i <= Len(s)) /\ (Len(s) + i) - Len(s) = i
    BY <1>1
  <2> QED BY <1>2, <1>3, <2>1
<1>6. ASSUME NEW i \in DOMAIN su PROVE i \in 1..Len(s) \/ i - Len(s) \in 1..Len(u)
  BY <1>1, <1>3
<1>7. ToSet(su) = ToSet(s) \cup ToSet(u)
  <2>1. ASSUME NEW i \in DOMAIN su PROVE su[i] \in ToSet(s) \cup ToSet(u)
    <3>1. CASE i \in 1..Len(s)
      BY <1>1, <1>4, <3>1 DEF ToSet
    <3>2. CASE i - Len(s) \in 1..Len(u)
      <4>1. i = Len(s) + (i - Len(s))
        BY <1>1, <1>3
      <4>2. su[i] = u[i - Len(s)]
        BY <1>5, <3>2, <4>1
      <4> QED BY <1>1, <3>2, <4>2 DEF ToSet
    <3> QED BY <1>6, <3>1, <3>2
  <2>2. ToSet(s) \subseteq ToSet(su)
    BY <1>1, <1>4 DEF ToSet
  <2>3. ToSet(u) \subseteq ToSet(su)
    BY <1>1, <1>5 DEF ToSet
  <2>4. ToSet(su) \subseteq ToSet(s) \cup ToSet(u)
    BY <2>1 DEF ToSet
  <2> QED BY <2>2, <2>3, <2>4
<1>8. ASSUME Increasing(s), Increasing(u), \A k \in ToSet(s), l \in ToSet(u) : k < l,
             NEW i \in DOMAIN su, NEW j \in DOMAIN su, i < j
      PROVE  su[i] < su[j]
  <2>0. i \in Int /\ j \in Int
    BY <1>3
  <2>1. CASE j \in 1..Len(s)
    <3>1. i \in 1..Len(s)
      BY <1>1, <1>3, <1>8, <2>1
    <3> QED BY <1>1, <1>4, <1>8, <2>1, <3>1 DEF Increasing
  <2>2. CASE i \in 1..Len(s) /\ j - Len(s) \in 1..Len(u)
    <3>1. j = Len(s) + (j - Len(s))
      BY <1>1, <2>0
    <3>2. su[i] \in ToSet(s) /\ su[j] \in ToSet(u)
      BY <1>1, <1>4, <1>5, <2>2, <3>1 DEF ToSet
    <3> QED BY <1>8, <3>2
  <2>3. CASE i - Len(s) \in 1..Len(u) /\ j - Len(s) \in 1..Len(u)
    <3>1. i = Len(s) + (i - Len(s)) /\ j = Len(s) + (j - Len(s)) /\ i - Len(s) < j - Len(s)
      BY <1>1, <1>8, <2>0
    <3>2. su[i] = u[i - Len(s)] /\ su[j] = u[j - Len(s)]
      BY <1>5, <2>3, <3>1
    <3> QED BY <1>1, <1>8, <2>3, <3>1, <3>2 DEF Increasing
  <2> QED BY <1>6, <2>1, <2>2, <2>3
<1>9. Increasing(s) /\ Increasing(u) /\ (\A k \in ToSet(s), l \in ToSet(u) : k < l) => Increasing(su)
  BY <1>8 DEF Increasing
<1> QED BY <1>2, <1>7, <1>9 DEF su

(* The buffer ends at the last event, and what was handed out or dropped   *)
(* is what comes before it.                                                *)
IOut ==
    /\ EndsAt(buffer, Len(told))
    /\ Increasing(taken)
    /\ ToSet(taken) = (1..(Len(told) - Len(buffer))) \ dropped
    /\ dropped \subseteq 1..(Len(told) - Len(buffer))
    /\ dropped # {} => Len(told) > BufferSize

IFiles == \A t \in Threads : At(t, "write") => IsRun(call[t].events)

LEMMA GrowsOut ==
  ASSUME CollectorTypes, IOut, NEW events \in Seq(InputEvents), Grows(events)
  PROVE  /\ IOut'
         /\ buffer' \in Seq(Nat) /\ taken' \in Seq(Nat) /\ dropped' \subseteq Nat
<1> DEFINE n == Len(told) + Len(events)
           w == With(events)
           lo == Len(told) - Len(buffer)
           lo2 == n - Len(w)
<1>1. /\ Len(told) \in Nat /\ Len(events) \in Nat /\ Len(buffer) \in Nat /\ Len(told') = n
      /\ n \in Nat /\ BufferSize \in Nat /\ taken \in Seq(Nat) /\ dropped \subseteq Nat
  BY GrownStream, LenProperties, CollectorAssumption DEF CollectorTypes, Grows
<1>2. /\ EndsAt(w, n) /\ Len(w) <= Len(buffer) + Len(events)
      /\ Len(w) < Len(buffer) + Len(events) => n > BufferSize
      /\ ToSet(buffer \o Numbered(events)) = (lo + 1)..n
  BY <1>1, WithEnds DEF IOut
<1>3. /\ w \in Seq(Nat) /\ Len(w) \in Nat /\ Len(w) <= n /\ ToSet(w) = (lo2 + 1)..n /\ Increasing(w)
  BY <1>1, <1>2, EndsAtFacts DEF EndsAt
<1>4. dropped' = dropped \cup (((lo + 1)..n) \ ((lo2 + 1)..n))
  BY <1>2, <1>3 DEF Grows, Tell
<1>5. lo \in Nat /\ lo2 \in Nat /\ lo <= lo2 /\ lo2 <= n
  BY <1>1, <1>2, <1>3 DEF IOut, EndsAt
<1>6. dropped' = dropped \cup ((lo + 1)..lo2)
  <2>1. ((lo + 1)..n) \ ((lo2 + 1)..n) = (lo + 1)..lo2
    <3> HIDE DEF n, w, lo, lo2
    <3> QED BY <1>1, <1>5
  <2> QED BY <1>4, <2>1
<1>7. dropped' # {} => n > BufferSize
  <2>1. CASE dropped # {}
    BY <1>1, <2>1 DEF IOut
  <2>2. CASE (lo + 1)..lo2 # {}
    BY <1>1, <1>2, <1>3, <2>2
  <2> QED BY <1>6, <2>1, <2>2
<1>8. ToSet(taken) = (1..lo) \ dropped /\ dropped \subseteq 1..lo /\ Increasing(taken)
  BY DEF IOut
<1>9. dropped' \subseteq 1..lo2 /\ ToSet(taken) = (1..lo2) \ dropped'
  <2> HIDE DEF n, w, lo, lo2
  <2> QED BY <1>5, <1>6, <1>8
<1> HIDE DEF w
<1>10. CASE buffer' = w /\ taken' = taken
  <2>1. EndsAt(buffer', Len(told')) /\ Len(told') - Len(buffer') = lo2
    BY <1>1, <1>2, <1>10
  <2>2. IOut'
    BY <1>1, <1>7, <1>8, <1>9, <1>10, <2>1 DEF IOut, EndsAt, Increasing, ToSet
  <2> QED BY <1>1, <1>3, <1>9, <1>10, <2>2
<1>11. CASE buffer' = <<>> /\ taken' = taken \o w
  <2>1. EndsAt(<<>>, n) /\ Len(<<>>) = 0
    BY <1>1, EmptySeq DEF EndsAt
  <2>2. \A k \in ToSet(taken), l \in ToSet(w) : k < l
    <3> HIDE DEF n, lo, lo2
    <3> QED BY <1>3, <1>5, <1>9
  <2>3. taken' \in Seq(Nat) /\ ToSet(taken') = ToSet(taken) \cup ToSet(w) /\ Increasing(taken')
    BY <1>1, <1>3, <1>8, <1>11, <2>2, ConcatFacts
  <2>4. ToSet(taken') = (1..n) \ dropped' /\ dropped' \subseteq 1..n
    <3> HIDE DEF n, lo, lo2
    <3> QED BY <1>1, <1>3, <1>5, <1>9, <2>3
  <2>5. EndsAt(buffer', Len(told')) /\ Len(told') - Len(buffer') = n
    BY <1>1, <1>11, <2>1
  <2>6. IOut'
    BY <1>1, <1>7, <2>3, <2>4, <2>5 DEF IOut, EndsAt, Increasing, ToSet
  <2> QED BY <1>1, <1>9, <1>11, <2>1, <2>3, <2>6 DEF EndsAt
<1> QED BY <1>10, <1>11 DEF Grows, w

(* Of a stream and a burst: edits and burst have the keys once and in      *)
(* order.                                                                  *)
KeysOf(i, T, B) == IF i \in 1..Len(T) THEN T[i].keys ELSE B
KeyDowns(T) == { i \in 1..Len(T) : T[i].kind = "key_down" }
KeysInOrder(T, B) ==
    /\ \A k \in KeyDowns(T) : \E i \in 1..(Len(T) + 1) : k \in ToSet(KeysOf(i, T, B))
    /\ \A i \in 1..(Len(T) + 1) : ToSet(KeysOf(i, T, B)) \subseteq KeyDowns(T)
    /\ \A i \in 1..(Len(T) + 1) : Increasing(KeysOf(i, T, B))
    /\ \A i, j \in 1..(Len(T) + 1) : i < j =>
          \A k \in ToSet(KeysOf(i, T, B)), l \in ToSet(KeysOf(j, T, B)) : k < l

LEMMA LongerStream ==
  ASSUME NEW T \in Seq(InputEvents), NEW e \in InputEvents
  PROVE  /\ T \o <<e>> \in Seq(InputEvents) /\ Len(T) \in Nat /\ Len(T \o <<e>>) = Len(T) + 1
         /\ (T \o <<e>>)[Len(T) + 1] = e /\ \A i \in 1..Len(T) : (T \o <<e>>)[i] = T[i]
<1>1. T \o <<e>> = Append(T, e)
  BY AppendIsConcat
<1> QED BY <1>1, AppendProperties, LenProperties

LEMMA NoKeys == ToSet(<<>>) = {} /\ Increasing(<<>>)
<1>1. DOMAIN <<>> = {}
  OBVIOUS
<1> QED BY <1>1 DEF ToSet, Increasing

(* An event without keys of its own, and the key that it may be.           *)
LEMMA EventInOrder ==
  ASSUME NEW T \in Seq(InputEvents), NEW B \in Seq(1..Len(T)), KeysInOrder(T, B),
         NEW e \in InputEvents, e.keys = <<>>,
         NEW C, C = IF e.kind = "key_down" THEN Append(B, Len(T) + 1) ELSE B
  PROVE  KeysInOrder(T \o <<e>>, C) /\ C \in Seq(1..(Len(T) + 1))
<1> DEFINE U == T \o <<e>>
           n == Len(T)
<1>1. n \in Nat /\ Len(U) = n + 1 /\ U[n + 1] = e /\ \A i \in 1..n : U[i] = T[i]
  BY LongerStream
<1> HIDE DEF U, n
<1>2. Len(B) \in Nat /\ DOMAIN B = 1..Len(B) /\ B \in Seq(1..(n + 1)) /\ B \in Seq(1..n)
      /\ \A k \in ToSet(B) : k \in 1..n
  <2>1. B \in Seq(1..n)
    BY DEF n
  <2>2. 1..n \subseteq 1..(n + 1)
    BY <1>1
  <2>3. B \in Seq(1..(n + 1))
    BY <2>1, <2>2, SeqMonotonic
  <2>4. Len(B) \in Nat /\ DOMAIN B = 1..Len(B)
    BY <2>1, LenProperties
  <2>5. \A i \in 1..Len(B) : B[i] \in 1..n
    BY <2>1, ElementOfSeq
  <2> QED BY <2>1, <2>3, <2>4, <2>5 DEF ToSet
<1>3. /\ C \in Seq(1..(n + 1)) /\ Increasing(C)
      /\ ToSet(C) = IF e.kind = "key_down" THEN ToSet(B) \cup {n + 1} ELSE ToSet(B)
  <2>1. Increasing(B)
    <3>1. KeysOf(n + 1, T, B) = B
      BY <1>1 DEF KeysOf, n
    <3> QED BY <1>1, <3>1 DEF KeysInOrder, n
  <2>2. CASE e.kind # "key_down"
    BY <1>2, <2>1, <2>2
  <2>3. CASE e.kind = "key_down"
    <3>1. C = Append(B, n + 1) /\ n + 1 \in 1..(n + 1)
      BY <1>1, <2>3 DEF n
    <3>2. /\ C \in Seq(1..(n + 1)) /\ Len(C) = Len(B) + 1 /\ DOMAIN C = 1..(Len(B) + 1)
          /\ C[Len(B) + 1] = n + 1 /\ \A i \in 1..Len(B) : C[i] = B[i]
      <4> DEFINE S == 1..(n + 1)
                 x == n + 1
      <4>0. B \in Seq(S) /\ x \in S
        BY <1>2, <3>1
      <4> HIDE DEF S, x
      <4>2. /\ Append(B, x) \in Seq(S) /\ Len(Append(B, x)) = Len(B) + 1
            /\ Append(B, x)[Len(B) + 1] = x /\ \A i \in 1..Len(B) : Append(B, x)[i] = B[i]
        BY <4>0, AppendProperties
      <4>1. /\ C \in Seq(S) /\ Len(C) = Len(B) + 1
            /\ C[Len(B) + 1] = n + 1 /\ \A i \in 1..Len(B) : C[i] = B[i]
        BY <3>1, <4>2 DEF x
      <4>3. DOMAIN C = 1..(Len(B) + 1)
        BY <4>1, LenProperties
      <4> QED BY <4>1, <4>3 DEF S
    <3>3. ToSet(C) = ToSet(B) \cup {n + 1}
      <4>1. ToSet(C) \subseteq ToSet(B) \cup {n + 1}
        BY <1>2, <3>2 DEF ToSet
      <4>2. Len(B) + 1 \in DOMAIN C /\ \A i \in DOMAIN B : i \in DOMAIN C
        BY <1>2, <3>2
      <4>3. ToSet(B) \subseteq ToSet(C)
        BY <1>2, <3>2, <4>2 DEF ToSet
      <4>4. n + 1 \in ToSet(C)
        BY <3>2, <4>2 DEF ToSet
      <4> QED BY <4>1, <4>3, <4>4
    <3>4. Increasing(C)
      <4> SUFFICES ASSUME NEW i \in DOMAIN C, NEW j \in DOMAIN C, i < j PROVE C[i] < C[j]
        BY DEF Increasing
      <4>1. i \in 1..Len(B)
        BY <1>2, <3>2
      <4>2. B[i] \in 1..n
        BY <1>2, <4>1, ElementOfSeq
      <4> QED BY <1>1, <1>2, <2>1, <3>2, <4>1, <4>2 DEF Increasing
    <3> QED BY <2>3, <3>2, <3>3, <3>4
  <2> QED BY <2>2, <2>3
<1>4. KeyDowns(U) = IF e.kind = "key_down" THEN KeyDowns(T) \cup {n + 1} ELSE KeyDowns(T)
  <2>1. KeyDowns(T) = { i \in 1..n : T[i].kind = "key_down" }
    BY DEF KeyDowns, n
  <2>2. 1..(n + 1) = (1..n) \cup {n + 1} /\ n + 1 \notin 1..n
    BY <1>1
  <2> QED BY <1>1, <2>1, <2>2 DEF KeyDowns
<1>5. /\ \A i \in 1..n : KeysOf(i, U, C) = KeysOf(i, T, B)
      /\ KeysOf(n + 1, T, B) = B /\ KeysOf(n + 1, U, C) = <<>> /\ KeysOf(n + 2, U, C) = C
  BY <1>1 DEF KeysOf, n
<1>6. /\ \A k \in KeyDowns(T) : \E i \in 1..(n + 1) : k \in ToSet(KeysOf(i, T, B))
      /\ \A i \in 1..(n + 1) : ToSet(KeysOf(i, T, B)) \subseteq KeyDowns(T)
      /\ \A i \in 1..(n + 1) : Increasing(KeysOf(i, T, B))
      /\ \A i, j \in 1..(n + 1) : i < j =>
             \A k \in ToSet(KeysOf(i, T, B)), l \in ToSet(KeysOf(j, T, B)) : k < l
  BY DEF KeysInOrder, n
<1>7. 1..(n + 2) = (1..n) \cup {n + 1, n + 2} /\ 1..(n + 1) = (1..n) \cup {n + 1}
  BY <1>1
<1>8. \A k \in KeyDowns(U) : \E i \in 1..(n + 2) : k \in ToSet(KeysOf(i, U, C))
  BY <1>3, <1>4, <1>5, <1>6, <1>7
<1>9. \A i \in 1..(n + 2) : ToSet(KeysOf(i, U, C)) \subseteq KeyDowns(U)
  BY <1>3, <1>4, <1>5, <1>6, <1>7, NoKeys
<1>10. \A i \in 1..(n + 2) : Increasing(KeysOf(i, U, C))
  BY <1>3, <1>5, <1>6, <1>7, NoKeys
<1>11. ASSUME NEW i \in 1..(n + 2), NEW j \in 1..(n + 2), i < j,
              NEW k \in ToSet(KeysOf(i, U, C)), NEW l \in ToSet(KeysOf(j, U, C))
       PROVE  k < l
  <2>1. i # n + 1 /\ j # n + 1 /\ i \in 1..n /\ (j \in 1..n \/ j = n + 2)
    BY <1>1, <1>5, <1>7, <1>11, NoKeys
  <2>2. CASE j \in 1..n
    BY <1>5, <1>6, <1>7, <1>11, <2>1, <2>2
  <2>3. CASE j = n + 2
    <3>1. k \in ToSet(KeysOf(i, T, B)) /\ k \in KeyDowns(T) /\ i < n + 1
      BY <1>1, <1>5, <1>6, <1>7, <1>11, <2>1
    <3>2. k \in 1..n
      BY <3>1 DEF KeyDowns, n
    <3>3. l \in ToSet(B) \/ l = n + 1
      BY <1>3, <1>5, <1>11, <2>3
    <3>4. CASE l \in ToSet(B)
      BY <1>5, <1>6, <1>7, <2>1, <3>1, <3>4
    <3> QED BY <1>1, <3>2, <3>3, <3>4
  <2> QED BY <2>1, <2>2, <2>3
<1>12. Len(U) + 1 = n + 2
  BY <1>1
<1> QED BY <1>3, <1>8, <1>9, <1>10, <1>11, <1>12 DEF KeysInOrder, U, n

(* The edit of the burst takes its place.                                  *)
LEMMA EditInOrder ==
  ASSUME NEW T \in Seq(InputEvents), NEW B, KeysInOrder(T, B),
         NEW e \in InputEvents, e.keys = B, e.kind # "key_down"
  PROVE  KeysInOrder(T \o <<e>>, <<>>)
<1> DEFINE U == T \o <<e>>
           n == Len(T)
<1>1. n \in Nat /\ Len(U) = n + 1 /\ U[n + 1] = e /\ \A i \in 1..n : U[i] = T[i]
  BY LongerStream
<1> HIDE DEF U, n
<1>2. /\ \A i \in 1..(n + 1) : KeysOf(i, U, <<>>) = KeysOf(i, T, B)
      /\ KeysOf(n + 2, U, <<>>) = <<>>
  BY <1>1 DEF KeysOf, n
<1>3. KeyDowns(U) = KeyDowns(T)
  <2>1. KeyDowns(T) = { i \in 1..n : T[i].kind = "key_down" }
    BY DEF KeyDowns, n
  <2>2. 1..(n + 1) = (1..n) \cup {n + 1}
    BY <1>1
  <2> QED BY <1>1, <2>1, <2>2 DEF KeyDowns
<1>4. 1..(n + 2) = (1..(n + 1)) \cup {n + 2} /\ Len(U) + 1 = n + 2
  BY <1>1
<1>5. ASSUME NEW i \in 1..(n + 2), NEW j \in 1..(n + 2), i < j,
             NEW k \in ToSet(KeysOf(i, U, <<>>)), NEW l \in ToSet(KeysOf(j, U, <<>>))
      PROVE  k < l
  <2>1. i \in 1..(n + 1) /\ j \in 1..(n + 1)
    BY <1>2, <1>4, <1>5, NoKeys
  <2> QED BY <1>2, <1>5, <2>1 DEF KeysInOrder, n
<1>6. \A k \in KeyDowns(U) : \E i \in 1..(n + 2) : k \in ToSet(KeysOf(i, U, <<>>))
  BY <1>2, <1>3, <1>4 DEF KeysInOrder, n
<1>7. \A i \in 1..(n + 2) : /\ ToSet(KeysOf(i, U, <<>>)) \subseteq KeyDowns(U)
                            /\ Increasing(KeysOf(i, U, <<>>))
  BY <1>2, <1>3, <1>4, NoKeys DEF KeysInOrder, n
<1> QED BY <1>4, <1>5, <1>6, <1>7 DEF KeysInOrder, U

(* The events of StopSession one after the other: the edit, then the end.  *)
LEMMA StopStream ==
  ASSUME CollectorTypes, NEW e \in InputEvents
  PROVE  told \o (Edit \o <<e>>) = (told \o Edit) \o <<e>> /\ Edit \o <<e>> \in Seq(InputEvents)
<1>1. told \in Seq(InputEvents) /\ Edit \in Seq(InputEvents) /\ <<e>> \in Seq(InputEvents)
  BY EditTyped, OnlyOne DEF CollectorTypes
<1> QED BY <1>1, ConcatAssociative, ConcatProperties

LEMMA EditStream ==
  ASSUME CollectorTypes, KeysInOrder(told, burst)
  PROVE  /\ told \o Edit \in Seq(InputEvents) /\ KeysInOrder(told \o Edit, <<>>)
<1>1. told \in Seq(InputEvents) /\ Edit \in Seq(InputEvents)
  BY EditTyped DEF CollectorTypes
<1>2. CASE burst = <<>>
  <2>1. told \o Edit = told
    BY <1>1, <1>2, EditTyped, ConcatEmptySeq
  <2> QED BY <1>1, <1>2, <2>1
<1>3. CASE burst # <<>>
  <2>1. Edit[1] \in InputEvents /\ Edit[1].keys = burst /\ Edit[1].kind # "key_down" /\ Len(Edit) = 1
    BY <1>1, <1>3, EditTyped, ElementOfSeq
  <2>2. Edit = <<Edit[1]>>
    <3>1. <<Edit[1]>> \in Seq(InputEvents) /\ Len(<<Edit[1]>>) = 1 /\ <<Edit[1]>>[1] = Edit[1]
      BY <2>1, OnlyOne
    <3> HIDE DEF Edit
    <3>2. \A i \in 1..Len(Edit) : Edit[i] = <<Edit[1]>>[i]
      BY <2>1, <3>1
    <3> QED BY <1>1, <2>1, <3>1, <3>2, SeqEqual
  <2>3. KeysInOrder(told \o <<Edit[1]>>, <<>>)
    BY <1>1, <2>1, EditInOrder
  <2> QED BY <1>1, <2>2, <2>3, ConcatProperties
<1> QED BY <1>2, <1>3

-----------------------------------------------------------------------------
(* Sessions in a stream.                                                   *)
Started(T, s) == \E j \in 1..Len(T) : T[j] = InputEvent("start", s)
IsOver(T, s) ==
    \E j \in 1..Len(T) : /\ T[j] = InputEvent("end", s)
                         /\ \A k \in j..Len(T) : T[k] # InputEvent("start", s)
Framed(T, o) ==
    \A i \in 1..Len(T) :
        /\ \E j \in 1..i : T[j] = InputEvent("start", T[i].session)
        /\ (\E j \in 1..(i - 1) : /\ T[j] = InputEvent("end", T[i].session)
                                  /\ \A k \in j..i : T[k] # InputEvent("start", T[i].session))
           => o

LEMMA LongerSessions ==
  ASSUME NEW T \in Seq(InputEvents), NEW e \in InputEvents, NEW s
  PROVE  /\ Started(T, s) \/ e = InputEvent("start", s) => Started(T \o <<e>>, s)
         /\ IsOver(T \o <<e>>, s) /\ e.kind # "end" => IsOver(T, s)
         /\ e = InputEvent("start", s) => ~IsOver(T \o <<e>>, s)
<1> DEFINE U == T \o <<e>>
           n == Len(T)
<1>1. n \in Nat /\ Len(U) = n + 1 /\ U[n + 1] = e /\ \A i \in 1..n : U[i] = T[i]
  BY LongerStream
<1> HIDE DEF U, n
<1>2. n + 1 \in 1..(n + 1) /\ \A i \in 1..n : i \in 1..(n + 1)
  BY <1>1
<1>3. Started(T, s) \/ e = InputEvent("start", s) => Started(U, s)
  BY <1>1, <1>2 DEF Started, n
<1>4. ASSUME IsOver(U, s), e.kind # "end" PROVE IsOver(T, s)
  <2>1. PICK j \in 1..(n + 1) : /\ U[j] = InputEvent("end", s)
                                /\ \A k \in j..(n + 1) : U[k] # InputEvent("start", s)
    BY <1>1, <1>4 DEF IsOver
  <2>2. j # n + 1
    BY <1>1, <1>4, <2>1 DEF InputEvent
  <2>3. j \in 1..n /\ \A k \in j..n : k \in 1..n /\ k \in j..(n + 1)
    BY <1>1, <2>2
  <2> QED BY <1>1, <2>1, <2>3 DEF IsOver, n
<1>5. ASSUME e = InputEvent("start", s), IsOver(U, s) PROVE FALSE
  <2>1. PICK j \in 1..(n + 1) : \A k \in j..(n + 1) : U[k] # InputEvent("start", s)
    BY <1>1, <1>5 DEF IsOver
  <2>2. n + 1 \in j..(n + 1)
    BY <1>1
  <2> QED BY <1>1, <1>5, <2>1, <2>2
<1> QED BY <1>3, <1>4, <1>5 DEF U

(* One event more is framed, if its session has started and is not over.   *)
LEMMA LongerFramed ==
  ASSUME NEW T \in Seq(InputEvents), NEW e \in InputEvents, NEW o, NEW oo, Framed(T, o), o => oo,
         \/ e = InputEvent("start", e.session)
         \/ Started(T, e.session) /\ (IsOver(T, e.session) => oo)
  PROVE  Framed(T \o <<e>>, oo)
<1> DEFINE U == T \o <<e>>
           n == Len(T)
<1>1. n \in Nat /\ Len(U) = n + 1 /\ U[n + 1] = e /\ \A i \in 1..n : U[i] = T[i]
  BY LongerStream
<1> HIDE DEF U, n
<1>2. SUFFICES ASSUME NEW i \in 1..(n + 1)
               PROVE /\ \E j \in 1..i : U[j] = InputEvent("start", U[i].session)
                     /\ (\E j \in 1..(i - 1) : /\ U[j] = InputEvent("end", U[i].session)
                           /\ \A k \in j..i : U[k] # InputEvent("start", U[i].session)) => oo
  BY <1>1 DEF Framed, U
<1>3. CASE i \in 1..n
  <2>1. U[i] = T[i] /\ (\A j \in 1..i : U[j] = T[j]) /\ \A j \in 1..(i - 1) : j \in 1..i
    BY <1>1, <1>3
  <2>2. \A j \in 1..(i - 1) : \A k \in j..i : k \in 1..i
    BY <1>1, <1>3
  <2>3. /\ \E j \in 1..i : T[j] = InputEvent("start", T[i].session)
        /\ (\E j \in 1..(i - 1) : /\ T[j] = InputEvent("end", T[i].session)
                                  /\ \A k \in j..i : T[k] # InputEvent("start", T[i].session))
           => o
    BY <1>3 DEF Framed, n
  <2> QED BY <2>1, <2>2, <2>3
<1>4. CASE i = n + 1
  <2>1. U[i] = e /\ i - 1 = n /\ i \in 1..i
    BY <1>1, <1>4
  <2>2. CASE e = InputEvent("start", e.session)
    <3>1. \A j \in 1..(i - 1) : i \in j..i
      BY <1>1, <1>4
    <3> QED BY <2>1, <2>2, <3>1
  <2>3. CASE Started(T, e.session) /\ (IsOver(T, e.session) => oo)
    <3>1. \E j \in 1..i : U[j] = InputEvent("start", e.session)
      <4>1. PICK j \in 1..n : T[j] = InputEvent("start", e.session)
        BY <2>3 DEF Started, n
      <4>2. j \in 1..i
        BY <1>1, <1>4
      <4> QED BY <1>1, <4>1, <4>2
    <3>2. ASSUME NEW j \in 1..n, U[j] = InputEvent("end", e.session),
                 \A k \in j..i : U[k] # InputEvent("start", e.session)
          PROVE  IsOver(T, e.session)
      <4>1. \A k \in j..n : k \in j..i /\ k \in 1..n
        BY <1>1, <1>4
      <4> QED BY <1>1, <3>2, <4>1 DEF IsOver, n
    <3> QED BY <2>1, <2>3, <3>1, <3>2
  <2> QED BY <2>2, <2>3
<1> QED BY <1>1, <1>3, <1>4

LEMMA EditSessions ==
  ASSUME CollectorTypes, KeysInOrder(told, burst), NEW o, Framed(told, overlapped), overlapped => o,
         burst # <<>> => (IsOver(told, told[burst[1]].session) => o)
  PROVE  /\ Framed(told \o Edit, o)
         /\ \A s : Started(told, s) => Started(told \o Edit, s)
         /\ \A s : IsOver(told \o Edit, s) => IsOver(told, s)
<1>1. told \in Seq(InputEvents) /\ Edit \in Seq(InputEvents)
  BY EditTyped DEF CollectorTypes
<1>2. CASE burst = <<>>
  <2>1. told \o Edit = told
    BY <1>1, <1>2, EditTyped, ConcatEmptySeq
  <2> QED BY <2>1 DEF Framed
<1>3. CASE burst # <<>>
  <2>1. /\ Edit[1] \in InputEvents /\ Edit[1].kind = "text_edit" /\ Len(Edit) = 1
        /\ Edit[1].session = told[burst[1]].session /\ burst[1] \in Places
    BY <1>1, <1>3, EditTyped, ElementOfSeq
  <2>2. Edit = <<Edit[1]>>
    <3>1. <<Edit[1]>> \in Seq(InputEvents) /\ Len(<<Edit[1]>>) = 1 /\ <<Edit[1]>>[1] = Edit[1]
      BY <2>1, OnlyOne
    <3> HIDE DEF Edit
    <3>2. \A i \in 1..Len(Edit) : Edit[i] = <<Edit[1]>>[i]
      BY <2>1, <3>1
    <3> QED BY <1>1, <2>1, <3>1, <3>2, SeqEqual
  <2> DEFINE e == Edit[1]
  <2>3. Started(told, e.session)
    <3>1. PICK j \in 1..burst[1] : told[j] = InputEvent("start", told[burst[1]].session)
      BY <2>1 DEF Framed, Places
    <3>2. j \in 1..Len(told)
      BY <1>1, <2>1, LenProperties DEF Places
    <3> QED BY <2>1, <3>1, <3>2 DEF Started
  <2>4. e \in InputEvents /\ e.kind # "end" /\ told \o Edit = told \o <<e>>
        /\ (IsOver(told, e.session) => o)
    BY <1>3, <2>1, <2>2
  <2> HIDE DEF e
  <2>5. Framed(told \o <<e>>, o)
    BY <1>1, <2>3, <2>4, LongerFramed
  <2>6. \A s : /\ Started(told, s) => Started(told \o <<e>>, s)
               /\ IsOver(told \o <<e>>, s) => IsOver(told, s)
    BY <1>1, <2>4, LongerSessions
  <2> QED BY <2>4, <2>5, <2>6
<1> QED BY <1>2, <1>3

(* Sessions of calls and of the burst: while no session has stopped under  *)
(* a call, what is still to be recorded belongs to one that is not over.   *)
ISessions ==
    /\ Framed(told, overlapped)
    /\ active \/ session # NoSession => Started(told, session)
    /\ active /\ ~overlapped => ~IsOver(told, session)
    /\ burst # <<>> /\ ~overlapped => ~IsOver(told, told[burst[1]].session)
    /\ \A t \in Threads :
         /\ At(t, "gap") \/ At(t, "build") => Started(told, session) /\ (~overlapped => active)
         /\ At(t, "emit") => /\ Started(told, call[t].session)
                             /\ ~overlapped => ~IsOver(told, call[t].session)

CollectorInv ==
    /\ CollectorTypes /\ KeysInOrder(told, burst)
    /\ IOut /\ IFiles /\ ISessions

(* Steps that touch neither the stream nor what is recorded of it.         *)
LEMMA QuietStep ==
  ASSUME CollectorInv, NEW t \in Threads,
         \/ Build(t) \/ Stamp(t) \/ WriteFile(t) \/ Save(t, FALSE)
         \/ \E kind \in Kinds \cup {"key_down"} : Begin(t, kind)
  PROVE  CollectorInv'
<1>0. CollectorTypes /\ KeysInOrder(told, burst) /\ IOut /\ IFiles /\ ISessions
  BY DEF CollectorInv
<1>1. UNCHANGED <<memory, active, session, overlapped>> /\ typed' \in BOOLEAN
  BY <1>0 DEF Build, Stamp, WriteFile, Save, Begin, OnlyCall, CollectorTypes, memory
<1>2. UNCHANGED <<told, buffer, burst, taken, dropped>>
  BY <1>1 DEF memory
<1>3. PICK q : call' = [call EXCEPT ![t] = q] /\ CallTyped(q)
               /\ (q.step = "write" => IsRun(q.events))
               /\ (q.step \in {"gap", "build"} => Started(told, session) /\ (~overlapped => active))
               /\ (q.step = "emit" => Started(told, q.session)
                                     /\ (~overlapped => ~IsOver(told, q.session)))
  <2>1. ASSUME NEW kind \in Kinds \cup {"key_down"}, Begin(t, kind)
        PROVE  \E step \in {"gap", "build"} :
                  call' = [call EXCEPT ![t] = [step |-> step, kind |-> kind, session |-> NoSession]]
    BY <2>1 DEF Begin
  <2>2. ASSUME \E kind \in Kinds \cup {"key_down"} : Begin(t, kind)
        PROVE  \E q : call' = [call EXCEPT ![t] = q] /\ q \in Recording /\ q.step \in {"gap", "build"}
                      /\ active
    BY <2>1, <2>2 DEF Begin, Recording, MaybeSession
  <2>3. ASSUME Build(t)
        PROVE  \E q : call' = [call EXCEPT ![t] = q] /\ q \in Recording /\ q.step = "emit"
                      /\ q.session = session /\ At(t, "build")
    <3>1. call[t] \in Recording /\ session \in MaybeSession
      BY <1>0, <2>3, CallTypedAt DEF Build, CollectorTypes
    <3> DEFINE q == [call[t] EXCEPT !.step = "emit", !.session = session]
    <3>2. q \in Recording /\ q.step = "emit" /\ q.session = session /\ call' = [call EXCEPT ![t] = q]
      BY <2>3, <3>1 DEF Build, Recording
    <3> HIDE DEF q
    <3> QED BY <2>3, <3>2 DEF Build
  <2>4. ASSUME Stamp(t) \/ WriteFile(t) PROVE call' = [call EXCEPT ![t] = Idle]
    BY <2>4 DEF Stamp, WriteFile
  <2>5. ASSUME Save(t, FALSE)
        PROVE  \E q : call' = [call EXCEPT ![t] = q] /\ q \in Writing /\ q.events = buffer
    BY <1>0, <2>5 DEF Save, Writing, CollectorTypes
  <2>6. IsRun(buffer)
    <3>1. Len(told) \in Nat
      BY <1>0, LenProperties DEF CollectorTypes
    <3> QED BY <1>0, <3>1, EndsAtFacts DEF IOut
  <2>7. CASE \E kind \in Kinds \cup {"key_down"} : Begin(t, kind)
    BY <1>0, <2>2, <2>7 DEF CallTyped, ISessions
  <2>8. CASE Build(t)
    BY <1>0, <2>3, <2>8 DEF CallTyped, ISessions
  <2>9. CASE Stamp(t) \/ WriteFile(t)
    <3>1. CallTyped(Idle) /\ Idle.step = "idle"
      BY DEF CallTyped, Idle
    <3> QED BY <2>4, <2>9, <3>1
  <2>10. CASE Save(t, FALSE)
    BY <2>5, <2>6, <2>10 DEF CallTyped, Writing
  <2> QED BY <2>7, <2>8, <2>9, <2>10
<1>4. DOMAIN call' = Threads /\ \A u \in Threads : call'[u] = IF u = t THEN q ELSE call[u]
  BY <1>0, <1>3 DEF CollectorTypes
<1>5. CollectorTypes'
  <2>1. ASSUME NEW u \in Threads PROVE CallTyped(call'[u])
    BY <1>0, <1>3, <1>4 DEF CollectorTypes
  <2>2. \A u \in Threads : CallTyped(call[u])'
    BY <2>1 DEF CallTyped, Idle, Recording, Writing, MaybeSession
  <2> QED BY <1>0, <1>1, <1>2, <1>4, <2>2 DEF CollectorTypes, Places, InputEvents, EventKinds, MaybeSession
<1>6. KeysInOrder(told, burst)'
  BY <1>0, <1>2 DEF KeysInOrder, KeysOf, KeyDowns, ToSet, Increasing
<1>7. IOut'
  BY <1>0, <1>2 DEF IOut, EndsAt, Increasing, ToSet
<1>8. IFiles'
  BY <1>0, <1>3, <1>4 DEF IFiles, At, IsRun
<1>9. ISessions'
  <2>1. Framed(told, overlapped)'
    BY <1>0, <1>1, <1>2 DEF ISessions, Framed, InputEvent
  <2>2. \A s : Started(told', s) = Started(told, s) /\ IsOver(told', s) = IsOver(told, s)
    BY <1>2
  <2>3. \A u \in Threads :
         /\ call'[u].step \in {"gap", "build"} => Started(told', session') /\ (~overlapped' => active')
         /\ call'[u].step = "emit" => /\ Started(told', call'[u].session)
                                      /\ ~overlapped' => ~IsOver(told', call'[u].session)
    BY <1>0, <1>1, <1>2, <1>3, <1>4 DEF ISessions, At
  <2>4. /\ active' \/ session' # NoSession => Started(told', session')
        /\ active' /\ ~overlapped' => ~IsOver(told', session')
        /\ burst' # <<>> /\ ~overlapped' => ~IsOver(told', told'[burst'[1]].session)
    BY <1>0, <1>1, <1>2 DEF ISessions
  <2> QED BY <2>1, <2>3, <2>4 DEF ISessions, At
<1> QED BY <1>5, <1>6, <1>7, <1>8, <1>9 DEF CollectorInv
(* Types and what leaves the buffer, of a step that tells of events.       *)
LEMMA LoudTypes ==
  ASSUME CollectorInv, NEW events \in Seq(InputEvents), Grows(events), burst' \in Seq(1..Len(told')),
         active' \in BOOLEAN, session' \in MaybeSession, typed' \in BOOLEAN, overlapped' \in BOOLEAN,
         DOMAIN call' = Threads, \A u \in Threads : CallTyped(call'[u])
  PROVE  CollectorTypes' /\ IOut'
<1>0. CollectorTypes /\ IOut
  BY DEF CollectorInv
<1>1. told' \in Seq(InputEvents)
  BY <1>0, GrownStream DEF Grows
<1>2. IOut' /\ buffer' \in Seq(Nat) /\ taken' \in Seq(Nat) /\ dropped' \subseteq Nat
  BY <1>0, GrowsOut
<1>3. \A u \in Threads : CallTyped(call[u])'
  BY DEF CallTyped, Idle, Recording, Writing, MaybeSession
<1>4. burst' \in Seq(Places') /\ told' \in Seq(InputEvents')
  BY <1>1 DEF Places, InputEvents, EventKinds, MaybeSession
<1> QED BY <1>2, <1>3, <1>4 DEF CollectorTypes, MaybeSession

(* What the edit of the burst is told with: a gap, a flush, a save.        *)
LEMMA EditStep ==
  ASSUME CollectorInv, Flush \/ \E t \in Threads : FlushGap(t) \/ Save(t, TRUE)
  PROVE  CollectorInv'
<1>0. CollectorTypes /\ KeysInOrder(told, burst) /\ IOut /\ IFiles /\ ISessions
  BY DEF CollectorInv
<1> PICK t : Flush \/ (t \in Threads /\ (FlushGap(t) \/ Save(t, TRUE)))
  OBVIOUS
<1>1. /\ Grows(Edit) /\ burst' = <<>> /\ told' = told \o Edit
      /\ UNCHANGED <<active, session, typed, overlapped>>
  <2>1. CASE t \in Threads /\ FlushGap(t)
    BY <2>1, EmitGrows DEF FlushGap, Grows, Tell, Emit
  <2>2. CASE Flush \/ (t \in Threads /\ Save(t, TRUE))
    BY <2>2, HandOutGrows DEF Flush, Save, Grows, Tell
  <2> QED BY <2>1, <2>2
<1>2. Edit \in Seq(InputEvents)
  BY <1>0, EditTyped
<1>3. IsRun(With(Edit)) /\ With(Edit) \in Seq(Nat)
  <2>1. Len(told) \in Nat /\ Len(told) + Len(Edit) \in Nat
    BY <1>0, <1>2, LenProperties DEF CollectorTypes
  <2>2. EndsAt(With(Edit), Len(told) + Len(Edit))
    BY <1>0, <1>2, <2>1, WithEnds DEF IOut
  <2> QED BY <2>1, <2>2, EndsAtFacts DEF EndsAt
<1>4. /\ DOMAIN call' = Threads /\ \A u \in Threads : CallTyped(call'[u])
      /\ \A u \in Threads :
           /\ call'[u].step = "write" => IsRun(call'[u].events)
           /\ call'[u].step \in {"gap", "build"} => At(u, "gap") \/ At(u, "build")
           /\ call'[u].step = "emit" => At(u, "emit") /\ call'[u].session = call[u].session
  <2>1. CASE t \in Threads /\ FlushGap(t)
    <3>1. call[t] \in Recording /\ call' = [call EXCEPT ![t].step = "build"]
      BY <1>0, <2>1, CallTypedAt DEF FlushGap, Goto
    <3>2. [call[t] EXCEPT !.step = "build"] \in Recording
          /\ [call[t] EXCEPT !.step = "build"].step = "build"
      BY <3>1 DEF Recording
    <3>3. \A u \in Threads : call'[u] = IF u = t THEN [call[t] EXCEPT !.step = "build"] ELSE call[u]
      BY <1>0, <3>1 DEF CollectorTypes
    <3>4. DOMAIN call' = Threads /\ \A u \in Threads : CallTyped(call'[u])
      BY <1>0, <3>1, <3>2, <3>3 DEF CollectorTypes, CallTyped
    <3> QED BY <1>0, <2>1, <3>2, <3>3, <3>4 DEF IFiles, FlushGap, At
  <2>2. CASE Flush
    BY <1>0, <2>2 DEF Flush, CollectorTypes, IFiles, At
  <2>3. CASE t \in Threads /\ Save(t, TRUE)
    <3>1. PICK q : q = [step |-> "write", events |-> With(Edit)]
      OBVIOUS
    <3>2. CallTyped(q) /\ q.step = "write" /\ IsRun(q.events)
      BY <1>3, <3>1 DEF CallTyped, Writing
    <3>3. DOMAIN call' = Threads /\ \A u \in Threads : call'[u] = IF u = t THEN q ELSE call[u]
      BY <1>0, <2>3, <3>1 DEF Save, CollectorTypes
    <3> QED BY <1>0, <3>2, <3>3 DEF CollectorTypes, IFiles, At
  <2> QED BY <2>1, <2>2, <2>3
<1>5. KeysInOrder(told', burst') /\ burst' \in Seq(1..Len(told'))
  BY <1>0, <1>1, EditStream, EmptySeq
<1>6. CollectorTypes' /\ IOut'
  <2>1. active' \in BOOLEAN /\ session' \in MaybeSession /\ typed' \in BOOLEAN
        /\ overlapped' \in BOOLEAN
    BY <1>0, <1>1 DEF CollectorTypes
  <2> QED BY <1>1, <1>2, <1>4, <1>5, <2>1, LoudTypes
<1>7. KeysInOrder(told, burst)'
  BY <1>5 DEF KeysInOrder, KeysOf, KeyDowns, ToSet, Increasing
<1>8. IFiles'
  BY <1>4 DEF IFiles, At, IsRun
<1>9. ISessions'
  <2>1. /\ Framed(told', overlapped)
        /\ \A s : Started(told, s) => Started(told', s)
        /\ \A s : IsOver(told', s) => IsOver(told, s)
    <3>1. Framed(told, overlapped)
          /\ (burst # <<>> => (IsOver(told, told[burst[1]].session) => overlapped))
      BY <1>0 DEF ISessions
    <3> QED BY <1>0, <1>1, <3>1, EditSessions
  <2>2. Framed(told, overlapped)'
    BY <1>1, <2>1 DEF Framed, InputEvent
  <2>3. \A u \in Threads :
         /\ call'[u].step \in {"gap", "build"} => Started(told', session') /\ (~overlapped' => active')
         /\ call'[u].step = "emit" => /\ Started(told', call'[u].session)
                                      /\ ~overlapped' => ~IsOver(told', call'[u].session)
    BY <1>0, <1>1, <1>4, <2>1 DEF ISessions
  <2>4. /\ active' \/ session' # NoSession => Started(told', session')
        /\ active' /\ ~overlapped' => ~IsOver(told', session')
        /\ burst' = <<>>
    BY <1>0, <1>1, <2>1 DEF ISessions
  <2> QED BY <2>2, <2>3, <2>4 DEF ISessions, At
<1> QED BY <1>6, <1>7, <1>8, <1>9 DEF CollectorInv

(* A session starts: whatever was said of its id, it is not over now.      *)
LEMMA StartStep ==
  ASSUME CollectorInv, NEW s \in Sessions, StartSession(s)
  PROVE  CollectorInv'
<1>0. CollectorTypes /\ KeysInOrder(told, burst) /\ IOut /\ IFiles /\ ISessions
  BY DEF CollectorInv
<1> DEFINE e == InputEvent("start", s)
<1>1. e \in InputEvents /\ e.kind = "start" /\ e.session = s /\ e.keys = <<>> /\ s \in MaybeSession
      /\ <<e>> \in Seq(InputEvents)
  <2>1. "start" \in EventKinds /\ s \in MaybeSession
    BY DEF EventKinds, MaybeSession
  <2>2. e \in InputEvents /\ e.kind = "start" /\ e.session = s /\ e.keys = <<>>
    BY <2>1, EventTyped
  <2> HIDE DEF e
  <2> QED BY <2>1, <2>2, OnlyOne
<1>2. /\ Grows(<<e>>) /\ told' = told \o <<e>> /\ session' = s /\ active' = TRUE
      /\ UNCHANGED <<burst, typed, call, overlapped>>
  BY EmitGrows DEF StartSession, Grows, Tell, Emit
<1>3. e = InputEvent("start", e.session) /\ e = InputEvent("start", s)
  BY <1>1
<1> HIDE DEF e
<1>4. told \in Seq(InputEvents) /\ burst \in Seq(1..Len(told)) /\ Len(told') = Len(told) + 1
  BY <1>0, <1>1, <1>2, LongerStream DEF CollectorTypes, Places
<1>5. KeysInOrder(told', burst') /\ burst' \in Seq(1..Len(told'))
  <2>1. KeysInOrder(told \o <<e>>, burst) /\ burst \in Seq(1..(Len(told) + 1))
    BY <1>0, <1>1, <1>4, EventInOrder
  <2> QED BY <1>2, <1>4, <2>1
<1>6. CollectorTypes' /\ IOut'
  <2>1. /\ active' \in BOOLEAN /\ session' \in MaybeSession /\ typed' \in BOOLEAN
        /\ overlapped' \in BOOLEAN
        /\ DOMAIN call' = Threads /\ \A u \in Threads : CallTyped(call'[u])
    BY <1>0, <1>1, <1>2 DEF CollectorTypes
  <2> QED BY <1>1, <1>2, <1>5, <2>1, LoudTypes
<1>7. KeysInOrder(told, burst)'
  BY <1>5 DEF KeysInOrder, KeysOf, KeyDowns, ToSet, Increasing
<1>8. IFiles'
  BY <1>0, <1>2 DEF IFiles, At, IsRun
<1>9. ISessions'
  <2>1. Framed(told', overlapped)
    BY <1>0, <1>1, <1>2, <1>3, <1>4, LongerFramed DEF ISessions
  <2>2. /\ \A i : Started(told, i) => Started(told', i)
        /\ \A i : IsOver(told', i) => IsOver(told, i)
        /\ Started(told', s) /\ ~IsOver(told', s)
    BY <1>1, <1>2, <1>3, <1>4, LongerSessions
  <2>3. Framed(told, overlapped)'
    BY <1>2, <2>1 DEF Framed, InputEvent
  <2>4. \A u \in Threads :
         /\ call'[u].step \in {"gap", "build"} => Started(told', session') /\ (~overlapped' => active')
         /\ call'[u].step = "emit" => /\ Started(told', call'[u].session)
                                      /\ ~overlapped' => ~IsOver(told', call'[u].session)
    BY <1>0, <1>2, <2>2 DEF ISessions, At
  <2>5. burst' # <<>> => told'[burst'[1]] = told[burst[1]]
    <3> SUFFICES ASSUME burst # <<>> PROVE told'[burst[1]] = told[burst[1]]
      BY <1>2
    <3>1. burst[1] \in 1..Len(told)
      BY <1>0, EditTyped DEF Places
    <3> QED BY <1>1, <1>2, <1>4, <3>1, LongerStream
  <2>6. /\ active' \/ session' # NoSession => Started(told', session')
        /\ active' /\ ~overlapped' => ~IsOver(told', session')
        /\ burst' # <<>> /\ ~overlapped' => ~IsOver(told', told'[burst'[1]].session)
    BY <1>0, <1>2, <2>2, <2>5 DEF ISessions
  <2> QED BY <2>3, <2>4, <2>6 DEF ISessions, At
<1> QED BY <1>6, <1>7, <1>8, <1>9 DEF CollectorInv

(* It stops: the edit of the burst comes before its end.                   *)
LEMMA StopStep ==
  ASSUME CollectorInv, StopSession
  PROVE  CollectorInv'
<1>0. CollectorTypes /\ KeysInOrder(told, burst) /\ IOut /\ IFiles /\ ISessions
  BY DEF CollectorInv
<1> DEFINE e == InputEvent("end", session)
           U == told \o Edit
<1>1. e \in InputEvents /\ e.kind = "end" /\ e.session = session /\ e.keys = <<>>
  <2>1. "end" \in EventKinds /\ session \in MaybeSession
    BY <1>0 DEF EventKinds, CollectorTypes
  <2> QED BY <2>1, EventTyped
<1>2. /\ Grows(Edit \o <<e>>) /\ told' = told \o (Edit \o <<e>>)
      /\ active /\ active' = FALSE /\ burst' = <<>>
      /\ overlapped' = (overlapped \/ \E t \in Threads : ~At(t, "idle"))
      /\ UNCHANGED <<session, typed, call>>
  BY EmitGrows DEF StopSession, Grows, Tell, Emit
<1> HIDE DEF e
<1>3. told' = U \o <<e>> /\ Edit \o <<e>> \in Seq(InputEvents)
  BY <1>0, <1>1, <1>2, StopStream
<1>4. U \in Seq(InputEvents) /\ KeysInOrder(U, <<>>)
  BY <1>0, EditStream
<1>5. (overlapped => overlapped') /\ overlapped' \in BOOLEAN
      /\ (~overlapped' => \A t \in Threads : At(t, "idle"))
  BY <1>0, <1>2 DEF CollectorTypes
<1>6. /\ Framed(U, overlapped')
      /\ \A s : Started(told, s) => Started(U, s)
      /\ \A s : IsOver(U, s) => IsOver(told, s)
  <2>1. Framed(told, overlapped)
        /\ (burst # <<>> => (IsOver(told, told[burst[1]].session) => overlapped'))
    BY <1>0, <1>5 DEF ISessions
  <2>2. PICK o : o = overlapped'
    OBVIOUS
  <2> HIDE DEF U
  <2>3. /\ Framed(told \o Edit, o)
        /\ \A s : Started(told, s) => Started(told \o Edit, s)
        /\ \A s : IsOver(told \o Edit, s) => IsOver(told, s)
    BY <1>0, <1>5, <2>1, <2>2, EditSessions
  <2> QED BY <2>2, <2>3 DEF U
<1> HIDE DEF U
<1>7. KeysInOrder(told', burst') /\ burst' \in Seq(1..Len(told'))
  <2>1. <<>> \in Seq(1..Len(U)) /\ <<>> \in Seq(1..Len(told'))
    BY EmptySeq
  <2>2. KeysInOrder(U \o <<e>>, <<>>)
    BY <1>1, <1>4, <2>1, EventInOrder
  <2> QED BY <1>2, <1>3, <2>1, <2>2
<1>8. CollectorTypes' /\ IOut'
  <2>1. /\ active' \in BOOLEAN /\ session' \in MaybeSession /\ typed' \in BOOLEAN
        /\ overlapped' \in BOOLEAN
        /\ DOMAIN call' = Threads /\ \A u \in Threads : CallTyped(call'[u])
    BY <1>0, <1>2, <1>5 DEF CollectorTypes
  <2> QED BY <1>2, <1>3, <1>7, <2>1, LoudTypes
<1>9. KeysInOrder(told, burst)'
  BY <1>7 DEF KeysInOrder, KeysOf, KeyDowns, ToSet, Increasing
<1>10. IFiles'
  BY <1>0, <1>2 DEF IFiles, At, IsRun
<1>11. ISessions'
  <2>1. Started(U, session) /\ (IsOver(U, session) => overlapped')
    BY <1>0, <1>2, <1>5, <1>6 DEF ISessions
  <2>2. PICK o : o = overlapped'
    OBVIOUS
  <2>3. Framed(U, o) /\ Started(U, e.session) /\ (IsOver(U, e.session) => o)
    BY <1>1, <1>6, <2>1, <2>2
  <2>4. Framed(told', o)
    BY <1>1, <1>3, <1>4, <2>3, LongerFramed
  <2>5. \A s : Started(told, s) => Started(told', s)
    BY <1>1, <1>3, <1>4, <1>6, LongerSessions
  <2>6. Framed(told, overlapped)'
    BY <2>2, <2>4 DEF Framed, InputEvent
  <2>7. \A u \in Threads :
         /\ call'[u].step \in {"gap", "build"} => Started(told', session') /\ (~overlapped' => active')
         /\ call'[u].step = "emit" => /\ Started(told', call'[u].session)
                                      /\ ~overlapped' => ~IsOver(told', call'[u].session)
    BY <1>0, <1>2, <1>5, <2>5 DEF ISessions, At
  <2>8. /\ active' \/ session' # NoSession => Started(told', session')
        /\ ~active' /\ burst' = <<>>
    BY <1>0, <1>2, <2>5 DEF ISessions
  <2> QED BY <2>6, <2>7, <2>8 DEF ISessions, At
<1> QED BY <1>8, <1>9, <1>10, <1>11 DEF CollectorInv

(* A call records its event, of the session it read before the lock.       *)
LEMMA RecordStep ==
  ASSUME CollectorInv, NEW t \in Threads, RecordEvent(t)
  PROVE  CollectorInv'
<1>0. CollectorTypes /\ KeysInOrder(told, burst) /\ IOut /\ IFiles /\ ISessions
  BY DEF CollectorInv
<1>1. call[t] \in Recording /\ At(t, "emit")
  BY <1>0, CallTypedAt DEF RecordEvent
<1> DEFINE e == InputEvent(call[t].kind, call[t].session)
<1>2. /\ e \in InputEvents /\ e.kind = call[t].kind /\ e.session = call[t].session /\ e.keys = <<>>
      /\ e.kind \in Kinds \cup {"key_down"}
  <2>1. call[t].kind \in EventKinds /\ call[t].session \in MaybeSession
        /\ call[t].kind \in Kinds \cup {"key_down"}
    BY <1>1 DEF Recording, EventKinds
  <2> QED BY <2>1, EventTyped
<1>3. PICK q : call' = [call EXCEPT ![t] = q] /\ q \in {Idle, [step |-> "stamp"]}
  BY DEF RecordEvent
<1>4. /\ Grows(<<e>>) /\ told' = told \o <<e>>
      /\ burst' = IF e.kind = "key_down" THEN Append(burst, Len(told) + 1) ELSE burst
      /\ UNCHANGED <<active, session, typed, overlapped>>
  BY <1>2, EmitGrows DEF RecordEvent, Grows, Tell, Emit
<1> HIDE DEF e
<1>5. <<e>> \in Seq(InputEvents)
  BY <1>2, OnlyOne
<1>6. told \in Seq(InputEvents) /\ burst \in Seq(1..Len(told)) /\ Len(told') = Len(told) + 1
      /\ Len(told) \in Nat
  BY <1>0, <1>2, <1>4, LongerStream DEF CollectorTypes, Places
<1>7. KeysInOrder(told', burst') /\ burst' \in Seq(1..Len(told'))
  <2>1. PICK C : C = IF e.kind = "key_down" THEN Append(burst, Len(told) + 1) ELSE burst
    OBVIOUS
  <2>2. KeysInOrder(told \o <<e>>, C) /\ C \in Seq(1..(Len(told) + 1))
    BY <1>0, <1>2, <1>6, <2>1, EventInOrder
  <2> QED BY <1>4, <1>6, <2>1, <2>2
<1>8. DOMAIN call' = Threads /\ \A u \in Threads : call'[u] = IF u = t THEN q ELSE call[u]
  BY <1>0, <1>3 DEF CollectorTypes
<1>9. q.step \in {"idle", "stamp"} /\ CallTyped(q)
  BY <1>3 DEF Idle, CallTyped
<1>10. CollectorTypes' /\ IOut'
  <2>1. /\ active' \in BOOLEAN /\ session' \in MaybeSession /\ typed' \in BOOLEAN
        /\ overlapped' \in BOOLEAN
        /\ \A u \in Threads : CallTyped(call'[u])
    BY <1>0, <1>4, <1>8, <1>9 DEF CollectorTypes
  <2> QED BY <1>4, <1>5, <1>7, <1>8, <2>1, LoudTypes
<1>11. KeysInOrder(told, burst)'
  BY <1>7 DEF KeysInOrder, KeysOf, KeyDowns, ToSet, Increasing
<1>12. IFiles'
  BY <1>0, <1>8, <1>9 DEF IFiles, At, IsRun
<1>13. ISessions'
  <2>1. Started(told, e.session) /\ (IsOver(told, e.session) => overlapped)
    BY <1>0, <1>1, <1>2 DEF ISessions
  <2>2. Framed(told', overlapped)
    BY <1>0, <1>2, <1>4, <1>6, <2>1, LongerFramed DEF ISessions
  <2>3. e.kind # "end"
    BY <1>2, CollectorAssumption
  <2>4. /\ \A i : Started(told, i) => Started(told', i)
        /\ \A i : IsOver(told', i) => IsOver(told, i)
    BY <1>2, <1>4, <1>6, <2>3, LongerSessions
  <2>5. Framed(told, overlapped)'
    BY <1>4, <2>2 DEF Framed, InputEvent
  <2>6. \A u \in Threads :
         /\ call'[u].step \in {"gap", "build"} => Started(told', session') /\ (~overlapped' => active')
         /\ call'[u].step = "emit" => /\ Started(told', call'[u].session)
                                      /\ ~overlapped' => ~IsOver(told', call'[u].session)
    BY <1>0, <1>4, <1>8, <1>9, <2>4 DEF ISessions, At
  <2>7. burst' # <<>> => \/ burst # <<>> /\ told'[burst'[1]] = told[burst[1]]
                         \/ told'[burst'[1]] = e
    <3>1. CASE burst = <<>>
      <4>1. Append(burst, Len(told) + 1)[1] = Len(told) + 1
        BY <3>1
      <4> QED BY <1>2, <1>4, <1>6, <3>1, <4>1, LongerStream
    <3>2. CASE burst # <<>>
      <4>1. burst[1] \in 1..Len(told)
        BY <1>0, <3>2, EditTyped DEF Places
      <4>2. Len(burst) \in Nat \ {0} /\ burst \in Seq(Nat)
        BY <1>6, <3>2, EmptySeq, LenProperties, SeqMonotonic
      <4>3. Append(burst, Len(told) + 1)[1] = burst[1]
        BY <1>6, <4>2, AppendProperties
      <4>4. burst'[1] = burst[1]
        BY <1>4, <4>3
      <4> QED BY <1>2, <1>4, <1>6, <3>2, <4>1, <4>4, LongerStream
    <3> QED BY <3>1, <3>2
  <2>8. /\ active' \/ session' # NoSession => Started(told', session')
        /\ active' /\ ~overlapped' => ~IsOver(told', session')
        /\ burst' # <<>> /\ ~overlapped' => ~IsOver(told', told'[burst'[1]].session)
    BY <1>0, <1>4, <2>1, <2>4, <2>7 DEF ISessions
  <2> QED BY <2>5, <2>6, <2>8 DEF ISessions, At
<1> QED BY <1>10, <1>11, <1>12, <1>13 DEF CollectorInv

LEMMA CollectorInitially == CollectorInit => CollectorInv
<1> SUFFICES ASSUME CollectorInit PROVE CollectorInv
  OBVIOUS
<1>1. told = <<>> /\ buffer = <<>> /\ burst = <<>> /\ taken = <<>> /\ dropped = {}
      /\ active = FALSE /\ session = NoSession /\ typed = FALSE /\ overlapped = FALSE
      /\ call = [t \in Threads |-> Idle] /\ Len(<<>>) = 0
  BY DEF CollectorInit
<1>2. CollectorTypes
  <2>1. \A S : <<>> \in Seq(S)
    BY EmptySeq
  <2>2. \A t \in Threads : CallTyped(call[t])
    BY <1>1 DEF CallTyped
  <2> QED BY <1>1, <2>1, <2>2 DEF CollectorTypes, MaybeSession
<1>3. KeysInOrder(told, burst)
  <2>1. \A i : KeysOf(i, <<>>, <<>>) = <<>>
    BY DEF KeysOf
  <2>2. KeyDowns(<<>>) = {}
    BY DEF KeyDowns
  <2> QED BY <1>1, <2>1, <2>2, NoKeys DEF KeysInOrder
<1>4. IOut
  <2>1. EndsAt(buffer, Len(told))
    BY <1>1, EmptySeq DEF EndsAt
  <2> QED BY <1>1, <2>1, NoKeys DEF IOut
<1>5. \A t \in Threads : call[t].step = "idle"
  BY <1>1 DEF Idle
<1>6. IFiles /\ ISessions
  BY <1>1, <1>5 DEF IFiles, ISessions, At, Framed
<1> QED BY <1>2, <1>3, <1>4, <1>6 DEF CollectorInv

LEMMA CollectorStep == CollectorInv /\ [CollectorNext]_collectorVars => CollectorInv'
<1> SUFFICES ASSUME CollectorInv, [CollectorNext]_collectorVars PROVE CollectorInv'
  OBVIOUS
<1>1. ASSUME NEW t \in Threads, Step(t) PROVE CollectorInv'
  <2>1. CASE FlushGap(t) \/ Save(t, TRUE)
    BY <2>1, EditStep
  <2>2. CASE RecordEvent(t)
    BY <2>2, RecordStep
  <2>3. CASE \/ Build(t) \/ Stamp(t) \/ WriteFile(t) \/ Save(t, FALSE)
             \/ \E kind \in Kinds \cup {"key_down"} : Begin(t, kind)
    BY <2>3, QuietStep
  <2> QED BY <1>1, <2>1, <2>2, <2>3 DEF Step
<1>2. ASSUME NEW s \in Sessions, StartSession(s) PROVE CollectorInv'
  BY <1>2, StartStep
<1>3. CASE StopSession
  BY <1>3, StopStep
<1>4. CASE Flush
  BY <1>4, EditStep
<1>5. CASE UNCHANGED collectorVars
  <2>1. UNCHANGED <<told, buffer, burst, active, session, typed, call, taken, dropped, overlapped>>
    BY <1>5 DEF collectorVars, memory
  <2>2. CollectorTypes'
    <3>1. \A u \in Threads : CallTyped(call[u])'
      BY <2>1 DEF CollectorInv, CollectorTypes, CallTyped, Idle, Recording, Writing, MaybeSession
    <3> QED BY <2>1, <3>1 DEF CollectorInv, CollectorTypes, Places, InputEvents, EventKinds, MaybeSession
  <2>3. KeysInOrder(told, burst)' /\ IOut' /\ IFiles'
    BY <2>1 DEF CollectorInv, KeysInOrder, KeysOf, KeyDowns, ToSet, Increasing, IOut, EndsAt, IFiles,
       IsRun, At
  <2>4. ISessions'
    BY <2>1 DEF CollectorInv, ISessions, Framed, Started, IsOver, At, InputEvent
  <2> QED BY <2>2, <2>3, <2>4 DEF CollectorInv
<1> QED BY <1>1, <1>2, <1>3, <1>4, <1>5 DEF CollectorNext

LEMMA CollectorAlways == CollectorSpec => []CollectorInv
  BY CollectorInitially, CollectorStep, PTL DEF CollectorSpec

(* However keys, gaps, stops and flushes of several threads interleave,    *)
(* the text edits and the burst sum up every key-down once and in order    *)
(* (collector.py:142-172, 412-440).                                        *)
THEOREM KeysCounted == CollectorSpec => []KeysAreCountedOnce
<1>1. CollectorInv => KeysAreCountedOnce
  <2> SUFFICES ASSUME CollectorTypes, KeysInOrder(told, burst) PROVE KeysAreCountedOnce
    BY DEF CollectorInv
  <2> DEFINE n == Len(told)
             before == [i \in Places |-> told[i].keys]
  <2>1. told \in Seq(InputEvents) /\ n \in Nat /\ burst \in Seq(Nat)
    <3>1. burst \in Seq(Nat)
      BY SeqMonotonic DEF CollectorTypes, Places
    <3> QED BY <3>1, LenProperties DEF CollectorTypes
  <2>2. before \in Seq(Seq(Nat)) /\ Len(before) = n
    <3>1. ASSUME NEW i \in 1..n PROVE told[i].keys \in Seq(Nat)
      <4>1. told[i] \in InputEvents
        BY <2>1, ElementOfSeq
      <4> QED BY <4>1 DEF InputEvents
    <3> QED BY <2>1, <3>1, IsASeq DEF Places
  <2>3. before = [i \in 1..n |-> told[i].keys]
    BY DEF Places
  <2> HIDE DEF before, n
  <2>4. Edits = Append(before, burst)
    BY DEF Edits, before
  <2>5. /\ Edits \in Seq(Seq(Nat)) /\ Len(Edits) = n + 1 /\ Edits[n + 1] = burst
        /\ \A i \in 1..n : Edits[i] = before[i]
    BY <2>1, <2>2, <2>4, AppendProperties
  <2>6. DOMAIN Edits = 1..(n + 1)
    BY <2>5, LenProperties
  <2>7. \A i \in DOMAIN Edits : Edits[i] = KeysOf(i, told, burst)
    <3>1. ASSUME NEW i \in 1..n PROVE Edits[i] = KeysOf(i, told, burst)
      BY <2>3, <2>5 DEF KeysOf, n
    <3>2. KeysOf(n + 1, told, burst) = burst
      BY <2>1 DEF KeysOf, n
    <3> QED BY <2>1, <2>5, <2>6, <3>1, <3>2
  <2>8. KeyDowns(told) = { i \in Places : told[i].kind = "key_down" }
    BY DEF KeyDowns, Places
  <2>9. UNION { ToSet(Edits[i]) : i \in DOMAIN Edits } = KeyDowns(told)
    BY <2>6, <2>7 DEF KeysInOrder, n
  <2> QED BY <2>6, <2>7, <2>8, <2>9 DEF KeysInOrder, KeysAreCountedOnce, n
<1> QED BY <1>1, CollectorAlways, PTL

(* Every event comes after the start of its session; and after its end     *)
(* only if the session stopped while a call was under way                  *)
(* (collector.py:100-129).                                                 *)
THEOREM SessionsFramed == CollectorSpec => []SessionsAreFramed
<1>1. CollectorInv => SessionsAreFramed
  BY DEF CollectorInv, ISessions, Framed, SessionsAreFramed, StartedBefore, EndedBefore, Places
<1> QED BY <1>1, CollectorAlways, PTL

(* What is handed out, buffered and dropped is every event once and in     *)
(* order; what a save writes has no gaps (collector.py:346-385, 403-410). *)
THEOREM EventsOnce == CollectorSpec => []EventsLeaveOnce
<1>1. CollectorInv => EventsLeaveOnce
  <2> SUFFICES ASSUME CollectorTypes, IOut, IFiles PROVE EventsLeaveOnce
    BY DEF CollectorInv
  <2>1. Len(told) \in Nat /\ Len(buffer) \in Nat /\ Len(buffer) <= Len(told)
        /\ taken \in Seq(Nat) /\ buffer \in Seq(Nat)
    BY LenProperties DEF CollectorTypes, IOut, EndsAt
  <2>2. /\ ToSet(buffer) = (Len(told) - Len(buffer) + 1)..Len(told)
        /\ IsRun(buffer) /\ Increasing(buffer)
    BY <2>1, EndsAtFacts DEF IOut
  <2>3. \A k \in ToSet(taken), l \in ToSet(buffer) : k < l
    BY <2>1, <2>2 DEF IOut
  <2>4. Increasing(taken \o buffer) /\ ToSet(taken \o buffer) = ToSet(taken) \cup ToSet(buffer)
    BY <2>1, <2>2, <2>3, ConcatFacts DEF IOut
  <2>5. ToSet(taken) \cup ToSet(buffer) = Places \ dropped
    BY <2>1, <2>2 DEF IOut, Places
  <2> QED BY <2>2, <2>4, <2>5 DEF EventsLeaveOnce, IOut, IFiles
<1> QED BY <1>1, CollectorAlways, PTL
=================================================================================
