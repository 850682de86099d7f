--------------------------- MODULE HitlGate_proofs ---------------------------
(***************************************************************************)
(* Proofs about HitlGate, for any sessions, operators, deployments and     *)
(* bounds: the types, and that what became of a call was decided for that  *)
(* call.                                                                   *)
(***************************************************************************)
EXTENDS HitlGate, SequenceTheorems, TLAPS

RowType == [session : Sessions, tool : Tools, status : Statuses]
EntryType == [tool : Tools, status : Statuses, executed : BOOLEAN, callId : Ids \cup {NoCall}]
ActionType == [tool : Tools, decision : Decision \cup {"none"}]

(* What an operator's request has to record. *)
Records(q) ==
    q # Idle =>
        \E s \in Sessions, t \in Tools, d \in Decision : \E i :
            q = [session |-> s, tool |-> t, decision |-> d, action |-> i]

(* What a session that waits, or was told to go on, is doing. *)
Asked(s) ==
    phase[s] \in {"waiting", "approved"} =>
        mode.blocking /\ Len(entries[s]) < MaxSteps /\ tool[s] \in Tools

IType ==
    /\ TypeOK
    /\ DOMAIN op = Operators
    /\ \A o \in Operators : Records(op[o])
    /\ \A s \in Sessions : Asked(s)

-----------------------------------------------------------------------------
LEMMA AppendEntry ==
  ASSUME IType, NEW s \in Sessions, NEW e \in EntryType, Append1(s, e)
  PROVE  /\ entries' \in [Sessions -> Seq(EntryType)]
         /\ entries'[s] = Append(entries[s], e)
         /\ Len(entries'[s]) = Len(entries[s]) + 1
         /\ \A r \in Sessions \ {s} : entries'[r] = entries[r]
<1>1. entries \in [Sessions -> Seq(EntryType)]
  BY DEF IType, TypeOK, EntryType
<1>2. entries[s] \in Seq(EntryType)
  BY <1>1
<1>3. Append(entries[s], e) \in Seq(EntryType) /\ Len(Append(entries[s], e)) = Len(entries[s]) + 1
  BY <1>2
<1> QED BY <1>1, <1>3 DEF Append1

LEMMA StepIsIn ==
  ASSUME IType, NEW s \in Sessions, Len(entries[s]) < MaxSteps
  PROVE  /\ Step(s) \in 1..MaxSteps
         /\ PendingId(s, Step(s)) \in Ids
<1>1. Len(entries[s]) \in Nat
  BY DEF IType, TypeOK
<1>2. Step(s) \in 1..MaxSteps
  BY <1>1, GateAssumption DEF Step
<1> QED BY <1>2 DEF Ids

LEMMA EntryTyped ==
  ASSUME NEW t \in Tools, NEW st \in Statuses, NEW x \in BOOLEAN, NEW id \in Ids \cup {NoCall}
  PROVE  Entry(t, st, x, id) \in EntryType
  BY DEF Entry, EntryType

LEMMA StoredType ==
  ASSUME IType, NEW id \in Ids, NEW d \in Decision
  PROVE  Stored(id, d) \in [Ids -> {NoRow} \cup RowType]
<1>1. rows \in [Ids -> {NoRow} \cup RowType]
  BY DEF IType, TypeOK, RowType
<1>2. StatusOf(d) \in Statuses
  BY DEF StatusOf, Decision, Statuses
<1>3. ASSUME NEW q \in RowType PROVE [q EXCEPT !.status = StatusOf(d)] \in RowType
  BY <1>2 DEF RowType
<1>4. CASE rows[id] = NoRow \/ mode.postgres
  BY <1>1, <1>4 DEF Stored
<1>5. CASE ~(rows[id] = NoRow \/ mode.postgres)
  <2>1. rows[id] \in RowType
    BY <1>1, <1>5
  <2>2. Stored(id, d) = [rows EXCEPT ![id] = [rows[id] EXCEPT !.status = StatusOf(d)]]
    BY <1>5 DEF Stored
  <2> QED BY <1>1, <1>3, <2>1, <2>2
<1> QED BY <1>4, <1>5

LEMMA RefuseType ==
  ASSUME IType, NEW s \in Sessions, phase[s] = "waiting", NEW st \in Statuses, Refuse(s, st)
  PROVE  /\ entries' \in [Sessions -> Seq(EntryType)]
         /\ entries'[s] = Append(entries[s], Entry(tool[s], st, FALSE, PendingId(s, Step(s))))
         /\ Len(entries'[s]) = Len(entries[s]) + 1
         /\ \A r \in Sessions \ {s} : entries'[r] = entries[r]
         /\ phase' = [phase EXCEPT ![s] = "running"]
         /\ tool' = [tool EXCEPT ![s] = NoCall]
<1>1. tool[s] \in Tools /\ PendingId(s, Step(s)) \in Ids
  BY StepIsIn DEF IType, Asked
<1>2. Entry(tool[s], st, FALSE, PendingId(s, Step(s))) \in EntryType
  BY <1>1, EntryTyped
<1> QED BY <1>2, AppendEntry DEF Refuse

LEMMA LoggedType ==
  ASSUME IType, NEW s \in Sessions
  PROVE  Logged(s) \in Seq(ActionType)
<1>1. actions[s] \in Seq(ActionType) /\ entries[s] \in Seq(EntryType)
  BY DEF IType, TypeOK, ActionType, EntryType
<1> DEFINE new == [i \in DOMAIN entries[s] |-> [tool |-> entries[s][i].tool, decision |-> "none"]]
<1>2. new \in [1..Len(entries[s]) -> ActionType]
  <2>1. DOMAIN entries[s] = 1..Len(entries[s])
    BY <1>1, LenProperties
  <2>2. ASSUME NEW i \in DOMAIN entries[s]
        PROVE  [tool |-> entries[s][i].tool, decision |-> "none"] \in ActionType
    <3>1. entries[s][i] \in EntryType
      BY <1>1
    <3> QED BY <3>1 DEF EntryType, ActionType
  <2> QED BY <2>1, <2>2
<1>3. new \in Seq(ActionType)
  <2> HIDE DEF new
  <2>1. Len(entries[s]) \in Nat
    BY <1>1, LenProperties
  <2> QED BY <2>1, <1>2, SeqDef
<1>4. Logged(s) = actions[s] \o new
  BY DEF Logged
<1> HIDE DEF new
<1> QED BY <1>1, <1>3, <1>4, ConcatProperties

LEMMA RecordsDecision ==
  ASSUME NEW q, Records(q), q # Idle
  PROVE  q.decision \in Decision
<1>1. PICK s \in Sessions, t \in Tools, d \in Decision :
          \E i : q = [session |-> s, tool |-> t, decision |-> d, action |-> i]
  BY DEF Records
<1> QED BY <1>1

LEMMA OpsKept ==
  ASSUME IType, op' = op
  PROVE  DOMAIN op' = Operators /\ \A o \in Operators : Records(op'[o])
  BY DEF IType

(* Sessions other than s keep what they asked for. *)
LEMMA OthersAsked ==
  ASSUME IType, NEW s \in Sessions, UNCHANGED mode,
         \A r \in Sessions \ {s} : phase'[r] = phase[r] /\ tool'[r] = tool[r] /\ entries'[r] = entries[r],
         Asked(s)'
  PROVE  \A r \in Sessions : Asked(r)'
  BY DEF IType, Asked

LEMMA InitType == Init => IType
  BY GateAssumption DEF Init, IType, TypeOK, Records, Asked, Phases

LEMMA SessionType ==
  ASSUME IType, NEW s \in Sessions, SessionStep(s)
  PROVE  IType'
<1> USE DEF Phases
<1>0. /\ phase \in [Sessions -> Phases] /\ tool \in [Sessions -> Tools \cup {NoCall}]
      /\ rows \in [Ids -> {NoRow} \cup RowType] /\ entries \in [Sessions -> Seq(EntryType)]
      /\ actions \in [Sessions -> Seq(ActionType)]
  BY DEF IType, TypeOK, RowType, EntryType, ActionType
<1>1. ASSUME NEW t \in Tools, Deny(s, t) \/ Allow(s, t) PROVE IType'
  <2>1. PICK e \in EntryType : Append1(s, e)
    BY <1>1, EntryTyped DEF Deny, Allow, Statuses
  <2>2. UNCHANGED <<mode, phase, tool, rows, actions, op, decisions, resets>> /\ phase[s] = "running"
    BY <1>1 DEF Deny, Allow
  <2>3. entries' \in [Sessions -> Seq(EntryType)] /\ \A r \in Sessions \ {s} : entries'[r] = entries[r]
    BY <2>1, AppendEntry
  <2>4. \A r \in Sessions : Asked(r)'
    BY <2>2, <2>3, OthersAsked DEF Asked
  <2> QED BY <2>2, <2>3, <2>4, OpsKept DEF IType, TypeOK, EntryType
<1>2. ASSUME NEW t \in Tools, Ask(s, t) PROVE IType'
  <2> DEFINE id == PendingId(s, Step(s))
  <2>1. id \in Ids /\ Len(entries[s]) < MaxSteps /\ phase[s] = "running"
    BY <1>2, StepIsIn DEF Ask
  <2>2. rows' \in [Ids -> {NoRow} \cup RowType]
    <3>1. Row(s, t, "pending_approval") \in RowType
      BY DEF Row, RowType, Statuses
    <3> QED BY <1>2, <2>1, <3>1, <1>0 DEF Ask
  <2>3. UNCHANGED <<mode, actions, op, decisions, resets>>
    BY <1>2 DEF Ask
  <2>4. CASE mode.blocking /\ phase' = [phase EXCEPT ![s] = "waiting"]
             /\ tool' = [tool EXCEPT ![s] = t] /\ UNCHANGED entries
    <3>1. \A r \in Sessions : Asked(r)'
      BY <2>1, <2>3, <2>4, <1>0, OthersAsked DEF Asked
    <3>2. phase' \in [Sessions -> Phases] /\ tool' \in [Sessions -> Tools \cup {NoCall}]
      BY <2>4, <1>0
    <3> QED BY <2>2, <2>3, <2>4, <3>1, <3>2, OpsKept DEF IType, TypeOK, RowType
  <2>5. CASE Append1(s, Entry(t, "human_review", FALSE, id)) /\ UNCHANGED <<phase, tool>>
    <3>1. entries' \in [Sessions -> Seq(EntryType)] /\ \A r \in Sessions \ {s} : entries'[r] = entries[r]
      <4>1. Entry(t, "human_review", FALSE, id) \in EntryType
        BY <2>1, EntryTyped DEF Statuses
      <4> QED BY <2>5, <4>1, AppendEntry
    <3>2. \A r \in Sessions : Asked(r)'
      BY <2>1, <2>3, <2>5, <3>1, OthersAsked DEF Asked
    <3> QED BY <2>2, <2>3, <2>5, <3>1, <3>2, OpsKept DEF IType, TypeOK, RowType, EntryType
  <2> QED BY <1>2, <2>4, <2>5 DEF Ask
<1>3. CASE Poll(s)
  <2> DEFINE id == PendingId(s, Step(s))
  <2>1. id \in Ids /\ phase[s] = "waiting" /\ mode.blocking /\ Len(entries[s]) < MaxSteps /\ tool[s] \in Tools
    BY <1>3, StepIsIn DEF Poll, IType, Asked
  <2>2. UNCHANGED <<mode, actions, op, decisions, resets>>
    BY <1>3 DEF Poll
  <2>3. CASE Refuse(s, "blocked") /\ UNCHANGED rows
    <3>1. /\ entries' \in [Sessions -> Seq(EntryType)]
          /\ \A r \in Sessions \ {s} : entries'[r] = entries[r]
          /\ phase' = [phase EXCEPT ![s] = "running"]
          /\ tool' = [tool EXCEPT ![s] = NoCall]
      BY <2>1, <2>3, RefuseType DEF Statuses
    <3>2. \A r \in Sessions : Asked(r)'
      BY <2>2, <3>1, <1>0, OthersAsked DEF Asked
    <3>3. phase' \in [Sessions -> Phases] /\ tool' \in [Sessions -> Tools \cup {NoCall}]
      BY <3>1, <1>0
    <3> QED BY <2>2, <2>3, <3>1, <3>2, <3>3, OpsKept DEF IType, TypeOK, EntryType
  <2>4. CASE rows' \in {rows, Stored(id, "approved")} /\ phase' = [phase EXCEPT ![s] = "approved"]
             /\ UNCHANGED <<tool, entries>>
    <3>1. rows' \in [Ids -> {NoRow} \cup RowType]
      BY <2>1, <2>4, <1>0, StoredType DEF Decision
    <3>2. \A r \in Sessions : Asked(r)'
      BY <2>1, <2>2, <2>4, <1>0, OthersAsked DEF Asked
    <3>3. phase' \in [Sessions -> Phases]
      BY <2>4, <1>0
    <3> QED BY <2>2, <2>4, <3>1, <3>2, <3>3, OpsKept DEF IType, TypeOK, RowType
  <2> QED BY <1>3, <2>3, <2>4 DEF Poll
<1>4. CASE TimeOut(s)
  <2> DEFINE id == PendingId(s, Step(s))
  <2>1. id \in Ids /\ phase[s] = "waiting"
    BY <1>4, StepIsIn DEF TimeOut, IType, Asked
  <2>2. UNCHANGED <<mode, actions, op, decisions, resets>>
    BY <1>4 DEF TimeOut
  <2>3. rows' \in [Ids -> {NoRow} \cup RowType]
    BY <1>4, <2>1, StoredType DEF TimeOut, Decision
  <2>4. /\ entries' \in [Sessions -> Seq(EntryType)]
        /\ \A r \in Sessions \ {s} : entries'[r] = entries[r]
        /\ phase' = [phase EXCEPT ![s] = "running"]
        /\ tool' = [tool EXCEPT ![s] = NoCall]
    BY <1>4, <2>1, RefuseType DEF TimeOut, Statuses
  <2>5. \A r \in Sessions : Asked(r)'
    BY <2>2, <2>4, <1>0, OthersAsked DEF Asked
  <2>6. phase' \in [Sessions -> Phases] /\ tool' \in [Sessions -> Tools \cup {NoCall}]
    BY <2>4, <1>0
  <2> QED BY <2>2, <2>3, <2>4, <2>5, <2>6, OpsKept DEF IType, TypeOK, RowType, EntryType
<1>5. CASE RunApproved(s)
  <2>1. PendingId(s, Step(s)) \in Ids /\ tool[s] \in Tools
    BY <1>5, StepIsIn DEF RunApproved, IType, Asked
  <2>2. Entry(tool[s], "human_review", TRUE, PendingId(s, Step(s))) \in EntryType
    BY <2>1, EntryTyped DEF Statuses
  <2>3. entries' \in [Sessions -> Seq(EntryType)] /\ \A r \in Sessions \ {s} : entries'[r] = entries[r]
    BY <1>5, <2>2, AppendEntry DEF RunApproved
  <2>4. \A r \in Sessions : Asked(r)'
    BY <1>5, <2>3, <1>0, OthersAsked DEF Asked, RunApproved
  <2>5. phase' \in [Sessions -> Phases] /\ tool' \in [Sessions -> Tools \cup {NoCall}]
    BY <1>5, <1>0 DEF RunApproved
  <2> QED BY <1>5, <2>3, <2>4, <2>5, OpsKept DEF RunApproved, IType, TypeOK, EntryType
<1>6. CASE LogActions(s)
  <2>1. phase' \in [Sessions -> Phases] /\ phase'[s] \in {"logged", "done"}
        /\ \A r \in Sessions \ {s} : phase'[r] = phase[r]
    BY <1>6, <1>0 DEF LogActions
  <2>2. actions' \in [Sessions -> Seq(ActionType)]
    BY <1>6, <1>0, LoggedType DEF LogActions
  <2>3. \A r \in Sessions : Asked(r)'
    BY <1>6, <2>1, OthersAsked DEF Asked, LogActions
  <2> QED BY <1>6, <2>1, <2>2, <2>3, OpsKept DEF LogActions, IType, TypeOK, ActionType
<1>7. CASE Enqueue(s)
  <2>1. phase' \in [Sessions -> Phases] /\ phase'[s] = "listed"
        /\ \A r \in Sessions \ {s} : phase'[r] = phase[r]
    BY <1>7, <1>0 DEF Enqueue
  <2>2. rows' \in [Ids -> {NoRow} \cup RowType]
    <3>1. ASSUME NEW i \in DOMAIN entries[s]
          PROVE  Row(s, entries[s][i].tool, entries[s][i].status) \in RowType
      <4>1. entries[s] \in Seq(EntryType)
        BY <1>0
      <4>2. entries[s][i] \in EntryType
        BY <4>1
      <4> QED BY <4>2 DEF Row, RowType, EntryType
    <3>2. ASSUME NEW id \in {ListedId(s, i) : i \in DOMAIN entries[s]}
          PROVE  Row(s, entries[s][id[3]].tool, entries[s][id[3]].status) \in RowType
      <4>1. id[3] \in DOMAIN entries[s]
        BY <3>2 DEF ListedId
      <4> QED BY <3>1, <4>1
    <3> QED BY <1>7, <1>0, <3>2 DEF Enqueue
  <2>3. \A r \in Sessions : Asked(r)'
    BY <1>7, <2>1, OthersAsked DEF Asked, Enqueue
  <2> QED BY <1>7, <2>1, <2>2, <2>3, OpsKept DEF Enqueue, IType, TypeOK, RowType
<1> QED BY <1>1, <1>2, <1>3, <1>4, <1>5, <1>6, <1>7 DEF SessionStep

LEMMA OperatorType ==
  ASSUME IType, NEW o \in Operators,
         (\E id \in Ids, d \in Decision : Decide(o, id, d)) \/ PickAction(o) \/ RecordDecision(o)
  PROVE  IType'
<1>0. /\ rows \in [Ids -> {NoRow} \cup RowType] /\ actions \in [Sessions -> Seq(ActionType)]
      /\ DOMAIN op = Operators /\ Records(op[o])
  BY DEF IType, TypeOK, RowType, ActionType
<1>1. ASSUME NEW id \in Ids, NEW d \in Decision, Decide(o, id, d) PROVE IType'
  <2>1. rows' \in [Ids -> {NoRow} \cup RowType]
    BY <1>1, StoredType DEF Decide
  <2>2. decisions' \in Seq(Ids \X Decision)
    BY <1>1 DEF Decide, IType, TypeOK
  <2>3. Records(op'[o]) /\ DOMAIN op' = Operators /\ \A w \in Operators \ {o} : op'[w] = op[w]
    <3>1. rows[id] # NoRow => rows[id].session \in Sessions /\ rows[id].tool \in Tools
      BY <1>0 DEF RowType
    <3>2. rows[id] # NoRow => Records([session |-> rows[id].session, tool |-> rows[id].tool,
                                      decision |-> d, action |-> 0])
      BY <3>1 DEF Records
    <3>3. Records(Idle)
      BY DEF Records
    <3> QED BY <1>0, <1>1, <3>2, <3>3 DEF Decide
  <2>4. \A w \in Operators : Records(op'[w])
    BY <2>3 DEF IType
  <2>5. \A s \in Sessions : Asked(s)'
    BY <1>1 DEF Decide, IType, Asked
  <2>6. \A w \in Operators : op'[w] # Idle => op'[w].decision \in Decision
    BY <2>4, RecordsDecision
  <2> QED BY <1>1, <2>1, <2>2, <2>3, <2>4, <2>5, <2>6 DEF Decide, IType, TypeOK, RowType
<1>2. CASE PickAction(o)
  <2>1. PICK s \in Sessions, t \in Tools, d \in Decision :
            \E i : op[o] = [session |-> s, tool |-> t, decision |-> d, action |-> i]
    BY <1>0, <1>2 DEF PickAction, Records
  <2>2. PICK i : op[o] = [session |-> s, tool |-> t, decision |-> d, action |-> i]
    BY <2>1
  <2>3. op'[o] = Idle \/ \E j : op'[o] = [session |-> s, tool |-> t, decision |-> d, action |-> j]
    <3>1. \A j : [op[o] EXCEPT !.action = j] = [session |-> s, tool |-> t, decision |-> d, action |-> j]
      BY <2>2
    <3> QED BY <1>0, <1>2, <3>1 DEF PickAction
  <2>4. DOMAIN op' = Operators /\ \A w \in Operators : Records(op'[w])
    <3>1. Records(op'[o])
      BY <2>3 DEF Records
    <3> QED BY <1>0, <1>2, <3>1 DEF PickAction, IType
  <2>5. \A r \in Sessions : Asked(r)'
    BY <1>2 DEF PickAction, IType, Asked
  <2>6. \A w \in Operators : op'[w] # Idle => op'[w].decision \in Decision
    BY <2>4, RecordsDecision
  <2> QED BY <1>2, <2>4, <2>5, <2>6 DEF PickAction, IType, TypeOK
<1>3. CASE RecordDecision(o)
  <2>1. PICK s \in Sessions, t \in Tools, d \in Decision :
            \E i : op[o] = [session |-> s, tool |-> t, decision |-> d, action |-> i]
    BY <1>0, <1>3 DEF RecordDecision, Records
  <2>2. PICK i : op[o] = [session |-> s, tool |-> t, decision |-> d, action |-> i]
    BY <2>1
  <2> DEFINE seq == [actions[s] EXCEPT ![i] = [actions[s][i] EXCEPT !.decision = d]]
  <2>3. actions' = [actions EXCEPT ![s] = seq]
    BY <1>3, <1>0, <2>2 DEF RecordDecision
  <2>4. seq \in Seq(ActionType)
    <3>1. actions[s] \in Seq(ActionType)
      BY <1>0
    <3>2. CASE i \in DOMAIN actions[s]
      <4>1. actions[s][i] \in ActionType
        BY <3>1, <3>2
      <4>2. [actions[s][i] EXCEPT !.decision = d] \in ActionType
        BY <4>1 DEF ActionType
      <4> QED BY <3>1, <3>2, <4>2, ExceptSeq, LenProperties
    <3>3. CASE i \notin DOMAIN actions[s]
      <4>1. seq = actions[s]
        BY <3>1, <3>3, LenProperties
      <4> QED BY <3>1, <4>1
    <3> QED BY <3>2, <3>3
  <2> HIDE DEF seq
  <2>5. actions' \in [Sessions -> Seq(ActionType)]
    BY <1>0, <2>3, <2>4
  <2>6. op'[o] = Idle /\ DOMAIN op' = Operators /\ \A w \in Operators \ {o} : op'[w] = op[w]
    BY <1>0, <1>3 DEF RecordDecision
  <2>7. \A w \in Operators : Records(op'[w])
    BY <2>6 DEF IType, Records
  <2>8. \A r \in Sessions : Asked(r)'
    BY <1>3 DEF RecordDecision, IType, Asked
  <2>9. \A w \in Operators : op'[w] # Idle => op'[w].decision \in Decision
    BY <2>7, RecordsDecision
  <2> QED BY <1>3, <2>5, <2>6, <2>7, <2>8, <2>9 DEF RecordDecision, IType, TypeOK, ActionType
<1> QED BY <1>1, <1>2, <1>3

LEMMA NextType == IType /\ [Next]_vars => IType'
<1> SUFFICES ASSUME IType, [Next]_vars PROVE IType'
  OBVIOUS
<1>1. CASE Reset
  <2>1. \A s \in Sessions : Asked(s)'
    BY <1>1 DEF Reset, IType, Asked
  <2>2. DOMAIN op' = Operators /\ \A o \in Operators : Records(op'[o])
    BY <1>1, OpsKept DEF Reset
  <2>3. resets' \in 0..MaxResets
    BY <1>1, GateAssumption DEF Reset, IType, TypeOK
  <2> QED BY <1>1, <2>1, <2>2, <2>3 DEF Reset, IType, TypeOK
<1>2. CASE UNCHANGED vars
  <2>1. /\ mode' = mode /\ phase' = phase /\ tool' = tool /\ entries' = entries /\ rows' = rows
        /\ actions' = actions /\ op' = op /\ decisions' = decisions /\ resets' = resets
    BY <1>2 DEF vars
  <2>2. TypeOK'
    BY <2>1 DEF IType, TypeOK
  <2>3. \A s \in Sessions : Asked(s)'
    BY <2>1 DEF IType, Asked
  <2> QED BY <2>1, <2>2, <2>3, OpsKept DEF IType
<1> QED BY <1>1, <1>2, SessionType, OperatorType DEF Next

(* Types of every variable, whatever sessions, operators and resets there   *)
(* are.                                                                     *)
THEOREM TypeCorrect == Spec => []TypeOK
<1>1. Spec => []IType
  BY InitType, NextType, PTL DEF Spec
<1>2. IType => TypeOK
  BY DEF IType
<1> QED BY <1>1, <1>2, PTL

-----------------------------------------------------------------------------
(* Outcomes.  A row of a call that waits says what some operator, or the    *)
(* automatic approval, said of that call; only a call that timed out has a  *)
(* row that says blocked and nobody blocked, and it waits no more.  A row   *)
(* on which a session waits goes away only in a reset, because Enqueue      *)
(* deletes the rows of its own session and a session that waits is not      *)
(* being listed.                                                            *)
Backed(id) == mode.autoApprove \/ ApprovedBySomeone(id)
BlockedBySomeone(id) == \E i \in Decided(id) : decisions[i][2] = "blocked"

RowIsTrue(s, n) ==
    rows[PendingId(s, n)] # NoRow =>
        /\ rows[PendingId(s, n)].session = s
        /\ rows[PendingId(s, n)].status \in {"allowed", "approved", "overridden"} => Backed(PendingId(s, n))
        /\ n >= Step(s) /\ rows[PendingId(s, n)].status = "blocked" => BlockedBySomeone(PendingId(s, n))

GoesOnRightly(s) ==
    /\ phase[s] = "approved" => Backed(PendingId(s, Step(s)))
    /\ phase[s] = "waiting" => resets > 0 \/ rows[PendingId(s, Step(s))] # NoRow

EntryIsTrue(e) ==
    /\ e.executed /\ e.callId # NoCall => mode.blocking /\ Backed(e.callId)
    /\ e.status = "blocked" /\ e.callId # NoCall => resets > 0 \/ BlockedBySomeone(e.callId)

RowsAreTrue == \A s \in Sessions, n \in 1..MaxSteps : RowIsTrue(s, n)
AllGoOnRightly == \A s \in Sessions : GoesOnRightly(s)
EntriesAreTrue == \A s \in Sessions : \A n \in DOMAIN entries[s] : EntryIsTrue(entries[s][n])

IReason == IType /\ RowsAreTrue /\ AllGoOnRightly /\ EntriesAreTrue

LEMMA ReasonEnough == IReason => OutcomesWereDecided
  BY DEF IReason, EntriesAreTrue, EntryIsTrue, OutcomesWereDecided, OnlyApprovedCallsRun,
         BlockedHasAReason, Backed, BlockedBySomeone

(* Decisions are only added. *)
LEMMA DecisionsStay ==
  ASSUME IType, mode' = mode,
         decisions' = decisions \/ \E x \in Ids \X Decision : decisions' = Append(decisions, x)
  PROVE  \A id : /\ Backed(id) => Backed(id)'
                 /\ BlockedBySomeone(id) => BlockedBySomeone(id)'
<1>1. DOMAIN decisions \subseteq DOMAIN decisions' /\ \A i \in DOMAIN decisions : decisions'[i] = decisions[i]
  <2>1. decisions \in Seq(Ids \X Decision)
    BY DEF IType, TypeOK
  <2>2. ASSUME NEW x \in Ids \X Decision, decisions' = Append(decisions, x)
        PROVE  DOMAIN decisions \subseteq DOMAIN decisions' /\ \A i \in DOMAIN decisions : decisions'[i] = decisions[i]
    BY <2>1, <2>2, AppendProperties
  <2> QED BY <2>2
<1>2. \A id : \A i \in Decided(id) : i \in Decided(id)' /\ decisions'[i] = decisions[i]
  BY <1>1 DEF Decided
<1>3. \A id : ApprovedBySomeone(id) => ApprovedBySomeone(id)'
  BY <1>2 DEF ApprovedBySomeone
<1>4. \A id : BlockedBySomeone(id) => BlockedBySomeone(id)'
  BY <1>2 DEF BlockedBySomeone
<1> QED BY <1>3, <1>4 DEF Backed

LEMMA EntriesStay ==
  ASSUME IReason, mode' = mode, entries' = entries, resets' \in Nat, resets' >= resets,
         decisions' = decisions \/ \E x \in Ids \X Decision : decisions' = Append(decisions, x)
  PROVE  EntriesAreTrue'
<1>1. \A id : (Backed(id) => Backed(id)') /\ (BlockedBySomeone(id) => BlockedBySomeone(id)')
  BY DecisionsStay DEF IReason
<1>2. resets > 0 => resets' > 0
  BY DEF IReason, IType, TypeOK
<1>3. \A e : EntryIsTrue(e) => EntryIsTrue(e)'
  BY <1>1, <1>2 DEF EntryIsTrue
<1> QED BY <1>3 DEF IReason, EntriesAreTrue

LEMMA EntryAdded ==
  ASSUME IReason, NEW s \in Sessions, NEW e \in EntryType, EntryIsTrue(e), Append1(s, e),
         mode' = mode, decisions' = decisions, resets' = resets
  PROVE  EntriesAreTrue'
<1>1. /\ entries'[s] = Append(entries[s], e)
      /\ \A r \in Sessions \ {s} : entries'[r] = entries[r]
  BY AppendEntry DEF IReason
<1>2. \A q : EntryIsTrue(q) <=> EntryIsTrue(q)'
  BY DEF EntryIsTrue, Backed, ApprovedBySomeone, BlockedBySomeone, Decided
<1>3. ASSUME NEW n \in DOMAIN entries'[s] PROVE EntryIsTrue(entries'[s][n])
  <2>1. entries[s] \in Seq(EntryType)
    BY DEF IReason, IType, TypeOK, EntryType
  <2>2. entries'[s][n] = e \/ (n \in DOMAIN entries[s] /\ entries'[s][n] = entries[s][n])
    BY <1>1, <2>1, AppendProperties
  <2> QED BY <2>2 DEF IReason, EntriesAreTrue
<1> QED BY <1>1, <1>2, <1>3 DEF IReason, EntriesAreTrue

(* A step that changes no row of a call that waits, but to delete some. *)
LEMMA RowsStay ==
  ASSUME IReason, mode' = mode, decisions' = decisions,
         \A s \in Sessions : Step(s) \in Nat /\ Step(s)' \in Nat /\ Step(s)' >= Step(s),
         \A s \in Sessions, n \in 1..MaxSteps :
            rows'[PendingId(s, n)] \in {NoRow, rows[PendingId(s, n)]}
  PROVE  RowsAreTrue'
<1>1. \A id : (Backed(id) <=> Backed(id)') /\ (BlockedBySomeone(id) <=> BlockedBySomeone(id)')
  BY DEF Backed, ApprovedBySomeone, BlockedBySomeone, Decided
<1>2. ASSUME NEW s \in Sessions, NEW n \in 1..MaxSteps PROVE RowIsTrue(s, n)'
  <2>1. RowIsTrue(s, n)
    BY DEF IReason, RowsAreTrue
  <2>2. PendingId(s, n)' = PendingId(s, n)
    BY DEF PendingId
  <2>3. n \in Nat
    BY GateAssumption
  <2>4. n >= Step(s)' => n >= Step(s)
    BY <2>3
  <2>5. rows'[PendingId(s, n)] = NoRow \/ rows'[PendingId(s, n)] = rows[PendingId(s, n)]
    OBVIOUS
  <2> QED BY <1>1, <2>1, <2>2, <2>4, <2>5 DEF RowIsTrue
<1> QED BY <1>2 DEF RowsAreTrue

LEMMA InitReason == Init => IReason
<1> SUFFICES ASSUME Init PROVE IReason
  OBVIOUS
<1>1. IType
  BY InitType
<1>2. RowsAreTrue
  BY DEF Init, RowsAreTrue, RowIsTrue, Ids
<1>3. AllGoOnRightly /\ EntriesAreTrue
  BY DEF Init, AllGoOnRightly, GoesOnRightly, EntriesAreTrue
<1> QED BY <1>1, <1>2, <1>3 DEF IReason

(* The n-th row of another call is another row. *)
LEMMA PendingApart ==
  ASSUME NEW s, NEW n, NEW r, NEW m, PendingId(s, n) = PendingId(r, m)
  PROVE  s = r /\ n = m
  BY DEF PendingId

LEMMA StepsGrow ==
  ASSUME IType, NEW s \in Sessions, Len(entries'[s]) \in {Len(entries[s]), Len(entries[s]) + 1},
         \A r \in Sessions \ {s} : entries'[r] = entries[r]
  PROVE  \A r \in Sessions : Step(r) \in Nat /\ Step(r)' \in Nat /\ Step(r)' >= Step(r)
<1>1. \A r \in Sessions : Len(entries[r]) \in Nat
  BY DEF IType, TypeOK
<1>2. ASSUME NEW r \in Sessions PROVE Step(r) \in Nat /\ Step(r)' \in Nat /\ Step(r)' >= Step(r)
  <2>1. Step(r)' = Len(entries'[r]) + 1
    BY DEF Step
  <2>2. Len(entries'[r]) = Len(entries[r]) \/ Len(entries'[r]) = Len(entries[r]) + 1
    OBVIOUS
  <2> QED BY <1>1, <2>1, <2>2 DEF Step
<1> QED BY <1>2

(* Sessions that do not move, and whose rows are left alone, go on rightly. *)
LEMMA OthersGoOn ==
  ASSUME IReason, NEW s \in Sessions, mode' = mode, decisions' = decisions, resets' = resets,
         \A r \in Sessions \ {s} :
            /\ phase'[r] = phase[r] /\ entries'[r] = entries[r]
            /\ phase[r] = "waiting" => rows'[PendingId(r, Step(r))] = rows[PendingId(r, Step(r))],
         GoesOnRightly(s)'
  PROVE  AllGoOnRightly'
<1>1. \A id : Backed(id) <=> Backed(id)'
  BY DEF Backed, ApprovedBySomeone, Decided
<1>2. ASSUME NEW r \in Sessions \ {s} PROVE GoesOnRightly(r)'
  <2>1. GoesOnRightly(r)
    BY DEF IReason, AllGoOnRightly
  <2>2. PendingId(r, Step(r))' = PendingId(r, Step(r))
    BY DEF PendingId, Step
  <2> QED BY <1>1, <2>1, <2>2 DEF GoesOnRightly
<1> QED BY <1>2 DEF AllGoOnRightly

(* The row of the call that s waits on gets a status, or is written anew.   *)
LEMMA RowWritten ==
  ASSUME IReason, NEW s \in Sessions, mode' = mode, decisions' = decisions,
         NEW n \in 1..MaxSteps, NEW q,
         rows' = [rows EXCEPT ![PendingId(s, n)] = q],
         q.session = s,
         q.status \in {"allowed", "approved", "overridden"} => Backed(PendingId(s, n)),
         n >= Step(s)' => q.status # "blocked",
         \A r \in Sessions : Step(r) \in Nat /\ Step(r)' \in Nat /\ Step(r)' >= Step(r)
  PROVE  RowsAreTrue'
<1>1. \A id : (Backed(id) <=> Backed(id)') /\ (BlockedBySomeone(id) <=> BlockedBySomeone(id)')
  BY DEF Backed, ApprovedBySomeone, BlockedBySomeone, Decided
<1>2. PendingId(s, n) \in Ids /\ DOMAIN rows = Ids
  BY DEF IReason, IType, TypeOK, Ids
<1>3. ASSUME NEW r \in Sessions, NEW m \in 1..MaxSteps PROVE RowIsTrue(r, m)'
  <2>1. PendingId(r, m)' = PendingId(r, m) /\ PendingId(r, m) \in Ids
    BY DEF PendingId, Ids
  <2>2. CASE PendingId(r, m) = PendingId(s, n)
    <3>1. r = s /\ m = n
      BY <2>2, PendingApart
    <3>2. rows'[PendingId(s, n)] = q
      BY <1>2
    <3> QED BY <1>1, <2>1, <2>2, <3>1, <3>2 DEF RowIsTrue
  <2>3. CASE PendingId(r, m) # PendingId(s, n)
    <3>1. rows'[PendingId(r, m)] = rows[PendingId(r, m)]
      BY <1>2, <2>1, <2>3
    <3>2. RowIsTrue(r, m)
      BY DEF IReason, RowsAreTrue
    <3>3. m >= Step(r)' => m >= Step(r)
      BY GateAssumption
    <3> QED BY <1>1, <2>1, <3>1, <3>2, <3>3 DEF RowIsTrue
  <2> QED BY <2>2, <2>3
<1> QED BY <1>3 DEF RowsAreTrue

(* A status stored by the system leaves a row that says what it said. *)
LEMMA StoredRow ==
  ASSUME IReason, NEW id \in Ids, NEW d \in Decision
  PROVE  \/ Stored(id, d) = rows
         \/ /\ rows[id] \in RowType
            /\ Stored(id, d) = [rows EXCEPT ![id] = [rows[id] EXCEPT !.status = StatusOf(d)]]
            /\ [rows[id] EXCEPT !.status = StatusOf(d)].session = rows[id].session
            /\ [rows[id] EXCEPT !.status = StatusOf(d)].status = StatusOf(d)
            /\ [rows[id] EXCEPT !.status = StatusOf(d)] # NoRow
<1>1. CASE rows[id] = NoRow \/ mode.postgres
  BY <1>1 DEF Stored
<1>2. CASE ~(rows[id] = NoRow \/ mode.postgres)
  <2>1. rows[id] \in RowType
    BY <1>2 DEF IReason, IType, TypeOK, RowType
  <2>2. StatusOf(d) \in Statuses
    BY DEF StatusOf, Decision, Statuses
  <2>3. ASSUME NEW q \in RowType, NEW st \in Statuses
        PROVE  /\ [q EXCEPT !.status = st] \in RowType
               /\ [q EXCEPT !.status = st].session = q.session
               /\ [q EXCEPT !.status = st].status = st
    BY DEF RowType
  <2>4. Stored(id, d) = [rows EXCEPT ![id] = [rows[id] EXCEPT !.status = StatusOf(d)]]
    BY <1>2 DEF Stored
  <2>5. NoRow \notin RowType
    BY GateAssumption DEF RowType
  <2> QED BY <2>1, <2>2, <2>3, <2>4, <2>5
<1> QED BY <1>1, <1>2

LEMMA SessionReason ==
  ASSUME IReason, NEW s \in Sessions, SessionStep(s)
  PROVE  IReason'
<1>0. IType /\ IType'
  BY SessionType DEF IReason
<1>a. phase \in [Sessions -> Phases] /\ rows \in [Ids -> {NoRow} \cup RowType] /\ resets \in Nat
  BY <1>0, GateAssumption DEF IType, TypeOK, RowType
<1>b. RowsAreTrue /\ AllGoOnRightly /\ EntriesAreTrue /\ GoesOnRightly(s)
  BY DEF IReason, AllGoOnRightly
<1>1. ASSUME NEW t \in Tools, Deny(s, t) \/ Allow(s, t) PROVE IReason'
  <2>1. PICK e \in EntryType : Append1(s, e) /\ e.callId = NoCall
    <3>1. \A st \in {"blocked", "allowed"}, x \in BOOLEAN :
             Entry(t, st, x, NoCall) \in EntryType /\ Entry(t, st, x, NoCall).callId = NoCall
      BY EntryTyped DEF Statuses, Entry
    <3> QED BY <1>1, <3>1 DEF Deny, Allow
  <2>2. UNCHANGED <<mode, phase, tool, rows, actions, op, decisions, resets>> /\ phase[s] = "running"
    BY <1>1 DEF Deny, Allow
  <2>3. Len(entries'[s]) = Len(entries[s]) + 1 /\ \A r \in Sessions \ {s} : entries'[r] = entries[r]
    BY <1>0, <2>1, AppendEntry
  <2>4. EntriesAreTrue'
    BY <2>1, <2>2, EntryAdded DEF EntryIsTrue
  <2>5. RowsAreTrue'
    BY <1>0, <2>2, <2>3, StepsGrow, RowsStay
  <2>6. AllGoOnRightly'
    BY <2>2, <2>3, OthersGoOn DEF GoesOnRightly
  <2> QED BY <1>0, <2>4, <2>5, <2>6 DEF IReason
<1>2. ASSUME NEW t \in Tools, Ask(s, t) PROVE IReason'
  <2> DEFINE id == PendingId(s, Step(s))
  <2> DEFINE row == Row(s, t, "pending_approval")
  <2>1. /\ Len(entries[s]) < MaxSteps /\ phase[s] = "running"
        /\ UNCHANGED <<mode, actions, op, decisions, resets>>
        /\ rows' = [rows EXCEPT ![id] = row]
    BY <1>2 DEF Ask
  <2>2. Step(s) \in 1..MaxSteps /\ id \in Ids
    BY <1>0, <2>1, StepIsIn
  <2>3. row.session = s /\ row.status = "pending_approval" /\ row # NoRow
    <3>1. row \in RowType
      BY DEF Row, RowType, Statuses
    <3> QED BY <3>1, GateAssumption DEF Row, RowType
  <2>4. \A r \in Sessions \ {s} : \A m : PendingId(r, m) # id
    BY PendingApart
  <2>5. CASE phase' = [phase EXCEPT ![s] = "waiting"] /\ UNCHANGED entries
    <3>1. \A r \in Sessions : Step(r) \in Nat /\ Step(r)' \in Nat /\ Step(r)' >= Step(r)
      BY <1>0, <2>5, StepsGrow
    <3>2. RowsAreTrue'
      BY <2>1, <2>2, <2>3, <3>1, RowWritten
    <3>3. EntriesAreTrue'
      BY <1>a, <2>1, <2>5, EntriesStay
    <3>4. GoesOnRightly(s)'
      <4>1. PendingId(s, Step(s))' = id /\ rows'[id] = row
        BY <1>a, <2>1, <2>2, <2>5 DEF PendingId, Step
      <4> QED BY <1>a, <2>3, <2>5, <4>1 DEF GoesOnRightly
    <3>5. AllGoOnRightly'
      <4>1. \A r \in Sessions \ {s} :
               /\ phase'[r] = phase[r] /\ entries'[r] = entries[r]
               /\ rows'[PendingId(r, Step(r))] = rows[PendingId(r, Step(r))]
        BY <1>a, <2>1, <2>4, <2>5
      <4> QED BY <2>1, <3>4, <4>1, OthersGoOn
    <3> QED BY <1>0, <3>2, <3>3, <3>5 DEF IReason
  <2>6. CASE Append1(s, Entry(t, "human_review", FALSE, id)) /\ UNCHANGED phase
    <3> DEFINE e == Entry(t, "human_review", FALSE, id)
    <3>1. e \in EntryType /\ EntryIsTrue(e)
      BY <2>2, EntryTyped DEF Statuses, EntryIsTrue, Entry
    <3>2. /\ Len(entries'[s]) = Len(entries[s]) + 1
          /\ \A r \in Sessions \ {s} : entries'[r] = entries[r]
      BY <1>0, <2>6, <3>1, AppendEntry
    <3>3. \A r \in Sessions : Step(r) \in Nat /\ Step(r)' \in Nat /\ Step(r)' >= Step(r)
      BY <1>0, <3>2, StepsGrow
    <3>4. RowsAreTrue'
      BY <2>1, <2>2, <2>3, <3>3, RowWritten
    <3>5. EntriesAreTrue'
      BY <2>1, <2>6, <3>1, EntryAdded
    <3>6. AllGoOnRightly'
      <4>1. \A r \in Sessions \ {s} :
               /\ phase'[r] = phase[r] /\ entries'[r] = entries[r]
               /\ rows'[PendingId(r, Step(r))] = rows[PendingId(r, Step(r))]
        BY <1>a, <2>1, <2>4, <2>6, <3>2
      <4>2. GoesOnRightly(s)'
        BY <2>1, <2>6 DEF GoesOnRightly
      <4> QED BY <2>1, <4>1, <4>2, OthersGoOn
    <3> QED BY <1>0, <3>4, <3>5, <3>6 DEF IReason
  <2> QED BY <1>2, <2>5, <2>6 DEF Ask
<1>3. ASSUME NEW st \in {"blocked", "timeout"}, phase[s] = "waiting", Refuse(s, st),
             rows' = rows \/ (st = "timeout" /\ rows' = Stored(PendingId(s, Step(s)), "blocked")),
             st = "blocked" => resets > 0 \/ BlockedBySomeone(PendingId(s, Step(s))),
             UNCHANGED <<mode, actions, op, decisions, resets>>
      PROVE  IReason'
  <2> DEFINE id == PendingId(s, Step(s))
  <2> DEFINE e == Entry(tool[s], st, FALSE, id)
  <2>1. tool[s] \in Tools /\ Len(entries[s]) < MaxSteps /\ Step(s) \in 1..MaxSteps /\ id \in Ids
    BY <1>0, <1>3, StepIsIn DEF IType, Asked
  <2>2. e \in EntryType /\ EntryIsTrue(e)
    BY <1>3, <2>1, EntryTyped DEF Statuses, Entry, EntryIsTrue
  <2>3. Append1(s, e) /\ phase' = [phase EXCEPT ![s] = "running"]
    BY <1>3 DEF Refuse
  <2>4. /\ Len(entries'[s]) = Len(entries[s]) + 1
        /\ \A r \in Sessions \ {s} : entries'[r] = entries[r]
    BY <1>0, <2>2, <2>3, AppendEntry
  <2>5. \A r \in Sessions : Step(r) \in Nat /\ Step(r)' \in Nat /\ Step(r)' >= Step(r)
    BY <1>0, <2>4, StepsGrow
  <2>6. EntriesAreTrue'
    BY <1>3, <2>2, <2>3, EntryAdded
  <2>7. RowsAreTrue' /\ \A r \in Sessions \ {s} : \A m : rows'[PendingId(r, m)] = rows[PendingId(r, m)]
    <3>1. CASE rows' = rows
      BY <1>3, <2>5, <3>1, RowsStay
    <3>2. CASE rows' # rows
      <4> DEFINE row == [rows[id] EXCEPT !.status = StatusOf("blocked")]
      <4>1. /\ rows' = [rows EXCEPT ![id] = row] /\ rows[id] \in RowType
            /\ row.session = rows[id].session /\ row.status = "blocked"
        BY <1>3, <2>1, <3>2, StoredRow DEF Decision, StatusOf
      <4>2. rows[id] # NoRow
        BY <4>1, GateAssumption DEF RowType
      <4>3. rows[id].session = s
        BY <1>b, <2>1, <4>2 DEF RowsAreTrue, RowIsTrue
      <4>4. Step(s) < Step(s)'
        <5>1. Step(s)' = Len(entries'[s]) + 1 /\ Step(s) = Len(entries[s]) + 1
          BY DEF Step
        <5> QED BY <2>4, <2>5, <5>1
      <4>5. ~(Step(s) >= Step(s)')
        BY <2>5, <4>4
      <4> HIDE DEF row
      <4>6. RowsAreTrue'
        BY <1>3, <2>1, <2>5, <4>1, <4>3, <4>5, RowWritten
      <4>7. \A r \in Sessions \ {s} : \A m : PendingId(r, m) # id
        BY PendingApart
      <4> QED BY <1>a, <2>1, <4>1, <4>6, <4>7
    <3> QED BY <3>1, <3>2
  <2>8. AllGoOnRightly'
    <3>1. \A r \in Sessions \ {s} : phase'[r] = phase[r]
      BY <1>a, <2>3
    <3>2. GoesOnRightly(s)'
      BY <1>a, <2>3 DEF GoesOnRightly
    <3> QED BY <1>3, <2>4, <2>7, <3>1, <3>2, OthersGoOn
  <2> QED BY <1>0, <2>6, <2>7, <2>8 DEF IReason
<1>4. CASE Poll(s)
  <2> DEFINE id == PendingId(s, Step(s))
  <2>1. /\ phase[s] = "waiting" /\ UNCHANGED <<mode, actions, op, decisions, resets>>
        /\ Step(s) \in 1..MaxSteps /\ id \in Ids
    BY <1>0, <1>4, StepIsIn DEF Poll, IType, Asked
  <2>2. RowIsTrue(s, Step(s)) /\ (resets > 0 \/ rows[id] # NoRow) /\ Step(s) >= Step(s)
    BY <1>b, <2>1, GateAssumption DEF RowsAreTrue, GoesOnRightly
  <2>3. CASE Refuse(s, "blocked") /\ UNCHANGED rows /\ (rows[id] = NoRow \/ rows[id].status = "blocked")
    <3>1. resets > 0 \/ BlockedBySomeone(id)
      BY <2>2, <2>3 DEF RowIsTrue
    <3> QED BY <1>3, <2>1, <2>3, <3>1
  <2>4. CASE /\ phase' = [phase EXCEPT ![s] = "approved"] /\ UNCHANGED <<tool, entries>>
             /\ \/ rows' = Stored(id, "approved") /\ mode.autoApprove
                \/ /\ UNCHANGED rows /\ rows[id] # NoRow
                   /\ rows[id].status \in {"allowed", "approved", "overridden"}
    <3>1. Backed(id)
      BY <2>2, <2>4 DEF RowIsTrue, Backed
    <3>2. \A r \in Sessions : Step(r) \in Nat /\ Step(r)' \in Nat /\ Step(r)' >= Step(r)
      BY <1>0, <2>4, StepsGrow
    <3>3. RowsAreTrue' /\ \A r \in Sessions \ {s} : \A m : rows'[PendingId(r, m)] = rows[PendingId(r, m)]
      <4>1. CASE rows' = rows
        BY <2>1, <3>2, <4>1, RowsStay
      <4>2. CASE rows' # rows
        <5> DEFINE row == [rows[id] EXCEPT !.status = StatusOf("approved")]
        <5>1. /\ rows' = [rows EXCEPT ![id] = row] /\ rows[id] \in RowType
              /\ row.session = rows[id].session /\ row.status = "allowed"
          BY <2>1, <2>4, <4>2, StoredRow DEF Decision, StatusOf
        <5>2. rows[id] # NoRow
          BY <5>1, GateAssumption DEF RowType
        <5>3. rows[id].session = s
          BY <2>2, <5>2 DEF RowIsTrue
        <5> HIDE DEF row
        <5>4. RowsAreTrue'
          BY <2>1, <3>1, <3>2, <5>1, <5>3, RowWritten
        <5>5. \A r \in Sessions \ {s} : \A m : PendingId(r, m) # id
          BY PendingApart
        <5> QED BY <1>a, <2>1, <5>1, <5>4, <5>5
      <4> QED BY <4>1, <4>2
    <3>4. EntriesAreTrue'
      BY <1>a, <2>1, <2>4, EntriesStay
    <3>5. AllGoOnRightly'
      <4>1. \A r \in Sessions \ {s} : phase'[r] = phase[r] /\ entries'[r] = entries[r]
        BY <1>a, <2>4
      <4>2. GoesOnRightly(s)'
        <5>1. PendingId(s, Step(s))' = id /\ Backed(id)'
          BY <2>1, <2>4, <3>1 DEF PendingId, Step, Backed, ApprovedBySomeone, Decided
        <5> QED BY <1>a, <2>4, <5>1 DEF GoesOnRightly
      <4> QED BY <2>1, <3>3, <4>1, <4>2, OthersGoOn
    <3> QED BY <1>0, <3>3, <3>4, <3>5 DEF IReason
  <2> QED BY <1>4, <2>3, <2>4 DEF Poll
<1>5. CASE TimeOut(s)
  BY <1>3, <1>5 DEF TimeOut
<1>6. CASE RunApproved(s)
  <2> DEFINE id == PendingId(s, Step(s))
  <2> DEFINE e == Entry(tool[s], "human_review", TRUE, id)
  <2>1. /\ phase[s] = "approved" /\ UNCHANGED <<mode, rows, actions, op, decisions, resets>>
        /\ Append1(s, e) /\ phase' = [phase EXCEPT ![s] = "running"]
    BY <1>6 DEF RunApproved
  <2>2. mode.blocking /\ tool[s] \in Tools /\ id \in Ids /\ Backed(id)
    BY <1>0, <1>b, <2>1, StepIsIn DEF IType, Asked, GoesOnRightly
  <2>3. e \in EntryType /\ EntryIsTrue(e)
    BY <2>2, EntryTyped DEF Statuses, Entry, EntryIsTrue
  <2>4. /\ Len(entries'[s]) = Len(entries[s]) + 1
        /\ \A r \in Sessions \ {s} : entries'[r] = entries[r]
    BY <1>0, <2>1, <2>3, AppendEntry
  <2>5. EntriesAreTrue'
    BY <2>1, <2>3, EntryAdded
  <2>6. RowsAreTrue'
    BY <1>0, <2>1, <2>4, StepsGrow, RowsStay
  <2>7. AllGoOnRightly'
    <3>1. \A r \in Sessions \ {s} : phase'[r] = phase[r]
      BY <1>a, <2>1
    <3>2. GoesOnRightly(s)'
      BY <1>a, <2>1 DEF GoesOnRightly
    <3> QED BY <2>1, <2>4, <3>1, <3>2, OthersGoOn
  <2> QED BY <1>0, <2>5, <2>6, <2>7 DEF IReason
<1>7. CASE LogActions(s)
  <2>1. /\ UNCHANGED <<mode, tool, entries, rows, op, decisions, resets>> /\ phase'[s] \in {"logged", "done"}
        /\ \A r \in Sessions \ {s} : phase'[r] = phase[r]
    BY <1>a, <1>7 DEF LogActions
  <2>2. EntriesAreTrue'
    BY <1>a, <2>1, EntriesStay
  <2>3. RowsAreTrue'
    BY <1>0, <2>1, StepsGrow, RowsStay
  <2>4. AllGoOnRightly'
    BY <2>1, OthersGoOn DEF GoesOnRightly
  <2> QED BY <1>0, <2>2, <2>3, <2>4 DEF IReason
<1>8. CASE Enqueue(s)
  <2>1. /\ UNCHANGED <<mode, tool, entries, actions, op, decisions, resets>> /\ phase'[s] = "listed"
        /\ \A r \in Sessions \ {s} : phase'[r] = phase[r]
    BY <1>a, <1>8 DEF Enqueue
  <2>2. ASSUME NEW r \in Sessions, NEW n \in 1..MaxSteps
        PROVE  rows'[PendingId(r, n)] =
                  IF rows[PendingId(r, n)] # NoRow /\ rows[PendingId(r, n)].session = s THEN NoRow
                  ELSE rows[PendingId(r, n)]
    <3>1. PendingId(r, n) \in Ids
      BY DEF Ids
    <3>2. PendingId(r, n) \notin {ListedId(s, i) : i \in DOMAIN entries[s]}
      BY DEF PendingId, ListedId
    <3> QED BY <1>8, <3>1, <3>2 DEF Enqueue
  <2>3. EntriesAreTrue'
    BY <1>a, <2>1, EntriesStay
  <2>4. RowsAreTrue'
    BY <1>0, <2>1, <2>2, StepsGrow, RowsStay
  <2>5. AllGoOnRightly'
    <3>1. ASSUME NEW r \in Sessions \ {s}, phase[r] = "waiting"
          PROVE  rows'[PendingId(r, Step(r))] = rows[PendingId(r, Step(r))]
      <4>1. Step(r) \in 1..MaxSteps
        BY <1>0, <3>1, StepIsIn DEF IType, Asked
      <4>2. rows[PendingId(r, Step(r))] # NoRow => rows[PendingId(r, Step(r))].session = r
        BY <1>b, <4>1 DEF RowsAreTrue, RowIsTrue
      <4> QED BY <2>2, <4>1, <4>2
    <3>2. GoesOnRightly(s)'
      BY <2>1 DEF GoesOnRightly
    <3> QED BY <2>1, <3>1, <3>2, OthersGoOn
  <2> QED BY <1>0, <2>3, <2>4, <2>5 DEF IReason
<1> QED BY <1>1, <1>2, <1>4, <1>5, <1>6, <1>7, <1>8 DEF SessionStep

LEMMA DecideReason ==
  ASSUME IReason, NEW o \in Operators, NEW id \in Ids, NEW d \in Decision, Decide(o, id, d)
  PROVE  IReason'
<1>0. IType /\ IType'
  BY OperatorType DEF IReason
<1>1. /\ UNCHANGED <<mode, phase, tool, entries, actions, resets>>
      /\ rows' = Stored(id, d) /\ decisions' = Append(decisions, <<id, d>>)
  BY DEF Decide
<1>2. /\ \A i : Backed(i) => Backed(i)'
      /\ \A i : BlockedBySomeone(i) => BlockedBySomeone(i)'
  <2>1. \E x \in Ids \X Decision : decisions' = Append(decisions, x)
    BY <1>1
  <2> QED BY <1>0, <1>1, <2>1, DecisionsStay
<1>3. /\ d \in {"approved", "overridden"} => Backed(id)'
      /\ d = "blocked" => BlockedBySomeone(id)'
  <2> DEFINE n == Len(decisions) + 1
  <2>1. decisions \in Seq(Ids \X Decision)
    BY <1>0 DEF IType, TypeOK
  <2>2. n \in DOMAIN decisions' /\ decisions'[n] = <<id, d>>
    BY <1>1, <2>1, AppendProperties, LenProperties
  <2>3. n \in Decided(id)'
    BY <2>2 DEF Decided
  <2> QED BY <2>2, <2>3 DEF Backed, ApprovedBySomeone, BlockedBySomeone
<1>4. EntriesAreTrue'
  <2>1. \E x \in Ids \X Decision : decisions' = Append(decisions, x)
    BY <1>1
  <2>2. resets \in Nat
    BY <1>0, GateAssumption DEF IType, TypeOK
  <2> QED BY <1>1, <2>1, <2>2, EntriesStay
<1>5. /\ \A i \in Ids \ {id} : rows'[i] = rows[i]
      /\ rows[id] = NoRow => rows'[id] = NoRow
      /\ rows[id] # NoRow =>
            /\ rows'[id] # NoRow
            /\ \/ rows'[id] = rows[id]
               \/ /\ rows'[id].session = rows[id].session
                  /\ rows'[id].status = StatusOf(d)
  <2>1. rows \in [Ids -> {NoRow} \cup RowType]
    BY <1>0 DEF IType, TypeOK, RowType
  <2>2. CASE rows' = rows
    <3>1. \A i : rows'[i] = rows[i]
      BY <2>2
    <3> QED BY <3>1
  <2>3. CASE rows' # rows
    <3> DEFINE row == [rows[id] EXCEPT !.status = StatusOf(d)]
    <3>1. /\ rows' = [rows EXCEPT ![id] = row] /\ rows[id] \in RowType
          /\ row.session = rows[id].session /\ row.status = StatusOf(d) /\ row # NoRow
      BY <1>1, <2>3, StoredRow
    <3>2. rows[id] # NoRow
      BY <3>1, GateAssumption DEF RowType
    <3> HIDE DEF row
    <3> QED BY <2>1, <3>1, <3>2
  <2> QED BY <2>2, <2>3
<1>6. /\ StatusOf(d) = "blocked" => d = "blocked"
      /\ StatusOf(d) # "blocked" => d \in {"approved", "overridden"}
  BY DEF StatusOf, Decision
<1>7. ASSUME NEW s \in Sessions, NEW n \in 1..MaxSteps PROVE RowIsTrue(s, n)'
  <2>1. RowIsTrue(s, n)
    BY DEF IReason, RowsAreTrue
  <2>2. PendingId(s, n)' = PendingId(s, n) /\ Step(s)' = Step(s) /\ PendingId(s, n) \in Ids
    BY <1>1 DEF PendingId, Step, Ids
  <2>3. CASE PendingId(s, n) # id \/ rows'[id] = rows[id]
    <3>1. rows'[PendingId(s, n)] = rows[PendingId(s, n)]
      BY <1>5, <2>2, <2>3
    <3> QED BY <1>2, <2>1, <2>2, <3>1 DEF RowIsTrue
  <2>4. CASE PendingId(s, n) = id /\ rows'[id] # rows[id]
    <3>1. rows[id] # NoRow /\ rows'[id].session = rows[id].session /\ rows'[id].status = StatusOf(d)
      BY <1>5, <2>4
    <3>2. rows[id].session = s
      BY <2>1, <2>4, <3>1 DEF RowIsTrue
    <3> QED BY <1>3, <1>6, <2>2, <2>4, <3>1, <3>2 DEF RowIsTrue
  <2> QED BY <2>3, <2>4
<1>8. ASSUME NEW s \in Sessions PROVE GoesOnRightly(s)'
  <2>1. GoesOnRightly(s)
    BY DEF IReason, AllGoOnRightly
  <2>2. PendingId(s, Step(s))' = PendingId(s, Step(s))
    BY <1>1 DEF PendingId, Step
  <2>3. phase[s] = "waiting" => PendingId(s, Step(s)) \in Ids
    BY <1>0, StepIsIn DEF IType, Asked
  <2>4. phase[s] = "waiting" /\ rows[PendingId(s, Step(s))] # NoRow => rows'[PendingId(s, Step(s))] # NoRow
    BY <1>5, <2>3
  <2> QED BY <1>1, <1>2, <2>1, <2>2, <2>4 DEF GoesOnRightly
<1> QED BY <1>0, <1>4, <1>7, <1>8 DEF IReason, RowsAreTrue, AllGoOnRightly

(* Steps that touch neither the rows, the entries nor the decisions. *)
LEMMA ReasonStays ==
  ASSUME IReason, IType', UNCHANGED <<mode, phase, entries, rows, decisions, resets>>
  PROVE  IReason'
<1>1. \A id : (Backed(id) <=> Backed(id)') /\ (BlockedBySomeone(id) <=> BlockedBySomeone(id)')
  BY DEF Backed, ApprovedBySomeone, BlockedBySomeone, Decided
<1>2. \A s : Step(s)' = Step(s) /\ \A n : PendingId(s, n)' = PendingId(s, n)
  BY DEF Step, PendingId
<1>3. RowsAreTrue'
  BY <1>1, <1>2 DEF IReason, RowsAreTrue, RowIsTrue
<1>4. AllGoOnRightly'
  BY <1>1, <1>2 DEF IReason, AllGoOnRightly, GoesOnRightly
<1>5. EntriesAreTrue'
  BY <1>1 DEF IReason, EntriesAreTrue, EntryIsTrue
<1> QED BY <1>3, <1>4, <1>5 DEF IReason

LEMMA NextReason == IReason /\ [Next]_vars => IReason'
<1> SUFFICES ASSUME IReason, [Next]_vars PROVE IReason'
  OBVIOUS
<1>0. IType /\ IType'
  BY NextType DEF IReason
<1>1. ASSUME NEW o \in Operators, PickAction(o) \/ RecordDecision(o) PROVE IReason'
  BY <1>0, <1>1, ReasonStays DEF PickAction, RecordDecision
<1>2. CASE Reset
  <2>1. /\ UNCHANGED <<mode, phase, tool, entries, actions, op, decisions>>
        /\ resets' = resets + 1 /\ rows' = [id \in Ids |-> NoRow] /\ resets \in Nat
    BY <1>0, <1>2, GateAssumption DEF Reset, IType, TypeOK
  <2>2. RowsAreTrue'
    BY <2>1 DEF RowsAreTrue, RowIsTrue, PendingId, Ids
  <2>3. EntriesAreTrue'
    BY <2>1, EntriesStay
  <2>4. AllGoOnRightly'
    <3>1. \A s : PendingId(s, Step(s))' = PendingId(s, Step(s))
      BY <2>1 DEF PendingId, Step
    <3>2. \A id : Backed(id) <=> Backed(id)'
      BY <2>1 DEF Backed, ApprovedBySomeone, Decided
    <3>3. resets' > 0
      BY <2>1
    <3> QED BY <2>1, <3>1, <3>2, <3>3 DEF IReason, AllGoOnRightly, GoesOnRightly
  <2> QED BY <1>0, <2>2, <2>3, <2>4 DEF IReason
<1>3. CASE UNCHANGED vars
  BY <1>0, <1>3, ReasonStays DEF vars
<1> QED BY <1>1, <1>2, <1>3, SessionReason, DecideReason DEF Next

(* For any sessions, operators, deployments and resets: a tool the policies *)
(* want a human for ran only after that very call was approved, and a call  *)
(* that was refused as blocked had been blocked, or its row was reset.      *)
THEOREM DecidedForThatCall == Spec => []OutcomesWereDecided
<1>1. Spec => []IReason
  BY InitReason, NextReason, PTL DEF Spec
<1> QED BY <1>1, ReasonEnough, PTL

-----------------------------------------------------------------------------
(* The list.  A session whose eight characters are its own is the only one   *)
(* that writes or deletes the rows named after it, so that these rows show   *)
(* what it ran from the moment they are written, and decisions change their  *)
(* status only.                                                              *)
Own(s) == \A r \in Sessions \ {s} : Prefix[r] # Prefix[s]
Over(s) == phase[s] \in {"listed", "done"}
ShowsEntry(s, i) ==
    LET row == rows[ListedId(s, i)]
    IN  /\ row # NoRow
        /\ row.session = s
        /\ row.tool = entries[s][i].tool
        /\ \/ row.status = entries[s][i].status
           \/ \E d \in Decided(ListedId(s, i)) : row.status = StatusOf(decisions[d][2])

Shown(s) ==
    /\ \A n \in 1..MaxSteps : rows[PendingId(s, n)] = NoRow
    /\ \A i \in DOMAIN entries[s] : ShowsEntry(s, i)
ListedAreOwn(s) ==
    \A i \in 1..MaxSteps : rows[ListedId(s, i)] # NoRow => rows[ListedId(s, i)].session = s

Fits(s) == Len(entries[s]) <= MaxSteps
ListIsRight(s) == resets = 0 /\ Own(s) => ListedAreOwn(s) /\ (Over(s) => Shown(s))
IList == \A s \in Sessions : Fits(s) /\ ListIsRight(s)

LEMMA ListedIn ==
  ASSUME NEW s \in Sessions, NEW i \in 1..MaxSteps
  PROVE  ListedId(s, i) \in Ids /\ PendingId(s, i) \in Ids
  BY DEF Ids

LEMMA ListedApart ==
  ASSUME NEW s, NEW i, NEW r, NEW j
  PROVE  /\ ListedId(s, i) # PendingId(r, j)
         /\ ListedId(s, i) = ListedId(r, j) => Prefix[s] = Prefix[r] /\ i = j
  BY DEF ListedId, PendingId

(* What a step of anyone leaves of the list of a session: rows that change   *)
(* get the status of a decision.                                             *)
Decides(id) == \E d \in Decided(id) : rows[id].status = StatusOf(decisions[d][2])
KeepsRow(id) ==
    \/ rows'[id] = rows[id]
    \/ /\ rows[id] # NoRow /\ rows'[id] # NoRow
       /\ rows'[id].session = rows[id].session /\ rows'[id].tool = rows[id].tool
       /\ Decides(id)'

LEMMA ListKept ==
  ASSUME IType, NEW s \in Sessions, Fits(s), ListIsRight(s), resets' \in Nat, resets' >= resets,
         decisions' = decisions \/ \E x \in Ids \X Decision : decisions' = Append(decisions, x),
         \A i \in 1..MaxSteps : KeepsRow(ListedId(s, i)),
         Over(s)' => /\ Over(s) /\ entries'[s] = entries[s]
                     /\ \A n \in 1..MaxSteps : KeepsRow(PendingId(s, n))
  PROVE  ListIsRight(s)'
<1> SUFFICES ASSUME resets' = 0, Own(s) PROVE ListedAreOwn(s)' /\ (Over(s)' => Shown(s)')
  BY DEF ListIsRight, Own
<1>1. resets = 0
  BY DEF IType, TypeOK
<1>2. ListedAreOwn(s) /\ (Over(s) => Shown(s))
  BY <1>1 DEF ListIsRight
<1>3. ListedAreOwn(s)'
  BY <1>2 DEF ListedAreOwn, KeepsRow, ListedId
<1>4. ASSUME Over(s)', NEW n \in 1..MaxSteps PROVE rows'[PendingId(s, n)] = NoRow
  BY <1>2, <1>4 DEF Shown, KeepsRow
<1>5. ASSUME Over(s)', NEW i \in DOMAIN entries'[s] PROVE ShowsEntry(s, i)'
  <2>1. ShowsEntry(s, i) /\ entries'[s] = entries[s]
    BY <1>2, <1>5 DEF Shown
  <2>2. i \in 1..MaxSteps
    <3>1. entries[s] \in Seq(EntryType)
      BY DEF IType, TypeOK, EntryType
    <3>2. Len(entries[s]) \in Nat /\ i \in 1..Len(entries[s])
      BY <1>5, <2>1, <3>1
    <3> QED BY <3>2, GateAssumption DEF Fits
  <2>3. KeepsRow(ListedId(s, i))
    BY <2>2
  <2>4. ListedId(s, i)' = ListedId(s, i)
    BY DEF ListedId
  <2>5. CASE rows'[ListedId(s, i)] = rows[ListedId(s, i)]
    <3>1. \A d \in Decided(ListedId(s, i)) :
             d \in Decided(ListedId(s, i))' /\ decisions'[d] = decisions[d]
      <4>1. decisions \in Seq(Ids \X Decision)
        BY DEF IType, TypeOK
      <4>2. ASSUME NEW x \in Ids \X Decision, decisions' = Append(decisions, x)
            PROVE  DOMAIN decisions \subseteq DOMAIN decisions'
                   /\ \A j \in DOMAIN decisions : decisions'[j] = decisions[j]
        BY <4>1, <4>2, AppendProperties
      <4> QED BY <4>2, <2>4 DEF Decided
    <3> QED BY <2>1, <2>4, <2>5, <3>1 DEF ShowsEntry
  <2>6. CASE rows'[ListedId(s, i)] # rows[ListedId(s, i)]
    BY <2>1, <2>3, <2>4, <2>6 DEF ShowsEntry, KeepsRow, Decides
  <2> QED BY <2>5, <2>6
<1> QED BY <1>3, <1>4, <1>5 DEF Shown

(* The steps of a session, by what they do to the list of any.               *)
LEMMA SessionEffects ==
  ASSUME IType, NEW s \in Sessions, SessionStep(s), Fits(s)
  PROVE  /\ UNCHANGED <<decisions, resets>>
         /\ \A r \in Sessions \ {s} : phase'[r] = phase[r] /\ entries'[r] = entries[r]
         /\ Fits(s)'
         /\ \/ Enqueue(s)
            \/ /\ \A id \in Ids : rows'[id] = rows[id] \/ \E n : id = PendingId(s, n)
               /\ Over(s)' => Over(s) /\ UNCHANGED <<rows, entries>>
<1> DEFINE Effects ==
         /\ UNCHANGED <<decisions, resets>>
         /\ \A r \in Sessions \ {s} : phase'[r] = phase[r] /\ entries'[r] = entries[r]
         /\ Fits(s)'
         /\ \/ Enqueue(s)
            \/ /\ \A id \in Ids : rows'[id] = rows[id] \/ \E n : id = PendingId(s, n)
               /\ Over(s)' => Over(s) /\ UNCHANGED <<rows, entries>>
<1>0. /\ phase \in [Sessions -> Phases] /\ rows \in [Ids -> {NoRow} \cup RowType]
      /\ entries \in [Sessions -> Seq(EntryType)] /\ Len(entries[s]) \in Nat
  <2>1. /\ phase \in [Sessions -> Phases] /\ rows \in [Ids -> {NoRow} \cup RowType]
        /\ entries \in [Sessions -> Seq(EntryType)]
    BY DEF IType, TypeOK, RowType, EntryType
  <2>2. entries[s] \in Seq(EntryType)
    BY <2>1
  <2> QED BY <2>1, <2>2
<1>1. ASSUME NEW e \in EntryType, Append1(s, e), Len(entries[s]) < MaxSteps
      PROVE  Fits(s)' /\ \A r \in Sessions \ {s} : entries'[r] = entries[r]
  <2>1. Len(entries'[s]) = Len(entries[s]) + 1 /\ \A r \in Sessions \ {s} : entries'[r] = entries[r]
    BY <1>1, AppendEntry
  <2> QED BY <1>0, <1>1, <2>1, GateAssumption DEF Fits
<1>2. ASSUME NEW d, NEW id
      PROVE  \A x \in Ids : Stored(id, d)[x] = rows[x] \/ x = id
  BY <1>0 DEF Stored
<1>3. ASSUME NEW t \in Tools, Deny(s, t) \/ Allow(s, t) PROVE Effects
  <2>1. PICK e \in EntryType : Append1(s, e)
    BY <1>3, EntryTyped DEF Deny, Allow, Statuses
  <2>2. Len(entries[s]) < MaxSteps /\ phase[s] = "running" /\ UNCHANGED <<phase, rows, decisions, resets>>
    BY <1>3 DEF Deny, Allow
  <2> QED BY <1>1, <2>1, <2>2 DEF Over
<1>4. ASSUME NEW t \in Tools, Ask(s, t) PROVE Effects
  <2> DEFINE id == PendingId(s, Step(s))
  <2>1. Len(entries[s]) < MaxSteps /\ phase[s] = "running" /\ UNCHANGED <<decisions, resets>>
    BY <1>4 DEF Ask
  <2>2. \A x \in Ids : rows'[x] = rows[x] \/ x = id
    BY <1>0, <1>4 DEF Ask
  <2>3. Fits(s)' /\ \A r \in Sessions \ {s} : entries'[r] = entries[r]
    <3>1. CASE UNCHANGED entries
      BY <3>1 DEF Fits
    <3>2. CASE Append1(s, Entry(t, "human_review", FALSE, id))
      <4>1. Entry(t, "human_review", FALSE, id) \in EntryType
        BY <2>1, StepIsIn, EntryTyped DEF Statuses
      <4> QED BY <1>1, <2>1, <3>2, <4>1
    <3> QED BY <1>4, <3>1, <3>2 DEF Ask
  <2>4. phase'[s] \in {"running", "waiting"} /\ \A r \in Sessions \ {s} : phase'[r] = phase[r]
    BY <1>0, <1>4, <2>1 DEF Ask
  <2> QED BY <2>1, <2>2, <2>3, <2>4 DEF Over
<1>5. ASSUME Poll(s) \/ TimeOut(s) PROVE Effects
  <2> DEFINE id == PendingId(s, Step(s))
  <2>1. /\ phase[s] = "waiting" /\ UNCHANGED <<decisions, resets>>
        /\ Len(entries[s]) < MaxSteps
    BY <1>5 DEF Poll, TimeOut, IType, Asked
  <2>2. \A x \in Ids : rows'[x] = rows[x] \/ x = id
    BY <1>2, <1>5 DEF Poll, TimeOut
  <2>3. /\ Fits(s)' /\ \A r \in Sessions \ {s} : entries'[r] = entries[r]
        /\ phase'[s] \in {"running", "approved"} /\ \A r \in Sessions \ {s} : phase'[r] = phase[r]
    <3>1. ASSUME NEW st \in Statuses, Refuse(s, st)
          PROVE  /\ Fits(s)' /\ \A r \in Sessions \ {s} : entries'[r] = entries[r]
                 /\ phase'[s] = "running" /\ \A r \in Sessions \ {s} : phase'[r] = phase[r]
      <4>1. /\ Len(entries'[s]) = Len(entries[s]) + 1
            /\ \A r \in Sessions \ {s} : entries'[r] = entries[r]
            /\ phase' = [phase EXCEPT ![s] = "running"]
        BY <2>1, <3>1, RefuseType
      <4> QED BY <1>0, <2>1, <4>1, GateAssumption DEF Fits
    <3>2. CASE UNCHANGED entries /\ phase' = [phase EXCEPT ![s] = "approved"]
      BY <1>0, <3>2 DEF Fits
    <3> QED BY <1>5, <3>1, <3>2 DEF Poll, TimeOut, Statuses
  <2> QED BY <2>1, <2>2, <2>3 DEF Over
<1>6. ASSUME RunApproved(s) PROVE Effects
  <2>1. /\ Len(entries[s]) < MaxSteps /\ tool[s] \in Tools
        /\ UNCHANGED <<rows, decisions, resets>>
    BY <1>6 DEF RunApproved, IType, Asked
  <2>2. Entry(tool[s], "human_review", TRUE, PendingId(s, Step(s))) \in EntryType
    BY <2>1, StepIsIn, EntryTyped DEF Statuses
  <2>3. Fits(s)' /\ \A r \in Sessions \ {s} : entries'[r] = entries[r]
    BY <1>1, <1>6, <2>1, <2>2 DEF RunApproved
  <2>4. phase'[s] = "running" /\ \A r \in Sessions \ {s} : phase'[r] = phase[r]
    BY <1>0, <1>6 DEF RunApproved
  <2> QED BY <2>1, <2>3, <2>4 DEF Over
<1>7. ASSUME LogActions(s) PROVE Effects
  <2>1. /\ UNCHANGED <<rows, entries, decisions, resets>>
        /\ phase'[s] = "logged" \/ (phase[s] = "listed" /\ phase'[s] = "done")
        /\ \A r \in Sessions \ {s} : phase'[r] = phase[r]
    BY <1>0, <1>7 DEF LogActions
  <2> QED BY <2>1 DEF Over, Fits
<1>8. ASSUME Enqueue(s) PROVE Effects
  BY <1>0, <1>8 DEF Enqueue, Fits
<1> HIDE DEF Effects
<1>9. Effects
  BY <1>3, <1>4, <1>5, <1>6, <1>7, <1>8 DEF SessionStep
<1> QED BY <1>9 DEF Effects

(* The rows of its finished session, all of them and no others.              *)
LEMMA EnqueueShows ==
  ASSUME IReason, NEW s \in Sessions, Enqueue(s), Fits(s), ListIsRight(s)
  PROVE  ListIsRight(s)'
<1> SUFFICES ASSUME resets = 0, Own(s) PROVE ListedAreOwn(s)' /\ Shown(s)'
  BY DEF Enqueue, ListIsRight, Own
<1> DEFINE mine == {ListedId(s, i) : i \in DOMAIN entries[s]}
<1>1. /\ entries' = entries /\ decisions' = decisions
      /\ \A id \in Ids : rows'[id] = IF id \in mine
                                     THEN Row(s, entries[s][id[3]].tool, entries[s][id[3]].status)
                                     ELSE IF rows[id] # NoRow /\ rows[id].session = s THEN NoRow
                                     ELSE rows[id]
  BY DEF Enqueue
<1>2. DOMAIN entries[s] \subseteq 1..MaxSteps
  <2>1. entries[s] \in Seq(EntryType)
    BY DEF IReason, IType, TypeOK, EntryType
  <2>2. Len(entries[s]) \in Nat /\ DOMAIN entries[s] = 1..Len(entries[s])
    BY <2>1
  <2> QED BY <2>2, GateAssumption DEF Fits
<1>3. ASSUME NEW i \in DOMAIN entries[s]
      PROVE  rows'[ListedId(s, i)] = Row(s, entries[s][i].tool, entries[s][i].status)
  <2>1. ListedId(s, i) \in mine /\ ListedId(s, i) \in Ids /\ ListedId(s, i)[3] = i
    BY <1>2, <1>3, ListedIn DEF ListedId
  <2> QED BY <1>1, <2>1
<1>4. ASSUME NEW i \in 1..MaxSteps, i \notin DOMAIN entries[s] PROVE rows'[ListedId(s, i)] = NoRow
  <2>1. ListedId(s, i) \notin mine /\ ListedId(s, i) \in Ids
    BY <1>4, ListedIn, ListedApart
  <2>2. rows[ListedId(s, i)] # NoRow => rows[ListedId(s, i)].session = s
    BY DEF ListIsRight, ListedAreOwn
  <2> QED BY <1>1, <2>1, <2>2
<1>5. ASSUME NEW n \in 1..MaxSteps PROVE rows'[PendingId(s, n)] = NoRow
  <2>1. PendingId(s, n) \notin mine /\ PendingId(s, n) \in Ids
    BY ListedIn, ListedApart
  <2>2. rows[PendingId(s, n)] # NoRow => rows[PendingId(s, n)].session = s
    BY DEF IReason, RowsAreTrue, RowIsTrue
  <2> QED BY <1>1, <2>1, <2>2
<1>6. ASSUME NEW i \in DOMAIN entries[s]
      PROVE  LET row == Row(s, entries[s][i].tool, entries[s][i].status)
             IN  /\ row # NoRow /\ row.session = s
                 /\ row.tool = entries[s][i].tool /\ row.status = entries[s][i].status
  <2>1. entries[s] \in Seq(EntryType)
    BY DEF IReason, IType, TypeOK, EntryType
  <2>2. entries[s][i] \in EntryType
    BY <2>1
  <2>3. Row(s, entries[s][i].tool, entries[s][i].status) \in RowType
    BY <2>2 DEF Row, RowType, EntryType
  <2> QED BY <2>3, GateAssumption DEF Row, RowType
<1>7. ListedAreOwn(s)'
  <2>1. ASSUME NEW i \in 1..MaxSteps
        PROVE  rows'[ListedId(s, i)] # NoRow => rows'[ListedId(s, i)].session = s
    BY <1>3, <1>4, <1>6
  <2> QED BY <2>1 DEF ListedAreOwn, ListedId
<1>8. \A i \in DOMAIN entries'[s] : ShowsEntry(s, i)'
  BY <1>1, <1>3, <1>6 DEF ShowsEntry, ListedId
<1> QED BY <1>5, <1>7, <1>8 DEF Shown, PendingId

(* Another session's list takes none of its rows and adds none.              *)
LEMMA EnqueueSpares ==
  ASSUME IReason, NEW s \in Sessions, NEW r \in Sessions \ {s}, Enqueue(s),
         Own(r), ListedAreOwn(r), NEW i \in 1..MaxSteps
  PROVE  KeepsRow(ListedId(r, i)) /\ KeepsRow(PendingId(r, i))
<1> DEFINE mine == {ListedId(s, j) : j \in DOMAIN entries[s]}
<1>1. \A id \in Ids : id \notin mine /\ (rows[id] # NoRow => rows[id].session # s)
                        => rows'[id] = rows[id]
  BY DEF Enqueue
<1>2. ListedId(r, i) \in Ids /\ PendingId(r, i) \in Ids
  BY ListedIn
<1>3. ListedId(r, i) \notin mine /\ PendingId(r, i) \notin mine
  BY ListedApart DEF Own
<1>4. rows[ListedId(r, i)] # NoRow => rows[ListedId(r, i)].session # s
  BY DEF ListedAreOwn
<1>5. rows[PendingId(r, i)] # NoRow => rows[PendingId(r, i)].session # s
  BY DEF IReason, RowsAreTrue, RowIsTrue
<1> QED BY <1>1, <1>2, <1>3, <1>4, <1>5 DEF KeepsRow

LEMMA NextList == IReason /\ IList /\ [Next]_vars => IList'
<1> SUFFICES ASSUME IReason, IList, [Next]_vars PROVE IList'
  OBVIOUS
<1>0. IType /\ resets \in Nat
  <2>1. IType
    BY DEF IReason
  <2>2. resets \in 0..MaxResets
    BY <2>1 DEF IType, TypeOK
  <2> QED BY <2>1, <2>2, GateAssumption
<1>1. ASSUME UNCHANGED <<phase, entries, rows, decisions, resets>> PROVE IList'
  <2>1. ASSUME NEW r \in Sessions PROVE Fits(r)' /\ ListIsRight(r)'
    <3>1. Fits(r) /\ ListIsRight(r)
      BY DEF IList
    <3>2. \A id : KeepsRow(id)
      BY <1>1 DEF KeepsRow
    <3>3. (Over(r)' => Over(r)) /\ entries'[r] = entries[r]
      BY <1>1 DEF Over
    <3>4. ListIsRight(r)'
      BY <1>0, <1>1, <3>1, <3>2, <3>3, ListKept
    <3> QED BY <1>1, <3>1, <3>4 DEF Fits
  <2> QED BY <2>1 DEF IList
<1>2. ASSUME NEW s \in Sessions, SessionStep(s), NEW r \in Sessions PROVE Fits(r)' /\ ListIsRight(r)'
  <2>1. /\ UNCHANGED <<decisions, resets>>
        /\ \A q \in Sessions \ {s} : phase'[q] = phase[q] /\ entries'[q] = entries[q]
        /\ Fits(s)'
        /\ \/ Enqueue(s)
           \/ /\ \A id \in Ids : rows'[id] = rows[id] \/ \E n : id = PendingId(s, n)
              /\ Over(s)' => Over(s) /\ UNCHANGED <<rows, entries>>
    BY <1>0, <1>2, SessionEffects DEF IList
  <2>2. Fits(r)'
    BY <2>1 DEF IList, Fits
  <2>3. Fits(r) /\ ListIsRight(r)
    BY DEF IList
  <2>4. CASE Enqueue(s) /\ r = s
    BY <2>2, <2>3, <2>4, EnqueueShows
  <2>5. CASE Enqueue(s) /\ r # s
    <3>1. CASE resets = 0 /\ Own(r)
      <4>1. ListedAreOwn(r)
        BY <2>3, <3>1 DEF ListIsRight
      <4>2. \A i \in 1..MaxSteps : KeepsRow(ListedId(r, i)) /\ KeepsRow(PendingId(r, i))
        BY <2>5, <3>1, <4>1, EnqueueSpares
      <4>3. Over(r)' => Over(r) /\ entries'[r] = entries[r]
        BY <2>1, <2>5 DEF Over
      <4> QED BY <1>0, <2>1, <2>2, <2>3, <4>2, <4>3, ListKept
    <3>2. CASE ~(resets = 0 /\ Own(r))
      BY <2>1, <2>2, <3>2 DEF ListIsRight, Own
    <3> QED BY <3>1, <3>2
  <2>6. CASE ~Enqueue(s)
    <3>1. \A i \in 1..MaxSteps : KeepsRow(ListedId(r, i))
      BY <2>1, <2>6, ListedIn, ListedApart DEF KeepsRow
    <3>2. r # s => \A i \in 1..MaxSteps : KeepsRow(PendingId(r, i))
      BY <2>1, <2>6, ListedIn, PendingApart DEF KeepsRow
    <3>3. Over(r)' => /\ Over(r) /\ entries'[r] = entries[r]
                      /\ \A i \in 1..MaxSteps : KeepsRow(PendingId(r, i))
      BY <2>1, <2>6, <3>2 DEF Over, KeepsRow
    <3> QED BY <1>0, <2>1, <2>2, <2>3, <3>1, <3>3, ListKept
  <2> QED BY <2>4, <2>5, <2>6
<1>3. ASSUME NEW o \in Operators, NEW id \in Ids, NEW d \in Decision, Decide(o, id, d),
             NEW r \in Sessions
      PROVE  Fits(r)' /\ ListIsRight(r)'
  <2>1. /\ rows' = Stored(id, d) /\ decisions' = Append(decisions, <<id, d>>)
        /\ UNCHANGED <<phase, entries, resets>>
    BY <1>3 DEF Decide
  <2>2. ASSUME NEW x \in Ids PROVE KeepsRow(x)
    <3>1. rows \in [Ids -> {NoRow} \cup RowType] /\ decisions \in Seq(Ids \X Decision)
      BY <1>0 DEF IType, TypeOK, RowType
    <3>2. CASE x # id \/ rows[id] = NoRow \/ mode.postgres
      BY <2>1, <3>1, <3>2 DEF Stored, KeepsRow
    <3>3. CASE x = id /\ rows[id] # NoRow /\ ~mode.postgres
      <4>1. rows[id] \in RowType /\ rows'[id] = [rows[id] EXCEPT !.status = StatusOf(d)]
        BY <2>1, <3>1, <3>3 DEF Stored
      <4>2. StatusOf(d) \in Statuses
        BY DEF StatusOf, Decision, Statuses
      <4>3. /\ rows'[id] \in RowType /\ rows'[id].status = StatusOf(d)
            /\ rows'[id].session = rows[id].session /\ rows'[id].tool = rows[id].tool
        BY <4>1, <4>2 DEF RowType
      <4>4. rows'[id] # NoRow
        BY <4>3, GateAssumption DEF RowType
      <4>5. Len(decisions) + 1 \in Decided(id)' /\ decisions'[Len(decisions) + 1][2] = d
        BY <2>1, <3>1, AppendProperties DEF Decided
      <4>6. \E n \in Decided(id)' : rows'[id].status = StatusOf(decisions'[n][2])
        BY <4>3, <4>5
      <4> QED BY <3>3, <4>3, <4>4, <4>6 DEF KeepsRow, Decides
    <3> QED BY <3>2, <3>3
  <2>3. Fits(r) /\ ListIsRight(r) /\ <<id, d>> \in Ids \X Decision
    BY DEF IList
  <2>4. \A i \in 1..MaxSteps : KeepsRow(ListedId(r, i)) /\ KeepsRow(PendingId(r, i))
    BY <2>2, ListedIn
  <2>5. Over(r)' => Over(r) /\ entries'[r] = entries[r]
    BY <2>1 DEF Over
  <2>6. Fits(r)'
    BY <2>1, <2>3 DEF Fits
  <2> QED BY <1>0, <2>1, <2>3, <2>4, <2>5, <2>6, ListKept
<1>4. ASSUME NEW o \in Operators, PickAction(o) \/ RecordDecision(o) PROVE IList'
  BY <1>1, <1>4 DEF PickAction, RecordDecision
<1>5. CASE Reset
  <2>1. resets' # 0 /\ entries' = entries
    BY <1>0, <1>5 DEF Reset
  <2> QED BY <2>1 DEF IList, ListIsRight, Fits
<1>6. CASE UNCHANGED vars
  BY <1>1, <1>6 DEF vars
<1> QED BY <1>2, <1>3, <1>4, <1>5, <1>6 DEF Next, IList

(* However sessions, decisions and other sessions' lists overlap, the list  *)
(* shows a finished session as it ran, as long as no list was reset and no  *)
(* other session has its eight characters.                                  *)
THEOREM FinishedIsListed == Spec => []ListShowsTheSession
<1>1. Init => IList
  <2> SUFFICES ASSUME Init, NEW s \in Sessions PROVE Fits(s) /\ ListIsRight(s)
    BY DEF IList
  <2>1. entries[s] = <<>> /\ \A id \in Ids : rows[id] = NoRow
    BY DEF Init
  <2>2. ~Over(s)
    BY DEF Init, Over
  <2>3. ListedAreOwn(s)
    BY <2>1, ListedIn DEF ListedAreOwn
  <2> QED BY <2>1, <2>2, <2>3, GateAssumption DEF Fits, ListIsRight
<1>2. Spec => []IReason
  BY InitReason, NextReason, PTL DEF Spec
<1>3. IList => ListShowsTheSession
  BY DEF IList, ListIsRight, ListShowsTheSession, Own, Over, Shown, ShowsEntry
<1> QED BY <1>1, <1>2, <1>3, NextList, PTL DEF Spec
=============================================================================
