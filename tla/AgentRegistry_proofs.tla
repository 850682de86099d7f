------------------------ MODULE AgentRegistry_proofs ------------------------
(***************************************************************************)
(* Theorems about AgentRegistry, for every set of agents, requests and     *)
(* configurations: types, versions without gaps although requests number   *)
(* them side by side, and snapshots that were true when they were taken.   *)
(***************************************************************************)
EXTENDS AgentRegistry, FiniteSetTheorems, SequenceTheorems, TLAPS

(* What a request does next, once it has begun.                              *)
LEMMA TaskTypes ==
    ASSUME TypeOK, NEW r \in Requests, NEW step, At(r, step)
    PROVE  /\ req[r] \in Tasks
           /\ req[r].agent \in Agents
           /\ req[r].version \in Nat
           /\ req[r].snap \in Snaps \cup {NoSnap}
           /\ req[r].action \in Actions
BY DEF TypeOK, At, Tasks

(* A request with no snapshot yet, and one with the snapshot of a state.     *)
LEMMA StepTypes ==
    ASSUME NEW a \in Agents, NEW action \in Actions,
           NEW step \in {"find", "fetch", "read", "number"},
           NEW snap \in Snaps \cup {NoSnap}
    PROVE  Step(a, action, step, snap) \in Tasks
BY DEF Step, Tasks

LEMMA SnapTypes ==
    ASSUME NEW a \in Agents, NEW state \in AgentState
    PROVE  Snap(a, state) \in Snaps
BY DEF Snap, Snaps

(* What a change of a row keeps, whatever the row becomes.                   *)
LEMMA SetRowTypes ==
    ASSUME TypeOK, NEW a \in Agents, NEW state \in AgentState, NEW action \in Actions,
           SetRow(a, state, action)
    PROVE  /\ rows' \in [Agents -> AgentState \cup {NoRow}]
           /\ past' \in [Agents -> SUBSET AgentState]
           /\ lastWrite' \in [Agents -> Actions \cup {"none"}]
           /\ \A b \in Agents : rows[b] # NoRow => rows'[b] # NoRow
           /\ rows'[a] # NoRow
BY RegistryAssumption DEF TypeOK, SetRow

LEMMA BeginTypes ==
    ASSUME TypeOK, NEW r \in Requests, NEW task \in Tasks, Begin(r, task)
    PROVE  /\ req' \in [Requests -> Tasks \cup {Idle}]
           /\ history' \in [Agents -> Seq([version : Nat, snap : Snaps])]
           /\ bounds' \in (0..MaxChanges) \X (0..MaxSelects) \X (0..MaxRestarts)
<1>1. changes' \in 0..MaxChanges
  BY RegistryAssumption DEF TypeOK, Begin, bounds
<1>. QED
  BY <1>1 DEF TypeOK, Begin, bounds

-----------------------------------------------------------------------------
(* Types, one step for each kind of action.                                  *)
LEMMA InitTypes == Init => TypeOK
<1> SUFFICES ASSUME Init PROVE TypeOK
  OBVIOUS
<1> DEFINE seed == [status |-> "active", trust |-> 94, config |-> DefaultConfig]
<1>1. seed \in AgentState /\ seed # NoRow
  BY RegistryAssumption DEF AgentState
<1>2. rows \in [Agents -> AgentState \cup {NoRow}] /\ past \in [Agents -> SUBSET AgentState]
  BY <1>1 DEF Init
<1>3. history \in [Agents -> Seq([version : Nat, snap : Snaps])]
  BY DEF Init
<1>4. bounds \in (0..MaxChanges) \X (0..MaxSelects) \X (0..MaxRestarts)
  BY RegistryAssumption DEF Init, bounds
<1>. QED
  BY <1>2, <1>3, <1>4 DEF Init, TypeOK

LEMMA StateChanges ==
    ASSUME NEW x \in AgentState
    PROVE  /\ \A c \in Configs : [x EXCEPT !.config = c] \in AgentState
           /\ [status |-> "suspended", trust |-> x.trust - 20, config |-> x.config] \in AgentState
           /\ [x EXCEPT !.status = "active"] \in AgentState
           /\ [status |-> "revoked", trust |-> 0, config |-> x.config] \in AgentState
<1>1. ASSUME NEW c \in Configs PROVE [x EXCEPT !.config = c] \in AgentState
  BY DEF AgentState
<1>2. [status |-> "suspended", trust |-> x.trust - 20, config |-> x.config] \in AgentState
  BY DEF AgentState
<1>3. [x EXCEPT !.status = "active"] \in AgentState
  BY DEF AgentState
<1>4. [status |-> "revoked", trust |-> 0, config |-> x.config] \in AgentState
  BY DEF AgentState
<1>. QED
  BY <1>1, <1>2, <1>3, <1>4

LEMMA ChangeTypes ==
    ASSUME TypeOK, NEW r \in Requests, NEW a \in Agents, Change(r, a)
    PROVE  TypeOK'
<1>1. ASSUME NEW c \in Configs, Create(r, a, c) PROVE TypeOK'
  <2> DEFINE state == [status |-> "active", trust |-> 100, config |-> c]
  <2>1. state \in AgentState /\ "created" \in Actions
    BY DEF AgentState, Actions
  <2>2. Step(a, "created", "read", NoSnap) \in Tasks
    BY <2>1, StepTypes
  <2>. QED
    BY <1>1, <2>1, <2>2, SetRowTypes, BeginTypes DEF Create, TypeOK
<1>2. ASSUME NEW c \in Configs, Update(r, a, c) PROVE TypeOK'
  <2> DEFINE state == [rows[a] EXCEPT !.config = c]
  <2>0. rows[a] \in AgentState
    BY <1>2 DEF Update, TypeOK
  <2>1. state \in AgentState /\ "updated" \in Actions
    BY <2>0, StateChanges DEF Actions
  <2>2. Step(a, "updated", "read", NoSnap) \in Tasks
    BY <2>1, StepTypes
  <2>3. SetRow(a, state, "updated") /\ Begin(r, Step(a, "updated", "read", NoSnap)) /\ UNCHANGED current
    BY <1>2 DEF Update
  <2> HIDE DEF state
  <2>. QED
    BY <2>1, <2>2, <2>3, SetRowTypes, BeginTypes DEF TypeOK
<1>3. ASSUME Suspend(r, a) PROVE TypeOK'
  <2> DEFINE state == [status |-> "suspended", trust |-> rows[a].trust - 20,
                 config |-> rows[a].config]
  <2>0. rows[a] \in AgentState
    BY <1>3 DEF Suspend, TypeOK
  <2>1. state \in AgentState /\ "suspended" \in Actions
    BY <2>0, StateChanges DEF Actions
  <2>2. Step(a, "suspended", "number", Snap(a, state)) \in Tasks
    BY <2>1, StepTypes, SnapTypes
  <2>3. SetRow(a, state, "suspended") /\ Begin(r, Step(a, "suspended", "number", Snap(a, state))) /\ UNCHANGED current
    BY <1>3 DEF Suspend
  <2> HIDE DEF state
  <2>. QED
    BY <2>1, <2>2, <2>3, SetRowTypes, BeginTypes DEF TypeOK
<1>4. ASSUME Activate(r, a) PROVE TypeOK'
  <2> DEFINE state == [rows[a] EXCEPT !.status = "active"]
  <2>0. rows[a] \in AgentState
    BY <1>4 DEF Activate, TypeOK
  <2>1. state \in AgentState /\ "activated" \in Actions
    BY <2>0, StateChanges DEF Actions
  <2>2. Step(a, "activated", "number", Snap(a, state)) \in Tasks
    BY <2>1, StepTypes, SnapTypes
  <2>3. SetRow(a, state, "activated") /\ Begin(r, Step(a, "activated", "number", Snap(a, state))) /\ UNCHANGED current
    BY <1>4 DEF Activate
  <2> HIDE DEF state
  <2>. QED
    BY <2>1, <2>2, <2>3, SetRowTypes, BeginTypes DEF TypeOK
<1>5. ASSUME Revoke(r, a) PROVE TypeOK'
  <2> DEFINE state == [status |-> "revoked", trust |-> 0, config |-> rows[a].config]
  <2>0. rows[a] \in AgentState
    BY <1>5 DEF Revoke, TypeOK
  <2>1. state \in AgentState /\ "revoked" \in Actions
    BY <2>0, StateChanges DEF Actions
  <2>2. Step(a, "revoked", "read", NoSnap) \in Tasks
    BY <2>1, StepTypes
  <2>3. SetRow(a, state, "revoked") /\ Begin(r, Step(a, "revoked", "read", NoSnap)) /\ current' = current \ {a}
    BY <1>5 DEF Revoke
  <2> HIDE DEF state
  <2>. QED
    BY <2>1, <2>2, <2>3, SetRowTypes, BeginTypes DEF TypeOK
<1>6. ASSUME NEW v \in 1..MaxChanges, Rollback(r, a, v) PROVE TypeOK'
  <2>1. [Step(a, "rollback", "fetch", NoSnap) EXCEPT !.version = v] \in Tasks
    BY RegistryAssumption DEF Step, Tasks, Actions
  <2>. QED
    BY <1>6, <2>1, BeginTypes DEF Rollback, TypeOK
<1>7. ASSUME Restore(r, a) PROVE TypeOK'
  <2>1. Step(a, "restore", "find", NoSnap) \in Tasks
    BY StepTypes DEF Actions
  <2>. QED
    BY <1>7, <2>1, BeginTypes DEF Restore, TypeOK
<1>. QED
  BY <1>1, <1>2, <1>3, <1>4, <1>5, <1>6, <1>7 DEF Change

(* An entry of the history has a number and a snapshot.                      *)
LEMMA EntryTypes ==
    ASSUME TypeOK, NEW a \in Agents, NEW e \in Entries(a)
    PROVE  e.version \in Nat /\ e.snap \in Snaps
<1>1. PICK i \in DOMAIN history[a] : e = history[a][i]
  BY DEF Entries
<1>2. history[a] \in Seq([version : Nat, snap : Snaps])
  BY DEF TypeOK
<1>3. i \in 1..Len(history[a])
  BY <1>2
<1>4. e \in [version : Nat, snap : Snaps]
  BY <1>1, <1>2, <1>3, ElementOfSeq
<1>. QED
  BY <1>4

(* Steps of a request: the fields they set.                                  *)
LEMMA AdvanceTypes ==
    ASSUME TypeOK, NEW r \in Requests, req[r] \in Tasks,
           NEW step \in {"find", "fetch", "write", "read", "number", "insert"}
    PROVE  /\ \A v \in Nat : [req EXCEPT ![r].step = step, ![r].version = v]
                                \in [Requests -> Tasks \cup {Idle}]
           /\ \A snap \in Snaps : [req EXCEPT ![r].step = step, ![r].snap = snap]
                                \in [Requests -> Tasks \cup {Idle}]
           /\ [req EXCEPT ![r].step = step] \in [Requests -> Tasks \cup {Idle}]
BY DEF TypeOK, Tasks

-----------------------------------------------------------------------------
(* The strengthening.  A number that a request has chosen but not yet        *)
(* inserted is at most one more than the versions there are, and stays so as *)
(* others insert theirs; the snapshot a request carries was true of the      *)
(* agent it names when it was taken.                                         *)
Gapless(a) == \E n \in Nat : Versions(a) = 1..n
Numbering ==
    /\ \A a \in Agents : Gapless(a)
    /\ \A r \in Requests :
          At(r, "insert")
            => \E n \in Nat : req[r].version = n + 1 /\ 1..n \subseteq Versions(req[r].agent)

Truthful(snap) == snap \in Snaps /\ snap.state \in past[snap.agent]
Truths ==
    /\ \A a \in Agents : rows[a] # NoRow => rows[a] \in past[a]
    /\ \A r \in Requests : req[r] # Idle => rows[req[r].agent] # NoRow
    /\ \A r \in Requests :
          At(r, "write") \/ At(r, "number") \/ At(r, "insert") => Truthful(req[r].snap)
    /\ \A a \in Agents : \A e \in Entries(a) : Truthful(e.snap)

IInv == TypeOK /\ Numbering /\ Truths

(* An agent without an entry gets version 1, any other the next number.      *)
LEMMA NextVersionIsNext ==
    ASSUME TypeOK, NEW a \in Agents, NEW n \in Nat, Versions(a) = 1..n
    PROVE  NextVersion(a) = n + 1
<1>1. CASE history[a] = <<>>
  <2>1. Versions(a) = {}
    BY <1>1 DEF Versions
  <2>2. n \notin 1..n
    BY <2>1
  <2>3. n = 0
    BY <2>2
  <2>. QED
    BY <1>1, <2>3 DEF NextVersion
<1>2. CASE history[a] # <<>>
  <2>1. history[a] \in Seq([version : Nat, snap : Snaps])
    BY DEF TypeOK
  <2>2. 1 \in DOMAIN history[a]
    BY <1>2, <2>1, EmptySeq, LenProperties
  <2>3. history[a][1].version \in Versions(a)
    BY <2>2 DEF Versions
  <2>4. n \in Versions(a) /\ \A w \in Versions(a) : w <= n
    BY <2>3
  <2>5. \A v \in Versions(a) : (\A w \in Versions(a) : w <= v) => v = n
    BY <2>4
  <2> DEFINE m == CHOOSE v \in Versions(a) : \A w \in Versions(a) : w <= v
  <2>6. m = n
    BY <2>4, <2>5
  <2>7. NextVersion(a) = 1 + m
    BY <1>2 DEF NextVersion
  <2> HIDE DEF m
  <2>. QED
    BY <2>6, <2>7
<1>. QED
  BY <1>1, <1>2

(* An appended entry has a place of its own.                                 *)
LEMMA AppendedElement ==
    ASSUME NEW S, NEW h \in Seq(S), NEW e \in S
    PROVE  /\ Append(h, e) \in Seq(S)
           /\ DOMAIN Append(h, e) = DOMAIN h \cup {Len(h) + 1}
           /\ Append(h, e)[Len(h) + 1] = e
           /\ \A i \in DOMAIN h : Append(h, e)[i] = h[i]
BY AppendProperties, LenProperties

(* Insert adds its entry to those of its agent and to no others.             *)
LEMMA InsertAdds ==
    ASSUME IInv, NEW r \in Requests, Insert(r), NEW b, b = req[r].agent
    PROVE  LET e == [version |-> req[r].version, snap |-> req[r].snap]
           IN  /\ e \in [version : Nat, snap : Snaps]
               /\ history' \in [Agents -> Seq([version : Nat, snap : Snaps])]
               /\ Entries(b)' = Entries(b) \cup {e}
               /\ Versions(b)' = Versions(b) \cup {e.version}
               /\ \A a \in Agents \ {b} :
                     Entries(a)' = Entries(a) /\ Versions(a)' = Versions(a)
<1> DEFINE e == [version |-> req[r].version, snap |-> req[r].snap]
           h == history[b]
<1>1. At(r, "insert") /\ TypeOK
  BY DEF Insert, IInv
<1>2. b \in Agents /\ req[r].version \in Nat /\ req[r].snap \in Snaps
  BY <1>1, TaskTypes DEF IInv, Truths, Truthful
<1>3. e \in [version : Nat, snap : Snaps]
  BY <1>2
<1>4. h \in Seq([version : Nat, snap : Snaps])
  BY <1>1, <1>2 DEF TypeOK
<1>5. history' = [history EXCEPT ![b] = Append(h, e)]
  BY DEF Insert
<1>6. DOMAIN history = Agents
  BY <1>1 DEF TypeOK
<1>7. history'[b] = Append(h, e) /\ \A a \in Agents \ {b} : history'[a] = history[a]
  BY <1>2, <1>5, <1>6
<1>8. PICK k : /\ history'[b] \in Seq([version : Nat, snap : Snaps])
               /\ DOMAIN history'[b] = DOMAIN history[b] \cup {k}
               /\ history'[b][k] = e
               /\ \A i \in DOMAIN history[b] : history'[b][i] = history[b][i]
  <2> HIDE DEF e
  <2>. QED
    BY <1>3, <1>4, <1>7, AppendedElement
<1>9. history' \in [Agents -> Seq([version : Nat, snap : Snaps])]
  <2> HIDE DEF e
  <2>. QED
    BY <1>1, <1>2, <1>5, <1>7, <1>8 DEF TypeOK
<1>10. Entries(b)' = Entries(b) \cup {e}
  <2> HIDE DEF e
  <2>. QED
    BY <1>8 DEF Entries
<1>11. Versions(b)' = Versions(b) \cup {e.version}
  <2> HIDE DEF e
  <2>. QED
    BY <1>8 DEF Versions
<1>12. ASSUME NEW a \in Agents \ {b}
       PROVE  Entries(a)' = Entries(a) /\ Versions(a)' = Versions(a)
  BY <1>7 DEF Entries, Versions
<1>. QED
  BY <1>3, <1>9, <1>10, <1>11, <1>12

-----------------------------------------------------------------------------
(* The actions, by what they do to the invariant.                            *)

(* The first step of a request changes at most the row of its agent, to a    *)
(* state it records as past, and carries no snapshot but that of the new     *)
(* row.                                                                      *)
LEMMA ChangeEffects ==
    ASSUME TypeOK, NEW r \in Requests, NEW a \in Agents, Change(r, a)
    PROVE  /\ history' = history
           /\ \A q \in Requests \ {r} : req'[q] = req[q]
           /\ req'[r].step \in {"find", "fetch", "read", "number"}
           /\ req'[r].agent = a /\ rows'[a] # NoRow
           /\ \A b \in Agents : rows[b] # NoRow => rows'[b] # NoRow
           /\ req'[r].step = "number" => req'[r].snap = Snap(a, rows'[a])
           /\ \A b \in Agents : past[b] \subseteq past'[b]
           /\ \A b \in Agents : rows'[b] = rows[b] \/ rows'[b] \in past'[b]
           /\ rows'[a] # rows[a] \/ req'[r].step = "number" => rows'[a] \in past'[a]
<1> DEFINE Effects ==
              /\ history' = history
              /\ \A q \in Requests \ {r} : req'[q] = req[q]
              /\ req'[r].step \in {"find", "fetch", "read", "number"}
              /\ req'[r].agent = a /\ rows'[a] # NoRow
              /\ \A b \in Agents : rows[b] # NoRow => rows'[b] # NoRow
              /\ req'[r].step = "number" => req'[r].snap = Snap(a, rows'[a])
              /\ \A b \in Agents : past[b] \subseteq past'[b]
              /\ \A b \in Agents : rows'[b] = rows[b] \/ rows'[b] \in past'[b]
              /\ rows'[a] # rows[a] \/ req'[r].step = "number" => rows'[a] \in past'[a]
<1>1. ASSUME NEW state, NEW action, NEW step \in {"read", "number"}, NEW snap,
             step = "number" => snap = Snap(a, state), state # NoRow,
             SetRow(a, state, action), Begin(r, Step(a, action, step, snap))
      PROVE  Effects
  <2>1. rows'[a] = state /\ \A b \in Agents \ {a} : rows'[b] = rows[b]
    BY <1>1 DEF SetRow, TypeOK
  <2>2. state \in past'[a] /\ \A b \in Agents : past[b] \subseteq past'[b]
    BY <1>1 DEF SetRow, TypeOK
  <2>3. req'[r] = Step(a, action, step, snap) /\ history' = history
    BY <1>1 DEF Begin, TypeOK
  <2>4. \A q \in Requests \ {r} : req'[q] = req[q]
    BY <1>1 DEF Begin, TypeOK
  <2>5. req'[r].step = step /\ req'[r].snap = snap /\ req'[r].agent = a
    BY <2>3 DEF Step
  <2>. QED
    BY <1>1, <2>1, <2>2, <2>3, <2>4, <2>5
<1>2. ASSUME NEW task, task.step \in {"find", "fetch"}, Begin(r, task),
             task.agent = a, rows[a] # NoRow, UNCHANGED <<rows, past>>
      PROVE  Effects
  <2>1. req'[r] = task /\ history' = history /\ \A q \in Requests \ {r} : req'[q] = req[q]
    BY <1>2 DEF Begin, TypeOK
  <2>. QED
    BY <1>2, <2>1
<1> HIDE DEF Effects
<1>0. \A x \in AgentState : x # NoRow
  BY RegistryAssumption
<1>3. ASSUME NEW c \in Configs, Create(r, a, c) \/ Update(r, a, c) PROVE Effects
  <2>1. [status |-> "active", trust |-> 100, config |-> c] # NoRow
    BY <1>0 DEF AgentState
  <2>2. Update(r, a, c) => [rows[a] EXCEPT !.config = c] # NoRow
    BY <1>0, StateChanges DEF Update, TypeOK
  <2>. QED
    BY <1>1, <1>3, <2>1, <2>2 DEF Create, Update
<1>4. ASSUME Suspend(r, a) PROVE Effects
  <2>1. [status |-> "suspended", trust |-> rows[a].trust - 20,
              config |-> rows[a].config] # NoRow
    BY <1>4, <1>0, StateChanges DEF Suspend, TypeOK
  <2>. QED
    BY <1>1, <1>4, <2>1 DEF Suspend
<1>5. ASSUME Activate(r, a) PROVE Effects
  <2>1. [rows[a] EXCEPT !.status = "active"] # NoRow
    BY <1>5, <1>0, StateChanges DEF Activate, TypeOK
  <2>. QED
    BY <1>1, <1>5, <2>1 DEF Activate
<1>6. ASSUME Revoke(r, a) PROVE Effects
  <2>1. [status |-> "revoked", trust |-> 0, config |-> rows[a].config] # NoRow
    BY <1>6, <1>0, StateChanges DEF Revoke, TypeOK
  <2>. QED
    BY <1>1, <1>6, <2>1 DEF Revoke
<1>7. ASSUME NEW v \in 1..MaxChanges, Rollback(r, a, v) PROVE Effects
  <2> DEFINE task == [Step(a, "rollback", "fetch", NoSnap) EXCEPT !.version = v]
  <2>1. task.step = "fetch" /\ task.agent = a
    BY DEF Step
  <2>2. Begin(r, task) /\ rows[a] # NoRow /\ UNCHANGED <<rows, past>>
    BY <1>7 DEF Rollback
  <2> HIDE DEF task
  <2>. QED
    BY <1>2, <2>1, <2>2
<1>8. ASSUME Restore(r, a) PROVE Effects
  <2>1. Step(a, "restore", "find", NoSnap).step = "find" /\ Step(a, "restore", "find", NoSnap).agent = a
    BY DEF Step
  <2>. QED
    BY <1>2, <1>8, <2>1 DEF Restore
<1>9. Effects
  BY <1>3, <1>4, <1>5, <1>6, <1>7, <1>8 DEF Change
<1>. QED
  BY <1>9 DEF Effects

(* Every other step of a request leaves the other requests as they are.      *)
Advance(r) == FindPrior(r) \/ Fetch(r) \/ WriteBack(r) \/ ReadBack(r) \/ Number(r) \/ Insert(r)

LEMMA AdvanceAlone ==
    ASSUME TypeOK, NEW r \in Requests, Advance(r)
    PROVE  /\ req[r] \in Tasks
           /\ \A q \in Requests \ {r} : req'[q] = req[q]
           /\ req'[r] = Idle \/ req'[r].agent = req[r].agent
           /\ Insert(r) \/ history' = history
           /\ WriteBack(r) \/ UNCHANGED <<rows, past>>
<1>1. req[r] \in Tasks
  BY DEF Advance, FindPrior, Fetch, WriteBack, ReadBack, Number, Insert, At, TypeOK
<1>2. \A q \in Requests \ {r} : req'[q] = req[q]
  BY DEF Advance, FindPrior, Fetch, WriteBack, ReadBack, Number, Insert, Proceed, TypeOK
<1>3. req'[r] = Idle \/ req'[r].agent = req[r].agent
  BY <1>1 DEF Advance, FindPrior, Fetch, WriteBack, ReadBack, Number, Insert, Proceed, TypeOK,
              Tasks, Newest
<1>. QED
  BY <1>1, <1>2, <1>3 DEF Advance, FindPrior, Fetch, WriteBack, ReadBack, Number, Insert

LEMMA AdvanceKeepsTypes ==
    ASSUME IInv, NEW r \in Requests, Advance(r)
    PROVE  TypeOK'
<1>0. TypeOK /\ req[r] \in Tasks /\ req[r].agent \in Agents /\ req[r].action \in Actions
  BY AdvanceAlone DEF IInv, Tasks
<1>1. ASSUME FindPrior(r) PROVE TypeOK'
  <2>1. req' \in [Requests -> Tasks \cup {Idle}]
    <3>1. CASE req' = [req EXCEPT ![r] = Idle]
      BY <1>0, <3>1 DEF TypeOK
    <3>2. ASSUME NEW e \in Entries(req[r].agent),
                 req' = [req EXCEPT ![r].step = "fetch", ![r].version = e.version]
          PROVE  req' \in [Requests -> Tasks \cup {Idle}]
      BY <1>0, <3>2, EntryTypes, AdvanceTypes
    <3>. QED
      BY <1>1, <3>1, <3>2 DEF FindPrior, Newest
  <2>. QED
    BY <1>0, <1>1, <2>1 DEF FindPrior, TypeOK, bounds
<1>2. ASSUME Fetch(r) PROVE TypeOK'
  <2>1. req' \in [Requests -> Tasks \cup {Idle}]
    <3>1. CASE req' = [req EXCEPT ![r] = Idle]
      BY <1>0, <3>1 DEF TypeOK
    <3>2. ASSUME NEW e \in Entries(req[r].agent),
                 req' = [req EXCEPT ![r].step = "write", ![r].snap = e.snap]
          PROVE  req' \in [Requests -> Tasks \cup {Idle}]
      BY <1>0, <3>2, EntryTypes, AdvanceTypes
    <3>. QED
      BY <1>2, <3>1, <3>2 DEF Fetch
  <2>. QED
    BY <1>0, <1>2, <2>1 DEF Fetch, TypeOK, bounds
<1>3. ASSUME WriteBack(r) PROVE TypeOK'
  <2>1. req[r].snap.state \in AgentState
    BY <1>3 DEF WriteBack, IInv, Truths, Truthful, Snaps
  <2>2. SetRow(req[r].agent, req[r].snap.state, req[r].action)
    BY <1>3 DEF WriteBack
  <2>3. /\ rows' \in [Agents -> AgentState \cup {NoRow}]
        /\ past' \in [Agents -> SUBSET AgentState]
        /\ lastWrite' \in [Agents -> Actions \cup {"none"}]
        /\ \A b \in Agents : rows[b] # NoRow => rows'[b] # NoRow
    BY <1>0, <2>1, <2>2, SetRowTypes
  <2>4. req' \in [Requests -> Tasks \cup {Idle}]
    BY <1>0, <1>3, AdvanceTypes DEF WriteBack, Proceed
  <2>. QED
    BY <1>0, <1>3, <2>3, <2>4 DEF WriteBack, TypeOK, bounds
<1>4. ASSUME ReadBack(r) PROVE TypeOK'
  <2>1. req' \in [Requests -> Tasks \cup {Idle}]
    <3>1. CASE req' = [req EXCEPT ![r] = Idle]
      BY <1>0, <3>1 DEF TypeOK
    <3>2. ASSUME NEW a \in Agents, rows[a] \in AgentState,
                 req' = [req EXCEPT ![r].step = "number", ![r].snap = Snap(a, rows[a])]
          PROVE  req' \in [Requests -> Tasks \cup {Idle}]
      BY <1>0, <3>2, SnapTypes, AdvanceTypes
    <3>3. \A a \in current \cup {req[r].agent} : a \in Agents /\ rows[a] \in AgentState
      BY <1>0, <1>4 DEF IInv, Truths, TypeOK, ReadBack, At
    <3>. QED
      BY <1>4, <3>1, <3>2, <3>3 DEF ReadBack
  <2>. QED
    BY <1>0, <1>4, <2>1 DEF ReadBack, TypeOK, bounds
<1>5. ASSUME Number(r) PROVE TypeOK'
  <2>1. PICK n \in Nat : Versions(req[r].agent) = 1..n
    BY <1>0 DEF IInv, Numbering, Gapless
  <2>2. NextVersion(req[r].agent) \in Nat
    BY <1>0, <2>1, NextVersionIsNext
  <2>3. req' \in [Requests -> Tasks \cup {Idle}]
    BY <1>0, <1>5, <2>2, AdvanceTypes DEF Number
  <2>. QED
    BY <1>0, <1>5, <2>3 DEF Number, TypeOK, bounds
<1>6. ASSUME Insert(r) PROVE TypeOK'
  <2>1. history' \in [Agents -> Seq([version : Nat, snap : Snaps])]
    BY <1>6, InsertAdds
  <2>. QED
    BY <1>0, <1>6, <2>1 DEF Insert, TypeOK, bounds
<1>. QED
  BY <1>1, <1>2, <1>3, <1>4, <1>5, <1>6 DEF Advance

(* Steps that append nothing and choose no number keep the numbering.        *)
LEMMA NumberingKept ==
    ASSUME Numbering, history' = history,
           \A r \in Requests : At(r, "insert")' => At(r, "insert") /\ req'[r] = req[r]
    PROVE  Numbering'
<1>1. \A a \in Agents : Versions(a)' = Versions(a)
  BY DEF Versions
<1>2. \A a \in Agents : Gapless(a)'
  BY <1>1 DEF Numbering, Gapless
<1>3. ASSUME NEW r \in Requests, At(r, "insert")'
      PROVE  \E n \in Nat : (req[r].version = n + 1 /\ 1..n \subseteq Versions(req[r].agent))'
  <2>1. At(r, "insert") /\ req'[r] = req[r]
    BY <1>3
  <2>2. PICK n \in Nat : req[r].version = n + 1 /\ 1..n \subseteq Versions(req[r].agent)
    BY <2>1 DEF Numbering
  <2>3. Versions(req[r].agent)' = Versions(req[r].agent)
    BY <2>1 DEF Versions
  <2>. QED
    BY <2>1, <2>2, <2>3
<1>. QED
  BY <1>2, <1>3 DEF Numbering

LEMMA AdvanceKeepsNumbering ==
    ASSUME IInv, NEW r \in Requests, Advance(r)
    PROVE  Numbering'
<1>0. /\ TypeOK /\ Numbering /\ req[r] \in Tasks /\ req[r].agent \in Agents
      /\ \A q \in Requests \ {r} : req'[q] = req[q]
  BY AdvanceAlone DEF IInv, Tasks
<1>1. CASE FindPrior(r) \/ Fetch(r) \/ WriteBack(r) \/ ReadBack(r)
  <2>1. history' = history
    BY <1>1 DEF FindPrior, Fetch, WriteBack, ReadBack
  <2>2. req'[r] = Idle \/ req'[r].step \in {"fetch", "write", "read", "number"}
    BY <1>0, <1>1 DEF FindPrior, Fetch, WriteBack, ReadBack, Proceed, TypeOK, Tasks, Newest
  <2>. QED
    BY <1>0, <2>1, <2>2, NumberingKept DEF At
<1>2. CASE Number(r)
  <2> DEFINE b == req[r].agent
  <2>1. PICK n \in Nat : Versions(b) = 1..n
    BY <1>0 DEF Numbering, Gapless
  <2>2. req'[r].version = n + 1 /\ req'[r].agent = b /\ history' = history
    BY <1>0, <1>2, <2>1, NextVersionIsNext DEF Number, TypeOK, Tasks
  <2>3. \A a \in Agents : Versions(a)' = Versions(a)
    BY <2>2 DEF Versions
  <2>4. ASSUME NEW q \in Requests, At(q, "insert")'
        PROVE  \E m \in Nat : (req[q].version = m + 1 /\ 1..m \subseteq Versions(req[q].agent))'
    <3>1. CASE q = r
      <4>1. 1..n \subseteq Versions(req[q].agent)'
        BY <2>1, <2>2, <3>1 DEF Versions
      <4>. QED
        BY <2>2, <3>1, <4>1
    <3>2. CASE q # r
      <4>1. req'[q] = req[q] /\ At(q, "insert")
        BY <1>0, <2>4, <3>2 DEF At
      <4>2. PICK m \in Nat : req[q].version = m + 1 /\ 1..m \subseteq Versions(req[q].agent)
        BY <1>0, <4>1 DEF Numbering
      <4>3. Versions(req[q].agent)' = Versions(req[q].agent)
        BY <2>2, <4>1 DEF Versions
      <4>. QED
        BY <4>1, <4>2, <4>3
    <3>. QED
      BY <3>1, <3>2
  <2>5. \A a \in Agents : Gapless(a)'
    BY <1>0, <2>3 DEF Numbering, Gapless
  <2>. QED
    BY <2>4, <2>5 DEF Numbering
<1>3. CASE Insert(r)
  <2>1. PICK b \in Agents : b = req[r].agent
    BY <1>0
  <2>2. /\ Versions(b)' = Versions(b) \cup {req[r].version}
        /\ \A a \in Agents \ {b} : Versions(a)' = Versions(a)
    BY <1>3, <2>1, InsertAdds
  <2>3. PICK n \in Nat : Versions(b) = 1..n
    BY <1>0 DEF Numbering, Gapless
  <2>4. PICK m \in Nat : req[r].version = m + 1 /\ 1..m \subseteq Versions(b)
    BY <1>0, <1>3, <2>1 DEF Numbering, Insert
  <2>5. m <= n
    BY <2>3, <2>4
  <2>6. Versions(b)' = 1..n \/ Versions(b)' = 1..(n + 1)
    BY <2>2, <2>3, <2>4, <2>5
  <2>7. \A a \in Agents : Gapless(a)'
    <3>1. Gapless(b)'
      BY <2>6 DEF Gapless
    <3>2. ASSUME NEW a \in Agents \ {b} PROVE Gapless(a)'
      BY <1>0, <2>2 DEF Numbering, Gapless
    <3>. QED
      BY <3>1, <3>2
  <2>8. req'[r] = Idle
    BY <1>0, <1>3 DEF Insert, TypeOK
  <2>9. ASSUME NEW q \in Requests, At(q, "insert")'
        PROVE  \E k \in Nat : (req[q].version = k + 1 /\ 1..k \subseteq Versions(req[q].agent))'
    <3>1. q # r /\ req'[q] = req[q] /\ At(q, "insert")
      BY <1>0, <2>8, <2>9 DEF At
    <3>2. PICK k \in Nat : req[q].version = k + 1 /\ 1..k \subseteq Versions(req[q].agent)
      BY <1>0, <3>1 DEF Numbering
    <3>3. PICK c \in Agents : c = req[q].agent
      BY <1>0, <3>1, TaskTypes
    <3>4. Versions(c) \subseteq Versions(c)'
      BY <2>2
    <3>5. Versions(req[q].agent)' = Versions(c)'
      BY <3>1, <3>3 DEF Versions
    <3>. QED
      BY <3>1, <3>2, <3>3, <3>4, <3>5
  <2>. QED
    BY <2>7, <2>9 DEF Numbering
<1>. QED
  BY <1>1, <1>2, <1>3 DEF Advance

(* A change of a row keeps the history and the snapshots others carry.       *)
LEMMA ChangeKeepsIInv ==
    ASSUME IInv, NEW r \in Requests, NEW a \in Agents, Change(r, a)
    PROVE  IInv'
<1>0. TypeOK /\ Numbering /\ Truths
  BY DEF IInv
<1>1. TypeOK'
  BY <1>0, ChangeTypes
<1>2. Numbering'
  <2>1. \A q \in Requests : At(q, "insert")' => At(q, "insert") /\ req'[q] = req[q]
    BY <1>0, ChangeEffects DEF At
  <2>. QED
    BY <1>0, <2>1, ChangeEffects, NumberingKept
<1>3. Truths'
  <2>1. ASSUME NEW b \in Agents, rows'[b] # NoRow PROVE rows'[b] \in past'[b]
    BY <1>0, <2>1, ChangeEffects DEF Truths
  <2>2. ASSUME NEW q \in Requests, req'[q] # Idle PROVE rows'[req'[q].agent] # NoRow
    <3>1. CASE q = r
      BY <1>0, <3>1, ChangeEffects
    <3>2. CASE q # r
      <4>0. req'[q] = req[q]
        BY <1>0, <3>2, ChangeEffects
      <4>1. req'[q] = req[q] /\ req[q].agent \in Agents /\ rows[req[q].agent] # NoRow
        BY <1>0, <2>2, <4>0 DEF Truths, TypeOK, Tasks
      <4>. QED
        BY <1>0, <4>1, ChangeEffects
    <3>. QED
      BY <3>1, <3>2
  <2>3. ASSUME NEW snap, Truthful(snap) PROVE Truthful(snap)'
    <3>1. snap \in Snaps /\ snap.agent \in Agents /\ snap.state \in past[snap.agent]
      BY <2>3 DEF Truthful, Snaps
    <3>2. past[snap.agent] \subseteq past'[snap.agent]
      BY <1>0, <3>1, ChangeEffects
    <3>. QED
      BY <3>1, <3>2 DEF Truthful
  <2>4. ASSUME NEW q \in Requests, (At(q, "write") \/ At(q, "number") \/ At(q, "insert"))'
        PROVE  Truthful(req[q].snap)'
    <3>1. CASE q = r
      <4>0. /\ req'[r].step \in {"find", "fetch", "read", "number"}
            /\ req'[r].step = "number" => req'[r].snap = Snap(a, rows'[a])
            /\ req'[r].step = "number" => rows'[a] \in past'[a]
            /\ rows'[a] # NoRow
        BY <1>0, ChangeEffects
      <4>1. req'[r].snap = Snap(a, rows'[a]) /\ rows'[a] \in past'[a] /\ rows'[a] # NoRow
        BY <2>4, <3>1, <4>0 DEF At
      <4>2. rows'[a] \in AgentState
        BY <1>1, <4>1 DEF TypeOK
      <4>. QED
        BY <3>1, <4>1, <4>2 DEF Truthful, Snap, Snaps
    <3>2. CASE q # r
      <4>1. req'[q] = req[q]
        BY <1>0, <3>2, ChangeEffects
      <4>2. Truthful(req[q].snap)
        BY <1>0, <2>4, <4>1 DEF Truths, At
      <4>. QED
        BY <2>3, <4>1, <4>2 DEF Truthful
    <3>. QED
      BY <3>1, <3>2
  <2>5. ASSUME NEW b \in Agents, NEW e \in Entries(b)' PROVE Truthful(e.snap)'
    <3>1. e \in Entries(b)
      BY <1>0, <2>5, ChangeEffects DEF Entries
    <3>. QED
      BY <1>0, <2>3, <3>1 DEF Truths
  <2>. QED
    BY <2>1, <2>2, <2>4, <2>5 DEF Truths
<1>. QED
  BY <1>1, <1>2, <1>3 DEF IInv

LEMMA AdvanceKeepsIInv ==
    ASSUME IInv, NEW r \in Requests, Advance(r)
    PROVE  IInv'
<1>0. /\ TypeOK /\ Truths /\ req[r] \in Tasks /\ req[r].agent \in Agents
      /\ \A q \in Requests \ {r} : req'[q] = req[q]
      /\ req'[r] = Idle \/ req'[r].agent = req[r].agent
  BY AdvanceAlone DEF IInv, Tasks
<1>1. TypeOK' /\ Numbering'
  BY AdvanceKeepsTypes, AdvanceKeepsNumbering
<1>2. (* the row written back is the state of a snapshot, and becomes past *)
      /\ \A b \in Agents : past[b] \subseteq past'[b]
      /\ \A b \in Agents : rows'[b] = rows[b] \/ rows'[b] \in past'[b]
      /\ \A b \in Agents : rows[b] # NoRow => rows'[b] # NoRow
  <2>1. CASE UNCHANGED <<rows, past>>
    BY <2>1
  <2>2. CASE WriteBack(r)
    <3>1. SetRow(req[r].agent, req[r].snap.state, req[r].action)
      BY <2>2 DEF WriteBack
    <3>2. req[r].snap.state \in AgentState
      BY <1>0, <2>2 DEF WriteBack, Truths, Truthful, Snaps
    <3>. QED
      BY <1>0, <3>1, <3>2, RegistryAssumption DEF SetRow, TypeOK
  <2>. QED
    BY <1>0, <2>1, <2>2, AdvanceAlone
<1>3. ASSUME NEW snap, Truthful(snap) PROVE Truthful(snap)'
  BY <1>2, <1>3 DEF Truthful, Snaps
<1>4. ASSUME NEW b \in Agents, rows'[b] # NoRow PROVE rows'[b] \in past'[b]
  BY <1>0, <1>2, <1>4 DEF Truths
<1>5. ASSUME NEW q \in Requests, req'[q] # Idle PROVE rows'[req'[q].agent] # NoRow
  <2>1. req[q] # Idle /\ req'[q].agent = req[q].agent /\ req[q].agent \in Agents
    BY <1>0, <1>5, AdvanceAlone DEF Advance, FindPrior, Fetch, WriteBack, ReadBack, Number, Insert,
                                    At, TypeOK, Tasks
  <2>2. rows[req[q].agent] # NoRow
    BY <1>0, <2>1 DEF Truths
  <2>. QED
    BY <1>2, <2>1, <2>2
<1>6. ASSUME NEW q \in Requests, (At(q, "write") \/ At(q, "number") \/ At(q, "insert"))'
      PROVE  Truthful(req[q].snap)'
  <2>1. CASE q # r
    <3>1. req'[q] = req[q] /\ Truthful(req[q].snap)
      BY <1>0, <1>6, <2>1 DEF Truths, At
    <3>. QED
      BY <1>3, <3>1 DEF Truthful
  <2>2. CASE q = r /\ Fetch(r)
    <3>1. PICK e \in Entries(req[r].agent) : req'[r].snap = e.snap
      BY <1>0, <1>6, <2>2 DEF Fetch, At, TypeOK, Tasks
    <3>. QED
      BY <1>0, <1>3, <2>2, <3>1 DEF Truths, Truthful
  <2>3. CASE q = r /\ ReadBack(r)
    <3>1. PICK a \in Agents : req'[r].snap = Snap(a, rows[a]) /\ rows[a] # NoRow
      <4>1. \A a \in current \cup {req[r].agent} : a \in Agents /\ rows[a] # NoRow
        BY <1>0, <2>3 DEF Truths, TypeOK, ReadBack, At
      <4>. QED
        BY <1>0, <1>6, <2>3, <4>1 DEF ReadBack, At, TypeOK, Tasks
    <3>2. Truthful(Snap(a, rows[a]))
      BY <1>0, <3>1 DEF Truths, Truthful, TypeOK, Snap, Snaps
    <3>. QED
      BY <1>3, <2>3, <3>1, <3>2 DEF Truthful
  <2>4. CASE q = r /\ Number(r)
    <3>1. req'[r].snap = req[r].snap /\ Truthful(req[r].snap)
      BY <1>0, <2>4 DEF Number, At, TypeOK, Tasks, Truths
    <3>. QED
      BY <1>3, <2>4, <3>1 DEF Truthful
  <2>5. CASE q = r /\ (FindPrior(r) \/ WriteBack(r) \/ Insert(r))
    <3>1. req'[r] = Idle \/ req'[r].step \in {"fetch", "read"}
      BY <1>0, <2>5 DEF FindPrior, WriteBack, Insert, Proceed, Newest, TypeOK, Tasks
    <3>. QED
      BY <1>6, <2>5, <3>1 DEF At
  <2>. QED
    BY <2>1, <2>2, <2>3, <2>4, <2>5 DEF Advance
<1>7. ASSUME NEW b \in Agents, NEW e \in Entries(b)' PROVE Truthful(e.snap)'
  <2>1. CASE history' = history
    <3>1. e \in Entries(b)
      BY <1>7, <2>1 DEF Entries
    <3>. QED
      BY <1>0, <1>3, <3>1 DEF Truths
  <2>2. CASE Insert(r)
    <3>1. PICK c \in Agents : c = req[r].agent
      BY <1>0
    <3>2. e \in Entries(b) \/ e.snap = req[r].snap
      BY <1>7, <2>2, <3>1, InsertAdds
    <3>3. Truthful(req[r].snap)
      BY <1>0, <2>2 DEF Truths, Insert
    <3>. QED
      BY <1>0, <1>3, <3>2, <3>3 DEF Truths
  <2>. QED
    BY <1>0, <2>1, <2>2, AdvanceAlone
<1>8. Truths'
  BY <1>4, <1>5, <1>6, <1>7 DEF Truths
<1>. QED
  BY <1>1, <1>8 DEF IInv

(* Selecting an agent disturbs only which one is current; a restart drops    *)
(* the requests.                                                             *)
LEMMA SelectKeepsIInv == ASSUME IInv, NEW a \in Agents, Select(a) PROVE IInv'
<1>1. TypeOK'
  <2>1. bounds' \in (0..MaxChanges) \X (0..MaxSelects) \X (0..MaxRestarts)
    BY RegistryAssumption DEF IInv, Select, TypeOK, bounds
  <2>2. current' \subseteq {b \in Agents : rows[b] # NoRow} /\ \A b, c \in current' : b = c
    BY DEF Select
  <2>. QED
    BY <2>1, <2>2 DEF IInv, Select, TypeOK
<1>2. Numbering'
  BY NumberingKept DEF IInv, Select, At
<1>3. Truths'
  BY DEF IInv, Select, Truths, Truthful, At, Entries
<1>. QED
  BY <1>1, <1>2, <1>3 DEF IInv

LEMMA RestartKeepsIInv == ASSUME IInv, Restart PROVE IInv'
<1>1. TypeOK'
  <2>1. bounds' \in (0..MaxChanges) \X (0..MaxSelects) \X (0..MaxRestarts)
    BY RegistryAssumption DEF IInv, Restart, TypeOK, bounds
  <2>. QED
    BY <2>1 DEF IInv, Restart, TypeOK
<1>2. Numbering'
  BY NumberingKept DEF IInv, Restart, At
<1>3. Truths'
  BY DEF IInv, Restart, Truths, Truthful, At, Entries
<1>. QED
  BY <1>1, <1>2, <1>3 DEF IInv

LEMMA InitIInv == Init => IInv
<1> SUFFICES ASSUME Init PROVE IInv
  OBVIOUS
<1>1. TypeOK
  BY InitTypes
<1>2. \A a \in Agents : Entries(a) = {} /\ Versions(a) = {}
  BY DEF Init, Entries, Versions
<1>3. {} = 1..0
  OBVIOUS
<1>4. Numbering
  BY <1>2, <1>3 DEF Init, Numbering, Gapless, At
<1>5. Truths
  BY <1>2 DEF Init, Truths, At
<1>. QED
  BY <1>1, <1>4, <1>5 DEF IInv

LEMMA StepIInv == IInv /\ [Next]_vars => IInv'
<1> SUFFICES ASSUME IInv, [Next]_vars PROVE IInv'
  OBVIOUS
<1>1. CASE UNCHANGED vars
  <2>1. TypeOK'
    BY <1>1 DEF IInv, TypeOK, vars, bounds
  <2>2. Numbering'
    BY <1>1, NumberingKept DEF IInv, vars, At
  <2>3. Truths'
    BY <1>1 DEF IInv, vars, Truths, Truthful, At, Entries
  <2>. QED
    BY <2>1, <2>2, <2>3 DEF IInv
<1>2. ASSUME NEW r \in Requests, NEW a \in Agents, Change(r, a) PROVE IInv'
  BY <1>2, ChangeKeepsIInv
<1>3. ASSUME NEW r \in Requests, Advance(r) PROVE IInv'
  BY <1>3, AdvanceKeepsIInv
<1>4. ASSUME NEW a \in Agents, Select(a) PROVE IInv'
  BY <1>4, SelectKeepsIInv
<1>5. CASE Restart
  BY <1>5, RestartKeepsIInv
<1>. QED
  BY <1>1, <1>2, <1>3, <1>4, <1>5 DEF Next, Advance

(* The inductive invariant holds.                                            *)
THEOREM Invariance == Spec => []IInv
BY InitIInv, StepIInv, PTL DEF Spec

(* Every variable of the registry keeps its type, and at most one agent is   *)
(* current.                                                                  *)
THEOREM TypeCorrect == Spec => []TypeOK
<1>1. IInv => TypeOK
  BY DEF IInv
<1>. QED
  BY <1>1, Invariance, PTL

(* Versions are numbered from one without a gap, for any number of requests  *)
(* that read the highest and insert the next side by side (history.py:52).   *)
THEOREM NoGaps == Spec => []VersionsHaveNoGaps
<1>1. IInv => VersionsHaveNoGaps
  <2> SUFFICES ASSUME IInv, NEW a \in Agents
               PROVE  Versions(a) = 1..Cardinality(Versions(a))
    BY DEF VersionsHaveNoGaps
  <2>1. PICK n \in Nat : Versions(a) = 1..n
    BY DEF IInv, Numbering, Gapless
  <2>2. Cardinality(1..n) = n
    BY FS_Interval
  <2>. QED
    BY <2>1, <2>2
<1>. QED
  BY <1>1, Invariance, PTL

(* A snapshot in the history was true of the agent it names, however the     *)
(* requests overlapped (agents.py:181).                                      *)
THEOREM HistoryIsTrue == Spec => []SnapshotsWereStates
<1>1. IInv => SnapshotsWereStates
  BY DEF IInv, Truths, Truthful, SnapshotsWereStates
<1>. QED
  BY <1>1, Invariance, PTL

-----------------------------------------------------------------------------
(* The present of an agent is recorded, or a request on its way will record  *)
(* it: it has the agent still to read back, or it carries the snapshot of    *)
(* the row as it is.  Of two overlapping requests the one that changed the   *)
(* row last does.                                                            *)
Carries(task, b, row) ==
    /\ task # Idle
    /\ task.agent = b
    /\ task.action # "created"
    /\ \/ task.step = "read"
       \/ task.step \in {"number", "insert"} /\ task.snap = Snap(b, row)
Recorded(b) == \E e \in Entries(b) : e.snap = Snap(b, rows[b])

Pending(task) ==
    task # Idle /\ task.step \in {"find", "fetch", "write"}
      => task.action \in {"rollback", "restore"}

Accounted(b) ==
    lastWrite[b] \notin {"none", "created"} /\ restarts = 0
      => Recorded(b) \/ \E q \in Requests : Carries(req[q], b, rows[b])

RInv == (\A q \in Requests : Pending(req[q])) /\ (\A b \in Agents : Accounted(b))

(* A step that leaves an agent's row alone keeps it accounted for, unless it *)
(* takes a carrier away.                                                     *)
LEMMA AccountedKept ==
    ASSUME NEW b \in Agents, NEW r \in Requests, Accounted(b),
           rows'[b] = rows[b], lastWrite'[b] = lastWrite[b], restarts' = restarts,
           Entries(b) \subseteq Entries(b)',
           \A q \in Requests \ {r} : req'[q] = req[q],
           Carries(req[r], b, rows[b])
             => Carries(req'[r], b, rows[b]) \/ Recorded(b)'
    PROVE  Accounted(b)'
<1> SUFFICES ASSUME lastWrite[b] \notin {"none", "created"}, restarts = 0
             PROVE  Recorded(b)' \/ \E q \in Requests : Carries(req'[q], b, rows'[b])
  BY DEF Accounted
<1>1. CASE Recorded(b)
  BY <1>1 DEF Recorded
<1>2. ASSUME NEW q \in Requests, Carries(req[q], b, rows[b])
      PROVE  Recorded(b)' \/ \E p \in Requests : Carries(req'[p], b, rows'[b])
  <2>1. CASE q = r
    BY <1>2, <2>1
  <2>2. CASE q # r
    BY <1>2, <2>2
  <2>. QED
    BY <2>1, <2>2
<1>. QED
  BY <1>1, <1>2 DEF Accounted

(* A request that begins changes at most the row of its agent, and then it   *)
(* is the one that will record it, a creation excepted.                      *)
LEMMA ChangeCarries ==
    ASSUME TypeOK, NEW r \in Requests, NEW a \in Agents, Change(r, a)
    PROVE  /\ req[r] = Idle
           /\ restarts' = restarts
           /\ Pending(req'[r])
           /\ \A b \in Agents \ {a} : rows'[b] = rows[b] /\ lastWrite'[b] = lastWrite[b]
           /\ \/ rows'[a] = rows[a] /\ lastWrite'[a] = lastWrite[a]
              \/ lastWrite'[a] = "created"
              \/ Carries(req'[r], a, rows'[a])
<1> DEFINE P == /\ req[r] = Idle
                /\ restarts' = restarts
                /\ Pending(req'[r])
                /\ \A b \in Agents \ {a} : rows'[b] = rows[b] /\ lastWrite'[b] = lastWrite[b]
                /\ \/ rows'[a] = rows[a] /\ lastWrite'[a] = lastWrite[a]
                   \/ lastWrite'[a] = "created"
                   \/ Carries(req'[r], a, rows'[a])
<1>0. /\ rows \in [Agents -> AgentState \cup {NoRow}]
      /\ lastWrite \in [Agents -> Actions \cup {"none"}]
      /\ r \in DOMAIN req
  BY DEF TypeOK
<1>1. ASSUME NEW state, NEW action, NEW task, SetRow(a, state, action), Begin(r, task),
             Pending(task),
             action = "created" \/ Carries(task, a, state)
      PROVE  P
  BY <1>0, <1>1 DEF SetRow, Begin
<1>2. ASSUME NEW task, Begin(r, task), UNCHANGED <<rows, lastWrite>>, Pending(task)
      PROVE  P
  BY <1>0, <1>2 DEF Begin
<1>i. ASSUME NEW task, Begin(r, task) PROVE req'[r] = task
  BY <1>0, <1>i DEF Begin
<1>5. ASSUME NEW action \in Actions, NEW snap \in Snaps \cup {NoSnap},
             NEW step \in {"find", "fetch", "read", "number"}
      PROVE  LET task == Step(a, action, step, snap)
             IN  /\ task # Idle /\ task.agent = a /\ task.action = action
                 /\ task.step = step /\ task.snap = snap
  <2>1. Step(a, action, step, snap) \in Tasks
    BY StepTypes
  <2>2. Step(a, action, step, snap) # Idle
    BY <2>1, RegistryAssumption
  <2>. QED
    BY <2>2 DEF Step
<1>6. \A action \in {"updated", "revoked"} : \A state :
         /\ Pending(Step(a, action, "read", NoSnap))
         /\ Carries(Step(a, action, "read", NoSnap), a, state)
  <2>1. {"updated", "revoked"} \subseteq Actions
    BY DEF Actions
  <2>. QED
    BY <1>5, <2>1 DEF Pending, Carries
<1>7. \A action \in {"suspended", "activated"}, state \in AgentState :
         /\ Pending(Step(a, action, "number", Snap(a, state)))
         /\ Carries(Step(a, action, "number", Snap(a, state)), a, state)
  <2>1. {"suspended", "activated"} \subseteq Actions
    BY DEF Actions
  <2>. QED
    BY <1>5, <2>1, SnapTypes DEF Pending, Carries
<1>8. "created" \in Actions /\ "rollback" \in Actions /\ "restore" \in Actions
  BY DEF Actions
<1>. HIDE DEF P
<1>9. ASSUME NEW c \in Configs, Create(r, a, c) PROVE P
  <2>1. Pending(Step(a, "created", "read", NoSnap))
    BY <1>5, <1>8 DEF Pending
  <2>. QED
    BY <1>1, <1>9, <2>1 DEF Create
<1>10. ASSUME NEW c \in Configs, Update(r, a, c) PROVE P
  BY <1>1, <1>6, <1>10 DEF Update
<1>11. ASSUME rows[a] # NoRow PROVE rows[a] \in AgentState
  BY <1>0, <1>11
<1>12. ASSUME Suspend(r, a) PROVE P
  <2> DEFINE state == [status |-> "suspended", trust |-> rows[a].trust - 20,
                       config |-> rows[a].config]
  <2>1. state \in AgentState
    BY <1>11, <1>12, StateChanges DEF Suspend
  <2>2. /\ SetRow(a, state, "suspended")
        /\ Begin(r, Step(a, "suspended", "number", Snap(a, state)))
    BY <1>12 DEF Suspend
  <2>. HIDE DEF state
  <2>. QED
    BY <1>1, <1>7, <2>1, <2>2
<1>13. ASSUME Activate(r, a) PROVE P
  <2> DEFINE state == [rows[a] EXCEPT !.status = "active"]
  <2>1. state \in AgentState
    BY <1>11, <1>13, StateChanges DEF Activate
  <2>2. /\ SetRow(a, state, "activated")
        /\ Begin(r, Step(a, "activated", "number", Snap(a, state)))
    BY <1>13 DEF Activate
  <2>. HIDE DEF state
  <2>. QED
    BY <1>1, <1>7, <2>1, <2>2
<1>14. ASSUME Revoke(r, a) PROVE P
  BY <1>1, <1>6, <1>14 DEF Revoke
<1>15. ASSUME NEW v, Rollback(r, a, v), v \in 1..MaxChanges PROVE P
  <2> DEFINE task == [Step(a, "rollback", "fetch", NoSnap) EXCEPT !.version = v]
  <2>1. task.action = "rollback"
    BY DEF Step
  <2>. HIDE DEF task
  <2>2. Begin(r, task) /\ UNCHANGED <<rows, lastWrite>>
    BY <1>15 DEF Rollback, task
  <2>. QED
    BY <1>2, <2>1, <2>2 DEF Pending
<1>16. ASSUME Restore(r, a) PROVE P
  <2>1. Pending(Step(a, "restore", "find", NoSnap))
    BY <1>5, <1>8 DEF Pending
  <2>. QED
    BY <1>2, <1>16, <2>1 DEF Restore
<1>17. P
  BY <1>9, <1>10, <1>12, <1>13, <1>14, <1>15, <1>16 DEF Change
<1>. QED
  BY <1>17 DEF P

(* What the later steps of a request do to it and to its agent's row.        *)
LEMMA AdvanceCarries ==
    ASSUME IInv, RInv, NEW r \in Requests, Advance(r)
    PROVE  RInv'
<1>0. /\ TypeOK /\ req[r] \in Tasks /\ req[r].agent \in Agents
      /\ \A q \in Requests \ {r} : req'[q] = req[q]
      /\ r \in DOMAIN req /\ Pending(req[r])
  BY AdvanceAlone DEF IInv, Tasks, TypeOK, RInv
<1>k. /\ \A x \in {"fetch", "write", "read", "number", "insert"} :
            [req EXCEPT ![r].step = x][r] = [req[r] EXCEPT !.step = x]
  BY <1>0
(* It is enough to look at the one request and the agents it touches.        *)
<1>1. ASSUME Pending(req'[r]), UNCHANGED restarts,
             \A b \in Agents : Accounted(b)'
      PROVE  RInv'
  <2>1. ASSUME NEW q \in Requests PROVE Pending(req'[q])
    <3>1. CASE q = r
      BY <1>1, <3>1
    <3>2. CASE q # r
      BY <1>0, <3>2 DEF RInv
    <3>. QED
      BY <3>1, <3>2
  <2>. QED
    BY <1>1, <2>1 DEF RInv
<1>2. ASSUME UNCHANGED <<rows, lastWrite, restarts, history>>, Pending(req'[r]),
             \A b \in Agents : Carries(req[r], b, rows[b]) => Carries(req'[r], b, rows[b])
      PROVE  RInv'
  <2>1. ASSUME NEW b \in Agents PROVE Accounted(b)'
    <3>1. Entries(b) \subseteq Entries(b)'
      BY <1>2 DEF Entries
    <3>. QED
      BY <1>0, <1>2, <3>1, AccountedKept DEF RInv
  <2>. QED
    BY <1>1, <1>2, <2>1
<1>3. CASE FindPrior(r) \/ Fetch(r)
  <2>1. UNCHANGED <<rows, lastWrite, restarts, history>>
    BY <1>3 DEF FindPrior, Fetch, bounds
  <2>2. \A b \in Agents : ~Carries(req[r], b, rows[b])
    BY <1>3 DEF FindPrior, Fetch, At, Carries
  <2>3. \/ req'[r] = Idle
        \/ req'[r].action = req[r].action
    BY <1>0, <1>3 DEF FindPrior, Fetch, Newest, Tasks
  <2>4. req[r].action \in {"rollback", "restore"}
    BY <1>0, <1>3 DEF FindPrior, Fetch, At, Pending
  <2>5. Pending(req'[r])
    BY <2>3, <2>4 DEF Pending
  <2>. QED
    BY <1>2, <2>1, <2>2, <2>5
<1>4. CASE WriteBack(r)
  <2> DEFINE a == req[r].agent
             state == req[r].snap.state
  <2>1. /\ SetRow(a, state, req[r].action) /\ req' = [req EXCEPT ![r].step = "read"]
        /\ UNCHANGED <<history, restarts>>
        /\ req[r].action \in {"rollback", "restore"}
    BY <1>0, <1>4 DEF WriteBack, Proceed, At, Pending, bounds
  <2>2. /\ req'[r] \in Tasks /\ req'[r].agent = a /\ req'[r].step = "read"
        /\ req'[r].action = req[r].action
    BY <1>0, <2>1 DEF Tasks
  <2>3. req'[r] # Idle /\ Pending(req'[r])
    BY <2>2, RegistryAssumption DEF Pending
  <2>4. \A row : Carries(req'[r], a, row)
    BY <2>1, <2>2, <2>3 DEF Carries
  <2>5. ASSUME NEW b \in Agents PROVE Accounted(b)'
    <3>1. CASE b = a
      BY <2>4, <3>1 DEF Accounted
    <3>2. CASE b # a
      <4>1. rows'[b] = rows[b] /\ lastWrite'[b] = lastWrite[b]
        BY <1>0, <2>1, <3>2 DEF SetRow, TypeOK
      <4>2. Entries(b) \subseteq Entries(b)'
        BY <2>1 DEF Entries
      <4>3. ~Carries(req[r], b, rows[b])
        BY <3>2 DEF Carries
      <4>4. Accounted(b)
        BY DEF RInv
      <4>. HIDE DEF a, state
      <4>. QED
        BY <1>0, <2>1, <4>1, <4>2, <4>3, <4>4, AccountedKept
    <3>. QED
      BY <3>1, <3>2
  <2>. QED
    BY <1>1, <2>1, <2>3, <2>5
<1>5. CASE ReadBack(r)
  <2>1. UNCHANGED <<rows, lastWrite, restarts, history>>
    BY <1>5 DEF ReadBack, bounds
  <2>2. CASE req[r].action = "created"
    <3>1. \A b \in Agents : ~Carries(req[r], b, rows[b])
      BY <2>2 DEF Carries
    <3>2. req'[r] = Idle \/ req'[r].step = "number"
      BY <1>0, <1>5 DEF ReadBack, Tasks
    <3>3. Pending(req'[r])
      BY <3>2 DEF Pending
    <3>. QED
      BY <1>2, <2>1, <3>1, <3>3
  <2>3. CASE req[r].action # "created"
    <3> DEFINE a == req[r].agent
               snap == Snap(a, rows[a])
    <3>1. req' = [req EXCEPT ![r].step = "number", ![r].snap = snap]
      BY <1>5, <2>3 DEF ReadBack
    <3>2. rows[a] \in AgentState
      BY <1>0, <1>5 DEF ReadBack, At, IInv, Truths, TypeOK
    <3>3. snap \in Snaps
      BY <1>0, <3>2, SnapTypes
    <3>4. req'[r] = [req[r] EXCEPT !.step = "number", !.snap = snap]
      BY <1>0, <3>1
    <3>. HIDE DEF snap
    <3>5. /\ req'[r] \in Tasks /\ req'[r].agent = a /\ req'[r].step = "number"
          /\ req'[r].action = req[r].action /\ req'[r].snap = snap
      BY <1>0, <3>3, <3>4 DEF Tasks
    <3>6. Pending(req'[r]) /\ Carries(req'[r], a, rows[a])
      BY <2>3, <3>5, RegistryAssumption DEF Pending, Carries, snap
    <3>7. \A b \in Agents : Carries(req[r], b, rows[b]) => b = a
      BY DEF Carries
    <3>. QED
      BY <1>2, <2>1, <3>6, <3>7
  <2>. QED
    BY <2>2, <2>3
<1>6. CASE Number(r)
  <2>1. UNCHANGED <<rows, lastWrite, restarts, history>>
    BY <1>6 DEF Number, bounds
  <2>2. req[r].step = "number"
    BY <1>6 DEF Number, At
  <2>3. PICK v : req'[r] = [req[r] EXCEPT !.step = "insert", !.version = v]
    BY <1>0, <1>6 DEF Number
  <2>4. PICK n \in Nat : Versions(req[r].agent) = 1..n
    BY <1>0 DEF IInv, Numbering, Gapless
  <2>5. req' \in [Requests -> Tasks \cup {Idle}]
    BY <1>6, AdvanceKeepsTypes DEF Advance, TypeOK
  <2>6. /\ req'[r].agent = req[r].agent /\ req'[r].step = "insert"
        /\ req'[r].action = req[r].action /\ req'[r].snap = req[r].snap
    BY <1>0, <2>3 DEF Tasks
  <2>7. req'[r] # Idle
    <3>1. NextVersion(req[r].agent) \in Nat
      BY <1>0, <2>4, NextVersionIsNext
    <3>2. req'[r] = [req[r] EXCEPT !.step = "insert", !.version = NextVersion(req[r].agent)]
      BY <1>0, <1>6 DEF Number
    <3>3. req'[r] \in Tasks
      BY <1>0, <3>1, <3>2 DEF Tasks
    <3>. QED
      BY <3>3, RegistryAssumption
  <2>8. Pending(req'[r])
    BY <2>6 DEF Pending
  <2>9. \A b \in Agents : Carries(req[r], b, rows[b]) => Carries(req'[r], b, rows[b])
    BY <2>2, <2>6, <2>7 DEF Carries
  <2>. QED
    BY <1>2, <2>1, <2>8, <2>9
<1>7. CASE Insert(r)
  <2>0. PICK a \in Agents : a = req[r].agent
    BY <1>0
  <2> DEFINE e == [version |-> req[r].version, snap |-> req[r].snap]
  <2>1. UNCHANGED <<rows, lastWrite, restarts>> /\ req[r].step = "insert"
    BY <1>7 DEF Insert, At, bounds
  <2>2. req'[r] = Idle
    BY <1>0, <1>7 DEF Insert
  <2>3. /\ Entries(a)' = Entries(a) \cup {e}
        /\ \A b \in Agents \ {a} : Entries(b)' = Entries(b)
    BY <1>7, <2>0, InsertAdds
  <2>4. e.snap = req[r].snap
    OBVIOUS
  <2>. HIDE DEF e
  <2>5. ASSUME NEW b \in Agents PROVE Accounted(b)'
    <3>1. Entries(b) \subseteq Entries(b)'
      BY <2>3
    <3>2. ASSUME Carries(req[r], b, rows[b]) PROVE Recorded(b)'
      <4>1. b = a /\ req[r].snap = Snap(b, rows[b])
        BY <2>0, <2>1, <3>2 DEF Carries
      <4>2. e \in Entries(b)'
        BY <2>3, <4>1
      <4>. QED
        BY <2>1, <2>4, <4>1, <4>2 DEF Recorded
    <3>3. Accounted(b)
      BY DEF RInv
    <3>. QED
      BY <1>0, <2>1, <3>1, <3>2, <3>3, AccountedKept
  <2>. QED
    BY <1>1, <2>1, <2>2, <2>5 DEF Pending
<1>. QED
  BY <1>3, <1>4, <1>5, <1>6, <1>7 DEF Advance

(* Once nobody is at work on an agent, its present state is in its history,  *)
(* whatever overlapped (agents.py:174, history.py:5).                        *)
THEOREM PresentIsRecorded == Spec => []RowIsInHistory
<1>1. Init => RInv
  BY DEF Init, RInv, Pending, Accounted
<1>2. IInv /\ RInv /\ [Next]_vars => RInv'
  <2> SUFFICES ASSUME IInv, RInv, [Next]_vars PROVE RInv'
    OBVIOUS
  <2>0. TypeOK
    BY DEF IInv
  <2>1. ASSUME UNCHANGED <<rows, lastWrite, restarts, history, req>>
        PROVE  RInv'
    BY <2>1 DEF RInv, Pending, Accounted, Recorded, Entries
  <2>2. ASSUME NEW r \in Requests, NEW a \in Agents, Change(r, a) PROVE RInv'
    <3>1. /\ req[r] = Idle /\ restarts' = restarts /\ Pending(req'[r])
          /\ \A b \in Agents \ {a} : rows'[b] = rows[b] /\ lastWrite'[b] = lastWrite[b]
          /\ \/ rows'[a] = rows[a] /\ lastWrite'[a] = lastWrite[a]
             \/ lastWrite'[a] = "created"
             \/ Carries(req'[r], a, rows'[a])
      BY <2>0, <2>2, ChangeCarries
    <3>2. history' = history /\ \A q \in Requests \ {r} : req'[q] = req[q]
      BY <2>0, <2>2, ChangeEffects
    <3>3. ASSUME NEW q \in Requests PROVE Pending(req'[q])
      <4>1. q # r => Pending(req'[q])
        BY <3>2 DEF RInv
      <4>. QED
        BY <3>1, <4>1
    <3>4. ASSUME NEW b \in Agents PROVE Accounted(b)'
      <4>1. CASE lastWrite'[b] = "created"
        BY <4>1 DEF Accounted
      <4>2. CASE Carries(req'[r], b, rows'[b])
        BY <4>2 DEF Accounted
      <4>3. CASE rows'[b] = rows[b] /\ lastWrite'[b] = lastWrite[b]
        <5>1. Entries(b) \subseteq Entries(b)'
          BY <3>2 DEF Entries
        <5>2. ~Carries(req[r], b, rows[b]) /\ Accounted(b)
          BY <3>1 DEF Carries, RInv
        <5>. QED
          BY <3>1, <3>2, <4>3, <5>1, <5>2, AccountedKept
      <4>. QED
        BY <3>1, <4>1, <4>2, <4>3
    <3>. QED
      BY <3>3, <3>4 DEF RInv
  <2>3. ASSUME NEW r \in Requests, Advance(r) PROVE RInv'
    BY <2>3, AdvanceCarries
  <2>4. ASSUME NEW a \in Agents, Select(a) PROVE RInv'
    BY <2>1, <2>4 DEF Select
  <2>5. CASE Restart
    <3>1. restarts \in Nat /\ restarts' = restarts + 1
      BY <2>0, <2>5 DEF Restart, TypeOK, bounds
    <3>2. restarts' # 0
      BY <3>1
    <3>3. \A q \in Requests : req'[q] = Idle
      BY <2>5 DEF Restart
    <3>. QED
      BY <3>2, <3>3 DEF RInv, Pending, Accounted
  <2>6. CASE UNCHANGED vars
    BY <2>1, <2>6 DEF vars
  <2>. QED
    BY <2>2, <2>3, <2>4, <2>5, <2>6 DEF Next, Advance
<1>3. RInv => RowIsInHistory
  BY DEF RInv, RowIsInHistory, Accounted, Recorded, Carries
<1>. QED
  BY <1>1, <1>2, <1>3, Invariance, PTL DEF Spec

-----------------------------------------------------------------------------
(* What restore_agent has found stays in the history, which only grows: the  *)
(* request is about to fetch a version that an entry which is not revoked    *)
(* has; and what it then carries is not revoked, or else two entries have    *)
(* that version.                                                             *)
Plain(h, v) == \E i \in DOMAIN h : h[i].version = v /\ h[i].snap.state.status # "revoked"
Twice(h) == \E i, j \in DOMAIN h : i # j /\ h[i].version = h[j].version
Restoring(task, h) ==
    task # Idle /\ task.action = "restore" =>
        /\ task.step = "fetch" => Plain(h, task.version)
        /\ task.step = "write" => task.snap.state.status # "revoked" \/ Twice(h)

SInv == \A q \in Requests : Restoring(req[q], history[req[q].agent])

Grows(h, g) == DOMAIN h \subseteq DOMAIN g /\ \A i \in DOMAIN h : g[i] = h[i]

LEMMA RestoringKept ==
    ASSUME NEW task, NEW h, NEW g, Restoring(task, h), Grows(h, g)
    PROVE  Restoring(task, g)
<1>1. ASSUME Plain(h, task.version) PROVE Plain(g, task.version)
  BY <1>1 DEF Plain, Grows
<1>2. ASSUME Twice(h) PROVE Twice(g)
  BY <1>2 DEF Twice, Grows
<1>. QED
  BY <1>1, <1>2 DEF Restoring

(* The history of no agent loses an entry.                                   *)
LEMMA HistoryGrows ==
    ASSUME IInv, NEW r \in Requests, Advance(r), NEW a \in Agents
    PROVE  Grows(history[a], history'[a])
<1>1. CASE history' = history
  BY <1>1 DEF Grows
<1>2. CASE Insert(r)
  <2> DEFINE e == [version |-> req[r].version, snap |-> req[r].snap]
  <2>1. At(r, "insert") /\ TypeOK
    BY <1>2 DEF Insert, IInv
  <2>2. req[r].agent \in Agents /\ e \in [version : Nat, snap : Snaps]
    BY <1>2, InsertAdds, <2>1, TaskTypes
  <2>3. history' = [history EXCEPT ![req[r].agent] = Append(@, e)]
    BY <1>2 DEF Insert
  <2>4. history[a] \in Seq([version : Nat, snap : Snaps]) /\ DOMAIN history = Agents
    BY <2>1 DEF TypeOK
  <2> HIDE DEF e
  <2>5. history'[a] = history[a] \/ history'[a] = Append(history[a], e)
    BY <2>2, <2>3, <2>4
  <2>6. Grows(history[a], Append(history[a], e))
    BY <2>2, <2>4, AppendedElement DEF Grows
  <2>. QED
    BY <2>5, <2>6 DEF Grows
<1>3. TypeOK
  BY DEF IInv
<1>. QED
  BY <1>1, <1>2, <1>3, AdvanceAlone

(* If the number of versions is that of the entries, no two share one.       *)
LEMMA OnceIsNotTwice ==
    ASSUME NEW a, history[a] \in Seq([version : Nat, snap : Snaps]), NumberedOnce(a)
    PROVE  ~Twice(history[a])
<1> DEFINE n == Len(history[a])
           f == [i \in 1..n |-> history[a][i].version]
<1>1. n \in Nat /\ DOMAIN history[a] = 1..n
  OBVIOUS
<1>2. IsFiniteSet(1..n) /\ Cardinality(1..n) = n
  BY <1>1, FS_Interval
<1>3. Versions(a) = { f[i] : i \in 1..n }
  BY <1>1 DEF Versions
<1>4. f \in Surjection(1..n, Versions(a))
  BY <1>3 DEF Surjection
<1>5. Cardinality(1..n) = Cardinality(Versions(a))
  BY <1>2 DEF NumberedOnce
<1>6. f \in Injection(1..n, Versions(a))
  <2> HIDE DEF f
  <2>. QED
    BY <1>2, <1>4, <1>5, FS_SurjSameCardinalityImpliesInj
<1>7. \A i, j \in 1..n : f[i] = f[j] => i = j
  <2> HIDE DEF f
  <2>. QED
    BY <1>6 DEF Injection, IsInjective
<1>8. \A i \in 1..n : f[i] = history[a][i].version
  OBVIOUS
<1> HIDE DEF f
<1>. QED
  BY <1>1, <1>7, <1>8 DEF Twice

(* A request begins to fetch only what a client has named.                   *)
LEMMA RestoreFindsFirst ==
    ASSUME TypeOK, NEW r \in Requests, NEW a \in Agents, Change(r, a)
    PROVE  req'[r].step \in {"fetch", "write"} => req'[r].action = "rollback"
<1>1. ASSUME NEW action, NEW step \in {"read", "number", "find"}, NEW snap,
             Begin(r, Step(a, action, step, snap))
      PROVE  req'[r].step \notin {"fetch", "write"}
  BY <1>1 DEF Begin, Step, TypeOK
<1>2. ASSUME NEW v \in 1..MaxChanges, Rollback(r, a, v)
      PROVE  req'[r].action = "rollback"
  <2>1. req'[r] = [Step(a, "rollback", "fetch", NoSnap) EXCEPT !.version = v]
    BY <1>2 DEF Rollback, Begin, TypeOK
  <2>. QED
    BY <2>1 DEF Step
<1>3. ASSUME NEW c \in Configs, Create(r, a, c) \/ Update(r, a, c)
      PROVE  req'[r].step \notin {"fetch", "write"}
  BY <1>1, <1>3 DEF Create, Update
<1>4. ASSUME Suspend(r, a) \/ Activate(r, a) \/ Revoke(r, a) \/ Restore(r, a)
      PROVE  req'[r].step \notin {"fetch", "write"}
  BY <1>1, <1>4 DEF Suspend, Activate, Revoke, Restore
<1>. QED
  BY <1>2, <1>3, <1>4 DEF Change

(* The request itself, from find to fetch to write.                          *)
LEMMA AdvanceRestores ==
    ASSUME IInv, NEW r \in Requests, Advance(r), Restoring(req[r], history[req[r].agent])
    PROVE  Restoring(req'[r], history'[req'[r].agent])
<1> DEFINE h == history[req[r].agent]
<1>0. req[r] \in Tasks /\ TypeOK /\ req \in [Requests -> Tasks \cup {Idle}]
  <2>1. TypeOK
    BY DEF IInv
  <2>. QED
    BY <2>1, AdvanceAlone DEF TypeOK
<1>1. CASE FindPrior(r)
  <2>1. CASE req'[r] = Idle
    BY <2>1 DEF Restoring
  <2>2. CASE req'[r] # Idle
    <3>1. PICK e \in Entries(req[r].agent) :
             /\ e.snap.state.status # "revoked"
             /\ req' = [req EXCEPT ![r].step = "fetch", ![r].version = e.version]
      BY <1>0, <1>1, <2>2 DEF FindPrior, Newest
    <3>2. /\ req'[r].step = "fetch" /\ req'[r].version = e.version
          /\ req'[r].agent = req[r].agent
      BY <1>0, <3>1 DEF Tasks
    <3>3. Plain(h, e.version)
      BY <3>1 DEF Plain, Entries
    <3>4. history' = history
      BY <1>1 DEF FindPrior
    <3>. QED
      BY <3>2, <3>3, <3>4 DEF Restoring
  <2>. QED
    BY <2>1, <2>2
<1>2. CASE Fetch(r)
  <2>1. CASE req'[r] = Idle
    BY <2>1 DEF Restoring
  <2>2. CASE req'[r] # Idle
    <3>1. PICK e \in Entries(req[r].agent) :
             /\ e.version = req[r].version
             /\ req' = [req EXCEPT ![r].step = "write", ![r].snap = e.snap]
      BY <1>0, <1>2, <2>2 DEF Fetch
    <3>2. /\ req'[r].step = "write" /\ req'[r].snap = e.snap
          /\ req'[r].agent = req[r].agent /\ req'[r].action = req[r].action
      BY <1>0, <3>1 DEF Tasks
    <3>3. history' = history /\ req[r] # Idle /\ req[r].step = "fetch"
      BY <1>2 DEF Fetch, At
    <3>4. PICK j \in DOMAIN h : h[j] = e
      BY <3>1 DEF Entries
    <3>5. Plain(h, e.version) => e.snap.state.status # "revoked" \/ Twice(h)
      <4> HIDE DEF h
      <4>. QED
        BY <3>4 DEF Plain, Twice
    <3>. QED
      BY <3>1, <3>2, <3>3, <3>5 DEF Restoring
  <2>. QED
    BY <2>1, <2>2
<1>3. CASE WriteBack(r) \/ ReadBack(r) \/ Number(r) \/ Insert(r)
  <2>1. req'[r] = Idle \/ req'[r].step \in {"read", "number", "insert"}
    BY <1>0, <1>3 DEF WriteBack, ReadBack, Number, Insert, Proceed, Tasks
  <2>. QED
    BY <2>1 DEF Restoring
<1>. QED
  BY <1>1, <1>2, <1>3 DEF Advance

LEMMA StepSInv == IInv /\ SInv /\ [Next]_vars => SInv'
<1> SUFFICES ASSUME IInv, SInv, [Next]_vars, NEW q \in Requests
             PROVE  Restoring(req'[q], history'[req'[q].agent])
  BY DEF SInv
<1>0. TypeOK /\ Restoring(req[q], history[req[q].agent])
  BY DEF IInv, SInv
<1>1. CASE UNCHANGED <<req, history>>
  BY <1>0, <1>1
<1>2. ASSUME NEW r \in Requests, NEW a \in Agents, Change(r, a)
      PROVE  Restoring(req'[q], history'[req'[q].agent])
  <2>1. history' = history /\ (q # r => req'[q] = req[q])
    BY <1>0, <1>2, ChangeEffects
  <2>2. req'[r].step \in {"fetch", "write"} => req'[r].action # "restore"
    BY <1>0, <1>2, RestoreFindsFirst
  <2>. QED
    BY <1>0, <2>1, <2>2 DEF Restoring
<1>3. ASSUME NEW r \in Requests, Advance(r)
      PROVE  Restoring(req'[q], history'[req'[q].agent])
  <2>1. CASE q = r
    BY <1>0, <1>3, <2>1, AdvanceRestores
  <2>2. CASE q # r
    <3>1. req'[q] = req[q]
      BY <1>0, <1>3, <2>2, AdvanceAlone
    <3>2. CASE req[q] = Idle
      BY <3>1, <3>2 DEF Restoring
    <3>3. CASE req[q] # Idle
      <4>1. req[q].agent \in Agents
        BY <1>0, <3>3 DEF TypeOK, Tasks
      <4>2. Grows(history[req[q].agent], history'[req[q].agent])
        BY <1>3, <4>1, HistoryGrows
      <4>. QED
        BY <1>0, <3>1, <4>2, RestoringKept
    <3>. QED
      BY <3>2, <3>3
  <2>. QED
    BY <2>1, <2>2
<1>4. ASSUME NEW a \in Agents, Select(a) PROVE UNCHANGED <<req, history>>
  BY <1>4 DEF Select
<1>5. CASE Restart
  BY <1>5 DEF Restart, Restoring
<1>6. CASE UNCHANGED vars
  BY <1>1, <1>6 DEF vars
<1>. QED
  BY <1>1, <1>2, <1>3, <1>4, <1>5, <1>6 DEF Next, Advance

(* A restore leaves the agent in a state that is not revoked, provided that  *)
(* no version was numbered twice (agents.py:221): whatever other requests    *)
(* record or change between its finding, its fetching and its writing.       *)
THEOREM RestoresReactivate == Spec => RestoreReactivates
<1>1. Init => SInv
  BY DEF Init, SInv, Restoring
<1>2. IInv /\ SInv /\ [Next]_vars =>
         \A r \in Requests :
            At(r, "write") /\ req[r].action = "restore" /\ NumberedOnce(req[r].agent)
              /\ req'[r] # Idle /\ req'[r].step = "read"
            => rows'[req[r].agent].status # "revoked"
  <2> SUFFICES ASSUME IInv, SInv, [Next]_vars, NEW r \in Requests,
                      At(r, "write"), req[r].action = "restore", NumberedOnce(req[r].agent),
                      req'[r] # Idle, req'[r].step = "read"
               PROVE  rows'[req[r].agent].status # "revoked"
    OBVIOUS
  <2>0. TypeOK
    BY DEF IInv
  <2>1. req[r] # Idle /\ req[r].step = "write"
    BY DEF At
  <2>2. req[r].agent \in Agents /\ history[req[r].agent] \in Seq([version : Nat, snap : Snaps])
    BY <2>0, <2>1 DEF TypeOK, Tasks
  <2>3. req[r].snap.state.status # "revoked"
    BY <2>1, <2>2, OnceIsNotTwice DEF SInv, Restoring
  <2>4. ASSUME NEW q \in Requests, NEW a \in Agents, Change(q, a) PROVE FALSE
    <3>1. req[q] = Idle
      BY <2>0, <2>4, ChangeCarries
    <3>2. req'[r] = req[r]
      BY <2>0, <2>1, <2>4, <3>1, ChangeEffects
    <3>. QED
      BY <2>1, <3>2
  <2>5. ASSUME NEW q \in Requests, Advance(q) PROVE WriteBack(r)
    <3>1. q = r
      BY <2>0, <2>1, <2>5, AdvanceAlone
    <3>. QED
      BY <2>1, <2>5, <3>1 DEF Advance, FindPrior, Fetch, ReadBack, Number, Insert, At
  <2>6. WriteBack(r)
    <3>1. ASSUME NEW a \in Agents, Select(a) PROVE FALSE
      BY <2>1, <3>1 DEF Select
    <3>2. ~Restart /\ ~UNCHANGED vars
      BY <2>1 DEF Restart, vars
    <3>. QED
      BY <2>4, <2>5, <3>1, <3>2 DEF Next, Advance
  <2>7. rows'[req[r].agent] = req[r].snap.state
    BY <2>0, <2>2, <2>6 DEF WriteBack, SetRow, TypeOK
  <2>. QED
    BY <2>3, <2>7
<1>. QED
  BY <1>1, <1>2, StepSInv, Invariance, PTL DEF Spec, RestoreReactivates
=============================================================================
