--------------------------- MODULE AgentRegistry ---------------------------
(***************************************************************************)
(* The registry of agents of the API service and its versioned history     *)
(* (services/api/app/services/agents.py, history.py): requests that create,*)
(* update, suspend, activate, revoke, roll back, restore and select agents.*)
(*                                                                         *)
(* Requests run side by side in the server's thread pool.  Each first      *)
(* changes the row of an agent, then reads it and appends the snapshot to  *)
(* the history; every `with get_conn()` block is one step, except record:  *)
(* its SELECT begins no transaction, so that other requests may come       *)
(* between it and the INSERT.                                              *)
(*                                                                         *)
(* Name, description, capabilities and permissions of an agent are one     *)
(* value, its configuration.                                               *)
(***************************************************************************)
EXTENDS Integers, Sequences, FiniteSets

CONSTANTS
    Agents,          \* agent ids
    Seeded,          \* the agents of seed_defaults
    Configs,         \* configurations of an agent
    DefaultConfig,   \* that of the seeded agents
    Requests,        \* requests in flight
    NoRow, Idle, NoSnap,
    MaxChanges,      \* bound: requests that change an agent
    MaxSelects,      \* bound: requests that select one
    MaxRestarts      \* bound: restarts of the server

AgentState == [status : {"active", "suspended", "revoked"}, trust : Int, config : Configs]
Actions == {"created", "updated", "suspended", "activated", "revoked", "rollback", "restore"}
Snaps == [agent : Agents, state : AgentState]
Tasks == [agent : Agents, action : Actions,
          step : {"find", "fetch", "write", "read", "number", "insert"},
          snap : Snaps \cup {NoSnap}, version : Nat]

ASSUME RegistryAssumption ==
    /\ NoRow \notin AgentState
    /\ Idle \notin Tasks
    /\ Seeded \subseteq Agents
    /\ DefaultConfig \in Configs
    /\ {MaxChanges, MaxSelects, MaxRestarts} \subseteq Nat

VARIABLES
    rows,            \* table agents, but for is_current
    current,         \* the agents with is_current = 1
    history,         \* table resource_history, per agent, in the order of insertion
    req,             \* what each request is doing
    past,            \* history: the states each agent has been in
    lastWrite,       \* history: what last changed each agent
    changes, selects, restarts   \* history: how often each happened

bounds == <<changes, selects, restarts>>
vars == <<rows, current, history, req, past, lastWrite, changes, selects, restarts>>

Snap(a, state) == [agent |-> a, state |-> state]
Step(a, action, step, snap) ==
    [agent |-> a, action |-> action, step |-> step, snap |-> snap, version |-> 0]

Init ==
    LET seed == [status |-> "active", trust |-> 94, config |-> DefaultConfig]
    IN  /\ rows = [a \in Agents |-> IF a \in Seeded THEN seed ELSE NoRow]
        /\ past = [a \in Agents |-> IF a \in Seeded THEN {seed} ELSE {}]
        /\ current = {}
        /\ history = [a \in Agents |-> <<>>]
        /\ req = [r \in Requests |-> Idle]
        /\ lastWrite = [a \in Agents |-> "none"]
        /\ changes = 0 /\ selects = 0 /\ restarts = 0

-----------------------------------------------------------------------------
(* Statements that change the row of an agent. *)
SetRow(a, state, action) ==
    /\ rows' = [rows EXCEPT ![a] = state]
    /\ past' = [past EXCEPT ![a] = @ \cup {state}]
    /\ lastWrite' = [lastWrite EXCEPT ![a] = action]

(* A request begins. *)
Begin(r, task) ==
    /\ req[r] = Idle
    /\ changes < MaxChanges
    /\ changes' = changes + 1
    /\ req' = [req EXCEPT ![r] = task]
    /\ UNCHANGED <<history, selects, restarts>>

Proceed(r, step) == req' = [req EXCEPT ![r].step = step]

(* save_agent: no row is current but the new one. *)
Create(r, a, c) ==
    /\ rows[a] = NoRow
    /\ SetRow(a, [status |-> "active", trust |-> 100, config |-> c], "created")
    /\ current' = {a}
    /\ Begin(r, Step(a, "created", "read", NoSnap))

UpdateRecordingOld(r, a, c) ==
    /\ rows[a] # NoRow
    /\ SetRow(a, [rows[a] EXCEPT !.config = c], "updated")
    /\ Begin(r, Step(a, "updated", "number", Snap(a, rows[a])))
    /\ UNCHANGED current

Update(r, a, c) ==
    /\ rows[a] # NoRow
    /\ SetRow(a, [rows[a] EXCEPT !.config = c], "updated")
    /\ Begin(r, Step(a, "updated", "read", NoSnap))
    /\ UNCHANGED current

(* suspend_agent and activate_agent read the row in the transaction that     *)
(* changes it.                                                               *)
Suspend(r, a) ==
    LET state == [status |-> "suspended", trust |-> rows[a].trust - 20,
                  config |-> rows[a].config]
    IN  /\ rows[a] # NoRow
        /\ SetRow(a, state, "suspended")
        /\ Begin(r, Step(a, "suspended", "number", Snap(a, state)))
        /\ UNCHANGED current

Activate(r, a) ==
    LET state == [rows[a] EXCEPT !.status = "active"]
    IN  /\ rows[a] # NoRow
        /\ SetRow(a, state, "activated")
        /\ Begin(r, Step(a, "activated", "number", Snap(a, state)))
        /\ UNCHANGED current

RevokeRecordingStatusOnly(r, a) ==
    /\ rows[a] # NoRow
    /\ SetRow(a, [status |-> "revoked", trust |-> 0, config |-> rows[a].config], "revoked")
    /\ current' = current \ {a}
    /\ Begin(r, Step(a, "revoked", "number", Snap(a, [rows[a] EXCEPT !.status = "revoked"])))

Revoke(r, a) ==
    /\ rows[a] # NoRow
    /\ SetRow(a, [status |-> "revoked", trust |-> 0, config |-> rows[a].config], "revoked")
    /\ current' = current \ {a}
    /\ Begin(r, Step(a, "revoked", "read", NoSnap))

-----------------------------------------------------------------------------
(* rollback_agent of a version that a client names; restore_agent finds one. *)
Rollback(r, a, v) ==
    /\ rows[a] # NoRow
    /\ Begin(r, [Step(a, "rollback", "fetch", NoSnap) EXCEPT !.version = v])
    /\ UNCHANGED <<rows, current, past, lastWrite>>

Restore(r, a) ==
    /\ rows[a] # NoRow
    /\ rows[a].status = "revoked"
    /\ Begin(r, Step(a, "restore", "find", NoSnap))
    /\ UNCHANGED <<rows, current, past, lastWrite>>

(* What the entries of an agent are numbered. *)
Versions(a) == {history[a][i].version : i \in DOMAIN history[a]}
Entries(a) == {history[a][i] : i \in DOMAIN history[a]}
Newest(entries) == {e \in entries : \A f \in entries : f.version <= e.version}
At(r, step) == req[r] # Idle /\ req[r].step = step

FindNewest(r) ==
    /\ At(r, "find")
    /\ \E e \in Newest(Entries(req[r].agent)) :
          req' = [req EXCEPT ![r].step = "fetch", ![r].version = e.version]
    /\ UNCHANGED <<rows, current, history, past, lastWrite, bounds>>

(* The newest snapshot that is not revoked, if there is one. *)
FindPrior(r) ==
    LET prior == {e \in Entries(req[r].agent) : e.snap.state.status # "revoked"}
    IN  /\ At(r, "find")
        /\ \/ /\ prior = {}
              /\ req' = [req EXCEPT ![r] = Idle]
           \/ \E e \in Newest(prior) :
                 req' = [req EXCEPT ![r].step = "fetch", ![r].version = e.version]
        /\ UNCHANGED <<rows, current, history, past, lastWrite, bounds>>

(* get_version: any of the entries with that number. *)
Fetch(r) ==
    LET found == {e \in Entries(req[r].agent) : e.version = req[r].version}
    IN  /\ At(r, "fetch")
        /\ \/ /\ found = {}
              /\ req' = [req EXCEPT ![r] = Idle]
           \/ \E e \in found :
                 req' = [req EXCEPT ![r].step = "write", ![r].snap = e.snap]
        /\ UNCHANGED <<rows, current, history, past, lastWrite, bounds>>

WriteBack(r) ==
    /\ At(r, "write")
    /\ SetRow(req[r].agent, req[r].snap.state, req[r].action)
    /\ Proceed(r, "read")
    /\ UNCHANGED <<current, history, bounds>>

-----------------------------------------------------------------------------
(* The second half of a request: read the agent - save_agent reads the       *)
(* current one - and record the snapshot.                                    *)
ReadBack(r) ==
    /\ At(r, "read")
    /\ \/ /\ req[r].action = "created" /\ current = {}
          /\ req' = [req EXCEPT ![r] = Idle]
       \/ \E a \in IF req[r].action = "created" THEN current ELSE {req[r].agent} :
             req' = [req EXCEPT ![r].step = "number", ![r].snap = Snap(a, rows[a])]
    /\ UNCHANGED <<rows, current, history, past, lastWrite, bounds>>

NextVersion(a) ==
    IF history[a] = <<>> THEN 1
    ELSE 1 + CHOOSE v \in Versions(a) : \A w \in Versions(a) : w <= v

Number(r) ==
    /\ At(r, "number")
    /\ req' = [req EXCEPT ![r].step = "insert", ![r].version = NextVersion(req[r].agent)]
    /\ UNCHANGED <<rows, current, history, past, lastWrite, bounds>>

Insert(r) ==
    /\ At(r, "insert")
    /\ history' = [history EXCEPT ![req[r].agent] =
                      Append(@, [version |-> req[r].version, snap |-> req[r].snap])]
    /\ req' = [req EXCEPT ![r] = Idle]
    /\ UNCHANGED <<rows, current, past, lastWrite, bounds>>

-----------------------------------------------------------------------------
(* set_current_agent: an id that has no row leaves no agent current. *)
Select(a) ==
    /\ selects < MaxSelects
    /\ selects' = selects + 1
    /\ current' = IF rows[a] = NoRow THEN {} ELSE {a}
    /\ UNCHANGED <<rows, history, req, past, lastWrite, changes, restarts>>

(* The server stops and starts again: requests are cut short. *)
Restart ==
    /\ restarts < MaxRestarts
    /\ restarts' = restarts + 1
    /\ req' = [r \in Requests |-> Idle]
    /\ UNCHANGED <<rows, current, history, past, lastWrite, changes, selects>>

Change(r, a) ==
    \/ \E c \in Configs : Create(r, a, c) \/ Update(r, a, c)
    \/ Suspend(r, a) \/ Activate(r, a) \/ Revoke(r, a)
    \/ \E v \in 1..MaxChanges : Rollback(r, a, v)
    \/ Restore(r, a)

Next ==
    \/ \E r \in Requests :
          \/ \E a \in Agents : Change(r, a)
          \/ FindPrior(r) \/ Fetch(r) \/ WriteBack(r)
          \/ ReadBack(r) \/ Number(r) \/ Insert(r)
    \/ \E a \in Agents : Select(a)
    \/ Restart

Spec == Init /\ [][Next]_vars

-----------------------------------------------------------------------------
(* Types of every variable; no more than one agent is current. *)
TypeOK ==
    /\ rows \in [Agents -> AgentState \cup {NoRow}]
    /\ current \subseteq {a \in Agents : rows[a] # NoRow}
    /\ \A a, b \in current : a = b
    /\ history \in [Agents -> Seq([version : Nat, snap : Snaps])]
    /\ req \in [Requests -> Tasks \cup {Idle}]
    /\ past \in [Agents -> SUBSET AgentState]
    /\ lastWrite \in [Agents -> Actions \cup {"none"}]
    /\ bounds \in (0..MaxChanges) \X (0..MaxSelects) \X (0..MaxRestarts)

(* The versions of an agent are numbered from one without a gap, although    *)
(* requests number them side by side: every version up to the newest can be  *)
(* inspected and rolled back to (history.py:5).                              *)
VersionsHaveNoGaps ==
    \A a \in Agents : Versions(a) = 1..Cardinality(Versions(a))

(* What the history of an agent says of it was true of it at some time: no   *)
(* snapshot mixes what two requests have written (history.py:3, "a full JSON *)
(* snapshot after the change").                                              *)
SnapshotsWereStates ==
    \A a \in Agents : \A e \in Entries(a) : e.snap.state \in past[e.snap.agent]

(* Once no request is at work on an agent, its present state is a version of *)
(* its history, however the requests that brought it there overlapped        *)
(* (history.py:3, "Every mutation of a governed resource").  It is not for   *)
(* agents that were only created or seeded, nor after a restart.             *)
RowIsInHistory ==
    \A a \in Agents :
        /\ lastWrite[a] \notin {"none", "created"}
        /\ \A r \in Requests : req[r] = Idle \/ req[r].agent # a
        /\ restarts = 0
        => \E e \in Entries(a) : e.snap = Snap(a, rows[a])

(* A restore leaves the agent in a state that is not revoked, provided that  *)
(* no version was numbered twice (agents.py:221).                            *)
NumberedOnce(a) == Cardinality(Versions(a)) = Len(history[a])
RestoreReactivates ==
    [][\A r \in Requests :
          At(r, "write") /\ req[r].action = "restore" /\ NumberedOnce(req[r].agent)
            /\ req'[r] # Idle /\ req'[r].step = "read"
          => rows'[req[r].agent].status # "revoked"]_vars

-----------------------------------------------------------------------------
(* A claim of the code's comments that it does not keep: agents.py:264, "the *)
(* agent row and its history are preserved so revocation is auditable and    *)
(* reversible via restore_agent".  A revoked agent nobody is working on has  *)
(* a version that restore_agent finds.                                       *)
RevocationIsReversible ==
    \A a \in Agents :
        /\ rows[a] # NoRow
        /\ rows[a].status = "revoked"
        /\ \A r \in Requests : req[r] = Idle
        /\ restarts = 0
        => \E e \in Entries(a) : e.snap.state.status # "revoked"
=============================================================================
