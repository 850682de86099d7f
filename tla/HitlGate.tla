------------------------------ MODULE HitlGate ------------------------------
(***************************************************************************)
(* Human approval of tool calls in the API service: the gate an agent      *)
(* loop passes every call through (services/api/app/services/hitl_gate.py),*)
(* the operators' decisions and the list they decide from (aegis.py,       *)
(* table tool_calls), what start_session does with a finished loop         *)
(* (sessions.py) and the action audit (action_audit.py).                   *)
(*                                                                         *)
(* Agent loops run on the event loop and give it up only while they wait   *)
(* for a decision; operators' requests run in the thread pool and may come *)
(* between any two database transactions.  Every transaction is one step,  *)
(* except that the actions of one session, logged one by one with nothing  *)
(* of the session in between, are logged in one.                           *)
(*                                                                         *)
(* What the policies answer for a call is any of the three dispositions.   *)
(***************************************************************************)
EXTENDS Integers, Sequences, FiniteSets

CONSTANTS
    Sessions,        \* the agent sessions that are started
    Prefix,          \* session -> the 8 characters its listed calls are named after
    Tools,           \* tool names
    Operators,       \* requests of operators in flight
    Modes,           \* the deployments: what the environment variables say
    NoRow, NoCall, Idle,
    MaxSteps,        \* bound: calls in a session
    MaxDecisions,    \* bound: decisions of operators
    MaxResets        \* bound: uses of /api/aegis/reset

Statuses == {"pending_approval", "allowed", "blocked", "overridden", "human_review", "timeout"}

ASSUME GateAssumption ==
    /\ DOMAIN Prefix = Sessions
    /\ NoRow \notin [session : Sessions, tool : Tools, status : Statuses]
    /\ Modes \subseteq [blocking : BOOLEAN, autoApprove : BOOLEAN, postgres : BOOLEAN]
    /\ {MaxSteps, MaxDecisions, MaxResets} \subseteq Nat

VARIABLES
    mode,            \* the deployment: CLEARFRAME_HITL_BLOCKING, _AUTO_APPROVE, DATABASE_URL
    phase,           \* what each session is doing
    tool,            \* the tool a waiting session asked for
    entries,         \* audit_entries of each session
    rows,            \* table tool_calls
    actions,         \* table action_audit, per session, oldest first
    op,              \* what each operator's request still has to record
    decisions,       \* history: decisions of operators, <<row, decision>>, oldest first
    resets           \* history: resets

vars == <<mode, phase, tool, entries, rows, actions, op, decisions, resets>>

(* The row of the n-th call while it waits, and of the i-th listed call.     *)
PendingId(s, n) == <<"pending", s, n>>
ListedId(s, i) == <<"listed", Prefix[s], i>>
Ids == {PendingId(s, n) : s \in Sessions, n \in 1..MaxSteps}
         \cup {ListedId(s, n) : s \in Sessions, n \in 1..MaxSteps}

Decision == {"approved", "blocked", "overridden"}
Entry(t, status, executed, id) ==
    [tool |-> t, status |-> status, executed |-> executed, callId |-> id]
Row(s, t, status) == [session |-> s, tool |-> t, status |-> status]
Step(s) == Len(entries[s]) + 1

Init ==
    /\ mode \in Modes
    /\ phase = [s \in Sessions |-> "running"]
    /\ tool = [s \in Sessions |-> NoCall]
    /\ entries = [s \in Sessions |-> <<>>]
    /\ rows = [id \in Ids |-> NoRow]
    /\ actions = [s \in Sessions |-> <<>>]
    /\ op = [o \in Operators |-> Idle]
    /\ decisions = <<>>
    /\ resets = 0

-----------------------------------------------------------------------------
StatusVerbatim(decision) == decision
StatusOf(decision) ==
    CASE decision = "approved" -> "allowed"
      [] decision = "overridden" -> "overridden"
      [] decision = "blocked" -> "blocked"

(* The transaction of _hitl_decision.  Its second UPDATE names columns that  *)
(* tool_calls has not: SQLite raises and the first UPDATE is committed;      *)
(* PostgreSQL has then aborted the transaction, and the commit undoes it.    *)
Stored(id, decision) ==
    IF rows[id] = NoRow \/ mode.postgres THEN rows
    ELSE [rows EXCEPT ![id].status = StatusOf(decision)]

Append1(s, e) == entries' = [entries EXCEPT ![s] = Append(@, e)]

(* governed_execute, disposition deny and disposition allow. *)
Deny(s, t) ==
    /\ phase[s] = "running"
    /\ Len(entries[s]) < MaxSteps
    /\ Append1(s, Entry(t, "blocked", FALSE, NoCall))
    /\ UNCHANGED <<mode, phase, tool, rows, actions, op, decisions, resets>>

Allow(s, t) ==
    /\ phase[s] = "running"
    /\ Len(entries[s]) < MaxSteps
    /\ Append1(s, Entry(t, "allowed", TRUE, NoCall))
    /\ UNCHANGED <<mode, phase, tool, rows, actions, op, decisions, resets>>

(* Disposition require_approval: create_pending, then wait or move on. *)
Ask(s, t) ==
    LET id == PendingId(s, Step(s))
    IN  /\ phase[s] = "running"
        /\ Len(entries[s]) < MaxSteps
        /\ rows' = [rows EXCEPT ![id] = Row(s, t, "pending_approval")]
        /\ \/ /\ mode.blocking
              /\ phase' = [phase EXCEPT ![s] = "waiting"]
              /\ tool' = [tool EXCEPT ![s] = t]
              /\ UNCHANGED entries
           \/ /\ ~mode.blocking
              /\ Append1(s, Entry(t, "human_review", FALSE, id))
              /\ UNCHANGED <<phase, tool>>
        /\ UNCHANGED <<mode, actions, op, decisions, resets>>

(* The call is over without having run. *)
Refuse(s, status) ==
    /\ Append1(s, Entry(tool[s], status, FALSE, PendingId(s, Step(s))))
    /\ phase' = [phase EXCEPT ![s] = "running"]
    /\ tool' = [tool EXCEPT ![s] = NoCall]

(* A missing row counts as an approval. *)
PollTrustingAbsence(s) ==
    LET id == PendingId(s, Step(s))
    IN  /\ phase[s] = "waiting"
        /\ \/ /\ rows[id] # NoRow => rows[id].status \in {"allowed", "approved", "overridden"}
              /\ phase' = [phase EXCEPT ![s] = "approved"]
              /\ UNCHANGED <<rows, tool, entries>>
           \/ /\ rows[id] # NoRow /\ rows[id].status = "blocked"
              /\ Refuse(s, "blocked")
              /\ UNCHANGED rows
        /\ UNCHANGED <<mode, actions, op, decisions, resets>>

(* One turn of wait_for_decision that decides.  A decision of the system has *)
(* no action to be recorded for: the session's actions are logged later.     *)
Poll(s) ==
    LET id == PendingId(s, Step(s))
    IN  /\ phase[s] = "waiting"
        /\ \/ /\ rows[id] = NoRow
              /\ Refuse(s, "blocked")
              /\ UNCHANGED rows
           \/ /\ rows[id] # NoRow /\ rows[id].status = "pending_approval" /\ mode.autoApprove
              /\ rows' = Stored(id, "approved")
              /\ phase' = [phase EXCEPT ![s] = "approved"]
              /\ UNCHANGED <<tool, entries>>
           \/ /\ rows[id] # NoRow /\ rows[id].status \in {"allowed", "approved", "overridden"}
              /\ phase' = [phase EXCEPT ![s] = "approved"]
              /\ UNCHANGED <<rows, tool, entries>>
           \/ /\ rows[id] # NoRow /\ rows[id].status = "blocked"
              /\ Refuse(s, "blocked")
              /\ UNCHANGED rows
        /\ UNCHANGED <<mode, actions, op, decisions, resets>>

TimeOutAgain(s) ==
    /\ phase[s] = "waiting"
    /\ rows' = Stored(PendingId(s, Step(s)), "blocked")
    /\ UNCHANGED <<mode, phase, tool, entries, actions, op, decisions, resets>>

(* The deadline passes after the last poll: the call is blocked, whatever    *)
(* was decided since.                                                        *)
TimeOut(s) ==
    /\ phase[s] = "waiting"
    /\ rows' = Stored(PendingId(s, Step(s)), "blocked")
    /\ Refuse(s, "timeout")
    /\ UNCHANGED <<mode, actions, op, decisions, resets>>

(* governed_execute goes on with the approved call. *)
RunApproved(s) ==
    /\ phase[s] = "approved"
    /\ Append1(s, Entry(tool[s], "human_review", TRUE, PendingId(s, Step(s))))
    /\ phase' = [phase EXCEPT ![s] = "running"]
    /\ tool' = [tool EXCEPT ![s] = NoCall]
    /\ UNCHANGED <<mode, rows, actions, op, decisions, resets>>

-----------------------------------------------------------------------------
(* start_session after the loop: log the actions, replace the session's      *)
(* rows, log the actions again.                                              *)
Logged(s) == actions[s] \o [i \in DOMAIN entries[s] |-> [tool |-> entries[s][i].tool, decision |-> "none"]]

LogActions(s) ==
    /\ \/ phase[s] = "running" /\ phase' = [phase EXCEPT ![s] = "logged"]
       \/ phase[s] = "listed" /\ phase' = [phase EXCEPT ![s] = "done"]
    /\ actions' = [actions EXCEPT ![s] = Logged(s)]
    /\ UNCHANGED <<mode, tool, entries, rows, op, decisions, resets>>

EnqueueKeepingRows(s) ==
    /\ phase[s] = "logged"
    /\ rows' = [id \in Ids |->
                   IF id \in {ListedId(s, i) : i \in DOMAIN entries[s]}
                   THEN Row(s, entries[s][id[3]].tool, entries[s][id[3]].status)
                   ELSE rows[id]]
    /\ phase' = [phase EXCEPT ![s] = "listed"]
    /\ UNCHANGED <<mode, tool, entries, actions, op, decisions, resets>>

(* enqueue_from_audit's transaction. *)
Enqueue(s) ==
    LET mine == {ListedId(s, i) : i \in DOMAIN entries[s]}
    IN  /\ phase[s] = "logged"
        /\ rows' = [id \in Ids |->
                       IF id \in mine
                       THEN Row(s, entries[s][id[3]].tool, entries[s][id[3]].status)
                       ELSE IF rows[id] # NoRow /\ rows[id].session = s THEN NoRow
                       ELSE rows[id]]
        /\ phase' = [phase EXCEPT ![s] = "listed"]
        /\ UNCHANGED <<mode, tool, entries, actions, op, decisions, resets>>

(* approve, block and override of a call; the row tells which action the     *)
(* decision is to be recorded for.                                           *)
Decide(o, id, decision) ==
    /\ op[o] = Idle
    /\ Len(decisions) < MaxDecisions
    /\ rows' = Stored(id, decision)
    /\ decisions' = Append(decisions, <<id, decision>>)
    /\ op' = [op EXCEPT ![o] =
                 IF rows[id] = NoRow THEN Idle
                 ELSE [session |-> rows[id].session, tool |-> rows[id].tool,
                       decision |-> decision, action |-> 0]]
    /\ UNCHANGED <<mode, phase, tool, entries, actions, resets>>

Undecided(o) ==
    {i \in DOMAIN actions[op[o].session] :
        /\ actions[op[o].session][i].tool = op[o].tool
        /\ actions[op[o].session][i].decision = "none"}

(* The newest action of that tool without a decision, if there is one ...    *)
PickAction(o) ==
    /\ op[o] # Idle
    /\ op[o].action = 0
    /\ op' = [op EXCEPT ![o] =
                 IF Undecided(o) = {} THEN Idle
                 ELSE [@ EXCEPT !.action =
                          CHOOSE i \in Undecided(o) : \A j \in Undecided(o) : j <= i]]
    /\ UNCHANGED <<mode, phase, tool, entries, rows, actions, decisions, resets>>

(* ... is given the decision, in a transaction of its own.                   *)
RecordDecision(o) ==
    /\ op[o] # Idle
    /\ op[o].action # 0
    /\ actions' = [actions EXCEPT ![op[o].session][op[o].action].decision = op[o].decision]
    /\ op' = [op EXCEPT ![o] = Idle]
    /\ UNCHANGED <<mode, phase, tool, entries, rows, decisions, resets>>

(* /api/aegis/reset: reset_calls, in production. *)
Reset ==
    /\ resets < MaxResets
    /\ resets' = resets + 1
    /\ rows' = [id \in Ids |-> NoRow]
    /\ UNCHANGED <<mode, phase, tool, entries, actions, op, decisions>>

SessionStep(s) ==
    \/ \E t \in Tools : Deny(s, t) \/ Allow(s, t) \/ Ask(s, t)
    \/ Poll(s) \/ TimeOut(s) \/ RunApproved(s)
    \/ LogActions(s) \/ Enqueue(s)

Next ==
    \/ \E s \in Sessions : SessionStep(s)
    \/ \E o \in Operators :
          \/ \E id \in Ids, d \in Decision : Decide(o, id, d)
          \/ PickAction(o) \/ RecordDecision(o)
    \/ Reset

Spec == Init /\ [][Next]_vars

(* The event loop runs every session on, and time passes: a bounded loop     *)
(* takes its next step, and a wait its timeout.                              *)
FairSpec == Spec /\ \A s \in Sessions : WF_vars(SessionStep(s))

-----------------------------------------------------------------------------
Phases == {"running", "waiting", "approved", "logged", "listed", "done"}

(* Types of every variable. *)
TypeOK ==
    /\ mode \in Modes
    /\ phase \in [Sessions -> Phases]
    /\ tool \in [Sessions -> Tools \cup {NoCall}]
    /\ entries \in [Sessions -> Seq([tool : Tools, status : Statuses, executed : BOOLEAN,
                                     callId : Ids \cup {NoCall}])]
    /\ rows \in [Ids -> {NoRow} \cup [session : Sessions, tool : Tools, status : Statuses]]
    /\ actions \in [Sessions -> Seq([tool : Tools, decision : Decision \cup {"none"}])]
    /\ \A o \in Operators : op[o] # Idle => op[o].decision \in Decision
    /\ decisions \in Seq(Ids \X Decision)
    /\ resets \in 0..MaxResets

Decided(id) == {i \in DOMAIN decisions : decisions[i][1] = id}
ApprovedBySomeone(id) == \E i \in Decided(id) : decisions[i][2] \in {"approved", "overridden"}

(* A tool the policies want a human for runs only after an operator approved *)
(* or overrode that very call, and never in the asynchronous mode, whatever  *)
(* resets, timeouts and other operators do meanwhile (hitl_gate.py:1, "blocks*)
(* tool runs until operator decision").                                      *)
OnlyApprovedCallsRun ==
    \A s \in Sessions : \A n \in DOMAIN entries[s] :
        entries[s][n].executed /\ entries[s][n].callId # NoCall
          => mode.blocking /\ (mode.autoApprove \/ ApprovedBySomeone(entries[s][n].callId))

(* A call the gate refused as blocked had been blocked by an operator, or    *)
(* its row was taken away by a reset.                                        *)
BlockedHasAReason ==
    \A s \in Sessions : \A n \in DOMAIN entries[s] :
        entries[s][n].status = "blocked" /\ entries[s][n].callId # NoCall
          => \/ resets > 0
             \/ \E i \in Decided(entries[s][n].callId) : decisions[i][2] = "blocked"

(* Both: what became of a call was decided for that call.                    *)
OutcomesWereDecided == OnlyApprovedCallsRun /\ BlockedHasAReason

(* The operators' list shows a finished session as it ran: the rows of its   *)
(* calls are its audit entries, but for what operators decided since, and    *)
(* none of the rows it waited on is left.  It holds while no list was reset  *)
(* and no other session has the same eight characters.                       *)
ListShowsTheSession ==
    \A s \in Sessions :
        /\ phase[s] \in {"listed", "done"}
        /\ resets = 0
        /\ \A r \in Sessions \ {s} : Prefix[r] # Prefix[s]
        => /\ \A n \in 1..MaxSteps : rows[PendingId(s, n)] = NoRow
           /\ \A i \in DOMAIN entries[s] :
                 LET row == rows[ListedId(s, i)]
                 IN  /\ row # NoRow
                     /\ row.session = s
                     /\ row.tool = entries[s][i].tool
                     /\ \/ row.status = entries[s][i].status
                        \/ \E d \in Decided(ListedId(s, i)) : row.status = StatusOf(decisions[d][2])

(* Every session comes to its end: a call nobody decides times out. *)
SessionsFinish == \A s \in Sessions : <>[](phase[s] = "done")

-----------------------------------------------------------------------------
(* Claims of the documentation that the code does not keep. *)

(* hitl_gate.py:106, "Operator decides later via /api/aegis/{id}/approve|    *)
(* block": the call an entry refers to is there to be decided.               *)
PendingCallCanBeDecided ==
    resets = 0 =>
        \A s \in Sessions : \A n \in DOMAIN entries[s] :
            entries[s][n].status = "human_review" /\ ~entries[s][n].executed
              => rows[entries[s][n].callId] # NoRow

(* README.md:20, "Human-in-command tool gating": a decision on a call that   *)
(* is there is in effect when the request is over.                           *)
DecisionTakesEffect ==
    [][\A id \in Ids :
          /\ rows[id] # NoRow
          /\ Len(decisions') > Len(decisions)
          /\ decisions'[Len(decisions')][1] = id
          => rows'[id].status = StatusOf(decisions'[Len(decisions')][2])]_vars
=============================================================================
