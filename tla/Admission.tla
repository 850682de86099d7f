----------------------------- MODULE Admission -----------------------------
(***************************************************************************)
(* What an agent must pass before it acts, in the API service: SafePulse   *)
(* verifies the operator (safepulse.py), TrustRegistry certifies           *)
(* (trust.py), start_session admits (sessions.py), workflows run agents    *)
(* without being admitted (workflows.py), the pipeline does it all in one  *)
(* request (pipeline.py), and Sonar and the SOC playbooks contain          *)
(* (sonar.py, soc_bus.py) while all of this is going on.                   *)
(*                                                                         *)
(* Requests run side by side, in the thread pool and in the replicas of    *)
(* the deployment, over one database: every `with get_conn()` block is a   *)
(* step, and what a request has read may have changed when it acts on it.  *)
(* The approval of single calls is in HitlGate, the registry's history in  *)
(* AgentRegistry.                                                          *)
(***************************************************************************)
EXTENDS Integers, Sequences, FiniteSets

CONSTANTS
    Agents,          \* agent ids
    Seeded,          \* the agents there are at first
    Profiles,        \* keystroke profiles, enrolled or sampled
    Matches,         \* <<enrolled, sample>>: compare_profiles reaches the threshold
    PipelineProfile, \* the profile the pipeline enrols and verifies
    Requests,        \* requests in flight
    NoAgent, NoOperator,
    Tasks,           \* the number of steps of a workflow
    MaxCalls,        \* bound: tool calls of an agent loop
    MaxEnrolls,      \* bound: enrolments
    MaxCerts,        \* bound: certificates
    MaxChanges       \* bound: changes made by requests of a single transaction

Status == {"absent", "active", "suspended", "revoked"}
Operator == [id : 1..MaxEnrolls, profile : Profiles, verified : BOOLEAN]

ASSUME AdmissionAssumption ==
    /\ Seeded \subseteq Agents
    /\ PipelineProfile \in Profiles
    /\ Matches \subseteq Profiles \X Profiles
    /\ NoAgent \notin Agents
    /\ {"operator", "certificate"} \cap Agents = {}
    /\ NoOperator \notin Operator
    /\ {Tasks, MaxCalls, MaxChanges} \subseteq Nat
    /\ {MaxEnrolls, MaxCerts} \subseteq Nat \ {0}

VARIABLES
    status,          \* table agents: the status of each agent
    current,         \* table agents: the one with is_current = 1
    operator,        \* table operators, which holds one row at most
    certs,           \* table certificates, by the order of issued_at
    sessions,        \* table sessions: the requests that started one
    todo,            \* the operations each request still has to do
    at,              \* where in the first of them it is
    mem,             \* what it has read
    seen,            \* history: what held at some moment of its operation
    matched,         \* history: the operators a matching sample was compared with
    enrolls, issues, changes   \* history: how often each happened

tables == <<status, current, operator, certs, sessions>>
counts == <<enrolls, issues, changes>>
vars == <<tables, todo, at, mem, seen, matched, counts>>

Blank == [agent |-> NoAgent, status |-> "absent", id |-> 0, ok |-> FALSE,
          cert |-> 0, calls |-> 0, ran |-> FALSE]

(* The operations of a request.  suspend, uncertify and full are the actions *)
(* of Sonar's contain, which gives up when there is no agent; a playbook     *)
(* goes on to the next step of its case.                                     *)
Work == [verify   |-> <<"verify">>,
         issue    |-> <<"issue">>,
         revoke   |-> <<"revoke">>,
         suspend  |-> <<"contain">>,
         uncertify |-> <<"find", "revoke">>,
         full     |-> <<"contain", "revoke">>,
         playbook |-> <<"tryContain", "revoke">>,
         start    |-> <<"start">>,
         workflow |-> [i \in 1..Tasks |-> "task"],
         pipeline |-> <<"provision", "enroll", "verify", "issue", "start">>]

(* The database is new, or what an earlier pipeline of this server left: an  *)
(* agent that is current, a verified operator, a certificate.                *)
NewDatabase ==
    /\ current = NoAgent
    /\ operator = NoOperator
    /\ certs = [n \in 1..MaxCerts |-> "absent"]
    /\ matched = {}
    /\ enrolls = 0 /\ issues = 0

UsedDatabase ==
    /\ current \in Seeded
    /\ operator = [id |-> 1, profile |-> PipelineProfile, verified |-> TRUE]
    /\ certs = [n \in 1..MaxCerts |-> IF n = 1 THEN "valid" ELSE "absent"]
    /\ matched = {1}
    /\ enrolls = 1 /\ issues = 1

Init ==
    /\ NewDatabase \/ UsedDatabase
    /\ status = [a \in Agents |-> IF a \in Seeded THEN "active" ELSE "absent"]
    /\ sessions = {}
    /\ todo = [r \in Requests |-> <<>>]
    /\ at = [r \in Requests |-> "new"]
    /\ mem = [r \in Requests |-> Blank]
    /\ seen = [r \in Requests |-> {}]
    /\ changes = 0

-----------------------------------------------------------------------------
(* get_certificate: the row with the latest issued_at, if there is one.      *)
Newest(n) ==
    /\ certs[n] # "absent"
    /\ \A m \in 1..MaxCerts : certs[m] # "absent" => m <= n
NoCertificate == \A n \in 1..MaxCerts : certs[n] = "absent"
InForce == \E n \in 1..MaxCerts : Newest(n) /\ certs[n] = "valid"
Verified == operator # NoOperator /\ operator.verified

(* What a request that looks now finds in order.                             *)
Holds == {a \in Agents : status[a] # "suspended"}
           \cup (IF Verified THEN {"operator"} ELSE {})
           \cup (IF InForce THEN {"certificate"} ELSE {})

Doing(r, op, where) == todo[r] # <<>> /\ Head(todo[r]) = op /\ at[r] = where

(* The operation goes on, is over, or fails and ends the request.            *)
Goto(r, where, m) ==
    /\ at' = [at EXCEPT ![r] = where]
    /\ mem' = [mem EXCEPT ![r] = m]
    /\ UNCHANGED todo

Advance(r) ==
    /\ todo' = [todo EXCEPT ![r] = Tail(@)]
    /\ at' = [at EXCEPT ![r] = IF Len(todo[r]) = 1 THEN "over" ELSE "begin"]
    /\ mem' = [mem EXCEPT ![r] = IF Len(todo[r]) = 1 THEN @ ELSE Blank]

Abort(r) ==
    /\ todo' = [todo EXCEPT ![r] = <<>>]
    /\ at' = [at EXCEPT ![r] = "failed"]
    /\ UNCHANGED mem

Begin(r, kind) ==
    /\ at[r] = "new"
    /\ todo' = [todo EXCEPT ![r] = Work[kind]]
    /\ at' = [at EXCEPT ![r] = IF Work[kind] = <<>> THEN "over" ELSE "begin"]
    /\ UNCHANGED <<tables, mem, matched, counts>>

-----------------------------------------------------------------------------
(* SafePulse.                                                                *)
Enrolled(p) ==
    /\ enrolls < MaxEnrolls
    /\ operator' = [id |-> enrolls + 1, profile |-> p, verified |-> FALSE]
    /\ enrolls' = enrolls + 1

Enroll(r) ==
    /\ Doing(r, "enroll", "begin")
    /\ Enrolled(PipelineProfile)
    /\ Advance(r)
    /\ UNCHANGED <<status, current, certs, sessions, matched, issues, changes>>

(* The pipeline's sample matches the profile it enrolled; it does not look   *)
(* at the answer.                                                            *)
Samples(r) == IF Len(todo[r]) = 1 THEN Profiles ELSE {PipelineProfile}

VerifyRead(r) ==
    /\ Doing(r, "verify", "begin")
    /\ \/ /\ operator = NoOperator
          /\ Advance(r)
          /\ UNCHANGED matched
       \/ /\ operator # NoOperator
          /\ \E sample \in Samples(r) :
               LET ok == <<operator.profile, sample>> \in Matches
               IN  /\ Goto(r, "write", [Blank EXCEPT !.id = operator.id, !.ok = ok])
                   /\ matched' = IF ok THEN matched \cup {operator.id} ELSE matched
    /\ UNCHANGED <<tables, counts>>

VerifyWriteLatest(r) ==
    /\ Doing(r, "verify", "write")
    /\ operator' = IF operator # NoOperator
                   THEN [operator EXCEPT !.verified = mem[r].ok] ELSE operator
    /\ Advance(r)
    /\ UNCHANGED <<status, current, certs, sessions, matched, counts>>

(* UPDATE operators ... WHERE operator_id = the one that was read. *)
VerifyWrite(r) ==
    /\ Doing(r, "verify", "write")
    /\ operator' = IF operator # NoOperator /\ operator.id = mem[r].id
                   THEN [operator EXCEPT !.verified = mem[r].ok] ELSE operator
    /\ Advance(r)
    /\ UNCHANGED <<status, current, certs, sessions, matched, counts>>

-----------------------------------------------------------------------------
(* TrustRegistry.  issued_at is taken before the row is inserted.            *)
IssueReadAgent(r) ==
    /\ Doing(r, "issue", "begin")
    /\ Goto(r, "operator", [Blank EXCEPT !.agent = current])
    /\ UNCHANGED <<tables, matched, counts>>

IssueReadOperator(r) ==
    /\ Doing(r, "issue", "operator")
    /\ \/ /\ mem[r].agent = NoAgent \/ ~Verified
          /\ Abort(r)
          /\ UNCHANGED issues
       \/ /\ mem[r].agent # NoAgent /\ Verified
          /\ issues < MaxCerts
          /\ issues' = issues + 1
          /\ Goto(r, "insert", [mem[r] EXCEPT !.cert = issues + 1])
    /\ UNCHANGED <<tables, matched, enrolls, changes>>

IssueInsert(r) ==
    /\ Doing(r, "issue", "insert")
    /\ certs' = [certs EXCEPT ![mem[r].cert] = "valid"]
    /\ Advance(r)
    /\ UNCHANGED <<status, current, operator, sessions, matched, counts>>

RevokeRead(r) ==
    /\ Doing(r, "revoke", "begin")
    /\ \/ NoCertificate /\ Advance(r)
       \/ \E n \in 1..MaxCerts :
            /\ Newest(n)
            /\ Goto(r, "write", [Blank EXCEPT !.cert = n])
    /\ UNCHANGED <<tables, matched, counts>>

RevokeWrite(r) ==
    /\ Doing(r, "revoke", "write")
    /\ certs' = [certs EXCEPT ![mem[r].cert] = IF @ = "absent" THEN @ ELSE "revoked"]
    /\ Advance(r)
    /\ UNCHANGED <<status, current, operator, sessions, matched, counts>>

-----------------------------------------------------------------------------
(* Sonar's contain: of the agent that is named, or of the current one.       *)
NoneFound == current = NoAgent \/ \E a \in Agents : status[a] = "absent"

ContainRead(r) ==
    /\ Doing(r, "contain", "begin")
    /\ \/ \E a \in Agents :
            /\ status[a] # "absent"
            /\ Goto(r, "write", [Blank EXCEPT !.agent = a])
       \/ NoneFound /\ Abort(r)
    /\ UNCHANGED <<tables, matched, counts>>

FindAgent(r) ==
    /\ Doing(r, "find", "begin")
    /\ \/ /\ \E a \in Agents : status[a] # "absent"
          /\ Advance(r)
       \/ NoneFound /\ Abort(r)
    /\ UNCHANGED <<tables, matched, counts>>

(* The playbook of a case contains the current agent.                        *)
TryContainRead(r) ==
    /\ Doing(r, "tryContain", "begin")
    /\ IF current = NoAgent THEN Advance(r)
       ELSE Goto(r, "write", [Blank EXCEPT !.agent = current])
    /\ UNCHANGED <<tables, matched, counts>>

ContainWrite(r) ==
    /\ Doing(r, "contain", "write") \/ Doing(r, "tryContain", "write")
    /\ status' = [status EXCEPT ![mem[r].agent] = "suspended"]
    /\ Advance(r)
    /\ UNCHANGED <<current, operator, certs, sessions, matched, counts>>

-----------------------------------------------------------------------------
(* start_session.  It reads the agent, the operator and the certificate, in  *)
(* this order and in three transactions, then decides.                       *)
StartReadAgent(r) ==
    /\ Doing(r, "start", "begin")
    /\ Goto(r, "operator",
            [Blank EXCEPT !.agent = current,
                          !.status = IF current = NoAgent THEN "absent" ELSE status[current]])
    /\ UNCHANGED <<tables, matched, counts>>

StartReadOperator(r) ==
    /\ Doing(r, "start", "operator")
    /\ Goto(r, "certificate", [mem[r] EXCEPT !.ok = Verified])
    /\ UNCHANGED <<tables, matched, counts>>

AdmissibleWithAny(r) ==
    /\ mem[r].agent # NoAgent
    /\ mem[r].ok
    /\ ~NoCertificate
    /\ mem[r].status # "suspended"

Admissible(r) ==
    /\ mem[r].agent # NoAgent
    /\ mem[r].ok
    /\ InForce
    /\ mem[r].status # "suspended"

StartReadCertificate(r) ==
    /\ Doing(r, "start", "certificate")
    /\ IF Admissible(r) THEN Goto(r, "loop", mem[r]) ELSE Abort(r)
    /\ UNCHANGED <<tables, matched, counts>>

(* A step of run_workflow: the agent of the step, or the current one, which  *)
(* it then makes the current one.                                            *)
TaskRead(r) ==
    /\ Doing(r, "task", "begin")
    /\ \/ \E a \in Agents :
            /\ status[a] # "absent"
            /\ Goto(r, "select", [Blank EXCEPT !.agent = a, !.status = status[a]])
       \/ /\ current = NoAgent
          /\ Abort(r)
    /\ UNCHANGED <<tables, matched, counts>>

TaskSelect(r) ==
    /\ Doing(r, "task", "select")
    /\ current' = mem[r].agent
    /\ Goto(r, "loop", mem[r])
    /\ UNCHANGED <<status, operator, certs, sessions, matched, counts>>

(* A call of run_agent_loop.  The policies are given the status the agent    *)
(* had when it was read.  The seeded policy pol-suspended-agent, while it is *)
(* enabled, denies a suspended agent every tool; what the other policies and *)
(* the operator at the gate say of a call may be anything.                   *)
Looping(r) == Doing(r, "start", "loop") \/ Doing(r, "task", "loop")

Deniable(r) == mem[r].status = "suspended"

CallIgnoringStatus(r) ==
    /\ Looping(r)
    /\ mem[r].calls < MaxCalls
    /\ \E allowed \in BOOLEAN :
         Goto(r, "loop", [mem[r] EXCEPT !.calls = @ + 1, !.ran = @ \/ allowed])
    /\ UNCHANGED <<tables, matched, counts>>

Call(r) ==
    /\ Looping(r)
    /\ mem[r].calls < MaxCalls
    /\ \E allowed \in BOOLEAN :
         /\ Deniable(r) => ~allowed
         /\ Goto(r, "loop", [mem[r] EXCEPT !.calls = @ + 1, !.ran = @ \/ allowed])
    /\ UNCHANGED <<tables, matched, counts>>

(* The loop is over; start_session records the session.                      *)
Finish(r) ==
    /\ Looping(r)
    /\ sessions' = IF Head(todo[r]) = "start" THEN sessions \cup {r} ELSE sessions
    /\ Advance(r)
    /\ UNCHANGED <<status, current, operator, certs, matched, counts>>

-----------------------------------------------------------------------------
(* The pipeline defines a fresh agent unless the current one is active.      *)
Provision(r) ==
    /\ Doing(r, "provision", "begin")
    /\ IF current # NoAgent /\ status[current] = "active"
       THEN Advance(r) ELSE Goto(r, "save", mem[r])
    /\ UNCHANGED <<tables, matched, counts>>

ProvisionSave(r) ==
    /\ Doing(r, "provision", "save")
    /\ \E a \in Agents :
         /\ status[a] = "absent"
         /\ status' = [status EXCEPT ![a] = "active"]
         /\ current' = a
    /\ Advance(r)
    /\ UNCHANGED <<operator, certs, sessions, matched, counts>>

-----------------------------------------------------------------------------
(* Requests that are one transaction.                                        *)
Changing ==
    /\ changes < MaxChanges
    /\ changes' = changes + 1
    /\ UNCHANGED <<certs, todo, at, mem, matched, issues>>

EnrollOperator ==
    /\ Changing
    /\ \E p \in Profiles : Enrolled(p)
    /\ UNCHANGED <<status, current, sessions>>

ResetOperators ==
    /\ Changing
    /\ operator' = NoOperator
    /\ UNCHANGED <<status, current, sessions, enrolls>>

(* suspend_agent and activate_agent, and what a rollback sets the status to. *)
SetStatus(a) ==
    /\ Changing
    /\ status[a] # "absent"
    /\ \E s \in Status \ {"absent"} : status' = [status EXCEPT ![a] = s]
    /\ UNCHANGED <<current, operator, sessions, enrolls>>

RevokeAgent(a) ==
    /\ Changing
    /\ status[a] # "absent"
    /\ status' = [status EXCEPT ![a] = "revoked"]
    /\ current' = IF current = a THEN NoAgent ELSE current
    /\ UNCHANGED <<operator, sessions, enrolls>>

(* set_current_agent: an id that has no row leaves no agent current. *)
SelectAgent(a) ==
    /\ Changing
    /\ current' = IF status[a] = "absent" THEN NoAgent ELSE a
    /\ UNCHANGED <<status, operator, sessions, enrolls>>

SaveAgent(a) ==
    /\ Changing
    /\ status[a] = "absent"
    /\ status' = [status EXCEPT ![a] = "active"]
    /\ current' = a
    /\ UNCHANGED <<operator, sessions, enrolls>>

ResetAll ==
    /\ changes < MaxChanges
    /\ changes' = changes + 1
    /\ operator' = NoOperator
    /\ certs' = [n \in 1..MaxCerts |-> "absent"]
    /\ sessions' = {}
    /\ current' = NoAgent
    /\ UNCHANGED <<status, todo, at, mem, matched, enrolls, issues>>

-----------------------------------------------------------------------------
RequestStep(r) ==
    \/ \E kind \in DOMAIN Work : Begin(r, kind)
    \/ Enroll(r) \/ VerifyRead(r) \/ VerifyWrite(r)
    \/ IssueReadAgent(r) \/ IssueReadOperator(r) \/ IssueInsert(r)
    \/ RevokeRead(r) \/ RevokeWrite(r)
    \/ ContainRead(r) \/ FindAgent(r) \/ TryContainRead(r) \/ ContainWrite(r)
    \/ StartReadAgent(r) \/ StartReadOperator(r) \/ StartReadCertificate(r)
    \/ TaskRead(r) \/ TaskSelect(r) \/ Call(r) \/ Finish(r)
    \/ Provision(r) \/ ProvisionSave(r)

Change ==
    \/ EnrollOperator \/ ResetOperators \/ ResetAll
    \/ \E a \in Agents : SetStatus(a) \/ RevokeAgent(a) \/ SelectAgent(a) \/ SaveAgent(a)

(* What held since each operation began, kept when the request is over.      *)
Observe ==
    seen' = [r \in Requests |->
               IF todo'[r] = <<>> THEN seen[r]
               ELSE IF todo'[r] # todo[r] THEN Holds'
               ELSE seen[r] \cup Holds']

Next == (Change \/ \E r \in Requests : RequestStep(r)) /\ Observe

Spec == Init /\ [][Next]_vars

-----------------------------------------------------------------------------
Memory == [agent : Agents \cup {NoAgent}, status : Status, id : 0..MaxEnrolls,
           ok : BOOLEAN, cert : 0..MaxCerts, calls : 0..MaxCalls, ran : BOOLEAN]

Operations == {"verify", "issue", "revoke", "contain", "find", "tryContain", "start",
               "task", "provision", "enroll"}
Places == {"new", "begin", "write", "operator", "certificate", "insert",
           "select", "loop", "save", "over", "failed"}

(* The tables and the requests keep their types; the current agent is one    *)
(* that the table has, and a certificate is one that was issued.             *)
TypeOK ==
    /\ status \in [Agents -> Status]
    /\ current \in {a \in Agents : status[a] # "absent"} \cup {NoAgent}
    /\ operator \in Operator \cup {NoOperator}
    /\ certs \in [1..MaxCerts -> {"absent", "valid", "revoked"}]
    /\ \A n \in 1..MaxCerts : certs[n] # "absent" => n <= issues
    /\ sessions \subseteq Requests
    /\ todo \in [Requests -> Seq(Operations)]
    /\ at \in [Requests -> Places]
    /\ mem \in [Requests -> Memory]
    /\ seen \in [Requests -> SUBSET (Agents \cup {"operator", "certificate"})]
    /\ matched \subseteq 1..enrolls
    /\ counts \in (0..MaxEnrolls) \X (0..MaxCerts) \X (0..MaxChanges)

(* Whatever enrolments, samples and resets overlap, an operator is verified  *)
(* only after a sample matched the profile of that very enrolment.           *)
VerifiedBySample == Verified => operator.id \in matched

(* A session was started only if, at some moment of its start_session, each  *)
(* of these held: the operator was verified, the certificate in force was    *)
(* not revoked, and the agent was not suspended.                             *)
SessionsAreAdmitted ==
    \A r \in sessions : {"operator", "certificate", mem[r].agent} \subseteq seen[r]

(* An agent that was suspended all the while runs no tool, in a session or   *)
(* in a workflow, which admits it without any check.                         *)
SuspendedRunNothing ==
    \A r \in Requests : mem[r].ran => mem[r].agent \in seen[r]
=============================================================================
