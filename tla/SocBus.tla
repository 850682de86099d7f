------------------------------- MODULE SocBus -------------------------------
(***************************************************************************)
(* The SOC bus of the API service (services/api/app/services/soc_bus.py,   *)
(* sonar.py, ai_soc.py): events from webhooks and from Sonar are stored,   *)
(* correlated into cases, triaged, and answered by playbooks that call the *)
(* tools around them (Connectors).                                         *)
(*                                                                         *)
(* Requests run side by side; every `with get_conn()` block is one step.   *)
(* A request is a plan, the list of the tasks it does one after the other: *)
(* most are one task, a demo or a tabletop story is several.  An event is  *)
(* known by its actor, its time, the device its evidence names and its     *)
(* kinds: identity anomaly, threat of an agent, EDR alert.  Cases are      *)
(* numbered in the order of their creation.                                *)
(***************************************************************************)
EXTENDS Connectors, Integers, Sequences, FiniteSets, SequencesExt

CONSTANTS
    Requests,
    Events,             \* event ids
    ActorOf, TimeOf,    \* the user and the ts of each event
    KindsOf, DeviceOf,  \* its kinds, and evidence.deviceId
    Sources, SourceOf,  \* the source of each event: okta, crowdstrike, sonar ...
    Hosts,              \* hosts and devices
    CorrelateWindow,    \* CORRELATE_WINDOW_SEC
    RelatedLimit,       \* how many related events are looked at (20)
    Rules,              \* Sonar's _RULES, in order: [type, severity, autoContain]
    Plans,              \* the plans of requests
    None,
    MaxCases            \* bound: cases there are in the end

Actors == { ActorOf[e] : e \in Events }
Kinds == {"identity", "agent", "edr"}

ASSUME SocAssumption ==
    /\ TimeOf \in [Events -> Nat] /\ KindsOf \in [Events -> SUBSET Kinds]
    /\ DeviceOf \in [Events -> Hosts \cup {NoHost}] /\ SourceOf \in [Events -> Sources]
    /\ {CorrelateWindow, RelatedLimit, MaxCases} \subseteq Nat

VARIABLES
    stored,      \* table soc_events: the events in it ...
    caseOf,      \* ... and their case_id, 0 for NULL
    cases,       \* table soc_cases
    hostOf,      \* table ai_soc_bindings: the host last bound to each actor
    req,         \* what each request is doing
    settled,     \* history: the events whose correlation came to its end
    shut,        \* history: the cases that have been contained or closed
    happened,    \* history: what was really done for a case: <<case, step>>
    isolated,    \* history: hosts isolated for a case: <<case, host>>
    bound        \* history: <<actor, host>> bound at some time

historyVars == <<settled, shut, happened, isolated, bound>>
tables == <<stored, caseOf, cases, hostOf>>
vars == <<tables, req, historyVars>>

OpenStatus == {"open", "investigating", "acknowledged"}
Status == OpenStatus \cup {"contained", "closed"}
Idle == [step |-> "idle", plan |-> <<>>, event |-> None, linked |-> {}, listed |-> {},
         case |-> 0, actions |-> <<>>, status |-> "open",
         score |-> 0, before |-> {}]

Init ==
    /\ stored = {} /\ caseOf = [e \in Events |-> 0]
    /\ cases = <<>> /\ hostOf = [a \in Actors |-> NoHost]
    /\ req = [r \in Requests |-> Idle]
    /\ settled = {} /\ shut = {} /\ happened = {} /\ isolated = {} /\ bound = {}

-----------------------------------------------------------------------------
At(r, step) == req[r].step = step
Goto(r, step) == req' = [req EXCEPT ![r].step = step]
Over == { r \in Requests : req[r].step \in {"done", "lost"} }

Doing(r, op) == At(r, "task") /\ req[r].plan # <<>> /\ Head(req[r].plan).op = op
Task(r) == Head(req[r].plan)

(* The task is over: the next one of the plan, or the answer. *)
Proceed(r, case, before) ==
    req' = [req EXCEPT ![r] = [Idle EXCEPT
        !.plan = Tail(req[r].plan), !.case = case, !.before = before,
        !.step = IF Len(req[r].plan) = 1 THEN "done" ELSE "task"]]
TaskOver(r) == Proceed(r, req[r].case, req[r].before)

(* A request begins: a plan, and the case its URL names, if any. *)
Arrive(r, plan, case) ==
    /\ At(r, "idle")
    /\ req' = [req EXCEPT ![r] = [Idle EXCEPT !.step = "task", !.plan = plan,
                                                 !.case = case, !.before = Over]]
    /\ UNCHANGED <<tables, historyVars>>

-----------------------------------------------------------------------------
(* Events *)

IngestCorrelatingFirst(r) ==
    /\ Doing(r, "ingest")
    /\ IF Task(r).event \in stored THEN TaskOver(r)
       ELSE req' = [req EXCEPT ![r].step = "correlate", ![r].event = Task(r).event]
    /\ UNCHANGED <<stored, caseOf, cases, hostOf, historyVars>>

(* ingest_event: an id that is there already is a duplicate, which is not  *)
(* correlated again; otherwise the row is inserted.                        *)
Ingest(r) ==
    /\ Doing(r, "ingest")
    /\ IF Task(r).event \in stored
       THEN TaskOver(r) /\ UNCHANGED stored
       ELSE /\ stored' = stored \cup {Task(r).event}
            /\ req' = [req EXCEPT ![r].step = "correlate", ![r].event = Task(r).event]
    /\ UNCHANGED <<caseOf, cases, hostOf, historyVars>>

RelatedAfter(e) == { d \in stored \ {e} : ActorOf[d] = ActorOf[e] /\ TimeOf[d] >= TimeOf[e] }

(* _find_related: of the same actor, and no older than the window allows;  *)
(* of too many only the latest are read.                                   *)
Related(e) == { d \in stored \ {e} :
                  ActorOf[d] = ActorOf[e] /\ TimeOf[d] >= TimeOf[e] - CorrelateWindow }
Latest(S) == IF Cardinality(S) <= RelatedLimit THEN {S}
             ELSE { L \in SUBSET S : /\ Cardinality(L) = RelatedLimit
                                     /\ \A d \in L, x \in S \ L : TimeOf[d] >= TimeOf[x] }

Hits(pool, kind) == { e \in pool : kind \in KindsOf[e] }
AnyHits(pool) == UNION { Hits(pool, k) : k \in Kinds }

(* The rules of correlate_event: a threat of an agent, and an identity     *)
(* anomaly or an EDR alert beside it.                                      *)
Correlates(pool) ==
    /\ Hits(pool, "agent") # {}
    /\ Hits(pool, "identity") \cup Hits(pool, "edr") # {}

Correlate(r) ==
    /\ At(r, "correlate")
    /\ \E related \in Latest(Related(req[r].event)) :
         LET pool == related \cup {req[r].event}
         IN  IF Correlates(pool)
             THEN /\ req' = [req EXCEPT ![r].step = "find_case", ![r].linked = AnyHits(pool)]
                  /\ UNCHANGED settled
             ELSE TaskOver(r) /\ settled' = settled \cup {req[r].event}
    /\ UNCHANGED <<tables, shut, happened, isolated, bound>>

NewCases(actor) == { c \in DOMAIN cases : cases[c].actor = actor /\ cases[c].status = "open" }
OpenCases(actor) == { c \in DOMAIN cases : cases[c].actor = actor /\ cases[c].status \in OpenStatus }

(* The newest open case of the actor, and the events it lists. *)
FindCase(r) ==
    LET open == OpenCases(ActorOf[req[r].event])
    IN  /\ At(r, "find_case")
        /\ IF open = {} THEN Goto(r, "open_case")
           ELSE req' = [req EXCEPT ![r].step = "merge", ![r].case = Max(open),
                                   ![r].listed = cases[Max(open)].linked]
        /\ UNCHANGED <<tables, historyVars>>

Tag(events, c) == [e \in Events |-> IF e \in events THEN c ELSE caseOf[e]]
Settle(r) == settled' = settled \cup {req[r].event}

(* It lists what was read and the hits, whatever it lists or is by now. *)
Merge(r) ==
    LET c == req[r].case
    IN  /\ At(r, "merge")
        /\ cases' = [cases EXCEPT ![c].linked = req[r].listed \cup req[r].linked,
                                  ![c].severity = "critical"]
        /\ caseOf' = Tag(req[r].linked, c)
        /\ Settle(r) /\ TaskOver(r)
        /\ UNCHANGED <<stored, hostOf, shut, happened, isolated, bound>>

Steps == {"contain", "revoke", "crowdstrike", "defender", "okta", "jira", "slack",
          "pagerduty", "webhook"}
ManualSteps == {"contain", "revoke", "slack", "jira"}

Case(actor, severity, linked, steps, opener, correlated) ==
    [actor |-> actor, severity |-> severity, status |-> "open", linked |-> linked,
     steps |-> [s \in steps |-> "pending"], score |-> 0, opener |-> opener,
     correlated |-> correlated]

(* A new case with all steps pending, its events tagged with it; next it   *)
(* is triaged.                                                             *)
InsertCase(r, case) ==
    /\ Len(cases) < MaxCases
    /\ cases' = Append(cases, case)
    /\ caseOf' = Tag(case.linked, Len(cases) + 1)
    /\ req' = [req EXCEPT ![r].step = "triage", ![r].case = Len(cases) + 1]

OpenCase(r) ==
    /\ At(r, "open_case")
    /\ InsertCase(r, Case(ActorOf[req[r].event], "critical", req[r].linked, Steps, r, TRUE))
    /\ Settle(r)
    /\ UNCHANGED <<stored, hostOf, shut, happened, isolated, bound>>

(* open_manual_case: for the event the plan has stored last. *)
OpenManual(r) ==
    /\ Doing(r, "manual")
    /\ InsertCase(r, Case(ActorOf[Task(r).event], Task(r).severity, {Task(r).event},
                          ManualSteps, r, FALSE))
    /\ UNCHANGED <<stored, hostOf, historyVars>>

-----------------------------------------------------------------------------
(* Triage *)
If(condition, points) == IF condition THEN points ELSE 0

(* The score of triage_case, 99 at most, and the risk it stands for. *)
Score(severity, events) ==
    LET sum == 40 + If(severity = "critical", 35) + If(severity = "high", 25)
               + If(Hits(events, "identity") # {}, 15) + If(Hits(events, "agent") # {}, 20)
               + If(Hits(events, "edr") # {}, 18)
               + If(Cardinality({ SourceOf[e] : e \in events }) >= 2, 10)
    IN  IF sum > 99 THEN 99 ELSE sum
Risk(score) == CASE score >= 85 -> "critical" [] score \in 70..84 -> "high"
                 [] score \in 50..69 -> "elevated" [] score < 50 -> "low"

TriageRead(r) ==
    LET c == req[r].case
    IN  /\ At(r, "triage") \/ (Doing(r, "triage") /\ c # 0)
        /\ req' = [req EXCEPT ![r].step = "triaged",
                              ![r].score = Score(cases[c].severity, cases[c].linked)]
        /\ UNCHANGED <<tables, historyVars>>

TriageWrite(r) ==
    /\ At(r, "triaged")
    /\ cases' = [cases EXCEPT ![req[r].case].score = req[r].score]
    /\ TaskOver(r)
    /\ UNCHANGED <<stored, caseOf, hostOf, historyVars>>

-----------------------------------------------------------------------------
(* Playbooks and analysts *)

(* run_case_playbook reads the case and its events ... *)
RunRead(r) ==
    LET c == cases[req[r].case]
    IN  /\ Doing(r, "run")
        /\ req' = [req EXCEPT ![r].step = "fan_out", ![r].linked = c.linked,
              ![r].actions = [s \in DOMAIN c.steps \cup {"crowdstrike", "defender", "pagerduty"}
                                |-> "pending"]]
        /\ UNCHANGED <<tables, historyVars>>

Devices(events) == { DeviceOf[e] : e \in events } \ {NoHost}
HostsOfAnyone(actor, events) ==
    IF Devices(events) # {} THEN Devices(events) ELSE { hostOf[a] : a \in Actors }

(* The host to isolate: a device the evidence names (the host name of an   *)
(* event is not kept in its row), else the one last bound to the actor.    *)
HostsFor(actor, events) ==
    IF Devices(events) # {} THEN Devices(events) ELSE {hostOf[actor]}

EdrSent(out) == Sent \in {out.crowdstrike, out.defender, out.sentinelone}
ReallySent(out) ==
    { s \in DOMAIN out : out[s] = Sent } \cup (IF out.splunk = Sent THEN {"webhook"} ELSE {})

MarkByLive(ok, live) == IF live THEN "done" ELSE "simulated"
Mark(ok, live) == IF ~ok THEN "failed" ELSE IF live THEN "done" ELSE "simulated"

(* What the playbook says of the step of a service: failed, done, or done  *)
(* as a simulation; the webhook step stands for two services.              *)
Outcome(step, out) ==
    IF step = "webhook"
    THEN Mark(out.webhook.ok \/ out.splunk.ok, out.webhook.live \/ out.splunk.live)
    ELSE Mark(out[step].ok, out[step].live)

Internal == {"contain", "revoke"}

(* ... calls all services at once ... *)
FanOut(r) ==
    LET c == req[r].case
    IN  /\ At(r, "fan_out")
        /\ \E host \in HostsFor(cases[c].actor, req[r].linked) :
             \E out \in OutboundBundle(host) :
               /\ req' = [req EXCEPT ![r].step = "steps", ![r].linked = {},
                    ![r].actions = [s \in DOMAIN @ |-> IF s \in Internal THEN @[s]
                                                      ELSE Outcome(s, out)]]
               /\ happened' = happened \cup { <<c, s>> : s \in ReallySent(out) \ {"splunk"} }
               /\ isolated' = isolated \cup (IF EdrSent(out) THEN {<<c, host>>} ELSE {})
        /\ UNCHANGED <<tables, settled, shut, bound>>

(* ... takes the steps in turn: contain suspends the current agent, if     *)
(* there is one, and revoke_certificate the latest certificate, if any     *)
(* (both modelled in Admission), but only contain is asked how it went ... *)
RunSteps(r) ==
    /\ At(r, "steps")
    /\ \E agent, certificate \in BOOLEAN :
         /\ req' = [req EXCEPT ![r].step = "write_back",
                ![r].actions = [s \in DOMAIN @ |->
                   CASE s = "contain" -> Mark(agent, TRUE) [] s = "revoke" -> "done"
                     [] OTHER -> @[s]]]
         /\ happened' = happened \cup { <<req[r].case, s>> : s \in
                (IF agent THEN {"contain"} ELSE {}) \cup (IF certificate THEN {"revoke"} ELSE {}) }
    /\ UNCHANGED <<tables, settled, shut, isolated, bound>>

Shut(c, status) == shut' = IF status \in OpenStatus THEN shut ELSE shut \cup {c}

(* ... and writes them back, with the status contained. *)
WriteBack(r) ==
    /\ At(r, "write_back")
    /\ cases' = [cases EXCEPT ![req[r].case].steps = req[r].actions,
                              ![req[r].case].status = "contained"]
    /\ Shut(req[r].case, "contained")
    /\ TaskOver(r)
    /\ UNCHANGED <<stored, caseOf, hostOf, settled, happened, isolated, bound>>

(* update_case: without a status it writes the one it has read. *)
UpdateRead(r) ==
    /\ Doing(r, "update")
    /\ req' = [req EXCEPT ![r].step = "update", ![r].status =
          IF Task(r).status = None THEN cases[req[r].case].status ELSE Task(r).status]
    /\ UNCHANGED <<tables, historyVars>>

UpdateWrite(r) ==
    /\ At(r, "update")
    /\ cases' = [cases EXCEPT ![req[r].case].status = req[r].status]
    /\ Shut(req[r].case, req[r].status)
    /\ TaskOver(r)
    /\ UNCHANGED <<stored, caseOf, hostOf, settled, happened, isolated, bound>>

(* bind_entity: the newest binding of an actor is the one playbooks take. *)
Bind(r) ==
    /\ Doing(r, "bind")
    /\ hostOf' = [hostOf EXCEPT ![Task(r).actor] = Task(r).host]
    /\ bound' = bound \cup {<<Task(r).actor, Task(r).host>>}
    /\ TaskOver(r)
    /\ UNCHANGED <<stored, caseOf, cases, settled, shut, happened, isolated>>

-----------------------------------------------------------------------------
(* Sonar and the stories *)
IngestTask(e) == [op |-> "ingest", event |-> e]
ScanTask(hits, e) == [op |-> "scan", hits |-> hits, event |-> e]
ManualTask(e, severity) == [op |-> "manual", event |-> e, severity |-> severity]
TriageTask == [op |-> "triage"]

(* scan_prompt: the first rule that matches; when it is high or critical,  *)
(* the agent is contained (see Admission) and the hit goes to the bus.     *)
Scan(r) ==
    LET hits == { i \in DOMAIN Rules : Rules[i].type \in Task(r).hits }
    IN  /\ Doing(r, "scan")
        /\ IF hits # {} /\ Rules[Min(hits)].severity \in {"high", "critical"}
           THEN req' = [req EXCEPT ![r].plan = <<IngestTask(Task(r).event)>> \o Tail(@)]
           ELSE TaskOver(r)
        /\ UNCHANGED <<tables, historyVars>>

(* The demos correlate once more if no case has come of their events. *)
CorrelateAgain(r) ==
    /\ Doing(r, "correlate")
    /\ IF req[r].case # 0 THEN TaskOver(r)
       ELSE req' = [req EXCEPT ![r].step = "correlate", ![r].event = Task(r).event]
    /\ UNCHANGED <<tables, historyVars>>
CorrelateTask(e) == [op |-> "correlate", event |-> e]

Demo(alert, threat, hits, scanned) ==
    <<IngestTask(alert), IngestTask(threat), ScanTask(hits, scanned), CorrelateTask(threat)>>
TabletopCorrelated(alert, threat, hits, scanned) ==
    Append(Demo(alert, threat, hits, scanned), TriageTask)
TabletopJailbreak(threat, hits, scanned) ==
    <<ScanTask(hits, scanned), IngestTask(threat), ManualTask(threat, "critical")>>
TabletopPolicy(threat) == <<IngestTask(threat), ManualTask(threat, "high")>>
CrowdstrikeSync(alerts) == [i \in DOMAIN alerts |-> IngestTask(alerts[i])]

NamesCase(plan) == Head(plan).op \in {"run", "update", "triage"}

Tasks ==
    [op : {"ingest", "correlate"}, event : Events]
    \cup [op : {"manual"}, event : Events, severity : {"high", "critical"}]
    \cup [op : {"scan"}, event : Events, hits : SUBSET { Rules[i].type : i \in DOMAIN Rules }]
    \cup [op : {"run", "triage"}]
    \cup [op : {"update"}, status : Status \cup {None}]
    \cup [op : {"bind"}, actor : Actors, host : Hosts]

(* A plan correlates again, or opens a case by hand for, only an event     *)
(* that it stored before; playbooks and updates are of a case in the URL.  *)
ASSUME PlansAssumption ==
    \A plan \in Plans :
        /\ plan \in Seq(Tasks) \ {<<>>}
        /\ \A i \in DOMAIN plan :
              /\ plan[i].op \in {"manual", "correlate"} =>
                     \E j \in 1..(i - 1) : plan[j] = IngestTask(plan[i].event)
              /\ plan[i].op \in {"run", "update"} => NamesCase(plan)

(* A request is cut off: the server dies, or the database refuses. *)
Lose(r) ==
    /\ req[r].step \notin {"idle", "done", "lost"}
    /\ req' = [req EXCEPT ![r] = [Idle EXCEPT !.step = "lost"]]
    /\ UNCHANGED <<tables, historyVars>>

Work(r) ==
    \/ Ingest(r) \/ Correlate(r) \/ FindCase(r) \/ Merge(r) \/ OpenCase(r) \/ OpenManual(r)
    \/ TriageRead(r) \/ TriageWrite(r) \/ RunRead(r) \/ FanOut(r) \/ RunSteps(r) \/ WriteBack(r)
    \/ UpdateRead(r) \/ UpdateWrite(r) \/ Bind(r) \/ Scan(r) \/ CorrelateAgain(r)

Next ==
    \E r \in Requests :
      \/ Work(r)
      \/ Lose(r)
      \/ \E plan \in Plans, c \in 0..Len(cases) :
            NamesCase(plan) = (c # 0) /\ Arrive(r, plan, c)

Spec == Init /\ [][Next]_vars

-----------------------------------------------------------------------------
TypeOK ==
    /\ stored \subseteq Events
    /\ caseOf \in [Events -> 0..Len(cases)]
    /\ \A c \in DOMAIN cases : cases[c].status \in Status /\ cases[c].linked \subseteq stored
    /\ hostOf \in [Actors -> Hosts \cup {NoHost}]
    /\ \A r \in Requests : req[r].case \in 0..Len(cases)

Near(d, e) == TimeOf[d] - TimeOf[e] \in -CorrelateWindow..CorrelateWindow

(* A threat of an agent and an identity anomaly or EDR alert of the same   *)
(* actor, within the window of each other, are both in a case once both    *)
(* were looked at, whichever came first and whoever was working meanwhile; *)
(* unless the actor has more events than are read.                         *)
NoMissedCorrelation ==
    \A d, e \in settled :
        /\ ActorOf[d] = ActorOf[e] /\ Near(d, e)
        /\ "agent" \in KindsOf[d] /\ KindsOf[e] \cap {"identity", "edr"} # {}
        /\ Cardinality({ x \in stored : ActorOf[x] = ActorOf[e] }) <= RelatedLimit + 1
        => caseOf[d] # 0 /\ caseOf[e] # 0

(* "Reuse open case for same actor if present": a second case of an actor  *)
(* is opened only by a request that overlapped with the first one's, or if *)
(* the first was contained or closed.                                      *)
OneCasePerStory ==
    \A c, d \in DOMAIN cases :
        /\ c < d /\ cases[c].correlated /\ cases[d].correlated
        /\ cases[c].actor = cases[d].actor
        /\ cases[c].opener \in req[cases[d].opener].before \cup {cases[d].opener}
        => c \in shut

(* A case says a step is done only if it was, but for the two of which the *)
(* playbook does not look at what came of them.                            *)
Unchecked == {"webhook", "revoke"}
DoneMeansDone ==
    \A c \in DOMAIN cases : \A s \in DOMAIN cases[c].steps \ Unchecked :
        cases[c].steps[s] = "done" => <<c, s>> \in happened

(* A correlated case always lists a threat of an agent and the anomaly or  *)
(* alert that makes it a case, of its own actor; once triaged it is        *)
(* critical, the level at which the playbook is to run.                    *)
CasesAreJustified ==
    \A c \in DOMAIN cases : cases[c].correlated =>
        /\ Correlates(cases[c].linked)
        /\ \A e \in cases[c].linked : ActorOf[e] = cases[c].actor
        /\ cases[c].score # 0 => Risk(cases[c].score) = "critical"

(* A host is isolated only for a case whose events name it or to whose     *)
(* actor it was bound.                                                     *)
IsolatedHostsAreTheActors ==
    \A ch \in isolated :
        \/ <<cases[ch[1]].actor, ch[2]>> \in bound
        \/ \E e \in stored : DeviceOf[e] = ch[2] /\ ActorOf[e] = cases[ch[1]].actor

(* Both: neither a case nor what is done for it strays to another actor.   *)
CasesStayWithTheirActor == CasesAreJustified /\ IsolatedHostsAreTheActors

-----------------------------------------------------------------------------
(* A claim of the documentation that the code does not keep.               *)

(* operating_model (ai_soc.py): a connector is "clearly labelled simulated *)
(* so demos never lie": a step of a service that a case calls done was     *)
(* done by the service.                                                    *)
PlaybookSaysWhatItDid ==
    \A c \in DOMAIN cases : \A s \in DOMAIN cases[c].steps \ Internal :
        cases[c].steps[s] = "done" => <<c, s>> \in happened
=============================================================================
