------------------------- MODULE Federation_proofs --------------------------
(***************************************************************************)
(* Proofs about Federation, for any requests, catalogs, tenants, keys and  *)
(* bounds: the types; that answers are on record and masks hold; that a    *)
(* retry is replayed; and that the audit log verifies as long as its       *)
(* writers do not overlap.                                                 *)
(***************************************************************************)
EXTENDS Federation, SequenceTheorems, TLAPS

Steps == {"idle", "lookup", "execute", "evaluate", "refuse", "lineage", "answer",
          "done", "failed", "lost"} \cup DOMAIN After
Views == {<<>>} \cup UNION { [S -> Catalog] : S \in SUBSET Names }
Fields == [step : Steps, key : Keys \cup {NoKey}, tenant : Tenants, refs : Seq(Names),
           view : Views, used : Nat, answer : Answer \cup {NoAnswer},
           before : SUBSET Requests]
Request == { q \in Fields : /\ q.step = "evaluate" => q.refs # <<>>
                            /\ q.step = "lookup" => q.key \in Keys }

Events == {NoEvent, Verify} \cup ((DOMAIN After) \X Requests)
Line == [event : Events, prev : Nat, secret : Writers \cup {Blank, NoSecret}]
Writer == [event : Events, step : {"rest", "mint", "fill", "read", "append"},
           secret : Writers \cup {Blank, NoSecret}, prev : Nat]

LogType ==
    /\ secretFile \in Writers \cup {NoSecret, Blank}
    /\ lines \in Seq(Line)
    /\ writer \in [Writers -> Writer]
    /\ verdict \in {"none", "valid", "broken"} /\ overlapped \in BOOLEAN

GateType ==
    /\ catalogs \subseteq Catalog
    /\ queries \in [Requests -> {"none", "ok", "denied"}] /\ lineage \subseteq Requests
    /\ stored \in [Keys -> Answer \cup {NoAnswer}]
    /\ req \in [Requests -> Request]
    /\ lapsed \subseteq Keys

(* An event under way is that of the step its request is at.               *)
Announced(r) ==
    /\ Writing(r) => req[r].step \in DOMAIN After /\ writer[r].event = EventOf(r)
    /\ writer[r].step = "append" => writer[r].event # Verify

IType == LogType /\ GateType /\ \A r \in Requests : Announced(r)

-----------------------------------------------------------------------------
(* Types: the log.                                                         *)

LEMMA EventTyped ==
  ASSUME NEW r \in Requests, req[r].step \in DOMAIN After
  PROVE  EventOf(r) \in Events
<1>1. <<req[r].step, r>> \in ((DOMAIN After) \X Requests)
  OBVIOUS
<1> QED BY <1>1 DEF EventOf, Events

LEMMA GetSecretTyped ==
  ASSUME LogType, NEW w \in Writers, NEW e \in Events, GetSecret(w, e)
  PROVE  LogType'
<1> DEFINE v == [event |-> e, step |-> IF secretFile = NoSecret THEN "mint" ELSE "read",
                 secret |-> secretFile, prev |-> 0]
<1>1. v \in Writer
  BY DEF LogType, Writer
<1>2. writer' = [writer EXCEPT ![w] = v]
  BY DEF GetSecret
<1> HIDE DEF v
<1>3. overlapped' \in BOOLEAN
  BY DEF GetSecret, LogType
<1> QED BY <1>1, <1>2, <1>3 DEF GetSecret, LogType

LEMMA InnerTyped ==
  ASSUME LogType, NEW w \in Writers, AuditStep(w)
  PROVE  LogType'
<1>1. Len(lines) \in Nat
  BY LenProperties DEF LogType
<1>2. ASSUME NEW q \in Writer, NEW n \in Nat, NEW v \in Writers
      PROVE  /\ [q EXCEPT !.step = "fill"] \in Writer
             /\ [q EXCEPT !.step = "read", !.secret = v] \in Writer
             /\ [q EXCEPT !.step = "append", !.prev = n] \in Writer
  BY DEF Writer
<1>3. writer[w] \in Writer
  BY DEF LogType
<1>4. CASE TruncateSecret(w)
  BY <1>2, <1>3, <1>4 DEF TruncateSecret, LogType
<1>5. CASE FillSecret(w)
  BY <1>2, <1>3, <1>5 DEF FillSecret, LogType
<1>6. CASE ReadLast(w)
  BY <1>1, <1>2, <1>3, <1>6 DEF ReadLast, LastHash, LogType
<1> QED BY <1>4, <1>5, <1>6 DEF AuditStep

LEMMA RestingTyped == Resting \in Writer
  BY DEF Resting, Writer, Events

LEMMA AppendTyped ==
  ASSUME LogType, NEW w \in Writers, AppendEvent(w)
  PROVE  LogType'
<1> DEFINE l == [event |-> writer[w].event, prev |-> writer[w].prev,
                 secret |-> writer[w].secret]
<1>1. l \in Line
  BY DEF LogType, Writer, Line
<1>2. lines' = Append(lines, l)
  BY DEF AppendEvent
<1> HIDE DEF l
<1>3. lines' \in Seq(Line)
  BY <1>1, <1>2, AppendProperties DEF LogType
<1> QED BY <1>3, RestingTyped DEF AppendEvent, LogType

LEMMA VerifyTyped ==
  ASSUME LogType, NEW w \in Writers, VerifyChain(w)
  PROVE  LogType'
  BY RestingTyped DEF VerifyChain, LogType

LEMMA ForgetTyped ==
  ASSUME LogType, ForgetWriters
  PROVE  LogType'
  BY RestingTyped DEF ForgetWriters, LogType

LEMMA LogUnchanged ==
  ASSUME LogType, UNCHANGED auditVars
  PROVE  LogType'
  BY DEF LogType, auditVars

-----------------------------------------------------------------------------
(* Types: the gateway.                                                     *)

LEMMA IdleTyped == Idle \in Request
<1>1. <<>> \in Seq(Names)
  BY EmptySeq
<1>2. <<>> \in Views /\ "idle" \in Steps /\ DefaultTenant \in Tenants
  BY FederationAssumption DEF Views, Steps
<1> DEFINE empty == <<>>
<1>3. empty \in Seq(Names) /\ empty \in Views
  BY <1>1, <1>2
<1>4. Idle = [step |-> "idle", key |-> NoKey, tenant |-> DefaultTenant, refs |-> empty,
              view |-> empty, used |-> 0, answer |-> NoAnswer, before |-> {}]
  BY DEF Idle
<1> HIDE DEF empty
<1> QED BY <1>2, <1>3, <1>4 DEF Request, Fields

LEMMA Typed ==
  ASSUME GateType, NEW r \in Requests, NEW v \in Request, req' = [req EXCEPT ![r] = v]
  PROVE  req' \in [Requests -> Request]
  BY DEF GateType

LEMMA GotoTyped ==
  ASSUME GateType, NEW r \in Requests, NEW s \in Steps \ {"lookup", "evaluate"}, Goto(r, s)
  PROVE  req' \in [Requests -> Request]
<1>1. ASSUME NEW q \in Request PROVE [q EXCEPT !.step = s] \in Request
  BY DEF Request, Fields
<1>2. req[r] \in Request
  BY DEF GateType
<1> QED BY <1>1, <1>2, Typed DEF Goto

LEMMA LeaveTyped ==
  ASSUME GateType, NEW r \in Requests, NEW a \in Answer \cup {NoAnswer},
         NEW s \in Steps \ {"lookup", "evaluate"}, Leave(r, a, s)
  PROVE  req' \in [Requests -> Request]
<1> DEFINE empty == <<>>
           v == [req[r] EXCEPT !.step = s, !.answer = a, !.view = empty, !.used = 0]
<1>1. empty \in Views
  BY IdleTyped DEF Idle, Request, Fields
<1>2. req' = [req EXCEPT ![r] = v]
  BY DEF Leave, GateType
<1> HIDE DEF empty
<1>3. ASSUME NEW q \in Request
      PROVE  [q EXCEPT !.step = s, !.answer = a, !.view = empty, !.used = 0] \in Request
  BY <1>1 DEF Request, Fields
<1>4. v \in Request
  BY <1>3 DEF GateType
<1> QED BY <1>2, <1>4, Typed

LEMMA ArriveTyped ==
  ASSUME GateType, NEW r \in Requests, NEW k \in Keys \cup {NoKey}, NEW t \in Tenants,
         NEW refs \in Seq(Names), Arrive(r, k, t, refs)
  PROVE  GateType'
<1> DEFINE v == [Idle EXCEPT !.step = IF k = NoKey THEN "execute" ELSE "lookup",
                   !.key = k, !.tenant = t, !.refs = refs, !.before = Finished]
<1>1. v \in Request
  BY IdleTyped DEF Request, Fields, Steps, Finished
<1>2. req' = [req EXCEPT ![r] = v]
  BY DEF Arrive
<1> QED BY <1>1, <1>2, Typed DEF Arrive, OnlyRequests, GateType

LEMMA InitType == Init => IType
<1> SUFFICES ASSUME Init PROVE IType
  OBVIOUS
<1>1. LogType
  BY RestingTyped, EmptySeq DEF Init, ApiAuditInit, LogType
<1>2. catalogs \subseteq Catalog
  BY FederationAssumption DEF Init, Seeded, Catalog
<1>3. GateType
  BY <1>2, IdleTyped DEF Init, GateType
<1>4. \A r \in Requests : Announced(r)
  BY DEF Init, ApiAuditInit, Announced, Writing, Resting, Requests
<1> QED BY <1>1, <1>3, <1>4 DEF IType

LEMMA ReadCatalogsTyped ==
  ASSUME GateType, NEW r \in Requests, ReadCatalogs(r)
  PROVE  GateType'
<1> DEFINE own == { c \in catalogs : c.tenant = req[r].tenant }
<1>1. CASE req[r].refs = <<>>
  <2>1. req' \in [Requests -> Request]
    BY <1>1, LeaveTyped DEF ReadCatalogs, Fail, Steps
  <2> QED BY <2>1 DEF ReadCatalogs, OnlyRequests, GateType
<1>2. ASSUME NEW view \in [{ c.name : c \in own } -> own],
             req[r].refs # <<>>,
             req' = [req EXCEPT ![r].view = view, ![r].step = "evaluate"]
      PROVE  GateType'
  <2>1. own \subseteq Catalog
    BY DEF GateType
  <2>7. { c.name : c \in own } \subseteq Names
    BY <2>1 DEF Catalog
  <2>2. view \in [{ c.name : c \in own } -> Catalog]
    BY <1>2, <2>1
  <2> HIDE DEF own
  <2>3. view \in Views
    BY <2>7, <2>2 DEF Views
  <2>4. ASSUME NEW q \in Request, q.refs # <<>> PROVE [q EXCEPT !.view = view, !.step = "evaluate"] \in Request
    BY <2>3, <2>4 DEF Request, Fields, Steps
  <2>5. req[r] \in Request
    BY DEF GateType
  <2>6. req' \in [Requests -> Request]
    BY <1>2, <2>4, <2>5, Typed
  <2> QED BY <2>6 DEF ReadCatalogs, OnlyRequests, GateType
<1> QED BY <1>1, <1>2 DEF ReadCatalogs

(* The first reference of a query being evaluated is one of its references.*)
LEMMA FirstUsed ==
  ASSUME GateType, NEW r \in Requests, req[r].step = "evaluate"
  PROVE  req[r].refs[1] \in Used(r) /\ Used(r) \subseteq Names
<1>1. req[r].refs \in Seq(Names) /\ req[r].refs # <<>>
  BY DEF GateType, Request, Fields
<1>2. 1 \in DOMAIN req[r].refs /\ \A i \in DOMAIN req[r].refs : req[r].refs[i] \in Names
  BY <1>1, EmptySeq, LenProperties, ElementOfSeq
<1> QED BY <1>2 DEF Used, ToSet

LEMMA ShownFacts ==
  ASSUME GateType, NEW r \in Requests, req[r].step = "evaluate", NEW joined \in BOOLEAN
  PROVE  /\ Shown(r, joined) \subseteq Names \X Columns
         /\ \A nc \in Shown(r, joined) : nc[2] \notin req[r].view[nc[1]].mask
<1>1. req[r].refs[1] \in Used(r) /\ Used(r) \subseteq Names
  BY FirstUsed
<1>2. \A n \in Used(r) : req[r].view[n].mask \subseteq MaskedSomewhere(r)
  BY DEF MaskedSomewhere
<1>3. \A nc \in Shown(r, joined) :
         /\ nc \in Used(r) \X Columns /\ nc[2] \notin MaskedSomewhere(r)
  BY <1>1 DEF Shown
<1> QED BY <1>1, <1>2, <1>3

LEMMA RecordQueryTyped ==
  ASSUME GateType, NEW r \in Requests, RecordQuery(r)
  PROVE  GateType'
<1>1. req[r] \in Request /\ req[r].step = "evaluate"
  BY DEF GateType, RecordQuery, At
<1> PICK joined \in BOOLEAN :
      req' = [req EXCEPT ![r].step = "lineage",
                ![r].answer = [query |-> r, ok |-> TRUE, shown |-> Shown(r, joined)]]
  BY DEF RecordQuery
<1> DEFINE a == [query |-> r, ok |-> TRUE, shown |-> Shown(r, joined)]
<1>2. a \in Answer
  BY <1>1, ShownFacts DEF Answer
<1>3. req' = [req EXCEPT ![r].step = "lineage", ![r].answer = a]
  OBVIOUS
<1> HIDE DEF a
<1>4. ASSUME NEW q \in Request PROVE [q EXCEPT !.step = "lineage", !.answer = a] \in Request
  BY <1>2 DEF Request, Fields, Steps
<1>5. req' = [req EXCEPT ![r] = [req[r] EXCEPT !.step = "lineage", !.answer = a]]
  BY <1>3 DEF GateType
<1>6. req' \in [Requests -> Request]
  BY <1>1, <1>4, <1>5, Typed
<1> QED BY <1>6 DEF RecordQuery, GateType

LEMMA EvaluateTyped ==
  ASSUME GateType, NEW r \in Requests, Evaluate(r)
  PROVE  GateType'
<1>1. CASE Fail(r)
  <2>1. req' \in [Requests -> Request]
    BY <1>1, LeaveTyped DEF Fail, Steps
  <2> QED BY <2>1 DEF Evaluate, OnlyRequests, GateType
<1>2. CASE Goto(r, "refuse")
  <2>1. req' \in [Requests -> Request]
    BY <1>2, GotoTyped DEF Steps
  <2> QED BY <2>1 DEF Evaluate, OnlyRequests, GateType
<1>3. CASE req' = [req EXCEPT ![r].used = @ + 1]
  <2>1. ASSUME NEW q \in Request PROVE [q EXCEPT !.used = q.used + 1] \in Request
    BY DEF Request, Fields
  <2>2. req' = [req EXCEPT ![r] = [req[r] EXCEPT !.used = req[r].used + 1]]
    BY <1>3 DEF GateType
  <2>3. req' \in [Requests -> Request]
    BY <2>1, <2>2, Typed DEF GateType
  <2> QED BY <2>3 DEF Evaluate, OnlyRequests, GateType
<1> QED BY <1>1, <1>2, <1>3 DEF Evaluate

LEMMA LookupTyped ==
  ASSUME GateType, NEW r \in Requests, Lookup(r)
  PROVE  GateType'
<1>1. stored[req[r].key] \in Answer \cup {NoAnswer}
  BY DEF GateType, Request, Lookup, At
<1>2. req' \in [Requests -> Request]
  BY <1>1, GotoTyped, LeaveTyped DEF Lookup, Steps
<1> QED BY <1>2 DEF Lookup, OnlyRequests, GateType

LEMMA RefuseTyped ==
  ASSUME GateType, NEW r \in Requests, Refuse(r)
  PROVE  GateType'
<1> DEFINE a == [query |-> r, ok |-> FALSE, shown |-> {}]
<1>1. a \in Answer
  BY DEF Answer
<1>2. Leave(r, a, "audit_denied")
  BY DEF Refuse
<1> HIDE DEF a
<1>3. req' \in [Requests -> Request]
  BY <1>1, <1>2, LeaveTyped DEF Steps, After
<1> QED BY <1>3 DEF Refuse, GateType

LEMMA RecordLineageTyped ==
  ASSUME GateType, NEW r \in Requests, RecordLineage(r)
  PROVE  GateType'
<1>1. req[r].answer \in Answer \cup {NoAnswer}
  BY DEF GateType, Request, Fields
<1>2. req' \in [Requests -> Request]
  BY <1>1, LeaveTyped DEF RecordLineage, Steps, After
<1> QED BY <1>2 DEF RecordLineage, GateType

LEMMA StoreTyped ==
  ASSUME GateType, NEW r \in Requests, Store(r)
  PROVE  GateType'
<1>1. req[r].answer \in Answer \cup {NoAnswer}
  BY DEF GateType, Request, Fields
<1>2. req' \in [Requests -> Request]
  BY GotoTyped DEF Store, Steps
<1>3. stored' \in [Keys -> Answer \cup {NoAnswer}]
  BY <1>1 DEF Store, GateType
<1> QED BY <1>2, <1>3 DEF Store, OnlyRequests, GateType

LEMMA AskTyped ==
  ASSUME GateType, NEW r \in Requests, NEW t \in Tenants, NEW topics, Ask(r, t, topics)
  PROVE  GateType'
<1> DEFINE hits == { i \in DOMAIN Intents : Intents[i].topic \in topics }
<1>1. CASE Arrive(r, NoKey, t, Browse)
  BY <1>1, ArriveTyped, FederationAssumption
<1>2. ASSUME NEW i \in hits, Arrive(r, NoKey, t, Intents[i].refs) PROVE GateType'
  BY <1>2, ArriveTyped, FederationAssumption
<1> QED BY <1>1, <1>2 DEF Ask

LEMMA GateUnchanged ==
  ASSUME GateType, UNCHANGED gateVars
  PROVE  GateType'
  BY DEF GateType, gateVars

LEMMA EventSteps ==
  /\ DOMAIN After \subseteq Steps \ {"lookup", "evaluate"}
  /\ \A s \in DOMAIN After : After[s] \in {"audit_ok", "answer", "done"}
  /\ {"audit_ok", "answer", "done"} \subseteq Steps \ {"lookup", "evaluate"}
  /\ DOMAIN After = {"audit_lineage", "audit_ok", "audit_denied", "audit_catalog", "verify"}
  BY DEF Steps, After

-----------------------------------------------------------------------------
(* Types: every step.                                                      *)

LEMMA SameWriter ==
  ASSUME IType, NEW r \in Requests, UNCHANGED writer, req[r].step \notin DOMAIN After,
         \A p \in Requests \ {r} : req'[p].step = req[p].step
  PROVE  \A p \in Requests : Announced(p)'
<1> TAKE p \in Requests
<1>1. Announced(p) /\ Announced(r)
  BY DEF IType
<1>2. CASE p = r
  BY <1>1, <1>2 DEF Announced, Writing
<1>3. CASE p # r
  BY <1>1, <1>3 DEF Announced, Writing, EventOf, At
<1> QED BY <1>2, <1>3

LEMMA Elsewhere ==
  ASSUME IType, NEW r \in Requests, NEW s, NEW a, Goto(r, s) \/ Leave(r, a, s)
  PROVE  \A p \in Requests \ {r} : req'[p] = req[p]
  BY DEF IType, GateType, Goto, Leave

LEMMA BeginAnnounces ==
  ASSUME IType, NEW r \in Requests, BeginEvent(r)
  PROVE  \A p \in Requests : Announced(p)'
<1> TAKE p \in Requests
<1>1. Announced(p) /\ writer \in [Requests -> Writer] /\ UNCHANGED req
  BY DEF IType, LogType, BeginEvent, gateVars, Requests
<1>2. CASE p = r
  <2>1. writer'[r].event = EventOf(r) /\ writer'[r].step \in {"mint", "read"}
    BY <1>1 DEF BeginEvent, GetSecret
  <2> QED BY <1>1, <1>2, <2>1 DEF Announced, BeginEvent, EventOf, At
<1>3. CASE p # r
  <2>1. writer'[p] = writer[p]
    BY <1>1, <1>3 DEF BeginEvent, GetSecret
  <2> QED BY <1>1, <2>1 DEF Announced, Writing, EventOf, At
<1> QED BY <1>2, <1>3

LEMMA InnerAnnounces ==
  ASSUME IType, NEW r \in Requests, AuditStep(r), UNCHANGED gateVars
  PROVE  \A p \in Requests : Announced(p)'
<1> TAKE p \in Requests
<1>1. Announced(p) /\ writer \in [Requests -> Writer] /\ UNCHANGED req
  BY DEF IType, LogType, gateVars, Requests
<1>2. CASE p = r
  <2>1. /\ Writing(r) /\ writer'[r].event = writer[r].event
        /\ writer'[r].step = "append" => writer[r].event # Verify
    BY <1>1 DEF AuditStep, TruncateSecret, FillSecret, ReadLast, Writing, Writer
  <2> QED BY <1>1, <1>2, <2>1 DEF Announced, EventOf, At
<1>3. CASE p # r
  <2>1. writer'[p] = writer[p]
    BY <1>1, <1>3 DEF AuditStep, TruncateSecret, FillSecret, ReadLast
  <2> QED BY <1>1, <2>1 DEF Announced, Writing, EventOf, At
<1> QED BY <1>2, <1>3

LEMMA EndAnnounces ==
  ASSUME IType, NEW r \in Requests, EndEvent(r)
  PROVE  \A p \in Requests : Announced(p)'
<1> TAKE p \in Requests
<1>1. Announced(p) /\ writer \in [Requests -> Writer]
  BY DEF IType, LogType, Requests
<1>2. writer' = [writer EXCEPT ![r] = Resting]
  BY DEF EndEvent, AppendEvent, VerifyChain
<1>3. CASE p = r
  BY <1>1, <1>2, <1>3 DEF Announced, Writing, Resting
<1>4. CASE p # r
  <2>1. writer'[p] = writer[p] /\ req'[p] = req[p]
    BY <1>1, <1>2, <1>4, Elsewhere DEF EndEvent
  <2> QED BY <1>1, <2>1 DEF Announced, Writing, EventOf, At
<1> QED BY <1>3, <1>4

LEMMA EndsItsEvent ==
  ASSUME IType, NEW r \in Requests, EndEvent(r)
  PROVE  req[r].step \in DOMAIN After /\ writer[r].event = EventOf(r)
<1>1. Writing(r) /\ Announced(r)
  BY DEF IType, EndEvent, AppendEvent, VerifyChain, Writing
<1> QED BY <1>1 DEF Announced

(* A step of a request keeps types.                                        *)
LEMMA StepType ==
  ASSUME IType, NEW r \in Requests, Step(r)
  PROVE  IType'
<1> USE DEF Requests
<1>0. LogType /\ GateType
  BY DEF IType
<1>1. CASE Lookup(r) \/ ReadCatalogs(r) \/ Evaluate(r) \/ Refuse(r) \/ RecordQuery(r)
           \/ RecordLineage(r) \/ Store(r)
  <2>1. GateType'
    BY <1>0, <1>1, LookupTyped, ReadCatalogsTyped, EvaluateTyped, RefuseTyped,
       RecordQueryTyped, RecordLineageTyped, StoreTyped
  <2>2. UNCHANGED auditVars
    BY <1>1 DEF Lookup, ReadCatalogs, Evaluate, Refuse, RecordQuery, RecordLineage, Store,
                OnlyRequests
  <2>3. req[r].step \notin DOMAIN After
    BY <1>1, EventSteps DEF Lookup, ReadCatalogs, Evaluate, Refuse, RecordQuery,
                            RecordLineage, Store, At
  <2>4. \A p \in Requests \ {r} : req'[p] = req[p]
    BY <1>0, <1>1, Elsewhere DEF Lookup, ReadCatalogs, Evaluate, Refuse, RecordQuery,
                                 RecordLineage, Store, Fail, GateType
  <2>5. \A p \in Requests : Announced(p)'
    BY <2>2, <2>3, <2>4, SameWriter DEF auditVars
  <2> QED BY <1>0, <2>1, <2>2, <2>5, LogUnchanged DEF IType
<1>2. CASE BeginEvent(r)
  <2>1. LogType'
    BY <1>0, <1>2, EventTyped, GetSecretTyped DEF BeginEvent
  <2> QED BY <1>0, <1>2, <2>1, BeginAnnounces, GateUnchanged DEF BeginEvent, IType
<1>3. CASE EndEvent(r)
  <2>1. LogType'
    BY <1>0, <1>3, AppendTyped, VerifyTyped DEF EndEvent
  <2>2. req' \in [Requests -> Request]
    BY <1>0, <1>3, EndsItsEvent, EventSteps, GotoTyped DEF EndEvent
  <2> QED BY <1>0, <1>3, <2>1, <2>2, EndAnnounces DEF EndEvent, GateType, IType
<1>4. CASE AuditStep(r) /\ UNCHANGED gateVars
  BY <1>0, <1>4, InnerTyped, InnerAnnounces, GateUnchanged DEF IType
<1> QED BY <1>1, <1>2, <1>3, <1>4 DEF Step

(* So does any step.                                                       *)
LEMMA NextType == IType /\ [Next]_vars => IType'
<1> SUFFICES ASSUME IType, [Next]_vars PROVE IType'
  OBVIOUS
<1> USE DEF Requests
<1>0. LogType /\ GateType
  BY DEF IType
<1>1. ASSUME NEW r \in Requests, NEW t \in Tenants, NEW k \in Keys \cup {NoKey},
             NEW q \in Seq(Names), Arrive(r, k, t, q)
      PROVE  IType'
  <2>1. GateType' /\ UNCHANGED auditVars
    BY <1>0, <1>1, ArriveTyped DEF Arrive, OnlyRequests
  <2>2. req[r].step \notin DOMAIN After /\ \A p \in Requests \ {r} : req'[p] = req[p]
    BY <1>0, <1>1, EventSteps DEF Arrive, At, GateType
  <2> QED BY <1>0, <2>1, <2>2, SameWriter, LogUnchanged DEF IType, auditVars
<1>2. ASSUME NEW r \in Requests, NEW t \in Tenants, NEW topics, Ask(r, t, topics)
      PROVE  IType'
  <2> DEFINE hits == { i \in DOMAIN Intents : Intents[i].topic \in topics }
  <2>1. CASE Arrive(r, NoKey, t, Browse)
    BY <1>1, <2>1, FederationAssumption
  <2>2. ASSUME NEW i \in hits, Arrive(r, NoKey, t, Intents[i].refs) PROVE IType'
    BY <1>1, <2>2, FederationAssumption
  <2> QED BY <1>2, <2>1, <2>2 DEF Ask
<1>3. ASSUME NEW r \in Requests, AskToVerify(r) PROVE IType'
  <2>1. GateType' /\ UNCHANGED auditVars
    BY <1>0, <1>3, GotoTyped, EventSteps DEF AskToVerify, OnlyRequests, GateType
  <2>2. req[r].step \notin DOMAIN After /\ \A p \in Requests \ {r} : req'[p] = req[p]
    BY <1>3, EventSteps, Elsewhere DEF AskToVerify, At
  <2> QED BY <1>0, <2>1, <2>2, SameWriter, LogUnchanged DEF IType, auditVars
<1>4. ASSUME NEW r \in Requests, NEW c \in Catalog, Register(r, c) PROVE IType'
  <2>1. GateType' /\ UNCHANGED auditVars
    BY <1>0, <1>4, GotoTyped, EventSteps DEF Register, GateType
  <2>2. req[r].step \notin DOMAIN After /\ \A p \in Requests \ {r} : req'[p] = req[p]
    BY <1>4, EventSteps, Elsewhere DEF Register, At
  <2> QED BY <1>0, <2>1, <2>2, SameWriter, LogUnchanged DEF IType, auditVars
<1>5. ASSUME NEW k \in Keys, Lapse(k) PROVE IType'
  <2>1. GateType' /\ UNCHANGED <<auditVars, req>>
    BY <1>0, <1>5 DEF Lapse, GateType
  <2> QED BY <1>0, <2>1, LogUnchanged DEF IType, Announced, Writing, EventOf, At, auditVars
<1>6. CASE Restart
  <2>1. LogType' /\ \A p \in Requests : writer'[p] = Resting
    BY <1>0, <1>6, ForgetTyped DEF Restart, ForgetWriters
  <2>2. [Idle EXCEPT !.step = "lost"] \in Request
    BY IdleTyped DEF Request, Fields, Steps
  <2>3. GateType'
    BY <1>0, <1>6, <2>2 DEF Restart, GateType
  <2> QED BY <2>1, <2>3 DEF IType, Announced, Writing, Resting
<1>7. CASE UNCHANGED vars
  <2>1. UNCHANGED auditVars /\ UNCHANGED gateVars
    BY <1>7 DEF vars
  <2> QED BY <1>0, <2>1, LogUnchanged, GateUnchanged
          DEF IType, Announced, Writing, EventOf, At, auditVars, gateVars
<1>8. \A q \in Queries : q \in Seq(Names)
  BY FederationAssumption
<1>9. \A t \in Tenants, n \in Names, mask \in SUBSET Columns :
        [tenant |-> t, name |-> n, mask |-> mask] \in Catalog
  BY DEF Catalog
<1> QED BY <1>1, <1>2, <1>3, <1>4, <1>5, <1>6, <1>7, <1>8, <1>9, StepType DEF Next

-----------------------------------------------------------------------------
(* What a step does to the log.                                            *)
LogStep ==
    \/ UNCHANGED auditVars
    \/ \E w \in Writers : \E e \in Events : GetSecret(w, e)
    \/ \E w \in Writers : AuditStep(w)
    \/ \E w \in Writers : AppendEvent(w)
    \/ \E w \in Writers : VerifyChain(w)
    \/ ForgetWriters

LEMMA LogSteps == IType /\ [Next]_vars => LogStep
<1> SUFFICES ASSUME IType, [Next]_vars PROVE LogStep
  OBVIOUS
<1>1. ASSUME NEW r \in Requests, Step(r) PROVE LogStep
  <2>1. CASE BeginEvent(r)
    BY <2>1, EventTyped DEF BeginEvent, LogStep, Requests
  <2>2. CASE EndEvent(r)
    BY <2>2 DEF EndEvent, LogStep, Requests
  <2>3. CASE AuditStep(r)
    BY <2>3 DEF LogStep, Requests
  <2>4. CASE UNCHANGED auditVars
    BY <2>4 DEF LogStep
  <2> QED BY <1>1, <2>1, <2>2, <2>3, <2>4
          DEF Step, Lookup, ReadCatalogs, Evaluate, Refuse, RecordQuery, RecordLineage, Store,
              OnlyRequests
<1>2. ASSUME NEW r \in Requests,
             \/ AskToVerify(r)
             \/ \E t \in Tenants :
                  \/ \E k \in Keys \cup {NoKey}, q \in Queries : Arrive(r, k, t, q)
                  \/ \E topics \in SUBSET { Intents[i].topic : i \in DOMAIN Intents } :
                        Ask(r, t, topics)
                  \/ \E n \in Names, mask \in SUBSET Columns :
                        Register(r, [tenant |-> t, name |-> n, mask |-> mask])
      PROVE  UNCHANGED auditVars
  BY <1>2 DEF AskToVerify, Arrive, Ask, Register, OnlyRequests
<1>3. ASSUME NEW k \in Keys, Lapse(k) PROVE UNCHANGED auditVars
  BY <1>3 DEF Lapse
<1>4. CASE Restart
  BY <1>4 DEF Restart, LogStep
<1>5. CASE UNCHANGED vars
  BY <1>5 DEF vars, LogStep
<1> QED BY <1>1, <1>2, <1>3, <1>4, <1>5 DEF Next, LogStep

(* A line names one that is there already.                                 *)
Links ==
    /\ \A i \in DOMAIN lines : lines[i].prev < i
    /\ \A w \in Writers : writer[w].prev <= Len(lines)

LEMMA AppendFacts ==
  ASSUME LogType, NEW w \in Writers, AppendEvent(w)
  PROVE  /\ Len(lines) \in Nat /\ DOMAIN lines = 1..Len(lines)
         /\ Len(lines') = Len(lines) + 1 /\ DOMAIN lines' = 1..(Len(lines) + 1)
         /\ \A i \in DOMAIN lines : lines'[i] = lines[i]
         /\ lines'[Len(lines) + 1].event = writer[w].event
         /\ lines'[Len(lines) + 1].prev = writer[w].prev
         /\ lines'[Len(lines) + 1].secret = writer[w].secret
         /\ writer' = [writer EXCEPT ![w] = Resting]
<1> DEFINE l == [event |-> writer[w].event, prev |-> writer[w].prev,
                 secret |-> writer[w].secret]
<1>1. l \in Line
  BY DEF LogType, Writer, Line
<1>2. lines' = Append(lines, l) /\ lines \in Seq(Line)
  BY DEF AppendEvent, LogType
<1> HIDE DEF l
<1>3. /\ Len(lines) \in Nat /\ DOMAIN lines = 1..Len(lines)
      /\ Len(lines') = Len(lines) + 1 /\ DOMAIN lines' = 1..(Len(lines) + 1)
      /\ \A i \in DOMAIN lines : lines'[i] = lines[i]
      /\ lines'[Len(lines) + 1] = l
  BY <1>1, <1>2, AppendProperties, LenProperties
<1>4. l.event = writer[w].event /\ l.prev = writer[w].prev /\ l.secret = writer[w].secret
  BY DEF l
<1> QED BY <1>3, <1>4 DEF AppendEvent

LEMMA NextLinks == LogType /\ Links /\ LogStep => Links'
<1> SUFFICES ASSUME LogType, Links, LogStep PROVE Links'
  OBVIOUS
<1>0. /\ writer \in [Writers -> Writer] /\ Resting.prev = 0
      /\ Len(lines) \in Nat
  BY LenProperties DEF LogType, Resting
<1>1. CASE UNCHANGED auditVars
  BY <1>1 DEF auditVars, Links
<1>2. ASSUME NEW w \in Writers, NEW e \in Events, GetSecret(w, e) PROVE Links'
  BY <1>0, <1>2 DEF GetSecret, Links
<1>3. ASSUME NEW w \in Writers, AuditStep(w) PROVE Links'
  BY <1>0, <1>3 DEF AuditStep, TruncateSecret, FillSecret, ReadLast, LastHash, Links, Writer
<1>4. ASSUME NEW w \in Writers, AppendEvent(w) PROVE Links'
  <2>1. ASSUME NEW i \in DOMAIN lines' PROVE lines'[i].prev < i
    <3>1. writer[w].prev \in Nat /\ writer[w].prev <= Len(lines)
      BY <1>0 DEF Writer, Links
    <3>2. CASE i \in DOMAIN lines
      BY <1>4, <3>2, AppendFacts DEF Links
    <3>3. CASE i = Len(lines) + 1
      <4>1. lines'[Len(lines) + 1].prev = writer[w].prev
        BY <1>4, AppendFacts
      <4>2. writer[w].prev < Len(lines) + 1
        BY <1>0, <3>1
      <4> QED BY <3>3, <4>1, <4>2, Zenon
    <3>4. i \in 1..(Len(lines) + 1) /\ DOMAIN lines = 1..Len(lines)
      BY <1>4, AppendFacts
    <3>5. i \in DOMAIN lines \/ i = Len(lines) + 1
      BY <1>0, <3>4
    <3> QED BY <3>2, <3>3, <3>5
  <2>2. \A v \in Writers : writer[v].prev \in Nat /\ writer[v].prev <= Len(lines)
    BY <1>0 DEF Writer, Links
  <2>4. Len(lines') = Len(lines) + 1 /\ writer' = [writer EXCEPT ![w] = Resting]
    BY <1>4, AppendFacts
  <2>3. ASSUME NEW v \in Writers PROVE writer'[v].prev <= Len(lines')
    <3>1. CASE v = w
      BY <1>0, <2>4, <3>1
    <3>2. CASE v # w
      BY <1>0, <2>2, <2>4, <3>2
    <3> QED BY <3>1, <3>2
  <2> QED BY <2>1, <2>3 DEF Links
<1>5. ASSUME NEW w \in Writers, VerifyChain(w) PROVE Links'
  BY <1>0, <1>5 DEF VerifyChain, Links
<1>6. CASE ForgetWriters
  BY <1>0, <1>6 DEF ForgetWriters, Links
<1> QED BY <1>1, <1>2, <1>3, <1>4, <1>5, <1>6 DEF LogStep

(* The files, the tables and the requests keep their types.                *)
THEOREM TypeCorrect == Spec => []TypeOK
<1>1. Init => IType /\ Links
  BY InitType, EmptySeq DEF Init, ApiAuditInit, Links, Resting
<1>2. IType /\ Links /\ [Next]_vars => (IType /\ Links)'
  BY NextType, NextLinks, LogSteps DEF IType
<1>3. IType /\ Links => TypeOK
  BY DEF IType, LogType, GateType, Links, TypeOK, Request, Fields
<1> QED BY <1>1, <1>2, <1>3, PTL DEF Spec

-----------------------------------------------------------------------------
(* Answers and their records: the answers on record, and the queries whose *)
(* lineage event has been written.                                         *)
Recorded == { a \in Answer : Traced(a) }
LineageTold == { p \in Requests : Position(<<"audit_lineage", p>>) # {} }

Executing == {"idle", "lookup", "execute", "evaluate", "refuse"}
Empty == Executing \cup {"audit_catalog", "verify", "failed", "lost"}
Fresh(r, ok) == { a \in Answer : a.query = r /\ a.ok = ok }

(* What a request has put on record, at each step.                         *)
OnRecord(r) ==
    /\ req[r].step \in Executing => queries[r] = "none" /\ r \notin lineage
    /\ req[r].step \in Empty => req[r].answer = NoAnswer
    /\ req[r].step \in {"lineage", "audit_lineage", "audit_ok"} =>
          req[r].answer \in Fresh(r, TRUE) /\ queries[r] = "ok"
    /\ req[r].step \in {"audit_lineage", "audit_ok"} => r \in lineage
    /\ req[r].step = "audit_ok" => r \in LineageTold
    /\ req[r].step = "audit_denied" =>
          req[r].answer \in Fresh(r, FALSE) /\ queries[r] = "denied" /\ r \notin lineage
    /\ req[r].step = "answer" => req[r].answer \in Recorded /\ req[r].answer.query = r
    /\ req[r].step = "done" => req[r].answer \in Recorded \cup {NoAnswer}

(* The masks of the view bind what is shown.                               *)
Masked(r) ==
    req[r].step = "lineage" =>
        \A nc \in req[r].answer.shown : nc[2] \notin req[r].view[nc[1]].mask

ITrace ==
    /\ IType
    /\ \A r \in Requests : OnRecord(r) /\ Masked(r)
    /\ \A k \in Keys : stored[k] \in Recorded \cup {NoAnswer}

LEMMA NoAnswerIsNone == NoAnswer \notin Answer
  BY FederationAssumption DEF Answer, Requests

LEMMA LinesGrow ==
  ASSUME LogType, LogStep
  PROVE  \A i \in DOMAIN lines : i \in DOMAIN lines' /\ lines'[i] = lines[i]
<1>1. ASSUME NEW w \in Writers, AppendEvent(w)
      PROVE  \A i \in DOMAIN lines : i \in DOMAIN lines' /\ lines'[i] = lines[i]
  <2>1. DOMAIN lines \subseteq DOMAIN lines'
    BY <1>1, AppendFacts
  <2> QED BY <1>1, <2>1, AppendFacts
<1>2. CASE UNCHANGED lines
  BY <1>2
<1> QED BY <1>1, <1>2 DEF LogStep, GetSecret, AuditStep, TruncateSecret, FillSecret, ReadLast,
                          VerifyChain, ForgetWriters, auditVars

LEMMA EventsStay ==
  ASSUME LogType, LogStep
  PROVE  /\ \A e : Position(e) \subseteq Position(e)'
         /\ LineageTold \subseteq LineageTold'
<1>1. \A e : Position(e) \subseteq Position(e)'
  BY LinesGrow DEF Position
<1> QED BY <1>1 DEF LineageTold, Requests

(* What is on record stays there: rows of queries are not rewritten, and a *)
(* lineage is recorded only of queries that went well.                     *)
Grows ==
    /\ \A p \in Requests : queries[p] # "none" => queries'[p] = queries[p]
    /\ lineage \subseteq lineage'
    /\ \A p \in lineage' \ lineage : queries[p] = "ok"

LEMMA RecordsStay ==
  ASSUME LogType, LogStep, Grows
  PROVE  Recorded \subseteq Recorded'
<1> SUFFICES ASSUME NEW a \in Answer, Traced(a) PROVE Traced(a)'
  BY DEF Recorded, Answer, Requests
<1>0. a.query \in Requests /\ a.ok \in BOOLEAN
  BY DEF Answer
<1>1. \A e : Position(e) \subseteq Position(e)'
  BY EventsStay
<1>2. CASE a.ok
  <2>1. queries'[a.query] = "ok" /\ a.query \in lineage'
    BY <1>0, <1>2 DEF Traced, Grows
  <2> QED BY <1>1, <1>2, <2>1 DEF Traced
<1>3. CASE ~a.ok
  <2>1. queries'[a.query] = "denied" /\ a.query \notin lineage'
    BY <1>0, <1>3 DEF Traced, Grows
  <2>2. Position(<<"audit_denied", a.query>>)' # {}
    BY <1>1, <1>3 DEF Traced
  <2> QED BY <1>3, <2>1, <2>2 DEF Traced
<1> QED BY <1>2, <1>3

LEMMA Rewrites ==
  ASSUME ITrace, NEW r \in Requests,
         \/ Refuse(r) \/ RecordQuery(r) \/ RecordLineage(r) \/ UNCHANGED <<queries, lineage>>
  PROVE  Grows
<1>1. OnRecord(r) /\ queries \in [Requests -> {"none", "ok", "denied"}]
  BY DEF ITrace, IType, GateType
<1>2. CASE Refuse(r) \/ RecordQuery(r)
  <2>1. queries[r] = "none"
    BY <1>1, <1>2 DEF OnRecord, Refuse, RecordQuery, At, Executing
  <2> QED BY <1>1, <1>2, <2>1 DEF Refuse, RecordQuery, Grows
<1>3. CASE RecordLineage(r)
  <2>1. queries[r] = "ok"
    BY <1>1, <1>3 DEF OnRecord, RecordLineage, At
  <2> QED BY <1>1, <1>3, <2>1 DEF RecordLineage, Grows
<1>4. CASE UNCHANGED <<queries, lineage>>
  BY <1>4 DEF Grows
<1> QED BY <1>2, <1>3, <1>4

LEMMA AlwaysGrows == ITrace /\ [Next]_vars => Grows /\ LogStep
<1> SUFFICES ASSUME ITrace, [Next]_vars PROVE Grows /\ LogStep
  OBVIOUS
<1>1. LogStep
  BY LogSteps DEF ITrace
<1>2. ASSUME NEW r \in Requests, Step(r) PROVE Grows
  BY <1>2, Rewrites DEF Step, Lookup, ReadCatalogs, Evaluate, BeginEvent, EndEvent, Store,
                        OnlyRequests, gateVars
<1>3. ASSUME NEW r \in Requests,
             \/ AskToVerify(r)
             \/ \E t \in Tenants :
                  \/ \E k \in Keys \cup {NoKey}, q \in Queries : Arrive(r, k, t, q)
                  \/ \E topics \in SUBSET { Intents[i].topic : i \in DOMAIN Intents } :
                        Ask(r, t, topics)
                  \/ \E n \in Names, mask \in SUBSET Columns :
                        Register(r, [tenant |-> t, name |-> n, mask |-> mask])
      PROVE  Grows
  BY <1>3 DEF AskToVerify, Arrive, Ask, Register, OnlyRequests, Grows
<1>4. ASSUME Restart \/ UNCHANGED vars \/ \E k \in Keys : Lapse(k) PROVE Grows
  BY <1>4 DEF Restart, Lapse, vars, gateVars, Grows
<1> QED BY <1>1, <1>2, <1>3, <1>4 DEF Next

(* What the step of another request leaves as it was.                      *)
LEMMA OthersKeep ==
  ASSUME ITrace, Grows, LogStep, NEW p \in Requests, req'[p] = req[p],
         queries'[p] = queries[p], p \in lineage' <=> p \in lineage
  PROVE  OnRecord(p)' /\ Masked(p)'
<1>1. OnRecord(p) /\ Masked(p)
  BY DEF ITrace
<1>2. Recorded \subseteq Recorded' /\ LineageTold \subseteq LineageTold'
  BY RecordsStay, EventsStay DEF ITrace, IType
<1>3. OnRecord(p)'
  BY <1>1, <1>2 DEF OnRecord, Executing, Empty, Fresh, Answer, Requests
<1>4. Masked(p)'
  BY <1>1 DEF Masked
<1> QED BY <1>3, <1>4

LEMMA SameStore ==
  ASSUME ITrace, Grows, LogStep, UNCHANGED stored
  PROVE  \A k \in Keys : stored'[k] \in Recorded' \cup {NoAnswer}
  BY RecordsStay DEF ITrace, IType

(* A step of one request keeps the invariant if it keeps what the request  *)
(* itself has on record.                                                   *)
LEMMA OneStep ==
  ASSUME ITrace, [Next]_vars, NEW r \in Requests,
         \A p \in Requests \ {r} : req'[p] = req[p] /\ queries'[p] = queries[p]
                                   /\ (p \in lineage' <=> p \in lineage),
         OnRecord(r)' /\ Masked(r)',
         \A k \in Keys : stored'[k] \in Recorded' \cup {NoAnswer}
  PROVE  ITrace'
<1>1. Grows /\ LogStep
  BY AlwaysGrows
<1>2. \A p \in Requests \ {r} : OnRecord(p)' /\ Masked(p)'
  BY <1>1, OthersKeep
<1>3. IType'
  BY NextType DEF ITrace
<1> QED BY <1>2, <1>3 DEF ITrace, Requests

LEMMA GotoFacts ==
  ASSUME GateType, NEW r \in Requests, NEW s, Goto(r, s)
  PROVE  /\ req'[r].step = s /\ req'[r].answer = req[r].answer
         /\ req'[r].key = req[r].key /\ req'[r].before = req[r].before
         /\ \A p \in Requests \ {r} : req'[p] = req[p]
<1>1. req[r] \in Fields
  BY DEF GateType, Request
<1>2. req'[r] = [req[r] EXCEPT !.step = s] /\ \A p \in Requests \ {r} : req'[p] = req[p]
  BY DEF Goto, GateType
<1> QED BY <1>1, <1>2 DEF Fields

LEMMA LeaveFacts ==
  ASSUME GateType, NEW r \in Requests, NEW a, NEW s, Leave(r, a, s)
  PROVE  /\ req'[r].step = s /\ req'[r].answer = a
         /\ req'[r].key = req[r].key /\ req'[r].before = req[r].before
         /\ \A p \in Requests \ {r} : req'[p] = req[p]
<1>1. req[r] \in Fields
  BY DEF GateType, Request
<1>2. /\ req'[r] = [req[r] EXCEPT !.step = s, !.answer = a, !.view = <<>>, !.used = 0]
      /\ \A p \in Requests \ {r} : req'[p] = req[p]
  BY DEF Leave, GateType
<1> QED BY <1>1, <1>2 DEF Fields

(* A request that goes on to execute has nothing on record.                *)
LEMMA StillEmpty ==
  ASSUME ITrace, [Next]_vars, NEW r \in Requests, UNCHANGED <<queries, lineage, stored>>,
         req[r].step \in Executing, req'[r].step \in Empty, req'[r].answer = NoAnswer,
         \A p \in Requests \ {r} : req'[p] = req[p]
  PROVE  ITrace'
<1>1. Grows /\ LogStep /\ OnRecord(r)
  BY AlwaysGrows DEF ITrace
<1>2. OnRecord(r)' /\ Masked(r)'
  BY <1>1 DEF OnRecord, Masked, Executing, Empty
<1>3. \A k \in Keys : stored'[k] \in Recorded' \cup {NoAnswer}
  BY <1>1, SameStore
<1> QED BY <1>2, <1>3, OneStep

LEMMA LookupTraces ==
  ASSUME ITrace, [Next]_vars, NEW r \in Requests, Lookup(r)
  PROVE  ITrace'
<1>1. Grows /\ LogStep /\ OnRecord(r) /\ GateType
  BY AlwaysGrows DEF ITrace, IType
<1>2. Recorded \subseteq Recorded'
  BY <1>1, RecordsStay DEF ITrace, IType
<1>3. req[r].key \in Keys /\ UNCHANGED <<queries, lineage, stored>> /\ req[r].step = "lookup"
  BY <1>1 DEF GateType, Request, Lookup, At, OnlyRequests
<1>4. \A k \in Keys : stored'[k] \in Recorded' \cup {NoAnswer}
  BY <1>1, <1>3, SameStore
<1>5. CASE Goto(r, "execute")
  <2>1. /\ req'[r].step = "execute" /\ req'[r].answer = req[r].answer
        /\ \A p \in Requests \ {r} : req'[p] = req[p]
    BY <1>1, <1>5, GotoFacts
  <2>2. req[r].answer = NoAnswer
    BY <1>1, <1>3 DEF OnRecord, Empty, Executing
  <2> QED BY <1>3, <2>1, <2>2, StillEmpty DEF Empty, Executing
<1>6. CASE stored[req[r].key] # NoAnswer /\ Leave(r, stored[req[r].key], "done")
  <2>1. stored[req[r].key] \in Recorded'
    BY <1>2, <1>3, <1>6 DEF ITrace
  <2>2. /\ req'[r].step = "done" /\ req'[r].answer = stored[req[r].key]
        /\ \A p \in Requests \ {r} : req'[p] = req[p]
    BY <1>1, <1>6, LeaveFacts
  <2>3. OnRecord(r)' /\ Masked(r)'
    BY <2>1, <2>2 DEF OnRecord, Masked, Executing, Empty
  <2> QED BY <1>3, <1>4, <2>2, <2>3, OneStep
<1> QED BY <1>5, <1>6 DEF Lookup

LEMMA BeforeTraces ==
  ASSUME ITrace, [Next]_vars, NEW r \in Requests, ReadCatalogs(r) \/ Evaluate(r)
  PROVE  ITrace'
<1>1. /\ UNCHANGED <<queries, lineage, stored>>
      /\ req[r].step \in {"execute", "evaluate"}
  BY DEF ReadCatalogs, Evaluate, OnlyRequests, At
<1>2. req[r].answer = NoAnswer /\ GateType
  BY <1>1 DEF ITrace, IType, OnRecord, Empty, Executing
<1>3. req[r] \in Fields
  BY <1>2 DEF GateType, Request
<1>4. CASE Fail(r) \/ Goto(r, "refuse")
  BY <1>1, <1>2, <1>4, GotoFacts, LeaveFacts, StillEmpty DEF Fail, Executing, Empty
<1>5. CASE \E view : req' = [req EXCEPT ![r].view = view, ![r].step = "evaluate"]
  BY <1>1, <1>2, <1>3, <1>5, StillEmpty DEF GateType, Fields, Executing, Empty
<1>6. CASE Evaluate(r) /\ req' = [req EXCEPT ![r].used = @ + 1]
  BY <1>1, <1>2, <1>3, <1>6, StillEmpty DEF GateType, Fields, Executing, Empty
<1> QED BY <1>4, <1>5, <1>6 DEF ReadCatalogs, Evaluate

LEMMA RefuseTraces ==
  ASSUME ITrace, [Next]_vars, NEW r \in Requests, Refuse(r)
  PROVE  ITrace'
<1>1. Grows /\ LogStep /\ OnRecord(r) /\ GateType
  BY AlwaysGrows DEF ITrace, IType
<1> DEFINE a == [query |-> r, ok |-> FALSE, shown |-> {}]
<1>2. a \in Fresh(r, FALSE)
  BY DEF Fresh, Answer
<1>3. Leave(r, a, "audit_denied")
  BY DEF Refuse
<1> HIDE DEF a
<1>4. /\ req'[r].step = "audit_denied" /\ req'[r].answer = a
      /\ \A p \in Requests \ {r} : req'[p] = req[p]
  BY <1>1, <1>3, LeaveFacts
<1>5. /\ queries' = [queries EXCEPT ![r] = "denied"] /\ UNCHANGED <<lineage, stored>>
      /\ r \notin lineage /\ queries \in [Requests -> {"none", "ok", "denied"}]
  BY <1>1 DEF Refuse, OnRecord, Executing, At, GateType
<1>6. OnRecord(r)' /\ Masked(r)'
  BY <1>2, <1>4, <1>5 DEF OnRecord, Masked, Fresh, Answer, Requests, Executing, Empty
<1>7. \A k \in Keys : stored'[k] \in Recorded' \cup {NoAnswer}
  BY <1>1, <1>5, SameStore
<1> QED BY <1>4, <1>5, <1>6, <1>7, OneStep

LEMMA RecordQueryTraces ==
  ASSUME ITrace, [Next]_vars, NEW r \in Requests, RecordQuery(r)
  PROVE  ITrace'
<1>1. Grows /\ LogStep /\ OnRecord(r) /\ GateType /\ req[r].step = "evaluate"
  BY AlwaysGrows DEF ITrace, IType, RecordQuery, At
<1> PICK joined \in BOOLEAN :
      req' = [req EXCEPT ![r].step = "lineage",
                ![r].answer = [query |-> r, ok |-> TRUE, shown |-> Shown(r, joined)]]
  BY DEF RecordQuery
<1> PICK shown : shown = Shown(r, joined)
  OBVIOUS
<1> DEFINE a == [query |-> r, ok |-> TRUE, shown |-> shown]
<1>2. shown \subseteq Names \X Columns /\ \A nc \in shown : nc[2] \notin req[r].view[nc[1]].mask
  BY <1>1, ShownFacts
<1>3. a \in Fresh(r, TRUE) /\ a.shown = shown
  BY <1>2 DEF Fresh, Answer
<1>4. req' = [req EXCEPT ![r].step = "lineage", ![r].answer = a]
  OBVIOUS
<1> HIDE DEF a
<1>5. req[r] \in Fields
  BY <1>1 DEF GateType, Request
<1>6. /\ req'[r].step = "lineage" /\ req'[r].answer = a /\ req'[r].view = req[r].view
      /\ \A p \in Requests \ {r} : req'[p] = req[p]
  BY <1>1, <1>4, <1>5 DEF GateType, Fields
<1>7. /\ queries' = [queries EXCEPT ![r] = "ok"] /\ UNCHANGED <<lineage, stored>>
      /\ queries \in [Requests -> {"none", "ok", "denied"}]
  BY <1>1 DEF RecordQuery, GateType
<1>8. OnRecord(r)'
  BY <1>3, <1>6, <1>7 DEF OnRecord, Fresh, Answer, Requests, Executing, Empty
<1>9. Masked(r)'
  BY <1>2, <1>3, <1>6 DEF Masked
<1>10. \A k \in Keys : stored'[k] \in Recorded' \cup {NoAnswer}
  BY <1>1, <1>7, SameStore
<1> QED BY <1>6, <1>7, <1>8, <1>9, <1>10, OneStep

LEMMA RecordLineageTraces ==
  ASSUME ITrace, [Next]_vars, NEW r \in Requests, RecordLineage(r)
  PROVE  ITrace'
<1>1. Grows /\ LogStep /\ OnRecord(r) /\ GateType /\ req[r].step = "lineage"
  BY AlwaysGrows DEF ITrace, IType, RecordLineage, At
<1>2. /\ req'[r].step = "audit_lineage" /\ req'[r].answer = req[r].answer
      /\ \A p \in Requests \ {r} : req'[p] = req[p]
  BY <1>1, LeaveFacts DEF RecordLineage
<1>3. lineage' = lineage \cup {r} /\ UNCHANGED <<queries, stored>>
  BY DEF RecordLineage
<1>4. OnRecord(r)' /\ Masked(r)'
  BY <1>1, <1>2, <1>3 DEF OnRecord, Masked, Fresh, Answer, Requests, Executing, Empty
<1>5. \A k \in Keys : stored'[k] \in Recorded' \cup {NoAnswer}
  BY <1>1, <1>3, SameStore
<1> QED BY <1>2, <1>3, <1>4, <1>5, OneStep

LEMMA StoreTraces ==
  ASSUME ITrace, [Next]_vars, NEW r \in Requests, Store(r)
  PROVE  ITrace'
<1>1. Grows /\ LogStep /\ OnRecord(r) /\ GateType /\ req[r].step = "answer"
  BY AlwaysGrows DEF ITrace, IType, Store, At
<1>2. /\ req'[r].step = "done" /\ req'[r].answer = req[r].answer
      /\ \A p \in Requests \ {r} : req'[p] = req[p]
  BY <1>1, GotoFacts DEF Store
<1>3. req[r].answer \in Recorded' /\ Recorded \subseteq Recorded'
  BY <1>1, RecordsStay DEF OnRecord, ITrace, IType
<1>4. OnRecord(r)' /\ Masked(r)'
  BY <1>2, <1>3 DEF OnRecord, Masked, Executing, Empty
<1>5. \A k \in Keys : stored'[k] \in Recorded' \cup {NoAnswer}
  BY <1>3 DEF Store, ITrace
<1>6. UNCHANGED <<queries, lineage>>
  BY DEF Store, OnlyRequests
<1> QED BY <1>2, <1>4, <1>5, <1>6, OneStep

(* A verification is not an event, and each step writes its own event.     *)
LEMMA EventsDiffer ==
  ASSUME NEW s, NEW r
  PROVE  <<s, r>> # Verify
<1>1. DOMAIN <<s, r>> = 1..2 /\ DOMAIN <<"verify">> = 1..1
  OBVIOUS
<1>2. 2 \in 1..2 /\ 2 \notin 1..1
  OBVIOUS
<1> QED BY <1>1, <1>2, Zenon DEF Verify

LEMMA EndsByStep ==
  ASSUME ITrace, NEW r \in Requests, EndEvent(r), req[r].step # "verify"
  PROVE  AppendEvent(r) /\ writer[r].event = <<req[r].step, r>>
<1>1. writer[r].event = EventOf(r)
  BY EndsItsEvent DEF ITrace
<1>2. EventOf(r) = <<req[r].step, r>>
  BY DEF EventOf, At
<1>3. ~VerifyChain(r)
  BY <1>1, <1>2, EventsDiffer, Zenon DEF VerifyChain
<1> QED BY <1>1, <1>2, <1>3 DEF EndEvent

(* The event a request ends with stands in the log, after those before.    *)
LEMMA EventStands ==
  ASSUME ITrace, NEW r \in Requests, EndEvent(r), req[r].step # "verify"
  PROVE  \E j \in DOMAIN lines' : /\ lines'[j].event = <<req[r].step, r>>
                                  /\ \A i \in DOMAIN lines : i < j
<1>1. AppendEvent(r) /\ writer[r].event = <<req[r].step, r>> /\ LogType
  BY EndsByStep DEF ITrace, IType
<1>2. /\ Len(lines) + 1 \in DOMAIN lines' /\ lines'[Len(lines) + 1].event = writer[r].event
      /\ DOMAIN lines = 1..Len(lines) /\ Len(lines) \in Nat
  BY <1>1, AppendFacts DEF Requests
<1>3. \A i \in DOMAIN lines : i < Len(lines) + 1
  BY <1>2
<1> QED BY <1>1, <1>2, <1>3

LEMMA EndTraces ==
  ASSUME ITrace, [Next]_vars, NEW r \in Requests, EndEvent(r)
  PROVE  ITrace'
<1>1. Grows /\ LogStep /\ OnRecord(r) /\ GateType /\ LogType
  BY AlwaysGrows DEF ITrace, IType
<1>2. req[r].step \in DOMAIN After
  BY EndsItsEvent DEF ITrace
<1>3. /\ req'[r].step = After[req[r].step] /\ req'[r].answer = req[r].answer
      /\ \A p \in Requests \ {r} : req'[p] = req[p]
  BY <1>1, GotoFacts DEF EndEvent
<1>4. UNCHANGED <<queries, lineage, stored>>
  BY DEF EndEvent
<1>5. \A k \in Keys : stored'[k] \in Recorded' \cup {NoAnswer}
  BY <1>1, <1>4, SameStore
<1>6. \A e : Position(e) \subseteq Position(e)'
  BY <1>1, EventsStay
<1>7. CASE req[r].step \in {"audit_catalog", "verify"}
  <2>1. req'[r].step = "done" /\ req'[r].answer = NoAnswer
    BY <1>1, <1>3, <1>7 DEF OnRecord, Empty, After
  <2>2. OnRecord(r)' /\ Masked(r)'
    BY <2>1 DEF OnRecord, Masked, Executing, Empty
  <2> QED BY <1>3, <1>4, <1>5, <2>2, OneStep
<1>8. CASE req[r].step = "audit_lineage"
  <2>1. req'[r].step = "audit_ok"
    BY <1>3, <1>8 DEF After
  <2>2. r \in LineageTold'
    BY <1>8, EventStands DEF LineageTold, Position, Requests
  <2>3. OnRecord(r)' /\ Masked(r)'
    BY <1>1, <1>3, <1>4, <1>8, <2>1, <2>2
       DEF OnRecord, Masked, Fresh, Answer, Requests, Executing, Empty
  <2> QED BY <1>3, <1>4, <1>5, <2>3, OneStep
<1>9. CASE req[r].step = "audit_ok"
  <2>1. req'[r].step = "answer"
    BY <1>3, <1>9 DEF After
  <2> PICK a \in Answer : a = req[r].answer /\ a.query = r /\ a.ok
    BY <1>1, <1>9 DEF OnRecord, Fresh
  <2>2. queries[r] = "ok" /\ r \in lineage /\ Position(<<"audit_lineage", r>>) # {}
    BY <1>1, <1>9 DEF OnRecord, LineageTold
  <2> PICK i : i \in Position(<<"audit_lineage", r>>)
    BY <2>2
  <2> PICK j \in DOMAIN lines' : lines'[j].event = <<"audit_ok", r>> /\ \A n \in DOMAIN lines : n < j
    BY <1>9, EventStands
  <2>3. i \in Position(<<"audit_lineage", r>>)' /\ j \in Position(<<"audit_ok", r>>)' /\ i < j
    BY <1>6 DEF Position
  <2>4. Traced(a)'
    BY <1>4, <2>2, <2>3 DEF Traced
  <2>5. a \in Recorded'
    BY <2>4 DEF Recorded, Answer, Requests
  <2>6. OnRecord(r)' /\ Masked(r)'
    BY <1>3, <2>1, <2>5 DEF OnRecord, Masked, Executing, Empty
  <2> QED BY <1>3, <1>4, <1>5, <2>6, OneStep
<1>10. CASE req[r].step = "audit_denied"
  <2>1. req'[r].step = "answer"
    BY <1>3, <1>10 DEF After
  <2> PICK a \in Answer : a = req[r].answer /\ a.query = r /\ ~a.ok
    BY <1>1, <1>10 DEF OnRecord, Fresh
  <2>2. queries[r] = "denied" /\ r \notin lineage
    BY <1>1, <1>10 DEF OnRecord
  <2> PICK j \in DOMAIN lines' : lines'[j].event = <<"audit_denied", r>>
    BY <1>10, EventStands
  <2>3. j \in Position(<<"audit_denied", r>>)'
    BY DEF Position
  <2>4. Traced(a)'
    BY <1>4, <2>2, <2>3 DEF Traced
  <2>5. a \in Recorded'
    BY <2>4 DEF Recorded, Answer, Requests
  <2>6. OnRecord(r)' /\ Masked(r)'
    BY <1>3, <2>1, <2>5 DEF OnRecord, Masked, Executing, Empty
  <2> QED BY <1>3, <1>4, <1>5, <2>6, OneStep
<1> QED BY <1>2, <1>7, <1>8, <1>9, <1>10, EventSteps

(* A step that leaves the tables and the requests alone.                   *)
LEMMA QuietTraces ==
  ASSUME ITrace, [Next]_vars, UNCHANGED <<queries, lineage, stored, req>>
  PROVE  ITrace'
<1>1. Grows /\ LogStep /\ IType'
  BY AlwaysGrows, NextType DEF ITrace
<1>2. \A p \in Requests : OnRecord(p)' /\ Masked(p)'
  BY <1>1, OthersKeep
<1>3. \A k \in Keys : stored'[k] \in Recorded' \cup {NoAnswer}
  BY <1>1, SameStore
<1> QED BY <1>1, <1>2, <1>3 DEF ITrace, Requests

LEMMA ArriveTraces ==
  ASSUME ITrace, [Next]_vars, NEW r \in Requests, NEW k, NEW t, NEW refs, Arrive(r, k, t, refs)
  PROVE  ITrace'
<1>1. /\ UNCHANGED <<queries, lineage, stored>> /\ req[r].step = "idle"
      /\ \A p \in Requests \ {r} : req'[p] = req[p]
      /\ req'[r].step \in {"lookup", "execute"} /\ req'[r].answer = NoAnswer
  BY DEF Arrive, OnlyRequests, At, ITrace, IType, GateType, Idle
<1> QED BY <1>1, StillEmpty DEF Executing, Empty

LEMMA NextTrace == ITrace /\ [Next]_vars => ITrace'
<1> SUFFICES ASSUME ITrace, [Next]_vars PROVE ITrace'
  OBVIOUS
<1>0. GateType
  BY DEF ITrace, IType
<1>1. ASSUME NEW r \in Requests, Step(r) PROVE ITrace'
  <2>1. CASE BeginEvent(r) \/ (AuditStep(r) /\ UNCHANGED gateVars)
    BY <2>1, QuietTraces DEF BeginEvent, gateVars
  <2> QED BY <1>1, <2>1, LookupTraces, BeforeTraces, RefuseTraces, RecordQueryTraces,
             RecordLineageTraces, StoreTraces, EndTraces DEF Step
<1>2. ASSUME NEW r \in Requests, AskToVerify(r) \/ \E c : Register(r, c) PROVE ITrace'
  <2>1. /\ UNCHANGED <<queries, lineage, stored>> /\ req[r].step = "idle"
        /\ Goto(r, "verify") \/ Goto(r, "audit_catalog")
    BY <1>2 DEF AskToVerify, Register, OnlyRequests, At
  <2>2. req[r].answer = NoAnswer
    BY <2>1 DEF ITrace, OnRecord, Executing, Empty
  <2> QED BY <1>0, <2>1, <2>2, GotoFacts, StillEmpty DEF Executing, Empty
<1>3. ASSUME NEW r \in Requests, NEW t, NEW topics, Ask(r, t, topics) PROVE ITrace'
  BY <1>3, ArriveTraces DEF Ask
<1>4. ASSUME NEW k \in Keys, Lapse(k) PROVE ITrace'
  <2>1. Grows /\ LogStep /\ IType' /\ LogType
    BY AlwaysGrows, NextType DEF ITrace, IType
  <2>2. \A p \in Requests : OnRecord(p)' /\ Masked(p)'
    BY <1>4, <2>1, OthersKeep DEF Lapse
  <2>3. \A q \in Keys : stored'[q] \in Recorded' \cup {NoAnswer}
    BY <1>0, <1>4, <2>1, RecordsStay DEF Lapse, GateType, ITrace
  <2> QED BY <2>1, <2>2, <2>3 DEF ITrace, Requests
<1>5. CASE Restart
  <2>1. Grows /\ LogStep /\ IType' /\ LogType
    BY AlwaysGrows, NextType DEF ITrace, IType
  <2>2. ASSUME NEW p \in Requests PROVE OnRecord(p)' /\ Masked(p)'
    <3>1. UNCHANGED <<queries, lineage>>
      BY <1>5 DEF Restart
    <3>2. CASE req[p].step \in {"idle", "done", "failed"}
      <4>1. req'[p] = req[p]
        BY <1>5, <3>2 DEF Restart
      <4> QED BY <2>1, <3>1, <4>1, OthersKeep
    <3>3. CASE req[p].step \notin {"idle", "done", "failed"}
      <4>1. req'[p].step = "lost" /\ req'[p].answer = NoAnswer
        BY <1>5, <3>3 DEF Restart, Idle
      <4> QED BY <4>1 DEF OnRecord, Masked, Executing, Empty
    <3> QED BY <3>2, <3>3
  <2>3. \A q \in Keys : stored'[q] \in Recorded' \cup {NoAnswer}
    BY <1>5, <2>1, SameStore DEF Restart
  <2> QED BY <2>1, <2>2, <2>3 DEF ITrace, Requests
<1>6. CASE UNCHANGED vars
  BY <1>6, QuietTraces DEF vars, gateVars
<1> QED BY <1>1, <1>2, <1>3, <1>4, <1>5, <1>6, ArriveTraces DEF Next

LEMMA InitTrace == Init => ITrace
<1> SUFFICES ASSUME Init PROVE ITrace
  OBVIOUS
<1>1. \A r \in Requests : req[r].step = "idle" /\ req[r].answer = NoAnswer
  BY DEF Init, Idle
<1>2. \A r \in Requests : OnRecord(r) /\ Masked(r)
  BY <1>1 DEF Init, OnRecord, Masked, Executing, Empty
<1>3. \A k \in Keys : stored[k] \in Recorded \cup {NoAnswer}
  BY DEF Init
<1> QED BY <1>2, <1>3, InitType DEF ITrace

(* Every answer that leaves, fresh or replayed, is on record, and nothing  *)
(* a catalog masks is in clear in a result.                                *)
THEOREM AccountsForAnswers == Spec => []AnswersAreAccountedFor
<1>1. ITrace => AnswersAreAccountedFor
  <2> SUFFICES ASSUME ITrace PROVE AnswersAreTraced /\ MasksHold
    BY DEF AnswersAreAccountedFor
  <2>1. AnswersAreTraced
    BY DEF ITrace, OnRecord, Recorded, AnswersAreTraced, Answered, At
  <2>2. MasksHold
    BY DEF ITrace, Masked, MasksHold, At
  <2> QED BY <2>1, <2>2
<1> QED BY <1>1, InitTrace, NextTrace, PTL DEF Spec

-----------------------------------------------------------------------------
(* Retries: a key that was answered keeps its answer until it lapses, an   *)
(* answer given or stored under a key was computed by a request of the     *)
(* key, and a request that came after an answer of its key runs no query.  *)
Alive == Keys \ lapsed
Ran(p, k, a) == Answered(p) /\ req[p].key = k /\ req[p].answer = a /\ a.query = p
FromARun(r) == \E p \in Requests : Ran(p, req[r].key, req[r].answer)

IsRetry(r) ==
    \E q \in req[r].before : Answered(q) /\ req[q].key = req[r].key /\ req[r].key \in Alive

Replayed(r) ==
    /\ req[r].step \in {"lookup", "done"}
    /\ queries[r] = "none"

Sound(r) ==
    /\ req[r].before \subseteq Finished
    /\ IsRetry(r) => Replayed(r)
    /\ Answered(r) => FromARun(r)

IRetry ==
    /\ ITrace
    /\ \A r \in Requests : Sound(r)
    /\ \A r \in Requests : Answered(r) /\ req[r].key \in Alive => stored[req[r].key] # NoAnswer
    /\ \A k \in Keys : stored[k] # NoAnswer => \E p \in Requests : Ran(p, k, stored[k])

(* A request that is done stays as it is.                                  *)
DoneStay == \A q \in Requests : req[q].step = "done" => req'[q] = req[q]

LEMMA RanStays ==
  ASSUME DoneStay, NEW p \in Requests, NEW k, NEW a, Ran(p, k, a)
  PROVE  Ran(p, k, a)'
  BY DEF DoneStay, Ran, Answered, At

LEMMA FromARunStays ==
  ASSUME DoneStay, NEW r \in Requests, req'[r] = req[r], FromARun(r)
  PROVE  FromARun(r)'
<1> PICK k, a : k = req[r].key /\ a = req[r].answer
  OBVIOUS
<1> PICK p \in Requests : Ran(p, k, a)
  BY DEF FromARun
<1>1. Ran(p, k, a)'
  BY RanStays
<1> QED BY <1>1 DEF FromARun, Ran

(* Of a request whose record does not change.                              *)
LEMMA RetryStays ==
  ASSUME IRetry, DoneStay, lapsed \subseteq lapsed', NEW r \in Requests,
         req'[r] = req[r], queries'[r] = queries[r]
  PROVE  Sound(r)'
<1>1. req[r].before \subseteq Finished /\ Finished \subseteq Finished'
  BY DEF IRetry, Sound, DoneStay, Finished, At, Requests
<1>2. ASSUME IsRetry(r)' PROVE IsRetry(r)
  <2>1. \A q \in req[r].before : q \in Requests /\ req'[q] = req[q]
    BY <1>1 DEF DoneStay, Finished, At
  <2> QED BY <1>2, <2>1 DEF IsRetry, Answered, At, Alive
<1>3. Answered(r)' => FromARun(r)'
  BY FromARunStays DEF IRetry, Sound, Answered, At
<1> QED BY <1>1, <1>2, <1>3 DEF IRetry, Sound, Replayed

(* Steps that store nothing and answer nobody.                             *)
LEMMA NotAnswering ==
  ASSUME IRetry, ITrace', DoneStay, lapsed \subseteq lapsed', NEW r \in Requests,
         \A p \in Requests \ {r} : req'[p] = req[p] /\ queries'[p] = queries[p],
         \A k \in Keys \ lapsed' : stored'[k] = stored[k],
         \A k \in Keys : stored'[k] \in {stored[k], NoAnswer},
         ~Answered(r)', req'[r].before \subseteq Finished', IsRetry(r)' => Replayed(r)'
  PROVE  IRetry'
<1>1. ASSUME NEW p \in Requests PROVE Sound(p)'
  BY RetryStays DEF Sound
<1>2. ASSUME NEW p \in Requests, Answered(p)', req'[p].key \in Alive'
      PROVE  stored'[req'[p].key] # NoAnswer
  <2>1. p # r /\ req'[p] = req[p]
    BY <1>2
  <2>2. Answered(p) /\ req[p].key \in Alive
    BY <1>2, <2>1 DEF Answered, At, Alive
  <2> QED BY <1>2, <2>1, <2>2 DEF IRetry, Alive
<1>3. ASSUME NEW k \in Keys, stored'[k] # NoAnswer
      PROVE  \E p \in Requests : Ran(p, k, stored[k])' /\ stored'[k] = stored[k]
  <2> PICK a : a = stored[k]
    OBVIOUS
  <2> PICK p \in Requests : Ran(p, k, a)
    BY <1>3 DEF IRetry
  <2>1. Ran(p, k, a)'
    BY RanStays
  <2> QED BY <1>3, <2>1 DEF Ran
<1> QED BY <1>1, <1>2, <1>3 DEF IRetry, Ran, Requests

LEMMA StaysDone == IType /\ [Next]_vars => DoneStay /\ lapsed \subseteq lapsed'
<1> SUFFICES ASSUME IType, [Next]_vars PROVE DoneStay /\ lapsed \subseteq lapsed'
  OBVIOUS
<1>0. GateType
  BY DEF IType
<1>1. ASSUME NEW r \in Requests, Step(r) PROVE DoneStay /\ lapsed' = lapsed
  <2>1. CASE UNCHANGED <<req, lapsed>>
    BY <2>1 DEF DoneStay
  <2>2. CASE EndEvent(r)
    <3>1. req[r].step # "done"
      BY <2>2, EndsItsEvent, EventSteps
    <3> QED BY <1>0, <2>2, <3>1, GotoFacts DEF EndEvent, DoneStay
  <2>3. CASE Lookup(r) \/ Refuse(r) \/ RecordLineage(r) \/ Store(r)
    <3>1. \A p \in Requests \ {r} : req'[p] = req[p]
      BY <1>0, <2>3, Elsewhere DEF Lookup, Refuse, RecordLineage, Store
    <3> QED BY <2>3, <3>1 DEF Lookup, Refuse, RecordLineage, Store, OnlyRequests, At, DoneStay
  <2>4. CASE ReadCatalogs(r) \/ Evaluate(r) \/ RecordQuery(r)
    <3>1. \A p \in Requests \ {r} : req'[p] = req[p]
      BY <1>0, <2>4, Elsewhere DEF ReadCatalogs, Evaluate, RecordQuery, Fail, GateType
    <3> QED BY <2>4, <3>1 DEF ReadCatalogs, Evaluate, RecordQuery, OnlyRequests, At, DoneStay
  <2> QED BY <1>1, <2>1, <2>2, <2>3, <2>4 DEF Step, BeginEvent, gateVars
<1>2. ASSUME NEW r \in Requests, AskToVerify(r) \/ \E c : Register(r, c)
      PROVE  DoneStay /\ lapsed' = lapsed
  <2>1. \A p \in Requests \ {r} : req'[p] = req[p]
    BY <1>0, <1>2, Elsewhere DEF AskToVerify, Register
  <2> QED BY <1>2, <2>1 DEF AskToVerify, Register, OnlyRequests, At, DoneStay
<1>3. ASSUME NEW r \in Requests, NEW k, NEW t, NEW refs, Arrive(r, k, t, refs)
      PROVE  DoneStay /\ lapsed' = lapsed
  BY <1>0, <1>3 DEF Arrive, OnlyRequests, At, GateType, DoneStay
<1>4. ASSUME NEW r \in Requests, NEW t, NEW topics, Ask(r, t, topics)
      PROVE  DoneStay /\ lapsed' = lapsed
  BY <1>3, <1>4 DEF Ask
<1>5. ASSUME Restart \/ UNCHANGED vars \/ \E k \in Keys : Lapse(k)
      PROVE  DoneStay /\ lapsed \subseteq lapsed'
  BY <1>5 DEF Restart, Lapse, vars, gateVars, DoneStay
<1> QED BY <1>1, <1>2, <1>3, <1>4, <1>5 DEF Next

(* A request that is no retry, and gets no answer, keeps its key.          *)
LEMMA NoRetry ==
  ASSUME IRetry, ITrace', DoneStay, NEW r \in Requests, UNCHANGED <<stored, lapsed>>,
         \A p \in Requests \ {r} : req'[p] = req[p] /\ queries'[p] = queries[p],
         req[r].step # "done", ~Answered(r)', ~IsRetry(r),
         \/ req'[r].key = req[r].key /\ req'[r].before = req[r].before
         \/ req'[r].before = {}
  PROVE  IRetry'
<1>1. req[r].before \subseteq Finished /\ Finished \subseteq Finished'
  BY DEF IRetry, Sound, DoneStay, Finished, At, Requests
<1>2. \A q \in req[r].before : req'[q] = req[q]
  BY <1>1 DEF DoneStay, Finished, At
<1>3. ~IsRetry(r)'
  BY <1>2 DEF IsRetry, Answered, At, Alive
<1> QED BY <1>1, <1>3, NotAnswering

LEMMA ArriveRetries ==
  ASSUME IRetry, ITrace', [Next]_vars, NEW r \in Requests, NEW k \in Keys \cup {NoKey}, NEW t,
         NEW refs, Arrive(r, k, t, refs)
  PROVE  IRetry'
<1>1. DoneStay /\ lapsed \subseteq lapsed' /\ GateType /\ OnRecord(r)
  BY StaysDone DEF IRetry, ITrace, IType
<1>2. /\ UNCHANGED <<stored, lapsed, queries>> /\ req[r].step = "idle"
      /\ \A p \in Requests \ {r} : req'[p] = req[p]
      /\ req'[r].step = IF k = NoKey THEN "execute" ELSE "lookup"
      /\ req'[r].key = k /\ req'[r].before = Finished
  BY <1>1 DEF Arrive, OnlyRequests, At, GateType, Idle
<1>3. Finished \subseteq Finished'
  BY <1>1 DEF DoneStay, Finished, At, Requests
<1>4. ~Answered(r)' /\ queries'[r] = "none"
  BY <1>1, <1>2 DEF Answered, At, OnRecord, Executing
<1>5. IsRetry(r)' => Replayed(r)'
  BY <1>2, <1>4, FederationAssumption DEF IsRetry, Replayed, Alive
<1> QED BY <1>1, <1>2, <1>3, <1>4, <1>5, NotAnswering

LEMMA LookupRetries ==
  ASSUME IRetry, ITrace', [Next]_vars, NEW r \in Requests, Lookup(r)
  PROVE  IRetry'
<1>1. DoneStay /\ lapsed \subseteq lapsed' /\ GateType /\ OnRecord(r)
  BY StaysDone DEF IRetry, ITrace, IType
<1>2. /\ req[r].key \in Keys /\ UNCHANGED <<queries, stored, lapsed>> /\ req[r].step = "lookup"
      /\ queries[r] = "none"
  BY <1>1 DEF GateType, Request, Lookup, At, OnlyRequests, OnRecord, Executing
<1>3. CASE stored[req[r].key] = NoAnswer
  <2>1. Goto(r, "execute")
    BY <1>3 DEF Lookup
  <2>2. /\ req'[r].step = "execute" /\ req'[r].key = req[r].key /\ req'[r].before = req[r].before
        /\ \A p \in Requests \ {r} : req'[p] = req[p]
    BY <1>1, <2>1, GotoFacts
  <2>3. ~IsRetry(r)
    <3>1. \A q \in req[r].before : q \in Requests
      BY DEF IRetry, Sound, Finished
    <3> QED BY <1>3, <3>1 DEF IRetry, IsRetry, Sound
  <2> QED BY <1>1, <1>2, <2>2, <2>3, NoRetry DEF Answered, At
<1>4. CASE stored[req[r].key] # NoAnswer
  <2> PICK k, a : k = req[r].key /\ a = stored[k]
    OBVIOUS
  <2>1. Leave(r, a, "done")
    BY <1>4 DEF Lookup
  <2>2. /\ req'[r].step = "done" /\ req'[r].answer = a
        /\ req'[r].key = k /\ req'[r].before = req[r].before
        /\ \A p \in Requests \ {r} : req'[p] = req[p]
    BY <1>1, <2>1, LeaveFacts
  <2> PICK p \in Requests : Ran(p, k, a)
    BY <1>2, <1>4 DEF IRetry
  <2>3. Ran(p, k, a)'
    BY <1>1, RanStays
  <2>4. FromARun(r)' /\ Replayed(r)'
    BY <1>2, <2>2, <2>3 DEF FromARun, Replayed, Ran
  <2>5. \A q \in Requests : Sound(q)'
    <3>1. Finished \subseteq Finished'
      BY <1>1 DEF DoneStay, Finished, At, Requests
    <3>2. req'[r].before \subseteq Finished'
      BY <2>2, <3>1 DEF IRetry, Sound
    <3>3. Sound(r)'
      BY <2>4, <3>2 DEF Sound
    <3> QED BY <1>1, <1>2, <2>2, <3>3, RetryStays
  <2>6. \A q \in Requests : Answered(q)' /\ req'[q].key \in Alive' => stored'[req'[q].key] # NoAnswer
    BY <1>2, <1>4, <2>2 DEF IRetry, Answered, At, Alive
  <2>7. \A l \in Keys : stored'[l] # NoAnswer => \E q \in Requests : Ran(q, l, stored[l])'
    <3> SUFFICES ASSUME NEW l \in Keys, stored'[l] # NoAnswer
                 PROVE  \E q \in Requests : Ran(q, l, stored[l])'
      OBVIOUS
    <3> PICK b : b = stored[l]
      OBVIOUS
    <3> PICK q \in Requests : Ran(q, l, b)
      BY <1>2 DEF IRetry
    <3>1. Ran(q, l, b)'
      BY <1>1, RanStays
    <3> QED BY <1>2, <3>1 DEF Ran
  <2> QED BY <2>5, <2>6, <2>7 DEF IRetry, Requests
<1> QED BY <1>3, <1>4

LEMMA StoreRetries ==
  ASSUME IRetry, ITrace', [Next]_vars, NEW r \in Requests, Store(r)
  PROVE  IRetry'
<1>1. DoneStay /\ UNCHANGED <<queries, lapsed>> /\ GateType /\ OnRecord(r) /\ req[r].step = "answer"
  BY StaysDone DEF IRetry, ITrace, IType, Store, OnlyRequests, At
<1> PICK k, a : k = req[r].key /\ a = req[r].answer
  OBVIOUS
<1>2. a # NoAnswer /\ a.query = r
  BY <1>1, NoAnswerIsNone DEF OnRecord, Recorded
<1>3. /\ req'[r].step = "done" /\ req'[r].answer = a /\ req'[r].key = k
      /\ req'[r].before = req[r].before
      /\ \A p \in Requests \ {r} : req'[p] = req[p]
  BY <1>1, GotoFacts DEF Store
<1>4. stored' = [l \in Keys |-> IF l = k THEN a ELSE stored[l]]
  BY DEF Store
<1>5. Ran(r, k, a)'
  BY <1>2, <1>3 DEF Ran, Answered, At
<1>6. Finished \subseteq Finished' /\ req[r].before \subseteq Finished
  BY <1>1 DEF DoneStay, Finished, At, Requests, IRetry, Sound
<1>7. ~IsRetry(r)'
  <2>1. \A q \in req[r].before : req'[q] = req[q]
    BY <1>1, <1>6 DEF DoneStay, Finished, At
  <2>2. ~IsRetry(r)
    BY <1>1 DEF IRetry, Sound, Replayed
  <2> QED BY <1>1, <1>3, <2>1, <2>2 DEF IsRetry, Answered, At, Alive
<1>8. \A q \in Requests : Sound(q)'
  <2>1. Sound(r)'
    BY <1>3, <1>5, <1>6, <1>7 DEF Sound, FromARun, Ran
  <2> QED BY <1>1, <1>3, <2>1, RetryStays
<1>9. ASSUME NEW q \in Requests, Answered(q)', req'[q].key \in Alive'
      PROVE  stored'[req'[q].key] # NoAnswer
  BY <1>1, <1>2, <1>3, <1>4, <1>9 DEF IRetry, Answered, At, Alive
<1>10. ASSUME NEW l \in Keys, stored'[l] # NoAnswer
       PROVE  \E q \in Requests : Ran(q, l, stored[l])'
  <2>1. CASE l = k
    BY <1>4, <1>5, <2>1 DEF Ran
  <2>2. CASE l # k
    <3> PICK b : b = stored[l]
      OBVIOUS
    <3> PICK q \in Requests : Ran(q, l, b)
      BY <1>4, <1>10, <2>2 DEF IRetry
    <3>1. Ran(q, l, b)'
      BY <1>1, RanStays
    <3> QED BY <1>4, <2>2, <3>1 DEF Ran
  <2> QED BY <2>1, <2>2
<1> QED BY <1>8, <1>9, <1>10 DEF IRetry, Requests

(* The steps of an execution that change the request alone.                *)
LEMMA LocalFacts ==
  ASSUME GateType, NEW r \in Requests, ReadCatalogs(r) \/ Evaluate(r) \/ RecordQuery(r)
  PROVE  /\ req'[r].step # "done"
         /\ req'[r].key = req[r].key /\ req'[r].before = req[r].before
         /\ \A p \in Requests \ {r} : req'[p] = req[p]
<1>1. req[r] \in Fields
  BY DEF GateType, Request
<1>2. CASE Fail(r) \/ Goto(r, "refuse")
  BY <1>2, GotoFacts, LeaveFacts DEF Fail
<1>3. CASE \E v : req' = [req EXCEPT ![r].view = v, ![r].step = "evaluate"]
  BY <1>1, <1>3 DEF GateType, Fields
<1>4. CASE req[r].step = "evaluate" /\ req' = [req EXCEPT ![r].used = @ + 1]
  BY <1>1, <1>4 DEF GateType, Fields
<1>5. CASE \E a : req' = [req EXCEPT ![r].step = "lineage", ![r].answer = a]
  BY <1>1, <1>5 DEF GateType, Fields
<1>6. CASE ReadCatalogs(r)
  BY <1>2, <1>3, <1>6 DEF ReadCatalogs
<1>7. CASE Evaluate(r)
  BY <1>2, <1>4, <1>7 DEF Evaluate, At
<1>8. CASE RecordQuery(r)
  BY <1>5, <1>8 DEF RecordQuery
<1> QED BY <1>6, <1>7, <1>8

(* What is left of the steps of a request: none of them answers it.        *)
LEMMA OtherStepRetries ==
  ASSUME IRetry, ITrace', [Next]_vars, NEW r \in Requests,
         \/ ReadCatalogs(r) \/ Evaluate(r) \/ Refuse(r) \/ RecordQuery(r) \/ RecordLineage(r)
         \/ EndEvent(r) \/ AskToVerify(r) \/ \E c : Register(r, c)
  PROVE  IRetry'
<1>1. DoneStay /\ GateType /\ OnRecord(r) /\ OnRecord(r)' /\ queries \in [Requests -> {"none", "ok", "denied"}]
  BY StaysDone DEF IRetry, ITrace, IType, GateType, Requests
<1>2. UNCHANGED <<stored, lapsed>>
  BY DEF ReadCatalogs, Evaluate, Refuse, RecordQuery, RecordLineage, EndEvent, AskToVerify,
         Register, OnlyRequests
<1>3. req[r].step \notin {"lookup", "done", "answer"}
  BY EndsItsEvent, EventSteps DEF ReadCatalogs, Evaluate, Refuse, RecordQuery, RecordLineage,
     AskToVerify, Register, At, IRetry, ITrace
<1>4. ~IsRetry(r)
  BY <1>3 DEF IRetry, Sound, Replayed
<1>5. /\ req'[r].key = req[r].key /\ req'[r].before = req[r].before
      /\ \A p \in Requests \ {r} : req'[p] = req[p]
  <2>1. CASE \E s, a : Goto(r, s) \/ Leave(r, a, s)
    BY <1>1, <2>1, GotoFacts, LeaveFacts
  <2>2. CASE ReadCatalogs(r) \/ Evaluate(r) \/ RecordQuery(r)
    BY <1>1, <2>2, LocalFacts
  <2> QED BY <2>1, <2>2 DEF Refuse, RecordLineage, EndEvent, AskToVerify, Register
<1>6. \A p \in Requests \ {r} : queries'[p] = queries[p]
  BY <1>1 DEF ReadCatalogs, Evaluate, Refuse, RecordQuery, RecordLineage, EndEvent, AskToVerify,
              Register, OnlyRequests
<1>7. ~Answered(r)'
  <2>1. CASE EndEvent(r)
    <3>1. /\ req[r].step \in DOMAIN After /\ req'[r].step = After[req[r].step]
          /\ req'[r].answer = req[r].answer
      BY <1>1, <2>1, EndsItsEvent, GotoFacts DEF EndEvent, IRetry, ITrace
    <3>2. CASE req[r].step \in {"audit_catalog", "verify"}
      BY <1>1, <3>1, <3>2 DEF OnRecord, Empty, Answered
    <3>3. CASE req[r].step \in {"audit_lineage", "audit_ok", "audit_denied"}
      BY <3>1, <3>3 DEF After, Answered, At
    <3> QED BY <3>1, <3>2, <3>3, EventSteps
  <2>2. CASE Refuse(r) \/ RecordLineage(r) \/ AskToVerify(r) \/ \E c : Register(r, c)
    BY <1>1, <2>2, GotoFacts, LeaveFacts
       DEF Refuse, RecordLineage, AskToVerify, Register, Answered, At
  <2>3. CASE ReadCatalogs(r) \/ Evaluate(r) \/ RecordQuery(r)
    BY <1>1, <2>3, LocalFacts DEF Answered, At
  <2> QED BY <2>1, <2>2, <2>3
<1> QED BY <1>1, <1>2, <1>3, <1>4, <1>5, <1>6, <1>7, NoRetry

LEMMA NextRetry == IRetry /\ [Next]_vars => IRetry'
<1> SUFFICES ASSUME IRetry, [Next]_vars PROVE IRetry'
  OBVIOUS
<1>0. ITrace' /\ DoneStay /\ lapsed \subseteq lapsed' /\ GateType
  BY NextTrace, StaysDone DEF IRetry, ITrace, IType
<1>1. ASSUME NEW r \in Requests, Step(r), ~UNCHANGED gateVars PROVE IRetry'
  BY <1>0, <1>1, LookupRetries, StoreRetries, OtherStepRetries DEF Step, BeginEvent
<1>2. ASSUME NEW r \in Requests, AskToVerify(r) \/ \E c : Register(r, c) PROVE IRetry'
  BY <1>0, <1>2, OtherStepRetries
<1>3. ASSUME NEW r \in Requests, NEW k \in Keys \cup {NoKey}, NEW t, NEW refs,
             Arrive(r, k, t, refs)
      PROVE  IRetry'
  BY <1>0, <1>3, ArriveRetries
<1>4. ASSUME NEW r \in Requests, NEW t, NEW topics, Ask(r, t, topics) PROVE IRetry'
  BY <1>3, <1>4 DEF Ask
<1>5. ASSUME NEW k \in Keys, Lapse(k) PROVE IRetry'
  <2>1. UNCHANGED <<req, queries>> /\ k \in lapsed' /\ stored' = [stored EXCEPT ![k] = NoAnswer]
        /\ stored \in [Keys -> Answer \cup {NoAnswer}]
    BY <1>0, <1>5 DEF Lapse, GateType
  <2>2. \A p \in Requests : Sound(p)'
    BY <1>0, <2>1, RetryStays
  <2>3. ASSUME NEW p \in Requests, Answered(p)', req'[p].key \in Alive'
        PROVE  stored'[req'[p].key] # NoAnswer
    BY <1>0, <2>1, <2>3 DEF IRetry, Answered, At, Alive
  <2>4. ASSUME NEW l \in Keys, stored'[l] # NoAnswer
        PROVE  \E q \in Requests : Ran(q, l, stored[l])'
    <3>1. l # k /\ stored'[l] = stored[l]
      BY <2>1, <2>4
    <3> PICK b : b = stored[l]
      OBVIOUS
    <3> PICK q \in Requests : Ran(q, l, b)
      BY <2>4, <3>1 DEF IRetry
    <3>2. Ran(q, l, b)'
      BY <1>0, RanStays
    <3> QED BY <3>1, <3>2 DEF Ran
  <2> QED BY <1>0, <2>2, <2>3, <2>4 DEF IRetry, Requests
<1>6. CASE Restart
  <2>1. /\ UNCHANGED <<queries, stored, lapsed>>
        /\ \A p \in Requests : \/ req'[p] = req[p]
                               \/ req'[p].step = "lost" /\ req'[p].before = {}
    BY <1>6 DEF Restart, Idle
  <2>2. ASSUME NEW p \in Requests
        PROVE  Sound(p)'
    <3>1. CASE req'[p] = req[p]
      BY <1>0, <2>1, <3>1, RetryStays
    <3>2. CASE req'[p].step = "lost" /\ req'[p].before = {}
      BY <3>2 DEF Sound, IsRetry, Answered, At
    <3> QED BY <2>1, <3>1, <3>2
  <2>3. ASSUME NEW p \in Requests, Answered(p)', req'[p].key \in Alive'
        PROVE  stored'[req'[p].key] # NoAnswer
    <3>1. req'[p] = req[p]
      BY <2>1, <2>3 DEF Answered, At
    <3>2. Answered(p) /\ req[p].key \in Alive
      BY <2>1, <2>3, <3>1 DEF Answered, At, Alive
    <3> QED BY <2>1, <3>1, <3>2 DEF IRetry
  <2>4. ASSUME NEW l \in Keys, stored'[l] # NoAnswer
        PROVE  \E q \in Requests : Ran(q, l, stored[l])'
    <3> PICK b : b = stored[l]
      OBVIOUS
    <3> PICK q \in Requests : Ran(q, l, b)
      BY <2>1, <2>4 DEF IRetry
    <3>2. Ran(q, l, b)'
      BY <1>0, RanStays
    <3> QED BY <2>1, <3>2 DEF Ran
  <2> QED BY <1>0, <2>2, <2>3, <2>4 DEF IRetry, Requests
<1>7. CASE UNCHANGED gateVars
  <2>1. UNCHANGED <<req, queries, stored, lapsed>>
    BY <1>7 DEF gateVars
  <2>2. \A p \in Requests : Sound(p)'
    BY <1>0, <2>1, RetryStays
  <2> QED BY <1>0, <2>1, <2>2 DEF IRetry, Requests, Answered, At, Alive, Ran
<1> QED BY <1>1, <1>2, <1>3, <1>4, <1>5, <1>6, <1>7 DEF Next, vars

(* A request that repeats an answered one of its tenant, query and key     *)
(* runs no query as long as the key's entry has not lapsed; if the key was *)
(* used for that call only, it gets what a run of the call computed, and   *)
(* the repeated request's own answer if the call ran once.                 *)
THEOREM ReplaysRetries == Spec => []RetryIsReplayed
<1>1. Init => IRetry
  BY InitTrace DEF Init, IRetry, Sound, Idle, IsRetry, Answered, At
<1>2. ASSUME IRetry, NEW r \in Requests, NEW q \in req[r].before, Answered(q), SameCall(q, r),
             req[r].key \in Keys \ lapsed
      PROVE  queries[r] = "none"
  BY <1>2 DEF IRetry, Sound, IsRetry, Replayed, Alive, SameCall
<1>3. ASSUME IRetry, NEW r \in Requests, NEW q \in req[r].before, Answered(q), SameCall(q, r),
             Answered(r), UsedForOneCall(req[r].key)
      PROVE  /\ \E p \in RunsOf(req[r].key) : SameCall(p, r) /\ req[p].answer = req[r].answer
             /\ \/ req[r].answer = req[q].answer
                \/ \E p, p2 \in RunsOf(req[r].key) : p # p2
  <2>1. q \in Requests
    BY <1>3 DEF IRetry, Sound, Finished
  <2>2. PICK p \in RunsOf(req[r].key) : req[p].key = req[r].key /\ req[p].answer = req[r].answer
    BY <1>3 DEF IRetry, Sound, FromARun, Ran, RunsOf
  <2>3. PICK p2 \in RunsOf(req[r].key) : req[p2].answer = req[q].answer
    BY <1>3, <2>1 DEF IRetry, Sound, FromARun, Ran, RunsOf, SameCall
  <2>4. SameCall(p, r)
    BY <1>3, <2>2 DEF UsedForOneCall, RunsOf
  <2> QED BY <2>2, <2>3, <2>4
<1>4. IRetry => RetryIsReplayed
  BY <1>2, <1>3 DEF RetryIsReplayed
<1> QED BY <1>1, <1>4, NextRetry, PTL DEF Spec

-----------------------------------------------------------------------------
(* The log: as long as no two writers overlapped, every line is linked to  *)
(* the one before and signed with the secret of the file.                  *)
Alone == \A v, w \in Writers : Writing(v) /\ Writing(w) => v = w

Chained ==
    /\ \A i \in DOMAIN lines : lines[i].prev = i - 1 /\ lines[i].secret = secretFile
    /\ secretFile = NoSecret => lines = <<>>

OnTime(w) ==
    /\ writer[w].step = "mint" => secretFile = NoSecret
    /\ writer[w].step = "fill" => lines = <<>>
    /\ writer[w].step \in {"read", "append"} =>
          writer[w].secret = secretFile /\ secretFile # NoSecret
    /\ writer[w].step = "append" => writer[w].prev = Len(lines)

ISerial ==
    /\ LogType
    /\ ~overlapped => Alone /\ Chained /\ \A w \in Writers : OnTime(w)
    /\ ~overlapped /\ Len(lines) <= Window => verdict # "broken"

LEMMA ShortLogIsRead ==
  ASSUME LogType, Len(lines) <= Window
  PROVE  Read = DOMAIN lines /\ \A i \in Read : FirstRead(i) <=> i = 1
<1>1. Len(lines) \in Nat /\ DOMAIN lines = 1..Len(lines) /\ Window \in Nat
  BY LenProperties, ApiAuditAssumption DEF LogType
<1>2. Read = DOMAIN lines
  BY <1>1 DEF Read
<1> QED BY <1>1, <1>2 DEF FirstRead

LEMMA NextSerial == ISerial /\ LogType' /\ LogStep => ISerial'
<1> SUFFICES ASSUME ISerial, LogType', LogStep PROVE ISerial'
  OBVIOUS
<1>0. /\ writer \in [Writers -> Writer] /\ Len(lines) \in Nat /\ LogType
      /\ NoSecret \notin Writers /\ Blank \notin Writers /\ NoSecret # Blank
      /\ overlapped \in BOOLEAN /\ Resting.step = "rest"
  BY LenProperties, ApiAuditAssumption DEF ISerial, LogType, Resting
<1>1. CASE UNCHANGED auditVars
  BY <1>1 DEF auditVars, ISerial, LogType, Alone, Chained, OnTime, Writing
<1>2. ASSUME NEW w \in Writers, NEW e \in Events, GetSecret(w, e) PROVE ISerial'
  <2> SUFFICES ASSUME ~overlapped' PROVE (Alone /\ Chained /\ \A v \in Writers : OnTime(v))'
    BY <1>0, <1>2 DEF GetSecret, ISerial
  <2>1. \A v \in Writers : ~Writing(v) /\ ~overlapped
    BY <1>0, <1>2 DEF GetSecret
  <2>2. /\ writer'[w].step = (IF secretFile = NoSecret THEN "mint" ELSE "read")
        /\ writer'[w].secret = secretFile
        /\ \A v \in Writers \ {w} : writer'[v] = writer[v]
    BY <1>0, <1>2 DEF GetSecret
  <2>3. Alone'
    BY <2>1, <2>2 DEF Alone, Writing
  <2>4. Chained'
    BY <1>2, <2>1 DEF GetSecret, Chained, ISerial
  <2>5. \A v \in Writers : OnTime(v)'
    BY <1>2, <2>1, <2>2 DEF GetSecret, OnTime, Writing
  <2> QED BY <2>3, <2>4, <2>5
<1>3. ASSUME NEW w \in Writers, AuditStep(w) PROVE ISerial'
  <2>1. UNCHANGED <<lines, verdict, overlapped>> /\ Writing(w)
        /\ \A v \in Writers \ {w} : writer'[v] = writer[v]
    BY <1>0, <1>3 DEF AuditStep, TruncateSecret, FillSecret, ReadLast, Writing
  <2> SUFFICES ASSUME ~overlapped' PROVE (Alone /\ Chained /\ \A v \in Writers : OnTime(v))'
    BY <2>1 DEF ISerial
  <2>2. Alone /\ Chained /\ OnTime(w) /\ \A v \in Writers \ {w} : ~Writing(v)
    BY <2>1 DEF ISerial, Alone
  <2>3. Alone' /\ \A v \in Writers \ {w} : OnTime(v)'
    BY <2>1, <2>2 DEF Alone, OnTime, Writing
  <2>4. CASE TruncateSecret(w)
    <3>1. lines = <<>> /\ secretFile' = Blank /\ lines' = <<>> /\ writer'[w].step = "fill"
      BY <1>0, <2>1, <2>2, <2>4 DEF TruncateSecret, OnTime, Chained, Writer
    <3>2. Chained'
      BY <3>1 DEF Chained
    <3>3. OnTime(w)'
      BY <3>1 DEF OnTime
    <3> QED BY <2>3, <3>2, <3>3
  <2>5. CASE FillSecret(w)
    <3>1. lines = <<>> /\ secretFile' = w /\ lines' = <<>> /\ writer'[w].step = "read"
          /\ writer'[w].secret = w
      BY <1>0, <2>1, <2>2, <2>5 DEF FillSecret, OnTime, Writer
    <3>2. Chained'
      BY <3>1 DEF Chained
    <3>3. OnTime(w)'
      BY <1>0, <3>1 DEF OnTime
    <3> QED BY <2>3, <3>2, <3>3
  <2>6. CASE ReadLast(w)
    <3>1. /\ UNCHANGED <<lines, secretFile>> /\ writer'[w].step = "append"
          /\ writer'[w].secret = writer[w].secret /\ writer'[w].prev = Len(lines)
          /\ writer[w].step = "read"
      BY <1>0, <2>6 DEF ReadLast, LastHash, Writer
    <3>2. Chained'
      BY <2>2, <3>1 DEF Chained
    <3>3. OnTime(w)'
      BY <2>2, <3>1 DEF OnTime
    <3> QED BY <2>3, <3>2, <3>3
  <2> QED BY <1>3, <2>4, <2>5, <2>6 DEF AuditStep
<1>4. ASSUME NEW w \in Writers, AppendEvent(w) PROVE ISerial'
  <2>1. UNCHANGED <<secretFile, verdict, overlapped>> /\ writer[w].step = "append"
        /\ writer' = [writer EXCEPT ![w] = Resting]
    BY <1>4 DEF AppendEvent
  <2>2. /\ Len(lines') = Len(lines) + 1 /\ DOMAIN lines' = 1..(Len(lines) + 1)
        /\ DOMAIN lines = 1..Len(lines) /\ \A i \in DOMAIN lines : lines'[i] = lines[i]
    BY <1>0, <1>4, AppendFacts
  <2>3. Len(lines') <= Window => Len(lines) <= Window
    BY <1>0, <2>2, ApiAuditAssumption
  <2>4. Writing(w) /\ ~Writing(w)' /\ \A v \in Writers \ {w} : writer'[v] = writer[v]
    BY <1>0, <2>1 DEF Writing
  <2> SUFFICES ASSUME ~overlapped' PROVE (Alone /\ Chained /\ \A v \in Writers : OnTime(v))'
    BY <2>1, <2>3 DEF ISerial
  <2>5. Alone /\ Chained /\ OnTime(w) /\ \A v \in Writers \ {w} : ~Writing(v)
    BY <2>1, <2>4 DEF ISerial, Alone
  <2>6. \A v \in Writers : ~Writing(v)'
    BY <2>4, <2>5 DEF Writing
  <2>7. writer[w].prev = Len(lines) /\ writer[w].secret = secretFile /\ secretFile # NoSecret
    BY <2>1, <2>5 DEF OnTime
  <2>8. lines'[Len(lines) + 1].prev = writer[w].prev /\ lines'[Len(lines) + 1].secret = writer[w].secret
    BY <1>0, <1>4, AppendFacts
  <2>9. ASSUME NEW i \in DOMAIN lines' PROVE lines'[i].prev = i - 1 /\ lines'[i].secret = secretFile'
    <3>1. CASE i \in DOMAIN lines
      BY <2>1, <2>2, <2>5, <3>1 DEF Chained
    <3>2. CASE i = Len(lines) + 1
      <4>1. i - 1 = Len(lines)
        BY <1>0, <3>2
      <4> QED BY <2>1, <2>7, <2>8, <3>2, <4>1, Zenon
    <3>3. i \in DOMAIN lines \/ i = Len(lines) + 1
      BY <1>0, <2>2
    <3> QED BY <3>1, <3>2, <3>3
  <2>10. Alone' /\ \A v \in Writers : OnTime(v)'
    BY <2>6 DEF Alone, OnTime, Writing
  <2>11. Chained'
    BY <2>1, <2>7, <2>9 DEF Chained
  <2> QED BY <2>10, <2>11
<1>5. ASSUME NEW w \in Writers, VerifyChain(w) PROVE ISerial'
  <2>1. UNCHANGED <<secretFile, lines, overlapped>> /\ writer[w].step = "read"
        /\ writer' = [writer EXCEPT ![w] = Resting]
        /\ verdict' = IF Holds(writer[w].secret) THEN "valid" ELSE "broken"
    BY <1>5 DEF VerifyChain
  <2>2. Writing(w) /\ ~Writing(w)' /\ \A v \in Writers \ {w} : writer'[v] = writer[v]
    BY <1>0, <2>1 DEF Writing
  <2> SUFFICES ASSUME ~overlapped'
               PROVE  /\ (Alone /\ Chained /\ \A v \in Writers : OnTime(v))'
                      /\ Len(lines) <= Window => verdict' # "broken"
    BY <2>1 DEF ISerial
  <2>3. Alone /\ Chained /\ OnTime(w) /\ \A v \in Writers \ {w} : ~Writing(v)
    BY <2>1, <2>2 DEF ISerial, Alone
  <2>4. ASSUME Len(lines) <= Window PROVE Holds(writer[w].secret)
    <3>1. Read = DOMAIN lines /\ \A i \in Read : FirstRead(i) <=> i = 1
      BY <1>0, <2>4, ShortLogIsRead
    <3>2. writer[w].secret = secretFile
      BY <2>1, <2>3 DEF OnTime
    <3>3. \A i \in DOMAIN lines : lines[i].prev = i - 1 /\ lines[i].secret = secretFile
      BY <2>3 DEF Chained
    <3> QED BY <3>1, <3>2, <3>3 DEF Holds
  <2>5. \A v \in Writers : ~Writing(v)'
    BY <2>2, <2>3 DEF Writing
  <2>6. Alone' /\ \A v \in Writers : OnTime(v)'
    BY <2>5 DEF Alone, OnTime, Writing
  <2>7. Chained'
    BY <2>1, <2>3 DEF Chained
  <2> QED BY <2>1, <2>4, <2>6, <2>7
<1>6. CASE ForgetWriters
  <2>1. \A v \in Writers : writer'[v].step = "rest"
    BY <1>0, <1>6 DEF ForgetWriters
  <2> QED BY <1>6, <2>1 DEF ForgetWriters, ISerial, Alone, Chained, OnTime, Writing
<1> QED BY <1>1, <1>2, <1>3, <1>4, <1>5, <1>6 DEF LogStep

(* Without overlap, whatever crashed in between, the log verifies.         *)
THEOREM LogVerifies == Spec => []SerialLogVerifies
<1>1. Init => IType /\ ISerial
  <2> SUFFICES ASSUME Init PROVE ISerial
    BY InitType
  <2>1. lines = <<>> /\ verdict = "none" /\ LogType /\ \A w \in Writers : writer[w].step = "rest"
    BY InitType DEF Init, ApiAuditInit, IType, Resting
  <2>2. DOMAIN lines = {}
    BY <2>1
  <2> QED BY <2>1, <2>2 DEF ISerial, Alone, Chained, OnTime, Writing
<1>2. IType /\ ISerial /\ [Next]_vars => (IType /\ ISerial)'
  BY NextType, LogSteps, NextSerial DEF IType
<1>3. ISerial => SerialLogVerifies
  BY DEF ISerial, SerialLogVerifies
<1> QED BY <1>1, <1>2, <1>3, PTL DEF Spec
=============================================================================
