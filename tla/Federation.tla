----------------------------- MODULE Federation -----------------------------
(***************************************************************************)
(* The federated query gateway of the API service                          *)
(* (services/api/app/services/federation.py, idempotency.py, lineage.py,   *)
(* data_access.py and their endpoints in main.py), over its audit log      *)
(* (ApiAudit): requests that register catalogs and run queries, retries    *)
(* under an Idempotency-Key, and the records a query leaves behind.        *)
(*                                                                         *)
(* Requests run side by side in the server's thread pool; every            *)
(* `with get_conn()` block is one step.  A query is the list of catalogs   *)
(* it names; each catalog has one table with the columns Columns, and what *)
(* is kept of a result is the columns that are shown in clear.  Whether    *)
(* rows join is the data's choice.                                         *)
(***************************************************************************)
EXTENDS ApiAudit, SequencesExt

CONSTANTS
    Names,         \* names of catalogs, in lower case
    Columns,       \* columns of their tables
    Tenants,
    DefaultTenant, \* ten-default, which owns the seeded catalogs
    SeedMask,      \* the columns each seeded catalog masks
    Queries,       \* lists of catalogs queries name, <<>> for a text refused at once
    Intents,       \* _INTENT_MAP: topics of a question, and the query each stands for
    Browse,        \* the query of any other question
    Keys, NoKey,   \* values of Idempotency-Key
    NoAnswer,
    MaxCatalogs    \* bound: catalogs there are in the end

ASSUME FederationAssumption ==
    /\ DefaultTenant \in Tenants
    /\ SeedMask \in [Names -> SUBSET Columns]
    /\ \A q \in Queries \cup {Browse} : q \in Seq(Names)
    /\ \A i \in DOMAIN Intents : Intents[i].refs \in Seq(Names)
    /\ NoKey \notin Keys
    /\ NoAnswer \notin [query : Writers, ok : BOOLEAN, shown : SUBSET (Names \X Columns)]
    /\ MaxCatalogs \in Nat

VARIABLES
    catalogs,      \* table fed_catalogs
    queries,       \* table fed_queries: status per query
    lineage,       \* table lineage_events: the queries in it
    stored,        \* table idempotency_keys
    req,           \* what each request is doing
    lapsed         \* history: the keys of which an entry has expired

gateVars == <<catalogs, queries, lineage, stored, req, lapsed>>
vars == <<auditVars, gateVars>>
Requests == Writers

Catalog == [tenant : Tenants, name : Names, mask : SUBSET Columns]
Answer == [query : Requests, ok : BOOLEAN, shown : SUBSET (Names \X Columns)]
Idle == [step |-> "idle", key |-> NoKey, tenant |-> DefaultTenant, refs |-> <<>>,
         view |-> <<>>, used |-> 0, answer |-> NoAnswer, before |-> {}]

(* init_federation_db: the seeded catalogs belong to the default tenant. *)
Seeded == { [tenant |-> DefaultTenant, name |-> n, mask |-> SeedMask[n]] : n \in Names }

Init ==
    /\ ApiAuditInit
    /\ catalogs = Seeded
    /\ queries = [r \in Requests |-> "none"]
    /\ lineage = {}
    /\ stored = [k \in Keys |-> NoAnswer]
    /\ req = [r \in Requests |-> Idle]
    /\ lapsed = {}

-----------------------------------------------------------------------------
At(r, step) == req[r].step = step
Goto(r, step) == req' = [req EXCEPT ![r].step = step]
(* What execute_query held is forgotten when it returns or raises. *)
Leave(r, answer, step) ==
    req' = [req EXCEPT ![r] = [@ EXCEPT !.step = step, !.answer = answer,
                                        !.view = <<>>, !.used = 0]]
Fail(r) == Leave(r, NoAnswer, "failed")
Finished == { r \in Requests : At(r, "done") }
OnlyRequests == UNCHANGED <<auditVars, catalogs, queries, lineage, lapsed>>

(* fed_query: a request arrives, with or without a key. *)
Arrive(r, key, tenant, refs) ==
    /\ At(r, "idle")
    /\ req' = [req EXCEPT ![r] = [Idle EXCEPT !.step = IF key = NoKey THEN "execute" ELSE "lookup",
                 !.key = key, !.tenant = tenant, !.refs = refs, !.before = Finished]]
    /\ OnlyRequests /\ UNCHANGED stored

(* data_access.ask: a question, which has no key.  question_to_sql takes   *)
(* the first intent that matches a topic of the question.                  *)
Ask(r, tenant, topics) ==
    LET hits == { i \in DOMAIN Intents : Intents[i].topic \in topics }
    IN  \/ hits = {} /\ Arrive(r, NoKey, tenant, Browse)
        \/ \E i \in hits : /\ \A j \in hits : i <= j
                           /\ Arrive(r, NoKey, tenant, Intents[i].refs)

LookupOkOnly(r) ==
    LET a == stored[req[r].key]
    IN  /\ At(r, "lookup")
        /\ IF a = NoAnswer \/ ~a.ok THEN Goto(r, "execute") ELSE Leave(r, a, "done")
        /\ OnlyRequests /\ UNCHANGED stored

(* lookup: a stored answer is replayed, whatever the query and the tenant. *)
Lookup(r) ==
    LET a == stored[req[r].key]
    IN  /\ At(r, "lookup")
        /\ IF a = NoAnswer THEN Goto(r, "execute") ELSE Leave(r, a, "done")
        /\ OnlyRequests /\ UNCHANGED stored

(* execute_query: only SELECTs that name a catalog; then the catalogs of   *)
(* the tenant are read, by name: of several with one name any may win.     *)
ReadCatalogs(r) ==
    LET own == { c \in catalogs : c.tenant = req[r].tenant }
    IN  /\ At(r, "execute")
        /\ IF req[r].refs = <<>> THEN Fail(r)
           ELSE \E view \in [{ c.name : c \in own } -> own] :
                  /\ \A n \in DOMAIN view : view[n].name = n
                  /\ req' = [req EXCEPT ![r].view = view, ![r].step = "evaluate"]
        /\ OnlyRequests /\ UNCHANGED stored

NextRef(r) == req[r].refs[req[r].used + 1]
AllUsed(r) == req[r].used = Len(req[r].refs)

(* One reference of the query: the catalog must be the tenant's and the    *)
(* policies, read now, must not deny it; then its table is loaded.         *)
Evaluate(r) ==
    /\ At(r, "evaluate") /\ ~AllUsed(r)
    /\ IF NextRef(r) \notin DOMAIN req[r].view THEN Fail(r)
       ELSE \/ Goto(r, "refuse")
            \/ req' = [req EXCEPT ![r].used = @ + 1]
    /\ OnlyRequests /\ UNCHANGED stored

(* A denial is recorded and answered with no rows. *)
Refuse(r) ==
    /\ At(r, "refuse")
    /\ queries' = [queries EXCEPT ![r] = "denied"]
    /\ Leave(r, [query |-> r, ok |-> FALSE, shown |-> {}], "audit_denied")
    /\ UNCHANGED <<auditVars, catalogs, lineage, stored, lapsed>>

Used(r) == ToSet(req[r].refs)
MaskedSomewhere(r) == UNION { req[r].view[n].mask : n \in Used(r) }

ShownOfOwnMasks(r, joined) ==
    { nc \in (IF joined THEN Used(r) ELSE {req[r].refs[1]}) \X Columns :
        nc[2] \notin req[r].view[req[r].refs[1]].mask }

(* The columns of the result in clear: of one source its own mask applies, *)
(* of several the masks of all; if no rows join, the first source's remain.*)
Shown(r, joined) ==
    { nc \in (IF joined THEN Used(r) ELSE {req[r].refs[1]}) \X Columns :
        nc[2] \notin MaskedSomewhere(r) }

(* All sources loaded: filter, mask, limit, and record the query. *)
RecordQuery(r) ==
    /\ At(r, "evaluate") /\ AllUsed(r)
    /\ queries' = [queries EXCEPT ![r] = "ok"]
    /\ \E joined \in BOOLEAN :
          req' = [req EXCEPT ![r].step = "lineage",
                    ![r].answer = [query |-> r, ok |-> TRUE, shown |-> Shown(r, joined)]]
    /\ UNCHANGED <<auditVars, catalogs, lineage, stored, lapsed>>

(* lineage_svc.record, under the id of the query. *)
RecordLineage(r) ==
    /\ At(r, "lineage")
    /\ lineage' = lineage \cup {r}
    /\ Leave(r, req[r].answer, "audit_lineage")
    /\ UNCHANGED <<auditVars, catalogs, queries, stored, lapsed>>

(* The events: lineage_recorded, then fed_query_ok or fed_query_denied;    *)
(* fed_catalog_registered; and a verification of the log.                  *)
After == [audit_lineage |-> "audit_ok", audit_ok |-> "answer", audit_denied |-> "answer",
          audit_catalog |-> "done", verify |-> "done"]

EventOf(r) == IF At(r, "verify") THEN Verify ELSE <<req[r].step, r>>

BeginEvent(r) ==
    /\ req[r].step \in DOMAIN After
    /\ GetSecret(r, EventOf(r))
    /\ UNCHANGED gateVars

EndEvent(r) ==
    /\ AppendEvent(r) \/ VerifyChain(r)
    /\ Goto(r, After[req[r].step])
    /\ UNCHANGED <<catalogs, queries, lineage, stored, lapsed>>

(* store replaces the entry of the key; then the answer leaves. *)
Store(r) ==
    /\ At(r, "answer")
    /\ stored' = [k \in Keys |-> IF k = req[r].key THEN req[r].answer ELSE stored[k]]
    /\ Goto(r, "done")
    /\ OnlyRequests

(* register_catalog: nothing keeps two catalogs from sharing a name. *)
Register(r, c) ==
    /\ At(r, "idle")
    /\ Cardinality(catalogs) < MaxCatalogs
    /\ catalogs' = catalogs \cup {c}
    /\ Goto(r, "audit_catalog")
    /\ UNCHANGED <<auditVars, queries, lineage, stored, lapsed>>

(* /api/audit/verify. *)
AskToVerify(r) ==
    /\ At(r, "idle")
    /\ Goto(r, "verify")
    /\ OnlyRequests /\ UNCHANGED stored

(* An entry of idempotency_keys expires: the next lookup deletes it. *)
Lapse(k) ==
    /\ stored[k] # NoAnswer
    /\ stored' = [stored EXCEPT ![k] = NoAnswer]
    /\ lapsed' = lapsed \cup {k}
    /\ UNCHANGED <<auditVars, catalogs, queries, lineage, req>>

(* The server dies and starts again: its requests get no answer. *)
Restart ==
    /\ ForgetWriters
    /\ req' = [r \in Requests |-> IF req[r].step \in {"idle", "done", "failed"} THEN req[r]
                                  ELSE [Idle EXCEPT !.step = "lost"]]
    /\ UNCHANGED <<catalogs, queries, lineage, stored, lapsed>>

Step(r) ==
    \/ Lookup(r) \/ ReadCatalogs(r) \/ Evaluate(r) \/ Refuse(r) \/ RecordQuery(r)
    \/ RecordLineage(r) \/ BeginEvent(r) \/ EndEvent(r) \/ Store(r)
    \/ AuditStep(r) /\ UNCHANGED gateVars

Next ==
    \/ \E r \in Requests :
        \/ Step(r)
        \/ AskToVerify(r)
        \/ \E t \in Tenants :
            \/ \E k \in Keys \cup {NoKey}, q \in Queries : Arrive(r, k, t, q)
            \/ \E topics \in SUBSET { Intents[i].topic : i \in DOMAIN Intents } : Ask(r, t, topics)
            \/ \E n \in Names, mask \in SUBSET Columns :
                  Register(r, [tenant |-> t, name |-> n, mask |-> mask])
    \/ \E k \in Keys : Lapse(k)
    \/ Restart

Spec == Init /\ [][Next]_vars

-----------------------------------------------------------------------------
TypeOK ==
    /\ secretFile \in Writers \cup {NoSecret, Blank}
    /\ \A i \in DOMAIN lines : lines[i].prev < i
    /\ verdict \in {"none", "valid", "broken"}
    /\ catalogs \subseteq Catalog
    /\ queries \in [Requests -> {"none", "ok", "denied"}] /\ lineage \subseteq Requests
    /\ stored \in [Keys -> Answer \cup {NoAnswer}]
    /\ \A r \in Requests : req[r].answer \in Answer \cup {NoAnswer}

(* write_event and verify_chain take no lock.  As long as no two of them   *)
(* have overlapped and the file is no longer than the lines verify_chain   *)
(* reads, the log verifies, whatever crashed in between.                   *)
SerialLogVerifies == ~overlapped /\ Len(lines) <= Window => verdict # "broken"

Position(event) == { i \in DOMAIN lines : lines[i].event = event }

(* An answer that left, fresh or replayed, is one the records tell of: an  *)
(* ok one has its row in fed_queries, its lineage and, in this order, both *)
(* its events; a refusal has its row and its event, and no lineage.        *)
Traced(a) ==
    IF a.ok
    THEN /\ queries[a.query] = "ok" /\ a.query \in lineage
         /\ \E i \in Position(<<"audit_lineage", a.query>>),
               j \in Position(<<"audit_ok", a.query>>) : i < j
    ELSE /\ queries[a.query] = "denied" /\ a.query \notin lineage
         /\ Position(<<"audit_denied", a.query>>) # {}

Answered(r) == At(r, "done") /\ req[r].answer # NoAnswer

AnswersAreTraced == \A r \in Requests : Answered(r) => Traced(req[r].answer)

(* No column is in clear in a result, joined or not, that the catalog it   *)
(* was read from masks.                                                    *)
MasksHold ==
    \A r \in Requests : At(r, "lineage") =>
        \A nc \in req[r].answer.shown : nc[2] \notin req[r].view[nc[1]].mask

(* Both: what is answered is on record, and nothing masked is in it.       *)
AnswersAreAccountedFor == AnswersAreTraced /\ MasksHold

SameCall(p, r) ==
    req[p].key = req[r].key /\ req[p].tenant = req[r].tenant /\ req[p].refs = req[r].refs

(* The requests that ran the query under a key and answered with what they *)
(* computed; and whether all who used the key asked the same.              *)
RunsOf(k) == { p \in Requests : Answered(p) /\ req[p].key = k /\ req[p].answer.query = p }
UsedForOneCall(k) ==
    \A p, r \in Requests : req[p].key = k /\ req[r].key = k => SameCall(p, r)

(* "Clients may safely retry": a request that repeats one of its tenant,   *)
(* query and key which was answered before it arrived runs no query, until *)
(* the entry expires.  If the key was used for that call only, what it     *)
(* gets was computed by a run of the same call, and is the very answer the *)
(* repeated request got unless two requests ran the call side by side.     *)
RetryIsReplayed ==
    \A r \in Requests : \A q \in req[r].before :
        Answered(q) /\ SameCall(q, r) /\ req[r].key \in Keys \ lapsed =>
            /\ queries[r] = "none"
            /\ Answered(r) /\ UsedForOneCall(req[r].key) =>
                 /\ \E p \in RunsOf(req[r].key) : SameCall(p, r) /\ req[p].answer = req[r].answer
                 /\ \/ req[r].answer = req[q].answer
                    \/ \E p, p2 \in RunsOf(req[r].key) : p # p2

(* "under policy and tenant isolation" (federation.py:5): who is answered  *)
(* is answered by a run of the own tenant.  lookup knows no tenant, and a  *)
(* key that two tenants use gives one of them the rows of the other.       *)
AnswersStayWithTheirTenant ==
    \A r \in Requests : Answered(r) => req[req[r].answer.query].tenant = req[r].tenant
=============================================================================
