--------------------------- MODULE Policies_proofs ---------------------------
(***************************************************************************)
(* Proofs about Policies, for any requests, policies, cards and bounds:    *)
(* a gate that stands all through an evaluation is obeyed by it, whatever  *)
(* changes between its transactions, and the history of a policy can bring *)
(* back what is in force.                                                  *)
(***************************************************************************)
EXTENDS Policies, SequenceTheorems, FiniteSetTheorems, TLAPS

EvalSteps == {"policies", "cards", "log", "hits", "report"}
Decisions == {"deny", "require_approval", "allow"}
Evaluation == [step : EvalSteps, call : Calls, verify : BOOLEAN,
               decision : Decisions, allowed : BOOLEAN]

(* What a request holds that is about something else.                      *)
Aside(q) == "step" \in DOMAIN q /\ "call" \notin DOMAIN q /\ q.step \notin EvalSteps

(* How far an evaluation has obeyed the gates that stood so far: after its *)
(* first transaction those of policies, after its second all.              *)
Deny(gates) == \E g \in gates : g[2] = "deny"
Approve(gates) == \E g \in gates : g[2] = "require_approval"
OfPolicies(gates) == { g \in gates : g[1] \in Policy }

Obeyed(q, gates) ==
    /\ q.step = "cards" => /\ ~Deny(OfPolicies(gates))
                           /\ Approve(OfPolicies(gates)) => q.decision # "allow"
    /\ q.step \in {"log", "hits"} /\ Deny(gates) => q.decision = "deny"
    /\ q.step = "log" /\ Approve(gates) => q.decision # "allow"
    /\ q.step = "report" /\ Deny(gates) => ~q.allowed

Standing(r) ==
    \/ Aside(req[r])
    \/ /\ req[r] \in Evaluation
       /\ standing[r] \subseteq GatesOf(req[r].call)
       /\ Obeyed(req[r], standing[r])

IInv == DOMAIN req = Requests /\ \A r \in Requests : Standing(r)

LEMMA Apart ==
  ASSUME NEW q
  PROVE  /\ q \in Evaluation => "call" \in DOMAIN q /\ q.step \in EvalSteps /\ ~Aside(q)
         /\ Aside(q) => q \notin Evaluation
  BY DEF Aside, Evaluation

LEMMA AsideIdle == Aside(Idle)
  BY DEF Aside, Idle, EvalSteps

LEMMA AsideExcept ==
  ASSUME NEW q, Aside(q), NEW v
  PROVE  /\ v \notin EvalSteps => Aside([q EXCEPT !.step = v])
         /\ Aside([q EXCEPT !.snap = v])
         /\ Aside([q EXCEPT !.texts = v])
  BY DEF Aside

(* Fewer gates are obeyed too.                                             *)
LEMMA FewerObeyed ==
  ASSUME NEW q, NEW G, NEW H, H \subseteq G, Obeyed(q, G)
  PROVE  Obeyed(q, H)
  BY DEF Obeyed, Deny, Approve, OfPolicies

LEMMA ObserveFacts ==
  ASSUME Observe, NEW r \in Requests, "call" \in DOMAIN req'[r]
  PROVE  /\ "call" \notin DOMAIN req[r] => standing'[r] = GatesOf(req'[r].call)
         /\ "call" \in DOMAIN req[r] => standing'[r] = standing[r] \cap GatesOf(req[r].call)'
<1>1. r \in Evaluating'
  BY DEF Evaluating
<1>2. CASE "call" \notin DOMAIN req[r]
  <2>1. r \in Evaluating' \ Evaluating
    BY <1>1, <1>2 DEF Evaluating
  <2> QED BY <1>2, <2>1 DEF Observe
<1>3. CASE "call" \in DOMAIN req[r]
  <2>1. r \in Evaluating' /\ r \in Evaluating
    BY <1>1, <1>3 DEF Evaluating
  <2> QED BY <1>3, <2>1 DEF Observe
<1> QED BY <1>2, <1>3

-----------------------------------------------------------------------------
(* A request that does nothing in a step: gates may fall, none comes back. *)
LEMMA RestingStands ==
  ASSUME Observe, NEW r \in Requests, Standing(r), req'[r] = req[r]
  PROVE  Standing(r)'
<1>1. CASE Aside(req[r])
  BY <1>1 DEF Standing
<1>2. CASE ~Aside(req[r])
  <2>1. req[r] \in Evaluation /\ Obeyed(req[r], standing[r])
    BY <1>2 DEF Standing
  <2>2. standing'[r] = standing[r] \cap GatesOf(req[r].call)'
    BY <2>1, Apart, ObserveFacts
  <2>3. Obeyed(req[r], standing'[r])
    BY <2>1, <2>2, FewerObeyed
  <2> QED BY <2>1, <2>2, <2>3 DEF Standing
<1> QED BY <1>1, <1>2

(* A request that goes on with its evaluation, as its gates ask.           *)
LEMMA EvaluationStands ==
  ASSUME Observe, NEW r \in Requests, req[r] \in Evaluation, req'[r] \in Evaluation,
         req'[r].call = req[r].call,
         \A G : G \subseteq standing[r] => Obeyed(req'[r], G)
  PROVE  Standing(r)'
<1>1. standing'[r] = standing[r] \cap GatesOf(req[r].call)'
  BY Apart, ObserveFacts
<1>2. Obeyed(req'[r], standing'[r])
  BY <1>1
<1>3. standing'[r] \subseteq GatesOf(req[r].call)'
  BY <1>1
<1> QED BY <1>2, <1>3 DEF Standing

LEMMA OthersStand ==
  ASSUME IInv, Observe, NEW r \in Requests, NEW v, req' = [req EXCEPT ![r] = v],
         Standing(r)'
  PROVE  IInv'
<1>1. DOMAIN req' = Requests
  BY DEF IInv
<1>2. ASSUME NEW q \in Requests, q # r PROVE Standing(q)'
  <2>1. req'[q] = req[q]
    BY <1>2 DEF IInv
  <2> QED BY <1>2, <2>1, RestingStands DEF IInv
<1> QED BY <1>1, <1>2 DEF IInv

LEMMA AsideStands ==
  ASSUME IInv, Observe, NEW r \in Requests, NEW v, req' = [req EXCEPT ![r] = v], Aside(v)
  PROVE  IInv'
<1>1. req'[r] = v
  BY DEF IInv
<1>2. Standing(r)'
  BY <1>1 DEF Standing
<1> QED BY <1>2, OthersStand

LEMMA NobodyMoves ==
  ASSUME IInv, Observe, UNCHANGED req
  PROVE  IInv'
  BY RestingStands DEF IInv

LEMMA AtEvaluation ==
  ASSUME IInv, NEW r \in Requests, NEW s \in EvalSteps, At(r, s)
  PROVE  /\ req[r] \in Evaluation
         /\ standing[r] \subseteq GatesOf(req[r].call)
         /\ Obeyed(req[r], standing[r])
  BY DEF IInv, Standing, Aside, At

LEMMA AtAside ==
  ASSUME IInv, NEW r \in Requests, NEW s, s \notin EvalSteps, At(r, s)
  PROVE  Aside(req[r])
  BY DEF IInv, Standing, Evaluation, At

-----------------------------------------------------------------------------
LEMMA AskStands ==
  ASSUME IInv, Observe, NEW r \in Requests, NEW call \in Calls, NEW verify \in BOOLEAN,
         Ask(r, call, verify)
  PROVE  IInv'
<1> DEFINE q == [step |-> "policies", call |-> call, verify |-> verify,
                 decision |-> "allow", allowed |-> FALSE]
<1>1. req' = [req EXCEPT ![r] = q] /\ UNCHANGED tables
  BY DEF Ask, KeepTables
<1>2. req'[r] = q
  BY <1>1 DEF IInv
<1>3. q \in Evaluation /\ q.call = call
  BY DEF Evaluation, EvalSteps, Decisions
<1>4. "call" \notin DOMAIN req[r]
  BY AtAside DEF Ask, Aside, EvalSteps
<1>5. Obeyed(q, standing'[r])
  BY DEF Obeyed
<1> HIDE DEF q
<1>6. standing'[r] = GatesOf(call)
  BY <1>2, <1>3, <1>4, Apart, ObserveFacts
<1>7. GatesOf(call)' = GatesOf(call)
  BY <1>1 DEF tables, GatesOf, Matched, Enabled, EnforcedCards, Forbids, Oversees
<1>8. Standing(r)'
  BY <1>2, <1>3, <1>5, <1>6, <1>7 DEF Standing
<1> QED BY <1>1, <1>8, OthersStand

LEMMA ReadPoliciesStands ==
  ASSUME IInv, Observe, NEW r \in Requests, ReadPolicies(r)
  PROVE  IInv'
<1> DEFINE d == Disposition(req[r].call)
           q == [req[r] EXCEPT !.decision = d, !.step = IF d = "deny" THEN "log" ELSE "cards"]
<1>1. req[r] \in Evaluation /\ standing[r] \subseteq GatesOf(req[r].call)
  BY AtEvaluation DEF ReadPolicies, EvalSteps
<1>2. req' = [req EXCEPT ![r] = q]
  BY DEF ReadPolicies
<1>3. req'[r] = q
  BY <1>2 DEF IInv
<1>4. d \in Decisions
  BY DEF Disposition, Decisions
<1>5. /\ q \in Evaluation /\ q.call = req[r].call /\ q.decision = d
      /\ q.step = IF d = "deny" THEN "log" ELSE "cards"
  BY <1>1, <1>4 DEF Evaluation, EvalSteps
<1>6. ASSUME NEW g \in OfPolicies(standing[r])
      PROVE  /\ g[2] = "deny" => d = "deny"
             /\ g[2] = "require_approval" => d # "allow"
  <2>1. g \in standing[r] /\ g[1] \in Policy
    BY <1>6 DEF OfPolicies
  <2>2. \E p \in Matched(req[r].call) : g = <<p, policies[p].rule.action>>
    BY <1>1, <2>1, PoliciesAssumption DEF GatesOf, EnforcedCards, Policy
  <2>3. g[2] \in { policies[p].rule.action : p \in Matched(req[r].call) }
    BY <2>2
  <2> QED BY <2>3 DEF Disposition
<1>7. ASSUME NEW G, G \subseteq standing[r] PROVE Obeyed(q, G)
  <2>1. OfPolicies(G) \subseteq OfPolicies(standing[r])
    BY <1>7 DEF OfPolicies
  <2>2. CASE d = "deny"
    BY <1>5, <2>2 DEF Obeyed
  <2>3. CASE d # "deny"
    BY <1>5, <1>6, <2>1, <2>3 DEF Obeyed, Deny, Approve
  <2> QED BY <2>2, <2>3
<1> HIDE DEF q
<1>8. Standing(r)'
  BY <1>1, <1>3, <1>5, <1>7, EvaluationStands
<1> QED BY <1>2, <1>8, OthersStand

LEMMA ReadCardsStands ==
  ASSUME IInv, Observe, NEW r \in Requests, ReadCards(r)
  PROVE  IInv'
<1> DEFINE tool == req[r].call.tool
           d == AfterCards(req[r].decision, tool)
           q == [req[r] EXCEPT !.decision = d, !.step = "log"]
<1>1. /\ req[r] \in Evaluation /\ standing[r] \subseteq GatesOf(req[r].call)
      /\ Obeyed(req[r], standing[r]) /\ req[r].step = "cards"
  BY AtEvaluation DEF ReadCards, EvalSteps, At
<1>2. req' = [req EXCEPT ![r] = q]
  BY DEF ReadCards
<1>3. req'[r] = q
  BY <1>2 DEF IInv
<1>4. d \in Decisions
  BY <1>1 DEF AfterCards, Decisions, Evaluation
<1>5. q \in Evaluation /\ q.call = req[r].call /\ q.decision = d /\ q.step = "log"
  BY <1>1, <1>4 DEF Evaluation, EvalSteps
<1>6. ASSUME NEW g \in standing[r]
      PROVE  /\ g[2] = "deny" => d = "deny"
             /\ g[2] = "require_approval" => d # "allow"
  <2>1. CASE g[1] \in Policy
    <3>1. g \in OfPolicies(standing[r])
      BY <1>6, <2>1 DEF OfPolicies
    <3>2. g[2] # "deny" /\ (g[2] = "require_approval" => req[r].decision # "allow")
      BY <1>1, <3>1 DEF Obeyed, Deny, Approve
    <3> QED BY <1>1, <3>2 DEF AfterCards, Evaluation, Decisions
  <2>2. CASE g[1] \notin Policy
    <3>1. \/ \E c \in EnforcedCards : Forbids(c, tool) /\ g = <<c, "deny">>
          \/ \E c \in EnforcedCards : Oversees(c, tool) /\ g = <<c, "require_approval">>
      BY <1>1, <1>6, <2>2 DEF GatesOf, Matched, Enabled
    <3>2. CASE \E c \in EnforcedCards : Forbids(c, tool)
      BY <3>1, <3>2 DEF AfterCards
    <3>3. CASE ~ \E c \in EnforcedCards : Forbids(c, tool)
      <4>1. g[2] = "require_approval" /\ \E c \in EnforcedCards : Oversees(c, tool)
        BY <3>1, <3>3
      <4> QED BY <1>1, <3>3, <4>1 DEF AfterCards, Evaluation, Decisions
    <3> QED BY <3>2, <3>3
  <2> QED BY <2>1, <2>2
<1> HIDE DEF d
<1>7. ASSUME NEW G, G \subseteq standing[r] PROVE Obeyed(q, G)
  BY <1>5, <1>6, <1>7 DEF Obeyed, Deny, Approve
<1> HIDE DEF q
<1>8. Standing(r)'
  BY <1>1, <1>3, <1>5, <1>7, EvaluationStands
<1> QED BY <1>2, <1>8, OthersStand

LEMMA LogStands ==
  ASSUME IInv, Observe, NEW r \in Requests, Log(r)
  PROVE  IInv'
<1>1. req[r] \in Evaluation /\ Obeyed(req[r], standing[r]) /\ req[r].step = "log"
  BY AtEvaluation DEF Log, EvalSteps, At
<1>2. CASE req[r].verify
  <2> DEFINE q == [req[r] EXCEPT !.step = "hits"]
  <2>1. req' = [req EXCEPT ![r] = q]
    BY <1>2 DEF Log
  <2>2. req'[r] = q
    BY <2>1 DEF IInv
  <2>3. /\ q \in Evaluation /\ q.call = req[r].call /\ q.step = "hits"
        /\ q.decision = req[r].decision
    BY <1>1 DEF Evaluation, EvalSteps
  <2>4. ASSUME NEW G, G \subseteq standing[r] PROVE Obeyed(q, G)
    BY <1>1, <2>3, <2>4 DEF Obeyed, Deny
  <2> HIDE DEF q
  <2>5. Standing(r)'
    BY <1>1, <2>2, <2>3, <2>4, EvaluationStands
  <2> QED BY <2>1, <2>5, OthersStand
<1>3. CASE ~req[r].verify
  BY <1>3, AsideIdle, AsideStands DEF Log
<1> QED BY <1>2, <1>3

LEMMA CardHitsStands ==
  ASSUME IInv, Observe, NEW r \in Requests, CardHits(r)
  PROVE  IInv'
<1> DEFINE a == /\ req[r].decision # "deny"
                /\ ~ \E c \in EnforcedCards : CardBlocks(c, req[r].call.tool)
           q == [req[r] EXCEPT !.step = "report", !.allowed = a]
<1>1. req[r] \in Evaluation /\ Obeyed(req[r], standing[r]) /\ req[r].step = "hits"
  BY AtEvaluation DEF CardHits, EvalSteps, At
<1>2. req' = [req EXCEPT ![r] = q]
  BY DEF CardHits
<1>3. req'[r] = q
  BY <1>2 DEF IInv
<1>4. a \in BOOLEAN /\ (req[r].decision = "deny" => ~a)
  OBVIOUS
<1> HIDE DEF a
<1>5. q \in Evaluation /\ q.call = req[r].call /\ q.step = "report" /\ q.allowed = a
  BY <1>1, <1>4 DEF Evaluation, EvalSteps
<1>6. ASSUME NEW G, G \subseteq standing[r] PROVE Obeyed(q, G)
  BY <1>1, <1>4, <1>5, <1>6 DEF Obeyed, Deny
<1> HIDE DEF q
<1>7. Standing(r)'
  BY <1>1, <1>3, <1>5, <1>6, EvaluationStands
<1> QED BY <1>2, <1>7, OthersStand

(* The steps of changes, which are about something else.                   *)
LEMMA ChangeStands ==
  ASSUME IInv, Observe, NEW r \in Requests,
         \/ Report(r) \/ Create(r) \/ Write(r) \/ Reread(r) \/ Disable(r) \/ Number(r)
         \/ Insert(r) \/ ParseCard(r) \/ ExportHistory(r)
  PROVE  IInv'
<1> USE DEF EvalSteps
<1>1. CASE Report(r)
  BY <1>1, AsideIdle, AsideStands DEF Report
<1>2. CASE Create(r)
  <2>1. PICK p \in Fresh :
          req' = [req EXCEPT ![r] = [step |-> "number", policy |-> p,
                     snap |-> Compile(Head(req[r].todo)), todo |-> Tail(req[r].todo)]]
    BY <1>2 DEF Create
  <2> DEFINE v == [step |-> "number", policy |-> p,
                   snap |-> Compile(Head(req[r].todo)), todo |-> Tail(req[r].todo)]
  <2>2. Aside(v) /\ req' = [req EXCEPT ![r] = v]
    BY <2>1 DEF Aside
  <2> HIDE DEF v
  <2> QED BY <2>2, AsideStands
<1>3. CASE Write(r)
  <2>1. req' = [req EXCEPT ![r] = [req[r] EXCEPT !.step = "reread"]]
    BY <1>3 DEF Write, Goto
  <2>2. Aside([req[r] EXCEPT !.step = "reread"])
    BY <1>3, AtAside, AsideExcept DEF Write
  <2> QED BY <2>1, <2>2, AsideStands
<1>4. CASE Reread(r)
  <2>1. req' = [req EXCEPT ![r] = [[req[r] EXCEPT !.step = "number"]
                                     EXCEPT !.snap = policies[req[r].policy]]]
    BY <1>4 DEF Reread, IInv
  <2>2. Aside([req[r] EXCEPT !.step = "number"])
    BY <1>4, AtAside, AsideExcept DEF Reread
  <2>3. Aside([[req[r] EXCEPT !.step = "number"] EXCEPT !.snap = policies[req[r].policy]])
    BY <2>2, AsideExcept
  <2> QED BY <2>1, <2>3, AsideStands
<1>5. CASE Disable(r)
  <2>1. req' = [req EXCEPT ![r] = [req[r] EXCEPT !.step = "number"]]
    BY <1>5 DEF Disable, Goto
  <2>2. Aside([req[r] EXCEPT !.step = "number"])
    BY <1>5, AtAside, AsideExcept DEF Disable
  <2> QED BY <2>1, <2>2, AsideStands
<1>6. CASE Number(r)
  <2>1. PICK v :
          req' = [req EXCEPT ![r] = [step |-> "insert", policy |-> req[r].policy,
                     snap |-> req[r].snap, todo |-> req[r].todo, version |-> v]]
    BY <1>6 DEF Number
  <2> DEFINE q == [step |-> "insert", policy |-> req[r].policy,
                   snap |-> req[r].snap, todo |-> req[r].todo, version |-> v]
  <2>2. Aside(q) /\ req' = [req EXCEPT ![r] = q]
    BY <2>1 DEF Aside
  <2> HIDE DEF q
  <2> QED BY <2>2, AsideStands
<1>7. CASE Insert(r)
  <2> DEFINE v == IF req[r].todo = <<>> THEN Idle ELSE [step |-> "create", todo |-> req[r].todo]
  <2>1. Aside(v)
    BY AsideIdle DEF Aside
  <2>2. req' = [req EXCEPT ![r] = v]
    BY <1>7 DEF Insert
  <2> HIDE DEF v
  <2> QED BY <2>1, <2>2, AsideStands
<1>8. CASE ParseCard(r)
  <2> DEFINE v == IF Len(req[r].texts) = 1 THEN Idle
                  ELSE [req[r] EXCEPT !.texts = Tail(req[r].texts)]
  <2>1. Aside(req[r])
    BY <1>8, AtAside DEF ParseCard
  <2>2. Aside(v)
    BY <2>1, AsideIdle, AsideExcept
  <2>3. req' = [req EXCEPT ![r] = v]
    BY <1>8 DEF ParseCard
  <2> HIDE DEF v
  <2> QED BY <2>2, <2>3, AsideStands
<1>9. CASE ExportHistory(r)
  BY <1>9, AsideIdle, AsideStands DEF ExportHistory
<1> QED BY <1>1, <1>2, <1>3, <1>4, <1>5, <1>6, <1>7, <1>8, <1>9

LEMMA StartStands ==
  ASSUME IInv, Observe, NEW r \in Requests, Start(r)
  PROVE  IInv'
<1> USE DEF EvalSteps
<1>1. ASSUME NEW call \in Calls, NEW verify \in BOOLEAN, Ask(r, call, verify) PROVE IInv'
  BY <1>1, AskStands
<1>2. ASSUME NEW list \in Mandates, Author(r, list) PROVE IInv'
  <2> DEFINE v == [step |-> "create", todo |-> list]
  <2>1. Aside(v) /\ req' = [req EXCEPT ![r] = v]
    BY <1>2 DEF Author, Aside
  <2> HIDE DEF v
  <2> QED BY <2>1, AsideStands
<1>3. ASSUME NEW p \in Policy, NEW patch \in Patches, Update(r, p, patch) PROVE IInv'
  <2> DEFINE v == [step |-> "write", policy |-> p, todo |-> <<>>,
                   snap |-> [rule |-> patch.rule, priority |-> patch.priority]]
  <2>1. Aside(v) /\ req' = [req EXCEPT ![r] = v]
    BY <1>3 DEF Update, Aside
  <2> HIDE DEF v
  <2> QED BY <2>1, AsideStands
<1>4. ASSUME NEW p \in Policy, Delete(r, p) PROVE IInv'
  <2> DEFINE v == [step |-> "disable", policy |-> p, todo |-> <<>>,
                   snap |-> [policies[p] EXCEPT !.enabled = FALSE]]
  <2>1. Aside(v) /\ req' = [req EXCEPT ![r] = v]
    BY <1>4 DEF Delete, Aside
  <2> HIDE DEF v
  <2> QED BY <2>1, AsideStands
<1>5. ASSUME NEW p \in Policy, NEW v \in 1..MaxChanges, Rollback(r, p, v) PROVE IInv'
  <2>1. PICK i \in DOMAIN history[p] :
          req' = [req EXCEPT ![r] = [step |-> "write", policy |-> p, todo |-> <<>>,
                                       snap |-> history[p][i].snap]]
    BY <1>5 DEF Rollback
  <2> DEFINE v1 == [step |-> "write", policy |-> p, todo |-> <<>>, snap |-> history[p][i].snap]
  <2>2. Aside(v1) /\ req' = [req EXCEPT ![r] = v1]
    BY <2>1 DEF Aside
  <2> HIDE DEF v1
  <2> QED BY <2>2, AsideStands
<1>6. ASSUME NEW d \in Docs, NEW texts \in Uploads, Upload(r, d, texts) PROVE IInv'
  <2> DEFINE v == [step |-> "parse", doc |-> d, texts |-> texts]
  <2>1. Aside(v) /\ req' = [req EXCEPT ![r] = v]
    BY <1>6 DEF Upload, Aside
  <2> HIDE DEF v
  <2> QED BY <2>1, AsideStands
<1>7. ASSUME ExportPolicies(r) PROVE IInv'
  <2> DEFINE v == [step |-> "export", policies |-> policies, torn |-> torn \cup Changing]
  <2>1. Aside(v) /\ req' = [req EXCEPT ![r] = v]
    BY <1>7 DEF ExportPolicies, Aside
  <2> HIDE DEF v
  <2> QED BY <2>1, AsideStands
<1> QED BY <1>1, <1>2, <1>3, <1>4, <1>5, <1>6, <1>7 DEF Start

LEMMA NextStands == IInv /\ [Next]_vars => IInv'
<1> SUFFICES ASSUME IInv, [Next]_vars PROVE IInv'
  OBVIOUS
<1>1. CASE UNCHANGED vars
  <2>1. UNCHANGED <<req, standing, policies, docs, cards>>
    BY <1>1 DEF vars, tables
  <2>2. ASSUME NEW r \in Requests PROVE GatesOf(req[r].call)' = GatesOf(req[r].call)
    BY <2>1 DEF GatesOf, Matched, Enabled, EnforcedCards, Forbids, Oversees
  <2> QED BY <2>1, <2>2 DEF IInv, Standing
<1>2. CASE Next
  <2>0. Observe
    BY <1>2 DEF Next
  <2>1. ASSUME NEW r \in Requests, Step(r) PROVE IInv'
    BY <2>0, <2>1, ReadPoliciesStands, ReadCardsStands, LogStands, CardHitsStands,
       ChangeStands DEF Step
  <2>2. ASSUME NEW r \in Requests, Start(r) PROVE IInv'
    BY <2>0, <2>2, StartStands
  <2>3. ASSUME NEW enforce \in BOOLEAN,
               \/ \E d \in Docs, text \in CardTexts : CreateCard(d, text, enforce)
               \/ \E c \in CardIds : PatchCard(c, enforce)
        PROVE  IInv'
    BY <2>0, <2>3, NobodyMoves DEF CreateCard, PatchCard
  <2>4. ASSUME NEW b \in backups, Restore(b) PROVE IInv'
    BY <2>0, <2>4, NobodyMoves DEF Restore
  <2>5. CASE Restart
    BY <2>5, AsideIdle DEF Restart, IInv, Standing
  <2> QED BY <1>2, <2>1, <2>2, <2>3, <2>4, <2>5 DEF Next
<1> QED BY <1>1, <1>2

(* A call that a policy or a card denied all through its evaluation is     *)
(* denied, one for which an approval was required all through is not       *)
(* allowed, and verify_access reports no access that was denied all        *)
(* through, for any number of concurrent changes of policies and cards.    *)
THEOREM StandingGatesHold == Spec => []GatesHold
<1>1. Init => IInv
  BY AsideIdle DEF Init, IInv, Standing
<1>2. IInv => GatesHold
  BY DEF IInv, Standing, GatesHold, At, Says, Obeyed, Deny, Approve, Aside, EvalSteps
<1> QED BY <1>1, <1>2, NextStands, PTL DEF Spec

-----------------------------------------------------------------------------
(* Types: what a request holds at each step of a change.                   *)
MaybeRow == Row \cup {NoRow}
Fields == Row \cup [rule : Rules, priority : 0..200]
Change(steps, snaps) ==
    [step : steps, policy : Policy, snap : snaps, todo : Seq(Statements)]
Creating == [step : {"create"}, todo : NonEmpty(Statements)]
Inserting == [step : {"insert"}, policy : Policy, snap : MaybeRow, todo : Seq(Statements),
              version : Nat]
Parsing == [step : {"parse"}, doc : Docs, texts : NonEmpty(CardTexts)]
Exporting == [step : {"export"}, policies : [Policy -> MaybeRow], torn : SUBSET Policy]

Typed(q) ==
    \/ q = Idle \/ q \in Evaluation \/ q \in Creating \/ q \in Inserting \/ q \in Parsing
    \/ q \in Change({"write", "reread"}, Fields)
    \/ q \in Change({"disable"}, Row) \/ q \in Change({"number"}, MaybeRow)
    \/ q \in Exporting

Snapshots == Seq([version : Nat, snap : MaybeRow])
Backup == [policies : [Policy -> MaybeRow], history : [Policy -> Snapshots],
           torn : SUBSET Policy, changed : SUBSET Policy]
IBackup == backups \subseteq Backup /\ torn \subseteq Policy
IReq == DOMAIN req = Requests /\ \A r \in Requests : Typed(req[r])
IType == TypeOK /\ IReq /\ IBackup

LEMMA ReqTyped ==
  ASSUME IReq, NEW r \in Requests, NEW v, Typed(v), req' = [req EXCEPT ![r] = v]
  PROVE  IReq'
<1>1. DOMAIN req' = Requests /\ \A q \in Requests : req'[q] = IF q = r THEN v ELSE req[q]
  BY DEF IReq
<1>2. ASSUME NEW q \in Requests PROVE Typed(req'[q])
  BY <1>1 DEF IReq
<1>3. \A q \in Requests : Typed(req[q])'
  BY <1>2 DEF Typed, Idle, Evaluation, Creating, Inserting, Parsing, Exporting, Change, Fields, Row, MaybeRow
<1> QED BY <1>1, <1>3 DEF IReq

LEMMA CompiledIsRow ==
  ASSUME NEW m \in Statements
  PROVE  Compile(m) \in Row
<1>1. Compile(m).rule \in Rules
  BY DEF Rules
<1>2. Compile(m).enabled = TRUE /\ Compile(m).priority \in 0..200
  BY DEF Compile
<1>3. Compile(m) = [rule |-> Compile(m).rule, priority |-> Compile(m).priority,
                    enabled |-> Compile(m).enabled]
  BY DEF Compile
<1> QED BY <1>1, <1>2, <1>3 DEF Row

LEMMA NonEmptyFacts ==
  ASSUME NEW S, NEW s \in NonEmpty(S)
  PROVE  /\ s \in Seq(S) /\ Head(s) \in S /\ Tail(s) \in Seq(S)
         /\ Len(s) # 1 => Tail(s) \in NonEmpty(S)
<1>1. s \in Seq(S) /\ s # <<>>
  BY DEF NonEmpty
<1>2. Head(s) \in S /\ Tail(s) \in Seq(S) /\ Len(Tail(s)) = Len(s) - 1 /\ Len(s) \in Nat
  BY <1>1, HeadTailProperties, LenProperties
<1>3. Len(s) # 0
  BY <1>1, EmptySeq
<1>4. Len(s) # 1 => Tail(s) # <<>>
  <2>1. Len(<<>>) = 0
    OBVIOUS
  <2>2. ASSUME Tail(s) = <<>> PROVE Len(Tail(s)) = 0
    BY <2>1, <2>2, Zenon
  <2>3. Len(s) # 1 => Len(Tail(s)) # 0
    BY <1>2, <1>3
  <2> QED BY <2>2, <2>3, Zenon
<1> QED BY <1>1, <1>2, <1>4 DEF NonEmpty

LEMMA SetRowTyped ==
  ASSUME TypeOK, NEW p \in Policy, NEW fields,
         fields \in Fields \/ fields = [enabled |-> FALSE],
         SetRow(p, fields)
  PROVE  policies' \in [Policy -> MaybeRow]
<1> DEFINE new(row) == [f \in DOMAIN row |-> IF f \in DOMAIN fields THEN fields[f] ELSE row[f]]
<1>1. ASSUME NEW row \in Row PROVE new(row) \in Row
  <2>1. CASE fields \in Row
    BY <1>1, <2>1 DEF Row
  <2>2. CASE fields \in [rule : Rules, priority : 0..200]
    BY <1>1, <2>2 DEF Row
  <2>3. CASE fields = [enabled |-> FALSE]
    BY <1>1, <2>3 DEF Row
  <2> QED BY <2>1, <2>2, <2>3 DEF Fields
<1>2. policies \in [Policy -> MaybeRow]
  BY DEF TypeOK, MaybeRow
<1>3. policies' = [policies EXCEPT ![p] = IF policies[p] = NoRow THEN NoRow ELSE new(policies[p])]
  BY DEF SetRow
<1> HIDE DEF new
<1>4. (IF policies[p] = NoRow THEN NoRow ELSE new(policies[p])) \in MaybeRow
  BY <1>1, <1>2 DEF MaybeRow
<1> QED BY <1>2, <1>3, <1>4

LEMMA InitType == Init => IType
<1> SUFFICES ASSUME Init PROVE IType
  OBVIOUS
<1>1. ASSUME NEW p \in Policy
      PROVE  (IF p \in Seeds THEN SeedRow[p] ELSE NoRow) \in Row \cup {NoRow}
  BY PoliciesAssumption DEF Row, Rules
<1>2. policies \in [Policy -> Row \cup {NoRow}]
  BY <1>1 DEF Init
<1>3. history \in [Policy -> Seq([version : Nat, snap : Row \cup {NoRow}])]
  BY EmptySeq DEF Init
<1>4. IReq
  BY DEF Init, IReq, Typed
<1>5. cards \in [CardIds -> Card \cup {NoCard}] /\ docs \subseteq Docs /\ changes \in 0..MaxChanges
  BY PoliciesAssumption DEF Init
<1> QED BY <1>2, <1>3, <1>4, <1>5 DEF Init, IType, TypeOK, IBackup

(* What is at each step.                                                   *)
LEMMA AtTyped ==
  ASSUME IReq, NEW r \in Requests
  PROVE  /\ At(r, "create") => req[r] \in Creating
         /\ At(r, "insert") => req[r] \in Inserting
         /\ At(r, "parse") => req[r] \in Parsing
         /\ At(r, "export") => req[r] \in Exporting
         /\ At(r, "write") \/ At(r, "reread") => req[r] \in Change({"write", "reread"}, Fields)
         /\ At(r, "disable") => req[r] \in Change({"disable"}, Row)
         /\ At(r, "number") => req[r] \in Change({"number"}, MaybeRow)
         /\ (\E s \in EvalSteps : At(r, s)) => req[r] \in Evaluation
<1>1. Typed(req[r])
  BY DEF IReq
<1> QED BY <1>1 DEF Typed, At, Idle, Evaluation, Creating, Inserting, Parsing, Exporting, Change, EvalSteps

LEMMA EvaluationTyped ==
  ASSUME IType, NEW r \in Requests,
         ReadPolicies(r) \/ ReadCards(r) \/ Log(r) \/ CardHits(r) \/ Report(r)
  PROVE  IReq'
<1>1. IReq /\ Typed(Idle)
  BY DEF IType, Typed
<1>2. req[r] \in Evaluation
  BY <1>1, AtTyped DEF ReadPolicies, ReadCards, Log, CardHits, Report, EvalSteps
<1>3. CASE ReadPolicies(r)
  <2> DEFINE d == Disposition(req[r].call)
             v == [req[r] EXCEPT !.decision = d, !.step = IF d = "deny" THEN "log" ELSE "cards"]
  <2>1. d \in Decisions
    BY DEF Disposition, Decisions
  <2>2. v \in Evaluation
    BY <1>2, <2>1 DEF Evaluation, EvalSteps
  <2>3. req' = [req EXCEPT ![r] = v]
    BY <1>3 DEF ReadPolicies
  <2> HIDE DEF v
  <2> QED BY <1>1, <2>2, <2>3, ReqTyped DEF Typed
<1>4. CASE ReadCards(r)
  <2> DEFINE d == AfterCards(req[r].decision, req[r].call.tool)
             v == [req[r] EXCEPT !.decision = d, !.step = "log"]
  <2>1. d \in Decisions
    BY <1>2 DEF AfterCards, Decisions, Evaluation
  <2> HIDE DEF d
  <2>2. v \in Evaluation
    BY <1>2, <2>1 DEF Evaluation, EvalSteps
  <2>3. req' = [req EXCEPT ![r] = v]
    BY <1>4 DEF ReadCards, d
  <2> HIDE DEF v
  <2> QED BY <1>1, <2>2, <2>3, ReqTyped DEF Typed
<1>5. CASE Log(r)
  <2> DEFINE v == IF req[r].verify THEN [req[r] EXCEPT !.step = "hits"] ELSE Idle
  <2>1. v \in Evaluation \/ v = Idle
    BY <1>2 DEF Evaluation, EvalSteps
  <2>2. req' = [req EXCEPT ![r] = v]
    BY <1>5 DEF Log
  <2> HIDE DEF v
  <2> QED BY <1>1, <2>1, <2>2, ReqTyped DEF Typed
<1>6. CASE CardHits(r)
  <2> DEFINE a == /\ req[r].decision # "deny"
                  /\ ~ \E c \in EnforcedCards : CardBlocks(c, req[r].call.tool)
             v == [req[r] EXCEPT !.step = "report", !.allowed = a]
  <2>1. a \in BOOLEAN
    OBVIOUS
  <2> HIDE DEF a
  <2>2. v \in Evaluation
    BY <1>2, <2>1 DEF Evaluation, EvalSteps
  <2>3. req' = [req EXCEPT ![r] = v]
    BY <1>6 DEF CardHits, a
  <2> HIDE DEF v
  <2> QED BY <1>1, <2>2, <2>3, ReqTyped DEF Typed
<1>7. CASE Report(r)
  BY <1>1, <1>7, ReqTyped DEF Report
<1> QED BY <1>3, <1>4, <1>5, <1>6, <1>7

LEMMA StepType ==
  ASSUME IType, NEW r \in Requests, Step(r)
  PROVE  IType'
<1>0. TypeOK /\ IReq /\ IBackup
  BY DEF IType
<1>1. CASE ReadPolicies(r) \/ ReadCards(r) \/ Log(r) \/ CardHits(r) \/ Report(r)
  BY <1>1, EvaluationTyped DEF IType, TypeOK, IBackup, KeepTables, tables,
     ReadPolicies, ReadCards, Log, CardHits, Report
<1>2. CASE Create(r)
  <2>1. req[r] \in Creating
    BY <1>0, <1>2, AtTyped DEF Create
  <2>2. Head(req[r].todo) \in Statements /\ Tail(req[r].todo) \in Seq(Statements)
    BY <2>1, NonEmptyFacts DEF Creating
  <2> DEFINE row == Compile(Head(req[r].todo))
  <2>3. row \in Row
    BY <2>2, CompiledIsRow
  <2>4. PICK p \in Fresh :
          /\ policies' = [policies EXCEPT ![p] = row]
          /\ req' = [req EXCEPT ![r] = [step |-> "number", policy |-> p, snap |-> row,
                                        todo |-> Tail(req[r].todo)]]
    BY <1>2 DEF Create
  <2> HIDE DEF row
  <2> DEFINE v == [step |-> "number", policy |-> p, snap |-> row, todo |-> Tail(req[r].todo)]
  <2>5. v \in Change({"number"}, MaybeRow) /\ p \in Policy
    BY <2>2, <2>3 DEF Change, MaybeRow, Policy
  <2>6. req' = [req EXCEPT ![r] = v]
    BY <2>4
  <2> HIDE DEF v
  <2>7. IReq'
    BY <1>0, <2>5, <2>6, ReqTyped DEF Typed
  <2>8. policies' \in [Policy -> Row \cup {NoRow}]
    BY <1>0, <2>3, <2>4, <2>5 DEF TypeOK
  <2> QED BY <1>0, <1>2, <2>7, <2>8 DEF Create, IType, TypeOK, IBackup
<1>3. CASE Write(r)
  <2>1. req[r] \in Change({"write", "reread"}, Fields)
    BY <1>0, <1>3, AtTyped DEF Write
  <2>2. policies' \in [Policy -> Row \cup {NoRow}]
    BY <1>0, <1>3, <2>1, SetRowTyped DEF Write, Change, MaybeRow
  <2> DEFINE v == [req[r] EXCEPT !.step = "reread"]
  <2>3. v \in Change({"write", "reread"}, Fields) /\ req' = [req EXCEPT ![r] = v]
    BY <1>3, <2>1 DEF Write, Goto, Change
  <2> HIDE DEF v
  <2>4. IReq'
    BY <1>0, <2>3, ReqTyped DEF Typed
  <2> QED BY <1>0, <1>3, <2>2, <2>4 DEF Write, IType, TypeOK, IBackup
<1>4. CASE Reread(r)
  <2>1. req[r] \in Change({"write", "reread"}, Fields)
    BY <1>0, <1>4, AtTyped DEF Reread
  <2> DEFINE row == policies[req[r].policy]
             v == [req[r] EXCEPT !.step = "number", !.snap = row]
  <2>2. row \in MaybeRow
    BY <1>0, <2>1 DEF TypeOK, Change, MaybeRow
  <2>3. req' = [req EXCEPT ![r] = v]
    BY <1>4 DEF Reread
  <2> HIDE DEF row
  <2>4. v \in Change({"number"}, MaybeRow)
    BY <2>1, <2>2 DEF Change
  <2> HIDE DEF v
  <2>5. IReq'
    BY <1>0, <2>3, <2>4, ReqTyped DEF Typed
  <2> QED BY <1>0, <1>4, <2>5 DEF Reread, KeepTables, tables, IType, TypeOK, IBackup
<1>5. CASE Disable(r)
  <2>1. req[r] \in Change({"disable"}, Row)
    BY <1>0, <1>5, AtTyped DEF Disable
  <2>2. policies' \in [Policy -> Row \cup {NoRow}]
    BY <1>0, <1>5, <2>1, SetRowTyped DEF Disable, Change, MaybeRow
  <2> DEFINE v == [req[r] EXCEPT !.step = "number"]
  <2>3. v \in Change({"number"}, MaybeRow) /\ req' = [req EXCEPT ![r] = v]
    BY <1>5, <2>1 DEF Disable, Goto, Change, MaybeRow
  <2> HIDE DEF v
  <2>4. IReq'
    BY <1>0, <2>3, ReqTyped DEF Typed
  <2> QED BY <1>0, <1>5, <2>2, <2>4 DEF Disable, IType, TypeOK, IBackup
<1>6. CASE Number(r)
  <2> DEFINE H == history[req[r].policy]
  <2>1. req[r] \in Change({"number"}, MaybeRow)
    BY <1>0, <1>6, AtTyped DEF Number
  <2>2. H \in Seq([version : Nat, snap : Row \cup {NoRow}])
    BY <1>0, <2>1 DEF TypeOK, Change
  <2>4. Len(H) \in Nat
    BY <2>2, LenProperties
  <2>5. PICK v \in 1..(Len(H) + 1) :
          req' = [req EXCEPT ![r] = [step |-> "insert", policy |-> req[r].policy,
                     snap |-> req[r].snap, todo |-> req[r].todo, version |-> v]]
    BY <1>6 DEF Number
  <2> HIDE DEF H
  <2> DEFINE q == [step |-> "insert", policy |-> req[r].policy,
                   snap |-> req[r].snap, todo |-> req[r].todo, version |-> v]
  <2>6. q \in Inserting /\ req' = [req EXCEPT ![r] = q]
    BY <2>1, <2>4, <2>5 DEF Change, Inserting
  <2> HIDE DEF q
  <2>7. IReq'
    BY <1>0, <2>6, ReqTyped DEF Typed
  <2> QED BY <1>0, <1>6, <2>7 DEF Number, KeepTables, tables, IType, TypeOK, IBackup
<1>7. CASE Insert(r)
  <2>1. req[r] \in Inserting
    BY <1>0, <1>7, AtTyped DEF Insert
  <2> DEFINE e == [version |-> req[r].version, snap |-> req[r].snap]
             v == IF req[r].todo = <<>> THEN Idle ELSE [step |-> "create", todo |-> req[r].todo]
  <2>2. e \in [version : Nat, snap : Row \cup {NoRow}]
    BY <2>1 DEF Inserting, MaybeRow
  <2>3. v = Idle \/ v \in Creating
    BY <2>1 DEF Inserting, Creating, NonEmpty
  <2>4. req' = [req EXCEPT ![r] = v]
    BY <1>7 DEF Insert
  <2>5. history' = [history EXCEPT ![req[r].policy] = Append(history[req[r].policy], e)]
    BY <1>7 DEF Insert
  <2> HIDE DEF v, e
  <2>6. IReq'
    BY <1>0, <2>3, <2>4, ReqTyped DEF Typed
  <2>7. history' \in [Policy -> Seq([version : Nat, snap : Row \cup {NoRow}])]
    <3>1. req[r].policy \in Policy
      BY <2>1 DEF Inserting
    <3>2. Append(history[req[r].policy], e) \in Seq([version : Nat, snap : Row \cup {NoRow}])
      BY <1>0, <2>2, <3>1, AppendProperties DEF TypeOK
    <3> QED BY <1>0, <2>5, <3>2 DEF TypeOK
  <2> QED BY <1>0, <1>7, <2>6, <2>7 DEF Insert, IType, TypeOK, IBackup
<1>8. CASE ParseCard(r)
  <2>1. req[r] \in Parsing
    BY <1>0, <1>8, AtTyped DEF ParseCard
  <2>2. req[r].doc \in Docs /\ req[r].texts \in NonEmpty(CardTexts)
    BY <2>1 DEF Parsing
  <2> DEFINE v == IF Len(req[r].texts) = 1 THEN Idle
                  ELSE [req[r] EXCEPT !.texts = Tail(req[r].texts)]
  <2>3. v = Idle \/ v \in Parsing
    BY <2>1, <2>2, NonEmptyFacts DEF Parsing
  <2>4. req' = [req EXCEPT ![r] = v]
    BY <1>8 DEF ParseCard
  <2> HIDE DEF v
  <2>5. IReq'
    BY <1>0, <2>3, <2>4, ReqTyped DEF Typed
  <2>6. cards' \in [CardIds -> Card \cup {NoCard}]
    <3>1. Head(req[r].texts) \in CardTexts
      BY <2>2, NonEmptyFacts
    <3>2. PICK c \in CardIds :
            cards' = [cards EXCEPT ![c] = [doc |-> req[r].doc, text |-> Head(req[r].texts),
                                           enforce |-> TRUE]]
      BY <1>8 DEF ParseCard, AddCard
    <3> QED BY <1>0, <2>2, <3>1, <3>2 DEF TypeOK, Card
  <2> QED BY <1>0, <1>8, <2>5, <2>6 DEF ParseCard, IType, TypeOK, IBackup
<1>9. CASE ExportHistory(r)
  <2> DEFINE b == [policies |-> req[r].policies, history |-> history,
                   torn |-> req[r].torn \cup torn \cup Changing,
                   changed |-> { p \in Policy : policies[p] # req[r].policies[p] }]
  <2>1. req[r] \in Exporting
    BY <1>0, <1>9, AtTyped DEF ExportHistory
  <2>2. b \in Backup
    BY <1>0, <2>1 DEF Exporting, Backup, IBackup, TypeOK, MaybeRow, Snapshots, Changing
  <2>3. backups' \subseteq backups \cup {b}
    BY <1>9 DEF ExportHistory
  <2> HIDE DEF b
  <2>4. IReq'
    BY <1>0, <1>9, ReqTyped DEF ExportHistory, Typed
  <2> QED BY <1>0, <1>9, <2>2, <2>3, <2>4 DEF ExportHistory, tables, IType, TypeOK, IBackup
<1> QED BY <1>1, <1>2, <1>3, <1>4, <1>5, <1>6, <1>7, <1>8, <1>9 DEF Step

LEMMA StartType ==
  ASSUME IType, NEW r \in Requests, Start(r)
  PROVE  IType'
<1>0. TypeOK /\ IReq /\ IBackup
  BY DEF IType
<1>c. ASSUME CountChange PROVE changes' \in 0..MaxChanges
  BY <1>0, <1>c, PoliciesAssumption DEF CountChange, TypeOK
<1>1. ASSUME NEW call \in Calls, NEW verify \in BOOLEAN, Ask(r, call, verify) PROVE IType'
  <2> DEFINE v == [step |-> "policies", call |-> call, verify |-> verify,
                   decision |-> "allow", allowed |-> FALSE]
  <2>1. v \in Evaluation /\ req' = [req EXCEPT ![r] = v]
    BY <1>1 DEF Ask, Evaluation, EvalSteps, Decisions
  <2> HIDE DEF v
  <2>2. IReq'
    BY <1>0, <2>1, ReqTyped DEF Typed
  <2> QED BY <1>0, <1>1, <2>2 DEF Ask, KeepTables, tables, IType, TypeOK, IBackup
<1>2. ASSUME NEW list \in Mandates, Author(r, list) PROVE IType'
  <2> DEFINE v == [step |-> "create", todo |-> list]
  <2>1. v \in Creating /\ req' = [req EXCEPT ![r] = v]
    BY <1>2, PoliciesAssumption DEF Author, Creating
  <2> HIDE DEF v
  <2>2. IReq'
    BY <1>0, <2>1, ReqTyped DEF Typed
  <2> QED BY <1>0, <1>2, <1>c, <2>2 DEF Author, OnlyReq, tables, IType, TypeOK, IBackup
<1>3. ASSUME NEW p \in Policy, NEW patch \in Patches, Update(r, p, patch) PROVE IType'
  <2> DEFINE f == [rule |-> patch.rule, priority |-> patch.priority]
             v == [step |-> "write", policy |-> p, todo |-> <<>>, snap |-> f]
  <2>1. f \in Fields
    BY PoliciesAssumption DEF Fields, Rules
  <2>2. req' = [req EXCEPT ![r] = v]
    BY <1>3 DEF Update
  <2> HIDE DEF f
  <2>3. v \in Change({"write", "reread"}, Fields)
    BY <2>1, EmptySeq DEF Change
  <2> HIDE DEF v
  <2>4. IReq'
    BY <1>0, <2>2, <2>3, ReqTyped DEF Typed
  <2> QED BY <1>0, <1>3, <1>c, <2>4 DEF Update, OnlyReq, tables, IType, TypeOK, IBackup
<1>4. ASSUME NEW p \in Policy, Delete(r, p) PROVE IType'
  <2> DEFINE f == [policies[p] EXCEPT !.enabled = FALSE]
             v == [step |-> "disable", policy |-> p, todo |-> <<>>, snap |-> f]
  <2>1. f \in Row
    BY <1>0, <1>4 DEF Delete, TypeOK, Row
  <2>2. req' = [req EXCEPT ![r] = v]
    BY <1>4 DEF Delete
  <2> HIDE DEF f
  <2>3. v \in Change({"disable"}, Row)
    BY <2>1, EmptySeq DEF Change
  <2> HIDE DEF v
  <2>4. IReq'
    BY <1>0, <2>2, <2>3, ReqTyped DEF Typed
  <2> QED BY <1>0, <1>4, <1>c, <2>4 DEF Delete, OnlyReq, tables, IType, TypeOK, IBackup
<1>5. ASSUME NEW p \in Policy, NEW n \in 1..MaxChanges, Rollback(r, p, n) PROVE IType'
  <2>1. PICK i \in DOMAIN history[p] :
          /\ history[p][i].snap # NoRow
          /\ req' = [req EXCEPT ![r] = [step |-> "write", policy |-> p, todo |-> <<>>,
                                        snap |-> history[p][i].snap]]
    BY <1>5 DEF Rollback
  <2> DEFINE f == history[p][i].snap
             v == [step |-> "write", policy |-> p, todo |-> <<>>, snap |-> f]
  <2>2. f \in Fields
    <3>1. history[p][i] \in [version : Nat, snap : Row \cup {NoRow}]
      BY <1>0, ElementOfSeq, LenProperties DEF TypeOK
    <3> QED BY <2>1, <3>1 DEF Fields
  <2>3. req' = [req EXCEPT ![r] = v]
    BY <2>1
  <2> HIDE DEF f
  <2>4. v \in Change({"write", "reread"}, Fields)
    BY <2>2, EmptySeq DEF Change
  <2> HIDE DEF v
  <2>5. IReq'
    BY <1>0, <2>3, <2>4, ReqTyped DEF Typed
  <2> QED BY <1>0, <1>5, <1>c, <2>5 DEF Rollback, OnlyReq, tables, IType, TypeOK, IBackup
<1>6. ASSUME NEW d \in Docs, NEW texts \in Uploads, Upload(r, d, texts) PROVE IType'
  <2> DEFINE v == [step |-> "parse", doc |-> d, texts |-> texts]
  <2>1. v \in Parsing /\ req' = [req EXCEPT ![r] = v]
    BY <1>6, PoliciesAssumption DEF Upload, Parsing
  <2> HIDE DEF v
  <2>2. IReq'
    BY <1>0, <2>1, ReqTyped DEF Typed
  <2> QED BY <1>0, <1>6, <1>c, <2>2 DEF Upload, IType, TypeOK, IBackup
<1>7. ASSUME ExportPolicies(r) PROVE IType'
  <2> DEFINE v == [step |-> "export", policies |-> policies, torn |-> torn \cup Changing]
  <2>1. v \in Exporting
    BY <1>0 DEF Exporting, IBackup, TypeOK, MaybeRow, Changing
  <2>2. req' = [req EXCEPT ![r] = v]
    BY <1>7 DEF ExportPolicies
  <2> HIDE DEF v
  <2>3. IReq'
    BY <1>0, <2>1, <2>2, ReqTyped DEF Typed
  <2> QED BY <1>0, <1>7, <2>3 DEF ExportPolicies, KeepTables, tables, IType, TypeOK, IBackup
<1> QED BY <1>1, <1>2, <1>3, <1>4, <1>5, <1>6, <1>7 DEF Start

LEMMA NextType == IType /\ [Next]_vars => IType'
<1> SUFFICES ASSUME IType, [Next]_vars PROVE IType'
  OBVIOUS
<1>0. TypeOK /\ IReq /\ IBackup
  BY DEF IType
<1>c. ASSUME CountChange PROVE changes' \in 0..MaxChanges
  BY <1>0, <1>c, PoliciesAssumption DEF CountChange, TypeOK
<1>s. ASSUME UNCHANGED req PROVE IReq'
  BY <1>0, <1>s DEF IReq, Typed, Idle, Evaluation, Creating, Inserting, Parsing, Exporting, Change,
     Fields, Row, MaybeRow
<1>1. ASSUME NEW r \in Requests, Step(r) \/ Start(r) PROVE IType'
  BY <1>1, StepType, StartType
<1>2. ASSUME NEW d \in Docs, NEW text \in CardTexts, NEW enforce \in BOOLEAN,
             CreateCard(d, text, enforce)
      PROVE  IType'
  <2>1. cards' \in [CardIds -> Card \cup {NoCard}]
    BY <1>0, <1>2 DEF CreateCard, AddCard, TypeOK, Card
  <2> QED BY <1>0, <1>2, <1>c, <1>s, <2>1 DEF CreateCard, IType, TypeOK, IBackup
<1>3. ASSUME NEW c \in CardIds, NEW enforce \in BOOLEAN, PatchCard(c, enforce) PROVE IType'
  <2>1. cards' \in [CardIds -> Card \cup {NoCard}]
    BY <1>0, <1>3 DEF PatchCard, TypeOK, Card
  <2> QED BY <1>0, <1>3, <1>c, <1>s, <2>1 DEF PatchCard, IType, TypeOK, IBackup
<1>5. ASSUME NEW b \in backups, Restore(b) PROVE IType'
  BY <1>0, <1>5, <1>c, <1>s DEF Restore, IType, TypeOK, IBackup, Backup, MaybeRow, Snapshots, Changing
<1>6. CASE Restart
  <2>1. IReq'
    BY <1>6 DEF Restart, IReq, Typed
  <2> QED BY <1>0, <1>6, <1>c, <2>1 DEF Restart, tables, IType, TypeOK, IBackup, Changing
<1>7. CASE UNCHANGED vars
  BY <1>0, <1>7, <1>s DEF vars, tables, IType, TypeOK, IBackup
<1> QED BY <1>1, <1>2, <1>3, <1>5, <1>6, <1>7 DEF Next

(* Every row, snapshot and card is well formed, in the tables and in a     *)
(* backup, whatever requests overlap.                                      *)
THEOREM TypeCorrect == Spec => []TypeOK
<1>1. IType => TypeOK
  BY DEF IType
<1> QED BY <1>1, InitType, NextType, PTL DEF Spec
-----------------------------------------------------------------------------
(* What is in force can be brought back: by a version, or by the entry that *)
(* a request is about to record.  A request that has written the row and    *)
(* not read it again will record whatever the row is then.                  *)
SnapsIn(entries) == { entries[i].snap : i \in DOMAIN entries } \ {NoRow}
Holds(q, p) == "policy" \in DOMAIN q /\ q.policy = p
Records(q) == q.step \in {"number", "insert"} /\ q.snap # NoRow

RulePending(q, p, rule) ==
    Holds(q, p) /\ (q.step = "reread" \/ (Records(q) /\ q.snap.rule = rule))
EnabledPending(q, p) == Holds(q, p) /\ Records(q) /\ q.snap.enabled

RuleCovered(p) ==
    \/ \E s \in Snaps(p) : s.rule = policies[p].rule
    \/ \E r \in Requests : RulePending(req[r], p, policies[p].rule)
EnabledCovered(p) ==
    \/ \E s \in Snaps(p) : s.enabled
    \/ \E r \in Requests : EnabledPending(req[r], p)
Covered(p) == policies[p] # NoRow => RuleCovered(p) /\ EnabledCovered(p)

(* A backup holds, for the policies it did not catch in a change, what the *)
(* tables do once nobody changes them: restoring it restores the invariant. *)
Whole(b) ==
    \A p \in Fresh \ (b.torn \cup b.changed) : b.policies[p] # NoRow =>
        /\ \E s \in SnapsIn(b.history[p]) : s.rule = b.policies[p].rule
        /\ \E s \in SnapsIn(b.history[p]) : s.enabled
Saved == \A b \in backups : Whole(b)

ICovered == \A p \in Fresh \ torn : Covered(p)
IRestore == IType /\ Saved /\ ICovered

(* Cover is kept by a step of one request r that keeps the rule of the row *)
(* and the versions, if r's own entry is not lost.                         *)
LEMMA RuleCarried ==
  ASSUME IReq, NEW p, NEW r \in Requests, NEW v, req' = [req EXCEPT ![r] = v],
         RuleCovered(p), policies'[p].rule = policies[p].rule, Snaps(p) \subseteq Snaps(p)',
         RulePending(req[r], p, policies[p].rule) =>
            \/ RulePending(v, p, policies[p].rule)
            \/ \E s \in Snaps(p)' : s.rule = policies[p].rule
  PROVE  RuleCovered(p)'
<1>1. \A q \in Requests : req'[q] = IF q = r THEN v ELSE req[q]
  BY DEF IReq
<1>2. (\E s \in Snaps(p)' : s.rule = policies'[p].rule)
      \/ (\E q \in Requests : RulePending(req'[q], p, policies'[p].rule))
  BY <1>1 DEF RuleCovered
<1> QED BY <1>2 DEF RuleCovered, RulePending, Holds, Records

LEMMA EnabledCarried ==
  ASSUME IReq, NEW p, NEW r \in Requests, NEW v, req' = [req EXCEPT ![r] = v],
         EnabledCovered(p), Snaps(p) \subseteq Snaps(p)',
         EnabledPending(req[r], p) => EnabledPending(v, p) \/ \E s \in Snaps(p)' : s.enabled
  PROVE  EnabledCovered(p)'
<1>1. \A q \in Requests : req'[q] = IF q = r THEN v ELSE req[q]
  BY DEF IReq
<1>2. (\E s \in Snaps(p)' : s.enabled) \/ (\E q \in Requests : EnabledPending(req'[q], p))
  BY <1>1 DEF EnabledCovered
<1> QED BY <1>2 DEF EnabledCovered, EnabledPending, Holds, Records

(* A step of a request that had nothing to record and touches no policy.   *)
LEMMA NothingPending ==
  ASSUME IReq, ICovered, NEW r \in Requests, NEW v, req' = [req EXCEPT ![r] = v],
         UNCHANGED <<policies, history, torn>>,
         "policy" \in DOMAIN req[r] => req[r].step \notin {"reread", "number", "insert"}
  PROVE  ICovered'
<1>1. \A p : Snaps(p)' = Snaps(p)
  BY DEF Snaps
<1>2. \A p : ~RulePending(req[r], p, policies[p].rule) /\ ~EnabledPending(req[r], p)
  BY DEF RulePending, EnabledPending, Holds, Records
<1>3. ASSUME NEW p \in Fresh \ torn, policies[p] # NoRow
      PROVE  RuleCovered(p)' /\ EnabledCovered(p)'
  <2>1. RuleCovered(p) /\ EnabledCovered(p)
    BY <1>3 DEF ICovered, Covered
  <2>2. RuleCovered(p)'
    BY <1>1, <1>2, <2>1, RuleCarried
  <2>3. EnabledCovered(p)'
    BY <1>1, <1>2, <2>1, EnabledCarried
  <2> QED BY <2>2, <2>3
<1> QED BY <1>3 DEF ICovered, Covered

(* A row that is written keeps its other fields, and stays away.           *)
LEMMA SetRowFacts ==
  ASSUME TypeOK, NEW p \in Policy, NEW fields, SetRow(p, fields)
  PROVE  /\ \A o \in Policy : o # p => policies'[o] = policies[o]
         /\ policies[p] = NoRow => policies'[p] = NoRow
         /\ fields = [enabled |-> FALSE] /\ policies[p] # NoRow =>
                policies'[p].rule = policies[p].rule
<1>1. policies \in [Policy -> MaybeRow]
  BY DEF TypeOK, MaybeRow
<1>2. CASE policies[p] = NoRow
  BY <1>1, <1>2 DEF SetRow
<1>3. CASE policies[p] # NoRow
  <2>1. policies[p] \in Row
    BY <1>1, <1>3 DEF MaybeRow
  <2>2. policies' = [policies EXCEPT ![p] =
            [f \in DOMAIN policies[p] |-> IF f \in DOMAIN fields THEN fields[f] ELSE policies[p][f]]]
    BY <1>3 DEF SetRow
  <2> QED BY <1>1, <1>3, <2>1, <2>2 DEF Row
<1> QED BY <1>2, <1>3

LEMMA CreateCovers ==
  ASSUME IType, ICovered, NEW r \in Requests, Create(r)
  PROVE  ICovered'
<1>0. TypeOK /\ IReq
  BY DEF IType
<1>1. req[r] \in Creating
  BY <1>0, AtTyped DEF Create
<1> DEFINE row == Compile(Head(req[r].todo))
<1>2. row \in Row /\ row.enabled
  BY <1>1, NonEmptyFacts, CompiledIsRow DEF Creating, Compile
<1>3. PICK p \in Fresh :
        /\ policies' = [policies EXCEPT ![p] = row]
        /\ req' = [req EXCEPT ![r] = [step |-> "number", policy |-> p, snap |-> row,
                                      todo |-> Tail(req[r].todo)]]
  BY DEF Create
<1> HIDE DEF row
<1> DEFINE v == [step |-> "number", policy |-> p, snap |-> row, todo |-> Tail(req[r].todo)]
<1>4. req' = [req EXCEPT ![r] = v] /\ UNCHANGED <<history, torn>>
  BY <1>3 DEF Create
<1>5. \A o : Snaps(o)' = Snaps(o)
  BY <1>4 DEF Snaps
<1>6. policies \in [Policy -> MaybeRow] /\ p \in Policy
  BY <1>0 DEF TypeOK, MaybeRow, Policy
<1>7. \A o : ~RulePending(req[r], o, policies[o].rule) /\ ~EnabledPending(req[r], o)
  BY <1>1 DEF Creating, RulePending, EnabledPending, Holds
<1>8. v.step = "number" /\ v.policy = p /\ v.snap = row /\ "policy" \in DOMAIN v
  OBVIOUS
<1> HIDE DEF v
<1>9. ASSUME NEW o \in Fresh \ torn, o # p, policies'[o] # NoRow
      PROVE  RuleCovered(o)' /\ EnabledCovered(o)'
  <2>1. policies'[o] = policies[o]
    BY <1>3, <1>6, <1>9 DEF Policy
  <2>2. RuleCovered(o) /\ EnabledCovered(o)
    BY <1>9, <2>1 DEF ICovered, Covered
  <2>3. RuleCovered(o)'
    BY <1>0, <1>4, <1>5, <1>7, <2>1, <2>2, RuleCarried
  <2>4. EnabledCovered(o)'
    BY <1>0, <1>4, <1>5, <1>7, <2>2, EnabledCarried
  <2> QED BY <2>3, <2>4
<1>10. ASSUME policies'[p] # NoRow
       PROVE  RuleCovered(p)' /\ EnabledCovered(p)'
  <2>1. req'[r] = v /\ policies'[p] = row
    BY <1>0, <1>3, <1>4, <1>6 DEF IReq
  <2>2. NoRow # row
    BY <1>10, <2>1
  <2>3. RulePending(req'[r], p, policies'[p].rule) /\ EnabledPending(req'[r], p)
    BY <1>2, <1>8, <2>1, <2>2 DEF RulePending, EnabledPending, Holds, Records
  <2> QED BY <2>3 DEF RuleCovered, EnabledCovered, RulePending, EnabledPending, Holds, Records
<1> QED BY <1>4, <1>9, <1>10 DEF ICovered, Covered

(* A writer will read the row again: whatever rule it has then, it records. *)
LEMMA WriteCovers ==
  ASSUME IType, ICovered, NEW r \in Requests, Write(r)
  PROVE  ICovered'
<1>0. TypeOK /\ IReq
  BY DEF IType
<1>1. req[r] \in Change({"write", "reread"}, Fields) /\ req[r].step = "write"
  BY <1>0, AtTyped DEF Write, At
<1> DEFINE v == [req[r] EXCEPT !.step = "reread"]
           p == req[r].policy
<1>2. req' = [req EXCEPT ![r] = v] /\ UNCHANGED <<history, torn>> /\ SetRow(p, req[r].snap)
  BY DEF Write, Goto
<1>3. p \in Policy /\ v.step = "reread" /\ v.policy = p /\ "policy" \in DOMAIN v
  BY <1>1 DEF Change
<1> HIDE DEF v
<1>4. \A o : Snaps(o)' = Snaps(o)
  BY <1>2 DEF Snaps
<1>5. \A o : ~RulePending(req[r], o, policies[o].rule) /\ ~EnabledPending(req[r], o)
  BY <1>1 DEF RulePending, EnabledPending, Records
<1>6. ASSUME NEW o \in Fresh \ torn, policies'[o] # NoRow
      PROVE  RuleCovered(o)' /\ EnabledCovered(o)'
  <2>0. o \in Policy
    BY DEF Policy
  <2>1. /\ policies[o] # NoRow
        /\ o # p => policies'[o] = policies[o]
    BY <1>0, <1>2, <1>3, <1>6, <2>0, SetRowFacts
  <2>2. RuleCovered(o) /\ EnabledCovered(o)
    BY <1>6, <2>1 DEF ICovered, Covered
  <2>3. CASE o # p
    BY <1>0, <1>2, <1>4, <1>5, <2>1, <2>2, <2>3, RuleCarried, EnabledCarried
  <2>4. CASE o = p
    <3>1. EnabledCovered(o)'
      BY <1>0, <1>2, <1>4, <1>5, <2>2, EnabledCarried
    <3>2. req'[r] = v
      BY <1>0, <1>2 DEF IReq
    <3>3. RulePending(req'[r], o, policies'[o].rule)
      BY <1>3, <2>4, <3>2 DEF RulePending, Holds
    <3> QED BY <3>1, <3>3 DEF RuleCovered, RulePending, Holds, Records
  <2> QED BY <2>3, <2>4
<1> QED BY <1>2, <1>6 DEF ICovered, Covered

LEMMA RereadCovers ==
  ASSUME IType, ICovered, NEW r \in Requests, Reread(r)
  PROVE  ICovered'
<1>0. TypeOK /\ IReq
  BY DEF IType
<1>1. req[r] \in Change({"write", "reread"}, Fields) /\ req[r].step = "reread"
  BY <1>0, AtTyped DEF Reread, At
<1> DEFINE p == req[r].policy
           v == [req[r] EXCEPT !.step = "number", !.snap = policies[p]]
<1>2. req' = [req EXCEPT ![r] = v] /\ UNCHANGED <<policies, history, torn>>
  BY DEF Reread, KeepTables, tables
<1>3. p \in Policy /\ v.step = "number" /\ v.policy = p /\ v.snap = policies[p]
      /\ "policy" \in DOMAIN v
  BY <1>1 DEF Change
<1> HIDE DEF v
<1>4. \A o : Snaps(o)' = Snaps(o)
  BY <1>2 DEF Snaps
<1>5. ASSUME NEW o \in Fresh \ torn, policies[o] # NoRow
      PROVE  RuleCovered(o)' /\ EnabledCovered(o)'
  <2>1. RuleCovered(o) /\ EnabledCovered(o)
    BY <1>5 DEF ICovered, Covered
  <2>2. ~EnabledPending(req[r], o)
    BY <1>1 DEF EnabledPending, Records
  <2>3. RulePending(req[r], o, policies[o].rule) => RulePending(v, o, policies[o].rule)
    BY <1>3, <1>5 DEF RulePending, Holds, Records
  <2>4. RuleCovered(o)'
    BY <1>0, <1>2, <1>4, <2>1, <2>3, RuleCarried
  <2>5. EnabledCovered(o)'
    BY <1>0, <1>2, <1>4, <2>1, <2>2, EnabledCarried
  <2> QED BY <2>4, <2>5
<1> QED BY <1>2, <1>5 DEF ICovered, Covered

LEMMA DisableCovers ==
  ASSUME IType, ICovered, NEW r \in Requests, Disable(r)
  PROVE  ICovered'
<1>0. TypeOK /\ IReq
  BY DEF IType
<1>1. req[r] \in Change({"disable"}, Row)
  BY <1>0, AtTyped DEF Disable
<1> DEFINE p == req[r].policy
           v == [req[r] EXCEPT !.step = "number"]
<1>2. req' = [req EXCEPT ![r] = v] /\ UNCHANGED <<history, torn>>
      /\ SetRow(p, [enabled |-> FALSE]) /\ p \in Policy
  BY <1>1 DEF Disable, Goto, Change
<1> HIDE DEF v
<1>3. \A o : Snaps(o)' = Snaps(o)
  BY <1>2 DEF Snaps
<1>4. \A o : ~RulePending(req[r], o, policies[o].rule) /\ ~EnabledPending(req[r], o)
  BY <1>1 DEF Change, RulePending, EnabledPending, Records
<1>5. ASSUME NEW o \in Fresh \ torn, policies'[o] # NoRow
      PROVE  RuleCovered(o)' /\ EnabledCovered(o)'
  <2>0. o \in Policy
    BY DEF Policy
  <2>1. policies[o] # NoRow /\ policies'[o].rule = policies[o].rule
    BY <1>0, <1>2, <1>5, <2>0, SetRowFacts
  <2>2. RuleCovered(o) /\ EnabledCovered(o)
    BY <1>5, <2>1 DEF ICovered, Covered
  <2> QED BY <1>0, <1>2, <1>3, <1>4, <2>1, <2>2, RuleCarried, EnabledCarried
<1> QED BY <1>2, <1>5 DEF ICovered, Covered

LEMMA NumberCovers ==
  ASSUME IType, ICovered, NEW r \in Requests, Number(r)
  PROVE  ICovered'
<1>0. TypeOK /\ IReq
  BY DEF IType
<1>1. req[r] \in Change({"number"}, MaybeRow)
  BY <1>0, AtTyped DEF Number
<1>2. PICK n :
        req' = [req EXCEPT ![r] = [step |-> "insert", policy |-> req[r].policy,
                   snap |-> req[r].snap, todo |-> req[r].todo, version |-> n]]
  BY DEF Number
<1> DEFINE v == [step |-> "insert", policy |-> req[r].policy,
                 snap |-> req[r].snap, todo |-> req[r].todo, version |-> n]
<1>3. req' = [req EXCEPT ![r] = v] /\ UNCHANGED <<policies, history, torn>>
  BY <1>2 DEF Number, KeepTables, tables
<1>4. \A o : Snaps(o)' = Snaps(o)
  BY <1>3 DEF Snaps
<1>5. ASSUME NEW o
      PROVE  /\ RulePending(req[r], o, policies[o].rule) => RulePending(v, o, policies[o].rule)
             /\ EnabledPending(req[r], o) => EnabledPending(v, o)
  BY <1>1 DEF RulePending, EnabledPending, Holds, Records, Change
<1> HIDE DEF v
<1>6. ASSUME NEW o \in Fresh \ torn, policies[o] # NoRow
      PROVE  RuleCovered(o)' /\ EnabledCovered(o)'
  <2>1. RuleCovered(o) /\ EnabledCovered(o)
    BY <1>6 DEF ICovered, Covered
  <2>2. RuleCovered(o)'
    BY <1>0, <1>3, <1>4, <1>5, <2>1, RuleCarried
  <2>3. EnabledCovered(o)'
    BY <1>0, <1>3, <1>4, <1>5, <2>1, EnabledCarried
  <2> QED BY <2>2, <2>3
<1> QED BY <1>3, <1>6 DEF ICovered, Covered

(* The entry a request was to record is a version now.                     *)
LEMMA InsertCovers ==
  ASSUME IType, ICovered, NEW r \in Requests, Insert(r)
  PROVE  ICovered'
<1>0. TypeOK /\ IReq
  BY DEF IType
<1>1. req[r] \in Inserting
  BY <1>0, AtTyped DEF Insert
<1>p. PICK p \in Policy : p = req[r].policy
  BY <1>1 DEF Inserting
<1> DEFINE e == [version |-> req[r].version, snap |-> req[r].snap]
           v == IF req[r].todo = <<>> THEN Idle ELSE [step |-> "create", todo |-> req[r].todo]
           H == history[p]
<1>2. req' = [req EXCEPT ![r] = v] /\ UNCHANGED <<policies, torn>>
      /\ history' = [history EXCEPT ![p] = Append(H, e)]
  BY <1>p DEF Insert
<1> HIDE DEF v
<1>3. e \in [version : Nat, snap : MaybeRow]
  BY <1>1 DEF Inserting
<1>4. history \in [Policy -> Snapshots]
  BY <1>0 DEF TypeOK, Snapshots, MaybeRow
<1>5. H \in Seq([version : Nat, snap : MaybeRow]) /\ history'[p] = Append(H, e)
      /\ \A o \in Policy : o # p => history'[o] = history[o]
  BY <1>2, <1>3, <1>4 DEF Snapshots
<1> HIDE DEF H
<1>6. /\ Len(H) \in Nat /\ DOMAIN H = 1..Len(H) /\ DOMAIN Append(H, e) = 1..(Len(H) + 1)
      /\ \A i \in 1..Len(H) : Append(H, e)[i] = H[i]
      /\ Append(H, e)[Len(H) + 1] = e
  BY <1>3, <1>5, AppendProperties, LenProperties
<1>7. \A o \in Policy : Snaps(o) \subseteq Snaps(o)'
  <2>1. Snaps(p) \subseteq { Append(H, e)[i].snap : i \in DOMAIN Append(H, e) } \ {NoRow}
    BY <1>6 DEF Snaps, H
  <2> QED BY <1>5, <2>1 DEF Snaps
<1>8. req[r].snap # NoRow => req[r].snap \in Snaps(p)'
  <2>1. req[r].snap \in { Append(H, e)[i].snap : i \in DOMAIN Append(H, e) }
    <3>1. Len(H) + 1 \in DOMAIN Append(H, e) /\ Append(H, e)[Len(H) + 1].snap = req[r].snap
      BY <1>6
    <3> QED BY <3>1
  <2> QED BY <1>5, <2>1 DEF Snaps
<1>9. req[r].step = "insert"
  BY <1>1 DEF Inserting
<1>10. ASSUME NEW o \in Fresh \ torn, policies[o] # NoRow
       PROVE  RuleCovered(o)' /\ EnabledCovered(o)'
  <2>0. o \in Policy
    BY DEF Policy
  <2>1. RuleCovered(o) /\ EnabledCovered(o)
    BY <1>10 DEF ICovered, Covered
  <2>2. RulePending(req[r], o, policies[o].rule) => \E s \in Snaps(o)' : s.rule = policies[o].rule
    BY <1>p, <1>8, <1>9 DEF RulePending, Holds, Records
  <2>3. EnabledPending(req[r], o) => \E s \in Snaps(o)' : s.enabled
    BY <1>p, <1>8 DEF EnabledPending, Holds, Records
  <2>4. RuleCovered(o)'
    BY <1>0, <1>2, <1>7, <2>0, <2>1, <2>2, RuleCarried
  <2>5. EnabledCovered(o)'
    BY <1>0, <1>2, <1>7, <2>0, <2>1, <2>3, EnabledCarried
  <2> QED BY <2>4, <2>5
<1> QED BY <1>2, <1>10 DEF ICovered, Covered

LEMMA StepCovers ==
  ASSUME IType, ICovered, NEW r \in Requests, Step(r)
  PROVE  ICovered'
<1>0. IReq
  BY DEF IType
<1>1. CASE ReadPolicies(r) \/ ReadCards(r) \/ Log(r) \/ CardHits(r) \/ Report(r)
  <2>1. req[r] \in Evaluation
    BY <1>0, <1>1, AtTyped DEF ReadPolicies, ReadCards, Log, CardHits, Report, EvalSteps
  <2>2. "policy" \notin DOMAIN req[r]
    BY <2>1 DEF Evaluation
  <2>3. PICK v : req' = [req EXCEPT ![r] = v]
    BY <1>1 DEF ReadPolicies, ReadCards, Log, CardHits, Report
  <2>4. UNCHANGED <<policies, history, torn>>
    BY <1>1 DEF ReadPolicies, ReadCards, Log, CardHits, Report, KeepTables, tables
  <2> QED BY <1>0, <2>2, <2>3, <2>4, NothingPending
<1>2. CASE ParseCard(r)
  <2>1. "policy" \notin DOMAIN req[r]
    BY <1>0, <1>2, AtTyped DEF ParseCard, Parsing
  <2>2. PICK v : req' = [req EXCEPT ![r] = v]
    BY <1>2 DEF ParseCard
  <2> QED BY <1>0, <1>2, <2>1, <2>2, NothingPending DEF ParseCard
<1>3. CASE ExportHistory(r)
  <2>1. "policy" \notin DOMAIN req[r]
    BY <1>0, <1>3, AtTyped DEF ExportHistory, Exporting
  <2> QED BY <1>0, <1>3, <2>1, NothingPending DEF ExportHistory, tables
<1> QED BY <1>1, <1>2, <1>3, CreateCovers, WriteCovers, RereadCovers, DisableCovers, NumberCovers,
        InsertCovers DEF Step

(* A request that begins had nothing to record.                            *)
LEMMA StartCovers ==
  ASSUME IType, ICovered, NEW r \in Requests, Start(r)
  PROVE  ICovered'
<1>1. IReq /\ At(r, "idle")
  BY DEF IType, Start, Ask, Author, Update, Delete, Rollback, Upload, ExportPolicies
<1>2. PICK v : req' = [req EXCEPT ![r] = v]
  BY DEF Start, Ask, Author, Update, Delete, Rollback, Upload, ExportPolicies
<1>3. UNCHANGED <<policies, history, torn>>
  BY DEF Start, Ask, Author, Update, Delete, Rollback, Upload, ExportPolicies, OnlyReq, KeepTables, tables
<1> QED BY <1>1, <1>2, <1>3, NothingPending DEF At

(* What nobody is changing is covered by its versions.                     *)
LEMMA CoveredAtRest ==
  ASSUME ICovered, NEW p \in Fresh \ (torn \cup Changing), policies[p] # NoRow
  PROVE  /\ \E s \in Snaps(p) : s.rule = policies[p].rule
         /\ \E s \in Snaps(p) : s.enabled
<1>1. RuleCovered(p) /\ EnabledCovered(p)
  BY DEF ICovered, Covered
<1>2. \A r \in Requests : ~Holds(req[r], p)
  BY DEF Changing, Holds, Policy
<1> QED BY <1>1, <1>2 DEF RuleCovered, EnabledCovered, RulePending, EnabledPending

LEMMA InitRestores == Init => Saved /\ ICovered
<1> SUFFICES ASSUME Init PROVE Saved /\ ICovered
  OBVIOUS
<1>1. \A p \in Fresh : policies[p] = NoRow
  BY PoliciesAssumption DEF Init, Policy
<1> QED BY <1>1 DEF Init, Saved, ICovered, Covered

LEMMA NextRestores == IRestore /\ [Next]_vars => IRestore'
<1> SUFFICES ASSUME IRestore, [Next]_vars PROVE IRestore'
  OBVIOUS
<1>0. IType /\ Saved /\ ICovered /\ IReq /\ IType'
  BY NextType DEF IRestore, IType
<1>s. ASSUME backups' \subseteq backups PROVE Saved'
  BY <1>0, <1>s DEF Saved, Whole, SnapsIn
<1>c. ASSUME UNCHANGED <<policies, history, torn, req>> PROVE ICovered'
  BY <1>0, <1>c DEF ICovered, Covered, RuleCovered, EnabledCovered, Snaps, RulePending,
     EnabledPending, Holds, Records
<1>1. ASSUME NEW r \in Requests, Step(r) \/ Start(r) PROVE Saved' /\ ICovered'
  <2>1. CASE ExportHistory(r)
    <3> DEFINE b == [policies |-> req[r].policies, history |-> history,
                     torn |-> req[r].torn \cup torn \cup Changing,
                     changed |-> { p \in Policy : policies[p] # req[r].policies[p] }]
    <3>1. backups' \subseteq backups \cup {b}
      BY <2>1 DEF ExportHistory
    <3>2. \A p : SnapsIn(history[p]) = Snaps(p)
      BY DEF SnapsIn, Snaps
    <3>3. ASSUME NEW p \in Fresh \ (b.torn \cup b.changed)
          PROVE  p \notin torn \cup Changing /\ b.policies[p] = policies[p] /\ b.history[p] = history[p]
      BY DEF Policy
    <3>4. Whole(b)
      BY <1>0, <3>2, <3>3, CoveredAtRest DEF Whole
    <3> HIDE DEF b
    <3>5. Saved'
      BY <1>0, <3>1, <3>4 DEF Saved, Whole, SnapsIn
    <3> QED BY <1>0, <2>1, <3>5, StepCovers DEF Step
  <2>2. CASE ~ExportHistory(r)
    <3>1. UNCHANGED backups
      BY <1>1, <2>2 DEF Step, Start, ReadPolicies, ReadCards, Log, CardHits, Report, Create, Write,
         Reread, Disable, Number, Insert, ParseCard, Ask, Author, Update, Delete, Rollback,
         Upload, ExportPolicies, OnlyReq, KeepTables
    <3> QED BY <1>0, <1>1, <1>s, <3>1, StepCovers, StartCovers
  <2> QED BY <2>1, <2>2
<1>2. ASSUME NEW enforce,
             \/ \E d \in Docs, text \in CardTexts : CreateCard(d, text, enforce)
             \/ \E c \in CardIds : PatchCard(c, enforce)
      PROVE  Saved' /\ ICovered'
  BY <1>2, <1>s, <1>c DEF CreateCard, PatchCard
<1>3. ASSUME NEW b \in backups, Restore(b) PROVE Saved' /\ ICovered'
  <2>1. /\ policies' = b.policies /\ history' = b.history
        /\ torn' = b.torn \cup b.changed \cup Changing /\ UNCHANGED backups
    BY <1>3 DEF Restore
  <2>2. \A p : Snaps(p)' = SnapsIn(b.history[p])
    BY <2>1 DEF SnapsIn, Snaps
  <2>3. \A p \in Fresh \ torn' : policies'[p] # NoRow =>
           /\ \E s \in Snaps(p)' : s.rule = policies'[p].rule
           /\ \E s \in Snaps(p)' : s.enabled
    BY <1>0, <2>1, <2>2 DEF Saved, Whole
  <2>4. ICovered'
    BY <2>3 DEF ICovered, Covered, RuleCovered, EnabledCovered
  <2> QED BY <1>s, <2>1, <2>4
<1>4. CASE Restart
  <2>1. /\ UNCHANGED <<policies, history, backups>> /\ torn' = torn \cup Changing
    BY <1>4 DEF Restart, tables
  <2>2. \A p : Snaps(p)' = Snaps(p)
    BY <2>1 DEF Snaps
  <2>3. \A p \in Fresh \ torn' : policies'[p] # NoRow =>
           /\ \E s \in Snaps(p)' : s.rule = policies'[p].rule
           /\ \E s \in Snaps(p)' : s.enabled
    BY <1>0, <2>1, <2>2, CoveredAtRest
  <2>4. ICovered'
    BY <2>3 DEF ICovered, Covered, RuleCovered, EnabledCovered
  <2> QED BY <1>0, <1>s, <2>1, <2>4 DEF IRestore
<1>5. CASE UNCHANGED vars
  BY <1>0, <1>5, <1>s, <1>c DEF vars, tables, IRestore
<1> QED BY <1>0, <1>1, <1>2, <1>3, <1>4, <1>5 DEF Next, IRestore

(* Where no number was given twice, every entry can be fetched by its own. *)
LEMMA FetchedByNumber ==
  ASSUME NEW p, NumberedOnce(p), NEW s \in Snaps(p)
  PROVE  CanFetch(p, s)
<1>1. PICK i \in DOMAIN history[p] : history[p][i].snap = s
  BY DEF Snaps
<1>2. { k \in DOMAIN history[p] : history[p][k].version = history[p][i].version } = {i}
  BY DEF NumberedOnce
<1> QED BY <1>1, <1>2 DEF CanFetch

(* However updates, deletes, rollbacks, exports, restores and restarts     *)
(* overlap, the history of a policy created through the API has an entry   *)
(* with the rule in force and an enabled one once no request is changing   *)
(* it, which get_version fetches unless two entries took the same number.  *)
THEOREM HistoryRestores == Spec => []HistoryCanRestoreIt
<1>1. Init => IRestore
  BY InitType, InitRestores DEF IRestore
<1>2. IRestore => HistoryCanRestoreIt
  BY CoveredAtRest, FetchedByNumber DEF IRestore, HistoryCanRestoreIt
<1> QED BY <1>1, <1>2, NextRestores, PTL DEF Spec
=============================================================================
