------------------------------ MODULE Policies ------------------------------
(***************************************************************************)
(* The policy engine of the API service: runtime policies with their       *)
(* versioned history (services/api/app/services/policy.py, history.py),    *)
(* documents and cards (policy_hub.py), the Mandate Studio that compiles   *)
(* into policies (mandate.py), the access check of ranger.py and the       *)
(* backup (backup.py).                                                     *)
(*                                                                         *)
(* Requests run side by side; every `with get_conn()` block is one step,   *)
(* history.record two.  A rule is a record with the fields its JSON has; a *)
(* call is what a rule can tell of it.  Of the text of a card the model    *)
(* keeps the tools it mentions and what it says of them; names, titles and *)
(* the place of a card in the hierarchy, which only display reads, are     *)
(* left out.                                                               *)
(***************************************************************************)
EXTENDS Integers, Sequences, FiniteSets

CONSTANTS
    Requests,
    Seeds,          \* policies of init_policy_db
    Fresh,          \* ids create_policy may draw
    SeedRow,        \* the row of each seeded policy
    Mandates,       \* lists of statements that clients author or import
    Patches,        \* changes clients make to a policy: [rule, priority]
    Calls,          \* tool calls that are evaluated
    Docs, Uploads,  \* ids of documents; lists of texts found in a document
    CardIds,
    NoRow, NoCard,
    MaxChanges,     \* bound: changes that begin, of policies and of cards
    MaxBackups      \* bound: backups that are kept

Statements == UNION { { list[i] : i \in DOMAIN list } : list \in Mandates }
CardTexts == UNION { { list[i] : i \in DOMAIN list } : list \in Uploads }
NonEmpty(S) == Seq(S) \ {<<>>}

ASSUME PoliciesAssumption ==
    /\ Seeds \cap Fresh = {} /\ (Seeds \cup Fresh) \cap CardIds = {}
    /\ SeedRow \in [Seeds -> [rule : { SeedRow[p].rule : p \in Seeds },
                              priority : 0..200, enabled : BOOLEAN]]
    /\ Patches \subseteq [rule : { m.rule : m \in Patches }, priority : 0..200]
    /\ Mandates \subseteq NonEmpty(Statements) /\ Uploads \subseteq NonEmpty(CardTexts)
    /\ MaxChanges \in Nat /\ MaxBackups \in Nat

VARIABLES
    policies,       \* table runtime_policies
    history,        \* table resource_history, of policies
    docs, cards,    \* tables policy_documents and policy_cards
    req,            \* what each request is doing
    backups,        \* the exported backups that clients have kept
    changes,
    standing,       \* history: gates in force all through an evaluation
    torn            \* history: policies a crash or a backup caught in a change

tables == <<policies, history, docs, cards>>
vars == <<tables, req, backups, changes, standing, torn>>

Policy == Seeds \cup Fresh
Idle == [step |-> "idle"]

Init ==
    /\ policies = [p \in Policy |-> IF p \in Seeds THEN SeedRow[p] ELSE NoRow]
    /\ history = [p \in Policy |-> <<>>]
    /\ docs = {}
    /\ cards = [c \in CardIds |-> NoCard]
    /\ req = [r \in Requests |-> Idle]
    /\ backups = {}
    /\ changes = 0
    /\ standing = [r \in Requests |-> {}]
    /\ torn = {}

-----------------------------------------------------------------------------
(* Evaluation.                                                             *)

(* _matches: a threshold that is missed decides at once, one that is met   *)
(* leaves the decision to the rest of the rule.                            *)
Matches(rule, call) ==
    /\ "tool" \in DOMAIN rule => rule.tool = call.tool
    /\ "agent_status" \in DOMAIN rule => rule.agent_status = call.status
    /\ \/ "min_trust_score" \in DOMAIN rule /\ call.trust < rule.min_trust_score
       \/ IF "pattern" \in DOMAIN rule THEN rule.pattern \in call.text
          ELSE DOMAIN rule \cap {"tool", "agent_status"} # {}

Enabled == { p \in Policy : policies[p] # NoRow /\ policies[p].enabled }
Matched(call) == { p \in Enabled : Matches(policies[p].rule, call) }

DispositionOfFirst(call) ==
    LET first == { p \in Matched(call) :
                     \A q \in Matched(call) : policies[q].priority <= policies[p].priority }
    IN  IF first = {} THEN "allow" ELSE policies[CHOOSE p \in first : TRUE].rule.action

(* The loop over the policies goes on until one denies. *)
Disposition(call) ==
    LET actions == { policies[p].rule.action : p \in Matched(call) }
    IN  CASE "deny" \in actions -> "deny"
          [] "deny" \notin actions /\ "require_approval" \in actions -> "require_approval"
          [] OTHER -> "allow"

(* enforced_cards: a card of no document is not enforced. *)
EnforcedCards == { c \in CardIds : cards[c] # NoCard /\ cards[c].enforce /\ cards[c].doc \in docs }
Forbids(c, tool) == tool \in cards[c].text.tools /\ cards[c].text.says \in {"must not", "shall not"}
Oversees(c, tool) == tool \in cards[c].text.tools /\ cards[c].text.says = "approval"

AfterCards(disposition, tool) ==
    CASE \E c \in EnforcedCards : Forbids(c, tool) -> "deny"
      [] ~(\E c \in EnforcedCards : Forbids(c, tool)) /\ disposition = "allow"
           /\ (\E c \in EnforcedCards : Oversees(c, tool)) -> "require_approval"
      [] OTHER -> disposition

(* ranger._card_blocks has a list of words of its own. *)
CardBlocks(c, tool) == tool \in cards[c].text.tools /\ cards[c].text.says = "must not"

At(r, step) == req[r].step = step
Goto(r, step) == req' = [req EXCEPT ![r].step = step]
KeepTables == UNCHANGED <<tables, backups, changes, torn>>

(* evaluate, by a tool call or by verify_access. *)
Ask(r, call, verify) ==
    /\ At(r, "idle")
    /\ req' = [req EXCEPT ![r] = [step |-> "policies", call |-> call, verify |-> verify,
                                  decision |-> "allow", allowed |-> FALSE]]
    /\ KeepTables

ReadPolicies(r) ==
    LET d == Disposition(req[r].call)
    IN  /\ At(r, "policies")
        /\ req' = [req EXCEPT ![r].decision = d,
                              ![r].step = IF d = "deny" THEN "log" ELSE "cards"]
        /\ KeepTables

ReadCards(r) ==
    /\ At(r, "cards")
    /\ req' = [req EXCEPT ![r].decision = AfterCards(@, req[r].call.tool), ![r].step = "log"]
    /\ KeepTables

(* _log_evaluation, a row nothing reads back; verify_access reads the cards *)
(* once more.                                                               *)
Log(r) ==
    /\ At(r, "log")
    /\ req' = [req EXCEPT ![r] = IF req[r].verify THEN [@ EXCEPT !.step = "hits"] ELSE Idle]
    /\ KeepTables

CardHits(r) ==
    /\ At(r, "hits")
    /\ req' = [req EXCEPT ![r].step = "report",
                 ![r].allowed = /\ req[r].decision # "deny"
                                /\ ~ \E c \in EnforcedCards : CardBlocks(c, req[r].call.tool)]
    /\ KeepTables

(* The report leaves with an event of the API's log (module ApiAudit). *)
Report(r) ==
    /\ At(r, "report")
    /\ req' = [req EXCEPT ![r] = Idle]
    /\ KeepTables

-----------------------------------------------------------------------------
(* Changes of policies: each reads, writes and records in steps of its own. *)

CountChange == changes < MaxChanges /\ changes' = changes + 1
OnlyReq == UNCHANGED <<tables, backups, torn>>

(* mandate.author: what a statement [effect, tool, trust, approval] compiles *)
(* to; trust is a set with the threshold or none.                            *)
Compile(m) ==
    LET action == CASE m.effect = "forbid" -> "deny"
                    [] m.effect = "require_approval" \/ (m.effect = "permit" /\ m.approval)
                         -> "require_approval"
                    [] OTHER -> "allow"
        base == [tool |-> m.tool, action |-> action]
    IN  [enabled |-> TRUE,
         priority |-> CASE action = "deny" -> 120 [] action = "allow" -> 40 [] OTHER -> 80,
         rule |-> IF m.trust = {} THEN base
                  ELSE [tool |-> m.tool, min_trust_score |-> CHOOSE n \in m.trust : TRUE,
                        action |-> IF action = "allow" THEN "deny" ELSE action]]

(* author creates one policy; an import creates those of its statements,   *)
(* one after another.                                                      *)
Author(r, statements) ==
    /\ At(r, "idle") /\ CountChange
    /\ req' = [req EXCEPT ![r] = [step |-> "create", todo |-> statements]]
    /\ OnlyReq

(* create_policy, under an id that is new. *)
Create(r) ==
    LET row == Compile(Head(req[r].todo))
    IN  /\ At(r, "create")
        /\ \E p \in Fresh :
             /\ policies[p] = NoRow /\ history[p] = <<>>
             /\ policies' = [policies EXCEPT ![p] = row]
             /\ req' = [req EXCEPT ![r] = [step |-> "number", policy |-> p, snap |-> row,
                                           todo |-> Tail(req[r].todo)]]
        /\ UNCHANGED <<history, docs, cards, backups, changes, torn>>

(* update_policy, delete_policy and rollback_policy of a policy that is there. *)
Update(r, p, patch) ==
    /\ At(r, "idle") /\ CountChange
    /\ policies[p] # NoRow
    /\ req' = [req EXCEPT ![r] = [step |-> "write", policy |-> p, todo |-> <<>>,
                 snap |-> [rule |-> patch.rule, priority |-> patch.priority]]]
    /\ OnlyReq

Delete(r, p) ==
    /\ At(r, "idle") /\ CountChange
    /\ policies[p] # NoRow
    /\ req' = [req EXCEPT ![r] = [step |-> "disable", policy |-> p, todo |-> <<>>,
                                  snap |-> [policies[p] EXCEPT !.enabled = FALSE]]]
    /\ OnlyReq

Rollback(r, p, v) ==
    /\ At(r, "idle") /\ CountChange
    /\ policies[p] # NoRow
    /\ \E i \in DOMAIN history[p] :
         /\ history[p][i].version = v /\ history[p][i].snap # NoRow
         /\ req' = [req EXCEPT ![r] = [step |-> "write", policy |-> p, todo |-> <<>>,
                                       snap |-> history[p][i].snap]]
    /\ OnlyReq

(* UPDATE ... WHERE policy_id: a row that went with a restore stays away. *)
SetRow(p, fields) ==
    policies' = [policies EXCEPT ![p] =
        IF @ = NoRow THEN NoRow ELSE [f \in DOMAIN @ |-> IF f \in DOMAIN fields THEN fields[f] ELSE @[f]]]

WriteRecordingSnap(r) ==
    /\ At(r, "write")
    /\ SetRow(req[r].policy, req[r].snap)
    /\ req' = [req EXCEPT ![r].step = "number", ![r].snap = policies[req[r].policy]]
    /\ UNCHANGED <<history, docs, cards, backups, changes, torn>>

Write(r) ==
    /\ At(r, "write")
    /\ SetRow(req[r].policy, req[r].snap)
    /\ Goto(r, "reread")
    /\ UNCHANGED <<history, docs, cards, backups, changes, torn>>

Reread(r) ==
    /\ At(r, "reread")
    /\ req' = [req EXCEPT ![r].step = "number", ![r].snap = policies[req[r].policy]]
    /\ KeepTables

(* delete_policy records the row it read, disabled. *)
Disable(r) ==
    /\ At(r, "disable")
    /\ SetRow(req[r].policy, [enabled |-> FALSE])
    /\ Goto(r, "number")
    /\ UNCHANGED <<history, docs, cards, backups, changes, torn>>

(* history.record: the next version is read, then the entry is inserted. *)
Number(r) ==
    LET versions == { history[req[r].policy][i].version : i \in DOMAIN history[req[r].policy] }
    IN  /\ At(r, "number")
        /\ \E v \in 1..(Len(history[req[r].policy]) + 1) :
             /\ \A w \in versions : w < v
             /\ v = 1 \/ v - 1 \in versions
             /\ req' = [req EXCEPT ![r] = [step |-> "insert", policy |-> req[r].policy,
                          snap |-> req[r].snap, todo |-> req[r].todo, version |-> v]]
        /\ KeepTables

Insert(r) ==
    /\ At(r, "insert")
    /\ history' = [history EXCEPT ![req[r].policy] =
                      Append(@, [version |-> req[r].version, snap |-> req[r].snap])]
    /\ req' = [req EXCEPT ![r] = IF req[r].todo = <<>> THEN Idle
                                 ELSE [step |-> "create", todo |-> req[r].todo]]
    /\ UNCHANGED <<policies, docs, cards, backups, changes, torn>>

-----------------------------------------------------------------------------
(* Documents and cards. *)

(* upload_document: the document first, then one card per rule in it. *)
Upload(r, d, texts) ==
    /\ At(r, "idle") /\ CountChange
    /\ d \notin docs
    /\ docs' = docs \cup {d}
    /\ req' = [req EXCEPT ![r] = [step |-> "parse", doc |-> d, texts |-> texts]]
    /\ UNCHANGED <<policies, history, cards, backups, torn>>

AddCard(d, text, enforce) ==
    \E c \in CardIds :
        /\ cards[c] = NoCard
        /\ cards' = [cards EXCEPT ![c] = [doc |-> d, text |-> text, enforce |-> enforce]]

ParseCard(r) ==
    /\ At(r, "parse")
    /\ AddCard(req[r].doc, Head(req[r].texts), TRUE)
    /\ req' = [req EXCEPT ![r] = IF Len(req[r].texts) = 1 THEN Idle
                                 ELSE [req[r] EXCEPT !.texts = Tail(req[r].texts)]]
    /\ UNCHANGED <<policies, history, docs, backups, changes, torn>>

(* create_card, of any document, and update_card_hierarchy, which may set  *)
(* whether a card is enforced: each one transaction.                       *)
CreateCard(d, text, enforce) ==
    /\ CountChange
    /\ AddCard(d, text, enforce)
    /\ UNCHANGED <<policies, history, docs, req, backups, torn>>

PatchCard(c, enforce) ==
    /\ CountChange
    /\ cards[c] # NoCard
    /\ cards' = [cards EXCEPT ![c].enforce = enforce]
    /\ UNCHANGED <<policies, history, docs, req, backups, torn>>

-----------------------------------------------------------------------------
(* Backup, restore and restart. *)

Changing == { p \in Policy : \E r \in Requests :
                "policy" \in DOMAIN req[r] /\ req[r].policy = p }

(* export_all reads table after table, each by a SELECT of its own and none *)
(* in a transaction: runtime_policies, later resource_history.  Documents   *)
(* and cards are not among BACKUP_TABLES.                                   *)
ExportPolicies(r) ==
    /\ At(r, "idle")
    /\ req' = [req EXCEPT ![r] = [step |-> "export", policies |-> policies,
                                  torn |-> torn \cup Changing]]
    /\ KeepTables

ExportHistory(r) ==
    LET b == [policies |-> req[r].policies, history |-> history,
              torn |-> req[r].torn \cup torn \cup Changing,
              changed |-> { p \in Policy : policies[p] # req[r].policies[p] }]
    IN  /\ At(r, "export")
        /\ \E kept \in SUBSET backups :
             /\ Cardinality(kept \cup {b}) <= MaxBackups
             /\ backups' = kept \cup {b}
        /\ req' = [req EXCEPT ![r] = Idle]
        /\ UNCHANGED <<tables, changes, torn>>

(* restore_all replaces the tables of a backup in one transaction. *)
Restore(b) ==
    /\ CountChange
    /\ policies' = b.policies
    /\ history' = b.history
    /\ torn' = b.torn \cup b.changed \cup Changing
    /\ UNCHANGED <<docs, cards, req, backups>>

(* The server dies; the next one finds the tables as they are. *)
Restart ==
    /\ CountChange
    /\ req' = [r \in Requests |-> Idle]
    /\ torn' = torn \cup Changing
    /\ UNCHANGED <<tables, backups>>

-----------------------------------------------------------------------------
(* What is in force, for the properties: a gate of a call and its effect.  *)
GatesOf(call) ==
    { <<p, policies[p].rule.action>> : p \in Matched(call) }
    \cup { <<c, "deny">> : c \in { d \in EnforcedCards : Forbids(d, call.tool) } }
    \cup { <<c, "require_approval">> : c \in { d \in EnforcedCards : Oversees(d, call.tool) } }

Evaluating == { r \in Requests : "call" \in DOMAIN req[r] }

Observe ==
    standing' = [r \in Requests |->
        CASE r \notin Evaluating' -> {}
          [] r \in Evaluating' \ Evaluating -> GatesOf(req'[r].call)
          [] OTHER -> standing[r] \cap GatesOf(req[r].call)']

Step(r) ==
    \/ ReadPolicies(r) \/ ReadCards(r) \/ Log(r) \/ CardHits(r) \/ Report(r)
    \/ Create(r) \/ Write(r) \/ Reread(r) \/ Disable(r) \/ Number(r) \/ Insert(r)
    \/ ParseCard(r) \/ ExportHistory(r)

Start(r) ==
    \/ \E call \in Calls, verify \in BOOLEAN : Ask(r, call, verify)
    \/ \E list \in Mandates : Author(r, list)
    \/ \E p \in Policy :
        \/ \E patch \in Patches : Update(r, p, patch)
        \/ Delete(r, p)
        \/ \E v \in 1..MaxChanges : Rollback(r, p, v)
    \/ \E d \in Docs, texts \in Uploads : Upload(r, d, texts)
    \/ ExportPolicies(r)

Next ==
    /\ \/ \E r \in Requests : Step(r) \/ Start(r)
       \/ \E enforce \in BOOLEAN :
            \/ \E d \in Docs, text \in CardTexts : CreateCard(d, text, enforce)
            \/ \E c \in CardIds : PatchCard(c, enforce)
       \/ \E b \in backups : Restore(b)
       \/ Restart
    /\ Observe

Spec == Init /\ [][Next]_vars

-----------------------------------------------------------------------------
Rules == { SeedRow[p].rule : p \in Seeds } \cup { m.rule : m \in Patches }
         \cup { Compile(m).rule : m \in Statements }
Row == [rule : Rules, priority : 0..200, enabled : BOOLEAN]
Card == [doc : Docs, text : CardTexts, enforce : BOOLEAN]

TypeOK ==
    /\ policies \in [Policy -> Row \cup {NoRow}]
    /\ history \in [Policy -> Seq([version : Nat, snap : Row \cup {NoRow}])]
    /\ docs \subseteq Docs
    /\ cards \in [CardIds -> Card \cup {NoCard}]
    /\ changes \in 0..MaxChanges

(* A gate that was there all the while is obeyed: whatever changes while   *)
(* evaluate reads the policies and then the cards, a call that a policy or *)
(* a card denied throughout is denied, one of which an approval was        *)
(* required throughout is not allowed, and verify_access reports no access *)
(* that was denied throughout.                                             *)
Says(r, action) == \E gate \in standing[r] : gate[2] = action

GatesHold ==
    \A r \in Requests :
        /\ At(r, "log") => /\ Says(r, "deny") => req[r].decision = "deny"
                           /\ Says(r, "require_approval") => req[r].decision # "allow"
        /\ At(r, "report") /\ Says(r, "deny") => ~req[r].allowed

Snaps(p) == { history[p][i].snap : i \in DOMAIN history[p] } \ {NoRow}

NumberedOnce(p) ==
    \A i, j \in DOMAIN history[p] : history[p][i].version = history[p][j].version => i = j

(* get_version finds s, and nothing else, under one of the versions of p.  *)
CanFetch(p, s) ==
    \E i \in DOMAIN history[p] :
        { history[p][j].snap : j \in { k \in DOMAIN history[p] :
                                history[p][k].version = history[p][i].version } } = {s}

(* The history of a policy that was created through the API can bring back *)
(* what is in force: once no request is changing it, one of its entries    *)
(* has its rule and one is enabled, however updates, deletes, rollbacks,   *)
(* exports and restores of it overlapped, and get_version fetches them     *)
(* unless two entries took the same number.  Excepted is a policy that a   *)
(* restart or a read of a restored backup caught between a change and the  *)
(* record of it, or whose row changed between the backup's two reads.      *)
HistoryCanRestoreIt ==
    \A p \in Fresh \ (torn \cup Changing) : policies[p] # NoRow =>
        /\ \E s \in Snaps(p) : s.rule = policies[p].rule /\ (NumberedOnce(p) => CanFetch(p, s))
        /\ \E s \in Snaps(p) : s.enabled /\ (NumberedOnce(p) => CanFetch(p, s))

-----------------------------------------------------------------------------
(* Claims of the documentation that the code does not keep.                *)

(* delete_policy (policy.py): "the delete is reversible via rollback": a   *)
(* deleted policy has an enabled version to roll back to.                  *)
DeleteIsReversible ==
    \A p \in Policy \ (torn \cup Changing) :
        policies[p] # NoRow /\ ~policies[p].enabled => \E s \in Snaps(p) : s.enabled

(* "point-in-time backups" (backup.py): a created policy that no request   *)
(* was changing at either read of an export is exported with a version.    *)
(* A restore between the reads gives a backup with the policy and, of its  *)
(* history, nothing.                                                       *)
BackupsAreOfOneMoment ==
    \A b \in backups : \A p \in Fresh \ b.torn :
        b.policies[p] # NoRow => b.history[p] # <<>>
=============================================================================
