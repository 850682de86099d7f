# A formal model of ClearFrame

ClearFrame governs AI agents. The repository holds two programs: the *runtime*
(`clearframe/clearframe`), a Python library that wraps one agent session with a goal
monitor, sandboxes and a chained audit log, and the *API service*
(`services/api/app`), a FastAPI server over SQLite or PostgreSQL in which operators
define, admit, supervise and contain agents. This directory models the parts of both
whose correctness depends on order: what overlaps, what fails half-way, what is read
before it is used. Paths below are relative to the repository; `SV` stands for
`services/api/app/services`.

## 1. The system

| Component | State | Operations | Talks to | What is hard |
|---|---|---|---|---|
| Session (`core/session.py`, `gateway/isolation.py`, `monitor/rtl.py`) | started, context chunks, trace counter, a pipe of 256 messages | `start`, `end`, `call_tool`, `ingest_context` | monitor, audit log, tools | several asyncio tasks in one session; suspension inside a tool and inside `pipe.send` |
| Goal monitor (`monitor/goal_monitor.py`, `core/manifest.py`) | calls per tool, run of low scores, suspended | `evaluate`, `is_suspended` | session | limits, two counters that advance under different conditions, thresholds |
| Audit log (`core/audit.py`) | a JSONL file, a secret file, the last hmac in memory | `write`, `verify_chain`, opening | session, command line | restarts, several writers, torn writes, tampering |
| HITL gate (`SV/hitl_gate.py`, `SV/aegis.py`, `SV/action_audit.py`) | tables `tool_calls`, `action_audit` | `governed_execute`, `wait_for_decision`, approve, block, override, reset, `enqueue_from_audit` | agent loop, policies | decisions race polls, timeouts, resets and the listing of the session; failing statements |
| Lattice (`SV/lattice.py`) | executor, worker count, tables `lattice_jobs`, `lattice_workers` | `enqueue`, `_run_job`, `ensure_pool`, `status` | tools | threads, scaling under load, failures, restarts |
| Agent registry (`SV/agents.py`, `SV/history.py`) | tables `agents`, `resource_history` | save, update, suspend, activate, revoke, select, rollback, restore | everything | change, read-back and history are separate transactions |
| Admission (`SV/safepulse.py`, `SV/trust.py`, `SV/sessions.py`, `SV/workflows.py`, `SV/pipeline.py`) | tables `operators`, `certificates`, `sessions` | enroll, verify, issue, revoke, start, run a workflow, run the pipeline | registry, gate, Sonar | every check is a read in a transaction of its own, and the loop runs long after |
| Policies (`SV/policy.py`, `SV/policy_hub.py`, `SV/mandate.py`, `SV/ranger.py`, `SV/backup.py`) | tables `runtime_policies`, `resource_history`, document cards, a backup | `evaluate`, `verify_access`, create, update, delete, rollback, upload, author, export, restore | gate, history | two reads in one evaluation; change and history in separate transactions; a restore under everybody's feet |
| Sonar and SOC bus (`SV/sonar.py`, `SV/soc_bus.py`, `SV/ai_soc.py`) | events, cases, bindings | ingest, correlate, open, triage, playbook, update, bind, scan, tabletops | registry, trust, connectors | concurrent correlation; playbooks and analysts write one row |
| Connectors (`SV/connectors.py`, `SV/integrations.py`) | configuration | isolate a host, notify, page, export | SOC bus | configured, missing, simulated, refused |
| Federation (`SV/federation.py`, `SV/data_access.py`, `SV/idempotency.py`, `SV/lineage.py`) | catalogs, queries, lineage, stored answers | register, query, ask, lookup, store | API audit log | a retry beside its first request; masks read once, applied later |
| API audit log (`SV/audit.py`) | a JSONL file and a secret | `write_event`, `verify_chain` | federation, gate | no lock at all: creating the secret, reading the last hash and appending interleave |
| Login (`SV/auth.py`, `SV/oidc.py`) | users, login attempts, refresh tokens, states of single sign-on in memory | login, `login_url`, callback | Sonar | the lockout is checked in one transaction and counted in another; restarts |
| Behavioural collector (`behavioural/collector.py`) | buffer, typing burst, current session | `record_*`, `start_session`, `stop_session`, `flush`, `save_session` | - | threads test `_active` before the lock; a bounded buffer |
| Vaults (`core/vault.py`, `SV/vault.py`) | key and data in memory, one encrypted file | unlock, lock, set, delete | tools | whole-file writes, a key replaced before it is tried |
| Others: memory, governance and compliance reports, ops servers, plugins, graph builder | tables, files, dictionaries | | | mostly pure, or one statement each |

`PROJECT.json` lists every component with its files and says of each whether it is
modelled; its `hazards` name what is hard to test, at the line where it bites, with the
property that would see it go wrong.

How the parts meet. A request starts a session (`sessions.start_session`): it reads the
current agent, the operator and the certificate, then runs the agent loop, which passes
each tool call through `governed_execute`: the policies allow it, deny it or send it to an
operator. When the loop is over the calls are copied to the operators' list and to the
action audit. Meanwhile other requests change agents, revoke certificates and contain.
Requests run in the server's thread pool, and in two replicas of the deployment
(`deploy/kubernetes/clearframe.yaml:50`), and share nothing but the database, whose
`with get_conn()` block is one transaction (`database.py:238`).
That is the grain of the models of the service: **one transaction, one step**. In the
runtime there is one event loop, and a step is **everything between two points where a
coroutine can really be suspended**.

## 2. The modules

```
ToolGate  <--implements--  GovernedSession --extends--> GoalMonitor
Federation --extends--> ApiAudit              SocBus --extends--> Connectors
AuditLog    HitlGate    Lattice    AgentRegistry    Admission
Policies    Login       Collector
```

Each has an `MC` module with the constants of its instances and one `.cfg` per run;
theorems are in the modules `..._proofs`, of which `Runtime_proofs` is about three modules
of the runtime (`GovernedSession`, `AuditLog`, `Collector`) and `Services_proofs` about
`Lattice` and `SocBus`: that is why some modules carry their name in their definitions
(`AuditSpec`, `CollectorSpec`, `LatticeSpec`). A definition that a mutation is made of comes
right after or before it under a name of its own (`VerifyWriteLatest`, `ClampAbove`,
`LookupOkOnly`, `LastHashAtStart`): the bug that one of the properties is there to see. No
specification uses these.

**GoalMonitor, GovernedSession.** `GoalMonitor` is `evaluate`: hard blocks in their
order, the score in whole percent, the disposition, and the counters it leaves.
`GovernedSession` adds the tasks: `CallTool` is `call_tool` from its first line up to the
tool's code, with every log entry it writes; `ToolReturns` and `ToolRaises` are what
happens after, `IngestContext` the hand-over of a chunk. A task is idle, in a tool, or
stuck in `pipe.send`. `trail` is what the session has logged, `executed` a history
variable. Nothing in the repository receives from the pipe, so no action does.

**ToolGate** is what the session promises, without tasks, log or scores: a tool runs only
out of its budget, one that needs an operator never, and nothing after the gate is shut.

**AuditLog.** Any number of `AuditLog` objects append to one file. An HMAC is the triple
of key, predecessor and entry. Creating the secret is three steps, because two objects may
find no file; an append may fail before or within a line, and a torn line swallows the next
one; `Damage` alters or drops a record. `Errors` is `verify_chain`.

**HitlGate.** Sessions call, wait, poll and time out; operators decide, and each decision
is two or three transactions; a finished session's rows are replaced (`Enqueue`) and its
actions logged twice, as `start_session` does. `mode` is the deployment: blocking or not,
automatic approval, SQLite or PostgreSQL (where an error aborts the transaction).

**Lattice.** `Insert`, `ReadExecutor`, `Submit` are one request; `Take`, `Start`, `Finish`,
`Fail` one job on a thread; `Scale`, `ReplaceExecutor`, `SetCount`, `ReplaceRows` are
`ensure_pool` under its lock, statement by statement as others see it; `status` counts in
four queries; transactions may fail and the server restart.

**AgentRegistry.** A request changes a row, reads it back, chooses a version number and
inserts the snapshot: four steps. Rollback and restore first look a version up. `past` and
`lastWrite` are history variables.

**Admission.** A request is a sequence of operations (`Work`), each of one to four steps;
`mem` is what it has read. The one-transaction requests are `Change`. `seen` records, for
each operation under way, which of the three conditions held at some moment of it, and
`matched` which enrolments a matching sample was compared with. A loop's calls are denied,
allowed, or approved in any order; the seeded rule for suspended agents, taken to be
enabled, is the one constraint.

**ApiAudit, Federation.** `ApiAudit` is the file the service appends its events to, without
a lock: looking for the secret, truncating its file and filling it, reading the last hash
and appending are steps between which other writers come, and `overlapped` remembers whether
two ever did. `Federation` puts the query gateway over it: a request looks its key up, reads
the catalogs of its tenant, evaluates the query name by name, records it, writes its lineage
and its two events, and stores the answer; others register catalogs meanwhile, keys lapse
and the server restarts. A refused query takes the short way with one event.

**Connectors, SocBus.** `Connectors` says what a service may answer when it is configured,
missing or simulated. In `SocBus` a request is a plan: a webhook is one ingestion, a
CrowdStrike sync one per alert, a demo or a tabletop a story of ingestions, scans,
playbooks and manual cases. Correlation reads the related events, looks for an open case and
then merges or opens: three steps; playbook, triage and update read a case and write it
back. A request may be lost anywhere. `PlansAssumption` says what the callers in the code
see to: an event is correlated again, or has a case opened for it by hand, only by a plan
that ingested it before.

**Policies.** `ReadPolicies` and `ReadCards` are the two reads of `evaluate`, `Log` its
record, `CardHits` and `Report` what `verify_access` adds. A change is `Update` or another
of its kind, then `Write`, `Reread` or `Disable`, and the two steps of the history. Mandates
compile into policies (`Compile`), documents into cards. `ExportPolicies` and
`ExportHistory` are the two reads of a backup that matter here, which no transaction holds
together; clients keep some of the backups, and `Restore` puts one in force. `standing`
records which gates held all through each evaluation, `torn` the policies of which a crash
or a restored backup has lost the record.

**Login.** `Check`, `Fail`, `Alarm` and `Succeed` are a login with a password; `LoginUrl`,
`Callback`, `Exchange`, `ProvisionRead`, `InsertUser`, `UpdateUser` and `Issue` the flow of
single sign-on, whose states live in memory and die in a `Restart`.

**Collector.** A `record_*` call is the steps it takes outside of the lock and the one it
takes inside; a key may end a burst, flush it into a text edit and begin another. `told` is
what `on_event` heard; `buffer` loses from its front when it is full.

## 3. The runs

| Run | Instance | Shows |
|---|---|---|
| `session` | 2 tasks, 5 tools (one limited to 2 calls, one for an operator, one switched off, one not registered, one not permitted), 3 calls, pipe of 1 | granted tools only, within limits; counts and drift are those of the log; completions approved; context hashed, logged and sent in that order; a suspension is final; refinement of ToolGate; calls return |
| `audit_log` | 2 writers, 2 payloads, 3 lines, 2 changes from outside | an honest log is clean, what precedes the first error is authentic, a verified line was written |
| `hitl` | 2 sessions, 1 call each, an operator with one decision, a reset, four deployments | a call that needs a human runs only after its own approval, and a refusal was decided; the list shows the session; every session ends |
| `lattice` | 2 jobs, 2 workers, one scaling, one fault, one restart | a busy worker has a running thread unless the transaction of the except block failed, no false credit, status misses no job, accepted jobs finish |
| `lattice_scale_race` | the same without faults | **violated:** a job is queued for good when the pool is replaced inside `_dispatch` |
| `agents` | 2 agents, 2 requests at a time, 3 changes, a selection, a restart | snapshots were true, the present is in the history and its versions have no gap, a restore reactivates |
| `admission` | 2 requests of any kind at a time, 2 agents, 2 profiles, 2 changes, workflows of 2 steps | verified by a matching sample, sessions admitted, suspended agents run nothing |
| `federation` | 2 requests, 2 catalogs with a mask each, a join, a refusal, 2 tenants, 2 keys, 5 events, a restart | serial writers leave a log that verifies; answers have their records and hide what is masked; a call that is repeated is not run again and gets the answer of that call |
| `soc` | 3 requests out of 12 plans, 4 events of 2 actors, 2 cases, 2 configured services | no missed correlation; a second case only by an overlap; done means done; cases and containment stay with their actor |
| `policies` | 2 requests, a seeded policy and two created ones, a document with 2 cards, 3 changes out of policies, cards, restores and restarts, exports of which one is kept | a gate that stood all the while is obeyed; the history can bring back a policy |
| `login` | 2 workers, 2 accounts, 2 states, a limit of 2, one tick | the lockout is overshot by less than the workers there are; every lock is reported; a state signs in once |
| `collector` | 2 threads, 2 sessions, a buffer of 2, 5 events | each key in one text edit; sessions framed; events leave once and in order |

The violated one is the finding of `PROJECT.json`, with the line of the documentation it
contradicts.

**Divergences kept beside the runs.** Nine more statements of the documentation are
written as properties and have a `.cfg` with which TLC refutes them
(`tlc -config <cfg> <module>`). They repeat a model that a run above already checks, so
that they are not runs of their own.

| `.cfg`, module | Property | The statement, and what the code does |
|---|---|---|
| `MCAuditRestart`, `MCAuditLog` | `UntouchedLogVerifies` | "Each entry's HMAC is computed over (prev_hmac \|\| entry_json)" (`clearframe/clearframe/core/audit.py:5`). Each object begins its chain at zeros (`audit.py:176`), whatever the file holds, so that after a restart an untouched log fails |
| `MCSessionDefaultDrift`, `MCGovernedSession` | `DriftPauses` | "drift triggers auto-pause" (`clearframe/README.md:20`). With the thresholds of `config.py:32` the worst score of a permitted call is 60 (`goal_monitor.py:114,127,147`), above the 55 that counts as drift |
| `MCHitlAsyncLost`, `MCHitlGate` | `PendingCallCanBeDecided` | "Operator decides later via /api/aegis/{id}/approve" (`hitl_gate.py:106`); `aegis.py:24` deletes the rows of the session when it is over |
| `MCHitlPostgres`, `MCHitlGate` | `DecisionTakesEffect` | "Human-in-command tool gating" (`README.md:20`), with the shared PostgreSQL of `deploy/README.md:3`: there the error that `aegis.py:106` swallows has aborted the transaction of the decision |
| `MCAgentSeedRevoked`, `MCAgentRegistry` | `RevocationIsReversible` | "reversible via restore_agent" (`agents.py:264`); an agent of the seed (`agents.py:91`) has no version for `agents.py:226` to find |
| `MCSocPlaybook`, `MCSocBus` | `PlaybookSaysWhatItDid` | "clearly labelled simulated so demos never lie" (`ai_soc.py:82`); the playbook calls the webhook done whatever it answered |
| `MCPolicyDelete`, `MCPolicies` | `DeleteIsReversible` | "the delete is reversible via rollback" (`policy.py:227`); a seeded policy has no enabled version |
| `MCPolicyBackup`, `MCPolicies` | `BackupsAreOfOneMoment` | "point-in-time backups" (`backup.py:3`). `export_all` reads table after table (`backup.py:50-54`), and sqlite3 opens no transaction for a SELECT: a restore of an older backup between the reads of `runtime_policies` and `resource_history` gives a backup in which a policy has no history. Restoring it puts the policy in force without one |
| `MCFederationTenant`, `MCFederation` | `AnswersStayWithTheirTenant` | "under policy and tenant isolation" (`federation.py:5`). The stored answer is looked up by key, method and path alone (`main.py:649`, `idempotency.py:41`), so that a tenant who uses the key of another is given the other's answer |

**Why the bounds are enough.** Every hazard here is a race of two: two tasks, two requests,
a request and a restart. Two of each actor show it; a third repeats it. What is counted is
bounded just above where it bites: one call more than the limit of 2, one message more than
the pipe's one, one line after a torn or dropped one, a version after a version numbered
twice, more events than the buffer of the collector, more lines than the window of
`verify_chain`, more failures than the limit of a login. In `admission` a request is as long
as the whole pipeline, so that two requests and two changes cover an enrolment, a sample, a
reset, a revocation and a suspension at any point of one another. `soc` has three requests,
because two that correlate and one that closes the case are needed to tell
`OneCasePerStory` from what the code does not promise. `federation` has two, which show a
retry after its first request; what the property says of two runs side by side and a third
request is left to the theorem. One kept backup is enough in `policies`, because an export
replaces it: it can be restored while the next one is read. The bounds are the constants called
`Max...`, each named where it is declared and used only as a guard.

**Symmetry.** Requests, workers or threads are interchangeable in `admission`, `federation`,
`soc`, `policies`, `login` and `collector`; so are the ids a policy or card may draw, and the
two sessions of the collector. All properties of these runs are invariants, so that the
reduction is sound.

**Deadlock** is not checked where the cfg says so: in those instances the callers may simply
be through.

**Fairness.** `GovernedSession`: the event loop resumes a task whose tool has returned or
raised, and tools do (weak fairness on both together). No fairness is given to anyone who
would start a call. `HitlGate`: each session's loop is a bounded `for` with a deadline in its
wait, so its next step is taken; operators owe nothing. `Lattice`: the threads of an executor
run its jobs, also after `shutdown(wait=False)`, and the work of a job ends; failing
transactions and scaling are never forced. The liveness properties say what holds in spite
of those: `CallsReturn` allows for the full pipe, `AcceptedJobsFinish` for faults and
restarts. The other modules are about requests that answer or fail in a few steps and have
no fairness and no liveness.

## 4. The proofs

For every value of the constants, under the named assumptions of the modules
(`AdmissionAssumption` and its like: the constants are sets, functions or numbers of the
kind their comments say, and a "no such thing" value is none of the things). Each module
has its types proved (`TypeCorrect`, `AuditTypeCorrect`, `LatticeTypeCorrect`,
`SocTypeCorrect`; those of the collector are a part of `CollectorInv`). Every safety
property that a run checks is a theorem; below is what each needs.

- `Runtime_proofs`, the session. `GrantedOnly` (`OnlyGrantedToolsRun`) follows from
  `RunsCharged`: by itself "a tool ran at most its limit" is not inductive, because a task
  may be in the tool already; that each run was *counted first* and that the *count* stays
  within the limit is. `SuspensionFinal` needs that `evaluate` refuses before it counts once
  suspended. `Implements` maps the count to the budget spent, the entries to the runs and the
  suspension to the shut gate; every action but `CallTool` is a stutter.
  `CompletionsApproved` counts: the approvals in the log are the completions and the tasks
  that are in a tool, so that in no prefix a completion comes first (`Ordered`).
  `ContextRecorded` ties the hash, the entry and the message of each chunk. `AccountsMatch`
  (`AccountsMatchLog`): the monitor's counters are the sizes of two sets of places in the
  log, the scores above zero of a tool (`Scored`) and the low scores with which the log ends
  (`LowTail`); a call adds one place to the first, and to the second adds one, or empties
  it, as its score is low or not. What makes this true is that `evaluate` scores a call above
  zero exactly when no hard check stopped it, so that the log tells them apart.
- `Runtime_proofs`, the audit log. `AuthorVerifies` (`AuthenticLogIsClean`): as long as one
  object wrote everything, the *written* records form one chain under one secret of which
  its memory holds the end (`OwnChain`). The file plays no part in the invariant, so that
  torn writes need no case. `VerifiedWasWritten` needs only that nobody outside can make an HMAC.
  `CleanPrefixBelieved` (`CleanPrefixIsAuthentic`) is an induction along the lines of the
  file, done as the least counterexample (`LeastOf`): two records with one HMAC have one
  predecessor (`ChainIsInjective`), so that a clean prefix and what was written cannot part.
- `Runtime_proofs`, the collector. `EventsOnce` (`EventsLeaveOnce`): what is buffered ends at
  the last event told (`EndsAt`), also when a full buffer has lost its beginning. `KeysCounted`
  (`KeysAreCountedOnce`): the edits told and then the burst have the keys in order
  (`KeysInOrder`); a flush only moves the boundary between the two. `SessionsFramed`: as long
  as no session has stopped under a call, whatever a call or the burst is about to tell
  belongs to a session that is not over (`ISessions`).
- `AgentRegistry_proofs`. `Invariance` is the inductive invariant: types; `Numbering`, the
  versions of an agent are `1..n` and a request about to insert holds a number of at most
  `n + 1`; and `Truths`, whatever a request is carrying was a state of the agent it names.
  `NoGaps` and `HistoryIsTrue` follow. `PresentIsRecorded` (`RowIsInHistory`) adds that
  the present row of a changed agent is in the history or in the hands of the request that
  changed it last. `RestoresReactivate` (`RestoreReactivates`) follows a restore: what it is
  about to fetch has an entry that is not revoked, which stays because the history only
  grows, and if what it fetched is revoked then two entries have one number
  (`OnceIsNotTwice`, by counting).
- `Admission_proofs`. `Invariance` says, of each place in an operation, that what the request
  has read so far held at some moment since the operation began (`ReadWasTrue`,
  `StartWasTrue`), and of a request that started a session that it is over and kept what it
  saw (`Recorded`). That needs `StartIsLast`: were an operation to follow `start`, the
  request would forget what admitted it. A sample's verdict is tied to its enrolment by
  `Numbered`: a later enrolment has a later number, and the UPDATE names the number that was
  read. A step is either a move of one request - it goes on (`GotoInv`), ends an operation
  (`AdvanceInv`) or fails (`AbortInv`) - or a change; every request it does not move keeps
  its invariant because agents are never removed and matches and certificates only grow
  (`Grows`, `OtherInv`). `VerifiedOnlyBySample`, `Admitted` and `SuspendedIdle` follow.
- `HitlGate_proofs`. `DecidedForThatCall` (`OutcomesWereDecided`) rests on three parts that
  hold together: what the table says of a call was decided (`RowsAreTrue`), a session goes on
  past its gate only on such a row (`AllGoOnRightly`), and so every recorded outcome has its
  decision (`EntriesAreTrue`). `FinishedIsListed` (`ListShowsTheSession`) needs that the rows
  named after a session with its own eight characters are that session's (`ListedAreOwn`), so
  that nobody else's `Enqueue` deletes or adds one; what a decision changes is the status.
- `Federation_proofs`. `AccountsForAnswers`: at each step of a query the records before it
  are there, in their order (`ITrace`), and nothing shown is masked in the catalogs it read;
  a stored answer is a traced one. `ReplaysRetries` (`RetryIsReplayed`): a key with an answer
  keeps one until it lapses; who arrives after has been answered or has yet to look, and has
  run nothing (`Replayed`); and every answer, given or stored, was computed by a request that
  has the same key (`FromARun`). So the answer of a retry and that of the request it repeats
  were computed by requests of the key: by one, and then they are equal, or by two. That
  these asked the same call is the condition `UsedForOneCall`, since the key is all `lookup`
  compares.
  `LogVerifies`: while nobody overlapped, the file is one chain under one secret (`Links`)
  and the one writer under way has read its end (`ISerial`).
- `Policies_proofs`. `StandingGatesHold` (`GatesHold`): a gate that has stood since the
  evaluation began was there at its first read, or at its second, whichever looks for its
  kind, and the strongest rule that was read decides. `HistoryRestores`
  (`HistoryCanRestoreIt`) is not inductive for the policies nobody is changing, because a
  change leaves the row before it leaves the history. `ICovered` has it for all: the rule in
  force, and an enabled state, are in a version *or* in what some request is about to record,
  and a request that has yet to read the row again will record whatever the row is then. A
  backup must hold the same of itself (`Saved`), since restoring it puts it in force: a row
  that is at the second read what it was at the first, and that nobody is changing then, is
  covered by the history of that moment, whatever came between (`Whole`). Where no number was
  given twice an entry is fetched by its own (`FetchedByNumber`).
- `Login_proofs`. `SignsInOnce` (`StateSignsInOnce`): a drawn state is in memory, with one
  request, spent or forgotten, and never in two of these places. `OvershootBounded`
  (`OvershootIsBounded`): the failures of an email and the logins that passed its check and
  are about to add one are together less than the limit plus the workers (`IBound`): whoever
  passes the check finds room (`Room`), expiring rows only make more, and inserting one moves
  it from one side to the other. `LockReported`: whoever locks the account is at the step of
  the report, which it leaves by reporting or by a restart (`IReport`).
- `Services_proofs`, the workers. `WorkerRowsTrue` (`WorkerRowsAreTrue`) needs `IJobs`: a job's
  row and its thread agree on where they are, so that the two transactions at the end of a
  job credit a job that was running, and a worker whose job's thread is over is ready again.
  The exception is in the statement: a thread whose last transaction failed is `lost`, and
  its worker stays busy until the rows are replaced. `StatusCountsAll` (`StatusMissesNoJob`): a job not
  counted yet is in a state that `status` has still to ask for (`ToAsk`), because jobs move
  on in the order of its queries.
- `Services_proofs`, the SOC bus. `SocInv` is the invariant for all five properties, with a
  lemma for each action. `ActorsApart` and `DoneWasDone` need that what a request has read
  was of its own case and was done for it (`IPlan`, `IHonest`), since it writes it back later
  over what others wrote. `StoryTold` (`OneCasePerStory`): a request about to open a case
  found none open, so that every correlated case of its actor there is now is over or was
  opened by a request it overlapped; the second is why a request that has ended when it
  begins (`before`) cannot have left one open. `NothingMissed` (`NoMissedCorrelation`): of
  two events that belong together, whoever looks at one once both are stored finds both, as
  long as the actor has no more events than the query reads (`BothFound`), and what was
  found is in a case when the event is settled; `IMissed` says so of any two looks,
  whichever requests make them.

Only model-checked, because the prover has no ENABLED and so no fairness: the three liveness
properties (`CallsReturn`, `AcceptedJobsFinish`, `SessionsFinish`). The refuted statements
of section 3 have nothing to prove.

## 5. What is abstracted, and what is not modelled

Names, arguments, texts and scores are members of small sets; a score is kept exactly in
the session, where its thresholds decide, and in the triage of a case, and is only "enough
or not" elsewhere. Cryptography is ideal. Times are gone except as order, as the ticks of
`Login` and as the distance between events in `SocBus`: a timeout may strike at any poll, and
a certificate's expiry is not in `Admission` because `start_session` does not look at it.
SQLite's serialised writers are assumed in the models of the service; in `HitlGate`
PostgreSQL's aborted transactions are a mode. In `Admission` the rows a containment writes
to the threat feed are left out, and in `HitlGate` the sample rows a reset inserts in
development. A query of `Federation` is the list of catalogs it names, and a result the
columns it shows in clear. What the HTTP calls of `Connectors` do at the other end is a
choice between success and refusal. An exception is followed where the code handles it or
something is left half done by it. It is not where it only ends a request: an entry of the
session's log or an alarm of a login that cannot be written, a tool of the service that
raises past its gate, a policy check of `Federation` that raises. Nor is the API's own log
torn within a line; the runtime's, which is read back with a reader of its own, is.

Not modelled: the vaults (the next in the plan), governance and compliance reports (texts
computed from the tables of others), the ops servers and plugins of the runtime (single
steps of one dictionary that no session reads), the graph builder and the command line
(pure), and the vendored copy, front end and deployment files. The rows of memory are
written by one statement each. `PROJECT.json` says of each component what is left out of it.

## 6. The plan

Done, in this order: the session and its gate, the audit log, the approval of calls, the
worker pool, the registry, admission; the gateway with its audit log, the SOC bus with its
connectors, policies, signing in, the collector; and proofs of every safety property of these.

To do:

1. **Vault** - unlock, lock, set and delete of several objects on one file; a wrong
   passphrase on an unlocked vault. Property: what was stored last is read by who holds the
   passphrase.
2. **Refresh and logout** in Login, with the permissions of a role that changes while its
   tokens are out.
3. **Theorems about both**, and abstract specifications of the registry's history and of the
   SOC bus, to be refined step by step as `ToolGate` is.
