------------------------------- MODULE Lattice -------------------------------
(***************************************************************************)
(* Lattice, the worker pool of the API service                             *)
(* (services/api/app/services/lattice.py): requests that enqueue jobs, the *)
(* threads that run them, requests that scale the pool, requests that read *)
(* its status, and restarts of the server.                                 *)
(*                                                                         *)
(* Requests run in the thread pool of the server.  ensure_pool holds _lock,*)
(* so at most one request scales at a time; _dispatch and _run_job read    *)
(* _executor and _worker_count without it.  A `with get_conn()` block is   *)
(* one transaction; the queries of status see each what is committed when  *)
(* they run.  A ThreadPoolExecutor is a queue and at most max_workers      *)
(* threads; one that is shut down takes no jobs but runs those it has.     *)
(***************************************************************************)
EXTENDS Integers, Sequences, FiniteSets

CONSTANTS
    Jobs,            \* the jobs that are enqueued
    Hash,            \* hash(job_id)
    DefaultWorkers,  \* CLEARFRAME_LATTICE_WORKERS
    MaxWorkers,      \* CLEARFRAME_LATTICE_MAX_WORKERS
    Sizes,           \* the numbers of workers requests ask for
    NoRow, Free,
    MaxScales,       \* bound: requests that scale
    MaxFaults,       \* bound: transactions that fail
    MaxRestarts      \* bound: restarts of the server

ASSUME LatticeAssumption ==
    /\ Hash \in [Jobs -> Int]
    /\ MaxWorkers \in Nat \ {0}
    /\ DefaultWorkers \in 1..MaxWorkers
    /\ Sizes \subseteq Int
    /\ {MaxScales, MaxFaults, MaxRestarts} \subseteq Nat

VARIABLES
    count,           \* _worker_count
    pools,           \* the executors made so far; _executor is the last
    lock,            \* what the holder of _lock does next, and with how many workers
    request,         \* what each enqueue request is doing
    handle,          \* the executor each request has read
    thread,          \* what _run_job is doing with each job
    worker,          \* the worker_id _run_job chose for each job
    jobs,            \* table lattice_jobs: column status
    rows,            \* table lattice_workers
    reader,          \* a request for status: its next query, the jobs it is still to count
    scales, faults, restarts   \* history: how often each happened

poolVars == <<count, pools, lock>>
requestVars == <<request, handle>>
jobTables == <<jobs, rows>>
history == <<scales, faults, restarts>>
latticeVars == <<count, pools, lock, request, handle, thread, worker, jobs, rows, reader,
                scales, faults, restarts>>

WorkerIds == 1..MaxWorkers
ClampAbove(n) == IF n > MaxWorkers THEN MaxWorkers ELSE n
Clamp(n) == IF n < 1 THEN 1 ELSE IF n > MaxWorkers THEN MaxWorkers ELSE n

Pool(n) == [open |-> TRUE, size |-> n, queue |-> <<>>]
Executor == Len(pools)

(* lattice_workers as ensure_pool leaves it. *)
FreshRows(n) ==
    [w \in WorkerIds |-> IF w <= n THEN [status |-> "ready", done |-> 0] ELSE NoRow]

(* UPDATE lattice_workers ... WHERE worker_id = w *)
Update(w, status, more) ==
    IF rows[w] = NoRow THEN rows
    ELSE [rows EXCEPT ![w] = [status |-> status, done |-> @.done + more]]

LatticeInit ==
    /\ count = DefaultWorkers
    /\ pools = <<Pool(DefaultWorkers)>>
    /\ lock = Free
    /\ request = [j \in Jobs |-> "none"]
    /\ handle = [j \in Jobs |-> 0]
    /\ thread = [j \in Jobs |-> "none"]
    /\ worker = [j \in Jobs |-> 1]
    /\ jobs = [j \in Jobs |-> "none"]
    /\ rows = FreshRows(DefaultWorkers)
    /\ reader = [next |-> 0, uncounted |-> {}]
    /\ scales = 0 /\ faults = 0 /\ restarts = 0

-----------------------------------------------------------------------------
(* enqueue: the row is inserted, then _dispatch submits the job. *)
Insert(j) ==
    /\ request[j] = "none"
    /\ jobs[j] = "none"
    /\ request' = [request EXCEPT ![j] = "inserted"]
    /\ jobs' = [jobs EXCEPT ![j] = "queued"]
    /\ UNCHANGED <<poolVars, handle, thread, worker, rows, reader, history>>

ReadExecutor(j) ==
    /\ request[j] = "inserted"
    /\ request' = [request EXCEPT ![j] = "dispatching"]
    /\ handle' = [handle EXCEPT ![j] = Executor]
    /\ UNCHANGED <<poolVars, thread, worker, jobTables, reader, history>>

(* submit: an executor that is shut down raises RuntimeError. *)
Submit(j) ==
    /\ request[j] = "dispatching"
    /\ \/ /\ pools[handle[j]].open
          /\ pools' = [pools EXCEPT ![handle[j]].queue = Append(@, j)]
          /\ thread' = [thread EXCEPT ![j] = "waiting"]
          /\ request' = [request EXCEPT ![j] = "returned"]
       \/ /\ ~pools[handle[j]].open
          /\ request' = [request EXCEPT ![j] = "raised"]
          /\ UNCHANGED <<pools, thread>>
    /\ UNCHANGED <<count, lock, handle, worker, jobTables, reader, history>>

-----------------------------------------------------------------------------
(* _run_job.  A thread takes the first job and chooses a worker_id ...       *)
Busy(p) == {j \in Jobs : handle[j] = p /\ thread[j] \in {"taken", "running"}}

Take(j) ==
    LET p == handle[j]
    IN  /\ thread[j] = "waiting"
        /\ Cardinality(Busy(p)) < pools[p].size
        /\ pools[p].queue # <<>>
        /\ Head(pools[p].queue) = j
        /\ pools' = [pools EXCEPT ![p].queue = Tail(@)]
        /\ thread' = [thread EXCEPT ![j] = "taken"]
        /\ worker' = [worker EXCEPT ![j] = (Hash[j] % count) + 1]
        /\ UNCHANGED <<count, lock, requestVars, jobTables, reader, history>>

(* ... marks both rows, outside of the try block ...                         *)
Start(j) ==
    /\ thread[j] = "taken"
    /\ thread' = [thread EXCEPT ![j] = "running"]
    /\ jobs' = [jobs EXCEPT ![j] = "running"]
    /\ rows' = Update(worker[j], "busy", 0)
    /\ UNCHANGED <<poolVars, requestVars, worker, reader, history>>

StartFails(j) ==
    /\ thread[j] = "taken"
    /\ faults < MaxFaults
    /\ faults' = faults + 1
    /\ thread' = [thread EXCEPT ![j] = "over"]
    /\ UNCHANGED <<poolVars, requestVars, worker, jobTables, reader, scales, restarts>>

(* ... and, when the work is done, marks them again.                         *)
FinishOnWorkerOfNow(j) ==
    /\ thread[j] = "running"
    /\ thread' = [thread EXCEPT ![j] = "over"]
    /\ jobs' = [jobs EXCEPT ![j] = "completed"]
    /\ rows' = Update((Hash[j] % count) + 1, "ready", 1)
    /\ UNCHANGED <<poolVars, requestVars, worker, reader, history>>

Finish(j) ==
    /\ thread[j] = "running"
    /\ thread' = [thread EXCEPT ![j] = "over"]
    /\ jobs' = [jobs EXCEPT ![j] = "completed"]
    /\ rows' = Update(worker[j], "ready", 1)
    /\ UNCHANGED <<poolVars, requestVars, worker, reader, history>>

(* The work, or the transaction that says it is done, raises. *)
Fail(j) ==
    /\ thread[j] = "running"
    /\ thread' = [thread EXCEPT ![j] = "over"]
    /\ jobs' = [jobs EXCEPT ![j] = "failed"]
    /\ rows' = Update(worker[j], "ready", 0)
    /\ UNCHANGED <<poolVars, requestVars, worker, reader, history>>

(* The transaction of the except block raises as well: the thread is over   *)
(* and both rows stay as they are.                                          *)
FailFails(j) ==
    /\ thread[j] = "running"
    /\ faults < MaxFaults
    /\ faults' = faults + 1
    /\ thread' = [thread EXCEPT ![j] = "lost"]
    /\ UNCHANGED <<poolVars, requestVars, worker, jobTables, reader, scales, restarts>>
-----------------------------------------------------------------------------
(* ensure_pool, one step per statement that others see, with _lock held.     *)
ScaleCancelling(n) ==
    /\ lock = Free
    /\ scales < MaxScales
    /\ scales' = scales + 1
    /\ lock' = [step |-> "replace", size |-> Clamp(n)]
    /\ pools' = [pools EXCEPT ![Executor].open = FALSE, ![Executor].queue = <<>>]
    /\ UNCHANGED <<count, requestVars, thread, worker, jobTables, reader, faults, restarts>>

Scale(n) ==
    /\ lock = Free
    /\ scales < MaxScales
    /\ scales' = scales + 1
    /\ lock' = [step |-> "replace", size |-> Clamp(n)]
    /\ pools' = [pools EXCEPT ![Executor].open = FALSE]
    /\ UNCHANGED <<count, requestVars, thread, worker, jobTables, reader, faults, restarts>>

ReplaceExecutor ==
    /\ lock # Free
    /\ lock.step = "replace"
    /\ lock' = [lock EXCEPT !.step = "count"]
    /\ pools' = Append(pools, Pool(lock.size))
    /\ UNCHANGED <<count, requestVars, thread, worker, jobTables, reader, history>>

SetCount ==
    /\ lock # Free
    /\ lock.step = "count"
    /\ lock' = [lock EXCEPT !.step = "rows"]
    /\ count' = lock.size
    /\ UNCHANGED <<pools, requestVars, thread, worker, jobTables, reader, history>>

(* The transaction that replaces the workers' rows, which may fail. *)
ReplaceRows ==
    /\ lock # Free
    /\ lock.step = "rows"
    /\ lock' = Free
    /\ \/ /\ rows' = FreshRows(lock.size)
          /\ UNCHANGED faults
       \/ /\ faults < MaxFaults
          /\ faults' = faults + 1
          /\ UNCHANGED rows
    /\ UNCHANGED <<count, pools, requestVars, thread, worker, jobs, reader, scales, restarts>>

-----------------------------------------------------------------------------
(* status counts the jobs in each state, one query after the other. *)
QueryOrderFinishedFirst == <<"completed", "failed", "running", "queued">>
QueryOrder == <<"queued", "running", "completed", "failed">>

BeginStatus ==
    /\ reader.next = 0
    /\ reader' = [next |-> 1, uncounted |-> {j \in Jobs : jobs[j] # "none"}]
    /\ UNCHANGED <<poolVars, requestVars, thread, worker, jobTables, history>>

CountNext ==
    /\ reader.next \in 1..4
    /\ reader' = [reader EXCEPT
                    !.next = @ + 1,
                    !.uncounted = {j \in @ : jobs[j] # QueryOrder[reader.next]}]
    /\ UNCHANGED <<poolVars, requestVars, thread, worker, jobTables, history>>

EndStatus ==
    /\ reader.next = 5
    /\ reader' = [next |-> 0, uncounted |-> {}]
    /\ UNCHANGED <<poolVars, requestVars, thread, worker, jobTables, history>>

-----------------------------------------------------------------------------
(* The server stops and starts again: init_lattice_db makes a pool and the   *)
(* workers' rows, and leaves the jobs' rows as they are.                     *)
Restart ==
    /\ restarts < MaxRestarts
    /\ restarts' = restarts + 1
    /\ count' = DefaultWorkers
    /\ pools' = <<Pool(DefaultWorkers)>>
    /\ lock' = Free
    /\ request' = [j \in Jobs |-> IF request[j] \in {"inserted", "dispatching"}
                                  THEN "raised" ELSE request[j]]
    /\ handle' = [j \in Jobs |-> 0]
    /\ thread' = [j \in Jobs |-> IF thread[j] = "none" THEN "none" ELSE "over"]
    /\ rows' = FreshRows(DefaultWorkers)
    /\ reader' = [next |-> 0, uncounted |-> {}]
    /\ UNCHANGED <<worker, jobs, scales, faults>>

RunJob(j) == Take(j) \/ Start(j) \/ Finish(j) \/ Fail(j)

LatticeNext ==
    \/ \E j \in Jobs :
          \/ Insert(j) \/ ReadExecutor(j) \/ Submit(j)
          \/ RunJob(j) \/ StartFails(j) \/ FailFails(j)
    \/ \E n \in Sizes : Scale(n)
    \/ ReplaceExecutor \/ SetCount \/ ReplaceRows
    \/ BeginStatus \/ CountNext \/ EndStatus
    \/ Restart

LatticeSpec == LatticeInit /\ [][LatticeNext]_latticeVars

(* Threads run, and the work on a job ends. *)
LatticeFairSpec == LatticeSpec /\ \A j \in Jobs : WF_latticeVars(RunJob(j))

-----------------------------------------------------------------------------
Statuses == {"none", "queued", "running", "completed", "failed"}

(* Types of every variable; a pool has at least one worker and a request     *)
(* holds an executor that exists.                                            *)
LatticeTypeOK ==
    /\ count \in WorkerIds
    /\ pools \in Seq([open : BOOLEAN, size : WorkerIds, queue : Seq(Jobs)])
    /\ lock \in {Free} \cup [step : {"replace", "count", "rows"}, size : WorkerIds]
    /\ request \in [Jobs -> {"none", "inserted", "dispatching", "returned", "raised"}]
    /\ handle \in [Jobs -> 0..Len(pools)]
    /\ thread \in [Jobs -> {"none", "waiting", "taken", "running", "lost", "over"}]
    /\ worker \in [Jobs -> WorkerIds]
    /\ jobs \in [Jobs -> Statuses]
    /\ rows \in [WorkerIds -> {NoRow} \cup [status : {"ready", "busy"}, done : Nat]]
    /\ reader \in [next : 0..5, uncounted : SUBSET Jobs]
    /\ <<scales, faults, restarts>> \in (0..MaxScales) \X (0..MaxFaults) \X (0..MaxRestarts)

(* A worker shown as busy has a thread that runs a job of its, so that it    *)
(* will be ready again; or it had one whose last transaction, that of the    *)
(* except block, failed.  Nothing else leaves a worker busy for good: no     *)
(* scaling, no job that raises, no other transaction that fails and no       *)
(* restart (lattice.py:166, 222, 226, 232).                                  *)
BusyWorkerRunsAJob ==
    \A w \in WorkerIds :
        rows[w] # NoRow /\ rows[w].status = "busy"
          => \E j \in Jobs : /\ worker[j] = w /\ jobs[j] = "running"
                             /\ thread[j] \in {"running", "lost"}

(* The jobs a worker is credited with are completed jobs under its name,     *)
(* also when the pool is scaled while they run (lattice.py:159, 222).        *)
CreditedJobsAreCompleted ==
    \A w \in WorkerIds :
        rows[w] # NoRow
          => rows[w].done <= Cardinality({j \in Jobs : jobs[j] = "completed" /\ worker[j] = w})

(* Both: what the rows say of the workers is true of threads and jobs.       *)
WorkerRowsAreTrue == BusyWorkerRunsAJob /\ CreditedJobsAreCompleted

(* status counts every job there was when it began at least once, although   *)
(* jobs move on between its queries (lattice.py:80-83).                      *)
StatusMissesNoJob == reader.next = 5 => reader.uncounted = {}

(* A job whose request was answered is completed or failed in the end,       *)
(* however the pool is scaled meanwhile, unless a transaction fails or the   *)
(* server is restarted (lattice.py:4, "jobs queue and drain across the       *)
(* pool").                                                                   *)
AcceptedJobsFinish ==
    \A j \in Jobs :
        request[j] = "returned"
          ~> jobs[j] \in {"completed", "failed"} \/ faults > 0 \/ restarts > 0

-----------------------------------------------------------------------------
(* A claim of the documentation that the code does not keep: lattice.py:4,   *)
(* "operators scale Lattice workers up/down; jobs queue and drain across the *)
(* pool".  A job that is queued is in the hands of its request, of an        *)
(* executor or of a thread, unless a transaction failed or the server was    *)
(* restarted.                                                                *)
QueuedJobsAreHeld ==
    \A j \in Jobs :
        jobs[j] = "queued" /\ faults = 0 /\ restarts = 0
          => request[j] # "raised"
=============================================================================
