--------------------------- MODULE Services_proofs ---------------------------
(***************************************************************************)
(* Theorems about two services of the API that work on their own: the pool *)
(* of lattice workers (Lattice), for every set of jobs, every hash, every  *)
(* number of workers and any number of restarts; and the SOC bus (SocBus), *)
(* for any requests, events, rules and plans.                              *)
(***************************************************************************)
EXTENDS Lattice, SocBus, SequenceTheorems, FiniteSetTheorems, WellFoundedInduction, TLAPS

-----------------------------------------------------------------------------
(* The lattice workers.                                                    *)

(* A job's row follows its request and its thread: the thread chooses a    *)
(* worker only while the row is queued, and what it credits was running.   *)
(* A thread keeps its worker busy while it runs, and if it is lost.        *)
Holding == {"running", "lost"}
IJobs ==
    \A j \in Jobs :
        /\ request[j] \in {"none", "inserted", "dispatching"} => thread[j] = "none"
        /\ thread[j] \in {"none", "waiting", "taken"} => jobs[j] \in {"none", "queued"}
        /\ thread[j] \in Holding => jobs[j] = "running"

(* Only so many jobs were ever enqueued, however many there may be.        *)
Enqueued == {j \in Jobs : jobs[j] # "none"}
DoneBy(w) == {j \in Jobs : jobs[j] = "completed" /\ worker[j] = w}

(* What status has yet to ask for: jobs only move on in this order.        *)
ToAsk(n) == {QueryOrder[i] : i \in n..4}
IReader == reader.next # 0 => \A j \in reader.uncounted : jobs[j] \in ToAsk(reader.next)

APool == [open : BOOLEAN, size : WorkerIds, queue : Seq(Jobs)]
WorkerRow == [status : {"ready", "busy"}, done : Nat]
Rows == [WorkerIds -> {NoRow} \cup WorkerRow]

LEMMA NewPool ==
  ASSUME NEW n \in WorkerIds
  PROVE  Pool(n) \in APool /\ FreshRows(n) \in Rows
<1>1. <<>> \in Seq(Jobs)
  BY EmptySeq
<1>2. Pool(n) \in APool
  BY <1>1 DEF Pool, APool
<1>3. \A w \in WorkerIds :
         (IF w <= n THEN [status |-> "ready", done |-> 0] ELSE NoRow) \in {NoRow} \cup WorkerRow
  BY DEF WorkerRow
<1> QED BY <1>2, <1>3 DEF FreshRows, Rows

LEMMA UpdateTyped ==
  ASSUME rows \in Rows, NEW w \in WorkerIds, NEW s \in {"ready", "busy"}, NEW n \in Nat
  PROVE  /\ Update(w, s, n) \in Rows
         /\ \A v \in WorkerIds \ {w} : Update(w, s, n)[v] = rows[v]
         /\ rows[w] = NoRow => Update(w, s, n)[w] = NoRow
         /\ rows[w] # NoRow => /\ Update(w, s, n)[w].status = s
                               /\ Update(w, s, n)[w].done = rows[w].done + n
<1>1. CASE rows[w] = NoRow
  BY <1>1 DEF Update, Rows
<1>2. CASE rows[w] # NoRow
  <2>1. rows[w] \in WorkerRow
    BY <1>2 DEF Rows
  <2>2. [status |-> s, done |-> rows[w].done + n] \in WorkerRow
    BY <2>1 DEF WorkerRow
  <2>3. Update(w, s, n) = [rows EXCEPT ![w] = [status |-> s, done |-> rows[w].done + n]]
    BY <1>2 DEF Update
  <2> QED BY <1>2, <2>2, <2>3 DEF Rows
<1> QED BY <1>1, <1>2

LEMMA WorkerOf ==
  ASSUME LatticeTypeOK, NEW j \in Jobs
  PROVE  (Hash[j] % count) + 1 \in WorkerIds
<1>1. Hash[j] \in Int /\ count \in 1..MaxWorkers /\ MaxWorkers \in Nat
  BY LatticeAssumption DEF LatticeTypeOK, WorkerIds
<1>2. Hash[j] % count \in 0..(count - 1)
  BY <1>1
<1> QED BY <1>1, <1>2 DEF WorkerIds

LEMMA ClampTyped ==
  ASSUME NEW n \in Sizes
  PROVE  Clamp(n) \in WorkerIds
  BY LatticeAssumption DEF Clamp, WorkerIds

(* Giving one field of the p-th pool another value.                        *)
LEMMA PoolsTyped ==
  ASSUME pools \in Seq(APool), NEW p, NEW v,
         p \in 1..Len(pools) => v \in APool
  PROVE  [pools EXCEPT ![p] = v] \in Seq(APool) /\ Len([pools EXCEPT ![p] = v]) = Len(pools)
<1>1. CASE p \in 1..Len(pools)
  BY <1>1, ExceptSeq
<1>2. CASE p \notin 1..Len(pools)
  <2>1. [pools EXCEPT ![p] = v] = pools
    BY <1>2, LenProperties
  <2> QED BY <2>1
<1> QED BY <1>1, <1>2

LEMMA LatticeInitType == LatticeInit => LatticeTypeOK
<1> SUFFICES ASSUME LatticeInit PROVE LatticeTypeOK
  OBVIOUS
<1>1. DefaultWorkers \in WorkerIds /\ 1 \in WorkerIds
  BY LatticeAssumption DEF WorkerIds
<1>2. Pool(DefaultWorkers) \in APool /\ rows \in Rows
  BY <1>1, NewPool DEF LatticeInit
<1>3. pools \in Seq(APool) /\ Len(pools) = 1
  BY <1>2 DEF LatticeInit
<1>4. reader \in [next : 0..5, uncounted : SUBSET Jobs]
  BY DEF LatticeInit
<1>5. <<scales, faults, restarts>> \in (0..MaxScales) \X (0..MaxFaults) \X (0..MaxRestarts)
  BY LatticeAssumption DEF LatticeInit
<1> QED BY <1>1, <1>2, <1>3, <1>4, <1>5
        DEF LatticeInit, LatticeTypeOK, Statuses, APool, Rows, WorkerRow

(* The types, one conjunct each; a step disturbs a few of them.            *)
LatticeTypes ==
    /\ count \in WorkerIds
    /\ pools \in Seq(APool)
    /\ lock \in {Free} \cup [step : {"replace", "count", "rows"}, size : WorkerIds]
    /\ request \in [Jobs -> {"none", "inserted", "dispatching", "returned", "raised"}]
    /\ handle \in [Jobs -> 0..Len(pools)]
    /\ thread \in [Jobs -> {"none", "waiting", "taken", "running", "lost", "over"}]
    /\ worker \in [Jobs -> WorkerIds]
    /\ jobs \in [Jobs -> Statuses]
    /\ rows \in Rows
    /\ reader \in [next : 0..5, uncounted : SUBSET Jobs]
    /\ scales \in 0..MaxScales /\ faults \in 0..MaxFaults /\ restarts \in 0..MaxRestarts

LEMMA LatticeTypesAre == LatticeTypes <=> LatticeTypeOK
  BY DEF LatticeTypes, LatticeTypeOK, APool, Rows, WorkerRow

LEMMA RequestType ==
  ASSUME LatticeTypes, NEW j \in Jobs, Insert(j) \/ ReadExecutor(j) \/ Submit(j)
  PROVE  LatticeTypes'
<1>1. CASE Insert(j)
  BY <1>1 DEF Insert, LatticeTypes, Statuses, poolVars, history, APool, Rows, WorkerRow
<1>2. CASE ReadExecutor(j)
  <2>1. Len(pools) \in 0..Len(pools)
    BY LenProperties DEF LatticeTypes
  <2>2. handle' \in [Jobs -> 0..Len(pools)]
    BY <1>2, <2>1 DEF ReadExecutor, Executor, LatticeTypes
  <2> QED BY <1>2, <2>2 DEF ReadExecutor, LatticeTypes, poolVars, jobTables, history,
          APool, Rows, WorkerRow, Statuses
<1>3. CASE Submit(j)
  <2>1. pools' \in Seq(APool) /\ Len(pools') = Len(pools)
    <3>1. ASSUME pools' = [pools EXCEPT ![handle[j]].queue = Append(@, j)]
          PROVE  pools' \in Seq(APool) /\ Len(pools') = Len(pools)
      <4> DEFINE p == handle[j]
                 v == [pools[p] EXCEPT !.queue = Append(@, j)]
      <4>1. ASSUME p \in 1..Len(pools) PROVE v \in APool
        <5>1. pools[p] \in APool
          BY <4>1, ElementOfSeq DEF LatticeTypes
        <5>2. Append(pools[p].queue, j) \in Seq(Jobs)
          BY <5>1, AppendProperties DEF APool
        <5> QED BY <5>1, <5>2 DEF APool
      <4>2. pools' = [pools EXCEPT ![p] = v]
        BY <3>1
      <4> HIDE DEF v
      <4> QED BY <4>1, <4>2, PoolsTyped DEF LatticeTypes
    <3> QED BY <1>3, <3>1 DEF Submit, LatticeTypes
  <2>2. thread' \in [Jobs -> {"none", "waiting", "taken", "running", "lost", "over"}]
        /\ request' \in [Jobs -> {"none", "inserted", "dispatching", "returned", "raised"}]
    BY <1>3 DEF Submit, LatticeTypes
  <2> QED BY <1>3, <2>1, <2>2 DEF Submit, LatticeTypes, jobTables, history,
          APool, Rows, WorkerRow, Statuses
<1> QED BY <1>1, <1>2, <1>3

LEMMA ThreadType ==
  ASSUME LatticeTypes, NEW j \in Jobs, RunJob(j) \/ StartFails(j) \/ FailFails(j)
  PROVE  LatticeTypes'
<1>w. \A s \in {"ready", "busy"}, n \in Nat : Update(worker[j], s, n) \in Rows
  BY UpdateTyped DEF LatticeTypes
<1>1. CASE Take(j)
  <2> DEFINE p == handle[j]
             v == [pools[p] EXCEPT !.queue = Tail(@)]
  <2>1. ASSUME p \in 1..Len(pools) PROVE v \in APool
    <3>1. pools[p] \in APool
      BY <2>1, ElementOfSeq DEF LatticeTypes
    <3>2. pools[p].queue \in Seq(Jobs) /\ pools[p].queue # <<>>
      BY <1>1, <3>1 DEF Take, APool
    <3>3. Tail(pools[p].queue) \in Seq(Jobs)
      BY <3>2, HeadTailProperties
    <3> QED BY <3>1, <3>3 DEF APool
  <2>2. pools' = [pools EXCEPT ![p] = v]
    BY <1>1 DEF Take
  <2> HIDE DEF v
  <2>3. pools' \in Seq(APool) /\ Len(pools') = Len(pools)
    BY <2>1, <2>2, PoolsTyped DEF LatticeTypes
  <2>4. worker' \in [Jobs -> WorkerIds]
    BY <1>1, LatticeTypesAre, WorkerOf DEF Take, LatticeTypes
  <2>5. thread' \in [Jobs -> {"none", "waiting", "taken", "running", "lost", "over"}]
    BY <1>1 DEF Take, LatticeTypes
  <2> QED BY <1>1, <2>3, <2>4, <2>5 DEF Take, LatticeTypes, requestVars, jobTables, history,
          APool, Rows, WorkerRow, Statuses
<1>2. CASE Start(j) \/ Finish(j) \/ Fail(j)
  <2>1. rows' \in Rows
    BY <1>2, <1>w DEF Start, Finish, Fail
  <2>2. thread' \in [Jobs -> {"none", "waiting", "taken", "running", "lost", "over"}]
        /\ jobs' \in [Jobs -> Statuses]
    BY <1>2 DEF Start, Finish, Fail, LatticeTypes, Statuses
  <2> QED BY <1>2, <2>1, <2>2 DEF Start, Finish, Fail, LatticeTypes, poolVars, requestVars,
          history, APool, Rows, WorkerRow, Statuses
<1>3. CASE StartFails(j) \/ FailFails(j)
  <2>1. thread' \in [Jobs -> {"none", "waiting", "taken", "running", "lost", "over"}]
    BY <1>3 DEF StartFails, FailFails, LatticeTypes
  <2>2. faults' \in 0..MaxFaults
    BY <1>3, LatticeAssumption DEF StartFails, FailFails, LatticeTypes
  <2> QED BY <1>3, <2>1, <2>2 DEF StartFails, FailFails, LatticeTypes, poolVars, requestVars,
          jobTables, APool, Rows, WorkerRow, Statuses
<1> QED BY <1>1, <1>2, <1>3 DEF RunJob

LEMMA PoolType ==
  ASSUME LatticeTypes, (\E n \in Sizes : Scale(n)) \/ ReplaceExecutor \/ SetCount \/ ReplaceRows
  PROVE  LatticeTypes'
<1>1. ASSUME NEW n \in Sizes, Scale(n) PROVE LatticeTypes'
  <2> DEFINE p == Executor
             v == [pools[p] EXCEPT !.open = FALSE]
  <2>1. ASSUME p \in 1..Len(pools) PROVE v \in APool
    <3>1. pools[p] \in APool
      BY <2>1, ElementOfSeq DEF LatticeTypes
    <3> QED BY <3>1 DEF APool
  <2>2. pools' = [pools EXCEPT ![p] = v]
    BY <1>1 DEF Scale
  <2> HIDE DEF v
  <2>3. pools' \in Seq(APool) /\ Len(pools') = Len(pools)
    BY <2>1, <2>2, PoolsTyped DEF LatticeTypes
  <2>4. lock' \in [step : {"replace", "count", "rows"}, size : WorkerIds]
    BY <1>1, ClampTyped DEF Scale
  <2>5. scales' \in 0..MaxScales
    BY <1>1, LatticeAssumption DEF Scale, LatticeTypes
  <2> QED BY <1>1, <2>3, <2>4, <2>5 DEF Scale, LatticeTypes, requestVars, jobTables,
          APool, Rows, WorkerRow, Statuses
<1>h. lock # Free => lock \in [step : {"replace", "count", "rows"}, size : WorkerIds]
  BY DEF LatticeTypes
<1>2. CASE ReplaceExecutor
  <2>1. Pool(lock.size) \in APool
    BY <1>2, <1>h, NewPool DEF ReplaceExecutor
  <2>2. pools' \in Seq(APool) /\ Len(pools') = Len(pools) + 1 /\ Len(pools) \in Nat
    BY <1>2, <2>1, AppendProperties, LenProperties DEF ReplaceExecutor, LatticeTypes
  <2>3. handle' \in [Jobs -> 0..Len(pools')]
    BY <1>2, <2>2 DEF ReplaceExecutor, requestVars, LatticeTypes
  <2>4. lock' \in [step : {"replace", "count", "rows"}, size : WorkerIds]
    BY <1>2, <1>h DEF ReplaceExecutor
  <2> QED BY <1>2, <2>2, <2>3, <2>4 DEF ReplaceExecutor, LatticeTypes, requestVars, jobTables,
          history, APool, Rows, WorkerRow, Statuses
<1>3. CASE SetCount
  <2>1. lock' \in [step : {"replace", "count", "rows"}, size : WorkerIds] /\ count' \in WorkerIds
    BY <1>3, <1>h DEF SetCount
  <2> QED BY <1>3, <2>1 DEF SetCount, LatticeTypes, requestVars, jobTables,
          history, APool, Rows, WorkerRow, Statuses
<1>4. CASE ReplaceRows
  <2>1. rows' \in Rows
    BY <1>4, <1>h, NewPool DEF ReplaceRows, LatticeTypes
  <2>2. faults' \in 0..MaxFaults /\ lock' = Free
    BY <1>4, LatticeAssumption DEF ReplaceRows, LatticeTypes
  <2> QED BY <1>4, <2>1, <2>2 DEF ReplaceRows, LatticeTypes, requestVars,
          APool, Rows, WorkerRow, Statuses
<1> QED BY <1>1, <1>2, <1>3, <1>4

LEMMA ServerType ==
  ASSUME LatticeTypes, BeginStatus \/ CountNext \/ EndStatus \/ Restart
  PROVE  LatticeTypes'
<1>1. CASE BeginStatus \/ CountNext \/ EndStatus
  <2>1. reader' \in [next : 0..5, uncounted : SUBSET Jobs]
    <3>0. reader \in [next : 0..5, uncounted : SUBSET Jobs]
      BY DEF LatticeTypes
    <3>1. CASE BeginStatus
      BY <3>1 DEF BeginStatus
    <3>2. CASE EndStatus
      BY <3>2 DEF EndStatus
    <3>3. CASE CountNext
      <4> DEFINE left == {j \in reader.uncounted : jobs[j] # QueryOrder[reader.next]}
      <4>1. left \in SUBSET Jobs /\ reader.next + 1 \in 0..5
        BY <3>0, <3>3 DEF CountNext
      <4>2. reader' = [reader EXCEPT !.next = reader.next + 1, !.uncounted = left]
        BY <3>3 DEF CountNext
      <4> HIDE DEF left
      <4> QED BY <3>0, <4>1, <4>2
    <3> QED BY <1>1, <3>1, <3>2, <3>3
  <2> QED BY <1>1, <2>1 DEF BeginStatus, CountNext, EndStatus, LatticeTypes, poolVars,
          requestVars, jobTables, history, APool, Rows, WorkerRow, Statuses
<1>2. CASE Restart
  <2>1. DefaultWorkers \in WorkerIds
    BY LatticeAssumption DEF WorkerIds
  <2>2. rows' \in Rows /\ Pool(DefaultWorkers) \in APool
    BY <1>2, <2>1, NewPool DEF Restart
  <2>3. pools' \in Seq(APool) /\ Len(pools') = 1
    BY <1>2, <2>2 DEF Restart
  <2>4. request' \in [Jobs -> {"none", "inserted", "dispatching", "returned", "raised"}]
        /\ thread' \in [Jobs -> {"none", "waiting", "taken", "running", "lost", "over"}]
        /\ handle' \in [Jobs -> 0..Len(pools')]
        /\ reader' \in [next : 0..5, uncounted : SUBSET Jobs]
    BY <1>2, <2>3 DEF Restart, LatticeTypes
  <2>5. restarts' \in 0..MaxRestarts
    BY <1>2, LatticeAssumption DEF Restart, LatticeTypes
  <2> QED BY <1>2, <2>1, <2>2, <2>3, <2>4, <2>5 DEF Restart, LatticeTypes, APool, Rows,
          WorkerRow, Statuses
<1> QED BY <1>1, <1>2

LEMMA LatticeNextType == LatticeTypes /\ [LatticeNext]_latticeVars => LatticeTypes'
<1>1. LatticeTypes /\ UNCHANGED latticeVars => LatticeTypes'
  BY DEF latticeVars, LatticeTypes, APool, Rows, WorkerRow, Statuses
<1> QED BY <1>1, RequestType, ThreadType, PoolType, ServerType DEF LatticeNext

(* Pools, workers' rows, jobs and requests stay well formed, however many  *)
(* workers are asked for and whatever fails.                               *)
THEOREM LatticeTypeCorrect == LatticeSpec => []LatticeTypeOK
<1>1. LatticeInit => LatticeTypes
  BY LatticeInitType, LatticeTypesAre
<1> QED BY <1>1, LatticeNextType, LatticeTypesAre, PTL DEF LatticeSpec

LEMMA JobsFollow ==
  ASSUME LatticeTypes, IJobs, [LatticeNext]_latticeVars
  PROVE  IJobs'
<1>0. /\ request \in [Jobs -> {"none", "inserted", "dispatching", "returned", "raised"}]
      /\ thread \in [Jobs -> {"none", "waiting", "taken", "running", "lost", "over"}]
      /\ jobs \in [Jobs -> Statuses]
  BY DEF LatticeTypes
<1>s. ASSUME UNCHANGED <<request, thread, jobs>> PROVE IJobs'
  BY <1>s DEF IJobs
<1>1. ASSUME NEW j \in Jobs, Insert(j) \/ ReadExecutor(j) \/ Submit(j) PROVE IJobs'
  BY <1>0, <1>1 DEF Insert, ReadExecutor, Submit, IJobs, Holding, jobTables
<1>2. ASSUME NEW j \in Jobs, RunJob(j) \/ StartFails(j) \/ FailFails(j) PROVE IJobs'
  BY <1>0, <1>2 DEF RunJob, Take, Start, Finish, Fail, StartFails, FailFails, IJobs, Holding, jobTables,
     requestVars
<1>3. CASE (\E n \in Sizes : Scale(n)) \/ ReplaceExecutor \/ SetCount \/ ReplaceRows
           \/ BeginStatus \/ CountNext \/ EndStatus
  BY <1>3, <1>s DEF Scale, ReplaceExecutor, SetCount, ReplaceRows, BeginStatus, CountNext,
     EndStatus, requestVars, jobTables
<1>4. CASE Restart
  BY <1>0, <1>4 DEF Restart, IJobs, Holding
<1>5. CASE UNCHANGED latticeVars
  BY <1>5, <1>s DEF latticeVars
<1> QED BY <1>1, <1>2, <1>3, <1>4, <1>5 DEF LatticeNext

(* A step changes the row of one job at most.                              *)
LEMMA EnqueuedFinite ==
  ASSUME LatticeTypes, IsFiniteSet(Enqueued), [LatticeNext]_latticeVars
  PROVE  IsFiniteSet(Enqueued)'
<1>0. jobs \in [Jobs -> Statuses]
  BY DEF LatticeTypes
<1>1. ASSUME NEW j \in Jobs, \A i \in Jobs \ {j} : jobs'[i] = jobs[i]
      PROVE  IsFiniteSet(Enqueued')
  <2>1. Enqueued' \subseteq Enqueued \cup {j}
    BY <1>1 DEF Enqueued
  <2> QED BY <2>1, FS_AddElement, FS_Subset
<1>4. ASSUME NEW j \in Jobs, Insert(j) \/ ReadExecutor(j) \/ Submit(j) \/ RunJob(j)
                              \/ StartFails(j) \/ FailFails(j)
      PROVE  IsFiniteSet(Enqueued')
  <2>1. \A i \in Jobs \ {j} : jobs'[i] = jobs[i]
    BY <1>0, <1>4 DEF Insert, ReadExecutor, Submit, RunJob, Take, Start, Finish, Fail, StartFails,
       FailFails, jobTables
  <2> QED BY <1>1, <2>1
<1>5. CASE UNCHANGED jobs
  BY <1>5 DEF Enqueued
<1> QED BY <1>4, <1>5 DEF LatticeNext, Scale, ReplaceExecutor, SetCount, ReplaceRows,
        BeginStatus, CountNext, EndStatus, Restart, jobTables, latticeVars

(* A step leaves true what the row of w says, if the row stays or is fresh *)
(* and the jobs of w, and who runs them, stay.                             *)
Truth(w) ==
    rows[w] # NoRow =>
        /\ rows[w].status = "busy" =>
             \E j \in Jobs : worker[j] = w /\ jobs[j] = "running" /\ thread[j] \in Holding
        /\ rows[w].done <= Cardinality(DoneBy(w))

LEMMA WorkerRowsAre == WorkerRowsAreTrue <=> \A w \in WorkerIds : Truth(w)
  BY DEF WorkerRowsAreTrue, BusyWorkerRunsAJob, CreditedJobsAreCompleted, Truth, DoneBy, Holding

LEMMA DoneFinite ==
  ASSUME IsFiniteSet(Enqueued), NEW w
  PROVE  IsFiniteSet(DoneBy(w)) /\ Cardinality(DoneBy(w)) \in Nat
<1>1. DoneBy(w) \subseteq Enqueued
  BY DEF DoneBy, Enqueued
<1> QED BY <1>1, FS_Subset, FS_CardinalityType

LEMMA TruthKept ==
  ASSUME NEW w, Truth(w), rows'[w] = rows[w],
         \A j \in Jobs : jobs[j] \in {"running", "completed"} \/ jobs'[j] = "completed" =>
                            jobs'[j] = jobs[j] /\ worker'[j] = worker[j],
         \A j \in Jobs : thread[j] \in Holding => thread'[j] \in Holding
  PROVE  Truth(w)'
<1>1. DoneBy(w)' = DoneBy(w)
  BY DEF DoneBy
<1> QED BY <1>1 DEF Truth

LEMMA FreshTruth ==
  ASSUME IsFiniteSet(Enqueued), NEW n \in WorkerIds, rows' = FreshRows(n),
         UNCHANGED <<jobs, worker>>, NEW w \in WorkerIds
  PROVE  Truth(w)'
<1>1. DoneBy(w)' = DoneBy(w)
  BY DEF DoneBy
<1>2. rows'[w] = IF w <= n THEN [status |-> "ready", done |-> 0] ELSE NoRow
  BY DEF FreshRows
<1>3. rows'[w] # NoRow => rows'[w].status = "ready" /\ rows'[w].done = 0
  BY <1>2
<1>4. Cardinality(DoneBy(w)) \in Nat
  BY DoneFinite
<1> QED BY <1>1, <1>3, <1>4 DEF Truth

(* The transactions of _run_job change the job and the row of its worker.  *)
LEMMA RunTruth ==
  ASSUME LatticeTypes, IJobs, IsFiniteSet(Enqueued), NEW w \in WorkerIds, Truth(w),
         NEW j \in Jobs, Start(j) \/ Finish(j) \/ Fail(j)
  PROVE  Truth(w)'
<1>0. jobs \in [Jobs -> Statuses] /\ worker \in [Jobs -> WorkerIds] /\ rows \in Rows
      /\ worker' = worker /\ worker[j] \in WorkerIds
      /\ thread \in [Jobs -> {"none", "waiting", "taken", "running", "lost", "over"}]
  BY DEF LatticeTypes, Start, Finish, Fail
<1>d. IsFiniteSet(DoneBy(w)) /\ Cardinality(DoneBy(w)) \in Nat
  BY DoneFinite
<1>n. rows[w] # NoRow => rows[w].done \in Nat
  BY <1>0 DEF Rows, WorkerRow
<1>o. \A i \in Jobs \ {j} : jobs'[i] = jobs[i] /\ thread'[i] = thread[i]
  BY <1>0 DEF Start, Finish, Fail
<1>1. CASE Start(j)
  <2>1. /\ jobs'[j] = "running" /\ jobs[j] \in {"none", "queued"}
        /\ thread'[j] \in Holding
    BY <1>0, <1>1 DEF Start, IJobs, Holding
  <2>2. DoneBy(w)' = DoneBy(w)
    BY <1>0, <1>o, <2>1 DEF DoneBy
  <2>3. rows' = Update(worker[j], "busy", 0)
    BY <1>1 DEF Start
  <2>4. CASE w = worker[j]
    <3>1. /\ rows[w] = NoRow => rows'[w] = NoRow
          /\ rows[w] # NoRow => rows'[w].done = rows[w].done + 0
      BY <1>0, <2>3, <2>4, UpdateTyped
    <3> QED BY <1>0, <1>n, <2>1, <2>2, <2>4, <3>1 DEF Truth
  <2>5. CASE w # worker[j]
    <3>1. rows'[w] = rows[w]
      BY <1>0, <2>3, <2>5, UpdateTyped
    <3>2. \A i \in Jobs : worker[i] = w /\ jobs[i] = "running" /\ thread[i] \in Holding
                            => jobs'[i] = "running" /\ thread'[i] \in Holding
      BY <1>o, <2>1
    <3> QED BY <1>0, <2>2, <3>1, <3>2 DEF Truth
  <2> QED BY <2>4, <2>5
<1>2. CASE Finish(j) \/ Fail(j)
  <2>1. jobs[j] = "running" /\ jobs'[j] \in {"completed", "failed"}
    BY <1>0, <1>2 DEF Finish, Fail, IJobs, Holding
  <2>2. CASE w # worker[j]
    <3>1. rows'[w] = rows[w]
      BY <1>0, <1>2, <2>2, UpdateTyped DEF Finish, Fail
    <3>2. DoneBy(w)' = DoneBy(w)
      BY <1>0, <1>o, <2>1, <2>2 DEF DoneBy
    <3>3. \A i \in Jobs : worker[i] = w /\ jobs[i] = "running" /\ thread[i] \in Holding
                            => jobs'[i] = "running" /\ thread'[i] \in Holding
      BY <1>o, <2>2
    <3> QED BY <1>0, <3>1, <3>2, <3>3 DEF Truth
  <2>3. ASSUME w = worker[j], Fail(j) PROVE Truth(w)'
    <3>1. jobs'[j] = "failed"
      BY <1>0, <2>3 DEF Fail
    <3>2. DoneBy(w)' = DoneBy(w)
      BY <1>0, <1>o, <2>1, <3>1 DEF DoneBy
    <3>3. /\ rows[w] = NoRow => rows'[w] = NoRow
          /\ rows[w] # NoRow => rows'[w].status = "ready" /\ rows'[w].done = rows[w].done + 0
      BY <1>0, <2>3, UpdateTyped DEF Fail
    <3> QED BY <1>n, <3>2, <3>3 DEF Truth
  <2>4. ASSUME w = worker[j], Finish(j) PROVE Truth(w)'
    <3>1. jobs'[j] = "completed"
      BY <1>0, <2>4 DEF Finish
    <3>2. DoneBy(w)' = DoneBy(w) \cup {j} /\ j \notin DoneBy(w)
      BY <1>0, <1>o, <2>1, <2>4, <3>1 DEF DoneBy
    <3>3. Cardinality(DoneBy(w)') = Cardinality(DoneBy(w)) + 1
      BY <1>d, <3>2, FS_AddElement
    <3>4. /\ rows[w] = NoRow => rows'[w] = NoRow
          /\ rows[w] # NoRow => rows'[w].status = "ready" /\ rows'[w].done = rows[w].done + 1
      BY <1>0, <2>4, UpdateTyped DEF Finish
    <3> QED BY <1>d, <1>n, <3>3, <3>4 DEF Truth
  <2> QED BY <1>2, <2>2, <2>3, <2>4
<1> QED BY <1>1, <1>2

LEMMA WorkersNext ==
  ASSUME LatticeTypes, IJobs, IsFiniteSet(Enqueued), NEW w \in WorkerIds, Truth(w),
         [LatticeNext]_latticeVars
  PROVE  Truth(w)'
<1>s. ASSUME UNCHANGED <<jobs, worker, rows>>,
             \A j \in Jobs : thread[j] \in Holding => thread'[j] \in Holding
      PROVE  Truth(w)'
  BY <1>s, TruthKept
<1>1. ASSUME NEW j \in Jobs, Insert(j) PROVE Truth(w)'
  BY <1>1, TruthKept DEF Insert, LatticeTypes
<1>2. ASSUME NEW j \in Jobs, Take(j) PROVE Truth(w)'
  <2>1. jobs[j] \in {"none", "queued"} /\ jobs' = jobs /\ rows' = rows
    BY <1>2 DEF Take, IJobs, jobTables
  <2>2. /\ \A i \in Jobs \ {j} : worker'[i] = worker[i]
        /\ \A i \in Jobs : thread[i] \in Holding => thread'[i] \in Holding
    BY <1>2 DEF Take, LatticeTypes, Holding
  <2> QED BY <2>1, <2>2, TruthKept
<1>3. ASSUME NEW j \in Jobs, RunJob(j) PROVE Truth(w)'
  BY <1>2, <1>3, RunTruth DEF RunJob
<1>4. CASE ReplaceRows
  <2>1. UNCHANGED <<jobs, worker, thread>>
    BY <1>4 DEF ReplaceRows
  <2>2. CASE rows' = rows
    BY <1>s, <2>1, <2>2
  <2>3. CASE rows' = FreshRows(lock.size)
    <3>1. lock.size \in WorkerIds
      BY <1>4 DEF ReplaceRows, LatticeTypes
    <3> QED BY <2>1, <2>3, <3>1, FreshTruth
  <2> QED BY <1>4, <2>2, <2>3 DEF ReplaceRows
<1>5. CASE Restart
  <2>1. DefaultWorkers \in WorkerIds
    BY LatticeAssumption DEF WorkerIds
  <2> QED BY <1>5, <2>1, FreshTruth DEF Restart
<1>6. ASSUME NEW j \in Jobs, ReadExecutor(j) \/ Submit(j) \/ StartFails(j) \/ FailFails(j)
      PROVE  Truth(w)'
  <2>1. \A i \in Jobs : thread[i] \in Holding => thread'[i] \in Holding
    BY <1>6 DEF ReadExecutor, Submit, StartFails, FailFails, LatticeTypes, IJobs, Holding
  <2> QED BY <1>6, <1>s, <2>1 DEF ReadExecutor, Submit, StartFails, FailFails, jobTables
<1>7. CASE (\E n \in Sizes : Scale(n)) \/ ReplaceExecutor \/ SetCount
           \/ BeginStatus \/ CountNext \/ EndStatus \/ UNCHANGED latticeVars
  BY <1>7, <1>s DEF Scale, ReplaceExecutor, SetCount, BeginStatus, CountNext, EndStatus,
     jobTables, latticeVars
<1> QED BY <1>1, <1>3, <1>4, <1>5, <1>6, <1>7 DEF LatticeNext

(* However the pool is scaled, whatever fails and wherever the server      *)
(* restarts, a worker shown as busy has a thread that runs a job of its,   *)
(* or one whose except block failed (lattice.py:226), and it is credited   *)
(* only with jobs that completed under its name.                           *)
THEOREM WorkerRowsTrue == LatticeSpec => []WorkerRowsAreTrue
<1> DEFINE I == LatticeTypes /\ IJobs /\ IsFiniteSet(Enqueued) /\ WorkerRowsAreTrue
<1>1. LatticeInit => I
  <2> SUFFICES ASSUME LatticeInit PROVE I
    OBVIOUS
  <2>1. LatticeTypes /\ IJobs
    BY LatticeInitType, LatticeTypesAre DEF LatticeInit, IJobs, Holding
  <2>2. IsFiniteSet(Enqueued)
    <3>1. Enqueued = {}
      BY DEF Enqueued, LatticeInit
    <3> QED BY <3>1, FS_EmptySet
  <2>3. ASSUME NEW w \in WorkerIds PROVE Truth(w)
    <3>1. rows[w] = IF w <= DefaultWorkers THEN [status |-> "ready", done |-> 0] ELSE NoRow
      BY DEF LatticeInit, FreshRows
    <3>2. Cardinality(DoneBy(w)) \in Nat
      BY <2>2, DoneFinite
    <3>3. rows[w] # NoRow => rows[w].status = "ready" /\ rows[w].done = 0
      BY <3>1
    <3> QED BY <3>2, <3>3 DEF Truth
  <2> QED BY <2>1, <2>2, <2>3, WorkerRowsAre
<1>2. I /\ [LatticeNext]_latticeVars => I'
  <2> SUFFICES ASSUME I, [LatticeNext]_latticeVars PROVE I'
    OBVIOUS
  <2>1. LatticeTypes' /\ IJobs' /\ IsFiniteSet(Enqueued)'
    BY LatticeNextType, JobsFollow, EnqueuedFinite
  <2>2. \A w \in WorkerIds : Truth(w)'
    BY WorkersNext, WorkerRowsAre
  <2>3. WorkerRowsAreTrue' <=> \A w \in WorkerIds : Truth(w)'
    BY DEF WorkerRowsAreTrue, BusyWorkerRunsAJob, CreditedJobsAreCompleted, Truth, DoneBy, Holding
  <2> QED BY <2>1, <2>2, <2>3
<1>3. I => WorkerRowsAreTrue
  OBVIOUS
<1> QED BY <1>1, <1>2, <1>3, PTL DEF LatticeSpec

(* Jobs that status has still to count move on in the order it asks.       *)
LEMMA ReaderNext ==
  ASSUME LatticeTypes, IJobs, IReader, [LatticeNext]_latticeVars
  PROVE  IReader'
<1>0. /\ jobs \in [Jobs -> Statuses] /\ reader.uncounted \subseteq Jobs /\ reader.next \in 0..5
      /\ reader \in [next : 0..5, uncounted : SUBSET Jobs]
  BY DEF LatticeTypes
<1>a. /\ ToAsk(1) = {"queued", "running", "completed", "failed"}
      /\ ToAsk(2) = {"running", "completed", "failed"} /\ ToAsk(3) = {"completed", "failed"}
      /\ ToAsk(4) = {"failed"} /\ ToAsk(5) = {}
  BY DEF ToAsk, QueryOrder
<1>o. \A n \in 1..5 : /\ "queued" \in ToAsk(n) => "running" \in ToAsk(n)
                      /\ "running" \in ToAsk(n) => {"completed", "failed"} \subseteq ToAsk(n)
                      /\ "none" \notin ToAsk(n)
  <2> SUFFICES ASSUME NEW n \in 1..5
               PROVE  /\ "queued" \in ToAsk(n) => "running" \in ToAsk(n)
                      /\ "running" \in ToAsk(n) => {"completed", "failed"} \subseteq ToAsk(n)
                      /\ "none" \notin ToAsk(n)
    OBVIOUS
  <2>1. n = 1 \/ n = 2 \/ n = 3 \/ n = 4 \/ n = 5
    OBVIOUS
  <2> QED BY <1>a, <2>1
<1>s. ASSUME UNCHANGED reader,
             \A j \in Jobs : \/ jobs'[j] = jobs[j] \/ jobs[j] = "none"
                             \/ jobs[j] = "queued" /\ jobs'[j] = "running"
                             \/ jobs[j] = "running" /\ jobs'[j] \in {"completed", "failed"}
      PROVE  IReader'
  <2> SUFFICES ASSUME reader.next # 0, NEW j \in reader.uncounted
               PROVE  jobs'[j] \in ToAsk(reader.next)
    BY <1>s DEF IReader, ToAsk, QueryOrder
  <2>1. jobs[j] \in ToAsk(reader.next) /\ reader.next \in 1..5 /\ j \in Jobs
    BY <1>0 DEF IReader
  <2> QED BY <1>o, <1>s, <2>1
<1>1. ASSUME NEW j \in Jobs, Insert(j) \/ ReadExecutor(j) \/ Submit(j) \/ RunJob(j)
                              \/ StartFails(j) \/ FailFails(j)
      PROVE  IReader'
  <2>1. UNCHANGED reader
    BY <1>1 DEF Insert, ReadExecutor, Submit, RunJob, Take, Start, Finish, Fail, StartFails, FailFails
  <2>2. \A i \in Jobs : \/ jobs'[i] = jobs[i] \/ jobs[i] = "none"
                        \/ jobs[i] = "queued" /\ jobs'[i] = "running"
                        \/ jobs[i] = "running" /\ jobs'[i] \in {"completed", "failed"}
    BY <1>0, <1>1 DEF Insert, ReadExecutor, Submit, RunJob, Take, Start, Finish, Fail, StartFails,
       FailFails, jobTables, IJobs, Holding
  <2> QED BY <1>s, <2>1, <2>2
<1>2. CASE BeginStatus
  <2>1. UNCHANGED jobs /\ reader'.next = 1 /\ reader'.uncounted = {j \in Jobs : jobs[j] # "none"}
    BY <1>2 DEF BeginStatus, jobTables
  <2>2. \A j \in reader'.uncounted : jobs'[j] \in ToAsk(1)
    BY <1>0, <1>a, <2>1 DEF Statuses
  <2> QED BY <2>1, <2>2 DEF IReader, ToAsk, QueryOrder
<1>3. CASE CountNext
  <2>1. UNCHANGED jobs /\ reader.next \in 1..4 /\ reader'.next = reader.next + 1
        /\ reader'.uncounted = {j \in reader.uncounted : jobs[j] # QueryOrder[reader.next]}
    BY <1>0, <1>3 DEF CountNext, jobTables
  <2>2. ToAsk(reader.next) \subseteq {QueryOrder[reader.next]} \cup ToAsk(reader.next + 1)
    BY <2>1 DEF ToAsk
  <2>3. \A j \in reader'.uncounted : jobs'[j] \in ToAsk(reader'.next)
    BY <2>1, <2>2 DEF IReader
  <2> QED BY <2>3 DEF IReader, ToAsk, QueryOrder
<1>4. CASE EndStatus \/ Restart
  BY <1>4 DEF EndStatus, Restart, IReader
<1>5. CASE (\E n \in Sizes : Scale(n)) \/ ReplaceExecutor \/ SetCount \/ ReplaceRows
           \/ UNCHANGED latticeVars
  BY <1>5, <1>s DEF Scale, ReplaceExecutor, SetCount, ReplaceRows, jobTables, latticeVars
<1> QED BY <1>1, <1>2, <1>3, <1>4, <1>5 DEF LatticeNext

(* status counts at least once every job there was when it began, whatever *)
(* the jobs do between its queries: it asks in the order in which they     *)
(* move on.                                                                *)
THEOREM StatusCountsAll == LatticeSpec => []StatusMissesNoJob
<1> DEFINE I == LatticeTypes /\ IJobs /\ IReader
<1>1. LatticeInit => I
  BY LatticeInitType, LatticeTypesAre DEF LatticeInit, IJobs, Holding, IReader
<1>2. I /\ [LatticeNext]_latticeVars => I'
  BY LatticeNextType, JobsFollow, ReaderNext
<1>3. I => StatusMissesNoJob
  BY DEF IReader, StatusMissesNoJob, ToAsk, LatticeTypes
<1> QED BY <1>1, <1>2, <1>3, PTL DEF LatticeSpec

-----------------------------------------------------------------------------
(* The SOC bus.                                                            *)

(* Types.  The table of events is finite, whatever events there may be.    *)
StepNames == {"idle", "task", "correlate", "find_case", "merge", "open_case", "triage", "triaged",
              "fan_out", "steps", "write_back", "update", "done", "lost"}
Marks == {"pending", "failed", "done", "simulated"}
Marked == UNION { [S -> Marks] : S \in SUBSET Steps }
Bookings == [step : StepNames, plan : Seq(Tasks), event : Events \cup {None},
             linked : SUBSET Events, listed : SUBSET Events, case : Nat, actions : Marked,
             status : Status, score : 0..99, before : SUBSET Requests]
CaseRows == [actor : Actors, severity : {"high", "critical"}, status : Status, linked : SUBSET Events,
             steps : Marked, score : 0..99, opener : Requests, correlated : BOOLEAN]

SocTypes ==
    /\ stored \subseteq Events /\ IsFiniteSet(stored) /\ settled \subseteq stored
    /\ caseOf \in [Events -> Nat] /\ \A e \in Events : caseOf[e] <= Len(cases)
    /\ cases \in Seq(CaseRows) /\ hostOf \in [Actors -> Hosts \cup {NoHost}]
    /\ req \in [Requests -> Bookings]

(* What is still to do was prepared: an event to correlate again or to     *)
(* open a case for is stored, or will be by an earlier task.               *)
Prepared(plan, S) ==
    \A i \in DOMAIN plan : plan[i].op \in {"manual", "correlate"} =>
        plan[i].event \in S \/ \E j \in 1..(i - 1) : plan[j] = IngestTask(plan[i].event)

Looking == {"find_case", "merge", "open_case"}
OnCase == {"merge", "triage", "triaged", "fan_out", "steps", "write_back", "update"}

IPlan(r) ==
    /\ Prepared(req[r].plan, stored)
    /\ req[r].step \in {"correlate"} \cup Looking => req[r].event \in stored
    /\ req[r].step \in {"task", "correlate"} \cup Looking \cup OnCase => req[r].plan # <<>>
    /\ ~At(r, "idle") /\ ~At(r, "task") /\ req[r].plan # <<>> /\ Head(req[r].plan).op = "ingest"
       => Head(req[r].plan).event \in stored
    /\ req[r].case <= Len(cases) /\ (req[r].step \in OnCase => req[r].case # 0)
    /\ \A i \in DOMAIN req[r].plan : req[r].plan[i].op \in {"run", "update"} => req[r].case # 0

(* Of one actor. *)
OfActor(events, a) == \A e \in events : ActorOf[e] = a

ILinked(r) ==
    /\ req[r].linked \cup req[r].listed \subseteq stored
    /\ req[r].step \in Looking => /\ Correlates(req[r].linked)
                                  /\ OfActor(req[r].linked, ActorOf[req[r].event])
    /\ At(r, "merge") => /\ OfActor(req[r].listed, ActorOf[req[r].event])
                         /\ cases[req[r].case].actor = ActorOf[req[r].event]
    /\ At(r, "fan_out") => OfActor(req[r].linked, cases[req[r].case].actor)
    /\ At(r, "triaged") /\ cases[req[r].case].correlated => req[r].score = 99

ICase(c) ==
    /\ cases[c].linked \subseteq stored /\ OfActor(cases[c].linked, cases[c].actor)
    /\ cases[c].correlated => /\ Correlates(cases[c].linked)
                              /\ cases[c].severity = "critical" /\ cases[c].score \in {0, 99}

(* Steps called done were, in the table and in the hands of a playbook.    *)
Honest(steps, c) ==
    \A s \in DOMAIN steps \ Unchecked : steps[s] = "done" => <<c, s>> \in happened
IHonest ==
    /\ \A c \in DOMAIN cases : Honest(cases[c].steps, c)
    /\ \A r \in Requests : req[r].step \in {"fan_out", "steps", "write_back"} => Honest(req[r].actions, req[r].case)

(* A request about to open a case has found none that is open and was      *)
(* opened by itself or by one that was over when it began.                 *)
Earlier(r) == { c \in DOMAIN cases : cases[c].correlated /\ cases[c].opener \in req[r].before \cup {r} }
IStories ==
    /\ \A c \in DOMAIN cases : /\ cases[c].status \notin OpenStatus => c \in shut
                               /\ ~At(cases[c].opener, "idle")
    /\ \A r \in Requests : req[r].before \subseteq Over
    /\ \A r \in Requests : At(r, "open_case") =>
          \A c \in Earlier(r) : cases[c].actor = ActorOf[req[r].event] => c \in shut
    /\ OneCasePerStory

IHosts ==
    /\ \A a \in Actors : hostOf[a] # NoHost => <<a, hostOf[a]>> \in bound
    /\ \A ch \in isolated : ch[1] \in DOMAIN cases
    /\ IsolatedHostsAreTheActors

(* Two events that belong together, and what has become of them.           *)
Together(d, e) ==
    /\ ActorOf[d] = ActorOf[e] /\ Near(d, e)
    /\ "agent" \in KindsOf[d] /\ KindsOf[e] \cap {"identity", "edr"} # {}
    /\ Cardinality({ x \in stored : ActorOf[x] = ActorOf[e] }) <= RelatedLimit + 1
Covered(d, e) == caseOf[d] # 0 /\ caseOf[e] # 0
Has(r, e) == req[r].step \in Looking /\ req[r].event = e
IMissed ==
    \A d, e \in Events : Together(d, e) =>
        /\ d \in settled /\ e \in settled => Covered(d, e)
        /\ \A r \in Requests :
             /\ Has(r, d) /\ e \in settled => Covered(d, e) \/ {d, e} \subseteq req[r].linked
             /\ Has(r, e) /\ d \in settled => Covered(d, e) \/ {d, e} \subseteq req[r].linked
        /\ \A r, q \in Requests : Has(r, d) /\ Has(q, e) =>
             Covered(d, e) \/ {d, e} \subseteq req[r].linked \/ {d, e} \subseteq req[q].linked

SocInv ==
    /\ SocTypes /\ (\A r \in Requests : IPlan(r) /\ ILinked(r)) /\ (\A c \in DOMAIN cases : ICase(c))
    /\ IHonest /\ IStories /\ IHosts /\ IMissed

-----------------------------------------------------------------------------
(* A request moves: r's booking becomes q; what the tables hold stays.     *)
Moves(r, q) ==
    /\ q \in Bookings /\ req' = [req EXCEPT ![r] = q] /\ q.step # "idle"
    /\ req[r].step \notin {"done", "lost"}
    /\ q.before \subseteq Over /\ (At(r, "idle") \/ q.before \subseteq req[r].before)
Keeps ==
    /\ stored \subseteq stored' /\ stored' \subseteq Events /\ IsFiniteSet(stored')
    /\ settled \subseteq settled' /\ settled' \subseteq stored'
    /\ caseOf' \in [Events -> Nat]
    /\ \A e \in Events : caseOf'[e] <= Len(cases') /\ (caseOf[e] # 0 => caseOf'[e] # 0)
    /\ cases' \in Seq(CaseRows) /\ Len(cases') \in {Len(cases), Len(cases) + 1}
    /\ \A c \in DOMAIN cases : /\ cases'[c].actor = cases[c].actor
                               /\ cases'[c].opener = cases[c].opener
                               /\ cases'[c].correlated = cases[c].correlated
    /\ hostOf' \in [Actors -> Hosts \cup {NoHost}]
    /\ shut \subseteq shut' /\ happened \subseteq happened'
    /\ isolated \subseteq isolated' /\ bound \subseteq bound'
Ends(r, q) ==
    /\ Moves(r, q) /\ q.plan = Tail(req[r].plan) /\ q.case = req[r].case
    /\ (q.step = "done" /\ q.plan = <<>>) \/ (q.step = "task" /\ q.plan # <<>>)
    /\ q.linked = {} /\ q.listed = {}

LEMMA NoMarks == <<>> \in Marked
<1>1. <<>> \in [{} -> Marks] /\ {} \in SUBSET Steps
  OBVIOUS
<1> QED BY <1>1 DEF Marked

LEMMA IdleTyped ==
  /\ Idle \in Bookings /\ Idle.step = "idle" /\ Idle.plan = <<>> /\ Idle.linked = {}
  /\ Idle.listed = {} /\ Idle.case = 0 /\ Idle.before = {} /\ Idle.actions = <<>>
<1>1. <<>> \in Seq(Tasks)
  BY EmptySeq
<1>2. "open" \in Status /\ "idle" \in StepNames /\ 0 \in Nat /\ 0 \in 0..99
  BY DEF Status, OpenStatus, StepNames
<1> QED BY <1>1, <1>2, NoMarks DEF Idle, Bookings

LEMMA TaskTyped ==
  ASSUME SocTypes, NEW r \in Requests, req[r].plan # <<>>
  PROVE  /\ Task(r) \in Tasks /\ Tail(req[r].plan) \in Seq(Tasks)
         /\ Len(req[r].plan) \in Nat \ {0} /\ Len(Tail(req[r].plan)) = Len(req[r].plan) - 1
         /\ Len(req[r].plan) # 1 => Tail(req[r].plan) # <<>>
         /\ Len(req[r].plan) = 1 => Tail(req[r].plan) = <<>>
         /\ Task(r).op \in {"ingest", "correlate", "manual", "scan"} => Task(r).event \in Events
         /\ Task(r).op = "manual" => Task(r).severity \in {"high", "critical"}
         /\ Task(r).op = "update" => Task(r).status \in Status \cup {None}
         /\ Task(r).op = "bind" => Task(r).actor \in Actors /\ Task(r).host \in Hosts
<1>1. req[r].plan \in Seq(Tasks)
  BY DEF SocTypes, Bookings
<1> DEFINE plan == req[r].plan
<1>2. plan \in Seq(Tasks) /\ plan # <<>>
  BY <1>1
<1> HIDE DEF plan
<1>3. /\ Head(plan) \in Tasks /\ Tail(plan) \in Seq(Tasks)
      /\ Len(plan) \in Nat \ {0} /\ Len(Tail(plan)) = Len(plan) - 1
  BY <1>2, HeadTailProperties, EmptySeq, LenProperties
<1>4. /\ Len(plan) # 1 => Tail(plan) # <<>>
      /\ Len(plan) = 1 => Tail(plan) = <<>>
  <2>1. PICK rest : rest = Tail(plan)
    OBVIOUS
  <2>2. rest \in Seq(Tasks) /\ Len(rest) = Len(plan) - 1
    BY <1>3, <2>1
  <2>3. rest = <<>> => Len(rest) = 0
    BY EmptySeq
  <2>4. rest # <<>> => Len(rest) \in Nat \ {0}
    BY <2>2, EmptySeq
  <2>5. rest = <<>> <=> Len(plan) = 1
    BY <1>3, <2>2, <2>3, <2>4
  <2> QED BY <2>1, <2>5
<1>5. Task(r) = Head(plan)
  BY DEF Task, plan
<1>6. /\ Task(r).op \in {"ingest", "correlate", "manual", "scan"} => Task(r).event \in Events
      /\ Task(r).op = "manual" => Task(r).severity \in {"high", "critical"}
      /\ Task(r).op = "update" => Task(r).status \in Status \cup {None}
      /\ Task(r).op = "bind" => Task(r).actor \in Actors /\ Task(r).host \in Hosts
  BY <1>3, <1>5 DEF Tasks
<1> QED BY <1>3, <1>4, <1>5, <1>6 DEF plan

LEMMA Ending ==
  ASSUME SocTypes, NEW r \in Requests, req[r].plan # <<>>, TaskOver(r),
         req[r].step \notin {"done", "lost"}, req[r].before \subseteq Over
  PROVE  \E q : Ends(r, q)
<1> DEFINE step == IF Len(req[r].plan) = 1 THEN "done" ELSE "task"
           q == [Idle EXCEPT !.plan = Tail(req[r].plan), !.case = req[r].case,
                             !.before = req[r].before, !.step = step]
<1>1. req' = [req EXCEPT ![r] = q]
  BY DEF TaskOver, Proceed
<1>2. req[r] \in Bookings /\ req[r].case \in Nat /\ req[r].before \in SUBSET Requests
  BY DEF SocTypes, Bookings
<1>3. Tail(req[r].plan) \in Seq(Tasks)
  BY TaskTyped
<1>a. step \in StepNames /\ step = IF Len(req[r].plan) = 1 THEN "done" ELSE "task"
  BY DEF StepNames
<1> HIDE DEF step
<1>4. q \in Bookings
  BY <1>2, <1>3, <1>a, IdleTyped DEF Bookings
<1>5. /\ q.before = req[r].before /\ q.plan = Tail(req[r].plan) /\ q.case = req[r].case
      /\ q.step = step
      /\ q.linked = {} /\ q.listed = {}
  BY IdleTyped DEF Bookings
<1> HIDE DEF q
<1>6. (q.step = "done" /\ q.plan = <<>>) \/ (q.step = "task" /\ q.plan # <<>>)
  BY <1>5, <1>a, TaskTyped
<1>7. q.step # "idle"
  BY <1>6
<1> QED BY <1>1, <1>4, <1>5, <1>6, <1>7 DEF Ends, Moves

-----------------------------------------------------------------------------
(* The parts of the invariant that a step of another request leaves alone. *)
LEMMA CaseIn ==
  ASSUME SocTypes, NEW c \in Nat, c # 0, c <= Len(cases)
  PROVE  c \in DOMAIN cases /\ cases[c] \in CaseRows
<1>1. cases \in Seq(CaseRows)
  BY DEF SocTypes
<1>2. Len(cases) \in Nat /\ DOMAIN cases = 1..Len(cases)
  BY <1>1, LenProperties
<1>3. c \in 1..Len(cases)
  BY <1>2
<1> QED BY <1>1, <1>2, <1>3, ElementOfSeq

LEMMA Growth ==
  ASSUME SocTypes, NEW r \in Requests, NEW q, Moves(r, q), Keeps
  PROVE  /\ SocTypes' /\ DOMAIN cases \subseteq DOMAIN cases'
         /\ req'[r] = q /\ \A p \in Requests \ {r} : req'[p] = req[p]
         /\ Len(cases) \in Nat /\ Len(cases') \in Nat /\ Len(cases) <= Len(cases')
         /\ DOMAIN cases = 1..Len(cases) /\ DOMAIN cases' = 1..Len(cases')
<1>1. /\ req \in [Requests -> Bookings] /\ q \in Bookings /\ req' = [req EXCEPT ![r] = q]
      /\ cases \in Seq(CaseRows)
  BY DEF SocTypes, Moves
<1>2. cases' \in Seq(CaseRows) /\ Len(cases') \in {Len(cases), Len(cases) + 1}
  BY DEF Keeps
<1>3. Len(cases) \in Nat /\ DOMAIN cases = 1..Len(cases)
  BY <1>1, LenProperties
<1>4. PICK k : k = cases'
  OBVIOUS
<1>5. Len(k) \in Nat /\ DOMAIN k = 1..Len(k)
  BY <1>2, <1>4, LenProperties
<1>6. Len(cases') \in Nat /\ DOMAIN cases' = 1..Len(cases') /\ Len(cases) <= Len(cases')
  <2>1. Len(k) \in {Len(cases), Len(cases) + 1}
    BY <1>2, <1>4
  <2>2. Len(cases) <= Len(k)
    BY <2>1, <1>3
  <2> QED BY <2>2, <1>4, <1>5
<1>7. DOMAIN cases \subseteq DOMAIN cases'
  BY <1>3, <1>6
<1>8. req' \in [Requests -> Bookings] /\ req'[r] = q /\ \A p \in Requests \ {r} : req'[p] = req[p]
  BY <1>1
<1>9. SocTypes'
  BY <1>8 DEF SocTypes, Keeps
<1> QED BY <1>3, <1>6, <1>7, <1>8, <1>9

LEMMA Others ==
  ASSUME SocTypes, NEW r \in Requests, NEW q, Moves(r, q), Keeps,
         NEW p \in Requests \ {r}, IPlan(p), ILinked(p)
  PROVE  IPlan(p)' /\ ILinked(p)'
<1>1. req'[p] = req[p] /\ req[p] \in Bookings
  BY Growth DEF SocTypes
<1>2. Prepared(req[p].plan, stored)' 
  BY <1>1 DEF IPlan, Prepared, Keeps
<1>3. Len(cases) \in Nat /\ Len(cases') \in Nat /\ Len(cases) <= Len(cases')
  BY Growth
<1>4. stored \subseteq stored' /\ req[p].case \in Nat
  BY <1>1 DEF Keeps, Bookings
<1>5. req[p].case <= Len(cases')
  BY <1>3, <1>4 DEF IPlan
<1>6. IPlan(p)'
  BY <1>1, <1>2, <1>4, <1>5 DEF IPlan, At
<1>7. ASSUME req[p].step \in OnCase
      PROVE  /\ cases'[req[p].case].actor = cases[req[p].case].actor
             /\ cases'[req[p].case].correlated = cases[req[p].case].correlated
  <2>1. req[p].case \in DOMAIN cases
    BY <1>4, <1>7, CaseIn DEF IPlan
  <2> QED BY <2>1 DEF Keeps
<1>8. /\ (req[p].linked \cup req[p].listed \subseteq stored)'
      /\ (req[p].step \in Looking => /\ Correlates(req[p].linked)
                                     /\ OfActor(req[p].linked, ActorOf[req[p].event]))'
  BY <1>1, <1>4 DEF ILinked, Correlates, Hits, OfActor
<1>9. (At(p, "merge") => /\ OfActor(req[p].listed, ActorOf[req[p].event])
                         /\ cases[req[p].case].actor = ActorOf[req[p].event])'
  <2> SUFFICES ASSUME req[p].step = "merge"
               PROVE  /\ OfActor(req[p].listed, ActorOf[req[p].event])
                      /\ cases'[req[p].case].actor = ActorOf[req[p].event]
    BY <1>1 DEF At, OfActor
  <2> QED BY <1>7 DEF OnCase, ILinked, At
<1>10. (At(p, "fan_out") => OfActor(req[p].linked, cases[req[p].case].actor))'
  <2> SUFFICES ASSUME req[p].step = "fan_out"
               PROVE  OfActor(req[p].linked, cases'[req[p].case].actor)
    BY <1>1 DEF At, OfActor
  <2> QED BY <1>7 DEF OnCase, ILinked, At
<1>11. (At(p, "triaged") /\ cases[req[p].case].correlated => req[p].score = 99)'
  <2> SUFFICES ASSUME req[p].step = "triaged", cases'[req[p].case].correlated
               PROVE  req[p].score = 99
    BY <1>1 DEF At
  <2> QED BY <1>7 DEF OnCase, ILinked, At
<1>12. ILinked(p)'
  BY <1>8, <1>9, <1>10, <1>11 DEF ILinked
<1> QED BY <1>6, <1>12

LEMMA StillJustified ==
  ASSUME SocTypes, Keeps, NEW c \in DOMAIN cases, ICase(c),
         cases'[c].linked = cases[c].linked, cases'[c].severity = cases[c].severity,
         cases'[c].score = cases[c].score
  PROVE  ICase(c)'
<1>1. cases'[c].actor = cases[c].actor /\ cases'[c].correlated = cases[c].correlated
  BY DEF Keeps
<1> QED BY <1>1 DEF ICase, Keeps, OfActor, Correlates, Hits

(* What a case or a playbook calls done was, also after the step.          *)
HonestThen(steps, c) ==
    \A s \in DOMAIN steps \ Unchecked : steps[s] = "done" => <<c, s>> \in happened'

LEMMA HonestStep ==
  ASSUME SocInv, NEW r \in Requests, NEW q, Moves(r, q), Keeps,
         \A c \in DOMAIN cases' : \/ c \in DOMAIN cases /\ cases'[c].steps = cases[c].steps
                                  \/ HonestThen(cases'[c].steps, c),
         q.step \in {"fan_out", "steps", "write_back"} => HonestThen(q.actions, q.case)
  PROVE  IHonest'
<1>1. \A c \in DOMAIN cases : Honest(cases[c].steps, c)
  BY DEF SocInv, IHonest
<1>2. happened \subseteq happened'
  BY DEF Keeps
<1>3. ASSUME NEW c \in DOMAIN cases', NEW s \in DOMAIN cases'[c].steps \ Unchecked,
             cases'[c].steps[s] = "done"
      PROVE  <<c, s>> \in happened'
  <2>1. CASE c \in DOMAIN cases /\ cases'[c].steps = cases[c].steps
    BY <1>1, <1>2, <1>3, <2>1 DEF Honest
  <2>2. CASE HonestThen(cases'[c].steps, c)
    BY <1>3, <2>2 DEF HonestThen
  <2> QED BY <2>1, <2>2
<1>4. ASSUME NEW p \in Requests, req'[p].step \in {"fan_out", "steps", "write_back"},
             NEW s \in DOMAIN req'[p].actions \ Unchecked, req'[p].actions[s] = "done"
      PROVE  <<req'[p].case, s>> \in happened'
  <2>1. CASE p = r
    <3>1. req'[p] = q
      BY <2>1, Growth DEF SocInv
    <3> QED BY <1>4, <3>1 DEF HonestThen
  <2>2. CASE p # r
    <3>1. req'[p] = req[p]
      BY <2>2, Growth DEF SocInv
    <3>2. Honest(req[p].actions, req[p].case)
      BY <1>4, <3>1 DEF SocInv, IHonest
    <3> QED BY <1>2, <1>4, <3>1, <3>2 DEF Honest
  <2> QED BY <2>1, <2>2
<1> QED BY <1>3, <1>4 DEF IHonest, Honest

LEMMA OverGrows ==
  ASSUME SocTypes, NEW r \in Requests, NEW q, Moves(r, q), Keeps
  PROVE  Over \subseteq Over' /\ r \notin Over
<1>1. \A p \in Requests \ {r} : req'[p] = req[p]
  BY Growth
<1>2. r \notin Over
  BY DEF Over, Moves
<1> QED BY <1>1, <1>2 DEF Over

LEMMA StoriesStep ==
  ASSUME SocInv, NEW r \in Requests, NEW q, Moves(r, q), Keeps,
         \A c \in DOMAIN cases' \ DOMAIN cases :
             /\ cases'[c].opener = r /\ cases'[c].status = "open"
             /\ cases'[c].correlated =>
                    At(r, "open_case") /\ cases'[c].actor = ActorOf[req[r].event]
             /\ ~At(r, "idle") /\ q.before = req[r].before,
         \A c \in DOMAIN cases : cases'[c].status \notin OpenStatus => c \in shut',
         q.step = "open_case" =>
             /\ cases' = cases
             /\ \A c \in DOMAIN cases : cases[c].actor = ActorOf[q.event] => c \in shut
  PROVE  IStories'
<1>1. /\ \A c \in DOMAIN cases : ~At(cases[c].opener, "idle")
      /\ \A p \in Requests : req[p].before \subseteq Over
      /\ \A p \in Requests : At(p, "open_case") =>
            \A c \in Earlier(p) : cases[c].actor = ActorOf[req[p].event] => c \in shut
      /\ OneCasePerStory
  BY DEF SocInv, IStories
<1>2. SocTypes
  BY DEF SocInv
<1>3. /\ req'[r] = q /\ \A p \in Requests \ {r} : req'[p] = req[p]
      /\ Over \subseteq Over' /\ r \notin Over /\ shut \subseteq shut'
  BY <1>2, Growth, OverGrows DEF Keeps
<1>4. \A c \in DOMAIN cases : /\ cases'[c].actor = cases[c].actor
                              /\ cases'[c].opener = cases[c].opener
                              /\ cases'[c].correlated = cases[c].correlated
                              /\ cases[c].opener \in Requests
  <2>1. \A c \in DOMAIN cases : cases[c] \in CaseRows
    <3>1. cases \in Seq(CaseRows)
      BY <1>2 DEF SocTypes
    <3> QED BY <3>1, LenProperties, ElementOfSeq
  <2> QED BY <2>1 DEF Keeps, CaseRows
<1>5. q.step # "idle" /\ q.before \subseteq Over /\ (At(r, "idle") \/ q.before \subseteq req[r].before)
  BY DEF Moves
<1>6. ASSUME NEW c \in DOMAIN cases'
      PROVE  /\ cases'[c].status \notin OpenStatus => c \in shut'
             /\ req'[cases'[c].opener].step # "idle"
  <2>1. CASE c \in DOMAIN cases
    <3>1. req'[cases[c].opener].step # "idle"
      BY <1>1, <1>3, <1>4, <1>5, <2>1 DEF At
    <3> QED BY <1>4, <2>1, <3>1
  <2>2. CASE c \notin DOMAIN cases
    <3>1. cases'[c].opener = r /\ cases'[c].status = "open"
      BY <2>2, <1>6
    <3> QED BY <1>3, <1>5, <3>1 DEF OpenStatus
  <2> QED BY <2>1, <2>2
<1>7. ASSUME NEW p \in Requests
      PROVE  req'[p].before \subseteq Over'
  BY <1>1, <1>3, <1>5, <1>7
<1>8. ASSUME NEW p \in Requests, req'[p].step = "open_case", NEW c \in DOMAIN cases',
             cases'[c].correlated, cases'[c].opener \in req'[p].before \cup {p},
             cases'[c].actor = ActorOf[req'[p].event]
      PROVE  c \in shut'
  <2>1. CASE p = r
    <3>1. cases' = cases /\ q.event = req'[p].event
      BY <1>3, <1>8, <2>1
    <3> QED BY <1>3, <1>8, <2>1, <3>1
  <2>2. CASE p # r /\ c \in DOMAIN cases
    BY <1>1, <1>3, <1>4, <1>8, <2>2 DEF At, Earlier
  <2>3. CASE p # r /\ c \notin DOMAIN cases
    <3>1. r \in req[p].before
      BY <1>3, <1>8, <2>3
    <3> QED BY <1>1, <1>3, <3>1
  <2> QED BY <2>1, <2>2, <2>3
<1>9. ASSUME NEW c \in DOMAIN cases', NEW d \in DOMAIN cases', c < d,
             cases'[c].correlated, cases'[d].correlated, cases'[c].actor = cases'[d].actor,
             cases'[c].opener \in req'[cases'[d].opener].before \cup {cases'[d].opener}
      PROVE  c \in shut'
  <2>1. CASE d \in DOMAIN cases
    <3>1. c \in DOMAIN cases
      <4>1. DOMAIN cases = 1..Len(cases) /\ DOMAIN cases' = 1..Len(cases') /\ Len(cases) \in Nat /\ Len(cases') \in Nat
        BY <1>2, Growth
      <4> QED BY <4>1, <1>9, <2>1
    <3>2. req'[cases[d].opener].before \subseteq req[cases[d].opener].before
      BY <1>1, <1>3, <1>4, <1>5, <2>1
    <3> QED BY <1>1, <1>3, <1>4, <1>9, <2>1, <3>1, <3>2 DEF OneCasePerStory
  <2>2. CASE d \notin DOMAIN cases
    <3>1. c \in DOMAIN cases
      <4>1. DOMAIN cases = 1..Len(cases) /\ DOMAIN cases' = 1..Len(cases') /\ Len(cases) \in Nat /\ Len(cases') \in Nat
        BY <1>2, Growth
      <4>2. PICK n : n = Len(cases')
        OBVIOUS
      <4>3. n \in {Len(cases), Len(cases) + 1} /\ n \in Nat
        BY <4>1, <4>2 DEF Keeps
      <4>4. d \in 1..n /\ c \in 1..n /\ c < d /\ d \notin 1..Len(cases)
        BY <4>1, <4>2, <1>9, <2>2
      <4>5. ASSUME NEW m \in Nat, n \in {m, m + 1}, d \notin 1..m
            PROVE  c \in 1..m
        BY <4>4, <4>5
      <4>6. c \in 1..Len(cases)
        BY <4>1, <4>3, <4>4, <4>5
      <4> QED BY <4>1, <4>6
    <3>2. /\ cases'[d].opener = r /\ At(r, "open_case") /\ q.before = req[r].before
          /\ cases'[d].actor = ActorOf[req[r].event]
      BY <1>9, <2>2
    <3>3. c \in Earlier(r) /\ cases[c].actor = ActorOf[req[r].event]
      BY <1>3, <1>4, <1>9, <3>1, <3>2 DEF Earlier
    <3> QED BY <1>1, <1>3, <3>2, <3>3
  <2> QED BY <2>1, <2>2
<1>10. OneCasePerStory'
  BY <1>9 DEF OneCasePerStory
<1>11. (\A p \in Requests : At(p, "open_case") =>
            \A c \in Earlier(p) : cases[c].actor = ActorOf[req[p].event] => c \in shut)'
  BY <1>8 DEF At, Earlier
<1> QED BY <1>6, <1>7, <1>10, <1>11 DEF IStories, At

LEMMA HostsStep ==
  ASSUME SocInv, NEW r \in Requests, NEW q, Moves(r, q), Keeps,
         \A a \in Actors : hostOf'[a] = hostOf[a] \/ <<a, hostOf'[a]>> \in bound',
         \A ch \in isolated' \ isolated :
             /\ ch[1] \in DOMAIN cases
             /\ \/ <<cases[ch[1]].actor, ch[2]>> \in bound
                \/ \E e \in stored : DeviceOf[e] = ch[2] /\ ActorOf[e] = cases[ch[1]].actor
  PROVE  IHosts'
<1>1. /\ \A a \in Actors : hostOf[a] # NoHost => <<a, hostOf[a]>> \in bound
      /\ \A ch \in isolated : ch[1] \in DOMAIN cases
      /\ IsolatedHostsAreTheActors
  BY DEF SocInv, IHosts
<1>2. bound \subseteq bound' /\ stored \subseteq stored'
  BY DEF Keeps
<1>3. \A a \in Actors : hostOf'[a] # NoHost => <<a, hostOf'[a]>> \in bound'
  BY <1>1, <1>2
<1>4. \A ch \in isolated' :
          /\ ch[1] \in DOMAIN cases
          /\ \/ <<cases[ch[1]].actor, ch[2]>> \in bound
             \/ \E e \in stored : DeviceOf[e] = ch[2] /\ ActorOf[e] = cases[ch[1]].actor
  BY <1>1 DEF IsolatedHostsAreTheActors
<1>5. DOMAIN cases \subseteq DOMAIN cases'
  BY Growth DEF SocInv
<1>6. \A ch \in isolated' :
          /\ ch[1] \in DOMAIN cases'
          /\ \/ <<cases'[ch[1]].actor, ch[2]>> \in bound'
             \/ \E e \in stored' : DeviceOf[e] = ch[2] /\ ActorOf[e] = cases'[ch[1]].actor
  <2> SUFFICES ASSUME NEW ch \in isolated'
               PROVE  /\ ch[1] \in DOMAIN cases'
                      /\ \/ <<cases'[ch[1]].actor, ch[2]>> \in bound'
                         \/ \E e \in stored' : DeviceOf[e] = ch[2] /\ ActorOf[e] = cases'[ch[1]].actor
    OBVIOUS
  <2>1. cases'[ch[1]].actor = cases[ch[1]].actor
    BY <1>4 DEF Keeps
  <2> QED BY <1>2, <1>4, <1>5, <2>1
<1> QED BY <1>3, <1>6 DEF IHosts, IsolatedHostsAreTheActors

LEMMA TogetherBefore ==
  ASSUME SocInv, Keeps, NEW d \in Events, NEW e \in Events, Together(d, e)'
  PROVE  Together(d, e)
<1> DEFINE S == { x \in stored : ActorOf[x] = ActorOf[e] }
           T == { x \in stored' : ActorOf[x] = ActorOf[e] }
<1>1. stored \subseteq stored' /\ IsFiniteSet(stored')
  BY DEF Keeps
<1>2. IsFiniteSet(T) /\ S \in SUBSET T
  BY <1>1, FS_Subset
<1> HIDE DEF S, T
<1>3. IsFiniteSet(S) /\ Cardinality(S) <= Cardinality(T)
  BY <1>2, FS_Subset
<1>4. Cardinality(S) \in Nat /\ Cardinality(T) \in Nat
  BY <1>2, <1>3, FS_CardinalityType
<1>5. Cardinality(T) <= RelatedLimit + 1 /\ RelatedLimit \in Nat
  BY SocAssumption DEF Together, T
<1>6. Cardinality(S) <= RelatedLimit + 1
  BY <1>3, <1>4, <1>5
<1> QED BY <1>6 DEF Together, Near, S

(* No event is looked at, or what is found stays what it was.              *)
LEMMA MissedStep ==
  ASSUME SocInv, NEW r \in Requests, NEW q, Moves(r, q), Keeps, settled' = settled,
         q.step \in Looking => /\ req[r].step \in Looking /\ q.event = req[r].event
                               /\ q.linked = req[r].linked
  PROVE  IMissed'
<1>1. /\ req'[r] = q /\ \A p \in Requests \ {r} : req'[p] = req[p]
  BY Growth DEF SocInv
<1>2. \A p \in Requests, e \in Events : Has(p, e)' => Has(p, e) /\ req'[p].linked = req[p].linked
  BY <1>1 DEF Has
<1>3. \A d, e \in Events : Covered(d, e) => Covered(d, e)'
  BY DEF Covered, Keeps
<1>4. IMissed
  BY DEF SocInv
<1>5. ASSUME NEW d \in Events, NEW e \in Events, Together(d, e)'
      PROVE  /\ d \in settled' /\ e \in settled' => Covered(d, e)'
             /\ \A p \in Requests :
                  /\ Has(p, d)' /\ e \in settled' => Covered(d, e)' \/ {d, e} \subseteq req'[p].linked
                  /\ Has(p, e)' /\ d \in settled' => Covered(d, e)' \/ {d, e} \subseteq req'[p].linked
             /\ \A p, s \in Requests : Has(p, d)' /\ Has(s, e)' =>
                  Covered(d, e)' \/ {d, e} \subseteq req'[p].linked \/ {d, e} \subseteq req'[s].linked
  <2>1. Together(d, e)
    BY <1>5, TogetherBefore
  <2> QED BY <1>2, <1>3, <1>4, <2>1 DEF IMissed
<1> QED BY <1>5 DEF IMissed

(* The event looked at is settled, and what was found is in a case.        *)
LEMMA MissedSettled ==
  ASSUME SocInv, NEW r \in Requests, NEW q, Moves(r, q), Keeps,
         req[r].step \in Looking, q.step \notin Looking,
         settled' = settled \cup {req[r].event},
         \A e \in req[r].linked : caseOf'[e] # 0
  PROVE  IMissed'
<1>1. /\ req'[r] = q /\ \A p \in Requests \ {r} : req'[p] = req[p]
  BY Growth DEF SocInv
<1> DEFINE x == req[r].event
<1>2. \A p \in Requests, e \in Events : Has(p, e)' => p # r /\ Has(p, e) /\ req'[p].linked = req[p].linked
  BY <1>1 DEF Has
<1>3. /\ \A d, e \in Events : Covered(d, e) => Covered(d, e)'
      /\ \A d, e \in Events : {d, e} \subseteq req[r].linked => Covered(d, e)'
  BY DEF Covered, Keeps
<1>4. IMissed
  BY DEF SocInv
<1>5. settled' = settled \cup {x} /\ Has(r, x)
  BY DEF Has
<1> HIDE DEF x
<1>6. ASSUME NEW d \in Events, NEW e \in Events, Together(d, e)'
      PROVE  /\ d \in settled' /\ e \in settled' => Covered(d, e)'
             /\ \A p \in Requests :
                  /\ Has(p, d)' /\ e \in settled' => Covered(d, e)' \/ {d, e} \subseteq req'[p].linked
                  /\ Has(p, e)' /\ d \in settled' => Covered(d, e)' \/ {d, e} \subseteq req'[p].linked
             /\ \A p, s \in Requests : Has(p, d)' /\ Has(s, e)' =>
                  Covered(d, e)' \/ {d, e} \subseteq req'[p].linked \/ {d, e} \subseteq req'[s].linked
  <2>1. Together(d, e)
    BY <1>6, TogetherBefore
  <2>2. /\ d \in settled /\ e \in settled => Covered(d, e)
        /\ \A p \in Requests :
             /\ Has(p, d) /\ e \in settled => Covered(d, e) \/ {d, e} \subseteq req[p].linked
             /\ Has(p, e) /\ d \in settled => Covered(d, e) \/ {d, e} \subseteq req[p].linked
        /\ \A p, s \in Requests : Has(p, d) /\ Has(s, e) =>
             Covered(d, e) \/ {d, e} \subseteq req[p].linked \/ {d, e} \subseteq req[s].linked
    BY <1>4, <2>1 DEF IMissed
  <2>3. Covered(d, e) \/ {d, e} \subseteq req[r].linked => Covered(d, e)'
    BY <1>3
  <2>4. d \in settled' /\ e \in settled' => Covered(d, e)'
    BY <1>5, <2>2, <2>3
  <2>5. ASSUME NEW p \in Requests
        PROVE  /\ Has(p, d)' /\ e \in settled' => Covered(d, e)' \/ {d, e} \subseteq req'[p].linked
               /\ Has(p, e)' /\ d \in settled' => Covered(d, e)' \/ {d, e} \subseteq req'[p].linked
    BY <1>2, <1>5, <2>2, <2>3
  <2>6. ASSUME NEW p \in Requests, NEW s \in Requests, Has(p, d)', Has(s, e)'
        PROVE  Covered(d, e)' \/ {d, e} \subseteq req'[p].linked \/ {d, e} \subseteq req'[s].linked
    <3>1. Covered(d, e) \/ {d, e} \subseteq req[p].linked \/ {d, e} \subseteq req[s].linked
      BY <1>2, <2>2, <2>6
    <3>2. req'[p].linked = req[p].linked /\ req'[s].linked = req[s].linked
      BY <1>2, <2>6
    <3> QED BY <2>3, <3>1, <3>2
  <2> QED BY <2>4, <2>5, <2>6
<1> QED BY <1>6 DEF IMissed

(* Whoever looks at one of two events that belong together once both are   *)
(* stored finds both.                                                      *)
LEMMA BothFound ==
  ASSUME SocInv, NEW d \in stored, NEW e \in stored, Together(d, e), NEW x \in {d, e},
         NEW related \in Latest(Related(x))
  PROVE  /\ Correlates(related \cup {x})
         /\ {d, e} \subseteq AnyHits(related \cup {x})
<1> DEFINE S == { y \in stored : ActorOf[y] = ActorOf[e] }
<1>1. IsFiniteSet(stored) /\ stored \subseteq Events /\ d \in Events /\ e \in Events
  BY DEF SocInv, SocTypes
<1>2. IsFiniteSet(S)
  BY <1>1, FS_Subset
<1>3. ActorOf[d] = ActorOf[e] /\ Near(d, e) /\ Cardinality(S) <= RelatedLimit + 1
  BY DEF Together
<1>4. x \in S /\ Related(x) \subseteq S \ {x}
  BY <1>3 DEF Related
<1> HIDE DEF S
<1>5. IsFiniteSet(S \ {x}) /\ Cardinality(S \ {x}) = Cardinality(S) - 1
  BY <1>2, <1>4, FS_RemoveElement
<1>6. Cardinality(Related(x)) <= Cardinality(S \ {x}) /\ IsFiniteSet(Related(x))
  BY <1>4, <1>5, FS_Subset
<1>7. Cardinality(Related(x)) \in Nat /\ Cardinality(S) \in Nat /\ RelatedLimit \in Nat
  BY <1>2, <1>6, FS_CardinalityType, SocAssumption
<1>8. Cardinality(Related(x)) <= RelatedLimit
  BY <1>3, <1>5, <1>6, <1>7
<1>9. related = Related(x)
  BY <1>8 DEF Latest
<1>10. {d, e} \subseteq Related(x) \cup {x}
  <2>1. TimeOf[d] \in Nat /\ TimeOf[e] \in Nat /\ CorrelateWindow \in Nat
    BY <1>1, SocAssumption
  <2>2. TimeOf[d] >= TimeOf[e] - CorrelateWindow /\ TimeOf[e] >= TimeOf[d] - CorrelateWindow
    BY <1>3, <2>1 DEF Near
  <2> QED BY <1>3, <2>2 DEF Related
<1>11. "agent" \in KindsOf[d] /\ KindsOf[e] \cap {"identity", "edr"} # {}
  BY DEF Together
<1> QED BY <1>9, <1>10, <1>11 DEF Correlates, AnyHits, Hits, Kinds

LEMMA MissedCorrelate ==
  ASSUME SocInv, NEW r \in Requests, NEW q, Moves(r, q), Keeps, req[r].step \notin Looking,
         req[r].event \in stored, NEW related \in Latest(Related(req[r].event)),
         \/ /\ q.step \in Looking /\ q.event = req[r].event
            /\ q.linked = AnyHits(related \cup {req[r].event}) /\ settled' = settled
         \/ /\ q.step \notin Looking /\ settled' = settled \cup {req[r].event}
            /\ ~Correlates(related \cup {req[r].event})
  PROVE  IMissed'
<1>1. /\ req'[r] = q /\ \A p \in Requests \ {r} : req'[p] = req[p]
  BY Growth DEF SocInv
<1> DEFINE x == req[r].event
           hits == AnyHits(related \cup {x})
           looks == q.step \in Looking
<1>2. \A p \in Requests, e \in Events : Has(p, e)' =>
        \/ p # r /\ Has(p, e) /\ req'[p].linked = req[p].linked
        \/ p = r /\ looks /\ e = x /\ req'[p].linked = hits
  BY <1>1 DEF Has
<1>3. \A d, e \in Events : Covered(d, e) => Covered(d, e)'
  BY DEF Covered, Keeps
<1>4. IMissed
  BY DEF SocInv
<1>5. /\ looks => settled' = settled
      /\ ~looks => settled' = settled \cup {x} /\ ~Correlates(related \cup {x})
  OBVIOUS
<1>6. /\ \A e \in settled : e \in stored
      /\ \A p \in Requests, e \in Events : Has(p, e) => e \in stored
      /\ x \in stored
  BY DEF SocInv, SocTypes, IPlan, Has
<1>7. ASSUME NEW d \in stored, NEW e \in stored, Together(d, e), x \in {d, e}
      PROVE  Correlates(related \cup {x}) /\ {d, e} \subseteq hits
  BY <1>7, BothFound
<1> HIDE DEF x, hits, looks
<1>8. ASSUME NEW d \in Events, NEW e \in Events, Together(d, e)'
      PROVE  /\ d \in settled' /\ e \in settled' => Covered(d, e)'
             /\ \A p \in Requests :
                  /\ Has(p, d)' /\ e \in settled' => Covered(d, e)' \/ {d, e} \subseteq req'[p].linked
                  /\ Has(p, e)' /\ d \in settled' => Covered(d, e)' \/ {d, e} \subseteq req'[p].linked
             /\ \A p, s \in Requests : Has(p, d)' /\ Has(s, e)' =>
                  Covered(d, e)' \/ {d, e} \subseteq req'[p].linked \/ {d, e} \subseteq req'[s].linked
  <2>1. Together(d, e)
    BY <1>8, TogetherBefore
  <2>2. /\ d \in settled /\ e \in settled => Covered(d, e)
        /\ \A p \in Requests :
             /\ Has(p, d) /\ e \in settled => Covered(d, e) \/ {d, e} \subseteq req[p].linked
             /\ Has(p, e) /\ d \in settled => Covered(d, e) \/ {d, e} \subseteq req[p].linked
        /\ \A p, s \in Requests : Has(p, d) /\ Has(s, e) =>
             Covered(d, e) \/ {d, e} \subseteq req[p].linked \/ {d, e} \subseteq req[s].linked
    BY <1>4, <2>1 DEF IMissed
  <2>3. d \in stored /\ e \in stored /\ x \in {d, e} => looks /\ {d, e} \subseteq hits
    BY <1>5, <1>7, <2>1
  <2>4. d \in settled' /\ e \in settled' => Covered(d, e)'
    BY <1>3, <1>5, <1>6, <2>2, <2>3
  <2>5. ASSUME NEW p \in Requests
        PROVE  /\ Has(p, d)' /\ e \in settled' => Covered(d, e)' \/ {d, e} \subseteq req'[p].linked
               /\ Has(p, e)' /\ d \in settled' => Covered(d, e)' \/ {d, e} \subseteq req'[p].linked
    BY <1>2, <1>3, <1>5, <1>6, <2>2, <2>3
  <2>6. ASSUME NEW p \in Requests, NEW s \in Requests, Has(p, d)', Has(s, e)'
        PROVE  Covered(d, e)' \/ {d, e} \subseteq req'[p].linked \/ {d, e} \subseteq req'[s].linked
    <3>1. CASE p # r /\ s # r
      BY <1>2, <1>3, <2>2, <2>6, <3>1
    <3>2. CASE p = r \/ s = r
      BY <1>2, <1>6, <2>3, <2>6, <3>2
    <3> QED BY <3>1, <3>2
  <2> QED BY <2>4, <2>5, <2>6
<1> QED BY <1>8 DEF IMissed

-----------------------------------------------------------------------------
(* The plan of the request that moves.                                     *)
LEMMA TailPrepared ==
  ASSUME NEW plan \in Seq(Tasks), plan # <<>>, NEW S, NEW T, S \subseteq T, Prepared(plan, S),
         Head(plan).op = "ingest" => Head(plan).event \in T
  PROVE  Prepared(Tail(plan), T)
<1>1. /\ Tail(plan) \in Seq(Tasks) /\ Len(Tail(plan)) = Len(plan) - 1
      /\ \A i \in 1..Len(Tail(plan)) : Tail(plan)[i] = plan[i + 1]
      /\ Head(plan) = plan[1]
  BY HeadTailProperties
<1>2. Len(plan) \in Nat /\ DOMAIN plan = 1..Len(plan)
  BY LenProperties
<1>3. PICK rest : rest = Tail(plan)
  OBVIOUS
<1>4. rest \in Seq(Tasks) /\ Len(rest) = Len(plan) - 1 /\ \A i \in 1..Len(rest) : rest[i] = plan[i + 1]
  BY <1>1, <1>3
<1>5. DOMAIN rest = 1..Len(rest)
  BY <1>4, LenProperties
<1>6. ASSUME NEW i \in DOMAIN rest, rest[i].op \in {"manual", "correlate"}, rest[i].event \notin T
      PROVE  \E j \in 1..(i - 1) : rest[j] = IngestTask(rest[i].event)
  <2>1. i + 1 \in DOMAIN plan /\ plan[i + 1] = rest[i] /\ i \in Nat
    BY <1>2, <1>4, <1>5, <1>6
  <2>2. PICK j \in 1..(i + 1 - 1) : plan[j] = IngestTask(rest[i].event)
    BY <1>6, <2>1 DEF Prepared
  <2>3. j # 1
    BY <1>1, <1>6, <2>2 DEF IngestTask
  <2>4. j - 1 \in 1..(i - 1) /\ j - 1 \in 1..Len(rest) /\ (j - 1) + 1 = j
    BY <1>2, <1>4, <1>5, <1>6, <2>1, <2>2, <2>3
  <2>5. rest[j - 1] = plan[j]
    BY <1>4, <2>4
  <2> QED BY <2>2, <2>4, <2>5
<1>7. Prepared(rest, T)
  BY <1>6 DEF Prepared
<1> QED BY <1>3, <1>7

LEMMA EndsOwn ==
  ASSUME SocInv, NEW r \in Requests, NEW q, Ends(r, q), Keeps, req[r].plan # <<>>,
         Head(req[r].plan).op = "ingest" => Head(req[r].plan).event \in stored'
  PROVE  IPlan(r)' /\ ILinked(r)'
<1>1. /\ Moves(r, q) /\ q.plan = Tail(req[r].plan) /\ q.case = req[r].case
      /\ (q.step = "done" /\ q.plan = <<>>) \/ (q.step = "task" /\ q.plan # <<>>)
      /\ q.linked = {} /\ q.listed = {}
  BY DEF Ends
<1>2. req'[r] = q
  BY <1>1, Growth DEF SocInv
<1>3. req[r].plan \in Seq(Tasks) /\ req[r].case \in Nat
  BY DEF SocInv, SocTypes, Bookings
<1>4. Prepared(q.plan, stored')
  <2>1. Prepared(req[r].plan, stored) /\ stored \subseteq stored'
    BY DEF SocInv, IPlan, Keeps
  <2> QED BY <1>1, <1>3, <2>1, TailPrepared
<1>5. q.case <= Len(cases')
  <2>1. Len(cases) \in Nat /\ Len(cases') \in Nat /\ Len(cases) <= Len(cases')
    BY <1>1, Growth DEF SocInv
  <2>2. req[r].case <= Len(cases)
    BY DEF SocInv, IPlan
  <2> QED BY <1>1, <1>3, <2>1, <2>2
<1>6. ASSUME NEW i \in DOMAIN q.plan, q.plan[i].op \in {"run", "update"}
      PROVE  q.case # 0
  <2>1. PICK rest : rest = Tail(req[r].plan)
    OBVIOUS
  <2>2. /\ rest \in Seq(Tasks) /\ Len(rest) = Len(req[r].plan) - 1
        /\ \A k \in 1..Len(rest) : rest[k] = req[r].plan[k + 1]
        /\ q.plan = rest
    BY <1>1, <1>3, <2>1, HeadTailProperties
  <2>3. /\ DOMAIN rest = 1..Len(rest) /\ Len(req[r].plan) \in Nat
        /\ DOMAIN req[r].plan = 1..Len(req[r].plan)
    BY <1>3, <2>2, LenProperties
  <2>4. i + 1 \in DOMAIN req[r].plan /\ req[r].plan[i + 1] = q.plan[i]
    BY <1>6, <2>2, <2>3
  <2> QED BY <1>1, <1>6, <2>4 DEF SocInv, IPlan
<1>7. q.step \in {"task", "done"} /\ (q.step = "done" => q.plan = <<>>) /\ (q.step = "task" => q.plan # <<>>)
  BY <1>1
<1>8. IPlan(r)'
  BY <1>2, <1>4, <1>5, <1>6, <1>7 DEF IPlan, At, Looking, OnCase
<1>9. ILinked(r)'
  BY <1>1, <1>2, <1>7 DEF ILinked, At, Looking
<1> QED BY <1>8, <1>9

LEMMA MovesOwn ==
  ASSUME SocInv, NEW r \in Requests, NEW q, Moves(r, q), Keeps, q.plan = req[r].plan,
         req[r].plan # <<>>, q.step \notin {"task", "done", "lost"},
         Head(req[r].plan).op = "ingest" => Head(req[r].plan).event \in stored',
         q.case \in Nat, q.case <= Len(cases'), req[r].case # 0 => q.case # 0,
         q.step \in OnCase => q.case # 0,
         q.step \in {"correlate"} \cup Looking => q.event \in stored'
  PROVE  IPlan(r)'
<1>1. req'[r] = q
  BY Growth DEF SocInv
<1>2. Prepared(q.plan, stored')
  BY DEF SocInv, IPlan, Prepared, Keeps
<1>3. \A i \in DOMAIN q.plan : q.plan[i].op \in {"run", "update"} => q.case # 0
  BY DEF SocInv, IPlan
<1> QED BY <1>1, <1>2, <1>3 DEF IPlan, At

(* What each action leaves to be shown.                                    *)
LEMMA Stepped ==
  ASSUME SocInv, NEW r \in Requests, NEW q, Moves(r, q), Keeps, IPlan(r)', ILinked(r)',
         \A c \in DOMAIN cases' : ICase(c)',
         IHonest', IStories', IHosts', IMissed'
  PROVE  SocInv'
<1>1. SocTypes'
  BY Growth DEF SocInv
<1>2. ASSUME NEW p \in Requests
      PROVE  IPlan(p)' /\ ILinked(p)'
  BY Others DEF SocInv
<1> QED BY <1>1, <1>2 DEF SocInv

(* A step that changes no case, nor what was done for one.                 *)
LEMMA SameCases ==
  ASSUME SocInv, NEW r \in Requests, NEW q, Moves(r, q), Keeps, cases' = cases,
         IPlan(r)', ILinked(r)', IHosts', IMissed',
         q.step \in {"fan_out", "steps", "write_back"} => HonestThen(q.actions, q.case),
         q.step = "open_case" =>
             \A c \in DOMAIN cases : cases[c].actor = ActorOf[q.event] => c \in shut
  PROVE  SocInv'
<1>1. ASSUME NEW c \in DOMAIN cases'
      PROVE  ICase(c)'
  <2>1. c \in DOMAIN cases /\ ICase(c)
    BY <1>1 DEF SocInv
  <2> QED BY <2>1, StillJustified DEF SocInv
<1>2. IHonest'
  BY HonestStep
<1>3. IStories'
  <2>1. \A c \in DOMAIN cases : cases'[c].status \notin OpenStatus => c \in shut'
    BY DEF SocInv, IStories, Keeps
  <2> QED BY <2>1, StoriesStep
<1> QED BY <1>1, <1>2, <1>3, Stepped

LEMMA SameHosts ==
  ASSUME SocInv, NEW r \in Requests, NEW q, Moves(r, q), Keeps,
         hostOf' = hostOf, isolated' = isolated
  PROVE  IHosts'
BY HostsStep

-----------------------------------------------------------------------------
(* One lemma per action.                                                   *)
LEMMA Working ==
  ASSUME SocInv, NEW r \in Requests
  PROVE  /\ req[r] \in Bookings /\ req[r].before \subseteq Over /\ req[r].case \in Nat
         /\ req[r].plan \in Seq(Tasks) /\ req[r].case <= Len(cases)
         /\ req[r].linked \subseteq stored /\ req[r].listed \subseteq stored
         /\ req[r].step \in {"task", "correlate"} \cup Looking \cup OnCase => req[r].plan # <<>>
         /\ req[r].step \notin {"idle", "task"} /\ req[r].plan # <<>> /\ Head(req[r].plan).op = "ingest"
            => Head(req[r].plan).event \in stored
         /\ (req[r].step \in OnCase \/ req[r].case # 0) =>
               req[r].case \in DOMAIN cases /\ cases[req[r].case] \in CaseRows /\ ICase(req[r].case)
<1>1. SocTypes /\ IPlan(r) /\ ILinked(r) /\ \A c \in DOMAIN cases : ICase(c)
  BY DEF SocInv
<1>2. req[r] \in Bookings /\ req[r].before \subseteq Over
  BY <1>1 DEF SocTypes, SocInv, IStories
<1>3. req[r].case \in Nat /\ req[r].plan \in Seq(Tasks)
  BY <1>2 DEF Bookings
<1>4. ASSUME req[r].step \in OnCase \/ req[r].case # 0
      PROVE  req[r].case \in DOMAIN cases /\ cases[req[r].case] \in CaseRows
  BY <1>1, <1>3, <1>4, CaseIn DEF IPlan
<1>5. /\ req[r].linked \subseteq stored /\ req[r].listed \subseteq stored
      /\ req[r].case <= Len(cases)
  BY <1>1 DEF ILinked, IPlan
<1>6. /\ req[r].step \in {"task", "correlate"} \cup Looking \cup OnCase => req[r].plan # <<>>
      /\ req[r].step \notin {"idle", "task"} /\ req[r].plan # <<>> /\ Head(req[r].plan).op = "ingest"
            => Head(req[r].plan).event \in stored
  BY <1>1 DEF IPlan, At
<1> QED BY <1>1, <1>2, <1>3, <1>4, <1>5, <1>6

LEMMA KeepsTables ==
  ASSUME SocInv, UNCHANGED <<stored, caseOf, cases>>, hostOf' \in [Actors -> Hosts \cup {NoHost}],
         settled \subseteq settled', settled' \subseteq stored,
         shut \subseteq shut', happened \subseteq happened',
         isolated \subseteq isolated', bound \subseteq bound'
  PROVE  Keeps
BY DEF SocInv, SocTypes, Keeps

LEMMA SameTables ==
  ASSUME SocInv, UNCHANGED <<tables, historyVars>>
  PROVE  /\ Keeps /\ UNCHANGED <<stored, caseOf, cases, hostOf, settled, shut, happened, isolated, bound>>
<1>1. UNCHANGED <<stored, caseOf, cases, hostOf, settled, shut, happened, isolated, bound>>
  BY DEF tables, historyVars
<1> QED BY <1>1, KeepsTables DEF SocInv, SocTypes

(* A task that ends without a change but to the settled events.            *)
LEMMA EndsOnly ==
  ASSUME SocInv, NEW r \in Requests, TaskOver(r), Keeps, cases' = cases,
         req[r].step \notin {"idle", "done", "lost"}, req[r].plan # <<>>, IHosts',
         Head(req[r].plan).op = "ingest" => Head(req[r].plan).event \in stored',
         settled' = settled
  PROVE  SocInv'
<1>1. PICK q : Ends(r, q)
  BY Ending, Working DEF SocInv
<1>2. Moves(r, q) /\ q.step \in {"task", "done"}
  BY <1>1 DEF Ends
<1>3. IPlan(r)' /\ ILinked(r)'
  BY <1>1, EndsOwn
<1>4. IMissed'
  BY <1>2, MissedStep DEF Looking
<1> QED BY <1>2, <1>3, <1>4, SameCases

LEMMA IngestInv ==
  ASSUME SocInv, NEW r \in Requests, Ingest(r)
  PROVE  SocInv'
<1>1. /\ req[r].step = "task" /\ req[r].plan # <<>> /\ Task(r).op = "ingest"
      /\ UNCHANGED <<caseOf, cases, hostOf, settled, shut, happened, isolated, bound>>
  BY DEF Ingest, Doing, At, Task, historyVars
<1>2. Task(r).event \in Events
  BY <1>1, TaskTyped DEF SocInv
<1>3. CASE Task(r).event \in stored
  <2>1. TaskOver(r) /\ stored' = stored
    BY <1>3 DEF Ingest
  <2>2. Keeps
    BY <1>1, <2>1, KeepsTables DEF SocInv, SocTypes
  <2>3. IHosts'
    BY <1>1, <2>1 DEF SocInv, IHosts, IsolatedHostsAreTheActors
  <2> QED BY <1>1, <1>3, <2>1, <2>2, <2>3, EndsOnly DEF Task
<1>4. CASE Task(r).event \notin stored
  <2> DEFINE q == [req[r] EXCEPT !.step = "correlate", !.event = Task(r).event]
  <2>1. stored' = stored \cup {Task(r).event} /\ req' = [req EXCEPT ![r] = q]
    BY <1>4, Working DEF Ingest, SocInv, SocTypes, Bookings
  <2>b. req[r] \in Bookings /\ "correlate" \in StepNames
    BY Working DEF StepNames
  <2>2. q \in Bookings
    BY <1>2, <2>b DEF Bookings
  <2>3. /\ q.step = "correlate" /\ q.event = Task(r).event /\ q.plan = req[r].plan
        /\ q.case = req[r].case /\ q.before = req[r].before
        /\ q.linked = req[r].linked /\ q.listed = req[r].listed
    BY Working DEF Bookings
  <2> HIDE DEF q
  <2>4. Moves(r, q)
    BY <1>1, <2>1, <2>2, <2>3, Working DEF Moves
  <2>5. Keeps
    <3>1. IsFiniteSet(stored')
      BY <2>1, FS_AddElement DEF SocInv, SocTypes
    <3>2. stored' \subseteq Events /\ stored \subseteq stored' /\ settled' \subseteq stored'
      BY <1>1, <1>2, <2>1 DEF SocInv, SocTypes
    <3> QED BY <1>1, <3>1, <3>2 DEF SocInv, SocTypes, Keeps
  <2>6. IPlan(r)'
    BY <1>1, <2>1, <2>3, <2>4, <2>5, Working, MovesOwn DEF Task, OnCase, Looking
  <2>7. ILinked(r)'
    <3>1. req'[r] = q
      BY <2>4, <2>5, Growth DEF SocInv
    <3>2. q.linked \cup q.listed \subseteq stored'
      BY <2>1, <2>3, Working
    <3> QED BY <2>3, <3>1, <3>2 DEF ILinked, At, Looking
  <2>8. IHosts'
    BY <1>1, <2>4, <2>5, SameHosts
  <2>9. IMissed'
    BY <1>1, <2>3, <2>4, <2>5, MissedStep DEF Looking
  <2> QED BY <1>1, <2>3, <2>4, <2>5, <2>6, <2>7, <2>8, <2>9, SameCases
<1> QED BY <1>3, <1>4

LEMMA CorrelateInv ==
  ASSUME SocInv, NEW r \in Requests, Correlate(r)
  PROVE  SocInv'
<1>1. /\ req[r].step = "correlate"
      /\ UNCHANGED <<stored, caseOf, cases, hostOf, shut, happened, isolated, bound>>
  BY DEF Correlate, At, tables
<1> DEFINE x == req[r].event
<1>2. PICK related \in Latest(Related(x)) :
        IF Correlates(related \cup {x})
        THEN /\ req' = [req EXCEPT ![r].step = "find_case", ![r].linked = AnyHits(related \cup {x})]
             /\ UNCHANGED settled
        ELSE TaskOver(r) /\ settled' = settled \cup {x}
  BY DEF Correlate
<1>3. x \in stored /\ req[r].plan # <<>> /\ stored \subseteq Events
  BY <1>1, Working DEF SocInv, IPlan, SocTypes
<1>4. Keeps
  BY <1>1, <1>2, <1>3, KeepsTables DEF SocInv, SocTypes
<1>5. related \subseteq Related(x)
  BY DEF Latest
<1> DEFINE pool == related \cup {x}
<1>6. pool \subseteq stored /\ OfActor(pool, ActorOf[x])
  BY <1>3, <1>5 DEF Related, OfActor
<1>7. CASE Correlates(pool)
  <2> DEFINE q == [req[r] EXCEPT !.step = "find_case", !.linked = AnyHits(pool)]
  <2>1. req' = [req EXCEPT ![r] = q] /\ settled' = settled
    BY <1>2, <1>7, Working DEF SocInv, SocTypes, Bookings
  <2>0. AnyHits(pool) \subseteq pool
    BY DEF AnyHits, Hits
  <2>b. req[r] \in Bookings /\ "find_case" \in StepNames /\ AnyHits(pool) \in SUBSET Events
    BY <1>3, <1>6, <2>0, Working DEF StepNames
  <2>2. q \in Bookings
    BY <2>b DEF Bookings
  <2>3. /\ q.step = "find_case" /\ q.event = x /\ q.plan = req[r].plan
        /\ q.case = req[r].case /\ q.before = req[r].before
        /\ q.linked = AnyHits(pool) /\ q.listed = req[r].listed
    BY Working DEF Bookings
  <2> HIDE DEF q
  <2>4. Moves(r, q)
    BY <1>1, <2>1, <2>2, <2>3, Working DEF Moves
  <2>5. Correlates(AnyHits(pool)) /\ OfActor(AnyHits(pool), ActorOf[x])
    <3>1. \A k \in Kinds : Hits(AnyHits(pool), k) = Hits(pool, k)
      BY DEF AnyHits, Hits
    <3>2. Hits(AnyHits(pool), "agent") = Hits(pool, "agent")
          /\ Hits(AnyHits(pool), "identity") = Hits(pool, "identity")
          /\ Hits(AnyHits(pool), "edr") = Hits(pool, "edr")
      BY <3>1 DEF Kinds
    <3> QED BY <1>6, <1>7, <2>0, <3>2 DEF Correlates, OfActor
  <2>6. IPlan(r)'
    BY <1>1, <1>3, <2>3, <2>4, <1>4, Working, MovesOwn DEF OnCase, Looking
  <2>7. ILinked(r)'
    <3>1. req'[r] = q
      BY <2>4, <1>4, Growth DEF SocInv
    <3>2. q.linked \cup q.listed \subseteq stored'
      BY <1>1, <1>6, <2>0, <2>3, Working
    <3> QED BY <2>3, <2>5, <3>1, <3>2 DEF ILinked, At, Looking, Correlates, OfActor
  <2>8. IHosts'
    BY <1>1, <1>4, <2>4, SameHosts
  <2>9. IMissed'
    <3>1. /\ q.step \in Looking /\ q.event = req[r].event
          /\ q.linked = AnyHits(related \cup {req[r].event}) /\ req[r].step \notin Looking
      BY <1>1, <2>3 DEF Looking
    <3> QED BY <1>3, <1>4, <2>1, <2>4, <3>1, MissedCorrelate
  <2> QED BY <1>1, <1>4, <2>3, <2>4, <2>6, <2>7, <2>8, <2>9, SameCases
<1>8. CASE ~Correlates(pool)
  <2>1. TaskOver(r) /\ settled' = settled \cup {x}
    BY <1>2, <1>8
  <2>2. PICK q : Ends(r, q)
    BY <1>1, <1>3, <2>1, Ending, Working DEF SocInv
  <2>3. Moves(r, q) /\ q.step \in {"task", "done"}
    BY <2>2 DEF Ends
  <2>4. IPlan(r)' /\ ILinked(r)'
    BY <1>1, <1>3, <1>4, <2>2, Working, EndsOwn
  <2>5. IHosts'
    BY <1>1, <1>4, <2>3, SameHosts
  <2>6. IMissed'
    <3>1. q.step \notin Looking /\ req[r].step \notin Looking
      BY <1>1, <2>3 DEF Looking
    <3> QED BY <1>3, <1>4, <1>8, <2>1, <2>3, <3>1, MissedCorrelate
  <2> QED BY <1>1, <1>4, <2>3, <2>4, <2>5, <2>6, SameCases
<1> QED BY <1>7, <1>8

LEMMA GreatestOf ==
  ASSUME NEW n \in Nat, NEW S, S \subseteq 1..n, S # {}
  PROVE  Max(S) \in S
<1> DEFINE T == { n - x : x \in S }
           R == OpToRel(<, Nat)
<1>0. \A x \in S : n - x \in Nat
  OBVIOUS
<1>1. T \subseteq Nat /\ T # {}
  <2>1. PICK x : x \in S
    OBVIOUS
  <2>2. n - x \in T
    BY <2>1
  <2> QED BY <1>0, <2>2
<1> HIDE DEF T
<1>2. IsWellFoundedOn(R, Nat)
  BY NatLessThanWellFounded, Zenon
<1>3. \A a, b \in Nat : a < b => <<a, b>> \in R
  BY DEF OpToRel
<1> HIDE DEF R
<1>4. PICK t \in T : \A u \in T : ~(<<u, t>> \in R)
  BY <1>1, <1>2, WFMin
<1>5. PICK m \in S : t = n - m
  BY DEF T
<1>6. ASSUME NEW y \in S
      PROVE  m >= y
  <2>1. n - y \in T /\ n - y \in Nat /\ n - m \in Nat /\ m \in Nat /\ y \in Nat
    BY DEF T
  <2>2. ~(n - y < n - m)
    BY <1>3, <1>4, <1>5, <2>1
  <2> QED BY <2>1, <2>2
<1> QED BY <1>6 DEF Max

LEMMA FindCaseInv ==
  ASSUME SocInv, NEW r \in Requests, FindCase(r)
  PROVE  SocInv'
<1> DEFINE x == req[r].event
           open == OpenCases(ActorOf[x])
           step == IF open = {} THEN "open_case" ELSE "merge"
           case == IF open = {} THEN req[r].case ELSE Max(open)
           listed == IF open = {} THEN req[r].listed ELSE cases[Max(open)].linked
           q == [req[r] EXCEPT !.step = step, !.case = case, !.listed = listed]
<1>1. req[r].step = "find_case" /\ UNCHANGED <<tables, historyVars>>
  BY DEF FindCase, At
<1>2. Keeps /\ UNCHANGED <<stored, caseOf, cases, hostOf, settled, shut, happened, isolated, bound>>
  BY <1>1, SameTables
<1>3. /\ req[r] \in Bookings /\ req[r].plan # <<>> /\ x \in stored
      /\ Len(cases) \in Nat /\ DOMAIN cases = 1..Len(cases)
  <2>1. cases \in Seq(CaseRows)
    BY DEF SocInv, SocTypes
  <2>2. Len(cases) \in Nat /\ DOMAIN cases = 1..Len(cases)
    BY <2>1, LenProperties
  <2> QED BY <1>1, <2>2, Working DEF Looking, SocInv, IPlan
<1>4. req' = [req EXCEPT ![r] = q]
  BY <1>3 DEF FindCase, Goto, SocInv, SocTypes, Bookings
<1>5. open # {} => Max(open) \in open
  BY <1>3, GreatestOf DEF OpenCases
<1>6. open # {} => /\ case \in DOMAIN cases /\ case # 0 /\ listed = cases[case].linked
                   /\ cases[case].actor = ActorOf[x] /\ ICase(case)
  BY <1>3, <1>5 DEF OpenCases, SocInv
<1>7. /\ case \in Nat /\ case <= Len(cases) /\ (req[r].case # 0 => case # 0)
      /\ listed \subseteq stored /\ step \in {"open_case", "merge"}
      /\ (step = "merge" <=> open # {})
  BY <1>3, <1>6, Working DEF ICase
<1> HIDE DEF case, listed, step
<1>8. stored \subseteq Events /\ step \in StepNames
  BY <1>7 DEF SocInv, SocTypes, StepNames
<1>9. q \in Bookings
  BY <1>3, <1>7, <1>8 DEF Bookings
<1>10. /\ q.step = step /\ q.event = x /\ q.plan = req[r].plan /\ q.case = case
       /\ q.before = req[r].before /\ q.linked = req[r].linked /\ q.listed = listed
  BY <1>3 DEF Bookings
<1> HIDE DEF q
<1>11. Moves(r, q)
  BY <1>1, <1>4, <1>7, <1>9, <1>10, Working DEF Moves
<1>12. IPlan(r)'
  <2>1. q.step \notin {"task", "done", "lost"} /\ (q.step \in OnCase => q.case # 0)
    BY <1>6, <1>7, <1>10 DEF OnCase
  <2>2. q.case <= Len(cases') /\ q.event \in stored'
    BY <1>2, <1>3, <1>7, <1>10
  <2>3. Head(req[r].plan).op = "ingest" => Head(req[r].plan).event \in stored'
    BY <1>1, <1>2, <1>3, Working
  <2> QED BY <1>2, <1>3, <1>7, <1>10, <1>11, <2>1, <2>2, <2>3, MovesOwn
<1>13. ILinked(r)'
  <2>1. req'[r] = q
    BY <1>2, <1>11, Growth DEF SocInv
  <2>2. /\ req[r].linked \subseteq stored /\ Correlates(req[r].linked)
        /\ OfActor(req[r].linked, ActorOf[x])
    BY <1>1 DEF SocInv, ILinked, Looking
  <2>3. q.step = "merge" => OfActor(q.listed, ActorOf[q.event]) /\ cases'[q.case].actor = ActorOf[q.event]
    BY <1>2, <1>6, <1>7, <1>10 DEF ICase
  <2>4. q.step # "fan_out" /\ q.step # "triaged"
    BY <1>7, <1>10
  <2>5. q.linked \cup q.listed \subseteq stored'
    BY <1>2, <1>7, <1>10, <2>2
  <2> QED BY <1>10, <2>1, <2>2, <2>3, <2>4, <2>5 DEF ILinked, At, Correlates, OfActor
<1>14. IHosts'
  BY <1>2, <1>11, SameHosts
<1>15. IMissed'
  BY <1>1, <1>2, <1>10, <1>11, MissedStep DEF Looking
<1>16. q.step = "open_case" => \A c \in DOMAIN cases : cases[c].actor = ActorOf[q.event] => c \in shut
  <2>1. ASSUME q.step = "open_case", NEW c \in DOMAIN cases, cases[c].actor = ActorOf[q.event]
        PROVE  c \in shut
    <3>1. c \notin open
      BY <1>7, <1>10, <2>1
    <3>2. cases[c].status \notin OpenStatus
      BY <1>10, <2>1, <3>1 DEF OpenCases
    <3> QED BY <3>2 DEF SocInv, IStories
  <2> QED BY <2>1
<1>17. q.step \notin {"fan_out", "steps", "write_back"}
  BY <1>7, <1>10
<1> QED BY <1>2, <1>11, <1>12, <1>13, <1>14, <1>15, <1>16, <1>17, SameCases

(* A step that reads for the case of the request.                          *)
LEMMA ReadsCase ==
  ASSUME SocInv, NEW r \in Requests, NEW q, Moves(r, q), Keeps, cases' = cases, settled' = settled,
         hostOf' = hostOf, stored' = stored, IHosts',
         req[r].step \notin Looking, q.step \in {"triaged", "fan_out", "steps", "write_back", "update"},
         req[r].plan # <<>>, Head(req[r].plan).op # "ingest" \/ req[r].step # "task",
         req[r].step # "idle", req[r].case # 0,
         q.plan = req[r].plan, q.case = req[r].case, q.linked \subseteq stored, q.listed \subseteq stored,
         q.step = "fan_out" => OfActor(q.linked, cases[q.case].actor),
         q.step = "triaged" /\ cases[q.case].correlated => q.score = 99,
         q.step \in {"fan_out", "steps", "write_back"} => HonestThen(q.actions, q.case)
  PROVE  SocInv'
<1>1. /\ q.step \notin {"task", "done", "lost", "open_case", "merge"} /\ q.step \notin {"correlate"} \cup Looking
      /\ q.case \in Nat /\ q.case <= Len(cases') /\ q.case # 0
  BY Working DEF Looking
<1>2. Head(req[r].plan).op = "ingest" => Head(req[r].plan).event \in stored'
  BY Working
<1>3. IPlan(r)'
  BY <1>1, <1>2, MovesOwn
<1>4. ILinked(r)'
  <2>1. req'[r] = q
    BY Growth DEF SocInv
  <2>2. q.linked \cup q.listed \subseteq stored'
    OBVIOUS
  <2> QED BY <1>1, <2>1, <2>2 DEF ILinked, At, OfActor
<1>5. IMissed'
  BY <1>1, MissedStep
<1> QED BY <1>1, <1>3, <1>4, <1>5, SameCases

LEMMA FullScore ==
  ASSUME NEW c \in DOMAIN cases, ICase(c), cases[c].correlated
  PROVE  Score(cases[c].severity, cases[c].linked) = 99
<1>1. /\ cases[c].severity = "critical" /\ Hits(cases[c].linked, "agent") # {}
      /\ Hits(cases[c].linked, "identity") # {} \/ Hits(cases[c].linked, "edr") # {}
  BY DEF ICase, Correlates
<1> QED BY <1>1 DEF Score, If

LEMMA ScoreTyped ==
  ASSUME NEW severity, NEW events
  PROVE  Score(severity, events) \in 0..99
<1>1. /\ If(severity = "critical", 35) \in 0..35 /\ If(severity = "high", 25) \in 0..25
      /\ If(Hits(events, "identity") # {}, 15) \in 0..15 /\ If(Hits(events, "agent") # {}, 20) \in 0..20
      /\ If(Hits(events, "edr") # {}, 18) \in 0..18
      /\ If(Cardinality({ SourceOf[e] : e \in events }) >= 2, 10) \in 0..10
  BY DEF If
<1> QED BY <1>1 DEF Score

LEMMA TriageReadInv ==
  ASSUME SocInv, NEW r \in Requests, TriageRead(r)
  PROVE  SocInv'
<1> DEFINE c == req[r].case
           score == Score(cases[c].severity, cases[c].linked)
           q == [req[r] EXCEPT !.step = "triaged", !.score = score]
<1>1. /\ req[r].step = "triage" \/ (req[r].step = "task" /\ req[r].plan # <<>>
                                    /\ Head(req[r].plan).op = "triage" /\ c # 0)
      /\ UNCHANGED <<tables, historyVars>>
  BY DEF TriageRead, At, Doing
<1>2. Keeps /\ UNCHANGED <<stored, caseOf, cases, hostOf, settled, shut, happened, isolated, bound>>
  BY <1>1, SameTables
<1>3. /\ req[r] \in Bookings /\ req[r].plan # <<>> /\ c # 0 /\ c \in DOMAIN cases /\ ICase(c)
      /\ req[r].linked \subseteq stored /\ req[r].listed \subseteq stored
  BY <1>1, Working DEF OnCase, SocInv, IPlan
<1>4. score \in 0..99 /\ (cases[c].correlated => score = 99)
  BY <1>3, ScoreTyped, FullScore
<1>5. req' = [req EXCEPT ![r] = q]
  BY <1>3 DEF TriageRead, SocInv, SocTypes, Bookings
<1>b. "triaged" \in StepNames
  BY DEF StepNames
<1> HIDE DEF score
<1>6. q \in Bookings
  BY <1>3, <1>4, <1>b DEF Bookings
<1>7. /\ q.step = "triaged" /\ q.plan = req[r].plan /\ q.case = c /\ q.before = req[r].before
      /\ q.linked = req[r].linked /\ q.listed = req[r].listed /\ q.score = score
  BY <1>3 DEF Bookings
<1> HIDE DEF q
<1>8. Moves(r, q)
  BY <1>1, <1>5, <1>6, <1>7, Working DEF Moves
<1>9. IHosts'
  BY <1>2, <1>8, SameHosts
<1>10. /\ Head(req[r].plan).op # "ingest" \/ req[r].step # "task"
       /\ req[r].step \notin Looking /\ req[r].step # "idle"
  BY <1>1 DEF Looking
<1> QED BY <1>2, <1>3, <1>4, <1>7, <1>8, <1>9, <1>10, ReadsCase

LEMMA RunReadInv ==
  ASSUME SocInv, NEW r \in Requests, RunRead(r)
  PROVE  SocInv'
<1> DEFINE c == req[r].case
           actions == [s \in DOMAIN cases[c].steps \cup {"crowdstrike", "defender", "pagerduty"} |-> "pending"]
           q == [req[r] EXCEPT !.step = "fan_out", !.linked = cases[c].linked, !.actions = actions]
<1>1. /\ req[r].step = "task" /\ req[r].plan # <<>> /\ Head(req[r].plan).op = "run"
      /\ UNCHANGED <<tables, historyVars>>
  BY DEF RunRead, At, Doing
<1>2. Keeps /\ UNCHANGED <<stored, caseOf, cases, hostOf, settled, shut, happened, isolated, bound>>
  BY <1>1, SameTables
<1>0. c # 0
  <2>1. req[r].plan \in Seq(Tasks) /\ IPlan(r)
    BY Working DEF SocInv
  <2>2. 1 \in DOMAIN req[r].plan /\ req[r].plan[1].op = "run"
    <3>1. Len(req[r].plan) \in Nat \ {0} /\ DOMAIN req[r].plan = 1..Len(req[r].plan)
      BY <1>1, <2>1, LenProperties, EmptySeq
    <3> QED BY <1>1, <2>1, <3>1
  <2> QED BY <2>1, <2>2 DEF IPlan
<1>3. /\ req[r] \in Bookings /\ c \in DOMAIN cases /\ cases[c] \in CaseRows /\ ICase(c)
      /\ req[r].linked \subseteq stored /\ req[r].listed \subseteq stored
  BY <1>0, Working
<1>4. actions \in Marked
  <2>1. PICK S \in SUBSET Steps : cases[c].steps \in [S -> Marks]
    BY <1>3 DEF CaseRows, Marked
  <2>2. actions \in [S \cup {"crowdstrike", "defender", "pagerduty"} -> Marks]
    BY <2>1 DEF Marks
  <2>3. S \cup {"crowdstrike", "defender", "pagerduty"} \in SUBSET Steps
    BY DEF Steps
  <2> QED BY <2>2, <2>3 DEF Marked
<1>5. req' = [req EXCEPT ![r] = q]
  BY <1>3 DEF RunRead, SocInv, SocTypes, Bookings
<1>6. q \in Bookings
  <2>1. "fan_out" \in StepNames /\ cases[c].linked \in SUBSET Events
    BY <1>3 DEF StepNames, CaseRows
  <2> HIDE DEF actions
  <2> QED BY <1>3, <1>4, <2>1 DEF Bookings
<1>7. /\ q.step = "fan_out" /\ q.plan = req[r].plan /\ q.case = c /\ q.before = req[r].before
      /\ q.linked = cases[c].linked /\ q.listed = req[r].listed /\ q.actions = actions
  BY <1>3 DEF Bookings
<1> HIDE DEF q
<1>8. Moves(r, q)
  BY <1>1, <1>5, <1>6, <1>7, Working DEF Moves
<1>9. IHosts'
  BY <1>2, <1>8, SameHosts
<1>10. HonestThen(q.actions, q.case)
  BY <1>7 DEF HonestThen
<1>11. q.linked \subseteq stored /\ OfActor(q.linked, cases[c].actor)
  BY <1>3, <1>7 DEF ICase
<1>12. req[r].step \notin Looking
  BY <1>1 DEF Looking
<1> QED BY <1>0, <1>1, <1>2, <1>3, <1>7, <1>8, <1>9, <1>10, <1>11, <1>12, ReadsCase

LEMMA UpdateReadInv ==
  ASSUME SocInv, NEW r \in Requests, UpdateRead(r)
  PROVE  SocInv'
<1> DEFINE c == req[r].case
           status == IF Task(r).status = None THEN cases[c].status ELSE Task(r).status
           q == [req[r] EXCEPT !.step = "update", !.status = status]
<1>1. /\ req[r].step = "task" /\ req[r].plan # <<>> /\ Task(r).op = "update"
      /\ UNCHANGED <<tables, historyVars>>
  BY DEF UpdateRead, At, Doing, Task
<1>2. Keeps /\ UNCHANGED <<stored, caseOf, cases, hostOf, settled, shut, happened, isolated, bound>>
  BY <1>1, SameTables
<1>0. c # 0
  <2>1. req[r].plan \in Seq(Tasks) /\ IPlan(r)
    BY Working DEF SocInv
  <2>2. 1 \in DOMAIN req[r].plan /\ req[r].plan[1].op = "update"
    <3>1. Len(req[r].plan) \in Nat \ {0} /\ DOMAIN req[r].plan = 1..Len(req[r].plan)
      BY <1>1, <2>1, LenProperties, EmptySeq
    <3> QED BY <1>1, <2>1, <3>1 DEF Task
  <2> QED BY <2>1, <2>2 DEF IPlan
<1>3. /\ req[r] \in Bookings /\ c \in DOMAIN cases /\ cases[c] \in CaseRows
      /\ req[r].linked \subseteq stored /\ req[r].listed \subseteq stored
  BY <1>0, Working
<1>4. status \in Status
  BY <1>1, <1>3, TaskTyped DEF CaseRows, SocInv
<1>5. req' = [req EXCEPT ![r] = q]
  BY <1>3 DEF UpdateRead, SocInv, SocTypes, Bookings
<1> HIDE DEF status
<1>b. "update" \in StepNames
  BY DEF StepNames
<1>6. q \in Bookings
  BY <1>3, <1>4, <1>b DEF Bookings
<1>7. /\ q.step = "update" /\ q.plan = req[r].plan /\ q.case = c /\ q.before = req[r].before
      /\ q.linked = req[r].linked /\ q.listed = req[r].listed
  BY <1>3 DEF Bookings
<1> HIDE DEF q
<1>8. Moves(r, q)
  BY <1>1, <1>5, <1>6, <1>7, Working DEF Moves
<1>9. IHosts'
  BY <1>2, <1>8, SameHosts
<1>10. Head(req[r].plan).op # "ingest" /\ req[r].step \notin Looking
  BY <1>1 DEF Looking, Task
<1> QED BY <1>0, <1>1, <1>2, <1>3, <1>7, <1>8, <1>9, <1>10, ReadsCase

LEMMA ScanInv ==
  ASSUME SocInv, NEW r \in Requests, Scan(r)
  PROVE  SocInv'
<1> DEFINE hits == { i \in DOMAIN Rules : Rules[i].type \in Task(r).hits }
           threat == hits # {} /\ Rules[Min(hits)].severity \in {"high", "critical"}
           plan == <<IngestTask(Task(r).event)>> \o Tail(req[r].plan)
           q == [req[r] EXCEPT !.plan = plan]
<1>1. /\ req[r].step = "task" /\ req[r].plan # <<>> /\ Task(r).op = "scan"
      /\ UNCHANGED <<tables, historyVars>>
      /\ ~threat => TaskOver(r)
      /\ threat => req' = [req EXCEPT ![r].plan = plan]
  BY Working DEF Scan, At, Doing, Task, SocInv, SocTypes
<1> HIDE DEF threat
<1>2. Keeps /\ UNCHANGED <<stored, caseOf, cases, hostOf, settled, shut, happened, isolated, bound>>
  BY <1>1, SameTables
<1>3. /\ req[r] \in Bookings /\ req[r].plan \in Seq(Tasks) /\ Task(r).event \in Events
      /\ req[r].linked \subseteq stored /\ req[r].listed \subseteq stored
  BY <1>1, Working, TaskTyped DEF SocInv
<1>4. CASE ~threat
  <2>1. IHosts'
    BY <1>2 DEF SocInv, IHosts, IsolatedHostsAreTheActors
  <2> QED BY <1>1, <1>2, <1>4, <2>1, EndsOnly DEF Task
<1>5. CASE threat
  <2>1. /\ plan \in Seq(Tasks) /\ Len(plan) = Len(req[r].plan) /\ plan[1] = IngestTask(Task(r).event)
        /\ \A i \in 2..Len(plan) : plan[i] = req[r].plan[i]
        /\ Len(plan) \in Nat \ {0}
    <3> DEFINE first == <<IngestTask(Task(r).event)>>
    <3>1. IngestTask(Task(r).event) \in Tasks
      BY <1>3 DEF IngestTask, Tasks
    <3>2. first \in Seq(Tasks) /\ Len(first) = 1 /\ first[1] = IngestTask(Task(r).event)
      BY <3>1
    <3>3. /\ Tail(req[r].plan) \in Seq(Tasks) /\ Len(Tail(req[r].plan)) = Len(req[r].plan) - 1
          /\ \A i \in 1..Len(Tail(req[r].plan)) : Tail(req[r].plan)[i] = req[r].plan[i + 1]
          /\ Len(req[r].plan) \in Nat \ {0}
      BY <1>1, <1>3, HeadTailProperties, EmptySeq
    <3> HIDE DEF first
    <3>4. PICK rest : rest = Tail(req[r].plan)
      OBVIOUS
    <3>5. PICK n \in Nat \ {0} : n = Len(req[r].plan)
      BY <3>3
    <3>6. rest \in Seq(Tasks) /\ Len(rest) = n - 1 /\ \A i \in 1..(n - 1) : rest[i] = req[r].plan[i + 1]
      BY <3>3, <3>4, <3>5
    <3>7. /\ first \o rest \in Seq(Tasks) /\ Len(first \o rest) = Len(first) + Len(rest)
          /\ \A i \in 1..Len(first) + Len(rest) :
                (first \o rest)[i] = IF i <= Len(first) THEN first[i] ELSE rest[i - Len(first)]
      BY <3>2, <3>6, ConcatProperties
    <3>8. Len(first \o rest) = n /\ \A i \in 1..n :
                (first \o rest)[i] = IF i <= 1 THEN first[i] ELSE rest[i - 1]
      BY <3>2, <3>6, <3>7
    <3>9. (first \o rest)[1] = IngestTask(Task(r).event) /\ \A i \in 2..n : (first \o rest)[i] = req[r].plan[i]
      BY <3>2, <3>6, <3>8
    <3>10. plan = first \o rest
      BY <3>4 DEF first
    <3> HIDE DEF plan
    <3> QED BY <3>5, <3>7, <3>8, <3>9, <3>10
  <2> HIDE DEF plan
  <2>2. req' = [req EXCEPT ![r] = q]
    BY <1>1, <1>3, <1>5 DEF SocInv, SocTypes, Bookings
  <2>3. q \in Bookings
    BY <1>3, <2>1 DEF Bookings
  <2>4. /\ q.step = "task" /\ q.plan = plan /\ q.case = req[r].case /\ q.before = req[r].before
        /\ q.linked = req[r].linked /\ q.listed = req[r].listed
    BY <1>1, <1>3 DEF Bookings
  <2> HIDE DEF q
  <2>5. Moves(r, q)
    BY <1>1, <2>2, <2>3, <2>4, Working DEF Moves
  <2>6. req'[r] = q
    BY <1>2, <2>5, Growth DEF SocInv
  <2>7. /\ DOMAIN plan = 1..Len(plan) /\ DOMAIN req[r].plan = 1..Len(plan)
        /\ req[r].plan[1].op = "scan"
    BY <1>1, <1>3, <2>1, LenProperties DEF Task
  <2>8. Prepared(plan, stored)
    <3>1. ASSUME NEW i \in DOMAIN plan, plan[i].op \in {"manual", "correlate"}, plan[i].event \notin stored
          PROVE  \E j \in 1..(i - 1) : plan[j] = IngestTask(plan[i].event)
      <4>1. i # 1
        BY <2>1, <3>1 DEF IngestTask
      <4>2. i \in 2..Len(plan) /\ i \in DOMAIN req[r].plan /\ plan[i] = req[r].plan[i]
        BY <2>1, <2>7, <3>1, <4>1
      <4>3. PICK j \in 1..(i - 1) : req[r].plan[j] = IngestTask(plan[i].event)
        BY <3>1, <4>2 DEF SocInv, IPlan, Prepared
      <4>4. j # 1
        BY <2>7, <4>3 DEF IngestTask
      <4>5. j \in 2..Len(plan)
        BY <2>1, <4>2, <4>3, <4>4
      <4> QED BY <2>1, <4>3, <4>5
    <3> QED BY <3>1 DEF Prepared
  <2>9. plan # <<>>
    BY <2>1, EmptySeq
  <2>10. ASSUME NEW i \in DOMAIN plan, plan[i].op \in {"run", "update"}
         PROVE  req[r].case # 0
    <3>1. i # 1
      BY <2>1, <2>10 DEF IngestTask
    <3>2. i \in 2..Len(plan) /\ i \in DOMAIN req[r].plan /\ plan[i] = req[r].plan[i]
      BY <2>1, <2>7, <2>10, <3>1
    <3> QED BY <2>10, <3>2 DEF SocInv, IPlan
  <2>11. IPlan(r)'
    BY <1>2, <2>4, <2>6, <2>8, <2>9, <2>10, Working DEF IPlan, At, Looking, OnCase
  <2>12. ILinked(r)'
    <3>1. q.linked \cup q.listed \subseteq stored'
      BY <1>2, <1>3, <2>4
    <3> QED BY <2>4, <2>6, <3>1 DEF ILinked, At, Looking
  <2>13. IHosts'
    BY <1>2, <2>5, SameHosts
  <2>14. IMissed'
    BY <1>2, <2>4, <2>5, MissedStep DEF Looking
  <2> QED BY <1>2, <2>4, <2>5, <2>11, <2>12, <2>13, <2>14, SameCases
<1> QED BY <1>4, <1>5

LEMMA CorrelateAgainInv ==
  ASSUME SocInv, NEW r \in Requests, CorrelateAgain(r)
  PROVE  SocInv'
<1> DEFINE q == [req[r] EXCEPT !.step = "correlate", !.event = Task(r).event]
<1>1. /\ req[r].step = "task" /\ req[r].plan # <<>> /\ Task(r).op = "correlate"
      /\ UNCHANGED <<tables, historyVars>>
      /\ req[r].case # 0 => TaskOver(r)
      /\ req[r].case = 0 => req' = [req EXCEPT ![r] = q]
  BY Working DEF CorrelateAgain, At, Doing, Task, SocInv, SocTypes
<1>2. Keeps /\ UNCHANGED <<stored, caseOf, cases, hostOf, settled, shut, happened, isolated, bound>>
  BY <1>1, SameTables
<1>3. /\ req[r] \in Bookings /\ Task(r).event \in Events
      /\ req[r].linked \subseteq stored /\ req[r].listed \subseteq stored
  BY <1>1, Working, TaskTyped DEF SocInv
<1>4. CASE req[r].case # 0
  <2>1. IHosts'
    BY <1>2 DEF SocInv, IHosts, IsolatedHostsAreTheActors
  <2> QED BY <1>1, <1>2, <1>4, <2>1, EndsOnly DEF Task
<1>5. CASE req[r].case = 0
  <2>1. Task(r).event \in stored
    <3>1. req[r].plan \in Seq(Tasks) /\ Prepared(req[r].plan, stored)
      BY Working DEF SocInv, IPlan
    <3>2. Len(req[r].plan) \in Nat \ {0} /\ DOMAIN req[r].plan = 1..Len(req[r].plan)
      BY <1>1, <3>1, LenProperties, EmptySeq
    <3>3. 1 \in DOMAIN req[r].plan /\ req[r].plan[1] = Task(r)
      BY <3>1, <3>2 DEF Task
    <3> QED BY <1>1, <3>1, <3>3 DEF Prepared
  <2>b. "correlate" \in StepNames
    BY DEF StepNames
  <2>2. q \in Bookings
    BY <1>3, <2>b DEF Bookings
  <2>3. /\ q.step = "correlate" /\ q.event = Task(r).event /\ q.plan = req[r].plan
        /\ q.case = req[r].case /\ q.before = req[r].before
        /\ q.linked = req[r].linked /\ q.listed = req[r].listed
    BY <1>3 DEF Bookings
  <2> HIDE DEF q
  <2>4. Moves(r, q)
    BY <1>1, <1>5, <2>2, <2>3, Working DEF Moves
  <2>5. IPlan(r)'
    BY <1>1, <1>2, <2>1, <2>3, <2>4, Working, MovesOwn DEF Task, OnCase, Looking
  <2>6. ILinked(r)'
    <3>1. req'[r] = q
      BY <1>2, <2>4, Growth DEF SocInv
    <3>2. q.linked \cup q.listed \subseteq stored'
      BY <1>2, <1>3, <2>3
    <3> QED BY <2>3, <3>1, <3>2 DEF ILinked, At, Looking
  <2>7. IHosts'
    BY <1>2, <2>4, SameHosts
  <2>8. IMissed'
    BY <1>2, <2>3, <2>4, MissedStep DEF Looking
  <2> QED BY <1>2, <2>3, <2>4, <2>5, <2>6, <2>7, <2>8, SameCases
<1> QED BY <1>4, <1>5

LEMMA BundleTyped ==
  ASSUME NEW host, NEW out \in OutboundBundle(host)
  PROVE  /\ \A s \in Services : out[s] \in {Sent, Refused, Missing, Simulated}
         /\ DOMAIN out = Services
         /\ EdrSent(out) => host # NoHost
<1>1. /\ NotifySlack \subseteq {Sent, Refused, Missing, Simulated}
      /\ CreateJiraIssue \subseteq {Sent, Refused, Missing, Simulated}
      /\ OktaSuspendUser \subseteq {Sent, Refused, Missing, Simulated}
      /\ PostSocWebhook \subseteq {Sent, Refused, Missing, Simulated}
      /\ PagePagerduty \subseteq {Sent, Refused, Missing, Simulated}
      /\ ExportSplunk \subseteq {Sent, Refused, Missing, Simulated}
      /\ CrowdstrikeIsolateHost(host) \subseteq {Sent, Refused, Missing, Simulated}
      /\ DefenderIsolateHost(host) \subseteq {Sent, Refused, Missing, Simulated}
      /\ SentineloneIsolateHost(host) \subseteq {Sent, Refused, Missing, Simulated}
  BY DEF NotifySlack, CreateJiraIssue, OktaSuspendUser, PostSocWebhook, PagePagerduty, ExportSplunk,
         CrowdstrikeIsolateHost, DefenderIsolateHost, SentineloneIsolateHost, Answers, Unset, Sim
<1>2. Sent # Refused /\ Sent # Missing /\ Sent # Simulated
  BY DEF Sent, Refused, Missing, Simulated
<1>3. host = NoHost => /\ Sent \notin CrowdstrikeIsolateHost(host)
                       /\ Sent \notin DefenderIsolateHost(host)
                       /\ Sent \notin SentineloneIsolateHost(host)
  BY <1>2 DEF CrowdstrikeIsolateHost, DefenderIsolateHost, SentineloneIsolateHost, Sim
<1>4. /\ out.slack \in NotifySlack /\ out.jira \in CreateJiraIssue /\ out.okta \in OktaSuspendUser
      /\ out.webhook \in PostSocWebhook /\ out.pagerduty \in PagePagerduty /\ out.splunk \in ExportSplunk
      /\ out.crowdstrike \in CrowdstrikeIsolateHost(host) /\ out.defender \in DefenderIsolateHost(host)
      /\ out.sentinelone \in SentineloneIsolateHost(host)
      /\ DOMAIN out = Services
  BY DEF OutboundBundle, Services
<1>5. \A s \in Services : out[s] \in {Sent, Refused, Missing, Simulated}
  BY <1>1, <1>4 DEF Services
<1>6. EdrSent(out) => host # NoHost
  BY <1>3, <1>4 DEF EdrSent
<1> QED BY <1>4, <1>5, <1>6

LEMMA SaidAndDone ==
  ASSUME NEW host, NEW out \in OutboundBundle(host), NEW s \in Steps \ (Unchecked \cup Internal),
         Outcome(s, out) = "done"
  PROVE  s \in ReallySent(out) \ {"splunk"}
<1>1. s \in Services /\ s # "splunk" /\ s # "webhook"
  BY DEF Steps, Unchecked, Internal, Services
<1>2. out[s] \in {Sent, Refused, Missing, Simulated} /\ s \in DOMAIN out
  BY <1>1, BundleTyped
<1>3. out[s].ok /\ out[s].live
  BY <1>1, <1>2 DEF Outcome, Mark, Sent, Refused, Missing, Simulated
<1>4. out[s] = Sent
  BY <1>2, <1>3 DEF Sent, Refused, Missing, Simulated
<1> QED BY <1>1, <1>2, <1>4 DEF ReallySent

LEMMA MarkTyped ==
  ASSUME NEW ok, NEW live
  PROVE  Mark(ok, live) \in Marks
BY DEF Mark, Marks

LEMMA FanOutInv ==
  ASSUME SocInv, NEW r \in Requests, FanOut(r)
  PROVE  SocInv'
<1> DEFINE c == req[r].case
<1>1. req[r].step = "fan_out" /\ UNCHANGED <<stored, caseOf, cases, hostOf, settled, shut, bound>>
  BY DEF FanOut, At, tables
<1>2. /\ req[r] \in Bookings /\ req[r].plan # <<>> /\ c # 0 /\ c \in DOMAIN cases /\ cases[c] \in CaseRows
      /\ req[r].linked \subseteq stored /\ req[r].listed \subseteq stored
      /\ OfActor(req[r].linked, cases[c].actor)
  BY <1>1, Working DEF OnCase, SocInv, IPlan, ILinked, At
<1>3. PICK host \in HostsFor(cases[c].actor, req[r].linked) : \E out \in OutboundBundle(host) :
         /\ req' = [req EXCEPT ![r].step = "steps", ![r].linked = {},
              ![r].actions = [s \in DOMAIN @ |-> IF s \in Internal THEN @[s] ELSE Outcome(s, out)]]
         /\ happened' = happened \cup { <<c, s>> : s \in ReallySent(out) \ {"splunk"} }
         /\ isolated' = isolated \cup (IF EdrSent(out) THEN {<<c, host>>} ELSE {})
  BY DEF FanOut
<1>4. PICK out \in OutboundBundle(host) :
         /\ req' = [req EXCEPT ![r].step = "steps", ![r].linked = {},
              ![r].actions = [s \in DOMAIN @ |-> IF s \in Internal THEN @[s] ELSE Outcome(s, out)]]
         /\ happened' = happened \cup { <<c, s>> : s \in ReallySent(out) \ {"splunk"} }
         /\ isolated' = isolated \cup (IF EdrSent(out) THEN {<<c, host>>} ELSE {})
  BY <1>3
<1> DEFINE old == req[r].actions
           actions == [s \in DOMAIN old |-> IF s \in Internal THEN old[s] ELSE Outcome(s, out)]
           q == [req[r] EXCEPT !.step = "steps", !.linked = {}, !.actions = actions]
<1>5. Keeps
  BY <1>1, <1>4, KeepsTables DEF SocInv, SocTypes
<1>6. req' = [req EXCEPT ![r] = q]
  BY <1>2, <1>4 DEF SocInv, SocTypes, Bookings
<1>7. actions \in Marked /\ DOMAIN actions \subseteq Steps
  <2>1. PICK S \in SUBSET Steps : old \in [S -> Marks]
    BY <1>2 DEF Bookings, Marked
  <2>2. \A s \in S : Outcome(s, out) \in Marks
    BY MarkTyped DEF Outcome
  <2>3. actions \in [S -> Marks]
    BY <2>1, <2>2
  <2> QED BY <2>3 DEF Marked
<1>8. HonestThen(actions, c)
  <2>1. ASSUME NEW s \in DOMAIN actions \ Unchecked, actions[s] = "done"
        PROVE  <<c, s>> \in happened'
    <3>1. CASE s \in Internal
      BY <1>1, <1>4, <2>1, <3>1 DEF SocInv, IHonest, Honest
    <3>2. CASE s \notin Internal
      BY <1>4, <1>7, <2>1, <3>2, SaidAndDone
    <3> QED BY <3>1, <3>2
  <2> QED BY <2>1 DEF HonestThen
<1>b. "steps" \in StepNames
  BY DEF StepNames
<1> HIDE DEF actions
<1>9. q \in Bookings
  BY <1>2, <1>7, <1>b DEF Bookings
<1>10. /\ q.step = "steps" /\ q.plan = req[r].plan /\ q.case = c /\ q.before = req[r].before
       /\ q.linked = {} /\ q.listed = req[r].listed /\ q.actions = actions
  BY <1>2 DEF Bookings
<1> HIDE DEF q
<1>11. Moves(r, q)
  BY <1>1, <1>6, <1>9, <1>10, Working DEF Moves
<1>12. EdrSent(out) =>
         \/ <<cases[c].actor, host>> \in bound
         \/ \E e \in stored : DeviceOf[e] = host /\ ActorOf[e] = cases[c].actor
  <2> SUFFICES ASSUME EdrSent(out), ~ \E e \in stored : DeviceOf[e] = host /\ ActorOf[e] = cases[c].actor
               PROVE  <<cases[c].actor, host>> \in bound
    OBVIOUS
  <2>1. host # NoHost
    BY BundleTyped
  <2>2. host \notin Devices(req[r].linked)
    BY <1>2 DEF Devices, OfActor
  <2>3. host = hostOf[cases[c].actor]
    BY <2>2 DEF HostsFor
  <2>4. cases[c].actor \in Actors
    BY <1>2 DEF CaseRows
  <2> QED BY <2>1, <2>3, <2>4 DEF SocInv, IHosts
<1>13. IHosts'
  <2>1. \A ch \in isolated' \ isolated :
          /\ ch[1] \in DOMAIN cases
          /\ \/ <<cases[ch[1]].actor, ch[2]>> \in bound
             \/ \E e \in stored : DeviceOf[e] = ch[2] /\ ActorOf[e] = cases[ch[1]].actor
    <3> SUFFICES ASSUME NEW ch \in isolated' \ isolated
                 PROVE  /\ ch[1] \in DOMAIN cases
                        /\ \/ <<cases[ch[1]].actor, ch[2]>> \in bound
                           \/ \E e \in stored : DeviceOf[e] = ch[2] /\ ActorOf[e] = cases[ch[1]].actor
      OBVIOUS
    <3>1. EdrSent(out) /\ ch = <<c, host>>
      BY <1>4
    <3>2. ch[1] = c /\ ch[2] = host
      BY <3>1
    <3> QED BY <1>2, <1>12, <3>1, <3>2
  <2> QED BY <1>1, <1>5, <1>11, <2>1, HostsStep
<1>14. req[r].step \notin Looking
  BY <1>1 DEF Looking
<1> QED BY <1>1, <1>2, <1>5, <1>8, <1>10, <1>11, <1>13, <1>14, ReadsCase

LEMMA RunStepsInv ==
  ASSUME SocInv, NEW r \in Requests, RunSteps(r)
  PROVE  SocInv'
<1> DEFINE c == req[r].case
<1>1. req[r].step = "steps" /\ UNCHANGED <<stored, caseOf, cases, hostOf, settled, shut, isolated, bound>>
  BY DEF RunSteps, At, tables
<1>2. /\ req[r] \in Bookings /\ req[r].plan # <<>> /\ c # 0 /\ c \in DOMAIN cases
      /\ req[r].linked \subseteq stored /\ req[r].listed \subseteq stored
  BY <1>1, Working DEF OnCase, SocInv, IPlan
<1>3. PICK agent \in BOOLEAN, certificate \in BOOLEAN :
         /\ req' = [req EXCEPT ![r].step = "write_back",
                ![r].actions = [s \in DOMAIN @ |->
                   CASE s = "contain" -> Mark(agent, TRUE) [] s = "revoke" -> "done"
                     [] OTHER -> @[s]]]
         /\ happened' = happened \cup { <<c, s>> : s \in
                (IF agent THEN {"contain"} ELSE {}) \cup (IF certificate THEN {"revoke"} ELSE {}) }
  BY DEF RunSteps
<1> DEFINE old == req[r].actions
           actions == [s \in DOMAIN old |-> CASE s = "contain" -> Mark(agent, TRUE) [] s = "revoke" -> "done"
                                              [] OTHER -> old[s]]
           q == [req[r] EXCEPT !.step = "write_back", !.actions = actions]
<1>5. Keeps
  BY <1>1, <1>3, KeepsTables DEF SocInv, SocTypes
<1>6. req' = [req EXCEPT ![r] = q]
  BY <1>2, <1>3 DEF SocInv, SocTypes, Bookings
<1>7. actions \in Marked
  <2>1. PICK S \in SUBSET Steps : old \in [S -> Marks]
    BY <1>2 DEF Bookings, Marked
  <2>2. Mark(agent, TRUE) \in Marks /\ "done" \in Marks
    BY MarkTyped DEF Marks
  <2>3. actions \in [S -> Marks]
    BY <2>1, <2>2
  <2> QED BY <2>3 DEF Marked
<1>8. HonestThen(actions, c)
  <2>1. ASSUME NEW s \in DOMAIN actions \ Unchecked, actions[s] = "done"
        PROVE  <<c, s>> \in happened'
    <3>1. s # "revoke" /\ s \in DOMAIN old
      BY <2>1 DEF Unchecked
    <3>2. CASE s = "contain"
      <4>1. actions[s] = Mark(agent, TRUE)
        BY <3>1, <3>2
      <4>2. agent
        BY <2>1, <4>1 DEF Mark
      <4> QED BY <1>3, <3>2, <4>2
    <3>3. CASE s # "contain"
      <4>1. actions[s] = old[s]
        BY <3>1, <3>3
      <4>2. <<c, s>> \in happened
        BY <1>1, <2>1, <3>1, <4>1 DEF SocInv, IHonest, Honest
      <4> QED BY <1>3, <4>2
    <3> QED BY <3>2, <3>3
  <2> QED BY <2>1 DEF HonestThen
<1>b. "write_back" \in StepNames
  BY DEF StepNames
<1> HIDE DEF actions
<1>9. q \in Bookings
  BY <1>2, <1>7, <1>b DEF Bookings
<1>10. /\ q.step = "write_back" /\ q.plan = req[r].plan /\ q.case = c /\ q.before = req[r].before
       /\ q.linked = req[r].linked /\ q.listed = req[r].listed /\ q.actions = actions
  BY <1>2 DEF Bookings
<1> HIDE DEF q
<1>11. Moves(r, q)
  BY <1>1, <1>6, <1>9, <1>10, Working DEF Moves
<1>12. IHosts'
  BY <1>1, <1>5, <1>11, SameHosts
<1>13. req[r].step \notin Looking
  BY <1>1 DEF Looking
<1> QED BY <1>1, <1>2, <1>5, <1>8, <1>10, <1>11, <1>12, <1>13, ReadsCase

LEMMA BindInv ==
  ASSUME SocInv, NEW r \in Requests, Bind(r)
  PROVE  SocInv'
<1>1. /\ req[r].step = "task" /\ req[r].plan # <<>> /\ Task(r).op = "bind" /\ TaskOver(r)
      /\ hostOf' = [hostOf EXCEPT ![Task(r).actor] = Task(r).host]
      /\ bound' = bound \cup {<<Task(r).actor, Task(r).host>>}
      /\ UNCHANGED <<stored, caseOf, cases, settled, shut, happened, isolated>>
  BY DEF Bind, At, Doing, Task
<1>2. Task(r).actor \in Actors /\ Task(r).host \in Hosts /\ hostOf \in [Actors -> Hosts \cup {NoHost}]
  BY <1>1, TaskTyped DEF SocInv, SocTypes
<1>3. /\ hostOf' \in [Actors -> Hosts \cup {NoHost}]
      /\ \A a \in Actors : hostOf'[a] = hostOf[a] \/ <<a, hostOf'[a]>> \in bound'
  BY <1>1, <1>2
<1>4. Keeps
  BY <1>1, <1>3, KeepsTables DEF SocInv, SocTypes
<1>5. PICK q : Ends(r, q)
  BY <1>1, Ending, Working DEF SocInv
<1>6. IHosts'
  BY <1>1, <1>3, <1>4, <1>5, HostsStep DEF Ends
<1> QED BY <1>1, <1>4, <1>6, EndsOnly DEF Task

(* A step that rewrites the row of the case and ends its task.             *)
LEMMA KeepsRow ==
  ASSUME SocInv, NEW c \in DOMAIN cases, NEW row \in CaseRows, cases' = [cases EXCEPT ![c] = row],
         row.actor = cases[c].actor, row.opener = cases[c].opener, row.correlated = cases[c].correlated,
         stored' = stored, hostOf' = hostOf, caseOf' \in [Events -> Nat],
         \A e \in Events : caseOf'[e] <= Len(cases) /\ (caseOf[e] # 0 => caseOf'[e] # 0),
         settled \subseteq settled', settled' \subseteq stored, shut \subseteq shut',
         UNCHANGED <<happened, isolated, bound>>
  PROVE  /\ Keeps /\ DOMAIN cases' = DOMAIN cases /\ cases'[c] = row
         /\ \A d \in DOMAIN cases \ {c} : cases'[d] = cases[d]
<1>1. cases \in Seq(CaseRows) /\ stored \subseteq Events /\ IsFiniteSet(stored) /\ hostOf \in [Actors -> Hosts \cup {NoHost}]
  BY DEF SocInv, SocTypes
<1>2. Len(cases) \in Nat /\ DOMAIN cases = 1..Len(cases)
  BY <1>1, LenProperties
<1>3. c \in 1..Len(cases)
  BY <1>2
<1>4. /\ [cases EXCEPT ![c] = row] \in Seq(CaseRows) /\ Len([cases EXCEPT ![c] = row]) = Len(cases)
  BY <1>1, <1>3, ExceptSeq
<1>5. cases' \in Seq(CaseRows) /\ Len(cases') = Len(cases)
  BY <1>4
<1>6. DOMAIN cases' = DOMAIN cases /\ cases'[c] = row /\ \A d \in DOMAIN cases \ {c} : cases'[d] = cases[d]
  OBVIOUS
<1>7. \A d \in DOMAIN cases : /\ cases'[d].actor = cases[d].actor
                              /\ cases'[d].opener = cases[d].opener
                              /\ cases'[d].correlated = cases[d].correlated
  BY <1>6
<1>8. \A e \in Events : caseOf'[e] <= Len(cases')
  BY <1>5
<1> QED BY <1>1, <1>5, <1>6, <1>7, <1>8 DEF Keeps

LEMMA RowWritten ==
  ASSUME SocInv, NEW r \in Requests, NEW c \in DOMAIN cases, NEW row \in CaseRows, Keeps,
         TaskOver(r), req[r].step \in OnCase,
         DOMAIN cases' = DOMAIN cases, cases'[c] = row,
         \A d \in DOMAIN cases \ {c} : cases'[d] = cases[d],
         row.linked \subseteq stored, OfActor(row.linked, row.actor),
         row.correlated => /\ Correlates(row.linked)
                           /\ row.severity = "critical" /\ row.score \in {0, 99},
         row.status \notin OpenStatus => c \in shut',
         row.steps = cases[c].steps \/ HonestThen(row.steps, c),
         hostOf' = hostOf, isolated' = isolated,
         \/ settled' = settled /\ req[r].step \notin Looking
         \/ /\ settled' = settled \cup {req[r].event} /\ req[r].step \in Looking
            /\ \A e \in req[r].linked : caseOf'[e] # 0
  PROVE  SocInv'
<1>1. req[r].step \notin {"idle", "task", "done", "lost"} /\ req[r].plan # <<>>
  BY Working DEF OnCase
<1>2. PICK q : Ends(r, q)
  BY <1>1, Ending, Working DEF SocInv
<1>3. Moves(r, q) /\ q.step \in {"task", "done"} /\ q.step \notin Looking
  BY <1>2 DEF Ends, Looking
<1>4. IPlan(r)' /\ ILinked(r)'
  <2>1. Head(req[r].plan).op = "ingest" => Head(req[r].plan).event \in stored'
    BY <1>1, Working DEF Keeps
  <2> QED BY <1>1, <1>2, <2>1, EndsOwn
<1>5. ASSUME NEW d \in DOMAIN cases'
      PROVE  ICase(d)'
  <2>1. CASE d = c
    <3>1. stored \subseteq stored'
      BY DEF Keeps
    <3> QED BY <2>1, <3>1 DEF ICase, OfActor, Correlates, Hits
  <2>2. CASE d # c
    <3>1. d \in DOMAIN cases /\ cases'[d] = cases[d] /\ ICase(d)
      BY <1>5, <2>2 DEF SocInv
    <3> QED BY <3>1, StillJustified DEF SocInv
  <2> QED BY <2>1, <2>2
<1>6. IHonest'
  <2>1. \A d \in DOMAIN cases' : \/ d \in DOMAIN cases /\ cases'[d].steps = cases[d].steps
                                 \/ HonestThen(cases'[d].steps, d)
    OBVIOUS
  <2>2. q.step \notin {"fan_out", "steps", "write_back"}
    BY <1>3
  <2> QED BY <1>3, <2>1, <2>2, HonestStep
<1>7. IStories'
  <2>1. \A d \in DOMAIN cases : cases'[d].status \notin OpenStatus => d \in shut'
    BY DEF SocInv, IStories, Keeps
  <2> QED BY <1>3, <2>1, StoriesStep
<1>8. IHosts'
  BY <1>3, SameHosts
<1>9. IMissed'
  BY <1>3, MissedStep, MissedSettled
<1> QED BY <1>3, <1>4, <1>5, <1>6, <1>7, <1>8, <1>9, Stepped

LEMMA TriageWriteInv ==
  ASSUME SocInv, NEW r \in Requests, TriageWrite(r)
  PROVE  SocInv'
<1> DEFINE c == req[r].case
           row == [cases[c] EXCEPT !.score = req[r].score]
<1>1. /\ req[r].step = "triaged" /\ TaskOver(r)
      /\ cases' = [cases EXCEPT ![c].score = req[r].score]
      /\ UNCHANGED <<stored, caseOf, hostOf, settled, shut, happened, isolated, bound>>
  BY DEF TriageWrite, At, historyVars
<1>2. /\ c \in DOMAIN cases /\ cases[c] \in CaseRows /\ ICase(c) /\ req[r].step \in OnCase
      /\ req[r] \in Bookings /\ req[r].score \in 0..99
  BY <1>1, Working DEF OnCase, Bookings
<1>3. cases[c].correlated => req[r].score = 99
  BY <1>1 DEF SocInv, ILinked, At
<1>4. row \in CaseRows
  BY <1>2 DEF CaseRows
<1>5. /\ row.actor = cases[c].actor /\ row.opener = cases[c].opener
      /\ row.correlated = cases[c].correlated /\ row.linked = cases[c].linked
      /\ row.severity = cases[c].severity /\ row.status = cases[c].status
      /\ row.steps = cases[c].steps /\ row.score = req[r].score
  BY <1>2 DEF CaseRows
<1>6. cases' = [cases EXCEPT ![c] = row]
  BY <1>1
<1> HIDE DEF row
<1>7. /\ caseOf' \in [Events -> Nat] /\ settled' \subseteq stored
      /\ \A e \in Events : caseOf'[e] <= Len(cases) /\ (caseOf[e] # 0 => caseOf'[e] # 0)
  BY <1>1 DEF SocInv, SocTypes
<1>8. /\ Keeps /\ DOMAIN cases' = DOMAIN cases /\ cases'[c] = row
      /\ \A d \in DOMAIN cases \ {c} : cases'[d] = cases[d]
  BY <1>1, <1>2, <1>4, <1>5, <1>6, <1>7, KeepsRow
<1>9. /\ row.linked \subseteq stored /\ OfActor(row.linked, row.actor)
      /\ row.correlated => /\ Correlates(row.linked)
                           /\ row.severity = "critical" /\ row.score \in {0, 99}
  BY <1>2, <1>3, <1>5 DEF ICase
<1>10. row.status \notin OpenStatus => c \in shut'
  BY <1>1, <1>2, <1>5 DEF SocInv, IStories
<1>11. req[r].step \notin Looking
  BY <1>1 DEF Looking
<1> QED BY <1>1, <1>2, <1>4, <1>5, <1>8, <1>9, <1>10, <1>11, RowWritten

LEMMA WriteBackInv ==
  ASSUME SocInv, NEW r \in Requests, WriteBack(r)
  PROVE  SocInv'
<1> DEFINE c == req[r].case
           row == [cases[c] EXCEPT !.steps = req[r].actions, !.status = "contained"]
<1>1. /\ req[r].step = "write_back" /\ TaskOver(r)
      /\ cases' = [cases EXCEPT ![c].steps = req[r].actions, ![c].status = "contained"]
      /\ shut' = shut \cup {c}
      /\ UNCHANGED <<stored, caseOf, hostOf, settled, happened, isolated, bound>>
  BY DEF WriteBack, Shut, OpenStatus, At
<1>2. /\ c \in DOMAIN cases /\ cases[c] \in CaseRows /\ ICase(c) /\ req[r].step \in OnCase
      /\ req[r] \in Bookings /\ req[r].actions \in Marked
  BY <1>1, Working DEF OnCase, Bookings
<1>3. "contained" \in Status
  BY DEF Status
<1>4. row \in CaseRows
  BY <1>2, <1>3 DEF CaseRows
<1>5. /\ row.actor = cases[c].actor /\ row.opener = cases[c].opener
      /\ row.correlated = cases[c].correlated /\ row.linked = cases[c].linked
      /\ row.severity = cases[c].severity /\ row.status = "contained"
      /\ row.steps = req[r].actions /\ row.score = cases[c].score
  BY <1>2 DEF CaseRows
<1>6. cases' = [cases EXCEPT ![c] = row]
  BY <1>1, <1>2
<1> HIDE DEF row
<1>7. /\ caseOf' \in [Events -> Nat] /\ settled' \subseteq stored
      /\ \A e \in Events : caseOf'[e] <= Len(cases) /\ (caseOf[e] # 0 => caseOf'[e] # 0)
  BY <1>1 DEF SocInv, SocTypes
<1>8. /\ Keeps /\ DOMAIN cases' = DOMAIN cases /\ cases'[c] = row
      /\ \A d \in DOMAIN cases \ {c} : cases'[d] = cases[d]
  BY <1>1, <1>2, <1>4, <1>5, <1>6, <1>7, KeepsRow
<1>9. /\ row.linked \subseteq stored /\ OfActor(row.linked, row.actor)
      /\ row.correlated => /\ Correlates(row.linked)
                           /\ row.severity = "critical" /\ row.score \in {0, 99}
  BY <1>2, <1>5 DEF ICase
<1>10. HonestThen(row.steps, c)
  BY <1>1, <1>5 DEF SocInv, IHonest, Honest, HonestThen
<1>11. req[r].step \notin Looking
  BY <1>1 DEF Looking
<1> QED BY <1>1, <1>2, <1>4, <1>8, <1>9, <1>10, <1>11, RowWritten

LEMMA UpdateWriteInv ==
  ASSUME SocInv, NEW r \in Requests, UpdateWrite(r)
  PROVE  SocInv'
<1> DEFINE c == req[r].case
           row == [cases[c] EXCEPT !.status = req[r].status]
<1>1. /\ req[r].step = "update" /\ TaskOver(r)
      /\ cases' = [cases EXCEPT ![c].status = req[r].status]
      /\ shut' = IF req[r].status \in OpenStatus THEN shut ELSE shut \cup {c}
      /\ UNCHANGED <<stored, caseOf, hostOf, settled, happened, isolated, bound>>
  BY DEF UpdateWrite, Shut, At
<1>2. /\ c \in DOMAIN cases /\ cases[c] \in CaseRows /\ ICase(c) /\ req[r].step \in OnCase
      /\ req[r] \in Bookings /\ req[r].status \in Status
  BY <1>1, Working DEF OnCase, Bookings
<1>4. row \in CaseRows
  BY <1>2 DEF CaseRows
<1>5. /\ row.actor = cases[c].actor /\ row.opener = cases[c].opener
      /\ row.correlated = cases[c].correlated /\ row.linked = cases[c].linked
      /\ row.severity = cases[c].severity /\ row.status = req[r].status
      /\ row.steps = cases[c].steps /\ row.score = cases[c].score
  BY <1>2 DEF CaseRows
<1>6. cases' = [cases EXCEPT ![c] = row]
  BY <1>1
<1> HIDE DEF row
<1>7. /\ caseOf' \in [Events -> Nat] /\ settled' \subseteq stored /\ shut \subseteq shut'
      /\ \A e \in Events : caseOf'[e] <= Len(cases) /\ (caseOf[e] # 0 => caseOf'[e] # 0)
  BY <1>1 DEF SocInv, SocTypes
<1>8. /\ Keeps /\ DOMAIN cases' = DOMAIN cases /\ cases'[c] = row
      /\ \A d \in DOMAIN cases \ {c} : cases'[d] = cases[d]
  BY <1>1, <1>2, <1>4, <1>5, <1>6, <1>7, KeepsRow
<1>9. /\ row.linked \subseteq stored /\ OfActor(row.linked, row.actor)
      /\ row.correlated => /\ Correlates(row.linked)
                           /\ row.severity = "critical" /\ row.score \in {0, 99}
  BY <1>2, <1>5 DEF ICase
<1>10. row.status \notin OpenStatus => c \in shut'
  BY <1>1, <1>5
<1>11. req[r].step \notin Looking
  BY <1>1 DEF Looking
<1> QED BY <1>1, <1>2, <1>4, <1>5, <1>8, <1>9, <1>10, <1>11, RowWritten

LEMMA MergeInv ==
  ASSUME SocInv, NEW r \in Requests, Merge(r)
  PROVE  SocInv'
<1> DEFINE c == req[r].case
           linked == req[r].listed \cup req[r].linked
           row == [cases[c] EXCEPT !.linked = linked, !.severity = "critical"]
<1>1. /\ req[r].step = "merge" /\ TaskOver(r)
      /\ cases' = [cases EXCEPT ![c].linked = linked, ![c].severity = "critical"]
      /\ caseOf' = Tag(req[r].linked, c) /\ settled' = settled \cup {req[r].event}
      /\ UNCHANGED <<stored, hostOf, shut, happened, isolated, bound>>
  BY DEF Merge, Settle, At
<1>2. /\ c \in DOMAIN cases /\ cases[c] \in CaseRows /\ ICase(c) /\ req[r].step \in OnCase
      /\ req[r] \in Bookings /\ linked \subseteq stored /\ c \in Nat /\ c <= Len(cases)
      /\ c # 0 /\ req[r].event \in stored /\ stored \subseteq Events
  BY <1>1, Working DEF OnCase, Looking, SocInv, SocTypes, IPlan
<1>3. /\ OfActor(linked, cases[c].actor) /\ Correlates(linked)
  BY <1>1 DEF SocInv, ILinked, At, Looking, OfActor, Correlates, Hits
<1> HIDE DEF linked
<1>b. linked \in SUBSET Events
  BY <1>2
<1>4. row \in CaseRows
  BY <1>2, <1>b DEF CaseRows
<1>5. /\ row.actor = cases[c].actor /\ row.opener = cases[c].opener
      /\ row.correlated = cases[c].correlated /\ row.linked = linked
      /\ row.severity = "critical" /\ row.status = cases[c].status
      /\ row.steps = cases[c].steps /\ row.score = cases[c].score
  BY <1>2 DEF CaseRows
<1>6. cases' = [cases EXCEPT ![c] = row]
  BY <1>1, <1>2
<1> HIDE DEF row
<1>7. /\ caseOf' \in [Events -> Nat] /\ settled' \subseteq stored
      /\ \A e \in Events : caseOf'[e] <= Len(cases) /\ (caseOf[e] # 0 => caseOf'[e] # 0)
      /\ \A e \in req[r].linked : caseOf'[e] # 0
  <2>1. caseOf \in [Events -> Nat] /\ settled \subseteq stored /\ \A e \in Events : caseOf[e] <= Len(cases)
    BY DEF SocInv, SocTypes
  <2>2. req[r].linked \subseteq Events
    BY <1>2 DEF linked
  <2> QED BY <1>1, <1>2, <2>1, <2>2 DEF Tag
<1>8. /\ Keeps /\ DOMAIN cases' = DOMAIN cases /\ cases'[c] = row
      /\ \A d \in DOMAIN cases \ {c} : cases'[d] = cases[d]
  BY <1>1, <1>2, <1>4, <1>5, <1>6, <1>7, KeepsRow
<1>9. /\ row.linked \subseteq stored /\ OfActor(row.linked, row.actor)
      /\ row.correlated => /\ Correlates(row.linked)
                           /\ row.severity = "critical" /\ row.score \in {0, 99}
  BY <1>2, <1>3, <1>5 DEF ICase
<1>10. row.status \notin OpenStatus => c \in shut'
  BY <1>1, <1>2, <1>5 DEF SocInv, IStories
<1>11. req[r].step \in Looking
  BY <1>1 DEF Looking
<1> QED BY <1>1, <1>2, <1>4, <1>5, <1>7, <1>8, <1>9, <1>10, <1>11, RowWritten

(* A new case: what it must be to be justified, and what it changes.       *)
LEMMA NewCase ==
  ASSUME SocInv, NEW r \in Requests, NEW case \in CaseRows, InsertCase(r, case),
         req[r].step \in {"task", "open_case"}, req[r].plan # <<>>,
         Head(req[r].plan).op # "ingest" \/ req[r].step = "open_case",
         stored' = stored, hostOf' = hostOf, UNCHANGED <<shut, happened, isolated, bound>>,
         case.linked \subseteq stored, OfActor(case.linked, case.actor),
         case.correlated => /\ Correlates(case.linked) /\ case.severity = "critical"
                            /\ At(r, "open_case") /\ case.actor = ActorOf[req[r].event],
         case.score = 0, case.status = "open", case.opener = r,
         \A s \in DOMAIN case.steps : case.steps[s] = "pending",
         \/ settled' = settled /\ req[r].step = "task"
         \/ /\ settled' = settled \cup {req[r].event} /\ req[r].step = "open_case"
            /\ case.linked = req[r].linked
  PROVE  SocInv'
<1> DEFINE n == Len(cases)
           q == [req[r] EXCEPT !.step = "triage", !.case = n + 1]
<1>1. /\ cases' = Append(cases, case) /\ caseOf' = Tag(case.linked, n + 1)
      /\ req' = [req EXCEPT ![r].step = "triage", ![r].case = n + 1]
  BY DEF InsertCase
<1>2. /\ cases \in Seq(CaseRows) /\ req[r] \in Bookings /\ stored \subseteq Events /\ IsFiniteSet(stored)
      /\ req[r].linked \subseteq stored /\ req[r].listed \subseteq stored
      /\ req \in [Requests -> Bookings] /\ settled \subseteq stored
      /\ hostOf \in [Actors -> Hosts \cup {NoHost}]
      /\ caseOf \in [Events -> Nat] /\ \A e \in Events : caseOf[e] <= Len(cases)
  BY Working DEF SocInv, SocTypes
<1>3. /\ n \in Nat /\ DOMAIN cases = 1..n
  BY <1>2, LenProperties
<1>4. PICK new : new = Append(cases, case)
  OBVIOUS
<1>5. /\ new \in Seq(CaseRows) /\ Len(new) = n + 1 /\ new[n + 1] = case
      /\ \A c \in 1..n : new[c] = cases[c]
  BY <1>2, <1>4, AppendProperties
<1>6. DOMAIN new = 1..(n + 1)
  BY <1>5, LenProperties
<1>7. /\ cases' \in Seq(CaseRows) /\ Len(cases') = n + 1 /\ cases'[n + 1] = case
      /\ \A c \in DOMAIN cases : cases'[c] = cases[c]
      /\ DOMAIN cases' = 1..(n + 1)
  BY <1>1, <1>3, <1>4, <1>5, <1>6
<1>8. \A c \in DOMAIN cases' \ DOMAIN cases : c = n + 1
  BY <1>3, <1>7
<1>9. req' = [req EXCEPT ![r] = q]
  BY <1>1, <1>2 DEF Bookings
<1> HIDE DEF n
<1>10. "triage" \in StepNames /\ n + 1 \in Nat /\ n + 1 # 0
  BY <1>3 DEF StepNames
<1>11. q \in Bookings
  BY <1>2, <1>10 DEF Bookings
<1>12. /\ q.step = "triage" /\ q.plan = req[r].plan /\ q.case = n + 1 /\ q.before = req[r].before
       /\ q.linked = req[r].linked /\ q.listed = req[r].listed
  BY <1>2 DEF Bookings
<1> HIDE DEF q
<1>13. Moves(r, q)
  BY <1>9, <1>11, <1>12, Working DEF Moves
<1>14. settled \subseteq settled' /\ settled' \subseteq stored
  <2>1. req[r].step = "open_case" => req[r].event \in stored
    BY DEF SocInv, IPlan, Looking
  <2> QED BY <1>2, <2>1
<1>15. /\ caseOf' \in [Events -> Nat]
       /\ \A e \in Events : caseOf'[e] <= n + 1 /\ (caseOf[e] # 0 => caseOf'[e] # 0)
       /\ \A e \in case.linked : caseOf'[e] # 0
  <2>1. case.linked \subseteq Events
    BY <1>2
  <2>2. \A e \in Events : caseOf[e] <= n
    BY <1>2 DEF n
  <2> QED BY <1>1, <1>2, <1>3, <1>10, <2>1, <2>2 DEF Tag
<1>16. Keeps
  <2>1. Len(cases') \in {Len(cases), Len(cases) + 1}
    BY <1>7 DEF n
  <2>2. \A e \in Events : caseOf'[e] <= Len(cases')
    BY <1>7, <1>15
  <2> QED BY <1>2, <1>7, <1>14, <1>15, <2>1, <2>2 DEF Keeps
<1>17. IPlan(r)'
  <2>1. Head(req[r].plan).op = "ingest" => Head(req[r].plan).event \in stored'
    BY Working
  <2>2. q.case \in Nat /\ q.case <= Len(cases') /\ q.case # 0
    BY <1>7, <1>10, <1>12
  <2>3. q.step \notin {"task", "done", "lost"} /\ q.step \notin {"correlate"} \cup Looking
    BY <1>12 DEF Looking
  <2> QED BY <1>12, <1>13, <1>16, <2>1, <2>2, <2>3, MovesOwn
<1>18. ILinked(r)'
  <2>1. req'[r] = q
    BY <1>13, <1>16, Growth DEF SocInv
  <2>2. q.linked \cup q.listed \subseteq stored'
    BY <1>2, <1>12
  <2> QED BY <1>12, <2>1, <2>2 DEF ILinked, At, Looking
<1>19. ASSUME NEW c \in DOMAIN cases'
       PROVE  ICase(c)'
  <2>1. CASE c \in DOMAIN cases
    BY <1>7, <1>16, <2>1, StillJustified DEF SocInv
  <2>2. CASE c \notin DOMAIN cases
    <3>1. cases'[c] = case
      BY <1>7, <1>8, <1>19, <2>2
    <3> QED BY <3>1 DEF ICase, OfActor, Correlates, Hits
  <2> QED BY <2>1, <2>2
<1>20. IHonest'
  <2>1. HonestThen(case.steps, n + 1)
    BY DEF HonestThen
  <2>2. ASSUME NEW c \in DOMAIN cases'
        PROVE  \/ c \in DOMAIN cases /\ cases'[c].steps = cases[c].steps
               \/ HonestThen(cases'[c].steps, c)
    BY <1>7, <1>8, <2>1, <2>2
  <2>3. q.step \notin {"fan_out", "steps", "write_back"}
    BY <1>12
  <2> QED BY <1>13, <1>16, <2>2, <2>3, HonestStep
<1>21. IStories'
  <2>1. ASSUME NEW c \in DOMAIN cases' \ DOMAIN cases
        PROVE  /\ cases'[c].opener = r /\ cases'[c].status = "open"
               /\ cases'[c].correlated =>
                      At(r, "open_case") /\ cases'[c].actor = ActorOf[req[r].event]
               /\ ~At(r, "idle") /\ q.before = req[r].before
    <3>1. cases'[c] = case
      BY <1>7, <1>8, <2>1
    <3> QED BY <1>12, <3>1 DEF At
  <2>2. \A c \in DOMAIN cases : cases'[c].status \notin OpenStatus => c \in shut'
    BY <1>7 DEF SocInv, IStories
  <2>3. q.step # "open_case"
    BY <1>12
  <2> QED BY <1>13, <1>16, <2>1, <2>2, <2>3, StoriesStep
<1>22. IHosts'
  BY <1>13, <1>16, SameHosts
<1>23. IMissed'
  <2>1. q.step \notin Looking
    BY <1>12 DEF Looking
  <2>2. CASE settled' = settled
    BY <1>13, <1>16, <2>1, <2>2, MissedStep
  <2>3. CASE settled' # settled
    <3>1. req[r].step \in Looking /\ settled' = settled \cup {req[r].event} /\ case.linked = req[r].linked
      BY <2>3 DEF Looking
    <3> QED BY <1>13, <1>15, <1>16, <2>1, <3>1, MissedSettled
  <2> QED BY <2>2, <2>3
<1> QED BY <1>13, <1>16, <1>17, <1>18, <1>19, <1>20, <1>21, <1>22, <1>23, Stepped

LEMMA PendingSteps ==
  ASSUME NEW steps \in SUBSET Steps
  PROVE  \E row \in Marked : /\ row = [s \in steps |-> "pending"]
                             /\ \A s \in DOMAIN row : row[s] = "pending"
<1> DEFINE row == [s \in steps |-> "pending"]
<1>1. row \in [steps -> Marks]
  BY DEF Marks
<1>2. row \in Marked /\ \A s \in DOMAIN row : row[s] = "pending"
  BY <1>1 DEF Marked
<1> QED BY <1>2

LEMMA CaseTyped ==
  ASSUME NEW actor \in Actors, NEW severity \in {"high", "critical"}, NEW linked \in SUBSET Events,
         NEW row \in Marked, NEW opener \in Requests, NEW correlated \in BOOLEAN
  PROVE  [actor |-> actor, severity |-> severity, status |-> "open", linked |-> linked,
          steps |-> row, score |-> 0, opener |-> opener, correlated |-> correlated] \in CaseRows
<1>1. "open" \in Status /\ 0 \in 0..99
  BY DEF Status, OpenStatus
<1> QED BY <1>1 DEF CaseRows

LEMMA OpenCaseInv ==
  ASSUME SocInv, NEW r \in Requests, OpenCase(r)
  PROVE  SocInv'
<1> DEFINE case == Case(ActorOf[req[r].event], "critical", req[r].linked, Steps, r, TRUE)
<1>1. /\ req[r].step = "open_case" /\ InsertCase(r, case)
      /\ settled' = settled \cup {req[r].event}
      /\ UNCHANGED <<stored, hostOf, shut, happened, isolated, bound>>
  BY DEF OpenCase, At, Settle
<1>2. /\ req[r].plan # <<>> /\ req[r].event \in stored /\ stored \subseteq Events
      /\ req[r].linked \subseteq stored /\ Correlates(req[r].linked)
      /\ OfActor(req[r].linked, ActorOf[req[r].event])
  BY <1>1, Working DEF Looking, SocInv, SocTypes, IPlan, ILinked
<1>3. ActorOf[req[r].event] \in Actors /\ req[r].linked \in SUBSET Events
  BY <1>2 DEF Actors
<1>4. /\ case \in CaseRows /\ case.actor = ActorOf[req[r].event] /\ case.severity = "critical"
      /\ case.linked = req[r].linked /\ case.opener = r
      /\ case.score = 0 /\ case.status = "open"
      /\ \A s \in DOMAIN case.steps : case.steps[s] = "pending"
  <2>1. PICK row \in Marked : /\ row = [s \in Steps |-> "pending"]
                              /\ \A s \in DOMAIN row : row[s] = "pending"
    BY PendingSteps
  <2>2. case = [actor |-> ActorOf[req[r].event], severity |-> "critical", status |-> "open",
                linked |-> req[r].linked, steps |-> row, score |-> 0, opener |-> r, correlated |-> TRUE]
    BY <2>1 DEF Case
  <2> HIDE DEF case
  <2>3. case \in CaseRows
    BY <1>3, <2>1, <2>2, CaseTyped
  <2> QED BY <2>1, <2>2, <2>3
<1> HIDE DEF case
<1> QED BY <1>1, <1>2, <1>4, NewCase DEF At

LEMMA OpenManualInv ==
  ASSUME SocInv, NEW r \in Requests, OpenManual(r)
  PROVE  SocInv'
<1> DEFINE x == Task(r).event
           case == Case(ActorOf[x], Task(r).severity, {x}, ManualSteps, r, FALSE)
<1>1. /\ req[r].step = "task" /\ req[r].plan # <<>> /\ Task(r).op = "manual" /\ InsertCase(r, case)
      /\ UNCHANGED <<stored, hostOf, settled, shut, happened, isolated, bound>>
  BY DEF OpenManual, Doing, At, Task, historyVars
<1>2. x \in stored /\ stored \subseteq Events /\ Task(r).severity \in {"high", "critical"}
  <2>1. req[r].plan \in Seq(Tasks) /\ Prepared(req[r].plan, stored) /\ stored \subseteq Events
    BY Working DEF SocInv, SocTypes, IPlan
  <2>2. Len(req[r].plan) \in Nat \ {0} /\ DOMAIN req[r].plan = 1..Len(req[r].plan)
    BY <1>1, <2>1, LenProperties, EmptySeq
  <2>3. 1 \in DOMAIN req[r].plan /\ req[r].plan[1] = Task(r)
    BY <2>1, <2>2 DEF Task
  <2>4. x \in stored
    BY <1>1, <2>1, <2>3 DEF Prepared
  <2> QED BY <1>1, <2>1, <2>4, TaskTyped DEF SocInv
<1>3. ActorOf[x] \in Actors /\ {x} \in SUBSET Events /\ ManualSteps \in SUBSET Steps
  BY <1>2 DEF Actors, ManualSteps, Steps
<1>4. /\ case \in CaseRows /\ case.actor = ActorOf[x] /\ ~case.correlated
      /\ case.linked = {x} /\ case.opener = r
      /\ case.score = 0 /\ case.status = "open"
      /\ \A s \in DOMAIN case.steps : case.steps[s] = "pending"
  <2>1. PICK row \in Marked : /\ row = [s \in ManualSteps |-> "pending"]
                              /\ \A s \in DOMAIN row : row[s] = "pending"
    BY <1>3, PendingSteps
  <2>2. case = [actor |-> ActorOf[x], severity |-> Task(r).severity, status |-> "open",
                linked |-> {x}, steps |-> row, score |-> 0, opener |-> r, correlated |-> FALSE]
    BY <2>1 DEF Case
  <2> HIDE DEF case, x
  <2>3. case \in CaseRows
    BY <1>2, <1>3, <2>1, <2>2, CaseTyped
  <2> QED BY <2>1, <2>2, <2>3
<1>5. case.linked \subseteq stored /\ OfActor(case.linked, case.actor)
  BY <1>2, <1>4 DEF OfActor
<1> HIDE DEF case, x
<1> QED BY <1>1, <1>4, <1>5, NewCase DEF Task

LEMMA ArriveInv ==
  ASSUME SocInv, NEW r \in Requests, NEW plan \in Plans, NEW c \in 0..Len(cases),
         NamesCase(plan) = (c # 0), Arrive(r, plan, c)
  PROVE  SocInv'
<1> DEFINE q == [Idle EXCEPT !.step = "task", !.plan = plan, !.case = c, !.before = Over]
<1>1. req[r].step = "idle" /\ req' = [req EXCEPT ![r] = q] /\ UNCHANGED <<tables, historyVars>>
  BY DEF Arrive, At
<1>2. Keeps /\ UNCHANGED <<stored, caseOf, cases, hostOf, settled, shut, happened, isolated, bound>>
  BY <1>1, SameTables
<1>3. /\ plan \in Seq(Tasks) /\ plan # <<>>
      /\ \A i \in DOMAIN plan :
            /\ plan[i].op \in {"manual", "correlate"} =>
                   \E j \in 1..(i - 1) : plan[j] = IngestTask(plan[i].event)
            /\ plan[i].op \in {"run", "update"} => NamesCase(plan)
  BY PlansAssumption
<1>4. /\ c \in Nat /\ c <= Len(cases) /\ Over \in SUBSET Requests /\ "task" \in StepNames
  <2>1. Len(cases) \in Nat
    BY LenProperties DEF SocInv, SocTypes
  <2> QED BY <2>1 DEF Over, StepNames
<1>5. q \in Bookings
  BY <1>3, <1>4, IdleTyped DEF Bookings
<1>6. /\ q.step = "task" /\ q.plan = plan /\ q.case = c /\ q.before = Over
      /\ q.linked = {} /\ q.listed = {}
  BY IdleTyped DEF Bookings
<1> HIDE DEF q
<1>7. Moves(r, q)
  BY <1>1, <1>5, <1>6 DEF Moves, At
<1>8. req'[r] = q
  BY <1>2, <1>7, Growth DEF SocInv
<1>9. Prepared(plan, stored)'
  BY <1>3 DEF Prepared
<1>10. IPlan(r)'
  BY <1>2, <1>3, <1>4, <1>6, <1>8, <1>9 DEF IPlan, At, Looking, OnCase, Prepared
<1>11. ILinked(r)'
  BY <1>6, <1>8 DEF ILinked, At, Looking
<1>12. IHosts'
  BY <1>2, <1>7, SameHosts
<1>13. IMissed'
  BY <1>2, <1>6, <1>7, MissedStep DEF Looking
<1> QED BY <1>2, <1>6, <1>7, <1>10, <1>11, <1>12, <1>13, SameCases

LEMMA LoseInv ==
  ASSUME SocInv, NEW r \in Requests, Lose(r)
  PROVE  SocInv'
<1> DEFINE q == [Idle EXCEPT !.step = "lost"]
<1>1. /\ req[r].step \notin {"idle", "done", "lost"} /\ req' = [req EXCEPT ![r] = q]
      /\ UNCHANGED <<tables, historyVars>>
  BY DEF Lose
<1>2. Keeps /\ UNCHANGED <<stored, caseOf, cases, hostOf, settled, shut, happened, isolated, bound>>
  BY <1>1, SameTables
<1>3. "lost" \in StepNames
  BY DEF StepNames
<1>4. q \in Bookings
  BY <1>3, IdleTyped DEF Bookings
<1>5. /\ q.step = "lost" /\ q.plan = <<>> /\ q.case = 0 /\ q.before = {}
      /\ q.linked = {} /\ q.listed = {}
  BY IdleTyped DEF Bookings
<1> HIDE DEF q
<1>6. Moves(r, q)
  BY <1>1, <1>4, <1>5 DEF Moves
<1>7. req'[r] = q
  BY <1>2, <1>6, Growth DEF SocInv
<1>8. Len(cases) \in Nat /\ DOMAIN q.plan = {}
  BY <1>5, LenProperties DEF SocInv, SocTypes
<1>9. IPlan(r)'
  BY <1>2, <1>5, <1>7, <1>8 DEF IPlan, At, Looking, OnCase, Prepared
<1>10. ILinked(r)'
  BY <1>5, <1>7 DEF ILinked, At, Looking
<1>11. IHosts'
  BY <1>2, <1>6, SameHosts
<1>12. IMissed'
  BY <1>2, <1>5, <1>6, MissedStep DEF Looking
<1> QED BY <1>2, <1>5, <1>6, <1>9, <1>10, <1>11, <1>12, SameCases

-----------------------------------------------------------------------------
LEMMA SocStart ==
  ASSUME Init
  PROVE  SocInv
<1>1. /\ stored = {} /\ caseOf = [e \in Events |-> 0] /\ cases = <<>> /\ hostOf = [a \in Actors |-> NoHost]
      /\ req = [r \in Requests |-> Idle]
      /\ settled = {} /\ shut = {} /\ happened = {} /\ isolated = {} /\ bound = {}
  BY DEF Init
<1>2. cases \in Seq(CaseRows) /\ Len(cases) = 0 /\ DOMAIN cases = {}
  BY <1>1, EmptySeq
<1>3. SocTypes
  BY <1>1, <1>2, IdleTyped, FS_EmptySet DEF SocTypes
<1>4. ASSUME NEW r \in Requests
      PROVE  IPlan(r) /\ ILinked(r)
  <2>1. /\ req[r].step = "idle" /\ req[r].plan = <<>> /\ req[r].linked = {}
        /\ req[r].listed = {} /\ req[r].case = 0
    BY <1>1, IdleTyped
  <2>2. DOMAIN req[r].plan = {}
    BY <2>1
  <2> QED BY <1>2, <2>1, <2>2 DEF IPlan, ILinked, At, Looking, OnCase, Prepared
<1>5. IHonest
  BY <1>1, <1>2, IdleTyped DEF IHonest
<1>6. IStories
  BY <1>1, <1>2, IdleTyped DEF IStories, At, OneCasePerStory
<1>7. IHosts
  BY <1>1 DEF IHosts, IsolatedHostsAreTheActors
<1>8. IMissed
  BY <1>1, IdleTyped DEF IMissed, Has, Looking
<1> QED BY <1>2, <1>3, <1>4, <1>5, <1>6, <1>7, <1>8 DEF SocInv

LEMMA SocStep ==
  ASSUME SocInv, [Next]_vars
  PROVE  SocInv'
<1>1. ASSUME NEW r \in Requests, Work(r)
      PROVE  SocInv'
  BY <1>1, IngestInv, CorrelateInv, FindCaseInv, MergeInv, OpenCaseInv, OpenManualInv, TriageReadInv,
     TriageWriteInv, RunReadInv, FanOutInv, RunStepsInv, WriteBackInv, UpdateReadInv, UpdateWriteInv,
     BindInv, ScanInv, CorrelateAgainInv DEF Work
<1>2. CASE UNCHANGED vars
  <2>1. UNCHANGED <<stored, caseOf, cases, hostOf, req, settled, shut, happened, isolated, bound>>
    BY <1>2 DEF vars, tables, historyVars
  <2>2. SocTypes'
    BY <2>1 DEF SocInv, SocTypes
  <2>3. \A r \in Requests : IPlan(r)' /\ ILinked(r)'
    BY <2>1 DEF SocInv, IPlan, ILinked, Prepared, At, OfActor, Correlates, Hits
  <2>4. \A c \in DOMAIN cases' : ICase(c)'
    BY <2>1 DEF SocInv, ICase, OfActor, Correlates, Hits
  <2>5. IHonest'
    BY <2>1 DEF SocInv, IHonest, Honest
  <2>6. IStories'
    BY <2>1 DEF SocInv, IStories, At, Earlier, Over, OneCasePerStory
  <2>7. IHosts'
    BY <2>1 DEF SocInv, IHosts, IsolatedHostsAreTheActors
  <2>8. IMissed'
    BY <2>1 DEF SocInv, IMissed, Together, Covered, Has, Near
  <2> QED BY <2>2, <2>3, <2>4, <2>5, <2>6, <2>7, <2>8 DEF SocInv
<1>3. CASE Next
  BY <1>1, <1>3, ArriveInv, LoseInv DEF Next
<1> QED BY <1>2, <1>3

LEMMA SocCorrect == Spec => []SocInv
<1>1. Init => SocInv
  BY SocStart
<1>2. SocInv /\ [Next]_vars => SocInv'
  BY SocStep
<1> QED BY <1>1, <1>2, PTL DEF Spec

(* The tables hold only what they may: every event a case lists is stored, *)
(* every case an event is tagged with, or a request works for, exists.     *)
THEOREM SocTypeCorrect == Spec => []TypeOK
<1>1. SocInv => TypeOK
  <2> SUFFICES ASSUME SocInv PROVE TypeOK
    OBVIOUS
  <2>1. /\ stored \subseteq Events /\ caseOf \in [Events -> Nat]
        /\ \A e \in Events : caseOf[e] <= Len(cases)
        /\ cases \in Seq(CaseRows) /\ hostOf \in [Actors -> Hosts \cup {NoHost}]
        /\ req \in [Requests -> Bookings]
    BY DEF SocInv, SocTypes
  <2>2. Len(cases) \in Nat /\ DOMAIN cases = 1..Len(cases)
    BY <2>1, LenProperties
  <2>3. \A c \in DOMAIN cases : cases[c] \in CaseRows
    BY <2>1, <2>2, ElementOfSeq
  <2>4. \A c \in DOMAIN cases : cases[c].status \in Status /\ cases[c].linked \subseteq stored
    BY <2>3 DEF CaseRows, SocInv, ICase
  <2>5. \A r \in Requests : req[r].case \in Nat /\ req[r].case <= Len(cases)
    BY Working
  <2>6. \A n \in Nat : n <= Len(cases) => n \in 0..Len(cases)
    BY <2>2
  <2>7. caseOf \in [Events -> 0..Len(cases)]
    BY <2>1, <2>6
  <2> QED BY <2>1, <2>4, <2>5, <2>6, <2>7 DEF TypeOK
<1> QED BY <1>1, SocCorrect, PTL

(* run_case_playbook: a step a case calls done was done for it, but for    *)
(* the webhook and the certificate, whose outcome is not looked at.        *)
THEOREM DoneWasDone == Spec => []DoneMeansDone
<1>1. SocInv => DoneMeansDone
  BY DEF SocInv, IHonest, Honest, DoneMeansDone
<1> QED BY <1>1, SocCorrect, PTL

(* correlate_event: an actor gets a second correlated case only from       *)
(* requests that overlapped, or once the first was contained or closed.    *)
THEOREM StoryTold == Spec => []OneCasePerStory
<1>1. SocInv => OneCasePerStory
  BY DEF SocInv, IStories
<1> QED BY <1>1, SocCorrect, PTL

(* Neither a case nor a host isolated for it strays to another actor, and  *)
(* a correlated case that was triaged is critical.                         *)
THEOREM ActorsApart == Spec => []CasesStayWithTheirActor
<1>1. SocInv => CasesStayWithTheirActor
  <2> SUFFICES ASSUME SocInv PROVE CasesStayWithTheirActor
    OBVIOUS
  <2>1. Risk(99) = "critical"
    BY DEF Risk
  <2>2. CasesAreJustified
    BY <2>1 DEF SocInv, ICase, OfActor, CasesAreJustified
  <2> QED BY <2>2 DEF SocInv, IHosts, CasesStayWithTheirActor
<1> QED BY <1>1, SocCorrect, PTL

(* correlate_event: a threat and the anomaly or alert that belongs to it   *)
(* are both in a case once both were looked at, whoever came first.        *)
THEOREM NothingMissed == Spec => []NoMissedCorrelation
<1>1. SocInv => NoMissedCorrelation
  <2> SUFFICES ASSUME SocInv, NEW d \in settled, NEW e \in settled, Together(d, e)
               PROVE  Covered(d, e)
    BY DEF NoMissedCorrelation, Together, Covered
  <2>1. d \in Events /\ e \in Events
    BY DEF SocInv, SocTypes
  <2> QED BY <2>1 DEF SocInv, IMissed
<1> QED BY <1>1, SocCorrect, PTL
=============================================================================
