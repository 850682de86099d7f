--------------------------- MODULE GovernedSession ---------------------------
(***************************************************************************)
(* One AgentSession (clearframe/clearframe/core/session.py) used by        *)
(* several asyncio tasks at once, with the goal monitor, the message pipe  *)
(* and the actor and reader sandboxes it drives                            *)
(* (clearframe/clearframe/gateway/isolation.py) and the reasoning trace's  *)
(* counter (clearframe/clearframe/monitor/rtl.py).                         *)
(*                                                                         *)
(* A coroutine only gives up the event loop where it really suspends: in   *)
(* the tool's own code, and in queue.put when the pipe is full.  Each      *)
(* action is therefore everything between two such points.                 *)
(*                                                                         *)
(* Nothing under src/ takes a message out of the pipe: recv and            *)
(* recv_with_timeout have no caller, so no action empties it.              *)
(***************************************************************************)
EXTENDS GoalMonitor

CONSTANTS
    Tasks,               \* the tasks that share the session
    NoTool,              \* the tool of a task that calls none
    Registry,            \* the names in the session's tool_registry
    PipeCapacity,        \* asyncio.Queue(maxsize=256)
    MaxOverlap,          \* bound: words a call shares with the goal
    MaxCalls,            \* bound: tool calls made on the session
    MaxChunks,           \* bound: context chunks offered to the session
    MaxStarts,           \* bound: calls of start()
    MaxEnds              \* bound: calls of end()

ASSUME SessionAssumption ==
    /\ NoTool \notin Tools
    /\ Registry \subseteq Tools
    /\ PipeCapacity \in Nat \ {0}
    /\ {MaxOverlap, MaxCalls, MaxChunks, MaxStarts, MaxEnds} \subseteq Nat

VARIABLES
    starts,              \* how often start() has run
    ends,                \* how often end() has run
    pc,                  \* what each task is doing
    toolOf,              \* the tool each task is calling
    rtlSeq,              \* RTL._seq
    pipe,                \* messages in the pipe
    chunks,              \* Len(_context_chunks)
    offered,             \* context chunks offered so far
    trail,               \* the session's audit entries, in order
    executed             \* history: how often each tool's code was entered

sessionVars == <<starts, ends, pc, toolOf, rtlSeq, pipe, chunks, offered, trail, executed>>
vars == <<sessionVars, monitorVars>>

(* A task is idle, inside a tool, or suspended in pipe.send: after its tool  *)
(* returned, or while handing over a context chunk.                          *)
TaskState == {"idle", "in_tool", "sending_result", "sending_chunk"}

Event == {"SESSION_START", "SESSION_END", "GOAL_SCORE", "TOOL_CALL_BLOCKED",
          "TOOL_CALL_REQUESTED", "TOOL_CALL_APPROVED", "TOOL_CALL_COMPLETED",
          "CONTEXT_HASH"}

Entry(e, t, s) == [event |-> e, tool |-> t, score |-> s]
Entries == [event : Event, tool : Tools \cup {NoTool}, score : 0..100]

Init ==
    /\ MonitorInit
    /\ starts = 0
    /\ ends = 0
    /\ pc = [k \in Tasks |-> "idle"]
    /\ toolOf = [k \in Tasks |-> NoTool]
    /\ rtlSeq = 0
    /\ pipe = 0
    /\ chunks = 0
    /\ offered = 0
    /\ trail = <<>>
    /\ executed = [t \in Tools |-> 0]

-----------------------------------------------------------------------------
(* start() locks the manifest and logs.  No method of the session asks       *)
(* whether it was started, or started twice, or ended.                       *)
Start ==
    /\ starts < MaxStarts
    /\ starts' = starts + 1
    /\ trail' = Append(trail, Entry("SESSION_START", NoTool, 0))
    /\ UNCHANGED <<ends, pc, toolOf, rtlSeq, pipe, chunks, offered, executed, monitorVars>>

(* end(), run by __aexit__: the tasks it leaves behind go on. *)
End ==
    /\ ends < MaxEnds
    /\ ends' = ends + 1
    /\ trail' = Append(trail, Entry("SESSION_END", NoTool, 0))
    /\ UNCHANGED <<starts, pc, toolOf, rtlSeq, pipe, chunks, offered, executed, monitorVars>>

(* execute_approved_call up to the tool's first suspension; a tool missing   *)
(* from the registry raises ValueError and the call is over.                 *)
EnterTool(k, t) ==
    IF t \in Registry
    THEN /\ pc' = [pc EXCEPT ![k] = "in_tool"]
         /\ toolOf' = [toolOf EXCEPT ![k] = t]
         /\ executed' = [executed EXCEPT ![t] = @ + 1]
    ELSE UNCHANGED <<pc, toolOf, executed>>

(* call_tool: trace, evaluate, log the score, then refuse, queue or run. *)
CallTool(k, t, outOfScope, overlap) ==
    LET score == Score(t, outOfScope, overlap)
        verdict == Disposition(t, score)
        logged(e, s) == trail \o <<Entry("GOAL_SCORE", t, score), Entry(e, t, s)>>
    IN  /\ pc[k] = "idle"
        /\ rtlSeq < MaxCalls
        /\ rtlSeq' = rtlSeq + 1
        /\ Evaluate(t, score)
        /\ \/ /\ verdict = "block"
              /\ trail' = logged("TOOL_CALL_BLOCKED", 0)
              /\ UNCHANGED <<pc, toolOf, executed>>
           \/ /\ verdict = "queue"
              /\ trail' = logged("TOOL_CALL_REQUESTED", score)
              /\ UNCHANGED <<pc, toolOf, executed>>
           \/ /\ Granted(verdict)
              /\ trail' = logged("TOOL_CALL_APPROVED", score)
              /\ EnterTool(k, t)
        /\ UNCHANGED <<starts, ends, pipe, chunks, offered>>

(* The call completes before its result is in the pipe. *)
ToolReturnsLoggingFirst(k) ==
    /\ pc[k] = "in_tool"
    /\ trail' = Append(trail, Entry("TOOL_CALL_COMPLETED", toolOf[k], 0))
    /\ IF pipe < PipeCapacity
       THEN /\ pipe' = pipe + 1
            /\ pc' = [pc EXCEPT ![k] = "idle"]
            /\ toolOf' = [toolOf EXCEPT ![k] = NoTool]
       ELSE /\ pc' = [pc EXCEPT ![k] = "sending_result"]
            /\ UNCHANGED <<pipe, toolOf>>
    /\ UNCHANGED <<starts, ends, rtlSeq, chunks, offered, executed, monitorVars>>

(* The last slot of the pipe is never used. *)
ToolReturnsLeavingOneSlot(k) ==
    /\ pc[k] = "in_tool"
    /\ \/ /\ pipe < PipeCapacity - 1
          /\ pipe' = pipe + 1
          /\ trail' = Append(trail, Entry("TOOL_CALL_COMPLETED", toolOf[k], 0))
          /\ pc' = [pc EXCEPT ![k] = "idle"]
          /\ toolOf' = [toolOf EXCEPT ![k] = NoTool]
       \/ /\ pipe >= PipeCapacity - 1
          /\ pc' = [pc EXCEPT ![k] = "sending_result"]
          /\ UNCHANGED <<pipe, trail, toolOf>>
    /\ UNCHANGED <<starts, ends, rtlSeq, chunks, offered, executed, monitorVars>>

(* The tool returns: its result goes into the pipe and the call is logged,   *)
(* or the pipe is full and the task is left waiting for room.                *)
ToolReturns(k) ==
    /\ pc[k] = "in_tool"
    /\ \/ /\ pipe < PipeCapacity
          /\ pipe' = pipe + 1
          /\ trail' = Append(trail, Entry("TOOL_CALL_COMPLETED", toolOf[k], 0))
          /\ pc' = [pc EXCEPT ![k] = "idle"]
          /\ toolOf' = [toolOf EXCEPT ![k] = NoTool]
       \/ /\ pipe = PipeCapacity
          /\ pc' = [pc EXCEPT ![k] = "sending_result"]
          /\ UNCHANGED <<pipe, trail, toolOf>>
    /\ UNCHANGED <<starts, ends, rtlSeq, chunks, offered, executed, monitorVars>>

(* The tool raises, and the exception leaves call_tool: nothing is logged. *)
ToolRaises(k) ==
    /\ pc[k] = "in_tool"
    /\ pc' = [pc EXCEPT ![k] = "idle"]
    /\ toolOf' = [toolOf EXCEPT ![k] = NoTool]
    /\ UNCHANGED <<starts, ends, rtlSeq, pipe, chunks, offered, trail, executed, monitorVars>>

(* The chunk is hashed into the log only once the pipe took it. *)
IngestContextHashingLast(k) ==
    /\ pc[k] = "idle" /\ offered < MaxChunks
    /\ offered' = offered + 1
    /\ IF pipe < PipeCapacity
       THEN /\ pipe' = pipe + 1
            /\ chunks' = chunks + 1
            /\ trail' = Append(trail, Entry("CONTEXT_HASH", NoTool, 0))
            /\ UNCHANGED pc
       ELSE /\ pc' = [pc EXCEPT ![k] = "sending_chunk"]
            /\ UNCHANGED <<pipe, chunks, trail>>
    /\ UNCHANGED <<starts, ends, toolOf, rtlSeq, executed, monitorVars>>

(* ingest_context: hash into the log, then hand the text to the reader. *)
IngestContext(k) ==
    /\ pc[k] = "idle"
    /\ offered < MaxChunks
    /\ offered' = offered + 1
    /\ trail' = Append(trail, Entry("CONTEXT_HASH", NoTool, 0))
    /\ \/ /\ pipe < PipeCapacity
          /\ pipe' = pipe + 1
          /\ chunks' = chunks + 1
          /\ UNCHANGED pc
       \/ /\ pipe = PipeCapacity
          /\ pc' = [pc EXCEPT ![k] = "sending_chunk"]
          /\ UNCHANGED <<pipe, chunks>>
    /\ UNCHANGED <<starts, ends, toolOf, rtlSeq, executed, monitorVars>>

TaskStep(k) ==
    \/ \E t \in Tools, outOfScope \in BOOLEAN, overlap \in 0..MaxOverlap :
          CallTool(k, t, outOfScope, overlap)
    \/ ToolReturns(k)
    \/ ToolRaises(k)
    \/ IngestContext(k)

Next == Start \/ End \/ \E k \in Tasks : TaskStep(k)

Spec == Init /\ [][Next]_vars

(* The event loop resumes a task whose tool has finished; that a tool       *)
(* finishes is an assumption about the tool.                                *)
FairSpec == Spec /\ \A k \in Tasks : WF_vars(ToolReturns(k) \/ ToolRaises(k))

-----------------------------------------------------------------------------
Logged(e, t) == {i \in DOMAIN trail : trail[i].event = e /\ trail[i].tool = t}
Count(e, t) == Cardinality(Logged(e, t))
Doing(state, t) == {k \in Tasks : pc[k] = state /\ toolOf[k] = t}

(* Types of every variable of the session and its monitor. *)
TypeOK ==
    /\ MonitorTypeOK
    /\ starts \in Nat
    /\ ends \in Nat
    /\ pc \in [Tasks -> TaskState]
    /\ toolOf \in [Tasks -> Tools \cup {NoTool}]
    /\ rtlSeq \in Nat
    /\ pipe \in 0..PipeCapacity
    /\ chunks \in Nat
    /\ offered \in Nat
    /\ trail \in Seq(Entries)
    /\ executed \in [Tools -> Nat]

(* Only a permitted tool, whose capability is on and that needs no operator, *)
(* ever has its code entered, and never more often than                      *)
(* max_calls_per_session, however the calls of the tasks overlap             *)
(* (session.py:103, "Only approved / auto-approved calls reach the Actor     *)
(* sandbox").                                                                *)
OnlyGrantedToolsRun ==
    \A t \in Tools : executed[t] > 0 =>
        /\ t \in Permitted /\ t \in Registry
        /\ ~Permission[t].approval
        /\ ~CapabilityDenied(t)
        /\ Permission[t].limit # Unlimited => executed[t] <= Permission[t].limit

(* The accounting behind OnlyGrantedToolsRun, inductive: a run was counted   *)
(* first, the counts stay within the limits, and what ran could run.         *)
Runnable == {t \in Permitted : ~Permission[t].approval /\ ~CapabilityDenied(t)}
RunsAreCharged ==
    \A t \in Tools :
        /\ executed[t] <= callCounts[t]
        /\ t \in Permitted /\ Permission[t].limit # Unlimited
             => callCounts[t] <= Permission[t].limit
        /\ executed[t] > 0 => t \in Runnable \cap Registry

(* The soft-scored calls of a tool in the log, and those of all tools that   *)
(* move the run of low scores; its tail, up to the last that was aligned.    *)
Scored(t) == {i \in Logged("GOAL_SCORE", t) : trail[i].score > 0}
DriftPlaces ==
    {i \in DOMAIN trail : /\ trail[i].event = "GOAL_SCORE" /\ trail[i].score > 0
                          /\ ~Permission[trail[i].tool].approval}
LowTail ==
    {i \in DriftPlaces : \A j \in DriftPlaces : j >= i => ~Aligned(trail[j].score)}

(* The monitor's counts are those of the audit log: a tool's count is the    *)
(* number of its GOAL_SCORE entries with a score above zero, so that the     *)
(* monitor_stats in SESSION_END can be replayed from the log.                *)
CountsMatchLog == \A t \in Tools : callCounts[t] = Cardinality(Scored(t))

(* The monitor's run of low scores is the one the log shows, the misaligned  *)
(* scores since the last aligned one, and the session is suspended exactly   *)
(* when there are MaxConsecutiveLow of them.                                 *)
DriftMatchesLog ==
    /\ consecutiveLow = Cardinality(LowTail)
    /\ suspended <=> consecutiveLow >= MaxConsecutiveLow

(* Both: what the monitor holds in memory can be replayed from the log.      *)
AccountsMatchLog == CountsMatchLog /\ DriftMatchesLog

(* Every approval in the log is completed in the log, still in a tool, stuck *)
(* in the pipe, or was lost to a tool that raised or is not registered; and  *)
(* no completion is logged that was not approved, in no prefix of the log.   *)
EveryCompletionApproved ==
    \A t \in Tools :
        /\ Count("TOOL_CALL_COMPLETED", t) + Cardinality(Doing("in_tool", t))
             + Cardinality(Doing("sending_result", t))
             <= Count("TOOL_CALL_APPROVED", t)
        /\ \A i \in Logged("TOOL_CALL_COMPLETED", t) :
             Cardinality({j \in Logged("TOOL_CALL_COMPLETED", t) : j <= i})
               <= Cardinality({j \in Logged("TOOL_CALL_APPROVED", t) : j < i})

(* The context a reader has handed over, or is trying to, was hashed into    *)
(* the log before (session.py, "Source-tagged and SHA-256 hashed into the    *)
(* audit log").                                                              *)
ContextHashedFirst ==
    chunks + Cardinality({k \in Tasks : pc[k] = "sending_chunk"})
      = Count("CONTEXT_HASH", NoTool)

(* A completion is in the log only if its result is in the pipe: the pipe    *)
(* holds the completed results and the recorded chunks, nothing else.        *)
PipeHoldsWhatIsRecorded ==
    pipe = chunks + Cardinality({i \in DOMAIN trail : trail[i].event = "TOOL_CALL_COMPLETED"})

(* Both: log, list of chunks and pipe agree on what has entered the context. *)
ContextIsRecorded == ContextHashedFirst /\ PipeHoldsWhatIsRecorded

(* A suspended session approves nothing and counts nothing, and stays        *)
(* suspended, though calls approved earlier may still run to their end.      *)
SuspensionIsFinal ==
    [][suspended =>
         /\ suspended'
         /\ callCounts' = callCounts
         /\ executed' = executed
         /\ \A t \in Tools : Logged("TOOL_CALL_APPROVED", t)' = Logged("TOOL_CALL_APPROVED", t)]_vars

(* A task that entered a tool gets out of call_tool again, unless the pipe   *)
(* fills up: nobody empties it, and the 257th message of a session makes     *)
(* every call after it wait for ever.                                        *)
CallsReturn ==
    \A k \in Tasks :
        (pc[k] \in {"in_tool", "sending_result"}) ~> (pc[k] = "idle" \/ pipe = PipeCapacity)

-----------------------------------------------------------------------------
(* The session implements the abstract gate: charging is counting, running   *)
(* is entering the tool, shutting is suspending.                             *)
Gate == INSTANCE ToolGate WITH
            Tool <- Tools,
            Runnable <- Runnable,
            Budget <- [t \in Tools |-> IF t \in Permitted THEN Permission[t].limit ELSE 0],
            NoLimit <- Unlimited,
            spent <- callCounts, ran <- executed, shut <- suspended

GateRefined == Gate!GateSpec

-----------------------------------------------------------------------------
(* A claim of the documentation that the code does not keep. *)

(* clearframe/README.md:20, "every tool call scored for alignment; drift triggers       *)
(* auto-pause": after MaxConsecutiveLow calls in a row with the worst score  *)
(* a permitted call can get, the session is suspended.                       *)
DriftPauses ==
    Cardinality({i \in DriftPlaces : \A j \in DriftPlaces : j >= i => trail[j].score = 60})
      >= MaxConsecutiveLow
    => suspended
=============================================================================
