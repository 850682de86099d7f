------------------------------ MODULE Collector ------------------------------
(***************************************************************************)
(* The behavioural collector of the runtime                                *)
(* (clearframe/clearframe/behavioural/collector.py): threads record input  *)
(* events of a session into a bounded buffer, which others flush or save.  *)
(*                                                                         *)
(* One lock guards the buffer and the typing burst, so what is done under  *)
(* it is one step.  But a record_* call tests _active and reads the        *)
(* session's id before it takes the lock, so sessions start and stop in    *)
(* between.  An event is known by its place in `told`, the order in which  *)
(* on_event hears of events; of its fields the model keeps the kind, the   *)
(* session and, of a text edit, the key strokes it sums up.  Coordinates,  *)
(* applications and times are left out: a move that comes too soon after   *)
(* another is a call that records nothing, and whether the gap between two *)
(* keys ends a burst is a free choice.                                     *)
(***************************************************************************)
EXTENDS Integers, Sequences, SequencesExt

CONSTANTS
    Threads,
    Sessions,      \* ids of sessions
    NoSession,
    Kinds,         \* kinds that are recorded and no more: clicks, scrolls, ...
    BufferSize,    \* maxlen of _buffer
    AutoEmit,      \* auto_emit_text_edits
    MaxEvents      \* bound: events there are in the end

ASSUME CollectorAssumption ==
    /\ NoSession \notin Sessions
    /\ BufferSize \in Nat \ {0} /\ MaxEvents \in Nat
    /\ AutoEmit \in BOOLEAN
    /\ Kinds \cap {"start", "end", "text_edit", "key_down"} = {}

VARIABLES
    told,          \* the events _emit and _flush_key_burst passed to on_event
    buffer,        \* _buffer: the events in it
    burst,         \* _key_burst: the key-downs in it
    active,        \* _active
    session,       \* _session_id
    typed,         \* _last_key_time is set
    call,          \* what each thread is doing
    taken,         \* history: the events flush handed out, in order
    dropped,       \* history: the events the full buffer lost
    overlapped     \* history: a session stopped while a call was under way

memory == <<told, buffer, burst, taken, dropped>>
collectorVars == <<memory, active, session, typed, call, overlapped>>

Idle == [step |-> "idle"]

CollectorInit ==
    /\ told = <<>> /\ buffer = <<>> /\ burst = <<>>
    /\ active = FALSE /\ session = NoSession /\ typed = FALSE
    /\ call = [t \in Threads |-> Idle]
    /\ taken = <<>> /\ dropped = {}
    /\ overlapped = FALSE

At(t, step) == call[t].step = step
InputEvent(kind, s) == [kind |-> kind, session |-> s, keys |-> <<>>]

-----------------------------------------------------------------------------
(* _flush_key_burst: the edit takes the session of its first key. *)
Edit ==
    IF burst = <<>> THEN <<>>
    ELSE <<[kind |-> "text_edit", session |-> told[burst[1]].session, keys |-> burst]>>

Numbered(events) == [i \in DOMAIN events |-> Len(told) + i]
Latest(seq) == SubSeq(seq, Len(seq) - BufferSize + 1, Len(seq))

(* The buffer after some more events: a full deque drops its oldest. *)
With(events) ==
    LET all == buffer \o Numbered(events)
    IN  IF Len(all) <= BufferSize THEN all ELSE Latest(all)

(* _emit, of each of the events. *)
Tell(events) ==
    /\ Len(told) + Len(events) <= MaxEvents
    /\ told' = told \o events
    /\ dropped' = dropped \cup (ToSet(buffer \o Numbered(events)) \ ToSet(With(events)))

Emit(events) == Tell(events) /\ buffer' = With(events)

StartSession(s) ==
    /\ session' = s /\ active' = TRUE
    /\ Emit(<<InputEvent("start", s)>>)
    /\ UNCHANGED <<burst, typed, call, taken, overlapped>>

StopKeepingBurst ==
    /\ active
    /\ Emit(<<InputEvent("end", session)>>)
    /\ active' = FALSE
    /\ overlapped' = (overlapped \/ \E t \in Threads : ~At(t, "idle"))
    /\ UNCHANGED <<burst, session, typed, call, taken>>

StopSession ==
    /\ active
    /\ Emit(Edit \o <<InputEvent("end", session)>>)
    /\ burst' = <<>> /\ active' = FALSE
    /\ overlapped' = (overlapped \/ \E t \in Threads : ~At(t, "idle"))
    /\ UNCHANGED <<session, typed, call, taken>>

-----------------------------------------------------------------------------
(* Recording *)
Goto(t, step) == call' = [call EXCEPT ![t].step = step]
OnlyCall == UNCHANGED <<memory, active, session, typed, overlapped>>

(* A call that finds _active goes on; a key-down may first find that the   *)
(* last key was long ago.                                                  *)
Begin(t, kind) ==
    /\ At(t, "idle") /\ active
    /\ \E step \in IF kind = "key_down" /\ typed /\ AutoEmit THEN {"gap", "build"} ELSE {"build"} :
          call' = [call EXCEPT ![t] = [step |-> step, kind |-> kind, session |-> NoSession]]
    /\ OnlyCall

FlushGap(t) ==
    /\ At(t, "gap")
    /\ Emit(Edit) /\ burst' = <<>>
    /\ Goto(t, "build")
    /\ UNCHANGED <<active, session, typed, taken, overlapped>>

(* The event is made, with the session there is by now ... *)
Build(t) ==
    /\ At(t, "build")
    /\ call' = [call EXCEPT ![t].step = "emit", ![t].session = session]
    /\ OnlyCall

IsKey(kind) == kind \in {"key_down", "key_up"}

RecordBeforeBurst(t) ==
    /\ At(t, "emit")
    /\ Emit(<<InputEvent(call[t].kind, call[t].session)>>)
    /\ burst' = IF call[t].kind = "key_down" THEN <<Len(told) + 1>> ELSE burst
    /\ call' = [call EXCEPT ![t] = IF IsKey(call[t].kind) THEN [step |-> "stamp"] ELSE Idle]
    /\ UNCHANGED <<active, session, typed, taken, overlapped>>

(* ... and recorded under the lock, a key-down in the burst too. *)
RecordEvent(t) ==
    /\ At(t, "emit")
    /\ Emit(<<InputEvent(call[t].kind, call[t].session)>>)
    /\ burst' = IF call[t].kind = "key_down" THEN Append(burst, Len(told) + 1) ELSE burst
    /\ call' = [call EXCEPT ![t] = IF IsKey(call[t].kind) THEN [step |-> "stamp"] ELSE Idle]
    /\ UNCHANGED <<active, session, typed, taken, overlapped>>

(* _last_key_time is set when the lock is released. *)
Stamp(t) ==
    /\ At(t, "stamp")
    /\ typed' = TRUE
    /\ call' = [call EXCEPT ![t] = Idle]
    /\ UNCHANGED <<memory, active, session, overlapped>>

-----------------------------------------------------------------------------
(* Flushing *)
HandOutOld ==
    /\ Tell(Edit)
    /\ taken' = taken \o buffer
    /\ buffer' = <<>> /\ burst' = <<>>

(* flush: all that is buffered, the edit of the burst included. *)
HandOut ==
    /\ Tell(Edit)
    /\ taken' = taken \o With(Edit)
    /\ buffer' = <<>> /\ burst' = <<>>

Flush ==
    /\ HandOut
    /\ UNCHANGED <<active, session, typed, call, overlapped>>

(* save_session flushes, or takes a peek ... *)
Save(t, flush) ==
    /\ At(t, "idle")
    /\ IF flush
       THEN HandOut /\ call' = [call EXCEPT ![t] = [step |-> "write", events |-> With(Edit)]]
       ELSE /\ call' = [call EXCEPT ![t] = [step |-> "write", events |-> buffer]]
            /\ UNCHANGED memory
    /\ UNCHANGED <<active, session, typed, overlapped>>

(* ... and writes what it got to the file, or fails to: it is gone from    *)
(* the buffer in either case.                                              *)
WriteFile(t) ==
    /\ At(t, "write")
    /\ call' = [call EXCEPT ![t] = Idle]
    /\ OnlyCall

-----------------------------------------------------------------------------
Step(t) ==
    \/ FlushGap(t) \/ Build(t) \/ RecordEvent(t) \/ Stamp(t) \/ WriteFile(t)
    \/ \E kind \in Kinds \cup {"key_down"} : Begin(t, kind)
    \/ \E flush \in BOOLEAN : Save(t, flush)

CollectorNext ==
    \/ \E t \in Threads : Step(t)
    \/ \E s \in Sessions : StartSession(s)
    \/ StopSession
    \/ Flush

CollectorSpec == CollectorInit /\ [][CollectorNext]_collectorVars

-----------------------------------------------------------------------------
Places == 1..Len(told)

(* However keys, gaps, stops and flushes of several threads interleave,    *)
(* every key-down is in one text edit, or in the burst of the next: the    *)
(* edits sum up the keys once each and in their order.                     *)
Increasing(seq) == \A i, j \in DOMAIN seq : i < j => seq[i] < seq[j]
Edits == Append([i \in Places |-> told[i].keys], burst)

KeysAreCountedOnce ==
    /\ UNION { ToSet(Edits[i]) : i \in DOMAIN Edits } = { i \in Places : told[i].kind = "key_down" }
    /\ \A i \in DOMAIN Edits : Increasing(Edits[i])
    /\ \A i, j \in DOMAIN Edits : i < j =>
          \A k \in ToSet(Edits[i]), l \in ToSet(Edits[j]) : k < l

(* In the stream every event of a session comes after its start, although  *)
(* its id is read without the lock; and after its end nothing of it comes, *)
(* the text edit of its last keys included, until it is started again, if  *)
(* no call was under way when a session stopped.                           *)
StartedBefore(i) == \E j \in 1..i : told[j] = InputEvent("start", told[i].session)
EndedBefore(i) ==
    \E j \in 1..(i - 1) :
        /\ told[j] = InputEvent("end", told[i].session)
        /\ \A k \in j..i : told[k] # InputEvent("start", told[i].session)

SessionsAreFramed ==
    \A i \in Places : StartedBefore(i) /\ (EndedBefore(i) => overlapped)

(* No event is handed out twice, none in front of an earlier one, and none *)
(* is missing that the full buffer did not drop; what is saved to a file   *)
(* is a run of the stream without gaps.                                    *)
IsRun(seq) == \A i \in DOMAIN seq : seq[i] = seq[1] + i - 1

EventsLeaveOnce ==
    /\ Increasing(taken \o buffer)
    /\ ToSet(taken \o buffer) = Places \ dropped
    /\ dropped # {} => Len(told) > BufferSize
    /\ IsRun(buffer)
    /\ \A t \in Threads : At(t, "write") => IsRun(call[t].events)
=============================================================================
