------------------------------ MODULE ApiAudit ------------------------------
(***************************************************************************)
(* The audit log of the API service (services/api/app/services/audit.py):  *)
(* a file of JSON lines, each signed with the secret beside it and naming  *)
(* the hash of the line before.  No process keeps any of it in memory and  *)
(* nothing is locked: write_event reads the secret, reads the last hash    *)
(* and appends, and the threads and replicas that share the directory      *)
(* interleave between these steps.                                         *)
(*                                                                         *)
(* Every event has an id of its own, so a hash stands for one line: the    *)
(* hash of line i is i, and 0 is "0" * 64.                                 *)
(***************************************************************************)
EXTENDS Integers, Sequences, FiniteSets

CONSTANTS
    Writers,     \* the requests that write events or verify the log
    NoSecret,    \* no secret file
    Blank,       \* the secret read from a file just truncated
    NoEvent,
    Window,      \* verify_chain looks at the last 10,000 lines
    MaxEvents    \* bound: lines the file grows to

ASSUME ApiAuditAssumption ==
    /\ Window \in Nat \ {0} /\ MaxEvents \in Nat
    /\ {NoSecret, Blank} \cap Writers = {} /\ NoSecret # Blank

VARIABLES
    secretFile,  \* audit.secret; a fresh secret is named by the one who made it
    lines,       \* audit.log
    writer,      \* how far each write_event or verify_chain has come
    verdict,     \* what verify_chain answered last
    overlapped   \* history: two of them have been under way at once

auditVars == <<secretFile, lines, writer, verdict, overlapped>>

Verify == <<"verify">>
Resting == [event |-> NoEvent, step |-> "rest", secret |-> NoSecret, prev |-> 0]
Writing(w) == writer[w].step # "rest"

ApiAuditInit ==
    /\ secretFile = NoSecret
    /\ lines = <<>>
    /\ writer = [w \in Writers |-> Resting]
    /\ verdict = "none"
    /\ overlapped = FALSE

(* _get_secret: take the secret of the file, if there is a file. *)
GetSecret(w, event) ==
    /\ ~Writing(w)
    /\ writer' = [writer EXCEPT ![w] =
          [event |-> event, step |-> IF secretFile = NoSecret THEN "mint" ELSE "read",
           secret |-> secretFile, prev |-> 0]]
    /\ overlapped' = (overlapped \/ \E v \in Writers : Writing(v))
    /\ UNCHANGED <<secretFile, lines, verdict>>

(* None yet: write_bytes truncates the file ... *)
TruncateSecret(w) ==
    /\ writer[w].step = "mint"
    /\ secretFile' = Blank
    /\ writer' = [writer EXCEPT ![w].step = "fill"]
    /\ UNCHANGED <<lines, verdict, overlapped>>

(* ... and fills it with a fresh secret. *)
FillSecret(w) ==
    /\ writer[w].step = "fill"
    /\ secretFile' = w
    /\ writer' = [writer EXCEPT ![w].step = "read", ![w].secret = w]
    /\ UNCHANGED <<lines, verdict, overlapped>>

LastHashAtStart == 0
LastHash == Len(lines)

(* _last_hash. *)
ReadLast(w) ==
    /\ writer[w].step = "read" /\ writer[w].event # Verify
    /\ writer' = [writer EXCEPT ![w].step = "append", ![w].prev = LastHash]
    /\ UNCHANGED <<secretFile, lines, verdict, overlapped>>

(* The signed line is appended: the end of write_event. *)
AppendEvent(w) ==
    /\ writer[w].step = "append"
    /\ Len(lines) < MaxEvents
    /\ lines' = Append(lines, [event |-> writer[w].event, prev |-> writer[w].prev,
                               secret |-> writer[w].secret])
    /\ writer' = [writer EXCEPT ![w] = Resting]
    /\ UNCHANGED <<secretFile, verdict, overlapped>>

(* The lines verify_chain reads: the first of them must name "0" * 64. *)
Read == { i \in DOMAIN lines : i > Len(lines) - Window }
FirstRead(i) == i - 1 \notin Read

Holds(secret) ==
    \A i \in Read : /\ lines[i].prev = (IF FirstRead(i) THEN 0 ELSE i - 1)
                    /\ lines[i].secret = secret

(* verify_chain: the lines are read at once, and checked with the secret   *)
(* that was read, or made, before.                                         *)
VerifyChain(w) ==
    /\ writer[w].step = "read" /\ writer[w].event = Verify
    /\ verdict' = IF Holds(writer[w].secret) THEN "valid" ELSE "broken"
    /\ writer' = [writer EXCEPT ![w] = Resting]
    /\ UNCHANGED <<secretFile, lines, overlapped>>

(* What happens inside the call, before it ends. *)
AuditStep(w) ==
    \/ TruncateSecret(w)
    \/ FillSecret(w)
    \/ ReadLast(w)

(* The process dies: what was under way is gone, the files are not. *)
ForgetWriters ==
    /\ writer' = [w \in Writers |-> Resting]
    /\ UNCHANGED <<secretFile, lines, verdict, overlapped>>
=============================================================================
