------------------------------ MODULE AuditLog ------------------------------
(***************************************************************************)
(* The chained audit log of the runtime                                    *)
(* (clearframe/clearframe/core/audit.py, flat-file backend): every         *)
(* AuditLog object of every process and restart appends to one file, with  *)
(* the secret it found beside it, and verify_chain replays that file.      *)
(*                                                                         *)
(* An HMAC is the triple it is computed over, so that two HMACs are equal  *)
(* only if secret, predecessor and entry are.  An AuditLog that is opened  *)
(* again, or a process that starts again, is a new writer.                 *)
(*                                                                         *)
(* The sqlite backend is not modelled: AuditConfig has no field backend,   *)
(* so getattr(config, "backend", "file") always answers "file".            *)
(***************************************************************************)
EXTENDS Integers, Sequences, FiniteSets

CONSTANTS
    Writers,        \* the AuditLog objects that are ever created
    Payloads,       \* what an entry says: event, session, data and time
    NoSecret,       \* no secret file
    Blank,          \* the secret read from a file just truncated
    MaxEntries,     \* bound: lines the file grows to
    MaxDamage       \* bound: changes made to the file by others

ASSUME AuditAssumption ==
    /\ MaxEntries \in Nat /\ MaxDamage \in Nat
    /\ {NoSecret, Blank} \cap Writers = {}
    /\ NoSecret # Blank

VARIABLES
    secretFile,     \* what audit-secret holds; a fresh secret is named by its writer
    phase,          \* what each writer is doing
    secret,         \* _secret of each writer
    prevHmac,       \* _prev_hmac of each writer
    log,            \* the lines of the file
    written,        \* history: the records whose write succeeded, in order
    authors,        \* history: the writers that wrote them
    damage          \* history: changes made to the file by others

auditVars == <<secretFile, phase, secret, prevHmac, log, written, authors, damage>>

HmacOfChainOnly(key, prev, entry) == <<key, prev>>
Hmac(key, prev, entry) == <<key, prev, entry>>

(* "0" * 64, and what somebody else puts in its place: neither is computed.  *)
Zeros == <<"zeros">>
Junk == <<"junk">>

Record(entry, hmac) == [entry |-> entry, hmac |-> hmac]

(* A line cut off without its newline, and one that was continued. *)
Torn == [torn |-> TRUE]
Garbled == [torn |-> FALSE]
Parseable(line) == line \notin {Torn, Garbled}

AuditInit ==
    /\ secretFile = NoSecret
    /\ phase = [w \in Writers |-> "closed"]
    /\ secret = [w \in Writers |-> NoSecret]
    /\ prevHmac = [w \in Writers |-> Zeros]
    /\ log = <<>>
    /\ written = <<>>
    /\ authors = {}
    /\ damage = 0

-----------------------------------------------------------------------------
(* _resolve_audit_secret: take the file's secret if there is a file. *)
LoadSecret(w) ==
    /\ phase[w] = "closed"
    /\ secretFile # NoSecret
    /\ secret' = [secret EXCEPT ![w] = secretFile]
    /\ phase' = [phase EXCEPT ![w] = "open"]
    /\ UNCHANGED <<secretFile, prevHmac, log, written, authors, damage>>

(* No file: generate a secret ... *)
FindNoSecret(w) ==
    /\ phase[w] = "closed"
    /\ secretFile = NoSecret
    /\ phase' = [phase EXCEPT ![w] = "generating"]
    /\ UNCHANGED <<secretFile, secret, prevHmac, log, written, authors, damage>>

(* ... which write_text stores by truncating the file first ... *)
TruncateSecret(w) ==
    /\ phase[w] = "generating"
    /\ secretFile' = Blank
    /\ phase' = [phase EXCEPT ![w] = "writing_secret"]
    /\ UNCHANGED <<secret, prevHmac, log, written, authors, damage>>

(* ... and filling it then. *)
WriteSecret(w) ==
    /\ phase[w] = "writing_secret"
    /\ secretFile' = w
    /\ secret' = [secret EXCEPT ![w] = w]
    /\ phase' = [phase EXCEPT ![w] = "open"]
    /\ UNCHANGED <<prevHmac, log, written, authors, damage>>

TornTail == log # <<>> /\ log[Len(log)] = Torn

(* What appending a line does to the file: a line cut off before swallows it. *)
AppendLine(line) ==
    IF TornTail
    THEN [log EXCEPT ![Len(log)] = IF line = Torn THEN Torn ELSE Garbled]
    ELSE Append(log, line)

WriteForgettingChain(w, entry) ==
    LET r == Record(entry, Hmac(secret[w], prevHmac[w], entry))
    IN  /\ phase[w] = "open" /\ Len(log) < MaxEntries
        /\ log' = AppendLine(r)
        /\ written' = Append(written, r)
        /\ authors' = authors \cup {w}
        /\ UNCHANGED <<secretFile, phase, secret, prevHmac, damage>>

(* write: chain the entry to the last one this writer wrote, append, remember. *)
Write(w, entry) ==
    LET r == Record(entry, Hmac(secret[w], prevHmac[w], entry))
    IN  /\ phase[w] = "open"
        /\ Len(log) < MaxEntries
        /\ log' = AppendLine(r)
        /\ written' = Append(written, r)
        /\ authors' = authors \cup {w}
        /\ prevHmac' = [prevHmac EXCEPT ![w] = r.hmac]
        /\ UNCHANGED <<secretFile, phase, secret, damage>>

(* The append raises, before anything or after a part of the line reached    *)
(* the file: _prev_hmac stays what it was.                                   *)
WriteCutShort(w, entry) ==
    /\ phase[w] = "open"
    /\ Len(log) < MaxEntries
    /\ log' \in {log, AppendLine(Torn)}
    /\ UNCHANGED <<secretFile, phase, secret, prevHmac, written, authors, damage>>

(* A process ends; its AuditLog object with it. *)
Close(w) ==
    /\ phase[w] # "closed"
    /\ phase[w] # "gone"
    /\ phase' = [phase EXCEPT ![w] = "gone"]
    /\ UNCHANGED <<secretFile, secret, prevHmac, log, written, authors, damage>>

(* The file changes under the log: a record's entry or hmac is altered, or   *)
(* the record is dropped.                                                    *)
Damage ==
    /\ damage < MaxDamage
    /\ damage' = damage + 1
    /\ \E n \in DOMAIN log :
          /\ Parseable(log[n])
          /\ \/ \E entry \in Payloads : log' = [log EXCEPT ![n].entry = entry]
             \/ log' = [log EXCEPT ![n].hmac = Junk]
             \/ log' = SubSeq(log, 1, n - 1) \o SubSeq(log, n + 1, Len(log))
    /\ UNCHANGED <<secretFile, phase, secret, prevHmac, written, authors>>

AuditNext ==
    \/ \E w \in Writers :
          \/ LoadSecret(w) \/ FindNoSecret(w) \/ TruncateSecret(w) \/ WriteSecret(w)
          \/ Close(w)
          \/ \E entry \in Payloads : Write(w, entry) \/ WriteCutShort(w, entry)
    \/ Damage

AuditSpec == AuditInit /\ [][AuditNext]_auditVars

-----------------------------------------------------------------------------
(* verify_chain: the hmac a line is checked against is the stored one of the *)
(* last line that parsed.                                                    *)
PrevOfChecked(n) ==
    LET before == {m \in 1..(n - 1) : Parseable(log[m])}
    IN  IF before = {} THEN Zeros
        ELSE log[CHOOSE m \in before : \A k \in before : k <= m].hmac

ErrorsIgnoringParseErrors(key) ==
    {n \in DOMAIN log :
        Parseable(log[n]) /\ log[n].hmac # Hmac(key, PrevOfChecked(n), log[n].entry)}

(* The lines verify_chain reports, for an AuditLog with secret key. *)
Errors(key) ==
    {n \in DOMAIN log :
        \/ ~Parseable(log[n])
        \/ log[n].hmac # Hmac(key, PrevOfChecked(n), log[n].entry)}

-----------------------------------------------------------------------------
Keys == Writers \cup {NoSecret, Blank}
Phases == {"closed", "generating", "writing_secret", "open", "gone"}

(* Types; an hmac is a term over hmacs and is left untyped. *)
AuditTypeOK ==
    /\ secretFile \in Keys
    /\ phase \in [Writers -> Phases]
    /\ secret \in [Writers -> Keys]
    /\ DOMAIN prevHmac = Writers
    /\ \A n \in DOMAIN log : Parseable(log[n]) => log[n].entry \in Payloads
    /\ \A n \in DOMAIN written : written[n].entry \in Payloads
    /\ authors \subseteq Writers
    /\ Len(log) \in 0..MaxEntries
    /\ damage \in 0..MaxDamage

(* The file holds what was written, or a beginning of it. *)
Authentic ==
    /\ Len(log) <= Len(written)
    /\ \A n \in DOMAIN log : log[n] = written[n]

(* v holds the secret under which w, and nobody else, wrote the log. *)
ReadsLogOf(v, w) == phase[v] = "open" /\ secret[v] = secret[w] /\ authors \subseteq {w}

(* A log that one AuditLog wrote, and nobody touched, is intact to every     *)
(* AuditLog with its secret: also after writes that raised, whose entries    *)
(* are in no file, and after a restart that only verifies (verify_chain,     *)
(* "is_intact - True if no errors found").                                   *)
AuthenticLogIsClean ==
    \A v, w \in Writers : ReadsLogOf(v, w) /\ Authentic => Errors(secret[v]) = {}

(* What comes before the first line verify_chain reports can be believed, if *)
(* one AuditLog wrote the log: it is what was written, in the order in which *)
(* it was written. So an altered, dropped or torn line anywhere before the   *)
(* end is reported, whatever else happened to the file (audit.py:4,          *)
(* "tamper-evident audit log").                                              *)
CleanPrefixIsAuthentic ==
    \A v, w \in Writers, n \in DOMAIN log :
        ReadsLogOf(v, w) /\ Errors(secret[v]) \cap (1..n) = {}
          => n <= Len(written) /\ \A m \in 1..n : log[m] = written[m]

(* A record that one secret verifies at any place of the file was written,   *)
(* whole, by a holder of that secret: also when several writers and restarts *)
(* share the file.                                                           *)
VerifiedLineWasWritten ==
    \A w \in Writers : phase[w] = "open" =>
        \A n \in DOMAIN log \ Errors(secret[w]) :
            \E i \in DOMAIN written : written[i] = log[n]

-----------------------------------------------------------------------------
(* A claim of the documentation that the code does not keep. *)

(* audit.py:5, "Each entry's HMAC is computed over (prev_hmac ||             *)
(* entry_json)": a log nobody touched verifies, whoever wrote its entries.   *)
UntouchedLogVerifies ==
    damage = 0 /\ (\A n \in DOMAIN log : Parseable(log[n]))
      => \A w \in Writers : phase[w] = "open" => Errors(secret[w]) = {}
=============================================================================
