-------------------------- MODULE Admission_proofs --------------------------
(***************************************************************************)
(* Theorems about Admission, for every set of agents, requests and         *)
(* profiles, every way in which profiles match, and every bound: no        *)
(* operator is verified without a matching sample, no session is started   *)
(* without each of its conditions having held meanwhile, and an agent that *)
(* is suspended all the while runs no tool.                                *)
(***************************************************************************)
EXTENDS Admission, SequenceTheorems, TLAPS

(* What a request has read was so at some moment of its operation.  By place *)
(* in the operation, and for a request that started a session.               *)
Fresh(r) == at[r] = "new" => todo[r] = <<>> /\ mem[r] = Blank

StartIsLast(r) == \A i \in 1..(Len(todo[r]) - 1) : todo[r][i] # "start"

Runs(m) == m.status \notin {"absent", "suspended"}

ReadWasTrue(r) ==
    /\ mem[r].cert <= issues
    /\ Runs(mem[r]) => mem[r].agent \in seen[r]
    /\ mem[r].ran => Runs(mem[r])
    /\ Doing(r, "verify", "write") /\ mem[r].ok => mem[r].id \in matched
    /\ Doing(r, "task", "select") =>
         mem[r].agent \in Agents /\ status[mem[r].agent] # "absent"
    /\ Doing(r, "task", "select") \/ Doing(r, "task", "loop") => mem[r].status # "absent"

StartWasTrue(r) ==
    /\ /\ Doing(r, "start", "operator") \/ Doing(r, "start", "certificate")
       /\ mem[r].agent # NoAgent
       => mem[r].status # "absent"
    /\ Doing(r, "start", "certificate") /\ mem[r].ok => "operator" \in seen[r]
    /\ Doing(r, "start", "loop") =>
         Runs(mem[r]) /\ {"operator", "certificate"} \subseteq seen[r]

Recorded(r) ==
    r \in sessions =>
        /\ at[r] = "over" /\ todo[r] = <<>>
        /\ {"operator", "certificate", mem[r].agent} \subseteq seen[r]

RequestInv(r) ==
    Fresh(r) /\ StartIsLast(r) /\ ReadWasTrue(r) /\ StartWasTrue(r) /\ Recorded(r)

(* Operators are numbered as they are enrolled.                              *)
Numbered == operator # NoOperator => operator.id <= enrolls

IInv ==
    /\ TypeOK
    /\ Numbered
    /\ VerifiedBySample
    /\ \A r \in Requests : RequestInv(r)

-----------------------------------------------------------------------------
(* Blank is what a request that has read nothing holds.                      *)
LEMMA BlankType == Blank \in Memory /\ ~Runs(Blank) /\ Blank.cert = 0 /\ ~Blank.ran
BY AdmissionAssumption DEF Blank, Memory, Status, Runs

(* The operations of a request are a sequence, in which start comes last.    *)
LEMMA WorkType ==
    ASSUME NEW kind \in DOMAIN Work
    PROVE  /\ Work[kind] \in Seq(Operations)
           /\ \A i \in 1..(Len(Work[kind]) - 1) : Work[kind][i] # "start"
<1>1. CASE kind = "workflow"
  <2>1. Work[kind] = [i \in 1..Tasks |-> "task"]
    BY <1>1 DEF Work
  <2>2. Tasks \in Nat
    BY AdmissionAssumption
  <2>3. Work[kind] \in [1..Tasks -> Operations] /\ \A i \in 1..Tasks : Work[kind][i] = "task"
    BY <2>1 DEF Operations
  <2>4. Work[kind] \in Seq(Operations)
    BY <2>2, <2>3, SeqDef
  <2>5. DOMAIN Work[kind] = 1..Len(Work[kind]) /\ Len(Work[kind]) \in Nat
    BY <2>4, LenProperties
  <2>6. \A i \in 1..Len(Work[kind]) : Work[kind][i] = "task"
    BY <2>3, <2>5
  <2>. QED
    BY <2>4, <2>5, <2>6
<1>2. CASE kind # "workflow"
  <2>1. \/ Work[kind] = <<"verify">> \/ Work[kind] = <<"issue">>
        \/ Work[kind] = <<"revoke">> \/ Work[kind] = <<"contain">>
        \/ Work[kind] = <<"find", "revoke">> \/ Work[kind] = <<"contain", "revoke">>
        \/ Work[kind] = <<"tryContain", "revoke">> \/ Work[kind] = <<"start">>
        \/ Work[kind] = <<"provision", "enroll", "verify", "issue", "start">>
    BY <1>2 DEF Work
  <2>2. Work[kind] \in Seq(Operations)
    <3>1. /\ {"verify", "issue", "revoke", "contain", "find", "tryContain", "start"}
                \subseteq Operations
          /\ {"provision", "enroll"} \subseteq Operations
      BY DEF Operations
    <3>2. \A a, b \in Operations : <<a>> \in Seq(Operations) /\ <<a, b>> \in Seq(Operations)
      OBVIOUS
    <3>3. <<"provision", "enroll", "verify", "issue", "start">> \in Seq(Operations)
      BY <3>1
    <3>. QED
      BY <2>1, <3>1, <3>2, <3>3
  <2>3. \/ Len(Work[kind]) = 1
        \/ Len(Work[kind]) = 2 /\ Work[kind][1] \in {"find", "contain", "tryContain"}
        \/ /\ Len(Work[kind]) = 5
           /\ \A i \in 1..4 : Work[kind][i] \in {"provision", "enroll", "verify", "issue"}
    BY <2>1
  <2>4. ASSUME NEW i \in 1..(Len(Work[kind]) - 1) PROVE Work[kind][i] # "start"
    <3>1. CASE Len(Work[kind]) = 1
      BY <3>1
    <3>2. CASE Len(Work[kind]) = 2 /\ Work[kind][1] \in {"find", "contain", "tryContain"}
      <4>1. i = 1
        BY <3>2
      <4>. QED
        BY <3>2, <4>1
    <3>3. CASE /\ Len(Work[kind]) = 5
               /\ \A j \in 1..4 : Work[kind][j] \in {"provision", "enroll", "verify", "issue"}
      <4>1. i \in 1..4
        BY <3>3
      <4>. QED
        BY <3>3, <4>1
    <3>. QED
      BY <2>3, <3>1, <3>2, <3>3
  <2>. QED
    BY <2>2, <2>4
<1>. QED
  BY <1>1, <1>2

(* The rest of such a sequence is one again.                                 *)
LEMMA TailType ==
    ASSUME TypeOK, NEW r \in Requests, todo[r] # <<>>, StartIsLast(r)
    PROVE  /\ Tail(todo[r]) \in Seq(Operations)
           /\ \A i \in 1..(Len(Tail(todo[r])) - 1) : Tail(todo[r])[i] # "start"
           /\ Tail(todo[r]) = <<>> <=> Len(todo[r]) = 1
           /\ Tail(todo[r]) # todo[r]
           /\ Head(todo[r]) = "start" => Len(todo[r]) = 1
<1>1. todo[r] \in Seq(Operations)
  BY DEF TypeOK
<1>2. Len(todo[r]) \in Nat \ {0}
  BY <1>1, EmptySeq
<1>3. /\ Tail(todo[r]) \in Seq(Operations)
      /\ Len(Tail(todo[r])) = Len(todo[r]) - 1
      /\ \A i \in 1..(Len(todo[r]) - 1) : Tail(todo[r])[i] = todo[r][i + 1]
  BY <1>1, <1>2
<1>4. \A i \in 1..(Len(Tail(todo[r])) - 1) : Tail(todo[r])[i] # "start"
  BY <1>2, <1>3 DEF StartIsLast
<1>5. Head(todo[r]) = "start" => Len(todo[r]) = 1
  <2>1. Head(todo[r]) = todo[r][1]
    BY <1>1
  <2>2. CASE Len(todo[r]) # 1
    <3>1. \A n \in Nat \ {0} : n # 1 => 1 \in 1..(n - 1)
      OBVIOUS
    <3>2. 1 \in 1..(Len(todo[r]) - 1)
      BY <1>2, <2>2, <3>1
    <3>3. todo[r][1] # "start"
      BY <3>2 DEF StartIsLast
    <3>. QED
      BY <2>1, <3>3
  <2>. QED
    BY <2>2
<1>6. Tail(todo[r]) = <<>> <=> Len(todo[r]) = 1
  <2>1. Len(Tail(todo[r])) = 0 <=> Len(todo[r]) = 1
    BY <1>2, <1>3
  <2>2. Tail(todo[r]) = <<>> <=> Len(Tail(todo[r])) = 0
    BY <1>3, EmptySeq
  <2>. QED
    BY <2>1, <2>2
<1>7. Tail(todo[r]) # todo[r]
  <2>1. Len(Tail(todo[r])) # Len(todo[r])
    BY <1>2, <1>3
  <2>. QED
    BY <2>1, Zenon
<1>. QED
  BY <1>3, <1>4, <1>5, <1>6, <1>7

-----------------------------------------------------------------------------
(* The types, in parts.                                                      *)
TablesOK ==
    /\ status \in [Agents -> Status]
    /\ current \in {a \in Agents : status[a] # "absent"} \cup {NoAgent}
    /\ operator \in Operator \cup {NoOperator}
    /\ certs \in [1..MaxCerts -> {"absent", "valid", "revoked"}]
    /\ \A n \in 1..MaxCerts : certs[n] # "absent" => n <= issues
    /\ sessions \subseteq Requests
    /\ matched \subseteq 1..enrolls
    /\ counts \in (0..MaxEnrolls) \X (0..MaxCerts) \X (0..MaxChanges)

RequestsOK ==
    /\ todo \in [Requests -> Seq(Operations)]
    /\ at \in [Requests -> Places]
    /\ mem \in [Requests -> Memory]

SeenOK == seen \in [Requests -> SUBSET (Agents \cup {"operator", "certificate"})]

LEMMA TypeParts == TypeOK <=> TablesOK /\ RequestsOK /\ SeenOK
BY DEF TypeOK, TablesOK, RequestsOK, SeenOK

LEMMA CountTypes ==
    ASSUME TablesOK
    PROVE  /\ enrolls \in 0..MaxEnrolls /\ issues \in 0..MaxCerts /\ changes \in 0..MaxChanges
           /\ MaxEnrolls \in Nat \ {0} /\ MaxCerts \in Nat \ {0} /\ MaxChanges \in Nat
           /\ MaxCalls \in Nat
BY AdmissionAssumption DEF TablesOK, counts

LEMMA SeenType ==
    ASSUME SeenOK, Observe
    PROVE  SeenOK'
<1>1. Holds' \subseteq Agents \cup {"operator", "certificate"}
  BY DEF Holds
<1>. QED
  BY <1>1 DEF SeenOK, Observe

LEMMA GotoType ==
    ASSUME RequestsOK, NEW r \in Requests, NEW where \in Places, NEW m \in Memory,
           Goto(r, where, m)
    PROVE  RequestsOK'
BY DEF RequestsOK, Goto

LEMMA AdvanceType ==
    ASSUME TypeOK, NEW r \in Requests, todo[r] # <<>>, StartIsLast(r), Advance(r)
    PROVE  RequestsOK'
<1>1. Tail(todo[r]) \in Seq(Operations) /\ {"over", "begin"} \subseteq Places
  BY TailType DEF Places
<1>2. todo' \in [Requests -> Seq(Operations)]
  BY <1>1 DEF TypeOK, Advance
<1>3. at' \in [Requests -> Places]
  BY <1>1 DEF TypeOK, Advance
<1>4. mem' \in [Requests -> Memory]
  BY BlankType DEF TypeOK, Advance
<1>. QED
  BY <1>2, <1>3, <1>4 DEF RequestsOK

LEMMA AbortType ==
    ASSUME RequestsOK, NEW r \in Requests, Abort(r)
    PROVE  RequestsOK'
<1>1. <<>> \in Seq(Operations) /\ "failed" \in Places
  BY DEF Places
<1>. QED
  BY <1>1 DEF RequestsOK, Abort

(* Each step of a request keeps the types.                                   *)
LEMMA RequestStepTypes ==
    ASSUME TypeOK, Numbered, NEW r \in Requests, RequestInv(r), RequestStep(r)
    PROVE  TablesOK' /\ RequestsOK'
<1>1. TablesOK /\ RequestsOK /\ StartIsLast(r) /\ mem[r] \in Memory
  BY TypeParts DEF RequestInv, RequestsOK
<1>2. /\ {"begin", "write", "operator", "certificate", "insert", "select"} \subseteq Places
      /\ {"loop", "save", "over", "failed"} \subseteq Places
  BY DEF Places
<1>3. ASSUME UNCHANGED <<tables, matched, counts>> PROVE TablesOK'
  BY <1>1, <1>3 DEF TablesOK, tables, counts
<1>4. ASSUME NEW kind \in DOMAIN Work, Begin(r, kind) PROVE TablesOK' /\ RequestsOK'
  <2>1. TablesOK'
    BY <1>3, <1>4 DEF Begin
  <2>2. Work[kind] \in Seq(Operations)
    BY WorkType
  <2>3. RequestsOK'
    BY <1>1, <1>2, <1>4, <2>2 DEF Begin, RequestsOK
  <2>. QED
    BY <2>1, <2>3
<1>5. CASE Enroll(r)
  <2>1. RequestsOK'
    BY <1>1, <1>5, AdvanceType DEF Enroll, Doing
  <2>2. enrolls + 1 \in 1..MaxEnrolls /\ PipelineProfile \in Profiles
    BY <1>1, <1>5, CountTypes, AdmissionAssumption DEF Enroll, Enrolled
  <2>3. operator' \in Operator /\ enrolls' = enrolls + 1
    BY <1>5, <2>2 DEF Enroll, Enrolled, Operator
  <2>4. matched' \subseteq 1..enrolls'
    BY <1>1, <1>5, <2>3, CountTypes DEF Enroll, TablesOK
  <2>5. counts' \in (0..MaxEnrolls) \X (0..MaxCerts) \X (0..MaxChanges)
    BY <1>1, <1>5, <2>2, <2>3, CountTypes DEF Enroll, counts
  <2>6. TablesOK'
    BY <1>1, <1>5, <2>3, <2>4, <2>5 DEF Enroll, TablesOK
  <2>. QED
    BY <2>1, <2>6
<1>6. CASE VerifyRead(r)
  <2>1. CASE operator = NoOperator
    <3>1. TablesOK'
      BY <1>3, <1>6, <2>1 DEF VerifyRead
    <3>2. RequestsOK'
      BY <1>1, <1>6, <2>1, AdvanceType DEF VerifyRead, Doing
    <3>. QED
      BY <3>1, <3>2
  <2>2. ASSUME operator # NoOperator,
               NEW ok \in BOOLEAN,
               Goto(r, "write", [Blank EXCEPT !.id = operator.id, !.ok = ok]),
               matched' = IF ok THEN matched \cup {operator.id} ELSE matched
        PROVE  TablesOK' /\ RequestsOK'
    <3>1. operator.id \in 1..enrolls
      BY <1>1, <2>2, CountTypes DEF TablesOK, Operator, Numbered
    <3>2. [Blank EXCEPT !.id = operator.id, !.ok = ok] \in Memory
      <4>1. operator.id \in 0..MaxEnrolls
        BY <1>1, <2>2 DEF TablesOK, Operator
      <4>. QED
        BY <2>2, <4>1, BlankType DEF Memory
    <3>. QED
      BY <1>1, <1>2, <1>6, <2>2, <3>1, <3>2, GotoType DEF VerifyRead, TablesOK, tables, counts
  <2>3. CASE operator # NoOperator
    <3>1. PICK sample \in Samples(r) :
             LET ok == <<operator.profile, sample>> \in Matches
             IN  /\ Goto(r, "write", [Blank EXCEPT !.id = operator.id, !.ok = ok])
                 /\ matched' = IF ok THEN matched \cup {operator.id} ELSE matched
      BY <1>6, <2>3 DEF VerifyRead
    <3>2. (<<operator.profile, sample>> \in Matches) \in BOOLEAN
      OBVIOUS
    <3>. QED
      BY <2>2, <2>3, <3>1, <3>2
  <2>. QED
    BY <1>6, <2>1, <2>3 DEF VerifyRead
<1>7. CASE VerifyWrite(r)
  <2>1. RequestsOK'
    BY <1>1, <1>7, AdvanceType DEF VerifyWrite, Doing
  <2>2. mem[r].ok \in BOOLEAN
    BY <1>1 DEF Memory
  <2>3. operator' \in Operator \cup {NoOperator}
    BY <1>1, <1>7, <2>2 DEF VerifyWrite, TablesOK, Operator
  <2>4. TablesOK'
    BY <1>1, <1>7, <2>3 DEF VerifyWrite, TablesOK, counts
  <2>. QED
    BY <2>1, <2>4
<1>8. CASE IssueReadAgent(r)
  <2>1. [Blank EXCEPT !.agent = current] \in Memory
    BY <1>1, BlankType DEF TablesOK, Memory
  <2>. QED
    BY <1>1, <1>2, <1>3, <1>8, <2>1, GotoType DEF IssueReadAgent
<1>9. CASE IssueReadOperator(r)
  <2>1. CASE Abort(r) /\ UNCHANGED issues
    BY <1>1, <1>3, <1>9, <2>1, AbortType DEF IssueReadOperator, counts
  <2>2. CASE /\ issues < MaxCerts /\ issues' = issues + 1
             /\ Goto(r, "insert", [mem[r] EXCEPT !.cert = issues + 1])
    <3>1. issues' \in 1..MaxCerts
      BY <1>1, <2>2, CountTypes
    <3>2. [mem[r] EXCEPT !.cert = issues + 1] \in Memory
      BY <1>1, <2>2, <3>1, CountTypes DEF Memory
    <3>3. RequestsOK'
      BY <1>1, <1>2, <2>2, <3>2, GotoType
    <3>4. \A n \in 1..MaxCerts : certs'[n] # "absent" => n <= issues'
      BY <1>1, <1>9, <2>2, CountTypes DEF IssueReadOperator, TablesOK, tables
    <3>5. counts' \in (0..MaxEnrolls) \X (0..MaxCerts) \X (0..MaxChanges)
      BY <1>1, <1>9, <3>1, CountTypes DEF IssueReadOperator, counts
    <3>6. TablesOK'
      BY <1>1, <1>9, <3>4, <3>5 DEF IssueReadOperator, TablesOK, tables
    <3>. QED
      BY <3>3, <3>6
  <2>. QED
    BY <1>9, <2>1, <2>2 DEF IssueReadOperator
<1>10. CASE IssueInsert(r)
  <2>1. RequestsOK'
    BY <1>1, <1>10, AdvanceType DEF IssueInsert, Doing
  <2>2. mem[r].cert <= issues
    BY DEF RequestInv, ReadWasTrue
  <2>3. /\ certs' \in [1..MaxCerts -> {"absent", "valid", "revoked"}]
        /\ \A n \in 1..MaxCerts : certs'[n] # "absent" => n <= issues'
    BY <1>1, <1>10, <2>2 DEF IssueInsert, TablesOK, counts
  <2>4. TablesOK'
    BY <1>1, <1>10, <2>3 DEF IssueInsert, TablesOK, counts
  <2>. QED
    BY <2>1, <2>4
<1>11. CASE RevokeRead(r)
  <2>1. TablesOK'
    BY <1>3, <1>11 DEF RevokeRead
  <2>2. ASSUME NEW n \in 1..MaxCerts, Goto(r, "write", [Blank EXCEPT !.cert = n])
        PROVE  RequestsOK'
    <3>1. [Blank EXCEPT !.cert = n] \in Memory
      BY <1>1, BlankType, CountTypes DEF Memory
    <3>. QED
      BY <1>1, <1>2, <2>2, <3>1, GotoType
  <2>3. ASSUME Advance(r) PROVE RequestsOK'
    BY <1>1, <1>11, <2>3, AdvanceType DEF RevokeRead, Doing
  <2>. QED
    BY <1>11, <2>1, <2>2, <2>3 DEF RevokeRead
<1>12. CASE RevokeWrite(r)
  <2>1. RequestsOK'
    BY <1>1, <1>12, AdvanceType DEF RevokeWrite, Doing
  <2>2. /\ certs' \in [1..MaxCerts -> {"absent", "valid", "revoked"}]
        /\ \A n \in 1..MaxCerts : certs'[n] # "absent" => n <= issues'
    BY <1>1, <1>12 DEF RevokeWrite, TablesOK, counts
  <2>3. TablesOK'
    BY <1>1, <1>12, <2>2 DEF RevokeWrite, TablesOK, counts
  <2>. QED
    BY <2>1, <2>3
<1>13. CASE ContainRead(r)
  <2>1. TablesOK'
    BY <1>3, <1>13 DEF ContainRead
  <2>2. ASSUME NEW a \in Agents, Goto(r, "write", [Blank EXCEPT !.agent = a])
        PROVE  RequestsOK'
    <3>1. [Blank EXCEPT !.agent = a] \in Memory
      BY BlankType DEF Memory
    <3>. QED
      BY <1>1, <1>2, <2>2, <3>1, GotoType
  <2>. QED
    BY <1>1, <1>13, <2>1, <2>2, AbortType DEF ContainRead
<1>14. CASE FindAgent(r)
  <2>1. Advance(r) => RequestsOK'
    BY <1>1, <1>14, AdvanceType DEF FindAgent, Doing
  <2>. QED
    BY <1>1, <1>3, <1>14, <2>1, AbortType DEF FindAgent
<1>15. CASE TryContainRead(r)
  <2>1. Advance(r) => RequestsOK'
    BY <1>1, <1>15, AdvanceType DEF TryContainRead, Doing
  <2>2. [Blank EXCEPT !.agent = current] \in Memory
    BY <1>1, BlankType DEF TablesOK, Memory
  <2>. QED
    BY <1>1, <1>2, <1>3, <1>15, <2>1, <2>2, GotoType DEF TryContainRead
<1>16. CASE ContainWrite(r)
  <2>1. RequestsOK'
    BY <1>1, <1>16, AdvanceType DEF ContainWrite, Doing
  <2>2. /\ status' \in [Agents -> Status]
        /\ \A a \in Agents : status[a] # "absent" => status'[a] # "absent"
    BY <1>1, <1>16 DEF ContainWrite, TablesOK, Status
  <2>3. TablesOK'
    BY <1>1, <1>16, <2>2 DEF ContainWrite, TablesOK, counts
  <2>. QED
    BY <2>1, <2>3
<1>17. CASE StartReadAgent(r)
  <2>1. (IF current = NoAgent THEN "absent" ELSE status[current]) \in Status
    BY <1>1 DEF TablesOK, Status
  <2>2. [Blank EXCEPT !.agent = current,
            !.status = IF current = NoAgent THEN "absent" ELSE status[current]] \in Memory
    BY <1>1, <2>1, BlankType DEF TablesOK, Memory
  <2>. QED
    BY <1>1, <1>2, <1>3, <1>17, <2>2, GotoType DEF StartReadAgent
<1>18. CASE StartReadOperator(r)
  <2>1. [mem[r] EXCEPT !.ok = Verified] \in Memory
    <3>1. Verified \in BOOLEAN
      BY <1>1 DEF Verified, TablesOK, Operator
    <3>. QED
      BY <1>1, <3>1 DEF Memory
  <2>. QED
    BY <1>1, <1>2, <1>3, <1>18, <2>1, GotoType DEF StartReadOperator
<1>19. CASE StartReadCertificate(r)
  BY <1>1, <1>2, <1>3, <1>19, GotoType, AbortType DEF StartReadCertificate
<1>20. CASE TaskRead(r)
  <2>1. ASSUME NEW a \in Agents,
               Goto(r, "select", [Blank EXCEPT !.agent = a, !.status = status[a]])
        PROVE  RequestsOK'
    <3>1. [Blank EXCEPT !.agent = a, !.status = status[a]] \in Memory
      BY <1>1, BlankType DEF Memory, TablesOK
    <3>. QED
      BY <1>1, <1>2, <2>1, <3>1, GotoType
  <2>. QED
    BY <1>1, <1>3, <1>20, <2>1, AbortType DEF TaskRead
<1>21. CASE TaskSelect(r)
  <2>1. RequestsOK'
    BY <1>1, <1>2, <1>21, GotoType DEF TaskSelect
  <2>2. mem[r].agent \in Agents /\ status[mem[r].agent] # "absent"
    BY <1>21 DEF TaskSelect, RequestInv, ReadWasTrue
  <2>3. TablesOK'
    BY <1>1, <1>21, <2>2 DEF TaskSelect, TablesOK, counts
  <2>. QED
    BY <2>1, <2>3
<1>22. CASE Call(r)
  <2>1. ASSUME NEW allowed \in BOOLEAN
        PROVE  [mem[r] EXCEPT !.calls = @ + 1, !.ran = @ \/ allowed] \in Memory
    <3>1. mem[r].calls + 1 \in 0..MaxCalls /\ (mem[r].ran \/ allowed) \in BOOLEAN
      BY <1>1, <1>22, CountTypes DEF Call, Memory
    <3>. QED
      BY <1>1, <3>1 DEF Memory
  <2>. QED
    BY <1>1, <1>2, <1>3, <1>22, <2>1, GotoType DEF Call
<1>23. CASE Finish(r)
  <2>1. RequestsOK'
    BY <1>1, <1>23, AdvanceType DEF Finish, Looping, Doing
  <2>2. TablesOK'
    BY <1>1, <1>23 DEF Finish, TablesOK, counts
  <2>. QED
    BY <2>1, <2>2
<1>24. CASE Provision(r)
  <2>1. Advance(r) => RequestsOK'
    BY <1>1, <1>24, AdvanceType DEF Provision, Doing
  <2>. QED
    BY <1>1, <1>2, <1>3, <1>24, <2>1, GotoType DEF Provision
<1>25. CASE ProvisionSave(r)
  <2>1. RequestsOK'
    BY <1>1, <1>25, AdvanceType DEF ProvisionSave, Doing
  <2>2. TablesOK'
    BY <1>1, <1>25 DEF ProvisionSave, TablesOK, counts, Status
  <2>. QED
    BY <2>1, <2>2
<1>. QED
  BY <1>4, <1>5, <1>6, <1>7, <1>8, <1>9, <1>10, <1>11, <1>12, <1>13, <1>14, <1>15, <1>16,
     <1>17, <1>18, <1>19, <1>20, <1>21, <1>22, <1>23, <1>24, <1>25 DEF RequestStep

(* Each change of a single transaction keeps them too.                       *)
LEMMA ChangeTypes ==
    ASSUME TablesOK, RequestsOK, Numbered, Change
    PROVE  TablesOK' /\ RequestsOK' /\ Numbered'
<1>1. changes < MaxChanges /\ changes' = changes + 1 /\ changes' \in 0..MaxChanges
  BY CountTypes DEF Change, EnrollOperator, ResetOperators, ResetAll, SetStatus, RevokeAgent,
     SelectAgent, SaveAgent, Changing
<1>2. RequestsOK'
  BY DEF Change, EnrollOperator, ResetOperators, ResetAll, SetStatus, RevokeAgent,
     SelectAgent, SaveAgent, Changing, RequestsOK
<1>3. CASE EnrollOperator
  <2>1. PICK p \in Profiles : Enrolled(p)
    BY <1>3 DEF EnrollOperator
  <2>2. enrolls' \in 1..MaxEnrolls /\ enrolls' = enrolls + 1 /\ operator'.id = enrolls'
    BY <2>1, CountTypes DEF Enrolled
  <2>3. operator' \in Operator
    BY <2>1, <2>2 DEF Enrolled, Operator
  <2>4. counts' \in (0..MaxEnrolls) \X (0..MaxCerts) \X (0..MaxChanges)
    BY <1>1, <1>3, <2>2, CountTypes DEF EnrollOperator, Changing, counts
  <2>5. matched' \subseteq 1..enrolls'
    BY <1>3, <2>2, CountTypes DEF EnrollOperator, Changing, TablesOK
  <2>6. TablesOK'
    BY <1>3, <2>3, <2>4, <2>5 DEF EnrollOperator, Changing, TablesOK
  <2>7. Numbered'
    BY <2>2, CountTypes DEF Numbered
  <2>. QED
    BY <1>2, <2>6, <2>7
<1>4. CASE ~EnrollOperator
  <2>1. counts' \in (0..MaxEnrolls) \X (0..MaxCerts) \X (0..MaxChanges)
    BY <1>1, <1>4, CountTypes DEF Change, ResetOperators, ResetAll, SetStatus, RevokeAgent,
       SelectAgent, SaveAgent, Changing, counts
  <2>2. CASE ResetOperators
    BY <1>2, <2>1, <2>2 DEF ResetOperators, Changing, TablesOK, Numbered
  <2>3. CASE ResetAll
    BY <1>2, <2>1, <2>3 DEF ResetAll, TablesOK, Numbered
  <2>4. ASSUME NEW a \in Agents, SetStatus(a) PROVE TablesOK' /\ Numbered'
    <3>1. PICK s \in Status \ {"absent"} : status' = [status EXCEPT ![a] = s]
      BY <2>4 DEF SetStatus
    <3>2. /\ status' \in [Agents -> Status]
          /\ \A b \in Agents : status[b] # "absent" => status'[b] # "absent"
      BY <3>1 DEF TablesOK
    <3>. QED
      BY <2>1, <2>4, <3>2 DEF SetStatus, Changing, TablesOK, Numbered
  <2>5. ASSUME NEW a \in Agents, RevokeAgent(a) PROVE TablesOK' /\ Numbered'
    <3>1. /\ status' \in [Agents -> Status]
          /\ \A b \in Agents : status[b] # "absent" => status'[b] # "absent"
      BY <2>5 DEF RevokeAgent, TablesOK, Status
    <3>. QED
      BY <2>1, <2>5, <3>1 DEF RevokeAgent, Changing, TablesOK, Numbered
  <2>6. ASSUME NEW a \in Agents, SelectAgent(a) PROVE TablesOK' /\ Numbered'
    BY <2>1, <2>6 DEF SelectAgent, Changing, TablesOK, Numbered
  <2>7. ASSUME NEW a \in Agents, SaveAgent(a) PROVE TablesOK' /\ Numbered'
    BY <2>1, <2>7 DEF SaveAgent, Changing, TablesOK, Numbered, Status
  <2>. QED
    BY <1>2, <1>4, <2>2, <2>3, <2>4, <2>5, <2>6, <2>7 DEF Change
<1>. QED
  BY <1>3, <1>4

-----------------------------------------------------------------------------
(* Operators stay numbered, and are verified by a sample: what a request     *)
(* writes is what it found for the enrolment that has the number it read.    *)
LEMMA RequestStepOperator ==
    ASSUME IInv, NEW r \in Requests, RequestStep(r)
    PROVE  Numbered' /\ VerifiedBySample'
<1>1. TablesOK /\ Numbered /\ VerifiedBySample /\ RequestInv(r)
  BY TypeParts DEF IInv
<1>2. CASE Enroll(r)
  <2>1. operator' = [id |-> enrolls + 1, profile |-> PipelineProfile, verified |-> FALSE]
        /\ enrolls' = enrolls + 1
    BY <1>2 DEF Enroll, Enrolled
  <2>. QED
    BY <1>1, <2>1, CountTypes DEF Numbered, VerifiedBySample, Verified
<1>3. CASE VerifyWrite(r)
  <2>1. CASE operator # NoOperator /\ operator.id = mem[r].id
    <3>1. operator \in Operator
      BY <1>1, <2>1 DEF TablesOK
    <3>2. operator' = [operator EXCEPT !.verified = mem[r].ok] /\ UNCHANGED <<matched, enrolls>>
      BY <1>3, <2>1 DEF VerifyWrite, counts
    <3>3. operator'.id = operator.id /\ operator'.verified = mem[r].ok
      BY <3>1, <3>2 DEF Operator
    <3>4. mem[r].ok => mem[r].id \in matched
      BY <1>1, <1>3 DEF VerifyWrite, RequestInv, ReadWasTrue
    <3>. QED
      BY <1>1, <2>1, <3>2, <3>3, <3>4 DEF Numbered, VerifiedBySample, Verified
  <2>2. CASE ~(operator # NoOperator /\ operator.id = mem[r].id)
    <3>1. UNCHANGED <<operator, matched, enrolls>>
      BY <1>3, <2>2 DEF VerifyWrite, counts
    <3>. QED
      BY <1>1, <3>1 DEF Numbered, VerifiedBySample, Verified
  <2>. QED
    BY <2>1, <2>2
<1>4. CASE ~Enroll(r) /\ ~VerifyWrite(r)
  <2>1. UNCHANGED <<operator, enrolls>> /\ matched \subseteq matched'
    BY <1>4 DEF RequestStep, Begin, VerifyRead, IssueReadAgent, IssueReadOperator, IssueInsert,
       RevokeRead, RevokeWrite, ContainRead, FindAgent, TryContainRead, ContainWrite,
       StartReadAgent, StartReadOperator, StartReadCertificate, TaskRead, TaskSelect, Call,
       Finish, Provision, ProvisionSave, tables, counts
  <2>. QED
    BY <1>1, <2>1 DEF Numbered, VerifiedBySample, Verified
<1>. QED
  BY <1>2, <1>3, <1>4

LEMMA ChangeOperator ==
    ASSUME VerifiedBySample, Change
    PROVE  VerifiedBySample'
BY DEF Change, EnrollOperator, ResetOperators, ResetAll, SetStatus, RevokeAgent, SelectAgent,
   SaveAgent, Changing, Enrolled, VerifiedBySample, Verified

-----------------------------------------------------------------------------
(* What a step leaves: the agents that are there, the certificates issued    *)
(* and the matches found.                                                    *)
Grows ==
    /\ \A a \in Agents : status[a] # "absent" => status'[a] # "absent"
    /\ issues <= issues'
    /\ matched \subseteq matched'

LEMMA StepGrows ==
    ASSUME TablesOK, TablesOK', Change \/ \E r \in Requests : RequestStep(r)
    PROVE  Grows
<1>1. issues' = issues \/ issues' = issues + 1
  BY CountTypes DEF RequestStep, Begin, Enroll, VerifyRead, VerifyWrite, IssueReadAgent,
     IssueReadOperator, IssueInsert, RevokeRead, RevokeWrite, ContainRead, FindAgent,
     TryContainRead, ContainWrite, StartReadAgent, StartReadOperator, StartReadCertificate,
     TaskRead, TaskSelect, Call, Finish, Provision, ProvisionSave, Change, EnrollOperator,
     ResetOperators, ResetAll, SetStatus, RevokeAgent, SelectAgent, SaveAgent, Changing, counts
<1>2. matched \subseteq matched'
  BY DEF RequestStep, Begin, Enroll, VerifyRead, VerifyWrite, IssueReadAgent,
     IssueReadOperator, IssueInsert, RevokeRead, RevokeWrite, ContainRead, FindAgent,
     TryContainRead, ContainWrite, StartReadAgent, StartReadOperator, StartReadCertificate,
     TaskRead, TaskSelect, Call, Finish, Provision, ProvisionSave, Change, EnrollOperator,
     ResetOperators, ResetAll, SetStatus, RevokeAgent, SelectAgent, SaveAgent, Changing
<1>3. \/ status' = status
      \/ \E a \in Agents, s \in Status \ {"absent"} : status' = [status EXCEPT ![a] = s]
      \/ \E r \in Requests : status' = [status EXCEPT ![mem[r].agent] = "suspended"]
  <2>1. {"active", "revoked"} \subseteq Status \ {"absent"}
    BY DEF Status
  <2>. QED
    BY <2>1 DEF RequestStep, Begin, Enroll, VerifyRead, VerifyWrite, IssueReadAgent,
       IssueReadOperator, IssueInsert, RevokeRead, RevokeWrite, ContainRead, FindAgent,
       TryContainRead, ContainWrite, StartReadAgent, StartReadOperator, StartReadCertificate,
       TaskRead, TaskSelect, Call, Finish, Provision, ProvisionSave, Change, EnrollOperator,
       ResetOperators, ResetAll, SetStatus, RevokeAgent, SelectAgent, SaveAgent, Changing,
       tables
<1>4. \A a \in Agents : status[a] # "absent" => status'[a] # "absent"
  BY <1>3 DEF TablesOK
<1>. QED
  BY <1>1, <1>2, <1>4, CountTypes DEF Grows

(* A request that a step does not move keeps its invariant.                  *)
LEMMA OtherInv ==
    ASSUME IInv, Grows, TypeOK', Observe, NEW q \in Requests, RequestInv(q),
           todo'[q] = todo[q], at'[q] = at[q], mem'[q] = mem[q],
           q \in sessions' => q \in sessions
    PROVE  RequestInv(q)'
<1>1. seen[q] \subseteq seen'[q]
  BY DEF Observe
<1>2. Fresh(q)' /\ StartIsLast(q)'
  BY DEF RequestInv, Fresh, StartIsLast
<1>3. mem[q].cert <= issues'
  <2>1. mem[q].cert \in 0..MaxCerts /\ issues \in 0..MaxCerts /\ issues' \in 0..MaxCerts
    BY DEF TypeOK, IInv, Memory, counts
  <2>2. MaxCerts \in Nat
    BY AdmissionAssumption
  <2>. QED
    BY <2>1, <2>2 DEF RequestInv, ReadWasTrue, Grows
<1>4. ReadWasTrue(q)'
  BY <1>1, <1>3 DEF RequestInv, ReadWasTrue, Doing, Runs, Grows
<1>5. StartWasTrue(q)' /\ Recorded(q)'
  BY <1>1 DEF RequestInv, StartWasTrue, Recorded, Doing, Runs
<1>. QED
  BY <1>2, <1>4, <1>5 DEF RequestInv

-----------------------------------------------------------------------------
(* The request that moves.  An operation that is over: the request has read  *)
(* nothing in the next one, or keeps what it has read and seen when there is *)
(* none.  A session is recorded from the loop of start_session only.         *)
LEMMA AdvanceInv ==
    ASSUME IInv, Grows, TypeOK', Observe, NEW r \in Requests, todo[r] # <<>>, Advance(r),
           r \in sessions' => r \in sessions \/ Doing(r, "start", "loop")
    PROVE  RequestInv(r)'
<1>1. TypeOK /\ RequestInv(r) /\ StartIsLast(r) /\ r \notin sessions
  BY DEF IInv, RequestInv, Recorded
<1>2. /\ \A i \in 1..(Len(Tail(todo[r])) - 1) : Tail(todo[r])[i] # "start"
      /\ Tail(todo[r]) = <<>> <=> Len(todo[r]) = 1
      /\ Tail(todo[r]) # todo[r]
      /\ Head(todo[r]) = "start" => Len(todo[r]) = 1
  BY <1>1, TailType
<1>3. todo'[r] = Tail(todo[r])
  BY <1>1 DEF Advance, TypeOK
<1>4. StartIsLast(r)'
  BY <1>2, <1>3 DEF StartIsLast
<1>5. issues \in Int /\ issues' \in Int /\ mem[r].cert \in Int /\ issues >= 0 /\ issues <= issues'
  <2>1. /\ mem[r].cert \in 0..MaxCerts /\ issues \in 0..MaxCerts /\ issues' \in 0..MaxCerts
        /\ MaxCerts \in Nat
    BY <1>1, AdmissionAssumption DEF TypeOK, Memory, counts
  <2>. QED
    BY <2>1 DEF Grows
<1>6. CASE Len(todo[r]) = 1
  <2>1. at'[r] = "over" /\ mem'[r] = mem[r] /\ todo'[r] = <<>> /\ seen'[r] = seen[r]
    BY <1>1, <1>2, <1>3, <1>6 DEF Advance, TypeOK, Observe
  <2>2. mem[r].cert <= issues'
    BY <1>1, <1>5 DEF RequestInv, ReadWasTrue
  <2>3. ReadWasTrue(r)' /\ StartWasTrue(r)' /\ Fresh(r)'
    BY <1>1, <2>1, <2>2 DEF RequestInv, ReadWasTrue, StartWasTrue, Fresh, Doing, Runs
  <2>4. Recorded(r)'
    BY <1>1, <2>1 DEF RequestInv, ReadWasTrue, StartWasTrue, Recorded
  <2>. QED
    BY <1>4, <2>3, <2>4 DEF RequestInv
<1>7. CASE Len(todo[r]) # 1
  <2>1. at'[r] = "begin" /\ mem'[r] = Blank
    BY <1>1, <1>7 DEF Advance, TypeOK
  <2>2. r \notin sessions'
    BY <1>1, <1>2, <1>7 DEF Doing
  <2>3. ReadWasTrue(r)' /\ StartWasTrue(r)' /\ Fresh(r)'
    BY <1>5, <2>1, BlankType DEF ReadWasTrue, StartWasTrue, Fresh, Doing, Runs
  <2>. QED
    BY <1>4, <2>2, <2>3 DEF RequestInv, Recorded
<1>. QED
  BY <1>6, <1>7

(* A request that fails has nothing left to do.                              *)
LEMMA AbortInv ==
    ASSUME IInv, Grows, TypeOK', Observe, NEW r \in Requests, todo[r] # <<>>, Abort(r),
           sessions' = sessions
    PROVE  RequestInv(r)'
<1>1. TypeOK /\ RequestInv(r) /\ r \notin sessions
  BY DEF IInv, RequestInv, Recorded
<1>2. at'[r] = "failed" /\ mem'[r] = mem[r] /\ todo'[r] = <<>> /\ seen'[r] = seen[r]
  BY <1>1 DEF Abort, TypeOK, Observe
<1>3. mem[r].cert <= issues'
  <2>1. /\ mem[r].cert \in 0..MaxCerts /\ issues \in 0..MaxCerts /\ issues' \in 0..MaxCerts
        /\ MaxCerts \in Nat
    BY <1>1, AdmissionAssumption DEF TypeOK, Memory, counts
  <2>. QED
    BY <1>1, <2>1 DEF Grows, RequestInv, ReadWasTrue
<1>4. StartIsLast(r)'
  <2>1. 1..(Len(<<>>) - 1) = {}
    OBVIOUS
  <2>. QED
    BY <1>2, <2>1 DEF StartIsLast
<1>5. Fresh(r)' /\ ReadWasTrue(r)' /\ StartWasTrue(r)' /\ Recorded(r)'
  BY <1>1, <1>2, <1>3 DEF RequestInv, ReadWasTrue, StartWasTrue, Fresh, Recorded, Doing, Runs
<1>. QED
  BY <1>4, <1>5 DEF RequestInv

(* An operation that goes on: what must be so of the place it comes to and   *)
(* of what it has read then.                                                 *)
Justified(r, where, m) ==
    LET observed == seen[r] \cup Holds'
        comes(op, there) == Head(todo[r]) = op /\ where = there
    IN  /\ m.cert <= issues'
        /\ Runs(m) => m.agent \in observed
        /\ m.ran => Runs(m)
        /\ comes("verify", "write") /\ m.ok => m.id \in matched'
        /\ comes("task", "select") => m.agent \in Agents /\ status'[m.agent] # "absent"
        /\ comes("task", "select") \/ comes("task", "loop") => m.status # "absent"
        /\ (comes("start", "operator") \/ comes("start", "certificate")) /\ m.agent # NoAgent
             => m.status # "absent"
        /\ comes("start", "certificate") /\ m.ok => "operator" \in observed
        /\ comes("start", "loop") => Runs(m) /\ {"operator", "certificate"} \subseteq observed

LEMMA GotoInv ==
    ASSUME IInv, TypeOK', Observe, NEW r \in Requests, todo[r] # <<>>,
           NEW where, NEW m, Goto(r, where, m), where # "new", Justified(r, where, m),
           sessions' = sessions
    PROVE  RequestInv(r)'
<1>1. TypeOK /\ RequestInv(r) /\ r \notin sessions
  BY DEF IInv, RequestInv, Recorded
<1>2. at'[r] = where /\ mem'[r] = m /\ todo'[r] = todo[r] /\ seen'[r] = seen[r] \cup Holds'
  BY <1>1 DEF Goto, TypeOK, Observe
<1>3. StartIsLast(r)' /\ Fresh(r)' /\ Recorded(r)'
  BY <1>1, <1>2 DEF RequestInv, StartIsLast, Fresh, Recorded
<1>4. ReadWasTrue(r)'
  BY <1>2 DEF Justified, ReadWasTrue, Doing, Runs
<1>5. StartWasTrue(r)'
  BY <1>2 DEF Justified, StartWasTrue, Doing, Runs
<1>. QED
  BY <1>3, <1>4, <1>5 DEF RequestInv

(* Each step of a request keeps the request's invariant.                     *)
LEMMA RequestStepInv ==
    ASSUME IInv, Grows, TypeOK', Observe, NEW r \in Requests, RequestStep(r)
    PROVE  RequestInv(r)'
<1>1. TypeOK /\ RequestInv(r) /\ mem[r] \in Memory
  BY DEF IInv, TypeOK
<1>2. /\ issues \in Int /\ issues' \in Int /\ issues >= 0 /\ issues <= issues' /\ issues' >= 0
      /\ mem[r].cert \in Int /\ mem[r].cert <= issues /\ mem[r].cert <= issues'
  <2>1. /\ mem[r].cert \in 0..MaxCerts /\ issues \in 0..MaxCerts /\ issues' \in 0..MaxCerts
        /\ MaxCerts \in Nat /\ mem[r].cert <= issues
    BY <1>1, AdmissionAssumption DEF TypeOK, Memory, counts, RequestInv, ReadWasTrue
  <2>. QED
    BY <2>1 DEF Grows
<1>3. Blank.cert = 0 /\ ~Blank.ran /\ Blank.status = "absent" /\ Blank \in Memory
  BY BlankType DEF Blank
<1>4. ASSUME NEW m, m.status = "absent", ~m.ran, m.cert <= issues',
             NEW where, where # "new", Goto(r, where, m), sessions' = sessions,
             todo[r] # <<>>, Head(todo[r]) \notin {"verify", "task", "start"}
      PROVE  RequestInv(r)'
  BY <1>4, GotoInv DEF Justified, Runs
<1>5. ASSUME NEW kind \in DOMAIN Work, Begin(r, kind) PROVE RequestInv(r)'
  <2>1. mem[r] = Blank /\ todo[r] = <<>> /\ r \notin sessions
    BY <1>1, <1>5 DEF Begin, RequestInv, Fresh, Recorded
  <2>2. todo'[r] = Work[kind] /\ at'[r] \in {"over", "begin"} /\ mem'[r] = Blank
        /\ sessions' = sessions
    BY <1>1, <1>5, <2>1 DEF Begin, TypeOK, tables
  <2>3. StartIsLast(r)'
    BY <2>2, WorkType DEF StartIsLast
  <2>4. ReadWasTrue(r)' /\ StartWasTrue(r)' /\ Fresh(r)' /\ Recorded(r)'
    BY <1>2, <1>3, <2>1, <2>2 DEF ReadWasTrue, StartWasTrue, Fresh, Recorded, Doing, Runs
  <2>. QED
    BY <2>3, <2>4 DEF RequestInv
<1>6. CASE Enroll(r) \/ VerifyWrite(r) \/ IssueInsert(r) \/ RevokeWrite(r) \/ ContainWrite(r)
           \/ ProvisionSave(r)
  BY <1>6, AdvanceInv DEF Enroll, VerifyWrite, IssueInsert, RevokeWrite, ContainWrite,
     ProvisionSave, Doing
<1>7. CASE VerifyRead(r)
  <2>1. todo[r] # <<>> /\ Head(todo[r]) = "verify" /\ sessions' = sessions
    BY <1>7 DEF VerifyRead, Doing, tables
  <2>2. CASE operator = NoOperator
    BY <1>7, <2>1, <2>2, AdvanceInv DEF VerifyRead
  <2>3. CASE operator # NoOperator
    <3>1. PICK sample \in Samples(r) :
             LET ok == <<operator.profile, sample>> \in Matches
             IN  /\ Goto(r, "write", [Blank EXCEPT !.id = operator.id, !.ok = ok])
                 /\ matched' = IF ok THEN matched \cup {operator.id} ELSE matched
      BY <1>7, <2>3 DEF VerifyRead
    <3> DEFINE found == <<operator.profile, sample>> \in Matches
               m == [Blank EXCEPT !.id = operator.id, !.ok = found]
    <3>2. /\ m.cert = 0 /\ ~m.ran /\ m.status = "absent"
          /\ m.id = operator.id /\ m.ok = found
      BY <1>3 DEF Memory
    <3>3. Justified(r, "write", m)
      <4>1. found => operator.id \in matched'
        BY <3>1
      <4>. QED
        BY <1>2, <2>1, <3>2, <4>1 DEF Justified, Runs
    <3>4. Goto(r, "write", m)
      BY <3>1
    <3>5. ASSUME NEW n, Goto(r, "write", n), Justified(r, "write", n) PROVE RequestInv(r)'
      BY <2>1, <3>5, GotoInv
    <3>. QED
      BY <3>3, <3>4, <3>5
  <2>. QED
    BY <2>2, <2>3
<1>8. CASE IssueReadAgent(r)
  <2>1. [Blank EXCEPT !.agent = current].status = "absent"
        /\ ~[Blank EXCEPT !.agent = current].ran
        /\ [Blank EXCEPT !.agent = current].cert = 0
    BY <1>3 DEF Memory
  <2>. QED
    BY <1>2, <1>4, <1>8, <2>1 DEF IssueReadAgent, Doing, tables
<1>9. CASE IssueReadOperator(r)
  <2>1. todo[r] # <<>> /\ Head(todo[r]) = "issue" /\ sessions' = sessions
    BY <1>9 DEF IssueReadOperator, Doing, tables
  <2>2. CASE Abort(r)
    BY <2>1, <2>2, AbortInv
  <2>3. CASE issues' = issues + 1 /\ Goto(r, "insert", [mem[r] EXCEPT !.cert = issues + 1])
    <3> DEFINE m == [mem[r] EXCEPT !.cert = issues + 1]
    <3>1. m.cert = issues' /\ m.agent = mem[r].agent /\ m.status = mem[r].status
          /\ m.ran = mem[r].ran
      BY <1>1, <2>3 DEF Memory
    <3>2. Justified(r, "insert", m)
      BY <1>1, <1>2, <2>1, <3>1 DEF Justified, Runs, RequestInv, ReadWasTrue
    <3>3. ASSUME NEW n, Goto(r, "insert", n), Justified(r, "insert", n) PROVE RequestInv(r)'
      BY <2>1, <3>3, GotoInv
    <3>. QED
      BY <2>3, <3>2, <3>3
  <2>. QED
    BY <1>9, <2>2, <2>3 DEF IssueReadOperator
<1>10. CASE RevokeRead(r)
  <2>1. todo[r] # <<>> /\ Head(todo[r]) = "revoke" /\ sessions' = sessions
    BY <1>10 DEF RevokeRead, Doing, tables
  <2>2. CASE Advance(r)
    BY <2>1, <2>2, AdvanceInv
  <2>3. ASSUME NEW n \in 1..MaxCerts, Newest(n), Goto(r, "write", [Blank EXCEPT !.cert = n])
        PROVE  RequestInv(r)'
    <3>1. n <= issues'
      <4>1. n <= issues /\ n \in Int
        BY <1>1, <2>3, AdmissionAssumption DEF Newest, TypeOK
      <4>. QED
        BY <1>2, <4>1
    <3>2. /\ [Blank EXCEPT !.cert = n].status = "absent" /\ ~[Blank EXCEPT !.cert = n].ran
          /\ [Blank EXCEPT !.cert = n].cert = n
      BY <1>3 DEF Memory
    <3>. QED
      BY <1>4, <2>1, <2>3, <3>1, <3>2
  <2>. QED
    BY <1>10, <2>2, <2>3 DEF RevokeRead
<1>11. CASE ContainRead(r) \/ TryContainRead(r)
  <2>1. todo[r] # <<>> /\ Head(todo[r]) \in {"contain", "tryContain"} /\ sessions' = sessions
    BY <1>11 DEF ContainRead, TryContainRead, Doing, tables
  <2>2. CASE Advance(r)
    BY <2>1, <2>2, AdvanceInv DEF Doing
  <2>3. CASE Abort(r)
    BY <2>1, <2>3, AbortInv
  <2>4. ASSUME NEW a, Goto(r, "write", [Blank EXCEPT !.agent = a]) PROVE RequestInv(r)'
    <3>1. /\ [Blank EXCEPT !.agent = a].status = "absent" /\ ~[Blank EXCEPT !.agent = a].ran
          /\ [Blank EXCEPT !.agent = a].cert = 0
      BY <1>3 DEF Memory
    <3>. QED
      BY <1>2, <1>4, <2>1, <2>4, <3>1
  <2>. QED
    BY <1>11, <2>2, <2>3, <2>4 DEF ContainRead, TryContainRead
<1>12. CASE FindAgent(r)
  BY <1>12, AdvanceInv, AbortInv DEF FindAgent, Doing, tables
<1>13. CASE StartReadAgent(r)
  <2>1. todo[r] # <<>> /\ Head(todo[r]) = "start" /\ sessions' = sessions
    BY <1>13 DEF StartReadAgent, Doing, tables
  <2> DEFINE s == IF current = NoAgent THEN "absent" ELSE status[current]
             m == [Blank EXCEPT !.agent = current, !.status = s]
  <2>2. m.agent = current /\ m.status = s /\ m.cert = 0 /\ ~m.ran
    BY <1>3 DEF Memory
  <2>3. current # NoAgent => current \in Agents /\ s # "absent"
    BY <1>1 DEF TypeOK
  <2>4. s \notin {"absent", "suspended"} => current \in Holds'
    BY <1>1, <1>13, <2>3 DEF StartReadAgent, tables, Holds
  <2>5. Justified(r, "operator", m)
    BY <1>2, <2>1, <2>2, <2>3, <2>4 DEF Justified, Runs
  <2>6. Goto(r, "operator", m)
    BY <1>13 DEF StartReadAgent
  <2>7. ASSUME NEW n, Goto(r, "operator", n), Justified(r, "operator", n) PROVE RequestInv(r)'
    BY <2>1, <2>7, GotoInv
  <2>. QED
    BY <2>5, <2>6, <2>7
<1>14. CASE StartReadOperator(r)
  <2>1. /\ todo[r] # <<>> /\ Head(todo[r]) = "start" /\ sessions' = sessions
        /\ Doing(r, "start", "operator")
    BY <1>14 DEF StartReadOperator, Doing, tables
  <2> DEFINE m == [mem[r] EXCEPT !.ok = Verified]
  <2>2. /\ m.agent = mem[r].agent /\ m.status = mem[r].status /\ m.cert = mem[r].cert
        /\ m.ran = mem[r].ran /\ m.ok = Verified
    BY <1>1 DEF Memory
  <2>3. Verified => "operator" \in Holds'
    BY <1>14 DEF StartReadOperator, tables, Holds, Verified
  <2>4. Justified(r, "certificate", m)
    BY <1>1, <1>2, <2>1, <2>2, <2>3 DEF Justified, Runs, RequestInv, ReadWasTrue, StartWasTrue
  <2>5. Goto(r, "certificate", m)
    BY <1>14 DEF StartReadOperator
  <2>6. ASSUME NEW n, Goto(r, "certificate", n), Justified(r, "certificate", n)
        PROVE  RequestInv(r)'
    BY <2>1, <2>6, GotoInv
  <2>. QED
    BY <2>4, <2>5, <2>6
<1>15. CASE StartReadCertificate(r)
  <2>1. /\ todo[r] # <<>> /\ Head(todo[r]) = "start" /\ sessions' = sessions
        /\ Doing(r, "start", "certificate")
    BY <1>15 DEF StartReadCertificate, Doing, tables
  <2>2. CASE ~Admissible(r)
    BY <1>15, <2>1, <2>2, AbortInv DEF StartReadCertificate
  <2>3. CASE Admissible(r)
    <3>1. Runs(mem[r]) /\ "operator" \in seen[r]
      BY <1>1, <2>1, <2>3 DEF Admissible, Runs, RequestInv, StartWasTrue
    <3>2. "certificate" \in Holds'
      BY <1>15, <2>3 DEF StartReadCertificate, Admissible, tables, Holds, InForce, Newest
    <3>3. Justified(r, "loop", mem[r])
      BY <1>1, <1>2, <2>1, <3>1, <3>2 DEF Justified, RequestInv, ReadWasTrue
    <3>. QED
      BY <1>15, <2>1, <2>3, <3>3, GotoInv DEF StartReadCertificate
  <2>. QED
    BY <2>2, <2>3
<1>16. CASE TaskRead(r)
  <2>1. todo[r] # <<>> /\ Head(todo[r]) = "task" /\ sessions' = sessions
    BY <1>16 DEF TaskRead, Doing, tables
  <2>2. CASE Abort(r)
    BY <2>1, <2>2, AbortInv
  <2>3. ASSUME NEW a \in Agents, status[a] # "absent",
               Goto(r, "select", [Blank EXCEPT !.agent = a, !.status = status[a]])
        PROVE  RequestInv(r)'
    <3> DEFINE m == [Blank EXCEPT !.agent = a, !.status = status[a]]
    <3>1. m.agent = a /\ m.status = status[a] /\ m.cert = 0 /\ ~m.ran
      BY <1>3 DEF Memory
    <3>2. status' = status /\ (status[a] # "suspended" => a \in Holds')
      BY <1>16 DEF TaskRead, tables, Holds
    <3>3. Justified(r, "select", m)
      BY <1>2, <2>1, <2>3, <3>1, <3>2 DEF Justified, Runs
    <3>4. ASSUME NEW n, Goto(r, "select", n), Justified(r, "select", n) PROVE RequestInv(r)'
      BY <2>1, <3>4, GotoInv
    <3>. QED
      BY <2>3, <3>3, <3>4
  <2>. QED
    BY <1>16, <2>2, <2>3 DEF TaskRead
<1>17. CASE TaskSelect(r)
  <2>1. /\ todo[r] # <<>> /\ Head(todo[r]) = "task" /\ sessions' = sessions
        /\ Doing(r, "task", "select")
    BY <1>17 DEF TaskSelect, Doing
  <2>2. Justified(r, "loop", mem[r])
    BY <1>1, <1>2, <2>1 DEF Justified, RequestInv, ReadWasTrue
  <2>. QED
    BY <1>17, <2>1, <2>2, GotoInv DEF TaskSelect
<1>18. CASE Call(r)
  <2>1. /\ todo[r] # <<>> /\ sessions' = sessions /\ at[r] = "loop"
        /\ Doing(r, "start", "loop") \/ Doing(r, "task", "loop")
    BY <1>18 DEF Call, Looping, Doing, tables
  <2>2. PICK allowed \in BOOLEAN :
           /\ mem[r].status = "suspended" => ~allowed
           /\ Goto(r, "loop", [mem[r] EXCEPT !.calls = @ + 1, !.ran = @ \/ allowed])
    BY <1>18 DEF Call, Deniable
  <2> DEFINE m == [mem[r] EXCEPT !.calls = @ + 1, !.ran = @ \/ allowed]
  <2>3. /\ m.agent = mem[r].agent /\ m.status = mem[r].status /\ m.cert = mem[r].cert
        /\ m.ran = (mem[r].ran \/ allowed)
    BY <1>1 DEF Memory
  <2>4. mem[r].status # "absent"
    BY <1>1, <2>1 DEF RequestInv, ReadWasTrue, StartWasTrue, Runs
  <2>5. Justified(r, "loop", m)
    BY <1>1, <1>2, <2>1, <2>2, <2>3, <2>4
       DEF Justified, Runs, RequestInv, ReadWasTrue, StartWasTrue, Doing
  <2>6. ASSUME NEW n, Goto(r, "loop", n), Justified(r, "loop", n) PROVE RequestInv(r)'
    BY <2>1, <2>6, GotoInv
  <2>. QED
    BY <2>2, <2>5, <2>6
<1>19. CASE Finish(r)
  BY <1>19, AdvanceInv DEF Finish, Looping, Doing
<1>20. CASE Provision(r)
  <2>1. todo[r] # <<>> /\ Head(todo[r]) = "provision" /\ sessions' = sessions
    BY <1>20 DEF Provision, Doing, tables
  <2>2. Justified(r, "save", mem[r])
    BY <1>1, <1>2, <2>1 DEF Justified, RequestInv, ReadWasTrue
  <2>. QED
    BY <1>20, <2>1, <2>2, GotoInv, AdvanceInv DEF Provision
<1>. QED
  BY <1>5, <1>6, <1>7, <1>8, <1>9, <1>10, <1>11, <1>12, <1>13, <1>14, <1>15, <1>16, <1>17,
     <1>18, <1>19, <1>20 DEF RequestStep

-----------------------------------------------------------------------------
LEMMA InitInv == Init => IInv
<1> SUFFICES ASSUME Init PROVE IInv
  OBVIOUS
<1>1. /\ MaxEnrolls \in Nat \ {0} /\ MaxCerts \in Nat \ {0} /\ MaxChanges \in Nat
      /\ Seeded \subseteq Agents /\ PipelineProfile \in Profiles
  BY AdmissionAssumption
<1>2. /\ status \in [Agents -> Status]
      /\ \A a \in Seeded : status[a] # "absent"
  BY <1>1 DEF Init, Status
<1>3. \A a \in Requests : todo[a] = <<>> /\ at[a] = "new" /\ mem[a] = Blank
  BY DEF Init
<1>4. RequestsOK /\ SeenOK
  <2>1. <<>> \in Seq(Operations) /\ "new" \in Places
    BY DEF Places
  <2>. QED
    BY <2>1, BlankType DEF Init, RequestsOK, SeenOK
<1>5. ASSUME NewDatabase PROVE TablesOK /\ Numbered /\ VerifiedBySample
  <2>1. counts \in (0..MaxEnrolls) \X (0..MaxCerts) \X (0..MaxChanges)
    BY <1>1, <1>5 DEF NewDatabase, Init, counts
  <2>2. TablesOK
    BY <1>2, <1>5, <2>1 DEF NewDatabase, Init, TablesOK
  <2>. QED
    BY <1>5, <2>2 DEF NewDatabase, TablesOK, Numbered, VerifiedBySample, Verified
<1>6. ASSUME UsedDatabase PROVE TablesOK /\ Numbered /\ VerifiedBySample
  <2>1. counts \in (0..MaxEnrolls) \X (0..MaxCerts) \X (0..MaxChanges)
    BY <1>1, <1>6 DEF UsedDatabase, Init, counts
  <2>2. operator \in Operator /\ operator.id = 1 /\ 1 \in 1..MaxEnrolls
    BY <1>1, <1>6 DEF UsedDatabase, Operator
  <2>3. current \in {a \in Agents : status[a] # "absent"}
    BY <1>1, <1>2, <1>6 DEF UsedDatabase
  <2>4. /\ certs \in [1..MaxCerts -> {"absent", "valid", "revoked"}]
        /\ \A n \in 1..MaxCerts : certs[n] # "absent" => n <= issues
    BY <1>6 DEF UsedDatabase
  <2>5. TablesOK
    BY <1>2, <1>6, <2>1, <2>2, <2>3, <2>4 DEF UsedDatabase, Init, TablesOK
  <2>. QED
    BY <1>6, <2>2, <2>5 DEF UsedDatabase, TablesOK, Numbered, VerifiedBySample, Verified
<1>7. TablesOK /\ Numbered /\ VerifiedBySample
  BY <1>5, <1>6 DEF Init
<1>8. ASSUME NEW r \in Requests PROVE RequestInv(r)
  <2>1. 1..(Len(<<>>) - 1) = {}
    OBVIOUS
  <2>2. mem[r].cert <= issues
    BY <1>3, <1>7, BlankType, CountTypes
  <2>3. ~Runs(mem[r]) /\ ~mem[r].ran /\ r \notin sessions
    BY <1>3, BlankType DEF Init
  <2>. QED
    BY <1>3, <2>1, <2>2, <2>3
       DEF RequestInv, Fresh, StartIsLast, ReadWasTrue, StartWasTrue, Recorded, Doing
<1>. QED
  BY <1>4, <1>7, <1>8, TypeParts DEF IInv

LEMMA NextInv == IInv /\ [Next]_vars => IInv'
<1> SUFFICES ASSUME IInv, [Next]_vars PROVE IInv'
  OBVIOUS
<1>1. TypeOK /\ TablesOK /\ RequestsOK /\ SeenOK /\ \A q \in Requests : RequestInv(q)
  BY TypeParts DEF IInv
<1>2. CASE UNCHANGED vars
  BY <1>2 DEF IInv, TypeOK, Numbered, VerifiedBySample, Verified, RequestInv, Fresh, StartIsLast,
     ReadWasTrue, StartWasTrue, Recorded, Doing, Runs, vars, tables, counts
<1>3. CASE Change /\ Observe
  <2>1. TablesOK' /\ RequestsOK' /\ Numbered' /\ VerifiedBySample'
    BY <1>1, <1>3, ChangeTypes, ChangeOperator DEF IInv
  <2>2. TypeOK' /\ Grows
    <3>1. TypeOK'
      BY <1>1, <1>3, <2>1, SeenType DEF TypeOK, TablesOK, RequestsOK, SeenOK
    <3>. QED
      BY <1>1, <1>3, <2>1, <3>1, StepGrows
  <2>3. /\ UNCHANGED <<todo, at, mem>>
        /\ sessions' \subseteq sessions
    BY <1>3 DEF Change, EnrollOperator, ResetOperators, ResetAll, SetStatus, RevokeAgent,
       SelectAgent, SaveAgent, Changing
  <2>4. ASSUME NEW q \in Requests PROVE RequestInv(q)'
    BY <1>1, <1>3, <2>2, <2>3, OtherInv
  <2>. QED
    BY <2>1, <2>2, <2>4 DEF IInv
<1>4. ASSUME NEW r \in Requests, RequestStep(r), Observe PROVE IInv'
  <2>1. TablesOK' /\ RequestsOK' /\ Numbered' /\ VerifiedBySample'
    BY <1>1, <1>4, RequestStepTypes, RequestStepOperator DEF IInv
  <2>2. TypeOK' /\ Grows
    <3>1. TypeOK'
      BY <1>1, <1>4, <2>1, SeenType DEF TypeOK, TablesOK, RequestsOK, SeenOK
    <3>. QED
      BY <1>1, <1>4, <2>1, <3>1, StepGrows
  <2>3. RequestInv(r)'
    BY <1>4, <2>2, RequestStepInv
  <2>4. ASSUME NEW q \in Requests, q # r PROVE RequestInv(q)'
    <3>1. /\ todo'[q] = todo[q] /\ at'[q] = at[q] /\ mem'[q] = mem[q]
          /\ q \in sessions' => q \in sessions
      BY <1>1, <1>4, <2>4 DEF RequestStep, Begin, Enroll, VerifyRead, VerifyWrite,
         IssueReadAgent, IssueReadOperator, IssueInsert, RevokeRead, RevokeWrite, ContainRead,
         FindAgent, TryContainRead, ContainWrite, StartReadAgent, StartReadOperator,
         StartReadCertificate, TaskRead, TaskSelect, Call, Finish, Provision, ProvisionSave,
         tables, Goto, Advance, Abort, RequestsOK
    <3>. QED
      BY <1>1, <1>4, <2>2, <3>1, OtherInv
  <2>. QED
    BY <2>1, <2>2, <2>3, <2>4 DEF IInv
<1>. QED
  BY <1>2, <1>3, <1>4 DEF Next

(* IInv holds in every state, however many requests overlap.                 *)
THEOREM Invariance == Spec => []IInv
BY InitInv, NextInv, PTL DEF Spec

(* The tables and what the requests in flight have read of them keep their   *)
(* types: the current agent exists, and every certificate was issued.        *)
THEOREM TypeCorrect == Spec => []TypeOK
<1>1. IInv => TypeOK
  BY DEF IInv
<1>. QED
  BY <1>1, Invariance, PTL

(* However enrolments, samples and resets overlap, an operator is verified   *)
(* only after a sample matched the profile of that very enrolment: the       *)
(* UPDATE of verify_operator names the operator_id that was compared.        *)
THEOREM VerifiedOnlyBySample == Spec => []VerifiedBySample
<1>1. IInv => VerifiedBySample
  BY DEF IInv
<1>. QED
  BY <1>1, Invariance, PTL

(* start_session reads the agent, the operator and the certificate one after *)
(* the other: each held at some moment of the request that started the       *)
(* session, though they need never have held together.                       *)
THEOREM Admitted == Spec => []SessionsAreAdmitted
<1>1. IInv => SessionsAreAdmitted
  BY DEF IInv, RequestInv, Recorded, SessionsAreAdmitted, TypeOK
<1>. QED
  BY <1>1, Invariance, PTL

(* A request that ran a tool saw its agent unsuspended at some moment of the *)
(* operation in which it ran: the policy on suspended agents is given the    *)
(* status that the operation read.                                           *)
THEOREM SuspendedIdle == Spec => []SuspendedRunNothing
<1>1. IInv => SuspendedRunNothing
  BY DEF IInv, RequestInv, ReadWasTrue, SuspendedRunNothing
<1>. QED
  BY <1>1, Invariance, PTL
=============================================================================
