---------------------------- MODULE Login_proofs ----------------------------
(***************************************************************************)
(* Proofs about Login, for any workers, accounts, states and bounds: the   *)
(* types, that a state of single sign-on signs in once, that logins side   *)
(* by side exceed the limit of failures by less than the workers there     *)
(* are, and that an account that is locked was reported.                   *)
(***************************************************************************)
EXTENDS Login, FiniteSetTheorems, TLAPS

SSOSteps == {"exchange", "provision", "insert", "update", "issue"}
PasswordSteps == {"check", "fail", "alarm", "succeed"}
Claimed == {"provision", "insert", "update", "issue"}

Request == [step : {"idle"} \cup PasswordSteps \cup SSOSteps,
            email : Emails \cup {"none"}, now : 0..MaxTime,
            state : States \cup {NoState}, role : Groups \cup {NoRole}]

(* What a request holds at each of its steps. *)
Holds(q) ==
    /\ q \in Request
    /\ q.step \in PasswordSteps \cup Claimed => q.email \in Emails
    /\ q.step \in Claimed => q.role \in Groups
    /\ q.step \in SSOSteps <=> q.state \in States

IType ==
    /\ TypeOK
    /\ DOMAIN req = Workers
    /\ \A r \in Workers : Holds(req[r])
    /\ signedIn \in [States -> Nat]

LEMMA IdleHolds == Holds(Idle) /\ Idle.state = NoState
  BY LoginAssumption DEF Holds, Idle, Request, SSOSteps, PasswordSteps, Claimed

LEMMA TakesState ==
  ASSUME NEW q, Holds(q), q.step = "idle", NEW s \in States
  PROVE  Holds([q EXCEPT !.step = "exchange", !.state = s])
  BY DEF Holds, Request, SSOSteps, PasswordSteps, Claimed

LEMMA InitType == Init => IType
  BY LoginAssumption, IdleHolds DEF Init, IType, TypeOK, Unissued

LEMMA GotoHolds ==
  ASSUME IType, NEW r \in Workers, NEW s \in {"idle"} \cup PasswordSteps \cup SSOSteps,
         Goto(r, s),
         s \in SSOSteps <=> req[r].step \in SSOSteps,
         s \in Claimed => req[r].step \in Claimed,
         s \in PasswordSteps => req[r].step \in PasswordSteps
  PROVE  DOMAIN req' = Workers /\ \A w \in Workers : Holds(req[w])'
<1>1. DOMAIN req' = Workers
  BY DEF Goto, IType
<1>2. ASSUME NEW w \in Workers PROVE Holds(req[w])'
  <2>1. CASE w # r
    BY <2>1 DEF Goto, IType, Holds, Request
  <2>2. CASE w = r
    BY <2>2 DEF Goto, IType, Holds, Request, SSOSteps, PasswordSteps, Claimed
  <2> QED BY <2>1, <2>2
<1> QED BY <1>1, <1>2

LEMMA LeaveHolds ==
  ASSUME IType, NEW r \in Workers, Leave(r)
  PROVE  DOMAIN req' = Workers /\ \A w \in Workers : Holds(req[w])'
  BY IdleHolds DEF Leave, IType, Holds, Request

LEMMA OthersHold ==
  ASSUME IType, UNCHANGED req
  PROVE  DOMAIN req' = Workers /\ \A w \in Workers : Holds(req[w])'
  BY DEF IType, Holds, Request

LEMMA RowsType ==
  ASSUME IType, NEW r \in Workers, req[r].email \in Emails
  PROVE  [attempts[req[r].email] EXCEPT ![req[r].now] = @ + 1] \in [0..MaxTime -> Nat]
<1>1. attempts[req[r].email] \in [0..MaxTime -> Nat] /\ req[r].now \in 0..MaxTime
  BY DEF IType, TypeOK, Holds, Request
<1>2. ASSUME NEW rows \in [0..MaxTime -> Nat], NEW t \in 0..MaxTime
      PROVE  [rows EXCEPT ![t] = @ + 1] \in [0..MaxTime -> Nat]
  BY <1>2
<1> QED BY <1>1, <1>2

LEMMA KeptType ==
  ASSUME IType, NEW r \in Workers, NEW e \in Emails
  PROVE  Kept(r, e) \in [0..MaxTime -> Nat]
  BY DEF Kept, IType, TypeOK

LEMMA NextType == IType /\ [Next]_vars => IType'
<1> SUFFICES ASSUME IType, [Next]_vars PROVE IType'
  OBVIOUS
<1> USE DEF PasswordSteps, SSOSteps, Claimed
<1>1. ASSUME NEW r \in Workers, NEW e \in Emails, Submit(r, e) PROVE IType'
  <2>1. req' = [req EXCEPT ![r] = [Idle EXCEPT !.step = "check", !.email = e, !.now = clock]]
    BY <1>1 DEF Submit
  <2>2. Holds([Idle EXCEPT !.step = "check", !.email = e, !.now = clock])
    BY LoginAssumption DEF Holds, Idle, Request, IType, TypeOK
  <2>3. DOMAIN req' = Workers /\ \A w \in Workers : Holds(req[w])'
    BY <2>1, <2>2 DEF IType, Holds, Request
  <2> QED BY <1>1, <2>3 DEF Submit, IType, TypeOK
<1>2. ASSUME NEW r \in Workers, Check(r) PROVE IType'
  <2>1. DOMAIN req' = Workers /\ \A w \in Workers : Holds(req[w])'
    BY <1>2, LeaveHolds, GotoHolds DEF Check, At
  <2>2. attempts' \in [Emails -> [0..MaxTime -> Nat]]
    BY <1>2, KeptType DEF Check, IType, TypeOK
  <2> QED BY <1>2, <2>1, <2>2 DEF Check, IType, TypeOK
<1>3. ASSUME NEW r \in Workers, Fail(r) PROVE IType'
  <2>1. DOMAIN req' = Workers /\ \A w \in Workers : Holds(req[w])'
    BY <1>3, LeaveHolds, GotoHolds DEF Fail, At
  <2>2. attempts' \in [Emails -> [0..MaxTime -> Nat]]
    BY <1>3, RowsType DEF Fail, At, IType, TypeOK, Holds
  <2> QED BY <1>3, <2>1, <2>2 DEF Fail, IType, TypeOK
<1>4. ASSUME NEW r \in Workers, Alarm(r) PROVE IType'
  BY <1>4, LeaveHolds DEF Alarm, IType, TypeOK
<1>5. ASSUME NEW r \in Workers, Succeed(r) PROVE IType'
  <2>1. req[r].email \in Emails
    BY <1>5 DEF Succeed, At, IType, Holds
  <2> QED BY <1>5, <2>1, LeaveHolds DEF Succeed, IType, TypeOK
<1>6. ASSUME NEW s \in States, LoginUrl(s) PROVE IType'
  <2>1. pending' \in [States -> -2..(MaxTime + Grace)]
    BY <1>6, LoginAssumption DEF LoginUrl, IType, TypeOK
  <2> QED BY <1>6, <2>1, OthersHold DEF LoginUrl, IType, TypeOK
<1>7. ASSUME NEW r \in Workers, NEW s \in States, Callback(r, s) PROVE IType'
  <2>1. Holds([Idle EXCEPT !.step = "exchange", !.state = s])
    BY IdleHolds, TakesState DEF Idle
  <2>2. DOMAIN req' = Workers /\ \A w \in Workers : Holds(req[w])'
    BY <1>7, <2>1 DEF Callback, IType, Holds, Request
  <2>3. pending' \in [States -> -2..(MaxTime + Grace)]
    BY <1>7, LoginAssumption DEF Callback, IType, TypeOK, Gone
  <2> QED BY <1>7, <2>2, <2>3 DEF Callback, IType, TypeOK
<1>8. ASSUME NEW r \in Workers, Exchange(r) PROVE IType'
  <2>1. CASE Leave(r)
    BY <1>8, <2>1, LeaveHolds DEF Exchange, IType, TypeOK
  <2>2. ASSUME NEW e \in Emails, NEW role \in Groups,
               req' = [req EXCEPT ![r].step = "provision", ![r].email = e, ![r].role = role]
        PROVE  IType'
    <3>1. req[r].step = "exchange" /\ Holds(req[r])
      BY <1>8 DEF Exchange, At, IType
    <3>2. Holds([req[r] EXCEPT !.step = "provision", !.email = e, !.role = role])
      BY <3>1 DEF Holds, Request
    <3>3. DOMAIN req' = Workers /\ \A w \in Workers : Holds(req[w])'
      BY <2>2, <3>2 DEF IType, Holds, Request
    <3> QED BY <1>8, <3>3 DEF Exchange, IType, TypeOK
  <2> QED BY <1>8, <2>1, <2>2 DEF Exchange
<1>9. ASSUME NEW r \in Workers, ProvisionRead(r) PROVE IType'
  <2>1. DOMAIN req' = Workers /\ \A w \in Workers : Holds(req[w])'
    BY <1>9, GotoHolds DEF ProvisionRead, At
  <2> QED BY <1>9, <2>1 DEF ProvisionRead, IType, TypeOK
<1>10. ASSUME NEW r \in Workers, InsertUser(r) PROVE IType'
  <2>1. DOMAIN req' = Workers /\ \A w \in Workers : Holds(req[w])'
    BY <1>10, GotoHolds, LeaveHolds DEF InsertUser, At
  <2>2. req[r].email \in Emails /\ req[r].role \in Groups
    BY <1>10 DEF InsertUser, At, IType, Holds
  <2> QED BY <1>10, <2>1, <2>2 DEF InsertUser, IType, TypeOK
<1>11. ASSUME NEW r \in Workers, UpdateUser(r) PROVE IType'
  <2>1. DOMAIN req' = Workers /\ \A w \in Workers : Holds(req[w])'
    BY <1>11, GotoHolds DEF UpdateUser, At
  <2>2. req[r].email \in Emails /\ req[r].role \in Groups
    BY <1>11 DEF UpdateUser, At, IType, Holds
  <2> QED BY <1>11, <2>1, <2>2 DEF UpdateUser, IType, TypeOK
<1>12. ASSUME NEW r \in Workers, Issue(r) PROVE IType'
  <2>1. req[r].email \in Emails /\ req[r].state \in States
    BY <1>12 DEF Issue, At, IType, Holds
  <2> QED BY <1>12, <2>1, LeaveHolds DEF Issue, IType, TypeOK
<1>13. CASE Tick
  BY <1>13, LoginAssumption, OthersHold DEF Tick, memory, IType, TypeOK
<1>14. CASE Restart
  <2>1. pending' \in [States -> -2..(MaxTime + Grace)]
    BY <1>14, LoginAssumption DEF Restart, Unissued, Gone
  <2>2. DOMAIN req' = Workers /\ \A w \in Workers : Holds(req[w])'
    BY <1>14, IdleHolds DEF Restart, Holds, Request
  <2> QED BY <1>14, <2>1, <2>2 DEF Restart, IType, TypeOK
<1>15. CASE UNCHANGED vars
  BY <1>15, OthersHold DEF vars, memory, IType, TypeOK
<1> QED BY <1>1, <1>2, <1>3, <1>4, <1>5, <1>6, <1>7, <1>8, <1>9, <1>10, <1>11, <1>12,
           <1>13, <1>14, <1>15 DEF Next, Step

(* The rows, the pending states and the requests keep their types.         *)
THEOREM TypeCorrect == Spec => []TypeOK
<1>1. IType => TypeOK
  BY DEF IType
<1> QED BY <1>1, InitType, NextType, PTL DEF Spec

-----------------------------------------------------------------------------
(* A state that is still pending, or not drawn, has signed in nobody, and  *)
(* is in nobody's hands; one that was popped is in the hands of at most    *)
(* one request, or has signed in, but not both.                            *)
Held(s) == \E r \in Workers : req[r].state = s
OneUse(s) ==
    /\ pending[s] # Gone => signedIn[s] = 0 /\ ~Held(s)
    /\ signedIn[s] <= 1
    /\ signedIn[s] = 1 => ~Held(s)
    /\ \A r, q \in Workers : req[r].state = s /\ req[q].state = s => r = q

IOnce == IType /\ \A s \in States : OneUse(s)

LEMMA InitOnce == Init => IOnce
<1> SUFFICES ASSUME Init PROVE \A s \in States : OneUse(s)
  BY InitType DEF IOnce
<1>1. \A r \in Workers : req[r].state = NoState
  BY IdleHolds DEF Init
<1> QED BY <1>1, LoginAssumption DEF Init, OneUse, Held, Unissued, Gone

(* A step that neither pops a state nor signs one in, and puts none in     *)
(* anybody's hands.                                                        *)
LEMMA KeepsOnce ==
  ASSUME IOnce, UNCHANGED signedIn,
         \A s \in States : pending'[s] # Gone => pending[s] # Gone,
         \A w \in Workers : req'[w].state \in {req[w].state, NoState}
  PROVE  \A s \in States : OneUse(s)'
<1> TAKE s \in States
<1>1. s # NoState
  BY LoginAssumption
<1> QED BY <1>1 DEF IOnce, OneUse, Held

LEMMA GotoKeeps ==
  ASSUME IType, NEW r \in Workers, NEW s, Goto(r, s) \/ Leave(r)
  PROVE  \A w \in Workers : req'[w].state \in {req[w].state, NoState}
<1> TAKE w \in Workers
<1>1. Idle.state = NoState
  BY IdleHolds
<1> QED BY <1>1 DEF Goto, Leave, IType, Holds, Request

LEMMA NextOnce == IOnce /\ [Next]_vars => IOnce'
<1> SUFFICES ASSUME IOnce, [Next]_vars PROVE \A s \in States : OneUse(s)'
  BY NextType DEF IOnce
<1> USE DEF PasswordSteps, SSOSteps, Claimed
<1>0. IType
  BY DEF IOnce
<1>1. ASSUME NEW r \in Workers, NEW e \in Emails, Submit(r, e) PROVE \A s \in States : OneUse(s)'
  <2>1. \A w \in Workers : req'[w].state \in {req[w].state, NoState}
    BY <1>0, <1>1 DEF Submit, Idle, IType, Holds, Request
  <2> QED BY <1>1, <2>1, KeepsOnce DEF Submit
<1>2. ASSUME NEW r \in Workers,
             Check(r) \/ Fail(r) \/ Alarm(r) \/ Succeed(r) \/ ProvisionRead(r)
               \/ InsertUser(r) \/ UpdateUser(r)
      PROVE  \A s \in States : OneUse(s)'
  <2>1. \A w \in Workers : req'[w].state \in {req[w].state, NoState}
    BY <1>0, <1>2, GotoKeeps DEF Check, Fail, Alarm, Succeed, ProvisionRead, InsertUser, UpdateUser
  <2>2. UNCHANGED <<signedIn, pending>>
    BY <1>2 DEF Check, Fail, Alarm, Succeed, ProvisionRead, InsertUser, UpdateUser
  <2> QED BY <2>1, <2>2, KeepsOnce
<1>3. ASSUME NEW u \in States, LoginUrl(u) PROVE \A s \in States : OneUse(s)'
  <2>1. \A s \in States : pending'[s] # Gone => pending[s] # Gone
    BY <1>0, <1>3 DEF LoginUrl, IType, TypeOK, Unissued, Gone
  <2> QED BY <1>3, <2>1, KeepsOnce DEF LoginUrl
<1>4. ASSUME NEW r \in Workers, NEW u \in States, Callback(r, u) PROVE \A s \in States : OneUse(s)'
  <2>1. /\ pending[u] # Gone /\ pending' = [pending EXCEPT ![u] = Gone]
        /\ signedIn' = signedIn
    BY <1>0, <1>4 DEF Callback, IType, TypeOK, Gone
  <2>2. signedIn[u] = 0 /\ ~Held(u)
    BY <2>1 DEF IOnce, OneUse
  <2>3. \A w \in Workers : req'[w].state = IF w = r THEN u ELSE req[w].state
    BY <1>0, <1>4 DEF Callback, IType, Idle
  <2>4. pending \in [States -> -2..(MaxTime + Grace)] /\ u # NoState
    BY <1>0, LoginAssumption DEF IType, TypeOK
  <2>5. OneUse(u)'
    BY <2>1, <2>2, <2>3, <2>4 DEF OneUse, Held
  <2>6. req[r].state \notin States
    BY <1>0, <1>4 DEF Callback, At, IType, Holds
  <2>7. ASSUME NEW s \in States \ {u} PROVE OneUse(s)'
    <3>1. OneUse(s) /\ pending'[s] = pending[s] /\ signedIn'[s] = signedIn[s]
      BY <2>1, <2>4 DEF IOnce
    <3>2. \A w \in Workers : req'[w].state = s => req[w].state = s
      BY <2>3
    <3> QED BY <3>1, <3>2 DEF OneUse, Held
  <2> QED BY <2>5, <2>7
<1>5. ASSUME NEW r \in Workers, Exchange(r) PROVE \A s \in States : OneUse(s)'
  <2>1. \A w \in Workers : req'[w].state \in {req[w].state, NoState}
    <3>1. CASE Leave(r)
      BY <1>0, <3>1, GotoKeeps
    <3>2. ASSUME NEW e \in Emails, NEW role \in Groups,
                 req' = [req EXCEPT ![r].step = "provision", ![r].email = e, ![r].role = role]
          PROVE  \A w \in Workers : req'[w].state = req[w].state
      BY <1>0, <3>2 DEF IType, Holds, Request
    <3> QED BY <1>5, <3>1, <3>2 DEF Exchange
  <2> QED BY <1>5, <2>1, KeepsOnce DEF Exchange
<1>6. ASSUME NEW r \in Workers, Issue(r) PROVE \A s \in States : OneUse(s)'
  <2> PICK u \in States : u = req[r].state
    BY <1>0, <1>6 DEF Issue, At, IType, Holds
  <2>1. Held(u)
    BY DEF Held
  <2>2. pending[u] = Gone /\ signedIn[u] = 0
    <3>1. OneUse(u) /\ signedIn[u] \in Nat
      BY <1>0 DEF IOnce, IType
    <3> QED BY <2>1, <3>1 DEF OneUse
  <2>3. \A w \in Workers : req'[w].state = IF w = r THEN NoState ELSE req[w].state
    BY <1>0, <1>6, IdleHolds DEF Issue, Leave, IType, Holds, Request
  <2>4. /\ signedIn' = [signedIn EXCEPT ![u] = @ + 1] /\ signedIn \in [States -> Nat]
        /\ pending' = pending
    BY <1>0, <1>6 DEF Issue, IType
  <2>5. \A q \in Workers : req[q].state = u => q = r
    BY DEF IOnce, OneUse
  <2>6. OneUse(u)'
    BY <2>1, <2>2, <2>3, <2>4, <2>5, LoginAssumption DEF OneUse, Held
  <2>7. ASSUME NEW s \in States \ {u} PROVE OneUse(s)'
    <3>1. OneUse(s) /\ s # NoState /\ signedIn'[s] = signedIn[s]
      BY <2>4, LoginAssumption DEF IOnce
    <3> QED BY <2>3, <2>4, <3>1 DEF OneUse, Held
  <2> QED BY <2>6, <2>7
<1>7. CASE Tick
  BY <1>7, KeepsOnce DEF Tick, memory
<1>8. CASE Restart
  <2>1. \A w \in Workers : req'[w].state \in {req[w].state, NoState}
    BY <1>8, IdleHolds DEF Restart
  <2>2. \A s \in States : pending'[s] # Gone => pending[s] # Gone
    BY <1>8 DEF Restart, Unissued, Gone
  <2> QED BY <1>8, <2>1, <2>2, KeepsOnce DEF Restart
<1>9. CASE UNCHANGED vars
  BY <1>9, KeepsOnce DEF vars, memory
<1> QED BY <1>1, <1>2, <1>3, <1>4, <1>5, <1>6, <1>7, <1>8, <1>9 DEF Next, Step

(* However callbacks with the same state overlap or follow each other, and *)
(* wherever the server restarts, at most one of them gets tokens.          *)
THEOREM SignsInOnce == Spec => []StateSignsInOnce
<1>1. IOnce => StateSignsInOnce
  BY DEF IOnce, OneUse, StateSignsInOnce
<1> QED BY <1>1, InitOnce, NextOnce, PTL DEF Spec
-----------------------------------------------------------------------------
(* Counting the rows of an email. *)

LEMMA NumberedFinite ==
  ASSUME NEW rows \in [0..MaxTime -> Nat]
  PROVE  IsFiniteSet(Numbered(rows)) /\ Total(rows) \in Nat
<1> DEFINE Times == 0..MaxTime
           Of == [t \in Times |-> {t} \X (1..rows[t])]
           All == { {t} \X (1..rows[t]) : t \in Times }
<1>1. IsFiniteSet(Times)
  BY LoginAssumption, FS_Interval
<1>2. Of \in Surjection(Times, All)
  BY DEF Surjection
<1>3. IsFiniteSet(All)
  BY <1>1, <1>2, FS_Surjection
<1>4. ASSUME NEW T \in All PROVE IsFiniteSet(T)
  <2> PICK t \in Times : T = {t} \X (1..rows[t])
    OBVIOUS
  <2>1. rows[t] \in Int
    OBVIOUS
  <2>2. IsFiniteSet(1..rows[t])
    BY <2>1, FS_Interval
  <2>3. IsFiniteSet({t})
    BY FS_Singleton
  <2> QED BY <2>2, <2>3, FS_Product
<1> HIDE DEF All
<1>5. IsFiniteSet(UNION All)
  BY <1>3, <1>4, FS_UNION
<1> QED BY <1>5, FS_CardinalityType DEF All, Numbered, Total

LEMMA TotalZero == Total([t \in 0..MaxTime |-> 0]) = 0
<1>1. Numbered([t \in 0..MaxTime |-> 0]) = {}
  BY DEF Numbered
<1> QED BY <1>1, FS_EmptySet DEF Total

LEMMA TotalMonotonic ==
  ASSUME NEW rows \in [0..MaxTime -> Nat], NEW fewer \in [0..MaxTime -> Nat],
         \A t \in 0..MaxTime : fewer[t] <= rows[t]
  PROVE  Total(fewer) <= Total(rows)
<1>1. Numbered(fewer) \subseteq Numbered(rows)
  BY DEF Numbered
<1> QED BY <1>1, NumberedFinite, FS_Subset DEF Total

LEMMA TotalOneMore ==
  ASSUME NEW rows \in [0..MaxTime -> Nat], NEW t \in 0..MaxTime
  PROVE  Total([rows EXCEPT ![t] = @ + 1]) = Total(rows) + 1
<1> DEFINE row == <<t, rows[t] + 1>>
<1>1. Numbered([rows EXCEPT ![t] = @ + 1]) = Numbered(rows) \cup {row}
  <2>1. 1..(rows[t] + 1) = (1..rows[t]) \cup {rows[t] + 1}
    OBVIOUS
  <2> QED BY <2>1 DEF Numbered
<1>2. row \notin Numbered(rows)
  BY DEF Numbered
<1> QED BY <1>1, <1>2, NumberedFinite, FS_AddElement DEF Total

-----------------------------------------------------------------------------
(* The logins of an email whose password was wrong and whose attempt is    *)
(* not yet inserted: they passed the check, and the failures with theirs   *)
(* are within the bound.                                                   *)
Failing(e) == { r \in Workers : At(r, "fail") /\ req[r].email = e }
Room(e) == Count(e) + Cardinality(Failing(e)) <= MaxAttempts + Cardinality(Workers) - 1

IBound == IType /\ \A e \in Emails : Room(e)

LEMMA CountType ==
  ASSUME IType, NEW e \in Emails
  PROVE  Count(e) \in Nat
  BY NumberedFinite DEF Count, IType, TypeOK

LEMMA FailingFinite ==
  ASSUME NEW e
  PROVE  /\ IsFiniteSet(Failing(e)) /\ Cardinality(Failing(e)) \in Nat
         /\ Cardinality(Workers) \in Nat
         /\ Cardinality(Failing(e)) <= Cardinality(Workers)
<1>1. Failing(e) \subseteq Workers
  BY DEF Failing
<1> QED BY <1>1, LoginAssumption, FS_Subset, FS_CardinalityType

(* A step after which an email has no more rows, and no more logins that   *)
(* are to insert one.                                                      *)
LEMMA KeepsRoom ==
  ASSUME IType, IType', NEW e \in Emails, Room(e),
         Count(e)' <= Count(e), Failing(e)' \subseteq Failing(e)
  PROVE  Room(e)'
<1>1. Cardinality(Failing(e)') <= Cardinality(Failing(e)) /\ Cardinality(Failing(e)') \in Nat
  BY FailingFinite, FS_Subset, FS_CardinalityType
<1>2. Count(e) \in Nat /\ Count(e)' \in Nat
  BY CountType, NumberedFinite DEF IType, TypeOK, Count
<1> QED BY <1>1, <1>2, FailingFinite, LoginAssumption DEF Room

LEMMA FewerRows ==
  ASSUME IType, NEW r \in Workers, NEW e \in Emails
  PROVE  Total(Kept(r, e)) \in Nat /\ Total(Kept(r, e)) <= Count(e)
<1>1. attempts[e] \in [0..MaxTime -> Nat] /\ Kept(r, e) \in [0..MaxTime -> Nat]
  BY KeptType DEF IType, TypeOK
<1>2. \A t \in 0..MaxTime : attempts[e][t] \in Nat
  BY <1>1
<1>3. \A t \in 0..MaxTime : Kept(r, e)[t] <= attempts[e][t]
  BY <1>2 DEF Kept
<1> QED BY <1>1, <1>3, TotalMonotonic, NumberedFinite DEF Count

(* What every step but that which inserts an attempt does to the rows.     *)
LEMMA NoMoreRows ==
  ASSUME IType, [Next]_vars, NEW e \in Emails
  PROVE  \/ Count(e)' <= Count(e)
         \/ \E r \in Workers : Fail(r) /\ req[r].email = e
<1>1. ASSUME NEW r \in Workers, Check(r) PROVE Count(e)' <= Count(e)
  BY <1>1, CountType, FewerRows DEF Check, Count
<1>2. ASSUME NEW r \in Workers, Fail(r), req[r].email # e PROVE Count(e)' <= Count(e)
  <2>1. attempts'[e] = attempts[e]
    BY <1>2 DEF Fail, IType, TypeOK
  <2> QED BY <2>1, CountType DEF Count
<1>3. ASSUME NEW r \in Workers, Succeed(r) PROVE Count(e)' <= Count(e)
  <2>1. attempts'[e] = attempts[e] \/ attempts'[e] = [t \in 0..MaxTime |-> 0]
    BY <1>3 DEF Succeed, IType, TypeOK
  <2> QED BY <2>1, CountType, TotalZero DEF Count
<1>4. ASSUME UNCHANGED attempts PROVE Count(e)' <= Count(e)
  BY <1>4, CountType DEF Count
<1> QED BY <1>1, <1>2, <1>3, <1>4 DEF Next, Step, Submit, Alarm, LoginUrl, Callback, Exchange,
           ProvisionRead, InsertUser, UpdateUser, Issue, Tick, Restart, vars

(* Who is to insert a failure: those who were, and whoever passed the      *)
(* check, with no more rows of the email left than the check allows.       *)
LEMMA CheckKeepsRoom ==
  ASSUME IType, IType', NEW r \in Workers, Check(r), NEW e \in Emails, Room(e)
  PROVE  Room(e)'
<1>1. \A w \in Workers \ {r} : req'[w] = req[w]
  BY DEF Check, Leave, Goto, IType
<1>2. CASE req[r].email = e /\ ~LockedFor(r)
  <2>1. Count(e)' = Total(Kept(r, e))
    BY <1>2, NumberedFinite DEF Check, Count
  <2>2. Count(e)' \in Nat /\ Count(e)' <= MaxAttempts - 1
    BY <1>2, <2>1, FewerRows, LoginAssumption DEF LockedFor
  <2>3. Failing(e)' \subseteq Workers
    BY DEF Failing
  <2>4. /\ Cardinality(Failing(e)') \in Nat /\ Cardinality(Workers) \in Nat
        /\ Cardinality(Failing(e)') <= Cardinality(Workers)
    BY <2>3, LoginAssumption, FS_Subset, FS_CardinalityType
  <2> QED BY <2>2, <2>4, LoginAssumption DEF Room
<1>3. CASE LockedFor(r)
  <2>1. attempts' = attempts /\ req' = [req EXCEPT ![r] = Idle]
    BY <1>3 DEF Check, Leave
  <2>2. Failing(e)' \subseteq Failing(e)
    BY <1>1, <2>1 DEF Failing, At, Idle, IType
  <2> QED BY <2>1, <2>2, KeepsRoom, CountType DEF Count
<1>4. CASE req[r].email # e
  <2>1. req'[r].email # e \/ req'[r].step = "idle"
    BY <1>4 DEF Check, Goto, Leave, Idle, IType, Holds, Request
  <2>2. Failing(e)' \subseteq Failing(e)
    BY <1>1, <2>1 DEF Failing, At
  <2>3. Count(e)' <= Count(e)
    BY CountType, FewerRows DEF Check, Count
  <2> QED BY <2>2, <2>3, KeepsRoom
<1> QED BY <1>2, <1>3, <1>4

(* The attempt is inserted: one more row, one login less that is to.       *)
LEMMA FailKeepsRoom ==
  ASSUME IType, IType', NEW r \in Workers, Fail(r), NEW e \in Emails, Room(e)
  PROVE  Room(e)'
<1>1. \A w \in Workers \ {r} : req'[w] = req[w]
  BY DEF Fail, Leave, Goto, IType
<1>2. req'[r].step # "fail"
  BY DEF Fail, Leave, Goto, Idle, IType, Holds, Request
<1>3. Failing(e)' = Failing(e) \ {r}
  BY <1>1, <1>2 DEF Failing, At
<1>4. CASE req[r].email = e
  <2>1. r \in Failing(e)
    BY <1>4 DEF Failing, Fail
  <2>2. Cardinality(Failing(e)') = Cardinality(Failing(e)) - 1
    BY <1>3, <2>1, FailingFinite, FS_RemoveElement
  <2>3. Count(e)' = Count(e) + 1
    <3>1. attempts[e] \in [0..MaxTime -> Nat] /\ req[r].now \in 0..MaxTime
      BY DEF IType, TypeOK, Holds, Request
    <3>2. attempts'[e] = [attempts[e] EXCEPT ![req[r].now] = @ + 1]
      BY <1>4 DEF Fail, IType, TypeOK
    <3> QED BY <3>1, <3>2, TotalOneMore DEF Count
  <2> QED BY <2>2, <2>3, CountType, FailingFinite, LoginAssumption DEF Room
<1>5. CASE req[r].email # e
  <2>1. attempts'[e] = attempts[e]
    BY <1>5 DEF Fail, IType, TypeOK
  <2> QED BY <1>3, <2>1, KeepsRoom, CountType DEF Count
<1> QED BY <1>4, <1>5

LEMMA InitBound == Init => IBound
<1> SUFFICES ASSUME Init, NEW e \in Emails PROVE Room(e)
  BY InitType DEF IBound
<1>1. Failing(e) = {}
  BY DEF Init, Failing, At, Idle
<1>2. Count(e) = 0
  BY TotalZero DEF Init, Count
<1>3. Cardinality(Failing(e)) = 0
  BY <1>1, FS_EmptySet
<1> QED BY <1>2, <1>3, FailingFinite, LoginAssumption DEF Room

LEMMA NextBound == IBound /\ [Next]_vars => IBound'
<1> SUFFICES ASSUME IBound, [Next]_vars, NEW e \in Emails PROVE Room(e)'
  BY NextType DEF IBound
<1>1. IType /\ IType' /\ Room(e)
  BY NextType DEF IBound
<1>2. ASSUME NEW r \in Workers, Check(r) PROVE Room(e)'
  BY <1>1, <1>2, CheckKeepsRoom
<1>3. ASSUME NEW r \in Workers, Fail(r) PROVE Room(e)'
  BY <1>1, <1>3, FailKeepsRoom
<1>4. ASSUME Failing(e)' \subseteq Failing(e), ~\E r \in Workers : Fail(r) PROVE Room(e)'
  BY <1>1, <1>4, NoMoreRows, KeepsRoom
<1>5. ASSUME UNCHANGED req PROVE Failing(e)' \subseteq Failing(e)
  BY <1>5 DEF Failing, At
<1>6. ASSUME NEW r \in Workers, \A w \in Workers \ {r} : req'[w] = req[w],
             req'[r].step # "fail"
      PROVE  Failing(e)' \subseteq Failing(e)
  BY <1>6 DEF Failing, At
<1>7. ASSUME NEW r \in Workers,
             \/ Alarm(r) \/ Succeed(r) \/ Exchange(r) \/ ProvisionRead(r) \/ InsertUser(r)
             \/ UpdateUser(r) \/ Issue(r) \/ \E u \in Emails : Submit(r, u)
             \/ \E s \in States : Callback(r, s)
      PROVE  Failing(e)' \subseteq Failing(e)
  <2>1. \A w \in Workers \ {r} : req'[w] = req[w]
    BY <1>1, <1>7 DEF Alarm, Succeed, Exchange, ProvisionRead, InsertUser, UpdateUser, Issue,
          Submit, Callback, Leave, Goto, IType
  <2>2. \/ Leave(r)
        \/ \E s \in {"insert", "update", "issue"} : Goto(r, s)
        \/ \E s \in {"check", "exchange", "provision"} : req'[r].step = s
    BY <1>1, <1>7 DEF Alarm, Succeed, Exchange, ProvisionRead, InsertUser, UpdateUser, Issue,
          Submit, Callback, Idle, IType, Holds, Request
  <2>3. req'[r].step # "fail"
    BY <1>1, <2>2 DEF Leave, Goto, Idle, IType, Holds, Request
  <2> QED BY <1>6, <2>1, <2>3
<1>8. ASSUME Restart PROVE Failing(e)' \subseteq Failing(e)
  BY <1>8 DEF Restart, Failing, At, Idle
<1>9. ASSUME Tick \/ (\E s \in States : LoginUrl(s)) \/ UNCHANGED vars
      PROVE  UNCHANGED req
  BY <1>9 DEF Tick, LoginUrl, memory, vars
<1>10. Failing(e)' \subseteq Failing(e) \/ \E r \in Workers : Check(r) \/ Fail(r)
  BY <1>5, <1>7, <1>8, <1>9 DEF Next, Step
<1> QED BY <1>2, <1>3, <1>4, <1>10

(* However many logins of one account overlap, and wherever the rows that  *)
(* expire are deleted, its failures exceed LOGIN_MAX_ATTEMPTS by less than *)
(* the number of workers.                                                  *)
THEOREM OvershootBounded == Spec => []OvershootIsBounded
<1>1. IBound => OvershootIsBounded
  <2> SUFFICES ASSUME IBound, NEW e \in Emails
               PROVE  Count(e) <= MaxAttempts + Cardinality(Workers) - 1
    BY DEF OvershootIsBounded
  <2>1. IType /\ Room(e)
    BY DEF IBound
  <2> QED BY <2>1, CountType, FailingFinite, LoginAssumption DEF Room
<1> QED BY <1>1, InitBound, NextBound, PTL DEF Spec

-----------------------------------------------------------------------------
(* An account becomes locked only by the failure that reaches the limit,   *)
(* whose login then is about to report it; it leaves that step by the      *)
(* report, or by a restart.                                                *)
IReport == IType /\ LockedMeansReported

LEMMA InitReport == Init => IReport
<1> SUFFICES ASSUME Init, NEW e \in Emails PROVE ~Locked(e)
  BY InitType DEF IReport, LockedMeansReported
<1>1. Count(e) = 0
  BY TotalZero DEF Init, Count
<1> QED BY <1>1, LoginAssumption DEF Locked

LEMMA FailReports ==
  ASSUME IType, NEW r \in Workers, Fail(r), NEW e \in Emails, req[r].email = e, Locked(e)'
  PROVE  Alarmed(r, e)'
<1> DEFINE rows == [attempts[e] EXCEPT ![req[r].now] = @ + 1]
<1>1. attempts'[e] = rows
  BY DEF Fail, IType, TypeOK
<1>2. Goto(r, "alarm")
  BY <1>1 DEF Fail, Locked, Count
<1> QED BY <1>2 DEF Goto, Alarmed, At, IType, Holds, Request

(* Whoever is about to report is still, has reported or was cut off.       *)
LEMMA AlarmedStays ==
  ASSUME IType, Next, NEW r \in Workers, NEW e \in Emails, Alarmed(r, e), Locked(e)'
  PROVE  Alarmed(r, e)' \/ e \in reported' \cup unreported'
<1>1. CASE Alarm(r)
  BY <1>1 DEF Next, Observe
<1>2. CASE Restart
  BY <1>2 DEF Next, Observe
<1>3. ASSUME NEW w \in Workers \ {r},
             Step(w) \/ (\E u \in Emails : Submit(w, u)) \/ (\E s \in States : Callback(w, s))
      PROVE  req'[r] = req[r]
  BY <1>3 DEF Step, Check, Fail, Alarm, Succeed, Exchange, ProvisionRead, InsertUser, UpdateUser,
        Issue, Submit, Callback, Leave, Goto, IType
<1>4. ASSUME Tick \/ \E s \in States : LoginUrl(s) PROVE req'[r] = req[r]
  BY <1>4 DEF Tick, LoginUrl, memory
<1>5. ~(Check(r) \/ Fail(r) \/ Succeed(r) \/ Exchange(r) \/ ProvisionRead(r) \/ InsertUser(r)
         \/ UpdateUser(r) \/ Issue(r))
  BY DEF Check, Fail, Succeed, Exchange, ProvisionRead, InsertUser, UpdateUser, Issue, Alarmed, At
<1>6. ~\E u \in Emails : Submit(r, u)
  BY DEF Submit, Alarmed, At
<1>7. ~\E s \in States : Callback(r, s)
  BY DEF Callback, Alarmed, At
<1>8. Alarm(r) \/ Restart \/ req'[r] = req[r]
  BY <1>3, <1>4, <1>5, <1>6, <1>7 DEF Next, Step
<1> QED BY <1>1, <1>2, <1>8 DEF Alarmed, At

LEMMA NextReport == IReport /\ [Next]_vars => IReport'
<1> SUFFICES ASSUME IReport, [Next]_vars, NEW e \in Emails, Locked(e)'
             PROVE  e \in reported' \cup unreported' \/ \E r \in Workers : Alarmed(r, e)'
  BY NextType DEF IReport, LockedMeansReported
<1>0. IType /\ IType'
  BY NextType DEF IReport
<1>1. CASE UNCHANGED vars
  BY <1>1 DEF IReport, LockedMeansReported, vars, memory, Locked, Count, Alarmed, At
<1>2. CASE Next /\ Locked(e)
  <2>1. CASE e \in reported \cup unreported
    BY <1>2, <2>1 DEF Next, Observe
  <2>2. ASSUME NEW r \in Workers, Alarmed(r, e)
        PROVE  e \in reported' \cup unreported' \/ \E w \in Workers : Alarmed(w, e)'
    BY <1>0, <1>2, <2>2, AlarmedStays
  <2> QED BY <1>2, <2>1, <2>2 DEF IReport, LockedMeansReported
<1>3. CASE Next /\ ~Locked(e)
  <2>1. ~(Count(e)' <= Count(e))
    <3>1. Count(e) \in Nat /\ Count(e)' \in Nat
      BY <1>0, CountType, NumberedFinite DEF IType, TypeOK, Count
    <3> QED BY <1>3, <3>1, LoginAssumption DEF Locked
  <2>2. PICK r \in Workers : Fail(r) /\ req[r].email = e
    BY <1>0, <2>1, NoMoreRows
  <2> QED BY <1>0, <2>2, FailReports
<1> QED BY <1>1, <1>2, <1>3

(* Since an account last became locked its report was made, is about to    *)
(* be, or was lost in a restart, whichever logins overlapped.              *)
THEOREM LockReported == Spec => []LockedMeansReported
<1>1. IReport => LockedMeansReported
  BY DEF IReport
<1> QED BY <1>1, InitReport, NextReport, PTL DEF Spec
=============================================================================
