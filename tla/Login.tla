------------------------------- MODULE Login -------------------------------
(***************************************************************************)
(* Signing in to the API service: passwords with the lockout of            *)
(* services/api/app/services/auth.py, and single sign-on (oidc.py).        *)
(*                                                                         *)
(* Workers run side by side and every `with get_conn()` block is one      *)
(* step; SSO's read and its write of the user are two, since a SELECT      *)
(* takes no lock.  Time is a clock that ticks a few times; a login stamps  *)
(* its attempt with the time at which it began.  Access tokens are         *)
(* stateless and left out; of the refresh tokens the model keeps whose     *)
(* they are.                                                               *)
(***************************************************************************)
EXTENDS Integers, FiniteSets

CONSTANTS
    Workers,       \* threads that serve requests
    Emails,
    Seeded,        \* users that init_auth_db creates
    Groups,        \* roles that the claims of the identity provider map to
    States,        \* values of the OIDC state parameter
    NoRole, NoState,
    MaxAttempts,   \* LOGIN_MAX_ATTEMPTS
    Lockout,       \* LOGIN_LOCKOUT_SEC, in ticks
    Grace,         \* the 600 seconds a pending state lives, in ticks
    MaxTime        \* bound: the last tick

ASSUME LoginAssumption ==
    /\ IsFiniteSet(Workers)
    /\ Seeded \subseteq Emails
    /\ NoRole \notin Groups /\ NoState \notin States
    /\ MaxAttempts \in Nat \ {0}
    /\ Lockout \in Nat /\ Grace \in Nat /\ MaxTime \in Nat

VARIABLES
    users,         \* table users: the role of each
    attempts,      \* table login_attempts: rows per email and time
    tokens,        \* table refresh_tokens: the users who have one
    pending,       \* _pending_states, in memory: when each expires
    req,           \* what each request is doing
    clock,
    reported,      \* history: emails whose lock was reported while it held
    unreported,    \* history: emails whose report was lost in a restart
    signedIn       \* history: how often each state signed in

Unissued == -1     \* a state login_url has not drawn yet
Gone == -2         \* one that was popped or forgotten
memory == <<pending, req>>
vars == <<users, attempts, tokens, memory, clock, reported, unreported, signedIn>>

Idle == [step |-> "idle", email |-> "none", now |-> 0, state |-> NoState, role |-> NoRole]

Init ==
    /\ users \in [Emails -> Groups \cup {NoRole}]
    /\ \A e \in Emails : users[e] # NoRole <=> e \in Seeded
    /\ attempts = [e \in Emails |-> [t \in 0..MaxTime |-> 0]]
    /\ tokens = {}
    /\ pending = [s \in States |-> Unissued]
    /\ req = [r \in Workers |-> Idle]
    /\ clock = 0
    /\ reported = {} /\ unreported = {}
    /\ signedIn = [s \in States |-> 0]

At(r, step) == req[r].step = step
Leave(r) == req' = [req EXCEPT ![r] = Idle]
Goto(r, step) == req' = [req EXCEPT ![r].step = step]

(* SELECT COUNT( * ): the rows of an email, those of each time numbered.    *)
Numbered(rows) == UNION { {t} \X (1..rows[t]) : t \in 0..MaxTime }
Total(rows) == Cardinality(Numbered(rows))
Count(e) == Total(attempts[e])
Locked(e) == Count(e) >= MaxAttempts

-----------------------------------------------------------------------------
(* Passwords. *)

Submit(r, e) ==
    /\ At(r, "idle")
    /\ req' = [req EXCEPT ![r] = [Idle EXCEPT !.step = "check", !.email = e, !.now = clock]]
    /\ UNCHANGED <<users, attempts, tokens, pending, signedIn, clock>>

Kept(r, e) == [t \in 0..MaxTime |-> IF t < req[r].now - Lockout THEN 0 ELSE attempts[e][t]]
LockedOffByOne(r) == Total(Kept(r, req[r].email)) > MaxAttempts
LockedFor(r) == Total(Kept(r, req[r].email)) >= MaxAttempts

(* _check_lockout drops the rows that have expired and counts those of the *)
(* email; the exception that refuses a locked account undoes the deletion. *)
(* Then the user is read, and the password is right or wrong; nobody knows *)
(* the one that single sign-on draws for a user.                           *)
Check(r) ==
    /\ At(r, "check")
    /\ \/ LockedFor(r) /\ Leave(r) /\ UNCHANGED attempts
       \/ /\ ~LockedFor(r)
          /\ attempts' = [e \in Emails |-> Kept(r, e)]
          /\ \/ Goto(r, "fail")
             \/ req[r].email \in Seeded /\ Goto(r, "succeed")
    /\ UNCHANGED <<users, tokens, pending, signedIn, clock>>

FailCountingBefore(r) ==
    LET e == req[r].email
        rows == [attempts[e] EXCEPT ![req[r].now] = @ + 1]
    IN  /\ At(r, "fail")
        /\ attempts' = [attempts EXCEPT ![e] = rows]
        /\ IF Total(attempts[e]) >= MaxAttempts THEN Goto(r, "alarm") ELSE Leave(r)
        /\ UNCHANGED <<users, tokens, pending, signedIn, clock>>

(* A wrong password: the attempt is inserted, and all rows are counted.    *)
Fail(r) ==
    LET e == req[r].email
        rows == [attempts[e] EXCEPT ![req[r].now] = @ + 1]
    IN  /\ At(r, "fail")
        /\ attempts' = [attempts EXCEPT ![e] = rows]
        /\ IF Total(rows) >= MaxAttempts THEN Goto(r, "alarm") ELSE Leave(r)
        /\ UNCHANGED <<users, tokens, pending, signedIn, clock>>

(* sonar.record_event of a brute_force.                                    *)
Alarm(r) ==
    /\ At(r, "alarm")
    /\ Leave(r)
    /\ UNCHANGED <<users, attempts, tokens, pending, signedIn, clock>>

Succeed(r) ==
    /\ At(r, "succeed")
    /\ attempts' = [attempts EXCEPT ![req[r].email] = [t \in 0..MaxTime |-> 0]]
    /\ tokens' = tokens \cup {req[r].email}
    /\ Leave(r)
    /\ UNCHANGED <<users, pending, signedIn, clock>>

-----------------------------------------------------------------------------
(* Single sign-on. *)

(* login_url: a new state, once the provider was asked where it is.        *)
LoginUrl(s) ==
    /\ pending[s] = Unissued
    /\ pending' = [pending EXCEPT ![s] = clock + Grace]
    /\ UNCHANGED <<users, attempts, tokens, req, signedIn, clock>>

CallbackKeepingState(r, s) ==
    /\ At(r, "idle")
    /\ pending[s] >= clock
    /\ req' = [req EXCEPT ![r] = [Idle EXCEPT !.step = "exchange", !.state = s]]
    /\ UNCHANGED <<users, attempts, tokens, pending, signedIn, clock>>

(* handle_callback pops the state, whatever becomes of the rest; a state   *)
(* that is not pending, or has expired, is refused.                        *)
Callback(r, s) ==
    /\ At(r, "idle")
    /\ pending' = [pending EXCEPT ![s] = Gone]
    /\ pending[s] >= clock
    /\ req' = [req EXCEPT ![r] = [Idle EXCEPT !.step = "exchange", !.state = s]]
    /\ UNCHANGED <<users, attempts, tokens, signedIn, clock>>

(* The provider answers with claims, or not with any that can be used.     *)
Exchange(r) ==
    /\ At(r, "exchange")
    /\ \/ Leave(r)
       \/ \E e \in Emails, role \in Groups :
             req' = [req EXCEPT ![r].step = "provision", ![r].email = e, ![r].role = role]
    /\ UNCHANGED <<users, attempts, tokens, pending, signedIn, clock>>

(* _provision_user reads the row, and updates or inserts it: of two that   *)
(* found none the second breaks the UNIQUE email and fails.                *)
ProvisionRead(r) ==
    /\ At(r, "provision")
    /\ Goto(r, IF users[req[r].email] = NoRole THEN "insert" ELSE "update")
    /\ UNCHANGED <<users, attempts, tokens, pending, signedIn, clock>>

InsertUser(r) ==
    /\ At(r, "insert")
    /\ \/ /\ users[req[r].email] = NoRole
          /\ users' = [users EXCEPT ![req[r].email] = req[r].role]
          /\ Goto(r, "issue")
       \/ /\ users[req[r].email] # NoRole
          /\ Leave(r) /\ UNCHANGED users
    /\ UNCHANGED <<attempts, tokens, pending, signedIn, clock>>

UpdateUser(r) ==
    /\ At(r, "update")
    /\ users' = [users EXCEPT ![req[r].email] = req[r].role]
    /\ Goto(r, "issue")
    /\ UNCHANGED <<attempts, tokens, pending, signedIn, clock>>

Issue(r) ==
    /\ At(r, "issue")
    /\ tokens' = tokens \cup {req[r].email}
    /\ signedIn' = [signedIn EXCEPT ![req[r].state] = @ + 1]
    /\ Leave(r)
    /\ UNCHANGED <<users, attempts, pending, clock>>

-----------------------------------------------------------------------------
Tick ==
    /\ clock < MaxTime
    /\ clock' = clock + 1
    /\ UNCHANGED <<users, attempts, tokens, memory, signedIn>>

(* The server restarts: the pending states and the requests are gone; who  *)
(* was to be reported is not.                                              *)
Restart ==
    /\ pending' = [s \in States |-> IF pending[s] = Unissued THEN Unissued ELSE Gone]
    /\ req' = [r \in Workers |-> Idle]
    /\ UNCHANGED <<users, attempts, tokens, signedIn, clock>>

Alarmed(r, e) == At(r, "alarm") /\ req[r].email = e

Observe ==
    /\ reported' = { e \in Emails : Locked(e)' /\
          (e \in reported \/ \E r \in Workers : Alarmed(r, e) /\ Alarm(r)) }
    /\ unreported' = { e \in Emails : Locked(e)' /\
          (e \in unreported \/ \E r \in Workers : Alarmed(r, e) /\ Restart) }

Step(r) ==
    \/ Check(r) \/ Fail(r) \/ Alarm(r) \/ Succeed(r)
    \/ Exchange(r) \/ ProvisionRead(r) \/ InsertUser(r) \/ UpdateUser(r) \/ Issue(r)

Next ==
    /\ \/ \E r \in Workers :
            \/ Step(r)
            \/ \E e \in Emails : Submit(r, e)
            \/ \E s \in States : Callback(r, s)
       \/ \E s \in States : LoginUrl(s)
       \/ Tick \/ Restart
    /\ Observe

Spec == Init /\ [][Next]_vars

-----------------------------------------------------------------------------
TypeOK ==
    /\ users \in [Emails -> Groups \cup {NoRole}]
    /\ attempts \in [Emails -> [0..MaxTime -> Nat]]
    /\ tokens \subseteq Emails
    /\ pending \in [States -> -2..(MaxTime + Grace)]
    /\ clock \in 0..MaxTime

(* The lockout is checked in one transaction and the failure inserted in   *)
(* another, so logins side by side exceed it - but never by more than the  *)
(* logins that can be in flight: an email has at most LOGIN_MAX_ATTEMPTS   *)
(* failures and one for each other worker.                                 *)
OvershootIsBounded ==
    \A e \in Emails : Count(e) <= MaxAttempts + Cardinality(Workers) - 1

(* An account that has failed too often is reported to Sonar: since its    *)
(* failures last reached the limit a brute_force was recorded, is about to *)
(* be, or was lost in a restart, whichever of several logins inserted the  *)
(* failure that reached it.                                                *)
LockedMeansReported ==
    \A e \in Emails : Locked(e) =>
        \/ e \in reported \cup unreported
        \/ \E r \in Workers : Alarmed(r, e)

(* A state of single sign-on signs in once: of callbacks that come twice,  *)
(* together or one after another, at most one gets tokens.                 *)
StateSignsInOnce == \A s \in States : signedIn[s] <= 1
=============================================================================
