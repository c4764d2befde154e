-------------------------------- MODULE Login --------------------------------
(***************************************************************************)
(* Registration and login (#56): the handlers register and login of        *)
(* app/auth.py over the tables users and failed_login_attempts, with the   *)
(* lockout of an address after too many failures and the nightly purge.    *)
(* A login counts the failures, verifies the password and records how it   *)
(* went in three transactions, between which other requests run.           *)
(*                                                                         *)
(* Abstracted: a password is right or wrong; time is counted in units; the *)
(* session and the rate limit per IP are left out.                         *)
(***************************************************************************)
EXTENDS Naturals, FiniteSets

CONSTANTS
  Email,        \* normalised addresses
  Thread,       \* HTTP worker threads
  Threshold,    \* _LOCKOUT_THRESHOLD: 5
  Window,       \* _LOCKOUT_WINDOW: 15 minutes
  Retention,    \* of purge_failed_logins: 30 days
  MaxTime,      \* bound on the clock
  MaxAttempts   \* bound on the failures of one address in one unit of time

ASSUME LoginAssumption ==
  /\ IsFiniteSet(Thread) /\ Thread # {} /\ Email # {}
  /\ Threshold \in Nat \ {0} /\ Window \in Nat /\ MaxTime \in Nat
  /\ Retention \in Nat /\ Retention >= Window
  /\ MaxAttempts \in Nat

Time == 0..MaxTime

VARIABLES
  now,          \* the clock
  user,         \* table users: how often each address has been inserted
  failures,     \* table failed_login_attempts
  login,        \* the local state of each worker thread
  streak        \* failures recorded since the last login (history)

loginVars == <<now, user, failures, login, streak>>

\* A row; number tells the failures of one address at one time apart.
FailedAttempt == [email: Email, at: Time, number: 1..MaxAttempts]

LoginRequest == [pc: {"idle", "registering", "verifying"}, email: Email]
LoggedOut    == [pc |-> "idle", email |-> CHOOSE e \in Email : TRUE]

LoginInit ==
  /\ now = 0
  /\ user = [e \in Email |-> 0]
  /\ failures = {}
  /\ login = [h \in Thread |-> LoggedOut]
  /\ streak = [e \in Email |-> 0]

LoginAt(h, pc)  == login[h].pc = pc
Reach(h, pc, e) == login' = [login EXCEPT ![h] = [pc |-> pc, email |-> e]]
Leave(h) == login' = [login EXCEPT ![h] = LoggedOut]

(***************************************************************************)
(* Registration: the address is looked up, then inserted; the UNIQUE       *)
(* constraint refuses the loser of a race.                                 *)
(***************************************************************************)
Register(h, e) ==
  /\ LoginAt(h, "idle")
  /\ user[e] = 0
  /\ Reach(h, "registering", e)
  /\ UNCHANGED <<now, user, failures, streak>>

\* Mutant: the look-up is trusted, and the constraint is not there.
InsertTrustingly(h) ==
  /\ LoginAt(h, "registering")
  /\ user' = [user EXCEPT ![login[h].email] = @ + 1]
  /\ Leave(h)
  /\ UNCHANGED <<now, failures, streak>>

InsertUser(h) ==
  LET e == login[h].email
  IN /\ LoginAt(h, "registering")
     /\ user' = IF user[e] = 0 THEN [user EXCEPT ![e] = 1] ELSE user
     /\ Leave(h)
     /\ UNCHANGED <<now, failures, streak>>

(***************************************************************************)
(* Login.                                                                  *)
(***************************************************************************)
FailuresOf(e) == {f \in failures : f.email = e}

\* count_recent_failed_logins: attempted_at >= now - window
RecentFailures(e) == {f \in FailuresOf(e) : f.at + Window >= now}
Recent(e) == Cardinality(RecentFailures(e))

\* Mutant: off by one.
LockedLate(e) == Recent(e) > Threshold

Locked(e) == Recent(e) >= Threshold

\* A locked address gets a 429 before its password is looked at, and nothing
\* is recorded; any other is let through to the verification.
Admit(h, e) ==
  /\ LoginAt(h, "idle")
  /\ ~Locked(e)
  /\ Reach(h, "verifying", e)
  /\ UNCHANGED <<now, user, failures, streak>>

\* Mutant: the counter is not cleared.
StampOnly(h) ==
  LET e == login[h].email
  IN /\ LoginAt(h, "verifying")
     /\ user[e] > 0
     /\ streak' = [streak EXCEPT ![e] = 0]
     /\ Leave(h)
     /\ UNCHANGED <<now, user, failures>>

\* record_successful_login: stamp and counter in one transaction
Succeed(h) ==
  LET e == login[h].email
  IN /\ LoginAt(h, "verifying")
     /\ user[e] > 0
     /\ failures' = failures \ FailuresOf(e)
     /\ streak' = [streak EXCEPT ![e] = 0]
     /\ Leave(h)
     /\ UNCHANGED <<now, user>>

\* record_failed_login: a wrong password or an address without an account
Fail(h) ==
  LET e == login[h].email
      Attempt(n) == [email |-> e, at |-> now, number |-> n]
  IN /\ LoginAt(h, "verifying")
     /\ \E n \in 1..MaxAttempts :
          /\ Attempt(n) \notin failures
          /\ \A m \in 1..(n - 1) : Attempt(m) \in failures
          /\ failures' = failures \cup {Attempt(n)}
     /\ streak' = [streak EXCEPT ![e] = @ + 1]
     /\ Leave(h)
     /\ UNCHANGED <<now, user>>

\* The store fails before it has recorded anything: a 500.
LoginDies(h) ==
  /\ ~LoginAt(h, "idle")
  /\ Leave(h)
  /\ UNCHANGED <<now, user, failures, streak>>

(***************************************************************************)
(* Time, and the purge of 02:30.                                           *)
(***************************************************************************)
Tick ==
  /\ now < MaxTime
  /\ now' = now + 1
  /\ UNCHANGED <<user, failures, login, streak>>

\* Mutant: everything that is not of the present is old.
CutoffNow(t) == t < now

Old(t) == t + Retention < now

Purge ==
  /\ \E f \in failures : Old(f.at)
  /\ failures' = {f \in failures : ~Old(f.at)}
  /\ UNCHANGED <<now, user, login, streak>>

LoginNext ==
  \/ \E h \in Thread, e \in Email :
       Register(h, e) \/ Admit(h, e)
  \/ \E h \in Thread : InsertUser(h) \/ Succeed(h) \/ Fail(h) \/ LoginDies(h)
  \/ Tick \/ Purge

LoginSpec == LoginInit /\ [][LoginNext]_loginVars

(***************************************************************************)
(* Properties.                                                             *)
(***************************************************************************)
\* Types; and no address has two accounts, however registrations race.
LoginTypeOK ==
  /\ now \in Time
  /\ user \in [Email -> 0..1]
  /\ failures \subseteq FailedAttempt
  /\ login \in [Thread -> LoginRequest]

\* Checking the counter and adding to it are apart, yet the failures of one
\* window exceed the threshold by no more than the requests that were past
\* the check: at most one per worker thread.
AttemptsAreBounded ==
  \A e \in Email : Recent(e) < Threshold + Cardinality(Thread)

\* An address is locked only if that many failures followed its last login:
\* a login leaves no stale count behind (record_successful_login).
LockoutIsEarned ==
  \A e \in Email : Locked(e) => streak[e] >= Threshold

\* The purge never shortens a lockout.
PurgeKeepsLockouts ==
  [][Purge => \A e \in Email : Locked(e) => Locked(e)']_loginVars

\* An address is locked when it should be: no earlier, and hardly later.
LockoutsAreSound == AttemptsAreBounded /\ LockoutIsEarned
=============================================================================
