---------------------------- MODULE AuthSessions ----------------------------
(***************************************************************************)
(* Login, sessions, password change and two-factor set-up of the account   *)
(* (internal/auth, internal/store/sessions.go and users.go,                *)
(* internal/server/handlers_auth.go, the janitor of cmd/cronpilotd).       *)
(*                                                                         *)
(* Requests overlap.  Each reads the account or its session once, verifies *)
(* a password or a code for a while, and writes what it concluded; the SQL *)
(* statements and the sections of the limiter are atomic one by one.       *)
(* Whether a password or a code that somebody types is right is a choice;  *)
(* what matters is which row it was compared with, and when.               *)
(***************************************************************************)
EXTENDS Integers, FiniteSets

CONSTANTS Procs,      \* goroutines that serve requests
          Tokens,     \* session tokens (bounds the sessions ever started)
          Secrets,    \* TOTP secrets (bounds the set-ups)
          Keys,       \* rate-limit buckets: client addresses
          Operations, \* the kinds of request that arrive
          Second,     \* clock ticks per second: the store keeps seconds
          SessionIdle, SessionMax, MaxAttempts, Window,
          MaxTime,    \* bound on the clock
          Nil

ASSUME DurationAssumption ==
  /\ Second \in Nat \ {0} /\ MaxAttempts \in Nat \ {0}
  /\ SessionIdle \in Nat /\ SessionMax \in Nat /\ Window \in Nat /\ MaxTime \in Nat
ASSUME ProcsAssumption == IsFiniteSet(Procs)

VARIABLES account,   \* the row of the user
          sessions,  \* the sessions table
          issued,    \* tokens drawn so far
          drawn,     \* secrets drawn so far
          confirmed, \* history: secrets for which a code was verified
          attempts,  \* the limiter
          clock, pc, req

row == <<account>>
table == <<sessions, issued>>
secrets == <<drawn, confirmed>>
vars == <<account, sessions, issued, drawn, confirmed, attempts, clock, pc, req>>

Account == [secret : Secrets \cup {Nil}, totp : BOOLEAN]
Session == [created : Nat, expires : Nat]
Attempt == [count : Nat, first : Nat, lockUntil : Nat]
States == {"idle", "lookup", "verify", "start", "expire", "touch", "handle",
           "update", "revoke", "renew", "enable", "disable"}
Request == [op : Operations \cup {Nil}, key : Keys \cup {Nil}, token : Tokens \cup {Nil},
            until : Nat, seen : Account \cup {Nil}, before : SUBSET Tokens]
NoRequest == [op |-> Nil, key |-> Nil, token |-> Nil, until |-> 0,
              seen |-> Nil, before |-> {}]
ASSUME NilAssumption == Nil \notin Secrets \cup Keys \cup Tokens \cup Account \cup Session \cup Attempt

TypeOK == /\ account \in Account
          /\ sessions \in [Tokens -> Session \cup {Nil}]
          /\ issued \subseteq Tokens
          /\ drawn \subseteq Secrets /\ confirmed \subseteq drawn
          /\ attempts \in [Keys -> Attempt \cup {Nil}]
          /\ \A k \in Keys : attempts[k] # Nil => attempts[k].count < MaxAttempts
          /\ clock \in Nat \ {0} /\ pc \in [Procs -> States]
          /\ req \in [Procs -> Request]
          /\ \A p \in Procs : pc[p] = "idle" => req[p] = NoRequest

Init == /\ account = [secret |-> Nil, totp |-> FALSE]
        /\ sessions = [k \in Tokens |-> Nil]
        /\ issued = {} /\ drawn = {} /\ confirmed = {}
        /\ attempts = [k \in Keys |-> Nil]
        /\ clock = 1
        /\ pc = [p \in Procs |-> "idle"]
        /\ req = [p \in Procs |-> NoRequest]

Stored(time) == (time \div Second) * Second
Least(a, b) == IF a < b THEN a ELSE b

Goto(p, state) == pc' = [pc EXCEPT ![p] = state]
Answer(p) == Goto(p, "idle") /\ req' = [req EXCEPT ![p] = NoRequest]

Tick == /\ clock < MaxTime /\ clock' = clock + 1
        /\ UNCHANGED <<row, table, secrets, attempts, pc, req>>

(***************************************************************************)
(* The limiter                                                             *)
(***************************************************************************)

Locked(key) == attempts[key] # Nil /\ clock <= attempts[key].lockUntil

(* Mutant: the count is not restarted by a lock.                           *)
FailKeepsCount(key) ==
  LET old == attempts[key]
      a == IF old = Nil \/ (clock - old.first > Window /\ clock > old.lockUntil)
             THEN [count |-> 0, first |-> clock, lockUntil |-> 0] ELSE old
  IN attempts' = [attempts EXCEPT ![key] =
       IF a.count + 1 >= MaxAttempts
         THEN [count |-> a.count + 1, first |-> clock, lockUntil |-> clock + Window]
         ELSE [a EXCEPT !.count = @ + 1]]

Fail(key) ==
  LET old == attempts[key]
      a == IF old = Nil \/ (clock - old.first > Window /\ clock > old.lockUntil)
             THEN [count |-> 0, first |-> clock, lockUntil |-> 0] ELSE old
  IN attempts' = [attempts EXCEPT ![key] =
       IF a.count + 1 >= MaxAttempts
         THEN [count |-> 0, first |-> clock, lockUntil |-> clock + Window]
         ELSE [a EXCEPT !.count = @ + 1]]

Reset(key) == attempts' = [attempts EXCEPT ![key] = Nil]

(***************************************************************************)
(* Login                                                                   *)
(***************************************************************************)

(* Mutant: the bucket is not consulted.                                    *)
LoginUnlimited(p) ==
  /\ pc[p] = "idle" /\ "login" \in Operations
  /\ \E key \in Keys : req' = [req EXCEPT ![p].key = key]
  /\ Goto(p, "lookup")
  /\ UNCHANGED <<row, table, secrets, attempts, clock>>

(* allow: a locked bucket answers 429 and nothing changes.                 *)
Login(p) ==
  /\ pc[p] = "idle" /\ "login" \in Operations
  /\ \E key \in Keys : ~Locked(key) /\ req' = [req EXCEPT ![p].key = key]
  /\ Goto(p, "lookup")
  /\ UNCHANGED <<row, table, secrets, attempts, clock>>

(* GetUserByUsername; a name without an account fails like a wrong one.    *)
Lookup(p) ==
  /\ pc[p] = "lookup"
  /\ req' = [req EXCEPT ![p].seen = account]
  /\ Goto(p, "verify")
  /\ UNCHANGED <<row, table, secrets, attempts, clock>>

(* VerifyPassword takes its time; the account may have changed since.      *)
Reject(p) ==
  /\ pc[p] = "verify"
  /\ Fail(req[p].key)
  /\ Answer(p)
  /\ UNCHANGED <<row, table, secrets, clock>>

(* The right password without a code: prompt for the code, count nothing.  *)
AskForCode(p) ==
  /\ pc[p] = "verify" /\ req[p].seen.totp
  /\ Answer(p)
  /\ UNCHANGED <<row, table, secrets, attempts, clock>>

Accept(p) ==
  /\ pc[p] = "verify"
  /\ Reset(req[p].key)
  /\ req' = [req EXCEPT ![p] = NoRequest]
  /\ Goto(p, "start")
  /\ UNCHANGED <<row, table, secrets, clock>>

(* StartSession; the token is random, so no earlier session had it.        *)
StartSession(p) ==
  /\ pc[p] \in {"start", "renew"}
  /\ \E k \in Tokens \ issued :
       /\ issued' = issued \cup {k}
       /\ sessions' = [sessions EXCEPT ![k] =
            [created |-> Stored(clock), expires |-> Stored(clock + SessionIdle)]]
  /\ Answer(p)
  /\ UNCHANGED <<row, secrets, attempts, clock>>

(***************************************************************************)
(* Authenticate                                                            *)
(***************************************************************************)

(* Mutant: the idle window slides without the absolute limit.              *)
NewExpiryUncapped(s) == clock + SessionIdle
NewExpiry(s) == Least(clock + SessionIdle, s.created + SessionMax)

(* GetSession.  An unknown token answers 401.                              *)
Authenticate(p) ==
  /\ pc[p] = "idle"
  /\ \E k \in issued, op \in Operations \ {"login"} :
       LET s == sessions[k] IN
       /\ s # Nil
       /\ LET over == clock > s.expires \/ clock - s.created > SessionMax
          IN /\ Goto(p, IF over THEN "expire" ELSE "touch")
             /\ req' = [req EXCEPT ![p].op = op, ![p].token = k,
                                   ![p].until = IF over THEN 0 ELSE NewExpiry(s)]
  /\ UNCHANGED <<row, table, secrets, attempts, clock>>

DeleteSession(k) == sessions' = [sessions EXCEPT ![k] = Nil]

Expire(p) ==
  /\ pc[p] = "expire"
  /\ DeleteSession(req[p].token)
  /\ Answer(p)
  /\ UNCHANGED <<row, issued, secrets, attempts, clock>>

(* Mutant: TouchSession writes the whole session again.                    *)
TouchInserts(p) ==
  /\ pc[p] = "touch"
  /\ sessions' = [sessions EXCEPT ![req[p].token] =
       [created |-> IF @ = Nil THEN Stored(clock) ELSE @.created, expires |-> Stored(req[p].until)]]
  /\ req' = [req EXCEPT ![p].until = 0]
  /\ Goto(p, "handle")
  /\ UNCHANGED <<row, issued, secrets, attempts, clock>>

(* TouchSession: UPDATE, no row, no effect; its error is ignored.          *)
Touch(p) ==
  /\ pc[p] = "touch"
  /\ sessions' = [sessions EXCEPT ![req[p].token] =
       IF @ = Nil THEN Nil ELSE [@ EXCEPT !.expires = Stored(req[p].until)]]
  /\ req' = [req EXCEPT ![p].until = 0]
  /\ Goto(p, "handle")
  /\ UNCHANGED <<row, issued, secrets, attempts, clock>>

(* DeleteExpiredSessions, every 15 minutes.                                *)
Janitor ==
  /\ sessions' = [k \in Tokens |-> IF sessions[k] # Nil /\ sessions[k].expires <= Stored(clock)
                                     THEN Nil ELSE sessions[k]]
  /\ UNCHANGED <<row, issued, secrets, attempts, clock, pc, req>>

(***************************************************************************)
(* Handlers behind requireAuth                                             *)
(***************************************************************************)

Handles(p, op) == pc[p] = "handle" /\ req[p].op = op

(* Every other handler: the session has been authenticated, nothing more.  *)
Read(p) == Handles(p, "read") /\ Answer(p)
           /\ UNCHANGED <<row, table, secrets, attempts, clock>>

Logout(p) ==
  /\ Handles(p, "logout")
  /\ DeleteSession(req[p].token)
  /\ Answer(p)
  /\ UNCHANGED <<row, issued, secrets, attempts, clock>>

(* A wrong password or code, or a weak new password, answers 400.          *)
Refuse(p) ==
  /\ pc[p] = "handle" /\ req[p].op \in {"changePassword", "enable", "disable"}
  /\ Answer(p)
  /\ UNCHANGED <<row, table, secrets, attempts, clock>>

(* Verified passwords: the row is not used again, the statements follow.   *)
Verified(p, op, next) ==
  /\ Handles(p, op)
  /\ Goto(p, next)
  /\ UNCHANGED <<row, table, secrets, attempts, clock, req>>

ChangePassword(p) == Verified(p, "changePassword", "update")
DisableTOTP(p) == Verified(p, "disable", "disable")

(* The hash is replaced: nobody logs in with the old password from now on, *)
(* except a login that has read the old hash already.                      *)
UpdateUserPassword(p) ==
  /\ pc[p] = "update"
  /\ req' = [req EXCEPT ![p].before = issued]
  /\ Goto(p, "revoke")
  /\ UNCHANGED <<row, table, secrets, attempts, clock>>

(* Mutant: only the session that asked is deleted.                         *)
DeleteOwnSession(p) ==
  /\ pc[p] = "revoke"
  /\ DeleteSession(req[p].token)
  /\ Goto(p, "renew")
  /\ UNCHANGED <<row, issued, secrets, attempts, clock, req>>

DeleteUserSessions(p) ==
  /\ pc[p] = "revoke"
  /\ sessions' = [k \in Tokens |-> Nil]
  /\ Goto(p, "renew")
  /\ UNCHANGED <<row, issued, secrets, attempts, clock, req>>

(* UpdateUserTOTP writes both columns.                                     *)
UpdateUserTOTP(secret, on) == account' = [account EXCEPT !.secret = secret, !.totp = on]

SetupTOTP(p) ==
  /\ Handles(p, "setup")
  /\ \E s \in Secrets \ drawn : UpdateUserTOTP(s, FALSE) /\ drawn' = drawn \cup {s}
  /\ Answer(p)
  /\ UNCHANGED <<table, confirmed, attempts, clock>>

(* The code is verified against the secret that was read.                  *)
EnableTOTP(p) ==
  /\ Handles(p, "enable") /\ account.secret # Nil
  /\ req' = [req EXCEPT ![p].seen = account]
  /\ confirmed' = confirmed \cup {account.secret}
  /\ Goto(p, "enable")
  /\ UNCHANGED <<row, table, drawn, attempts, clock>>

(* Mutant: enabling sets the flag of whatever secret is stored by then.    *)
EnforceStored(p) ==
  /\ pc[p] = "enable"
  /\ account' = [account EXCEPT !.totp = TRUE]
  /\ Answer(p)
  /\ UNCHANGED <<table, secrets, attempts, clock>>

Enforce(p) ==
  /\ pc[p] = "enable"
  /\ UpdateUserTOTP(req[p].seen.secret, TRUE)
  /\ Answer(p)
  /\ UNCHANGED <<table, secrets, attempts, clock>>

Strip(p) ==
  /\ pc[p] = "disable"
  /\ UpdateUserTOTP(Nil, FALSE)
  /\ Answer(p)
  /\ UNCHANGED <<table, secrets, attempts, clock>>

LoginStep(p) == Login(p) \/ Lookup(p) \/ Reject(p) \/ AskForCode(p) \/ Accept(p) \/ StartSession(p)
SessionStep(p) == Authenticate(p) \/ Expire(p) \/ Touch(p) \/ Read(p) \/ Logout(p)
AccountStep(p) == \/ Refuse(p) \/ ChangePassword(p) \/ UpdateUserPassword(p) \/ DeleteUserSessions(p)
                  \/ SetupTOTP(p) \/ EnableTOTP(p) \/ Enforce(p) \/ DisableTOTP(p) \/ Strip(p)

Next == \/ Tick \/ Janitor
        \/ \E p \in Procs : LoginStep(p) \/ SessionStep(p) \/ AccountStep(p)

Spec == Init /\ [][Next]_vars

(***************************************************************************)
(* Properties                                                              *)
(***************************************************************************)

(* A session that was logged out, purged, expired or revoked never comes   *)
(* back, although a request may have read it before and touches it after   *)
(* (Authenticate, auth.go:121-143).                                        *)
DeletedSessionsStayDeleted ==
  [][\A k \in issued : sessions[k] = Nil => sessions'[k] = Nil]_vars

(* However often and in whatever order requests touch a session, it never  *)
(* outlives the idle time from now nor, from its start, the absolute       *)
(* maximum (auth.go:136-139), unless it was configured to be idle for      *)
(* longer: the first expiry is not capped (auth.go:111).                   *)
MaxLife == LET idle == Stored(SessionIdle + Second - 1)
           IN IF SessionMax < idle THEN idle ELSE SessionMax

Deadline(s) == Least(clock + SessionIdle, s.created + MaxLife)

SessionsEndInTime ==
  \A k \in Tokens : sessions[k] # Nil => sessions[k].expires <= Deadline(sessions[k])

(* ChangePassword "invalidates all of the user's sessions" (auth.go:151):  *)
(* when it goes on to start the new one, every session that existed when   *)
(* the password was replaced is gone, whatever requests touch it.          *)
EndedBefore(p) == pc[p] = "renew" => \A k \in req[p].before : sessions[k] = Nil
PasswordChangeEndsSessions == \A p \in Procs : EndedBefore(p)

(* Two-factor login is only ever enforced for a secret that a code has     *)
(* confirmed, even if a second set-up rotates the secret while the first   *)
(* is being confirmed: the owner is never locked out (totp.go:34-75).      *)
EnforcedSecretIsConfirmed == account.totp => account.secret \in confirmed

(* "Disabling 2FA requires re-entering the current password" (deploy.md:   *)
(* 136): whatever page asks for what, enforcement ends only with a request *)
(* that has verified the password.                                         *)
OnlyThePasswordEndsTOTP ==
  [][account.totp /\ ~account'.totp => \E p \in Procs : Strip(p)]_vars

(* "Login is locked for the window after maxAttempts" (auth.go:48): while  *)
(* a bucket is locked, only attempts admitted before the lock are still    *)
(* counted, one for each request in progress.                              *)
Admitted(key) == {p \in Procs : pc[p] \in {"lookup", "verify"} /\ req[p].key = key}

OverrunIsBounded ==
  \A key \in Keys : Locked(key) =>
    attempts[key].count + Cardinality(Admitted(key)) < Cardinality(Procs)

(* What the properties rest on.  A row is of a token that was drawn, hence *)
(* no new session takes the token of a deleted one.                        *)
SessionsAreIssued == \A k \in Tokens : sessions[k] # Nil => k \in issued

(* Requests know what they are about: a login its bucket and, from Lookup  *)
(* on, the row it compares with; the others a token that was drawn.        *)
RequestIsKnown(p) == /\ pc[p] \in {"lookup", "verify"} => req[p].key \in Keys
                     /\ pc[p] \in {"verify", "enable"} => req[p].seen \in Account
                     /\ pc[p] \in {"expire", "touch", "handle"} => req[p].token \in issued
                     /\ req[p].before \subseteq issued
RequestsAreKnown == \A p \in Procs : RequestIsKnown(p)

(* The expiry that a request is about to store is in time for the session  *)
(* as it is by now, if it still is.                                        *)
InTime(p) == pc[p] = "touch" /\ sessions[req[p].token] # Nil =>
               req[p].until <= Deadline(sessions[req[p].token])
TouchesAreInTime == \A p \in Procs : InTime(p)

(* The secret that a request is about to enforce is one it has confirmed.  *)
EnforcesConfirmed(p) == pc[p] = "enable" => req[p].seen.secret \in confirmed
SecretsAreDrawn == /\ account.secret # Nil => account.secret \in drawn
                   /\ \A p \in Procs : EnforcesConfirmed(p)

AuthInv == /\ TypeOK /\ SessionsAreIssued /\ RequestsAreKnown
           /\ TouchesAreInTime /\ SessionsEndInTime /\ PasswordChangeEndsSessions
           /\ SecretsAreDrawn /\ EnforcedSecretIsConfirmed /\ OverrunIsBounded
=============================================================================
