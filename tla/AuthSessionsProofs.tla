------------------------- MODULE AuthSessionsProofs -------------------------
(* Proofs about AuthSessions: the inductive invariant AuthInv, its parts,  *)
(* and that deleted sessions stay deleted.                                 *)
EXTENDS AuthSessions, FiniteSetTheorems, TLAPS

(***************************************************************************)
(* Whole seconds                                                           *)
(***************************************************************************)

LEMMA DivFacts ==
  ASSUME NEW t \in Nat, NEW d \in Nat \ {0}
  PROVE  /\ t \div d \in Nat
         /\ (t \div d) * d \in Nat
         /\ (t \div d) * d <= t
         /\ t < (t \div d) * d + d
OBVIOUS

LEMMA Cancel ==
  ASSUME NEW a \in Nat, NEW b \in Nat, NEW d \in Nat \ {0}, a * d < b * d
  PROVE  a < b
<1> SUFFICES ASSUME b <= a PROVE FALSE
  OBVIOUS
<1>1. PICK c \in Nat : a = b + c
  BY a - b \in Nat, a = b + (a - b)
<1>2. a * d = b * d + c * d
  BY <1>1
<1>3. c * d \in Nat /\ a * d \in Nat /\ b * d \in Nat
  OBVIOUS
<1> QED
  BY <1>2, <1>3

LEMMA StoredType == ASSUME NEW t \in Nat PROVE Stored(t) \in Nat /\ Stored(t) <= t
BY DivFacts, DurationAssumption DEF Stored

(* Rounding a sum down gains at most what rounding a summand up gains.     *)
LEMMA StoredSum ==
  ASSUME NEW t \in Nat, NEW i \in Nat
  PROVE  Stored(t + i) <= Stored(t) + Stored(i + Second - 1)
<1> DEFINE d == Second
           a == (t + i) \div d
           b == t \div d
           c == (i + d - 1) \div d
<1> d \in Nat \ {0}
  BY DurationAssumption
<1>1. a \in Nat /\ a * d \in Nat /\ a * d <= t + i
  BY DivFacts, t + i \in Nat
<1>2. b \in Nat /\ b * d \in Nat /\ t < b * d + d
  BY DivFacts
<1>3. c \in Nat /\ c * d \in Nat /\ i + d - 1 < c * d + d
  BY DivFacts, i + d - 1 \in Nat
<1> HIDE DEF d, a, b, c
<1>4. a * d < b * d + c * d + d
  BY <1>1, <1>2, <1>3
<1>5. (b + c + 1) * d = b * d + c * d + d
  BY <1>2, <1>3
<1>6. a < b + c + 1
  BY <1>1, <1>2, <1>3, <1>4, <1>5, b + c + 1 \in Nat, Cancel
<1>7. a * d <= b * d + c * d
  <2>1. PICK e \in Nat : b + c = a + e
    BY <1>1, <1>2, <1>3, <1>6, (b + c) - a \in Nat, b + c = a + ((b + c) - a)
  <2>2. (b + c) * d = b * d + c * d /\ (a + e) * d = a * d + e * d /\ e * d \in Nat
    BY <1>1, <1>2, <1>3
  <2> QED
    BY <2>1, <2>2, <1>1, <1>2, <1>3
<1> QED
  BY <1>7 DEF Stored, a, b, c, d

LEMMA MaxLifeType ==
  /\ MaxLife \in Nat
  /\ SessionMax <= MaxLife
  /\ Stored(SessionIdle + Second - 1) <= MaxLife
BY StoredType, DurationAssumption, SessionIdle + Second - 1 \in Nat DEF MaxLife

LEMMA DeadlineType ==
  ASSUME NEW s \in Session, clock \in Nat
  PROVE  /\ Deadline(s) \in Nat
         /\ \A t \in Nat : t <= Deadline(s) <=> t <= clock + SessionIdle /\ t <= s.created + MaxLife
BY MaxLifeType, DurationAssumption DEF Deadline, Least, Session

(***************************************************************************)
(* The invariant                                                           *)
(***************************************************************************)

LEMMA InitInv == Init => AuthInv
<1> SUFFICES ASSUME Init PROVE AuthInv
  OBVIOUS
<1> USE DEF Init
<1>1. TypeOK
  BY NilAssumption DEF TypeOK, Account, States, Request, NoRequest
<1>2. RequestsAreKnown /\ SessionsAreIssued /\ TouchesAreInTime
  BY DEF RequestsAreKnown, RequestIsKnown, SessionsAreIssued, TouchesAreInTime, InTime, NoRequest
<1>3. SessionsEndInTime /\ PasswordChangeEndsSessions /\ SecretsAreDrawn /\ EnforcedSecretIsConfirmed
  BY DEF SessionsEndInTime, PasswordChangeEndsSessions, EndedBefore, SecretsAreDrawn, EnforcesConfirmed, EnforcedSecretIsConfirmed
<1>4. OverrunIsBounded
  BY DEF OverrunIsBounded, Locked
<1> QED
  BY <1>1, <1>2, <1>3, <1>4 DEF AuthInv

USE DEF row, table, secrets, Goto, Answer

LEMMA Kinds == /\ Nil \notin Session /\ Nil \notin Account /\ Nil \notin Attempt
               /\ NoRequest \in Request /\ "idle" \in States
BY NilAssumption DEF NoRequest, Request, States

(* The part of the invariant that is about one request is kept by the      *)
(* steps of other requests that delete sessions at most.                   *)
LEMMA SessionsShrink ==
  ASSUME AuthInv, NEW Q \in SUBSET Procs, clock' = clock, issued \subseteq issued',
         sessions' \in [Tokens -> Session \cup {Nil}],
         \A k \in Tokens : sessions'[k] = Nil \/ sessions'[k] = sessions[k],
         \A q \in Q : pc'[q] = pc[q] /\ req'[q] = req[q]
  PROVE  /\ SessionsAreIssued' /\ SessionsEndInTime'
         /\ \A q \in Q : InTime(q)'
         /\ \A q \in Q : EndedBefore(q)'
<1> USE DEF AuthInv
<1>1. SessionsAreIssued' /\ SessionsEndInTime'
  BY DEF SessionsAreIssued, SessionsEndInTime, Deadline
<1>2. ASSUME NEW q \in Q PROVE InTime(q)'
  <2> SUFFICES ASSUME pc'[q] = "touch", sessions'[req'[q].token] # Nil
               PROVE  (req[q].until <= Deadline(sessions[req[q].token]))'
    BY DEF InTime
  <2>1. pc[q] = "touch" /\ req'[q] = req[q] /\ req[q].token \in Tokens
    BY DEF RequestsAreKnown, RequestIsKnown, TypeOK
  <2>2. sessions'[req[q].token] = sessions[req[q].token]
    BY <2>1
  <2> QED
    BY <2>1, <2>2 DEF TouchesAreInTime, InTime, Deadline
<1>3. ASSUME NEW q \in Q, pc'[q] = "renew", NEW k \in req'[q].before
      PROVE  sessions'[k] = Nil
  <2>1. pc[q] = "renew" /\ k \in req[q].before /\ k \in Tokens
    BY <1>3 DEF RequestsAreKnown, RequestIsKnown, TypeOK
  <2> QED
    BY <2>1 DEF PasswordChangeEndsSessions, EndedBefore
<1> QED
  BY <1>1, <1>2, <1>3 DEF EndedBefore

(* Nobody enters a bucket and no attempt is counted.                       *)
LEMMA NobodyEnters ==
  ASSUME TypeOK, OverrunIsBounded, attempts' = attempts, clock' \in Nat, clock <= clock',
         \A q \in Procs : pc'[q] \in {"lookup", "verify"} =>
            pc[q] \in {"lookup", "verify"} /\ req'[q].key = req[q].key
  PROVE  OverrunIsBounded'
<1> SUFFICES ASSUME NEW key \in Keys, Locked(key)'
             PROVE  attempts'[key].count + Cardinality(Admitted(key)') < Cardinality(Procs)
  BY DEF OverrunIsBounded
<1>1. attempts[key] \in Attempt
  BY DEF Locked, TypeOK
<1>2. Locked(key)
  BY <1>1 DEF Locked, Attempt, TypeOK
<1>3. Admitted(key)' \subseteq Admitted(key) /\ Admitted(key) \subseteq Procs
  BY DEF Admitted
<1>4. /\ IsFiniteSet(Admitted(key)) /\ Cardinality(Admitted(key)) \in Nat
      /\ Cardinality(Admitted(key)') \in Nat
      /\ Cardinality(Admitted(key)') <= Cardinality(Admitted(key))
      /\ Cardinality(Procs) \in Nat
  BY <1>3, ProcsAssumption, FS_Subset, FS_CardinalityType
<1> QED
  BY <1>1, <1>2, <1>4 DEF OverrunIsBounded, Attempt

LEMMA TickInv == AuthInv /\ Tick => AuthInv'
<1> SUFFICES ASSUME AuthInv, Tick PROVE AuthInv'
  OBVIOUS
<1> USE DEF AuthInv, Tick
<1>1. TypeOK' /\ SessionsAreIssued' /\ RequestsAreKnown' /\ PasswordChangeEndsSessions'
  BY DEF TypeOK, SessionsAreIssued, RequestsAreKnown, RequestIsKnown, PasswordChangeEndsSessions, EndedBefore
<1>2. SecretsAreDrawn' /\ EnforcedSecretIsConfirmed'
  BY DEF SecretsAreDrawn, EnforcesConfirmed, EnforcedSecretIsConfirmed
<1>3. OverrunIsBounded'
  BY NobodyEnters DEF TypeOK
<1>4. ASSUME NEW s \in Session PROVE Deadline(s) \in Nat /\ Deadline(s) <= Deadline(s)'
  BY MaxLifeType, DurationAssumption DEF Deadline, Least, Session, TypeOK
<1>5. SessionsEndInTime'
  <2> SUFFICES ASSUME NEW k \in Tokens, sessions[k] # Nil
               PROVE  sessions[k].expires <= Deadline(sessions[k])'
    BY DEF SessionsEndInTime
  <2>1. sessions[k] \in Session /\ sessions[k].expires \in Nat
    BY DEF TypeOK, Session
  <2>2. Deadline(sessions[k])' \in Nat
    BY <2>1, MaxLifeType, DurationAssumption DEF Deadline, Least, Session, TypeOK
  <2> QED
    BY <1>4, <2>1, <2>2 DEF SessionsEndInTime
<1>6. TouchesAreInTime'
  <2> SUFFICES ASSUME NEW p \in Procs, pc[p] = "touch", sessions[req[p].token] # Nil
               PROVE  req[p].until <= Deadline(sessions[req[p].token])'
    BY DEF TouchesAreInTime, InTime
  <2>1. sessions[req[p].token] \in Session /\ req[p].until \in Nat
    BY DEF TypeOK, RequestsAreKnown, RequestIsKnown, Request
  <2>2. Deadline(sessions[req[p].token])' \in Nat
    BY <2>1, MaxLifeType, DurationAssumption DEF Deadline, Least, Session, TypeOK
  <2> QED
    BY <1>4, <2>1, <2>2 DEF TouchesAreInTime, InTime
<1> QED
  BY <1>1, <1>2, <1>3, <1>5, <1>6

LEMMA JanitorInv == AuthInv /\ Janitor => AuthInv'
<1> SUFFICES ASSUME AuthInv, Janitor PROVE AuthInv'
  OBVIOUS
<1> USE DEF AuthInv, Janitor
<1>1. TypeOK' /\ RequestsAreKnown'
  BY DEF TypeOK, RequestsAreKnown, RequestIsKnown
<1>2. SessionsAreIssued' /\ SessionsEndInTime' /\ TouchesAreInTime' /\ PasswordChangeEndsSessions'
  <2>1. \A k \in Tokens : sessions'[k] = Nil \/ sessions'[k] = sessions[k]
    OBVIOUS
  <2>2. /\ SessionsAreIssued' /\ SessionsEndInTime'
        /\ \A q \in Procs : InTime(q)'
        /\ \A q \in Procs : EndedBefore(q)'
    BY <1>1, <2>1, SessionsShrink, Procs \in SUBSET Procs DEF TypeOK
  <2> QED
    BY <2>2 DEF TouchesAreInTime, InTime, PasswordChangeEndsSessions, EndedBefore
<1>3. SecretsAreDrawn' /\ EnforcedSecretIsConfirmed'
  BY DEF SecretsAreDrawn, EnforcesConfirmed, EnforcedSecretIsConfirmed
<1>4. OverrunIsBounded'
  BY NobodyEnters DEF TypeOK
<1> QED
  BY <1>1, <1>2, <1>3, <1>4
(* A step of p that deletes sessions at most: what it owes is about p.     *)
LEMMA OwnStep ==
  ASSUME AuthInv, NEW p \in Procs, TypeOK', clock' = clock,
         issued \subseteq issued', confirmed \subseteq confirmed',
         \A k \in Tokens : sessions'[k] = Nil \/ sessions'[k] = sessions[k],
         \A q \in Procs \ {p} : pc'[q] = pc[q] /\ req'[q] = req[q],
         RequestIsKnown(p)', InTime(p)', EndedBefore(p)', EnforcesConfirmed(p)'
  PROVE  /\ SessionsAreIssued' /\ SessionsEndInTime' /\ RequestsAreKnown'
         /\ TouchesAreInTime' /\ PasswordChangeEndsSessions'
         /\ \A q \in Procs : EnforcesConfirmed(q)'
<1> DEFINE Q == Procs \ {p}
<1>1. /\ SessionsAreIssued' /\ SessionsEndInTime'
      /\ \A q \in Q : InTime(q)'
      /\ \A q \in Q : EndedBefore(q)'
  BY SessionsShrink, Q \in SUBSET Procs DEF TypeOK
<1>2. RequestsAreKnown'
  BY DEF AuthInv, RequestsAreKnown, RequestIsKnown
<1>3. TouchesAreInTime' /\ PasswordChangeEndsSessions'
  BY <1>1 DEF TouchesAreInTime, PasswordChangeEndsSessions
<1>4. \A q \in Procs : EnforcesConfirmed(q)'
  BY DEF AuthInv, SecretsAreDrawn, EnforcesConfirmed
<1> QED
  BY <1>1, <1>2, <1>3, <1>4

(* Steps that change the request alone.                                    *)
LEMMA ReadersInv ==
  ASSUME AuthInv, NEW p \in Procs,
         Lookup(p) \/ AskForCode(p) \/ Read(p) \/ Refuse(p) \/ ChangePassword(p)
           \/ DisableTOTP(p) \/ UpdateUserPassword(p)
  PROVE  AuthInv'
<1> USE Kinds DEF AuthInv, Lookup, AskForCode, Read, Refuse, ChangePassword, DisableTOTP,
          UpdateUserPassword, Verified, Handles
<1>1. UNCHANGED <<account, sessions, issued, drawn, confirmed, attempts, clock>>
  OBVIOUS
<1>2. \A q \in Procs \ {p} : pc'[q] = pc[q] /\ req'[q] = req[q]
  BY DEF TypeOK
<1>3. /\ pc'[p] \in {"verify", "idle", "update", "disable", "revoke"}
      /\ pc'[p] = "idle" => req'[p] = NoRequest
      /\ pc'[p] = "verify" => pc[p] = "lookup" /\ req'[p].key = req[p].key /\ req'[p].seen = account
      /\ req'[p].before \in {{}, req[p].before, issued}
      /\ req'[p] \in Request
  <2> req[p] \in Request /\ req \in [Procs -> Request] /\ pc \in [Procs -> States]
    BY DEF TypeOK
  <2> HIDE DEF AuthInv
  <2>1. CASE Lookup(p)
    <3> account \in Account
      BY DEF AuthInv, TypeOK
    <3> req'[p] = [req[p] EXCEPT !.seen = account] /\ pc'[p] = "verify"
      BY <2>1
    <3> QED
      BY <2>1 DEF Request
  <2>2. CASE AskForCode(p) \/ Read(p) \/ Refuse(p)
    BY <2>2 DEF NoRequest
  <2>3. CASE ChangePassword(p) \/ DisableTOTP(p)
    BY <2>3
  <2>4. CASE UpdateUserPassword(p)
    <3> issued \in SUBSET Tokens
      BY DEF AuthInv, TypeOK
    <3> req'[p] = [req[p] EXCEPT !.before = issued] /\ pc'[p] = "revoke"
      BY <2>4
    <3> QED
      BY <2>4 DEF Request
  <2> QED
    BY <2>1, <2>2, <2>3, <2>4
<1>4. TypeOK'
  <2>1. pc' \in [Procs -> States] /\ req' \in [Procs -> Request]
    BY <1>3 DEF TypeOK, States
  <2> QED
    BY <1>1, <1>2, <1>3, <2>1 DEF TypeOK
<1>5. RequestIsKnown(p)' /\ InTime(p)' /\ EndedBefore(p)' /\ EnforcesConfirmed(p)'
  BY <1>1, <1>3 DEF RequestsAreKnown, RequestIsKnown, InTime, EndedBefore, EnforcesConfirmed, TypeOK
<1>6. /\ SessionsAreIssued' /\ SessionsEndInTime' /\ RequestsAreKnown'
      /\ TouchesAreInTime' /\ PasswordChangeEndsSessions'
      /\ \A q \in Procs : EnforcesConfirmed(q)'
  BY <1>1, <1>2, <1>4, <1>5, OwnStep
<1>7. SecretsAreDrawn' /\ EnforcedSecretIsConfirmed'
  BY <1>1, <1>6 DEF SecretsAreDrawn, EnforcedSecretIsConfirmed
<1>8. OverrunIsBounded'
  BY <1>1, <1>2, <1>3, NobodyEnters DEF TypeOK
<1> QED
  BY <1>4, <1>6, <1>7, <1>8

(* Steps that delete sessions.                                             *)
LEMMA DeletersInv ==
  ASSUME AuthInv, NEW p \in Procs, Expire(p) \/ Logout(p) \/ DeleteUserSessions(p)
  PROVE  AuthInv'
<1> USE Kinds DEF AuthInv, Expire, Logout, DeleteUserSessions, DeleteSession, Handles
<1>1. UNCHANGED <<account, issued, drawn, confirmed, attempts, clock>>
  OBVIOUS
<1>2. /\ sessions' \in [Tokens -> Session \cup {Nil}]
      /\ \A k \in Tokens : sessions'[k] = Nil \/ sessions'[k] = sessions[k]
  BY DEF TypeOK
<1>3. \A q \in Procs \ {p} : pc'[q] = pc[q] /\ req'[q] = req[q]
  BY DEF TypeOK
<1>4. \/ pc'[p] = "idle" /\ req'[p] = NoRequest
      \/ pc'[p] = "renew" /\ req'[p] = req[p] /\ \A k \in Tokens : sessions'[k] = Nil
  BY DEF TypeOK
<1>5. TypeOK'
  <2>1. pc' \in [Procs -> States] /\ req' \in [Procs -> Request]
    BY <1>4 DEF TypeOK, States
  <2> QED
    BY <1>1, <1>2, <1>3, <1>4, <2>1 DEF TypeOK
<1>6. RequestIsKnown(p)' /\ InTime(p)' /\ EndedBefore(p)' /\ EnforcesConfirmed(p)'
  <2>1. req[p].before \subseteq issued /\ issued \subseteq Tokens
    BY DEF TypeOK, RequestsAreKnown, RequestIsKnown
  <2> QED
    BY <1>1, <1>4, <2>1 DEF RequestIsKnown, InTime, EndedBefore, EnforcesConfirmed, NoRequest
<1>7. /\ SessionsAreIssued' /\ SessionsEndInTime' /\ RequestsAreKnown'
      /\ TouchesAreInTime' /\ PasswordChangeEndsSessions'
      /\ \A q \in Procs : EnforcesConfirmed(q)'
  BY <1>1, <1>2, <1>3, <1>5, <1>6, OwnStep
<1>8. SecretsAreDrawn' /\ EnforcedSecretIsConfirmed'
  BY <1>1, <1>7 DEF SecretsAreDrawn, EnforcedSecretIsConfirmed
<1>9. OverrunIsBounded'
  BY <1>1, <1>3, <1>4, NobodyEnters DEF TypeOK
<1> QED
  BY <1>5, <1>7, <1>8, <1>9

(* The expiry is the one that Authenticate computed, for the same session: *)
(* its token was drawn then, and is not drawn again.                       *)
LEMMA TouchInv == ASSUME AuthInv, NEW p \in Procs, Touch(p) PROVE AuthInv'
<1> USE Kinds DEF AuthInv, Touch
<1> DEFINE t == req[p].token
<1>1. /\ t \in Tokens /\ req[p] \in Request /\ req[p].until \in Nat /\ clock \in Nat
      /\ sessions \in [Tokens -> Session \cup {Nil}]
  BY DEF TypeOK, RequestsAreKnown, RequestIsKnown, Request
<1>2. Stored(req[p].until) \in Nat /\ Stored(req[p].until) <= req[p].until
  BY <1>1, StoredType
<1>3. /\ \A k \in Tokens \ {t} : sessions'[k] = sessions[k]
      /\ sessions[t] = Nil => sessions'[t] = Nil
      /\ sessions[t] # Nil => /\ sessions'[t] \in Session
                              /\ sessions'[t].created = sessions[t].created
                              /\ sessions'[t].expires = Stored(req[p].until)
  BY <1>1, <1>2 DEF Session
<1>4. \A q \in Procs \ {p} : pc'[q] = pc[q] /\ req'[q] = req[q]
  BY DEF TypeOK
<1>5. /\ pc'[p] = "handle" /\ req'[p] \in Request
      /\ req'[p].token = t /\ req'[p].before = req[p].before
  BY <1>1 DEF TypeOK, Request
<1>6. TypeOK'
  <2>1. pc' \in [Procs -> States] /\ req' \in [Procs -> Request]
    BY <1>5 DEF TypeOK, States
  <2>2. sessions' \in [Tokens -> Session \cup {Nil}]
    BY <1>1, <1>3
  <2> QED
    BY <1>4, <1>5, <2>1, <2>2 DEF TypeOK
<1>7. SessionsAreIssued' /\ RequestsAreKnown'
  BY <1>3, <1>4, <1>5 DEF SessionsAreIssued, RequestsAreKnown, RequestIsKnown
<1>8. SessionsEndInTime'
  <2> SUFFICES ASSUME NEW k \in Tokens, sessions'[k] # Nil
               PROVE  (sessions[k].expires <= Deadline(sessions[k]))'
    BY DEF SessionsEndInTime
  <2>1. CASE k # t
    BY <1>3, <2>1 DEF SessionsEndInTime, Deadline
  <2>2. CASE k = t
    <3>1. sessions[t] # Nil /\ sessions[t] \in Session
      BY <1>1, <1>3, <2>2
    <3>2. req[p].until <= Deadline(sessions[t])
      BY <3>1 DEF TouchesAreInTime, InTime
    <3>3. Deadline(sessions[t]) \in Nat /\ Deadline(sessions[t]) = (Deadline(sessions[t]))'
      BY <1>3, <3>1, <2>2, <1>1, DeadlineType DEF Deadline
    <3> QED
      BY <1>1, <1>2, <1>3, <2>2, <3>1, <3>2, <3>3
  <2> QED
    BY <2>1, <2>2
<1>9. TouchesAreInTime'
  <2> SUFFICES ASSUME NEW q \in Procs, pc'[q] = "touch", sessions'[req'[q].token] # Nil
               PROVE  (req[q].until <= Deadline(sessions[req[q].token]))'
    BY DEF TouchesAreInTime, InTime
  <2>1. q # p /\ req'[q] = req[q] /\ pc[q] = "touch" /\ req[q].token \in Tokens
    BY <1>4, <1>5 DEF RequestsAreKnown, RequestIsKnown, TypeOK
  <2>2. sessions[req[q].token] # Nil
        /\ sessions'[req[q].token].created = sessions[req[q].token].created
    BY <1>3, <2>1
  <2> QED
    BY <2>1, <2>2 DEF TouchesAreInTime, InTime, Deadline
<1>10. PasswordChangeEndsSessions'
  <2> SUFFICES ASSUME NEW q \in Procs, pc'[q] = "renew", NEW k \in req'[q].before
               PROVE  sessions'[k] = Nil
    BY DEF PasswordChangeEndsSessions, EndedBefore
  <2>1. pc[q] = "renew" /\ k \in req[q].before /\ k \in Tokens
    BY <1>4, <1>5 DEF RequestsAreKnown, RequestIsKnown, TypeOK
  <2> QED
    BY <1>3, <2>1 DEF PasswordChangeEndsSessions, EndedBefore
<1>11. SecretsAreDrawn' /\ EnforcedSecretIsConfirmed'
  BY <1>4, <1>5 DEF SecretsAreDrawn, EnforcesConfirmed, EnforcedSecretIsConfirmed
<1>12. OverrunIsBounded'
  BY <1>4, <1>5, NobodyEnters DEF TypeOK
<1> QED
  BY <1>6, <1>7, <1>8, <1>9, <1>10, <1>11, <1>12

LEMMA AuthenticateInv == ASSUME AuthInv, NEW p \in Procs, Authenticate(p) PROVE AuthInv'
<1> USE Kinds DEF AuthInv
<1>1. UNCHANGED <<account, sessions, issued, drawn, confirmed, attempts, clock>>
  BY DEF Authenticate
<1>2. \A q \in Procs \ {p} : pc'[q] = pc[q] /\ req'[q] = req[q]
  BY DEF Authenticate, TypeOK
<1>3. PICK k \in issued, op \in Operations \ {"login"} :
        LET s == sessions[k]
            over == clock > s.expires \/ clock - s.created > SessionMax
        IN /\ s # Nil
           /\ Goto(p, IF over THEN "expire" ELSE "touch")
           /\ req' = [req EXCEPT ![p].op = op, ![p].token = k,
                                 ![p].until = IF over THEN 0 ELSE NewExpiry(s)]
  BY DEF Authenticate
<1>4. k \in Tokens /\ sessions[k] \in Session /\ clock \in Nat
  BY <1>3 DEF TypeOK
<1>5. NewExpiry(sessions[k]) \in Nat /\ NewExpiry(sessions[k]) <= Deadline(sessions[k])
  BY <1>4, MaxLifeType, DurationAssumption DEF NewExpiry, Deadline, Least, Session
<1>6. /\ pc'[p] \in {"expire", "touch"}
      /\ req'[p] \in Request /\ req'[p].token = k /\ req'[p].before = {}
      /\ pc'[p] = "touch" => req'[p].until = NewExpiry(sessions[k])
  <2>1. req[p] = NoRequest /\ req \in [Procs -> Request] /\ pc \in [Procs -> States]
    BY DEF Authenticate, TypeOK
  <2>2. PICK u \in Nat : /\ req' = [req EXCEPT ![p].op = op, ![p].token = k, ![p].until = u]
                         /\ pc'[p] \in {"expire", "touch"}
                         /\ pc'[p] = "touch" => u = NewExpiry(sessions[k])
    BY <1>3, <1>5, <2>1
  <2>3. req'[p] = [NoRequest EXCEPT !.op = op, !.token = k, !.until = u]
    BY <2>1, <2>2
  <2>4. req'[p] = [op |-> op, key |-> Nil, token |-> k, until |-> u, seen |-> Nil, before |-> {}]
    BY <2>3 DEF NoRequest
  <2> HIDE DEF AuthInv
  <2>5. req'[p] \in Request
    BY <1>4, <2>4 DEF Request
  <2>6. req'[p].token = k /\ req'[p].before = {} /\ req'[p].until = u
    BY <2>4
  <2>7. pc'[p] \in {"expire", "touch"} /\ (pc'[p] = "touch" => u = NewExpiry(sessions[k]))
    BY <2>2
  <2> QED
    BY <2>5, <2>6, <2>7
<1>7. TypeOK'
  <2>1. pc' \in [Procs -> States] /\ req' \in [Procs -> Request]
    BY <1>2, <1>3, <1>6 DEF TypeOK, States
  <2> QED
    BY <1>1, <1>2, <1>6, <2>1 DEF TypeOK
<1>8. RequestIsKnown(p)' /\ InTime(p)' /\ EndedBefore(p)' /\ EnforcesConfirmed(p)'
  BY <1>1, <1>5, <1>6 DEF RequestIsKnown, InTime, EndedBefore, EnforcesConfirmed, Deadline
<1>9. /\ SessionsAreIssued' /\ SessionsEndInTime' /\ RequestsAreKnown'
      /\ TouchesAreInTime' /\ PasswordChangeEndsSessions'
      /\ \A q \in Procs : EnforcesConfirmed(q)'
  BY <1>1, <1>2, <1>7, <1>8, OwnStep
<1>10. SecretsAreDrawn' /\ EnforcedSecretIsConfirmed'
  BY <1>1, <1>9 DEF SecretsAreDrawn, EnforcedSecretIsConfirmed
<1>11. OverrunIsBounded'
  BY <1>1, <1>2, <1>6, NobodyEnters DEF TypeOK
<1> QED
  BY <1>7, <1>9, <1>10, <1>11

LEMMA StartSessionInv == ASSUME AuthInv, NEW p \in Procs, StartSession(p) PROVE AuthInv'
<1> USE Kinds DEF AuthInv
<1>1. PICK k \in Tokens \ issued :
        /\ issued' = issued \cup {k}
        /\ sessions' = [sessions EXCEPT ![k] =
             [created |-> Stored(clock), expires |-> Stored(clock + SessionIdle)]]
  BY DEF StartSession
<1>2. /\ UNCHANGED <<account, drawn, confirmed, attempts, clock>>
      /\ pc' = [pc EXCEPT ![p] = "idle"] /\ req' = [req EXCEPT ![p] = NoRequest]
  BY DEF StartSession
<1>3. \A q \in Procs \ {p} : pc'[q] = pc[q] /\ req'[q] = req[q]
  BY <1>2 DEF TypeOK
<1>4. pc'[p] = "idle" /\ req'[p] = NoRequest
  BY <1>2 DEF TypeOK
<1>5. /\ clock \in Nat
      /\ Stored(clock) \in Nat /\ Stored(clock) <= clock
      /\ Stored(clock + SessionIdle) \in Nat
      /\ Stored(clock + SessionIdle) <= clock + SessionIdle
      /\ Stored(clock + SessionIdle) <= Stored(clock) + MaxLife
  <2>1. clock \in Nat /\ clock + SessionIdle \in Nat /\ SessionIdle \in Nat
    BY DurationAssumption DEF TypeOK
  <2>2. Stored(SessionIdle + Second - 1) \in Nat
    BY StoredType, DurationAssumption, SessionIdle + Second - 1 \in Nat
  <2>3. Stored(clock) \in Nat /\ Stored(clock) <= clock
    BY <2>1, StoredType
  <2>4. Stored(clock + SessionIdle) \in Nat /\ Stored(clock + SessionIdle) <= clock + SessionIdle
    BY <2>1, StoredType
  <2>5. Stored(clock + SessionIdle) <= Stored(clock) + Stored(SessionIdle + Second - 1)
    BY <2>1, StoredSum
  <2>6. Stored(SessionIdle + Second - 1) <= MaxLife /\ MaxLife \in Nat
    BY MaxLifeType
  <2> QED
    BY <2>1, <2>2, <2>3, <2>4, <2>5, <2>6
<1>6. /\ sessions'[k] \in Session
      /\ sessions'[k].created = Stored(clock) /\ sessions'[k].expires = Stored(clock + SessionIdle)
      /\ \A j \in Tokens \ {k} : sessions'[j] = sessions[j]
  BY <1>1, <1>5 DEF TypeOK, Session
<1>7. TypeOK'
  <2>1. sessions' \in [Tokens -> Session \cup {Nil}]
    BY <1>1, <1>6 DEF TypeOK
  <2> QED
    BY <1>1, <1>2, <2>1 DEF TypeOK, States
<1>8. SessionsAreIssued' /\ RequestsAreKnown'
  BY <1>1, <1>3, <1>4, <1>6
     DEF SessionsAreIssued, RequestsAreKnown, RequestIsKnown, NoRequest
<1>9. SessionsEndInTime'
  <2> SUFFICES ASSUME NEW j \in Tokens, sessions'[j] # Nil
               PROVE  (sessions[j].expires <= Deadline(sessions[j]))'
    BY DEF SessionsEndInTime
  <2>1. CASE j # k
    BY <1>2, <1>6, <2>1 DEF SessionsEndInTime, Deadline
  <2>2. CASE j = k
    BY <1>2, <1>5, <1>6, <2>2, MaxLifeType, DurationAssumption DEF Deadline, Least
  <2> QED
    BY <2>1, <2>2
<1>10. TouchesAreInTime'
  <2> SUFFICES ASSUME NEW q \in Procs, pc'[q] = "touch", sessions'[req'[q].token] # Nil
               PROVE  (req[q].until <= Deadline(sessions[req[q].token]))'
    BY DEF TouchesAreInTime, InTime
  <2>1. q # p /\ req'[q] = req[q] /\ pc[q] = "touch"
    BY <1>3, <1>4
  <2>2. req[q].token \in Tokens \ {k}
    BY <2>1 DEF RequestsAreKnown, RequestIsKnown, TypeOK
  <2>3. sessions'[req[q].token] = sessions[req[q].token] /\ sessions[req[q].token] # Nil
    BY <1>6, <2>1, <2>2
  <2> QED
    BY <1>2, <2>1, <2>3 DEF TouchesAreInTime, InTime, Deadline
<1>11. PasswordChangeEndsSessions'
  <2> SUFFICES ASSUME NEW q \in Procs, pc'[q] = "renew", NEW j \in req'[q].before
               PROVE  sessions'[j] = Nil
    BY DEF PasswordChangeEndsSessions, EndedBefore
  <2>1. q # p /\ req'[q] = req[q] /\ pc[q] = "renew"
    BY <1>3, <1>4
  <2>2. j \in Tokens \ {k}
    BY <2>1 DEF RequestsAreKnown, RequestIsKnown, TypeOK
  <2> QED
    BY <1>6, <2>1, <2>2 DEF PasswordChangeEndsSessions, EndedBefore
<1>12. SecretsAreDrawn' /\ EnforcedSecretIsConfirmed'
  BY <1>2, <1>3, <1>4 DEF SecretsAreDrawn, EnforcesConfirmed, EnforcedSecretIsConfirmed
<1>13. OverrunIsBounded'
  BY <1>2, <1>3, <1>4, NobodyEnters DEF TypeOK
<1> QED
  BY <1>7, <1>8, <1>9, <1>10, <1>11, <1>12, <1>13

(***************************************************************************)
(* The limiter                                                             *)
(***************************************************************************)

LEMMA FailFacts ==
  ASSUME TypeOK, NEW key \in Keys, Fail(key)
  PROVE  /\ attempts' \in [Keys -> Attempt \cup {Nil}]
         /\ \A k \in Keys \ {key} : attempts'[k] = attempts[k]
         /\ attempts'[key] # Nil /\ attempts'[key].count < MaxAttempts
         /\ clock <= attempts'[key].lockUntil /\ attempts'[key].count # 0 =>
               Locked(key) /\ attempts'[key].count = attempts[key].count + 1
<1> DEFINE old == attempts[key]
           a == IF old = Nil \/ (clock - old.first > Window /\ clock > old.lockUntil)
                  THEN [count |-> 0, first |-> clock, lockUntil |-> 0] ELSE old
           new == IF a.count + 1 >= MaxAttempts
                    THEN [count |-> 0, first |-> clock, lockUntil |-> clock + Window]
                    ELSE [a EXCEPT !.count = @ + 1]
<1>1. attempts' = [attempts EXCEPT ![key] = new]
  BY DEF Fail
<1>2. /\ clock \in Nat \ {0} /\ attempts \in [Keys -> Attempt \cup {Nil}]
      /\ old # Nil => old \in Attempt /\ old.count < MaxAttempts
  BY DEF TypeOK
<1>3. a \in Attempt /\ a.count < MaxAttempts
  BY <1>2, DurationAssumption DEF Attempt
<1>4. /\ new \in Attempt /\ new.count < MaxAttempts
      /\ new.count # 0 => new.count = a.count + 1 /\ new.lockUntil = a.lockUntil
  <2> HIDE DEF a
  <2>1. a.count \in Nat /\ a.first \in Nat /\ a.lockUntil \in Nat
    BY <1>3 DEF Attempt
  <2>2. CASE a.count + 1 >= MaxAttempts
    BY <1>2, <2>2, DurationAssumption DEF Attempt
  <2>3. CASE ~(a.count + 1 >= MaxAttempts)
    BY <1>3, <2>1, <2>3, DurationAssumption DEF Attempt
  <2> QED
    BY <2>2, <2>3
<1>5. clock <= a.lockUntil => old # Nil /\ a = old
  BY <1>2
<1>6. attempts'[key] = new
  BY <1>1, <1>2
<1> HIDE DEF a, new
<1>7. clock <= new.lockUntil /\ new.count # 0 => Locked(key) /\ new.count = attempts[key].count + 1
  BY <1>4, <1>5 DEF Locked
<1> QED
  BY <1>1, <1>2, <1>4, <1>6, <1>7, Kinds

(* An attempt that is counted is no longer in progress.                    *)
LEMMA FailKeepsBound ==
  ASSUME TypeOK, OverrunIsBounded, NEW p \in Procs, req[p].key \in Keys,
         pc[p] \in {"lookup", "verify"}, Fail(req[p].key), clock' = clock,
         pc'[p] \notin {"lookup", "verify"},
         \A q \in Procs \ {p} : pc'[q] = pc[q] /\ req'[q] = req[q]
  PROVE  OverrunIsBounded'
<1> SUFFICES ASSUME NEW key \in Keys, Locked(key)'
             PROVE  attempts'[key].count + Cardinality(Admitted(key)') < Cardinality(Procs)
  BY DEF OverrunIsBounded
<1>1. /\ IsFiniteSet(Admitted(key)) /\ IsFiniteSet(Admitted(key)')
      /\ Cardinality(Admitted(key)) \in Nat /\ Cardinality(Admitted(key)') \in Nat
      /\ Cardinality(Procs) \in Nat
  BY ProcsAssumption, FS_Subset, FS_CardinalityType,
     Admitted(key) \in SUBSET Procs, Admitted(key)' \in SUBSET Procs DEF Admitted
<1>2. attempts' \in [Keys -> Attempt \cup {Nil}] /\ attempts'[key].count \in Nat
  BY FailFacts DEF Locked, Attempt
<1>3. CASE key # req[p].key
  <2>1. Admitted(key)' = Admitted(key)
    BY <1>3 DEF Admitted
  <2>2. attempts'[key] = attempts[key] /\ Locked(key)
    BY <1>3, FailFacts DEF Locked
  <2> QED
    BY <2>1, <2>2 DEF OverrunIsBounded
<1>4. CASE key = req[p].key
  <2>1. Admitted(key)' = Admitted(key) \ {p} /\ p \in Admitted(key)
    BY <1>4 DEF Admitted
  <2>2. Cardinality(Admitted(key)') = Cardinality(Admitted(key)) - 1
    BY <1>1, <2>1, FS_RemoveElement
  <2>3. Cardinality(Admitted(key)) <= Cardinality(Procs)
    BY ProcsAssumption, FS_Subset, Admitted(key) \in SUBSET Procs DEF Admitted
  <2>4. CASE attempts'[key].count = 0
    BY <1>1, <2>2, <2>3, <2>4
  <2>5. CASE attempts'[key].count # 0
    <3>1. Locked(key) /\ attempts'[key].count = attempts[key].count + 1
      BY <1>4, <2>5, FailFacts DEF Locked
    <3>2. attempts[key].count \in Nat
      BY <3>1 DEF Locked, TypeOK, Attempt
    <3> QED
      BY <1>1, <2>2, <3>1, <3>2 DEF OverrunIsBounded
  <2> QED
    BY <2>4, <2>5
<1> QED
  BY <1>3, <1>4

LEMMA LoginInv == ASSUME AuthInv, NEW p \in Procs, Login(p) PROVE AuthInv'
<1> USE Kinds DEF AuthInv
<1>1. UNCHANGED <<account, sessions, issued, drawn, confirmed, attempts, clock>>
  BY DEF Login
<1>2. PICK key \in Keys : ~Locked(key) /\ req' = [req EXCEPT ![p].key = key]
  BY DEF Login
<1>3. \A q \in Procs \ {p} : pc'[q] = pc[q] /\ req'[q] = req[q]
  BY <1>2 DEF Login, TypeOK
<1>4. pc[p] = "idle" /\ pc'[p] = "lookup"
  BY DEF Login, TypeOK
<1>5. req'[p] = [op |-> Nil, key |-> key, token |-> Nil, until |-> 0, seen |-> Nil, before |-> {}]
  <2>1. req[p] = NoRequest /\ req'[p] = [req[p] EXCEPT !.key = key]
    BY <1>2, <1>4 DEF TypeOK
  <2> HIDE DEF AuthInv
  <2> QED
    BY <2>1 DEF NoRequest
<1>6. TypeOK'
  <2>1. req'[p] \in Request
    <3> HIDE DEF AuthInv
    <3> QED
      BY <1>5 DEF Request
  <2>2. pc' \in [Procs -> States] /\ req' \in [Procs -> Request]
    BY <1>2, <2>1 DEF TypeOK, States, Login
  <2> QED
    BY <1>1, <1>3, <1>4, <2>2 DEF TypeOK
<1>7. req'[p].key = key /\ req'[p].before = {}
  BY <1>5
<1>8. RequestIsKnown(p)' /\ InTime(p)' /\ EndedBefore(p)' /\ EnforcesConfirmed(p)'
  BY <1>4, <1>7 DEF RequestIsKnown, InTime, EndedBefore, EnforcesConfirmed
<1>9. /\ SessionsAreIssued' /\ SessionsEndInTime' /\ RequestsAreKnown'
      /\ TouchesAreInTime' /\ PasswordChangeEndsSessions'
      /\ \A q \in Procs : EnforcesConfirmed(q)'
  BY <1>1, <1>3, <1>6, <1>8, OwnStep
<1>10. SecretsAreDrawn' /\ EnforcedSecretIsConfirmed'
  BY <1>1, <1>9 DEF SecretsAreDrawn, EnforcedSecretIsConfirmed
<1>11. OverrunIsBounded'
  <2> SUFFICES ASSUME NEW other \in Keys, Locked(other)'
               PROVE  attempts'[other].count + Cardinality(Admitted(other)') < Cardinality(Procs)
    BY DEF OverrunIsBounded
  <2>1. Locked(other) /\ other # key
    BY <1>1, <1>2 DEF Locked
  <2>2. Admitted(other)' = Admitted(other)
    BY <1>3, <1>4, <1>7, <2>1 DEF Admitted
  <2> QED
    BY <1>1, <2>1, <2>2 DEF OverrunIsBounded
<1> QED
  BY <1>6, <1>9, <1>10, <1>11

LEMMA RejectInv == ASSUME AuthInv, NEW p \in Procs, Reject(p) PROVE AuthInv'
<1> USE Kinds DEF AuthInv
<1>1. /\ UNCHANGED <<account, sessions, issued, drawn, confirmed, clock>>
      /\ pc' = [pc EXCEPT ![p] = "idle"] /\ req' = [req EXCEPT ![p] = NoRequest]
      /\ pc[p] = "verify" /\ Fail(req[p].key)
  BY DEF Reject
<1>2. \A q \in Procs \ {p} : pc'[q] = pc[q] /\ req'[q] = req[q]
  BY <1>1 DEF TypeOK
<1>3. pc'[p] = "idle" /\ req'[p] = NoRequest
  BY <1>1 DEF TypeOK
<1>4. req[p].key \in Keys
  BY <1>1 DEF RequestsAreKnown, RequestIsKnown
<1>5. TypeOK'
  <2>1. /\ attempts' \in [Keys -> Attempt \cup {Nil}]
        /\ \A k \in Keys : attempts'[k] # Nil => attempts'[k].count < MaxAttempts
    BY <1>1, <1>4, FailFacts DEF TypeOK
  <2> QED
    BY <1>1, <2>1 DEF TypeOK, States
<1>6. RequestIsKnown(p)' /\ InTime(p)' /\ EndedBefore(p)' /\ EnforcesConfirmed(p)'
  BY <1>3 DEF RequestIsKnown, InTime, EndedBefore, EnforcesConfirmed, NoRequest
<1>7. /\ SessionsAreIssued' /\ SessionsEndInTime' /\ RequestsAreKnown'
      /\ TouchesAreInTime' /\ PasswordChangeEndsSessions'
      /\ \A q \in Procs : EnforcesConfirmed(q)'
  BY <1>1, <1>2, <1>5, <1>6, OwnStep
<1>8. SecretsAreDrawn' /\ EnforcedSecretIsConfirmed'
  BY <1>1, <1>7 DEF SecretsAreDrawn, EnforcedSecretIsConfirmed
<1>9. OverrunIsBounded'
  BY <1>1, <1>2, <1>3, <1>4, FailKeepsBound
<1> QED
  BY <1>5, <1>7, <1>8, <1>9

LEMMA AcceptInv == ASSUME AuthInv, NEW p \in Procs, Accept(p) PROVE AuthInv'
<1> USE Kinds DEF AuthInv
<1>1. /\ UNCHANGED <<account, sessions, issued, drawn, confirmed, clock>>
      /\ pc' = [pc EXCEPT ![p] = "start"] /\ req' = [req EXCEPT ![p] = NoRequest]
      /\ pc[p] = "verify" /\ attempts' = [attempts EXCEPT ![req[p].key] = Nil]
  BY DEF Accept, Reset
<1>2. \A q \in Procs \ {p} : pc'[q] = pc[q] /\ req'[q] = req[q]
  BY <1>1 DEF TypeOK
<1>3. pc'[p] = "start" /\ req'[p] = NoRequest
  BY <1>1 DEF TypeOK
<1>4. TypeOK'
  BY <1>1 DEF TypeOK, States
<1>5. RequestIsKnown(p)' /\ InTime(p)' /\ EndedBefore(p)' /\ EnforcesConfirmed(p)'
  BY <1>3 DEF RequestIsKnown, InTime, EndedBefore, EnforcesConfirmed, NoRequest
<1>6. /\ SessionsAreIssued' /\ SessionsEndInTime' /\ RequestsAreKnown'
      /\ TouchesAreInTime' /\ PasswordChangeEndsSessions'
      /\ \A q \in Procs : EnforcesConfirmed(q)'
  BY <1>1, <1>2, <1>4, <1>5, OwnStep
<1>7. SecretsAreDrawn' /\ EnforcedSecretIsConfirmed'
  BY <1>1, <1>6 DEF SecretsAreDrawn, EnforcedSecretIsConfirmed
<1>8. OverrunIsBounded'
  <2> SUFFICES ASSUME NEW key \in Keys, Locked(key)'
               PROVE  attempts'[key].count + Cardinality(Admitted(key)') < Cardinality(Procs)
    BY DEF OverrunIsBounded
  <2>1. key # req[p].key /\ attempts'[key] = attempts[key] /\ Locked(key)
    BY <1>1 DEF Locked, TypeOK
  <2>2. Admitted(key)' = Admitted(key)
    BY <1>1, <1>2, <1>3, <2>1 DEF Admitted
  <2> QED
    BY <2>1, <2>2 DEF OverrunIsBounded
<1> QED
  BY <1>4, <1>6, <1>7, <1>8

(***************************************************************************)
(* Two-factor login                                                        *)
(***************************************************************************)

(* Steps that write the row of the account, and none of the tables.        *)
LEMMA AccountInv ==
  ASSUME AuthInv, NEW p \in Procs, SetupTOTP(p) \/ Enforce(p) \/ Strip(p)
  PROVE  AuthInv'
<1> USE Kinds DEF AuthInv
<1>1. /\ UNCHANGED <<sessions, issued, confirmed, attempts, clock>>
      /\ pc' = [pc EXCEPT ![p] = "idle"] /\ req' = [req EXCEPT ![p] = NoRequest]
  BY DEF SetupTOTP, Enforce, Strip
<1>2. \A q \in Procs \ {p} : pc'[q] = pc[q] /\ req'[q] = req[q]
  BY <1>1 DEF TypeOK
<1>3. pc'[p] = "idle" /\ req'[p] = NoRequest
  BY <1>1 DEF TypeOK
<1>4. /\ account' \in Account /\ drawn \subseteq drawn' /\ drawn' \subseteq Secrets
      /\ account'.secret # Nil => account'.secret \in drawn'
      /\ account'.totp => account'.secret \in confirmed
  <2>1. account \in Account /\ drawn \subseteq Secrets /\ confirmed \subseteq drawn
    BY DEF TypeOK
  <2>2. CASE SetupTOTP(p)
    <3>1. PICK s \in Secrets \ drawn : account' = [account EXCEPT !.secret = s, !.totp = FALSE]
                                       /\ drawn' = drawn \cup {s}
      BY <2>2 DEF SetupTOTP, UpdateUserTOTP
    <3> QED
      BY <2>1, <3>1 DEF Account
  <2>3. CASE Enforce(p)
    <3>1. account' = [account EXCEPT !.secret = req[p].seen.secret, !.totp = TRUE] /\ drawn' = drawn
      BY <2>3 DEF Enforce, UpdateUserTOTP
    <3>2. req[p].seen.secret \in confirmed
      BY <2>3 DEF Enforce, SecretsAreDrawn, EnforcesConfirmed
    <3> QED
      BY <2>1, <3>1, <3>2 DEF Account
  <2>4. CASE Strip(p)
    <3>1. account' = [account EXCEPT !.secret = Nil, !.totp = FALSE] /\ drawn' = drawn
      BY <2>4 DEF Strip, UpdateUserTOTP
    <3> QED
      BY <2>1, <3>1 DEF Account
  <2> QED
    BY <2>2, <2>3, <2>4
<1>5. TypeOK'
  BY <1>1, <1>4 DEF TypeOK, States
<1>6. RequestIsKnown(p)' /\ InTime(p)' /\ EndedBefore(p)' /\ EnforcesConfirmed(p)'
  BY <1>3 DEF RequestIsKnown, InTime, EndedBefore, EnforcesConfirmed, NoRequest
<1>7. /\ SessionsAreIssued' /\ SessionsEndInTime' /\ RequestsAreKnown'
      /\ TouchesAreInTime' /\ PasswordChangeEndsSessions'
      /\ \A q \in Procs : EnforcesConfirmed(q)'
  BY <1>1, <1>2, <1>5, <1>6, OwnStep
<1>8. SecretsAreDrawn' /\ EnforcedSecretIsConfirmed'
  BY <1>1, <1>4, <1>7 DEF SecretsAreDrawn, EnforcedSecretIsConfirmed
<1>9. OverrunIsBounded'
  BY <1>1, <1>2, <1>3, NobodyEnters DEF TypeOK
<1> QED
  BY <1>5, <1>7, <1>8, <1>9

LEMMA EnableInv == ASSUME AuthInv, NEW p \in Procs, EnableTOTP(p) PROVE AuthInv'
<1> USE Kinds DEF AuthInv
<1>1. /\ UNCHANGED <<account, sessions, issued, drawn, attempts, clock>>
      /\ pc' = [pc EXCEPT ![p] = "enable"] /\ req' = [req EXCEPT ![p].seen = account]
      /\ confirmed' = confirmed \cup {account.secret}
      /\ account.secret # Nil
  BY DEF EnableTOTP
<1>2. \A q \in Procs \ {p} : pc'[q] = pc[q] /\ req'[q] = req[q]
  BY <1>1 DEF TypeOK
<1>3. req[p] \in Request /\ account \in Account
  BY DEF TypeOK
<1>4. pc'[p] = "enable" /\ req'[p] = [req[p] EXCEPT !.seen = account]
  BY <1>1 DEF TypeOK
<1>5. req'[p] \in Request /\ req'[p].seen = account /\ req'[p].before = req[p].before
  <2> HIDE DEF AuthInv
  <2> QED
    BY <1>3, <1>4 DEF Request
<1>6. TypeOK'
  <2>1. req' \in [Procs -> Request] /\ pc' \in [Procs -> States]
    BY <1>1, <1>5 DEF TypeOK, States
  <2>2. confirmed' \subseteq drawn'
    BY <1>1 DEF TypeOK, SecretsAreDrawn
  <2> QED
    BY <1>1, <1>2, <1>4, <2>1, <2>2 DEF TypeOK
<1>7. RequestIsKnown(p)' /\ InTime(p)' /\ EndedBefore(p)' /\ EnforcesConfirmed(p)'
  BY <1>1, <1>3, <1>4, <1>5
     DEF RequestsAreKnown, RequestIsKnown, InTime, EndedBefore, EnforcesConfirmed
<1>8. /\ SessionsAreIssued' /\ SessionsEndInTime' /\ RequestsAreKnown'
      /\ TouchesAreInTime' /\ PasswordChangeEndsSessions'
      /\ \A q \in Procs : EnforcesConfirmed(q)'
  BY <1>1, <1>2, <1>6, <1>7, OwnStep
<1>9. SecretsAreDrawn' /\ EnforcedSecretIsConfirmed'
  BY <1>1, <1>8 DEF SecretsAreDrawn, EnforcedSecretIsConfirmed
<1>10. OverrunIsBounded'
  BY <1>1, <1>2, <1>4, NobodyEnters DEF TypeOK
<1> QED
  BY <1>6, <1>8, <1>9, <1>10

(***************************************************************************)
(* The theorems                                                            *)
(***************************************************************************)

LEMMA NextInv == AuthInv /\ [Next]_vars => AuthInv'
<1> SUFFICES ASSUME AuthInv, [Next]_vars PROVE AuthInv'
  OBVIOUS
<1>1. CASE Tick \/ Janitor
  BY <1>1, TickInv, JanitorInv
<1>2. ASSUME NEW p \in Procs, LoginStep(p) PROVE AuthInv'
  BY <1>2, LoginInv, ReadersInv, RejectInv, AcceptInv, StartSessionInv DEF LoginStep
<1>3. ASSUME NEW p \in Procs, SessionStep(p) PROVE AuthInv'
  BY <1>3, AuthenticateInv, DeletersInv, TouchInv, ReadersInv DEF SessionStep
<1>4. ASSUME NEW p \in Procs, AccountStep(p) PROVE AuthInv'
  BY <1>4, ReadersInv, DeletersInv, AccountInv, EnableInv DEF AccountStep
<1>5. CASE UNCHANGED vars
  <2>1. TypeOK' /\ SessionsAreIssued' /\ RequestsAreKnown' /\ TouchesAreInTime'
    BY <1>5 DEF vars, AuthInv, TypeOK, SessionsAreIssued, RequestsAreKnown, RequestIsKnown,
                TouchesAreInTime, InTime, Deadline
  <2>2. SessionsEndInTime' /\ PasswordChangeEndsSessions'
    BY <1>5 DEF vars, AuthInv, SessionsEndInTime, PasswordChangeEndsSessions, EndedBefore, Deadline
  <2>3. SecretsAreDrawn' /\ EnforcedSecretIsConfirmed'
    BY <1>5 DEF vars, AuthInv, SecretsAreDrawn, EnforcesConfirmed, EnforcedSecretIsConfirmed
  <2>4. OverrunIsBounded'
    BY <1>5, NobodyEnters DEF vars, AuthInv, TypeOK
  <2> QED
    BY <2>1, <2>2, <2>3, <2>4 DEF AuthInv
<1> QED
  BY <1>1, <1>2, <1>3, <1>4, <1>5 DEF Next

(* The strengthened invariant holds for any number of requests, tokens,    *)
(* secrets and addresses, and for any durations.                           *)
THEOREM AuthIsSound == Spec => []AuthInv
BY InitInv, NextInv, PTL DEF Spec

(* Touched by whatever requests, in whatever order, a session never lives  *)
(* longer than it may (auth.go:111, 136-139).                              *)
THEOREM EverySessionEnds == Spec => []SessionsEndInTime
<1>1. AuthInv => SessionsEndInTime
  BY DEF AuthInv
<1> QED
  BY <1>1, AuthIsSound, PTL

(* A changed password ends every session that it found (auth.go:166-169),  *)
(* whatever touches or starts sessions in between.                         *)
THEOREM ChangedPasswordEndsSessions == Spec => []PasswordChangeEndsSessions
<1>1. AuthInv => PasswordChangeEndsSessions
  BY DEF AuthInv
<1> QED
  BY <1>1, AuthIsSound, PTL

(* Nobody is locked out by a secret that was never confirmed, however the  *)
(* set-ups overlap (totp.go:34-75).                                        *)
THEOREM EnforcedMeansConfirmed == Spec => []EnforcedSecretIsConfirmed
<1>1. AuthInv => EnforcedSecretIsConfirmed
  BY DEF AuthInv
<1> QED
  BY <1>1, AuthIsSound, PTL

(* A locked bucket counts at most one attempt for each other request       *)
(* (auth.go:48, 237-252).                                                  *)
THEOREM LockIsOverrunBoundedly == Spec => []OverrunIsBounded
<1>1. AuthInv => OverrunIsBounded
  BY DEF AuthInv
<1> QED
  BY <1>1, AuthIsSound, PTL

(* No request brings a deleted session back: those that start one draw a   *)
(* new token, and a touch updates rows that exist (store/sessions.go:55).  *)
THEOREM DeletedMeansDeleted == Spec => DeletedSessionsStayDeleted
<1>1. AuthInv /\ [Next]_vars => [\A k \in issued : sessions[k] = Nil => sessions'[k] = Nil]_vars
  <2> SUFFICES ASSUME AuthInv, Next, NEW k \in issued, sessions[k] = Nil
               PROVE  sessions'[k] = Nil
    OBVIOUS
  <2> USE DEF AuthInv
  <2>1. k \in Tokens /\ sessions \in [Tokens -> Session \cup {Nil}]
    BY DEF TypeOK
  <2>2. CASE Tick \/ Janitor
    BY <2>1, <2>2 DEF Tick, Janitor
  <2>3. ASSUME NEW p \in Procs, StartSession(p) PROVE sessions'[k] = Nil
    BY <2>1, <2>3 DEF StartSession
  <2>4. ASSUME NEW p \in Procs, Touch(p) PROVE sessions'[k] = Nil
    BY <2>1, <2>4 DEF Touch
  <2>5. ASSUME NEW p \in Procs, Expire(p) \/ Logout(p) \/ DeleteUserSessions(p)
        PROVE  sessions'[k] = Nil
    BY <2>1, <2>5 DEF Expire, Logout, DeleteUserSessions, DeleteSession
  <2>6. ASSUME NEW p \in Procs,
               \/ Login(p) \/ Lookup(p) \/ Reject(p) \/ AskForCode(p) \/ Accept(p)
               \/ Authenticate(p) \/ Read(p) \/ Refuse(p) \/ ChangePassword(p)
               \/ UpdateUserPassword(p) \/ SetupTOTP(p) \/ EnableTOTP(p) \/ Enforce(p)
               \/ DisableTOTP(p) \/ Strip(p)
        PROVE  sessions'[k] = Nil
    BY <2>6 DEF Login, Lookup, Reject, AskForCode, Accept, Authenticate, Read, Refuse,
                ChangePassword, Verified, UpdateUserPassword, SetupTOTP, EnableTOTP, Enforce,
                DisableTOTP, Strip
  <2> QED
    BY <2>2, <2>3, <2>4, <2>5, <2>6 DEF Next, LoginStep, SessionStep, AccountStep
<1> QED
  BY <1>1, AuthIsSound, PTL DEF Spec, DeletedSessionsStayDeleted
=============================================================================
