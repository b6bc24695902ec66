SPECIFICATION Spec
CONSTANTS
  Procs = {p1, p2}
  Tokens = {k1, k2}
  Secrets = {s1, s2}
  Keys = {ip}
  Operations <- EveryOperation
  Second = 2
  SessionIdle = 2
  SessionMax = 3
  MaxAttempts = 2
  Window = 1
  MaxTime = 4
  Nil = Nil
SYMMETRY Symmetry
INVARIANT AuthInv
INVARIANT SessionsEndInTime
INVARIANT PasswordChangeEndsSessions
INVARIANT EnforcedSecretIsConfirmed
INVARIANT OverrunIsBounded
PROPERTY DeletedSessionsStayDeleted
