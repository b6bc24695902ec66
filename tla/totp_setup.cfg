SPECIFICATION Spec
CONSTANTS
  Procs = {p1, p2}
  Tokens = {k1, k2}
  Secrets = {s1, s2}
  Keys = {ip}
  Operations = {"login", "setup", "enable", "disable"}
  Second = 2
  SessionIdle = 2
  SessionMax = 3
  MaxAttempts = 2
  Window = 1
  MaxTime = 1
  Nil = Nil
PROPERTY OnlyThePasswordEndsTOTP
