-------------------------- MODULE MC_AuthSessions --------------------------
(* Instances of AuthSessions: two or three requests on one account.        *)
EXTENDS AuthSessions, TLC

EveryOperation == {"login", "read", "logout", "changePassword", "setup", "enable", "disable"}

Symmetry == Permutations(Procs) \cup Permutations(Tokens) \cup Permutations(Secrets)
=============================================================================
