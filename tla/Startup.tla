------------------------------ MODULE Startup ------------------------------
(***************************************************************************)
(* The life of the process: main of cmd/cronpilotd from the opening of the *)
(* store to the orderly stop, with the migrations of internal/store, the   *)
(* first account of internal/server, and systemd, which starts the daemon  *)
(* again whenever it ends (Restart=always, deploy/cronpilot.service).      *)
(*                                                                         *)
(* The process may end between any two steps: a statement fails and main   *)
(* calls os.Exit(1), or it is killed.  The parts of the daemon that keep   *)
(* something in memory extend this module; Daemon puts them together.      *)
(***************************************************************************)
EXTENDS Integers

CONSTANT Migrations   \* the number of migration files, in the order of their names

ASSUME MigrationsAssumption == Migrations \in Nat \ {0}

Files == 1..Migrations

VARIABLES phase,      \* where main is
          effects,    \* the files whose statements the database holds
          recorded,   \* schema_migrations
          tx,         \* the transaction of one file: the steps done, Closed if none
          users,      \* the number of accounts
          announced,  \* history: the accounts named in the journal
          untold,     \* history: accounts whose process ended before it named them
          busy        \* a handler is in progress that may have no deadline,
                      \* such as one that waits for systemctl restart

disk == <<effects, recorded, users>>
startupVars == <<phase, effects, recorded, tx, users, announced, untold, busy>>

Closed == [file |-> 0, applied |-> FALSE, noted |-> FALSE]

StartupTypes ==
  /\ phase \in {"down", "migrate", "account", "announce", "engine", "serving", "stopping"}
  /\ effects \subseteq Files /\ recorded \subseteq Files
  /\ tx \in [file : Files \cup {0}, applied : BOOLEAN, noted : BOOLEAN]
  /\ users \in Nat /\ announced \in Nat /\ untold \in Nat
  /\ busy \in BOOLEAN

(* The database of any earlier version, or none.                           *)
StartupInit ==
  /\ phase = "down"
  /\ \E k \in 0..Migrations : effects = 1..k
  /\ recorded = effects
  /\ tx = Closed
  /\ users \in IF effects = {} THEN {0} ELSE {0, 1}
  /\ announced = users
  /\ untold = 0
  /\ busy = FALSE

(* systemd starts the process; the data directory and the store are opened. *)
Launch == /\ phase = "down"
          /\ phase' = "migrate"
          /\ UNCHANGED <<disk, tx, announced, untold, busy>>

Pending == Files \ recorded
FirstPending(f) == f \in Pending /\ \A g \in Pending : f \leq g

(* The first file, in order, without a row in schema_migrations.           *)
BeginFile == /\ phase = "migrate" /\ tx = Closed /\ Pending # {}
             /\ \E f \in Pending : FirstPending(f) /\ tx' = [Closed EXCEPT !.file = f]
             /\ UNCHANGED <<phase, disk, announced, untold, busy>>

(* Mutant: the statements of the file take effect outside the transaction. *)
ApplyAtOnce == /\ tx.file # 0 /\ ~tx.applied /\ tx.file \notin effects
               /\ tx' = [tx EXCEPT !.applied = TRUE]
               /\ effects' = effects \cup {tx.file}
               /\ UNCHANGED <<phase, recorded, users, announced, untold, busy>>

(* Its statements: CREATE TABLE fails (Die) when there is such a table.    *)
ApplyFile == /\ tx.file # 0 /\ ~tx.applied /\ tx.file \notin effects
             /\ tx' = [tx EXCEPT !.applied = TRUE]
             /\ UNCHANGED <<phase, disk, announced, untold, busy>>

RecordFile == /\ tx.applied /\ ~tx.noted
              /\ tx' = [tx EXCEPT !.noted = TRUE]
              /\ UNCHANGED <<phase, disk, announced, untold, busy>>

CommitFile == /\ tx.noted
              /\ effects' = effects \cup {tx.file}
              /\ recorded' = recorded \cup {tx.file}
              /\ tx' = Closed
              /\ UNCHANGED <<phase, users, announced, untold, busy>>

Migrated == /\ phase = "migrate" /\ tx = Closed /\ Pending = {}
            /\ phase' = "account"
            /\ UNCHANGED <<disk, tx, announced, untold, busy>>

(* EnsureAdmin: an account is created when there is none ...               *)
CountUsers == /\ phase = "account" /\ users > 0
              /\ phase' = "engine"
              /\ UNCHANGED <<disk, tx, announced, untold, busy>>

(* Mutant: the accounts are not counted.                                   *)
CreateAlways == /\ phase = "account"
                /\ users' = users + 1
                /\ phase' = "announce"
                /\ UNCHANGED <<effects, recorded, tx, announced, untold, busy>>

CreateUser == /\ phase = "account" /\ users = 0
              /\ users' = users + 1
              /\ phase' = "announce"
              /\ UNCHANGED <<effects, recorded, tx, announced, untold, busy>>

(* ... and then named in the journal, with its password if it was made up. *)
Announce == /\ phase = "announce"
            /\ announced' = announced + 1
            /\ phase' = "engine"
            /\ UNCHANGED <<disk, tx, untold, busy>>

(* taskMgr.Start, server.New, and the goroutine that listens.              *)
StartEngine == /\ phase = "engine"
               /\ phase' = "serving"
               /\ UNCHANGED <<disk, tx, announced, untold, busy>>

Serving == phase = "serving"

BeginHandler == /\ Serving /\ busy' = TRUE
                /\ UNCHANGED <<phase, disk, tx, announced, untold>>
EndHandler == /\ busy /\ busy' = FALSE
              /\ UNCHANGED <<phase, disk, tx, announced, untold>>

(* SIGINT or SIGTERM: the janitor and cron stop, the listener closes.      *)
Signal == /\ Serving
          /\ phase' = "stopping"
          /\ UNCHANGED <<disk, tx, announced, untold, busy>>

Gone == /\ phase' = "down" /\ tx' = Closed /\ busy' = FALSE
        /\ UNCHANGED <<disk, announced>>

(* Mutant: Shutdown waits for every handler.                               *)
GiveUpIdle == phase = "stopping" /\ ~busy /\ Gone /\ UNCHANGED untold

(* Shutdown returns when no handler is in progress, and after ten seconds; *)
(* it does not wait for streams and terminals, which it does not know.     *)
Drain == phase = "stopping" /\ ~busy /\ Gone /\ UNCHANGED untold
GiveUp == phase = "stopping" /\ Gone /\ UNCHANGED untold

(* A statement fails and main calls os.Exit(1), or the process is killed:  *)
(* SQLite forgets the transaction that was not committed.                  *)
Die == /\ phase # "down"
       /\ Gone
       /\ untold' = IF phase = "announce" THEN untold + 1 ELSE untold

Boot == \/ Launch \/ BeginFile \/ ApplyFile \/ RecordFile \/ CommitFile \/ Migrated
        \/ CountUsers \/ CreateUser \/ Announce
End == Drain \/ GiveUp \/ Die
Operate == BeginHandler \/ EndHandler \/ Signal

StartupNext == Boot \/ StartEngine \/ Operate \/ End
StartupSpec == StartupInit /\ [][StartupNext]_startupVars

(***************************************************************************)
(* Properties                                                              *)
(***************************************************************************)

(* Wherever the process died before, the database holds the statements of  *)
(* exactly the recorded files, those are the first ones, and nothing runs  *)
(* on a schema that is not whole (migrate, store.go:56-107).               *)
SchemaIsWhole == /\ effects = recorded
                 /\ \E k \in 0..Migrations : effects = 1..k
                 /\ phase \notin {"down", "migrate"} => effects = Files

(* One account is created, however often the first start is cut off, and   *)
(* it is named in the journal (docs/deploy.md:43) unless the process died  *)
(* between the two steps: then nobody knows its password.                  *)
OneAccount == /\ users \leq 1 /\ announced + untold \leq users
              /\ users > announced + untold <=> phase = "announce"
              /\ phase \in {"engine", "serving", "stopping"} => users = 1

(* What makes them inductive: a transaction is open only while migrating,  *)
(* and is about the first file that is missing.                            *)
TxIsNext == /\ tx # Closed => phase = "migrate" /\ FirstPending(tx.file)
            /\ tx.noted => tx.applied
            /\ tx.file = 0 => tx = Closed

StartupInv == StartupTypes /\ SchemaIsWhole /\ OneAccount /\ TxIsNext
=============================================================================
