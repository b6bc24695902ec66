------------------------------ MODULE TaskRuns ------------------------------
(***************************************************************************)
(* The life of a run: runTask / runRung, startRun and execRun of           *)
(* internal/tasks/engine.go against the tasks and task_runs tables         *)
(* (internal/store/tasks.go, migrations/0002_tasks.sql).                   *)
(*                                                                         *)
(* A run writes the store four times, each write a statement of its own:   *)
(* a history entry "running", the task's last_run and last_status, and,    *)
(* when the actions are over, the outcome of the entry and the status      *)
(* again.  Nothing keeps two runs of one task apart, the row may be        *)
(* deleted and saved again meanwhile, a write may fail (the error is only  *)
(* logged) and the process may end anywhere.  The catalogue is seen here   *)
(* as two sets, the stored and the cached tasks, that requests change at   *)
(* any time (TaskCatalog has their steps).  LastRun and LastStatus of the  *)
(* cached struct are written by runs but read by nothing, and left out.    *)
(***************************************************************************)
EXTENDS Naturals, FiniteSets

CONSTANTS Tasks,      \* task IDs
          Slots,      \* goroutines that execute runs (bounds the overlap)
          MaxRuns,    \* bound on the number of history entries ever written
          MaxTime,    \* bound on the clock, in seconds (time.Time.Unix)
          MaxFaults,  \* bound on the number of store writes that fail
          Nil

ASSUME BoundsAssumption == MaxRuns \in Nat /\ MaxTime \in Nat /\ MaxFaults \in Nat

RunIds == 1..MaxRuns

Outcomes == {"ok", "error"}
Entry == [task : Tasks, time : Nat, outcome : {"running"} \cup Outcomes]
Run == [task : Tasks, time : Nat, outcome : {"running"} \cup Outcomes, id : Nat]

ASSUME NilAssumption == Nil \notin Nat \cup Entry \cup Run

VARIABLES stored, cached,  \* tasks with a row; tasks in m.tasks
          lastRun,         \* tasks.last_run
          lastStatus,      \* tasks.last_status
          hist,            \* task_runs, by id
          lastId,          \* the AUTOINCREMENT counter of task_runs
          state, run,      \* progress and *store.TaskRun of each goroutine
          clock, up, faults,
          lostTasks,       \* history: status writes lost, see Exit and Fail
          lostRuns         \* history: outcome writes lost

catalog == <<stored, cached>>
status == <<lastRun, lastStatus>>
history == <<hist, lastId>>
lost == <<lostTasks, lostRuns>>
env == <<clock, up, faults>>
vars == <<stored, cached, lastRun, lastStatus, hist, lastId, state, run,
          clock, up, faults, lostTasks, lostRuns>>

RunStates == {"idle", "insert", "mark", "exec", "record", "finish"}

(* The run owns an entry that is not final yet; the status it wrote is     *)
(* not final yet.                                                          *)
Open(s) == state[s] \in {"mark", "exec", "record"}
Marked(s) == state[s] \in {"exec", "record", "finish"}

TypeOK == /\ stored \subseteq Tasks /\ cached \subseteq Tasks
          /\ lastRun \in [Tasks -> Nat \cup {Nil}]
          /\ lastStatus \in [Tasks -> {"none", "running"} \cup Outcomes]
          /\ hist \in [RunIds -> Entry \cup {Nil}]
          /\ lastId \in 0..MaxRuns
          /\ state \in [Slots -> RunStates]
          /\ run \in [Slots -> Run \cup {Nil}]
          /\ \A s \in Slots : state[s] # "idle" => run[s] # Nil
          /\ clock \in Nat /\ up \in BOOLEAN /\ faults \in Nat
          /\ lostTasks \subseteq Tasks /\ lostRuns \subseteq RunIds

Init == /\ stored \in SUBSET Tasks
        /\ cached = {}
        /\ lastRun = [t \in Tasks |-> Nil]
        /\ lastStatus = [t \in Tasks |-> "none"]
        /\ hist = [i \in RunIds |-> Nil]
        /\ lastId = 0
        /\ state = [s \in Slots |-> "idle"]
        /\ run = [s \in Slots |-> Nil]
        /\ clock = 0 /\ up = FALSE /\ faults = 0
        /\ lostTasks = {} /\ lostRuns = {}

Goto(s, next) == state' = [state EXCEPT ![s] = next]

(***************************************************************************)
(* The process and the clock                                               *)
(***************************************************************************)

(* Start loads every row into the cache; it repairs no status.             *)
Start == /\ ~up /\ up' = TRUE
         /\ cached' = stored
         /\ UNCHANGED <<stored, status, history, state, run, clock, faults, lost>>

(* Mutant: the goroutines of the runs outlive the process.                 *)
ExitLeavesRuns == /\ up /\ up' = FALSE
                  /\ cached' = {}
                  /\ run' = [s \in Slots |-> Nil]
                  /\ UNCHANGED <<stored, status, history, state, clock, faults, lost>>

(* The process ends, by a crash or because main returns: Stop stops cron   *)
(* but waits for no run.  What the runs still had to write is lost.        *)
Exit == /\ up /\ up' = FALSE
        /\ cached' = {}
        /\ state' = [s \in Slots |-> "idle"]
        /\ run' = [s \in Slots |-> Nil]
        /\ lostTasks' = lostTasks \cup {run[s].task : s \in {x \in Slots : Marked(x)}}
        /\ lostRuns' = lostRuns \cup ({run[s].id : s \in {x \in Slots : Open(x)}} \cap RunIds)
        /\ UNCHANGED <<stored, status, history, clock, faults>>

Tick == /\ clock < MaxTime /\ clock' = clock + 1
        /\ UNCHANGED <<catalog, status, history, state, run, up, faults, lost>>

(***************************************************************************)
(* What requests do to the catalogue                                       *)
(***************************************************************************)

(* The upsert leaves last_run and last_status of an existing row alone.    *)
SaveTask(t) == /\ up /\ t \notin stored
               /\ stored' = stored \cup {t}
               /\ UNCHANGED <<cached, status, history, state, run, env, lost>>

(* The entries of the task go with its row: ON DELETE CASCADE.             *)
DeleteTask(t) ==
  /\ up /\ t \in stored
  /\ stored' = stored \ {t}
  /\ lastRun' = [lastRun EXCEPT ![t] = Nil]
  /\ lastStatus' = [lastStatus EXCEPT ![t] = "none"]
  /\ hist' = [i \in RunIds |-> IF hist[i] # Nil /\ hist[i].task = t THEN Nil ELSE hist[i]]
  /\ lostTasks' = lostTasks \ {t}
  /\ UNCHANGED <<cached, lastId, state, run, env, lostRuns>>

CacheTask(t) == /\ up /\ t \notin cached /\ cached' = cached \cup {t}
                /\ UNCHANGED <<stored, status, history, state, run, env, lost>>

UncacheTask(t) == /\ t \in cached /\ cached' = cached \ {t}
                  /\ UNCHANGED <<stored, status, history, state, run, env, lost>>

(***************************************************************************)
(* A run                                                                   *)
(***************************************************************************)

(* runTask (Run now) or runRung (a cron job): a task that is not cached    *)
(* does not run.  startRun then takes the time of the run.                 *)
Begin(s, t) ==
  /\ up /\ state[s] = "idle" /\ t \in cached
  /\ run' = [run EXCEPT ![s] = [task |-> t, time |-> clock, outcome |-> "running", id |-> 0]]
  /\ Goto(s, "insert")
  /\ UNCHANGED <<catalog, status, history, env, lost>>

(* AUTOINCREMENT: an id is never given twice.                              *)
(* Mutant: a plain INTEGER PRIMARY KEY gives the largest id in use plus 1. *)
NextRowid == CHOOSE n \in 1..(MaxRuns + 1) :
  /\ \A i \in RunIds : hist[i] # Nil => i < n
  /\ n = 1 \/ hist[n - 1] # Nil
NextId == lastId + 1

(* AddTaskRun.  Without a row the foreign key refuses the entry; the run   *)
(* goes on with ID 0.  MaxRuns bounds the ids.                             *)
AddTaskRun(s) ==
  /\ state[s] = "insert"
  /\ IF run[s].task \in stored
       THEN /\ lastId < MaxRuns
            /\ lastId' = NextId
            /\ hist' = [hist EXCEPT ![lastId'] = [task |-> run[s].task,
                          time |-> run[s].time, outcome |-> "running"]]
            /\ run' = [run EXCEPT ![s].id = lastId']
       ELSE UNCHANGED <<history, run>>
  /\ Goto(s, "mark")
  /\ UNCHANGED <<catalog, status, env, lost>>

(* UPDATE tasks SET last_run, last_status: no row, no effect.              *)
UpdateTaskLastRun(t, time, st) ==
  IF t \in stored
    THEN /\ lastRun' = [lastRun EXCEPT ![t] = time]
         /\ lastStatus' = [lastStatus EXCEPT ![t] = st]
         /\ lostTasks' = lostTasks \ {t}
    ELSE UNCHANGED <<status, lostTasks>>

MarkRunning(s) ==
  /\ state[s] = "mark"
  /\ UpdateTaskLastRun(run[s].task, run[s].time, "running")
  /\ Goto(s, "exec")
  /\ UNCHANGED <<catalog, history, run, env, lostRuns>>

(* The rungs are evaluated and the actions executed (TaskLadder has the    *)
(* steps): the run is "error" when some action failed.                     *)
Execute(s) ==
  /\ state[s] = "exec"
  /\ \E o \in Outcomes : run' = [run EXCEPT ![s].outcome = o]
  /\ Goto(s, "record")
  /\ UNCHANGED <<catalog, status, history, env, lost>>

(* Mutant: a failed run returns before it writes its outcome.              *)
UpdateTaskRunIfOk(s) ==
  /\ state[s] = "record"
  /\ hist' = [i \in RunIds |-> IF i = run[s].id /\ hist[i] # Nil /\ run[s].outcome = "ok"
                THEN [hist[i] EXCEPT !.outcome = "ok"] ELSE hist[i]]
  /\ Goto(s, "finish")
  /\ UNCHANGED <<catalog, status, lastId, run, env, lost>>

(* UpdateTaskRun: UPDATE task_runs ... WHERE id = run.ID.                  *)
UpdateTaskRun(s) ==
  /\ state[s] = "record"
  /\ hist' = [i \in RunIds |-> IF i = run[s].id /\ hist[i] # Nil
                THEN [hist[i] EXCEPT !.outcome = run[s].outcome] ELSE hist[i]]
  /\ Goto(s, "finish")
  /\ UNCHANGED <<catalog, status, lastId, run, env, lost>>

(* Mutant: the status is written by runs that succeed only.                *)
FinishIfOk(s) ==
  /\ state[s] = "finish"
  /\ IF run[s].outcome = "ok" THEN UpdateTaskLastRun(run[s].task, run[s].time, "ok")
                              ELSE UNCHANGED <<status, lostTasks>>
  /\ Goto(s, "idle")
  /\ run' = [run EXCEPT ![s] = Nil]
  /\ UNCHANGED <<catalog, history, env, lostRuns>>

(* The last UpdateTaskLastRun of execRun.                                  *)
Finish(s) ==
  /\ state[s] = "finish"
  /\ UpdateTaskLastRun(run[s].task, run[s].time, run[s].outcome)
  /\ Goto(s, "idle")
  /\ run' = [run EXCEPT ![s] = Nil]
  /\ UNCHANGED <<catalog, history, env, lostRuns>>

(* The next write of the run fails: the error is logged, the run goes on.  *)
Fail(s) ==
  /\ faults < MaxFaults /\ faults' = faults + 1
  /\ \/ state[s] = "insert" /\ Goto(s, "mark") /\ UNCHANGED <<run, lost>>
     \/ state[s] = "mark" /\ Goto(s, "exec") /\ UNCHANGED <<run, lost>>
     \/ /\ state[s] = "record" /\ Goto(s, "finish")
        /\ lostRuns' = lostRuns \cup ({run[s].id} \cap RunIds)
        /\ UNCHANGED <<run, lostTasks>>
     \/ /\ state[s] = "finish" /\ Goto(s, "idle")
        /\ lostTasks' = lostTasks \cup {run[s].task}
        /\ run' = [run EXCEPT ![s] = Nil]
        /\ UNCHANGED lostRuns
  /\ UNCHANGED <<catalog, status, history, clock, up>>

Proceed(s) == \/ AddTaskRun(s) \/ MarkRunning(s) \/ Execute(s)
              \/ UpdateTaskRun(s) \/ Finish(s)

CatalogStep == \E t \in Tasks :
  SaveTask(t) \/ DeleteTask(t) \/ CacheTask(t) \/ UncacheTask(t)

Next == \/ Start \/ Exit \/ Tick \/ CatalogStep
        \/ \E s \in Slots : Proceed(s) \/ Fail(s) \/ \E t \in Tasks : Begin(s, t)

Spec == Init /\ [][Next]_vars

(* The goroutine of a run is scheduled, and the commands of a run end.     *)
Fairness == \A s \in Slots : WF_vars(Proceed(s))
FairSpec == Spec /\ Fairness

(***************************************************************************)
(* Properties                                                              *)
(***************************************************************************)

(* A task reads "running" only while a run of it is in progress, unless a  *)
(* write that should have replaced the status was lost with the process or *)
(* by a store error (startRun, execRun: engine.go:292, 378), whatever runs *)
(* overlap and however often the row is deleted and saved again.           *)
RunningTaskHasRun ==
  \A t \in Tasks : lastStatus[t] = "running" =>
    t \in lostTasks \/ \E s \in Slots : Marked(s) /\ run[s].task = t

(* A run finalizes its own history entry and no other: the id it got from  *)
(* AddTaskRun names the entry it wrote or, once the task is deleted, none, *)
(* and no two runs hold one id (engine.go:289, 375).                       *)
RunsOwnTheirEntries ==
  \A s \in Slots : Open(s) /\ run[s].id # 0 =>
    /\ hist[run[s].id] \in {Nil, [task |-> run[s].task, time |-> run[s].time, outcome |-> "running"]}
    /\ \A r \in Slots : Open(r) /\ run[r].id = run[s].id => r = s

(* An entry that reads "running..." has a run that will finalize it,       *)
(* unless the outcome was lost with the process or by a store error.       *)
RunningEntryHasRun ==
  \A i \in RunIds : hist[i] # Nil /\ hist[i].outcome = "running" =>
    i \in lostRuns \/ \E s \in Slots : Open(s) /\ run[s].id = i

(* "The run-history entry is finalized with the outcome ... when execution *)
(* completes" (engine.go:240-241): once, for good.  No later run, and no   *)
(* run of a task that was deleted and created again, rewrites an outcome.  *)
OutcomeIsFinal ==
  [][\A i \in RunIds : hist[i] # Nil /\ hist[i].outcome # "running" =>
       hist'[i] \in {Nil, hist[i]}]_vars

(* Every opened entry is finalized in the end, or deleted with its task,   *)
(* or its outcome is lost.                                                 *)
EntriesAreFinalized ==
  \A i \in RunIds : (hist[i] # Nil /\ hist[i].outcome = "running") ~>
    (hist[i] = Nil \/ hist[i].outcome # "running" \/ i \in lostRuns)

(* What makes the invariants above inductive: a task without a row has no  *)
(* status, ids are given in order, and an outcome is known once the        *)
(* actions are over.                                                       *)
NoStatusWithoutRow == \A t \in Tasks \ stored : lastStatus[t] = "none"

IdsAreGivenInOrder ==
  /\ \A i \in RunIds : hist[i] # Nil => i \leq lastId
  /\ \A s \in Slots : Open(s) => run[s].id \leq lastId
  /\ \A s \in Slots : state[s] = "insert" => run[s].id = 0

OutcomeIsKnown ==
  \A s \in Slots : state[s] \in {"record", "finish"} => run[s].outcome \in Outcomes

(* The inductive invariant: types, and how runs, entries and statuses hang *)
(* together (startRun and execRun against the two tables).                 *)
RunInv == /\ TypeOK
          /\ NoStatusWithoutRow
          /\ IdsAreGivenInOrder
          /\ OutcomeIsKnown
          /\ RunsOwnTheirEntries
          /\ RunningEntryHasRun
          /\ RunningTaskHasRun

(* The run history as its readers see it (handleTaskRuns), entry by entry. *)
EntryState(i) == IF i > lastId THEN "unused"
                 ELSE IF hist[i] = Nil THEN "deleted" ELSE hist[i].outcome

History == INSTANCE RunHistory WITH entry <- [i \in RunIds |-> EntryState(i)]

(* The four writes of every run, with whatever overlaps, fails or crashes, *)
(* implement the history that RunHistory specifies.                        *)
ImplementsHistory == History!Spec
=============================================================================
