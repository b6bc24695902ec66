---------------------------- MODULE TaskCatalog ----------------------------
(***************************************************************************)
(* The task catalogue of the daemon: the tasks table, the engine's         *)
(* in-memory cache of *Task pointers, and the cron entries derived from it *)
(* (internal/tasks/engine.go, internal/store/tasks.go, and the taskToggle  *)
(* action of internal/tasks/executor.go).                                  *)
(*                                                                         *)
(* Every request is a sequence of steps: a SQL statement (one connection,  *)
(* so each statement is atomic), a section under m.mu, and the rebuild of  *)
(* the schedule, whose snapshot is taken under m.mu and installed later    *)
(* under m.schedMu.  The cache holds POINTERS: a rebuild reads t.Enabled   *)
(* through the pointers of its snapshot, and a toggle writes through the   *)
(* pointer it fetched, which another request may have replaced since.      *)
(***************************************************************************)
EXTENDS Naturals, FiniteSets

CONSTANTS Tasks,       \* task IDs
          Rungs,       \* rung IDs
          Ladders,     \* stored definitions, see LaddersAssumption
          Procs,       \* goroutines serving requests or executing toggles
          Background,  \* goroutines started by "go m.reschedule()"
          Objs,        \* addresses of Task structs (bounds live structs)
          Workload,    \* the kinds of request that arrive
          Nil

Requests == {"create", "update", "delete", "enable", "run", "toggle"}

(* A ladder is what the schedule depends on: for every rung ID, the number *)
(* of rungs that carry the ID and have a schedule (scheduleSpec is ok).    *)
(* Validate does not reject two rungs with one ID, so the number may       *)
(* exceed one; m.entries then remembers the last of their jobs only.       *)
ASSUME LaddersAssumption == Ladders \subseteq [Rungs -> Nat]
ASSUME NilAssumption == Nil \notin Tasks \cup Ladders \cup Objs \cup Procs \cup Background
ASSUME WorkloadAssumption == Workload \subseteq Requests
ASSUME ProcsAssumption == Procs \cap Background = {}

VARIABLES row,      \* tasks table: enabled column and data column
          cache,    \* m.tasks: task ID -> pointer
          heap,     \* the structs pointed to
          jobs,     \* jobs registered with cron, per rung
          entries,  \* m.entries: the rungs with a recorded cron EntryID
          strays,   \* history: the jobs that another rung with the same ID
                    \* took the place of in m.entries, read by no action
          schedMu,  \* holder of m.schedMu
          pc, req,  \* control state and arguments of each goroutine
          snap,     \* snapshot of a rebuild: pointers not yet scheduled
          up        \* the daemon runs and serves requests

store == <<row>>
memory == <<cache, heap>>
cron == <<jobs, entries, strays, schedMu>>
vars == <<row, cache, heap, jobs, entries, strays, schedMu, pc, req, snap, up>>

Actors == Procs \cup Background
Row == [enabled : BOOLEAN, ladder : Ladders]
Struct == [task : Tasks, enabled : BOOLEAN, ladder : Ladders]
ASSUME StructAssumption == Nil \notin Struct \cup Row
Request == [task : Tasks \cup {Nil}, enabled : BOOLEAN,
            ladder : Ladders \cup {Nil}, ptr : Objs \cup {Nil}]
NoRequest == [task |-> Nil, enabled |-> FALSE, ladder |-> Nil, ptr |-> Nil]

ServeStates == {"publish", "unpublish", "setCached", "load", "fill", "toggleStore",
                "togglePtr"}
ProcStates == ServeStates \cup {"idle", "snapshot", "lock", "install"}

TypeOK == /\ row \in [Tasks -> Row \cup {Nil}]
          /\ cache \in [Tasks -> Objs \cup {Nil}]
          /\ heap \in [Objs -> Struct \cup {Nil}]
          /\ jobs \in [Tasks -> [Rungs -> Nat]]
          /\ entries \in [Tasks -> SUBSET Rungs]
          /\ strays \in [Tasks -> [Rungs -> Nat]]
          /\ schedMu \in Actors \cup {Nil}
          /\ pc \in [Actors -> ProcStates]
          /\ \A b \in Background : pc[b] \notin ServeStates
          /\ req \in [Procs -> Request]
          /\ snap \in [Actors -> SUBSET Objs]
          /\ up \in BOOLEAN

(* A struct lives while the cache, a snapshot or a toggle points to it.    *)
Held == {cache[t] : t \in Tasks} \cup {req[p].ptr : p \in Procs}
          \cup (UNION {snap[a] : a \in Actors})
Collected(h) == [o \in Objs |-> IF o \in Held' THEN h[o] ELSE Nil]
Unused == {o \in Objs : heap[o] = Nil}

NoJobs == [t \in Tasks |-> [r \in Rungs |-> 0]]
Goto(a, state) == pc' = [pc EXCEPT ![a] = state]
Arrives(p, kind) == up /\ kind \in Workload /\ pc[p] = "idle"
Ask(p, t, e, l, o) ==
  req' = [req EXCEPT ![p] = [task |-> t, enabled |-> e, ladder |-> l, ptr |-> o]]
Answer(p) == Goto(p, "idle") /\ req' = [req EXCEPT ![p] = NoRequest]

(***************************************************************************)
(* Start, and the end of the process at any point                          *)
(***************************************************************************)

(* What the schedule of a task must be, given its definition.              *)
Due(enabled, ladder) == [r \in Rungs |-> IF enabled THEN ladder[r] ELSE 0]

(* m.entries[key] = entryID: of the jobs added for one key, the last.      *)
Recorded(due) == {r \in Rungs : due[r] > 0}
Replaced(due) == [r \in Rungs |-> IF r \in Recorded(due) THEN due[r] - 1 ELSE 0]

Init == /\ row \in [Tasks -> Row \cup {Nil}]
        /\ cache = [t \in Tasks |-> Nil]
        /\ heap = [o \in Objs |-> Nil]
        /\ jobs = NoJobs
        /\ entries = [t \in Tasks |-> {}]
        /\ strays = NoJobs
        /\ schedMu = Nil
        /\ pc = [a \in Actors |-> "idle"]
        /\ req = [p \in Procs |-> NoRequest]
        /\ snap = [a \in Actors |-> {}]
        /\ up = FALSE

(* Start: one goroutine, before the HTTP server and cron run.              *)
Start ==
  /\ ~up
  /\ \E at \in [Tasks -> Objs] :
       /\ \A s, t \in Tasks : at[s] = at[t] => s = t
       /\ cache' = [t \in Tasks |-> IF row[t] = Nil THEN Nil ELSE at[t]]
       /\ heap' = [o \in Objs |->
            IF \E t \in Tasks : row[t] # Nil /\ at[t] = o
              THEN LET t == CHOOSE t \in Tasks : at[t] = o
                   IN [task |-> t, enabled |-> row[t].enabled, ladder |-> row[t].ladder]
              ELSE Nil]
  /\ jobs' = [t \in Tasks |->
       IF row[t] = Nil THEN [r \in Rungs |-> 0] ELSE Due(row[t].enabled, row[t].ladder)]
  /\ entries' = [t \in Tasks |-> Recorded(jobs'[t])]
  /\ strays' = [t \in Tasks |-> Replaced(jobs'[t])]
  /\ up' = TRUE
  /\ UNCHANGED <<row, schedMu, pc, req, snap>>

(* The process ends: a crash, or main returning after Stop and Shutdown.   *)
Exit ==
  /\ up
  /\ up' = FALSE
  /\ cache' = [t \in Tasks |-> Nil]
  /\ heap' = [o \in Objs |-> Nil]
  /\ jobs' = NoJobs
  /\ entries' = [t \in Tasks |-> {}]
  /\ strays' = NoJobs
  /\ schedMu' = Nil
  /\ pc' = [a \in Actors |-> "idle"]
  /\ req' = [p \in Procs |-> NoRequest]
  /\ snap' = [a \in Actors |-> {}]
  /\ UNCHANGED row

(***************************************************************************)
(* Requests.  A request that Validate rejects, or whose statement fails,   *)
(* answers an error and changes nothing.                                   *)
(***************************************************************************)

(* INSERT ... ON CONFLICT DO UPDATE: the row exists afterwards either way. *)
SaveTask(p, t, e, l) ==
  /\ row' = [row EXCEPT ![t] = [enabled |-> e, ladder |-> l]]
  /\ Ask(p, t, e, l, Nil)
  /\ Goto(p, "publish")
  /\ UNCHANGED <<memory, cron, snap, up>>

(* Normalize gives a task without an ID a new one; a posted task may also  *)
(* carry the ID of a stored one, which it then replaces.                   *)
Create(p) ==
  /\ Arrives(p, "create")
  /\ \E t \in Tasks, e \in BOOLEAN, l \in Ladders : SaveTask(p, t, e, l)

(* Update ignores a failed GetTask: it upserts a task deleted meanwhile.   *)
Update(p) ==
  /\ Arrives(p, "update")
  /\ \E t \in Tasks, e \in BOOLEAN, l \in Ladders : SaveTask(p, t, e, l)

(* m.tasks[t.ID] = t, with a struct no other goroutine has seen.           *)
CacheStruct(q) ==
  \E o \in Unused :
    /\ cache' = [cache EXCEPT ![q.task] = o]
    /\ heap' = Collected([heap EXCEPT ![o] =
                 [task |-> q.task, enabled |-> q.enabled, ladder |-> q.ladder]])

Publish(p) ==
  /\ pc[p] = "publish"
  /\ Goto(p, "snapshot")
  /\ UNCHANGED <<store, cron, req, snap, up>>
  /\ CacheStruct(req[p])

Delete(p) ==
  /\ Arrives(p, "delete")
  /\ \E t \in Tasks :
       /\ row' = [row EXCEPT ![t] = Nil]
       /\ Ask(p, t, FALSE, Nil, Nil)
  /\ Goto(p, "unpublish")
  /\ UNCHANGED <<memory, cron, snap, up>>

(* Mutant: Delete returns without a rebuild.                               *)
UnpublishOnly(p) ==
  /\ pc[p] = "unpublish"
  /\ cache' = [cache EXCEPT ![req[p].task] = Nil]
  /\ Answer(p)
  /\ UNCHANGED <<store, cron, snap, up>>
  /\ heap' = Collected(heap)

(* delete(m.tasks, id)                                                     *)
Unpublish(p) ==
  /\ pc[p] = "unpublish"
  /\ cache' = [cache EXCEPT ![req[p].task] = Nil]
  /\ Goto(p, "snapshot")
  /\ UNCHANGED <<store, cron, req, snap, up>>
  /\ heap' = Collected(heap)

(* UPDATE tasks SET enabled: no error when there is no such row.           *)
StoreEnabled(t, e) ==
  row' = [row EXCEPT ![t] = IF @ = Nil THEN Nil ELSE [@ EXCEPT !.enabled = e]]

SetEnabled(p) ==
  /\ Arrives(p, "enable")
  /\ \E t \in Tasks, e \in BOOLEAN : StoreEnabled(t, e) /\ Ask(p, t, e, Nil, Nil)
  /\ Goto(p, "setCached")
  /\ UNCHANGED <<memory, cron, snap, up>>

(* Mutant: SetEnabled writes the row and leaves the cached struct alone.   *)
SetStoredOnly(p) ==
  /\ pc[p] = "setCached"
  /\ Goto(p, "snapshot")
  /\ UNCHANGED <<store, memory, cron, req, snap, up>>

(* The cached struct is changed in place: snapshots that hold it see it.   *)
SetCachedEnabled(p) ==
  /\ pc[p] = "setCached"
  /\ heap' = [o \in Objs |-> IF o = cache[req[p].task]
                               THEN [heap[o] EXCEPT !.enabled = req[p].enabled] ELSE heap[o]]
  /\ Goto(p, "snapshot")
  /\ UNCHANGED <<store, cache, cron, req, snap, up>>

(* RunNow looks the task up under m.mu: a hit does not touch the catalogue *)
(* (runTask is TaskRuns!RunNow), a miss loads the row.                     *)
RunNow(p) ==
  /\ Arrives(p, "run")
  /\ \E t \in Tasks : cache[t] = Nil /\ Ask(p, t, FALSE, Nil, Nil)
  /\ Goto(p, "load")
  /\ UNCHANGED <<store, memory, cron, snap, up>>

(* m.Get: without a row the request answers 404.                           *)
LoadRow(p) ==
  /\ pc[p] = "load"
  /\ LET t == req[p].task IN
       \/ row[t] = Nil /\ Answer(p)
       \/ row[t] # Nil /\ Ask(p, t, row[t].enabled, row[t].ladder, Nil) /\ Goto(p, "fill")
  /\ UNCHANGED <<store, memory, cron, snap, up>>

(* What was read is cached, whatever has been written or deleted since.    *)
FillCache(p) ==
  /\ pc[p] = "fill"
  /\ Answer(p)
  /\ UNCHANGED <<store, cron, snap, up>>
  /\ CacheStruct(req[p])

(***************************************************************************)
(* The taskToggle action of a run                                          *)
(***************************************************************************)

Toggling == {p \in Procs : pc[p] \in {"toggleStore", "togglePtr"}}

(* It fetches the pointer under m.mu; an absent task is an error result.   *)
(* Background bounds the toggles whose rebuild is not over: the guard      *)
(* keeps a goroutine for each of them, so that none ever waits for one.    *)
Toggle(p) ==
  /\ Arrives(p, "toggle")
  /\ Cardinality(Toggling) < Cardinality({b \in Background : pc[b] = "idle"})
  /\ \E t \in Tasks, e \in BOOLEAN : cache[t] # Nil /\ Ask(p, t, e, Nil, cache[t])
  /\ Goto(p, "toggleStore")
  /\ UNCHANGED <<store, memory, cron, snap, up>>

ToggleStore(p) ==
  /\ pc[p] = "toggleStore"
  /\ StoreEnabled(req[p].task, req[p].enabled)
  /\ Goto(p, "togglePtr")
  /\ UNCHANGED <<memory, cron, req, snap, up>>

(* Mutant: a toggle without go m.reschedule().                             *)
ToggleCachedOnly(p) ==
  /\ pc[p] = "togglePtr"
  /\ Answer(p)
  /\ UNCHANGED <<store, cache, cron, snap, up>>
  /\ heap' = Collected([heap EXCEPT ![req[p].ptr].enabled = req[p].enabled])

(* t.Enabled = enabled, through the pointer fetched before the statement;  *)
(* then go m.reschedule(): the rebuild runs when it runs.                  *)
ToggleCached(p) ==
  /\ pc[p] = "togglePtr"
  /\ \E b \in Background :
       /\ pc[b] = "idle"
       /\ pc' = [pc EXCEPT ![p] = "idle", ![b] = "snapshot"]
  /\ req' = [req EXCEPT ![p] = NoRequest]
  /\ UNCHANGED <<store, cache, cron, snap, up>>
  /\ heap' = Collected([heap EXCEPT ![req[p].ptr].enabled = req[p].enabled])

(***************************************************************************)
(* reschedule                                                              *)
(***************************************************************************)

(* Under m.mu: copy the pointers of the cache.                             *)
Snapshot(a) ==
  /\ pc[a] = "snapshot"
  /\ snap' = [snap EXCEPT ![a] = {cache[t] : t \in Tasks} \ {Nil}]
  /\ Goto(a, "lock")
  /\ UNCHANGED <<store, memory, cron, req, up>>

Removed == [t \in Tasks |-> [r \in Rungs |->
              IF r \in entries[t] THEN jobs[t][r] - 1 ELSE jobs[t][r]]]

(* Mutants: the map is not emptied; the rebuild does not lock m.schedMu.   *)
ClearJobsOnly(a) ==
  /\ pc[a] = "lock" /\ schedMu = Nil /\ schedMu' = a
  /\ jobs' = Removed
  /\ Goto(a, "install")
  /\ UNCHANGED <<store, memory, entries, strays, req, snap, up>>
ClearUnlocked(a) ==
  /\ pc[a] = "lock"
  /\ jobs' = Removed
  /\ entries' = [t \in Tasks |-> {}]
  /\ Goto(a, "install")
  /\ UNCHANGED <<store, memory, strays, schedMu, req, snap, up>>

(* Lock m.schedMu, remove every recorded job, start with an empty map.     *)
ClearEntries(a) ==
  /\ pc[a] = "lock" /\ schedMu = Nil
  /\ schedMu' = a
  /\ jobs' = Removed
  /\ entries' = [t \in Tasks |-> {}]
  /\ Goto(a, "install")
  /\ UNCHANGED <<store, memory, strays, req, snap, up>>

(* One task of the snapshot: t.Enabled is read through the pointer, now,   *)
(* without m.mu.  Each AddFunc adds a job; m.entries keeps one per key.    *)
ScheduleTask(a) ==
  /\ pc[a] = "install"
  /\ \E o \in snap[a] :
       LET t == heap[o].task
           due == Due(heap[o].enabled, heap[o].ladder)
       IN /\ jobs' = [jobs EXCEPT ![t] = [r \in Rungs |-> @[r] + due[r]]]
          /\ entries' = [entries EXCEPT ![t] = @ \cup Recorded(due)]
          /\ strays' = [strays EXCEPT ![t] = [r \in Rungs |-> @[r] + Replaced(due)[r]]]
          /\ snap' = [snap EXCEPT ![a] = @ \ {o}]
  /\ UNCHANGED <<store, cache, schedMu, pc, req, up>>
  /\ heap' = Collected(heap)

(* Mutant: m.schedMu is not unlocked.                                      *)
EndLocked(a) ==
  /\ pc[a] = "install" /\ snap[a] = {}
  /\ Goto(a, "idle")
  /\ req' = [p \in Procs |-> IF p = a THEN NoRequest ELSE req[p]]
  /\ UNCHANGED <<store, memory, cron, snap, up>>

(* Unlock m.schedMu; a request then answers, a background rebuild ends.    *)
Unlock(a) ==
  /\ pc[a] = "install" /\ snap[a] = {}
  /\ schedMu' = Nil
  /\ Goto(a, "idle")
  /\ req' = [p \in Procs |-> IF p = a THEN NoRequest ELSE req[p]]
  /\ UNCHANGED <<store, memory, jobs, entries, strays, snap, up>>

Accept(p) == Create(p) \/ Update(p) \/ Delete(p) \/ SetEnabled(p) \/ RunNow(p) \/ Toggle(p)
Serve(p) == \/ Publish(p) \/ Unpublish(p) \/ SetCachedEnabled(p) \/ LoadRow(p)
            \/ FillCache(p) \/ ToggleStore(p) \/ ToggleCached(p)
Rebuild(a) == Snapshot(a) \/ ClearEntries(a) \/ ScheduleTask(a) \/ Unlock(a)

Next == \/ Start \/ Exit
        \/ \E p \in Procs : Accept(p) \/ Serve(p)
        \/ \E a \in Actors : Rebuild(a)

Spec == Init /\ [][Next]_vars

(* Goroutines are scheduled, and Go mutexes are starvation free: a waiter  *)
(* gets m.schedMu after a bounded time even if it is taken again and again. *)
Fairness == /\ \A p \in Procs : WF_vars(Serve(p))
            /\ \A a \in Actors : SF_vars(Rebuild(a))
FairSpec == Spec /\ Fairness

(***************************************************************************)
(* Properties                                                              *)
(***************************************************************************)

AtRest == up /\ \A a \in Actors : pc[a] = "idle"

(* A job registered with cron is recorded in m.entries, so that the next   *)
(* rebuild can remove it (reschedule, engine.go:91-114), whatever requests *)
(* overlap.  The jobs that escape are those whose place in the map another *)
(* rung of the same task with the same ID took, and no others.             *)
JobsAreRecorded ==
  \A t \in Tasks : \A r \in Rungs :
    jobs[t][r] = strays[t][r] + IF r \in entries[t] THEN 1 ELSE 0

(* What makes it inductive: pointers in use point to a struct, and the one *)
(* of the cache to a struct of its task; a request knows its task; one     *)
(* rebuild installs at a time, and what is left of its snapshot are        *)
(* structs of distinct tasks that have no entry yet.                       *)
PointersAreLive ==
  /\ \A t \in Tasks : cache[t] # Nil => heap[cache[t]] # Nil /\ heap[cache[t]].task = t
  /\ \A a \in Actors : \A o \in snap[a] : heap[o] # Nil
  /\ \A p \in Procs : req[p].ptr # Nil => heap[req[p].ptr] # Nil
RequestsAreKnown ==
  \A p \in Procs :
    /\ pc[p] \in {"publish", "fill"} => req[p].ladder \in Ladders
    /\ pc[p] \in {"toggleStore", "togglePtr"} => req[p].ptr \in Objs
    /\ pc[p] \in ServeStates => req[p].task \in Tasks
SnapshotsAreDistinct ==
  \A a \in Actors : \A o, u \in snap[a] : heap[o].task = heap[u].task => o = u
OneRebuildInstalls == \A a \in Actors : pc[a] = "install" <=> schedMu = a
PendingTasksAreClear ==
  \A a \in Actors : pc[a] = "install" => \A o \in snap[a] : entries[heap[o].task] = {}
StoppedIsIdle == ~up => /\ \A a \in Actors : pc[a] = "idle" /\ snap[a] = {}
                        /\ \A p \in Procs : req[p].ptr = Nil

CatalogInv == /\ TypeOK /\ PointersAreLive /\ RequestsAreKnown /\ SnapshotsAreDistinct
              /\ OneRebuildInstalls /\ PendingTasksAreClear /\ StoppedIsIdle
              /\ JobsAreRecorded

(* When no request and no rebuild is in progress, the cache agrees with    *)
(* the tasks table: a write of the row and the write of the cache that     *)
(* belongs to it are two steps of every handler (engine.go:143-213).       *)
CacheFollowsStore ==
  AtRest => \A t \in Tasks :
    IF row[t] = Nil THEN cache[t] = Nil
    ELSE /\ cache[t] # Nil
         /\ heap[cache[t]] = [task |-> t, enabled |-> row[t].enabled, ladder |-> row[t].ladder]

(* When no request and no rebuild is in progress, cron holds one job for   *)
(* every scheduled rung ID of the enabled cached tasks, and else nothing   *)
(* but the strays, although a rebuild installs a snapshot taken earlier    *)
(* and does not hold m.mu (engine.go:78-116).                              *)
ScheduleFollowsCache ==
  AtRest => \A t \in Tasks : \A r \in Rungs :
    jobs[t][r] = strays[t][r] +
      IF cache[t] # Nil /\ r \in Recorded(Due(heap[cache[t]].enabled, heap[cache[t]].ladder))
        THEN 1 ELSE 0

(* The schedule only runs for enabled tasks (docs/task-editor.md:34): at   *)
(* rest, a rung with a cron job belongs to a stored, enabled task that     *)
(* schedules this rung.                                                    *)
OnlyEnabledTasksScheduled ==
  AtRest => \A t \in Tasks : \A r \in Rungs :
    jobs[t][r] > 0 => row[t] # Nil /\ row[t].enabled /\ row[t].ladder[r] > 0

(* Every request answers, whatever overlaps with it, unless the process    *)
(* ends: nobody waits for m.schedMu forever.                               *)
RequestsAnswer == \A p \in Procs : (pc[p] # "idle") ~> (pc[p] = "idle")

=============================================================================
