-------------------------- MODULE TaskDefinitions --------------------------
(***************************************************************************)
(* What a task is made of and how its definition changes: Normalize,       *)
(* Validate and scheduleSpec of internal/tasks/model.go, the requests of   *)
(* engine.go and handlers_tasks.go that write definitions, the rows that   *)
(* earlier versions left behind, and the editor of the web UI, which saves *)
(* a whole definition that it loaded some time ago (Tasks.tsx).            *)
(*                                                                         *)
(* A request is one step here; TaskCatalog splits it.  A definition is     *)
(* reduced to what Normalize, Validate and the schedule tell apart.        *)
(***************************************************************************)
EXTENDS Startup, Sequences

CONSTANTS TaskIds, RungIds,
          Panels,        \* pages that show a task or edit it
          OldTasks,      \* definitions that earlier versions have stored
          EditedRungs,   \* the ladders an editor puts together
          SentTasks,     \* definitions that other clients of the API send
                         \* (other panels among them: a panel here meets all
                         \* that the daemon lets the others do)
          None

(* A trigger by type and, where it matters, value: an interval that is not *)
(* positive, one that time.ParseDuration cannot hold (about 292 years), an *)
(* expression that cron cannot parse, a type that there is not.            *)
Intervals == {"every", "never", "tooLong"}
Crons == {"cron", "badCron"}
Triggers == Intervals \cup Crons \cup {"manual", "unknown"}

(* "refs" are the rungs its rung contacts name; "sound" says that there is *)
(* an action and that every kind is known.                                 *)
Rung == [id : RungIds \cup {None}, match : {"all", "any", "unset", "unknown"},
         trigger : Triggers \cup {None}, refs : SUBSET (RungIds \cup {None}), sound : BOOLEAN]
Task == [named : BOOLEAN, enabled : BOOLEAN, legacy : Triggers \cup {None}, rungs : Seq(Rung)]

ASSUME DefinitionsAssumption ==
  /\ None \notin TaskIds \cup RungIds \cup Triggers \cup Task
  /\ EditedRungs \subseteq Seq(Rung) /\ OldTasks \subseteq Task /\ SentTasks \subseteq Task

VARIABLES row,     \* the tasks table
          cached,  \* m.tasks, from which the schedule is made
          page     \* per panel: the task, as it was last loaded, and the draft

taskVars == <<row, cached, page>>

TaskTypes ==
  /\ row \in [TaskIds -> Task \cup {None}]
  /\ cached \in [TaskIds -> Task \cup {None}]
  /\ page \in [Panels -> [task : TaskIds \cup {None},           \* selectedId
                          seen : [TaskIds -> Task \cup {None}], \* answers kept
                          draft : Task \cup {None},
                          new : TaskIds \cup {None}]]           \* newTaskId
  /\ \A p \in Panels : page[p].draft # None => page[p].task # None

TasksInit == /\ row \in [TaskIds -> (IF effects = {} THEN {} ELSE OldTasks) \cup {None}]
             /\ cached = [t \in TaskIds |-> None]
             /\ page = [p \in Panels |-> [task |-> None, seen |-> [t \in TaskIds |-> None],
                                          draft |-> None, new |-> None]]

(***************************************************************************)
(* Normalize, Validate, scheduleSpec                                       *)
(***************************************************************************)

Unnamed(d) == {i \in DOMAIN d.rungs : d.rungs[i].id = None}

(* The random IDs of newID are like none that the definition mentions.     *)
NewIds(d) ==
  {f \in [Unnamed(d) -> RungIds] :
     /\ \A i, j \in Unnamed(d) : f[i] = f[j] => i = j
     /\ \A i \in Unnamed(d) : \A j \in DOMAIN d.rungs :
          f[i] # d.rungs[j].id /\ f[i] \notin d.rungs[j].refs}

(* A legacy schedule of the task goes to the rungs that have none of their *)
(* own; a manual trigger is no trigger.                                    *)
NormalTrigger(trigger, legacy) ==
  LET own == IF trigger = None /\ legacy \in Intervals \cup Crons THEN legacy ELSE trigger
  IN IF own = "manual" THEN None ELSE own

Normalize(d, newIds) ==
  [d EXCEPT !.legacy = None,
     !.rungs = [i \in DOMAIN d.rungs |->
       [d.rungs[i] EXCEPT
          !.id = IF @ = None THEN newIds[i] ELSE @,
          !.match = IF @ = "unset" THEN "all" ELSE @,
          !.trigger = NormalTrigger(@, d.legacy)]]]

Ids(d) == {d.rungs[i].id : i \in DOMAIN d.rungs}

(* Mutant: the references of rung contacts are not looked up.              *)
ValidAlone(d) ==
  /\ d.named
  /\ \A i \in DOMAIN d.rungs :
       LET r == d.rungs[i]
       IN r.match \in {"all", "any"} /\ r.trigger \in {None, "every", "tooLong", "cron"} /\ r.sound

Valid(d) ==
  /\ d.named
  /\ \A i \in DOMAIN d.rungs :
       LET r == d.rungs[i]
       IN /\ r.match \in {"all", "any"}
          /\ r.trigger \in {None, "every", "tooLong", "cron"}
          /\ r.refs \subseteq Ids(d) \ {None}
          /\ r.sound

(* The rungs for which AddFunc registers a job: "@every <n>s" is parsed    *)
(* once more, and an interval too long for a Duration is only logged.      *)
Scheduled(d) ==
  IF d = None \/ ~d.enabled THEN {}
  ELSE {i \in DOMAIN d.rungs : d.rungs[i].trigger \in {"every", "cron"}}

(***************************************************************************)
(* The engine                                                              *)
(***************************************************************************)

(* Start: fromRow, a definition as it is stored.                           *)
LoadTasks == cached' = row /\ UNCHANGED <<row, page>>
ForgetTasks == cached' = [t \in TaskIds |-> None] /\ UNCHANGED <<row, page>>

(* Create, Update: the row is written whether or not there was one.        *)
Upsert(t, d) == /\ row' = [row EXCEPT ![t] = d]
                /\ cached' = [cached EXCEPT ![t] = d]

(* A definition that passes is stored; one that does not changes nothing.  *)
Stores(t, d) == \E newIds \in NewIds(d) :
                  Valid(Normalize(d, newIds)) /\ Upsert(t, Normalize(d, newIds))

Erase(t) == /\ row' = [row EXCEPT ![t] = None]
            /\ cached' = [cached EXCEPT ![t] = None]

Send == \E t \in TaskIds, d \in SentTasks : Stores(t, d) /\ UNCHANGED page
SendDelete == \E t \in TaskIds : Erase(t) /\ UNCHANGED page

WithEnabled(f, t, e) == [f EXCEPT ![t] = IF @ = None THEN None ELSE [@ EXCEPT !.enabled = e]]

(* Enable, disable, and the taskToggle action of a run.                    *)
SetTaskEnabled == /\ \E t \in TaskIds, e \in BOOLEAN :
                       row' = WithEnabled(row, t, e) /\ cached' = WithEnabled(cached, t, e)
                  /\ UNCHANGED page

(***************************************************************************)
(* The page                                                                *)
(***************************************************************************)

Show(p, v) == page' = [page EXCEPT ![p] = v]
Shown(p) == IF page[p].task = None THEN None ELSE page[p].seen[page[p].task]

(* A task without rungs opens in the editor when its data first arrive.    *)
Opens(v, d) == IF v.draft = None /\ d # None /\ d.rungs = <<>> THEN [v EXCEPT !.draft = d] ELSE v

(* "+ New" stores a disabled task without rungs and selects it.            *)
NewTask(p) ==
  \E t \in TaskIds :
    /\ row[t] = None /\ \A q \in Panels : page[q].task # t /\ page[q].seen[t] = None
    /\ Upsert(t, [named |-> TRUE, enabled |-> FALSE, legacy |-> None, rungs |-> <<>>])
    /\ Show(p, [page[p] EXCEPT !.task = t, !.new = t, !.draft = None])

(* Another task is selected: the draft is gone.  What the panel has seen   *)
(* of the task earlier is shown at once, unless it is too long ago.        *)
Select(p) == /\ \E t \in TaskIds : \E d \in {None, page[p].seen[t]} :
                  /\ page[p].task # t
                  /\ Show(p, Opens([page[p] EXCEPT !.task = t, !.seen[t] = d, !.draft = None], d))
             /\ UNCHANGED <<row, cached>>

(* GET /api/tasks/{id}, when the task is selected and after each request   *)
(* of the panel; the answer comes when it comes.                           *)
Load(p) ==
  /\ page[p].task # None /\ row[page[p].task] # None
  /\ LET d == row[page[p].task]
         v == [page[p] EXCEPT !.seen[page[p].task] = d]
     IN Show(p, IF Shown(p) = None THEN Opens(v, d) ELSE v)
  /\ UNCHANGED <<row, cached>>

(* "Edit" clones what the panel shows, which may be old by then.           *)
BeginEdit(p) == /\ Shown(p) # None /\ page[p].draft = None
                /\ Show(p, [page[p] EXCEPT !.draft = Shown(p)])
                /\ UNCHANGED <<row, cached>>

(* Name and rungs change; "enabled" and a legacy trigger stay in the draft. *)
Edit(p) == /\ page[p].draft # None
           /\ \E named \in BOOLEAN, rungs \in EditedRungs :
                Show(p, [page[p] EXCEPT !.draft.named = named, !.draft.rungs = rungs])
           /\ UNCHANGED <<row, cached>>

(* PUT of the whole draft; an error leaves the draft open.                 *)
Save(p) == /\ page[p].draft # None
           /\ Stores(page[p].task, page[p].draft)
           /\ Show(p, [page[p] EXCEPT !.draft = None, !.new = None])

CancelEdit(p) == /\ page[p].draft # None /\ page[p].new # page[p].task
                 /\ Show(p, [page[p] EXCEPT !.draft = None])
                 /\ UNCHANGED <<row, cached>>

(* "Delete", and "Cancel" for a task that this panel has created and not   *)
(* saved, whoever else may have saved it.                                  *)
Delete(p) == /\ Shown(p) # None
             /\ page[p].draft # None => page[p].new = page[p].task
             /\ Erase(page[p].task)
             /\ Show(p, [page[p] EXCEPT !.task = None, !.new = None, !.draft = None])

TaskRequest == \/ Send \/ SendDelete \/ SetTaskEnabled
               \/ \E p \in Panels : NewTask(p) \/ Load(p) \/ Save(p) \/ Delete(p)
TaskForm == \E p \in Panels : Select(p) \/ BeginEdit(p) \/ Edit(p) \/ CancelEdit(p)

(***************************************************************************)
(* Properties                                                              *)
(***************************************************************************)

(* What the schedule and the ladder take for granted of a definition:      *)
(* rungs can be named, refer to rungs of the task, and have schedules that *)
(* can be parsed; no schedule of the task as a whole is left.              *)
Sound(d) == /\ d.named /\ d.legacy = None
            /\ \A i \in DOMAIN d.rungs :
                 /\ d.rungs[i].id # None /\ d.rungs[i].match \in {"all", "any"}
                 /\ d.rungs[i].trigger \in {None, "every", "tooLong", "cron"}
                 /\ d.rungs[i].refs \subseteq Ids(d)

(* Every definition in the table is sound, or one that an earlier version  *)
(* has stored and nobody has saved since, whatever editors and clients     *)
(* send (engine.go:144-148, 166-168); and while the daemon serves, its     *)
(* schedule is the one a restart would make, which starts from the table.  *)
DefinitionsAreSound ==
  /\ \A t \in TaskIds : row[t] # None =>
       Sound(row[t]) \/ \E o \in OldTasks : row[t] = [o EXCEPT !.enabled = row[t].enabled]
  /\ Serving => \A t \in TaskIds : Scheduled(cached[t]) = Scheduled(row[t])
=============================================================================
