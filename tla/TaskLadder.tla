----------------------------- MODULE TaskLadder -----------------------------
(***************************************************************************)
(* The evaluation of a ladder: execRun of internal/tasks/engine.go with    *)
(* the contacts of signals.go and the actions of executor.go.              *)
(*                                                                         *)
(* A run walks the rungs top to bottom.  Every contact and every action is *)
(* a step of its own, between which other runs, administrators and the     *)
(* machine move on.  Services, processes and metrics are read once per run *)
(* and kept; flags, task states and the results of earlier passes are read *)
(* under m.mu at each contact.  The statements that TaskRuns describes     *)
(* surround these steps; a toggle is one step here, TaskCatalog splits it. *)
(***************************************************************************)
EXTENDS Naturals, Sequences, FiniteSetsExt, Functions

CONSTANTS Tasks, Flags,
          RungIds,    \* the rungs' IDs and what rung contacts name
          Sensors,    \* what is read from the machine: units, metrics, paths
          Levels,     \* the values a sensor can have
          Ladder,     \* task -> sequence of rungs
          Administered,  \* the tasks administrators switch and delete
          Scheduled,  \* the <<task, rung ID>> pairs with a schedule
          Slots,      \* goroutines that execute runs (bounds the overlap)
          Nil, Failed

TaskStates == {"enabled", "disabled", "absent"}

(* "want" is the set of values for which a contact is true: the state of a *)
(* unit, the side of a threshold, the minutes of a window.                 *)
Contact == [kind : {"service", "process", "metric", "time", "file", "flag", "taskState", "rung"},
            ref : Sensors \cup Flags \cup Tasks \cup RungIds,
            want : SUBSET (Levels \cup TaskStates), negate : BOOLEAN]

IsSequence(q) == Len(q) \in Nat /\ DOMAIN q = 1..Len(q)

ASSUME LadderAssumption ==
  /\ \A t \in Tasks :
       /\ IsSequence(Ladder[t])
       /\ \A i \in DOMAIN Ladder[t] : LET rung == Ladder[t][i] IN
            /\ rung.id \in RungIds /\ rung.match \in {"all", "any"}
            /\ rung.contacts \in Seq(Contact)
            /\ \A k \in DOMAIN rung.contacts :
                 rung.contacts[k].kind = "rung" => rung.contacts[k].ref \in RungIds
            /\ IsSequence(rung.actions) /\ Len(rung.actions) > 0
            /\ \A k \in DOMAIN rung.actions : rung.actions[k].value \in BOOLEAN
  /\ Scheduled \subseteq Tasks \X RungIds
  /\ \A p \in Scheduled : \E i \in DOMAIN Ladder[p[1]] : Ladder[p[1]][i].id = p[2]

VARIABLES world,          \* the machine: sensor -> level
          flags,          \* m.flags
          enabled,        \* m.tasks: the Enabled of each task
          lastEnergized,  \* m.lastEnergized, per task and rung ID
          state, run,     \* progress and locals of execRun, per goroutine
          succeeded,      \* history: the commands that have succeeded
          past            \* history, per goroutine: the results of other passes
                          \* that were in lastEnergized since its run began

vars == <<world, flags, enabled, lastEnergized, state, run, succeeded, past>>

(* Loaded at most once per run; a load that fails reads as nothing at all. *)
Probes == {"service", "process", "metric"}
Views == [Sensors -> Levels] \cup {Nil, Failed}

Run == [task : Tasks,
        only : RungIds \cup {Nil},      \* onlyRungID
        i : Nat, k : Nat,               \* rung, contact
        j : Nat,                        \* action; 0 until the rung is decided
        fired : SUBSET Nat,             \* the energized rungs, which the code counts
        energized : [RungIds -> BOOLEAN \cup {Nil}],
        view : [Probes \cup {"time"} -> Views],
        expired : BOOLEAN,              \* the five minutes of ctx are over
        ok : BOOLEAN,                   \* okAll
        results : Seq([rung : Nat, action : Nat, ok : BOOLEAN])]

ASSUME NilAssumption ==
  /\ Nil # Failed /\ Nil \notin RungIds /\ Nil \notin BOOLEAN /\ Nil \notin Run
  /\ Nil \notin [Sensors -> Levels] /\ Failed \notin [Sensors -> Levels]

TypeOK == /\ world \in [Sensors -> Levels]
          /\ flags \in [Flags -> BOOLEAN]
          /\ enabled \in [Tasks -> TaskStates]
          /\ lastEnergized \in [Tasks -> [RungIds -> BOOLEAN]]
          /\ state \in [Slots -> {"idle", "eval", "act", "commit"}]
          /\ run \in [Slots -> Run \cup {Nil}]
          /\ past \in [Slots -> SUBSET (RungIds \X BOOLEAN)]
          /\ \A s \in Slots :
               /\ run[s] = Nil <=> state[s] = "idle"
               /\ state[s] = "eval" => run[s].i \in DOMAIN Ladder[run[s].task]
               /\ state[s] = "act" =>
                    run[s].j \in DOMAIN Ladder[run[s].task][run[s].i].actions

Init == /\ world \in [Sensors -> Levels]
        /\ flags = [f \in Flags |-> FALSE]
        /\ enabled \in [Tasks -> TaskStates \ {"absent"}]
        /\ lastEnergized = [t \in Tasks |-> [r \in RungIds |-> FALSE]]
        /\ state = [s \in Slots |-> "idle"]
        /\ run = [s \in Slots |-> Nil]
        /\ succeeded = {}
        /\ past = [s \in Slots |-> {}]

(***************************************************************************)
(* The machine, the administrator, the process                             *)
(***************************************************************************)

Change == /\ \E x \in Sensors, l \in Levels : world' = [world EXCEPT ![x] = l]
          /\ UNCHANGED <<flags, enabled, lastEnergized, state, run, succeeded, past>>

Administer ==
  /\ \E t \in Administered, e \in TaskStates : enabled' = [enabled EXCEPT ![t] = e]
  /\ UNCHANGED <<world, flags, lastEnergized, state, run, succeeded, past>>

(* Everything but the tasks table is gone after a restart.                 *)
Restart == /\ flags' = [f \in Flags |-> FALSE]
           /\ lastEnergized' = [t \in Tasks |-> [r \in RungIds |-> FALSE]]
           /\ state' = [s \in Slots |-> "idle"]
           /\ run' = [s \in Slots |-> Nil]
           /\ past' = [s \in Slots |-> {}]
           /\ UNCHANGED <<world, enabled, succeeded>>

(***************************************************************************)
(* A run                                                                   *)
(***************************************************************************)

RungOf(s) == Ladder[run[s].task][run[s].i]

(* The next rung the run evaluates after rung i, if there is one.          *)
NextRungs(t, only, i) ==
  {n \in DOMAIN Ladder[t] : n > i /\ (only = Nil \/ Ladder[t][n].id = only)}

(* Mutant: the run goes on past its last rung.                             *)
AdvancePastEnd(s, r) ==
  LET more == NextRungs(r.task, r.only, r.i)
  IN /\ run' = [run EXCEPT ![s] = [r EXCEPT !.i = IF more = {} THEN @ + 1 ELSE Min(more),
                                           !.k = 1, !.j = 0]]
     /\ state' = [state EXCEPT ![s] = "eval"]

Advance(s, r) ==
  LET more == NextRungs(r.task, r.only, r.i)
  IN /\ run' = [run EXCEPT ![s] = IF more = {} THEN r
                                  ELSE [r EXCEPT !.i = Min(more), !.k = 1, !.j = 0]]
     /\ state' = [state EXCEPT ![s] = IF more = {} THEN "commit" ELSE "eval"]

(* The rungs on whose results rungs of the task depend.                    *)
Watched(t) ==
  {c.ref : c \in {d \in UNION {Range(Ladder[t][i].contacts) : i \in DOMAIN Ladder[t]} :
                    d.kind = "rung"}}

(* runTask (only = Nil) and runRung; time.Now() of newEvalContext.         *)
Begin(s, t, only) ==
  /\ state[s] = "idle" /\ enabled[t] # "absent"
  /\ only # Nil => NextRungs(t, only, 0) # {}
  /\ Advance(s, [task |-> t, only |-> only, i |-> 0, k |-> 1, j |-> 0, fired |-> {},
                 energized |-> [r \in RungIds |-> Nil],
                 view |-> [p \in Probes \cup {"time"} |->
                             IF p = "time" THEN world ELSE Nil],
                 expired |-> FALSE, ok |-> TRUE, results |-> <<>>])
  /\ past' = [past EXCEPT ![s] = {<<r, lastEnergized[t][r]>> : r \in Watched(t)}]
  /\ UNCHANGED <<world, flags, enabled, lastEnergized, succeeded>>

(* Cron fires a rung, whatever runs are in progress.  runRung does not ask *)
(* whether the task is enabled: a job that is left over fires as well.     *)
Fire(t, r) == \E s \in Slots : Begin(s, t, r)

Expire(s) == /\ state[s] # "idle" /\ ~run[s].expired
             /\ run' = [run EXCEPT ![s].expired = TRUE]
             /\ UNCHANGED <<world, flags, enabled, lastEnergized, state, succeeded, past>>

(* Mutant: every contact reads the machine again.                          *)
ReadAgain(s, kind) == {world, Failed}

(* loadServices, loadProcs, loadMetrics: what the run sees from now on.    *)
(* An expired ctx makes the listing of units and processes fail.           *)
Load(s, kind) ==
  IF run[s].view[kind] # Nil THEN {run[s].view[kind]}
  ELSE IF run[s].expired /\ kind # "metric" THEN {Failed}
  ELSE {world, Failed}

(* Mutant: the negation of a contact is ignored.                           *)
NeverNegated(s, c, v) ==
  CASE c.kind = "flag" -> flags[c.ref]
    [] c.kind = "taskState" -> enabled[c.ref] \in c.want
    [] c.kind = "rung" -> lastEnergized[run[s].task][c.ref]
    [] c.kind = "file" -> world[c.ref] \in c.want
    [] OTHER -> v # Failed /\ v[c.ref] \in c.want

(* contactTrue; v is the view of the run for the kinds that have one.      *)
ContactTrue(s, c, v) ==
  (CASE c.kind = "flag" -> flags[c.ref]
     [] c.kind = "taskState" -> enabled[c.ref] \in c.want
     [] c.kind = "rung" -> lastEnergized[run[s].task][c.ref]
     [] c.kind = "file" -> world[c.ref] \in c.want
     [] OTHER -> v # Failed /\ v[c.ref] \in c.want) # c.negate

(* Mutant: the result of a rung is visible to the rungs below it.          *)
SettleAtOnce(s, r, en) ==
  LET id == RungOf(s).id
      settled == [r EXCEPT !.energized[id] = en, !.j = 1, !.fired = IF en THEN @ \cup {r.i} ELSE @]
  IN /\ lastEnergized' = [lastEnergized EXCEPT ![r.task][id] = en]
     /\ IF en THEN /\ run' = [run EXCEPT ![s] = settled]
                   /\ state' = [state EXCEPT ![s] = "act"]
              ELSE Advance(s, settled)

(* The condition of the rung is known: execute its actions or go on.       *)
Settle(s, r, en) ==
  LET settled == [r EXCEPT !.energized[RungOf(s).id] = en, !.j = 1,
                           !.fired = IF en THEN @ \cup {r.i} ELSE @]
  IN /\ IF en THEN /\ run' = [run EXCEPT ![s] = settled]
                   /\ state' = [state EXCEPT ![s] = "act"]
              ELSE Advance(s, settled)
     /\ UNCHANGED lastEnergized

(* rungEnergized, one contact at a time: ALL stops at the first false one, *)
(* ANY at the first true one.                                              *)
Evaluate(s) ==
  /\ state[s] = "eval"
  /\ LET rung == RungOf(s)
         last == run[s].k = Len(rung.contacts)
     IN IF rung.contacts = <<>> THEN Settle(s, run[s], TRUE)
        ELSE LET c == rung.contacts[run[s].k]
             IN \E v \in IF c.kind \in Probes THEN Load(s, c.kind) ELSE {run[s].view["time"]} :
                  LET seen == IF c.kind \in Probes
                                THEN [run[s] EXCEPT !.view[c.kind] = v] ELSE run[s]
                      holds == ContactTrue(s, c, v)
                  IN IF last \/ holds = (rung.match = "any")
                       THEN Settle(s, seen, holds)
                       ELSE /\ run' = [run EXCEPT ![s] = [seen EXCEPT !.k = @ + 1]]
                            /\ UNCHANGED <<state, lastEnergized>>
  /\ UNCHANGED <<world, flags, enabled, succeeded, past>>

(* What an action may answer: commands and systemctl may fail, and fail    *)
(* for sure once ctx has expired; a toggle fails when the task is gone.    *)
Answers(s, a) ==
  CASE a.kind \in {"command", "service"} -> IF run[s].expired THEN {FALSE} ELSE BOOLEAN
    [] a.kind = "taskToggle" -> {enabled[a.ref] # "absent"}
    [] OTHER -> {TRUE}

(* Mutant: a failed action ends its rung.                                  *)
DidOrStop(s, ok) ==
  [run[s] EXCEPT !.ok = @ /\ ok, !.j = IF ok THEN @ ELSE Len(RungOf(s).actions),
     !.results = Append(@, [rung |-> run[s].i, action |-> run[s].j, ok |-> ok])]

Did(s, ok) == [run[s] EXCEPT !.ok = @ /\ ok,
                 !.results = Append(@, [rung |-> run[s].i, action |-> run[s].j, ok |-> ok])]

(* execAction; the actions after a failed one are executed all the same.   *)
Act(s) ==
  /\ state[s] = "act"
  /\ LET a == RungOf(s).actions[run[s].j] IN
     \E ok \in Answers(s, a) :
       /\ flags' = IF a.kind = "flag" THEN [flags EXCEPT ![a.ref] = a.value] ELSE flags
       /\ enabled' = IF a.kind = "taskToggle" /\ ok
            THEN [enabled EXCEPT ![a.ref] = IF a.value THEN "enabled" ELSE "disabled"]
            ELSE enabled
       /\ succeeded' = IF a.kind = "command" /\ ok THEN succeeded \cup {a.ref} ELSE succeeded
       /\ LET did == Did(s, ok)
          IN IF did.j < Len(RungOf(s).actions)
               THEN run' = [run EXCEPT ![s] = [did EXCEPT !.j = @ + 1]] /\ UNCHANGED state
               ELSE Advance(s, did)
  /\ UNCHANGED <<world, lastEnergized, past>>

(* The results of the pass become visible to rung contacts, all at once;   *)
(* the run then reports "ok" or "error" (TaskRuns).                        *)
Commit(s) ==
  /\ state[s] = "commit"
  /\ LET r == run[s] IN
     /\ lastEnergized' = [lastEnergized EXCEPT ![r.task] = [id \in RungIds |->
                            IF r.energized[id] = Nil THEN @[id] ELSE r.energized[id]]]
     /\ past' = [x \in Slots |->
          IF x = s THEN {}
          ELSE IF run[x] = Nil \/ run[x].task # r.task THEN past[x]
          ELSE past[x] \cup {<<id, r.energized[id]>> :
                              id \in {n \in Watched(r.task) : r.energized[n] # Nil}}]
  /\ state' = [state EXCEPT ![s] = "idle"]
  /\ run' = [run EXCEPT ![s] = Nil]
  /\ UNCHANGED <<world, flags, enabled, succeeded>>

Proceed(s) == Evaluate(s) \/ Act(s) \/ Commit(s)

Next == \/ Change \/ Administer \/ Restart
        \/ \E p \in Scheduled : Fire(p[1], p[2])
        \/ \E s \in Slots : \/ Proceed(s) \/ Expire(s)
                            \/ \E t \in Tasks : Begin(s, t, Nil)

Spec == Init /\ [][Next]_vars

(* Goroutines are scheduled, commands end, and cron keeps firing the rungs *)
(* of enabled tasks: a slot is found for a rung again and again, since the *)
(* slots are only a bound.                                                 *)
Fairness ==
  /\ \A s \in Slots : WF_vars(Proceed(s))
  /\ \A p \in Scheduled : SF_vars(enabled[p[1]] = "enabled" /\ Fire(p[1], p[2]))
FairSpec == Spec /\ Fairness

(***************************************************************************)
(* Properties.  Rungs are told apart by their position: Validate accepts a *)
(* ladder in which two of them have the same ID.                           *)
(***************************************************************************)

Due(r) == NextRungs(r.task, r.only, 0)
RungAt(r, n) == Ladder[r.task][n]
Decided(r, n) == n < r.i \/ (n = r.i /\ r.j > 0)
Energized(r, n) == n \in r.fired

(* "A run is marked error if any action fails; the rest of the actions     *)
(* still execute" (docs/task-editor.md:88), top to bottom and left to      *)
(* right: when the pass is over, its results are those of exactly the      *)
(* actions of the energized rungs, in order, and okAll says if one failed. *)
PassIsComplete ==
  \A s \in Slots : state[s] = "commit" =>
    LET r == run[s]
        due == UNION {{i} \X DOMAIN RungAt(r, i).actions : i \in r.fired}
    IN /\ {<<r.results[n].rung, r.results[n].action>> : n \in DOMAIN r.results} = due
       /\ \A m, n \in DOMAIN r.results : m < n =>
            \/ r.results[m].rung < r.results[n].rung
            \/ r.results[m].rung = r.results[n].rung /\ r.results[m].action < r.results[n].action
       /\ r.ok = \A n \in DOMAIN r.results : r.results[n].ok

(* One pass sees one state of the machine, however long its actions take:  *)
(* of two rungs on one metric, the one with the stricter threshold never   *)
(* fires without the other ("at 97 % CPU both fire, at 85 % only the first *)
(* does", docs/task-editor.md:164; evalContext, signals.go:16).            *)
OneReadingPerPass ==
  \A s \in Slots : run[s] # Nil =>
    \A i, n \in Due(run[s]) :
      LET ci == RungAt(run[s], i).contacts
          cn == RungAt(run[s], n).contacts
      IN (/\ Decided(run[s], i) /\ Decided(run[s], n)
          /\ Len(ci) = 1 /\ Len(cn) = 1
          /\ ci[1].kind = "metric" /\ cn[1].kind = "metric" /\ ci[1].ref = cn[1].ref
          /\ ~ci[1].negate /\ ~cn[1].negate /\ cn[1].want \subseteq ci[1].want)
         => (Energized(run[s], n) => Energized(run[s], i))

(* "rung contacts observe the previous evaluation rather than this pass's  *)
(* earlier rungs" (engine.go:337): a rung on the result of a rung, its own *)
(* or one above it included, is decided by a result that was there when    *)
(* the pass began, or that another pass over the task, one that overlaps   *)
(* with it, has left since.                                                *)
RungContactsSeeThePreviousPass ==
  \A s \in Slots : run[s] # Nil =>
    \A n \in Due(run[s]) :
      LET c == RungAt(run[s], n).contacts
      IN Decided(run[s], n) /\ Len(c) = 1 /\ c[1].kind = "rung" =>
           \E v \in BOOLEAN : /\ <<c[1].ref, v>> \in past[s]
                             /\ Energized(run[s], n) <=> (v # c[1].negate)

(* What the properties rest on: r is what a run knows in state st.  The    *)
(* rungs above the run's are decided, those below are not.                 *)
InOrder(st, r) ==
  /\ IF st = "commit" THEN r.i \in Due(r) \cup {0} /\ NextRungs(r.task, r.only, r.i) = {}
                      ELSE r.i \in Due(r)
  /\ \A n \in Due(r) : Decided(r, n) <=> (n < r.i \/ (n = r.i /\ st # "eval"))
  /\ \A n \in r.fired : n \in Due(r) /\ Decided(r, n)
  /\ st = "act" => Energized(r, r.i) /\ r.j \in DOMAIN RungAt(r, r.i).actions
  /\ st = "eval" /\ RungAt(r, r.i).contacts # <<>> => r.k \in DOMAIN RungAt(r, r.i).contacts

(* What has been executed is what was energized, up to where the run is.   *)
Executed(st, r, n, a) ==
  /\ n \in Due(r) /\ a \in DOMAIN RungAt(r, n).actions /\ Energized(r, n)
  /\ n < r.i \/ (n = r.i /\ (st = "act" => a < r.j))
Before(x, y) == x.rung < y.rung \/ (x.rung = y.rung /\ x.action < y.action)
Reported(st, r) ==
  /\ \A m \in DOMAIN r.results : Executed(st, r, r.results[m].rung, r.results[m].action)
  /\ \A n \in Due(r) : \A a \in DOMAIN RungAt(r, n).actions : Executed(st, r, n, a) =>
       \E m \in DOMAIN r.results : r.results[m].rung = n /\ r.results[m].action = a
  /\ \A m, n \in DOMAIN r.results : m < n => Before(r.results[m], r.results[n])
  /\ r.ok <=> \A m \in DOMAIN r.results : r.results[m].ok

(* A rung on one metric is decided by the reading that the run keeps.      *)
DecidedByReading(r) ==
  \A n \in Due(r) : LET c == RungAt(r, n).contacts
                        v == r.view["metric"] IN
    Decided(r, n) /\ Len(c) = 1 /\ c[1].kind = "metric" /\ ~c[1].negate =>
      v # Nil /\ (Energized(r, n) <=> (v # Failed /\ v[c[1].ref] \in c[1].want))

(* A rung on the result of a rung is decided by one that p has.            *)
DecidedByPast(r, p) ==
  \A n \in Due(r) : LET c == RungAt(r, n).contacts IN
    Decided(r, n) /\ Len(c) = 1 /\ c[1].kind = "rung" =>
      \E v \in BOOLEAN : <<c[1].ref, v>> \in p /\ (Energized(r, n) <=> (v # c[1].negate))

RunsInv ==
  /\ TypeOK
  /\ \A s \in Slots : state[s] # "idle" =>
       InOrder(state[s], run[s]) /\ Reported(state[s], run[s]) /\ DecidedByReading(run[s])

PastInv ==
  \A s \in Slots : state[s] # "idle" =>
    /\ DecidedByPast(run[s], past[s])
    /\ \A id \in Watched(run[s].task) : <<id, lastEnergized[run[s].task][id]>> \in past[s]

(* The inductive invariant, with the types.                                *)
LadderInv == RunsInv /\ PastInv
=============================================================================
