# CronPilot, modelled in TLA+

CronPilot is one Go daemon (`cmd/cronpilotd`) with an embedded web UI: a task
engine that runs ladder programs on a schedule, a browser terminal, service and
process management, system metrics, password and TOTP login, and a self-update.
This directory holds TLA+ modules of its stateful parts, the TLC configurations
that check them, and proofs that TLAPS checks. Paths below are relative to the
repository.

## Inventory

| Component | State | Operations | Talks to |
|---|---|---|---|
| Task catalogue and schedule (`internal/tasks/engine.go`) | `tasks` table, `m.tasks` cache of pointers, `m.entries`, cron | Start, Create, Update, Delete, SetEnabled, RunNow, `taskToggle`, reschedule | store, cron |
| Runs (`engine.go`, `store/tasks.go`) | `task_runs`, `last_run`, `last_status` | startRun, execRun | store, ladder |
| Ladder (`signals.go`, `executor.go`) | `m.flags`, `m.lastEnergized` | contacts, actions | machine, catalogue |
| Task model (`model.go`) and its editor (`Tasks.tsx`, `taskEditor.ts`) | stored definitions, also of earlier versions; per panel the selection, what it has loaded, a draft | Normalize, Validate, scheduleSpec; select, edit, save, delete | catalogue |
| Store, migrations (`internal/store`) | SQLite, one connection | Open, migrate, statements | everything |
| Auth (`internal/auth`, `handlers_auth.go`) | users, sessions, attempts, TOTP secret | Login, Authenticate, Logout, ChangePassword, Setup/Enable/DisableTOTP, janitor | store |
| Terminal (`handlers_terminal.go`, `internal/terminal`) | tickets, live shells, ring, subscriber | open, ws, pump, attach, detach, close | auth (logout) |
| Self-update (`internal/update`, `handlers_update.go`, `UpdatePanel.tsx`) | progress record; panel state | check, apply, progress | systemd |
| Unit files (`internal/services`) | the file, what systemd has loaded | PUT: write or install, reload | systemd |
| Process list, metrics (`internal/processes`, `internal/system`) | the previous readings, one sampler per daemon or per stream | List; NewSampler, Sample | machine |
| Other service and process commands, settings, config | none | wrappers around the machine | machine |
| main, systemd (`cmd/cronpilotd`, `deploy/cronpilot.service`) | the phase of the process, the first account | migrate, create the account, start the engine, serve, signal, shutdown, restart | everything |
| routes, audit | none | | requests |
| Web UI | form state | requests | server |

Every request is served by a goroutine of its own. The engine holds `m.mu` for
single map accesses only and `m.schedMu` while it rebuilds the schedule; SQL
statements are atomic one by one (one connection) and nothing spans two of them
but a migration file.

### What is hard

* A task lives in three places (row, cache, cron entries) that are written one
  after the other, by requests and by running tasks, without a common lock.
* Runs overlap without limit, write the store four times each, and may outlive
  their task or be cut off by the end of the process.
* A pass acts on what it read before a slow action.
* Sessions, tickets, shells and updates are checked, then used, with other
  requests in between.
* The process may end between any two statements, the first start included, and
  Shutdown may wait for a handler that has no deadline.
* Editors save whole definitions that they loaded long ago; earlier versions
  have stored definitions that this one would not accept.
* Saves of a unit file overlap without a lock and are not atomic; samples divide
  differences of readings by differences of times taken elsewhere.

### What makes each part correct

* Catalogue: at rest, cache = table and cron = the scheduled rungs of the
  enabled cached tasks; no cron job is missing from `m.entries` but those whose
  place a rung with the same ID took; every request answers.
* Runs: "running" means a run is in progress (or its end was lost); an outcome
  is written once, to the run's own entry; the history is append-only.
* Ladder: one reading of the machine per pass, rung contacts see the previous
  pass, every action of an energized rung executes, errors are reported.
* Auth: a session that was logged out, purged or revoked never comes back, none
  outlives its limits, a password change leaves none of the sessions before it;
  a bucket of the limiter is overrun by the attempts in progress at most; a
  second factor is enforced only for a secret that was confirmed.
* Terminal: no shell is out of reach while it runs, the newest connection is the
  one served, a re-attach misses and repeats nothing, the end of a shell is
  told.
* Update: one update at a time, the executable on disk is always a whole
  release and the announced one, downloads do not pile up, a panel
  that follows an update settles.
* Process: the database holds the statements of exactly the recorded migrations,
  nothing serves on a schema that is not whole, there is one account, named in
  the journal if the process lived to name it; left alone the daemon comes
  to serve and stays so, and a signal ends it.
* Definitions: what is stored can be scheduled and evaluated, or is as an
  earlier version left it; the schedule is the one a restart would make.
* Unit files: what a save reports as done is in effect, unless another save has
  written the file meanwhile.
* Samples: what the samples of a stream report adds up to what the machine did,
  and overlapping process lists report no time twice.

## Modules

| Module | Models | Role |
|---|---|---|
| `TaskCatalog` | `engine.go` Start, Create, Update, Delete, SetEnabled, RunNow, `reschedule`; `taskToggle` of `executor.go`; statements of `store/tasks.go` | component |
| `TaskRuns` | `startRun`, `execRun` and the statements on `tasks` and `task_runs` | component |
| `RunHistory` | what the run history promises | abstract specification, implemented by `TaskRuns` |
| `TaskLadder` | `execRun`, `signals.go`, `executor.go`: contacts and actions | component |
| `AuthSessions` | `internal/auth`, `handlers_auth.go`, janitor of `cmd/cronpilotd` | component |
| `TerminalHub` | `handlers_terminal.go`, `internal/terminal` | component |
| `TerminalTab` | `Terminal.tsx`, `terminalSession.ts` | composition: `TerminalHub` with the browser |
| `SelfUpdate` | `internal/update`, `handlers_update.go`, `UpdatePanel.tsx` | component with its client |
| `Startup` | `main`, `migrate`, `EnsureAdmin`, `Restart=always` | component: the life of the process |
| `TaskDefinitions` | `model.go`, the requests that write definitions, the editor of `Tasks.tsx` | component, extends `Startup` |
| `UnitFiles` | `WriteUnitFile`, `writeViaRoot`, `Reload`, the PUT handler | component, extends `Startup` |
| `Samplers` | the two `Sampler`s of `internal/system` and `internal/processes` with their handlers | component, extends `Startup` |
| `Daemon` | the four of them | composition |
| `MC_*` | ladders of the docs, workloads, symmetry sets | instances for TLC |
| `TaskCatalogProofs`, `TaskCatalogTurnsProofs`, `TaskRunsProofs`, `TaskLadderProofs`, `AuthSessionsProofs`, `TerminalTabProofs`, `SelfUpdateProofs`, `DaemonProofs` | | theorems |

In each module a handler that the code interleaves is a chain of actions, one
for each SQL statement, each section under a lock and each slow operation; the
control state of the goroutine (`pc`, `state`, `view`, `phase`) names the next
one. A comment that begins with "Mutant" marks a form the code does *not* have:
it is used nowhere in a specification and serves to show that a property can
fail.

**TaskCatalog.** `row` is the table, `cache` the map of pointers, `heap` the
structs they point to, `jobs` what cron runs, `entries` what `m.entries`
records. The structs matter: a rebuild reads `t.Enabled` through the pointers
of its snapshot while it installs, and `taskToggle` writes through the pointer
it fetched, which an update may have replaced. `Collected` frees a struct that
nobody points to, so that `Objs` bounds live structs only. A ladder is reduced
to the number of scheduled rungs per rung ID, which is all the schedule depends
on. `Validate` collects the IDs of a ladder in a set (`model.go:151-157`) and so
accepts two rungs with one ID; both get a cron job and the second takes the
place of the first in `m.entries`. `strays` is a history variable: the jobs that
escaped in this way, of which the next rebuild knows nothing. `Create` takes
any ID, since Normalize makes one up only if there is none. `RunNow` is a look
into the cache, on a miss a read of the row, and a write of the cache.
`Exit` is both an orderly stop and a crash: nothing but the table survives.

**TaskRuns.** The four writes of a run, each of which may fail and is then only
logged, while `stored` and `cached` change under it. `lostTasks` and
`lostRuns` are history variables: what a crash or a failed write left behind.
The entries' ids come from `AUTOINCREMENT` and are never given again.

**TaskLadder.** Ladders are constants, any that Validate accepts: what a run has
decided (`fired`) is kept by the position of a rung, what the engine keeps for
the next pass by its ID, like the code. `past` is a history variable: the
results of the rungs of the task that were in `lastEnergized` when the run
began, and those that other, overlapping runs of the task have committed since.
`Load` reads a sensor once per pass, `Evaluate` decides a contact, `Act`
performs an action with its effect on flags and tasks, `Commit` ends the pass.
`Fire` does not ask whether the task is enabled, nor does `runRung`. The
five-minute context may expire anywhere: commands then fail at once, later rungs
are evaluated all the same. A probe that fails reads as "nothing there".

**AuthSessions.** Hashes and codes are right or wrong by choice; what matters is
the row they were compared with. Time is in ticks, `Second` ticks to a second,
because the store keeps whole seconds. `before` and `confirmed` are history
variables. The first expiry of a session is not capped by the absolute maximum,
later ones are: a session lives for `MaxLife` at most, which is the larger of
the two limits, and nothing is assumed about which one that is.

**TerminalHub / TerminalTab.** Output is a series of numbered chunks. `ring`,
`queue` and `replay` have their bounds; the pump appends and forwards in one
section under `lt.mu`, attach copies the ring and subscribes in another. A
connection that was left by its page still has a handler and a writer. An
upgrade that fails (`UpgradeFails`) uses the ticket up.

**SelfUpdate.** The request resolves a release before `begin`; the goroutine
then works on a record of its own. A crash loses the record and keeps the disk.
Panels poll, miss answers, reload and are closed; the page that waits for the
daemon takes any answer of `/api/health`, the old process's included, since
only its delay of 2.5 s says otherwise.

**Daemon.** `phase` is where `main` is. `Startup` splits the start into the
steps between which the process may end (`Die`): a transaction `tx` for each
migration file, the count of accounts, the insertion, the line in the journal,
the engine. `announced` and `untold` are history variables. A handler that
waits for another program is `busy`. Everything else the daemon does happens
while it is `serving` or `stopping`, so the other three modules extend
`Startup`, and `Daemon` puts their steps side by side; the end of the process
(`Forget`) empties the cache of tasks, the samplers and the requests in
progress, and leaves the tables, the pages, the files and systemd alone.

**TaskDefinitions.** Here a request is one step (`TaskCatalog` splits it) and a
definition has content: rungs with IDs, match, trigger and references. `Stores`
is Normalize, Validate, the row and the cached struct. A panel shows answers it
got at some time (`seen`), opens a `draft` of one, and saves the whole draft
whatever happened since. IDs that Normalize makes are new by choice (`NewIds`).

**UnitFiles.** A save writes in place (truncated, then written) or has root
install a copy; then it may reload. The texts are the numbers of the saves.
`met` is a history variable: another save has written the file since.

**Samplers.** In a tick the one core of the machine is busy or not and a byte
arrives or not; readings are cumulative and may fail. `told` sums up what a
stream has reported, `counted` what the process lists have. A `List` call notes
the time, waits for the mutex and reads with it (`BeginList`, `ReadList`,
`EndList`); what it divides by is of no account here.

## Runs

Every run takes the specification as it is: the configurations give constants
their values and replace no definition.

| Run | Bounds | What it shows |
|---|---|---|
| `catalog` | a behaviour is of one `mix`: `serial`, 2 tasks, 1 rung, 1 request at a time; `switching`, 1 task, 2 requests that switch, 2 background rebuilds, ladders with no, one or two scheduled rungs of one ID; `any`, 1 task, 2 requests of any kind, 1 background rebuild; `repeating`, 1 task whose rungs have one ID, 2 requests; no request arrives while there are `MaxStrays` = 2 strays of a rung | `CacheFollowsStoreInTurn` (serial): requests, crashes and restarts in any order keep cache and table in step; `ScheduleFollowsSwitches` (serial and switching): without create, update and delete, the pointers in a snapshot make an old snapshot as good as a new one; `JobsAreRecorded`, `CatalogInv`, and `RequestsAnswer` under fairness |
| `catalog_stale_snapshot` | 1 task, 2 updates | violation, see below |
| `runs_life` | 1 task, 2 overlapping runs, 2 entries, 1 failing write | the invariants of runs and history, `OutcomeIsFinal`, the refinement of `RunHistory`, `EntriesAreFinalized` under fairness |
| `ladder` | a behaviour has one `scene`: example 6 or 2 rungs with every kind of probe and action, 3 levels, one run at a time; example 7 of `docs/task-editor.md`, 2 overlapping passes; or (`relay`) 3 rungs, two of them with one ID, where the second follows the result of the first and the third negates that of the second ID, its own, with whole passes and single rungs in 2 overlapping runs | `LadderInv`, `PassIsComplete`, `OneReadingPerPass`, `RungContactsSeeThePreviousPass`; `MaintenancePauses` (example 7) under fairness |
| `ladder_chain` | example 4 of `docs/task-editor.md` | violation, see below |
| `auth_sessions` | 2 requests of any kind, 2 tokens, 2 secrets, times 0 to 4 at 2 ticks a second | `AuthInv` and its parts that say something of sessions, limiter and second factor; `DeletedSessionsStayDeleted` |
| `totp_setup` | 2 requests that log in, set up, enable and disable | violation, see below |
| `terminal_tabs` | 1 tab, 2 shells, 2 connections, 2 tickets, 2 chunks, buffers of 1 | `TabInv` and its parts that say something of registry and stream |
| `terminal_exit` | 1 tab, 1 shell, 1 connection, 1 chunk | violation, see below |
| `daemon` | a behaviour has one `focus`, the part that is exercised while the process comes and goes: 3 migrations; 1 task, 1 panel and other clients, 2 rung IDs, 4 ladders of the editor, 4 definitions of other clients, 3 old ones; 2 editors, 3 saves; 2 streams or 2 List calls, times 0 to 2 | `DaemonInv`, `DefinitionsAreSound`, `SavedIsInEffect`, `SamplesAddUp`; `Recovers` and `Stops` under fairness |
| `self_update` | 2 panels, 2 new releases, 2 crashes, 3 temporary files | `UpdateInv` and its parts |
| `update_missed` | 1 panel, 1 release, no crash | violation, see below |

Why the bounds are enough to be interesting: two overlapping requests are what
every race in this code takes (a stale value needs one reader and one writer),
and the third participant of a reschedule, the background rebuild, is there. One
rung per task is enough where rungs are treated alike; the mix `any` of
`catalog` leaves creation out because its steps are those of an update of a task
without a row, which it has. Buffers of one chunk with two chunks of output
overflow both the ring and the channel. `MaxTime` lets a session pass both its
idle and its absolute limit, with a limit that is not a whole number of seconds.
Two overlapping runs are one more than the outcome of an entry needs; one
failing write reaches each of the four. A crash of the update reaches every
phase, a second one the retry after the first. Two updates of a task with a
repeated ID leave two strays, and a rebuild that starts with one stray and makes
another is all that `strays` can do wrong. A sample that fails and one that
covers the gap are two ticks after the connection. The machine of `relay` does
not change, as its failing readings decide the first rung both ways, and runs of
`relay` and of example 7 do not expire, as they execute no command. The second of
two ticks lets a List call report what a later one has reported. Three
migrations have a first, a middle and a last one. One panel with other clients
of the API is what two panels are: a panel meets requests it did not make. A
save that is overtaken by one that is overtaken takes two editors and three
saves.

`mix`, `scene` and `focus` are variables of the MC modules that are chosen at
the start and never change. For `daemon` this loses nothing: the parts share
the phase of the process and no other variable, so the invariants of a part are
about its own steps and those of the process.

Constants that only bound the exploration: `MaxStrays`, `Objs`, `Background` (of
`TaskCatalog`), `Slots`, `MaxRuns`, `MaxTime`, `MaxFaults`, `Tokens`, `Secrets`,
`Shells`, `Conns`, `Tickets`, `MaxChunks`, `MaxRelease`, `MaxCrashes`,
`MaxTemps`, `MaxSaves`, `Editors`, `MaxClock`, `Streams`, `Lists`, `Panels`.
`RingCap`, `QueueCap`, `MaxAttempts`, `Window`, `SessionIdle`, `SessionMax`
stand for the constants of the code, made small.

Deadlock is checked in every run but those of the terminal, where the page may
stop for good: the number of tickets is bounded, and at the picker only the
user acts.

### Fairness

* `Serve`, `Proceed`, the pump, handler and writer of a connection, the update
  goroutine: weakly fair. The Go scheduler runs every goroutine, statements and
  system calls return, and the code gives commands and downloads a deadline (a
  command that is killed at its deadline is taken to end).
* `Rebuild`: strongly fair. `m.schedMu` is taken and released again and again;
  a `sync.Mutex` hands itself to a waiter after a millisecond, so no waiter
  starves.
* `Fire` of a scheduled rung of an enabled task: strongly fair (the runs need it
  in the scene of example 7 only). Cron fires as long
  as the daemon runs; a slot is only a bound of the exploration.
* Pages keep their timers (`Page`, `Script`), and `Reload` is strongly fair
  because the daemon goes away and comes back; `PageComesBack` is refuted in
  spite of it.
* `Start` of `SelfUpdate`, `Starts` and `Serve` of `Daemon`: weakly fair.
  `Restart=always` in the unit file, and `main` waits for nobody before it
  serves. `GivenUp` is weakly fair because Shutdown has ten seconds. `Recovers`
  is about behaviours in which, from some time on, the process is neither killed
  nor told to end: it then serves in the end and goes on serving, however often
  it has served before.
* Requests, users, administrators, crashes and failures are never fair.

### What the violations say

* **A stale snapshot is installed** (`catalog_stale_snapshot`).
  `reschedule` copies the pointers under `m.mu`, then waits for `m.schedMu`. Of
  two overlapping updates, the one that saved first may install last: the task
  is stored as disabled and keeps its cron job until the next rebuild, and
  `runRung` does not look at `Enabled`. `docs/task-editor.md:34` says that the
  schedule only runs for enabled tasks.
* **The flag of example 4 is set after a failure** (`ladder_chain`).
  `docs/task-editor.md:131` wants B to run only after A has succeeded, with a
  flag as the last action of A's rung. `execRun` goes on after a command that
  failed, so the flag is set and B publishes.
* **A tab stays in front of a dead shell** (`terminal_exit`). On the "ended"
  frame the page sets a flag and leaves in `ws.onclose`
  (`Terminal.tsx:209-229`); the server's writer returns after that frame and its
  handler waits for the client to hang up. Neither closes the socket.
* **A set-up ends two-factor login** (`totp_setup`). `SetupTOTP` stores the new
  secret with enforcement off (`totp.go:49`) without a look at what is stored. A
  second page that does not know yet that 2FA is on still offers the set-up;
  until its code is confirmed, logins ask for the password only.
  `docs/deploy.md:136` says that disabling 2FA requires the password.
* **The page does not come back** (`update_missed`). A panel that is not polling
  between "applying" and the end of the process (a poll fails or is late) finds
  the new daemon "idle" and polls it for ever (`UpdatePanel.tsx:85-99`), while
  `docs/deploy.md:149` and `UpdatePanel.tsx:170` promise a reload.

### Other behaviours of the code

These have no run of their own. The first five stand beside a text that promises
more; the others are what the code does, as far as we know without one.

* Validate accepts two scheduled rungs with one ID, `m.entries` has one place
  for both (`engine.go:113`), and the next rebuild removes one job of the two:
  one request that disables the task leaves it firing until a restart.
  `docs/task-editor.md:34` says that the schedule only runs for enabled tasks.
  `JobsAreRecorded` says which jobs these are (`strays`), and the mix
  `repeating` of `catalog` makes them.
* A handler finds the shell under `s.termMu` and attaches under `lt.mu` later.
  When the tab has connected again in between, the handler of the old connection
  attaches last, takes the subscription (`stolen`), finds its client gone and
  sets `send` to nil: the pump, which "forwards new output to the
  currently-attached connection (if any)" (`handlers_terminal.go:255`), forwards
  to nobody until the tab connects again.
* `Normalize` moves a schedule of the task to its rungs, "so tasks created
  before per-rung triggers keep firing" (`model.go:115-116`), but it runs in
  Create and Update only (`engine.go:144`, `166`). Start takes definitions as
  they are stored (`LoadTasks`), and `reschedule` asks the rungs (`Scheduled`):
  after an upgrade the task is enabled and silent until somebody saves it.
* `List` notes the time before it waits for the mutex and reads the process
  (`processes.go:80`), while `processes.go:68` promises the usage over the
  interval between calls: the readings may be further apart than the times, and
  a process with one core then shows more than 100 %.
* `diskIOTotals`, "for computing aggregate disk throughput" (`system.go:275`),
  returns zero when the counters cannot be read. `Sample` keeps that as the last
  reading, and the next one reports everything since the machine was booted.
  The core and the network keep the last reading instead, which is what
  `SamplesAddUp` is about; the disks are not modelled.
* The row and the cached struct are written in two steps, in either order by two
  requests that overlap: the cache may differ from the table until the next
  write or restart. `CacheFollowsStoreInTurn` is therefore about one request at
  a time.
* Entries and statuses stay at "running" after a crash; nothing finalizes them
  at start (`lostRuns`, `lostTasks`).
* `last_run` moves back when the older of two overlapping runs writes last.
* `apply` does not look at `available`: the server will install the release it
  resolves even if it is the running one.
* If the first start ends between the account and its line in the journal,
  nobody knows the password (`untold`), and no later start names it.
* A panel that saves a draft brings back the task that another one has deleted,
  and undoes a toggle; "Cancel" for a new task deletes it even if another panel
  has filled and saved it meanwhile.
* An interval of more than 292 years passes Validate and is never scheduled
  (`tooLong`); the engine logs it.
* While a unit file is written in place, a reload of another save may load it
  empty (`loaded` = `Empty`), until the save's own reload.
* A rename that fails leaves the downloaded file behind (`leaked`), and the HTTP
  client's 30 s end a download long before the ten minutes of its goroutine.

## Proofs

All theorems are for every value of the constants that satisfies the named
assumptions of the modules; none is about a bounded instance, and none has a
premise besides the specification: ladders may repeat rung IDs, and runs of one
task may overlap.

| Module | Theorem | States |
|---|---|---|
| `TaskCatalogProofs` | `CatalogIsSound`, `CatalogTypes`, `EveryJobIsRecorded` | `CatalogInv`, `TypeOK`, `JobsAreRecorded` |
| `TaskCatalogTurnsProofs` | `CacheIsTheTable` | `CacheFollowsStoreInTurn` |
| | `ScheduleIsTheCache` | `ScheduleFollowsSwitches` |
| `TaskRunsProofs` | `InvariantHolds`, `TypesHold`, `RunningTaskHasRunHolds`, `RunsOwnTheirEntriesHolds`, `RunningEntryHasRunHolds` | `RunInv` and its parts |
| | `OutcomeIsFinalHolds` | the action property `OutcomeIsFinal` |
| | `HistoryIsImplemented` | `Spec => History!Spec`, the refinement |
| `TaskLadderProofs` | `LadderIsSound`, `EveryPassIsComplete`, `PassesReadOnce` | `LadderInv`, `PassIsComplete`, `OneReadingPerPass` |
| | `ContactsSeeThePreviousPass` | `RungContactsSeeThePreviousPass` |
| `AuthSessionsProofs` | `AuthIsSound`, `EverySessionEnds`, `ChangedPasswordEndsSessions`, `EnforcedMeansConfirmed`, `LockIsOverrunBoundedly` | `AuthInv` and its parts |
| | `DeletedMeansDeleted` | the action property `DeletedSessionsStayDeleted` |
| `TerminalTabProofs` | `TerminalIsSound`, `ShellsAreReachable`, `ReplayMeetsStream`, `ScreensAreInOrder`, `NewestKeepsTheShell`, `EndReachesTheClient` | `TabInv` and its parts |
| `DaemonProofs` | `DaemonIsSafe`, `StartupIsSafe` | `DaemonInv`; its part `StartupInv` |
| | `DefinitionsStaySound`, `SavesTakeEffect`, `StreamsAddUp` | `DefinitionsAreSound`, `SavedIsInEffect`, `SamplesAddUp` |
| `SelfUpdateProofs` | `UpdateIsSound`, `UpdateTypes`, `UpdateExcludes`, `ExecutableStaysWhole`, `UpdateInstallsAnnounced`, `UpdateCleansUp` | `UpdateInv` and its parts |

Each follows the same line: the inductive invariant is checked by TLC first, as
an invariant of a run, or (`MixInv`) in the configuration of `catalog`, which
does not list it; a lemma for the initial states, one lemma per action (or per
group of actions that change the same variables), a lemma for `Next`, and PTL
for the temporal step.

* **CatalogInv.** That every job has an entry is not inductive: it needs that
  one rebuild installs at a time (`OneRebuildInstalls`: control state and
  `m.schedMu` agree), that what is left of its snapshot are structs of distinct
  tasks without an entry (`SnapshotsAreDistinct`, `PendingTasksAreClear`), and
  that the pointers of a snapshot stay alive and keep their task while others
  change structs in place (`PointersAreLive`; the lemma `Kept` says what garbage
  collection preserves). `RequestsAreKnown` and `StoppedIsIdle` type the
  arguments of requests. Distinct pointers of a snapshot have distinct tasks
  because the cache points, for each task, to a struct of that task. An
  installation adds, for each rung ID that a definition schedules n times, n
  jobs, one entry and n - 1 strays; a removal takes one job for each entry. The
  jobs that no entry knows are therefore exactly the strays.
* **MixInv** adds to it what the mixes of `MC_TaskCatalog` are about. In turn,
  every task agrees with its row but the one whose request is between its two
  writes (`OthersAgree`), and that request knows what it has written
  (`KnowsTheRow`: a switch needs that the struct in the cache is still the
  task's, a toggle that the pointer it fetched is still the one of the cache).
  For the schedule, a waiting rebuild has the pointers of the cache as it is,
  one that installs a part of them (`SnapshotsAreCurrent`: nobody replaces a
  struct meanwhile), and whenever no snapshot is to come, the jobs are those of
  the structs but for the tasks still to be installed (`JobsAreCurrent`). A step
  of a request leaves a snapshot to come, whatever it changes
  (`ServeLeavesARebuild`). That the rebuild starts with no job but the strays
  needs `JobsAreRecorded`.
* **RunInv.** That a run writes its own entry needs that ids are given in order
  (`IdsAreGivenInOrder`), that a task without a row has no status
  (`NoStatusWithoutRow`: saved again, it starts afresh) and that the outcome is
  known once the actions are over (`OutcomeIsKnown`). The refinement follows
  step by step: a write of an entry is `Open`, its end `Finalize`, the deletion
  of a task `Delete`, everything else a stutter.
* **LadderInv** says of a pass where it is (`InOrder`), that its results and
  reports are those of the actions it has executed, one each (`Reported`,
  `Executed`), and that a rung was decided by the sensors as the pass read them
  (`DecidedByReading`), all by the position of a rung, since IDs may repeat. For
  rung contacts it relates what a run has decided to the history `past`
  (`DecidedByPast`), of which `lastEnergized` is always a member: a commit of
  another run of the task enters it, the run's own commit comes after its last
  decision.
* **AuthInv.** That no session outlives its limits needs that the expiry a
  request is about to store is in time for the row as it is by now
  (`TouchesAreInTime`; the row may be of a later session only if tokens were
  given twice, which `SessionsAreIssued` excludes); that a second factor is
  enforced for a confirmed secret needs that secrets are drawn once and that a
  request remembers which one it has confirmed (`SecretsAreDrawn`). The bound of
  the overrun counts the requests between the check and the count, and a request
  leaves this set with the step that counts it.
* **TabInv.** `HubInv` follows a chunk from the pump to the screen. The ring is
  the end of the output and no stream is ahead of the pump (`NothingInvented`);
  the subscriber is a connection that has attached and not hung up
  (`SubscriberIsOpen`); a connection that nobody followed keeps its
  subscription, and has been told of the end or has a writer to do it, never
  both (`Served`); a shell in use is not started again (`UsedShellsAreStarted`).
  Most steps concern one connection (lemma `ConnStep`) or none (`QuietStep`);
  lemmas on streams say what appending to the channel, dropping at a full one
  and moving the replay to the screen preserve.
* **UpdateInv.** That `begin` excludes a second update needs that the record
  follows the goroutine through all its phases (`JobsFollowTheRecord`); that
  what is renamed is whole needs that a goroutine knows its file and that files
  are never confused (`JobsKnowTheirFiles`, `FilesAreNumbered`).
* **DaemonInv.** Each part has its own inductive invariant, and a lemma says
  that a step of the daemon is a step of the part, the end of it, or leaves it
  alone. `SchemaIsWhole` needs that an open transaction is about the first
  missing file (`TxIsNext`), and that the recorded files are the first ones, so
  that the next one keeps them so. `SavedIsInEffect` needs what a save hands on
  from step to step (`SavesAlone`), and that a write of one save is met by all
  others (lemma `WritesKeeps`). `SamplesAddUp` is inductive with
  `ReadingsArePast` and, for the process lists, `ListsTakeTurns`: a reading is
  taken with the mutex and therefore after the one it is compared with.
  `DefinitionsAreSound` needs that Normalize gives a task whose rungs have IDs,
  which Validate then makes sound (`NormalTask`), and that cache and table agree
  while the process runs.

Assumptions: `LaddersAssumption`, `NilAssumption`, `StructAssumption`,
`ProcsAssumption` of `TaskCatalog`; `BoundsAssumption`, `NilAssumption` of
`TaskRuns`; `LadderAssumption`, `NilAssumption` of `TaskLadder`;
`DurationAssumption`, `ProcsAssumption`, `NilAssumption` of `AuthSessions`;
`TerminalAssumption` of `TerminalHub`, `TabsAssumption` of `TerminalTab`;
`UpdateAssumption`, `NilAssumption` of `SelfUpdate`; `MigrationsAssumption`,
`DefinitionsAssumption`, `MaxSavesAssumption`, `MaxClockAssumption` of the parts
of `Daemon`. They say that bounds are numbers, that the requests of the limiter
are finitely many, that constants are of their types, and that `Nil` is none of
the values.

Only model-checked: everything under fairness (`RequestsAnswer`,
`EntriesAreFinalized`, `MaintenancePauses`, `Recovers`, `Stops`, and the refuted
`BackToPicker` and `PageComesBack`), which is beyond the proof system. Every
invariant and every action property of the passing runs is the subject of a
theorem.

## Not modelled

* Service actions, listing and logs, process details and signals, the system
  summary, settings and configuration: single calls of the machine, of a file
  or of a table, without state of their own or a protocol.
* Memory and load of a sample, and the charts: read without state. The disks of
  a sample: see above.
* Routing, headers, audit rows, logging, rendering, installation scripts.
* Real time: deadlines are choices. How the kernel treats a pipe that outlives
  its shell is outside the code.
* Data races on `Enabled`: a bool is read and written whole, so a read sees the
  old or the new value, which is what the models have.

## Plan

In this order:

1. Done: `TaskCatalog`, `TaskRuns` with `RunHistory`, `TaskLadder`,
   `AuthSessions`, `TerminalHub` with `TerminalTab`, `SelfUpdate`, and the
   proofs of the first two and the last.
2. Done: `Startup`, `TaskDefinitions`, `UnitFiles`, `Samplers`, their
   composition `Daemon`, and its proofs.
3. `TaskEngine`: the composition of catalogue and runs, in which deletion,
   `RunNow` on a cache miss and a cron job of a stale schedule meet, so that the
   sets `stored` and `cached` of `TaskRuns` become the table and the cache of
   `TaskCatalog`; `TaskRuns` is then its abstraction.
4. Done: the proofs of `TaskLadder`, `AuthSessions`, `TerminalTab` and of the
   mixes of `TaskCatalog`.
5. An abstract specification of a session's life and of a terminal's stream,
   each implemented by its module.
