------------------------------- MODULE Daemon -------------------------------
(***************************************************************************)
(* The daemon as a process that comes and goes: Startup with the parts of  *)
(* it whose state is partly in memory and partly outside: definitions of   *)
(* tasks (TaskDefinitions), unit files (UnitFiles), samplers (Samplers).   *)
(* The end of the process, however it comes, takes what is in memory and   *)
(* every request in progress; pages, unit files, systemd and the machine   *)
(* go on.                                                                  *)
(***************************************************************************)
EXTENDS TaskDefinitions, UnitFiles, Samplers

vars == <<startupVars, taskVars, unitVars, sampleVars>>

Init == StartupInit /\ TasksInit /\ UnitsInit /\ SamplesInit

PartsStay == UNCHANGED <<taskVars, unitVars, sampleVars>>

(* main, up to the goroutine that listens; the engine loads the tasks.     *)
Starts == Boot /\ PartsStay
Serve == StartEngine /\ LoadTasks /\ UNCHANGED <<unitVars, sampleVars>>
Handles == Operate /\ PartsStay

(* Handlers that were in progress at the signal still finish.              *)
Running == phase \in {"serving", "stopping"}
TaskSteps == /\ TaskForm \/ (Running /\ TaskRequest)
             /\ UNCHANGED <<startupVars, unitVars, sampleVars>>
UnitSteps == UnitStep /\ UNCHANGED <<startupVars, taskVars, sampleVars>>
StreamSteps == (Tick \/ StreamStep) /\ UNCHANGED <<startupVars, taskVars, unitVars>>
ListSteps == (Tick \/ ListStep) /\ UNCHANGED <<startupVars, taskVars, unitVars>>

Forget == ForgetTasks /\ ForgetSaves /\ ForgetSamples
Idle == (\A e \in Editors : put[e] = NoPut) /\ (\A c \in Lists : list[c].step = "idle")
Drained == Drain /\ Idle /\ Forget
GivenUp == GiveUp /\ Forget
Dies == Die /\ Forget

Next == Starts \/ Serve \/ Handles \/ TaskSteps \/ UnitSteps \/ StreamSteps
        \/ ListSteps \/ Drained \/ GivenUp \/ Dies

Spec == Init /\ [][Next]_vars

(* main goes on unless it waits for a handler, and Shutdown has a deadline; *)
(* systemd starts the daemon again after two seconds, without end.  Nothing *)
(* is assumed of handlers, administrators, pages or the machine.            *)
Fairness == WF_vars(Starts) /\ WF_vars(Serve) /\ WF_vars(GivenUp)
FairSpec == Spec /\ Fairness

(***************************************************************************)
(* Properties                                                              *)
(***************************************************************************)

(* The inductive invariant of the daemon: the parts of it are StartupInv   *)
(* (the schema is whole, there is one account), the types of the state,    *)
(* what saves of unit files and samplers hand on from step to step, and    *)
(* that the tasks in memory are those of the table.                        *)
TypeOK == StartupTypes /\ TaskTypes /\ UnitTypes /\ SampleTypes
DaemonInv == /\ StartupInv /\ TypeOK /\ SavesAlone /\ ReadingsArePast /\ ListsTakeTurns
             /\ Running => cached = row

(* Wherever it was cut off, during a migration, before the first account   *)
(* was named, while it served or while it was stopping: once the process   *)
(* is left alone it gets to serving, and stays there (cronpilot.service:36). *)
Recovers == <>[][~(Dies \/ (Signal /\ PartsStay))]_vars => <>[]Serving

(* A signal ends the process, whatever its handlers wait for (main.go:116). *)
Stops == phase = "stopping" ~> phase = "down"
=============================================================================
