----------------------------- MODULE MC_Daemon -----------------------------
(***************************************************************************)
(* The daemon for TLC.  A behaviour exercises one part at a time, "focus", *)
(* together with the life of the process, which interrupts it anywhere;    *)
(* the other parts stay as they begin.  The parts share no other state.    *)
(***************************************************************************)
EXTENDS Daemon

CONSTANT Foci   \* the parts that the run exercises

VARIABLE focus

mcVars == <<vars, focus>>

ASSUME FociAssumption == Foci \subseteq {"startup", "tasks", "units", "streams", "lists"}

RungIds2 == {"r1", "r2"}

R(id, match, trigger, refs, sound) ==
  [id |-> id, match |-> match, trigger |-> trigger, refs |-> refs, sound |-> sound]
D(enabled, legacy, rungs) ==
  [named |-> TRUE, enabled |-> enabled, legacy |-> legacy, rungs |-> rungs]

(* Ladders of the editor: two rungs, one of which refers to the other; the *)
(* first one alone, which then refers to a rung that is gone; a new rung   *)
(* without a trigger; an interval that is too long, one that is none.      *)
MCEditedRungs ==
  {<<R("r1", "all", "every", {"r2"}, TRUE), R("r2", "any", None, {}, TRUE)>>,
   <<R("r1", "all", "every", {"r2"}, TRUE)>>,
   <<R(None, "all", "tooLong", {}, TRUE)>>,
   <<R("r1", "all", "never", {}, TRUE)>>}

(* What other clients send: no ID, no match, a manual trigger, a schedule  *)
(* for the whole task, a reference to a rung without an ID, no action.     *)
MCSentTasks ==
  {D(TRUE, "every", <<R(None, "unset", None, {}, TRUE), R("r2", "all", "manual", {}, TRUE)>>),
   D(TRUE, "cron", <<R(None, "all", None, {None}, TRUE)>>),
   D(TRUE, "badCron", <<R("r1", "all", None, {}, TRUE)>>),
   D(TRUE, None, <<R("r1", "all", "cron", {}, FALSE)>>)}

(* What a version without triggers for rungs has stored.                   *)
MCOldTasks ==
  {D(TRUE, "every", <<R("r1", "all", None, {}, TRUE)>>),
   D(TRUE, "cron", <<R("r1", "all", None, {}, TRUE)>>),
   D(TRUE, "manual", <<R("r1", "all", None, {}, TRUE)>>)}

MCInit ==
  /\ Init
  /\ focus \in Foci
  /\ focus # "startup" => effects = Files /\ users = 1
  /\ focus # "tasks" => \A t \in TaskIds : row[t] = None

MCNext ==
  /\ \/ Starts \/ Serve \/ (Signal /\ PartsStay) \/ Drained \/ GivenUp \/ Dies
     \/ focus = "startup" /\ Handles
     \/ focus = "tasks" /\ TaskSteps
     \/ focus = "units" /\ UnitSteps
     \/ focus = "streams" /\ StreamSteps
     \/ focus = "lists" /\ ListSteps
  /\ UNCHANGED focus

MCSpec == MCInit /\ [][MCNext]_mcVars
MCFairSpec == MCSpec /\ Fairness
=============================================================================
