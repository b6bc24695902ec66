--------------------------- MODULE MC_TaskLadder ---------------------------
(***************************************************************************)
(* Instances of TaskLadder: the ladders of the examples in                 *)
(* docs/task-editor.md, extended to reach every kind of contact.           *)
(***************************************************************************)
EXTENDS TaskLadder

LOCAL On(kind, ref, want) == [kind |-> kind, ref |-> ref, want |-> want, negate |-> FALSE]
LOCAL Not(c) == [c EXCEPT !.negate = TRUE]
LOCAL Do(kind, ref, value) == [kind |-> kind, ref |-> ref, value |-> value]
LOCAL Rung(id, match, contacts, actions) ==
  [id |-> id, match |-> match, contacts |-> contacts, actions |-> actions]

Loads == {"low", "high", "critical"}
OneLoad == {"low"}
AllSensors == {"cpu"}
AllFlags == {"f"}
AllRungs == {"r1", "r2", "r3"}

(***************************************************************************)
(* Four scenes, one of which is played in a behaviour.                     *)
(*                                                                         *)
(* "escalation" is example 6 (two thresholds on one metric); "watchdog"    *)
(* has every kind of probe, in series and in parallel, and every kind of   *)
(* action; in both one run is in progress at a time.  "exclusion" is       *)
(* example 7 (maintenance is paused while deploy is enabled), and "relay"  *)
(* has rungs that follow the one above them and their own last result, two *)
(* of them with the same ID; in both, passes overlap, and runs do not      *)
(* expire, as they neither list units nor execute commands.  The machine   *)
(* of "relay" does not change, but its reading may fail, which decides r1. *)
(***************************************************************************)

CONSTANT s1

Ladders == [
  guard |-> <<
    Rung("r1", "all", <<On("metric", "cpu", {"high", "critical"})>>, <<Do("log", "hot", TRUE)>>),
    Rung("r2", "all", <<On("metric", "cpu", {"critical"})>>,
         <<Do("command", "restart", TRUE), Do("flag", "f", TRUE)>>)>>,
  watchdog |-> <<
    Rung("r1", "all", <<Not(On("service", "cpu", {"low"})), Not(On("flag", "f", {}))>>,
         <<Do("service", "cpu", TRUE), Do("flag", "f", TRUE)>>),
    Rung("r2", "any", <<On("file", "cpu", {"low"}), On("time", "cpu", {"low"}),
                        On("process", "cpu", {"high"})>>,
         <<Do("flag", "f", FALSE), Do("taskToggle", "deploy", FALSE)>>)>>,
  deploy |-> <<>>, maintenance |-> <<>>,
  pauser |-> <<
    Rung("r1", "all", <<On("taskState", "deploy", {"enabled"})>>,
         <<Do("taskToggle", "maintenance", FALSE)>>),
    Rung("r2", "all", <<Not(On("taskState", "deploy", {"enabled"}))>>,
         <<Do("taskToggle", "maintenance", TRUE)>>)>>,
  relay |-> <<
    Rung("r1", "all", <<On("metric", "cpu", {"high"})>>, <<Do("log", "hot", TRUE)>>),
    Rung("r2", "all", <<On("rung", "r1", {})>>, <<Do("log", "was hot", TRUE)>>),
    Rung("r2", "all", <<Not(On("rung", "r2", {}))>>, <<Do("log", "tick", TRUE)>>)>>]
AllTasks == DOMAIN Ladders
Schedule == {<<"guard", "r1">>, <<"watchdog", "r2">>, <<"pauser", "r1">>, <<"pauser", "r2">>,
             <<"relay", "r1">>, <<"relay", "r2">>}

VARIABLE scene

mcVars == <<vars, scene>>

Cast == CASE scene = "escalation" -> {"guard"}
          [] scene = "watchdog" -> {"watchdog"}
          [] scene = "exclusion" -> {"pauser"}
          [] scene = "relay" -> {"relay"}
Weather == CASE scene = "escalation" -> Loads
             [] scene = "watchdog" -> {"low", "high"}
             [] scene = "exclusion" -> {"low"}
             [] scene = "relay" -> {"high"}

MCInit == /\ Init
          /\ scene \in {"escalation", "watchdog", "exclusion", "relay"}
          /\ world \in [Sensors -> Weather]
          /\ \A t \in Tasks : enabled[t] = "enabled" <=> t \in Cast \/ t = "maintenance"

MCNext == /\ \/ Restart
             \/ scene \in {"watchdog", "exclusion"} /\ Administer
             \/ Change /\ world' \in [Sensors -> Weather]
             \/ \E p \in Scheduled : p[1] \in Cast /\ Fire(p[1], p[2])
             \/ \E s \in Slots : \/ Proceed(s)
                                 \/ scene \in {"escalation", "watchdog"} /\ Expire(s)
                                 \/ \E t \in Cast : Begin(s, t, Nil)
          /\ scene \in {"escalation", "watchdog"} => \A s \in Slots \ {s1} : state'[s] = "idle"
          /\ UNCHANGED scene

MCSpec == MCInit /\ [][MCNext]_mcVars
                /\ \A s \in Slots : WF_vars(scene = "exclusion" /\ Proceed(s))
                /\ \A r \in {"r1", "r2"} :
                     SF_vars(scene = "exclusion" /\ enabled["pauser"] = "enabled"
                                                 /\ Fire("pauser", r))

(* "Pause a noisy maintenance task while a deploy task is enabled" (docs/  *)
(* task-editor.md:169): when deploy stays enabled and the daemon stays up, *)
(* maintenance is paused in the end and stays so, although passes overlap  *)
(* and one of them may still act on what it read before.                   *)
MaintenancePauses ==
  scene = "exclusion" /\ <>[](enabled["deploy"] = "enabled" /\ enabled["pauser"] = "enabled")
    /\ <>[][~Restart]_vars => <>[](enabled["maintenance"] = "disabled")

(***************************************************************************)
(* Example 4: A prepares, B publishes.                                     *)
(***************************************************************************)

ChainTasks == {"A", "B"}
Chain == [t \in ChainTasks |->
  IF t = "A" THEN <<Rung("r1", "all", <<>>, <<Do("command", "prepare", TRUE), Do("flag", "f", TRUE)>>)>>
  ELSE <<Rung("r2", "all", <<On("flag", "f", {})>>,
              <<Do("command", "publish", TRUE), Do("flag", "f", FALSE)>>)>>]
ChainSchedule == {<<"A", "r1">>, <<"B", "r2">>}

(* "Task B must run only after task A has succeeded" (docs/                *)
(* task-editor.md:131): B publishes only if A's command has succeeded.     *)
PublishAfterSuccess == "publish" \in succeeded => "prepare" \in succeeded

ChainInit == Init /\ scene = "chain"
ChainNext == Next /\ UNCHANGED scene
ChainSpec == ChainInit /\ [][ChainNext]_mcVars
=============================================================================
