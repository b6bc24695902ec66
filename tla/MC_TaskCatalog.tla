--------------------------- MODULE MC_TaskCatalog ---------------------------
(***************************************************************************)
(* Instances of TaskCatalog.  Its properties do not hold for the same      *)
(* requests: whatever overlaps, jobs are recorded and requests answer; the *)
(* cache follows the table when requests come one at a time, and the       *)
(* schedule the cache also when they enable and disable.  "mix" says which *)
(* requests arrive in a behaviour, and with which definitions.             *)
(***************************************************************************)
EXTENDS TaskCatalog

CONSTANTS r1, t1, o1, o2, b1,
          MaxStrays   \* no request arrives when cron has so many strays

VARIABLE mix

mcVars == <<vars, mix>>

OnDemand == [r \in Rungs |-> 0]
Scheduled == [r \in Rungs |-> 1]
Twice == [r \in Rungs |-> 2]    \* two scheduled rungs with one ID
PlainLadders == {OnDemand, Scheduled}
AllLadders == PlainLadders \cup {Twice}

Updating == {"update"}
Switching == {"enable"}

(* Addresses are all alike: a new struct gets the first free one.          *)
Before(o) == CASE o = o1 -> {} [] o = o2 -> {o1} [] OTHER -> {o1, o2}
FirstFit ==
  \A o \in Objs : heap[o] = Nil /\ heap'[o] # Nil =>
    \A u \in Before(o) : heap[u] # Nil \/ heap'[u] # Nil

InTurn == \A a \in Actors : pc[a] = "idle"

Mixes == {"serial", "switching", "any", "repeating"}

(* The definitions of a mix.                                               *)
LaddersOf(m) == Ladders \cap (CASE m = "serial" -> PlainLadders
                               [] m = "any" -> {Scheduled}
                               [] m = "repeating" -> {Twice}
                               [] OTHER -> AllLadders)

FewStrays == \A t \in Tasks, r \in Rungs : strays[t][r] < MaxStrays

(* For the mixes that overlap, one task; in "any" one rebuild in the       *)
(* background, and no creation, which takes the steps of an update; in     *)
(* "repeating" no toggles and no runs.                                     *)
Arrival(p) ==
  /\ FewStrays
  /\ \/ mix = "serial" /\ InTurn /\ Accept(p)
     \/ mix = "switching" /\ (SetEnabled(p) \/ Toggle(p)) /\ req'[p].task = t1
     \/ mix = "any" /\ (Update(p) \/ Delete(p) \/ SetEnabled(p) \/ RunNow(p)) /\ req'[p].task = t1
     \/ mix = "any" /\ Toggle(p) /\ Toggling = {} /\ (\A b \in Background : pc[b] = "idle")
     \/ mix = "repeating" /\ (Update(p) \/ Delete(p) \/ SetEnabled(p)) /\ req'[p].task = t1

MCInit == /\ Init
          /\ mix \in Mixes
          /\ mix # "serial" => \A t \in Tasks \ {t1} : row[t] = Nil
          /\ \A t \in Tasks : row[t] # Nil => row[t].ladder \in LaddersOf(mix)

MCNext == /\ \/ Start \/ Exit
             \/ \E p \in Procs : Arrival(p) \/ Serve(p)
             \/ \E a \in Actors : Rebuild(a)
          /\ FirstFit
          /\ \A t \in Tasks : row'[t] # Nil => row'[t].ladder \in LaddersOf(mix)
          /\ mix = "any" => \A b \in Background \ {b1} : pc'[b] = "idle"
          /\ UNCHANGED mix

MCSpec == MCInit /\ [][MCNext]_mcVars /\ Fairness

(* TaskCatalog!CacheFollowsStore, for requests that come one at a time;    *)
(* a crash may cut them off anywhere (engine.go:143-213).                  *)
CacheFollowsStoreInTurn == mix = "serial" => CacheFollowsStore

(* TaskCatalog!ScheduleFollowsCache, for requests that come one at a time  *)
(* and for switches and toggles that overlap at will (engine.go:78-116).   *)
ScheduleFollowsSwitches == mix \in {"serial", "switching"} => ScheduleFollowsCache
=============================================================================
