----------------------------- MODULE RunHistory -----------------------------
(***************************************************************************)
(* What the run history promises: ids are given in order and never again,  *)
(* an entry is opened as "running", finalized at most once with an outcome *)
(* that then stays, and otherwise only deleted.  TaskRuns implements it.   *)
(***************************************************************************)
EXTENDS Naturals

CONSTANT MaxRuns
VARIABLE entry

RunIds == 1..MaxRuns
Outcomes == {"ok", "error"}

TypeOK == entry \in [RunIds -> {"unused", "running", "deleted"} \cup Outcomes]

Init == entry = [i \in RunIds |-> "unused"]

Open(i) == /\ entry[i] = "unused"
           /\ \A j \in RunIds : j < i => entry[j] # "unused"
           /\ entry' = [entry EXCEPT ![i] = "running"]

Finalize(i) == /\ entry[i] = "running"
               /\ \E o \in Outcomes : entry' = [entry EXCEPT ![i] = o]

(* The entries of a task go together.                                      *)
Delete(S) == /\ \A i \in S : entry[i] # "unused"
             /\ entry' = [i \in RunIds |-> IF i \in S THEN "deleted" ELSE entry[i]]

Next == \/ \E i \in RunIds : Open(i) \/ Finalize(i)
        \/ \E S \in SUBSET RunIds : Delete(S)

Spec == Init /\ [][Next]_entry
=============================================================================
