----------------------------- MODULE MC_TaskRuns -----------------------------
(* Instances of TaskRuns: one or two tasks, two overlapping runs.          *)
EXTENDS TaskRuns, TLC

Symmetry == Permutations(Tasks) \cup Permutations(Slots)
=============================================================================
