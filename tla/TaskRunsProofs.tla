--------------------------- MODULE TaskRunsProofs ---------------------------
(* Proofs about TaskRuns: the inductive invariant RunInv, the properties   *)
(* it implies, and that TaskRuns implements RunHistory.                    *)
EXTENDS TaskRuns, TLAPS

LEMMA InitInv == Init => RunInv
<1> SUFFICES ASSUME Init PROVE RunInv
  OBVIOUS
<1>1. TypeOK
  <2>1. lastId \in 0..MaxRuns
    BY BoundsAssumption DEF Init
  <2>2. state \in [Slots -> RunStates] /\ \A s \in Slots : state[s] # "idle" => run[s] # Nil
    BY DEF Init, RunStates
  <2> QED
    BY <2>1, <2>2 DEF Init, TypeOK
<1>2. NoStatusWithoutRow /\ IdsAreGivenInOrder /\ OutcomeIsKnown
  BY DEF Init, NoStatusWithoutRow, IdsAreGivenInOrder, OutcomeIsKnown, Open
<1>3. RunsOwnTheirEntries /\ RunningEntryHasRun /\ RunningTaskHasRun
  BY DEF Init, RunsOwnTheirEntries, RunningEntryHasRun, RunningTaskHasRun, Open
<1> QED
  BY <1>1, <1>2, <1>3 DEF RunInv

USE DEF catalog, status, history, lost, env, NextId

LEMMA NilIsNoRun == Nil \notin Run /\ Nil \notin Entry
  BY NilAssumption DEF Run, Entry

LEMMA IdsInRange ==
  ASSUME TypeOK, IdsAreGivenInOrder
  PROVE  \A s \in Slots : Open(s) => run[s] \in Run /\ run[s].id \in RunIds \cup {0}
<1> SUFFICES ASSUME NEW s \in Slots, Open(s)
             PROVE  run[s] \in Run /\ run[s].id \in RunIds \cup {0}
  OBVIOUS
<1>1. run[s] \in Run /\ run[s].id \leq lastId
  BY DEF TypeOK, IdsAreGivenInOrder, Open
<1>2. run[s].id \in Nat
  BY <1>1 DEF Run
<1> QED
  BY <1>1, <1>2, BoundsAssumption DEF TypeOK, RunIds

LEMMA StartInv == RunInv /\ Start => RunInv'
<1> SUFFICES ASSUME RunInv, Start PROVE RunInv'
  OBVIOUS
<1> USE DEF RunInv, Start
<1>1. TypeOK'
  BY DEF TypeOK
<1>2. NoStatusWithoutRow' /\ IdsAreGivenInOrder' /\ OutcomeIsKnown'
  BY DEF NoStatusWithoutRow, IdsAreGivenInOrder, OutcomeIsKnown, Open
<1>3. RunsOwnTheirEntries' /\ RunningEntryHasRun' /\ RunningTaskHasRun'
  BY DEF RunsOwnTheirEntries, RunningEntryHasRun, RunningTaskHasRun, Open, Marked
<1> QED
  BY <1>1, <1>2, <1>3

LEMMA ExitInv == RunInv /\ Exit => RunInv'
<1> SUFFICES ASSUME RunInv, Exit PROVE RunInv'
  OBVIOUS
<1> USE DEF RunInv, Exit
<1>1. TypeOK'
  <2>1. lostTasks' \subseteq Tasks
    BY DEF TypeOK, Marked, Run
  <2> QED
    BY <2>1 DEF TypeOK, RunStates
<1>2. NoStatusWithoutRow' /\ IdsAreGivenInOrder' /\ OutcomeIsKnown'
  BY DEF NoStatusWithoutRow, IdsAreGivenInOrder, OutcomeIsKnown, Open
<1>3. RunsOwnTheirEntries'
  BY DEF RunsOwnTheirEntries, Open
<1>4. RunningEntryHasRun'
  BY DEF RunningEntryHasRun, Open
<1>5. RunningTaskHasRun'
  BY DEF RunningTaskHasRun, Marked
<1> QED
  BY <1>1, <1>2, <1>3, <1>4, <1>5

LEMMA TickInv == RunInv /\ Tick => RunInv'
<1> SUFFICES ASSUME RunInv, Tick PROVE RunInv'
  OBVIOUS
<1> USE DEF RunInv, Tick
<1>1. TypeOK'
  BY DEF TypeOK
<1>2. NoStatusWithoutRow' /\ IdsAreGivenInOrder' /\ OutcomeIsKnown'
  BY DEF NoStatusWithoutRow, IdsAreGivenInOrder, OutcomeIsKnown, Open
<1>3. RunsOwnTheirEntries' /\ RunningEntryHasRun' /\ RunningTaskHasRun'
  BY DEF RunsOwnTheirEntries, RunningEntryHasRun, RunningTaskHasRun, Open, Marked
<1> QED
  BY <1>1, <1>2, <1>3

LEMMA CatalogInv == RunInv /\ CatalogStep => RunInv'
<1> SUFFICES ASSUME RunInv, NEW t \in Tasks,
                    SaveTask(t) \/ DeleteTask(t) \/ CacheTask(t) \/ UncacheTask(t)
             PROVE  RunInv'
  BY DEF CatalogStep
<1> USE DEF RunInv
<1>1. CASE SaveTask(t) \/ CacheTask(t) \/ UncacheTask(t)
  <2> USE <1>1 DEF SaveTask, CacheTask, UncacheTask
  <2>1. TypeOK'
    BY DEF TypeOK
  <2>2. NoStatusWithoutRow' /\ IdsAreGivenInOrder' /\ OutcomeIsKnown'
    BY DEF NoStatusWithoutRow, IdsAreGivenInOrder, OutcomeIsKnown, Open
  <2>3. RunsOwnTheirEntries' /\ RunningEntryHasRun' /\ RunningTaskHasRun'
    BY DEF RunsOwnTheirEntries, RunningEntryHasRun, RunningTaskHasRun, Open, Marked
  <2> QED
    BY <2>1, <2>2, <2>3
<1>2. CASE DeleteTask(t)
  <2> USE <1>2 DEF DeleteTask
  <2>1. TypeOK'
    BY DEF TypeOK
  <2>2. NoStatusWithoutRow' /\ IdsAreGivenInOrder' /\ OutcomeIsKnown'
    BY DEF NoStatusWithoutRow, IdsAreGivenInOrder, OutcomeIsKnown, Open, TypeOK
  <2>3. RunsOwnTheirEntries'
    <3>1. \A i \in RunIds : hist'[i] \in {Nil, hist[i]}
      BY DEF TypeOK
    <3> QED
      BY <3>1, IdsInRange DEF RunsOwnTheirEntries, Open
  <2>4. RunningEntryHasRun'
    BY DEF RunningEntryHasRun, Open, TypeOK
  <2>5. RunningTaskHasRun'
    BY DEF RunningTaskHasRun, Marked, TypeOK
  <2> QED
    BY <2>1, <2>2, <2>3, <2>4, <2>5
<1> QED
  BY <1>1, <1>2

LEMMA BeginInv == ASSUME NEW s \in Slots, NEW t \in Tasks, RunInv, Begin(s, t) PROVE RunInv'
<1> USE DEF RunInv, Begin, Goto
<1>1. TypeOK'
  <2>1. [task |-> t, time |-> clock, outcome |-> "running", id |-> 0] \in Run
    BY DEF TypeOK, Run
  <2> QED
    BY <2>1, NilIsNoRun DEF TypeOK, RunStates
<1>2. NoStatusWithoutRow' /\ IdsAreGivenInOrder' /\ OutcomeIsKnown'
  BY DEF NoStatusWithoutRow, IdsAreGivenInOrder, OutcomeIsKnown, Open, TypeOK
<1>3. RunsOwnTheirEntries'
  BY DEF RunsOwnTheirEntries, Open, TypeOK
<1>4. RunningEntryHasRun'
  BY DEF RunningEntryHasRun, Open, TypeOK
<1>5. RunningTaskHasRun'
  BY DEF RunningTaskHasRun, Marked, TypeOK
<1> QED
  BY <1>1, <1>2, <1>3, <1>4, <1>5

LEMMA AddTaskRunInv == ASSUME NEW s \in Slots, RunInv, AddTaskRun(s) PROVE RunInv'
<1> USE DEF RunInv, AddTaskRun, Goto
<1>1. run[s] \in Run /\ run[s].id = 0
  BY DEF TypeOK, IdsAreGivenInOrder
<1>2. CASE run[s].task \in stored
  <2> USE <1>1, <1>2
  <2> DEFINE entry == [task |-> run[s].task, time |-> run[s].time, outcome |-> "running"]
  <2>1. /\ lastId \in Nat /\ lastId' = lastId + 1
        /\ lastId' \in RunIds /\ lastId' \in 0..MaxRuns /\ lastId' # 0
    BY BoundsAssumption DEF TypeOK, RunIds
  <2>2. hist[lastId'] = Nil
    BY <2>1 DEF IdsAreGivenInOrder
  <2>3. entry \in Entry
    BY DEF Run, Entry
  <2>4. \A i \in RunIds : hist'[i] = IF i = lastId' THEN entry ELSE hist[i]
    BY <2>1 DEF TypeOK
  <2>5. \A r \in Slots : run'[r] = IF r = s THEN [run[s] EXCEPT !.id = lastId'] ELSE run[r]
    BY DEF TypeOK
  <2>6. /\ [run[s] EXCEPT !.id = lastId'] \in Run
        /\ run'[s].id = lastId' /\ run'[s].task = run[s].task /\ run'[s].time = run[s].time
    BY <2>1, <2>5 DEF Run
  <2>7. \A r \in Slots : state'[r] = IF r = s THEN "mark" ELSE state[r]
    BY DEF TypeOK
  <2>8. ~Open(s) /\ ~Marked(s) /\ \A r \in Slots \ {s} : Open(r)' = Open(r) /\ Marked(r)' = Marked(r)
    BY <2>7 DEF Open, Marked
  <2> HIDE DEF entry, AddTaskRun
  <2>9. TypeOK'
    <3>1. hist' \in [RunIds -> Entry \cup {Nil}]
      BY <2>1, <2>3 DEF TypeOK, AddTaskRun, entry
    <3>2. run' \in [Slots -> Run \cup {Nil}] /\ state' \in [Slots -> RunStates]
      BY <2>6 DEF TypeOK, AddTaskRun, RunStates
    <3>3. \A r \in Slots : state'[r] # "idle" => run'[r] # Nil
      BY <2>5, <2>6, <2>7, NilAssumption DEF TypeOK
    <3> QED
      BY <2>1, <3>1, <3>2, <3>3 DEF TypeOK, AddTaskRun
  <2>10. NoStatusWithoutRow' /\ OutcomeIsKnown'
    BY <2>5, <2>7 DEF NoStatusWithoutRow, OutcomeIsKnown, AddTaskRun
  <2>11. IdsAreGivenInOrder'
    <3>1. \A i \in RunIds : hist'[i] # Nil => i \leq lastId'
      BY <2>1, <2>4 DEF IdsAreGivenInOrder, RunIds
    <3>2. \A r \in Slots : Open(r)' => run'[r].id \leq lastId'
      <4> TAKE r \in Slots
      <4>1. CASE r = s
        BY <4>1, <2>1, <2>6 DEF RunIds
      <4>2. CASE r # s
        BY <4>2, <2>1, <2>5, <2>8, IdsInRange DEF IdsAreGivenInOrder, RunIds
      <4> QED
        BY <4>1, <4>2
    <3>3. \A r \in Slots : state'[r] = "insert" => run'[r].id = 0
      BY <2>5, <2>7 DEF IdsAreGivenInOrder
    <3> QED
      BY <3>1, <3>2, <3>3 DEF IdsAreGivenInOrder
  <2>12. RunsOwnTheirEntries'
    <3>1. \A r \in Slots \ {s} : Open(r) => run[r].id # lastId'
      BY <2>1, IdsInRange DEF IdsAreGivenInOrder, RunIds
    <3>2. \A r \in Slots : Open(r)' /\ run'[r].id # 0 =>
            /\ hist'[run'[r].id] \in {Nil, [task |-> run'[r].task, time |-> run'[r].time,
                                            outcome |-> "running"]}
            /\ \A q \in Slots : Open(q)' /\ run'[q].id = run'[r].id => q = r
      <4> TAKE r \in Slots
      <4> HAVE Open(r)' /\ run'[r].id # 0
      <4>1. CASE r = s
        BY <4>1, <2>1, <2>4, <2>5, <2>6, <2>8, <3>1 DEF entry
      <4>2. CASE r # s
        BY <4>2, <2>1, <2>4, <2>5, <2>6, <2>8, <3>1, IdsInRange DEF RunsOwnTheirEntries
      <4> QED
        BY <4>1, <4>2
    <3> QED
      BY <3>2 DEF RunsOwnTheirEntries
  <2>13. RunningEntryHasRun'
    <3> SUFFICES ASSUME NEW i \in RunIds, hist'[i] # Nil, hist'[i].outcome = "running"
                 PROVE  i \in lostRuns' \/ \E r \in Slots : Open(r)' /\ run'[r].id = i
      BY DEF RunningEntryHasRun
    <3>1. CASE i = lastId'
      BY <3>1, <2>6, <2>7 DEF Open
    <3>2. CASE i # lastId'
      BY <3>2, <2>4, <2>5, <2>8 DEF RunningEntryHasRun, AddTaskRun
    <3> QED
      BY <3>1, <3>2
  <2>14. RunningTaskHasRun'
    BY <2>5, <2>8 DEF RunningTaskHasRun, AddTaskRun
  <2> QED
    BY <2>9, <2>10, <2>11, <2>12, <2>13, <2>14
<1>3. CASE run[s].task \notin stored
  <2> USE <1>1, <1>3
  <2>2. TypeOK'
    BY DEF TypeOK, RunStates
  <2>3. NoStatusWithoutRow' /\ OutcomeIsKnown'
    BY DEF NoStatusWithoutRow, OutcomeIsKnown, TypeOK
  <2>4. IdsAreGivenInOrder'
    BY DEF IdsAreGivenInOrder, Open, TypeOK
  <2>5. RunsOwnTheirEntries'
    BY DEF RunsOwnTheirEntries, Open, TypeOK, RunIds
  <2>6. RunningEntryHasRun'
    BY DEF RunningEntryHasRun, Open, TypeOK, RunIds
  <2>7. RunningTaskHasRun'
    BY DEF RunningTaskHasRun, Marked, TypeOK, Run
  <2> QED
    BY <2>2, <2>3, <2>4, <2>5, <2>6, <2>7
<1> QED
  BY <1>2, <1>3

LEMMA MarkRunningInv == ASSUME NEW s \in Slots, RunInv, MarkRunning(s) PROVE RunInv'
<1> USE DEF RunInv, MarkRunning, UpdateTaskLastRun, Goto
<1>1. run[s] \in Run /\ Open(s)
  BY DEF TypeOK, Open
<1>2. \A r \in Slots : state'[r] = IF r = s THEN "exec" ELSE state[r]
  BY DEF TypeOK
<1>3. TypeOK'
  BY <1>1 DEF TypeOK, Run, RunStates
<1>4. NoStatusWithoutRow'
  BY DEF NoStatusWithoutRow, TypeOK
<1>5. IdsAreGivenInOrder' /\ OutcomeIsKnown'
  BY <1>1, <1>2 DEF IdsAreGivenInOrder, OutcomeIsKnown, Open
<1>6. RunsOwnTheirEntries' /\ RunningEntryHasRun'
  BY <1>1, <1>2 DEF RunsOwnTheirEntries, RunningEntryHasRun, Open
<1>7. RunningTaskHasRun'
  BY <1>1, <1>2 DEF RunningTaskHasRun, Marked, TypeOK
<1> QED
  BY <1>3, <1>4, <1>5, <1>6, <1>7

LEMMA ExecuteInv == ASSUME NEW s \in Slots, RunInv, Execute(s) PROVE RunInv'
<1> USE DEF RunInv, Execute, Goto
<1>1. PICK o \in Outcomes : run' = [run EXCEPT ![s].outcome = o]
  OBVIOUS
<1>2. run[s] \in Run
  BY DEF TypeOK
<1>3. \A r \in Slots : state'[r] = IF r = s THEN "record" ELSE state[r]
  BY DEF TypeOK
<1>4. /\ \A r \in Slots \ {s} : run'[r] = run[r]
      /\ run'[s] \in Run /\ run'[s].outcome \in Outcomes
      /\ run'[s].id = run[s].id /\ run'[s].task = run[s].task /\ run'[s].time = run[s].time
  BY <1>1, <1>2 DEF TypeOK, Run
<1>5. \A r \in Slots : Open(r)' = Open(r) /\ Marked(r)' = Marked(r)
  BY <1>3 DEF Open, Marked
<1>6. \A r \in Slots : state[r] # "idle" =>
        run'[r].id = run[r].id /\ run'[r].task = run[r].task /\ run'[r].time = run[r].time
  BY <1>4
<1>7. TypeOK'
  <2>1. run' \in [Slots -> Run \cup {Nil}]
    BY <1>1, <1>2 DEF TypeOK, Run
  <2>2. state' \in [Slots -> RunStates]
    BY DEF TypeOK, RunStates
  <2>3. \A r \in Slots : state'[r] # "idle" => run'[r] # Nil
    BY <1>3, <1>4, NilAssumption DEF TypeOK
  <2> QED
    BY <2>1, <2>2, <2>3 DEF TypeOK
<1> HIDE DEF Execute
<1>8. UNCHANGED <<stored, lastStatus, hist, lastId, lostTasks, lostRuns>>
  BY DEF Execute
<1>9. NoStatusWithoutRow' /\ OutcomeIsKnown'
  BY <1>3, <1>4, <1>8 DEF NoStatusWithoutRow, OutcomeIsKnown
<1>10. IdsAreGivenInOrder'
  BY <1>3, <1>5, <1>6, <1>8 DEF IdsAreGivenInOrder, Open
<1>11. RunsOwnTheirEntries'
  BY <1>5, <1>6, <1>8 DEF RunsOwnTheirEntries, Open
<1>12. RunningEntryHasRun'
  BY <1>5, <1>6, <1>8 DEF RunningEntryHasRun, Open
<1>13. RunningTaskHasRun'
  BY <1>5, <1>6, <1>8 DEF RunningTaskHasRun, Marked
<1> QED
  BY <1>7, <1>9, <1>10, <1>11, <1>12, <1>13

(* What UpdateTaskRun does to the table: the entry of the run, if it is    *)
(* still there, gets the outcome; every other entry is left alone.         *)
LEMMA UpdateTaskRunWrites ==
  ASSUME NEW s \in Slots, RunInv, UpdateTaskRun(s)
  PROVE  /\ run[s] \in Run /\ run[s].outcome \in Outcomes
         /\ \A i \in RunIds :
              \/ hist'[i] = hist[i] /\ (i = run[s].id => hist[i] = Nil)
              \/ /\ i = run[s].id /\ hist[i] \in Entry /\ hist[i].outcome = "running"
                 /\ hist'[i] = [hist[i] EXCEPT !.outcome = run[s].outcome]
                 /\ hist'[i] \in Entry /\ hist'[i].outcome = run[s].outcome
<1> USE DEF RunInv, UpdateTaskRun
<1>1. run[s] \in Run /\ run[s].outcome \in Outcomes /\ Open(s)
  BY DEF TypeOK, OutcomeIsKnown, Open
<1>2. SUFFICES ASSUME NEW i \in RunIds, i = run[s].id, hist[i] # Nil
               PROVE  /\ hist[i] \in Entry /\ hist[i].outcome = "running"
                      /\ hist'[i] = [hist[i] EXCEPT !.outcome = run[s].outcome]
                      /\ hist'[i] \in Entry /\ hist'[i].outcome = run[s].outcome
  BY <1>1
<1>3. hist[i] \in Entry /\ i # 0
  <2>1. hist[i] \in Entry
    BY <1>2 DEF TypeOK
  <2>2. i # 0
    BY DEF RunIds
  <2> QED
    BY <2>1, <2>2
<1>4. hist[i] = [task |-> run[s].task, time |-> run[s].time, outcome |-> "running"]
  BY <1>1, <1>2, <1>3 DEF RunsOwnTheirEntries
<1>5. hist'[i] = [hist[i] EXCEPT !.outcome = run[s].outcome]
  BY <1>2
<1>6. hist'[i] = [task |-> run[s].task, time |-> run[s].time, outcome |-> run[s].outcome]
  BY <1>4, <1>5
<1> QED
  BY <1>1, <1>3, <1>4, <1>5, <1>6 DEF Entry, Run

LEMMA UpdateTaskRunInv == ASSUME NEW s \in Slots, RunInv, UpdateTaskRun(s) PROVE RunInv'
<1>0. /\ run[s] \in Run /\ run[s].outcome \in Outcomes
      /\ \A i \in RunIds :
           \/ hist'[i] = hist[i] /\ (i = run[s].id => hist[i] = Nil)
           \/ /\ i = run[s].id /\ hist[i] \in Entry /\ hist[i].outcome = "running"
              /\ hist'[i] \in Entry /\ hist'[i].outcome = run[s].outcome
  BY UpdateTaskRunWrites
<1> USE DEF RunInv
<1>1. /\ run' = run /\ state' = [state EXCEPT ![s] = "finish"] /\ state[s] = "record"
      /\ UNCHANGED <<stored, cached, status, lastId, env, lost>>
      /\ hist' = [i \in RunIds |-> hist'[i]]
  BY DEF UpdateTaskRun, Goto
<1>2. \A r \in Slots : state'[r] = IF r = s THEN "finish" ELSE state[r]
  BY <1>1 DEF TypeOK
<1>3. \A i \in RunIds : hist'[i] \in Entry \cup {Nil} /\ (hist'[i] # Nil => hist[i] # Nil)
  <2>1. \A i \in RunIds : hist[i] \in Entry \cup {Nil}
    BY DEF TypeOK
  <2> QED
    BY <1>0, <2>1, NilAssumption
<1>4. TypeOK'
  <2>1. state' \in [Slots -> RunStates]
    BY <1>1 DEF TypeOK, RunStates
  <2> QED
    BY <1>1, <1>2, <1>3, <2>1 DEF TypeOK
<1>5. NoStatusWithoutRow' /\ OutcomeIsKnown'
  BY <1>1, <1>2, <1>0 DEF NoStatusWithoutRow, OutcomeIsKnown
<1>6. IdsAreGivenInOrder'
  BY <1>1, <1>2, <1>3 DEF IdsAreGivenInOrder, Open
<1>7. RunsOwnTheirEntries'
  BY <1>0, <1>1, <1>2, IdsInRange DEF RunsOwnTheirEntries, Open
<1>8. RunningEntryHasRun'
  <2> SUFFICES ASSUME NEW i \in RunIds, hist'[i] # Nil, hist'[i].outcome = "running"
               PROVE  i \in lostRuns \/ \E r \in Slots : Open(r)' /\ run[r].id = i
    BY <1>1 DEF RunningEntryHasRun
  <2>1. hist'[i] = hist[i] /\ i # run[s].id
    BY <1>0 DEF Outcomes
  <2> QED
    BY <1>2, <2>1 DEF RunningEntryHasRun, Open
<1>9. RunningTaskHasRun'
  BY <1>1, <1>2 DEF RunningTaskHasRun, Marked
<1> QED
  BY <1>4, <1>5, <1>6, <1>7, <1>8, <1>9

LEMMA FinishInv == ASSUME NEW s \in Slots, RunInv, Finish(s) PROVE RunInv'
<1> USE DEF RunInv, Finish, UpdateTaskLastRun, Goto
<1>1. run[s] \in Run /\ run[s].outcome \in Outcomes /\ ~Open(s)
  BY DEF TypeOK, OutcomeIsKnown, Open
<1>2. /\ \A r \in Slots : state'[r] = IF r = s THEN "idle" ELSE state[r]
      /\ \A r \in Slots \ {s} : run'[r] = run[r]
  BY DEF TypeOK
<1>3. TypeOK'
  BY <1>1 DEF TypeOK, Run, RunStates
<1>4. NoStatusWithoutRow'
  BY DEF NoStatusWithoutRow, TypeOK
<1>5. IdsAreGivenInOrder' /\ OutcomeIsKnown'
  BY <1>2 DEF IdsAreGivenInOrder, OutcomeIsKnown, Open
<1>6. RunsOwnTheirEntries' /\ RunningEntryHasRun'
  BY <1>1, <1>2 DEF RunsOwnTheirEntries, RunningEntryHasRun, Open
<1>7. RunningTaskHasRun'
  <2> SUFFICES ASSUME NEW t \in Tasks, lastStatus'[t] = "running"
               PROVE  t \in lostTasks' \/ \E r \in Slots : Marked(r)' /\ run'[r].task = t
    BY DEF RunningTaskHasRun
  <2>1. lastStatus[t] = "running" /\ t # run[s].task /\ (t \in lostTasks => t \in lostTasks')
    BY <1>1 DEF TypeOK, NoStatusWithoutRow, Outcomes
  <2> QED
    BY <1>2, <2>1 DEF RunningTaskHasRun, Marked
<1> QED
  BY <1>3, <1>4, <1>5, <1>6, <1>7

LEMMA FailInv == ASSUME NEW s \in Slots, RunInv, Fail(s) PROVE RunInv'
<1> USE DEF RunInv, Fail, Goto
<1>1. state[s] \in {"insert", "mark", "record", "finish"} /\ run[s] \in Run
  BY DEF TypeOK
<1>2. CASE state[s] \in {"insert", "mark"}
  <2>1. /\ UNCHANGED <<catalog, status, history, run, lost>>
        /\ \A r \in Slots \ {s} : state'[r] = state[r]
        /\ state'[s] = IF state[s] = "insert" THEN "mark" ELSE "exec"
    BY <1>2 DEF TypeOK
  <2>2. TypeOK'
    BY <1>2 DEF TypeOK, RunStates
  <2> HIDE DEF Fail
  <2>3. NoStatusWithoutRow' /\ IdsAreGivenInOrder' /\ OutcomeIsKnown'
    BY <1>2, <2>1, BoundsAssumption
    DEF NoStatusWithoutRow, IdsAreGivenInOrder, OutcomeIsKnown, Open, TypeOK
  <2>4. RunsOwnTheirEntries' /\ RunningEntryHasRun'
    BY <1>2, <2>1 DEF RunsOwnTheirEntries, RunningEntryHasRun, Open, IdsAreGivenInOrder
  <2>5. RunningTaskHasRun'
    BY <1>2, <2>1 DEF RunningTaskHasRun, Marked
  <2> QED
    BY <2>2, <2>3, <2>4, <2>5
<1>3. CASE state[s] = "record"
  <2>1. /\ UNCHANGED <<catalog, status, history, run, lostTasks>>
        /\ lostRuns' = lostRuns \cup ({run[s].id} \cap RunIds)
        /\ \A r \in Slots : state'[r] = IF r = s THEN "finish" ELSE state[r]
    BY <1>3 DEF TypeOK
  <2>2. TypeOK'
    BY <1>3 DEF TypeOK, RunStates
  <2> HIDE DEF Fail
  <2>3. NoStatusWithoutRow' /\ IdsAreGivenInOrder' /\ OutcomeIsKnown'
    BY <1>3, <2>1 DEF NoStatusWithoutRow, IdsAreGivenInOrder, OutcomeIsKnown, Open
  <2>4. RunsOwnTheirEntries' /\ RunningEntryHasRun'
    BY <1>3, <2>1 DEF RunsOwnTheirEntries, RunningEntryHasRun, Open
  <2>5. RunningTaskHasRun'
    BY <1>3, <2>1 DEF RunningTaskHasRun, Marked
  <2> QED
    BY <2>2, <2>3, <2>4, <2>5
<1>4. CASE state[s] = "finish"
  <2>1. /\ UNCHANGED <<catalog, status, history, lostRuns>>
        /\ lostTasks' = lostTasks \cup {run[s].task}
        /\ \A r \in Slots : state'[r] = IF r = s THEN "idle" ELSE state[r]
        /\ \A r \in Slots \ {s} : run'[r] = run[r]
    BY <1>4 DEF TypeOK
  <2>2. TypeOK'
    BY <1>1, <1>4 DEF TypeOK, RunStates, Run
  <2> HIDE DEF Fail
  <2>3. NoStatusWithoutRow' /\ IdsAreGivenInOrder' /\ OutcomeIsKnown'
    BY <1>4, <2>1 DEF NoStatusWithoutRow, IdsAreGivenInOrder, OutcomeIsKnown, Open
  <2>4. RunsOwnTheirEntries' /\ RunningEntryHasRun'
    BY <1>4, <2>1 DEF RunsOwnTheirEntries, RunningEntryHasRun, Open
  <2>5. RunningTaskHasRun'
    BY <1>4, <2>1 DEF RunningTaskHasRun, Marked
  <2> QED
    BY <2>2, <2>3, <2>4, <2>5
<1> QED
  BY <1>1, <1>2, <1>3, <1>4

LEMMA NextInv == RunInv /\ [Next]_vars => RunInv'
<1> SUFFICES ASSUME RunInv, [Next]_vars PROVE RunInv'
  OBVIOUS
<1>1. CASE Start \/ Exit \/ Tick \/ CatalogStep
  BY <1>1, StartInv, ExitInv, TickInv, CatalogInv
<1>2. ASSUME NEW s \in Slots, Proceed(s) PROVE RunInv'
  BY <1>2, AddTaskRunInv, MarkRunningInv, ExecuteInv, UpdateTaskRunInv, FinishInv DEF Proceed
<1>3. ASSUME NEW s \in Slots, Fail(s) PROVE RunInv'
  BY <1>3, FailInv
<1>4. ASSUME NEW s \in Slots, NEW t \in Tasks, Begin(s, t) PROVE RunInv'
  BY <1>4, BeginInv
<1>5. CASE UNCHANGED vars
  BY <1>5 DEF vars, RunInv, TypeOK, NoStatusWithoutRow, IdsAreGivenInOrder, OutcomeIsKnown,
              RunsOwnTheirEntries, RunningEntryHasRun, RunningTaskHasRun, Open, Marked
<1> QED
  BY <1>1, <1>2, <1>3, <1>4, <1>5 DEF Next

(* The inductive invariant holds in every reachable state, for every set   *)
(* of tasks, any number of overlapping runs, faults and restarts.          *)
THEOREM InvariantHolds == Spec => []RunInv
<1>1. Init => RunInv
  BY InitInv
<1>2. RunInv /\ [Next]_vars => RunInv'
  BY NextInv
<1> QED
  BY <1>1, <1>2, PTL DEF Spec

(* Type correctness of the run life cycle.                                 *)
THEOREM TypesHold == Spec => []TypeOK
<1>1. RunInv => TypeOK
  BY DEF RunInv
<1> QED
  BY <1>1, InvariantHolds, PTL

(* A status "running" is accounted for: a run in progress or a lost write  *)
(* (startRun and execRun, engine.go:292 and 378).                          *)
THEOREM RunningTaskHasRunHolds == Spec => []RunningTaskHasRun
<1>1. RunInv => RunningTaskHasRun
  BY DEF RunInv
<1> QED
  BY <1>1, InvariantHolds, PTL

(* Every run finalizes its own entry: ids identify runs although tasks are *)
(* deleted and saved again under them (engine.go:289 and 375).             *)
THEOREM RunsOwnTheirEntriesHolds == Spec => []RunsOwnTheirEntries
<1>1. RunInv => RunsOwnTheirEntries
  BY DEF RunInv
<1> QED
  BY <1>1, InvariantHolds, PTL

(* An entry "running" has a run that will finalize it, or is lost.         *)
THEOREM RunningEntryHasRunHolds == Spec => []RunningEntryHasRun
<1>1. RunInv => RunningEntryHasRun
  BY DEF RunInv
<1> QED
  BY <1>1, InvariantHolds, PTL

(***************************************************************************)
(* TaskRuns implements RunHistory                                          *)
(***************************************************************************)

LEMMA HistoryInit == Init => History!Init
<1> SUFFICES ASSUME Init, NEW i \in RunIds PROVE EntryState(i) = "unused"
  BY DEF History!Init, History!RunIds, RunIds
<1>1. i > lastId
  BY BoundsAssumption DEF Init, RunIds
<1> QED
  BY <1>1 DEF EntryState

LEMMA HistoryStutters ==
  ASSUME UNCHANGED <<hist, lastId>>
  PROVE  UNCHANGED [i \in RunIds |-> EntryState(i)]
BY DEF EntryState

LEMMA HistoryDelete == ASSUME NEW t \in Tasks, RunInv, DeleteTask(t) PROVE History!Next
<1> DEFINE S == {i \in RunIds : hist[i] # Nil /\ hist[i].task = t}
<1>1. \A i \in RunIds : EntryState(i)' = IF i \in S THEN "deleted" ELSE EntryState(i)
  BY DEF EntryState, DeleteTask, RunInv, IdsAreGivenInOrder, TypeOK, RunIds
<1>2. \A i \in S : EntryState(i) # "unused"
  BY DEF EntryState, RunInv, IdsAreGivenInOrder, TypeOK, RunIds, Entry, Outcomes
<1>3. History!Delete(S)
  BY <1>1, <1>2 DEF History!Delete, History!RunIds, RunIds
<1>4. S \in SUBSET History!RunIds
  BY DEF History!RunIds, RunIds
<1> QED
  BY <1>3, <1>4 DEF History!Next

LEMMA HistoryOpen ==
  ASSUME NEW s \in Slots, RunInv, AddTaskRun(s), run[s].task \in stored
  PROVE  History!Next
<1>0. PICK n : n = lastId + 1
  OBVIOUS
<1>1. /\ lastId \in Nat /\ lastId' = n /\ n \in RunIds /\ hist[n] = Nil
      /\ \A i \in RunIds : i # n => hist'[i] = hist[i]
      /\ hist'[n] # Nil /\ hist'[n].outcome = "running"
  <2>1. lastId \in Nat /\ lastId' = n /\ n \in RunIds /\ n # 0
    <3>1. lastId \in 0..MaxRuns
      BY DEF RunInv, TypeOK
    <3>2. lastId < MaxRuns /\ lastId' = lastId + 1
      BY DEF AddTaskRun
    <3> QED
      BY <1>0, <3>1, <3>2, BoundsAssumption DEF RunIds
  <2>2. hist[n] = Nil
    BY <1>0, <2>1 DEF RunInv, IdsAreGivenInOrder
  <2>3. hist' = [hist EXCEPT ![n] = [task |-> run[s].task, time |-> run[s].time,
                                     outcome |-> "running"]]
    BY <2>1 DEF AddTaskRun
  <2>4. [task |-> run[s].task, time |-> run[s].time, outcome |-> "running"] \in Entry
    BY DEF AddTaskRun, RunInv, TypeOK, Run, Entry
  <2> QED
    BY <2>1, <2>2, <2>3, <2>4, NilAssumption DEF RunInv, TypeOK
<1>2. EntryState(n) = "unused" /\ EntryState(n)' = "running"
  BY <1>0, <1>1 DEF EntryState, RunIds
<1>3. \A i \in RunIds : i # n => EntryState(i)' = EntryState(i)
  BY <1>0, <1>1 DEF EntryState, RunIds
<1>4. \A j \in RunIds : j < n => EntryState(j) # "unused"
  BY <1>0, <1>1 DEF EntryState, RunIds, RunInv, TypeOK, Entry, Outcomes
<1>5. History!Open(n)
  BY <1>1, <1>2, <1>3, <1>4 DEF History!Open, History!RunIds, RunIds
<1> QED
  BY <1>1, <1>5 DEF History!Next, History!RunIds, RunIds

LEMMA HistoryFinalize ==
  ASSUME NEW s \in Slots, RunInv, UpdateTaskRun(s)
  PROVE  History!Next \/ UNCHANGED [i \in RunIds |-> EntryState(i)]
<1>1. /\ run[s].outcome \in Outcomes
      /\ \A i \in RunIds :
           \/ hist'[i] = hist[i] /\ (i = run[s].id => hist[i] = Nil)
           \/ /\ i = run[s].id /\ hist[i] \in Entry /\ hist[i].outcome = "running"
              /\ hist'[i] \in Entry /\ hist'[i].outcome = run[s].outcome
  BY UpdateTaskRunWrites
<1>2. lastId' = lastId
  BY DEF UpdateTaskRun
<1>3. CASE \A i \in RunIds : hist'[i] = hist[i]
  BY <1>2, <1>3 DEF EntryState
<1>4. CASE \E i \in RunIds : hist'[i] # hist[i]
  <2>1. PICK i \in RunIds : hist'[i] # hist[i]
    BY <1>4
  <2>2. /\ i = run[s].id /\ hist[i] \in Entry /\ hist[i].outcome = "running"
        /\ hist'[i] \in Entry /\ hist'[i].outcome = run[s].outcome
    BY <1>1, <2>1
  <2>3. i \leq lastId /\ lastId \in Nat /\ i \in Nat
    BY <2>2, NilAssumption DEF RunInv, IdsAreGivenInOrder, TypeOK, RunIds
  <2>4. EntryState(i) = "running" /\ EntryState(i)' = run[s].outcome
    BY <1>2, <2>2, <2>3, NilAssumption DEF EntryState
  <2>5. \A j \in RunIds : j # i => EntryState(j)' = EntryState(j)
    BY <1>1, <1>2, <2>2 DEF EntryState
  <2>6. History!Finalize(i)
    BY <1>1, <2>4, <2>5 DEF History!Finalize, History!RunIds, RunIds, History!Outcomes, Outcomes
  <2> QED
    BY <2>6 DEF History!Next, History!RunIds, RunIds
<1> QED
  BY <1>3, <1>4

LEMMA HistoryNext ==
  RunInv /\ [Next]_vars => [History!Next]_([i \in RunIds |-> EntryState(i)])
<1> SUFFICES ASSUME RunInv, [Next]_vars
             PROVE  History!Next \/ UNCHANGED [i \in RunIds |-> EntryState(i)]
  OBVIOUS
<1>1. CASE Start \/ Exit \/ Tick \/ UNCHANGED vars
  BY <1>1, HistoryStutters DEF Start, Exit, Tick, vars
<1>2. ASSUME NEW t \in Tasks, SaveTask(t) \/ CacheTask(t) \/ UncacheTask(t)
      PROVE  UNCHANGED [i \in RunIds |-> EntryState(i)]
  BY <1>2, HistoryStutters DEF SaveTask, CacheTask, UncacheTask
<1>3. ASSUME NEW t \in Tasks, DeleteTask(t) PROVE History!Next
  BY <1>3, HistoryDelete
<1>4. ASSUME NEW s \in Slots, NEW t \in Tasks, Begin(s, t)
      PROVE  UNCHANGED [i \in RunIds |-> EntryState(i)]
  BY <1>4, HistoryStutters DEF Begin
<1>5. ASSUME NEW s \in Slots, MarkRunning(s) \/ Execute(s) \/ Finish(s) \/ Fail(s)
      PROVE  UNCHANGED [i \in RunIds |-> EntryState(i)]
  BY <1>5, HistoryStutters DEF MarkRunning, Execute, Finish, Fail
<1>6. ASSUME NEW s \in Slots, AddTaskRun(s)
      PROVE  History!Next \/ UNCHANGED [i \in RunIds |-> EntryState(i)]
  <2>1. CASE run[s].task \in stored
    BY <1>6, <2>1, HistoryOpen
  <2>2. CASE run[s].task \notin stored
    BY <1>6, <2>2, HistoryStutters DEF AddTaskRun
  <2> QED
    BY <2>1, <2>2
<1>7. ASSUME NEW s \in Slots, UpdateTaskRun(s)
      PROVE  History!Next \/ UNCHANGED [i \in RunIds |-> EntryState(i)]
  BY <1>7, HistoryFinalize
<1> QED
  BY <1>1, <1>2, <1>3, <1>4, <1>5, <1>6, <1>7 DEF Next, CatalogStep, Proceed

LEMMA FinalStays ==
  RunInv /\ [Next]_vars =>
    \A i \in RunIds : hist[i] # Nil /\ hist[i].outcome # "running" => hist'[i] \in {Nil, hist[i]}
<1> SUFFICES ASSUME RunInv, [Next]_vars, NEW i \in RunIds,
                    hist[i] # Nil, hist[i].outcome # "running"
             PROVE  hist'[i] \in {Nil, hist[i]}
  OBVIOUS
<1>1. ASSUME NEW t \in Tasks, DeleteTask(t) PROVE hist'[i] \in {Nil, hist[i]}
  BY <1>1 DEF DeleteTask
<1>2. ASSUME NEW s \in Slots, AddTaskRun(s) PROVE hist'[i] = hist[i]
  <2>1. i \leq lastId /\ lastId \in Nat /\ i \in Nat
    BY DEF RunInv, IdsAreGivenInOrder, TypeOK, RunIds
  <2> QED
    BY <1>2, <2>1 DEF AddTaskRun, RunInv, TypeOK
<1>3. ASSUME NEW s \in Slots, UpdateTaskRun(s) PROVE hist'[i] = hist[i]
  BY <1>3, UpdateTaskRunWrites
<1>4. ASSUME UNCHANGED hist PROVE hist'[i] = hist[i]
  BY <1>4
<1> QED
  BY <1>1, <1>2, <1>3, <1>4
  DEF Next, CatalogStep, Proceed, Start, Exit, Tick, SaveTask, CacheTask, UncacheTask, Begin,
      MarkRunning, Execute, Finish, Fail, vars

(* No step rewrites the outcome of a finished run (engine.go:375).         *)
THEOREM OutcomeIsFinalHolds == Spec => OutcomeIsFinal
<1>1. RunInv /\ [Next]_vars =>
        [\A i \in RunIds : hist[i] # Nil /\ hist[i].outcome # "running" =>
           hist'[i] \in {Nil, hist[i]}]_vars
  BY FinalStays
<1> QED
  BY <1>1, InvariantHolds, PTL DEF Spec, OutcomeIsFinal

(* The history of runs is append-only and outcomes are final, in whatever  *)
(* order overlapping runs, deletions, crashes and store errors come.       *)
THEOREM HistoryIsImplemented == Spec => ImplementsHistory
<1>1. Init => History!Init
  BY HistoryInit
<1>2. RunInv /\ [Next]_vars => [History!Next]_([i \in RunIds |-> EntryState(i)])
  BY HistoryNext
<1> QED
  BY <1>1, <1>2, InvariantHolds, PTL DEF Spec, ImplementsHistory, History!Spec, History!RunIds, RunIds
=============================================================================
