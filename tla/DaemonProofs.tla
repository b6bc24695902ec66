---------------------------- MODULE DaemonProofs ----------------------------
(***************************************************************************)
(* The invariants of Daemon, for any number of migrations, definitions,    *)
(* editors, streams and calls.  Each part has its inductive invariant; the *)
(* steps of the daemon are steps of one part that leave the others alone,  *)
(* or begin and end the process.                                           *)
(***************************************************************************)
EXTENDS Daemon, TLAPS

(***************************************************************************)
(* The life of the process                                                 *)
(***************************************************************************)

(* Before the process runs, the database is one an earlier version left.   *)
LEMMA StartupBegins == StartupInit => StartupInv
<1> SUFFICES ASSUME StartupInit PROVE StartupInv
  OBVIOUS
<1> USE MigrationsAssumption DEF StartupInit
<1>1. StartupTypes
  <2>1. Closed \in [file : Files \cup {0}, applied : BOOLEAN, noted : BOOLEAN]
    BY DEF Closed
  <2>2. effects \subseteq Files /\ users \in {0, 1}
    BY DEF Files
  <2>3. users \in Nat /\ announced \in Nat /\ untold \in Nat
    BY <2>2
  <2>4. phase = "down" /\ busy = FALSE /\ tx = Closed /\ recorded = effects
    OBVIOUS
  <2> QED
    BY <2>1, <2>2, <2>3, <2>4 DEF StartupTypes
<1>2. SchemaIsWhole
  BY DEF SchemaIsWhole
<1>3. OneAccount /\ TxIsNext
  BY DEF OneAccount, TxIsNext, Closed
<1> QED
  BY <1>1, <1>2, <1>3 DEF StartupInv

(* The first missing file comes right after the recorded ones.             *)
LEMMA FirstPendingIsNext ==
  ASSUME NEW k \in 0..Migrations, recorded = 1..k, NEW f \in Files, FirstPending(f)
  PROVE  f = k + 1
BY MigrationsAssumption DEF FirstPending, Pending, Files

(* The end of the process closes the transaction and no handler is left.   *)
LEMMA GoneKeeps ==
  ASSUME StartupInv, Gone,
         untold' = IF phase = "announce" THEN untold + 1 ELSE untold
  PROVE  StartupInv'
<1> USE MigrationsAssumption DEF StartupInv, Gone, disk
<1>1. StartupTypes'
  <2>1. tx' \in [file : Files \cup {0}, applied : BOOLEAN, noted : BOOLEAN]
    BY DEF Closed
  <2>2. untold' \in Nat
    BY DEF StartupTypes
  <2> QED
    BY <2>1, <2>2 DEF StartupTypes
<1>2. SchemaIsWhole'
  BY DEF SchemaIsWhole
<1>3. TxIsNext'
  BY DEF TxIsNext, Closed
<1>4. OneAccount'
  BY DEF OneAccount, StartupTypes
<1> QED
  BY <1>1, <1>2, <1>3, <1>4

(* Every step of main, and its end at any point, keeps the schema whole    *)
(* and the account single.                                                 *)
LEMMA StartupStep == StartupInv /\ [StartupNext]_startupVars => StartupInv'
<1> SUFFICES ASSUME StartupInv, [StartupNext]_startupVars PROVE StartupInv'
  OBVIOUS
<1> USE MigrationsAssumption
<1>t. StartupTypes /\ SchemaIsWhole /\ OneAccount /\ TxIsNext
  BY DEF StartupInv
<1>1. CASE Launch
  BY <1>1 DEF StartupInv, Launch, disk, StartupTypes, SchemaIsWhole, OneAccount, TxIsNext,
     FirstPending, Pending, Files, Closed
<1>2. CASE BeginFile
  <2>1. PICK f \in Pending : FirstPending(f) /\ tx' = [Closed EXCEPT !.file = f]
    BY <1>2 DEF BeginFile
  <2>2. /\ f \in Files
        /\ tx' = [file |-> f, applied |-> FALSE, noted |-> FALSE]
        /\ FirstPending(f)'
    BY <1>2, <2>1 DEF BeginFile, Pending, FirstPending, Closed, disk
  <2>3. StartupTypes' /\ TxIsNext'
    BY <1>2, <1>t, <2>2 DEF BeginFile, disk, StartupTypes, TxIsNext, Files
  <2> QED
    BY <1>2, <1>t, <2>3 DEF StartupInv, BeginFile, disk, SchemaIsWhole, OneAccount
<1>3. CASE ApplyFile
  <2>1. /\ tx' \in [file : Files \cup {0}, applied : BOOLEAN, noted : BOOLEAN]
        /\ tx'.file = tx.file /\ tx'.applied /\ tx'.noted = tx.noted
    BY <1>3, <1>t DEF ApplyFile, StartupTypes
  <2>2. StartupTypes' /\ SchemaIsWhole' /\ OneAccount'
    BY <1>3, <1>t, <2>1 DEF ApplyFile, disk, StartupTypes, SchemaIsWhole, OneAccount
  <2>3. TxIsNext'
    BY <1>3, <1>t, <2>1 DEF ApplyFile, disk, TxIsNext, FirstPending, Pending, Closed
  <2> QED
    BY <2>2, <2>3 DEF StartupInv
<1>4. CASE RecordFile
  <2>1. /\ tx' \in [file : Files \cup {0}, applied : BOOLEAN, noted : BOOLEAN]
        /\ tx'.file = tx.file /\ tx'.applied = tx.applied
    BY <1>4, <1>t DEF RecordFile, StartupTypes
  <2>2. StartupTypes' /\ SchemaIsWhole' /\ OneAccount'
    BY <1>4, <1>t, <2>1 DEF RecordFile, disk, StartupTypes, SchemaIsWhole, OneAccount
  <2>3. tx # Closed /\ tx.file # 0
    BY <1>4, <1>t DEF RecordFile, TxIsNext, Closed
  <2>4. TxIsNext'
    BY <1>4, <1>t, <2>1, <2>3 DEF RecordFile, disk, TxIsNext, FirstPending, Pending, Closed
  <2> QED
    BY <2>2, <2>4 DEF StartupInv
<1>5. CASE CommitFile
  <2>1. phase = "migrate" /\ tx.file \in Files /\ FirstPending(tx.file)
    BY <1>5, <1>t DEF CommitFile, TxIsNext, StartupTypes, Closed, Files, FirstPending, Pending
  <2>2. PICK k \in 0..Migrations : recorded = 1..k
    BY <1>t DEF SchemaIsWhole
  <2>3. tx.file = k + 1
    BY <2>1, <2>2, FirstPendingIsNext
  <2>4. effects' = 1..(k + 1) /\ recorded' = 1..(k + 1) /\ k + 1 \in 0..Migrations
    BY <1>5, <1>t, <2>1, <2>2, <2>3 DEF CommitFile, SchemaIsWhole, Files
  <2>5. StartupTypes' /\ SchemaIsWhole'
    BY <1>5, <1>t, <2>1, <2>4 DEF CommitFile, StartupTypes, SchemaIsWhole, Files, Closed
  <2>6. OneAccount' /\ TxIsNext'
    BY <1>5, <1>t DEF CommitFile, OneAccount, TxIsNext, Closed
  <2> QED
    BY <2>5, <2>6 DEF StartupInv
<1>6. CASE Migrated
  <2>1. effects' = Files
    BY <1>6, <1>t DEF Migrated, disk, Pending, SchemaIsWhole, StartupTypes
  <2> QED
    BY <1>6, <1>t, <2>1 DEF StartupInv, Migrated, disk, StartupTypes, SchemaIsWhole, OneAccount,
       TxIsNext, Closed
<1>7. CASE CountUsers
  BY <1>7, <1>t DEF StartupInv, CountUsers, disk, StartupTypes, SchemaIsWhole, OneAccount, TxIsNext,
     FirstPending, Pending
<1>8. CASE CreateUser
  BY <1>8, <1>t DEF StartupInv, CreateUser, StartupTypes, SchemaIsWhole, OneAccount, TxIsNext,
     FirstPending, Pending
<1>9. CASE Announce
  BY <1>9, <1>t DEF StartupInv, Announce, disk, StartupTypes, SchemaIsWhole, OneAccount, TxIsNext,
     FirstPending, Pending
<1>10. CASE StartEngine \/ Operate \/ UNCHANGED startupVars
  BY <1>10, <1>t DEF StartupInv, StartEngine, Operate, BeginHandler, EndHandler, Signal, Serving,
     startupVars, disk, StartupTypes, SchemaIsWhole, OneAccount, TxIsNext, FirstPending, Pending
<1>11. CASE End
  BY <1>11, <1>t, GoneKeeps DEF End, Drain, GiveUp, Die, StartupTypes
<1> QED
  BY <1>1, <1>2, <1>3, <1>4, <1>5, <1>6, <1>7, <1>8, <1>9, <1>10, <1>11 DEF StartupNext, Boot

(* Every step of the daemon is a step of main, or leaves main alone.       *)
LEMMA DaemonMovesMain == [Next]_vars => [StartupNext]_startupVars
BY DEF Next, vars, Starts, Serve, Handles, TaskSteps, UnitSteps, StreamSteps, ListSteps,
   Drained, GivenUp, Dies, StartupNext, End

(* Wherever the process was cut off before: the database holds the         *)
(* statements of exactly the recorded files, the first ones, nothing runs  *)
(* on a schema that is not whole, and there is at most one account, which  *)
(* the journal names unless the process ended right before.                *)
THEOREM StartupIsSafe == Spec => []StartupInv
<1>1. Init => StartupInv
  BY StartupBegins DEF Init
<1>2. StartupInv /\ [Next]_vars => StartupInv'
  BY StartupStep, DaemonMovesMain
<1> QED
  BY <1>1, <1>2, PTL DEF Spec

(***************************************************************************)
(* Unit files                                                              *)
(***************************************************************************)

UnitsInv == UnitTypes /\ SavesAlone

PutType == [step : {"idle", "path", "truncated", "written", "done"},
            text : Texts, reload : BOOLEAN, met : BOOLEAN]

(* When one save changes the file, every other one in progress meets it.   *)
LEMMA WritesKeeps ==
  ASSUME UnitsInv, NEW e \in Editors, NEW text \in OnDisk,
         NEW p \in PutType, unit' = text, loaded' \in OnDisk, saves' \in Nat,
         put' = [f \in Editors |-> IF f = e THEN p
                                   ELSE [put[f] EXCEPT !.met = put[f].step # "idle"]],
         p.step = "done" => p.reload,
         ~p.met => /\ p.step = "truncated" => text = Empty
                   /\ p.step \in {"written", "done"} => text = p.text
                   /\ p.step = "done" => loaded' = p.text
  PROVE  UnitsInv'
<1>1. put'[e] = p
  OBVIOUS
<1>2. ASSUME NEW f \in Editors, f # e
      PROVE  /\ put'[f] \in PutType
             /\ put'[f].step = put[f].step /\ put'[f].reload = put[f].reload
             /\ put'[f].met = (put[f].step # "idle")
  BY <1>2 DEF UnitsInv, UnitTypes, PutType
<1>3. UnitTypes'
  <2>1. put' \in [Editors -> PutType]
    BY <1>1, <1>2
  <2> QED
    BY <2>1 DEF UnitTypes, PutType
<1>4. ASSUME NEW f \in Editors
      PROVE  (/\ put[f].step = "done" => put[f].reload
              /\ ~put[f].met =>
                   /\ put[f].step = "truncated" => unit = Empty
                   /\ put[f].step \in {"written", "done"} => unit = put[f].text
                   /\ put[f].step = "done" => loaded = put[f].text)'
  <2>1. CASE f = e
    BY <1>1, <2>1
  <2>2. CASE f # e
    <3>1. put[f].step = "done" => put[f].reload
      BY DEF UnitsInv, SavesAlone
    <3>2. put[f].step # "idle" => put'[f].met
      BY <1>2, <2>2
    <3> QED
      BY <1>2, <2>2, <3>1, <3>2
  <2> QED
    BY <2>1, <2>2
<1> QED
  BY <1>3, <1>4 DEF UnitsInv, SavesAlone

(* A step of one save that leaves the file alone: the others see nothing   *)
(* but, perhaps, a reload of what the file holds.                          *)
LEMMA QuietKeeps ==
  ASSUME UnitsInv, NEW e \in Editors, NEW p \in PutType, unit' = unit, saves' \in Nat,
         loaded' \in {loaded, unit}, put' = [put EXCEPT ![e] = p],
         p.step = "done" => p.reload,
         ~p.met => /\ p.step = "truncated" => unit = Empty
                   /\ p.step \in {"written", "done"} => unit = p.text
                   /\ p.step = "done" => loaded' = p.text
  PROVE  UnitsInv'
<1>1. put' \in [Editors -> PutType] /\ loaded' \in OnDisk
  BY DEF UnitsInv, UnitTypes, PutType
<1>2. UnitTypes'
  BY <1>1 DEF UnitsInv, UnitTypes, PutType
<1>3. ASSUME NEW f \in Editors
      PROVE  (/\ put[f].step = "done" => put[f].reload
              /\ ~put[f].met =>
                   /\ put[f].step = "truncated" => unit = Empty
                   /\ put[f].step \in {"written", "done"} => unit = put[f].text
                   /\ put[f].step = "done" => loaded = put[f].text)'
  <2>1. CASE f = e
    <3>1. put'[f] = p
      BY <2>1 DEF UnitsInv, UnitTypes
    <3> QED
      BY <3>1
  <2>2. CASE f # e
    <3>1. put'[f] = put[f]
      BY <2>2 DEF UnitsInv, UnitTypes
    <3> QED
      BY <3>1 DEF UnitsInv, SavesAlone
  <2> QED
    BY <2>1, <2>2
<1> QED
  BY <1>2, <1>3 DEF UnitsInv, SavesAlone

LEMMA UnitsStep == UnitsInv /\ UnitStep => UnitsInv'
<1> SUFFICES ASSUME UnitsInv, UnitStep PROVE UnitsInv'
  OBVIOUS
<1> USE MaxSavesAssumption
<1>t. /\ unit \in OnDisk /\ loaded \in OnDisk /\ saves \in Nat
      /\ put \in [Editors -> PutType]
  BY DEF UnitsInv, UnitTypes, PutType
<1>i. NoPut \in PutType /\ NoPut.step = "idle"
  BY DEF NoPut, PutType, Texts
<1> PICK e \in Editors :
       \/ SendSave(e) \/ RefuseSave(e) \/ Truncate(e) \/ WriteText(e) \/ WriteFails(e)
       \/ Install(e) \/ Reload(e) \/ ReloadFails(e) \/ FinishSave(e)
  BY DEF UnitStep
<1>e. /\ put[e] \in PutType
      /\ put[e].text \in OnDisk
      /\ \A st \in {"idle", "path", "truncated", "written", "done"} :
           LET q == [put[e] EXCEPT !.step = st]
           IN q \in PutType /\ q.step = st /\ q.text = put[e].text
              /\ q.reload = put[e].reload /\ q.met = put[e].met
  BY <1>t DEF PutType, OnDisk
<1>s. ~put[e].met =>
        /\ put[e].step = "truncated" => unit = Empty
        /\ put[e].step = "written" => unit = put[e].text
  BY DEF UnitsInv, SavesAlone
<1>1. CASE SendSave(e)
  <2>1. PICK reload \in BOOLEAN :
          put' = [put EXCEPT ![e] = [step |-> "path", text |-> saves + 1,
                                     reload |-> reload, met |-> FALSE]]
    BY <1>1 DEF SendSave
  <2> DEFINE p == [step |-> "path", text |-> saves + 1, reload |-> reload, met |-> FALSE]
  <2>2. put' = [put EXCEPT ![e] = p]
    BY <2>1
  <2>0. saves < MaxSaves /\ saves' = saves + 1
    BY <1>1 DEF SendSave
  <2>3. saves + 1 \in Texts /\ saves' \in Nat
    BY <1>t, <2>0, MaxSavesAssumption DEF Texts
  <2>4. p \in PutType /\ p.step = "path"
    BY <2>3 DEF PutType
  <2>5. unit' = unit /\ loaded' = loaded
    BY <1>1 DEF SendSave
  <2> HIDE DEF p
  <2> QED
    BY <2>2, <2>3, <2>4, <2>5, QuietKeeps
<1>2. CASE RefuseSave(e) \/ FinishSave(e)
  BY <1>2, <1>t, <1>i, QuietKeeps DEF RefuseSave, FinishSave, AnswerSave
<1>3. CASE Truncate(e)
  <2> DEFINE p == [put[e] EXCEPT !.step = "truncated"]
  <2>1. p \in PutType /\ p.step = "truncated" /\ Empty \in OnDisk
    BY <1>e DEF OnDisk
  <2>2. /\ unit' = Empty /\ loaded' = loaded /\ saves' = saves
        /\ put' = [f \in Editors |-> IF f = e THEN p
                                      ELSE [put[f] EXCEPT !.met = put[f].step # "idle"]]
    BY <1>3 DEF Truncate, Writes
  <2> HIDE DEF p
  <2> QED
    BY <1>t, <2>1, <2>2, WritesKeeps
<1>4. CASE WriteText(e)
  <2> DEFINE p == [put[e] EXCEPT !.step = "written"]
  <2>1. p \in PutType /\ p.step = "written" /\ p.text = put[e].text /\ p.met = put[e].met
    BY <1>e
  <2>2. PICK text \in {put[e].text} \cup (IF unit = Empty THEN {} ELSE {Torn, unit}) :
          Writes(e, text, "written")
    BY <1>4 DEF WriteText
  <2>3. /\ unit' = text /\ loaded' = loaded /\ saves' = saves
        /\ put' = [f \in Editors |-> IF f = e THEN p
                                      ELSE [put[f] EXCEPT !.met = put[f].step # "idle"]]
    BY <1>4, <2>2 DEF WriteText, Writes
  <2>4. text \in OnDisk /\ (~p.met => text = p.text)
    BY <1>4, <1>t, <1>e, <1>s, <2>1, <2>2 DEF WriteText, OnDisk
  <2> HIDE DEF p
  <2> QED
    BY <1>t, <2>1, <2>3, <2>4, WritesKeeps
<1>5. CASE WriteFails(e)
  <2>1. Torn \in OnDisk
    BY DEF OnDisk
  <2>2. /\ unit' = Torn /\ loaded' = loaded /\ saves' = saves
        /\ put' = [f \in Editors |-> IF f = e THEN NoPut
                                      ELSE [put[f] EXCEPT !.met = put[f].step # "idle"]]
    BY <1>5 DEF WriteFails
  <2> QED
    BY <1>t, <1>i, <2>1, <2>2, WritesKeeps
<1>6. CASE Install(e)
  <2> DEFINE p == [put[e] EXCEPT !.step = "written"]
  <2>1. p \in PutType /\ p.step = "written" /\ p.text = put[e].text /\ p.text \in OnDisk
    BY <1>e
  <2>2. /\ unit' = p.text /\ loaded' = loaded /\ saves' = saves
        /\ put' = [f \in Editors |-> IF f = e THEN p
                                      ELSE [put[f] EXCEPT !.met = put[f].step # "idle"]]
    BY <1>6, <2>1 DEF Install, Writes
  <2> HIDE DEF p
  <2> QED
    BY <1>t, <2>1, <2>2, WritesKeeps
<1>7. CASE Reload(e)
  <2> DEFINE p == [put[e] EXCEPT !.step = "done"]
  <2>1. /\ p \in PutType /\ p.step = "done" /\ p.text = put[e].text
        /\ p.reload = put[e].reload /\ p.met = put[e].met
    BY <1>e
  <2>2. /\ unit' = unit /\ loaded' = unit /\ saves' = saves /\ put[e].reload
        /\ put[e].step = "written" /\ put' = [put EXCEPT ![e] = p]
    BY <1>7 DEF Reload
  <2> HIDE DEF p
  <2> QED
    BY <1>t, <1>s, <2>1, <2>2, QuietKeeps
<1>8. CASE ReloadFails(e)
  BY <1>8, <1>t, <1>i, QuietKeeps DEF ReloadFails
<1> QED
  BY <1>1, <1>2, <1>3, <1>4, <1>5, <1>6, <1>7, <1>8

LEMMA UnitsForgotten == UnitsInv /\ ForgetSaves => UnitsInv'
<1> SUFFICES ASSUME UnitsInv, ForgetSaves PROVE UnitsInv'
  OBVIOUS
<1>1. NoPut \in PutType /\ NoPut.step = "idle"
  BY MaxSavesAssumption DEF NoPut, PutType, Texts
<1>2. put' \in [Editors -> PutType] /\ \A e \in Editors : put'[e].step = "idle"
  BY <1>1 DEF ForgetSaves
<1>3. UnitTypes'
  BY <1>2 DEF UnitsInv, UnitTypes, ForgetSaves, PutType
<1>4. SavesAlone'
  BY <1>2 DEF SavesAlone
<1> QED
  BY <1>3, <1>4 DEF UnitsInv

LEMMA UnitsBegin == UnitsInit => UnitsInv
<1> SUFFICES ASSUME UnitsInit PROVE UnitsInv
  OBVIOUS
<1>1. NoPut \in PutType /\ NoPut.step = "idle" /\ 0 \in OnDisk
  BY MaxSavesAssumption DEF NoPut, PutType, Texts, OnDisk
<1>2. put \in [Editors -> PutType] /\ \A e \in Editors : put[e].step = "idle"
  BY <1>1 DEF UnitsInit
<1>3. UnitTypes
  BY <1>1, <1>2 DEF UnitTypes, UnitsInit, PutType
<1>4. SavesAlone
  BY <1>2 DEF SavesAlone
<1> QED
  BY <1>3, <1>4 DEF UnitsInv

(***************************************************************************)
(* Samplers                                                                *)
(***************************************************************************)

SamplesInv == SampleTypes /\ ReadingsArePast /\ ListsTakeTurns /\ SamplesAddUp
ListsInv == ListsTakeTurns /\ (prev.sure => prev.counted \leq prev.total)

SnapType == [known : BOOLEAN, sure : BOOLEAN, total : Nat, at : Nat, counted : Nat]
ListType == [step : {"idle", "waiting", "reading"}, now : Nat, read : BOOLEAN, total : Nat]

SamplerType == [on : BOOLEAN, cpu : [known : BOOLEAN, total : Nat, busy : Nat],
                rx : Nat, time : Nat]
ToldType == [busy : Nat, busyFrom : Nat, rx : Nat, rxFrom : Nat]

(* What SamplesInv says of one stream: "q" is its sampler, "h" what it has *)
(* told, "b" and "n" are the readings of the machine.                      *)
Adds(q, h, b, n) ==
  /\ q.rx \leq n /\ q.cpu.busy \leq b
  /\ q.on => /\ ~q.cpu.known => h.busy = 0
             /\ q.cpu.known => h.busy = q.cpu.busy - h.busyFrom
             /\ h.rx = q.rx - h.rxFrom

LEMMA SamplesOfEach ==
  SamplesInv <=> /\ SampleTypes /\ ListsInv
                 /\ \A s \in Streams : Adds(sampler[s], told[s], busyTime, bytes)
BY DEF SamplesInv, ReadingsArePast, SamplesAddUp, ListsInv, Adds

(* One stream changes, or the machine moves on; list calls are of no       *)
(* account for the streams.                                                *)
LEMMA StreamKeeps ==
  ASSUME SamplesInv, NEW s \in Streams, NEW q \in SamplerType, NEW h \in ToldType,
         sampler' = [sampler EXCEPT ![s] = q], told' = [told EXCEPT ![s] = h],
         Adds(q, h, busyTime, bytes),
         UNCHANGED <<clock, busyTime, bytes, prev, list>>
  PROVE  SamplesInv'
<1>1. sampler' \in [Streams -> SamplerType] /\ told' \in [Streams -> ToldType]
  BY DEF SamplesInv, SampleTypes, SamplerType, ToldType
<1>2. SampleTypes'
  BY <1>1 DEF SamplesInv, SampleTypes, SamplerType, ToldType
<1>3. ASSUME NEW r \in Streams PROVE Adds(sampler'[r], told'[r], busyTime', bytes')
  <2>1. CASE r = s
    BY <2>1 DEF SamplesInv, SampleTypes
  <2>2. CASE r # s
    BY <2>2, SamplesOfEach DEF SamplesInv, SampleTypes
  <2> QED
    BY <2>1, <2>2
<1>4. ListsInv'
  BY SamplesOfEach DEF ListsInv, ListsTakeTurns
<1> QED
  BY <1>2, <1>3, <1>4 DEF SamplesInv, ReadingsArePast, SamplesAddUp, ListsInv, Adds

(* A step of a list call.                                                  *)
LEMMA ListKeeps ==
  ASSUME SamplesInv, UNCHANGED <<clock, busyTime, bytes, sampler, told>>,
         prev' \in SnapType, NEW c \in Lists, NEW l \in ListType,
         list' = [list EXCEPT ![c] = l], ListsInv'
  PROVE  SamplesInv'
<1>1. SampleTypes'
  BY DEF SamplesInv, SampleTypes, SnapType, ListType
<1> QED
  BY <1>1 DEF SamplesInv, ReadingsArePast, SamplesAddUp, ListsInv

LEMMA TickKeeps == SamplesInv /\ Tick => SamplesInv'
<1> SUFFICES ASSUME SamplesInv, Tick PROVE SamplesInv'
  OBVIOUS
<1>1. /\ clock' = clock + 1 /\ busyTime' \in {busyTime, busyTime + 1}
      /\ bytes' \in {bytes, bytes + 1} /\ UNCHANGED <<sampler, told, prev, list>>
  BY DEF Tick
<1>2. clock \in Nat /\ busyTime \in 0..clock /\ bytes \in 0..clock
  BY DEF SamplesInv, SampleTypes
<1>3. SampleTypes'
  BY <1>1, <1>2 DEF SamplesInv, SampleTypes
<1>4. ReadingsArePast'
  <2>1. \A s \in Streams : sampler[s].rx \in Nat /\ sampler[s].cpu.busy \in Nat
    BY DEF SamplesInv, SampleTypes
  <2> QED
    BY <1>1, <1>2, <2>1 DEF SamplesInv, ReadingsArePast
<1>5. SamplesAddUp'
  BY <1>1 DEF SamplesInv, SamplesAddUp
<1>6. ListsTakeTurns'
  <2>1. /\ prev.total \in Nat /\ prev.counted \in Nat /\ \A c \in Lists : list[c].total \in Nat
        /\ busyTime \in Nat /\ busyTime' \in Nat /\ busyTime \leq busyTime'
    BY <1>1, <1>2 DEF SamplesInv, SampleTypes
  <2> QED
    BY <1>1, <2>1 DEF SamplesInv, ListsTakeTurns
<1> QED
  BY <1>3, <1>4, <1>5, <1>6 DEF SamplesInv

LEMMA OffIsIdle == /\ Off \in SamplerType /\ ~Off.on /\ Off.rx = 0 /\ Off.cpu.busy = 0
                   /\ NothingTold \in ToldType
BY DEF Off, NoReading, SamplerType, NothingTold, ToldType

LEMMA StreamStepKeeps ==
  ASSUME SamplesInv, NEW s \in Streams, Connect(s) \/ Sample(s) \/ Disconnect(s)
  PROVE  SamplesInv'
<1>t. /\ clock \in Nat /\ busyTime \in Nat /\ bytes \in Nat
      /\ sampler \in [Streams -> SamplerType] /\ told \in [Streams -> ToldType]
      /\ Reading \in [known : BOOLEAN, total : Nat, busy : Nat]
      /\ Reading.known /\ Reading.busy = busyTime
      /\ NoReading \in [known : BOOLEAN, total : Nat, busy : Nat]
      /\ ~NoReading.known /\ NoReading.busy = 0
  BY DEF SamplesInv, SampleTypes, SamplerType, ToldType, Reading, NoReading
<1>a. Adds(sampler[s], told[s], busyTime, bytes)
  BY SamplesOfEach
<1>1. CASE Connect(s)
  <2>1. PICK cpuRead \in BOOLEAN, rxRead \in BOOLEAN :
          /\ sampler' = [sampler EXCEPT ![s] =
                            [on |-> TRUE, cpu |-> IF cpuRead THEN Reading ELSE NoReading,
                             rx |-> IF rxRead THEN bytes ELSE 0, time |-> clock]]
          /\ told' = [told EXCEPT ![s] =
                         [busy |-> 0, busyFrom |-> IF cpuRead THEN busyTime ELSE 0,
                          rx |-> 0, rxFrom |-> IF rxRead THEN bytes ELSE 0]]
    BY <1>1 DEF Connect
  <2> DEFINE q == [on |-> TRUE, cpu |-> IF cpuRead THEN Reading ELSE NoReading,
                   rx |-> IF rxRead THEN bytes ELSE 0, time |-> clock]
             h == [busy |-> 0, busyFrom |-> IF cpuRead THEN busyTime ELSE 0,
                   rx |-> 0, rxFrom |-> IF rxRead THEN bytes ELSE 0]
  <2>2. q \in SamplerType
    BY <1>t DEF SamplerType
  <2>3. h \in ToldType
    BY <1>t DEF ToldType
  <2>4. Adds(q, h, busyTime, bytes)
    BY <1>t DEF Adds
  <2>5. UNCHANGED <<clock, busyTime, bytes, prev, list>>
    BY <1>1 DEF Connect
  <2>6. sampler' = [sampler EXCEPT ![s] = q] /\ told' = [told EXCEPT ![s] = h]
    BY <2>1
  <2> HIDE DEF q, h
  <2> QED
    BY <2>2, <2>3, <2>4, <2>5, <2>6, StreamKeeps
<1>2. CASE Sample(s)
  <2>1. PICK cpuRead \in BOOLEAN, rxRead \in BOOLEAN :
       /\ sampler' = [sampler EXCEPT ![s] =
                        [on |-> TRUE, cpu |-> IF cpuRead THEN Reading ELSE sampler[s].cpu,
                         rx |-> IF rxRead THEN bytes ELSE sampler[s].rx, time |-> clock]]
       /\ told' = [told EXCEPT ![s] =
                     [busy |-> told[s].busy + (IF cpuRead THEN BusySince(s) ELSE 0),
                      busyFrom |-> IF cpuRead /\ ~sampler[s].cpu.known THEN busyTime
                                   ELSE told[s].busyFrom,
                      rx |-> told[s].rx + (IF rxRead THEN bytes - sampler[s].rx ELSE 0),
                      rxFrom |-> told[s].rxFrom]]
    BY <1>2 DEF Sample
  <2> DEFINE q == [on |-> TRUE, cpu |-> IF cpuRead THEN Reading ELSE sampler[s].cpu,
                   rx |-> IF rxRead THEN bytes ELSE sampler[s].rx, time |-> clock]
             h == [busy |-> told[s].busy + (IF cpuRead THEN BusySince(s) ELSE 0),
                   busyFrom |-> IF cpuRead /\ ~sampler[s].cpu.known THEN busyTime
                                ELSE told[s].busyFrom,
                   rx |-> told[s].rx + (IF rxRead THEN bytes - sampler[s].rx ELSE 0),
                   rxFrom |-> told[s].rxFrom]
  <2>t. /\ sampler[s].on \in BOOLEAN /\ sampler[s].cpu \in [known : BOOLEAN, total : Nat, busy : Nat]
        /\ sampler[s].cpu.known \in BOOLEAN /\ sampler[s].cpu.busy \in Nat /\ sampler[s].rx \in Nat
        /\ told[s].busy \in Nat /\ told[s].busyFrom \in Nat
        /\ told[s].rx \in Nat /\ told[s].rxFrom \in Nat
    BY <1>t DEF SamplerType, ToldType
  <2>b. BusySince(s) = IF sampler[s].cpu.known THEN busyTime - sampler[s].cpu.busy ELSE 0
    BY DEF BusySince
  <2>2. q \in SamplerType
    BY <1>t, <2>t DEF SamplerType
  <2>3. h \in ToldType
    BY <1>t, <1>a, <2>t, <2>b DEF ToldType, Adds
  <2>4. Adds(q, h, busyTime, bytes)
    <3>1. sampler[s].on
      BY <1>2 DEF Sample
    <3> QED
      BY <1>t, <1>a, <2>t, <2>b, <3>1 DEF Adds
  <2>5. UNCHANGED <<clock, busyTime, bytes, prev, list>>
    BY <1>2 DEF Sample
  <2>6. sampler' = [sampler EXCEPT ![s] = q]
    BY <2>1
  <2>7. told' = [told EXCEPT ![s] = h]
    BY <2>1
  <2> HIDE DEF q, h
  <2> QED
    BY <2>2, <2>3, <2>4, <2>5, <2>6, <2>7, StreamKeeps
<1>3. CASE Disconnect(s)
  <2>1. /\ sampler' = [sampler EXCEPT ![s] = Off] /\ told' = [told EXCEPT ![s] = NothingTold]
        /\ UNCHANGED <<clock, busyTime, bytes, prev, list>>
    BY <1>3 DEF Disconnect
  <2>2. Adds(Off, NothingTold, busyTime, bytes)
    BY <1>t, OffIsIdle DEF Adds
  <2> QED
    BY <2>1, <2>2, OffIsIdle, StreamKeeps
<1> QED
  BY <1>1, <1>2, <1>3

LEMMA ListStepKeeps ==
  ASSUME SamplesInv, NEW c \in Lists, BeginList(c) \/ ReadList(c) \/ EndList(c)
  PROVE  SamplesInv'
<1>t. /\ clock \in Nat /\ busyTime \in Nat
      /\ list \in [Lists -> ListType] /\ list[c] \in ListType
      /\ list[c].now \in Nat /\ list[c].read \in BOOLEAN /\ list[c].total \in Nat
      /\ prev \in SnapType /\ prev.known \in BOOLEAN /\ prev.sure \in BOOLEAN
      /\ prev.total \in Nat /\ prev.at \in Nat /\ prev.counted \in Nat
  BY DEF SamplesInv, SampleTypes, SnapType, ListType
<1>i. /\ ListsTakeTurns
      /\ prev.sure => prev.counted \leq prev.total
  BY DEF SamplesInv, SamplesAddUp
<1>1. CASE BeginList(c)
  <2> DEFINE l == [NoList EXCEPT !.step = "waiting", !.now = clock]
  <2>1. l \in ListType /\ l.step = "waiting"
    BY <1>t DEF NoList, ListType
  <2>2. /\ list' = [list EXCEPT ![c] = l]
        /\ UNCHANGED <<clock, busyTime, bytes, sampler, told>> /\ prev' = prev
    BY <1>1 DEF BeginList
  <2> HIDE DEF l
  <2>3. ListsInv'
    BY <1>t, <1>i, <2>1, <2>2 DEF ListsInv, ListsTakeTurns
  <2> QED
    BY <1>t, <2>1, <2>2, <2>3, ListKeeps
<1>2. CASE ReadList(c)
  <2>1. PICK ok \in BOOLEAN :
          list' = [list EXCEPT ![c].step = "reading", ![c].read = ok,
                               ![c].total = IF ok THEN busyTime ELSE 0]
    BY <1>2 DEF ReadList
  <2> DEFINE l == [list[c] EXCEPT !.step = "reading", !.read = ok,
                                  !.total = IF ok THEN busyTime ELSE 0]
  <2>2. /\ l \in ListType /\ l.step = "reading" /\ l.read = ok
        /\ l.total = IF ok THEN busyTime ELSE 0
    BY <1>t DEF ListType
  <2>3. /\ list' = [list EXCEPT ![c] = l]
        /\ UNCHANGED <<clock, busyTime, bytes, sampler, told>> /\ prev' = prev
        /\ \A d \in Lists : list[d].step # "reading"
    BY <1>2, <1>t, <2>1 DEF ReadList
  <2> HIDE DEF l
  <2>4. ListsInv'
    BY <1>t, <1>i, <2>2, <2>3 DEF ListsInv, ListsTakeTurns
  <2> QED
    BY <1>t, <2>2, <2>3, <2>4, ListKeeps
<1>3. CASE EndList(c)
  <2> DEFINE total == list[c].total
             used == IF prev.known /\ list[c].now > prev.at /\ total > prev.total
                       THEN total - prev.total ELSE 0
             counts == prev.counted + (IF prev.sure /\ list[c].read THEN used ELSE 0)
             snap == [known |-> TRUE, sure |-> list[c].read, total |-> total,
                      at |-> list[c].now, counted |-> counts]
  <2>1. /\ prev' = snap /\ list' = [list EXCEPT ![c] = NoList]
        /\ UNCHANGED <<clock, busyTime, bytes, sampler, told>>
        /\ list[c].step = "reading"
    BY <1>3 DEF EndList
  <2>2. /\ used \in Nat /\ counts \in Nat
        /\ list[c].read => counts \leq total
        /\ ~list[c].read => counts = prev.counted
    <3>1. list[c].read => prev.total \leq total /\ prev.counted \leq total
      BY <1>i, <2>1 DEF ListsTakeTurns
    <3> QED
      BY <1>t, <1>i, <3>1
  <2>3. NoList \in ListType /\ NoList.step = "idle"
    BY DEF NoList, ListType
  <2>4. snap \in SnapType
    BY <1>t, <2>2 DEF SnapType
  <2>5. /\ prev'.total = total /\ prev'.counted = counts /\ prev'.sure = list[c].read
    BY <2>1
  <2>6. total \leq busyTime /\ prev.counted \leq busyTime /\ total \in Nat
    BY <1>t, <1>i, <2>1 DEF ListsTakeTurns
  <2>7. \A d \in Lists : list'[d].step # "reading"
    BY <1>t, <1>i, <2>1, <2>3 DEF ListsTakeTurns
  <2> HIDE DEF total, used, counts, snap
  <2>8. ListsInv'
    <3>1. prev'.total \leq busyTime' /\ prev'.counted \leq busyTime'
      BY <1>t, <2>1, <2>2, <2>5, <2>6
    <3>2. prev'.sure => prev'.counted \leq prev'.total
      BY <2>2, <2>5
    <3> QED
      BY <2>7, <3>1, <3>2 DEF ListsInv, ListsTakeTurns
  <2> QED
    BY <2>1, <2>3, <2>4, <2>8, ListKeeps
<1> QED
  BY <1>1, <1>2, <1>3

LEMMA SamplesForgotten == SamplesInv /\ ForgetSamples => SamplesInv'
<1> SUFFICES ASSUME SamplesInv, ForgetSamples PROVE SamplesInv'
  OBVIOUS
<1>1. /\ sampler' = [s \in Streams |-> Off] /\ told' = [s \in Streams |-> NothingTold]
      /\ prev' = NoSnap /\ list' = [c \in Lists |-> NoList]
      /\ UNCHANGED <<clock, busyTime, bytes>>
  BY DEF ForgetSamples
<1>2. SampleTypes'
  <2>1. sampler' \in [Streams -> SamplerType] /\ told' \in [Streams -> ToldType]
    BY <1>1, OffIsIdle
  <2>2. prev' \in SnapType
    BY <1>1 DEF NoSnap, SnapType
  <2>3. list' \in [Lists -> ListType]
    BY <1>1 DEF NoList, ListType
  <2> QED
    BY <1>1, <2>1, <2>2, <2>3 DEF SamplesInv, SampleTypes, SamplerType, ToldType,
       SnapType, ListType
<1>3. ReadingsArePast' /\ ListsTakeTurns' /\ SamplesAddUp'
  <2>1. busyTime \in Nat /\ bytes \in Nat
    BY DEF SamplesInv, SampleTypes
  <2> QED
    BY <1>1, <2>1, OffIsIdle DEF ReadingsArePast, ListsTakeTurns, SamplesAddUp, NoSnap, NoList
<1> QED
  BY <1>2, <1>3 DEF SamplesInv

LEMMA SamplesBegin == SamplesInit => SamplesInv
<1> SUFFICES ASSUME SamplesInit PROVE SamplesInv
  OBVIOUS
<1>1. /\ clock = 0 /\ busyTime = 0 /\ bytes = 0 /\ sampler = [s \in Streams |-> Off]
      /\ told = [s \in Streams |-> NothingTold] /\ prev = NoSnap /\ list = [c \in Lists |-> NoList]
  BY DEF SamplesInit
<1>2. SampleTypes
  <2>1. sampler \in [Streams -> SamplerType] /\ told \in [Streams -> ToldType]
    BY <1>1, OffIsIdle
  <2>2. prev \in SnapType
    BY <1>1 DEF NoSnap, SnapType
  <2>3. list \in [Lists -> ListType]
    BY <1>1 DEF NoList, ListType
  <2> QED
    BY <1>1, <2>1, <2>2, <2>3 DEF SampleTypes, SamplerType, ToldType, SnapType, ListType
<1>3. ReadingsArePast /\ ListsTakeTurns /\ SamplesAddUp
  BY <1>1, OffIsIdle DEF ReadingsArePast, ListsTakeTurns, SamplesAddUp, NoSnap, NoList
<1> QED
  BY <1>2, <1>3 DEF SamplesInv

(***************************************************************************)
(* Every step of the daemon, for each part                                 *)
(***************************************************************************)

LEMMA DaemonMovesUnits == [Next]_vars => UnitStep \/ ForgetSaves \/ UNCHANGED unitVars
BY DEF Next, vars, Starts, Serve, Handles, PartsStay, TaskSteps, UnitSteps, StreamSteps,
   ListSteps, Drained, GivenUp, Dies, Forget

LEMMA DaemonMovesSamples ==
  [Next]_vars => Tick \/ StreamStep \/ ListStep \/ ForgetSamples \/ UNCHANGED sampleVars
BY DEF Next, vars, Starts, Serve, Handles, PartsStay, TaskSteps, UnitSteps, StreamSteps,
   ListSteps, Drained, GivenUp, Dies, Forget

LEMMA UnitsInvStep == UnitsInv /\ [Next]_vars => UnitsInv'
<1> SUFFICES ASSUME UnitsInv, [Next]_vars PROVE UnitsInv'
  OBVIOUS
<1>1. CASE UNCHANGED unitVars
  BY <1>1 DEF unitVars, UnitsInv, UnitTypes, SavesAlone
<1> QED
  BY <1>1, UnitsStep, UnitsForgotten, DaemonMovesUnits

LEMMA SamplesInvStep == SamplesInv /\ [Next]_vars => SamplesInv'
<1> SUFFICES ASSUME SamplesInv, [Next]_vars PROVE SamplesInv'
  OBVIOUS
<1>1. CASE UNCHANGED sampleVars
  BY <1>1 DEF sampleVars, SamplesInv, SampleTypes, ReadingsArePast, ListsTakeTurns, SamplesAddUp
<1>2. CASE StreamStep
  BY <1>2, StreamStepKeeps DEF StreamStep
<1>3. CASE ListStep
  BY <1>3, ListStepKeeps DEF ListStep
<1> QED
  BY <1>1, <1>2, <1>3, TickKeeps, SamplesForgotten, DaemonMovesSamples

LEMMA UnitsAreSafe == Spec => []UnitsInv
<1>1. Init => UnitsInv
  BY UnitsBegin DEF Init
<1>2. UnitsInv /\ [Next]_vars => UnitsInv'
  BY UnitsInvStep
<1> QED
  BY <1>1, <1>2, PTL DEF Spec

(* Saves of a unit file by any number of administrators at once, with      *)
(* failures and the end of the process anywhere: what a save reports as    *)
(* done is in effect, unless another save has written the file meanwhile.  *)
THEOREM SavesTakeEffect == Spec => []SavedIsInEffect
<1>1. UnitsInv => SavedIsInEffect
  BY DEF UnitsInv, SavesAlone, SavedIsInEffect, Saved
<1> QED
  BY <1>1, UnitsAreSafe, PTL

LEMMA SamplesAreSafe == Spec => []SamplesInv
<1>1. Init => SamplesInv
  BY SamplesBegin DEF Init
<1>2. SamplesInv /\ [Next]_vars => SamplesInv'
  BY SamplesInvStep
<1> QED
  BY <1>1, <1>2, PTL DEF Spec

(* Whatever other streams, reconnections and failed readings do, the       *)
(* samples of a stream add up to what the machine did meanwhile.           *)
THEOREM StreamsAddUp == Spec => []SamplesAddUp
<1>1. SamplesInv => SamplesAddUp
  BY DEF SamplesInv
<1> QED
  BY <1>1, SamplesAreSafe, PTL

(***************************************************************************)
(* Definitions of tasks                                                    *)
(***************************************************************************)

TriggersOrNone == Triggers \cup {None}
PageFields == [task : TaskIds \cup {None}, seen : [TaskIds -> Task \cup {None}],
               draft : Task \cup {None}, new : TaskIds \cup {None}]
PageType == {v \in PageFields : v.draft # None => v.task # None}

(* A stored definition is sound, or an old one.                            *)
Fine(d) == Sound(d) \/ \E o \in OldTasks : d = [o EXCEPT !.enabled = d.enabled]

TasksInv == /\ TaskTypes
            /\ \A t \in TaskIds : row[t] # None => Fine(row[t])
            /\ Running => cached = row

(* A rung, normalized, is a rung; it has an ID.                            *)
LEMMA NormalRung ==
  ASSUME NEW r \in Rung, NEW id \in RungIds, NEW legacy \in TriggersOrNone
  PROVE  LET q == [r EXCEPT !.id = IF @ = None THEN id ELSE @,
                            !.match = IF @ = "unset" THEN "all" ELSE @,
                            !.trigger = NormalTrigger(@, legacy)]
         IN q \in Rung /\ q.id # None
<1>1. /\ r.id \in RungIds \cup {None} /\ r.match \in {"all", "any", "unset", "unknown"}
      /\ r.trigger \in TriggersOrNone
  BY DEF Rung, TriggersOrNone
<1>2. NormalTrigger(r.trigger, legacy) \in TriggersOrNone
  BY <1>1 DEF NormalTrigger, TriggersOrNone
<1>3. None \notin RungIds
  BY DefinitionsAssumption
<1> HIDE DEF NormalTrigger
<1> QED
  BY <1>1, <1>2, <1>3 DEF Rung, TriggersOrNone

(* A task, normalized, is a task, and sound if it is valid.                *)
LEMMA NormalTask ==
  ASSUME NEW d \in Task, NEW newIds \in NewIds(d)
  PROVE  /\ Normalize(d, newIds) \in Task
         /\ Valid(Normalize(d, newIds)) => Sound(Normalize(d, newIds))
<1> DEFINE q(i) == [d.rungs[i] EXCEPT
                      !.id = IF @ = None THEN newIds[i] ELSE @,
                      !.match = IF @ = "unset" THEN "all" ELSE @,
                      !.trigger = NormalTrigger(@, d.legacy)]
           rungs == [i \in DOMAIN d.rungs |-> q(i)]
           n == Normalize(d, newIds)
<1>1. /\ d.rungs \in Seq(Rung) /\ d.legacy \in TriggersOrNone
      /\ newIds \in [Unnamed(d) -> RungIds]
  BY DEF Task, NewIds, TriggersOrNone
<1>2. ASSUME NEW i \in DOMAIN d.rungs PROVE q(i) \in Rung /\ q(i).id # None
  <2>1. d.rungs[i] \in Rung
    BY <1>1
  <2>2. CASE d.rungs[i].id = None
    <3>1. newIds[i] \in RungIds
      BY <1>1, <2>2 DEF Unnamed
    <3> QED
      BY <1>1, <2>1, <3>1, NormalRung
  <2>3. CASE d.rungs[i].id # None
    <3>1. d.rungs[i].id \in RungIds
      BY <2>1, <2>3 DEF Rung
    <3> DEFINE same == [d.rungs[i] EXCEPT
                          !.id = IF @ = None THEN d.rungs[i].id ELSE @,
                          !.match = IF @ = "unset" THEN "all" ELSE @,
                          !.trigger = NormalTrigger(@, d.legacy)]
    <3>2. q(i) = same
      BY <2>3
    <3>3. same \in Rung /\ same.id # None
      BY <1>1, <2>1, <3>1, NormalRung
    <3> HIDE DEF q, same
    <3> QED
      BY <3>2, <3>3
  <2> QED
    BY <2>2, <2>3
<1> HIDE DEF q
<1>3. rungs \in Seq(Rung)
  <2>1. rungs \in [1..Len(d.rungs) -> Rung] /\ Len(d.rungs) \in Nat
    BY <1>1, <1>2
  <2> HIDE DEF rungs
  <2> QED
    BY <2>1
<1>4. n = [d EXCEPT !.legacy = None, !.rungs = rungs]
  BY DEF Normalize, q
<1>5. n \in Task /\ n.legacy = None /\ n.rungs = rungs
  BY <1>1, <1>3, <1>4 DEF Task
<1>6. ASSUME Valid(n) PROVE Sound(n)
  <2>1. \A i \in DOMAIN n.rungs : n.rungs[i].id # None
    BY <1>2, <1>5
  <2> HIDE DEF n
  <2> QED
    BY <1>5, <1>6, <2>1 DEF Valid, Sound
<1> QED
  BY <1>5, <1>6

LEMMA ShowKeeps ==
  ASSUME page \in [Panels -> PageType], NEW p \in Panels, NEW v \in PageType, Show(p, v)
  PROVE  page' \in [Panels -> PageType]
BY DEF Show

(* One definition changes, in the table and in memory alike.               *)
LEMMA WriteKeeps ==
  ASSUME TasksInv, Running, phase' = phase, page' \in [Panels -> PageType],
         NEW t \in TaskIds, NEW d \in Task \cup {None}, d # None => Fine(d),
         row' = [row EXCEPT ![t] = d], cached' = [cached EXCEPT ![t] = d]
  PROVE  TasksInv'
<1>1. TaskTypes'
  BY DEF TasksInv, TaskTypes, PageType, PageFields
<1>2. ASSUME NEW u \in TaskIds, row'[u] # None PROVE Fine(row'[u])
  <2>1. CASE u = t
    BY <1>2, <2>1 DEF TasksInv, TaskTypes
  <2>2. CASE u # t
    BY <1>2, <2>2 DEF TasksInv, TaskTypes
  <2> QED
    BY <2>1, <2>2
<1>3. cached' = row'
  BY DEF TasksInv
<1> QED
  BY <1>1, <1>2, <1>3 DEF TasksInv

(* Only pages change.                                                      *)
LEMMA FormKeeps ==
  ASSUME TasksInv, phase' = phase, page' \in [Panels -> PageType],
         UNCHANGED <<row, cached>>
  PROVE  TasksInv'
BY DEF TasksInv, TaskTypes, PageType, PageFields, Running, Fine

LEMMA StoresKeeps ==
  ASSUME TasksInv, Running, phase' = phase, page' \in [Panels -> PageType],
         NEW t \in TaskIds, NEW d \in Task, Stores(t, d)
  PROVE  TasksInv'
<1> PICK newIds \in NewIds(d) : Valid(Normalize(d, newIds)) /\ Upsert(t, Normalize(d, newIds))
  BY DEF Stores
<1>1. Normalize(d, newIds) \in Task /\ Fine(Normalize(d, newIds))
  BY NormalTask DEF Fine
<1> QED
  BY <1>1, WriteKeeps DEF Upsert

LEMMA EraseKeeps ==
  ASSUME TasksInv, Running, phase' = phase, page' \in [Panels -> PageType],
         NEW t \in TaskIds, Erase(t)
  PROVE  TasksInv'
BY WriteKeeps DEF Erase

(* A request, while the daemon runs.                                       *)
LEMMA RequestKeeps ==
  ASSUME TasksInv, Running, phase' = phase, TaskRequest
  PROVE  TasksInv'
<1>t. /\ page \in [Panels -> PageType] /\ row \in [TaskIds -> Task \cup {None}]
      /\ cached = row
  BY DEF TasksInv, TaskTypes, PageType, PageFields
<1>o. /\ None \notin TaskIds /\ None \notin Task
  BY DefinitionsAssumption
<1>1. CASE Send
  <2>1. PICK t \in TaskIds, d \in SentTasks : Stores(t, d) /\ UNCHANGED page
    BY <1>1 DEF Send
  <2>2. d \in Task
    BY DefinitionsAssumption
  <2> QED
    BY <1>t, <2>1, <2>2, StoresKeeps
<1>2. CASE SendDelete
  BY <1>2, <1>t, EraseKeeps DEF SendDelete
<1>3. CASE SetTaskEnabled
  <2>1. PICK t \in TaskIds, e \in BOOLEAN :
          row' = WithEnabled(row, t, e) /\ cached' = WithEnabled(cached, t, e)
    BY <1>3 DEF SetTaskEnabled
  <2> DEFINE d == IF row[t] = None THEN None ELSE [row[t] EXCEPT !.enabled = e]
  <2>2. page' = page /\ row' = [row EXCEPT ![t] = d] /\ cached' = [cached EXCEPT ![t] = d]
    BY <1>3, <1>t, <2>1 DEF SetTaskEnabled, WithEnabled
  <2>3. d \in Task \cup {None}
    BY <1>t DEF Task
  <2>4. d # None => Fine(d)
    <3>1. SUFFICES ASSUME row[t] # None PROVE Fine(d)
      OBVIOUS
    <3>2. Fine(row[t]) /\ row[t] \in Task
      BY <1>t, <3>1 DEF TasksInv
    <3>3. /\ d.named = row[t].named /\ d.legacy = row[t].legacy /\ d.rungs = row[t].rungs
          /\ d.enabled = e /\ d = [row[t] EXCEPT !.enabled = e]
      BY <3>1, <3>2 DEF Task
    <3>4. CASE Sound(row[t])
      <4> HIDE DEF d
      <4> QED
        BY <3>3, <3>4 DEF Sound, Fine, Ids
    <3>5. CASE \E o \in OldTasks : row[t] = [o EXCEPT !.enabled = row[t].enabled]
      <4>1. PICK o \in OldTasks : row[t] = [o EXCEPT !.enabled = row[t].enabled]
        BY <3>5
      <4>2. o \in Task
        BY DefinitionsAssumption
      <4>3. d = [o EXCEPT !.enabled = e]
        BY <3>3, <4>1, <4>2 DEF Task
      <4> HIDE DEF d
      <4> QED
        BY <3>3, <4>3 DEF Fine
    <3> QED
      BY <3>2, <3>4, <3>5 DEF Fine
  <2> HIDE DEF d
  <2> QED
    BY <1>t, <2>2, <2>3, <2>4, WriteKeeps
<1>4. ASSUME NEW p \in Panels, NewTask(p) \/ Load(p) \/ Save(p) \/ Delete(p)
      PROVE  TasksInv'
  <2>p. /\ page[p] \in PageType /\ page[p].task \in TaskIds \cup {None}
        /\ page[p].draft \in Task \cup {None}
        /\ page[p].draft # None => page[p].task \in TaskIds
        /\ page[p].seen \in [TaskIds -> Task \cup {None}]
    BY <1>t DEF PageType, PageFields
  <2>1. CASE NewTask(p)
    <3> DEFINE d == [named |-> TRUE, enabled |-> FALSE, legacy |-> None, rungs |-> <<>>]
    <3>1. PICK t \in TaskIds :
            /\ Upsert(t, d)
            /\ Show(p, [page[p] EXCEPT !.task = t, !.new = t, !.draft = None])
      BY <2>1 DEF NewTask
    <3>2. d \in Task /\ d.named /\ d.legacy = None /\ d.rungs = <<>>
      BY DEF Task
    <3> HIDE DEF d
    <3>3. Fine(d)
      BY <3>2 DEF Fine, Sound
    <3>4. [page[p] EXCEPT !.task = t, !.new = t, !.draft = None] \in PageType
      BY <2>p DEF PageType, PageFields
    <3>5. page' \in [Panels -> PageType]
      BY <1>t, <3>1, <3>4, ShowKeeps
    <3> QED
      BY <3>1, <3>2, <3>3, <3>5, WriteKeeps DEF Upsert
  <2>2. CASE Load(p)
    <3> DEFINE t == page[p].task
               d == row[t]
               v == [page[p] EXCEPT !.seen[t] = d]
    <3>1. t \in TaskIds /\ d \in Task
      BY <1>t, <2>p, <2>2 DEF Load
    <3>2. v \in PageType /\ v.draft = page[p].draft /\ v.task = t
      <4>1. [page[p].seen EXCEPT ![t] = d] \in [TaskIds -> Task \cup {None}]
        BY <2>p, <3>1
      <4>2. v = [page[p] EXCEPT !.seen = [page[p].seen EXCEPT ![t] = d]]
        BY <2>p, <3>1 DEF PageType, PageFields
      <4> HIDE DEF v
      <4> QED
        BY <2>p, <4>1, <4>2 DEF PageType, PageFields
    <3>3. /\ Show(p, IF Shown(p) = None THEN Opens(v, d) ELSE v)
          /\ UNCHANGED <<row, cached>>
      BY <2>2 DEF Load
    <3> HIDE DEF v, d
    <3>4. Opens(v, d) \in PageType
      BY <1>o, <3>1, <3>2 DEF Opens, PageType, PageFields
    <3>5. page' \in [Panels -> PageType]
      BY <1>t, <3>2, <3>3, <3>4, ShowKeeps
    <3> QED
      BY <3>3, <3>5, FormKeeps
  <2>3. CASE Save(p)
    <3>1. /\ page[p].task \in TaskIds /\ page[p].draft \in Task
          /\ Stores(page[p].task, page[p].draft)
          /\ Show(p, [page[p] EXCEPT !.draft = None, !.new = None])
      BY <2>p, <2>3 DEF Save
    <3>2. [page[p] EXCEPT !.draft = None, !.new = None] \in PageType
      BY <2>p DEF PageType, PageFields
    <3>3. page' \in [Panels -> PageType]
      BY <1>t, <3>1, <3>2, ShowKeeps
    <3> QED
      BY <3>1, <3>3, StoresKeeps
  <2>4. CASE Delete(p)
    <3>1. /\ page[p].task \in TaskIds /\ Erase(page[p].task)
          /\ Show(p, [page[p] EXCEPT !.task = None, !.new = None, !.draft = None])
      BY <2>p, <2>4 DEF Delete, Shown
    <3>2. [page[p] EXCEPT !.task = None, !.new = None, !.draft = None] \in PageType
      BY <2>p DEF PageType, PageFields
    <3>3. page' \in [Panels -> PageType]
      BY <1>t, <3>1, <3>2, ShowKeeps
    <3> QED
      BY <3>1, <3>3, EraseKeeps
  <2> QED
    BY <1>4, <2>1, <2>2, <2>3, <2>4
<1> QED
  BY <1>1, <1>2, <1>3, <1>4 DEF TaskRequest

(* What a page does by itself.                                             *)
LEMMA TaskFormKeeps ==
  ASSUME TasksInv, phase' = phase, TaskForm
  PROVE  TasksInv'
<1> PICK p \in Panels : Select(p) \/ BeginEdit(p) \/ Edit(p) \/ CancelEdit(p)
  BY DEF TaskForm
<1>t. page \in [Panels -> PageType]
  BY DEF TasksInv, TaskTypes, PageType, PageFields
<1>p. /\ page[p] \in PageType /\ page[p].task \in TaskIds \cup {None}
      /\ page[p].draft \in Task \cup {None}
      /\ page[p].draft # None => page[p].task # None
      /\ page[p].seen \in [TaskIds -> Task \cup {None}]
  BY <1>t DEF PageType, PageFields
<1>o. None \notin TaskIds /\ None \notin Task
  BY DefinitionsAssumption
<1>u. UNCHANGED <<row, cached>>
  BY DEF Select, BeginEdit, Edit, CancelEdit
<1>1. CASE Select(p)
  <2>0. PICK t \in TaskIds : \E d \in {None, page[p].seen[t]} :
          Show(p, Opens([page[p] EXCEPT !.task = t, !.seen[t] = d, !.draft = None], d))
    BY <1>1 DEF Select
  <2>1. PICK d \in {None, page[p].seen[t]} :
          Show(p, Opens([page[p] EXCEPT !.task = t, !.seen[t] = d, !.draft = None], d))
    BY <2>0
  <2> DEFINE v == [page[p] EXCEPT !.task = t, !.seen[t] = d, !.draft = None]
  <2>2. d \in Task \cup {None}
    BY <1>p
  <2>3. [page[p].seen EXCEPT ![t] = d] \in [TaskIds -> Task \cup {None}]
    BY <1>p, <2>2
  <2>4. v = [page[p] EXCEPT !.task = t, !.seen = [page[p].seen EXCEPT ![t] = d], !.draft = None]
    BY <1>p DEF PageType, PageFields
  <2>5. v \in PageType /\ v.task = t
    <3> HIDE DEF v
    <3> QED
      BY <1>p, <2>3, <2>4 DEF PageType, PageFields
  <2> HIDE DEF v
  <2>6. Opens(v, d) \in PageType
    BY <1>o, <2>2, <2>5 DEF Opens, PageType, PageFields
  <2>7. Show(p, Opens(v, d))
    BY <2>1 DEF v
  <2>8. page' \in [Panels -> PageType]
    BY <1>t, <2>6, <2>7, ShowKeeps
  <2> QED
    BY <1>u, <2>8, FormKeeps
<1>2. CASE BeginEdit(p)
  <2>1. Shown(p) \in Task /\ page[p].task \in TaskIds
    BY <1>2, <1>p DEF BeginEdit, Shown
  <2>2. [page[p] EXCEPT !.draft = Shown(p)] \in PageType
    BY <1>o, <1>p, <2>1 DEF PageType, PageFields
  <2>3. page' \in [Panels -> PageType]
    BY <1>2, <1>t, <2>2, ShowKeeps DEF BeginEdit
  <2> QED
    BY <1>u, <2>3, FormKeeps
<1>3. CASE Edit(p)
  <2>1. PICK named \in BOOLEAN, rungs \in EditedRungs :
          Show(p, [page[p] EXCEPT !.draft.named = named, !.draft.rungs = rungs])
    BY <1>3 DEF Edit
  <2> DEFINE d == [page[p].draft EXCEPT !.named = named, !.rungs = rungs]
             v == [page[p] EXCEPT !.draft.named = named, !.draft.rungs = rungs]
  <2>2. d \in Task
    <3>1. rungs \in Seq(Rung) /\ page[p].draft \in Task
      BY <1>3, <1>p, DefinitionsAssumption DEF Edit
    <3> QED
      BY <3>1 DEF Task
  <2>3. v = [page[p] EXCEPT !.draft = d]
    BY <1>p DEF PageType, PageFields
  <2>4. v \in PageType
    <3>1. page[p].task \in TaskIds
      BY <1>3, <1>p DEF Edit
    <3> HIDE DEF v, d
    <3> QED
      BY <1>o, <1>p, <2>2, <2>3, <3>1 DEF PageType, PageFields
  <2>5. page' \in [Panels -> PageType]
    BY <1>t, <2>1, <2>4, ShowKeeps
  <2> QED
    BY <1>u, <2>5, FormKeeps
<1>4. CASE CancelEdit(p)
  <2>1. [page[p] EXCEPT !.draft = None] \in PageType
    BY <1>p DEF PageType, PageFields
  <2>2. page' \in [Panels -> PageType]
    BY <1>4, <1>t, <2>1, ShowKeeps DEF CancelEdit
  <2> QED
    BY <1>u, <2>2, FormKeeps
<1> QED
  BY <1>1, <1>2, <1>3, <1>4

LEMMA TasksBegin == Init => TasksInv
<1> SUFFICES ASSUME Init PROVE TasksInv
  OBVIOUS
<1>1. /\ row \in [TaskIds -> (IF effects = {} THEN {} ELSE OldTasks) \cup {None}]
      /\ cached = [t \in TaskIds |-> None]
      /\ page = [p \in Panels |-> [task |-> None, seen |-> [t \in TaskIds |-> None],
                                   draft |-> None, new |-> None]]
      /\ phase = "down"
  BY DEF Init, TasksInit, StartupInit
<1>2. page \in [Panels -> PageType]
  BY <1>1 DEF PageType, PageFields
<1>3. row \in [TaskIds -> Task \cup {None}]
  BY <1>1, DefinitionsAssumption
<1>4. TaskTypes
  BY <1>1, <1>2, <1>3 DEF TaskTypes, PageType, PageFields
<1>5. ASSUME NEW t \in TaskIds, row[t] # None PROVE Fine(row[t])
  <2>1. row[t] \in OldTasks /\ row[t] \in Task
    BY <1>1, <1>3, <1>5
  <2>2. row[t] = [row[t] EXCEPT !.enabled = row[t].enabled]
    BY <2>1 DEF Task
  <2> QED
    BY <2>1, <2>2 DEF Fine
<1> QED
  BY <1>1, <1>4, <1>5 DEF TasksInv, Running

(* The daemon loads the definitions as they are stored; with its end only  *)
(* what it has in memory is lost.                                          *)
LEMMA TasksInvStep == TasksInv /\ [Next]_vars => TasksInv'
<1> SUFFICES ASSUME TasksInv, [Next]_vars PROVE TasksInv'
  OBVIOUS
<1>t. /\ page \in [Panels -> PageType] /\ row \in [TaskIds -> Task \cup {None}]
      /\ cached \in [TaskIds -> Task \cup {None}]
      /\ \A t \in TaskIds : row[t] # None => Fine(row[t])
  BY DEF TasksInv, TaskTypes, PageType, PageFields
<1>1. ASSUME UNCHANGED <<row, page>>, cached' \in [TaskIds -> Task \cup {None}],
             Running' => cached' = row
      PROVE  TasksInv'
  <2>1. TaskTypes'
    BY <1>1, <1>t DEF TaskTypes, PageType, PageFields
  <2>2. \A t \in TaskIds : row'[t] # None => Fine(row'[t])
    BY <1>1, <1>t
  <2>3. Running' => cached' = row'
    BY <1>1
  <2> QED
    BY <2>1, <2>2, <2>3 DEF TasksInv
<1>2. CASE Serve
  BY <1>1, <1>2, <1>t DEF Serve, LoadTasks
<1>3. CASE TaskSteps
  <2>1. phase' = phase
    BY <1>3 DEF TaskSteps, startupVars
  <2> QED
    BY <1>3, <2>1, TaskFormKeeps, RequestKeeps DEF TaskSteps
<1>4. CASE Drained \/ GivenUp \/ Dies
  <2>1. phase' = "down" /\ UNCHANGED <<row, page>> /\ cached' = [t \in TaskIds |-> None]
    BY <1>4 DEF Drained, GivenUp, Dies, Drain, GiveUp, Die, Gone, Forget, ForgetTasks
  <2>2. cached' \in [TaskIds -> Task \cup {None}]
    BY <2>1
  <2> QED
    BY <1>1, <2>1, <2>2 DEF Running
<1>5. CASE Starts \/ Handles \/ UnitSteps \/ StreamSteps \/ ListSteps \/ UNCHANGED vars
  <2>1. UNCHANGED <<row, cached, page>>
    BY <1>5 DEF Starts, Handles, PartsStay, UnitSteps, StreamSteps, ListSteps, vars, taskVars
  <2>2. Running' => Running
    BY <1>5 DEF Starts, Handles, UnitSteps, StreamSteps, ListSteps, vars, startupVars, Running,
       Boot, Launch, BeginFile, ApplyFile, RecordFile, CommitFile, Migrated, CountUsers,
       CreateUser, Announce, Operate, BeginHandler, EndHandler, Signal, Serving
  <2> QED
    BY <1>1, <1>t, <2>1, <2>2 DEF TasksInv
<1> QED
  BY <1>2, <1>3, <1>4, <1>5 DEF Next

LEMMA TasksAreSafe == Spec => []TasksInv
<1>1. TasksInv /\ [Next]_vars => TasksInv'
  BY TasksInvStep
<1> QED
  BY <1>1, TasksBegin, PTL DEF Spec

(* Whatever editors and other clients of the API send, in whatever order,  *)
(* with toggles, deletions and restarts in between: stored definitions are *)
(* sound or as old as they were, and the schedule is that of the table.    *)
THEOREM DefinitionsStaySound == Spec => []DefinitionsAreSound
<1>1. TasksInv => DefinitionsAreSound
  BY DEF TasksInv, DefinitionsAreSound, Fine, Running, Serving
<1> QED
  BY <1>1, TasksAreSafe, PTL

(* The inductive invariant of the daemon as a whole.                       *)
THEOREM DaemonIsSafe == Spec => []DaemonInv
<1>1. StartupInv /\ TasksInv /\ UnitsInv /\ SamplesInv => DaemonInv
  BY DEF StartupInv, TasksInv, UnitsInv, SamplesInv, DaemonInv, TypeOK
<1> QED
  BY <1>1, StartupIsSafe, TasksAreSafe, UnitsAreSafe, SamplesAreSafe, PTL
=============================================================================
