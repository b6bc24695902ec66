------------------------- MODULE TaskCatalogProofs -------------------------
(* Proofs about TaskCatalog: the inductive invariant CatalogInv, and that  *)
(* no cron job is missing from m.entries but those whose place another     *)
(* rung with the same ID took.                                             *)
EXTENDS TaskCatalog, TLAPS

LEMMA InitInv == Init => CatalogInv
<1> SUFFICES ASSUME Init PROVE CatalogInv
  OBVIOUS
<1>1. TypeOK
  <2>1. NoRequest \in Request
    BY DEF NoRequest, Request
  <2>2. pc \in [Actors -> ProcStates] /\ \A a \in Actors : pc[a] = "idle"
    BY DEF Init, ProcStates, ServeStates
  <2>3. \A b \in Background : pc[b] \notin ServeStates
    BY <2>2 DEF ServeStates, Actors
  <2>4. jobs \in [Tasks -> [Rungs -> Nat]] /\ strays \in [Tasks -> [Rungs -> Nat]]
    BY DEF Init, NoJobs
  <2> QED
    BY <2>1, <2>2, <2>3, <2>4 DEF Init, TypeOK
<1>2. PointersAreLive /\ RequestsAreKnown /\ SnapshotsAreDistinct
  BY DEF Init, PointersAreLive, RequestsAreKnown, SnapshotsAreDistinct, NoRequest,
         Actors, ServeStates
<1>3. OneRebuildInstalls /\ PendingTasksAreClear /\ StoppedIsIdle
  <2>1. OneRebuildInstalls /\ PendingTasksAreClear
    BY NilAssumption DEF Init, OneRebuildInstalls, PendingTasksAreClear, Actors
  <2>2. StoppedIsIdle
    BY DEF Init, StoppedIsIdle, NoRequest
  <2> QED
    BY <2>1, <2>2
<1>4. JobsAreRecorded
  BY DEF Init, JobsAreRecorded, NoJobs
<1> QED
  BY <1>1, <1>2, <1>3, <1>4 DEF CatalogInv

(* What garbage collection keeps: the structs that are pointed to.         *)
LEMMA Kept ==
  ASSUME NEW h \in [Objs -> Struct \cup {Nil}], heap' = Collected(h)
  PROVE  /\ heap' \in [Objs -> Struct \cup {Nil}]
         /\ \A t \in Tasks : cache'[t] \in Objs => heap'[cache'[t]] = h[cache'[t]]
         /\ \A a \in Actors : \A o \in snap'[a] : o \in Objs => heap'[o] = h[o]
         /\ \A p \in Procs : req'[p].ptr \in Objs => heap'[req'[p].ptr] = h[req'[p].ptr]
<1>1. heap' = [o \in Objs |-> IF o \in Held' THEN h[o] ELSE Nil]
  BY DEF Collected
<1>2. /\ \A t \in Tasks : cache'[t] \in Held'
      /\ \A a \in Actors : \A o \in snap'[a] : o \in Held'
      /\ \A p \in Procs : req'[p].ptr \in Held'
  BY DEF Held
<1> QED
  BY <1>1, <1>2

(* A step of a request that leaves cron and the snapshots alone.           *)
LEMMA RequestStep ==
  ASSUME CatalogInv, UNCHANGED <<jobs, entries, strays, schedMu, snap, up>>,
         row' \in [Tasks -> Row \cup {Nil}], cache' \in [Tasks -> Objs \cup {Nil}],
         heap' \in [Objs -> Struct \cup {Nil}], req' \in [Procs -> Request],
         pc' \in [Actors -> ProcStates], \A b \in Background : pc'[b] \notin ServeStates,
         \A a \in Actors : pc'[a] = "install" <=> pc[a] = "install",
         \A a \in Actors : \A o \in snap[a] : heap'[o].task = heap[o].task,
         PointersAreLive', RequestsAreKnown', StoppedIsIdle'
  PROVE  CatalogInv'
<1> USE DEF CatalogInv
<1>1. TypeOK'
  BY DEF TypeOK
<1>2. SnapshotsAreDistinct' /\ OneRebuildInstalls' /\ PendingTasksAreClear'
  BY DEF SnapshotsAreDistinct, OneRebuildInstalls, PendingTasksAreClear
<1>3. JobsAreRecorded'
  BY DEF JobsAreRecorded
<1> QED
  BY <1>1, <1>2, <1>3

(* How a request goes to its next state, with new arguments.               *)
LEMMA ControlStep ==
  ASSUME CatalogInv, NEW p \in Procs, NEW st \in ServeStates \cup {"idle", "snapshot"},
         NEW q \in Request,
         pc' = [pc EXCEPT ![p] = st], req' = [req EXCEPT ![p] = q],
         pc[p] # "install", up, up' = up,
         st \in {"publish", "fill"} => q.ladder \in Ladders,
         st \in {"toggleStore", "togglePtr"} => q.ptr \in Objs,
         st \in ServeStates => q.task \in Tasks
  PROVE  /\ req' \in [Procs -> Request] /\ pc' \in [Actors -> ProcStates]
         /\ \A b \in Background : pc'[b] \notin ServeStates
         /\ \A a \in Actors : pc'[a] = "install" <=> pc[a] = "install"
         /\ RequestsAreKnown' /\ StoppedIsIdle'
<1>1. /\ req \in [Procs -> Request] /\ pc \in [Actors -> ProcStates] /\ p \in Actors
      /\ \A b \in Background : pc[b] \notin ServeStates /\ b # p
  BY ProcsAssumption DEF CatalogInv, TypeOK, Actors
<1>2. st \in ProcStates /\ st # "install"
  BY DEF ServeStates, ProcStates
<1>3. RequestsAreKnown'
  <2>1. \A r \in Procs : r # p => pc'[r] = pc[r] /\ req'[r] = req[r]
    BY <1>1
  <2>2. pc'[p] = st /\ req'[p] = q
    BY <1>1
  <2> QED
    BY <2>1, <2>2 DEF RequestsAreKnown, CatalogInv
<1>4. StoppedIsIdle'
  BY DEF StoppedIsIdle
<1> QED
  BY <1>1, <1>2, <1>3, <1>4 DEF Actors

(* A step of a request in the table only: pointers stay what they were.    *)
LEMMA TableStep ==
  ASSUME CatalogInv, NEW p \in Procs, NEW st \in ServeStates \cup {"idle", "snapshot"},
         NEW q \in Request,
         pc' = [pc EXCEPT ![p] = st], req' = [req EXCEPT ![p] = q],
         pc[p] # "install", up,
         st \in {"publish", "fill"} => q.ladder \in Ladders,
         st \in {"toggleStore", "togglePtr"} => q.ptr \in Objs,
         st \in ServeStates => q.task \in Tasks,
         q.ptr # Nil => heap[q.ptr] # Nil,
         row' \in [Tasks -> Row \cup {Nil}],
         UNCHANGED <<cache, heap, jobs, entries, strays, schedMu, snap, up>>
  PROVE  CatalogInv'
<1>1. /\ req' \in [Procs -> Request] /\ pc' \in [Actors -> ProcStates]
      /\ \A b \in Background : pc'[b] \notin ServeStates
      /\ \A a \in Actors : pc'[a] = "install" <=> pc[a] = "install"
      /\ RequestsAreKnown' /\ StoppedIsIdle'
  BY ControlStep
<1>2. PointersAreLive'
  BY DEF PointersAreLive, CatalogInv, TypeOK
<1>3. cache' \in [Tasks -> Objs \cup {Nil}] /\ heap' \in [Objs -> Struct \cup {Nil}]
  BY DEF CatalogInv, TypeOK
<1> QED
  BY <1>1, <1>2, <1>3, RequestStep

LEMMA AskType ==
  ASSUME NEW t \in Tasks, NEW e \in BOOLEAN, NEW l \in Ladders \cup {Nil}, NEW o \in Objs \cup {Nil}
  PROVE  [task |-> t, enabled |-> e, ladder |-> l, ptr |-> o] \in Request
BY DEF Request

LEMMA SaveTaskInv ==
  ASSUME CatalogInv, NEW p \in Procs, NEW t \in Tasks, NEW e \in BOOLEAN, NEW l \in Ladders,
         up, pc[p] = "idle", SaveTask(p, t, e, l)
  PROVE  CatalogInv'
<1> DEFINE q == [task |-> t, enabled |-> e, ladder |-> l, ptr |-> Nil]
<1>1. q \in Request /\ q.task = t /\ q.ladder = l /\ q.ptr = Nil
  BY AskType
<1>2. row' \in [Tasks -> Row \cup {Nil}]
  BY DEF SaveTask, CatalogInv, TypeOK, Row
<1>3. pc' = [pc EXCEPT ![p] = "publish"] /\ req' = [req EXCEPT ![p] = q]
  BY DEF SaveTask, Ask, Goto
<1> HIDE DEF q
<1> QED
  BY <1>1, <1>2, <1>3, TableStep DEF SaveTask, memory, cron, ServeStates

LEMMA StoreEnabledType ==
  ASSUME CatalogInv, NEW t \in Tasks, NEW e \in BOOLEAN, StoreEnabled(t, e)
  PROVE  row' \in [Tasks -> Row \cup {Nil}]
<1>1. row \in [Tasks -> Row \cup {Nil}]
  BY DEF CatalogInv, TypeOK
<1>2. \A r \in Row : [r EXCEPT !.enabled = e] \in Row
  BY DEF Row
<1> QED
  BY <1>1, <1>2 DEF StoreEnabled

LEMMA AcceptInv == ASSUME CatalogInv, NEW p \in Procs, Accept(p) PROVE CatalogInv'
<1>0. row \in [Tasks -> Row \cup {Nil}] /\ cache \in [Tasks -> Objs \cup {Nil}]
  BY DEF CatalogInv, TypeOK
<1>1. CASE Create(p)
  <2>1. PICK t \in Tasks, e \in BOOLEAN, l \in Ladders : SaveTask(p, t, e, l)
    BY <1>1 DEF Create
  <2> QED
    BY <1>1, <2>1, SaveTaskInv DEF Create, Arrives
<1>2. CASE Update(p)
  <2>1. PICK t \in Tasks, e \in BOOLEAN, l \in Ladders : SaveTask(p, t, e, l)
    BY <1>2 DEF Update
  <2> QED
    BY <1>2, <2>1, SaveTaskInv DEF Update, Arrives
<1>3. CASE Delete(p)
  <2>1. PICK t \in Tasks : row' = [row EXCEPT ![t] = Nil] /\ Ask(p, t, FALSE, Nil, Nil)
    BY <1>3 DEF Delete
  <2> DEFINE q == [task |-> t, enabled |-> FALSE, ladder |-> Nil, ptr |-> Nil]
  <2>2. q \in Request /\ q.task = t /\ q.ptr = Nil
    BY AskType
  <2>3. row' \in [Tasks -> Row \cup {Nil}]
    BY <1>0, <2>1
  <2>4. pc' = [pc EXCEPT ![p] = "unpublish"] /\ req' = [req EXCEPT ![p] = q]
    BY <1>3, <2>1 DEF Delete, Ask, Goto
  <2> HIDE DEF q
  <2> QED
    BY <1>3, <2>2, <2>3, <2>4, TableStep DEF Delete, Arrives, memory, cron, ServeStates
<1>4. CASE SetEnabled(p)
  <2>1. PICK t \in Tasks, e \in BOOLEAN : StoreEnabled(t, e) /\ Ask(p, t, e, Nil, Nil)
    BY <1>4 DEF SetEnabled
  <2> DEFINE q == [task |-> t, enabled |-> e, ladder |-> Nil, ptr |-> Nil]
  <2>2. q \in Request /\ q.task = t /\ q.ptr = Nil
    BY AskType
  <2>3. row' \in [Tasks -> Row \cup {Nil}]
    BY <2>1, StoreEnabledType
  <2>4. pc' = [pc EXCEPT ![p] = "setCached"] /\ req' = [req EXCEPT ![p] = q]
    BY <1>4, <2>1 DEF SetEnabled, Ask, Goto
  <2> HIDE DEF q
  <2> QED
    BY <1>4, <2>2, <2>3, <2>4, TableStep DEF SetEnabled, Arrives, memory, cron, ServeStates
<1>5. CASE RunNow(p)
  <2>1. PICK t \in Tasks : Ask(p, t, FALSE, Nil, Nil)
    BY <1>5 DEF RunNow
  <2> DEFINE q == [task |-> t, enabled |-> FALSE, ladder |-> Nil, ptr |-> Nil]
  <2>2. q \in Request /\ q.task = t /\ q.ptr = Nil
    BY AskType
  <2>3. pc' = [pc EXCEPT ![p] = "load"] /\ req' = [req EXCEPT ![p] = q]
    BY <1>5, <2>1 DEF RunNow, Ask, Goto
  <2>4. row' = row
    BY <1>5 DEF RunNow, store
  <2> HIDE DEF q
  <2> QED
    BY <1>0, <1>5, <2>2, <2>3, <2>4, TableStep DEF RunNow, Arrives, memory, cron, ServeStates
<1>6. CASE Toggle(p)
  <2>1. PICK t \in Tasks, e \in BOOLEAN : cache[t] # Nil /\ Ask(p, t, e, Nil, cache[t])
    BY <1>6 DEF Toggle
  <2> DEFINE q == [task |-> t, enabled |-> e, ladder |-> Nil, ptr |-> cache[t]]
  <2>2. q \in Request /\ q.task = t /\ q.ptr \in Objs /\ heap[q.ptr] # Nil
    BY <1>0, <2>1, AskType DEF CatalogInv, PointersAreLive
  <2>3. pc' = [pc EXCEPT ![p] = "toggleStore"] /\ req' = [req EXCEPT ![p] = q]
    BY <1>6, <2>1 DEF Toggle, Ask, Goto
  <2>4. row' = row
    BY <1>6 DEF Toggle, store
  <2> HIDE DEF q
  <2> QED
    BY <1>0, <1>6, <2>2, <2>3, <2>4, TableStep DEF Toggle, Arrives, memory, cron, ServeStates
<1> QED
  BY <1>1, <1>2, <1>3, <1>4, <1>5, <1>6 DEF Accept

LEMMA ProcsAreActors == \A p \in Procs : p \in Actors
BY DEF Actors

LEMMA IdleRequest == NoRequest \in Request /\ NoRequest.ptr = Nil
BY DEF NoRequest, Request

(* Run now reads the row: it caches what it found, or answers.             *)
LEMMA LoadRowInv == ASSUME CatalogInv, NEW p \in Procs, LoadRow(p) PROVE CatalogInv'
<1>1. PICK t : t = req[p].task
  OBVIOUS
<1>2. /\ pc[p] = "load"
      /\ \/ row[t] = Nil /\ Answer(p)
         \/ row[t] # Nil /\ Ask(p, t, row[t].enabled, row[t].ladder, Nil) /\ Goto(p, "fill")
      /\ UNCHANGED <<row, cache, heap, jobs, entries, strays, schedMu, snap, up>>
  BY <1>1 DEF LoadRow, store, memory, cron
<1>3. /\ row \in [Tasks -> Row \cup {Nil}] /\ t \in Tasks /\ up
  BY <1>1, <1>2, ProcsAreActors
     DEF CatalogInv, TypeOK, RequestsAreKnown, ServeStates, StoppedIsIdle
<1>4. CASE row[t] = Nil
  <2>1. pc' = [pc EXCEPT ![p] = "idle"] /\ req' = [req EXCEPT ![p] = NoRequest]
    BY <1>2, <1>4 DEF Answer, Goto
  <2> QED
    BY <1>2, <1>3, <2>1, IdleRequest, TableStep DEF ServeStates
<1>5. CASE row[t] # Nil
  <2>1. PICK e, l : e = row[t].enabled /\ l = row[t].ladder
    OBVIOUS
  <2>2. e \in BOOLEAN /\ l \in Ladders
    BY <1>3, <1>5, <2>1 DEF Row
  <2>3. PICK q : q = [task |-> t, enabled |-> e, ladder |-> l, ptr |-> Nil]
    OBVIOUS
  <2>4. q \in Request /\ q.task = t /\ q.ptr = Nil /\ q.ladder \in Ladders
    BY <1>3, <2>2, <2>3, AskType
  <2>5. pc' = [pc EXCEPT ![p] = "fill"] /\ req' = [req EXCEPT ![p] = q]
    BY <1>2, <1>5, <2>1, <2>3 DEF Ask, Goto
  <2> QED
    BY <1>2, <1>3, <2>4, <2>5, TableStep DEF ServeStates
<1> QED
  BY <1>4, <1>5

(* The cache takes a new struct, made from the arguments of the request.   *)
LEMMA CacheStructStep ==
  ASSUME CatalogInv, NEW p \in Procs, pc[p] \in {"publish", "fill"}, CacheStruct(req[p]),
         UNCHANGED <<snap, req>> \/ (UNCHANGED snap /\ req' = [req EXCEPT ![p] = NoRequest])
  PROVE  /\ cache' \in [Tasks -> Objs \cup {Nil}] /\ heap' \in [Objs -> Struct \cup {Nil}]
         /\ \A a \in Actors : \A o \in snap[a] : heap'[o].task = heap[o].task
         /\ PointersAreLive'
<1> DEFINE new == [task |-> req[p].task, enabled |-> req[p].enabled, ladder |-> req[p].ladder]
<1>1. PICK o \in Unused :
        /\ cache' = [cache EXCEPT ![req[p].task] = o]
        /\ heap' = Collected([heap EXCEPT ![o] = new])
  BY DEF CacheStruct
<1>2. /\ req \in [Procs -> Request] /\ cache \in [Tasks -> Objs \cup {Nil}]
      /\ heap \in [Objs -> Struct \cup {Nil}] /\ snap \in [Actors -> SUBSET Objs]
  BY DEF CatalogInv, TypeOK
<1>3. req[p].task \in Tasks /\ req[p].ladder \in Ladders /\ req[p].enabled \in BOOLEAN
  BY <1>2 DEF CatalogInv, RequestsAreKnown, ServeStates, Request
<1>4. new \in Struct /\ new.task = req[p].task
  BY <1>3 DEF Struct
<1>5. o \in Objs /\ heap[o] = Nil /\ Nil \notin Objs
  BY NilAssumption DEF Unused
<1> DEFINE h == [heap EXCEPT ![o] = new]
<1>7. h \in [Objs -> Struct \cup {Nil}] /\ heap' = Collected(h)
      /\ h[o] = new /\ \A u \in Objs : u # o => h[u] = heap[u]
  BY <1>1, <1>2, <1>4, <1>5
<1>8. /\ \A t \in Tasks : cache[t] # Nil => cache[t] \in Objs /\ cache[t] # o /\ heap[cache[t]].task = t
                                            /\ heap[cache[t]] # Nil
      /\ \A a \in Actors : \A u \in snap[a] : u \in Objs /\ u # o /\ heap[u] # Nil
      /\ \A r \in Procs : req[r].ptr # Nil => req[r].ptr \in Objs /\ req[r].ptr # o
                                              /\ heap[req[r].ptr] # Nil
  BY <1>2, <1>5 DEF CatalogInv, PointersAreLive, Request
<1> HIDE DEF h, new
<1>9. cache' \in [Tasks -> Objs \cup {Nil}]
      /\ \A t \in Tasks : cache'[t] = IF t = req[p].task THEN o ELSE cache[t]
  BY <1>1, <1>2, <1>3, <1>5
<1>10. \A r \in Procs : req'[r].ptr # Nil => req'[r].ptr = req[r].ptr
  BY <1>2, IdleRequest
<1>11. /\ heap' \in [Objs -> Struct \cup {Nil}]
       /\ \A t \in Tasks : cache'[t] \in Objs => heap'[cache'[t]] = h[cache'[t]]
       /\ \A a \in Actors : \A u \in snap'[a] : u \in Objs => heap'[u] = h[u]
       /\ \A r \in Procs : req'[r].ptr \in Objs => heap'[req'[r].ptr] = h[req'[r].ptr]
  BY <1>7, Kept
<1>12. new # Nil
  BY <1>4, StructAssumption
<1>13. \A a \in Actors : \A u \in snap'[a] : heap'[u] = heap[u] /\ heap[u] # Nil
  BY <1>7, <1>8, <1>11
<1>14. \A t \in Tasks : cache'[t] # Nil => heap'[cache'[t]] # Nil /\ heap'[cache'[t]].task = t
  BY <1>4, <1>5, <1>7, <1>8, <1>9, <1>11, <1>12
<1>15. \A r \in Procs : req'[r].ptr # Nil => heap'[req'[r].ptr] # Nil
  BY <1>7, <1>8, <1>10, <1>11
<1> QED
  BY <1>9, <1>11, <1>13, <1>14, <1>15 DEF PointersAreLive

LEMMA PublishInv ==
  ASSUME CatalogInv, NEW p \in Procs, Publish(p) \/ FillCache(p) PROVE CatalogInv'
<1> DEFINE st == IF pc[p] = "publish" THEN "snapshot" ELSE "idle"
           q == IF pc[p] = "publish" THEN req[p] ELSE NoRequest
<1>1. /\ pc[p] \in {"publish", "fill"} /\ CacheStruct(req[p])
      /\ UNCHANGED <<row, jobs, entries, strays, schedMu, snap, up>>
  BY DEF Publish, FillCache, store, cron
<1>2. up
  BY <1>1, ProcsAreActors DEF CatalogInv, StoppedIsIdle
<1>3. req \in [Procs -> Request] /\ row \in [Tasks -> Row \cup {Nil}]
  BY DEF CatalogInv, TypeOK
<1>4. pc' = [pc EXCEPT ![p] = st] /\ req' = [req EXCEPT ![p] = q]
  BY <1>3 DEF Publish, FillCache, Goto, Answer
<1>5. q \in Request /\ st \in {"idle", "snapshot"}
  BY <1>3, IdleRequest
<1>6. UNCHANGED <<snap, req>> \/ (UNCHANGED snap /\ req' = [req EXCEPT ![p] = NoRequest])
  BY <1>1 DEF Publish, FillCache, Answer
<1> HIDE DEF st, q
<1>7. /\ req' \in [Procs -> Request] /\ pc' \in [Actors -> ProcStates]
      /\ \A b \in Background : pc'[b] \notin ServeStates
      /\ \A a \in Actors : pc'[a] = "install" <=> pc[a] = "install"
      /\ RequestsAreKnown' /\ StoppedIsIdle'
  BY <1>1, <1>2, <1>4, <1>5, ControlStep DEF ServeStates
<1>8. /\ cache' \in [Tasks -> Objs \cup {Nil}] /\ heap' \in [Objs -> Struct \cup {Nil}]
      /\ \A a \in Actors : \A o \in snap[a] : heap'[o].task = heap[o].task
      /\ PointersAreLive'
  BY <1>1, <1>6, CacheStructStep
<1> QED
  BY <1>1, <1>3, <1>7, <1>8, RequestStep

LEMMA UnpublishInv == ASSUME CatalogInv, NEW p \in Procs, Unpublish(p) PROVE CatalogInv'
<1>1. /\ pc[p] = "unpublish" /\ cache' = [cache EXCEPT ![req[p].task] = Nil]
      /\ pc' = [pc EXCEPT ![p] = "snapshot"] /\ heap' = Collected(heap)
      /\ UNCHANGED <<row, jobs, entries, strays, schedMu, snap, up, req>>
  BY DEF Unpublish, store, cron, Goto
<1>2. up
  BY <1>1, ProcsAreActors DEF CatalogInv, StoppedIsIdle
<1>3. /\ req \in [Procs -> Request] /\ row \in [Tasks -> Row \cup {Nil}]
      /\ cache \in [Tasks -> Objs \cup {Nil}]
      /\ heap \in [Objs -> Struct \cup {Nil}] /\ snap \in [Actors -> SUBSET Objs]
  BY DEF CatalogInv, TypeOK
<1>4. /\ req' \in [Procs -> Request] /\ pc' \in [Actors -> ProcStates]
      /\ \A b \in Background : pc'[b] \notin ServeStates
      /\ \A a \in Actors : pc'[a] = "install" <=> pc[a] = "install"
      /\ RequestsAreKnown' /\ StoppedIsIdle'
  <2>1. req' = [req EXCEPT ![p] = req[p]] /\ req[p] \in Request
    BY <1>1, <1>3
  <2> QED
    BY <1>1, <1>2, <2>1, ControlStep DEF ServeStates
<1>5. cache' \in [Tasks -> Objs \cup {Nil}] /\ \A t \in Tasks : cache'[t] \in {Nil, cache[t]}
  BY <1>1, <1>3
<1>6. /\ heap' \in [Objs -> Struct \cup {Nil}]
      /\ \A t \in Tasks : cache'[t] \in Objs => heap'[cache'[t]] = heap[cache'[t]]
      /\ \A a \in Actors : \A o \in snap'[a] : o \in Objs => heap'[o] = heap[o]
      /\ \A r \in Procs : req'[r].ptr \in Objs => heap'[req'[r].ptr] = heap[req'[r].ptr]
  BY <1>1, <1>3, Kept
<1>7. \A a \in Actors : \A o \in snap[a] : heap'[o] = heap[o]
  BY <1>1, <1>3, <1>6
<1>8. PointersAreLive'
  BY <1>1, <1>3, <1>5, <1>6, <1>7 DEF PointersAreLive, CatalogInv, Request
<1> QED
  BY <1>1, <1>3, <1>4, <1>5, <1>6, <1>7, <1>8, RequestStep

LEMMA SetCachedInv == ASSUME CatalogInv, NEW p \in Procs, SetCachedEnabled(p) PROVE CatalogInv'
<1> DEFINE e == req[p].enabled
           x == cache[req[p].task]
<1>1. /\ pc[p] = "setCached" /\ pc' = [pc EXCEPT ![p] = "snapshot"]
      /\ heap' = [o \in Objs |-> IF o = x THEN [heap[o] EXCEPT !.enabled = e] ELSE heap[o]]
      /\ UNCHANGED <<row, cache, jobs, entries, strays, schedMu, snap, up, req>>
  BY DEF SetCachedEnabled, store, cron, Goto
<1>2. up
  BY <1>1, ProcsAreActors DEF CatalogInv, StoppedIsIdle
<1>3. /\ req \in [Procs -> Request] /\ row \in [Tasks -> Row \cup {Nil}]
      /\ cache \in [Tasks -> Objs \cup {Nil}]
      /\ heap \in [Objs -> Struct \cup {Nil}] /\ snap \in [Actors -> SUBSET Objs]
  BY DEF CatalogInv, TypeOK
<1>4. /\ req' \in [Procs -> Request] /\ pc' \in [Actors -> ProcStates]
      /\ \A b \in Background : pc'[b] \notin ServeStates
      /\ \A a \in Actors : pc'[a] = "install" <=> pc[a] = "install"
      /\ RequestsAreKnown' /\ StoppedIsIdle'
  <2>1. req' = [req EXCEPT ![p] = req[p]] /\ req[p] \in Request
    BY <1>1, <1>3
  <2> QED
    BY <1>1, <1>2, <2>1, ControlStep DEF ServeStates
<1>5. x \in Objs => heap[x] \in Struct
  BY <1>1, <1>3, NilAssumption DEF CatalogInv, PointersAreLive, RequestsAreKnown, ServeStates
<1>6. e \in BOOLEAN
  BY <1>3 DEF Request
<1> HIDE DEF e, x
<1>7. /\ heap' \in [Objs -> Struct \cup {Nil}]
      /\ \A o \in Objs : heap[o] # Nil => heap'[o] # Nil /\ heap'[o].task = heap[o].task
  <2>1. \A u \in Struct : [u EXCEPT !.enabled = e] \in Struct /\ [u EXCEPT !.enabled = e].task = u.task
    BY <1>6 DEF Struct
  <2> QED
    BY <1>1, <1>3, <1>5, <2>1, StructAssumption
<1>8. /\ \A a \in Actors : \A o \in snap[a] : o \in Objs /\ heap[o] # Nil
      /\ \A t \in Tasks : cache[t] # Nil => cache[t] \in Objs
      /\ \A r \in Procs : req[r].ptr # Nil => req[r].ptr \in Objs
  BY <1>3 DEF CatalogInv, PointersAreLive, Request
<1>9. PointersAreLive'
  BY <1>1, <1>7, <1>8 DEF PointersAreLive, CatalogInv
<1> QED
  BY <1>1, <1>3, <1>4, <1>7, <1>8, <1>9, RequestStep

LEMMA ToggleStoreInv == ASSUME CatalogInv, NEW p \in Procs, ToggleStore(p) PROVE CatalogInv'
<1>1. /\ pc[p] = "toggleStore" /\ pc' = [pc EXCEPT ![p] = "togglePtr"]
      /\ StoreEnabled(req[p].task, req[p].enabled)
      /\ UNCHANGED <<cache, heap, jobs, entries, strays, schedMu, snap, up, req>>
  BY DEF ToggleStore, memory, cron, Goto
<1>2. up
  BY <1>1, ProcsAreActors DEF CatalogInv, StoppedIsIdle
<1>3. req \in [Procs -> Request] /\ req[p].task \in Tasks /\ req[p].ptr \in Objs
  BY <1>1 DEF CatalogInv, TypeOK, RequestsAreKnown, ServeStates
<1>4. req' = [req EXCEPT ![p] = req[p]] /\ req[p] \in Request /\ req[p].enabled \in BOOLEAN
  BY <1>1, <1>3 DEF Request
<1>5. row' \in [Tasks -> Row \cup {Nil}]
  BY <1>1, <1>3, <1>4, StoreEnabledType
<1>6. req[p].ptr # Nil => heap[req[p].ptr] # Nil
  BY DEF CatalogInv, PointersAreLive
<1> QED
  BY <1>1, <1>2, <1>3, <1>4, <1>5, <1>6, TableStep DEF ServeStates

LEMMA ToggleCachedInv == ASSUME CatalogInv, NEW p \in Procs, ToggleCached(p) PROVE CatalogInv'
<1> DEFINE x == req[p].ptr
           h == [heap EXCEPT ![x].enabled = req[p].enabled]
<1>1. /\ pc[p] = "togglePtr" /\ req' = [req EXCEPT ![p] = NoRequest] /\ heap' = Collected(h)
      /\ UNCHANGED <<row, cache, jobs, entries, strays, schedMu, snap, up>>
  BY DEF ToggleCached, store, cron
<1>2. PICK b \in Background : /\ pc[b] = "idle"
                              /\ pc' = [pc EXCEPT ![p] = "idle", ![b] = "snapshot"]
  BY DEF ToggleCached
<1>3. /\ req \in [Procs -> Request] /\ row \in [Tasks -> Row \cup {Nil}]
      /\ cache \in [Tasks -> Objs \cup {Nil}]
      /\ heap \in [Objs -> Struct \cup {Nil}] /\ snap \in [Actors -> SUBSET Objs]
      /\ pc \in [Actors -> ProcStates] /\ \A c \in Background : pc[c] \notin ServeStates
  BY DEF CatalogInv, TypeOK
<1>4. /\ p \in Actors /\ b \in Actors /\ p # b /\ p \notin Background /\ b \notin Procs
  BY ProcsAssumption DEF Actors
<1>5. /\ pc' \in [Actors -> ProcStates] /\ \A c \in Background : pc'[c] \notin ServeStates
      /\ \A a \in Actors : pc'[a] = "install" <=> pc[a] = "install"
      /\ pc'[p] = "idle" /\ \A r \in Procs : r # p => pc'[r] = pc[r]
  BY <1>1, <1>2, <1>3, <1>4 DEF ProcStates, ServeStates, Actors
<1>6. req' \in [Procs -> Request] /\ req'[p].ptr = Nil /\ \A r \in Procs : r # p => req'[r] = req[r]
  BY <1>1, <1>3, IdleRequest
<1>7. up /\ RequestsAreKnown' /\ StoppedIsIdle'
  <2>1. up
    BY <1>1, <1>4 DEF CatalogInv, StoppedIsIdle
  <2>2. RequestsAreKnown'
    BY <1>5, <1>6 DEF RequestsAreKnown, ServeStates, CatalogInv
  <2> QED
    BY <1>1, <2>1, <2>2 DEF StoppedIsIdle
<1>8. x \in Objs /\ heap[x] \in Struct /\ req[p].enabled \in BOOLEAN
  <2>1. x \in Objs /\ heap[x] # Nil /\ req[p] \in Request
    BY <1>1, <1>3, NilAssumption DEF CatalogInv, RequestsAreKnown, PointersAreLive, ServeStates
  <2> QED
    BY <1>3, <2>1 DEF Request
<1>9. /\ h \in [Objs -> Struct \cup {Nil}]
      /\ \A o \in Objs : heap[o] # Nil => h[o] # Nil /\ h[o].task = heap[o].task
  <2>1. \A u \in Struct : [u EXCEPT !.enabled = req[p].enabled] \in Struct
                          /\ [u EXCEPT !.enabled = req[p].enabled].task = u.task
    BY <1>8 DEF Struct
  <2>2. h = [heap EXCEPT ![x] = [heap[x] EXCEPT !.enabled = req[p].enabled]]
    BY <1>3, <1>8
  <2> QED
    BY <1>3, <1>8, <2>1, <2>2, StructAssumption
<1> HIDE DEF h, x
<1>10. /\ heap' \in [Objs -> Struct \cup {Nil}]
       /\ \A t \in Tasks : cache'[t] \in Objs => heap'[cache'[t]] = h[cache'[t]]
       /\ \A a \in Actors : \A o \in snap'[a] : o \in Objs => heap'[o] = h[o]
       /\ \A r \in Procs : req'[r].ptr \in Objs => heap'[req'[r].ptr] = h[req'[r].ptr]
  BY <1>1, <1>9, Kept
<1>11. /\ \A a \in Actors : \A o \in snap[a] : o \in Objs /\ heap[o] # Nil
       /\ \A t \in Tasks : cache[t] # Nil => cache[t] \in Objs
       /\ \A r \in Procs : req[r].ptr # Nil => req[r].ptr \in Objs
  BY <1>3 DEF CatalogInv, PointersAreLive, Request
<1>12. PointersAreLive'
  <2>1. \A t \in Tasks : cache'[t] # Nil => heap'[cache'[t]] # Nil /\ heap'[cache'[t]].task = t
    BY <1>1, <1>9, <1>10, <1>11 DEF PointersAreLive, CatalogInv
  <2>2. \A a \in Actors : \A o \in snap'[a] : heap'[o] # Nil
    BY <1>1, <1>9, <1>10, <1>11
  <2>3. \A r \in Procs : req'[r].ptr # Nil => heap'[req'[r].ptr] # Nil
    BY <1>6, <1>9, <1>10, <1>11 DEF PointersAreLive, CatalogInv
  <2> QED
    BY <2>1, <2>2, <2>3 DEF PointersAreLive
<1>13. \A a \in Actors : \A o \in snap[a] : heap'[o].task = heap[o].task
  BY <1>1, <1>9, <1>10, <1>11
<1>14. row' \in [Tasks -> Row \cup {Nil}] /\ cache' \in [Tasks -> Objs \cup {Nil}]
  BY <1>1, <1>3
<1> QED
  BY <1>1, <1>5, <1>6, <1>7, <1>10, <1>12, <1>13, <1>14, RequestStep

(***************************************************************************)
(* The rebuild of the schedule                                             *)
(***************************************************************************)

(* The control state of a rebuild, and what it does not touch.             *)
LEMMA RebuildControl ==
  ASSUME CatalogInv, NEW a \in Actors, NEW st \in {"idle", "lock", "install"},
         pc[a] \in {"snapshot", "lock", "install"}, pc' = [pc EXCEPT ![a] = st],
         UNCHANGED <<row, cache, up>>, \A p \in Procs : p # a => req'[p] = req[p],
         req' \in [Procs -> Request]
  PROVE  /\ pc' \in [Actors -> ProcStates] /\ \A b \in Background : pc'[b] \notin ServeStates
         /\ row' \in [Tasks -> Row \cup {Nil}] /\ cache' \in [Tasks -> Objs \cup {Nil}]
         /\ RequestsAreKnown' /\ StoppedIsIdle' /\ up
         /\ pc'[a] = st /\ \A b \in Actors : b # a => pc'[b] = pc[b]
<1>1. /\ pc \in [Actors -> ProcStates] /\ \A b \in Background : pc[b] \notin ServeStates
      /\ row \in [Tasks -> Row \cup {Nil}] /\ cache \in [Tasks -> Objs \cup {Nil}]
  BY DEF CatalogInv, TypeOK
<1>2. /\ pc' \in [Actors -> ProcStates] /\ \A b \in Background : pc'[b] \notin ServeStates
      /\ pc'[a] = st /\ \A b \in Actors : b # a => pc'[b] = pc[b]
  BY <1>1 DEF ProcStates, ServeStates, Actors
<1>3. RequestsAreKnown'
  BY <1>2 DEF RequestsAreKnown, ServeStates, CatalogInv, Actors
<1>4. up /\ StoppedIsIdle'
  BY DEF StoppedIsIdle, CatalogInv
<1> QED
  BY <1>1, <1>2, <1>3, <1>4

LEMMA SnapshotInv == ASSUME CatalogInv, NEW a \in Actors, Snapshot(a) PROVE CatalogInv'
<1>1. /\ pc[a] = "snapshot" /\ pc' = [pc EXCEPT ![a] = "lock"]
      /\ snap' = [snap EXCEPT ![a] = {cache[t] : t \in Tasks} \ {Nil}]
      /\ UNCHANGED <<row, cache, heap, jobs, entries, strays, schedMu, req, up>>
  BY DEF Snapshot, store, memory, cron, Goto
<1>2. /\ req \in [Procs -> Request] /\ cache \in [Tasks -> Objs \cup {Nil}]
      /\ heap \in [Objs -> Struct \cup {Nil}] /\ snap \in [Actors -> SUBSET Objs]
      /\ jobs \in [Tasks -> [Rungs -> Nat]] /\ entries \in [Tasks -> SUBSET Rungs]
      /\ strays \in [Tasks -> [Rungs -> Nat]]
      /\ schedMu \in Actors \cup {Nil} /\ up \in BOOLEAN
  BY DEF CatalogInv, TypeOK
<1>3. /\ pc' \in [Actors -> ProcStates] /\ \A b \in Background : pc'[b] \notin ServeStates
      /\ row' \in [Tasks -> Row \cup {Nil}] /\ cache' \in [Tasks -> Objs \cup {Nil}]
      /\ RequestsAreKnown' /\ StoppedIsIdle' /\ up
      /\ pc'[a] = "lock" /\ \A b \in Actors : b # a => pc'[b] = pc[b]
  BY <1>1, <1>2, RebuildControl
<1>4. /\ snap' \in [Actors -> SUBSET Objs] /\ \A b \in Actors : b # a => snap'[b] = snap[b]
      /\ \A o \in snap'[a] : \E t \in Tasks : o = cache[t] /\ cache[t] # Nil
  BY <1>1, <1>2
<1>5. \A o \in snap'[a] : \E t \in Tasks : o = cache[t] /\ heap[o] # Nil /\ heap[o].task = t
  BY <1>4 DEF CatalogInv, PointersAreLive
<1>6. TypeOK'
  BY <1>1, <1>2, <1>3, <1>4 DEF TypeOK
<1>7. PointersAreLive'
  BY <1>1, <1>4, <1>5 DEF PointersAreLive, CatalogInv
<1>8. SnapshotsAreDistinct'
  BY <1>1, <1>4, <1>5 DEF SnapshotsAreDistinct, CatalogInv
<1>9. OneRebuildInstalls' /\ PendingTasksAreClear'
  BY <1>1, <1>3, <1>4 DEF OneRebuildInstalls, PendingTasksAreClear, CatalogInv
<1>10. JobsAreRecorded'
  BY <1>1 DEF JobsAreRecorded, CatalogInv
<1> QED
  BY <1>3, <1>6, <1>7, <1>8, <1>9, <1>10 DEF CatalogInv

(* Every recorded job is removed, none twice.                              *)
LEMMA ClearInv == ASSUME CatalogInv, NEW a \in Actors, ClearEntries(a) PROVE CatalogInv'
<1>1. /\ pc[a] = "lock" /\ schedMu = Nil /\ schedMu' = a /\ pc' = [pc EXCEPT ![a] = "install"]
      /\ jobs' = Removed /\ entries' = [t \in Tasks |-> {}]
      /\ UNCHANGED <<row, cache, heap, strays, req, snap, up>>
  BY DEF ClearEntries, store, memory, Goto
<1>2. /\ req \in [Procs -> Request]
      /\ heap \in [Objs -> Struct \cup {Nil}] /\ snap \in [Actors -> SUBSET Objs]
      /\ jobs \in [Tasks -> [Rungs -> Nat]] /\ entries \in [Tasks -> SUBSET Rungs]
      /\ strays \in [Tasks -> [Rungs -> Nat]]
      /\ up \in BOOLEAN
  BY DEF CatalogInv, TypeOK
<1>3. /\ pc' \in [Actors -> ProcStates] /\ \A b \in Background : pc'[b] \notin ServeStates
      /\ row' \in [Tasks -> Row \cup {Nil}] /\ cache' \in [Tasks -> Objs \cup {Nil}]
      /\ RequestsAreKnown' /\ StoppedIsIdle' /\ up
      /\ pc'[a] = "install" /\ \A b \in Actors : b # a => pc'[b] = pc[b]
  BY <1>1, <1>2, RebuildControl
<1>4. \A t \in Tasks, r \in Rungs :
        Removed[t][r] = strays[t][r] /\ strays[t][r] \in Nat
  <2>1. ASSUME NEW t \in Tasks, NEW r \in Rungs
        PROVE  Removed[t][r] = strays[t][r] /\ strays[t][r] \in Nat
    <3>1. /\ jobs[t][r] = strays[t][r] + IF r \in entries[t] THEN 1 ELSE 0
          /\ strays[t][r] \in Nat
      BY <1>2 DEF CatalogInv, JobsAreRecorded
    <3>2. Removed[t][r] = IF r \in entries[t] THEN jobs[t][r] - 1 ELSE jobs[t][r]
      BY DEF Removed
    <3> QED
      BY <3>1, <3>2
  <2> QED
    BY <2>1
<1>5. jobs' \in [Tasks -> [Rungs -> Nat]]
  BY <1>1, <1>2, <1>4 DEF Removed
<1>6. TypeOK'
  BY <1>1, <1>2, <1>3, <1>5 DEF TypeOK
<1>7. PointersAreLive' /\ SnapshotsAreDistinct'
  BY <1>1 DEF PointersAreLive, SnapshotsAreDistinct, CatalogInv
<1>8. OneRebuildInstalls'
  BY <1>1, <1>3, NilAssumption DEF OneRebuildInstalls, CatalogInv, Actors
<1>9. PendingTasksAreClear'
  <2>1. \A t \in Tasks : entries'[t] = {}
    BY <1>1
  <2>2. \A b \in Actors : \A o \in snap'[b] : heap'[o].task \in Tasks
    BY <1>1, <1>2, StructAssumption DEF CatalogInv, PointersAreLive, Struct
  <2> QED
    BY <2>1, <2>2 DEF PendingTasksAreClear
<1>10. JobsAreRecorded'
  BY <1>1, <1>4 DEF JobsAreRecorded
<1> QED
  BY <1>3, <1>6, <1>7, <1>8, <1>9, <1>10 DEF CatalogInv

(* What a task adds to cron: one job per key that is recorded, and the     *)
(* jobs that it replaces.                                                  *)
LEMMA DueType ==
  ASSUME NEW e \in BOOLEAN, NEW l \in Ladders
  PROVE  Due(e, l) \in [Rungs -> Nat]
BY LaddersAssumption DEF Due

LEMMA DueParts ==
  ASSUME NEW due \in [Rungs -> Nat]
  PROVE  /\ Recorded(due) \subseteq Rungs /\ Replaced(due) \in [Rungs -> Nat]
         /\ \A r \in Rungs : due[r] = Replaced(due)[r] + IF r \in Recorded(due) THEN 1 ELSE 0
BY DEF Recorded, Replaced

LEMMA ScheduleInv == ASSUME CatalogInv, NEW a \in Actors, ScheduleTask(a) PROVE CatalogInv'
<1>1. /\ pc[a] = "install" /\ heap' = Collected(heap)
      /\ UNCHANGED <<row, cache, schedMu, pc, req, up>>
  BY DEF ScheduleTask, store
<1>2. PICK o \in snap[a] :
        LET t == heap[o].task
            due == Due(heap[o].enabled, heap[o].ladder)
        IN /\ jobs' = [jobs EXCEPT ![t] = [r \in Rungs |-> @[r] + due[r]]]
           /\ entries' = [entries EXCEPT ![t] = @ \cup Recorded(due)]
           /\ strays' = [strays EXCEPT ![t] = [r \in Rungs |-> @[r] + Replaced(due)[r]]]
           /\ snap' = [snap EXCEPT ![a] = @ \ {o}]
  BY DEF ScheduleTask
<1> DEFINE t == heap[o].task
           due == Due(heap[o].enabled, heap[o].ladder)
<1>3. /\ jobs' = [jobs EXCEPT ![t] = [r \in Rungs |-> @[r] + due[r]]]
      /\ entries' = [entries EXCEPT ![t] = @ \cup Recorded(due)]
      /\ strays' = [strays EXCEPT ![t] = [r \in Rungs |-> @[r] + Replaced(due)[r]]]
      /\ snap' = [snap EXCEPT ![a] = @ \ {o}]
  BY <1>2
<1>4. /\ req \in [Procs -> Request] /\ cache \in [Tasks -> Objs \cup {Nil}]
      /\ row \in [Tasks -> Row \cup {Nil}]
      /\ heap \in [Objs -> Struct \cup {Nil}] /\ snap \in [Actors -> SUBSET Objs]
      /\ jobs \in [Tasks -> [Rungs -> Nat]] /\ entries \in [Tasks -> SUBSET Rungs]
      /\ strays \in [Tasks -> [Rungs -> Nat]]
      /\ schedMu \in Actors \cup {Nil} /\ up \in BOOLEAN
      /\ pc \in [Actors -> ProcStates] /\ \A b \in Background : pc[b] \notin ServeStates
  BY DEF CatalogInv, TypeOK
<1>5. o \in Objs /\ heap[o] \in Struct
  BY <1>4 DEF CatalogInv, PointersAreLive
<1>6. t \in Tasks /\ entries[t] = {} /\ due \in [Rungs -> Nat]
  <2>1. heap[o].task \in Tasks /\ heap[o].enabled \in BOOLEAN /\ heap[o].ladder \in Ladders
    BY <1>5 DEF Struct
  <2>2. entries[t] = {}
    BY <1>1 DEF CatalogInv, PendingTasksAreClear
  <2> QED
    BY <2>1, <2>2, DueType
<1>7. /\ snap' \in [Actors -> SUBSET Objs] /\ snap'[a] = snap[a] \ {o}
      /\ \A b \in Actors : b # a => snap'[b] = snap[b]
  BY <1>3, <1>4
<1>8. /\ \A u \in snap'[a] : heap[u].task # t
      /\ \A b \in Actors : b # a => pc[b] # "install"
  BY <1>1, <1>4, <1>7 DEF CatalogInv, SnapshotsAreDistinct, OneRebuildInstalls
<1> HIDE DEF t, due
<1>9. /\ Recorded(due) \subseteq Rungs /\ Replaced(due) \in [Rungs -> Nat]
      /\ \A r \in Rungs : due[r] = Replaced(due)[r] + IF r \in Recorded(due) THEN 1 ELSE 0
  BY <1>6, DueParts
<1>10. /\ jobs' \in [Tasks -> [Rungs -> Nat]] /\ entries' \in [Tasks -> SUBSET Rungs]
       /\ strays' \in [Tasks -> [Rungs -> Nat]]
       /\ \A u \in Tasks : u # t => jobs'[u] = jobs[u] /\ strays'[u] = strays[u]
       /\ \A r \in Rungs : /\ jobs'[t][r] = jobs[t][r] + due[r]
                            /\ strays'[t][r] = strays[t][r] + Replaced(due)[r]
       /\ entries'[t] = Recorded(due)
  BY <1>3, <1>4, <1>6, <1>9
<1>11. \A u \in Tasks : u # t => entries'[u] = entries[u]
  BY <1>3, <1>4, <1>6
<1>12. /\ heap' \in [Objs -> Struct \cup {Nil}]
       /\ \A u \in Tasks : cache'[u] \in Objs => heap'[cache'[u]] = heap[cache'[u]]
       /\ \A b \in Actors : \A u \in snap'[b] : u \in Objs => heap'[u] = heap[u]
       /\ \A p \in Procs : req'[p].ptr \in Objs => heap'[req'[p].ptr] = heap[req'[p].ptr]
  BY <1>1, <1>4, Kept
<1>13. TypeOK'
  BY <1>1, <1>4, <1>7, <1>10, <1>12 DEF TypeOK
<1>14. \A b \in Actors : \A u \in snap'[b] : heap'[u] = heap[u] /\ u \in snap[b]
  BY <1>4, <1>7, <1>12
<1>15. PointersAreLive'
  <2>1. \A u \in Tasks : cache'[u] # Nil => heap'[cache'[u]] # Nil /\ heap'[cache'[u]].task = u
    BY <1>1, <1>4, <1>12 DEF PointersAreLive, CatalogInv
  <2>2. \A b \in Actors : \A u \in snap'[b] : heap'[u] # Nil
    BY <1>14 DEF PointersAreLive, CatalogInv
  <2>3. \A p \in Procs : req'[p].ptr # Nil => heap'[req'[p].ptr] # Nil
    BY <1>1, <1>4, <1>12 DEF PointersAreLive, CatalogInv, Request
  <2> QED
    BY <2>1, <2>2, <2>3 DEF PointersAreLive
<1>16. SnapshotsAreDistinct'
  BY <1>14 DEF SnapshotsAreDistinct, CatalogInv
<1>17. OneRebuildInstalls' /\ RequestsAreKnown' /\ StoppedIsIdle'
  BY <1>1 DEF OneRebuildInstalls, RequestsAreKnown, StoppedIsIdle, CatalogInv
<1>18. PendingTasksAreClear'
  <2>1. \A u \in snap'[a] : heap'[u].task \in Tasks /\ heap'[u].task # t /\ entries[heap[u].task] = {}
    BY <1>1, <1>4, <1>8, <1>14 DEF CatalogInv, PendingTasksAreClear, PointersAreLive, Struct
  <2>2. ASSUME NEW u \in snap'[a] PROVE entries'[heap'[u].task] = {}
    <3>1. heap'[u].task = heap[u].task
      BY <1>14
    <3> QED
      BY <1>11, <2>1, <3>1
  <2> QED
    BY <1>1, <1>8, <2>2 DEF PendingTasksAreClear
<1>19. JobsAreRecorded'
  <2>1. ASSUME NEW r \in Rungs
        PROVE  jobs'[t][r] = strays'[t][r] + IF r \in entries'[t] THEN 1 ELSE 0
    <3>1. jobs[t][r] = strays[t][r] /\ strays[t][r] \in Nat
      BY <1>4, <1>6 DEF CatalogInv, JobsAreRecorded
    <3>2. Replaced(due)[r] \in Nat
      BY <1>9
    <3>3. /\ jobs'[t][r] = jobs[t][r] + due[r]
          /\ strays'[t][r] = strays[t][r] + Replaced(due)[r]
          /\ due[r] = Replaced(due)[r] + IF r \in Recorded(due) THEN 1 ELSE 0
      BY <1>9, <1>10
    <3>4. entries'[t] = Recorded(due)
      BY <1>10
    <3>5. PICK x : x = IF r \in Recorded(due) THEN 1 ELSE 0
      OBVIOUS
    <3>6. x \in Nat /\ due[r] = Replaced(due)[r] + x
      BY <3>3, <3>5
    <3> QED
      BY <3>1, <3>2, <3>3, <3>4, <3>5, <3>6
  <2> QED
    BY <1>10, <1>11, <2>1 DEF JobsAreRecorded, CatalogInv
<1> QED
  BY <1>13, <1>15, <1>16, <1>17, <1>18, <1>19 DEF CatalogInv

LEMMA UnlockInv == ASSUME CatalogInv, NEW a \in Actors, Unlock(a) PROVE CatalogInv'
<1>1. /\ pc[a] = "install" /\ snap[a] = {} /\ schedMu' = Nil /\ pc' = [pc EXCEPT ![a] = "idle"]
      /\ req' = [p \in Procs |-> IF p = a THEN NoRequest ELSE req[p]]
      /\ UNCHANGED <<row, cache, heap, jobs, entries, strays, snap, up>>
  BY DEF Unlock, store, memory, Goto
<1>2. /\ req \in [Procs -> Request]
      /\ heap \in [Objs -> Struct \cup {Nil}] /\ snap \in [Actors -> SUBSET Objs]
      /\ jobs \in [Tasks -> [Rungs -> Nat]] /\ entries \in [Tasks -> SUBSET Rungs]
      /\ strays \in [Tasks -> [Rungs -> Nat]]
      /\ up \in BOOLEAN
  BY DEF CatalogInv, TypeOK
<1>3. req' \in [Procs -> Request] /\ \A p \in Procs : req'[p].ptr # Nil => req'[p] = req[p]
  BY <1>1, <1>2, IdleRequest
<1>4. \A p \in Procs : p # a => req'[p] = req[p]
  BY <1>1
<1>5. /\ pc' \in [Actors -> ProcStates] /\ \A b \in Background : pc'[b] \notin ServeStates
      /\ row' \in [Tasks -> Row \cup {Nil}] /\ cache' \in [Tasks -> Objs \cup {Nil}]
      /\ RequestsAreKnown' /\ StoppedIsIdle' /\ up
      /\ pc'[a] = "idle" /\ \A b \in Actors : b # a => pc'[b] = pc[b]
  BY <1>1, <1>3, <1>4, RebuildControl
<1>6. TypeOK'
  BY <1>1, <1>2, <1>3, <1>5 DEF TypeOK
<1>7. PointersAreLive' /\ SnapshotsAreDistinct'
  BY <1>1, <1>3 DEF PointersAreLive, SnapshotsAreDistinct, CatalogInv
<1>8. OneRebuildInstalls' /\ PendingTasksAreClear'
  BY <1>1, <1>5, NilAssumption
     DEF OneRebuildInstalls, PendingTasksAreClear, CatalogInv, Actors
<1>9. JobsAreRecorded'
  BY <1>1 DEF JobsAreRecorded, CatalogInv
<1> QED
  BY <1>5, <1>6, <1>7, <1>8, <1>9 DEF CatalogInv

(***************************************************************************)
(* The process                                                             *)
(***************************************************************************)

LEMMA StartInv == ASSUME CatalogInv, Start PROVE CatalogInv'
<1>1. PICK at \in [Tasks -> Objs] :
        /\ \A s, t \in Tasks : at[s] = at[t] => s = t
        /\ cache' = [t \in Tasks |-> IF row[t] = Nil THEN Nil ELSE at[t]]
        /\ heap' = [o \in Objs |->
             IF \E t \in Tasks : row[t] # Nil /\ at[t] = o
               THEN LET t == CHOOSE t \in Tasks : at[t] = o
                    IN [task |-> t, enabled |-> row[t].enabled, ladder |-> row[t].ladder]
               ELSE Nil]
  BY DEF Start
<1>2. /\ ~up /\ up' = TRUE /\ UNCHANGED <<row, schedMu, pc, req, snap>>
      /\ jobs' = [t \in Tasks |->
           IF row[t] = Nil THEN [r \in Rungs |-> 0] ELSE Due(row[t].enabled, row[t].ladder)]
      /\ entries' = [t \in Tasks |-> Recorded(jobs'[t])]
      /\ strays' = [t \in Tasks |-> Replaced(jobs'[t])]
  BY DEF Start
<1>3. /\ req \in [Procs -> Request] /\ row \in [Tasks -> Row \cup {Nil}]
      /\ schedMu \in Actors \cup {Nil} /\ snap \in [Actors -> SUBSET Objs]
      /\ pc \in [Actors -> ProcStates] /\ \A b \in Background : pc[b] \notin ServeStates
  BY DEF CatalogInv, TypeOK
<1>4. \A t \in Tasks : row[t] # Nil => row[t].enabled \in BOOLEAN /\ row[t].ladder \in Ladders
  BY <1>3 DEF Row
<1>5. \A t \in Tasks : row[t] # Nil =>
        heap'[at[t]] = [task |-> t, enabled |-> row[t].enabled, ladder |-> row[t].ladder]
  <2> SUFFICES ASSUME NEW t \in Tasks, row[t] # Nil
               PROVE  heap'[at[t]] = [task |-> t, enabled |-> row[t].enabled, ladder |-> row[t].ladder]
    OBVIOUS
  <2>1. (CHOOSE u \in Tasks : at[u] = at[t]) = t
    BY <1>1
  <2> QED
    BY <1>1, <2>1
<1>6. \A t \in Tasks : row[t] # Nil => heap'[at[t]] \in Struct /\ heap'[at[t]].task = t
  <2> SUFFICES ASSUME NEW t \in Tasks, row[t] # Nil
               PROVE  heap'[at[t]] \in Struct /\ heap'[at[t]].task = t
    OBVIOUS
  <2> DEFINE s == [task |-> t, enabled |-> row[t].enabled, ladder |-> row[t].ladder]
  <2>1. row[t].enabled \in BOOLEAN /\ row[t].ladder \in Ladders
    BY <1>4
  <2>2. s \in Struct /\ s.task = t
    BY <2>1 DEF Struct
  <2>3. heap'[at[t]] = s
    BY <1>5
  <2> HIDE DEF s
  <2> QED
    BY <2>2, <2>3
<1>7. /\ heap' \in [Objs -> Struct \cup {Nil}] /\ cache' \in [Tasks -> Objs \cup {Nil}]
      /\ \A t \in Tasks : cache'[t] # Nil => heap'[cache'[t]] # Nil /\ heap'[cache'[t]].task = t
  <2>1. \A o \in Objs : heap'[o] \in Struct \cup {Nil}
    <3> SUFFICES ASSUME NEW o \in Objs, heap'[o] # Nil PROVE heap'[o] \in Struct
      OBVIOUS
    <3>1. \E t \in Tasks : row[t] # Nil /\ at[t] = o
      <4> SUFFICES ASSUME ~ \E t \in Tasks : row[t] # Nil /\ at[t] = o PROVE FALSE
        OBVIOUS
      <4>1. heap'[o] = Nil
        BY <1>1
      <4> QED
        BY <4>1
    <3>2. PICK t \in Tasks : row[t] # Nil /\ at[t] = o
      BY <3>1
    <3> QED
      BY <1>6, <3>2
  <2>2. heap' = [o \in Objs |-> heap'[o]]
    BY <1>1
  <2>3. heap' \in [Objs -> Struct \cup {Nil}]
    BY <2>1, <2>2
  <2>4. cache' \in [Tasks -> Objs \cup {Nil}]
    BY <1>1
  <2>5. \A t \in Tasks : cache'[t] # Nil => row[t] # Nil /\ cache'[t] = at[t]
    BY <1>1
  <2> QED
    BY <1>6, <2>3, <2>4, <2>5, StructAssumption
<1>8. \A a \in Actors : pc[a] = "idle" /\ snap[a] = {}
  BY <1>2 DEF CatalogInv, StoppedIsIdle
<1>9. \A p \in Procs : req[p].ptr = Nil
  BY <1>2 DEF CatalogInv, StoppedIsIdle
<1>10. \A t \in Tasks : jobs'[t] \in [Rungs -> Nat]
  BY <1>2, <1>4, DueType
<1>11. /\ jobs' \in [Tasks -> [Rungs -> Nat]] /\ entries' \in [Tasks -> SUBSET Rungs]
       /\ strays' \in [Tasks -> [Rungs -> Nat]]
  BY <1>2, <1>10, DueParts
<1>12. TypeOK'
  BY <1>2, <1>3, <1>7, <1>11 DEF TypeOK
<1>13. PointersAreLive' /\ SnapshotsAreDistinct' /\ PendingTasksAreClear'
  BY <1>2, <1>7, <1>8, <1>9 DEF PointersAreLive, SnapshotsAreDistinct, PendingTasksAreClear
<1>14. OneRebuildInstalls' /\ RequestsAreKnown' /\ StoppedIsIdle'
  BY <1>2 DEF OneRebuildInstalls, RequestsAreKnown, StoppedIsIdle, CatalogInv
<1>15. JobsAreRecorded'
  BY <1>2, <1>10, DueParts DEF JobsAreRecorded
<1> QED
  BY <1>12, <1>13, <1>14, <1>15 DEF CatalogInv

LEMMA ExitInv == ASSUME CatalogInv, Exit PROVE CatalogInv'
<1>1. /\ ~up' /\ up' \in BOOLEAN /\ cache' = [t \in Tasks |-> Nil] /\ heap' = [o \in Objs |-> Nil]
      /\ jobs' = NoJobs /\ entries' = [t \in Tasks |-> {}] /\ strays' = NoJobs /\ schedMu' = Nil
      /\ pc' = [a \in Actors |-> "idle"] /\ req' = [p \in Procs |-> NoRequest]
      /\ snap' = [a \in Actors |-> {}] /\ row' = row
  BY DEF Exit
<1>2. row \in [Tasks -> Row \cup {Nil}]
  BY DEF CatalogInv, TypeOK
<1>3. TypeOK'
  <2>1. pc' \in [Actors -> ProcStates] /\ \A b \in Background : pc'[b] \notin ServeStates
    BY <1>1 DEF ProcStates, ServeStates, Actors
  <2>2. jobs' \in [Tasks -> [Rungs -> Nat]] /\ strays' \in [Tasks -> [Rungs -> Nat]]
    BY <1>1 DEF NoJobs
  <2> QED
    BY <1>1, <1>2, <2>1, <2>2, IdleRequest DEF TypeOK
<1>4. PointersAreLive' /\ RequestsAreKnown' /\ SnapshotsAreDistinct'
  BY <1>1, IdleRequest, ProcsAreActors
     DEF PointersAreLive, RequestsAreKnown, SnapshotsAreDistinct, ServeStates
<1>5. OneRebuildInstalls' /\ PendingTasksAreClear' /\ StoppedIsIdle'
  BY <1>1, NilAssumption, IdleRequest
     DEF OneRebuildInstalls, PendingTasksAreClear, StoppedIsIdle, Actors
<1>6. JobsAreRecorded'
  BY <1>1 DEF JobsAreRecorded, NoJobs
<1> QED
  BY <1>3, <1>4, <1>5, <1>6 DEF CatalogInv

LEMMA NextInv == CatalogInv /\ [Next]_vars => CatalogInv'
<1> SUFFICES ASSUME CatalogInv, [Next]_vars PROVE CatalogInv'
  OBVIOUS
<1>1. CASE Start
  BY <1>1, StartInv
<1>2. CASE Exit
  BY <1>2, ExitInv
<1>3. ASSUME NEW p \in Procs, Accept(p) \/ Serve(p) PROVE CatalogInv'
  <2>1. CASE Accept(p)
    BY <2>1, AcceptInv
  <2>2. CASE Publish(p) \/ FillCache(p)
    BY <2>2, PublishInv
  <2>3. CASE Unpublish(p)
    BY <2>3, UnpublishInv
  <2>4. CASE SetCachedEnabled(p)
    BY <2>4, SetCachedInv
  <2>5. CASE ToggleStore(p)
    BY <2>5, ToggleStoreInv
  <2>6. CASE ToggleCached(p)
    BY <2>6, ToggleCachedInv
  <2>7. CASE LoadRow(p)
    BY <2>7, LoadRowInv
  <2> QED
    BY <1>3, <2>1, <2>2, <2>3, <2>4, <2>5, <2>6, <2>7 DEF Serve
<1>4. ASSUME NEW a \in Actors, Rebuild(a) PROVE CatalogInv'
  BY <1>4, SnapshotInv, ClearInv, ScheduleInv, UnlockInv DEF Rebuild
<1>5. CASE UNCHANGED vars
  BY <1>5 DEF vars, CatalogInv, TypeOK, PointersAreLive, RequestsAreKnown, SnapshotsAreDistinct,
       OneRebuildInstalls, PendingTasksAreClear, StoppedIsIdle, JobsAreRecorded
<1> QED
  BY <1>1, <1>2, <1>3, <1>4, <1>5 DEF Next

(* The strengthened invariant holds for any number of tasks, rungs,        *)
(* overlapping requests and rebuilds.                                      *)
THEOREM CatalogIsSound == Spec => []CatalogInv
BY InitInv, NextInv, PTL DEF Spec

(* Pointers, arguments and cron entries stay in their types.               *)
THEOREM CatalogTypes == Spec => []TypeOK
<1>1. CatalogInv => TypeOK
  BY DEF CatalogInv
<1> QED
  BY <1>1, CatalogIsSound, PTL

(* The next rebuild removes every cron job that this one installs but the  *)
(* ones whose place in the map another rung with the same ID took,         *)
(* whatever overlaps and whatever IDs the rungs have (reschedule,          *)
(* engine.go:86-115): m.schedMu keeps rebuilds apart, and the tasks of a   *)
(* snapshot are distinct.                                                  *)
THEOREM EveryJobIsRecorded == Spec => []JobsAreRecorded
<1>1. CatalogInv => JobsAreRecorded
  BY DEF CatalogInv
<1> QED
  BY <1>1, CatalogIsSound, PTL
=============================================================================
