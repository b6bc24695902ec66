----------------------- MODULE TaskCatalogTurnsProofs -----------------------
(* Proofs about TaskCatalog for the mixes of requests of MC_TaskCatalog:   *)
(* what table, cache and schedule have in common when requests come one at *)
(* a time, and when only switches overlap.                                 *)
EXTENDS MC_TaskCatalog, TaskCatalogProofs

(***************************************************************************)
(* One request at a time                                                   *)
(***************************************************************************)

Agrees(t) ==
  IF row[t] = Nil THEN cache[t] = Nil
  ELSE /\ cache[t] # Nil
       /\ heap[cache[t]] = [task |-> t, enabled |-> row[t].enabled, ladder |-> row[t].ladder]

(* The row has been switched to e, the struct not yet.                     *)
Switched(t, e) ==
  IF row[t] = Nil THEN cache[t] = Nil
  ELSE /\ row[t].enabled = e /\ cache[t] # Nil
       /\ heap[cache[t]].task = t /\ heap[cache[t]].ladder = row[t].ladder

(* The states in which a request has written the row and not the cache.    *)
HalfDone == {"publish", "unpublish", "setCached", "togglePtr"}
OneIsBusy == \A a, b \in Actors : pc[a] # "idle" /\ pc[b] # "idle" => a = b
OthersAgree ==
  up => \A t \in Tasks :
    (\A p \in Procs : ~(pc[p] \in HalfDone /\ req[p].task = t)) => Agrees(t)
KnowsTheRow(p) == LET t == req[p].task IN
  /\ pc[p] = "publish" => row[t] = [enabled |-> req[p].enabled, ladder |-> req[p].ladder]
  /\ pc[p] = "unpublish" => row[t] = Nil
  /\ pc[p] \in {"setCached", "togglePtr"} => Switched(t, req[p].enabled)
  /\ pc[p] \in {"toggleStore", "togglePtr"} => row[t] # Nil /\ req[p].ptr = cache[t]
  /\ pc[p] = "load" => row[t] = Nil
  /\ pc[p] # "fill"
TurnInv == OneIsBusy /\ OthersAgree /\ \A p \in Procs : KnowsTheRow(p)

(***************************************************************************)
(* A cache that no rebuild has seen change                                 *)
(***************************************************************************)

Pointers == {cache[t] : t \in Tasks} \ {Nil}
Quiet == \A a \in Actors : pc[a] \in {"idle", "load", "install"}
ToInstall == UNION {snap[a] : a \in {b \in Actors : pc[b] = "install"}}
Wanted(t) == IF cache[t] = Nil THEN {}
             ELSE Recorded(Due(heap[cache[t]].enabled, heap[cache[t]].ladder))

(* Snapshots are those of the cache as it is, and unless a switch or a     *)
(* rebuild is to follow, entries are those of the structs as they are.     *)
SnapshotsAreCurrent ==
  \A a \in Actors : /\ pc[a] = "lock" => snap[a] = Pointers
                    /\ pc[a] = "install" => snap[a] \subseteq Pointers
EntriesAreCurrent ==
  up /\ Quiet => \A t \in Tasks : entries[t] = IF cache[t] \in ToInstall THEN {} ELSE Wanted(t)
CurrentInv == SnapshotsAreCurrent /\ EntriesAreCurrent

(* Switches do not touch the map.                                          *)
OnlySwitches == \A p \in Procs : pc[p] \notin {"publish", "unpublish", "load", "fill"}

MixInv == /\ CatalogInv /\ mix \in Mixes
          /\ mix = "serial" => TurnInv
          /\ mix = "switching" => OnlySwitches
          /\ mix \in {"serial", "switching"} => CurrentInv

(***************************************************************************)
(* Frames                                                                  *)
(***************************************************************************)

LEMMA CatalogFacts ==
  ASSUME CatalogInv
  PROVE  /\ row \in [Tasks -> Row \cup {Nil}] /\ cache \in [Tasks -> Objs \cup {Nil}]
         /\ heap \in [Objs -> Struct \cup {Nil}] /\ pc \in [Actors -> ProcStates]
         /\ req \in [Procs -> Request] /\ snap \in [Actors -> SUBSET Objs]
         /\ jobs \in [Tasks -> [Rungs -> Nat]] /\ entries \in [Tasks -> SUBSET Rungs]
         /\ up \in BOOLEAN /\ Nil \notin Objs
         /\ \A a \in Actors : pc[a] \in ServeStates => a \in Procs /\ req[a].task \in Tasks
         /\ \A t \in Tasks : cache[t] # Nil =>
              cache[t] \in Objs /\ heap[cache[t]] \in Struct /\ heap[cache[t]].task = t
         /\ \A t, u \in Tasks : cache[t] # Nil /\ cache[t] = cache[u] => t = u
         /\ ~up => \A a \in Actors : pc[a] = "idle"
<1>1. /\ row \in [Tasks -> Row \cup {Nil}] /\ cache \in [Tasks -> Objs \cup {Nil}]
      /\ heap \in [Objs -> Struct \cup {Nil}] /\ pc \in [Actors -> ProcStates]
      /\ req \in [Procs -> Request] /\ snap \in [Actors -> SUBSET Objs]
      /\ jobs \in [Tasks -> [Rungs -> Nat]] /\ entries \in [Tasks -> SUBSET Rungs]
      /\ up \in BOOLEAN
  BY DEF CatalogInv, TypeOK
<1>2. Nil \notin Objs
  BY NilAssumption
<1>3. \A a \in Actors : pc[a] \in ServeStates => a \in Procs /\ req[a].task \in Tasks
  BY DEF CatalogInv, TypeOK, RequestsAreKnown, Actors
<1>4. \A t \in Tasks : cache[t] # Nil =>
        cache[t] \in Objs /\ heap[cache[t]] \in Struct /\ heap[cache[t]].task = t
  BY <1>1 DEF CatalogInv, PointersAreLive
<1>5. \A t, u \in Tasks : cache[t] # Nil /\ cache[t] = cache[u] => t = u
  BY <1>4
<1>6. ~up => \A a \in Actors : pc[a] = "idle"
  BY DEF CatalogInv, StoppedIsIdle
<1> QED
  BY <1>1, <1>2, <1>3, <1>4, <1>5, <1>6

LEMMA TurnStates ==
  /\ HalfDone \subseteq ServeStates /\ {"toggleStore", "load", "fill"} \subseteq ServeStates
  /\ Procs \subseteq Actors
BY DEF HalfDone, ServeStates, Actors

(* A step that leaves table, cache and requests alone.                     *)
LEMMA QuietTurn ==
  ASSUME TurnInv, CatalogInv, UNCHANGED <<row, cache, up>>, OneIsBusy',
         \A t \in Tasks : cache[t] # Nil => heap'[cache[t]] = heap[cache[t]],
         \A p \in Procs : pc'[p] \in ServeStates \/ pc[p] \in ServeStates =>
                          pc'[p] = pc[p] /\ req'[p] = req[p]
  PROVE  TurnInv'
<1>1. \A t \in Tasks : Agrees(t) => Agrees(t)'
  BY DEF Agrees
<1>2. \A t \in Tasks, e \in BOOLEAN : Switched(t, e) => Switched(t, e)'
  BY DEF Switched
<1>3. \A p \in Procs : pc[p] \in ServeStates => req[p].task \in Tasks /\ req[p].enabled \in BOOLEAN
  BY TurnStates, CatalogFacts DEF Request
<1>4. OthersAgree'
  <2>1. SUFFICES ASSUME up', NEW t \in Tasks,
                        \A p \in Procs : ~(pc'[p] \in HalfDone /\ req'[p].task = t)
                 PROVE  Agrees(t)'
    BY DEF OthersAgree
  <2>2. \A p \in Procs : ~(pc[p] \in HalfDone /\ req[p].task = t)
    BY <2>1, TurnStates
  <2> QED
    BY <1>1, <2>1, <2>2 DEF TurnInv, OthersAgree
<1>5. ASSUME NEW p \in Procs PROVE KnowsTheRow(p)'
  <2>1. CASE pc'[p] \in ServeStates
    <3>1. KnowsTheRow(p) /\ pc'[p] = pc[p] /\ req'[p] = req[p]
      BY <2>1 DEF TurnInv
    <3> QED
      BY <1>2, <1>3, <2>1, <3>1 DEF KnowsTheRow
  <2>2. CASE pc'[p] \notin ServeStates
    BY <2>2 DEF KnowsTheRow, ServeStates
  <2> QED
    BY <2>1, <2>2
<1> QED
  BY <1>4, <1>5 DEF TurnInv

(* A step of the only request in progress.                                 *)
LEMMA OneTurn ==
  ASSUME CatalogInv, NEW p \in Procs, \A a \in Actors : a # p => pc[a] = "idle",
         NEW st, NEW q, pc' = [pc EXCEPT ![p] = st], req' = [req EXCEPT ![p] = q],
         st # "fill",
         \A t \in Tasks : (st \in HalfDone /\ q.task = t) \/ Agrees(t)',
         st = "publish" => row'[q.task] = [enabled |-> q.enabled, ladder |-> q.ladder],
         st \in {"unpublish", "load"} => row'[q.task] = Nil,
         st \in {"setCached", "togglePtr"} => Switched(q.task, q.enabled)',
         st \in {"toggleStore", "togglePtr"} => row'[q.task] # Nil /\ q.ptr = cache'[q.task]
  PROVE  TurnInv'
<1>1. /\ p \in Actors /\ pc'[p] = st /\ req'[p] = q
      /\ \A a \in Actors : a # p => pc'[a] = "idle"
  BY CatalogFacts, TurnStates
<1>2. OneIsBusy'
  BY <1>1 DEF OneIsBusy
<1>3. OthersAgree'
  BY <1>1 DEF OthersAgree
<1>4. KnowsTheRow(p)'
  BY <1>1 DEF KnowsTheRow
<1>5. \A x \in Procs : x # p => KnowsTheRow(x)'
  BY <1>1, TurnStates DEF KnowsTheRow
<1> QED
  BY <1>2, <1>3, <1>4, <1>5 DEF TurnInv

(***************************************************************************)
(* Steps of a request, when there is no other                              *)
(***************************************************************************)

LEMMA AllAgree ==
  ASSUME TurnInv, up, \A p \in Procs : pc[p] \notin HalfDone PROVE \A t \in Tasks : Agrees(t)
BY DEF TurnInv, OthersAgree

LEMMA AgreesFields ==
  ASSUME NEW t \in Tasks, Agrees(t), row[t] # Nil
  PROVE  /\ cache[t] # Nil /\ heap[cache[t]].task = t
         /\ heap[cache[t]].ladder = row[t].ladder /\ heap[cache[t]].enabled = row[t].enabled
<1>1. PICK x : x = heap[cache[t]]
  OBVIOUS
<1>2. cache[t] # Nil /\ x = [task |-> t, enabled |-> row[t].enabled, ladder |-> row[t].ladder]
  BY <1>1 DEF Agrees
<1>3. x.task = t /\ x.ladder = row[t].ladder /\ x.enabled = row[t].enabled
  BY <1>2
<1> QED
  BY <1>1, <1>2, <1>3

LEMMA RowIsNotNil == \A x \in Row : \A e \in BOOLEAN : [x EXCEPT !.enabled = e] # Nil
<1>1. \A x \in Row : \A e \in BOOLEAN : [x EXCEPT !.enabled = e] \in Row
  BY DEF Row
<1> QED
  BY <1>1, StructAssumption

LEMMA StoreEnabledRow ==
  ASSUME CatalogInv, NEW t \in Tasks, NEW e \in BOOLEAN, StoreEnabled(t, e)
  PROVE  /\ \A u \in Tasks : u # t => row'[u] = row[u]
         /\ row'[t] = Nil <=> row[t] = Nil
         /\ row[t] # Nil => row'[t].enabled = e /\ row'[t].ladder = row[t].ladder
<1>1. row \in [Tasks -> Row \cup {Nil}]
  BY CatalogFacts
<1>2. ASSUME row[t] # Nil
      PROVE  /\ [row[t] EXCEPT !.enabled = e].enabled = e
             /\ [row[t] EXCEPT !.enabled = e].ladder = row[t].ladder
             /\ [row[t] EXCEPT !.enabled = e] # Nil
  <2>1. row[t] \in Row
    BY <1>1, <1>2
  <2> QED
    BY <2>1, RowIsNotNil DEF Row
<1> QED
  BY <1>1, <1>2 DEF StoreEnabled

LEMMA TurnAccept ==
  ASSUME CatalogInv, TurnInv, InTurn, NEW p \in Procs, Accept(p) PROVE TurnInv'
<1> USE TurnStates
<1>1. /\ row \in [Tasks -> Row \cup {Nil}] /\ cache \in [Tasks -> Objs \cup {Nil}]
      /\ p \in Actors /\ \A a \in Actors : a # p => pc[a] = "idle"
      /\ \A x \in Procs : pc[x] \notin HalfDone
  BY CatalogFacts DEF InTurn, HalfDone
<1>2. up /\ cache' = cache /\ heap' = heap
  BY DEF Accept, Create, Update, Delete, SetEnabled, RunNow, Toggle, Arrives, SaveTask, memory
<1>3. \A t \in Tasks : Agrees(t)
  BY <1>1, <1>2, AllAgree
<1>4. \A t \in Tasks : row'[t] = row[t] => Agrees(t)'
  BY <1>2, <1>3 DEF Agrees
<1>5. ASSUME NEW t \in Tasks, NEW e \in BOOLEAN, NEW l \in Ladders, SaveTask(p, t, e, l)
      PROVE  TurnInv'
  <2>1. PICK q : q = [task |-> t, enabled |-> e, ladder |-> l, ptr |-> Nil]
    OBVIOUS
  <2>2. /\ row' = [row EXCEPT ![t] = [enabled |-> e, ladder |-> l]]
        /\ req' = [req EXCEPT ![p] = q] /\ pc' = [pc EXCEPT ![p] = "publish"]
    BY <1>5, <2>1 DEF SaveTask, Ask, Goto
  <2>3. q.task = t /\ q.enabled = e /\ q.ladder = l
    BY <2>1
  <2>4. /\ row'[t] = [enabled |-> e, ladder |-> l]
        /\ \A u \in Tasks : u # t => row'[u] = row[u]
    BY <1>1, <2>2
  <2>5. \A u \in Tasks : ("publish" \in HalfDone /\ q.task = u) \/ Agrees(u)'
    BY <1>4, <2>3, <2>4 DEF HalfDone
  <2>6. row'[q.task] = [enabled |-> q.enabled, ladder |-> q.ladder]
    BY <2>3, <2>4
  <2> QED
    BY <1>1, <2>2, <2>5, <2>6, OneTurn
<1>6. CASE Create(p) \/ Update(p)
  BY <1>5, <1>6 DEF Create, Update
<1>7. CASE Delete(p)
  <2>1. PICK t \in Tasks : row' = [row EXCEPT ![t] = Nil] /\ Ask(p, t, FALSE, Nil, Nil)
    BY <1>7 DEF Delete
  <2>2. PICK q : q = [task |-> t, enabled |-> FALSE, ladder |-> Nil, ptr |-> Nil]
    OBVIOUS
  <2>3. req' = [req EXCEPT ![p] = q] /\ pc' = [pc EXCEPT ![p] = "unpublish"] /\ q.task = t
    BY <1>7, <2>1, <2>2 DEF Delete, Ask, Goto
  <2>4. row'[t] = Nil /\ \A u \in Tasks : u # t => row'[u] = row[u]
    BY <1>1, <2>1
  <2>5. \A u \in Tasks : ("unpublish" \in HalfDone /\ q.task = u) \/ Agrees(u)'
    BY <1>4, <2>3, <2>4 DEF HalfDone
  <2> QED
    BY <1>1, <2>3, <2>4, <2>5, OneTurn
<1>8. CASE SetEnabled(p)
  <2>1. PICK t \in Tasks, e \in BOOLEAN : StoreEnabled(t, e) /\ Ask(p, t, e, Nil, Nil)
    BY <1>8 DEF SetEnabled
  <2>2. PICK q : q = [task |-> t, enabled |-> e, ladder |-> Nil, ptr |-> Nil]
    OBVIOUS
  <2>3. /\ req' = [req EXCEPT ![p] = q] /\ pc' = [pc EXCEPT ![p] = "setCached"]
        /\ q.task = t /\ q.enabled = e
    BY <1>8, <2>1, <2>2 DEF SetEnabled, Ask, Goto
  <2>4. /\ \A u \in Tasks : u # t => row'[u] = row[u]
        /\ row'[t] = Nil <=> row[t] = Nil
        /\ row[t] # Nil => row'[t].enabled = e /\ row'[t].ladder = row[t].ladder
    BY <2>1, StoreEnabledRow
  <2>5. Switched(t, e)'
    <3>1. CASE row[t] = Nil
      BY <1>2, <1>3, <2>4, <3>1 DEF Switched, Agrees
    <3>2. CASE row[t] # Nil
      <4>1. cache[t] # Nil /\ heap[cache[t]].task = t /\ heap[cache[t]].ladder = row[t].ladder
        BY <1>3, <3>2, AgreesFields
      <4> QED
        BY <1>2, <2>4, <3>2, <4>1 DEF Switched
    <3> QED
      BY <3>1, <3>2
  <2>6. \A u \in Tasks : ("setCached" \in HalfDone /\ q.task = u) \/ Agrees(u)'
    BY <1>4, <2>3, <2>4 DEF HalfDone
  <2> QED
    BY <1>1, <2>3, <2>5, <2>6, OneTurn
<1>9. CASE RunNow(p)
  <2>1. PICK t \in Tasks : cache[t] = Nil /\ Ask(p, t, FALSE, Nil, Nil)
    BY <1>9 DEF RunNow
  <2>2. PICK q : q = [task |-> t, enabled |-> FALSE, ladder |-> Nil, ptr |-> Nil]
    OBVIOUS
  <2>3. /\ req' = [req EXCEPT ![p] = q] /\ pc' = [pc EXCEPT ![p] = "load"]
        /\ q.task = t /\ row' = row
    BY <1>9, <2>1, <2>2 DEF RunNow, Ask, Goto, store
  <2>4. row'[t] = Nil
    BY <1>3, <2>1, <2>3 DEF Agrees
  <2> QED
    BY <1>1, <1>4, <2>3, <2>4, OneTurn
<1>10. CASE Toggle(p)
  <2>1. PICK t \in Tasks, e \in BOOLEAN : cache[t] # Nil /\ Ask(p, t, e, Nil, cache[t])
    BY <1>10 DEF Toggle
  <2>2. PICK q : q = [task |-> t, enabled |-> e, ladder |-> Nil, ptr |-> cache[t]]
    OBVIOUS
  <2>3. /\ req' = [req EXCEPT ![p] = q] /\ pc' = [pc EXCEPT ![p] = "toggleStore"]
        /\ q.task = t /\ q.ptr = cache'[t] /\ row' = row
    BY <1>2, <1>10, <2>1, <2>2 DEF Toggle, Ask, Goto, store
  <2>4. row'[t] # Nil
    BY <1>3, <2>1, <2>3 DEF Agrees
  <2> QED
    BY <1>1, <1>4, <2>3, <2>4, OneTurn
<1> QED
  BY <1>6, <1>7, <1>8, <1>9, <1>10 DEF Accept

(* The step of a request concerns its own task only.                       *)
LEMMA OthersStay ==
  ASSUME CatalogInv, TurnInv, NEW p \in Procs, pc[p] \in ServeStates,
         \A u \in Tasks : u # req[p].task =>
           /\ row'[u] = row[u] /\ cache'[u] = cache[u]
           /\ cache[u] # Nil => heap'[cache[u]] = heap[cache[u]]
  PROVE  /\ up /\ \A a \in Actors : a # p => pc[a] = "idle"
         /\ \A u \in Tasks : u # req[p].task => Agrees(u)'
         /\ pc[p] \notin HalfDone => Agrees(req[p].task)
<1>1. /\ p \in Actors /\ pc[p] # "idle" /\ req[p].task \in Tasks
      /\ ~up => \A a \in Actors : pc[a] = "idle"
  BY CatalogFacts, TurnStates DEF ServeStates
<1>2. up /\ \A a \in Actors : a # p => pc[a] = "idle"
  BY <1>1 DEF TurnInv, OneIsBusy
<1>3. \A x \in Procs : x # p => pc[x] \notin HalfDone
  BY <1>2, TurnStates DEF HalfDone
<1>4. \A u \in Tasks : u # req[p].task \/ pc[p] \notin HalfDone => Agrees(u)
  BY <1>2, <1>3 DEF TurnInv, OthersAgree
<1>5. \A u \in Tasks : u # req[p].task => Agrees(u)'
  BY <1>4 DEF Agrees
<1> QED
  BY <1>1, <1>2, <1>4, <1>5

LEMMA TurnPublish == ASSUME CatalogInv, TurnInv, NEW p \in Procs, Publish(p) PROVE TurnInv'
<1> USE TurnStates
<1>1. PICK t, new : /\ t = req[p].task
                    /\ new = [task |-> t, enabled |-> req[p].enabled, ladder |-> req[p].ladder]
  OBVIOUS
<1>2. PICK o \in Unused : /\ cache' = [cache EXCEPT ![t] = o]
                          /\ heap' = Collected([heap EXCEPT ![o] = new])
  BY <1>1 DEF Publish, CacheStruct
<1>3. PICK h : h = [heap EXCEPT ![o] = new]
  OBVIOUS
<1>4. /\ pc[p] = "publish" /\ pc' = [pc EXCEPT ![p] = "snapshot"]
      /\ row' = row /\ req' = req
  BY DEF Publish, Goto, store
<1>5. /\ row \in [Tasks -> Row \cup {Nil}] /\ cache \in [Tasks -> Objs \cup {Nil}]
      /\ heap \in [Objs -> Struct \cup {Nil}] /\ req \in [Procs -> Request] /\ Nil \notin Objs
  BY CatalogFacts
<1>6. t \in Tasks /\ req[p].enabled \in BOOLEAN /\ req[p].ladder \in Ladders
  BY <1>1, <1>4, <1>5, CatalogFacts DEF ServeStates, Request, CatalogInv, RequestsAreKnown
<1>7. /\ o \in Objs /\ heap[o] = Nil /\ new \in Struct
      /\ h \in [Objs -> Struct \cup {Nil}] /\ heap' = Collected(h)
      /\ h[o] = new /\ \A x \in Objs : x # o => h[x] = heap[x]
  BY <1>1, <1>2, <1>3, <1>5, <1>6 DEF Unused, Struct
<1>8. \A u \in Tasks : cache'[u] \in Objs => heap'[cache'[u]] = h[cache'[u]]
  BY <1>7, Kept
<1>9. cache'[t] = o /\ \A u \in Tasks : u # t => cache'[u] = cache[u]
  BY <1>2, <1>5, <1>6
<1>10. \A u \in Tasks : u # t /\ cache[u] # Nil => heap'[cache[u]] = heap[cache[u]]
  <2>1. \A u \in Tasks : cache[u] # Nil => cache[u] \in Objs /\ cache[u] # o
    BY <1>5, <1>7, CatalogFacts, StructAssumption
  <2> QED
    BY <1>7, <1>8, <1>9, <2>1
<1>11. /\ \A a \in Actors : a # p => pc[a] = "idle"
       /\ \A u \in Tasks : u # t => Agrees(u)'
  BY <1>1, <1>4, <1>9, <1>10, OthersStay DEF ServeStates
<1>12. Agrees(t)'
  <2>1. row[t] = [enabled |-> req[p].enabled, ladder |-> req[p].ladder]
    BY <1>1, <1>4 DEF TurnInv, KnowsTheRow
  <2>2. row'[t].enabled = req[p].enabled /\ row'[t].ladder = req[p].ladder
    BY <1>4, <2>1
  <2>3. heap'[cache'[t]] = [task |-> t, enabled |-> row'[t].enabled, ladder |-> row'[t].ladder]
    BY <1>1, <1>6, <1>7, <1>8, <1>9, <2>2
  <2>4. row'[t] \in Row
    BY <1>4, <1>6, <2>1 DEF Row
  <2> QED
    BY <1>5, <1>7, <1>9, <2>3, <2>4, StructAssumption DEF Agrees
<1>13. req' = [req EXCEPT ![p] = req[p]]
  BY <1>4, <1>5
<1> QED
  BY <1>4, <1>11, <1>12, <1>13, OneTurn DEF HalfDone

LEMMA TurnUnpublish == ASSUME CatalogInv, TurnInv, NEW p \in Procs, Unpublish(p) PROVE TurnInv'
<1> USE TurnStates
<1>1. PICK t : t = req[p].task
  OBVIOUS
<1>2. /\ pc[p] = "unpublish" /\ pc' = [pc EXCEPT ![p] = "snapshot"]
      /\ row' = row /\ req' = req /\ cache' = [cache EXCEPT ![t] = Nil] /\ heap' = Collected(heap)
  BY <1>1 DEF Unpublish, Goto, store
<1>3. /\ cache \in [Tasks -> Objs \cup {Nil}] /\ heap \in [Objs -> Struct \cup {Nil}]
      /\ req \in [Procs -> Request] /\ Nil \notin Objs /\ t \in Tasks
  BY <1>1, <1>2, CatalogFacts DEF ServeStates
<1>4. cache'[t] = Nil /\ \A u \in Tasks : u # t => cache'[u] = cache[u]
  BY <1>2, <1>3
<1>5. \A u \in Tasks : cache'[u] \in Objs => heap'[cache'[u]] = heap[cache'[u]]
  BY <1>2, <1>3, Kept
<1>6. \A u \in Tasks : u # t /\ cache[u] # Nil => heap'[cache[u]] = heap[cache[u]]
  BY <1>3, <1>4, <1>5
<1>7. /\ \A a \in Actors : a # p => pc[a] = "idle"
      /\ \A u \in Tasks : u # t => Agrees(u)'
  BY <1>1, <1>2, <1>4, <1>6, OthersStay DEF ServeStates
<1>8. Agrees(t)'
  BY <1>1, <1>2, <1>4 DEF TurnInv, KnowsTheRow, Agrees
<1>9. req' = [req EXCEPT ![p] = req[p]]
  BY <1>2, <1>3
<1> QED
  BY <1>2, <1>7, <1>8, <1>9, OneTurn DEF HalfDone

(* The struct that the cache has for the task of a switch is the task's    *)
(* own, and takes what the table has.                                      *)
LEMMA StructSwitched ==
  ASSUME NEW t \in Tasks, NEW e \in BOOLEAN, NEW s \in Struct, row[t] \in Row,
         row[t].enabled = e, s.task = t, s.ladder = row[t].ladder
  PROVE  [s EXCEPT !.enabled = e] =
           [task |-> t, enabled |-> row[t].enabled, ladder |-> row[t].ladder]
BY DEF Struct

LEMMA TurnSetCached ==
  ASSUME CatalogInv, TurnInv, NEW p \in Procs, SetCachedEnabled(p) PROVE TurnInv'
<1> USE TurnStates
<1>1. PICK t, e, x : t = req[p].task /\ e = req[p].enabled /\ x = cache[t]
  OBVIOUS
<1>2. /\ pc[p] = "setCached" /\ pc' = [pc EXCEPT ![p] = "snapshot"]
      /\ row' = row /\ req' = req /\ cache' = cache
      /\ heap' = [o \in Objs |-> IF o = x THEN [heap[o] EXCEPT !.enabled = e] ELSE heap[o]]
  BY <1>1 DEF SetCachedEnabled, Goto, store
<1>3. /\ row \in [Tasks -> Row \cup {Nil}] /\ cache \in [Tasks -> Objs \cup {Nil}]
      /\ req \in [Procs -> Request] /\ Nil \notin Objs /\ t \in Tasks /\ e \in BOOLEAN
  BY <1>1, <1>2, CatalogFacts DEF ServeStates, Request
<1>4. \A u \in Tasks : u # t /\ cache[u] # Nil => heap'[cache[u]] = heap[cache[u]]
  BY <1>1, <1>2, <1>3, CatalogFacts
<1>5. /\ \A a \in Actors : a # p => pc[a] = "idle"
      /\ \A u \in Tasks : u # t => Agrees(u)'
  BY <1>1, <1>2, <1>4, OthersStay DEF ServeStates
<1>6. Switched(t, e)
  BY <1>1, <1>2 DEF TurnInv, KnowsTheRow
<1>7. Agrees(t)'
  <2>1. CASE row[t] = Nil
    BY <1>2, <1>6, <2>1 DEF Switched, Agrees
  <2>2. CASE row[t] # Nil
    <3>1. /\ row[t] \in Row /\ row[t].enabled = e /\ x \in Objs
          /\ heap[x] \in Struct /\ heap[x].task = t /\ heap[x].ladder = row[t].ladder
      BY <1>1, <1>3, <1>6, <2>2, CatalogFacts DEF Switched
    <3>2. heap'[x] = [heap[x] EXCEPT !.enabled = e]
      BY <1>2, <3>1
    <3>3. heap'[x] = [task |-> t, enabled |-> row[t].enabled, ladder |-> row[t].ladder]
      BY <1>3, <3>1, <3>2, StructSwitched
    <3> QED
      BY <1>1, <1>2, <1>3, <2>2, <3>1, <3>3 DEF Agrees
  <2> QED
    BY <2>1, <2>2
<1>8. req' = [req EXCEPT ![p] = req[p]]
  BY <1>2, <1>3
<1> QED
  BY <1>1, <1>2, <1>5, <1>7, <1>8, OneTurn DEF HalfDone

LEMMA TurnToggleStore ==
  ASSUME CatalogInv, TurnInv, NEW p \in Procs, ToggleStore(p) PROVE TurnInv'
<1> USE TurnStates
<1>1. PICK q, t, e : q = req[p] /\ t = q.task /\ e = q.enabled
  OBVIOUS
<1>2. /\ pc[p] = "toggleStore" /\ pc' = [pc EXCEPT ![p] = "togglePtr"]
      /\ StoreEnabled(t, e) /\ req' = req /\ cache' = cache /\ heap' = heap
  BY <1>1 DEF ToggleStore, Goto, memory
<1>3. /\ req \in [Procs -> Request] /\ t \in Tasks /\ e \in BOOLEAN
  BY <1>1, <1>2, CatalogFacts DEF ServeStates, Request
<1>4. /\ \A u \in Tasks : u # t => row'[u] = row[u]
      /\ row'[t] = Nil <=> row[t] = Nil
      /\ row[t] # Nil => row'[t].enabled = e /\ row'[t].ladder = row[t].ladder
  BY <1>2, <1>3, StoreEnabledRow
<1>5. /\ \A a \in Actors : a # p => pc[a] = "idle"
      /\ \A u \in Tasks : u # t => Agrees(u)'
      /\ Agrees(t)
  BY <1>1, <1>2, <1>4, OthersStay DEF ServeStates, HalfDone
<1>6. row[t] # Nil /\ q.ptr = cache[t]
  BY <1>1, <1>2 DEF TurnInv, KnowsTheRow
<1>7. Switched(t, e)'
  <2>1. cache[t] # Nil /\ heap[cache[t]].task = t /\ heap[cache[t]].ladder = row[t].ladder
    BY <1>3, <1>5, <1>6, AgreesFields
  <2> QED
    BY <1>2, <1>4, <1>6, <2>1 DEF Switched
<1>8. req' = [req EXCEPT ![p] = q]
  BY <1>1, <1>2, <1>3
<1>9. \A u \in Tasks : ("togglePtr" \in HalfDone /\ q.task = u) \/ Agrees(u)'
  BY <1>1, <1>5 DEF HalfDone
<1>10. row'[q.task] # Nil /\ q.ptr = cache'[q.task] /\ Switched(q.task, q.enabled)'
  BY <1>1, <1>2, <1>4, <1>6, <1>7
<1> QED
  BY <1>2, <1>5, <1>8, <1>9, <1>10, OneTurn

LEMMA TurnToggleCached ==
  ASSUME CatalogInv, TurnInv, NEW p \in Procs, ToggleCached(p) PROVE TurnInv'
<1> USE TurnStates
<1>1. PICK t, e, x : t = req[p].task /\ e = req[p].enabled /\ x = req[p].ptr
  OBVIOUS
<1>2. PICK b \in Background : /\ pc[b] = "idle"
                              /\ pc' = [pc EXCEPT ![p] = "idle", ![b] = "snapshot"]
  BY DEF ToggleCached
<1>3. PICK h : h = [heap EXCEPT ![x].enabled = e]
  OBVIOUS
<1>4. /\ pc[p] = "togglePtr" /\ row' = row /\ cache' = cache /\ heap' = Collected(h)
  BY <1>1, <1>3 DEF ToggleCached, store
<1>5. /\ row \in [Tasks -> Row \cup {Nil}] /\ cache \in [Tasks -> Objs \cup {Nil}]
      /\ heap \in [Objs -> Struct \cup {Nil}]
      /\ req \in [Procs -> Request] /\ Nil \notin Objs /\ t \in Tasks /\ e \in BOOLEAN
      /\ pc \in [Actors -> ProcStates] /\ p \in Actors /\ b \in Actors /\ p # b
  BY <1>1, <1>4, CatalogFacts, ProcsAssumption DEF ServeStates, Request, Actors
<1>6. Switched(t, e) /\ row[t] # Nil /\ x = cache[t]
  BY <1>1, <1>4 DEF TurnInv, KnowsTheRow
<1>7. /\ row[t] \in Row /\ row[t].enabled = e /\ x \in Objs
      /\ heap[x] \in Struct /\ heap[x].task = t /\ heap[x].ladder = row[t].ladder
  BY <1>5, <1>6, CatalogFacts DEF Switched
<1>8. /\ h = [heap EXCEPT ![x] = [heap[x] EXCEPT !.enabled = e]]
      /\ [heap[x] EXCEPT !.enabled = e] \in Struct
  BY <1>3, <1>5, <1>7 DEF Struct
<1>9. /\ h \in [Objs -> Struct \cup {Nil}] /\ h[x] = [heap[x] EXCEPT !.enabled = e]
      /\ \A o \in Objs : o # x => h[o] = heap[o]
  BY <1>5, <1>7, <1>8
<1>10. \A u \in Tasks : cache'[u] \in Objs => heap'[cache'[u]] = h[cache'[u]]
  BY <1>4, <1>9, Kept
<1>11. \A u \in Tasks : u # t /\ cache[u] # Nil => heap'[cache[u]] = heap[cache[u]]
  BY <1>4, <1>5, <1>6, <1>9, <1>10, CatalogFacts
<1>12. /\ \A a \in Actors : a # p => pc[a] = "idle"
       /\ \A u \in Tasks : u # t => Agrees(u)'
  BY <1>1, <1>4, <1>11, OthersStay DEF ServeStates
<1>13. Agrees(t)'
  <2>1. heap'[x] = [heap[x] EXCEPT !.enabled = e]
    BY <1>4, <1>5, <1>6, <1>7, <1>9, <1>10
  <2>2. heap'[x] = [task |-> t, enabled |-> row[t].enabled, ladder |-> row[t].ladder]
    BY <1>5, <1>7, <2>1, StructSwitched
  <2> QED
    BY <1>4, <1>5, <1>6, <1>7, <2>2 DEF Agrees
<1>14. /\ pc'[b] = "snapshot" /\ \A a \in Actors : a # b => pc'[a] = "idle"
       /\ \A r \in Procs : pc'[r] = "idle" \/ pc'[r] = "snapshot"
  BY <1>2, <1>5, <1>12
<1>15. OneIsBusy'
  BY <1>14 DEF OneIsBusy
<1>16. OthersAgree'
  BY <1>12, <1>13 DEF OthersAgree
<1>17. \A r \in Procs : KnowsTheRow(r)'
  BY <1>14 DEF KnowsTheRow
<1> QED
  BY <1>15, <1>16, <1>17 DEF TurnInv

(* Run now on a task that the cache does not have finds no row either.     *)
LEMMA TurnLoad == ASSUME CatalogInv, TurnInv, NEW p \in Procs, LoadRow(p) PROVE TurnInv'
<1> USE TurnStates
<1>1. /\ pc[p] = "load" /\ row[req[p].task] = Nil
      /\ row' = row /\ cache' = cache /\ heap' = heap
  BY DEF LoadRow, TurnInv, KnowsTheRow, store, memory
<1>2. pc' = [pc EXCEPT ![p] = "idle"] /\ req' = [req EXCEPT ![p] = NoRequest]
  BY <1>1 DEF LoadRow, Answer, Goto
<1>3. /\ \A a \in Actors : a # p => pc[a] = "idle"
      /\ \A u \in Tasks : u # req[p].task => Agrees(u)'
      /\ Agrees(req[p].task)
  BY <1>1, OthersStay DEF ServeStates, HalfDone
<1>4. \A u \in Tasks : Agrees(u)'
  BY <1>1, <1>3 DEF Agrees
<1> QED
  BY <1>2, <1>3, <1>4, OneTurn

LEMMA TurnServe ==
  ASSUME CatalogInv, TurnInv, NEW p \in Procs, Serve(p) PROVE TurnInv'
<1>1. ~ FillCache(p)
  BY DEF FillCache, TurnInv, KnowsTheRow
<1> QED
  BY <1>1, TurnPublish, TurnUnpublish, TurnSetCached, TurnLoad, TurnToggleStore,
     TurnToggleCached DEF Serve

(***************************************************************************)
(* Rebuilds and the process                                                *)
(***************************************************************************)

(* What a rebuild leaves alone.                                            *)
LEMMA RebuildKeeps ==
  ASSUME CatalogInv, NEW a \in Actors, Rebuild(a)
  PROVE  /\ up /\ UNCHANGED <<row, cache, up>>
         /\ \A t \in Tasks : cache[t] # Nil => heap'[cache[t]] = heap[cache[t]]
         /\ \A b \in Actors : b # a => pc'[b] = pc[b]
         /\ \A p \in Procs : p # a => req'[p] = req[p]
         /\ pc[a] \in {"snapshot", "lock", "install"} /\ pc'[a] \in {"idle", "lock", "install"}
<1>1. pc \in [Actors -> ProcStates] /\ heap \in [Objs -> Struct \cup {Nil}]
  BY CatalogFacts
<1>2. UNCHANGED <<row, cache, up>>
  BY DEF Rebuild, Snapshot, ClearEntries, ScheduleTask, Unlock, store, memory
<1>3. \A t \in Tasks : cache[t] # Nil => heap'[cache[t]] = heap[cache[t]]
  <2>1. CASE ScheduleTask(a)
    <3>1. heap' = Collected(heap)
      BY <2>1 DEF ScheduleTask
    <3>2. \A t \in Tasks : cache'[t] \in Objs => heap'[cache'[t]] = heap[cache'[t]]
      BY <1>1, <3>1, Kept
    <3> QED
      BY <1>2, <3>2, CatalogFacts
  <2>2. CASE Snapshot(a) \/ ClearEntries(a) \/ Unlock(a)
    BY <2>2 DEF Snapshot, ClearEntries, Unlock, memory
  <2> QED
    BY <2>1, <2>2 DEF Rebuild
<1>4. /\ \A b \in Actors : b # a => pc'[b] = pc[b]
      /\ pc[a] \in {"snapshot", "lock", "install"} /\ pc'[a] \in {"idle", "lock", "install"}
  BY <1>1 DEF Rebuild, Snapshot, ClearEntries, ScheduleTask, Unlock, Goto
<1>5. \A p \in Procs : p # a => req'[p] = req[p]
  BY DEF Rebuild, Snapshot, ClearEntries, ScheduleTask, Unlock
<1>6. up
  BY <1>4, CatalogFacts
<1> QED
  BY <1>2, <1>3, <1>4, <1>5, <1>6

LEMMA TurnRebuild ==
  ASSUME CatalogInv, TurnInv, NEW a \in Actors, Rebuild(a) PROVE TurnInv'
<1>1. /\ UNCHANGED <<row, cache, up>>
      /\ \A t \in Tasks : cache[t] # Nil => heap'[cache[t]] = heap[cache[t]]
      /\ \A b \in Actors : b # a => pc'[b] = pc[b]
      /\ \A p \in Procs : p # a => req'[p] = req[p]
      /\ pc[a] \in {"snapshot", "lock", "install"} /\ pc'[a] \in {"idle", "lock", "install"}
  BY RebuildKeeps
<1>2. OneIsBusy'
  BY <1>1 DEF TurnInv, OneIsBusy
<1>3. \A p \in Procs : pc'[p] \in ServeStates \/ pc[p] \in ServeStates =>
                       pc'[p] = pc[p] /\ req'[p] = req[p]
  BY <1>1, TurnStates DEF ServeStates
<1> QED
  BY <1>1, <1>2, <1>3, QuietTurn

(* Start takes over what the table has.                                    *)
LEMMA StartAgrees ==
  ASSUME CatalogInv, Start
  PROVE  /\ \A t \in Tasks : Agrees(t)'
         /\ \A a \in Actors : pc[a] = "idle" /\ pc'[a] = "idle" /\ snap'[a] = snap[a]
         /\ UNCHANGED <<row, req>> /\ up'
         /\ \A t \in Tasks : entries'[t] =
              IF row[t] = Nil THEN {} ELSE Recorded(Due(row[t].enabled, row[t].ladder))
<1>1. PICK at \in [Tasks -> Objs] :
        /\ \A s, t \in Tasks : at[s] = at[t] => s = t
        /\ cache' = [t \in Tasks |-> IF row[t] = Nil THEN Nil ELSE at[t]]
        /\ heap' = [o \in Objs |->
             IF \E t \in Tasks : row[t] # Nil /\ at[t] = o
               THEN LET t == CHOOSE t \in Tasks : at[t] = o
                    IN [task |-> t, enabled |-> row[t].enabled, ladder |-> row[t].ladder]
               ELSE Nil]
  BY DEF Start
<1>2. /\ ~up /\ up' = TRUE /\ UNCHANGED <<row, schedMu, pc, req, snap>>
      /\ jobs' = [t \in Tasks |->
           IF row[t] = Nil THEN [r \in Rungs |-> 0] ELSE Due(row[t].enabled, row[t].ladder)]
      /\ entries' = [t \in Tasks |-> Recorded(jobs'[t])]
  BY DEF Start
<1>3. ASSUME NEW t \in Tasks, row[t] # Nil
      PROVE  heap'[at[t]] = [task |-> t, enabled |-> row[t].enabled, ladder |-> row[t].ladder]
  <2>1. (CHOOSE u \in Tasks : at[u] = at[t]) = t
    BY <1>1
  <2> QED
    BY <1>1, <1>3, <2>1
<1>4. \A t \in Tasks : Agrees(t)'
  <2>1. \A t \in Tasks : row[t] # Nil => cache'[t] = at[t] /\ at[t] # Nil
    BY <1>1, NilAssumption
  <2> QED
    BY <1>1, <1>2, <1>3, <2>1 DEF Agrees
<1>5. \A a \in Actors : pc[a] = "idle"
  BY <1>2, CatalogFacts
<1>6. \A t \in Tasks : entries'[t] =
        IF row[t] = Nil THEN {} ELSE Recorded(Due(row[t].enabled, row[t].ladder))
  <2>1. Recorded([r \in Rungs |-> 0]) = {}
    BY DEF Recorded
  <2> QED
    BY <1>2, <2>1
<1> QED
  BY <1>2, <1>4, <1>5, <1>6

LEMMA TurnStart == ASSUME CatalogInv, Start PROVE TurnInv'
<1>1. OneIsBusy' /\ OthersAgree'
  BY StartAgrees DEF OneIsBusy, OthersAgree
<1>2. \A p \in Procs : KnowsTheRow(p)'
  BY StartAgrees, TurnStates DEF KnowsTheRow
<1> QED
  BY <1>1, <1>2 DEF TurnInv

LEMMA TurnExit == ASSUME Exit PROVE TurnInv'
<1>1. ~up' /\ \A a \in Actors : pc'[a] = "idle"
  BY DEF Exit
<1>2. OneIsBusy' /\ OthersAgree'
  BY <1>1 DEF OneIsBusy, OthersAgree
<1>3. \A p \in Procs : KnowsTheRow(p)'
  BY <1>1, TurnStates DEF KnowsTheRow
<1> QED
  BY <1>2, <1>3 DEF TurnInv

LEMMA TurnInit == Init => TurnInv
<1> SUFFICES ASSUME Init PROVE TurnInv
  OBVIOUS
<1>1. ~up /\ \A a \in Actors : pc[a] = "idle"
  BY DEF Init
<1>2. OneIsBusy /\ OthersAgree
  BY <1>1 DEF OneIsBusy, OthersAgree
<1>3. \A p \in Procs : KnowsTheRow(p)
  BY <1>1, TurnStates DEF KnowsTheRow
<1> QED
  BY <1>2, <1>3 DEF TurnInv

(***************************************************************************)
(* Snapshots and jobs are those of the cache as it is                      *)
(***************************************************************************)

(* A step of a request leaves a rebuild to come, and cron to the rebuilds. *)
LEMMA ServeLeavesARebuild ==
  ASSUME CatalogInv, NEW p \in Procs, Serve(p), ~FillCache(p), ~LoadRow(p)
  PROVE  /\ ~Quiet' /\ UNCHANGED snap
         /\ \A a \in Actors : pc'[a] \in {"lock", "install"} => pc'[a] = pc[a]
         /\ ~Publish(p) /\ ~Unpublish(p) => cache' = cache
<1>1. pc \in [Actors -> ProcStates] /\ p \in Actors
  BY CatalogFacts, TurnStates
<1>2. UNCHANGED snap /\ (~Publish(p) /\ ~Unpublish(p) => cache' = cache)
  BY DEF Serve, Publish, Unpublish, SetCachedEnabled, ToggleStore, ToggleCached, memory
<1>3. /\ \E a \in Actors : pc'[a] \in {"snapshot", "togglePtr"}
      /\ \A a \in Actors : pc'[a] \in {"lock", "install"} => pc'[a] = pc[a]
  <2>1. CASE ToggleCached(p)
    <3>1. PICK b \in Background : pc' = [pc EXCEPT ![p] = "idle", ![b] = "snapshot"]
      BY <2>1 DEF ToggleCached
    <3> QED
      BY <1>1, <3>1 DEF Actors
  <2>2. CASE ToggleStore(p)
    BY <1>1, <2>2 DEF ToggleStore, Goto
  <2>3. CASE Publish(p) \/ Unpublish(p) \/ SetCachedEnabled(p)
    BY <1>1, <2>3 DEF Publish, Unpublish, SetCachedEnabled, Goto
  <2> QED
    BY <2>1, <2>2, <2>3 DEF Serve
<1> QED
  BY <1>2, <1>3 DEF Quiet

LEMMA CurrentServe ==
  ASSUME CatalogInv, CurrentInv, NEW p \in Procs, Serve(p), ~FillCache(p), ~LoadRow(p),
         Publish(p) \/ Unpublish(p) => \A a \in Actors : a # p => pc[a] = "idle"
  PROVE  CurrentInv'
<1>1. EntriesAreCurrent'
  BY ServeLeavesARebuild DEF EntriesAreCurrent
<1>2. \A a \in Actors : pc'[a] \in {"lock", "install"} => cache' = cache /\ pc'[a] = pc[a]
  <2>1. Publish(p) \/ Unpublish(p) => pc[p] \notin {"lock", "install"}
    BY DEF Publish, Unpublish
  <2> QED
    BY <2>1, ServeLeavesARebuild
<1>3. UNCHANGED snap
  BY ServeLeavesARebuild
<1>4. SnapshotsAreCurrent'
  BY <1>2, <1>3 DEF CurrentInv, SnapshotsAreCurrent, Pointers
<1> QED
  BY <1>1, <1>4 DEF CurrentInv

(* Run now on a miss: neither of its steps so far changes anything, and if *)
(* it has read a row, the cache is still to be filled.                     *)
LEMMA CurrentMiss ==
  ASSUME CatalogInv, CurrentInv, NEW p \in Procs, RunNow(p) \/ LoadRow(p) PROVE CurrentInv'
<1>1. /\ pc \in [Actors -> ProcStates] /\ p \in Actors
      /\ UNCHANGED <<cache, heap, entries, snap, up>>
  BY CatalogFacts, TurnStates DEF RunNow, LoadRow, memory, cron
<1>2. /\ pc[p] \in {"idle", "load"} /\ pc'[p] \in {"idle", "load", "fill"}
      /\ \A a \in Actors : a # p => pc'[a] = pc[a]
  BY <1>1 DEF RunNow, LoadRow, Arrives, Goto, Answer
<1>3. SnapshotsAreCurrent'
  BY <1>1, <1>2 DEF CurrentInv, SnapshotsAreCurrent, Pointers
<1>4. (Quiet' => Quiet) /\ ToInstall' = ToInstall /\ \A t \in Tasks : Wanted(t)' = Wanted(t)
  <2>1. {b \in Actors : pc'[b] = "install"} = {b \in Actors : pc[b] = "install"}
    BY <1>2
  <2>2. ToInstall' = ToInstall
    BY <1>1, <2>1 DEF ToInstall
  <2> QED
    BY <1>1, <1>2, <2>2 DEF Quiet, Wanted
<1> QED
  BY <1>1, <1>3, <1>4 DEF CurrentInv, EntriesAreCurrent

LEMMA CurrentAccept ==
  ASSUME CatalogInv, CurrentInv, NEW p \in Procs, Accept(p) PROVE CurrentInv'
<1>1. CASE RunNow(p)
  BY <1>1, CurrentMiss
<1>2. CASE ~RunNow(p)
  <2>1. /\ pc \in [Actors -> ProcStates] /\ p \in Actors
    BY CatalogFacts, TurnStates
  <2>2. \E st \in ServeStates \ {"load"} : pc' = [pc EXCEPT ![p] = st]
    BY <1>2 DEF Accept, Create, Update, Delete, SetEnabled, Toggle, SaveTask, Goto, ServeStates
  <2>3. UNCHANGED <<cache, snap>>
    BY <1>2 DEF Accept, Create, Update, Delete, SetEnabled, Toggle, SaveTask, memory
  <2>4. pc'[p] \in ServeStates \ {"load"} /\ \A a \in Actors : a # p => pc'[a] = pc[a]
    BY <2>1, <2>2
  <2>5. ~Quiet'
    BY <2>1, <2>4 DEF Quiet, ServeStates
  <2>6. SnapshotsAreCurrent'
    BY <2>3, <2>4 DEF CurrentInv, SnapshotsAreCurrent, Pointers, ServeStates
  <2> QED
    BY <2>5, <2>6 DEF CurrentInv, EntriesAreCurrent
<1> QED
  BY <1>1, <1>2

LEMMA CurrentStart == ASSUME CatalogInv, Start PROVE CurrentInv'
<1>1. CatalogInv'
  BY StartInv
<1>2. /\ \A t \in Tasks : Agrees(t)'
      /\ \A a \in Actors : pc'[a] = "idle"
      /\ row' = row
      /\ \A t \in Tasks : entries'[t] =
           IF row[t] = Nil THEN {} ELSE Recorded(Due(row[t].enabled, row[t].ladder))
  BY StartAgrees
<1>3. SnapshotsAreCurrent'
  BY <1>2 DEF SnapshotsAreCurrent
<1>4. ToInstall' = {}
  BY <1>2 DEF ToInstall
<1>5. ASSUME NEW t \in Tasks PROVE entries'[t] = Wanted(t)'
  <2>1. CASE row[t] = Nil
    BY <1>2, <2>1 DEF Agrees, Wanted
  <2>2. CASE row[t] # Nil
    <3>1. PICK x : x = heap'[cache'[t]]
      OBVIOUS
    <3>2. /\ cache'[t] # Nil
          /\ x = [task |-> t, enabled |-> row[t].enabled, ladder |-> row[t].ladder]
      BY <1>2, <2>2, <3>1 DEF Agrees
    <3>3. x.enabled = row[t].enabled /\ x.ladder = row[t].ladder
      BY <3>2
    <3> QED
      BY <1>2, <2>2, <3>1, <3>2, <3>3 DEF Wanted
  <2> QED
    BY <2>1, <2>2
<1>6. EntriesAreCurrent'
  BY <1>4, <1>5 DEF EntriesAreCurrent
<1> QED
  BY <1>3, <1>6 DEF CurrentInv

LEMMA CurrentExit == ASSUME Exit PROVE CurrentInv'
BY DEF Exit, CurrentInv, SnapshotsAreCurrent, EntriesAreCurrent

LEMMA CurrentInit == Init => CurrentInv
BY DEF Init, CurrentInv, SnapshotsAreCurrent, EntriesAreCurrent

(* The steps of a rebuild: the cache does not change meanwhile.            *)
LEMMA CurrentSnapshot ==
  ASSUME CatalogInv, CurrentInv, NEW a \in Actors, Snapshot(a) PROVE CurrentInv'
<1>1. /\ snap' = [snap EXCEPT ![a] = Pointers] /\ cache' = cache
      /\ pc' = [pc EXCEPT ![a] = "lock"]
  BY DEF Snapshot, Pointers, memory, Goto
<1>2. /\ pc'[a] = "lock" /\ snap'[a] = Pointers
      /\ \A b \in Actors : b # a => pc'[b] = pc[b] /\ snap'[b] = snap[b]
  BY <1>1, CatalogFacts
<1>3. SnapshotsAreCurrent'
  BY <1>1, <1>2 DEF CurrentInv, SnapshotsAreCurrent, Pointers
<1>4. ~Quiet'
  BY <1>2 DEF Quiet
<1> QED
  BY <1>3, <1>4 DEF CurrentInv, EntriesAreCurrent

LEMMA CurrentClear ==
  ASSUME CatalogInv, CurrentInv, NEW a \in Actors, ClearEntries(a)
  PROVE  CurrentInv'
<1>1. /\ pc[a] = "lock" /\ schedMu = Nil /\ pc' = [pc EXCEPT ![a] = "install"]
      /\ entries' = [t \in Tasks |-> {}] /\ UNCHANGED <<cache, heap, snap, up>>
  BY DEF ClearEntries, memory, Goto
<1>2. /\ pc'[a] = "install" /\ snap[a] = Pointers
      /\ \A b \in Actors : b # a => pc'[b] = pc[b]
  BY <1>1, CatalogFacts DEF CurrentInv, SnapshotsAreCurrent
<1>3. \A b \in Actors : pc[b] # "install"
  BY <1>1, NilAssumption DEF CatalogInv, OneRebuildInstalls, Actors
<1>4. SnapshotsAreCurrent'
  BY <1>1, <1>2 DEF CurrentInv, SnapshotsAreCurrent, Pointers
<1>5. ToInstall' = Pointers
  <2>1. {b \in Actors : pc'[b] = "install"} = {a}
    BY <1>2, <1>3
  <2>2. snap'[a] = Pointers
    BY <1>1, <1>2
  <2> QED
    BY <2>1, <2>2 DEF ToInstall
<1>6. \A t \in Tasks : cache'[t] = Nil => Wanted(t)' = {}
  BY DEF Wanted
<1>7. \A t \in Tasks : cache'[t] # Nil => cache'[t] \in Pointers
  BY <1>1 DEF Pointers
<1>8. \A t \in Tasks : entries'[t] = IF cache'[t] \in ToInstall' THEN {} ELSE Wanted(t)'
  BY <1>1, <1>5, <1>6, <1>7
<1>9. EntriesAreCurrent'
  BY <1>8 DEF EntriesAreCurrent
<1> QED
  BY <1>4, <1>9 DEF CurrentInv

LEMMA CurrentSchedule ==
  ASSUME CatalogInv, CurrentInv, NEW a \in Actors, ScheduleTask(a) PROVE CurrentInv'
<1>1. /\ pc[a] = "install" /\ UNCHANGED <<cache, pc, up>>
  BY DEF ScheduleTask
<1>2. PICK o \in snap[a] :
        LET t == heap[o].task
            due == Due(heap[o].enabled, heap[o].ladder)
        IN /\ entries' = [entries EXCEPT ![t] = @ \cup Recorded(due)]
           /\ snap' = [snap EXCEPT ![a] = @ \ {o}]
  BY DEF ScheduleTask
<1>3. PICK u \in Tasks : o = cache[u] /\ cache[u] # Nil
  BY <1>1, <1>2 DEF CurrentInv, SnapshotsAreCurrent, Pointers
<1>4. /\ o \in Objs /\ heap[o] \in Struct /\ heap[o].task = u
      /\ entries \in [Tasks -> SUBSET Rungs] /\ snap \in [Actors -> SUBSET Objs]
  BY <1>3, CatalogFacts
<1>5. PICK due : due = Due(heap[o].enabled, heap[o].ladder)
  OBVIOUS
<1>6. /\ entries' = [entries EXCEPT ![u] = entries[u] \cup Recorded(due)]
      /\ snap' = [snap EXCEPT ![a] = snap[a] \ {o}]
  BY <1>2, <1>4, <1>5
<1>7. /\ snap'[a] = snap[a] \ {o} /\ \A b \in Actors : b # a => snap'[b] = snap[b]
      /\ \A t \in Tasks : t # u => entries'[t] = entries[t]
      /\ entries'[u] = entries[u] \cup Recorded(due)
  BY <1>4, <1>6
<1>8. SnapshotsAreCurrent'
  BY <1>1, <1>7 DEF CurrentInv, SnapshotsAreCurrent, Pointers
<1>9. ToInstall = snap[a] /\ ToInstall' = snap[a] \ {o}
  <2>1. {b \in Actors : pc[b] = "install"} = {a}
    BY <1>1 DEF CatalogInv, OneRebuildInstalls
  <2>2. {b \in Actors : pc'[b] = "install"} = {a}
    BY <1>1, <2>1
  <2>3. ToInstall = snap[a]
    BY <2>1 DEF ToInstall
  <2>4. ToInstall' = snap'[a]
    BY <2>2 DEF ToInstall
  <2> QED
    BY <1>7, <2>3, <2>4
<1>10. \A t \in Tasks : Wanted(t)' = Wanted(t)
  <2>1. \A t \in Tasks : cache[t] # Nil => heap'[cache[t]] = heap[cache[t]]
    BY RebuildKeeps DEF Rebuild
  <2> QED
    BY <1>1, <2>1 DEF Wanted
<1>11. ASSUME up', Quiet', NEW t \in Tasks
       PROVE  entries'[t] = IF cache'[t] \in ToInstall' THEN {} ELSE Wanted(t)'
  <2>1. entries[t] = IF cache[t] \in snap[a] THEN {} ELSE Wanted(t)
    <3>1. up /\ Quiet
      BY <1>1, <1>11 DEF Quiet
    <3> QED
      BY <1>9, <3>1 DEF CurrentInv, EntriesAreCurrent
  <2>2. CASE t = u
    <3>1. entries[u] = {}
      BY <1>2, <1>3, <2>1, <2>2
    <3>2. entries'[u] = Recorded(due)
      BY <1>7, <3>1
    <3>3. Wanted(u) = Recorded(due)
      BY <1>3, <1>5 DEF Wanted
    <3>4. cache'[u] \notin ToInstall'
      BY <1>1, <1>3, <1>9
    <3> QED
      BY <1>10, <2>2, <3>2, <3>3, <3>4
  <2>3. CASE t # u
    <3>1. cache[t] # o
      BY <1>3, <2>3, CatalogFacts
    <3> QED
      BY <1>1, <1>7, <1>9, <1>10, <2>1, <2>3, <3>1
  <2> QED
    BY <2>2, <2>3
<1>12. EntriesAreCurrent'
  BY <1>11 DEF EntriesAreCurrent
<1> QED
  BY <1>8, <1>12 DEF CurrentInv

LEMMA CurrentUnlock ==
  ASSUME CatalogInv, CurrentInv, NEW a \in Actors, Unlock(a) PROVE CurrentInv'
<1>1. /\ pc[a] = "install" /\ snap[a] = {} /\ pc' = [pc EXCEPT ![a] = "idle"]
      /\ UNCHANGED <<cache, heap, entries, snap, up>>
  BY DEF Unlock, memory, Goto
<1>2. pc'[a] = "idle" /\ \A b \in Actors : b # a => pc'[b] = pc[b] /\ pc[b] # "install"
  BY <1>1, CatalogFacts DEF CatalogInv, OneRebuildInstalls
<1>3. SnapshotsAreCurrent'
  BY <1>1, <1>2 DEF CurrentInv, SnapshotsAreCurrent, Pointers
<1>4. ToInstall = {} /\ ToInstall' = {}
  BY <1>1, <1>2 DEF ToInstall
<1>5. Quiet' => Quiet
  BY <1>1, <1>2 DEF Quiet
<1>6. \A t \in Tasks : Wanted(t)' = Wanted(t)
  BY <1>1 DEF Wanted
<1>7. EntriesAreCurrent'
  BY <1>1, <1>4, <1>5, <1>6 DEF CurrentInv, EntriesAreCurrent
<1> QED
  BY <1>3, <1>7 DEF CurrentInv

LEMMA CurrentRebuild ==
  ASSUME CatalogInv, CurrentInv, NEW a \in Actors, Rebuild(a) PROVE CurrentInv'
BY CurrentSnapshot, CurrentClear, CurrentSchedule, CurrentUnlock DEF Rebuild

(***************************************************************************)
(* The mixes                                                               *)
(***************************************************************************)

LEMMA ArrivalAccepts == ASSUME NEW p \in Procs, Arrival(p) PROVE Accept(p)
BY DEF Arrival, Accept

LEMMA ControlOfSwitches ==
  ASSUME CatalogInv, OnlySwitches, NEW p \in Procs,
         SetEnabled(p) \/ Toggle(p) \/ Serve(p)
  PROVE  OnlySwitches'
<1>1. pc \in [Actors -> ProcStates] /\ p \in Actors /\ \A r \in Procs : r \in Actors
  BY CatalogFacts, TurnStates
<1>2. CASE ToggleCached(p)
  BY <1>1, <1>2 DEF ToggleCached, OnlySwitches, Actors
<1>3. CASE SetEnabled(p) \/ Toggle(p) \/ SetCachedEnabled(p) \/ ToggleStore(p)
  BY <1>1, <1>3 DEF SetEnabled, Toggle, SetCachedEnabled, ToggleStore, Goto, OnlySwitches
<1>4. ~Publish(p) /\ ~Unpublish(p) /\ ~LoadRow(p) /\ ~FillCache(p)
  BY DEF Publish, Unpublish, LoadRow, FillCache, OnlySwitches
<1> QED
  BY <1>2, <1>3, <1>4 DEF Serve

LEMMA MixInit == MCInit => MixInv
<1> SUFFICES ASSUME MCInit PROVE MixInv
  OBVIOUS
<1>1. Init /\ mix \in Mixes
  BY DEF MCInit
<1>2. OnlySwitches
  BY <1>1, TurnStates DEF Init, OnlySwitches
<1> QED
  BY <1>1, <1>2, InitInv, TurnInit, CurrentInit DEF MixInv

(* One step of each mix.                                                   *)
LEMMA SerialStep ==
  ASSUME CatalogInv, TurnInv, NEW p \in Procs, (InTurn /\ Accept(p)) \/ Serve(p) PROVE TurnInv'
BY TurnAccept, TurnServe

LEMMA MixRequest ==
  ASSUME MixInv, NEW p \in Procs, Arrival(p) \/ Serve(p), mix' = mix PROVE MixInv'
<1>1. CatalogInv'
  BY ArrivalAccepts, NextInv DEF MixInv, Next
<1>2. ASSUME mix = "serial" PROVE TurnInv' /\ CurrentInv'
  <2>1. (InTurn /\ Accept(p)) \/ Serve(p)
    BY <1>2 DEF Arrival
  <2>2. TurnInv'
    BY <1>2, <2>1, SerialStep DEF MixInv
  <2>3. CASE Accept(p)
    BY <1>2, <2>2, <2>3, CurrentAccept DEF MixInv
  <2>4. CASE Serve(p)
    <3>1. ~FillCache(p)
      BY <1>2 DEF MixInv, FillCache, TurnInv, KnowsTheRow
    <3>2. Publish(p) \/ Unpublish(p) => \A a \in Actors : a # p => pc[a] = "idle"
      BY <1>2, TurnStates DEF MixInv, Publish, Unpublish, TurnInv, OneIsBusy
    <3> QED
      BY <1>2, <2>2, <2>4, <3>1, <3>2, CurrentServe, CurrentMiss DEF MixInv
  <2> QED
    BY <2>1, <2>2, <2>3, <2>4
<1>3. ASSUME mix = "switching" PROVE OnlySwitches' /\ CurrentInv'
  <2>1. SetEnabled(p) \/ Toggle(p) \/ Serve(p)
    BY <1>3 DEF Arrival
  <2>2. OnlySwitches'
    BY <1>3, <2>1, ControlOfSwitches DEF MixInv
  <2>3. CASE SetEnabled(p) \/ Toggle(p)
    BY <1>3, <2>2, <2>3, CurrentAccept DEF MixInv, Accept
  <2>4. CASE Serve(p)
    <3>1. ~FillCache(p) /\ ~LoadRow(p) /\ ~Publish(p) /\ ~Unpublish(p)
      BY <1>3 DEF MixInv, FillCache, LoadRow, Publish, Unpublish, OnlySwitches
    <3> QED
      BY <1>3, <2>2, <2>4, <3>1, CurrentServe DEF MixInv
  <2> QED
    BY <2>1, <2>2, <2>3, <2>4
<1> QED
  BY <1>1, <1>2, <1>3 DEF MixInv

LEMMA MixNext == MixInv /\ [MCNext]_mcVars => MixInv'
<1> SUFFICES ASSUME MixInv, [MCNext]_mcVars PROVE MixInv'
  OBVIOUS
<1>1. CASE UNCHANGED mcVars
  <2>1. UNCHANGED vars /\ mix' = mix
    BY <1>1 DEF mcVars
  <2>2. CatalogInv'
    BY <2>1, NextInv DEF MixInv
  <2>3. TurnInv => TurnInv'
    BY <2>1 DEF vars, TurnInv, OneIsBusy, OthersAgree, KnowsTheRow, Agrees, Switched
  <2>4. CurrentInv => CurrentInv'
    BY <2>1 DEF vars, CurrentInv, SnapshotsAreCurrent, EntriesAreCurrent, Pointers, Quiet,
                ToInstall, Wanted
  <2>5. OnlySwitches => OnlySwitches'
    BY <2>1 DEF vars, OnlySwitches
  <2> QED
    BY <2>1, <2>2, <2>3, <2>4, <2>5 DEF MixInv
<1>2. CASE Start /\ mix' = mix
  <2>1. CatalogInv' /\ TurnInv' /\ CurrentInv'
    BY <1>2, StartInv, TurnStart, CurrentStart DEF MixInv
  <2>2. OnlySwitches'
    BY <1>2, StartAgrees, TurnStates DEF OnlySwitches, MixInv
  <2> QED
    BY <1>2, <2>1, <2>2 DEF MixInv
<1>3. CASE Exit /\ mix' = mix
  <2>1. CatalogInv' /\ TurnInv' /\ CurrentInv'
    BY <1>3, ExitInv, TurnExit, CurrentExit DEF MixInv
  <2>2. OnlySwitches'
    BY <1>3, TurnStates DEF Exit, OnlySwitches
  <2> QED
    BY <1>3, <2>1, <2>2 DEF MixInv
<1>4. ASSUME NEW a \in Actors, Rebuild(a), mix' = mix PROVE MixInv'
  <2>1. CatalogInv'
    BY <1>4, NextInv DEF MixInv, Next
  <2>2. TurnInv => TurnInv'
    BY <1>4, TurnRebuild DEF MixInv
  <2>3. CurrentInv => CurrentInv'
    BY <1>4, CurrentRebuild DEF MixInv
  <2>4. OnlySwitches => OnlySwitches'
    <3>1. /\ \A b \in Actors : b # a => pc'[b] = pc[b]
          /\ pc'[a] \in {"idle", "lock", "install"}
      BY <1>4, RebuildKeeps DEF MixInv
    <3> QED
      BY <3>1, TurnStates DEF OnlySwitches
  <2> QED
    BY <1>4, <2>1, <2>2, <2>3, <2>4 DEF MixInv
<1>5. MCNext => /\ mix' = mix
                /\ \/ Start \/ Exit
                   \/ \E p \in Procs : Arrival(p) \/ Serve(p)
                   \/ \E a \in Actors : Rebuild(a)
  BY DEF MCNext
<1> QED
  BY <1>1, <1>2, <1>3, <1>4, <1>5, MixRequest

(* The cache agrees with the table whenever nothing is in progress, if     *)
(* requests come one at a time: every handler's write of the row is        *)
(* followed by the write of the cache that belongs to it, wherever the     *)
(* process may have ended before (engine.go:143-213).                      *)
THEOREM CacheIsTheTable == MCSpec => []CacheFollowsStoreInTurn
<1>1. MixInv => CacheFollowsStoreInTurn
  <2> SUFFICES ASSUME MixInv, mix = "serial", AtRest, NEW t \in Tasks PROVE Agrees(t)
    BY DEF CacheFollowsStoreInTurn, CacheFollowsStore, Agrees
  <2>1. TurnInv /\ up /\ \A p \in Procs : pc[p] \notin HalfDone
    BY TurnStates DEF MixInv, AtRest, HalfDone
  <2> QED
    BY <2>1, AllAgree
<1> QED
  BY <1>1, MixInit, MixNext, PTL DEF MCSpec

(* When nothing is in progress, cron holds one job for every scheduled     *)
(* rung ID of the enabled tasks of the cache, and else only what a rung ID *)
(* that occurs twice has left behind, if requests come one at a time or    *)
(* switches and toggles overlap at will: although a rebuild installs a     *)
(* snapshot taken earlier, its pointers are those of the cache, and every  *)
(* change of a struct is followed by a snapshot of its own (engine.go:     *)
(* 78-116).                                                                *)
THEOREM ScheduleIsTheCache == MCSpec => []ScheduleFollowsSwitches
<1>1. MixInv => ScheduleFollowsSwitches
  <2> SUFFICES ASSUME MixInv, mix \in {"serial", "switching"}, AtRest,
                      NEW t \in Tasks, NEW r \in Rungs
               PROVE  jobs[t][r] = strays[t][r] +
                        IF cache[t] # Nil
                             /\ r \in Recorded(Due(heap[cache[t]].enabled, heap[cache[t]].ladder))
                          THEN 1 ELSE 0
    BY DEF ScheduleFollowsSwitches, ScheduleFollowsCache
  <2>1. CurrentInv /\ up /\ Quiet /\ ToInstall = {}
    BY DEF MixInv, AtRest, Quiet, ToInstall
  <2>2. entries[t] = Wanted(t)
    BY <2>1 DEF CurrentInv, EntriesAreCurrent
  <2>3. jobs[t][r] = strays[t][r] + IF r \in entries[t] THEN 1 ELSE 0
    BY DEF MixInv, CatalogInv, JobsAreRecorded
  <2>4. r \in entries[t] <=>
          cache[t] # Nil /\ r \in Recorded(Due(heap[cache[t]].enabled, heap[cache[t]].ladder))
    BY <2>2 DEF Wanted
  <2> QED
    BY <2>3, <2>4
<1> QED
  BY <1>1, MixInit, MixNext, PTL DEF MCSpec
=============================================================================
