-------------------------- MODULE TaskLadderProofs --------------------------
(* Proofs about TaskLadder: what a pass executes and reports, and what its *)
(* contacts have read.  Passes of any number overlap.                      *)
EXTENDS TaskLadder, WellFoundedInduction, TLAPS

(***************************************************************************)
(* The rungs of a run                                                      *)
(***************************************************************************)

LEMMA LeastOfNat ==
  ASSUME NEW S \in SUBSET Nat, S # {}
  PROVE  Min(S) \in S /\ \A n \in S : Min(S) <= n
<1>1. \E m \in S : \A n \in S : ~(<<n, m>> \in OpToRel(<, Nat))
  BY WFMin, NatLessThanWellFounded, Zenon
<1>2. \A n, m \in S : <<n, m>> \in OpToRel(<, Nat) <=> n < m
  BY DEF OpToRel
<1>3. \E m \in S : \A n \in S : m <= n
  <2>1. PICK m \in S : \A n \in S : ~(<<n, m>> \in OpToRel(<, Nat))
    BY <1>1
  <2>2. \A n \in S : ~(n < m)
    BY <1>2, <2>1
  <2> QED
    BY <2>2
<1> QED
  BY <1>3 DEF Min

LEMMA RungsOfRun ==
  ASSUME NEW r \in Run
  PROVE  /\ Due(r) \subseteq Nat \ {0} /\ Due(r) \subseteq DOMAIN Ladder[r.task]
         /\ r.i \in Nat /\ r.task \in Tasks
         /\ NextRungs(r.task, r.only, r.i) = {n \in Due(r) : n > r.i}
         /\ \A n \in Due(r) :
              /\ RungAt(r, n).id \in RungIds /\ RungAt(r, n).contacts \in Seq(Contact)
              /\ DOMAIN RungAt(r, n).contacts = 1..Len(RungAt(r, n).contacts)
              /\ RungAt(r, n).contacts # <<>> => 1 \in DOMAIN RungAt(r, n).contacts
              /\ Len(RungAt(r, n).actions) \in Nat \ {0}
              /\ DOMAIN RungAt(r, n).actions = 1..Len(RungAt(r, n).actions)
              /\ \A a \in DOMAIN RungAt(r, n).actions : RungAt(r, n).actions[a].value \in BOOLEAN
<1>1. r.i \in Nat /\ r.task \in Tasks
  BY DEF Run
<1>2. DOMAIN Ladder[r.task] = 1..Len(Ladder[r.task]) /\ Len(Ladder[r.task]) \in Nat
  BY <1>1, LadderAssumption DEF IsSequence
<1>3. Due(r) \subseteq Nat \ {0} /\ Due(r) \subseteq DOMAIN Ladder[r.task]
  BY <1>2 DEF Due, NextRungs
<1>4. NextRungs(r.task, r.only, r.i) = {n \in Due(r) : n > r.i}
  BY <1>1, <1>2 DEF Due, NextRungs
<1>5. ASSUME NEW n \in Due(r)
      PROVE  /\ RungAt(r, n).id \in RungIds /\ RungAt(r, n).contacts \in Seq(Contact)
             /\ Len(RungAt(r, n).actions) \in Nat \ {0}
             /\ DOMAIN RungAt(r, n).actions = 1..Len(RungAt(r, n).actions)
             /\ \A a \in DOMAIN RungAt(r, n).actions : RungAt(r, n).actions[a].value \in BOOLEAN
  BY <1>1, <1>3, LadderAssumption DEF IsSequence, RungAt
<1>6. \A q \in Seq(Contact) : DOMAIN q = 1..Len(q) /\ (q # <<>> => 1 \in DOMAIN q)
  OBVIOUS
<1> QED
  BY <1>1, <1>3, <1>4, <1>5, <1>6

LEMMA WatchedRungs ==
  ASSUME NEW t \in Tasks
  PROVE  /\ Watched(t) \subseteq RungIds
         /\ \A i \in DOMAIN Ladder[t] : \A k \in DOMAIN Ladder[t][i].contacts :
              Ladder[t][i].contacts[k].kind = "rung" => Ladder[t][i].contacts[k].ref \in Watched(t)
<1>1. ASSUME NEW id \in Watched(t) PROVE id \in RungIds
  <2>1. PICK i \in DOMAIN Ladder[t] : \E c \in Range(Ladder[t][i].contacts) :
          c.kind = "rung" /\ id = c.ref
    BY DEF Watched
  <2> QED
    BY <2>1, LadderAssumption DEF Range
<1>2. ASSUME NEW i \in DOMAIN Ladder[t], NEW k \in DOMAIN Ladder[t][i].contacts,
             Ladder[t][i].contacts[k].kind = "rung"
      PROVE  Ladder[t][i].contacts[k].ref \in Watched(t)
  <2>1. PICK c : c = Ladder[t][i].contacts[k]
    OBVIOUS
  <2>2. c \in Range(Ladder[t][i].contacts) /\ c.kind = "rung"
    BY <1>2, <2>1 DEF Range
  <2> QED
    BY <2>1, <2>2 DEF Watched
<1> QED
  BY <1>1, <1>2

(* What a run knows in one of its states.                                  *)
GoodRun(st, r) == /\ st \in {"eval", "act", "commit"} /\ r \in Run
                  /\ InOrder(st, r) /\ Reported(st, r) /\ DecidedByReading(r)

(* All rungs up to the run's are decided and executed.                     *)
Ready(r) == /\ r \in Run /\ r.i \in Due(r) \cup {0}
            /\ \A n \in Due(r) : Decided(r, n) <=> n <= r.i
            /\ \A n \in r.fired : n \in Due(r) /\ Decided(r, n)
            /\ Reported("commit", r) /\ DecidedByReading(r)

(* q has decided what r has.                                               *)
SameDecisions(r, q) ==
  /\ q.task = r.task /\ q.only = r.only /\ q.fired = r.fired
  /\ \A n \in Due(r) : Decided(q, n) <=> Decided(r, n)

LEMMA AdvanceGood ==
  ASSUME NEW s \in Slots, NEW r, Ready(r), Advance(s, r)
  PROVE  \E st, q : /\ state' = [state EXCEPT ![s] = st] /\ run' = [run EXCEPT ![s] = q]
                    /\ GoodRun(st, q) /\ SameDecisions(r, q)
<1> DEFINE more == NextRungs(r.task, r.only, r.i)
<1>0. r \in Run
  BY DEF Ready
<1>1. /\ Due(r) \subseteq Nat \ {0} /\ r.i \in Nat /\ more = {n \in Due(r) : n > r.i}
      /\ \A n \in Due(r) : RungAt(r, n).contacts # <<>> => 1 \in DOMAIN RungAt(r, n).contacts
  BY <1>0, RungsOfRun
<1>2. CASE more = {}
  <2>1. state' = [state EXCEPT ![s] = "commit"] /\ run' = [run EXCEPT ![s] = r]
    BY <1>2 DEF Advance
  <2>2. InOrder("commit", r)
    BY <1>1, <1>2 DEF Ready, InOrder
  <2>3. GoodRun("commit", r)
    BY <2>2 DEF Ready, GoodRun
  <2> QED
    BY <2>1, <2>3 DEF SameDecisions
<1>3. CASE more # {}
  <2>0. PICK m : m = Min(more)
    OBVIOUS
  <2>2. /\ m \in Due(r) /\ m > r.i /\ m \in Nat
        /\ \A n \in Due(r) : n > r.i => m <= n
    BY <1>1, <1>3, <2>0, LeastOfNat
  <2>q. PICK q : q = [r EXCEPT !.i = m, !.k = 1, !.j = 0]
    OBVIOUS
  <2>1. state' = [state EXCEPT ![s] = "eval"] /\ run' = [run EXCEPT ![s] = q]
    BY <1>3, <2>0, <2>q DEF Advance
  <2> HIDE DEF more
  <2>3. /\ q \in Run /\ q.i = m /\ q.k = 1 /\ q.task = r.task /\ q.only = r.only
        /\ q.j = 0 /\ q.fired = r.fired /\ q.view = r.view /\ q.results = r.results /\ q.ok = r.ok
    <3>1. m \in Nat /\ 1 \in Nat /\ 0 \in Nat
      BY <2>2
    <3> QED
      BY <1>0, <2>q, <3>1 DEF Run
  <2>4. /\ Due(q) = Due(r)
        /\ \A n : RungAt(q, n) = RungAt(r, n) /\ (Energized(q, n) <=> Energized(r, n))
    BY <2>3 DEF Due, RungAt, Energized
  <2>5. ASSUME NEW n \in Due(r) PROVE n < q.i <=> n <= r.i
    <3>1. n \in Nat /\ r.i \in Nat
      BY <1>1
    <3>2. n > r.i => m <= n
      BY <2>2
    <3> QED
      BY <2>2, <2>3, <3>1, <3>2
  <2>6. \A n \in Due(r) : (Decided(q, n) <=> n < q.i) /\ (Decided(q, n) <=> Decided(r, n))
    BY <2>3, <2>5 DEF Ready, Decided
  <2>7. InOrder("eval", q)
    BY <1>1, <2>2, <2>3, <2>4, <2>6 DEF InOrder, Ready, Energized
  <2>8. ASSUME NEW n, NEW a PROVE Executed("eval", q, n, a) <=> Executed("commit", r, n, a)
    <3>1. n \in Due(r) /\ Energized(r, n) => n < q.i
      BY <2>6 DEF Ready, Energized
    <3> QED
      BY <1>1, <2>2, <2>3, <2>4, <2>5, <3>1 DEF Executed
  <2>9. Reported("eval", q)
    <3>1. Reported("commit", r)
      BY DEF Ready
    <3> QED
      BY <2>3, <2>4, <2>8, <3>1 DEF Reported
  <2>10. DecidedByReading(q) /\ SameDecisions(r, q)
    BY <2>3, <2>4, <2>6 DEF Ready, DecidedByReading, SameDecisions
  <2> QED
    BY <2>1, <2>3, <2>7, <2>9, <2>10 DEF GoodRun
<1> QED
  BY <1>2, <1>3

(***************************************************************************)
(* What one step of a run does to the run                                  *)
(***************************************************************************)

(* What the guarantees of a run are about.                                 *)
SameRun(r, q) ==
  /\ q.task = r.task /\ q.only = r.only /\ q.i = r.i /\ q.fired = r.fired
  /\ q.results = r.results /\ q.ok = r.ok

LEMMA SameRunKnows ==
  ASSUME NEW r, NEW q, NEW st, SameRun(r, q), q.j = r.j
  PROVE  /\ Due(q) = Due(r)
         /\ \A n : RungAt(q, n) = RungAt(r, n) /\ (Decided(q, n) <=> Decided(r, n))
                  /\ (Energized(q, n) <=> Energized(r, n))
         /\ Reported(st, q) <=> Reported(st, r)
         /\ q.view = r.view => (DecidedByReading(q) <=> DecidedByReading(r))
<1>1. /\ Due(q) = Due(r)
      /\ \A n : RungAt(q, n) = RungAt(r, n) /\ (Decided(q, n) <=> Decided(r, n))
               /\ (Energized(q, n) <=> Energized(r, n))
  BY DEF SameRun, Due, RungAt, Decided, Energized
<1>2. \A n, a : Executed(st, q, n, a) <=> Executed(st, r, n, a)
  BY <1>1 DEF SameRun, Executed
<1>3. Reported(st, q) <=> Reported(st, r)
  BY <1>1, <1>2 DEF SameRun, Reported
<1>4. q.view = r.view => (DecidedByReading(q) <=> DecidedByReading(r))
  BY <1>1 DEF DecidedByReading
<1> QED
  BY <1>1, <1>3, <1>4

(* The condition of the rung at which the run is has been settled.         *)
Settled(r, seen, en, q) ==
  /\ q \in Run /\ q.task = r.task /\ q.only = r.only /\ q.i = r.i /\ q.j = 1
  /\ q.view = seen.view /\ q.results = r.results /\ q.ok = r.ok
  /\ Due(q) = Due(r) /\ \A n : RungAt(q, n) = RungAt(r, n)
  /\ \A n \in q.fired : n \in Due(q)
  /\ \A n \in Due(r) : /\ Decided(q, n) <=> n <= r.i
                       /\ n # r.i => (Decided(q, n) <=> Decided(r, n))
                       /\ Energized(q, n) <=> (IF n = r.i THEN en ELSE Energized(r, n))

LEMMA SettledRung ==
  ASSUME NEW r \in Run, InOrder("eval", r), NEW en \in BOOLEAN,
         NEW seen \in Run, SameRun(r, seen),
         NEW q, q = [seen EXCEPT !.energized[RungAt(r, r.i).id] = en, !.j = 1,
                                 !.fired = IF en THEN @ \cup {seen.i} ELSE @]
  PROVE  Settled(r, seen, en, q)
<1>1. /\ r.i \in Due(r) /\ Due(r) \subseteq Nat \ {0} /\ r.i \in Nat
      /\ \A n \in Due(r) : RungAt(r, n).id \in RungIds
  BY RungsOfRun DEF InOrder
<1>2. PICK id \in RungIds : id = RungAt(r, r.i).id
  BY <1>1
<1>3. PICK fired \in SUBSET Nat : fired = IF en THEN r.fired \cup {r.i} ELSE r.fired
  BY <1>1 DEF Run
<1>4. PICK given : given = [seen.energized EXCEPT ![id] = en]
  OBVIOUS
<1>5. given \in [RungIds -> BOOLEAN \cup {Nil}]
  BY <1>4 DEF Run
<1>6. q = [seen EXCEPT !.energized = given, !.j = 1, !.fired = fired]
  BY <1>2, <1>3, <1>4 DEF SameRun, Run
<1>7. /\ q \in Run /\ q.task = r.task /\ q.only = r.only /\ q.i = r.i /\ q.j = 1
      /\ q.view = seen.view /\ q.results = r.results /\ q.ok = r.ok /\ q.fired = fired
  <2>1. ASSUME NEW p, p = [seen EXCEPT !.energized = given, !.j = 1, !.fired = fired]
        PROVE  /\ p \in Run /\ p.task = seen.task /\ p.only = seen.only /\ p.i = seen.i
               /\ p.j = 1 /\ p.view = seen.view /\ p.results = seen.results
               /\ p.ok = seen.ok /\ p.fired = fired
    BY <1>5, <2>1 DEF Run
  <2> QED
    BY <1>6, <2>1 DEF SameRun
<1>8. Due(q) = Due(r) /\ \A n : RungAt(q, n) = RungAt(r, n)
  BY <1>7 DEF Due, RungAt
<1>9. r.i \notin r.fired /\ \A n \in r.fired : n \in Due(r)
  BY <1>1 DEF InOrder
<1>10. ASSUME NEW n \in Due(r)
       PROVE  /\ Decided(q, n) <=> n <= r.i
              /\ n # r.i => (Decided(q, n) <=> Decided(r, n))
              /\ Energized(q, n) <=> (IF n = r.i THEN en ELSE Energized(r, n))
  <2>1. n \in Nat /\ (Decided(r, n) <=> n < r.i)
    BY <1>1 DEF InOrder
  <2>2. Decided(q, n) <=> n <= r.i
    BY <1>1, <1>7, <2>1 DEF Decided
  <2>3. Energized(q, n) <=> (IF n = r.i THEN en ELSE Energized(r, n))
    BY <1>3, <1>7, <1>9 DEF Energized
  <2> QED
    BY <1>1, <2>1, <2>2, <2>3
<1>11. \A n \in q.fired : n \in Due(q)
  BY <1>1, <1>3, <1>7, <1>8, <1>9
<1> QED
  BY <1>7, <1>8, <1>10, <1>11 DEF Settled

(* en is what the reading of the run says, if the rung is on one metric.   *)
ByReading(r, n, en) ==
  LET c == RungAt(r, n).contacts
      v == r.view["metric"]
  IN Len(c) = 1 /\ c[1].kind = "metric" /\ ~c[1].negate =>
       v # Nil /\ (en <=> (v # Failed /\ v[c[1].ref] \in c[1].want))

(* The run goes on with what settling its rung has left.                   *)
SettledTo(r, seen, en, q) == \E z : Settled(r, seen, en, z) /\ SameDecisions(z, q)

LEMMA SettleGood ==
  ASSUME NEW s \in Slots, NEW r, run[s] = r, GoodRun("eval", r),
         NEW en \in BOOLEAN, NEW seen \in Run, SameRun(r, seen), seen.j = r.j, DecidedByReading(seen),
         ByReading(seen, r.i, en), Settle(s, seen, en)
  PROVE  \E st, q : /\ state' = [state EXCEPT ![s] = st] /\ run' = [run EXCEPT ![s] = q]
                    /\ GoodRun(st, q) /\ SettledTo(r, seen, en, q)
<1>1. PICK q : q = [seen EXCEPT !.energized[RungAt(r, r.i).id] = en, !.j = 1,
                                  !.fired = IF en THEN @ \cup {seen.i} ELSE @]
  OBVIOUS
<1>2. r \in Run /\ InOrder("eval", r) /\ Reported("eval", r)
  BY DEF GoodRun
<1>0. Settled(r, seen, en, q)
  BY <1>1, <1>2, SettledRung
<1>3. /\ q \in Run /\ q.task = r.task /\ q.only = r.only /\ q.i = r.i /\ q.j = 1
      /\ q.view = seen.view /\ q.results = r.results /\ q.ok = r.ok
      /\ Due(q) = Due(r) /\ \A n : RungAt(q, n) = RungAt(r, n)
      /\ \A n \in q.fired : n \in Due(q)
      /\ \A n \in Due(r) : /\ Decided(q, n) <=> n <= r.i
                           /\ n # r.i => (Decided(q, n) <=> Decided(r, n))
                           /\ Energized(q, n) <=> (IF n = r.i THEN en ELSE Energized(r, n))
  BY <1>0 DEF Settled
<1>4. /\ r.i \in Due(r) /\ Due(r) \subseteq Nat \ {0}
      /\ \A n \in Due(r) : Decided(r, n) <=> n < r.i
      /\ \A n \in Due(r) : DOMAIN RungAt(r, n).actions = 1..Len(RungAt(r, n).actions)
      /\ \A n \in Due(r) : Len(RungAt(r, n).actions) \in Nat \ {0}
  BY <1>2, RungsOfRun DEF InOrder
<1>5. /\ Due(seen) = Due(r) /\ \A n : RungAt(seen, n) = RungAt(r, n)
      /\ \A n : (Decided(seen, n) <=> Decided(r, n)) /\ (Energized(seen, n) <=> Energized(r, n))
  BY SameRunKnows
<1>6. DecidedByReading(q)
  <2>1. ASSUME NEW n \in Due(q), n = r.i PROVE ByReading(q, n, Energized(q, n))
    BY <1>3, <1>5, <2>1 DEF ByReading
  <2>2. ASSUME NEW n \in Due(q), n # r.i PROVE Decided(q, n) => ByReading(q, n, Energized(q, n))
    BY <1>3, <1>5, <2>2 DEF ByReading, DecidedByReading
  <2> QED
    BY <2>1, <2>2 DEF ByReading, DecidedByReading
<1>7. RungOf(s) = RungAt(r, r.i)
  BY DEF RungOf, RungAt
<1>8. /\ \A n \in Due(r) : Energized(r, n) => n < r.i
      /\ \A n \in q.fired : n \in Due(q) /\ Decided(q, n)
  <2>1. \A n \in Due(r) : Energized(r, n) => n < r.i
    BY <1>2, <1>4 DEF InOrder, Energized
  <2>2. ASSUME NEW n \in q.fired PROVE n \in Due(q) /\ Decided(q, n)
    <3>1. n \in Due(r) /\ Energized(q, n)
      BY <1>3 DEF Energized
    <3>2. n <= r.i
      BY <1>3, <1>4, <2>1, <3>1
    <3> QED
      BY <1>3, <3>1, <3>2
  <2> QED
    BY <2>1, <2>2
<1>9. CASE en
  <2>1. run' = [run EXCEPT ![s] = q] /\ state' = [state EXCEPT ![s] = "act"]
    BY <1>1, <1>7, <1>9 DEF Settle
  <2>2. InOrder("act", q)
    BY <1>3, <1>4, <1>8, <1>9 DEF InOrder
  <2>3. ASSUME NEW n, NEW a PROVE Executed("act", q, n, a) <=> Executed("eval", r, n, a)
    BY <1>3, <1>4, <1>8, <1>9 DEF Executed
  <2>4. Reported("act", q)
    BY <1>2, <1>3, <2>3 DEF Reported
  <2> QED
    <3>1. GoodRun("act", q)
      BY <1>3, <1>6, <2>2, <2>4 DEF GoodRun
    <3>2. SettledTo(r, seen, en, q)
      BY <1>0 DEF SettledTo, SameDecisions
    <3> QED
      BY <2>1, <3>1, <3>2
<1>10. CASE ~en
  <2>1. Advance(s, q)
    BY <1>1, <1>7, <1>10 DEF Settle
  <2>2. ASSUME NEW n, NEW a PROVE Executed("commit", q, n, a) <=> Executed("eval", r, n, a)
    BY <1>3, <1>4, <1>8, <1>10 DEF Executed
  <2>3. Reported("commit", q)
    BY <1>2, <1>3, <2>2 DEF Reported
  <2>4. Ready(q)
    BY <1>3, <1>4, <1>6, <1>8, <2>3 DEF Ready
  <2> QED
    BY <1>0, <2>1, <2>4, AdvanceGood DEF SettledTo
<1> QED
  BY <1>9, <1>10

(***************************************************************************)
(* The other goroutines, and the steps of one                              *)
(***************************************************************************)

(* One run steps, the others do not.                                       *)
LEMMA OneRun ==
  ASSUME RunsInv, NEW s \in Slots, NEW st, NEW q, GoodRun(st, q),
         state' = [state EXCEPT ![s] = st], run' = [run EXCEPT ![s] = q],
         world' \in [Sensors -> Levels], flags' \in [Flags -> BOOLEAN],
         enabled' \in [Tasks -> TaskStates], lastEnergized' = lastEnergized,
         past' \in [Slots -> SUBSET (RungIds \X BOOLEAN)]
  PROVE  RunsInv'
<1>1. TypeOK /\ state \in [Slots -> {"idle", "eval", "act", "commit"}]
      /\ run \in [Slots -> Run \cup {Nil}]
  BY DEF RunsInv, TypeOK
<1>2. st \in {"eval", "act", "commit"} /\ q \in Run /\ q # Nil
  BY NilAssumption DEF GoodRun
<1>3. /\ state'[s] = st /\ run'[s] = q
      /\ \A x \in Slots : x # s => state'[x] = state[x] /\ run'[x] = run[x]
      /\ state' \in [Slots -> {"idle", "eval", "act", "commit"}]
      /\ run' \in [Slots -> Run \cup {Nil}]
  BY <1>1, <1>2
<1>4. /\ st = "eval" => q.i \in DOMAIN Ladder[q.task]
      /\ st = "act" => q.j \in DOMAIN Ladder[q.task][q.i].actions
  BY <1>2, RungsOfRun DEF GoodRun, InOrder, RungAt
<1>5. lastEnergized' \in [Tasks -> [RungIds -> BOOLEAN]]
  BY <1>1 DEF TypeOK
<1>6. ASSUME NEW x \in Slots
      PROVE  /\ run'[x] = Nil <=> state'[x] = "idle"
             /\ state'[x] = "eval" => run'[x].i \in DOMAIN Ladder[run'[x].task]
             /\ state'[x] = "act" =>
                  run'[x].j \in DOMAIN Ladder[run'[x].task][run'[x].i].actions
             /\ state'[x] # "idle" => /\ InOrder(state'[x], run'[x])
                                      /\ Reported(state'[x], run'[x])
                                      /\ DecidedByReading(run'[x])
  <2>1. CASE x = s
    BY <1>2, <1>3, <1>4, <2>1 DEF GoodRun
  <2>2. CASE x # s
    BY <1>3, <2>2 DEF RunsInv, TypeOK
  <2> QED
    BY <2>1, <2>2
<1>7. TypeOK'
  BY <1>3, <1>5, <1>6 DEF TypeOK
<1> QED
  BY <1>6, <1>7 DEF RunsInv

LEMMA RunInProgress ==
  ASSUME RunsInv, NEW s \in Slots, state[s] # "idle"
  PROVE  GoodRun(state[s], run[s])
<1>1. state[s] \in {"eval", "act", "commit"} /\ run[s] \in Run
  BY DEF RunsInv, TypeOK
<1> QED
  BY <1>1 DEF RunsInv, GoodRun

(* The run of a slot is over.                                              *)
LEMMA NoRun ==
  ASSUME RunsInv, NEW S \in SUBSET Slots,
         state' \in [Slots -> {"idle", "eval", "act", "commit"}],
         run' \in [Slots -> Run \cup {Nil}],
         \A x \in S : state'[x] = "idle" /\ run'[x] = Nil,
         \A x \in Slots \ S : state'[x] = state[x] /\ run'[x] = run[x],
         world' \in [Sensors -> Levels], flags' \in [Flags -> BOOLEAN],
         enabled' \in [Tasks -> TaskStates],
         lastEnergized' \in [Tasks -> [RungIds -> BOOLEAN]],
         past' \in [Slots -> SUBSET (RungIds \X BOOLEAN)]
  PROVE  RunsInv'
<1>1. ASSUME NEW x \in Slots
      PROVE  /\ run'[x] = Nil <=> state'[x] = "idle"
             /\ state'[x] = "eval" => run'[x].i \in DOMAIN Ladder[run'[x].task]
             /\ state'[x] = "act" =>
                  run'[x].j \in DOMAIN Ladder[run'[x].task][run'[x].i].actions
             /\ state'[x] # "idle" => /\ InOrder(state'[x], run'[x])
                                      /\ Reported(state'[x], run'[x])
                                      /\ DecidedByReading(run'[x])
  <2>1. CASE x \in S
    BY <2>1
  <2>2. CASE x \notin S
    BY <2>2 DEF RunsInv, TypeOK
  <2> QED
    BY <2>1, <2>2
<1>2. TypeOK'
  BY <1>1 DEF TypeOK
<1> QED
  BY <1>1, <1>2 DEF RunsInv

LEMMA CommitStep ==
  ASSUME RunsInv, NEW s \in Slots, Commit(s) PROVE RunsInv'
<1>0. PICK r : r = run[s]
  OBVIOUS
<1>1. r \in Run
  BY <1>0, RunInProgress DEF Commit, GoodRun
<1>2. /\ state \in [Slots -> {"idle", "eval", "act", "commit"}]
      /\ run \in [Slots -> Run \cup {Nil}]
      /\ world \in [Sensors -> Levels] /\ flags \in [Flags -> BOOLEAN]
      /\ enabled \in [Tasks -> TaskStates] /\ lastEnergized \in [Tasks -> [RungIds -> BOOLEAN]]
      /\ past \in [Slots -> SUBSET (RungIds \X BOOLEAN)]
  BY DEF RunsInv, TypeOK
<1>3. /\ state' \in [Slots -> {"idle", "eval", "act", "commit"}]
      /\ run' \in [Slots -> Run \cup {Nil}]
      /\ state'[s] = "idle" /\ run'[s] = Nil
      /\ \A x \in Slots \ {s} : state'[x] = state[x] /\ run'[x] = run[x]
  BY <1>2 DEF Commit
<1>4. r.task \in Tasks /\ r.energized \in [RungIds -> BOOLEAN \cup {Nil}]
  BY <1>1 DEF Run
<1>5. lastEnergized' \in [Tasks -> [RungIds -> BOOLEAN]]
  <2>1. [id \in RungIds |-> IF r.energized[id] = Nil THEN lastEnergized[r.task][id]
                             ELSE r.energized[id]] \in [RungIds -> BOOLEAN]
    BY <1>2, <1>4
  <2> QED
    BY <1>0, <1>2, <2>1 DEF Commit
<1>6. past' \in [Slots -> SUBSET (RungIds \X BOOLEAN)]
  <2>1. PICK left : left = {<<id, r.energized[id]>> :
                              id \in {n \in Watched(r.task) : r.energized[n] # Nil}}
    OBVIOUS
  <2>2. left \subseteq RungIds \X BOOLEAN
    BY <1>4, <2>1, WatchedRungs
  <2>3. past' = [x \in Slots |-> IF x = s THEN {}
                   ELSE IF run[x] = Nil \/ run[x].task # r.task THEN past[x]
                   ELSE past[x] \cup left]
    BY <1>0, <2>1 DEF Commit
  <2> QED
    BY <1>2, <2>2, <2>3
<1> QED
  <2>1. /\ {s} \in SUBSET Slots /\ \A x \in {s} : state'[x] = "idle" /\ run'[x] = Nil
        /\ world' \in [Sensors -> Levels] /\ flags' \in [Flags -> BOOLEAN]
        /\ enabled' \in [Tasks -> TaskStates]
    BY <1>2, <1>3 DEF Commit
  <2> QED
    BY <1>3, <1>5, <1>6, <2>1, NoRun

LEMMA AdministerStep ==
  ASSUME RunsInv, Change \/ Administer \/ Restart \/ UNCHANGED vars PROVE RunsInv'
<1>1. /\ state \in [Slots -> {"idle", "eval", "act", "commit"}]
      /\ run \in [Slots -> Run \cup {Nil}]
      /\ world \in [Sensors -> Levels] /\ flags \in [Flags -> BOOLEAN]
      /\ enabled \in [Tasks -> TaskStates] /\ lastEnergized \in [Tasks -> [RungIds -> BOOLEAN]]
      /\ past \in [Slots -> SUBSET (RungIds \X BOOLEAN)]
  BY DEF RunsInv, TypeOK
<1>2. CASE Change \/ Administer \/ UNCHANGED vars
  <2>1. /\ state' = state /\ run' = run /\ flags' = flags /\ lastEnergized' = lastEnergized
        /\ world' \in [Sensors -> Levels] /\ enabled' \in [Tasks -> TaskStates]
        /\ past' = past
    BY <1>1, <1>2 DEF Change, Administer, vars
  <2>2. /\ {} \in SUBSET Slots /\ \A x \in {} : state'[x] = "idle" /\ run'[x] = Nil
        /\ \A x \in Slots \ {} : state'[x] = state[x] /\ run'[x] = run[x]
        /\ state' \in [Slots -> {"idle", "eval", "act", "commit"}]
        /\ run' \in [Slots -> Run \cup {Nil}] /\ flags' \in [Flags -> BOOLEAN]
        /\ lastEnergized' \in [Tasks -> [RungIds -> BOOLEAN]]
        /\ past' \in [Slots -> SUBSET (RungIds \X BOOLEAN)]
    BY <1>1, <2>1
  <2> QED
    BY <2>1, <2>2, NoRun
<1>3. CASE Restart
  <2>1. \A x \in Slots : state'[x] = "idle" /\ run'[x] = Nil
    BY <1>3 DEF Restart
  <2>2. /\ state' \in [Slots -> {"idle", "eval", "act", "commit"}]
        /\ run' \in [Slots -> Run \cup {Nil}] /\ flags' \in [Flags -> BOOLEAN]
        /\ lastEnergized' \in [Tasks -> [RungIds -> BOOLEAN]]
        /\ world' = world /\ enabled' = enabled
        /\ past' \in [Slots -> SUBSET (RungIds \X BOOLEAN)]
    BY <1>3 DEF Restart
  <2> QED
    BY <1>1, <2>1, <2>2, NoRun
<1> QED
  BY <1>2, <1>3

LEMMA ExpireStep ==
  ASSUME RunsInv, NEW s \in Slots, Expire(s) PROVE RunsInv'
<1>1. GoodRun(state[s], run[s]) /\ run[s] \in Run
  BY RunInProgress DEF Expire, GoodRun
<1>2. PICK q : q = [run[s] EXCEPT !.expired = TRUE]
  OBVIOUS
<1>3. /\ q \in Run /\ SameRun(run[s], q) /\ q.j = run[s].j /\ q.k = run[s].k
      /\ q.view = run[s].view
  BY <1>1, <1>2 DEF Run, SameRun
<1>4. GoodRun(state[s], q)
  BY <1>1, <1>3, SameRunKnows DEF GoodRun, InOrder, SameRun
<1>5. /\ state \in [Slots -> {"idle", "eval", "act", "commit"}]
      /\ run \in [Slots -> Run \cup {Nil}]
      /\ world' \in [Sensors -> Levels] /\ flags' \in [Flags -> BOOLEAN]
      /\ enabled' \in [Tasks -> TaskStates] /\ lastEnergized' = lastEnergized
      /\ past' \in [Slots -> SUBSET (RungIds \X BOOLEAN)]
  BY DEF RunsInv, TypeOK, Expire
<1>6. state' = [state EXCEPT ![s] = state[s]] /\ run' = [run EXCEPT ![s] = q]
  BY <1>2, <1>5 DEF Expire
<1> QED
  BY <1>4, <1>5, <1>6, OneRun

(* Nothing is decided when a run begins.                                   *)
Fresh(r, t) == r.task = t /\ r.i = 0 /\ r.ok = TRUE /\ r.results = <<>> /\ r.fired = {} /\ r.j = 0

LEMMA BeginsRun ==
  ASSUME RunsInv, NEW s \in Slots, NEW t \in Tasks, NEW only \in RungIds \cup {Nil},
         Begin(s, t, only)
  PROVE  \E r \in Run : Advance(s, r) /\ Fresh(r, t)
<1>1. world \in [Sensors -> Levels]
  BY DEF RunsInv, TypeOK
<1>2. PICK r : r = [task |-> t, only |-> only, i |-> 0, k |-> 1, j |-> 0, fired |-> {},
                    energized |-> [x \in RungIds |-> Nil],
                    view |-> [p \in Probes \cup {"time"} |->
                                IF p = "time" THEN world ELSE Nil],
                    expired |-> FALSE, ok |-> TRUE, results |-> <<>>]
  OBVIOUS
<1>3. Advance(s, r)
  BY <1>2 DEF Begin
<1>4. /\ r \in Run /\ r.task = t /\ r.only = only /\ r.i = 0 /\ r.ok = TRUE
      /\ r.results = <<>> /\ r.fired = {} /\ r.j = 0
  <2>1. [x \in RungIds |-> Nil] \in [RungIds -> BOOLEAN \cup {Nil}]
    OBVIOUS
  <2>2. [p \in Probes \cup {"time"} |-> IF p = "time" THEN world ELSE Nil]
          \in [Probes \cup {"time"} -> Views]
    BY <1>1 DEF Views
  <2>3. <<>> \in Seq([rung : Nat, action : Nat, ok : BOOLEAN])
    OBVIOUS
  <2> QED
    BY <1>2, <2>1, <2>2, <2>3 DEF Run
<1> QED
  BY <1>3, <1>4 DEF Fresh

LEMMA BeginsReady ==
  ASSUME NEW r \in Run, NEW t, Fresh(r, t)
  PROVE  Ready(r)
<1>0. r.i = 0 /\ r.ok = TRUE /\ r.results = <<>> /\ r.fired = {} /\ r.j = 0
  BY DEF Fresh
<1>1. \A n \in Due(r) : n \in Nat \ {0}
  BY RungsOfRun
<1>2. \A n \in Due(r) : ~Decided(r, n) /\ ~Energized(r, n)
  BY <1>0, <1>1 DEF Decided, Energized
<1>3. Reported("commit", r)
  BY <1>0, <1>2 DEF Reported, Executed
<1> QED
  BY <1>0, <1>1, <1>2, <1>3 DEF Ready, DecidedByReading

LEMMA BeginStep ==
  ASSUME RunsInv, NEW s \in Slots, NEW t \in Tasks, NEW only \in RungIds \cup {Nil},
         Begin(s, t, only)
  PROVE  RunsInv'
<1>1. /\ state \in [Slots -> {"idle", "eval", "act", "commit"}]
      /\ run \in [Slots -> Run \cup {Nil}] /\ world \in [Sensors -> Levels]
      /\ world' \in [Sensors -> Levels] /\ flags' \in [Flags -> BOOLEAN]
      /\ enabled' \in [Tasks -> TaskStates] /\ lastEnergized' = lastEnergized
      /\ lastEnergized \in [Tasks -> [RungIds -> BOOLEAN]]
      /\ past \in [Slots -> SUBSET (RungIds \X BOOLEAN)]
  BY DEF RunsInv, TypeOK, Begin
<1>2. PICK r \in Run : Advance(s, r) /\ Fresh(r, t)
  BY BeginsRun
<1>7. Ready(r)
  BY <1>2, BeginsReady
<1>8. PICK st, q : /\ state' = [state EXCEPT ![s] = st] /\ run' = [run EXCEPT ![s] = q]
                   /\ GoodRun(st, q)
  BY <1>2, <1>7, AdvanceGood
<1>9. past' \in [Slots -> SUBSET (RungIds \X BOOLEAN)]
  <2>1. PICK seen : seen = {<<id, lastEnergized[t][id]>> : id \in Watched(t)}
    OBVIOUS
  <2>2. seen \in SUBSET (RungIds \X BOOLEAN)
    BY <1>1, <2>1, WatchedRungs
  <2>3. past' = [past EXCEPT ![s] = seen]
    BY <2>1 DEF Begin
  <2> QED
    BY <1>1, <2>2, <2>3
<1> QED
  BY <1>1, <1>8, <1>9, OneRun

(* What a contact reads is the reading that the run keeps from now on.     *)
LEMMA LoadKeeps ==
  ASSUME RunsInv, NEW s \in Slots, run[s] \in Run, NEW kind \in Probes,
         NEW v \in Load(s, kind)
  PROVE  /\ v \in Views \ {Nil}
         /\ run[s].view[kind] # Nil => v = run[s].view[kind]
<1>1. world \in [Sensors -> Levels] /\ run[s].view[kind] \in Views
  BY DEF RunsInv, TypeOK, Run
<1> QED
  BY <1>1, NilAssumption DEF Load, Views

LEMMA NextContactRun ==
  ASSUME NEW r \in Run, NEW q, q = [r EXCEPT !.k = @ + 1]
  PROVE  q \in Run /\ SameRun(r, q) /\ q.j = r.j /\ q.k = r.k + 1 /\ q.view = r.view
<1>1. r.k + 1 \in Nat
  BY DEF Run
<1>2. PICK n \in Nat : n = r.k + 1
  BY <1>1
<1>3. ASSUME NEW p, p = [r EXCEPT !.k = n]
      PROVE  p \in Run /\ SameRun(r, p) /\ p.j = r.j /\ p.k = n /\ p.view = r.view
  BY <1>3 DEF Run, SameRun
<1> QED
  BY <1>2, <1>3

(* A contact has been decided, and there is another one to decide.         *)
LEMMA NextContactGood ==
  ASSUME NEW r, GoodRun("eval", r), NEW seen \in Run, SameRun(r, seen), seen.k = r.k,
         seen.j = r.j, DecidedByReading(seen), RungAt(r, r.i).contacts # <<>>,
         r.k # Len(RungAt(r, r.i).contacts), NEW q, q = [seen EXCEPT !.k = @ + 1]
  PROVE  GoodRun("eval", q)
<1>1. /\ q \in Run /\ SameRun(seen, q) /\ q.j = seen.j /\ q.k = seen.k + 1
      /\ q.view = seen.view
  BY NextContactRun
<1>2. SameRun(r, q) /\ q.j = r.j /\ q.k = r.k + 1
  BY <1>1 DEF SameRun
<1>3. r \in Run /\ InOrder("eval", r) /\ Reported("eval", r)
  BY DEF GoodRun
<1>4. /\ r.i \in Due(r) /\ r.k \in DOMAIN RungAt(r, r.i).contacts
      /\ DOMAIN RungAt(r, r.i).contacts = 1..Len(RungAt(r, r.i).contacts)
      /\ Len(RungAt(r, r.i).contacts) \in Nat
  BY <1>3, RungsOfRun DEF InOrder
<1>5. r.k + 1 \in DOMAIN RungAt(r, r.i).contacts
  BY <1>4
<1>6. Reported("eval", q) /\ DecidedByReading(q)
  BY <1>1, <1>2, <1>3, SameRunKnows
<1>7. /\ Due(q) = Due(r) /\ q.i = r.i
      /\ \A n : RungAt(q, n) = RungAt(r, n) /\ (Decided(q, n) <=> Decided(r, n))
  BY <1>2, SameRunKnows DEF SameRun
<1>8. InOrder("eval", q)
  BY <1>2, <1>3, <1>5, <1>7 DEF InOrder, SameRun
<1> QED
  BY <1>1, <1>6, <1>8 DEF GoodRun

(* en is what the results of the previous pass say, if the rung is on one  *)
(* of them.                                                                *)
ByPrevious(r, n, last, en) ==
  LET c == RungAt(r, n).contacts
  IN Len(c) = 1 /\ c[1].kind = "rung" => (en <=> (last[c[1].ref] # c[1].negate))

(* A contact decides its rung by what the run sees, or is followed by the  *)
(* next one.                                                               *)
SettlesBy(s, r, seen, en) ==
  /\ SameRun(r, seen) /\ seen.j = r.j /\ DecidedByReading(seen) /\ ByReading(seen, r.i, en)
  /\ ByPrevious(r, r.i, lastEnergized[r.task], en) /\ Settle(s, seen, en)
GoesOn(s, r, q) ==
  /\ GoodRun("eval", q) /\ SameDecisions(r, q) /\ lastEnergized' = lastEnergized
  /\ state' = state /\ run' = [run EXCEPT ![s] = q]

LEMMA EvaluateOutcome ==
  ASSUME RunsInv, NEW s \in Slots, Evaluate(s), NEW r, r = run[s]
  PROVE  \/ \E seen \in Run, en \in BOOLEAN : SettlesBy(s, r, seen, en)
         \/ \E q : GoesOn(s, r, q)
<1>2. /\ GoodRun("eval", r) /\ r \in Run /\ DecidedByReading(r) /\ InOrder("eval", r)
  BY RunInProgress DEF Evaluate, GoodRun
<1>3. PICK contacts : contacts = RungAt(r, r.i).contacts
  OBVIOUS
<1>4. /\ contacts \in Seq(Contact) /\ Len(contacts) \in Nat
      /\ DOMAIN contacts = 1..Len(contacts)
      /\ contacts # <<>> => r.k \in DOMAIN contacts /\ contacts[r.k] \in Contact
  <2>1. contacts \in Seq(Contact) /\ (contacts # <<>> => r.k \in DOMAIN contacts)
    BY <1>2, <1>3, RungsOfRun DEF InOrder
  <2> QED
    BY <2>1
<1>5. RungOf(s).contacts = contacts
  BY <1>3 DEF RungOf, RungAt
<1>7. SameRun(r, r)
  BY DEF SameRun
<1>8. CASE contacts = <<>>
  <2>1. Settle(s, r, TRUE)
    BY <1>5, <1>8 DEF Evaluate
  <2>2. ByReading(r, r.i, TRUE) /\ ByPrevious(r, r.i, lastEnergized[r.task], TRUE)
    BY <1>3, <1>8 DEF ByReading, ByPrevious
  <2> QED
    BY <1>2, <1>7, <2>1, <2>2 DEF SettlesBy
<1>9. CASE contacts # <<>>
  <2>1. PICK c \in Contact : c = contacts[r.k]
    BY <1>4, <1>9
  <2>2. PICK v \in IF c.kind \in Probes THEN Load(s, c.kind) ELSE {r.view["time"]} :
          LET seen == IF c.kind \in Probes THEN [r EXCEPT !.view[c.kind] = v] ELSE r
              holds == ContactTrue(s, c, v)
          IN IF r.k = Len(contacts) \/ holds = (RungOf(s).match = "any")
               THEN Settle(s, seen, holds)
               ELSE /\ run' = [run EXCEPT ![s] = [seen EXCEPT !.k = @ + 1]]
                    /\ UNCHANGED <<state, lastEnergized>>
    BY <1>5, <1>9, <2>1, Zenon DEF Evaluate
  <2>3. PICK seen : seen = IF c.kind \in Probes THEN [r EXCEPT !.view[c.kind] = v] ELSE r
    OBVIOUS
  <2>4. PICK holds \in BOOLEAN : holds = ContactTrue(s, c, v)
    BY DEF ContactTrue
  <2>5. /\ seen \in Run /\ SameRun(r, seen) /\ seen.j = r.j /\ seen.k = r.k
        /\ c.kind = "metric" => seen.view["metric"] = v /\ v # Nil
        /\ r.view["metric"] # Nil => seen.view["metric"] = r.view["metric"]
    <3>1. CASE c.kind \in Probes
      <4>1. v \in Views \ {Nil} /\ (r.view[c.kind] # Nil => v = r.view[c.kind])
        BY <1>2, <2>2, <3>1, LoadKeeps
      <4>2. seen = [r EXCEPT !.view[c.kind] = v]
        BY <2>3, <3>1
      <4>3. /\ seen \in Run /\ SameRun(r, seen) /\ seen.j = r.j /\ seen.k = r.k
            /\ seen.view = [r.view EXCEPT ![c.kind] = v]
        <5>1. v \in Views /\ r \in Run
          BY <1>2, <4>1
        <5>2. PICK kind \in Probes : kind = c.kind
          BY <3>1
        <5>3. seen = [r EXCEPT !.view[kind] = v]
          BY <4>2, <5>2
        <5>4. ASSUME NEW p, p = [r EXCEPT !.view[kind] = v]
              PROVE  /\ p \in Run /\ SameRun(r, p) /\ p.j = r.j /\ p.k = r.k
                     /\ p.view = [r.view EXCEPT ![kind] = v]
          BY <5>1, <5>4 DEF Run, SameRun
        <5> QED
          BY <5>2, <5>3, <5>4
      <4>4. r.view \in [Probes \cup {"time"} -> Views] /\ "metric" \in Probes
        BY <1>2 DEF Run, Probes
      <4> QED
        BY <4>1, <4>3, <4>4
    <3>2. CASE c.kind \notin Probes
      BY <1>2, <1>7, <2>3, <3>2 DEF Probes
    <3> QED
      BY <3>1, <3>2
  <2>6. DecidedByReading(seen)
    <3>1. /\ Due(seen) = Due(r)
          /\ \A n : RungAt(seen, n) = RungAt(r, n) /\ (Decided(seen, n) <=> Decided(r, n))
                   /\ (Energized(seen, n) <=> Energized(r, n))
      BY <2>5, SameRunKnows
    <3> QED
      BY <1>2, <2>5, <3>1 DEF DecidedByReading
  <2>7. ByReading(seen, r.i, holds)
    <3>1. RungAt(seen, r.i).contacts = contacts
      BY <1>3, <2>5 DEF SameRun, RungAt
    <3>2. SUFFICES ASSUME Len(contacts) = 1, contacts[1].kind = "metric", ~contacts[1].negate
                   PROVE  /\ seen.view["metric"] # Nil
                          /\ holds <=> (/\ seen.view["metric"] # Failed
                                        /\ seen.view["metric"][contacts[1].ref]
                                              \in contacts[1].want)
      BY <3>1 DEF ByReading
    <3>3. c = contacts[1]
      BY <1>4, <1>9, <2>1, <3>2
    <3>4. c.negate = FALSE /\ c.kind = "metric"
      BY <3>2, <3>3 DEF Contact
    <3>5. holds <=> (v # Failed /\ v[c.ref] \in c.want)
      BY <2>4, <3>4 DEF ContactTrue
    <3> QED
      BY <2>5, <3>3, <3>4, <3>5
  <2>8. ByPrevious(r, r.i, lastEnergized[r.task], holds)
    <3>1. SUFFICES ASSUME Len(contacts) = 1, contacts[1].kind = "rung"
                   PROVE  holds <=> (lastEnergized[r.task][contacts[1].ref] # contacts[1].negate)
      BY <1>3 DEF ByPrevious
    <3>2. c = contacts[1]
      BY <1>4, <1>9, <2>1, <3>1
    <3> QED
      BY <2>4, <3>1, <3>2 DEF ContactTrue
  <2>9. CASE r.k = Len(contacts) \/ holds = (RungOf(s).match = "any")
    <3>1. Settle(s, seen, holds)
      BY <2>2, <2>3, <2>4, <2>9
    <3> QED
      BY <2>4, <2>5, <2>6, <2>7, <2>8, <3>1 DEF SettlesBy
  <2>10. CASE ~(r.k = Len(contacts) \/ holds = (RungOf(s).match = "any"))
    <3>1. PICK q : q = [seen EXCEPT !.k = @ + 1]
      OBVIOUS
    <3>2. run' = [run EXCEPT ![s] = q] /\ state' = state /\ lastEnergized' = lastEnergized
      BY <2>2, <2>3, <2>4, <2>10, <3>1
    <3>3. GoodRun("eval", q)
      BY <1>2, <1>3, <1>9, <2>5, <2>6, <2>10, <3>1, NextContactGood
    <3>4. SameDecisions(r, q)
      <4>1. SameRun(r, q) /\ q.j = r.j
        BY <2>5, <3>1, NextContactRun DEF SameRun
      <4> QED
        BY <4>1, SameRunKnows DEF SameRun, SameDecisions
    <3> QED
      BY <3>2, <3>3, <3>4 DEF GoesOn
  <2> QED
    BY <2>9, <2>10
<1> QED
  BY <1>8, <1>9

LEMMA EvaluateStep ==
  ASSUME RunsInv, NEW s \in Slots, Evaluate(s) PROVE RunsInv'
<1>1. PICK r : r = run[s]
  OBVIOUS
<1>2. GoodRun("eval", r) /\ state[s] = "eval"
  BY <1>1, RunInProgress DEF Evaluate
<1>3. /\ world' \in [Sensors -> Levels] /\ flags' \in [Flags -> BOOLEAN]
      /\ enabled' \in [Tasks -> TaskStates]
      /\ state \in [Slots -> {"idle", "eval", "act", "commit"}]
      /\ past' \in [Slots -> SUBSET (RungIds \X BOOLEAN)]
  BY DEF RunsInv, TypeOK, Evaluate
<1>4. ASSUME NEW seen \in Run, NEW en \in BOOLEAN, SettlesBy(s, r, seen, en)
      PROVE  RunsInv'
  <2>1. PICK st, q : /\ state' = [state EXCEPT ![s] = st] /\ run' = [run EXCEPT ![s] = q]
                     /\ GoodRun(st, q)
    BY <1>1, <1>2, <1>4, SettleGood DEF SettlesBy
  <2>2. lastEnergized' = lastEnergized
    BY <1>4 DEF SettlesBy, Settle
  <2> QED
    BY <1>3, <2>1, <2>2, OneRun
<1>5. ASSUME NEW q, GoesOn(s, r, q) PROVE RunsInv'
  <2>1. state' = [state EXCEPT ![s] = "eval"]
    BY <1>2, <1>3, <1>5 DEF GoesOn
  <2> QED
    BY <1>3, <1>5, <2>1, OneRun DEF GoesOn
<1> QED
  BY <1>1, <1>4, <1>5, EvaluateOutcome

(* An action has been executed: its result comes after all others.         *)
LEMMA ExecutedOne ==
  ASSUME NEW r, GoodRun("act", r), NEW ok \in BOOLEAN, NEW did, NEW q, NEW st,
         did = [r EXCEPT !.ok = @ /\ ok,
                  !.results = Append(@, [rung |-> r.i, action |-> r.j, ok |-> ok])],
         SameRun(did, q),
         \A n \in Due(r) : \A a \in DOMAIN RungAt(r, n).actions :
           Executed(st, q, n, a) <=> Executed("act", r, n, a) \/ (n = r.i /\ a = r.j)
  PROVE  Reported(st, q)
<1>1. r \in Run /\ InOrder("act", r) /\ Reported("act", r)
  BY DEF GoodRun
<1>2. /\ r.i \in Due(r) /\ r.i \in Nat /\ r.j \in Nat /\ Due(r) \subseteq Nat
      /\ r.j \in DOMAIN RungAt(r, r.i).actions
  BY <1>1, RungsOfRun DEF InOrder, Run
<1>3. PICK x : x = [rung |-> r.i, action |-> r.j, ok |-> ok]
  OBVIOUS
<1>4. /\ r.results \in Seq([rung : Nat, action : Nat, ok : BOOLEAN]) /\ r.ok \in BOOLEAN
      /\ x \in [rung : Nat, action : Nat, ok : BOOLEAN]
  BY <1>1, <1>2, <1>3 DEF Run
<1>5. PICK m \in Nat : m = Len(r.results)
  <2>1. Len(r.results) \in Nat
    BY <1>4
  <2> QED
    BY <2>1
<1>6. /\ did.results = Append(r.results, x) /\ did.ok = (r.ok /\ ok)
      /\ did.task = r.task /\ did.only = r.only /\ did.i = r.i /\ did.fired = r.fired
  BY <1>1, <1>3 DEF Run
<1>7. /\ q.results = Append(r.results, x) /\ q.ok = (r.ok /\ ok)
      /\ Due(q) = Due(r) /\ \A n : RungAt(q, n) = RungAt(r, n)
      /\ \A n, a : Executed(st, q, n, a) => n \in Due(r) /\ a \in DOMAIN RungAt(r, n).actions
  BY <1>6 DEF SameRun, Due, RungAt, Executed
<1>8. /\ DOMAIN r.results = 1..m /\ DOMAIN q.results = 1..(m + 1)
      /\ \A n \in 1..m : q.results[n] = r.results[n]
      /\ q.results[m + 1] = x
  BY <1>4, <1>5, <1>7
<1>9. x.rung = r.i /\ x.action = r.j /\ x.ok = ok
  BY <1>3
<1>10. ASSUME NEW n \in 1..(m + 1)
       PROVE  Executed(st, q, q.results[n].rung, q.results[n].action)
  <2>1. CASE n \in 1..m
    <3>1. Executed("act", r, r.results[n].rung, r.results[n].action)
      BY <1>1, <1>8, <2>1 DEF Reported
    <3> QED
      BY <1>8, <2>1, <3>1 DEF Executed
  <2>2. CASE n = m + 1
    BY <1>2, <1>8, <1>9, <2>2
  <2> QED
    BY <2>1, <2>2
<1>11. ASSUME NEW n \in Due(q), NEW a \in DOMAIN RungAt(q, n).actions, Executed(st, q, n, a)
       PROVE  \E l \in 1..(m + 1) : q.results[l].rung = n /\ q.results[l].action = a
  <2>1. n \in Due(r) /\ a \in DOMAIN RungAt(r, n).actions
    BY <1>7
  <2>2. CASE Executed("act", r, n, a)
    <3>1. PICK l \in 1..m : r.results[l].rung = n /\ r.results[l].action = a
      BY <1>1, <1>8, <2>1, <2>2 DEF Reported
    <3> QED
      BY <1>8, <3>1
  <2>3. CASE n = r.i /\ a = r.j
    BY <1>8, <1>9, <2>3
  <2> QED
    BY <1>11, <2>1, <2>2, <2>3
<1>12. ASSUME NEW l \in 1..(m + 1), NEW n \in 1..(m + 1), l < n
       PROVE  Before(q.results[l], q.results[n])
  <2>1. CASE n \in 1..m
    <3>1. l \in 1..m
      BY <1>12, <2>1
    <3> QED
      BY <1>1, <1>8, <1>12, <2>1, <3>1 DEF Reported
  <2>2. CASE n = m + 1
    <3>1. l \in 1..m
      BY <1>12, <2>2
    <3>2. Executed("act", r, r.results[l].rung, r.results[l].action)
      BY <1>1, <1>8, <3>1 DEF Reported
    <3> QED
      BY <1>8, <1>9, <2>2, <3>1, <3>2 DEF Executed, Before
  <2> QED
    BY <2>1, <2>2
<1>13. q.ok <=> \A n \in 1..(m + 1) : q.results[n].ok
  <2>1. r.ok <=> \A n \in 1..m : q.results[n].ok
    BY <1>1, <1>8 DEF Reported
  <2>2. q.ok <=> (r.ok /\ ok)
    BY <1>7
  <2>3. q.results[m + 1].ok <=> ok
    BY <1>8, <1>9
  <2>4. \A n : n \in 1..(m + 1) <=> (n \in 1..m \/ n = m + 1)
    OBVIOUS
  <2> QED
    BY <2>1, <2>2, <2>3, <2>4
<1> QED
  BY <1>8, <1>10, <1>11, <1>12, <1>13 DEF Reported

LEMMA DidIsRun ==
  ASSUME NEW s \in Slots, NEW r \in Run, run[s] = r, InOrder("act", r), NEW ok \in BOOLEAN,
         NEW did, did = Did(s, ok)
  PROVE  /\ did \in Run /\ did.task = r.task /\ did.only = r.only /\ did.i = r.i /\ did.j = r.j
         /\ did.fired = r.fired /\ did.view = r.view /\ did.k = r.k
<1>1. PICK new \in Seq([rung : Nat, action : Nat, ok : BOOLEAN]) :
        new = Append(r.results, [rung |-> r.i, action |-> r.j, ok |-> ok])
  <2>1. r.i \in Nat /\ r.j \in Nat /\ r.results \in Seq([rung : Nat, action : Nat, ok : BOOLEAN])
    BY DEF Run
  <2>2. [rung |-> r.i, action |-> r.j, ok |-> ok] \in [rung : Nat, action : Nat, ok : BOOLEAN]
    BY <2>1
  <2>3. Append(r.results, [rung |-> r.i, action |-> r.j, ok |-> ok])
          \in Seq([rung : Nat, action : Nat, ok : BOOLEAN])
    BY <2>1, <2>2
  <2> QED
    BY <2>3
<1>2. PICK both \in BOOLEAN : both = (r.ok /\ ok)
  BY DEF Run
<1>3. did = [r EXCEPT !.ok = both, !.results = new]
  BY <1>1, <1>2 DEF Did
<1> QED
  BY <1>3 DEF Run

LEMMA ActOutcome ==
  ASSUME RunsInv, NEW s \in Slots, Act(s)
  PROVE  \E st, q : /\ state' = [state EXCEPT ![s] = st] /\ run' = [run EXCEPT ![s] = q]
                    /\ GoodRun(st, q) /\ SameDecisions(run[s], q)
<1>1. PICK r : r = run[s]
  OBVIOUS
<1>2. GoodRun("act", r) /\ r \in Run /\ InOrder("act", r) /\ DecidedByReading(r)
  BY <1>1, RunInProgress DEF Act, GoodRun
<1>3. /\ r.i \in Due(r) /\ Due(r) \subseteq Nat \ {0} /\ Energized(r, r.i)
      /\ \A n \in Due(r) : Decided(r, n) <=> n <= r.i
      /\ \A n \in Due(r) : /\ DOMAIN RungAt(r, n).actions = 1..Len(RungAt(r, n).actions)
                           /\ Len(RungAt(r, n).actions) \in Nat \ {0}
                           /\ \A a \in DOMAIN RungAt(r, n).actions :
                                RungAt(r, n).actions[a].value \in BOOLEAN
      /\ r.j \in DOMAIN RungAt(r, r.i).actions /\ r.i \in Nat /\ r.j \in Nat
  <2>1. r.i \in Due(r) /\ Energized(r, r.i) /\ r.j \in DOMAIN RungAt(r, r.i).actions
    BY <1>2 DEF InOrder
  <2>2. Due(r) \subseteq Nat \ {0} /\ r.i \in Nat /\ r.j \in Nat
    BY <1>2, RungsOfRun DEF Run
  <2>3. \A n \in Due(r) : Decided(r, n) <=> n <= r.i
    BY <1>2, <2>2 DEF InOrder
  <2>4. \A n \in Due(r) : /\ DOMAIN RungAt(r, n).actions = 1..Len(RungAt(r, n).actions)
                           /\ Len(RungAt(r, n).actions) \in Nat \ {0}
                           /\ \A a \in DOMAIN RungAt(r, n).actions :
                                RungAt(r, n).actions[a].value \in BOOLEAN
    BY <1>2, RungsOfRun
  <2> QED
    BY <2>1, <2>2, <2>3, <2>4
<1>4. RungOf(s) = RungAt(r, r.i)
  BY <1>1 DEF RungOf, RungAt
<1>5. PICK a : a = RungAt(r, r.i).actions[r.j]
  OBVIOUS
<1>6. PICK ok \in Answers(s, a) :
        /\ flags' = IF a.kind = "flag" THEN [flags EXCEPT ![a.ref] = a.value] ELSE flags
        /\ enabled' = IF a.kind = "taskToggle" /\ ok
             THEN [enabled EXCEPT ![a.ref] = IF a.value THEN "enabled" ELSE "disabled"]
             ELSE enabled
        /\ IF Did(s, ok).j < Len(RungOf(s).actions)
              THEN run' = [run EXCEPT ![s] = [Did(s, ok) EXCEPT !.j = @ + 1]] /\ UNCHANGED state
              ELSE Advance(s, Did(s, ok))
  BY <1>1, <1>4, <1>5 DEF Act
<1>7. a.value \in BOOLEAN /\ ok \in BOOLEAN
  BY <1>3, <1>5, <1>6 DEF Answers
<1>9. PICK did : did = [r EXCEPT !.ok = @ /\ ok,
                   !.results = Append(@, [rung |-> r.i, action |-> r.j, ok |-> ok])]
  OBVIOUS
<1>10. Did(s, ok) = did
  BY <1>1, <1>9 DEF Did
<1>11. /\ did \in Run /\ did.task = r.task /\ did.only = r.only /\ did.i = r.i /\ did.j = r.j
       /\ did.fired = r.fired /\ did.view = r.view /\ did.k = r.k
  BY <1>1, <1>2, <1>7, <1>10, DidIsRun
<1>12. CASE r.j < Len(RungAt(r, r.i).actions)
  <2>1. PICK q : q = [did EXCEPT !.j = @ + 1]
    OBVIOUS
  <2>2. q \in Run /\ SameRun(did, q) /\ q.j = r.j + 1 /\ q.view = r.view
    <3>1. PICK j \in Nat : j = r.j + 1
      BY <1>3
    <3>2. ASSUME NEW p, p = [did EXCEPT !.j = j]
          PROVE  p \in Run /\ SameRun(did, p) /\ p.j = j /\ p.view = did.view
      BY <1>11, <3>2 DEF Run, SameRun
    <3> QED
      BY <1>11, <2>1, <3>1, <3>2
  <2>3. run' = [run EXCEPT ![s] = q] /\ state' = state
    BY <1>4, <1>6, <1>10, <1>11, <1>12, <2>1
  <2>4. /\ Due(q) = Due(r) /\ q.i = r.i
        /\ \A n : RungAt(q, n) = RungAt(r, n) /\ (Decided(q, n) <=> Decided(r, n))
                 /\ (Energized(q, n) <=> Energized(r, n))
    <3>1. q.j > 0 /\ r.j > 0
      BY <1>3, <2>2
    <3> QED
      BY <1>11, <2>2, <3>1 DEF SameRun, Due, RungAt, Decided, Energized
  <2>5. ASSUME NEW n \in Due(r), NEW x \in DOMAIN RungAt(r, n).actions
        PROVE  Executed("act", q, n, x) <=> Executed("act", r, n, x) \/ (n = r.i /\ x = r.j)
    BY <1>3, <2>2, <2>4 DEF Executed
  <2>6. Reported("act", q)
    BY <1>2, <1>7, <1>9, <2>2, <2>5, ExecutedOne
  <2>7. InOrder("act", q)
    <3>1. q.fired = r.fired
      BY <1>11, <2>2 DEF SameRun
    <3> QED
      BY <1>2, <1>3, <1>12, <2>2, <2>4, <3>1 DEF InOrder
  <2>8. DecidedByReading(q)
    BY <1>2, <2>2, <2>4 DEF DecidedByReading
  <2>9. GoodRun("act", q)
    BY <2>2, <2>6, <2>7, <2>8 DEF GoodRun
  <2>10. state \in [Slots -> {"idle", "eval", "act", "commit"}] /\ state[s] = "act"
    BY DEF RunsInv, TypeOK, Act
  <2>11. state' = [state EXCEPT ![s] = "act"]
    BY <2>3, <2>10
  <2>12. SameDecisions(r, q)
    BY <1>11, <2>2, <2>4 DEF SameRun, SameDecisions
  <2> QED
    BY <1>1, <2>3, <2>9, <2>11, <2>12
<1>13. CASE ~(r.j < Len(RungAt(r, r.i).actions))
  <2>1. Advance(s, did)
    BY <1>4, <1>6, <1>10, <1>11, <1>13
  <2>2. /\ Due(did) = Due(r) /\ did.i = r.i
        /\ \A n : RungAt(did, n) = RungAt(r, n) /\ (Decided(did, n) <=> Decided(r, n))
                 /\ (Energized(did, n) <=> Energized(r, n))
    BY <1>11 DEF Due, RungAt, Decided, Energized
  <2>3. ASSUME NEW n \in Due(r), NEW x \in DOMAIN RungAt(r, n).actions
        PROVE  Executed("commit", did, n, x) <=> Executed("act", r, n, x) \/ (n = r.i /\ x = r.j)
    BY <1>3, <1>13, <2>2 DEF Executed
  <2>4. SameRun(did, did)
    BY DEF SameRun
  <2>5. Reported("commit", did)
    BY <1>2, <1>7, <1>9, <2>3, <2>4, ExecutedOne
  <2>6. DecidedByReading(did)
    BY <1>2, <1>11, <2>2 DEF DecidedByReading
  <2>7. Ready(did)
    BY <1>2, <1>3, <1>11, <2>2, <2>5, <2>6 DEF Ready, InOrder
  <2>8. PICK st, q : /\ state' = [state EXCEPT ![s] = st] /\ run' = [run EXCEPT ![s] = q]
                     /\ GoodRun(st, q) /\ SameDecisions(did, q)
    BY <2>1, <2>7, AdvanceGood
  <2>9. SameDecisions(r, q)
    BY <1>11, <2>2, <2>8 DEF SameDecisions
  <2> QED
    BY <1>1, <2>8, <2>9
<1> QED
  BY <1>12, <1>13

LEMMA ActStep ==
  ASSUME RunsInv, NEW s \in Slots, Act(s) PROVE RunsInv'
<1>1. PICK st, q : /\ state' = [state EXCEPT ![s] = st] /\ run' = [run EXCEPT ![s] = q]
                   /\ GoodRun(st, q)
  BY ActOutcome
<1>2. PICK r : r = run[s]
  OBVIOUS
<1>3. r \in Run /\ r.i \in Due(r) /\ r.j \in DOMAIN RungAt(r, r.i).actions
  BY <1>2, RunInProgress DEF Act, GoodRun, InOrder
<1>4. RungOf(s).actions[r.j].value \in BOOLEAN
  BY <1>2, <1>3, RungsOfRun DEF RungOf, RungAt
<1>5. /\ world' \in [Sensors -> Levels] /\ flags' \in [Flags -> BOOLEAN]
      /\ enabled' \in [Tasks -> TaskStates] /\ lastEnergized' = lastEnergized
      /\ past' \in [Slots -> SUBSET (RungIds \X BOOLEAN)]
  BY <1>2, <1>4 DEF RunsInv, TypeOK, Act, TaskStates
<1> QED
  BY <1>1, <1>5, OneRun

LEMMA LadderInit == Init => RunsInv
<1> SUFFICES ASSUME Init PROVE RunsInv
  OBVIOUS
<1>1. TypeOK
  BY DEF Init, TypeOK, TaskStates
<1>2. \A s \in Slots : state[s] = "idle"
  BY DEF Init
<1> QED
  BY <1>1, <1>2 DEF RunsInv

LEMMA LadderStep ==
  RunsInv /\ [Next]_vars => RunsInv'
<1> SUFFICES ASSUME RunsInv, [Next]_vars PROVE RunsInv'
  OBVIOUS
<1>1. CASE Change \/ Administer \/ Restart \/ UNCHANGED vars
  BY <1>1, AdministerStep
<1>2. ASSUME NEW p \in Scheduled, Fire(p[1], p[2]) PROVE RunsInv'
  <2>1. p[1] \in Tasks /\ p[2] \in RungIds
    BY LadderAssumption
  <2>2. PICK s \in Slots : Begin(s, p[1], p[2])
    BY <1>2 DEF Fire
  <2> QED
    BY <2>1, <2>2, BeginStep
<1>3. ASSUME NEW s \in Slots, Proceed(s) PROVE RunsInv'
  BY <1>3, EvaluateStep, ActStep, CommitStep DEF Proceed
<1>4. ASSUME NEW s \in Slots, Expire(s) PROVE RunsInv'
  BY <1>4, ExpireStep
<1>5. ASSUME NEW s \in Slots, NEW t \in Tasks, Begin(s, t, Nil) PROVE RunsInv'
  BY <1>5, BeginStep
<1> QED
  BY <1>1, <1>2, <1>3, <1>4, <1>5 DEF Next

(***************************************************************************)
(* Rung contacts                                                           *)
(***************************************************************************)

(* p has the results the task has now, and those that decided r.           *)
Follows(r, p) ==
  /\ DecidedByPast(r, p)
  /\ \A id \in Watched(r.task) : <<id, lastEnergized[r.task][id]>> \in p

LEMMA SameFollows ==
  ASSUME NEW r, NEW q, SameDecisions(r, q), NEW p, Follows(r, p)
  PROVE  Follows(q, p)
<1>1. /\ Due(q) = Due(r) /\ q.task = r.task
      /\ \A n : RungAt(q, n) = RungAt(r, n) /\ (Energized(q, n) <=> Energized(r, n))
      /\ \A n \in Due(r) : Decided(q, n) <=> Decided(r, n)
  BY DEF SameDecisions, Due, RungAt, Energized
<1> QED
  BY <1>1 DEF Follows, DecidedByPast

(* The run of one slot steps, within its pass.                             *)
LEMMA OneFollows ==
  ASSUME RunsInv, PastInv, NEW s \in Slots, lastEnergized' = lastEnergized,
         NEW q, run'[s] = q, NEW p, past'[s] = p, Follows(q, p),
         \A x \in Slots : x # s => run'[x] = run[x] /\ state'[x] = state[x] /\ past'[x] = past[x]
  PROVE  PastInv'
<1>1. ASSUME NEW x \in Slots, state'[x] # "idle"
      PROVE  /\ DecidedByPast(run'[x], past'[x])
             /\ \A id \in Watched(run'[x].task) :
                  <<id, lastEnergized[run'[x].task][id]>> \in past'[x]
  <2>1. CASE x = s
    BY <2>1 DEF Follows
  <2>2. CASE x # s
    BY <1>1, <2>2 DEF PastInv
  <2> QED
    BY <2>1, <2>2
<1> QED
  BY <1>1 DEF PastInv

LEMMA AdvanceKeeps ==
  ASSUME NEW s \in Slots, NEW r, Ready(r), Advance(s, r), run \in [Slots -> Run \cup {Nil}],
         state \in [Slots -> {"idle", "eval", "act", "commit"}]
  PROVE  \E q : /\ SameDecisions(r, q) /\ run'[s] = q
                /\ \A x \in Slots : x # s => run'[x] = run[x] /\ state'[x] = state[x]
<1>1. PICK st, q : /\ state' = [state EXCEPT ![s] = st] /\ run' = [run EXCEPT ![s] = q]
                   /\ GoodRun(st, q) /\ SameDecisions(r, q)
  BY AdvanceGood
<1> QED
  BY <1>1

LEMMA SettleFollows ==
  ASSUME RunsInv, PastInv, NEW s \in Slots, NEW r, run[s] = r,
         GoodRun("eval", r), state[s] = "eval", NEW en \in BOOLEAN, NEW seen \in Run,
         SettlesBy(s, r, seen, en), past' = past
  PROVE  PastInv'
<1>1. /\ SameRun(r, seen) /\ seen.j = r.j /\ DecidedByReading(seen) /\ ByReading(seen, r.i, en)
      /\ ByPrevious(r, r.i, lastEnergized[r.task], en) /\ Settle(s, seen, en)
  BY DEF SettlesBy
<1>2. r \in Run /\ InOrder("eval", r) /\ r.i \in Due(r)
  BY DEF GoodRun, InOrder
<1>3. PICK st, q : /\ state' = [state EXCEPT ![s] = st] /\ run' = [run EXCEPT ![s] = q]
                   /\ GoodRun(st, q) /\ SettledTo(r, seen, en, q)
  BY <1>1, SettleGood
<1>4. PICK z : Settled(r, seen, en, z) /\ SameDecisions(z, q)
  BY <1>3 DEF SettledTo
<1>5. /\ run \in [Slots -> Run \cup {Nil}] /\ state \in [Slots -> {"idle", "eval", "act", "commit"}]
      /\ lastEnergized \in [Tasks -> [RungIds -> BOOLEAN]]
  BY DEF RunsInv, TypeOK
<1>6. PICK p : p = past[s]
  OBVIOUS
<1>7. Follows(r, p)
  BY <1>6 DEF PastInv, Follows
<1>8. Follows(z, p)
  <2>1. /\ z.task = r.task /\ Due(z) = Due(r) /\ \A n : RungAt(z, n) = RungAt(r, n)
        /\ \A n \in Due(r) : /\ n # r.i => (Decided(z, n) <=> Decided(r, n))
                             /\ Energized(z, n) <=> (IF n = r.i THEN en ELSE Energized(r, n))
    BY <1>4 DEF Settled
  <2>2. ASSUME NEW n \in Due(r), n # r.i, Decided(z, n), Len(RungAt(r, n).contacts) = 1,
               RungAt(r, n).contacts[1].kind = "rung"
        PROVE  \E v \in BOOLEAN : /\ <<RungAt(r, n).contacts[1].ref, v>> \in p
                                  /\ Energized(z, n) <=> (v # RungAt(r, n).contacts[1].negate)
    BY <1>7, <2>1, <2>2 DEF Follows, DecidedByPast
  <2>3. ASSUME Len(RungAt(r, r.i).contacts) = 1, RungAt(r, r.i).contacts[1].kind = "rung"
        PROVE  \E v \in BOOLEAN : /\ <<RungAt(r, r.i).contacts[1].ref, v>> \in p
                                  /\ Energized(z, r.i) <=> (v # RungAt(r, r.i).contacts[1].negate)
    <3>1. PICK ref : ref = RungAt(r, r.i).contacts[1].ref
      OBVIOUS
    <3>2. r.task \in Tasks /\ r.i \in DOMAIN Ladder[r.task] /\ 1 \in DOMAIN RungAt(r, r.i).contacts
      BY <1>2, <2>3, RungsOfRun
    <3>3. ref \in Watched(r.task) /\ ref \in RungIds
      BY <2>3, <3>1, <3>2, WatchedRungs DEF RungAt
    <3>4. PICK v \in BOOLEAN : v = lastEnergized[r.task][ref]
      BY <1>5, <3>2, <3>3
    <3>5. <<ref, v>> \in p
      BY <1>7, <3>3, <3>4 DEF Follows
    <3>6. en <=> (v # RungAt(r, r.i).contacts[1].negate)
      BY <1>1, <2>3, <3>1, <3>4 DEF ByPrevious
    <3> QED
      BY <1>2, <2>1, <3>1, <3>5, <3>6
  <2>4. DecidedByPast(z, p)
    BY <2>1, <2>2, <2>3 DEF DecidedByPast
  <2> QED
    BY <1>7, <2>1, <2>4 DEF Follows
<1>9. Follows(q, p)
  BY <1>4, <1>8, SameFollows
<1>10. /\ lastEnergized' = lastEnergized /\ run'[s] = q /\ past'[s] = p
       /\ \A x \in Slots : x # s => run'[x] = run[x] /\ state'[x] = state[x] /\ past'[x] = past[x]
  BY <1>1, <1>3, <1>5, <1>6 DEF Settle
<1> QED
  BY <1>9, <1>10, OneFollows

LEMMA EvaluateFollows ==
  ASSUME RunsInv, PastInv, NEW s \in Slots, Evaluate(s)
  PROVE  PastInv'
<1>1. PICK r : r = run[s]
  OBVIOUS
<1>2. GoodRun("eval", r) /\ state[s] = "eval" /\ past' = past
  BY <1>1, RunInProgress DEF Evaluate
<1>3. run \in [Slots -> Run \cup {Nil}]
  BY DEF RunsInv, TypeOK
<1>4. ASSUME NEW seen \in Run, NEW en \in BOOLEAN, SettlesBy(s, r, seen, en)
      PROVE  PastInv'
  BY <1>1, <1>2, <1>4, SettleFollows
<1>5. ASSUME NEW q, GoesOn(s, r, q) PROVE PastInv'
  <2>1. /\ run'[s] = q /\ lastEnergized' = lastEnergized
        /\ \A x \in Slots : x # s => run'[x] = run[x] /\ state'[x] = state[x] /\ past'[x] = past[x]
    BY <1>2, <1>3, <1>5 DEF GoesOn
  <2>2. PICK p : p = past[s]
    OBVIOUS
  <2>3. Follows(r, p)
    BY <1>1, <1>2, <2>2 DEF PastInv, Follows
  <2>4. Follows(q, p)
    BY <1>5, <2>3, SameFollows DEF GoesOn
  <2> QED
    BY <1>2, <2>1, <2>2, <2>4, OneFollows
<1> QED
  BY <1>1, <1>4, <1>5, EvaluateOutcome

LEMMA ActFollows ==
  ASSUME RunsInv, PastInv, NEW s \in Slots, Act(s) PROVE PastInv'
<1>1. PICK r : r = run[s]
  OBVIOUS
<1>2. /\ run \in [Slots -> Run \cup {Nil}] /\ state[s] = "act"
      /\ state \in [Slots -> {"idle", "eval", "act", "commit"}]
  BY DEF RunsInv, TypeOK, Act
<1>3. PICK p : p = past[s]
  OBVIOUS
<1>4. Follows(r, p)
  BY <1>1, <1>2, <1>3 DEF PastInv, Follows
<1>5. PICK st, q : /\ state' = [state EXCEPT ![s] = st] /\ run' = [run EXCEPT ![s] = q]
                   /\ GoodRun(st, q) /\ SameDecisions(r, q)
  BY <1>1, ActOutcome
<1>6. Follows(q, p)
  BY <1>4, <1>5, SameFollows
<1>7. /\ lastEnergized' = lastEnergized /\ run'[s] = q /\ past'[s] = p
      /\ \A x \in Slots : x # s => run'[x] = run[x] /\ state'[x] = state[x] /\ past'[x] = past[x]
  BY <1>2, <1>3, <1>5 DEF Act
<1> QED
  BY <1>6, <1>7, OneFollows

(* The results the task has now are in the past of a new run.              *)
LEMMA BeginFollows ==
  ASSUME RunsInv, PastInv, NEW s \in Slots, NEW t \in Tasks,
         NEW only \in RungIds \cup {Nil}, Begin(s, t, only)
  PROVE  PastInv'
<1>0. PICK r \in Run : Advance(s, r) /\ Fresh(r, t)
  BY BeginsRun
<1>1. Ready(r) /\ r.task = t /\ r.i = 0 /\ r.j = 0
  BY <1>0, BeginsReady DEF Fresh
<1>2. /\ run \in [Slots -> Run \cup {Nil}]
      /\ state \in [Slots -> {"idle", "eval", "act", "commit"}]
      /\ past \in [Slots -> SUBSET (RungIds \X BOOLEAN)]
  BY DEF RunsInv, TypeOK
<1>3. PICK q : /\ SameDecisions(r, q) /\ run'[s] = q
               /\ \A x \in Slots : x # s => run'[x] = run[x] /\ state'[x] = state[x]
  BY <1>0, <1>1, <1>2, AdvanceKeeps
<1>4. PICK p : p = {<<id, lastEnergized[t][id]>> : id \in Watched(t)}
  OBVIOUS
<1>5. \A n \in Due(r) : ~Decided(r, n)
  BY <1>1, RungsOfRun DEF Decided
<1>6. Follows(r, p)
  BY <1>1, <1>4, <1>5 DEF Follows, DecidedByPast
<1>7. Follows(q, p)
  BY <1>3, <1>6, SameFollows
<1>8. /\ lastEnergized' = lastEnergized /\ past'[s] = p
      /\ \A x \in Slots : x # s => past'[x] = past[x]
  BY <1>2, <1>4 DEF Begin
<1> QED
  BY <1>3, <1>7, <1>8, OneFollows

(* The end of a pass adds its results to what the other passes of its task *)
(* may have seen.                                                          *)
LEMMA CommitFollows ==
  ASSUME RunsInv, PastInv, NEW s \in Slots, Commit(s)
  PROVE  PastInv'
<1>0. PICK r : r = run[s]
  OBVIOUS
<1>1. /\ run \in [Slots -> Run \cup {Nil}] /\ r \in Run
      /\ state \in [Slots -> {"idle", "eval", "act", "commit"}]
      /\ lastEnergized \in [Tasks -> [RungIds -> BOOLEAN]]
  BY <1>0, RunInProgress DEF RunsInv, TypeOK, Commit, GoodRun
<1>2. SUFFICES ASSUME NEW x \in Slots, state'[x] # "idle"
               PROVE  /\ DecidedByPast(run'[x], past'[x])
                      /\ \A id \in Watched(run'[x].task) :
                           <<id, lastEnergized'[run'[x].task][id]>> \in past'[x]
  BY DEF PastInv
<1>3. x # s /\ state'[x] = state[x] /\ run'[x] = run[x] /\ state[x] # "idle"
  BY <1>1, <1>2 DEF Commit
<1>4. PICK q, p : q = run[x] /\ p = past[x]
  OBVIOUS
<1>5. /\ q \in Run /\ q # Nil /\ q.task \in Tasks /\ r.task \in Tasks
      /\ DecidedByPast(q, p)
      /\ \A id \in Watched(q.task) : <<id, lastEnergized[q.task][id]>> \in p
  BY <1>1, <1>3, <1>4, RunInProgress, NilAssumption DEF PastInv, GoodRun, Run
<1>6. CASE q.task # r.task
  <2>1. past'[x] = p /\ lastEnergized'[q.task] = lastEnergized[q.task]
    BY <1>0, <1>1, <1>3, <1>4, <1>5, <1>6 DEF Commit
  <2> QED
    BY <1>3, <1>4, <1>5, <2>1
<1>7. CASE q.task = r.task
  <2>1. PICK new : new = p \cup {<<id, r.energized[id]>> :
                                   id \in {n \in Watched(r.task) : r.energized[n] # Nil}}
    OBVIOUS
  <2>2. past'[x] = new
    BY <1>0, <1>3, <1>4, <1>5, <1>7, <2>1 DEF Commit
  <2>3. \A id \in RungIds : lastEnergized'[q.task][id]
          = IF r.energized[id] = Nil THEN lastEnergized[q.task][id] ELSE r.energized[id]
    BY <1>0, <1>1, <1>5, <1>7 DEF Commit
  <2>4. Watched(q.task) \subseteq RungIds
    BY <1>5, WatchedRungs
  <2>5. DecidedByPast(q, new)
    BY <1>5, <2>1 DEF DecidedByPast
  <2>6. \A id \in Watched(q.task) : <<id, lastEnergized'[q.task][id]>> \in new
    BY <1>5, <1>7, <2>1, <2>3, <2>4
  <2> QED
    BY <1>3, <1>4, <2>2, <2>5, <2>6
<1> QED
  BY <1>6, <1>7

LEMMA PastStep ==
  ASSUME RunsInv, PastInv, [Next]_vars PROVE PastInv'
<1>1. CASE Change \/ Administer \/ UNCHANGED vars
  <2>1. state' = state /\ run' = run /\ lastEnergized' = lastEnergized /\ past' = past
    BY <1>1 DEF Change, Administer, vars
  <2> QED
    BY <2>1 DEF PastInv
<1>2. CASE Restart
  BY <1>2 DEF Restart, PastInv
<1>3. ASSUME NEW p \in Scheduled, Fire(p[1], p[2]) PROVE PastInv'
  <2>1. p[1] \in Tasks /\ p[2] \in RungIds
    BY LadderAssumption
  <2>2. PICK s \in Slots : Begin(s, p[1], p[2])
    BY <1>3 DEF Fire
  <2> QED
    BY <2>1, <2>2, BeginFollows
<1>4. ASSUME NEW s \in Slots, Proceed(s) PROVE PastInv'
  BY <1>4, EvaluateFollows, ActFollows, CommitFollows DEF Proceed
<1>5. ASSUME NEW s \in Slots, Expire(s) PROVE PastInv'
  <2>1. PICK r, p : r = run[s] /\ p = past[s]
    OBVIOUS
  <2>2. run \in [Slots -> Run \cup {Nil}] /\ r \in Run /\ Follows(r, p)
    BY <1>5, <2>1, RunInProgress DEF RunsInv, TypeOK, Expire, GoodRun, PastInv, Follows
  <2>3. PICK q : q = [r EXCEPT !.expired = TRUE]
    OBVIOUS
  <2>4. run' = [run EXCEPT ![s] = q]
    BY <1>5, <2>1, <2>3 DEF Expire
  <2>5. SameDecisions(r, q)
    BY <2>2, <2>3 DEF Run, SameDecisions, Decided
  <2>6. Follows(q, p)
    BY <2>2, <2>5, SameFollows
  <2>7. /\ run'[s] = q /\ lastEnergized' = lastEnergized /\ past'[s] = p
        /\ \A x \in Slots : x # s => run'[x] = run[x] /\ state'[x] = state[x]
                                     /\ past'[x] = past[x]
    BY <1>5, <2>1, <2>2, <2>4 DEF Expire
  <2> QED
    BY <2>6, <2>7, OneFollows
<1>6. ASSUME NEW s \in Slots, NEW t \in Tasks, Begin(s, t, Nil) PROVE PastInv'
  BY <1>6, BeginFollows
<1> QED
  BY <1>1, <1>2, <1>3, <1>4, <1>5, <1>6 DEF Next

(***************************************************************************)
(* The theorems                                                            *)
(***************************************************************************)

(* Whatever runs overlap, whatever fails or expires, whatever the ladders: *)
(* a run knows where it is, what it has decided and by which reading or    *)
(* which earlier result, and what it has executed.                         *)
THEOREM LadderIsSound == Spec => []LadderInv
<1>1. Init => LadderInv
  <2>1. Init => PastInv
    BY DEF Init, PastInv
  <2> QED
    BY <2>1, LadderInit DEF LadderInv
<1>2. LadderInv /\ [Next]_vars => LadderInv'
  BY LadderStep, PastStep DEF LadderInv
<1> QED
  BY <1>1, <1>2, PTL DEF Spec

LEMMA RunsInvPass == RunsInv => PassIsComplete
<1> SUFFICES ASSUME RunsInv, NEW s \in Slots, state[s] = "commit",
                    NEW r, r = run[s]
             PROVE  LET due == UNION {{i} \X DOMAIN RungAt(r, i).actions : i \in r.fired}
                    IN /\ {<<r.results[n].rung, r.results[n].action>> : n \in DOMAIN r.results}
                            = due
                       /\ \A m, n \in DOMAIN r.results : m < n =>
                            Before(r.results[m], r.results[n])
                       /\ r.ok = \A n \in DOMAIN r.results : r.results[n].ok
  BY DEF PassIsComplete, Before, RungAt
<1>1. r \in Run /\ InOrder("commit", r) /\ Reported("commit", r)
  BY RunInProgress DEF GoodRun
<1>2. ASSUME NEW n \in Due(r) PROVE n < r.i \/ n = r.i
  <2>1. n \in Nat /\ r.i \in Nat /\ ~(n > r.i)
    BY <1>1, RungsOfRun DEF InOrder
  <2> QED
    BY <2>1
<1>3. PICK fired : fired = r.fired
  OBVIOUS
<1>4. fired \subseteq Due(r)
  BY <1>1, <1>3 DEF InOrder
<1>5. \A n, a : n \in fired /\ a \in DOMAIN RungAt(r, n).actions <=> Executed("commit", r, n, a)
  BY <1>2, <1>3, <1>4 DEF Executed, Energized
<1>6. \A n \in DOMAIN r.results :
        <<r.results[n].rung, r.results[n].action>>
          \in UNION {{i} \X DOMAIN RungAt(r, i).actions : i \in fired}
  BY <1>1, <1>5 DEF Reported
<1>7. ASSUME NEW i \in fired, NEW a \in DOMAIN RungAt(r, i).actions
      PROVE  \E n \in DOMAIN r.results : r.results[n].rung = i /\ r.results[n].action = a
  BY <1>1, <1>4, <1>5 DEF Reported
<1>8. {<<r.results[n].rung, r.results[n].action>> : n \in DOMAIN r.results}
        = UNION {{i} \X DOMAIN RungAt(r, i).actions : i \in fired}
  BY <1>6, <1>7
<1>9. r.ok = \A n \in DOMAIN r.results : r.results[n].ok
  BY <1>1 DEF Run, Reported
<1> QED
  BY <1>1, <1>3, <1>8, <1>9 DEF Reported

(* "A run is marked error if any action fails; the rest of the actions     *)
(* still execute" (docs/task-editor.md:88): when a pass is over, exactly   *)
(* the actions of the energized rungs have been executed, in order, and    *)
(* okAll says whether all succeeded.                                       *)
THEOREM EveryPassIsComplete == Spec => []PassIsComplete
BY LadderIsSound, RunsInvPass, PTL DEF LadderInv

(* i and n are on one metric, and the condition of n is the stricter one.  *)
Stricter(r, i, n) ==
  LET ci == RungAt(r, i).contacts
      cn == RungAt(r, n).contacts
  IN /\ Decided(r, i) /\ Decided(r, n)
     /\ Len(ci) = 1 /\ Len(cn) = 1
     /\ ci[1].kind = "metric" /\ cn[1].kind = "metric" /\ ci[1].ref = cn[1].ref
     /\ ~ci[1].negate /\ ~cn[1].negate /\ cn[1].want \subseteq ci[1].want

LEMMA RunsInvReading == RunsInv => OneReadingPerPass
<1> SUFFICES ASSUME RunsInv, NEW s \in Slots, run[s] # Nil, NEW r, r = run[s],
                    NEW i \in Due(r), NEW n \in Due(r), Stricter(r, i, n), Energized(r, n)
             PROVE  Energized(r, i)
  BY Zenon DEF OneReadingPerPass, Stricter
<1> DEFINE ci == RungAt(r, i).contacts
           cn == RungAt(r, n).contacts
<1>0. /\ Decided(r, i) /\ Decided(r, n)
      /\ Len(ci) = 1 /\ Len(cn) = 1
      /\ ci[1].kind = "metric" /\ cn[1].kind = "metric" /\ ci[1].ref = cn[1].ref
      /\ ~ci[1].negate /\ ~cn[1].negate /\ cn[1].want \subseteq ci[1].want
  BY DEF Stricter
<1>1. DecidedByReading(r)
  <2>1. state[s] # "idle"
    BY DEF RunsInv, TypeOK
  <2> QED
    BY <2>1, RunInProgress DEF GoodRun
<1>2. r.view["metric"] # Failed /\ r.view["metric"][cn[1].ref] \in cn[1].want
  BY <1>0, <1>1 DEF DecidedByReading
<1> QED
  BY <1>0, <1>1, <1>2 DEF DecidedByReading

(* One pass sees one reading of the machine (evalContext): of two rungs on *)
(* one metric, the stricter one never fires without the other.             *)
THEOREM PassesReadOnce == Spec => []OneReadingPerPass
BY LadderIsSound, RunsInvReading, PTL DEF LadderInv

LEMMA PastIsSeen == LadderInv => RungContactsSeeThePreviousPass
<1> SUFFICES ASSUME LadderInv, NEW s \in Slots, run[s] # Nil, NEW n \in Due(run[s])
             PROVE  LET c == RungAt(run[s], n).contacts
                    IN Decided(run[s], n) /\ Len(c) = 1 /\ c[1].kind = "rung" =>
                         \E v \in BOOLEAN : /\ <<c[1].ref, v>> \in past[s]
                                            /\ Energized(run[s], n) <=> (v # c[1].negate)
  BY Zenon DEF RungContactsSeeThePreviousPass
<1>1. state[s] # "idle"
  BY DEF LadderInv, RunsInv, TypeOK
<1> QED
  BY <1>1 DEF LadderInv, PastInv, DecidedByPast

(* "rung contacts observe the previous evaluation rather than this pass's  *)
(* earlier rungs" (engine.go:337), whatever passes overlap and whatever    *)
(* the IDs of the rungs: what decides a rung is a result that was there    *)
(* when its pass began or that another pass has left since.                *)
THEOREM ContactsSeeThePreviousPass == Spec => []RungContactsSeeThePreviousPass
BY LadderIsSound, PastIsSeen, PTL
=============================================================================
