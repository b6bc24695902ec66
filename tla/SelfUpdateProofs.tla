-------------------------- MODULE SelfUpdateProofs --------------------------
(* Proofs about SelfUpdate: the inductive invariant UpdateInv, and the     *)
(* safety properties it contains.                                          *)
EXTENDS SelfUpdate, TLAPS

(* The parts of the invariant that speak of the goroutines.                *)
JobInv == OneUpdateAtATime /\ TempsAreAccounted /\ AnnouncedIsInstalled
          /\ JobsFollowTheRecord /\ JobsKnowTheirFiles

LEMMA InitInv == Init => UpdateInv
<1> SUFFICES ASSUME Init PROVE UpdateInv
  OBVIOUS
<1> USE DEF Init, NoJob, NoPanel, IdleUpd
<1>1. \A p \in Panels : jobs[p] = NoJob /\ panel[p] = NoPanel
  OBVIOUS
<1>2. TypeOK
  <2>1. jobs \in [Panels -> Job] /\ panel \in [Panels -> Panel]
    BY DEF Job, Panel
  <2>2. 0 \in Releases /\ 0 \in 0..MaxTemps /\ 0 \in 0..MaxCrashes
    BY UpdateAssumption DEF Releases
  <2>3. upd \in Upd /\ (upd.running <=> upd.state \in Busy)
    BY DEF Upd, Busy
  <2> QED
    BY <2>1, <2>2, <2>3 DEF TypeOK
<1>3. Active = {}
  BY <1>1 DEF Active
<1>4. OneUpdateAtATime /\ TempsAreAccounted /\ AnnouncedIsInstalled /\ ExecutableIsWhole
  BY <1>3 DEF OneUpdateAtATime, TempsAreAccounted, AnnouncedIsInstalled, ExecutableIsWhole
<1>5. JobsFollowTheRecord /\ JobsKnowTheirFiles /\ RequestsAreResolved /\ FilesAreNumbered
  BY <1>1 DEF JobsFollowTheRecord, JobsKnowTheirFiles, RequestsAreResolved, FilesAreNumbered
<1> QED
  BY <1>2, <1>4, <1>5 DEF UpdateInv

(* While one goroutine is active the others are idle.                      *)
LEMMA OthersIdle ==
  ASSUME UpdateInv, NEW p \in Panels, jobs[p].phase # "none"
  PROVE  \A q \in Panels : q # p => jobs[q] = NoJob
BY DEF UpdateInv, OneUpdateAtATime, JobsFollowTheRecord, Active

LEMMA AllIdle == ASSUME UpdateInv, ~upd.running
                 PROVE  \A q \in Panels : jobs[q] = NoJob
BY DEF UpdateInv, OneUpdateAtATime, JobsFollowTheRecord, Active

(* A step of the only goroutine, which stays active.                       *)
LEMMA JobStep ==
  ASSUME UpdateInv, NEW p \in Panels, jobs' = [jobs EXCEPT ![p] = jobs'[p]],
         jobs'[p] \in Job, jobs'[p].phase # "none",
         \A q \in Panels : q # p => jobs[q] = NoJob,
         upd'.running, upd'.state = StateOf(jobs'[p].phase),
         jobs'[p].release = upd'.latest, upd'.latest # Nil, running' # Nil,
         jobs'[p].phase = "restart" => exe'.release = upd'.latest,
         jobs'[p].file # Nil <=> jobs'[p].phase \in {"download", "verify", "apply"},
         jobs'[p].file # Nil => /\ jobs'[p].file \in temps' \ leaked'
                                /\ jobs'[p].file.release = jobs'[p].release,
         jobs'[p].phase = "apply" => jobs'[p].file.whole,
         temps' \ leaked' = {jobs'[p].file} \ {Nil}
  PROVE  JobInv' /\ jobs' \in [Panels -> Job]
<1>1. jobs \in [Panels -> Job]
  BY DEF UpdateInv, TypeOK
<1>2. \A q \in Panels : q # p => jobs'[q] = NoJob
  BY <1>1
<1>3. jobs' \in [Panels -> Job]
  BY <1>1
<1>4. Active' = {p}
  BY <1>2 DEF Active, NoJob
<1>5. OneUpdateAtATime' /\ TempsAreAccounted'
  BY <1>4 DEF OneUpdateAtATime, TempsAreAccounted
<1>6. JobsFollowTheRecord' /\ JobsKnowTheirFiles'
  BY <1>2 DEF JobsFollowTheRecord, JobsKnowTheirFiles, NoJob
<1>7. AnnouncedIsInstalled'
  BY DEF AnnouncedIsInstalled, StateOf, Job
<1> QED
  BY <1>3, <1>5, <1>6, <1>7 DEF JobInv

(* A step after which no goroutine is active.                              *)
LEMMA JobsOver ==
  ASSUME UpdateInv, jobs' = [q \in Panels |-> NoJob],
         ~upd'.running, upd'.state # "restarting", temps' \subseteq leaked'
  PROVE  JobInv' /\ jobs' \in [Panels -> Job]
<1>1. \A q \in Panels : jobs'[q] = NoJob
  OBVIOUS
<1>2. Active' = {}
  BY <1>1 DEF Active, NoJob
<1>3. OneUpdateAtATime' /\ TempsAreAccounted' /\ AnnouncedIsInstalled'
  BY <1>2 DEF OneUpdateAtATime, TempsAreAccounted, AnnouncedIsInstalled
<1>4. JobsFollowTheRecord' /\ JobsKnowTheirFiles'
  BY <1>1 DEF JobsFollowTheRecord, JobsKnowTheirFiles, NoJob
<1> QED
  BY <1>3, <1>4 DEF JobInv, Job, NoJob

(* Steps that touch neither files nor goroutines.                          *)
LEMMA PanelStep ==
  ASSUME UpdateInv, UNCHANGED <<disk, running, upd, jobs>>, latest' \in Releases,
         panel' \in [Panels -> Panel], crashes' = crashes, RequestsAreResolved'
  PROVE  UpdateInv'
<1> USE DEF UpdateInv, disk
<1>1. TypeOK'
  BY DEF TypeOK
<1>2. Active' = Active
  BY DEF Active
<1>3. OneUpdateAtATime' /\ TempsAreAccounted' /\ AnnouncedIsInstalled' /\ ExecutableIsWhole'
  BY <1>2 DEF OneUpdateAtATime, TempsAreAccounted, AnnouncedIsInstalled, ExecutableIsWhole
<1>4. JobsFollowTheRecord' /\ JobsKnowTheirFiles' /\ FilesAreNumbered'
  BY DEF JobsFollowTheRecord, JobsKnowTheirFiles, FilesAreNumbered
<1> QED
  BY <1>1, <1>3, <1>4

LEMMA PublishInv == UpdateInv /\ Publish => UpdateInv'
<1> SUFFICES ASSUME UpdateInv, Publish PROVE UpdateInv'
  OBVIOUS
<1>1. latest' \in Releases
  BY UpdateAssumption DEF UpdateInv, TypeOK, Publish, Releases
<1>2. panel' \in [Panels -> Panel] /\ RequestsAreResolved'
  BY DEF UpdateInv, TypeOK, Publish, RequestsAreResolved
<1> QED
  BY <1>1, <1>2, PanelStep DEF Publish

LEMMA PageInv ==
  ASSUME UpdateInv, NEW p \in Panels,
         Resolve(p) \/ Conflict(p) \/ Poll(p) \/ Reload(p) \/ Reopen(p)
  PROVE  UpdateInv'
<1>1. panel \in [Panels -> Panel] /\ latest \in Releases
  BY DEF UpdateInv, TypeOK
<1>2. panel' = [panel EXCEPT ![p] = panel'[p]] /\ panel'[p] \in Panel
      /\ (panel'[p].view = "resolve" => panel'[p].release # Nil)
  <2>1. CASE Resolve(p)
    BY <1>1, <2>1, NilAssumption DEF Resolve, Panel
  <2>2. CASE Poll(p)
    BY <1>1, <2>2 DEF Poll, Panel
  <2>3. CASE Conflict(p) \/ Reopen(p)
    <3>1. panel' = [panel EXCEPT ![p] = NoPanel]
      BY <2>3 DEF Conflict, Reopen
    <3>2. NoPanel \in Panel /\ NoPanel.view # "resolve"
      BY DEF NoPanel, Panel
    <3> QED
      BY <1>1, <3>1, <3>2
  <2>4. CASE Reload(p)
    <3> DEFINE new == [NoPanel EXCEPT !.view = "reloaded"]
    <3>1. panel' = [panel EXCEPT ![p] = new]
      BY <2>4 DEF Reload
    <3>2. NoPanel \in Panel
      BY DEF NoPanel, Panel
    <3>3. new \in Panel /\ new.view # "resolve"
      BY <3>2 DEF Panel
    <3> HIDE DEF new
    <3> QED
      BY <1>1, <3>1, <3>3
  <2> QED
    BY <2>1, <2>2, <2>3, <2>4
<1>3. panel' \in [Panels -> Panel] /\ RequestsAreResolved'
  BY <1>1, <1>2 DEF RequestsAreResolved, UpdateInv
<1> QED
  BY <1>1, <1>3, PanelStep DEF Resolve, Conflict, Poll, Reload, Reopen

LEMMA BeginInv == ASSUME UpdateInv, NEW p \in Panels, Begin(p) PROVE UpdateInv'
<1> DEFINE r == panel[p].release
<1>1. r \in Releases /\ r # Nil
  <2>1. panel[p] \in Panel /\ r # Nil
    BY DEF UpdateInv, TypeOK, RequestsAreResolved, Begin
  <2> QED
    BY <2>1 DEF Panel
<1>2. upd' = [running |-> TRUE, state |-> "downloading", latest |-> r]
  BY DEF Begin
<1>3. jobs \in [Panels -> Job] /\ \A q \in Panels : jobs[q] = NoJob
  BY AllIdle DEF Begin, UpdateInv, TypeOK
<1>4. jobs' = [jobs EXCEPT ![p] = [NoJob EXCEPT !.phase = "fetch", !.release = r]]
  BY DEF Begin
<1>5. jobs'[p] = [phase |-> "fetch", release |-> r, file |-> Nil]
  BY <1>3, <1>4 DEF NoJob
<1>6. temps \ leaked = {}
  <2>1. Active = {}
    BY <1>3 DEF Active, NoJob
  <2> QED
    BY <2>1 DEF UpdateInv, TempsAreAccounted
<1>7. UNCHANGED <<latest, disk, running, crashes>> /\ running # Nil
  BY DEF Begin
<1>8. JobInv' /\ jobs' \in [Panels -> Job]
  <2>1. jobs'[p] \in Job
    BY <1>1, <1>5 DEF Job
  <2>2. jobs' = [jobs EXCEPT ![p] = jobs'[p]]
    BY <1>3, <1>4
  <2>3. upd'.running /\ upd'.state = StateOf("fetch") /\ upd'.latest = r
    BY <1>2 DEF StateOf
  <2>4. temps' \ leaked' = {jobs'[p].file} \ {Nil} /\ running' # Nil
    BY <1>5, <1>6, <1>7 DEF disk
  <2> QED
    BY <1>1, <1>3, <1>5, <2>1, <2>2, <2>3, <2>4, JobStep
<1>9. panel' \in [Panels -> Panel] /\ RequestsAreResolved'
  <2>1. panel' = [panel EXCEPT ![p].view = "poll"] /\ panel \in [Panels -> Panel]
    BY DEF Begin, UpdateInv, TypeOK
  <2>2. /\ panel'[p] = [panel[p] EXCEPT !.view = "poll"]
        /\ \A q \in Panels : q # p => panel'[q] = panel[q]
    BY <2>1
  <2>3. panel'[p] \in Panel /\ panel'[p].view = "poll"
    BY <2>1, <2>2 DEF Panel
  <2>4. panel' \in [Panels -> Panel]
    BY <2>1, <2>2, <2>3
  <2> QED
    BY <2>2, <2>3, <2>4 DEF RequestsAreResolved, UpdateInv
<1>10. upd' \in Upd /\ (upd'.running <=> upd'.state \in Busy)
  BY <1>1, <1>2 DEF Upd, Busy
<1>11. TypeOK'
  BY <1>7, <1>8, <1>9, <1>10 DEF TypeOK, UpdateInv, disk
<1> QED
  BY <1>7, <1>8, <1>9, <1>11
     DEF JobInv, UpdateInv, FilesAreNumbered, ExecutableIsWhole, disk

(* What the steps of an active goroutine start from.                       *)
LEMMA ActiveJob ==
  ASSUME UpdateInv, NEW p \in Panels, jobs[p].phase # "none"
  PROVE  /\ jobs \in [Panels -> Job] /\ jobs[p] \in Job
         /\ jobs[p].release \in Releases /\ jobs[p].release = upd.latest /\ upd.latest # Nil
         /\ upd.running /\ upd.state = StateOf(jobs[p].phase) /\ running # Nil
         /\ jobs[p].file # Nil => jobs[p].file \in File
         /\ temps \ leaked = {jobs[p].file} \ {Nil}
         /\ \A q \in Panels : q # p => jobs[q] = NoJob
<1>1. jobs \in [Panels -> Job] /\ jobs[p] \in Job
  BY DEF UpdateInv, TypeOK
<1>2. /\ jobs[p].release = upd.latest /\ upd.latest # Nil
      /\ upd.state = StateOf(jobs[p].phase) /\ running # Nil
  BY DEF UpdateInv, JobsFollowTheRecord
<1>3. jobs[p].release \in Releases /\ (jobs[p].file # Nil => jobs[p].file \in File)
  BY <1>1, <1>2 DEF Job
<1>4. p \in Active /\ Active = {p} /\ upd.running
  BY DEF UpdateInv, OneUpdateAtATime, Active
<1> QED
  BY <1>1, <1>2, <1>3, <1>4, OthersIdle DEF UpdateInv, TempsAreAccounted

(* A failed step: the goroutine is over, its file removed or leaked.       *)
LEMMA FailStep ==
  ASSUME UpdateInv, NEW p \in Panels, jobs[p].phase # "none", Fail(p),
         UNCHANGED <<latest, exe, running, created, panel, crashes>>,
         \/ temps' = temps \ {jobs[p].file} /\ leaked' = leaked
         \/ temps' = temps /\ leaked' = leaked \cup ({jobs[p].file} \ {Nil})
  PROVE  UpdateInv'
<1>1. jobs' = [q \in Panels |-> NoJob]
  BY ActiveJob DEF Fail
<1>2. temps \ leaked = {jobs[p].file} \ {Nil} /\ leaked \subseteq temps /\ temps \subseteq File
  BY ActiveJob DEF UpdateInv, TypeOK
<1>3. temps' \subseteq leaked' /\ leaked' \subseteq temps' /\ temps' \subseteq temps
  BY <1>2, NilAssumption
<1>4. /\ upd' \in Upd /\ ~upd'.running /\ upd'.state = "error"
  BY DEF Fail, UpdateInv, TypeOK, Upd
<1>5. JobInv' /\ jobs' \in [Panels -> Job]
  BY <1>1, <1>3, <1>4, JobsOver
<1>6. TypeOK'
  BY <1>2, <1>3, <1>4, <1>5 DEF UpdateInv, TypeOK, Busy
<1>7. FilesAreNumbered' /\ RequestsAreResolved' /\ ExecutableIsWhole'
  BY <1>3 DEF UpdateInv, FilesAreNumbered, RequestsAreResolved, ExecutableIsWhole
<1> QED
  BY <1>5, <1>6, <1>7 DEF UpdateInv, JobInv

LEMMA FailuresInv ==
  ASSUME UpdateInv, NEW p \in Panels,
         FetchFails(p) \/ ReceiveFails(p) \/ Reject(p) \/ ApplyFails(p)
  PROVE  UpdateInv'
<1>1. CASE FetchFails(p)
  <2>1. jobs[p].file = Nil
    BY <1>1 DEF FetchFails, UpdateInv, JobsKnowTheirFiles
  <2> QED
    BY <1>1, <2>1, FailStep DEF FetchFails, disk
<1>2. CASE ReceiveFails(p)
  BY <1>2, FailStep DEF ReceiveFails
<1>3. CASE Reject(p)
  BY <1>3, FailStep DEF Reject
<1>4. CASE ApplyFails(p)
  <2>1. jobs[p].file # Nil
    BY <1>4 DEF ApplyFails, UpdateInv, JobsKnowTheirFiles
  <2> QED
    BY <1>4, <2>1, FailStep DEF ApplyFails
<1> QED
  BY <1>1, <1>2, <1>3, <1>4

(* The parts that no step of a goroutine disturbs, but for exe and temps.  *)
LEMMA Assembled ==
  ASSUME UpdateInv, JobInv', jobs' \in [Panels -> Job],
         UNCHANGED <<latest, running, panel, crashes>>,
         exe' \in [release : Releases, whole : BOOLEAN], exe'.whole,
         temps' \subseteq File, leaked' \subseteq temps', created' \in 0..MaxTemps,
         upd' \in Upd, upd'.running <=> upd'.state \in Busy, FilesAreNumbered'
  PROVE  UpdateInv'
<1>1. TypeOK'
  BY DEF UpdateInv, TypeOK
<1>2. RequestsAreResolved' /\ ExecutableIsWhole'
  BY DEF UpdateInv, RequestsAreResolved, ExecutableIsWhole
<1> QED
  BY <1>1, <1>2 DEF UpdateInv, JobInv

LEMMA CreateTempInv == ASSUME UpdateInv, NEW p \in Panels, CreateTemp(p) PROVE UpdateInv'
<1> DEFINE f == [id |-> created + 1, release |-> jobs[p].release, whole |-> FALSE]
<1>1. /\ jobs[p].phase = "fetch" /\ created < MaxTemps /\ created' = created + 1
      /\ temps' = temps \cup {f}
      /\ jobs' = [jobs EXCEPT ![p].phase = "download", ![p].file = f]
      /\ UNCHANGED <<latest, exe, running, leaked, upd, panel, crashes>>
  BY DEF CreateTemp
<1>2. /\ jobs \in [Panels -> Job] /\ jobs[p] \in Job /\ jobs[p].release \in Releases
      /\ jobs[p].release = upd.latest /\ upd.latest # Nil /\ upd.running
      /\ upd.state = StateOf("fetch") /\ running # Nil
      /\ \A q \in Panels : q # p => jobs[q] = NoJob
  BY <1>1, ActiveJob
<1>3. jobs[p].file = Nil /\ temps \ leaked = {}
  BY <1>1, ActiveJob DEF UpdateInv, JobsKnowTheirFiles
<1>4. /\ created \in 0..MaxTemps /\ temps \subseteq File /\ leaked \subseteq temps
      /\ upd \in Upd /\ (upd.running <=> upd.state \in Busy)
      /\ exe \in [release : Releases, whole : BOOLEAN] /\ exe.whole
  BY DEF UpdateInv, TypeOK, ExecutableIsWhole
<1>5. /\ \A g \in temps : g.id \in Nat /\ g.id \leq created
      /\ \A g, h \in temps : g.id = h.id => g = h
  BY <1>4, UpdateAssumption DEF UpdateInv, FilesAreNumbered, File
<1>6. f \in File /\ f # Nil /\ f \notin temps
  <2>1. created + 1 \in 1..MaxTemps
    BY <1>1, <1>4, UpdateAssumption
  <2>2. f \in File
    BY <1>2, <2>1 DEF File
  <2>3. f \notin temps
    BY <1>4, <1>5, UpdateAssumption
  <2> QED
    BY <2>2, <2>3, NilAssumption
<1>7. FilesAreNumbered'
  <2>1. \A g \in temps' : g.id \leq created' /\ (g = f \/ g \in temps)
    BY <1>1, <1>4, <1>5, UpdateAssumption
  <2>2. \A g \in temps : g.id # f.id
    BY <1>4, <1>5, UpdateAssumption
  <2>3. \A g, h \in temps' : g.id = h.id => g = h
    BY <1>5, <2>1, <2>2
  <2> QED
    BY <2>1, <2>3 DEF FilesAreNumbered
<1>8. /\ jobs'[p].phase = "download" /\ jobs'[p].file = f
      /\ jobs'[p].release = jobs[p].release /\ jobs'[p] \in Job
      /\ jobs' = [jobs EXCEPT ![p] = jobs'[p]]
  <2>1. jobs' = [jobs EXCEPT ![p] = [jobs[p] EXCEPT !.phase = "download", !.file = f]]
    BY <1>1, <1>2
  <2>2. /\ jobs'[p].phase = "download" /\ jobs'[p].file = f
        /\ jobs'[p].release = jobs[p].release
    BY <1>2, <2>1 DEF Job
  <2> HIDE DEF f
  <2>3. jobs'[p] = [jobs[p] EXCEPT !.phase = "download", !.file = f]
    BY <1>2, <2>1
  <2>4. jobs'[p] \in Job
    BY <1>2, <1>6, <2>3 DEF Job
  <2> QED
    BY <1>2, <2>1, <2>2, <2>3, <2>4
<1>9. temps' \ leaked' = {f} /\ leaked' \subseteq temps' /\ f.release = jobs[p].release
  BY <1>1, <1>3, <1>4, <1>6
<1> HIDE DEF f
<1>10. JobInv' /\ jobs' \in [Panels -> Job]
  <2>1. jobs'[p].file # Nil /\ {jobs'[p].file} \ {Nil} = {f}
    BY <1>6, <1>8
  <2>2. upd'.running /\ upd'.state = StateOf("download") /\ upd'.latest = upd.latest
    BY <1>1, <1>2 DEF StateOf
  <2>3. /\ jobs'[p].release = upd'.latest /\ upd'.latest # Nil /\ running' # Nil
        /\ jobs'[p].file \in temps' \ leaked' /\ jobs'[p].file.release = jobs'[p].release
        /\ temps' \ leaked' = {jobs'[p].file} \ {Nil}
    BY <1>1, <1>2, <1>8, <1>9, <2>1
  <2> QED
    BY <1>2, <1>8, <2>1, <2>2, <2>3, JobStep
<1>11. created' \in 0..MaxTemps /\ temps' \subseteq File
  BY <1>1, <1>4, <1>6, UpdateAssumption
<1> QED
  BY <1>1, <1>4, <1>7, <1>9, <1>10, <1>11, Assembled

LEMMA ReceiveInv == ASSUME UpdateInv, NEW p \in Panels, Receive(p) PROVE UpdateInv'
<1> DEFINE old == jobs[p].file
<1>1. PICK w \in BOOLEAN :
        /\ temps' = (temps \ {old}) \cup {[old EXCEPT !.whole = w]}
        /\ jobs' = [jobs EXCEPT ![p].phase = "verify", ![p].file = [old EXCEPT !.whole = w]]
  BY DEF Receive
<1> DEFINE f == [old EXCEPT !.whole = w]
<1>2. jobs[p].phase = "download" /\ UNCHANGED <<latest, exe, running, leaked, created, upd, panel, crashes>>
  BY DEF Receive
<1>3. /\ jobs \in [Panels -> Job] /\ jobs[p] \in Job /\ jobs[p].release \in Releases
      /\ jobs[p].release = upd.latest /\ upd.latest # Nil /\ upd.running
      /\ upd.state = StateOf("download") /\ running # Nil
      /\ \A q \in Panels : q # p => jobs[q] = NoJob
  BY <1>2, ActiveJob
<1>4. /\ old # Nil /\ old \in File /\ old \in temps /\ old \notin leaked
      /\ old.release = jobs[p].release /\ temps \ leaked = {old}
  <2>1. old # Nil
    BY <1>2 DEF UpdateInv, JobsKnowTheirFiles
  <2> QED
    BY <1>2, <2>1, ActiveJob DEF UpdateInv, JobsKnowTheirFiles
<1>5. /\ created \in 0..MaxTemps /\ temps \subseteq File /\ leaked \subseteq temps
      /\ upd \in Upd /\ (upd.running <=> upd.state \in Busy)
      /\ exe \in [release : Releases, whole : BOOLEAN] /\ exe.whole
  BY DEF UpdateInv, TypeOK, ExecutableIsWhole
<1>6. f \in File /\ f # Nil /\ f.id = old.id /\ f.release = old.release
  <2>1. f \in File /\ f.id = old.id /\ f.release = old.release
    BY <1>4 DEF File
  <2> QED
    BY <2>1, NilAssumption
<1>7. temps' = (temps \ {old}) \cup {f} /\ jobs' = [jobs EXCEPT ![p].phase = "verify", ![p].file = f]
  BY <1>1
<1> HIDE DEF f, old
<1>8. /\ \A g \in temps : g.id \leq created
      /\ \A g, h \in temps : g.id = h.id => g = h
  BY DEF UpdateInv, FilesAreNumbered
<1>9. FilesAreNumbered'
  <2>1. \A g \in temps' : g = f \/ (g \in temps /\ g # old)
    BY <1>7
  <2>2. \A g \in temps' : g.id \leq created'
    BY <1>2, <1>4, <1>6, <1>8, <2>1
  <2>3. \A g, h \in temps' : g.id = h.id => g = h
    BY <1>4, <1>6, <1>8, <2>1
  <2> QED
    BY <2>2, <2>3 DEF FilesAreNumbered
<1>10. f \notin leaked
  BY <1>4, <1>5, <1>6, <1>8
<1>11. temps' \ leaked' = {f} /\ leaked' \subseteq temps' /\ temps' \subseteq File
  BY <1>2, <1>4, <1>5, <1>6, <1>7, <1>10
<1>12. /\ jobs'[p].phase = "verify" /\ jobs'[p].file = f
       /\ jobs'[p].release = jobs[p].release /\ jobs'[p] \in Job
       /\ jobs' = [jobs EXCEPT ![p] = jobs'[p]]
  <2>1. jobs' = [jobs EXCEPT ![p] = [jobs[p] EXCEPT !.phase = "verify", !.file = f]]
    BY <1>3, <1>7
  <2>2. /\ jobs'[p].phase = "verify" /\ jobs'[p].file = f
        /\ jobs'[p].release = jobs[p].release
    BY <1>3, <2>1 DEF Job
  <2>3. jobs'[p] = [jobs[p] EXCEPT !.phase = "verify", !.file = f]
    BY <1>3, <2>1
  <2>4. jobs'[p] \in Job
    BY <1>3, <1>6, <2>3 DEF Job
  <2> QED
    BY <1>3, <2>1, <2>2, <2>3, <2>4
<1>13. JobInv' /\ jobs' \in [Panels -> Job]
  <2>1. jobs'[p].file # Nil /\ {jobs'[p].file} \ {Nil} = {f}
    BY <1>6, <1>12
  <2>2. upd'.running /\ upd'.state = StateOf("verify") /\ upd'.latest = upd.latest
    BY <1>2, <1>3 DEF StateOf
  <2>3. f.release = jobs'[p].release
    BY <1>4, <1>6, <1>12
  <2> QED
    BY <1>2, <1>3, <1>11, <1>12, <2>1, <2>2, <2>3, JobStep
<1> QED
  BY <1>2, <1>5, <1>9, <1>11, <1>13, Assembled

LEMMA VerifyInv == ASSUME UpdateInv, NEW p \in Panels, Verify(p) PROVE UpdateInv'
<1>1. /\ jobs[p].phase = "verify" /\ jobs[p].file.whole
      /\ jobs' = [jobs EXCEPT ![p].phase = "apply"]
      /\ upd' = [upd EXCEPT !.state = "applying"]
      /\ UNCHANGED <<latest, exe, running, temps, leaked, created, panel, crashes>>
  BY DEF Verify, disk
<1>2. /\ jobs \in [Panels -> Job] /\ jobs[p] \in Job
      /\ jobs[p].release = upd.latest /\ upd.latest # Nil /\ upd.running /\ running # Nil
      /\ temps \ leaked = {jobs[p].file} \ {Nil}
      /\ \A q \in Panels : q # p => jobs[q] = NoJob
  BY <1>1, ActiveJob
<1>3. /\ jobs[p].file # Nil /\ jobs[p].file \in temps \ leaked
      /\ jobs[p].file.release = jobs[p].release
  BY <1>1 DEF UpdateInv, JobsKnowTheirFiles
<1>4. /\ created \in 0..MaxTemps /\ temps \subseteq File /\ leaked \subseteq temps /\ upd \in Upd
      /\ exe \in [release : Releases, whole : BOOLEAN] /\ exe.whole /\ FilesAreNumbered
  BY DEF UpdateInv, TypeOK, ExecutableIsWhole
<1>5. /\ jobs' = [jobs EXCEPT ![p] = jobs'[p]] /\ jobs'[p] \in Job
      /\ jobs'[p].phase = "apply" /\ jobs'[p].file = jobs[p].file
      /\ jobs'[p].release = jobs[p].release
  <2>1. jobs' = [jobs EXCEPT ![p] = [jobs[p] EXCEPT !.phase = "apply"]]
    BY <1>1, <1>2
  <2>2. [jobs[p] EXCEPT !.phase = "apply"] \in Job
    BY <1>2 DEF Job
  <2> QED
    BY <1>2, <2>1, <2>2 DEF Job
<1>6. /\ upd' \in Upd /\ upd'.running /\ upd'.state = "applying" /\ upd'.latest = upd.latest
      /\ upd'.state = StateOf("apply") /\ upd'.state \in Busy
  BY <1>1, <1>2, <1>4 DEF Upd, Busy, StateOf
<1>7. JobInv' /\ jobs' \in [Panels -> Job]
  <2>1. temps' \ leaked' = {jobs'[p].file} \ {Nil} /\ running' # Nil /\ jobs'[p].file.whole
    BY <1>1, <1>2, <1>5
  <2>2. /\ jobs'[p].file \in temps' \ leaked' /\ jobs'[p].file.release = jobs'[p].release
        /\ jobs'[p].file # Nil
    BY <1>1, <1>3, <1>5
  <2>3. jobs'[p].release = upd'.latest /\ upd'.latest # Nil
    BY <1>2, <1>5, <1>6
  <2> QED
    BY <1>2, <1>5, <1>6, <2>1, <2>2, <2>3, JobStep
<1>8. FilesAreNumbered'
  BY <1>1, <1>4 DEF FilesAreNumbered
<1>9. UNCHANGED <<exe, temps, leaked, created>>
  BY <1>1
<1> QED
  BY <1>1, <1>4, <1>6, <1>7, <1>8, <1>9, Assembled

LEMMA ApplyInv == ASSUME UpdateInv, NEW p \in Panels, Apply(p) PROVE UpdateInv'
<1> DEFINE f == jobs[p].file
<1>1. /\ jobs[p].phase = "apply"
      /\ exe' = [release |-> f.release, whole |-> f.whole]
      /\ temps' = temps \ {f}
      /\ jobs' = [jobs EXCEPT ![p].phase = "restart", ![p].file = Nil]
      /\ upd' = [upd EXCEPT !.state = "restarting"]
      /\ UNCHANGED <<latest, running, leaked, created, panel, crashes>>
  BY DEF Apply
<1>2. /\ jobs \in [Panels -> Job] /\ jobs[p] \in Job /\ jobs[p].release \in Releases
      /\ jobs[p].release = upd.latest /\ upd.latest # Nil /\ upd.running /\ running # Nil
      /\ temps \ leaked = {f} \ {Nil}
      /\ \A q \in Panels : q # p => jobs[q] = NoJob
  BY <1>1, ActiveJob
<1>3. f # Nil /\ f \in temps \ leaked /\ f.release = jobs[p].release /\ f.whole
  BY <1>1 DEF UpdateInv, JobsKnowTheirFiles
<1>4. /\ created \in 0..MaxTemps /\ temps \subseteq File /\ leaked \subseteq temps /\ upd \in Upd
      /\ FilesAreNumbered
  BY DEF UpdateInv, TypeOK
<1>5. f \in File
  BY <1>3, <1>4
<1> HIDE DEF f
<1>6. /\ exe' \in [release : Releases, whole : BOOLEAN] /\ exe'.whole
      /\ exe'.release = jobs[p].release
  BY <1>1, <1>2, <1>3, <1>5 DEF File
<1>7. /\ jobs' = [jobs EXCEPT ![p] = jobs'[p]] /\ jobs'[p] \in Job
      /\ jobs'[p].phase = "restart" /\ jobs'[p].file = Nil
      /\ jobs'[p].release = jobs[p].release
  <2>1. jobs' = [jobs EXCEPT ![p] = [jobs[p] EXCEPT !.phase = "restart", !.file = Nil]]
    BY <1>1, <1>2
  <2>2. [jobs[p] EXCEPT !.phase = "restart", !.file = Nil] \in Job
    BY <1>2 DEF Job
  <2> QED
    BY <1>2, <2>1, <2>2 DEF Job
<1>8. /\ upd' \in Upd /\ upd'.running /\ upd'.state = "restarting" /\ upd'.latest = upd.latest
      /\ upd'.state = StateOf("restart") /\ upd'.state \in Busy
  BY <1>1, <1>2, <1>4 DEF Upd, Busy, StateOf
<1>9. temps' \ leaked' = {} /\ leaked' \subseteq temps' /\ temps' \subseteq File
  BY <1>1, <1>2, <1>3, <1>4
<1>10. JobInv' /\ jobs' \in [Panels -> Job]
  <2>1. temps' \ leaked' = {jobs'[p].file} \ {Nil} /\ running' # Nil
    BY <1>1, <1>2, <1>7, <1>9
  <2>2. /\ jobs'[p].release = upd'.latest /\ upd'.latest # Nil
        /\ exe'.release = upd'.latest
    BY <1>2, <1>6, <1>7, <1>8
  <2> QED
    BY <1>2, <1>7, <1>8, <2>1, <2>2, JobStep
<1>11. FilesAreNumbered' /\ UNCHANGED created
  BY <1>1, <1>4 DEF FilesAreNumbered
<1> QED
  BY <1>1, <1>4, <1>6, <1>8, <1>9, <1>10, <1>11, Assembled

(* The process ends, whatever the update was doing.                        *)
LEMMA DownInv == ASSUME UpdateInv, Down, crashes' \in 0..MaxCrashes PROVE UpdateInv'
<1>1. /\ running' = Nil /\ upd' = IdleUpd /\ jobs' = [q \in Panels |-> NoJob]
      /\ leaked' = leaked \cup {jobs[q].file : q \in {r \in Panels : jobs[r].file # Nil}}
      /\ panel' = [q \in Panels |-> IF panel[q].view = "resolve" THEN NoPanel ELSE panel[q]]
      /\ UNCHANGED <<latest, exe, temps, created>>
  BY DEF Down
<1>2. /\ temps \ leaked = {jobs[q].file : q \in Active} \ {Nil}
      /\ \A q \in Panels : jobs[q].file # Nil => q \in Active /\ jobs[q].file \in temps
  BY DEF UpdateInv, TempsAreAccounted, JobsKnowTheirFiles, Active
<1>3. temps' \subseteq leaked' /\ leaked' \subseteq temps'
  <2>1. leaked \subseteq temps
    BY DEF UpdateInv, TypeOK
  <2>2. ASSUME NEW g \in temps, g \notin leaked PROVE g \in leaked'
    <3>1. PICK q \in Active : g = jobs[q].file /\ g # Nil
      BY <1>2, <2>2
    <3> QED
      BY <1>1, <3>1 DEF Active
  <2> QED
    BY <1>1, <1>2, <2>1, <2>2
<1>4. ~upd'.running /\ upd'.state = "idle" /\ upd' \in Upd
  BY <1>1 DEF IdleUpd, Upd
<1>5. JobInv' /\ jobs' \in [Panels -> Job]
  BY <1>1, <1>3, <1>4, JobsOver
<1>6. panel' \in [Panels -> Panel] /\ RequestsAreResolved'
  <2>1. NoPanel \in Panel /\ NoPanel.view # "resolve"
    BY DEF NoPanel, Panel
  <2>2. \A q \in Panels : panel'[q] \in Panel /\ panel'[q].view # "resolve"
    BY <1>1, <2>1 DEF UpdateInv, TypeOK
  <2> QED
    BY <1>1, <2>2 DEF RequestsAreResolved
<1>7. TypeOK'
  BY <1>1, <1>3, <1>4, <1>5, <1>6 DEF UpdateInv, TypeOK, Busy
<1>8. FilesAreNumbered' /\ ExecutableIsWhole'
  BY <1>1 DEF UpdateInv, FilesAreNumbered, ExecutableIsWhole
<1> QED
  BY <1>5, <1>6, <1>7, <1>8 DEF UpdateInv, JobInv

LEMMA StartInv == UpdateInv /\ Start => UpdateInv'
<1> SUFFICES ASSUME UpdateInv, Start PROVE UpdateInv'
  OBVIOUS
<1>1. running' = exe.release /\ running = Nil /\ UNCHANGED <<latest, exe, temps, leaked, created, upd, jobs, panel, crashes>>
  BY DEF Start, disk
<1>2. \A q \in Panels : jobs[q].phase = "none"
  BY <1>1, ActiveJob
<1>3. TypeOK'
  BY <1>1 DEF UpdateInv, TypeOK
<1>4. JobsFollowTheRecord'
  BY <1>1, <1>2 DEF UpdateInv, JobsFollowTheRecord
<1>5. JobsKnowTheirFiles' /\ FilesAreNumbered' /\ RequestsAreResolved' /\ AnnouncedIsInstalled'
      /\ ExecutableIsWhole'
  BY <1>1 DEF UpdateInv, JobsKnowTheirFiles, FilesAreNumbered, RequestsAreResolved,
              AnnouncedIsInstalled, ExecutableIsWhole
<1>6. Active' = Active
  BY <1>1 DEF Active
<1>7. OneUpdateAtATime' /\ TempsAreAccounted'
  BY <1>1, <1>6 DEF UpdateInv, OneUpdateAtATime, TempsAreAccounted
<1> QED
  BY <1>3, <1>4, <1>5, <1>7 DEF UpdateInv

LEMMA NextInv == UpdateInv /\ [Next]_vars => UpdateInv'
<1> SUFFICES ASSUME UpdateInv, [Next]_vars PROVE UpdateInv'
  OBVIOUS
<1>1. CASE Publish
  BY <1>1, PublishInv
<1>2. CASE Crash
  <2>1. crashes' \in 0..MaxCrashes
    BY <1>2, UpdateAssumption DEF Crash, UpdateInv, TypeOK
  <2> QED
    BY <1>2, <2>1, DownInv DEF Crash
<1>3. CASE Start
  BY <1>3, StartInv
<1>4. ASSUME NEW p \in Panels, Resolve(p) \/ Update(p) \/ Page(p) \/ Reopen(p)
      PROVE  UpdateInv'
  <2>1. CASE Resolve(p) \/ Conflict(p) \/ Poll(p) \/ Reload(p) \/ Reopen(p)
    BY <2>1, PageInv
  <2>2. CASE Begin(p)
    BY <2>2, BeginInv
  <2>3. CASE FetchFails(p) \/ ReceiveFails(p) \/ Reject(p) \/ ApplyFails(p)
    BY <2>3, FailuresInv
  <2>4. CASE CreateTemp(p)
    BY <2>4, CreateTempInv
  <2>5. CASE Receive(p)
    BY <2>5, ReceiveInv
  <2>6. CASE Verify(p)
    BY <2>6, VerifyInv
  <2>7. CASE Apply(p)
    BY <2>7, ApplyInv
  <2>8. CASE Restart(p)
    <3>1. crashes' \in 0..MaxCrashes
      BY <2>8 DEF Restart, UpdateInv, TypeOK
    <3> QED
      BY <2>8, <3>1, DownInv DEF Restart
  <2> QED
    BY <1>4, <2>1, <2>2, <2>3, <2>4, <2>5, <2>6, <2>7, <2>8 DEF Update, Page
<1>5. CASE UNCHANGED vars
  <2>1. UNCHANGED <<disk, running, upd, jobs, latest, panel, crashes>>
    BY <1>5 DEF vars, disk
  <2>2. latest' \in Releases /\ panel' \in [Panels -> Panel] /\ RequestsAreResolved'
    BY <2>1 DEF UpdateInv, TypeOK, RequestsAreResolved
  <2> QED
    BY <2>1, <2>2, PanelStep
<1> QED
  BY <1>1, <1>2, <1>3, <1>4, <1>5 DEF Next

(* The strengthened invariant holds for any number of panels, releases,    *)
(* crashes and temporary files.                                            *)
THEOREM UpdateIsSound == Spec => []UpdateInv
BY InitInv, NextInv, PTL DEF Spec

(* Every field of the progress record and of the disk stays in its type;   *)
(* the running flag agrees with the state that is polled.                  *)
THEOREM UpdateTypes == Spec => []TypeOK
<1>1. UpdateInv => TypeOK
  BY DEF UpdateInv
<1> QED
  BY <1>1, UpdateIsSound, PTL

(* begin under upd.mu admits one update, however many requests resolved a  *)
(* release before and however their failures and retries interleave.       *)
THEOREM UpdateExcludes == Spec => []OneUpdateAtATime
<1>1. UpdateInv => OneUpdateAtATime
  BY DEF UpdateInv
<1> QED
  BY <1>1, UpdateIsSound, PTL

(* A process started at any moment, after any crash, is a whole release.   *)
THEOREM ExecutableStaysWhole == Spec => []ExecutableIsWhole
<1>1. UpdateInv => ExecutableIsWhole
  BY DEF UpdateInv
<1> QED
  BY <1>1, UpdateIsSound, PTL

(* The release that is installed is the one the record announces.          *)
THEOREM UpdateInstallsAnnounced == Spec => []AnnouncedIsInstalled
<1>1. UpdateInv => AnnouncedIsInstalled
  BY DEF UpdateInv
<1> QED
  BY <1>1, UpdateIsSound, PTL

(* Only a crash or a failed rename leaves a download file behind.          *)
THEOREM UpdateCleansUp == Spec => []TempsAreAccounted
<1>1. UpdateInv => TempsAreAccounted
  BY DEF UpdateInv
<1> QED
  BY <1>1, UpdateIsSound, PTL
=============================================================================
