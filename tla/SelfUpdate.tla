----------------------------- MODULE SelfUpdate -----------------------------
(***************************************************************************)
(* The self-update (internal/update, handlers_update.go) and the panels    *)
(* that drive it (UpdatePanel.tsx): resolve the latest release, download   *)
(* it beside the executable, verify it, rename it into place, restart; the *)
(* panel polls the progress record, then waits for the new process.        *)
(*                                                                         *)
(* Releases are numbered.  The process may end at any time and is started  *)
(* again by its supervisor, whatever the update was doing.                 *)
(***************************************************************************)
EXTENDS Naturals

CONSTANTS Panels,     \* browser pages with the update panel
          MaxRelease, \* releases published after the one installed (a bound)
          MaxCrashes, \* ends of the process that no update asked for (a bound)
          MaxTemps,   \* temporary files ever created (a bound)
          Nil

ASSUME UpdateAssumption ==
  MaxRelease \in Nat /\ MaxCrashes \in Nat /\ MaxTemps \in Nat

VARIABLES latest,  \* the newest release at GitHub
          exe,     \* the executable on disk
          running, \* the release that runs, Nil while the process is down
          temps,   \* download files beside the executable
          leaked,  \* history: files of a failed rename or of a crash
          created, \* temporary files created so far
          upd,     \* updateState
          jobs,    \* update goroutines, by panel that asked for them
          panel,   \* the panels
          crashes

disk == <<exe, temps, leaked, created>>
vars == <<latest, exe, running, temps, leaked, created, upd, jobs, panel, crashes>>

Releases == 0..MaxRelease
Busy == {"downloading", "applying", "restarting"}

(* whole: every byte is there and the checksum of the release matches.     *)
File == [id : 1..MaxTemps, release : Releases, whole : BOOLEAN]
ASSUME NilAssumption == Nil \notin Releases /\ Nil \notin File
Upd == [running : BOOLEAN, state : Busy \cup {"idle", "error"}, latest : Releases \cup {Nil}]
IdleUpd == [running |-> FALSE, state |-> "idle", latest |-> Nil]
Job == [phase : {"none", "fetch", "download", "verify", "apply", "restart"},
        release : Releases \cup {Nil}, file : File \cup {Nil}]
NoJob == [phase |-> "none", release |-> Nil, file |-> Nil]

(* "resolve": the request is in the handler, between Check and begin.      *)
Panel == [view : {"idle", "resolve", "poll", "wait", "failed", "reloaded"},
          release : Releases \cup {Nil}]
NoPanel == [view |-> "idle", release |-> Nil]

Active == {p \in Panels : jobs[p].phase # "none"}

TypeOK == /\ latest \in Releases
          /\ exe \in [release : Releases, whole : BOOLEAN]
          /\ running \in Releases \cup {Nil}
          /\ temps \subseteq File /\ leaked \subseteq temps
          /\ created \in 0..MaxTemps
          /\ upd \in Upd /\ (upd.running <=> upd.state \in Busy)
          /\ jobs \in [Panels -> Job]
          /\ panel \in [Panels -> Panel]
          /\ crashes \in 0..MaxCrashes

Init == /\ latest = 0 /\ exe = [release |-> 0, whole |-> TRUE] /\ running = 0
        /\ temps = {} /\ leaked = {} /\ created = 0
        /\ upd = IdleUpd
        /\ jobs = [p \in Panels |-> NoJob]
        /\ panel = [p \in Panels |-> NoPanel]
        /\ crashes = 0

Publish == /\ latest < MaxRelease /\ latest' = latest + 1
           /\ UNCHANGED <<disk, running, upd, jobs, panel, crashes>>

(***************************************************************************)
(* POST /api/update/apply                                                  *)
(***************************************************************************)

(* Check resolves the release; an error answers 502 and changes nothing.   *)
Resolve(p) ==
  /\ running # Nil /\ panel[p].view = "idle"
  /\ panel' = [panel EXCEPT ![p].view = "resolve", ![p].release = latest]
  /\ UNCHANGED <<latest, disk, running, upd, jobs, crashes>>

(* Mutant: the running flag is not looked at.                              *)
BeginAlways(p) ==
  /\ panel[p].view = "resolve" /\ running # Nil
  /\ upd' = [running |-> TRUE, state |-> "downloading", latest |-> panel[p].release]
  /\ jobs' = [jobs EXCEPT ![p] = [NoJob EXCEPT !.phase = "fetch", !.release = panel[p].release]]
  /\ panel' = [panel EXCEPT ![p].view = "poll"]
  /\ UNCHANGED <<latest, disk, running, crashes>>

(* upd.begin under upd.mu, then the goroutine; the panel starts to poll.   *)
Begin(p) ==
  /\ panel[p].view = "resolve" /\ running # Nil /\ ~upd.running
  /\ upd' = [running |-> TRUE, state |-> "downloading", latest |-> panel[p].release]
  /\ jobs' = [jobs EXCEPT ![p] = [NoJob EXCEPT !.phase = "fetch", !.release = panel[p].release]]
  /\ panel' = [panel EXCEPT ![p].view = "poll"]
  /\ UNCHANGED <<latest, disk, running, crashes>>

(* 409: an update is in progress.  The panel shows the error and stays.    *)
Conflict(p) ==
  /\ panel[p].view = "resolve" /\ running # Nil /\ upd.running
  /\ panel' = [panel EXCEPT ![p] = NoPanel]
  /\ UNCHANGED <<latest, disk, running, upd, jobs, crashes>>

(***************************************************************************)
(* The goroutine                                                           *)
(***************************************************************************)

(* Mutant: fail leaves the running flag set.                               *)
FailBusy(p) ==
  /\ upd' = [upd EXCEPT !.state = "error"]
  /\ jobs' = [jobs EXCEPT ![p] = NoJob]
Fail(p) ==
  /\ upd' = [upd EXCEPT !.running = FALSE, !.state = "error"]
  /\ jobs' = [jobs EXCEPT ![p] = NoJob]

(* No checksum, no answer, or no temporary file.                           *)
FetchFails(p) ==
  /\ jobs[p].phase = "fetch" /\ Fail(p)
  /\ UNCHANGED <<latest, disk, running, panel, crashes>>

(* Mutant: the goroutine downloads what is the latest release by now.      *)
CreateTempLatest(p) ==
  /\ jobs[p].phase = "fetch" /\ created < MaxTemps
  /\ created' = created + 1
  /\ LET f == [id |-> created + 1, release |-> latest, whole |-> FALSE] IN
       /\ temps' = temps \cup {f}
       /\ jobs' = [jobs EXCEPT ![p].phase = "download", ![p].file = f]
  /\ UNCHANGED <<latest, exe, running, leaked, upd, panel, crashes>>
CreateTemp(p) ==
  /\ jobs[p].phase = "fetch" /\ created < MaxTemps
  /\ created' = created + 1
  /\ LET f == [id |-> created + 1, release |-> jobs[p].release, whole |-> FALSE] IN
       /\ temps' = temps \cup {f}
       /\ jobs' = [jobs EXCEPT ![p].phase = "download", ![p].file = f]
  /\ UNCHANGED <<latest, exe, running, leaked, upd, panel, crashes>>

(* The body is read to its end; it may be short or damaged.                *)
Receive(p) ==
  /\ jobs[p].phase = "download"
  /\ \E whole \in BOOLEAN :
       LET f == [jobs[p].file EXCEPT !.whole = whole] IN
         /\ temps' = (temps \ {jobs[p].file}) \cup {f}
         /\ jobs' = [jobs EXCEPT ![p].phase = "verify", ![p].file = f]
  /\ UNCHANGED <<latest, exe, running, leaked, created, upd, panel, crashes>>

(* A read or a write fails: cleanup.                                       *)
ReceiveFails(p) ==
  /\ jobs[p].phase = "download" /\ Fail(p)
  /\ temps' = temps \ {jobs[p].file}
  /\ UNCHANGED <<latest, exe, running, leaked, created, panel, crashes>>

(* Mutants: the sum is not compared; a wrong sum leaves the file.          *)
VerifyNothing(p) ==
  /\ jobs[p].phase = "verify"
  /\ jobs' = [jobs EXCEPT ![p].phase = "apply"]
  /\ upd' = [upd EXCEPT !.state = "applying"]
  /\ UNCHANGED <<latest, disk, running, panel, crashes>>
RejectOnly(p) ==
  /\ jobs[p].phase = "verify" /\ Fail(p)
  /\ UNCHANGED <<latest, disk, running, panel, crashes>>

Verify(p) ==
  /\ jobs[p].phase = "verify" /\ jobs[p].file.whole
  /\ jobs' = [jobs EXCEPT ![p].phase = "apply"]
  /\ upd' = [upd EXCEPT !.state = "applying"]
  /\ UNCHANGED <<latest, disk, running, panel, crashes>>

(* A wrong sum, or chmod fails.                                            *)
Reject(p) ==
  /\ jobs[p].phase = "verify" /\ Fail(p)
  /\ temps' = temps \ {jobs[p].file}
  /\ UNCHANGED <<latest, exe, running, leaked, created, panel, crashes>>

(* Apply is one rename, which replaces the executable at once.             *)
Apply(p) ==
  /\ jobs[p].phase = "apply"
  /\ exe' = [release |-> jobs[p].file.release, whole |-> jobs[p].file.whole]
  /\ temps' = temps \ {jobs[p].file}
  /\ jobs' = [jobs EXCEPT ![p].phase = "restart", ![p].file = Nil]
  /\ upd' = [upd EXCEPT !.state = "restarting"]
  /\ UNCHANGED <<latest, running, leaked, created, panel, crashes>>

(* Mutant: the failed update forgets its file and goes on "applying".      *)
ApplyFailsHolding(p) ==
  /\ jobs[p].phase = "apply"
  /\ jobs' = [jobs EXCEPT ![p] = NoJob]
  /\ leaked' = leaked \cup {jobs[p].file}
  /\ UNCHANGED <<latest, exe, running, temps, created, upd, panel, crashes>>
(* The rename fails; nobody removes the file.                              *)
ApplyFails(p) ==
  /\ jobs[p].phase = "apply" /\ Fail(p)
  /\ leaked' = leaked \cup {jobs[p].file}
  /\ UNCHANGED <<latest, exe, running, temps, created, panel, crashes>>

(***************************************************************************)
(* The end of the process and its next start                               *)
(***************************************************************************)

Down ==
  /\ running' = Nil /\ upd' = IdleUpd
  /\ jobs' = [p \in Panels |-> NoJob]
  /\ leaked' = leaked \cup {jobs[p].file : p \in {q \in Panels : jobs[q].file # Nil}}
  /\ panel' = [p \in Panels |-> IF panel[p].view = "resolve" THEN NoPanel ELSE panel[p]]
  /\ UNCHANGED <<latest, exe, temps, created>>

Restart(p) == jobs[p].phase = "restart" /\ Down /\ UNCHANGED crashes
Crash == running # Nil /\ crashes < MaxCrashes /\ crashes' = crashes + 1 /\ Down

(* systemd, or exec: the executable on disk.                               *)
Start == /\ running = Nil /\ running' = exe.release
         /\ UNCHANGED <<latest, disk, upd, jobs, panel, crashes>>

(***************************************************************************)
(* The panel                                                               *)
(***************************************************************************)

(* One poll of the status; a poll that fails is repeated, and one that     *)
(* finds the daemon idle or downloading says nothing.                      *)
Poll(p) ==
  /\ panel[p].view = "poll" /\ running # Nil
  /\ panel' = [panel EXCEPT ![p].view =
       IF upd.state = "error" THEN "failed"
       ELSE IF upd.state \in {"applying", "restarting"} THEN "wait" ELSE "poll"]
  /\ UNCHANGED <<latest, disk, running, upd, jobs, crashes>>

(* /api/health answers, asked for the first time 2.5 s after the poll: the *)
(* new process, or the old one if its end takes longer.                    *)
Reload(p) ==
  /\ panel[p].view = "wait" /\ running # Nil
  /\ panel' = [panel EXCEPT ![p] = [NoPanel EXCEPT !.view = "reloaded"]]
  /\ UNCHANGED <<latest, disk, running, upd, jobs, crashes>>

(* The user loads the page and signs in again.                             *)
Reopen(p) ==
  /\ panel[p].view # "idle" /\ panel[p].view # "resolve"
  /\ panel' = [panel EXCEPT ![p] = NoPanel]
  /\ UNCHANGED <<latest, disk, running, upd, jobs, crashes>>

Update(p) == \/ FetchFails(p) \/ CreateTemp(p) \/ Receive(p) \/ ReceiveFails(p) \/ Verify(p)
             \/ Reject(p) \/ Apply(p) \/ ApplyFails(p) \/ Restart(p)
Page(p) == Begin(p) \/ Conflict(p) \/ Poll(p) \/ Reload(p)

Next == \/ Publish \/ Crash \/ Start
        \/ \E p \in Panels : Resolve(p) \/ Update(p) \/ Page(p) \/ Reopen(p)

Spec == Init /\ [][Next]_vars

(* The goroutine runs and its requests time out; pages keep their timers;  *)
(* the unit is started again whenever it ends (Restart=always).            *)
FairSpec == /\ Spec /\ WF_vars(Start)
            /\ \A p \in Panels : WF_vars(Update(p)) /\ WF_vars(Page(p)) /\ SF_vars(Reload(p))

(***************************************************************************)
(* Properties                                                              *)
(***************************************************************************)

(* Two updates never run at once, although a request resolves its release  *)
(* long before begin (handlers_update.go:94-107) and another update may    *)
(* have failed and been started again in between.                          *)
OneUpdateAtATime == /\ \A p, q \in Active : p = q
                    /\ upd.running <=> Active # {}

(* What a supervisor would start is a complete, verified release at every  *)
(* moment, whenever the process ends (update.go:157-196, 236-245).         *)
ExecutableIsWhole == exe.whole

(* While the process waits to be replaced, the executable is the release   *)
(* that the panels announce as about to go live (handlers_update.go:122-   *)
(* 132), not one that was published or installed meanwhile.                *)
AnnouncedIsInstalled == upd.state = "restarting" => exe.release = upd.latest

(* A file beside the executable belongs to the update in progress, or was  *)
(* left by a crash or a failed rename: every other way out removes it      *)
(* (update.go:156-194).                                                    *)
TempsAreAccounted == temps \ leaked = {jobs[p].file : p \in Active} \ {Nil}

(* What makes these inductive: the record follows the goroutine, the       *)
(* goroutine knows its file, and every file has its number.                *)
StateOf(phase) == IF phase = "restart" THEN "restarting"
                  ELSE IF phase = "apply" THEN "applying" ELSE "downloading"
JobsFollowTheRecord ==
  \A p \in Panels :
    /\ jobs[p].phase = "none" => jobs[p] = NoJob
    /\ jobs[p].phase # "none" => /\ upd.state = StateOf(jobs[p].phase)
                                 /\ jobs[p].release = upd.latest /\ upd.latest # Nil
                                 /\ running # Nil
    /\ jobs[p].phase = "restart" => exe.release = upd.latest
JobsKnowTheirFiles ==
  \A p \in Panels :
    /\ jobs[p].file # Nil <=> jobs[p].phase \in {"download", "verify", "apply"}
    /\ jobs[p].file # Nil => /\ jobs[p].file \in temps \ leaked
                             /\ jobs[p].file.release = jobs[p].release
    /\ jobs[p].phase = "apply" => jobs[p].file.whole
RequestsAreResolved == \A p \in Panels : panel[p].view = "resolve" => panel[p].release # Nil
FilesAreNumbered == /\ \A f \in temps : f.id \leq created
                    /\ \A f, g \in temps : f.id = g.id => f = g
UpdateInv == /\ TypeOK /\ OneUpdateAtATime /\ ExecutableIsWhole /\ TempsAreAccounted
             /\ AnnouncedIsInstalled /\ JobsFollowTheRecord /\ JobsKnowTheirFiles
             /\ FilesAreNumbered /\ RequestsAreResolved

(* "The page reloads to the login screen when it's back" (docs/deploy.md:  *)
(* 149-150): a panel that follows an update shows its failure or reloads,  *)
(* unless the user leaves it, and does not poll for ever.                  *)
PageComesBack ==
  \A p \in Panels : (panel[p].view \in {"poll", "wait"}) ~> (panel[p].view \notin {"poll", "wait"})
=============================================================================
