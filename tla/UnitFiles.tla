----------------------------- MODULE UnitFiles -----------------------------
(***************************************************************************)
(* The unit file of a service, which administrators edit in the browser:   *)
(* WriteUnitFile, writeViaRoot and Reload of internal/services, with       *)
(* handlers_services.go and RunRoot of internal/terminal.                  *)
(*                                                                         *)
(* A save writes the file in place, or has root install a copy of it, and  *)
(* may then have systemd load all unit files again.  Nothing excludes two  *)
(* saves from each other.  Every save has a number, which stands for the   *)
(* text it writes.                                                         *)
(***************************************************************************)
EXTENDS Startup

CONSTANTS Editors,    \* requests that save the file, one at a time each
          MaxSaves    \* bounds the saves

ASSUME MaxSavesAssumption == MaxSaves \in Nat

VARIABLES unit,     \* the file: a text, Empty, or Torn (part of a text, or of two)
          loaded,   \* what systemd has loaded of it
          put,      \* per editor, the PUT in progress
          saves     \* the number of saves sent

unitVars == <<unit, loaded, put, saves>>

Empty == -1
Torn == -2
Texts == 0..MaxSaves
OnDisk == Texts \cup {Empty, Torn}

(* "met" is a history: another save has written the file since this one    *)
(* found out where it is.                                                  *)
NoPut == [step |-> "idle", text |-> 0, reload |-> FALSE, met |-> FALSE]
UnitTypes ==
  /\ unit \in OnDisk /\ loaded \in OnDisk /\ saves \in Nat
  /\ put \in [Editors -> [step : {"idle", "path", "truncated", "written", "done"},
                          text : Texts, reload : BOOLEAN, met : BOOLEAN]]

UnitsInit == /\ unit = 0 /\ loaded = 0 /\ saves = 0
             /\ put = [e \in Editors |-> NoPut]

(* PUT; systemd says where the file is.                                    *)
SendSave(e) ==
  /\ Serving /\ put[e].step = "idle" /\ saves < MaxSaves
  /\ \E reload \in BOOLEAN :
       put' = [put EXCEPT ![e] = [step |-> "path", text |-> saves + 1,
                                  reload |-> reload, met |-> FALSE]]
  /\ saves' = saves + 1
  /\ UNCHANGED <<unit, loaded>>

AnswerSave(e) == put' = [put EXCEPT ![e] = NoPut] /\ UNCHANGED <<unit, loaded, saves>>

(* Bad path, no permission, a password that sudo rejects (401), a          *)
(* temporary file that cannot be written.                                  *)
RefuseSave(e) == put[e].step = "path" /\ AnswerSave(e)

(* The file becomes "text", and every other save in progress meets this.   *)
Writes(e, text, step) ==
  /\ unit' = text
  /\ put' = [f \in Editors |-> IF f = e THEN [put[e] EXCEPT !.step = step]
                               ELSE [put[f] EXCEPT !.met = put[f].step # "idle"]]

(* os.WriteFile opens with O_TRUNC ...                                     *)
Truncate(e) == /\ put[e].step = "path"
               /\ Writes(e, Empty, "truncated")
               /\ UNCHANGED <<loaded, saves>>

(* ... and writes from the start: what another save has written meanwhile  *)
(* may be longer, or root has put another file in its place.               *)
WriteText(e) ==
  /\ put[e].step = "truncated"
  /\ \E text \in {put[e].text} \cup (IF unit = Empty THEN {} ELSE {Torn, unit}) :
       Writes(e, text, "written")
  /\ UNCHANGED <<loaded, saves>>

(* The disk is full: 502, and what is written stays.                       *)
WriteFails(e) ==
  /\ put[e].step = "truncated"
  /\ unit' = Torn
  /\ put' = [f \in Editors |-> IF f = e THEN NoPut
                               ELSE [put[f] EXCEPT !.met = put[f].step # "idle"]]
  /\ UNCHANGED <<loaded, saves>>

(* Mutant: the text is installed after the reload.                         *)
InstallLate(e) ==
  /\ put[e].step = "path"
  /\ Writes(e, put[e].text, "done")
  /\ loaded' = IF put[e].reload THEN unit ELSE loaded
  /\ UNCHANGED saves

(* Root installs the temporary file (taken as one step of install(1)), and *)
(* the reload follows in the same command.                                 *)
Install(e) ==
  /\ put[e].step = "path"
  /\ Writes(e, put[e].text, "written")
  /\ UNCHANGED <<loaded, saves>>

(* systemctl daemon-reload reads whatever the file holds now.              *)
Reload(e) ==
  /\ put[e].step = "written" /\ put[e].reload
  /\ loaded' = unit
  /\ put' = [put EXCEPT ![e].step = "done"]
  /\ UNCHANGED <<unit, saves>>

(* "saved <path>, but daemon-reload failed": an error, the text stays, and *)
(* systemd may have loaded it all the same.                                *)
ReloadFails(e) == /\ put[e].step = "written" /\ put[e].reload
                  /\ loaded' \in {loaded, unit}
                  /\ put' = [put EXCEPT ![e] = NoPut]
                  /\ UNCHANGED <<unit, saves>>

Saved(e) == put[e].step = (IF put[e].reload THEN "done" ELSE "written")
FinishSave(e) == Saved(e) /\ AnswerSave(e)

(* The process ends: so do the saves in progress, wherever they are.       *)
ForgetSaves == put' = [e \in Editors |-> NoPut] /\ UNCHANGED <<unit, loaded, saves>>

UnitStep == \E e \in Editors :
              \/ SendSave(e) \/ RefuseSave(e) \/ Truncate(e) \/ WriteText(e) \/ WriteFails(e)
              \/ Install(e) \/ Reload(e) \/ ReloadFails(e) \/ FinishSave(e)

(***************************************************************************)
(* Properties                                                              *)
(***************************************************************************)

(* What the steps of a save hand on, as long as no other save has written. *)
SavesAlone ==
  \A e \in Editors :
    /\ put[e].step = "done" => put[e].reload
    /\ ~put[e].met =>
         /\ put[e].step = "truncated" => unit = Empty
         /\ put[e].step \in {"written", "done"} => unit = put[e].text
         /\ put[e].step = "done" => loaded = put[e].text

(* "Reload runs systemctl daemon-reload so edited unit files take effect"  *)
(* (services.go:334): when a save that asked for it succeeds, its own text *)
(* is what systemd has loaded, and what the file holds, unless another     *)
(* save has written the file meanwhile; other saves may reload, fail or    *)
(* start at any time, and earlier ones may have been cut off.              *)
SavedIsInEffect ==
  \A e \in Editors : Saved(e) /\ ~put[e].met =>
    unit = put[e].text /\ (put[e].reload => loaded = put[e].text)
=============================================================================
