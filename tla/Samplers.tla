------------------------------ MODULE Samplers ------------------------------
(***************************************************************************)
(* What the Overview and Applications tabs measure: the Sampler of         *)
(* internal/system, one for each metrics stream (handlers_system.go), and  *)
(* the Sampler of internal/processes, one for the daemon, whose List calls *)
(* overlap (handlers_processes.go).                                        *)
(*                                                                         *)
(* The machine has one core, which in a tick is busy, with one process, or *)
(* idle, and receives a byte or none.  Readings are cumulative, and each   *)
(* of them may fail.                                                       *)
(***************************************************************************)
EXTENDS Startup

CONSTANTS Streams,   \* metrics streams, one for each page
          Lists,     \* List calls that may be in progress
          MaxClock   \* bounds the time

ASSUME MaxClockAssumption == MaxClock \in Nat

VARIABLES clock, busyTime, bytes,  \* the machine, since it was booted
          sampler,   \* per stream: its Sampler, Off without a connection
          told,      \* history, per stream: the sums of what its samples reported
          prev,      \* the Sampler of the process list
          list       \* per List call: its progress and, in the end, its answer

sampleVars == <<clock, busyTime, bytes, sampler, told, prev, list>>

(* "cpu" is the last reading of the core, "rx" the last one of the network *)
(* (zero if there was none), "time" when the last sample was taken.        *)
(* "...From" in told: what the machine had done by the first reading.      *)
NoReading == [known |-> FALSE, total |-> 0, busy |-> 0]
Off == [on |-> FALSE, cpu |-> NoReading, rx |-> 0, time |-> 0]
NothingTold == [busy |-> 0, busyFrom |-> 0, rx |-> 0, rxFrom |-> 0]

(* A call that is "reading" holds the mutex.  "sure" and "counted" are     *)
(* histories: the reading has not failed, and the time that the lists have *)
(* reported between readings that have not failed.                         *)
NoList == [step |-> "idle", now |-> 0, read |-> FALSE, total |-> 0]
NoSnap == [known |-> FALSE, sure |-> FALSE, total |-> 0, at |-> 0, counted |-> 0]

SampleTypes ==
  /\ clock \in Nat /\ busyTime \in 0..clock /\ bytes \in 0..clock
  /\ sampler \in [Streams -> [on : BOOLEAN, cpu : [known : BOOLEAN, total : Nat, busy : Nat],
                              rx : Nat, time : Nat]]
  /\ told \in [Streams -> [busy : Nat, busyFrom : Nat, rx : Nat, rxFrom : Nat]]
  /\ prev \in [known : BOOLEAN, sure : BOOLEAN, total : Nat, at : Nat, counted : Nat]
  /\ list \in [Lists -> [step : {"idle", "waiting", "reading"}, now : Nat,
                         read : BOOLEAN, total : Nat]]

SamplesInit == /\ clock = 0 /\ busyTime = 0 /\ bytes = 0
               /\ sampler = [s \in Streams |-> Off]
               /\ told = [s \in Streams |-> NothingTold]
               /\ prev = NoSnap
               /\ list = [c \in Lists |-> NoList]

Tick == /\ clock < MaxClock
        /\ clock' = clock + 1
        /\ busyTime' \in {busyTime, busyTime + 1}
        /\ bytes' \in {bytes, bytes + 1}
        /\ UNCHANGED <<sampler, told, prev, list>>

(***************************************************************************)
(* The metrics stream                                                      *)
(***************************************************************************)

Reading == [known |-> TRUE, total |-> clock, busy |-> busyTime]

(* NewSampler; a reading that fails is left out.                           *)
Connect(s) ==
  /\ Serving /\ ~sampler[s].on
  /\ \E cpuRead, rxRead \in BOOLEAN :
       /\ sampler' = [sampler EXCEPT ![s] =
                        [on |-> TRUE, cpu |-> IF cpuRead THEN Reading ELSE NoReading,
                         rx |-> IF rxRead THEN bytes ELSE 0, time |-> clock]]
       /\ told' = [told EXCEPT ![s] =
                     [busy |-> 0, busyFrom |-> IF cpuRead THEN busyTime ELSE 0,
                      rx |-> 0, rxFrom |-> IF rxRead THEN bytes ELSE 0]]
  /\ UNCHANGED <<clock, busyTime, bytes, prev, list>>

(* Sample, on a tick of the stream's clock.  The load of the core is the   *)
(* busy part of what has passed since its last reading; a first reading    *)
(* has no load.  The rates divide by the time since the last sample.       *)
BusySince(s) == IF sampler[s].cpu.known THEN busyTime - sampler[s].cpu.busy ELSE 0

(* Mutant: a reading of the network that fails is kept as zero, as one of  *)
(* the disks is.                                                           *)
SampleZero(s) ==
  /\ sampler[s].on /\ clock > sampler[s].time
  /\ \E cpuRead, rxRead \in BOOLEAN :
       /\ sampler' = [sampler EXCEPT ![s] =
                        [on |-> TRUE, cpu |-> IF cpuRead THEN Reading ELSE sampler[s].cpu,
                         rx |-> IF rxRead THEN bytes ELSE 0, time |-> clock]]
       /\ told' = [told EXCEPT ![s] =
                     [busy |-> told[s].busy + (IF cpuRead THEN BusySince(s) ELSE 0),
                      busyFrom |-> IF cpuRead /\ ~sampler[s].cpu.known THEN busyTime
                                   ELSE told[s].busyFrom,
                      rx |-> told[s].rx + (IF rxRead THEN bytes - sampler[s].rx ELSE 0),
                      rxFrom |-> told[s].rxFrom]]
  /\ UNCHANGED <<clock, busyTime, bytes, prev, list>>

Sample(s) ==
  /\ sampler[s].on /\ clock > sampler[s].time
  /\ \E cpuRead, rxRead \in BOOLEAN :
       /\ sampler' = [sampler EXCEPT ![s] =
                        [on |-> TRUE, cpu |-> IF cpuRead THEN Reading ELSE sampler[s].cpu,
                         rx |-> IF rxRead THEN bytes ELSE sampler[s].rx, time |-> clock]]
       /\ told' = [told EXCEPT ![s] =
                     [busy |-> told[s].busy + (IF cpuRead THEN BusySince(s) ELSE 0),
                      busyFrom |-> IF cpuRead /\ ~sampler[s].cpu.known THEN busyTime
                                   ELSE told[s].busyFrom,
                      rx |-> told[s].rx + (IF rxRead THEN bytes - sampler[s].rx ELSE 0),
                      rxFrom |-> told[s].rxFrom]]
  /\ UNCHANGED <<clock, busyTime, bytes, prev, list>>

(* The client closes the stream, or it breaks; a page connects again.      *)
Disconnect(s) == /\ sampler[s].on
                 /\ sampler' = [sampler EXCEPT ![s] = Off]
                 /\ told' = [told EXCEPT ![s] = NothingTold]
                 /\ UNCHANGED <<clock, busyTime, bytes, prev, list>>

(***************************************************************************)
(* The process list                                                        *)
(***************************************************************************)

(* List notes the time, before it waits for the mutex ...                  *)
BeginList(c) == /\ Serving /\ list[c].step = "idle"
                /\ list' = [list EXCEPT ![c] = [NoList EXCEPT !.step = "waiting", !.now = clock]]
                /\ UNCHANGED <<clock, busyTime, bytes, sampler, told, prev>>

(* Mutant: the times are read before the mutex is locked.                  *)
ReadUnlocked(c) ==
  /\ list[c].step = "waiting"
  /\ \E ok \in BOOLEAN :
       list' = [list EXCEPT ![c].step = "reading", ![c].read = ok,
                            ![c].total = IF ok THEN busyTime ELSE 0]
  /\ UNCHANGED <<clock, busyTime, bytes, sampler, told, prev>>

(* ... reads the times of the process with the mutex, zero if it cannot,   *)
ReadList(c) ==
  /\ list[c].step = "waiting" /\ \A d \in Lists : list[d].step # "reading"
  /\ \E ok \in BOOLEAN :
       list' = [list EXCEPT ![c].step = "reading", ![c].read = ok,
                            ![c].total = IF ok THEN busyTime ELSE 0]
  /\ UNCHANGED <<clock, busyTime, bytes, sampler, told, prev>>

(* ... and reports what is more than in the list before, if time has       *)
(* passed since that one; its own reading is kept for the next one.        *)
EndList(c) ==
  /\ list[c].step = "reading"
  /\ LET total == list[c].total
         used == IF prev.known /\ list[c].now > prev.at /\ total > prev.total
                   THEN total - prev.total ELSE 0
     IN prev' = [known |-> TRUE, sure |-> list[c].read, total |-> total, at |-> list[c].now,
                 counted |-> prev.counted + (IF prev.sure /\ list[c].read THEN used ELSE 0)]
  /\ list' = [list EXCEPT ![c] = NoList]
  /\ UNCHANGED <<clock, busyTime, bytes, sampler, told>>

StreamStep == \E s \in Streams : Connect(s) \/ Sample(s) \/ Disconnect(s)
ListStep == \E c \in Lists : BeginList(c) \/ ReadList(c) \/ EndList(c)

ForgetSamples == /\ sampler' = [s \in Streams |-> Off]
                 /\ told' = [s \in Streams |-> NothingTold]
                 /\ prev' = NoSnap
                 /\ list' = [c \in Lists |-> NoList]
                 /\ UNCHANGED <<clock, busyTime, bytes>>

(***************************************************************************)
(* Properties                                                              *)
(***************************************************************************)

(* Readings are of the past, and without one there is no load.             *)
ReadingsArePast ==
  \A s \in Streams :
    /\ sampler[s].rx \leq bytes /\ sampler[s].cpu.busy \leq busyTime
    /\ sampler[s].on /\ ~sampler[s].cpu.known => told[s].busy = 0

(* At most one call reads, with the mutex, and so its reading comes after  *)
(* the one that it is compared with.                                       *)
ListsTakeTurns ==
  /\ prev.total \leq busyTime /\ prev.counted \leq busyTime
  /\ \A c \in Lists : list[c].step = "reading" =>
       /\ \A d \in Lists : list[d].step = "reading" => d = c
       /\ list[c].total \leq busyTime
       /\ list[c].read => prev.total \leq list[c].total /\ prev.counted \leq list[c].total

(* "so multiple concurrent streams (tabs, reconnects) never interfere.     *)
(* Network rates are bytes/sec since the previous Sample" (system.go:183): *)
(* what the samples of a stream report adds up, without gap or overlap, to *)
(* what the machine did from the stream's first reading to its last, which *)
(* other streams, reconnections and readings that fail do not change.      *)
(* "subsequent calls report usage over the interval between calls"         *)
(* (processes.go:68): List calls that overlap never report a tick of the   *)
(* process twice, as what they have reported is no more than it has used   *)
(* by the last reading.                                                    *)
SamplesAddUp ==
  /\ \A s \in Streams : sampler[s].on =>
       /\ sampler[s].cpu.known => told[s].busy = sampler[s].cpu.busy - told[s].busyFrom
       /\ told[s].rx = sampler[s].rx - told[s].rxFrom
  /\ prev.sure => prev.counted \leq prev.total
=============================================================================
