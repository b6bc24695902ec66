------------------------- MODULE TerminalTabProofs -------------------------
(* Proofs about TerminalHub behind the tabs of TerminalTab: the inductive  *)
(* invariant HubInv and the properties it implies.                         *)
EXTENDS TerminalTab, SequenceTheorems, TLAPS

USE DEF registry

(***************************************************************************)
(* Series of chunks                                                        *)
(***************************************************************************)

LEMMA ChunksAreNumbers == /\ \A x \in Chunks : x \in Nat
                          /\ \A n \in Nat : n > 0 /\ n <= MaxChunks => n \in Chunks
BY TerminalAssumption DEF Chunks

LEMMA UpToAppend ==
  ASSUME NEW st \in Seq(Chunks), NEW n \in Nat, n + 1 \in Chunks, UpTo(st, n)
  PROVE  UpTo(Append(st, n + 1), n + 1)
BY AppendProperties DEF UpTo

LEMMA UpToTail ==
  ASSUME NEW st \in Seq(Chunks), NEW n \in Nat, Len(st) > 1, UpTo(st, n)
  PROVE  UpTo(Tail(st), n)
<1>1. st # <<>> /\ Len(st) \in Nat
  OBVIOUS
<1>2. /\ Tail(st) \in Seq(Chunks) /\ Len(Tail(st)) = Len(st) - 1
      /\ \A i \in 1..Len(Tail(st)) : Tail(st)[i] = st[i + 1]
  BY <1>1, HeadTailProperties
<1>3. ASSUME NEW i \in 1..Len(Tail(st)) PROVE Tail(st)[i] = n - Len(Tail(st)) + i
  BY <1>1, <1>2, i + 1 \in 1..Len(st), st[i + 1] = n - Len(st) + (i + 1) DEF UpTo
<1>4. Tail(st) # <<>>
  <2>1. Len(Tail(st)) > 0
    BY <1>1, <1>2
  <2>2. \A t : Len(t) > 0 => t # <<>>
    OBVIOUS
  <2> QED
    BY <2>1, <2>2, Zenon
<1> QED
  BY <1>3, <1>4 DEF UpTo

LEMMA UpToIncreasing ==
  ASSUME NEW st \in Seq(Chunks), NEW n \in Nat, UpTo(st, n)
  PROVE  Increasing(st) /\ \A i \in 1..Len(st) : st[i] <= n
BY DEF UpTo, Increasing

LEMMA IncreasingAppend ==
  ASSUME NEW st \in Seq(Chunks), NEW x \in Chunks, Increasing(st),
         \A i \in 1..Len(st) : st[i] < x
  PROVE  Increasing(Append(st, x)) /\ \A i \in 1..Len(Append(st, x)) : Append(st, x)[i] <= x
<1>1. /\ Append(st, x) \in Seq(Chunks) /\ Len(Append(st, x)) = Len(st) + 1
      /\ \A i \in 1..Len(st) : Append(st, x)[i] = st[i]
      /\ Append(st, x)[Len(st) + 1] = x
      /\ Len(st) \in Nat
  BY AppendProperties
<1>2. \A i \in 1..Len(st) : st[i] \in Nat
  BY ChunksAreNumbers, \A i \in 1..Len(st) : st[i] \in Chunks
<1>3. \A i \in 1..Len(Append(st, x)) : Append(st, x)[i] <= x
  BY <1>1, <1>2, ChunksAreNumbers, x \in Nat
<1>4. ASSUME NEW i \in 1..Len(Append(st, x)), NEW j \in 1..(i - 1)
      PROVE  Append(st, x)[j] < Append(st, x)[i]
  <2>1. j \in 1..Len(st) /\ Append(st, x)[j] = st[j]
    BY <1>1
  <2>2. CASE i \in 1..Len(st)
    BY <1>1, <2>1, <2>2 DEF Increasing
  <2>3. CASE i = Len(st) + 1
    BY <1>1, <2>1, <2>3
  <2> QED
    BY <1>1, <2>2, <2>3
<1> QED
  BY <1>3, <1>4 DEF Increasing

LEMMA MoveReplay ==
  ASSUME NEW a \in Seq(Chunks), NEW b \in Seq(Chunks), NEW q \in Seq(Chunks)
  PROVE  (a \o b) \o <<>> \o q = a \o b \o q
BY ConcatProperties, ConcatEmptySeq

LEMMA MoveChunk ==
  ASSUME NEW a \in Seq(Chunks), NEW q \in Seq(Chunks), q # <<>>
  PROVE  /\ Append(a, Head(q)) \in Seq(Chunks) /\ Tail(q) \in Seq(Chunks)
         /\ Append(a, Head(q)) \o <<>> \o Tail(q) = a \o <<>> \o q
<1>1. Head(q) \in Chunks /\ Tail(q) \in Seq(Chunks)
  BY HeadTailProperties
<1>2. Append(a, Head(q)) = a \o <<Head(q)>> /\ Append(a, Head(q)) \in Seq(Chunks)
  BY <1>1, AppendIsConcat, AppendProperties
<1>3. q = <<Head(q)>> \o Tail(q) /\ <<Head(q)>> \in Seq(Chunks)
  BY <1>1
<1>4. (a \o <<Head(q)>>) \o Tail(q) = a \o (<<Head(q)>> \o Tail(q))
  BY <1>1, <1>3, ConcatAssociative
<1> QED
  BY <1>1, <1>2, <1>3, <1>4, ConcatEmptySeq

LEMMA AppendToStream ==
  ASSUME NEW a \in Seq(Chunks), NEW b \in Seq(Chunks), NEW q \in Seq(Chunks), NEW x \in Chunks
  PROVE  a \o b \o Append(q, x) = Append(a \o b \o q, x)
<1>1. a \o b \in Seq(Chunks) /\ <<x>> \in Seq(Chunks)
  BY ConcatProperties
<1>2. (a \o b) \o (q \o <<x>>) = ((a \o b) \o q) \o <<x>>
  BY <1>1, ConcatAssociative
<1> QED
  BY <1>1, <1>2, AppendIsConcat, ConcatProperties

(* What is left of a stream when screen and replay are gone.               *)
LEMMA QueueOfStream ==
  ASSUME NEW a \in Seq(Chunks), NEW b \in Seq(Chunks), NEW q \in Seq(Chunks),
         NEW n \in Nat, Increasing(a \o b \o q)
  PROVE  /\ Increasing(<<>> \o <<>> \o q)
         /\ (\A i \in 1..Len(a \o b \o q) : (a \o b \o q)[i] <= n) =>
              \A i \in 1..Len(<<>> \o <<>> \o q) : (<<>> \o <<>> \o q)[i] <= n
<1> DEFINE h == a \o b
<1>1. h \in Seq(Chunks) /\ Len(h) \in Nat /\ Len(q) \in Nat
  BY ConcatProperties
<1>2. <<>> \o <<>> \o q = q
  BY ConcatEmptySeq, <<>> \in Seq(Chunks), <<>> \o <<>> = <<>>
<1>3. /\ Len(h \o q) = Len(h) + Len(q)
      /\ \A i \in 1..Len(q) : (h \o q)[Len(h) + i] = q[i]
  <2> HIDE DEF h
  <2>1. /\ Len(h \o q) = Len(h) + Len(q)
        /\ \A i \in 1..Len(h) + Len(q) : (h \o q)[i] = IF i <= Len(h) THEN h[i] ELSE q[i - Len(h)]
    BY <1>1, ConcatProperties
  <2>2. ASSUME NEW i \in 1..Len(q) PROVE (h \o q)[Len(h) + i] = q[i]
    BY <1>1, <2>1, Len(h) + i \in 1..Len(h) + Len(q), (Len(h) + i) - Len(h) = i
  <2> QED
    BY <2>1, <2>2
<1> HIDE DEF h
<1>4. ASSUME Increasing(h \o q) PROVE Increasing(q)
  <2> SUFFICES ASSUME NEW i \in 1..Len(q), NEW j \in 1..(i - 1) PROVE q[j] < q[i]
    BY DEF Increasing
  <2>1. Len(h) + i \in 1..Len(h \o q) /\ Len(h) + j \in 1..((Len(h) + i) - 1)
    BY <1>1, <1>3
  <2>2. (h \o q)[Len(h) + j] < (h \o q)[Len(h) + i]
    BY <1>4, <2>1 DEF Increasing
  <2> QED
    BY <1>3, <2>2
<1>5. ASSUME \A i \in 1..Len(h \o q) : (h \o q)[i] <= n, NEW i \in 1..Len(q) PROVE q[i] <= n
  BY <1>1, <1>3, <1>5, Len(h) + i \in 1..Len(h \o q)
<1> QED
  BY <1>2, <1>4, <1>5 DEF h

(***************************************************************************)
(* What a step leaves alone                                                *)
(***************************************************************************)

LEMMA StreamType ==
  ASSUME NEW c \in Conns, conn[c] \in Conn
  PROVE  /\ Stream(c) \in Seq(Chunks) /\ conn[c].screen \in Seq(Chunks)
         /\ conn[c].replay \in Seq(Chunks) /\ conn[c].queue \in Seq(Chunks)
<1>1. conn[c].screen \in Seq(Chunks) /\ conn[c].replay \in Seq(Chunks) /\ conn[c].queue \in Seq(Chunks)
  BY DEF Conn
<1> QED
  BY <1>1, ConcatProperties DEF Stream

(* The end of a process does not concern a connection before the pump has  *)
(* seen it, and who is subscribed only if it was that connection.          *)
SameShell(c) == LET s == conn[c].shell IN
  /\ shell[s].send = c => shell'[s].send = c
  /\ shell'[s].state = "ended" <=> shell[s].state = "ended"

LEMMA ConnStays ==
  ASSUME HubInv, NEW c \in Conns, conn'[c] = conn[c],
         conn[c].pc = "open" => SameShell(c)
  PROVE  Served(c)' /\ Told(c)' /\ Increasing(Stream(c))'
<1> USE DEF HubInv
<1>1. Served(c)'
  BY DEF Served, SameShell
<1>2. Told(c)'
  BY DEF Told, SameShell
<1>3. Increasing(Stream(c))'
  <2>1. Stream(c)' = Stream(c)
    BY DEF Stream
  <2> QED
    BY <2>1 DEF Increasing
<1> QED
  BY <1>1, <1>2, <1>3

LEMMA ShellStays ==
  ASSUME HubInv, NEW s \in Shells,
         shell'[s].send = shell[s].send, shell'[s].written = shell[s].written,
         shell'[s].ring = shell[s].ring,
         \/ shell'[s].state = shell[s].state
         \/ shell[s].state = "running" /\ shell'[s].state = "exited",
         shell[s].send # Nil => conn'[shell[s].send] = conn[shell[s].send]
  PROVE  SubscriberIsOpen(s)' /\ NothingInvented(s)' /\ Complete(s)'
<1> USE DEF HubInv
<1>1. SubscriberIsOpen(s)'
  BY DEF SubscriberIsOpen
<1>2. shell[s].send # Nil => Stream(shell[s].send)' = Stream(shell[s].send)
  BY DEF Stream
<1>3. NothingInvented(s)'
  BY <1>2 DEF NothingInvented, Stream
<1>4. Complete(s)'
  BY <1>2 DEF Complete, Stream
<1> QED
  BY <1>1, <1>3, <1>4

(* A connection that is not open has shown nothing and has no writer.      *)
Blank(r) == /\ r.screen = <<>> /\ r.replay = <<>> /\ r.queue = <<>>
            /\ r.pc # "open" /\ r.writer = "none" /\ (r.pc = "none" \/ ~r.told)

LEMMA BlankIsServed ==
  ASSUME NEW c \in Conns, Blank(conn[c])
  PROVE  Served(c) /\ Told(c) /\ Increasing(Stream(c))
<1>1. Stream(c) = <<>>
  BY DEF Blank, Stream
<1> QED
  BY <1>1 DEF Blank, Served, Told, Increasing

LEMMA ConnTypes ==
  ASSUME HubTypeOK, NEW c \in Conns
  PROVE  conn[c] \in Conn /\ NoConn \in Conn /\ NoShell \in Shell /\ NewShell \in Shell
         /\ Nil \notin Conns /\ Nil \notin Shells /\ Nil \notin Tickets
<1>1. conn[c] \in Conn /\ Nil \notin Conns /\ Nil \notin Shells /\ Nil \notin Tickets
  BY TerminalAssumption DEF HubTypeOK
<1>2. NoConn \in Conn
  BY DEF NoConn, Conn
<1>3. NoShell \in Shell
  BY TerminalAssumption DEF NoShell, Shell
<1>4. NewShell = [state |-> "running", written |-> 0, ring |-> <<>>, send |-> Nil, newest |-> Nil]
  BY DEF NewShell, NoShell
<1>5. NewShell \in Shell
  BY <1>4, TerminalAssumption DEF Shell
<1> QED
  BY <1>1, <1>2, <1>3, <1>5

LEMMA OverIsBlank ==
  ASSUME HubTypeOK, NEW c \in Conns
  PROVE  /\ Blank(Over(c)) /\ Over(c) \in Conn /\ Over(c).pc = "none" /\ Over(c).queue = <<>>
         /\ ~Over(c).up
<1>1. conn[c].told \in BOOLEAN
  BY DEF HubTypeOK, Conn
<1>2. Blank(Over(c)) /\ Over(c).pc = "none" /\ Over(c).queue = <<>> /\ ~Over(c).up
  BY DEF Over, NoConn, Blank
<1>3. NoConn \in Conn
  BY ConnTypes
<1>4. Over(c) \in Conn
  BY <1>1, <1>3 DEF Over, Conn
<1> QED
  BY <1>2, <1>4

LEMMA InitHub == HubInit => HubInv
<1> SUFFICES ASSUME HubInit PROVE HubInv
  OBVIOUS
<1> USE DEF HubInit
<1>1. HubTypeOK
  <2>1. NoConn \in Conn /\ NoShell \in Shell /\ Len(<<>>) = 0
    BY TerminalAssumption DEF NoConn, Conn, NoShell, Shell
  <2>2. \A c \in Conns : conn[c].queue = <<>>
    BY DEF NoConn
  <2>3. \A s \in Shells : shell[s].ring = <<>>
    BY DEF NoShell
  <2> QED
    BY <2>1, <2>2, <2>3, TerminalAssumption DEF HubTypeOK
<1>2. UsedShellsAreStarted /\ NoOrphanShell /\ NewestIsServed
  BY DEF UsedShellsAreStarted, NoOrphanShell, NewestIsServed, NoShell, NoConn
<1>3. ASSUME NEW s \in Shells PROVE SubscriberIsOpen(s) /\ NothingInvented(s) /\ Complete(s)
  BY DEF SubscriberIsOpen, NothingInvented, Complete, NoShell, UpTo
<1>4. ASSUME NEW c \in Conns PROVE Served(c) /\ Told(c) /\ Increasing(Stream(c))
  BY BlankIsServed DEF Blank, NoConn
<1> QED
  BY <1>1, <1>2, <1>3, <1>4 DEF HubInv

(***************************************************************************)
(* Steps that leave the streams alone                                      *)
(***************************************************************************)

(* A shell is started, or its process is gone; nothing else.               *)
SameOutput(s) ==
  /\ shell'[s].send = shell[s].send /\ shell'[s].written = shell[s].written
  /\ shell'[s].ring = shell[s].ring /\ shell'[s].newest = shell[s].newest
  /\ \/ shell'[s].state = shell[s].state
     \/ shell[s].state = "running" /\ shell'[s].state = "exited"
     \/ shell[s].state = "none" /\ shell'[s].state = "running"

LEMMA QuietStep ==
  ASSUME HubInv, HubTypeOK', UsedShellsAreStarted', NoOrphanShell',
         \A s \in Shells : SameOutput(s),
         \A c \in Conns : conn'[c] = conn[c] \/ (conn[c].pc # "open" /\ Blank(conn'[c]))
  PROVE  HubInv'
<1>1. NewestIsServed'
  BY DEF HubInv, NewestIsServed, SameOutput
<1>2. ASSUME NEW s \in Shells PROVE SubscriberIsOpen(s)' /\ NothingInvented(s)' /\ Complete(s)'
  <2>1. shell[s].send # Nil => shell[s].send \in Conns
    BY DEF HubInv, HubTypeOK, Shell
  <2>2. shell[s].send # Nil => conn'[shell[s].send] = conn[shell[s].send]
                               /\ shell[s].state \in {"running", "exited"}
    BY <2>1 DEF HubInv, SubscriberIsOpen
  <2>3. SubscriberIsOpen(s)'
    BY <2>2 DEF HubInv, SubscriberIsOpen, SameOutput
  <2>4. shell[s].send # Nil => Stream(shell[s].send)' = Stream(shell[s].send)
    BY <2>2 DEF Stream, SameOutput
  <2>5. NothingInvented(s)'
    BY <2>4, <2>2 DEF HubInv, NothingInvented, Stream, SameOutput
  <2>6. Complete(s)'
    BY <2>4, <2>2 DEF HubInv, Complete, Stream, SameOutput
  <2> QED
    BY <2>3, <2>5, <2>6
<1>3. ASSUME NEW c \in Conns PROVE Served(c)' /\ Told(c)' /\ Increasing(Stream(c))'
  <2>1. CASE conn'[c] = conn[c]
    <3>1. conn[c].pc = "open" => conn[c].shell \in Shells /\ shell[conn[c].shell].state # "none"
      BY DEF HubInv, UsedShellsAreStarted
    <3>2. conn[c].pc = "open" => SameShell(c)
      BY <3>1 DEF SameShell, SameOutput
    <3> QED
      BY <2>1, <3>2, ConnStays
  <2>2. CASE Blank(conn'[c])
    <3>1. (Stream(c))' = <<>>
      BY <2>2 DEF Blank, Stream
    <3> QED
      BY <2>2, <3>1 DEF Blank, Served, Told, Increasing
  <2> QED
    BY <2>1, <2>2
<1> QED
  BY <1>1, <1>2, <1>3 DEF HubInv

LEMMA KilledIsQuiet ==
  ASSUME HubTypeOK, NEW s \in Shells, NEW old \in Shells
  PROVE  /\ Killed(old) \in [Shells -> Shell]
         /\ Killed(old)[s].send = shell[s].send /\ Killed(old)[s].written = shell[s].written
         /\ Killed(old)[s].ring = shell[s].ring /\ Killed(old)[s].newest = shell[s].newest
         /\ \/ Killed(old)[s].state = shell[s].state
            \/ shell[s].state = "running" /\ Killed(old)[s].state = "exited"
         /\ Killed(old)[s].state = "running" => s # old /\ shell[s].state = "running"
<1>1. shell \in [Shells -> Shell]
  BY DEF HubTypeOK
<1>2. \A x \in Shell : [x EXCEPT !.state = "exited"] \in Shell /\ [x EXCEPT !.state = x.state] = x
  BY DEF Shell
<1>3. Killed(old) = [shell EXCEPT ![old] =
                      [shell[old] EXCEPT !.state = IF @ = "running" THEN "exited" ELSE @]]
  BY <1>1 DEF Killed
<1>4. [shell[old] EXCEPT !.state = IF @ = "running" THEN "exited" ELSE @]
        = IF shell[old].state = "running" THEN [shell[old] EXCEPT !.state = "exited"] ELSE shell[old]
  BY <1>1, <1>2
<1>5. /\ Killed(old) \in [Shells -> Shell]
      /\ Killed(old)[s] = IF s = old /\ shell[s].state = "running"
                         THEN [shell[s] EXCEPT !.state = "exited"] ELSE shell[s]
  BY <1>1, <1>2, <1>3, <1>4
<1>6. shell[s] \in Shell
  BY <1>1
<1>7. CASE s = old /\ shell[s].state = "running"
  <2>1. Killed(old)[s] = [shell[s] EXCEPT !.state = "exited"]
    BY <1>5, <1>7
  <2> QED
    BY <1>5, <1>6, <1>7, <2>1 DEF Shell
<1>8. CASE ~(s = old /\ shell[s].state = "running")
  <2>1. Killed(old)[s] = shell[s]
    BY <1>5, <1>8
  <2> QED
    BY <1>5, <1>8, <2>1
<1> QED
  BY <1>7, <1>8

(* The shell that the registry held does not run any more.                 *)
LEMMA LiveKilledIsQuiet ==
  ASSUME HubInv, NEW s \in Shells
  PROVE  /\ LiveKilled \in [Shells -> Shell]
         /\ LiveKilled[s].send = shell[s].send /\ LiveKilled[s].written = shell[s].written
         /\ LiveKilled[s].ring = shell[s].ring /\ LiveKilled[s].newest = shell[s].newest
         /\ \/ LiveKilled[s].state = shell[s].state
            \/ shell[s].state = "running" /\ LiveKilled[s].state = "exited"
         /\ LiveKilled[s].state = "running" => s \in closing
<1>1. shell \in [Shells -> Shell] /\ HubTypeOK /\ NoOrphanShell /\ live \in Shells \cup {Nil}
  BY DEF HubInv, HubTypeOK
<1>2. CASE live = Nil
  BY <1>1, <1>2, TerminalAssumption DEF LiveKilled, NoOrphanShell
<1>3. CASE live \in Shells
  <2>1. LiveKilled = Killed(live)
    BY <1>3, TerminalAssumption DEF LiveKilled
  <2> QED
    BY <1>1, <1>3, <2>1, KilledIsQuiet DEF NoOrphanShell
<1> QED
  BY <1>1, <1>2, <1>3

(* The registry changes, no shell and no connection does.                  *)
LEMMA RegistryStep ==
  ASSUME HubInv, UNCHANGED <<shell, conn>>,
         tickets' \subseteq issued', issued' \subseteq Tickets,
         live' = live \/ live' = Nil, closing' \subseteq Shells, NoOrphanShell'
  PROVE  HubInv'
<1>1. HubTypeOK'
  BY DEF HubInv, HubTypeOK
<1>2. UsedShellsAreStarted'
  BY DEF HubInv, UsedShellsAreStarted
<1>3. \A s \in Shells : SameOutput(s)
  BY DEF SameOutput
<1>4. \A c \in Conns : conn'[c] = conn[c]
  OBVIOUS
<1> QED
  BY <1>1, <1>2, <1>3, <1>4, QuietStep

LEMMA OpenSessionStep == ASSUME HubInv, NEW k \in Tickets, OpenSession(k) PROVE HubInv'
<1>1. tickets' \subseteq issued' /\ issued' \subseteq Tickets /\ closing' \subseteq Shells
  BY DEF OpenSession, HubInv, HubTypeOK
<1>2. NoOrphanShell'
  BY DEF OpenSession, HubInv, NoOrphanShell
<1> QED
  BY <1>1, <1>2, RegistryStep DEF OpenSession

LEMMA ExpireStep == ASSUME HubInv, NEW k \in Tickets, Expire(k) PROVE HubInv'
<1>1. tickets' \subseteq issued' /\ issued' \subseteq Tickets /\ closing' \subseteq Shells
  BY DEF Expire, HubInv, HubTypeOK
<1>2. NoOrphanShell'
  BY DEF Expire, HubInv, NoOrphanShell
<1> QED
  BY <1>1, <1>2, RegistryStep DEF Expire

LEMMA LogoutStep == ASSUME HubInv, Logout PROVE HubInv'
<1>1. tickets' \subseteq issued' /\ issued' \subseteq Tickets /\ closing' \subseteq Shells
  BY DEF Logout, HubInv, HubTypeOK
<1>2. NoOrphanShell'
  BY DEF Logout, HubInv, NoOrphanShell
<1> QED
  BY <1>1, <1>2, RegistryStep DEF Logout

(* The reaper takes its own shell from the registry, and that one ended.   *)
LEMMA ReapStep == ASSUME HubInv, NEW s \in Shells, Reap(s) PROVE HubInv'
<1>1. tickets' \subseteq issued' /\ issued' \subseteq Tickets /\ closing' \subseteq Shells
  BY DEF Reap, HubInv, HubTypeOK
<1>2. NoOrphanShell'
  BY DEF Reap, HubInv, NoOrphanShell
<1> QED
  BY <1>1, <1>2, RegistryStep DEF Reap

(* A process is gone, by itself or killed: the pump has yet to see it.     *)
LEMMA KillStep ==
  ASSUME HubInv, NEW old \in Shells, shell' = Killed(old), UNCHANGED <<tickets, issued, live, conn>>,
         closing' = closing \/ closing' = closing \ {old}
  PROVE  HubInv'
<1>1. HubTypeOK
  BY DEF HubInv
<1>2. \A s \in Shells : SameOutput(s)
  BY <1>1, KilledIsQuiet DEF SameOutput
<1>3. HubTypeOK'
  <2>1. shell' \in [Shells -> Shell]
    BY <1>1, KilledIsQuiet
  <2>2. \A s \in Shells : shell'[s].ring = shell[s].ring
    BY <1>2 DEF SameOutput
  <2> QED
    BY <1>1, <2>1, <2>2 DEF HubTypeOK
<1>4. UsedShellsAreStarted'
  <2>1. live \in Shells \cup {Nil} /\ \A s \in Shells : shell[s].state # "none" => shell'[s].state # "none"
    BY <1>1, <1>2 DEF SameOutput, HubTypeOK
  <2> QED
    BY <2>1 DEF HubInv, UsedShellsAreStarted
<1>5. NoOrphanShell'
  <2>1. \A s \in Shells : shell'[s].state = "running" => s # old /\ shell[s].state = "running"
    BY <1>1, KilledIsQuiet
  <2> QED
    BY <2>1 DEF HubInv, NoOrphanShell
<1>6. \A c \in Conns : conn'[c] = conn[c]
  OBVIOUS
<1> QED
  BY <1>2, <1>3, <1>4, <1>5, <1>6, QuietStep

LEMMA CloseShellStep == ASSUME HubInv, NEW s \in Shells, CloseShell(s) PROVE HubInv'
BY KillStep DEF CloseShell

LEMMA ExitStep == ASSUME HubInv, NEW s \in Shells, Exit(s) PROVE HubInv'
BY KillStep DEF Exit

(* A connection that is not open takes a step of its handler, or begins.   *)
LEMMA HandlerStep ==
  ASSUME HubInv, NEW c \in Conns, NEW r \in Conn, conn[c].pc # "open",
         conn' = [conn EXCEPT ![c] = r], Blank(r),
         r.pc = "attach" => r.shell \in Shells /\ shell'[r.shell].state # "none",
         \A s \in Shells : SameOutput(s),
         shell' \in [Shells -> Shell],
         live' \in Shells \cup {Nil}, live' # Nil => shell'[live'].state # "none",
         tickets' \subseteq issued', UNCHANGED <<issued, closing>>, NoOrphanShell'
  PROVE  HubInv'
<1>1. conn \in [Conns -> Conn] /\ Len(<<>>) = 0 /\ QueueCap \in Nat /\ RingCap \in Nat
  BY TerminalAssumption DEF HubInv, HubTypeOK
<1>2. conn' \in [Conns -> Conn] /\ \A d \in Conns : conn'[d] = IF d = c THEN r ELSE conn[d]
  BY <1>1
<1>3. HubTypeOK'
  <2>1. \A s \in Shells : Len(shell'[s].ring) \leq RingCap
    BY DEF HubInv, HubTypeOK, SameOutput
  <2>2. \A d \in Conns : Len(conn'[d].queue) \leq QueueCap
    BY <1>1, <1>2 DEF HubInv, HubTypeOK, Blank
  <2>3. issued' \subseteq Tickets /\ closing' \subseteq Shells
    BY DEF HubInv, HubTypeOK
  <2> QED
    BY <1>2, <2>1, <2>2, <2>3 DEF HubTypeOK
<1>4. UsedShellsAreStarted'
  <2>1. \A s \in Shells : shell[s].state # "none" => shell'[s].state # "none"
    BY DEF SameOutput
  <2>2. ASSUME NEW d \in Conns, conn'[d].pc \in {"attach", "open"}
        PROVE  conn'[d].shell \in Shells /\ shell'[conn'[d].shell].state # "none"
    BY <1>2, <2>1, <2>2 DEF HubInv, UsedShellsAreStarted, Blank
  <2> QED
    BY <2>2 DEF UsedShellsAreStarted
<1>5. \A d \in Conns : conn'[d] = conn[d] \/ (conn[d].pc # "open" /\ Blank(conn'[d]))
  BY <1>2
<1> QED
  BY <1>3, <1>4, <1>5, QuietStep

(***************************************************************************)
(* The handler, before it is attached                                      *)
(***************************************************************************)

(* What moves to another place of the handler stays blank.                 *)
LEMMA MovedIsBlank ==
  ASSUME HubInv, NEW c \in Conns, conn[c].pc \notin {"none", "open"}, NEW s \in Shells \cup {Nil}
  PROVE  /\ Blank(conn[c]) /\ conn[c] \in Conn
         /\ LET r == [conn[c] EXCEPT !.pc = "switch"] IN
              r \in Conn /\ Blank(r) /\ r.pc = "switch"
         /\ LET r == [conn[c] EXCEPT !.pc = "attach", !.shell = s] IN
              r \in Conn /\ Blank(r) /\ r.pc = "attach" /\ r.shell = s
<1>1. conn[c] \in Conn
  BY DEF HubInv, HubTypeOK
<1>2. Blank(conn[c])
  BY DEF HubInv, Served, Blank
<1> HIDE DEF HubInv
<1>3. [conn[c] EXCEPT !.pc = "switch"] \in Conn
  BY <1>1 DEF Conn
<1>4. [conn[c] EXCEPT !.pc = "attach", !.shell = s] \in Conn
  BY <1>1 DEF Conn
<1> QED
  BY <1>1, <1>2, <1>3, <1>4 DEF Blank, Conn

LEMMA SameShells ==
  ASSUME HubInv, UNCHANGED <<live, shell, closing>>
  PROVE  /\ \A s \in Shells : SameOutput(s)
         /\ shell' \in [Shells -> Shell] /\ live' \in Shells \cup {Nil}
         /\ live' # Nil => shell'[live'].state # "none"
         /\ NoOrphanShell'
<1>1. shell \in [Shells -> Shell] /\ live \in Shells \cup {Nil}
  BY DEF HubInv, HubTypeOK
<1> QED
  BY <1>1 DEF SameOutput, HubInv, UsedShellsAreStarted, NoOrphanShell

LEMMA RedeemStep == ASSUME HubInv, NEW c \in Conns, Redeem(c) PROVE HubInv'
<1> DEFINE r == IF conn[c].ticket \in tickets THEN [conn[c] EXCEPT !.pc = "switch"] ELSE Over(c)
<1>1. HubTypeOK /\ conn \in [Conns -> Conn]
  BY DEF HubInv, HubTypeOK
<1>2. conn[c].pc \notin {"none", "open"} /\ conn' = [conn EXCEPT ![c] = r]
  BY <1>1 DEF Redeem
<1>3. r \in Conn /\ Blank(r) /\ r.pc # "attach"
  BY <1>1, <1>2, MovedIsBlank, OverIsBlank
<1>4. tickets' \subseteq issued' /\ UNCHANGED <<issued, closing, live, shell>>
  BY <1>1 DEF Redeem, HubTypeOK
<1> HIDE DEF r
<1> QED
  BY <1>2, <1>3, <1>4, SameShells, HandlerStep

LEMMA UpgradeFailsStep == ASSUME HubInv, NEW c \in Conns, UpgradeFails(c) PROVE HubInv'
<1> DEFINE r == Over(c)
<1>1. HubTypeOK /\ conn \in [Conns -> Conn]
  BY DEF HubInv, HubTypeOK
<1>2. conn[c].pc \notin {"none", "open"} /\ conn' = [conn EXCEPT ![c] = r]
  BY <1>1 DEF UpgradeFails
<1>3. r \in Conn /\ Blank(r) /\ r.pc # "attach"
  BY <1>1, OverIsBlank
<1>4. tickets' \subseteq issued' /\ UNCHANGED <<issued, closing, live, shell>>
  BY <1>1 DEF UpgradeFails, HubTypeOK
<1> HIDE DEF r
<1> QED
  BY <1>2, <1>3, <1>4, SameShells, HandlerStep

LEMMA ResumeStep == ASSUME HubInv, NEW c \in Conns, Resume(c) PROVE HubInv'
<1> DEFINE r == [conn[c] EXCEPT !.pc = "attach", !.shell = live]
<1>1. HubTypeOK /\ conn \in [Conns -> Conn] /\ live \in Shells /\ shell[live].state # "none"
  BY DEF HubInv, HubTypeOK, UsedShellsAreStarted, Resume, Resumable
<1>2. conn[c].pc \notin {"none", "open"} /\ conn' = [conn EXCEPT ![c] = r]
  BY <1>1 DEF Resume
<1>3. r \in Conn /\ Blank(r) /\ r.shell = live
  BY <1>1, <1>2, MovedIsBlank
<1>4. tickets' \subseteq issued' /\ UNCHANGED <<issued, closing, live, shell>>
  BY <1>1 DEF Resume, HubTypeOK
<1> HIDE DEF r
<1> QED
  BY <1>1, <1>2, <1>3, <1>4, SameShells, HandlerStep

LEMMA NothingToResumeStep == ASSUME HubInv, NEW c \in Conns, NothingToResume(c) PROVE HubInv'
<1> DEFINE r == [Over(c) EXCEPT !.told = conn[c].up]
<1>1. HubTypeOK /\ conn \in [Conns -> Conn]
  BY DEF HubInv, HubTypeOK
<1>2. conn[c].pc # "open" /\ conn' = [conn EXCEPT ![c] = r]
  BY <1>1 DEF NothingToResume
<1>3. r \in Conn /\ Blank(r) /\ r.pc # "attach"
  <2>1. conn[c].up \in BOOLEAN /\ Over(c) \in Conn /\ Blank(Over(c)) /\ Over(c).pc = "none"
    BY <1>1, OverIsBlank DEF Conn
  <2> HIDE DEF HubInv
  <2>2. r \in Conn
    BY <2>1 DEF Conn
  <2> QED
    BY <2>1, <2>2 DEF Blank, Conn
<1>4. tickets' \subseteq issued' /\ UNCHANGED <<issued, closing, live, shell>>
  BY <1>1 DEF NothingToResume, HubTypeOK
<1> HIDE DEF r
<1> QED
  BY <1>2, <1>3, <1>4, SameShells, HandlerStep

LEMMA RequestStep ==
  ASSUME HubInv, NEW c \in Conns, NEW k \in Tickets \cup {Nil}, conn[c].pc = "none",
         Request(c, k), UNCHANGED <<registry, shell>>
  PROVE  HubInv'
<1> DEFINE r == [NoConn EXCEPT !.pc = IF k = Nil THEN "switch" ELSE "redeem", !.ticket = k, !.up = TRUE]
<1>1. HubTypeOK /\ conn \in [Conns -> Conn]
  BY DEF HubInv, HubTypeOK
<1>2. conn[c].pc # "open" /\ conn' = [conn EXCEPT ![c] = r]
  BY DEF Request
<1>3. r \in Conn /\ Blank(r) /\ r.pc # "attach"
  <2>1. NoConn \in Conn /\ Blank(NoConn)
    BY <1>1, ConnTypes DEF Blank, NoConn
  <2>2. r \in Conn
    BY <2>1 DEF Conn
  <2> QED
    BY <2>1, <2>2 DEF Blank, Conn, NoConn
<1>4. tickets' \subseteq issued' /\ UNCHANGED <<issued, closing, live, shell>>
  BY <1>1 DEF HubTypeOK
<1> HIDE DEF r
<1> QED
  BY <1>2, <1>3, <1>4, SameShells, HandlerStep

LEMMA StartFailsStep == ASSUME HubInv, NEW c \in Conns, StartFails(c) PROVE HubInv'
<1> DEFINE r == Over(c)
<1>1. HubTypeOK /\ conn \in [Conns -> Conn]
  BY DEF HubInv, HubTypeOK
<1>2. conn[c].pc # "open" /\ conn' = [conn EXCEPT ![c] = r]
  BY <1>1 DEF StartFails
<1>3. r \in Conn /\ Blank(r) /\ r.pc # "attach"
  BY <1>1, OverIsBlank
<1>4. tickets' \subseteq issued' /\ UNCHANGED <<issued, closing, live>> /\ shell' = LiveKilled
  BY <1>1 DEF StartFails, HubTypeOK
<1>5. \A s \in Shells : SameOutput(s)
  BY <1>4, LiveKilledIsQuiet DEF SameOutput
<1>6. shell' \in [Shells -> Shell] /\ live' \in Shells \cup {Nil}
  <2>1. \A s \in Shells : LiveKilled \in [Shells -> Shell]
    BY LiveKilledIsQuiet
  <2>2. shell \in [Shells -> Shell] /\ live \in Shells \cup {Nil}
    BY <1>1 DEF HubTypeOK
  <2>3. CASE live = Nil
    BY <1>4, <2>2, <2>3 DEF LiveKilled
  <2>4. CASE live \in Shells
    BY <1>4, <2>1, <2>4
  <2> QED
    BY <1>4, <2>2, <2>3, <2>4
<1>7. live' # Nil => shell'[live'].state # "none"
  BY <1>4, <1>5, <1>6 DEF SameOutput, HubInv, UsedShellsAreStarted
<1>8. NoOrphanShell'
  BY <1>4, LiveKilledIsQuiet DEF NoOrphanShell
<1> HIDE DEF r
<1> QED
  BY <1>2, <1>3, <1>4, <1>5, <1>6, <1>7, <1>8, HandlerStep

LEMMA StartShellStep == ASSUME HubInv, NEW c \in Conns, StartShell(c) PROVE HubInv'
<1>1. HubTypeOK /\ conn \in [Conns -> Conn] /\ conn[c].pc \notin {"none", "open"}
  BY DEF HubInv, HubTypeOK, StartShell
<1>2. PICK s \in Shells : s = FreshShell /\ shell' = [LiveKilled EXCEPT ![s] = NewShell]
                         /\ live' = s
                         /\ conn' = [conn EXCEPT ![c].pc = "attach", ![c].shell = s]
  BY DEF StartShell
<1>3. shell[s] = NoShell
  BY <1>2 DEF FreshShell, StartShell, CanStart
<1> DEFINE r == [conn[c] EXCEPT !.pc = "attach", !.shell = s]
<1>4. conn' = [conn EXCEPT ![c] = r]
  BY <1>1, <1>2
<1>5. r \in Conn /\ Blank(r) /\ r.shell = s
  BY <1>1, MovedIsBlank
<1>6. LiveKilled \in [Shells -> Shell] /\ NewShell \in Shell
  BY <1>1, LiveKilledIsQuiet, ConnTypes
<1>7. shell' \in [Shells -> Shell]
      /\ \A x \in Shells : shell'[x] = IF x = s THEN NewShell ELSE LiveKilled[x]
  BY <1>2, <1>6
<1>8. \A x \in Shells : SameOutput(x)
  <2>1. SameOutput(s)
    BY <1>3, <1>7 DEF SameOutput, NoShell, NewShell
  <2>2. \A x \in Shells \ {s} : SameOutput(x)
    BY <1>7, LiveKilledIsQuiet DEF SameOutput
  <2> QED
    BY <2>1, <2>2
<1>9. live' \in Shells /\ shell'[live'].state # "none" /\ shell'[s].state # "none"
  BY <1>2, <1>7 DEF NewShell, NoShell
<1>10. tickets' \subseteq issued' /\ UNCHANGED <<issued, closing>>
  BY <1>1 DEF StartShell, HubTypeOK
<1>11. NoOrphanShell'
  BY <1>2, <1>7, <1>10, LiveKilledIsQuiet DEF NoOrphanShell
<1> HIDE DEF r
<1> QED
  BY <1>1, <1>4, <1>5, <1>7, <1>8, <1>9, <1>10, <1>11, HandlerStep

(***************************************************************************)
(* One connection takes a step, no shell does                              *)
(***************************************************************************)

(* Enough for a connection to change that is there and whose stream stays, *)
(* or that is cut: then the stream may lose its beginning.                 *)
LEMMA ConnStep ==
  ASSUME HubInv, NEW c \in Conns, NEW r \in Conn,
         UNCHANGED <<registry, shell>>, conn' = [conn EXCEPT ![c] = r],
         r.pc = conn[c].pc, r.shell = conn[c].shell, Len(r.queue) <= QueueCap,
         r.up => /\ Stream(c)' = Stream(c)
                 /\ conn[c].up /\ r.lost = conn[c].lost,
         Increasing(Stream(c))',
         \A n \in Nat : (\A i \in 1..Len(Stream(c)) : Stream(c)[i] <= n)
                          => (\A i \in 1..Len(Stream(c)) : Stream(c)[i] <= n)',
         Served(c)', Told(c)'
  PROVE  HubInv'
<1>1. conn \in [Conns -> Conn] /\ HubTypeOK /\ \A s \in Shells : shell[s] \in Shell
  BY DEF HubInv, HubTypeOK
<1>2. conn' \in [Conns -> Conn] /\ \A d \in Conns : conn'[d] = IF d = c THEN r ELSE conn[d]
  BY <1>1
<1>3. HubTypeOK'
  BY <1>1, <1>2 DEF HubTypeOK
<1>4. UsedShellsAreStarted' /\ NoOrphanShell' /\ NewestIsServed'
  BY <1>2 DEF HubInv, UsedShellsAreStarted, NoOrphanShell, NewestIsServed
<1>5. ASSUME NEW s \in Shells PROVE SubscriberIsOpen(s)' /\ NothingInvented(s)' /\ Complete(s)'
  <2>1. SubscriberIsOpen(s) /\ NothingInvented(s) /\ Complete(s)
    BY DEF HubInv
  <2>2. shell[s].send \in Conns \cup {Nil} /\ shell[s].written \in Nat
    BY <1>1, TerminalAssumption DEF Shell
  <2>3. CASE shell[s].send = c
    <3>1. SubscriberIsOpen(s)'
      BY <1>2, <2>1, <2>3 DEF SubscriberIsOpen
    <3>2. c # Nil
      BY ConnTypes, <1>1
    <3>3. \A i \in 1..Len(Stream(c)) : Stream(c)[i] <= shell[s].written
      BY <2>1, <2>3, <3>2 DEF NothingInvented
    <3>4. (\A i \in 1..Len(Stream(c)) : Stream(c)[i] <= shell[s].written)'
      BY <2>2, <3>3
    <3>5. NothingInvented(s)'
      BY <2>1, <2>3, <3>4 DEF NothingInvented
    <3>6. Complete(s)'
      BY <1>2, <2>1, <2>3, <3>2 DEF Complete
    <3> QED
      BY <3>1, <3>5, <3>6
  <2>4. CASE shell[s].send # c
    <3>1. shell[s].send # Nil => conn'[shell[s].send] = conn[shell[s].send]
      BY <1>2, <2>2, <2>4
    <3> QED
      BY <3>1, ShellStays
  <2> QED
    BY <2>3, <2>4
<1>6. ASSUME NEW d \in Conns PROVE Served(d)' /\ Told(d)' /\ Increasing(Stream(d))'
  <2>1. CASE d # c
    <3>1. conn'[d] = conn[d] /\ SameShell(d)
      BY <1>2, <2>1 DEF SameShell
    <3> QED
      BY <3>1, ConnStays
  <2> QED
    BY <2>1
<1> QED
  BY <1>3, <1>4, <1>5, <1>6 DEF HubInv

(* The writer moves the front of the stream on, and nothing is lost.       *)
LEMMA WriterMoves ==
  ASSUME HubInv, NEW c \in Conns, NEW r \in Conn,
         UNCHANGED <<registry, shell>>, conn' = [conn EXCEPT ![c] = r],
         r.pc = conn[c].pc, r.shell = conn[c].shell, Len(r.queue) <= QueueCap,
         r.screen \o r.replay \o r.queue = Stream(c),
         conn[c].up /\ r.lost = conn[c].lost,
         Served(c)', Told(c)'
  PROVE  HubInv'
<1>1. conn'[c] = r
  BY DEF HubInv, HubTypeOK
<1>2. Stream(c)' = Stream(c)
  BY <1>1 DEF Stream
<1>3. Increasing(Stream(c))'
  BY <1>2 DEF HubInv, Increasing
<1>4. \A n \in Nat : (\A i \in 1..Len(Stream(c)) : Stream(c)[i] <= n)
                        => (\A i \in 1..Len(Stream(c)) : Stream(c)[i] <= n)'
  BY <1>2
<1> QED
  BY <1>2, <1>3, <1>4, ConnStep

LEMMA ReplayedType ==
  ASSUME NEW x \in Conn, NEW a \in Seq(Chunks), NEW w \in {"none", "stream"}, NEW e \in BOOLEAN
  PROVE  [x EXCEPT !.screen = a, !.replay = <<>>, !.writer = w, !.told = e] \in Conn
<1> DEFINE y == [x EXCEPT !.screen = a, !.replay = <<>>]
           z == [y EXCEPT !.writer = w, !.told = e]
<1>1. y \in Conn
  BY <<>> \in Seq(Chunks) DEF Conn
<1>2. \A v \in Conn : [v EXCEPT !.writer = w, !.told = e] \in Conn
  BY DEF Conn
<1>3. z \in Conn
  BY <1>1, <1>2
<1>4. z = [x EXCEPT !.screen = a, !.replay = <<>>, !.writer = w, !.told = e]
  OBVIOUS
<1> QED
  BY <1>3, <1>4

LEMMA WriteReplayStep == ASSUME HubInv, NEW c \in Conns, WriteReplay(c) PROVE HubInv'
<1> DEFINE a == conn[c].screen \o conn[c].replay
           w == IF conn[c].atEnd THEN "none" ELSE "stream"
           r == [conn[c] EXCEPT !.screen = a, !.replay = <<>>, !.writer = w,
                   !.told = conn[c].atEnd]
<1>1. conn \in [Conns -> Conn] /\ conn[c] \in Conn /\ Len(conn[c].queue) <= QueueCap
  BY DEF HubInv, HubTypeOK
<1>2. conn' = [conn EXCEPT ![c] = r] /\ UNCHANGED <<registry, shell>>
      /\ conn[c].writer = "replay" /\ conn[c].up
  BY <1>1 DEF WriteReplay
<1>3. Served(c) /\ Told(c)
  BY DEF HubInv
<1> HIDE DEF HubInv
<1>4. /\ conn[c].screen \in Seq(Chunks) /\ conn[c].replay \in Seq(Chunks) /\ conn[c].queue \in Seq(Chunks)
      /\ a \in Seq(Chunks) /\ conn[c].atEnd \in BOOLEAN
  <2>1. /\ conn[c].screen \in Seq(Chunks) /\ conn[c].replay \in Seq(Chunks)
        /\ conn[c].queue \in Seq(Chunks) /\ conn[c].atEnd \in BOOLEAN
    BY <1>1 DEF Conn
  <2>2. a \in Seq(Chunks)
    BY <2>1, ConcatProperties
  <2> QED
    BY <2>1, <2>2
<1>A. a \o <<>> \o conn[c].queue = Stream(c)
  BY <1>4, MoveReplay DEF Stream
<1> HIDE DEF a
<1>5. r \in Conn
  <2>1. w \in {"none", "stream"}
    OBVIOUS
  <2> QED
    BY <1>1, <1>4, <2>1, ReplayedType
<1>6. /\ r.pc = conn[c].pc /\ r.shell = conn[c].shell /\ r.queue = conn[c].queue /\ r.up = conn[c].up
      /\ r.lost = conn[c].lost /\ r.stolen = conn[c].stolen /\ r.shut = conn[c].shut
      /\ r.screen = a /\ r.replay = <<>>
      /\ r.writer = w
      /\ r.told = conn[c].atEnd /\ r.atEnd = conn[c].atEnd
  BY <1>1 DEF Conn
<1>7. r.screen \o r.replay \o r.queue = Stream(c)
  BY <1>6, <1>A
<1> HIDE DEF r
<1>8. conn'[c] = r
  BY <1>1, <1>2
<1>9. Served(c)'
  BY <1>2, <1>3, <1>6, <1>8 DEF Served
<1>10. Told(c)'
  <2>1. CASE conn[c].atEnd
    BY <1>6, <1>8, <2>1 DEF Told
  <2>2. CASE ~conn[c].atEnd
    <3>1. ~conn[c].told
      BY <1>2, <1>3 DEF Served
    <3>2. r.writer = "stream"
      BY <1>6, <2>2
    <3> QED
      BY <1>2, <1>3, <1>6, <1>8, <2>2, <3>1, <3>2 DEF Told
  <2> QED
    BY <2>1, <2>2
<1> QED
  BY <1>1, <1>2, <1>5, <1>6, <1>7, <1>9, <1>10, WriterMoves

LEMMA WriteChunkStep == ASSUME HubInv, NEW c \in Conns, WriteChunk(c) PROVE HubInv'
<1> DEFINE r == [conn[c] EXCEPT !.screen = Append(@, Head(conn[c].queue)), !.queue = Tail(@)]
<1>1. conn \in [Conns -> Conn] /\ conn[c] \in Conn /\ Len(conn[c].queue) <= QueueCap
      /\ QueueCap \in Nat
  BY TerminalAssumption DEF HubInv, HubTypeOK
<1>2. conn' = [conn EXCEPT ![c] = r] /\ UNCHANGED <<registry, shell>>
      /\ conn[c].writer = "stream" /\ conn[c].up /\ conn[c].queue # <<>>
  BY <1>1 DEF WriteChunk
<1>3. Served(c) /\ Told(c) /\ conn[c].replay = <<>>
  BY <1>2 DEF HubInv, Served
<1> HIDE DEF HubInv
<1>4. /\ conn[c].screen \in Seq(Chunks) /\ conn[c].queue \in Seq(Chunks)
      /\ Append(conn[c].screen, Head(conn[c].queue)) \in Seq(Chunks)
      /\ Tail(conn[c].queue) \in Seq(Chunks)
      /\ Append(conn[c].screen, Head(conn[c].queue)) \o <<>> \o Tail(conn[c].queue)
           = conn[c].screen \o <<>> \o conn[c].queue
      /\ Len(Tail(conn[c].queue)) <= QueueCap
  <2>1. conn[c].screen \in Seq(Chunks) /\ conn[c].queue \in Seq(Chunks)
    BY <1>1 DEF Conn
  <2>2. Len(Tail(conn[c].queue)) = Len(conn[c].queue) - 1
    BY <1>2, <2>1, HeadTailProperties
  <2>3. Len(conn[c].queue) \in Nat
    BY <2>1
  <2>4. Len(Tail(conn[c].queue)) <= QueueCap
    BY <1>1, <2>2, <2>3
  <2>5. /\ Append(conn[c].screen, Head(conn[c].queue)) \in Seq(Chunks)
        /\ Tail(conn[c].queue) \in Seq(Chunks)
        /\ Append(conn[c].screen, Head(conn[c].queue)) \o <<>> \o Tail(conn[c].queue)
             = conn[c].screen \o <<>> \o conn[c].queue
    <3> DEFINE a == conn[c].screen
               q == conn[c].queue
    <3>1. a \in Seq(Chunks) /\ q \in Seq(Chunks) /\ q # <<>>
      BY <1>2, <2>1
    <3> HIDE DEF a, q
    <3>2. /\ Append(a, Head(q)) \in Seq(Chunks) /\ Tail(q) \in Seq(Chunks)
          /\ Append(a, Head(q)) \o <<>> \o Tail(q) = a \o <<>> \o q
      BY <3>1, MoveChunk
    <3> QED
      BY <3>2 DEF a, q
  <2> QED
    BY <2>1, <2>4, <2>5
<1>5. r \in Conn
  BY <1>1, <1>4 DEF Conn
<1>6. /\ r.pc = conn[c].pc /\ r.shell = conn[c].shell /\ r.queue = Tail(conn[c].queue) /\ r.up = conn[c].up
      /\ r.lost = conn[c].lost /\ r.stolen = conn[c].stolen /\ r.shut = conn[c].shut
      /\ r.screen = Append(conn[c].screen, Head(conn[c].queue)) /\ r.replay = conn[c].replay
      /\ r.writer = conn[c].writer /\ r.told = conn[c].told /\ r.atEnd = conn[c].atEnd
  BY <1>1 DEF Conn
<1>7. r.screen \o r.replay \o r.queue = Stream(c)
  BY <1>3, <1>4, <1>6 DEF Stream
<1> HIDE DEF r
<1>8. conn'[c] = r
  BY <1>1, <1>2
<1>9. Served(c)'
  BY <1>2, <1>3, <1>6, <1>8 DEF Served
<1>10. Told(c)'
  BY <1>2, <1>3, <1>6, <1>8 DEF Told
<1> QED
  BY <1>1, <1>2, <1>4, <1>5, <1>6, <1>7, <1>9, <1>10, WriterMoves

LEMMA WriteEndedStep == ASSUME HubInv, NEW c \in Conns, WriteEnded(c) PROVE HubInv'
<1> DEFINE r == [conn[c] EXCEPT !.told = TRUE, !.writer = "none"]
<1>1. conn \in [Conns -> Conn] /\ conn[c] \in Conn /\ Len(conn[c].queue) <= QueueCap
  BY DEF HubInv, HubTypeOK
<1>2. conn' = [conn EXCEPT ![c] = r] /\ UNCHANGED <<registry, shell>> /\ conn[c].up
      /\ conn[c].pc = "open"
  BY <1>1 DEF WriteEnded, HubInv, Served
<1>3. Served(c) /\ Told(c)
  BY DEF HubInv
<1> HIDE DEF HubInv
<1>5. r \in Conn
  BY <1>1 DEF Conn
<1>6. /\ r.pc = conn[c].pc /\ r.shell = conn[c].shell /\ r.queue = conn[c].queue /\ r.up = conn[c].up
      /\ r.lost = conn[c].lost /\ r.stolen = conn[c].stolen /\ r.shut = conn[c].shut
      /\ r.screen = conn[c].screen /\ r.replay = conn[c].replay
      /\ r.writer = "none" /\ r.told = TRUE /\ r.atEnd = conn[c].atEnd
  BY <1>1 DEF Conn
<1>7. r.screen \o r.replay \o r.queue = Stream(c)
  BY <1>6 DEF Stream
<1> HIDE DEF r
<1>8. conn'[c] = r
  BY <1>1, <1>2
<1>9. Served(c)'
  BY <1>2, <1>3, <1>6, <1>8 DEF Served
<1>10. Told(c)'
  BY <1>2, <1>3, <1>6, <1>8 DEF Told
<1> QED
  BY <1>1, <1>2, <1>5, <1>6, <1>7, <1>9, <1>10, WriterMoves

(* The client goes: what the channel still holds is shown to nobody.       *)
LEMMA CutStep ==
  ASSUME HubInv, NEW c \in Conns, conn' = Cut(c), UNCHANGED <<registry, shell>>
  PROVE  HubInv'
<1> DEFINE r == [conn[c] EXCEPT !.up = FALSE, !.writer = "none", !.screen = <<>>, !.replay = <<>>]
<1>1. /\ conn \in [Conns -> Conn] /\ conn[c] \in Conn /\ Len(conn[c].queue) <= QueueCap /\ c # Nil
      /\ Served(c) /\ Increasing(Stream(c))
  BY TerminalAssumption DEF HubInv, HubTypeOK
<1>2. conn' = [conn EXCEPT ![c] = r]
  BY <1>1 DEF Cut
<1> HIDE DEF HubInv
<1>3. r \in Conn
  BY <1>1, <<>> \in Seq(Chunks) DEF Conn
<1>4. /\ r.pc = conn[c].pc /\ r.shell = conn[c].shell /\ r.queue = conn[c].queue /\ ~r.up
      /\ r.stolen = conn[c].stolen /\ r.screen = <<>> /\ r.replay = <<>>
      /\ r.writer = "none" /\ r.told = conn[c].told
  BY <1>1 DEF Conn
<1> HIDE DEF r
<1>5. conn'[c] = r
  BY <1>1, <1>2
<1>6. Stream(c)' = <<>> \o <<>> \o conn[c].queue
  BY <1>4, <1>5 DEF Stream
<1>7. /\ conn[c].screen \in Seq(Chunks) /\ conn[c].replay \in Seq(Chunks)
      /\ conn[c].queue \in Seq(Chunks)
      /\ Stream(c) = conn[c].screen \o conn[c].replay \o conn[c].queue
  BY <1>1, StreamType DEF Stream
<1> DEFINE a == conn[c].screen
           b == conn[c].replay
           q == conn[c].queue
<1>8. a \in Seq(Chunks) /\ b \in Seq(Chunks) /\ q \in Seq(Chunks) /\ Stream(c) = a \o b \o q
      /\ Stream(c)' = <<>> \o <<>> \o q
  BY <1>6, <1>7
<1> HIDE DEF a, b, q
<1>9. \A n \in Nat : /\ Increasing(<<>> \o <<>> \o q)
                     /\ (\A i \in 1..Len(a \o b \o q) : (a \o b \o q)[i] <= n) =>
                          \A i \in 1..Len(<<>> \o <<>> \o q) : (<<>> \o <<>> \o q)[i] <= n
  BY <1>1, <1>8, QueueOfStream
<1>10. Increasing(Stream(c))'
  <2>1. Increasing(<<>> \o <<>> \o q)
    BY <1>9, 0 \in Nat
  <2> QED
    BY <2>1, <1>8 DEF Increasing
<1>11. \A n \in Nat : (\A i \in 1..Len(Stream(c)) : Stream(c)[i] <= n)
                        => (\A i \in 1..Len(Stream(c)) : Stream(c)[i] <= n)'
  BY <1>8, <1>9
<1>12. Served(c)' /\ Told(c)'
  BY <1>1, <1>4, <1>5 DEF Served, Told
<1> QED
  BY <1>1, <1>2, <1>3, <1>4, <1>10, <1>11, <1>12, ConnStep

(***************************************************************************)
(* A subscription ends                                                     *)
(***************************************************************************)

(* The handler of c returns and the shell of c forgets c, no other one.    *)
LEMMA HangUpStep == ASSUME HubInv, NEW c \in Conns, HangUp(c) PROVE HubInv'
<1> DEFINE s == conn[c].shell
           x == [shell[s] EXCEPT !.send = IF @ = c THEN Nil ELSE @,
                                 !.newest = IF @ = c THEN Nil ELSE @]
<1>1. /\ HubTypeOK /\ shell \in [Shells -> Shell] /\ conn \in [Conns -> Conn] /\ c # Nil
      /\ s \in Shells /\ conn[c].pc = "open" /\ ~conn[c].up
  BY TerminalAssumption DEF HubInv, HubTypeOK, UsedShellsAreStarted, HangUp
<1>2. shell' = [shell EXCEPT ![s] = x] /\ conn' = [conn EXCEPT ![c] = Over(c)] /\ UNCHANGED registry
  BY <1>1 DEF HangUp
<1>3. x \in Shell
  BY <1>1 DEF Shell
<1>4. /\ x.state = shell[s].state /\ x.written = shell[s].written /\ x.ring = shell[s].ring
      /\ x.send = (IF shell[s].send = c THEN Nil ELSE shell[s].send)
      /\ x.newest = (IF shell[s].newest = c THEN Nil ELSE shell[s].newest)
  BY <1>1 DEF Shell
<1> HIDE DEF x, s
<1>5. \A y \in Shells : shell'[y] = IF y = s THEN x ELSE shell[y]
  BY <1>1, <1>2
<1>6. \A d \in Conns : conn'[d] = IF d = c THEN Over(c) ELSE conn[d]
  BY <1>1, <1>2
<1>7. Blank(Over(c)) /\ Over(c) \in Conn /\ Over(c).pc = "none" /\ Over(c).queue = <<>>
  BY <1>1, OverIsBlank
<1>8. HubTypeOK'
  <2>1. shell' \in [Shells -> Shell] /\ conn' \in [Conns -> Conn]
    BY <1>1, <1>2, <1>3, <1>7
  <2>2. \A y \in Shells : Len(shell'[y].ring) <= RingCap
    BY <1>1, <1>4, <1>5 DEF HubTypeOK
  <2>3. \A d \in Conns : Len(conn'[d].queue) <= QueueCap
    BY <1>1, <1>6, <1>7, TerminalAssumption, Len(<<>>) = 0 DEF HubTypeOK
  <2> QED
    BY <1>1, <1>2, <2>1, <2>2, <2>3 DEF HubTypeOK
<1>9. UsedShellsAreStarted'
  <2>1. \A y \in Shells : shell'[y].state = shell[y].state
    BY <1>4, <1>5
  <2>2. \A d \in Conns : conn'[d].pc \in {"attach", "open"} => conn'[d] = conn[d]
    BY <1>6, <1>7
  <2>3. live \in Shells \cup {Nil}
    BY <1>1 DEF HubTypeOK
  <2> QED
    BY <1>2, <2>1, <2>2, <2>3 DEF HubInv, UsedShellsAreStarted
<1>10. NoOrphanShell'
  BY <1>2, <1>4, <1>5 DEF HubInv, NoOrphanShell
<1>11. NewestIsServed'
  BY <1>4, <1>5 DEF HubInv, NewestIsServed
<1>12. ASSUME NEW y \in Shells PROVE SubscriberIsOpen(y)' /\ NothingInvented(y)' /\ Complete(y)'
  <2>1. SubscriberIsOpen(y) /\ NothingInvented(y) /\ Complete(y)
    BY DEF HubInv
  <2>2. shell[y].send \in Conns \cup {Nil}
    BY <1>1 DEF Shell
  <2>3. CASE shell[y].send = c
    <3>1. y = s
      BY <1>1, <2>1, <2>3 DEF SubscriberIsOpen, s
    <3>2. shell'[y].send = Nil /\ shell'[y].ring = shell[y].ring /\ shell'[y].written = shell[y].written
      BY <1>4, <1>5, <2>3, <3>1
    <3> QED
      BY <2>1, <3>2 DEF SubscriberIsOpen, NothingInvented, Complete
  <2>4. CASE shell[y].send # c
    <3>1. shell[y].send # Nil => conn'[shell[y].send] = conn[shell[y].send]
      BY <1>6, <2>2, <2>4
    <3>2. /\ shell'[y].send = shell[y].send /\ shell'[y].written = shell[y].written
          /\ shell'[y].ring = shell[y].ring /\ shell'[y].state = shell[y].state
      BY <1>4, <1>5, <2>4
    <3> QED
      BY <3>1, <3>2, ShellStays
  <2> QED
    BY <2>3, <2>4
<1>13. ASSUME NEW d \in Conns PROVE Served(d)' /\ Told(d)' /\ Increasing(Stream(d))'
  <2>1. CASE d = c
    <3>1. Blank(conn'[d])
      BY <1>6, <1>7, <2>1
    <3>2. (Stream(d))' = <<>>
      BY <3>1 DEF Blank, Stream
    <3> QED
      BY <3>1, <3>2 DEF Blank, Served, Told, Increasing
  <2>2. CASE d # c
    <3>1. conn[d].pc = "open" => conn[d].shell \in Shells
      BY DEF HubInv, UsedShellsAreStarted
    <3>2. conn'[d] = conn[d] /\ (conn[d].pc = "open" => SameShell(d))
      BY <1>4, <1>5, <1>6, <2>2, <3>1 DEF SameShell
    <3> QED
      BY <3>2, ConnStays
  <2> QED
    BY <2>1, <2>2
<1> QED
  BY <1>8, <1>9, <1>10, <1>11, <1>12, <1>13 DEF HubInv

(* Two shells have different subscribers.                                  *)
LEMMA OneShellEach ==
  ASSUME HubInv, NEW s \in Shells, NEW y \in Shells, shell[s].send # Nil, shell[s].send = shell[y].send
  PROVE  s = y
BY DEF HubInv, SubscriberIsOpen

(* The pump sees the end: the subscriber's channel is closed, and whoever  *)
(* else is in front of the shell was followed by another connection.       *)
LEMMA EndStep == ASSUME HubInv, NEW s \in Shells, End(s) PROVE HubInv'
<1> DEFINE old == shell[s].send
           x == [shell[s] EXCEPT !.state = "ended", !.send = Nil, !.newest = Nil]
           r == [conn[old] EXCEPT !.shut = TRUE]
<1>1. /\ HubTypeOK /\ shell \in [Shells -> Shell] /\ conn \in [Conns -> Conn]
      /\ shell[s].state = "exited" /\ old \in Conns \cup {Nil} /\ Nil \notin Conns
      /\ SubscriberIsOpen(s)
  BY TerminalAssumption DEF HubInv, HubTypeOK, End, Shell
<1>2. /\ shell' = [shell EXCEPT ![s] = x] /\ UNCHANGED registry
      /\ conn' = IF old = Nil THEN conn ELSE [conn EXCEPT ![old] = r]
  BY <1>1 DEF End
<1>3. x \in Shell /\ x.state = "ended" /\ x.written = shell[s].written /\ x.ring = shell[s].ring
      /\ x.send = Nil /\ x.newest = Nil
  BY <1>1 DEF Shell
<1>4. old # Nil =>
        /\ r \in Conn /\ r.pc = conn[old].pc /\ r.shell = conn[old].shell /\ r.queue = conn[old].queue
        /\ r.up = conn[old].up /\ r.stolen = conn[old].stolen /\ r.screen = conn[old].screen
        /\ r.replay = conn[old].replay /\ r.writer = conn[old].writer /\ r.told = conn[old].told
        /\ r.atEnd = conn[old].atEnd /\ r.shut
  <2>1. old # Nil => conn[old] \in Conn
    BY <1>1
  <2> HIDE DEF old, HubInv
  <2> QED
    BY <2>1 DEF Conn
<1>5. old # Nil => old \in Conns /\ conn[old].pc = "open" /\ conn[old].shell = s
  BY <1>1 DEF SubscriberIsOpen
<1> HIDE DEF x, r, old
<1>6. \A y \in Shells : shell'[y] = IF y = s THEN x ELSE shell[y]
  BY <1>1, <1>2
<1>7. \A d \in Conns : conn'[d] = IF d = old THEN r ELSE conn[d]
  BY <1>1, <1>2
<1>8. HubTypeOK'
  <2>1. shell' \in [Shells -> Shell] /\ conn' \in [Conns -> Conn]
    BY <1>1, <1>2, <1>3, <1>4
  <2>2. \A y \in Shells : Len(shell'[y].ring) <= RingCap
    BY <1>1, <1>3, <1>6 DEF HubTypeOK
  <2>3. \A d \in Conns : Len(conn'[d].queue) <= QueueCap
    BY <1>1, <1>4, <1>7 DEF HubTypeOK
  <2> QED
    BY <1>1, <1>2, <2>1, <2>2, <2>3 DEF HubTypeOK
<1>9. \A d \in Conns : conn'[d].pc = conn[d].pc /\ conn'[d].shell = conn[d].shell
  BY <1>1, <1>4, <1>7
<1>10. UsedShellsAreStarted' /\ NoOrphanShell' /\ NewestIsServed'
  <2>1. live \in Shells \cup {Nil}
    BY <1>1 DEF HubTypeOK
  <2>2. UsedShellsAreStarted'
    BY <1>2, <1>3, <1>6, <1>9, <2>1 DEF HubInv, UsedShellsAreStarted
  <2>3. NoOrphanShell' /\ NewestIsServed'
    BY <1>2, <1>3, <1>6 DEF HubInv, NoOrphanShell, NewestIsServed
  <2> QED
    BY <2>2, <2>3
<1>11. ASSUME NEW y \in Shells PROVE SubscriberIsOpen(y)' /\ NothingInvented(y)' /\ Complete(y)'
  <2>1. CASE y = s
    BY <1>3, <1>6, <2>1 DEF HubInv, SubscriberIsOpen, NothingInvented, Complete
  <2>2. CASE y # s
    <3>1. shell[y].send # Nil => conn'[shell[y].send] = conn[shell[y].send]
      <4>1. shell[y].send # Nil => shell[y].send # old /\ shell[y].send \in Conns
        BY <1>1, <2>2, OneShellEach DEF old, Shell
      <4> QED
        BY <1>7, <4>1
    <3>2. shell'[y] = shell[y]
      BY <1>6, <2>2
    <3> QED
      BY <3>1, <3>2, ShellStays
  <2> QED
    BY <2>1, <2>2
<1>12. ASSUME NEW d \in Conns PROVE Served(d)' /\ Told(d)' /\ Increasing(Stream(d))'
  <2>1. Served(d) /\ Increasing(Stream(d))
    BY DEF HubInv
  <2>2. CASE conn[d].pc = "open" /\ conn[d].shell = s
    <3>1. shell'[s].state = "ended"
      BY <1>3, <1>6
    <3>2. Served(d)'
      BY <1>1, <1>4, <1>7, <2>1, <2>2, <3>1 DEF Served
    <3>3. Told(d)'
      <4>1. CASE conn[d].up /\ ~conn[d].stolen
        <5>1. d = old
          BY <1>1, <2>1, <2>2, <4>1 DEF Served, old
        <5> QED
          BY <1>1, <1>4, <1>7, <2>1, <2>2, <4>1, <5>1 DEF Served, Told
      <4>2. CASE ~(conn[d].up /\ ~conn[d].stolen)
        BY <1>1, <1>4, <1>7, <4>2 DEF Told
      <4> QED
        BY <4>1, <4>2
    <3>4. Increasing(Stream(d))'
      <4>1. Stream(d)' = Stream(d)
        BY <1>1, <1>4, <1>7 DEF Stream
      <4> QED
        BY <2>1, <4>1 DEF Increasing
    <3> QED
      BY <3>2, <3>3, <3>4
  <2>3. CASE ~(conn[d].pc = "open" /\ conn[d].shell = s)
    <3>1. conn'[d] = conn[d]
      BY <1>1, <1>5, <1>7, <2>3
    <3>2. conn[d].pc = "open" => conn[d].shell \in Shells
      BY DEF HubInv, UsedShellsAreStarted
    <3>3. conn[d].pc = "open" => SameShell(d)
      BY <1>6, <2>3, <3>2 DEF SameShell
    <3> QED
      BY <3>1, <3>3, ConnStays
  <2> QED
    BY <2>2, <2>3
<1> QED
  BY <1>8, <1>10, <1>11, <1>12 DEF HubInv

(***************************************************************************)
(* A subscription begins                                                   *)
(***************************************************************************)

LEMMA OpenedType ==
  ASSUME NEW v \in Conn, NEW ring \in Seq(Chunks), NEW w \in {"none", "replay"}, NEW e \in BOOLEAN
  PROVE  [v EXCEPT !.pc = "open", !.replay = ring, !.writer = w, !.atEnd = e] \in Conn
<1> DEFINE y == [v EXCEPT !.pc = "open", !.replay = ring]
           z == [y EXCEPT !.writer = w, !.atEnd = e]
<1>1. y \in Conn
  BY DEF Conn
<1>2. \A u \in Conn : [u EXCEPT !.writer = w, !.atEnd = e] \in Conn
  BY DEF Conn
<1>3. z \in Conn
  BY <1>1, <1>2
<1>4. z = [v EXCEPT !.pc = "open", !.replay = ring, !.writer = w, !.atEnd = e]
  OBVIOUS
<1> QED
  BY <1>3, <1>4

(* attach copies the buffer and takes the subscription in one section; the *)
(* connection that had it is the only one that loses it.                   *)
LEMMA AttachStep == ASSUME HubInv, NEW c \in Conns, Attach(c) PROVE HubInv'
<1> DEFINE s == conn[c].shell
           old == shell[s].send
           w == IF conn[c].up THEN "replay" ELSE "none"
           e == shell[s].state = "ended"
           r == [conn[c] EXCEPT !.pc = "open", !.replay = shell[s].ring, !.writer = w, !.atEnd = e]
           x == [shell[s] EXCEPT !.send = c, !.newest = c]
           o == [conn[old] EXCEPT !.stolen = TRUE]
<1>1. /\ HubTypeOK /\ shell \in [Shells -> Shell] /\ conn \in [Conns -> Conn]
      /\ s \in Shells /\ shell[s].state # "none" /\ conn[c].pc = "attach"
      /\ old \in Conns \cup {Nil} /\ Nil \notin Conns
      /\ SubscriberIsOpen(s) /\ NothingInvented(s) /\ Served(c)
  BY TerminalAssumption DEF HubInv, HubTypeOK, UsedShellsAreStarted, Attach, Shell
<1>2. /\ shell' = (IF e THEN shell ELSE [shell EXCEPT ![s] = x]) /\ UNCHANGED registry
      /\ conn' = [d \in Conns |-> IF d = c THEN r ELSE IF d = old THEN o ELSE conn[d]]
  BY <1>1 DEF Attach
<1>3. conn[c] \in Conn /\ shell[s] \in Shell /\ old # c
      /\ conn[c].screen = <<>> /\ conn[c].queue = <<>> /\ ~conn[c].told
  BY <1>1 DEF SubscriberIsOpen, Served
<1>4. shell[s].ring \in Seq(Chunks) /\ shell[s].written \in Nat
  BY <1>3, TerminalAssumption DEF Shell
<1>5. r \in Conn
  <2>1. w \in {"none", "replay"} /\ e \in BOOLEAN
    OBVIOUS
  <2> HIDE DEF w, e
  <2> QED
    BY <1>3, <1>4, <2>1, OpenedType
<1>6. /\ r.pc = "open" /\ r.shell = s /\ r.queue = <<>> /\ r.up = conn[c].up /\ r.screen = <<>>
      /\ r.replay = shell[s].ring /\ r.writer = w /\ r.told = conn[c].told /\ (r.atEnd <=> e)
  BY <1>3 DEF Conn
<1>7. x \in Shell /\ x.state = shell[s].state /\ x.written = shell[s].written
      /\ x.ring = shell[s].ring /\ x.send = c /\ x.newest = c
  BY <1>3 DEF Shell
<1>8. old # Nil =>
        /\ o \in Conn /\ o.pc = conn[old].pc /\ o.shell = conn[old].shell /\ o.queue = conn[old].queue
        /\ o.up = conn[old].up /\ o.stolen /\ o.screen = conn[old].screen
        /\ o.replay = conn[old].replay /\ o.writer = conn[old].writer /\ o.told = conn[old].told
  <2>1. old # Nil => conn[old] \in Conn
    BY <1>1
  <2> HIDE DEF old, HubInv
  <2> QED
    BY <2>1 DEF Conn
<1>9. e => old = Nil
  BY <1>1 DEF SubscriberIsOpen
<1> HIDE DEF r, x, o, old, s
<1>10. \A y \in Shells : shell'[y] = IF ~e /\ y = s THEN x ELSE shell[y]
  BY <1>1, <1>2
<1>11. \A d \in Conns : conn'[d] = IF d = c THEN r ELSE IF d = old THEN o ELSE conn[d]
  BY <1>2
<1>12. HubTypeOK'
  <2>1. shell' \in [Shells -> Shell] /\ conn' \in [Conns -> Conn]
    BY <1>1, <1>2, <1>5, <1>7, <1>8
  <2>2. \A y \in Shells : Len(shell'[y].ring) <= RingCap
    BY <1>1, <1>7, <1>10 DEF HubTypeOK
  <2>3. \A d \in Conns : Len(conn'[d].queue) <= QueueCap
    BY <1>1, <1>6, <1>8, <1>11, TerminalAssumption, Len(<<>>) = 0 DEF HubTypeOK
  <2> QED
    BY <1>1, <1>2, <2>1, <2>2, <2>3 DEF HubTypeOK
<1>13. \A y \in Shells : /\ shell'[y].state = shell[y].state /\ shell'[y].written = shell[y].written
                         /\ shell'[y].ring = shell[y].ring
                         /\ y # s \/ e => shell'[y].send = shell[y].send /\ shell'[y].newest = shell[y].newest
  BY <1>7, <1>10
<1>14. UsedShellsAreStarted' /\ NoOrphanShell'
  <2>1. live \in Shells \cup {Nil}
    BY <1>1 DEF HubTypeOK
  <2>2. \A d \in Conns : conn'[d].pc \in {"attach", "open"} =>
          /\ conn[d].pc \in {"attach", "open"} /\ conn'[d].shell = conn[d].shell
    BY <1>1, <1>6, <1>8, <1>11 DEF s
  <2>3. UsedShellsAreStarted'
    BY <1>2, <1>13, <2>1, <2>2 DEF HubInv, UsedShellsAreStarted
  <2>4. NoOrphanShell'
    BY <1>2, <1>13 DEF HubInv, NoOrphanShell
  <2> QED
    BY <2>3, <2>4
<1>15. NewestIsServed'
  BY <1>7, <1>10 DEF HubInv, NewestIsServed
<1>16. Stream(c)' = shell[s].ring
  <2>1. Stream(c)' = <<>> \o shell[s].ring \o <<>>
    BY <1>6, <1>11 DEF Stream
  <2> QED
    BY <1>4, <2>1, ConcatEmptySeq
<1>17. ASSUME NEW y \in Shells PROVE SubscriberIsOpen(y)' /\ NothingInvented(y)' /\ Complete(y)'
  <2>1. CASE y = s /\ ~e
    <3>1. shell'[y] = x /\ conn'[c] = r /\ conn[c].shell = y
      BY <1>1, <1>10, <1>11, <2>1 DEF s
    <3>2. SubscriberIsOpen(y)'
      BY <1>1, <1>3, <1>6, <1>7, <2>1, <3>1 DEF SubscriberIsOpen, Shell
    <3>3. UpTo(shell[y].ring, shell[y].written)
      BY <1>1, <2>1 DEF NothingInvented
    <3>4. \A i \in 1..Len(shell[y].ring) : shell[y].ring[i] <= shell[y].written
      BY <1>4, <2>1, <3>3, UpToIncreasing
    <3>5. NothingInvented(y)'
      <4>1. (shell[y].send)' = c /\ (shell[y].written)' = shell[y].written
            /\ (shell[y].ring)' = shell[y].ring
        BY <1>7, <2>1, <3>1
      <4>2. UpTo(shell[y].ring, shell[y].written)'
        BY <3>3, <4>1 DEF UpTo
      <4>3. (\A i \in 1..Len(Stream(shell[y].send)) : Stream(shell[y].send)[i] <= shell[y].written)'
        <5>1. Stream(shell[y].send)' = shell[y].ring
          BY <1>16, <2>1, <4>1 DEF Stream
        <5> QED
          BY <3>4, <4>1, <5>1
      <4> QED
        BY <4>2, <4>3, <2>1 DEF NothingInvented
    <3>6. Complete(y)'
      <4>1. (shell[y].send)' = c /\ (shell[y].written)' = shell[y].written
        BY <1>7, <2>1, <3>1
      <4>2. UpTo(Stream(c), shell[y].written)'
        BY <3>3, <1>16, <2>1, <4>1 DEF UpTo
      <4> QED
        BY <4>1, <4>2 DEF Complete, Stream
    <3> QED
      BY <2>1, <3>2, <3>5, <3>6
  <2>2. CASE ~(y = s /\ ~e)
    <3>1. shell'[y] = shell[y]
      BY <1>10, <2>2
    <3>2. shell[y].send # Nil => conn'[shell[y].send] = conn[shell[y].send]
      <4>1. shell[y].send # Nil => shell[y].send \in Conns /\ shell[y].send # c
        BY <1>1 DEF HubInv, SubscriberIsOpen, Shell
      <4>2. shell[y].send # Nil => shell[y].send # old
        BY <1>1, <1>9, <2>2, OneShellEach DEF old
      <4> QED
        BY <1>11, <4>1, <4>2
    <3> QED
      BY <3>1, <3>2, ShellStays
  <2> QED
    BY <2>1, <2>2
<1>18. ASSUME NEW d \in Conns PROVE Served(d)' /\ Told(d)' /\ Increasing(Stream(d))'
  <2>1. CASE d = c
    <3>1. conn'[c] = r
      BY <1>11
    <3>2. ~e => shell'[s].send = c
      BY <1>1, <1>7, <1>10
    <3>3. shell'[s].state = shell[s].state
      BY <1>1, <1>13
    <3>4. Served(c)'
      BY <1>3, <1>6, <3>1, <3>2, <3>3 DEF Served
    <3>5. Told(c)'
      BY <1>3, <1>6, <3>1, <3>3 DEF Told
    <3>6. Increasing(Stream(c))'
      <4>1. Increasing(shell[s].ring)
        BY <1>1, <1>4, UpToIncreasing DEF NothingInvented
      <4> QED
        BY <4>1, <1>16 DEF Increasing
    <3> QED
      BY <2>1, <3>4, <3>5, <3>6
  <2>2. CASE d # c /\ d = old
    <3>1. conn'[d] = o /\ old # Nil
      BY <1>1, <1>11, <2>2
    <3>2. Served(d) /\ Increasing(Stream(d))
      BY DEF HubInv
    <3>3. Served(d)'
      BY <1>8, <2>2, <3>1, <3>2 DEF Served
    <3>4. Told(d)'
      BY <1>8, <2>2, <3>1 DEF Told
    <3>5. Increasing(Stream(d))'
      <4>1. Stream(d)' = Stream(d)
        BY <1>8, <2>2, <3>1 DEF Stream
      <4> QED
        BY <3>2, <4>1 DEF Increasing
    <3> QED
      BY <3>3, <3>4, <3>5
  <2>3. CASE d # c /\ d # old
    <3>1. conn'[d] = conn[d]
      BY <1>11, <2>3
    <3>2. conn[d].pc = "open" => conn[d].shell \in Shells
      BY DEF HubInv, UsedShellsAreStarted
    <3>3. conn[d].pc = "open" => SameShell(d)
      BY <1>13, <2>3, <3>2 DEF SameShell, old
    <3> QED
      BY <3>1, <3>3, ConnStays
  <2> QED
    BY <2>1, <2>2, <2>3
<1> QED
  BY <1>12, <1>14, <1>15, <1>17, <1>18 DEF HubInv

(***************************************************************************)
(* The pump reads a chunk                                                  *)
(***************************************************************************)

(* The replay buffer stays the end of the output, and within its size.     *)
LEMMA TrimmedRing ==
  ASSUME NEW ring \in Seq(Chunks), NEW n \in Nat, n + 1 \in Chunks, UpTo(ring, n), Len(ring) <= RingCap
  PROVE  LET new == Trimmed(Append(ring, n + 1)) IN
           new \in Seq(Chunks) /\ Len(new) <= RingCap /\ UpTo(new, n + 1)
<1> DEFINE a == Append(ring, n + 1)
<1>1. a \in Seq(Chunks) /\ Len(a) = Len(ring) + 1 /\ Len(ring) \in Nat
  BY AppendProperties
<1>2. UpTo(a, n + 1)
  BY UpToAppend
<1>3. RingCap \in Nat /\ RingCap > 0
  BY TerminalAssumption
<1> HIDE DEF a
<1>4. CASE Len(a) > RingCap
  <2>1. Trimmed(a) = Tail(a) /\ Len(a) > 1
    BY <1>1, <1>3, <1>4 DEF Trimmed
  <2>2. a # <<>>
    BY <1>1
  <2>3. Tail(a) \in Seq(Chunks) /\ Len(Tail(a)) = Len(a) - 1
    BY <1>1, <2>2, HeadTailProperties
  <2>4. UpTo(Tail(a), n + 1)
    BY <1>1, <1>2, <2>1, UpToTail
  <2>5. Len(Tail(a)) <= RingCap
    BY <1>1, <1>3, <2>3
  <2> QED
    BY <2>1, <2>3, <2>4, <2>5 DEF a
<1>5. CASE ~(Len(a) > RingCap)
  <2>1. Trimmed(a) = a /\ Len(a) <= RingCap
    BY <1>1, <1>3, <1>5 DEF Trimmed
  <2> QED
    BY <1>1, <1>2, <2>1 DEF a
<1> QED
  BY <1>4, <1>5

(* A chunk after the others keeps their order.                             *)
LEMMA LaterChunk ==
  ASSUME NEW st \in Seq(Chunks), NEW n \in Nat, n + 1 \in Chunks, Increasing(st),
         \A i \in 1..Len(st) : st[i] <= n
  PROVE  /\ Increasing(Append(st, n + 1))
         /\ \A i \in 1..Len(Append(st, n + 1)) : Append(st, n + 1)[i] <= n + 1
<1>1. \A i \in 1..Len(st) : st[i] \in Nat
  BY ChunksAreNumbers, \A i \in 1..Len(st) : st[i] \in Chunks
<1>2. \A i \in 1..Len(st) : st[i] < n + 1
  BY <1>1
<1> QED
  BY <1>2, IncreasingAppend

LEMMA AppendChunkStep == ASSUME HubInv, NEW s \in Shells, AppendChunk(s) PROVE HubInv'
<1>1. /\ HubTypeOK /\ shell \in [Shells -> Shell] /\ conn \in [Conns -> Conn] /\ shell[s] \in Shell
      /\ shell[s].send \in Conns \cup {Nil} /\ Nil \notin Conns
      /\ shell[s].ring \in Seq(Chunks) /\ Len(shell[s].ring) <= RingCap
      /\ SubscriberIsOpen(s) /\ NothingInvented(s) /\ Complete(s)
  BY TerminalAssumption DEF HubInv, HubTypeOK, Shell
<1>2. PICK chunk : chunk = shell[s].written + 1
  OBVIOUS
<1>3. PICK c : c = shell[s].send
  OBVIOUS
<1>4. PICK ring : ring = Trimmed(Append(shell[s].ring, chunk))
  OBVIOUS
<1>5. /\ shell[s].written \in Nat /\ shell[s].written < MaxChunks
      /\ chunk \in Chunks /\ chunk \in 0..MaxChunks /\ chunk \in Nat
  <2>1. shell[s].written \in 0..MaxChunks /\ MaxChunks \in Nat /\ shell[s].written < MaxChunks
    BY <1>1, TerminalAssumption DEF Shell, AppendChunk, Pumping
  <2> QED
    BY <1>2, <2>1 DEF Chunks
<1>6. ring \in Seq(Chunks) /\ Len(ring) <= RingCap /\ UpTo(ring, chunk)
  BY <1>1, <1>2, <1>4, <1>5, TrimmedRing DEF NothingInvented
<1>7. shell' = [shell EXCEPT ![s] = [shell[s] EXCEPT !.written = chunk, !.ring = ring]]
      /\ conn' = Sent(c, chunk) /\ UNCHANGED registry
  BY <1>1, <1>2, <1>3, <1>4 DEF AppendChunk
<1>8. LET x == [shell[s] EXCEPT !.written = chunk, !.ring = ring] IN
        x \in Shell /\ x.written = chunk /\ x.ring = ring /\ x.state = shell[s].state
        /\ x.send = shell[s].send /\ x.newest = shell[s].newest
  BY <1>1, <1>5, <1>6 DEF Shell
<1>9. /\ shell' \in [Shells -> Shell] /\ shell'[s].written = chunk /\ shell'[s].ring = ring
      /\ \A y \in Shells : /\ shell'[y].state = shell[y].state /\ shell'[y].send = shell[y].send
                           /\ shell'[y].newest = shell[y].newest
                           /\ y # s => shell'[y] = shell[y]
  BY <1>1, <1>7, <1>8
<1>10. /\ conn' \in [Conns -> Conn]
       /\ \A d \in Conns : d # c => conn'[d] = conn[d]
       /\ c # Nil => /\ conn'[c].pc = conn[c].pc /\ conn'[c].shell = conn[c].shell
                     /\ conn'[c].screen = conn[c].screen /\ conn'[c].replay = conn[c].replay
                     /\ conn'[c].writer = conn[c].writer /\ conn'[c].told = conn[c].told
                     /\ conn'[c].up = conn[c].up /\ conn'[c].stolen = conn[c].stolen
                     /\ conn'[c].shut = conn[c].shut /\ conn'[c].atEnd = conn[c].atEnd
                     /\ Len(conn'[c].queue) <= QueueCap
                     /\ \/ conn'[c].queue = Append(conn[c].queue, chunk) /\ conn'[c].lost = conn[c].lost
                        \/ conn'[c].queue = conn[c].queue /\ conn'[c].lost
  <2>1. CASE c = Nil
    BY <1>1, <1>7, <2>1 DEF Sent
  <2>2. CASE c # Nil
    <3>1. c \in Conns /\ conn[c] \in Conn /\ conn[c].queue \in Seq(Chunks) /\ QueueCap \in Nat
          /\ Len(conn[c].queue) <= QueueCap /\ Len(conn[c].queue) \in Nat
      BY <1>1, <1>3, <2>2, TerminalAssumption DEF HubTypeOK, Conn
    <3>2. CASE Len(conn[c].queue) < QueueCap
      <4>1. PICK q : q = Append(conn[c].queue, chunk)
        OBVIOUS
      <4>2. q \in Seq(Chunks) /\ Len(q) <= QueueCap
        BY <1>5, <3>1, <3>2, <4>1, AppendProperties
      <4>3. conn' = [conn EXCEPT ![c] = [conn[c] EXCEPT !.queue = q]]
        BY <1>1, <1>7, <2>2, <3>2, <4>1 DEF Sent
      <4>4. [conn[c] EXCEPT !.queue = q] \in Conn
        BY <3>1, <4>2 DEF Conn
      <4>5. conn' \in [Conns -> Conn] /\ conn'[c] = [conn[c] EXCEPT !.queue = q]
            /\ \A d \in Conns : d # c => conn'[d] = conn[d]
        BY <1>1, <3>1, <4>3, <4>4
      <4> QED
        BY <3>1, <4>1, <4>2, <4>5 DEF Conn
    <3>3. CASE ~(Len(conn[c].queue) < QueueCap)
      <4>1. conn' = [conn EXCEPT ![c] = [conn[c] EXCEPT !.lost = TRUE]]
        BY <1>1, <1>7, <2>2, <3>3 DEF Sent
      <4>2. [conn[c] EXCEPT !.lost = TRUE] \in Conn
        BY <3>1 DEF Conn
      <4>3. conn' \in [Conns -> Conn] /\ conn'[c] = [conn[c] EXCEPT !.lost = TRUE]
            /\ \A d \in Conns : d # c => conn'[d] = conn[d]
        BY <1>1, <3>1, <4>1, <4>2
      <4> QED
        BY <3>1, <4>3 DEF Conn
    <3> QED
      BY <3>2, <3>3
  <2> QED
    BY <2>1, <2>2
<1>11. HubTypeOK'
  <2>1. ASSUME NEW y \in Shells PROVE Len(shell'[y].ring) <= RingCap
    <3>1. CASE y = s
      BY <1>6, <1>9, <3>1
    <3>2. CASE y # s
      BY <1>1, <1>9, <3>2 DEF HubTypeOK
    <3> QED
      BY <3>1, <3>2
  <2>2. \A d \in Conns : Len(conn'[d].queue) <= QueueCap
    BY <1>1, <1>10 DEF HubTypeOK
  <2> QED
    BY <1>1, <1>7, <1>9, <1>10, <2>1, <2>2 DEF HubTypeOK
<1>12. UsedShellsAreStarted' /\ NoOrphanShell' /\ NewestIsServed'
  <2>1. live \in Shells \cup {Nil}
    BY <1>1 DEF HubTypeOK
  <2>2. \A d \in Conns : conn'[d].pc = conn[d].pc /\ conn'[d].shell = conn[d].shell
    BY <1>1, <1>10
  <2>3. UsedShellsAreStarted'
    BY <1>7, <1>9, <2>1, <2>2 DEF HubInv, UsedShellsAreStarted
  <2> QED
    BY <1>7, <1>9, <2>3 DEF HubInv, NoOrphanShell, NewestIsServed
<1>13. ASSUME c # Nil
       PROVE  /\ c \in Conns /\ conn[c].pc = "open" /\ conn[c].shell = s
              /\ Increasing(Stream(c))' /\ (\A i \in 1..Len(Stream(c)) : Stream(c)[i] <= chunk)'
              /\ conn'[c].lost \/ (Stream(c)' = Append(Stream(c), chunk) /\ ~conn[c].lost)
  <2>1. c \in Conns /\ conn[c].pc = "open" /\ conn[c].shell = s
    BY <1>1, <1>3, <1>13 DEF SubscriberIsOpen
  <2>2. Increasing(Stream(c)) /\ \A i \in 1..Len(Stream(c)) : Stream(c)[i] <= shell[s].written
    BY <1>1, <1>3, <1>13, <2>1 DEF HubInv, NothingInvented
  <2>3. conn[c] \in Conn
    BY <1>1, <2>1
  <2>4. /\ conn[c].screen \in Seq(Chunks) /\ conn[c].replay \in Seq(Chunks)
        /\ conn[c].queue \in Seq(Chunks) /\ Stream(c) \in Seq(Chunks)
    BY <2>1, <2>3, StreamType
  <2>5. CASE conn'[c].queue = Append(conn[c].queue, chunk) /\ conn'[c].lost = conn[c].lost
    <3>1. Stream(c)' = conn[c].screen \o conn[c].replay \o Append(conn[c].queue, chunk)
      BY <1>10, <1>13, <2>5 DEF Stream
    <3>2. Stream(c)' = Append(Stream(c), chunk)
      BY <1>5, <2>4, <3>1, AppendToStream DEF Stream
    <3>3. Increasing(Append(Stream(c), chunk))
          /\ \A i \in 1..Len(Append(Stream(c), chunk)) : Append(Stream(c), chunk)[i] <= chunk
      BY <1>2, <1>5, <2>2, <2>4, LaterChunk
    <3>4. Increasing(Stream(c))'
      BY <3>2, <3>3 DEF Increasing
    <3>5. (\A i \in 1..Len(Stream(c)) : Stream(c)[i] <= chunk)'
      BY <3>2, <3>3
    <3> QED
      BY <2>1, <2>5, <3>2, <3>4, <3>5
  <2>6. CASE conn'[c].queue = conn[c].queue /\ conn'[c].lost
    <3>1. Stream(c)' = Stream(c)
      BY <1>10, <1>13, <2>6 DEF Stream
    <3>2. \A i \in 1..Len(Stream(c)) : Stream(c)[i] \in Nat
      BY ChunksAreNumbers, <2>4, \A i \in 1..Len(Stream(c)) : Stream(c)[i] \in Chunks
    <3>3. \A i \in 1..Len(Stream(c)) : Stream(c)[i] <= chunk
      BY <1>2, <1>5, <2>2, <3>2
    <3>4. Increasing(Stream(c))'
      BY <2>2, <3>1 DEF Increasing
    <3>5. (\A i \in 1..Len(Stream(c)) : Stream(c)[i] <= chunk)'
      BY <3>1, <3>3
    <3> QED
      BY <2>1, <2>6, <3>4, <3>5
  <2> QED
    BY <1>10, <1>13, <2>5, <2>6
<1>14. ASSUME NEW y \in Shells PROVE SubscriberIsOpen(y)' /\ NothingInvented(y)' /\ Complete(y)'
  <2>1. CASE y = s
    <3>1. (shell[y].send)' = c /\ (shell[y].written)' = chunk /\ (shell[y].ring)' = ring
          /\ (shell[y].state)' = shell[y].state
      BY <1>3, <1>9, <2>1
    <3>2. SubscriberIsOpen(y)'
      BY <1>1, <1>3, <1>10, <1>13, <2>1, <3>1 DEF SubscriberIsOpen
    <3>3. NothingInvented(y)'
      <4>1. UpTo(shell[y].ring, shell[y].written)'
        BY <1>6, <3>1 DEF UpTo
      <4>2. c # Nil => (\A i \in 1..Len(Stream(shell[y].send)) : Stream(shell[y].send)[i] <= shell[y].written)'
        <5>1. Stream(shell[y].send)' = Stream(c)'
          BY <3>1 DEF Stream
        <5> QED
          BY <1>13, <3>1, <5>1
      <4> QED
        BY <3>1, <4>1, <4>2 DEF NothingInvented
    <3>4. Complete(y)'
      <4> SUFFICES ASSUME c # Nil, conn'[c].up, ~conn'[c].lost
                   PROVE  UpTo(Stream(c), shell[y].written)'
        BY <3>1 DEF Complete, Stream
      <4>1. Stream(c)' = Append(Stream(c), chunk) /\ ~conn[c].lost /\ conn[c].up
        BY <1>10, <1>13
      <4>2. UpTo(Stream(c), shell[s].written)
        BY <1>1, <1>3, <4>1 DEF Complete
      <4>3. Stream(c) \in Seq(Chunks)
        BY <1>1, <1>13, StreamType
      <4>4. UpTo(Append(Stream(c), chunk), chunk)
        BY <1>2, <1>5, <4>2, <4>3, UpToAppend
      <4> QED
        BY <3>1, <4>1, <4>4 DEF UpTo
    <3> QED
      BY <3>2, <3>3, <3>4
  <2>2. CASE y # s
    <3>1. shell'[y] = shell[y]
      BY <1>9, <2>2
    <3>2. shell[y].send # Nil => conn'[shell[y].send] = conn[shell[y].send]
      <4>1. shell[y].send # Nil => shell[y].send # c /\ shell[y].send \in Conns
        BY <1>1, <1>3, <2>2, OneShellEach DEF Shell
      <4> QED
        BY <1>10, <4>1
    <3> QED
      BY <3>1, <3>2, ShellStays
  <2> QED
    BY <2>1, <2>2
<1>15. ASSUME NEW d \in Conns PROVE Served(d)' /\ Told(d)' /\ Increasing(Stream(d))'
  <2>1. conn[d].pc = "open" => conn[d].shell \in Shells
    BY DEF HubInv, UsedShellsAreStarted
  <2>2. Served(d) /\ Told(d)
    BY DEF HubInv
  <2>3. CASE d # c
    <3>1. conn'[d] = conn[d] /\ (conn[d].pc = "open" => SameShell(d))
      BY <1>9, <1>10, <2>1, <2>3 DEF SameShell
    <3> QED
      BY <3>1, ConnStays
  <2>4. CASE d = c
    <3>1. c # Nil
      BY <1>1, <2>4
    <3>2. Served(d)'
      BY <1>9, <1>10, <1>13, <2>2, <2>4, <3>1 DEF Served
    <3>3. Told(d)'
      <4>1. /\ conn'[d].pc = conn[d].pc /\ conn'[d].shell = s /\ conn[d].shell = s
            /\ conn'[d].up = conn[d].up /\ conn'[d].stolen = conn[d].stolen
            /\ conn'[d].told = conn[d].told /\ conn'[d].writer = conn[d].writer
            /\ conn'[d].atEnd = conn[d].atEnd /\ conn'[d].shut = conn[d].shut
        BY <1>10, <1>13, <2>4, <3>1
      <4>2. shell'[s].state = shell[s].state
        BY <1>9
      <4> QED
        BY <2>2, <4>1, <4>2 DEF Told
    <3> QED
      BY <1>13, <2>4, <3>1, <3>2, <3>3
  <2> QED
    BY <2>3, <2>4
<1> QED
  BY <1>11, <1>12, <1>14, <1>15 DEF HubInv

(***************************************************************************)
(* The tabs                                                                *)
(***************************************************************************)

LEMMA HubStays == ASSUME HubInv, UNCHANGED hub PROVE HubInv'
<1>1. NoOrphanShell'
  BY DEF hub, HubInv, NoOrphanShell
<1>2. UNCHANGED <<shell, conn>> /\ live' = live
  BY DEF hub
<1>3. tickets' \subseteq issued' /\ issued' \subseteq Tickets /\ closing' \subseteq Shells
  BY DEF hub, HubInv, HubTypeOK
<1> QED
  BY <1>1, <1>2, <1>3, RegistryStep

LEMMA HubSteps == ASSUME HubInv, HubNext PROVE HubInv'
<1>1. CASE Logout
  BY <1>1, LogoutStep
<1>2. CASE \E k \in Tickets : Expire(k)
  BY <1>2, ExpireStep
<1>3. ASSUME NEW c \in Conns, Handler(c) PROVE HubInv'
  BY <1>3, RedeemStep, UpgradeFailsStep, StartShellStep, StartFailsStep, ResumeStep, NothingToResumeStep,
     AttachStep, HangUpStep DEF Handler
<1>4. ASSUME NEW c \in Conns, Writer(c) PROVE HubInv'
  BY <1>4, WriteReplayStep, WriteChunkStep, WriteEndedStep DEF Writer
<1>5. ASSUME NEW s \in Shells, Exit(s) \/ AppendChunk(s) \/ End(s) \/ Registrar(s) PROVE HubInv'
  BY <1>5, ExitStep, AppendChunkStep, EndStep, CloseShellStep, ReapStep DEF Registrar
<1> QED
  BY <1>1, <1>2, <1>3, <1>4, <1>5 DEF HubNext

LEMMA TabTypes ==
  ASSUME TypeOK, NEW t \in Tabs
  PROVE  tab \in [Tabs -> Tab] /\ tab[t] \in Tab /\ FreshTab \in Tab /\ FreshTab.view = "picker"
         /\ tab[t].conn \in Conns \cup {Nil} /\ tab[t].ticket \in Tickets \cup {Nil}
BY DEF TypeOK, Tab, FreshTab

(* One tab changes, and has a socket if its view is open.                  *)
LEMMA TabStep ==
  ASSUME TabInv, HubInv', NEW t \in Tabs, NEW r \in Tab, tab' = [tab EXCEPT ![t] = r],
         r.view = "open" => r.conn # Nil
  PROVE  TabInv'
<1>1. tab' \in [Tabs -> Tab] /\ \A u \in Tabs : tab'[u] = IF u = t THEN r ELSE tab[u]
  BY DEF TabInv, TypeOK
<1>2. HubTypeOK'
  BY DEF HubInv
<1> QED
  BY <1>1, <1>2 DEF TabInv, TypeOK

LEMMA PickStep == ASSUME TabInv, NEW t \in Tabs, Pick(t) PROVE TabInv'
<1>1. PICK k \in Tickets : OpenSession(k) /\ tab' = [tab EXCEPT ![t] =
                           [@ EXCEPT !.view = "connect", !.active = TRUE, !.ticket = k]]
  BY DEF Pick
<1> DEFINE r == [tab[t] EXCEPT !.view = "connect", !.active = TRUE, !.ticket = k]
<1>2. tab[t] \in Tab /\ tab \in [Tabs -> Tab]
  BY TabTypes DEF TabInv
<1>3. r \in Tab /\ r.view = "connect"
  BY <1>2 DEF Tab
<1>4. tab' = [tab EXCEPT ![t] = r]
  BY <1>1, <1>2
<1>5. HubInv'
  BY <1>1, OpenSessionStep DEF TabInv
<1> QED
  BY <1>3, <1>4, <1>5, TabStep

LEMMA ConnectStep == ASSUME TabInv, NEW t \in Tabs, Connect(t) PROVE TabInv'
<1>1. PICK c \in Conns : /\ Free(c) /\ Request(c, tab[t].ticket)
                        /\ tab' = [tab EXCEPT ![t].view = "open", ![t].ticket = Nil, ![t].conn = c]
  BY DEF Connect
<1> DEFINE r == [tab[t] EXCEPT !.view = "open", !.ticket = Nil, !.conn = c]
<1>2. tab[t] \in Tab /\ tab \in [Tabs -> Tab] /\ tab[t].ticket \in Tickets \cup {Nil} /\ c # Nil
  BY TabTypes, TerminalAssumption DEF TabInv
<1>3. r \in Tab /\ r.conn = c
  BY <1>2 DEF Tab
<1>4. tab' = [tab EXCEPT ![t] = r]
  BY <1>1, <1>2
<1>5. HubInv'
  BY <1>1, <1>2, RequestStep DEF TabInv, Free, Connect
<1> QED
  BY <1>2, <1>3, <1>4, <1>5, TabStep

LEMMA OnCloseStep == ASSUME TabInv, NEW t \in Tabs, OnClose(t) PROVE TabInv'
<1> DEFINE r == IF conn[tab[t].conn].told THEN FreshTab ELSE [tab[t] EXCEPT !.view = "connect", !.conn = Nil]
<1>1. tab[t] \in Tab /\ tab \in [Tabs -> Tab] /\ FreshTab \in Tab /\ FreshTab.view = "picker"
  BY TabTypes DEF TabInv
<1>2. r \in Tab /\ r.view # "open"
  BY <1>1 DEF Tab
<1>3. tab' = [tab EXCEPT ![t] = r]
  BY <1>1 DEF OnClose
<1>4. HubInv'
  BY HubStays DEF TabInv, OnClose
<1> QED
  BY <1>2, <1>3, <1>4, TabStep

LEMMA ReturnStep == ASSUME TabInv, NEW t \in Tabs, Return(t) PROVE TabInv'
<1> DEFINE r == [tab[t] EXCEPT !.view = IF tab[t].active THEN "connect" ELSE "picker"]
<1>1. tab[t] \in Tab /\ tab \in [Tabs -> Tab]
  BY TabTypes DEF TabInv
<1>2. r \in Tab /\ r.view # "open"
  BY <1>1 DEF Tab
<1>3. tab' = [tab EXCEPT ![t] = r]
  BY <1>1 DEF Return
<1>4. HubInv'
  BY HubStays DEF TabInv, Return
<1> QED
  BY <1>2, <1>3, <1>4, TabStep

LEMMA CutKeeps ==
  ASSUME TabInv, NEW t \in Tabs, conn' = Cut(tab[t].conn), UNCHANGED <<registry, shell>>
  PROVE  HubInv'
<1>1. CASE tab[t].conn = Nil
  BY <1>1, HubStays DEF TabInv, Cut, hub
<1>2. CASE tab[t].conn # Nil
  BY <1>2, TabTypes, CutStep DEF TabInv
<1> QED
  BY <1>1, <1>2

LEMMA DropStep == ASSUME TabInv, NEW t \in Tabs, Drop(t) PROVE TabInv'
<1>1. HubInv'
  BY CutKeeps DEF Drop
<1>2. HubTypeOK'
  BY <1>1 DEF HubInv
<1> QED
  BY <1>1, <1>2 DEF TabInv, TypeOK, Drop

LEMMA LeaveStep == ASSUME TabInv, NEW t \in Tabs, Leave(t) PROVE TabInv'
<1> DEFINE r == [tab[t] EXCEPT !.view = "away", !.conn = Nil]
<1>1. tab[t] \in Tab /\ tab \in [Tabs -> Tab]
  BY TabTypes DEF TabInv
<1>2. r \in Tab /\ r.view = "away"
  BY <1>1 DEF Tab
<1>3. tab' = [tab EXCEPT ![t] = r]
  BY <1>1 DEF Leave
<1>4. HubInv'
  BY CutKeeps DEF Leave
<1> QED
  BY <1>2, <1>3, <1>4, TabStep

LEMMA ReloadStep == ASSUME TabInv, NEW t \in Tabs, Reload(t) PROVE TabInv'
<1>1. FreshTab \in Tab /\ FreshTab.view = "picker"
  BY TabTypes DEF TabInv
<1>2. tab' = [tab EXCEPT ![t] = FreshTab] /\ HubInv'
  BY CutKeeps DEF Reload
<1> QED
  BY <1>1, <1>2, TabStep

LEMMA InitInv == Init => TabInv
<1> SUFFICES ASSUME Init PROVE TabInv
  OBVIOUS
<1>1. HubInv /\ HubTypeOK
  BY InitHub DEF Init, HubInv
<1> QED
  BY <1>1 DEF Init, TabInv, TypeOK, Tab, FreshTab

LEMMA NextInv == TabInv /\ [Next]_vars => TabInv'
<1> SUFFICES ASSUME TabInv, [Next]_vars PROVE TabInv'
  OBVIOUS
<1>1. CASE HubNext /\ UNCHANGED tab
  <2>1. HubInv' /\ HubTypeOK'
    BY <1>1, HubSteps DEF TabInv, HubInv
  <2> QED
    BY <1>1, <2>1 DEF TabInv, TypeOK
<1>2. ASSUME NEW t \in Tabs, User(t) \/ Script(t) PROVE TabInv'
  BY <1>2, PickStep, DropStep, LeaveStep, ReturnStep, ReloadStep, ConnectStep, OnCloseStep
     DEF User, Script
<1>3. CASE UNCHANGED vars
  <2>1. HubInv' /\ HubTypeOK'
    BY <1>3, HubStays DEF vars, hub, TabInv, HubInv
  <2> QED
    BY <1>3, <2>1 DEF vars, TabInv, TypeOK
<1> QED
  BY <1>1, <1>2, <1>3 DEF Next

(***************************************************************************)
(* Theorems                                                                *)
(***************************************************************************)

(* The invariant of the terminal and its tabs, for any number of tabs,     *)
(* connections, shells and chunks and any size of buffer and channel.      *)
THEOREM TerminalIsSound == Spec => []TabInv
BY InitInv, NextInv, PTL DEF Spec

(* Replacement, logout and reaper leave no shell running that neither the  *)
(* registry nor a logout under way refers to (handlers_terminal.go:135-    *)
(* 163, 241-249).                                                          *)
THEOREM ShellsAreReachable == Spec => []NoOrphanShell
<1>1. TabInv => NoOrphanShell
  BY DEF TabInv, HubInv
<1> QED
  BY <1>1, TerminalIsSound, PTL

(* attach neither misses a chunk nor repeats one: what a subscribed client *)
(* that keeps up has seen and will see is an unbroken end of the output    *)
(* (handlers_terminal.go:281-292, 311-321).                                *)
THEOREM ReplayMeetsStream == Spec => []NothingMissed
<1>1. TabInv => NothingMissed
  BY DEF TabInv, HubInv, NothingMissed
<1> QED
  BY <1>1, TerminalIsSound, PTL

(* No screen, slow or not, shows a chunk twice or out of order.            *)
THEOREM ScreensAreInOrder == Spec => []OutputInOrder
<1>1. TabInv => OutputInOrder
  BY DEF TabInv, HubInv, OutputInOrder
<1> QED
  BY <1>1, TerminalIsSound, PTL

(* The connection that attached last is the subscriber, however late older *)
(* ones hang up (handlers_terminal.go:323-329).                            *)
THEOREM NewestKeepsTheShell == Spec => []NewestIsServed
<1>1. TabInv => NewestIsServed
  BY DEF TabInv, HubInv
<1> QED
  BY <1>1, TerminalIsSound, PTL

(* Whoever is in front of a shell that has ended is told or will be by its *)
(* writer (handlers_terminal.go:178-203, 294-319).                         *)
THEOREM EndReachesTheClient == Spec => []EndIsTold
<1>1. TabInv => EndIsTold
  BY DEF TabInv, HubInv, EndIsTold
<1> QED
  BY <1>1, TerminalIsSound, PTL
=============================================================================
