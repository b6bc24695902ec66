---------------------------- MODULE TerminalHub ----------------------------
(***************************************************************************)
(* The server side of the browser terminal (handlers_terminal.go): one-    *)
(* shot tickets, the shell kept alive for a user across connections, its   *)
(* pump and replay buffer, and the handler and writer of each WebSocket.   *)
(*                                                                         *)
(* The user has one entry in s.termLive; s.termMu makes each section on    *)
(* tickets and registry one step, lt.mu each section on a shell.  Output   *)
(* is a series of numbered chunks, one per read of the pump.  The module   *)
(* TerminalTab adds the browser and composes the two.                      *)
(***************************************************************************)
EXTENDS Naturals, Sequences, FiniteSets

CONSTANTS Shells,    \* shells ever started (a bound)
          Conns,     \* connections that exist at one time (a bound)
          Tickets,   \* tickets ever issued (a bound)
          MaxChunks, \* chunks a shell writes (a bound)
          RingCap,   \* chunks the replay buffer holds
          QueueCap,  \* chunks the channel of a subscriber holds
          Nil

ASSUME TerminalAssumption ==
  /\ MaxChunks \in Nat
  /\ RingCap \in Nat \ {0} /\ QueueCap \in Nat \ {0}
  /\ Nil \notin Shells \cup Conns \cup Tickets

VARIABLES tickets, \* s.termTickets: those that have not expired
          issued,  \* tickets drawn so far
          live,    \* s.termLive[owner]
          closing, \* shells a logout has taken from the registry to close
          shell,   \* the liveTerm structs and the processes behind them
          conn     \* connections: handler, writer, channel, and the screen behind

registry == <<tickets, issued, live, closing>>
hub == <<tickets, issued, live, closing, shell, conn>>

Chunks == 1..MaxChunks

(* "exited": the process is gone and the pump has not seen it; "ended":    *)
(* it has.  newest is history: the connection that attached last, until it *)
(* hangs up or the shell ends.                                             *)
Shell == [state : {"none", "running", "exited", "ended"}, written : 0..MaxChunks,
          ring : Seq(Chunks), send : Conns \cup {Nil}, newest : Conns \cup {Nil}]
NoShell == [state |-> "none", written |-> 0, ring |-> <<>>, send |-> Nil, newest |-> Nil]
NewShell == [NoShell EXCEPT !.state = "running"]

(* up: the client is there.  shut: the channel was closed.  lost: history, *)
(* a chunk was dropped because the channel was full; stolen: history, the  *)
(* subscription went to another connection.  screen and told: what the     *)
(* client has received, chunks and the "ended" frame.                      *)
Conn == [pc : {"none", "redeem", "switch", "attach", "open"},
         ticket : Tickets \cup {Nil}, shell : Shells \cup {Nil},
         writer : {"none", "replay", "stream"}, replay : Seq(Chunks),
         queue : Seq(Chunks), shut : BOOLEAN, atEnd : BOOLEAN, lost : BOOLEAN, stolen : BOOLEAN,
         screen : Seq(Chunks), told : BOOLEAN, up : BOOLEAN]
NoConn == [pc |-> "none", ticket |-> Nil, shell |-> Nil, writer |-> "none",
           replay |-> <<>>, queue |-> <<>>, shut |-> FALSE, atEnd |-> FALSE,
           lost |-> FALSE, stolen |-> FALSE, screen |-> <<>>, told |-> FALSE, up |-> FALSE]

HubTypeOK ==
  /\ tickets \subseteq issued /\ issued \subseteq Tickets
  /\ live \in Shells \cup {Nil} /\ closing \subseteq Shells
  /\ shell \in [Shells -> Shell] /\ conn \in [Conns -> Conn]
  /\ \A s \in Shells : Len(shell[s].ring) \leq RingCap
  /\ \A c \in Conns : Len(conn[c].queue) \leq QueueCap

HubInit == /\ tickets = {} /\ issued = {}
           /\ live = Nil /\ closing = {}
           /\ shell = [s \in Shells |-> NoShell]
           /\ conn = [c \in Conns |-> NoConn]

(***************************************************************************)
(* Tickets                                                                 *)
(***************************************************************************)

(* POST /api/terminal/session after its checks.                            *)
OpenSession(k) ==
  /\ k \notin issued /\ k = CHOOSE x \in Tickets : x \notin issued
  /\ issued' = issued \cup {k}
  /\ tickets' = tickets \cup {k}
  /\ UNCHANGED <<live, closing, shell, conn>>

(* Thirty seconds pass.  An expired ticket is refused like an unknown one, *)
(* so that when it is purged does not matter.                              *)
Expire(k) ==
  /\ k \in tickets /\ tickets' = tickets \ {k}
  /\ UNCHANGED <<issued, live, closing, shell, conn>>

(* GET /api/terminal, past requireAuth, with a ticket or without (Nil).    *)
Request(c, k) ==
  conn' = [conn EXCEPT ![c] =
    [NoConn EXCEPT !.pc = IF k = Nil THEN "switch" ELSE "redeem", !.ticket = k, !.up = TRUE]]

(* The handler returns: the deferred conn.Close() reaches the client.      *)
Over(c) == [NoConn EXCEPT !.told = conn[c].told]

(* 403 unless the ticket is known and fresh; it is deleted either way.     *)
Redeem(c) ==
  /\ conn[c].pc = "redeem"
  /\ LET k == conn[c].ticket IN
       /\ tickets' = tickets \ {k}
       /\ conn' = [conn EXCEPT ![c] =
            IF k \in tickets THEN [@ EXCEPT !.pc = "switch"] ELSE Over(c)]
  /\ UNCHANGED <<issued, live, closing, shell>>

(* The upgrade to a WebSocket fails; a ticket is used up all the same.     *)
UpgradeFails(c) ==
  /\ conn[c].pc \in {"redeem", "switch"}
  /\ tickets' = tickets \ {conn[c].ticket}
  /\ conn' = [conn EXCEPT ![c] = Over(c)]
  /\ UNCHANGED <<issued, live, closing, shell>>

(***************************************************************************)
(* The registry: one section under s.termMu                                *)
(***************************************************************************)

(* Session.Close: the process is killed, the next read of the pump fails.  *)
Killed(s) == [shell EXCEPT ![s].state = IF @ = "running" THEN "exited" ELSE @]
LiveKilled == IF live = Nil THEN shell ELSE Killed(live)

FreshShell == CHOOSE s \in Shells : shell[s] = NoShell
CanStart == \E s \in Shells : shell[s] = NoShell

(* A ticket closes the shell of the registry and starts another.           *)
StartShell(c) ==
  /\ conn[c].pc = "switch" /\ conn[c].ticket # Nil /\ CanStart
  /\ \E s \in Shells :
       /\ s = FreshShell
       /\ shell' = [LiveKilled EXCEPT ![s] = NewShell]
       /\ live' = s
       /\ conn' = [conn EXCEPT ![c].pc = "attach", ![c].shell = s]
  /\ UNCHANGED <<tickets, issued, closing>>

(* The shell does not start: the old one is closed all the same.           *)
StartFails(c) ==
  /\ conn[c].pc = "switch" /\ conn[c].ticket # Nil
  /\ shell' = LiveKilled
  /\ conn' = [conn EXCEPT ![c] = Over(c)]
  /\ UNCHANGED registry

Resumable == live # Nil /\ shell[live].state # "ended"

(* Without a ticket: the running shell of the registry, if there is one.   *)
Resume(c) ==
  /\ conn[c].pc = "switch" /\ conn[c].ticket = Nil
  /\ Resumable
  /\ conn' = [conn EXCEPT ![c].pc = "attach", ![c].shell = live]
  /\ UNCHANGED <<registry, shell>>

(* Otherwise an "ended" frame, and the handler returns.                    *)
NothingToResume(c) ==
  /\ conn[c].pc = "switch" /\ conn[c].ticket = Nil
  /\ ~Resumable
  /\ conn' = [conn EXCEPT ![c] = [Over(c) EXCEPT !.told = conn[c].up]]
  /\ UNCHANGED <<registry, shell>>

(* closeUserTerminal: the shell leaves the registry ...                    *)
Logout ==
  /\ live # Nil
  /\ live' = Nil /\ closing' = closing \cup {live}
  /\ UNCHANGED <<tickets, issued, shell, conn>>

(* ... and is closed after the unlock.                                     *)
CloseShell(s) ==
  /\ s \in closing /\ closing' = closing \ {s}
  /\ shell' = Killed(s)
  /\ UNCHANGED <<tickets, issued, live, conn>>

(* The reaper, once lt.done is closed.  Mutant: whatever is registered.    *)
ReapAny(s) ==
  /\ shell[s].state = "ended" /\ live # Nil
  /\ live' = Nil
  /\ UNCHANGED <<tickets, issued, closing, shell, conn>>
Reap(s) ==
  /\ shell[s].state = "ended" /\ live = s
  /\ live' = Nil
  /\ UNCHANGED <<tickets, issued, closing, shell, conn>>

(***************************************************************************)
(* The shell and its pump                                                  *)
(***************************************************************************)

(* The process exits by itself, for instance on "exit".                    *)
Exit(s) ==
  /\ shell[s].state = "running" /\ shell' = Killed(s)
  /\ UNCHANGED <<registry, conn>>

(* sess.Read returns a chunk, which may outlive the process; under lt.mu   *)
(* the ring takes it, and the channel of the subscriber unless it is full. *)
Pumping(s) == shell[s].state \in {"running", "exited"} /\ shell[s].written < MaxChunks
Trimmed(ring) == IF Len(ring) > RingCap THEN Tail(ring) ELSE ring
Sent(c, chunk) ==
  IF c = Nil THEN conn
  ELSE IF Len(conn[c].queue) < QueueCap THEN [conn EXCEPT ![c].queue = Append(@, chunk)]
  ELSE [conn EXCEPT ![c].lost = TRUE]

(* Mutants: the ring takes what no subscriber took; it is never trimmed.   *)
AppendEither(s) ==
  /\ Pumping(s)
  /\ LET chunk == shell[s].written + 1 IN
       /\ shell' = [shell EXCEPT ![s].written = chunk,
            ![s].ring = IF shell[s].send = Nil THEN Trimmed(Append(@, chunk)) ELSE @]
       /\ conn' = Sent(shell[s].send, chunk)
  /\ UNCHANGED registry
AppendUntrimmed(s) ==
  /\ Pumping(s)
  /\ LET chunk == shell[s].written + 1 IN
       /\ shell' = [shell EXCEPT ![s].written = chunk, ![s].ring = Append(@, chunk)]
       /\ conn' = Sent(shell[s].send, chunk)
  /\ UNCHANGED registry
AppendChunk(s) ==
  /\ Pumping(s)
  /\ LET chunk == shell[s].written + 1 IN
       /\ shell' = [shell EXCEPT ![s].written = chunk, ![s].ring = Trimmed(Append(@, chunk))]
       /\ conn' = Sent(shell[s].send, chunk)
  /\ UNCHANGED registry

(* Mutant: the channel of the subscriber stays open.                       *)
EndQuietly(s) ==
  /\ shell[s].state = "exited"
  /\ shell' = [shell EXCEPT ![s].state = "ended", ![s].send = Nil, ![s].newest = Nil]
  /\ UNCHANGED <<registry, conn>>

(* sess.Read fails: the subscriber's channel is closed, then lt.done.      *)
End(s) ==
  /\ shell[s].state = "exited"
  /\ shell' = [shell EXCEPT ![s].state = "ended", ![s].send = Nil, ![s].newest = Nil]
  /\ conn' = IF shell[s].send = Nil THEN conn
             ELSE [conn EXCEPT ![shell[s].send].shut = TRUE]
  /\ UNCHANGED registry

(***************************************************************************)
(* A connection                                                            *)
(***************************************************************************)

(* lt.attach: one section that copies the ring and subscribes.             *)
Attach(c) ==
  /\ conn[c].pc = "attach"
  /\ LET s == conn[c].shell
         old == shell[s].send
         open == [conn[c] EXCEPT !.pc = "open", !.replay = shell[s].ring,
                    !.writer = IF conn[c].up THEN "replay" ELSE "none",
                    !.atEnd = shell[s].state = "ended"]
     IN /\ shell' = IF shell[s].state = "ended" THEN shell
                    ELSE [shell EXCEPT ![s].send = c, ![s].newest = c]
        /\ conn' = [d \in Conns |-> IF d = c THEN open
                      ELSE IF d = old THEN [conn[d] EXCEPT !.stolen = TRUE] ELSE conn[d]]
  /\ UNCHANGED registry

(* The writer.  What it does for a client that has gone shows nowhere; it  *)
(* ends with its first failing write, or when the handler closes stop.     *)
(* Mutant: it replays the ring as it is now, not the copy of attach.       *)
WriteRingNow(c) ==
  /\ conn[c].writer = "replay" /\ conn[c].up
  /\ conn' = [conn EXCEPT ![c].screen = @ \o shell[conn[c].shell].ring, ![c].replay = <<>>,
                ![c].writer = IF conn[c].atEnd THEN "none" ELSE "stream",
                ![c].told = conn[c].atEnd]
  /\ UNCHANGED <<registry, shell>>
WriteReplay(c) ==
  /\ conn[c].writer = "replay" /\ conn[c].up
  /\ conn' = [conn EXCEPT ![c].screen = @ \o conn[c].replay, ![c].replay = <<>>,
                ![c].writer = IF conn[c].atEnd THEN "none" ELSE "stream",
                ![c].told = conn[c].atEnd]
  /\ UNCHANGED <<registry, shell>>

WriteChunk(c) ==
  /\ conn[c].writer = "stream" /\ conn[c].up /\ conn[c].queue # <<>>
  /\ conn' = [conn EXCEPT ![c].screen = Append(@, Head(conn[c].queue)), ![c].queue = Tail(@)]
  /\ UNCHANGED <<registry, shell>>

(* A closed channel is drained first, then the "ended" frame is written.   *)
WriteEnded(c) ==
  /\ conn[c].writer = "stream" /\ conn[c].up /\ conn[c].queue = <<>> /\ conn[c].shut
  /\ conn' = [conn EXCEPT ![c].told = TRUE, ![c].writer = "none"]
  /\ UNCHANGED <<registry, shell>>

(* Mutant: detach does not look whose channel is subscribed.               *)
HangUpAny(c) ==
  /\ conn[c].pc = "open" /\ ~conn[c].up
  /\ shell' = [shell EXCEPT ![conn[c].shell].send = Nil,
                            ![conn[c].shell].newest = IF @ = c THEN Nil ELSE @]
  /\ conn' = [conn EXCEPT ![c] = Over(c)]
  /\ UNCHANGED registry

(* The reader loop fails: close(stop), lt.detach(send), conn.Close().      *)
HangUp(c) ==
  /\ conn[c].pc = "open" /\ ~conn[c].up
  /\ shell' = [shell EXCEPT ![conn[c].shell].send = IF @ = c THEN Nil ELSE @,
                            ![conn[c].shell].newest = IF @ = c THEN Nil ELSE @]
  /\ conn' = [conn EXCEPT ![c] = Over(c)]
  /\ UNCHANGED registry

Handler(c) == \/ Redeem(c) \/ UpgradeFails(c) \/ StartShell(c) \/ StartFails(c)
              \/ Resume(c) \/ NothingToResume(c) \/ Attach(c) \/ HangUp(c)
Writer(c) == WriteReplay(c) \/ WriteChunk(c) \/ WriteEnded(c)
Registrar(s) == CloseShell(s) \/ Reap(s)

HubNext == \/ Logout
           \/ \E k \in Tickets : Expire(k)
           \/ \E c \in Conns : Handler(c) \/ Writer(c)
           \/ \E s \in Shells : Exit(s) \/ AppendChunk(s) \/ End(s) \/ Registrar(s)

(* Goroutines are scheduled; nothing makes a shell write, exit, or a user  *)
(* log out.  A write blocks only on a client that is gone or stops reading *)
(* its socket, which browsers do not.                                      *)
HubFairness == /\ \A c \in Conns : WF_hub(Handler(c)) /\ WF_hub(Writer(c))
               /\ \A s \in Shells : WF_hub(End(s)) /\ WF_hub(Registrar(s))

(***************************************************************************)
(* Properties                                                              *)
(***************************************************************************)

(* Every running shell is the one of the registry, or a logout is about to *)
(* close it: replacement, logout and the reaper of an older shell never    *)
(* leave a shell that nothing can reach any more (handlers_terminal.go:    *)
(* 135-163, 241-249).                                                      *)
NoOrphanShell == \A s \in Shells : shell[s].state = "running" => live = s \/ s \in closing

(* What a connection has shown, then what waits to be shown.               *)
Stream(c) == conn[c].screen \o conn[c].replay \o conn[c].queue

(* An unbroken series up to the last chunk.                                *)
UpTo(stream, last) == /\ \A i \in 1..Len(stream) : stream[i] = last - Len(stream) + i
                      /\ last > 0 => stream # <<>>

(* While a connection is subscribed, screen, replay and channel together   *)
(* hold an unbroken series up to the last chunk of the pump: attach neither *)
(* misses a chunk nor repeats one (handlers_terminal.go:281-292, 311-321). *)
(* A slow client is excepted ("terminal output is best-effort").           *)
Complete(s) == LET c == shell[s].send IN
  c # Nil /\ conn[c].up /\ ~conn[c].lost => UpTo(Stream(c), shell[s].written)
NothingMissed == \A s \in Shells : Complete(s)

(* When the shell ends, every connection in front of it is told, or will   *)
(* be told by its writer, however the end falls between registry, attach,  *)
(* replay and stream (handlers_terminal.go:178-203, 294-319); except a     *)
(* connection whose subscription went to another one.                      *)
Told(c) == conn[c].pc = "open" /\ conn[c].up /\ ~conn[c].stolen
           /\ shell[conn[c].shell].state = "ended" =>
             \/ conn[c].told
             \/ conn[c].writer = "replay" /\ (conn[c].atEnd \/ conn[c].shut)
             \/ conn[c].writer = "stream" /\ conn[c].shut
EndIsTold == \A c \in Conns : Told(c)

(* Slow or not, a screen never shows a chunk twice or out of order.        *)
Increasing(stream) == \A i \in 1..Len(stream) : \A j \in 1..(i - 1) : stream[j] < stream[i]
OutputInOrder == \A c \in Conns : Increasing(Stream(c))

(* Of the connections on a running shell the one that attached last is the *)
(* subscriber, however late older ones hang up (handlers_terminal.go:323-  *)
(* 329).                                                                   *)
NewestIsServed ==
  \A s \in Shells : LET c == shell[s].newest IN
    c # Nil => shell[s].send = c

(* What the properties rest on.  A shell that is in use was started, and   *)
(* is not started again.                                                   *)
UsedShellsAreStarted ==
  /\ live # Nil => shell[live].state # "none"
  /\ \A c \in Conns : conn[c].pc \in {"attach", "open"} =>
       conn[c].shell \in Shells /\ shell[conn[c].shell].state # "none"

(* The subscriber of a shell is a connection that has attached to it and   *)
(* not hung up, and the shell has not ended.                               *)
SubscriberIsOpen(s) == LET c == shell[s].send IN
  c # Nil => conn[c].pc = "open" /\ conn[c].shell = s /\ shell[s].state \in {"running", "exited"}

(* Its stream has nothing the pump has not read yet; the replay buffer is  *)
(* the end of the output.                                                  *)
NothingInvented(s) ==
  /\ UpTo(shell[s].ring, shell[s].written)
  /\ shell[s].send # Nil =>
       \A i \in 1..Len(Stream(shell[s].send)) : Stream(shell[s].send)[i] <= shell[s].written

(* A connection that nobody followed keeps its subscription while the      *)
(* client is there and the shell has not ended; either the client has been *)
(* told or a writer is there to do it, never both; the replay precedes the *)
(* channel, and nothing is there before attach.                            *)
Served(c) ==
  /\ conn[c].pc = "open" /\ conn[c].up /\ ~conn[c].stolen
     /\ shell[conn[c].shell].state # "ended" => shell[conn[c].shell].send = c
  /\ conn[c].pc = "open" /\ conn[c].up => conn[c].writer \in {"replay", "stream"} \/ conn[c].told
  /\ conn[c].writer # "none" \/ conn[c].pc \notin {"none", "open"} => ~conn[c].told
  /\ conn[c].writer = "stream" => conn[c].replay = <<>>
  /\ conn[c].pc # "open" => /\ conn[c].screen = <<>> /\ conn[c].replay = <<>>
                            /\ conn[c].queue = <<>> /\ conn[c].writer = "none"

HubInv == /\ HubTypeOK /\ UsedShellsAreStarted /\ NoOrphanShell /\ NewestIsServed
          /\ \A s \in Shells : SubscriberIsOpen(s) /\ NothingInvented(s) /\ Complete(s)
          /\ \A c \in Conns : Served(c) /\ Told(c) /\ Increasing(Stream(c))
=============================================================================
