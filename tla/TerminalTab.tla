---------------------------- MODULE TerminalTab ----------------------------
(***************************************************************************)
(* Browser tabs in front of TerminalHub: the account picker, the view that *)
(* connects, resumes after a drop and leaves with the route, and the store *)
(* that outlives the view (Terminal.tsx, terminalSession.ts).              *)
(***************************************************************************)
EXTENDS TerminalHub

CONSTANT Tabs
ASSUME TabsAssumption == Nil \notin Tabs

VARIABLE tab

vars == <<tickets, issued, live, closing, shell, conn, tab>>

(* view: "connect" will open a socket (at once or when the timer fires),   *)
(* "open" has one, "away" is another route.  active and ticket: the store. *)
Tab == [view : {"picker", "connect", "open", "away"}, active : BOOLEAN,
        ticket : Tickets \cup {Nil}, conn : Conns \cup {Nil}]
FreshTab == [view |-> "picker", active |-> FALSE, ticket |-> Nil, conn |-> Nil]

TypeOK == HubTypeOK /\ tab \in [Tabs -> Tab]

Init == HubInit /\ tab = [t \in Tabs |-> FreshTab]

(* An identity is free again when nobody refers to the connection.         *)
Free(c) == conn[c].pc = "none" /\ \A t \in Tabs : tab[t].conn # c
FreeConn == CHOOSE c \in Conns : Free(c)

(* ws.close(), or the network: the handler finds out later, and nothing    *)
(* reaches the screen any more.                                            *)
Cut(c) == IF c = Nil THEN conn
          ELSE [conn EXCEPT ![c] = [@ EXCEPT !.up = FALSE, !.writer = "none",
                                             !.screen = <<>>, !.replay = <<>>]]

(* The picker obtains a ticket and start() stores it.                      *)
Pick(t) ==
  /\ tab[t].view = "picker"
  /\ \E k \in Tickets :
       /\ OpenSession(k)
       /\ tab' = [tab EXCEPT ![t] = [@ EXCEPT !.view = "connect", !.active = TRUE, !.ticket = k]]

(* The effect of TerminalView: consumeTicket(), new WebSocket.             *)
Connect(t) ==
  /\ tab[t].view = "connect"
  /\ \E c \in Conns :
       /\ Free(c) /\ c = FreeConn /\ Request(c, tab[t].ticket)
       /\ tab' = [tab EXCEPT ![t].view = "open", ![t].ticket = Nil, ![t].conn = c]
  /\ UNCHANGED <<registry, shell>>

(* ws.onclose: end() after an "ended" frame, else the timer is set.        *)
OnClose(t) ==
  /\ tab[t].view = "open" /\ ~conn[tab[t].conn].up
  /\ tab' = [tab EXCEPT ![t] =
       IF conn[@.conn].told THEN FreshTab ELSE [@ EXCEPT !.view = "connect", !.conn = Nil]]
  /\ UNCHANGED hub

Drop(t) ==
  /\ tab[t].view = "open" /\ conn[tab[t].conn].up
  /\ conn' = Cut(tab[t].conn)
  /\ UNCHANGED <<registry, shell, tab>>

(* The effect is cleaned up when the route changes; the store remains.     *)
Leave(t) ==
  /\ tab[t].view \in {"connect", "open"}
  /\ conn' = Cut(tab[t].conn)
  /\ tab' = [tab EXCEPT ![t].view = "away", ![t].conn = Nil]
  /\ UNCHANGED <<registry, shell>>

Return(t) ==
  /\ tab[t].view = "away"
  /\ tab' = [tab EXCEPT ![t].view = IF tab[t].active THEN "connect" ELSE "picker"]
  /\ UNCHANGED hub

(* A reload loses the store, not the shell.                                *)
Reload(t) ==
  /\ tab[t].view # "picker"
  /\ conn' = Cut(tab[t].conn)
  /\ tab' = [tab EXCEPT ![t] = FreshTab]
  /\ UNCHANGED <<registry, shell>>

User(t) == Pick(t) \/ Drop(t) \/ Leave(t) \/ Return(t) \/ Reload(t)
Script(t) == Connect(t) \/ OnClose(t)

Next == \/ HubNext /\ UNCHANGED tab
        \/ \E t \in Tabs : User(t) \/ Script(t)

Spec == Init /\ [][Next]_vars

(* The page runs its events and timers; nothing makes the user act.        *)
FairSpec == Spec /\ HubFairness /\ \A t \in Tabs : WF_vars(Script(t))

(***************************************************************************)
(* Properties                                                              *)
(***************************************************************************)

(* "The shell itself exited (e.g. exit): drop back to the picker"          *)
(* (Terminal.tsx:225): a tab whose shell has said that it ended does not   *)
(* stay in front of it.                                                    *)
BackToPicker ==
  \A t \in Tabs :
    (tab[t].view = "open" /\ conn[tab[t].conn].told) ~> tab[t].view # "open"

(* A tab whose view is open has a socket.                                  *)
TabInv == TypeOK /\ HubInv /\ \A t \in Tabs : tab[t].view = "open" => tab[t].conn # Nil
=============================================================================
