--------------------------- MODULE MC_TerminalTab ---------------------------
(* Instances of TerminalTab: one tab whose connections overlap on the      *)
(* server.  Fresh names are taken in order, so no symmetry is declared.    *)
EXTENDS TerminalTab
=============================================================================
