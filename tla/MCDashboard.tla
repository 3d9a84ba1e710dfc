---------------------------- MODULE MCDashboard -----------------------------
(***************************************************************************)
(* A small instance of Dashboard for TLC: a socket of one client and      *)
(* two of a proxy that forwards for whomever it says.                      *)
(***************************************************************************)
EXTENDS Dashboard

CONSTANTS c1, c2, c3, home, proxy, guest

MCPeerOf == [c \in Sockets |-> IF c = c1 THEN home ELSE proxy]
MCKeyOf == [a \in Addresses |-> a]
=============================================================================
