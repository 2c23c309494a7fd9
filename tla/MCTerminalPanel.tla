-------------------------- MODULE MCTerminalPanel --------------------------
(* Instances of TerminalPanel: an agent that wants focus reports and a     *)
(* shell that does not, one retry, and up to MaxConns sockets in a         *)
(* behaviour: enough for a switch there and back with a reconnect between. *)
EXTENDS TerminalPanel

CONSTANTS agent, shell, narrow, wide
=============================================================================
