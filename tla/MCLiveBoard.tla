---- MODULE MCLiveBoard ----
(* LiveBoard on a small instance. *)
EXTENDS LiveBoard

CONSTANTS tab, server, hook, Nobody

OneBoard == {tab}
TwoWriters == {server, hook}
OneServer == {server}
====
