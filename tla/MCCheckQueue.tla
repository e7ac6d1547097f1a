----------------------------- MODULE MCCheckQueue -----------------------------
(* Two workers and a master, three checks of which one fails. *)
EXTENDS CheckQueue, TLC

CONSTANTS w1, w2, c1, c2, c3

MCWorkers == {w1, w2}
MCChecks == {c1, c2, c3}
MCBadChecks == {c3}
===============================================================================
