----------------------------- MODULE MC_Daemon -----------------------------
(***************************************************************************)
(* Daemon with three processes of each program: one that ends, its         *)
(* successor, and a third that is started in between.                      *)
(***************************************************************************)
EXTENDS Daemon, TLC

CONSTANTS p1, p2, p3
MCProcesses == {p1, p2, p3}
MCDaemons == {"audio", "gps", "sensor", "filewatcher", "manager"}
=============================================================================
