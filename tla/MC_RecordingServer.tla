------------------------ MODULE MC_RecordingServer ------------------------
(* Two clients, two rates they may ask for, and a device with either of two. *)
EXTENDS RecordingServer

CONSTANTS c1, c2

MCClients == {c1, c2}
===========================================================================
