------------------------- MODULE MC_PlaybackServer -------------------------
(* Two connections: one is served while the other waits in the queue. *)
EXTENDS PlaybackServer

CONSTANTS c1, c2

MCClients == {c1, c2}
============================================================================
