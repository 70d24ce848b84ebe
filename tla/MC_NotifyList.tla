-------------------------- MODULE MC_NotifyList --------------------------
(* A picture, and a file whose name only looks like one. *)
EXTENDS NotifyList

CONSTANTS p1, q1

MCPaths == {p1, q1}
MCMedia == {p1}
============================================================================
