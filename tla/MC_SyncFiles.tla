--------------------------- MODULE MC_SyncFiles ---------------------------
(* Three files, two of which share a link name; batches of two; a counter that *)
(* may start below zero, at zero or above.                                     *)
EXTENDS SyncFiles

CONSTANTS f1, f2, f3

MCFiles == {f1, f2, f3}
MCSlots == {"s1", "s2"}
MCSlot  == [f \in MCFiles |-> IF f = f1 THEN "s1" ELSE "s2"]

MCInitialCounts == {-1, 0, 2}
============================================================================
