------------------------------ MODULE MC_Feed ------------------------------
(* Three clients one after the other, two of which find a descriptor, and two *)
(* positions besides the default one.                                        *)
EXTENDS Feed

CONSTANTS c1, c2, c3, d, p

MCClients == {c1, c2, c3}
MCValues == {d, p}
============================================================================
