-------------------------- MODULE MC_AppDesktop --------------------------
(* An app, and one of the packages that get no desktop entry. *)
EXTENDS AppDesktop

CONSTANTS app, bench

MCPkgs == {app, bench}
MCExcluded == {bench}
============================================================================
