------------------------------ MODULE Service ------------------------------
(***************************************************************************)
(* What a daemon that is found by a D-Bus name promises its callers: there *)
(* is one server at a time, the name leads to it as long as it serves, and *)
(* between two servers there is a time without one.                        *)
(***************************************************************************)
CONSTANTS Servers, None

VARIABLES
    server,     \* who serves
    name        \* who owns the name

vars == <<server, name>>

Init == server = None /\ name = None

\* The name may be taken before its owner serves.
Appear(p) == name = None /\ server = None /\ name' = p /\ UNCHANGED server

Serve(p) == server = None /\ name \in {None, p} /\ server' = p /\ name' = p

Finish == server # None /\ server' = None /\ name' \in {name, None}

Vanish == server = None /\ name # None /\ name' = None /\ UNCHANGED server

Next == Finish \/ Vanish \/ \E p \in Servers : Appear(p) \/ Serve(p)

Spec == Init /\ [][Next]_vars
=============================================================================
