----------------------------- MODULE MC_Display -----------------------------
(* A screen whose windows are large and one whose windows are small, at two   *)
(* scaling factors; a user who has set no display type, or "emugl".  On the   *)
(* first host the desktop changes and calls fail; on the others they do not.  *)
EXTENDS Display

MCScreens == {[w |-> 1920, h |-> 1080], [w |-> 1366, h |-> 768]}
MCFactors == {1, 2}
MCSettings == {Unknown, "emugl"}

Pci(maker, chip) ==
    [maker |-> maker, named |-> UnknownMaker, chip |-> chip, pci |-> TRUE,
     primary |-> TRUE, render |-> TRUE]

Pack == [context |-> TRUE, major |-> 3, minor |-> 2, extensions |-> PackParts]
NoGL == [context |-> FALSE, major |-> 0, minor |-> 0, extensions |-> {}]

Laptop ==
    [cards |-> <<Pci("intel", "skl")>>, default |-> 1, prime |-> Unset, globalPrime |-> Unset,
     nvidiaInUse |-> FALSE, virtual |-> FALSE, gl |-> Pack]

(* The X server's card is nobody's the manager knows; DRI_PRIME takes the other. *)
Hybrid ==
    [Laptop EXCEPT !.cards = <<Pci("nvidia", "other"), Pci("intel", "tgl")>>, !.prime = Other]

(* DRI_PRIME is set for all, and main reads it late. *)
Global ==
    [Laptop EXCEPT !.cards = <<Pci("intel", "skl"), Pci("amd", "R580")>>, !.globalPrime = 2]

(* A chip of AMD that has the number of one of Intel, and is too old. *)
Old == [Laptop EXCEPT !.cards = <<Pci("amd", "5A41")>>, !.gl = NoGL]

(* NVIDIA's driver is in use, and a card of Intel draws. *)
Closed ==
    [Laptop EXCEPT !.cards = <<Pci("intel", "skl"), Pci("nvidia", "other")>>,
                   !.nvidiaInUse = TRUE]

(* A virtual card on no bus, and one beside it that is known by name. *)
Virtual ==
    [Laptop EXCEPT !.cards = <<[Pci(UnknownMaker, "other") EXCEPT !.pci = FALSE],
                               [Pci(UnknownMaker, "other") EXCEPT !.named = "amd"]>>,
                   !.virtual = TRUE]

MCHosts == {Laptop, Hybrid, Global, Old, Closed, Virtual}

MCInit ==
    /\ DisplayInit
    /\ factor = 1
    /\ IF host = Laptop THEN changes = 0 /\ faults = 0
       ELSE /\ changes = MaxChanges /\ faults = MaxFaults
            /\ screen = [w |-> 1920, h |-> 1080]

MCSpec == MCInit /\ [][DisplayNext]_displayVars
============================================================================
