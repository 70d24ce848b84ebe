------------------------------ MODULE GpuInfo ------------------------------
(***************************************************************************)
(* What the manager finds out about a host's graphics cards (gpuinfo.cpp   *)
(* and the functions of displaytypemanager.cpp that call it), as functions *)
(* of the host.  A host has cards in the order of the PCI bus; the X       *)
(* server draws with one of them and hands out its descriptor, and the     *)
(* variable DRI_PRIME makes the process take another.                      *)
(*                                                                         *)
(* A chip is known by its family; the three numbers that stand in the      *)
(* tables of two makers are chips of their own.                            *)
(***************************************************************************)
EXTENDS Integers, FiniteSetsExt

SharedNumbers == {"4E51", "5A41", "5A42"}

I915Chips ==
    {"I830", "845_G", "I855", "I865", "I915", "E7221", "I945", "G33", "Q33", "Q35", "PNV"}

I965Chips ==
    {"i965", "g4x", "ilk", "snb", "ivb", "byt", "hsw", "bdw", "chv", "skl", "bxt", "glk",
     "kbl", "cfl", "cnl", "icl", "ehl"} \cup SharedNumbers

IrisChips == {"rkl", "tgl"}

R300Chips ==
    {"R300", "R350", "RV350", "RV370", "RV380", "RS400", "RC410", "RS480", "R420", "R423",
     "R430", "R480", "R481", "RV410", "RS600", "RS690", "RS740", "RV515", "R520", "RV530",
     "R580", "RV560", "RV570"} \cup SharedNumbers

R600Chips ==
    {"R600", "RV610", "RV630", "RV670", "RV620", "RV635", "RS780", "RS880", "RV770", "RV730",
     "RV710", "RV740", "CEDAR", "REDWOOD", "JUNIPER", "CYPRESS", "HEMLOCK", "PALM", "SUMO",
     "SUMO2", "ARUBA", "BARTS", "TURKS", "CAICOS", "CAYMAN"}

RadeonSIChips ==
    {"TAHITI", "PITCAIRN", "VERDE", "OLAND", "HAINAN", "BONAIRE", "KABINI", "KAVERI", "HAWAII"}

AmdGpuChips ==
    {"ICELAND", "CARRIZO", "TONGA", "FIJI", "STONEY", "POLARIS10", "POLARIS11", "POLARIS12",
     "VEGAM", "VEGA10", "VEGA12", "VEGA20", "RAVEN", "RENOIR", "ARCTURUS", "NAVI10", "NAVI12",
     "NAVI14"}

\* The chips there are tables for, and those of other makers.
Chips ==
    I915Chips \cup I965Chips \cup IrisChips \cup R300Chips \cup R600Chips \cup RadeonSIChips
    \cup AmdGpuChips \cup {"other"}

Makers == {"intel", "amd", "nvidia"}
UnknownMaker == "unknown"

\* A card: its maker by the PCI vendor number, or by the vendor's name alone;
\* whether it is on the PCI bus, and the nodes it has below /dev/dri.
Card == [maker : Makers \cup {UnknownMaker}, named : Makers \cup {UnknownMaker},
         chip : Chips, pci : BOOLEAN, primary : BOOLEAN, render : BOOLEAN]

NoCard == 0     \* -1 in the code: gpuVendorId, drmPrimaryNodeMajor, ...
Unset == 0      \* DRI_PRIME is not set
Other == -1     \* DRI_PRIME is "1": any other card than the default

-----------------------------------------------------------------------------
(* The card the process uses; h is the host, prime the value of DRI_PRIME: *)
(* a card by its tag, Other or Unset.                                      *)

UserPreferred(h, prime) ==
    LET fits == {c \in DOMAIN h.cards :
                    /\ h.cards[c].render
                    /\ IF prime = Other THEN c # h.default ELSE c = prime}
    IN  IF prime = Unset \/ fits = {} THEN h.default ELSE Min(fits)

\* get_gpu_pci_info, once the X server is there.
PciInfo(h, prime) ==
    LET c == UserPreferred(h, prime) IN IF h.cards[c].pci THEN c ELSE NoCard

\* Wrong form: the nodes are those of the X server's card.
NodeNumbers_Default(h, prime) ==
    LET c == h.default IN IF h.cards[c].primary /\ h.cards[c].render THEN c ELSE NoCard

\* get_drm_device_node_number: both nodes, or none.
NodeNumbers(h, prime) ==
    LET c == UserPreferred(h, prime)
    IN  IF h.cards[c].primary /\ h.cards[c].render THEN c ELSE NoCard

MakerOf(h, c) == IF c = NoCard THEN UnknownMaker ELSE h.cards[c].maker

-----------------------------------------------------------------------------
(* What the card can do; c is the card gpuVendorId and gpuChipId tell of.  *)

KnownIntel == I915Chips \cup I965Chips \cup IrisChips

\* The chips of R300 are too old.
KnownAmd == R600Chips \cup RadeonSIChips \cup AmdGpuChips

CouldUsesDrm(h, c) ==
    \/ MakerOf(h, c) = "intel" /\ h.cards[c].chip \in KnownIntel
    \/ MakerOf(h, c) = "amd" /\ h.cards[c].chip \in KnownAmd

\* In the code no card does.
CouldUseIntelGralloc(h, c) == FALSE

(* The maker: NVIDIA when its driver is in use, else that of the card, else *)
(* that of the first card on the bus that is known by number or by name.    *)
KnownOnBus(h, c) ==
    IF h.cards[c].maker # UnknownMaker THEN h.cards[c].maker ELSE h.cards[c].named

Manufacture(h, c) ==
    LET known == {d \in DOMAIN h.cards : h.cards[d].pci /\ KnownOnBus(h, d) # UnknownMaker}
    IN  IF h.nvidiaInUse THEN "nvidia"
        ELSE IF MakerOf(h, c) # UnknownMaker THEN MakerOf(h, c)
        ELSE IF known # {} THEN KnownOnBus(h, Min(known))
        ELSE UnknownMaker

(* OpenGL ES of the host's EGL: a context could be made, version, extensions. *)
(* Besides the pack itself, the twenty extensions it is made of will do.      *)
PackParts == {"KHR", "OES", "EXT"}

OpenGLES31AEP(gl) ==
    /\ gl.context
    /\ gl.major >= 3 /\ gl.minor >= 1
    /\ "pack" \in gl.extensions \/ PackParts \subseteq gl.extensions
============================================================================
