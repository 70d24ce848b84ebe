------------------------------ MODULE Display ------------------------------
(***************************************************************************)
(* What the manager finds out about the screen and the graphics card, and  *)
(* how it tells the container: kmremanager's constructor, its slots for    *)
(* geometryChanged and Stopped, getDisplayInformation, and the two classes *)
(* they call, DisplaySizeManager and DisplayTypeManager.  What the cards   *)
(* of the host are and can do is in GpuInfo.                               *)
(*                                                                         *)
(* The container has default properties, which it takes over when it boots, *)
(* and running ones.  The manager's main thread sets them one by one with  *)
(* blocking D-Bus calls whose failure nobody notices; meanwhile a client   *)
(* boots or stops the container, the user changes settings, and the        *)
(* manager may be killed.  A handler is a sequence of stages (plan); a     *)
(* stage decides from what it reads and leaves the calls it makes in todo, *)
(* which are made, one step each, before the next stage.                   *)
(***************************************************************************)
EXTENDS GpuInfo, Sequences

CONSTANTS
    Screens,      \* resolutions of the screens that can be the primary one
    Factors,      \* scaling factors
    Settings,     \* values of display_type in the user's kmre.ini
    NoScreen,     \* Qt has no primary screen
    Hosts,        \* computers the manager can run on
    UseIntelGralloc, UseDrmGralloc, DetectAEP,  \* switches of the user's kmre.ini
    ConfDensity,  \* physical_density in kmre-display.ini, 0 without the file
    MaxChanges,   \* bound on the changes of the desktop
    MaxFaults     \* bound on lost calls and killed processes together

ASSUME DisplayAssumption ==
    /\ Screens \subseteq [w : Nat \ {0}, h : Nat \ {0}]
    /\ Factors \subseteq Nat \ {0}
    /\ Settings \subseteq {"drm", "emugl", "sw", "unknown"}
    /\ NoScreen \notin Screens
    /\ {UseIntelGralloc, UseDrmGralloc, DetectAEP} \subseteq BOOLEAN
    /\ ConfDensity \in Nat
    /\ \A s \in Screens, f \in Factors : f <= s.w    \* a scaled screen has a width
    /\ \A h \in Hosts :
          /\ h.cards \in Seq(Card) /\ h.default \in DOMAIN h.cards
          /\ {h.prime, h.globalPrime} \subseteq {Unset, Other} \cup DOMAIN h.cards

VARIABLES
    screen, factor,       \* the primary screen and the desktop's scaling factor
    setting,              \* display_type, Unknown without one
    host,                 \* the computer: its cards and what is set for them
    ready,                \* the session comes up: nothing, X, X and /dev/dri
    up,                   \* the manager's process
    plan, todo,           \* stages and D-Bus calls the running handler has left
    watching,             \* geometryChanged is connected to the primary screen
    stopped,              \* a Stopped signal is in the main thread's queue
    couldDrm,             \* mIsDrmEnabled && mCouldUsesDrmMode
    aep,                  \* s_supportsOpenGLES31AEP
    prime,                \* DRI_PRIME in the process's environment
    card,                 \* the card of gpuVendorId and gpuChipId
    vendor,               \* mGpuVendor
    node,                 \* the card of drmPrimaryNodeMajor, ...
    size, oldSize,        \* mPhysicalDisplaySize, oldPhysicalDisplaySize
    physDensity,          \* mPhysicalDensity
    qemuDensity,          \* mQemuDensity
    type, oldType,        \* mDisplayType, oldDisplayType
    def, run,             \* the container's default and running properties
    container,            \* off, or on: booted by a client told the type, or not
    answered, promised,   \* the type this process told, and the one at boot
    lost,                 \* history: a call of this process failed
    moved,                \* history: an unannounced change since the last handler
    changes, faults       \* counters of the bounds

desktopVars == <<screen, factor, setting, changes>>
gpuVars == <<couldDrm, aep, prime, card, vendor, node>>
processVars == <<up, plan, todo, watching, stopped>>
sizeVars == <<size, oldSize, physDensity, qemuDensity>>
typeVars == <<type, oldType>>
containerVars == <<def, run, container, promised>>
historyVars == <<answered, lost, moved, faults>>
displayVars == <<desktopVars, host, ready, processVars, gpuVars, sizeVars, typeVars,
                 containerVars, historyVars>>

Unknown == "unknown"
Modes == {"drm", "emugl", "sw"}

-----------------------------------------------------------------------------
(* Properties of the container *)

ModeProps == {"egl", "gralloc", "qemu", "gles", "post"}
PlatformProps == {"bridge", "dds", "dns"}
NumberProps == {"width", "height", "density", "lcd"}
Props == ModeProps \union PlatformProps \union NumberProps \union {"drm", "aep"}

NotSet == [p \in Props |-> IF p \in NumberProps THEN 0 ELSE IF p = "drm" THEN NoCard ELSE ""]

(* For drm the card and the settings choose one of three gralloc modules;     *)
(* getDisplayTypeFromDBus takes them for one.                                 *)
DrmModule ==
    IF CouldUseIntelGralloc(host, card) \/ (vendor = "intel" /\ UseIntelGralloc)
    THEN "intel"
    ELSE IF UseDrmGralloc THEN "drm" ELSE "gbm"

(* What updateDisplayType sets for each mode. *)
ModeValue ==
    [drm   |-> [egl |-> "mesa", gralloc |-> DrmModule,
                qemu |-> "0", gles |-> "0", post |-> "false"],
     emugl |-> [egl |-> "emulation", gralloc |-> "goldfish",
                qemu |-> "1", gles |-> "1", post |-> "true"],
     sw    |-> [egl |-> "swiftshader", gralloc |-> "dri",
                qemu |-> "0", gles |-> "0", post |-> "false"]]

GrallocMode(g) ==
    CASE g \in {"gbm", "drm", "intel"} -> "drm" [] g = "goldfish" -> "emugl" [] g = "dri" -> "sw"
      [] OTHER -> Unknown

Default(p, v) == [layer |-> "default", prop |-> p, value |-> v]
Running(p, v) == [layer |-> "running", prop |-> p, value |-> v]

-----------------------------------------------------------------------------
(* Sizes: the resolution over the scaling factor, rounded and turned upright *)

NoSize == [w |-> 0, h |-> 0]

Upright(s) == IF s.w > s.h THEN [w |-> s.h, h |-> s.w] ELSE s

Measured ==
    IF screen = NoScreen
    THEN Upright([w |-> 1920, h |-> 1080])
    ELSE Upright([w |-> (screen.w + factor \div 2) \div factor,
                  h |-> (screen.h + factor \div 2) \div factor])

(* The window of an application, for an upright screen *)
WindowSize(s) ==
    LET at == <<s.h, s.w>> IN
    CASE at = <<1280, 1024>> -> [w |-> 720, h |-> 900]
      [] at \in {<<1366, 768>>, <<1280, 960>>, <<1280, 800>>, <<1280, 720>>,
                 <<1440, 810>>, <<1368, 768>>, <<1360, 768>>, <<1400, 900>>}
           -> [w |-> 540, h |-> 960]
      [] at \in {<<1024, 768>>, <<1400, 1050>>, <<1152, 864>>}
           -> [w |-> 540, h |-> 720]
      [] s.h < 1024 \/ s.w < 720 -> [w |-> 540, h |-> 960]
      [] OTHER -> [w |-> 720, h |-> 1280]

QemuDensity(s) ==
    IF WindowSize(s).w >= 720 /\ WindowSize(s).h >= 1280 THEN 320 ELSE 240

PhysicalDensity(s) == IF s.h \in {3840, 2560} THEN 360 ELSE 320

(* Wrong form: the running properties first *)
SizeWrites_RunningFirst(s, density) ==
    <<Running("width", s.w), Running("height", s.h), Running("density", density),
      Default("width", s.w), Default("height", s.h), Default("density", density)>>

SizeWrites(s, density) ==
    <<Default("width", s.w), Default("height", s.h), Default("density", density),
      Running("width", s.w), Running("height", s.h), Running("density", density)>>

IntelOrAmd == vendor \in {"intel", "amd"}

(* The first part of updateDisplayType, for a card of Intel or AMD: the numbers *)
(* of its two nodes, once they are known, which the card stands for, and the    *)
(* GLES extension pack.                                                         *)
CardWrites(t) ==
    IF IntelOrAmd
    THEN (IF node' # NoCard THEN <<Default("drm", node')>> ELSE <<>>)
         \o <<Default("aep", IF t = "drm" /\ aep /\ DetectAEP THEN "true" ELSE "false")>>
    ELSE <<>>

(* Wrong form: sys.goldfish.post is not set *)
TypeWrites_NoPost(t) ==
    CardWrites(t)
    \o <<Default("egl", ModeValue[t].egl), Default("gralloc", ModeValue[t].gralloc),
         Default("qemu", ModeValue[t].qemu), Default("gles", ModeValue[t].gles)>>

TypeWrites(t) ==
    CardWrites(t)
    \o <<Default("egl", ModeValue[t].egl), Default("gralloc", ModeValue[t].gralloc),
         Default("qemu", ModeValue[t].qemu), Default("gles", ModeValue[t].gles),
         Default("post", ModeValue[t].post)>>

ConstructorPlan ==
    <<"window", "size", "bridge", "window", "lcd", "dds", "dns", "connect">>
GeometryPlan == <<"window", "lcd">>
InformationPlan == <<"window", "size", "density", "type", "answer">>

Idle == up = "running" /\ plan = <<>> /\ todo = <<>>

DisplayInit ==
    /\ screen \in Screens /\ factor \in Factors
    /\ setting \in Settings
    /\ host \in Hosts
    /\ ready \in 0 .. 2
    /\ up = "down" /\ plan = <<>> /\ todo = <<>>
    /\ watching = FALSE /\ stopped = FALSE
    /\ couldDrm = FALSE /\ aep = FALSE /\ prime = Unset
    /\ card = NoCard /\ vendor = UnknownMaker /\ node = NoCard
    /\ size = NoSize /\ oldSize = NoSize
    /\ physDensity = 0 /\ qemuDensity = 0
    /\ type = Unknown /\ oldType = Unknown
    /\ def = NotSet /\ run = NotSet /\ container = "off" /\ promised = Unknown
    /\ answered = Unknown /\ lost = FALSE /\ moved = FALSE
    /\ changes \in {0, MaxChanges} /\ faults \in {0, MaxFaults}

-----------------------------------------------------------------------------
(* The process *)

DriDeviceCheck == ready = 2

(* get_gpu_pci_info, unless the card is known already: the X server opens the *)
(* device for its clients.                                                    *)
GetGpuPciInfo == IF card = NoCard /\ ready > 0 THEN PciInfo(host, prime) ELSE card

(* The static initialisers look at the host before main does. *)
Exec ==
    /\ up = "down"
    /\ up' = "loading"
    /\ prime' = host.prime
    /\ card' = IF ready > 0 THEN PciInfo(host, host.prime) ELSE NoCard
    /\ couldDrm' = (DriDeviceCheck /\ CouldUsesDrm(host, card'))
    /\ aep' = (ready > 0 /\ OpenGLES31AEP(host.gl))
    /\ answered' = Unknown /\ lost' = FALSE
    /\ UNCHANGED <<desktopVars, host, ready, vendor, node, plan, todo, watching, stopped,
                   sizeVars, typeVars, containerVars, moved, faults>>

(* Without an X server main returns.  set_and_save_env asks for the card, but *)
(* not in a virtual machine; /var/lib/kmre/kmre-global-env is read after it.  *)
Main ==
    /\ up = "loading"
    /\ \/ /\ ready = 0
          /\ up' = "down" /\ couldDrm' = FALSE /\ aep' = FALSE /\ prime' = Unset
          /\ UNCHANGED <<plan, moved, card>>
       \/ /\ ready > 0
          /\ up' = "running" /\ plan' = ConstructorPlan /\ moved' = FALSE
          /\ card' = IF host.virtual THEN card ELSE GetGpuPciInfo
          /\ prime' = IF host.globalPrime # Unset THEN host.globalPrime ELSE prime
          /\ UNCHANGED <<couldDrm, aep>>
    /\ UNCHANGED <<desktopVars, host, ready, vendor, node, todo, watching, stopped, sizeVars,
                   typeVars, containerVars, answered, lost, faults>>

(* The process ends, and its memory with it. *)
Exit ==
    /\ up' = "down" /\ plan' = <<>> /\ todo' = <<>>
    /\ watching' = FALSE /\ stopped' = FALSE
    /\ couldDrm' = FALSE /\ aep' = FALSE /\ prime' = Unset
    /\ card' = NoCard /\ vendor' = UnknownMaker /\ node' = NoCard
    /\ size' = NoSize /\ oldSize' = NoSize
    /\ physDensity' = 0 /\ qemuDensity' = 0
    /\ type' = Unknown /\ oldType' = Unknown

Kill ==
    /\ up # "down" /\ faults < MaxFaults
    /\ faults' = faults + 1
    /\ Exit
    /\ UNCHANGED <<desktopVars, host, ready, containerVars, answered, lost, moved>>

(* A call the manager has decided on: SetDefaultPropOfContainer, which lasts, *)
(* or SetPropOfContainer, which reaches only a container that runs.           *)
Call ==
    /\ todo # <<>>
    /\ LET c == Head(todo) IN
         \/ /\ c.layer = "default"
            /\ def' = [def EXCEPT ![c.prop] = c.value]
            /\ UNCHANGED <<run, lost, faults>>
         \/ /\ c.layer = "running"
            /\ run' = IF container = "off" THEN run ELSE [run EXCEPT ![c.prop] = c.value]
            /\ UNCHANGED <<def, lost, faults>>
         \/ /\ faults < MaxFaults
            /\ faults' = faults + 1 /\ lost' = TRUE
            /\ UNCHANGED <<def, run>>
    /\ todo' = Tail(todo)
    /\ UNCHANGED <<desktopVars, host, ready, up, plan, watching, stopped, gpuVars,
                   sizeVars, typeVars, container, promised, answered, moved>>

-----------------------------------------------------------------------------
(* Stages *)

Stage(name) ==
    /\ todo = <<>> /\ plan # <<>> /\ Head(plan) = name
    /\ plan' = Tail(plan)
    /\ UNCHANGED <<desktopVars, host, ready, up, stopped, couldDrm, aep, prime, containerVars,
                   moved>>

LeaveCards == UNCHANGED <<card, vendor, node>>

(* getPhysicalDisplaySize with updatePhysicalDisplaySize *)
Measure ==
    /\ size' = Measured
    /\ oldSize' = Measured
    /\ todo' = IF Measured = oldSize THEN <<>> ELSE SizeWrites(Measured, physDensity)

GetPhysicalDisplaySize ==
    /\ Stage("size") /\ LeaveCards
    /\ Measure
    /\ UNCHANGED <<watching, physDensity, qemuDensity, typeVars, answered, lost, faults>>

GetWindowDisplaySize ==
    /\ Stage("window") /\ LeaveCards
    /\ Measure
    /\ qemuDensity' = QemuDensity(Measured)
    /\ UNCHANGED <<watching, physDensity, typeVars, answered, lost, faults>>

SetAppropriateQemuDensity ==
    /\ Stage("lcd") /\ LeaveCards
    /\ todo' = <<Default("lcd", qemuDensity), Running("lcd", qemuDensity)>>
    /\ UNCHANGED <<watching, sizeVars, typeVars, answered, lost, faults>>

SetPlatform(p) ==
    /\ Stage(p) /\ LeaveCards
    /\ todo' = <<Default(p, "set")>>
    /\ UNCHANGED <<watching, sizeVars, typeVars, answered, lost, faults>>

InitCpuInformation == SetPlatform("bridge")

(* getGpuVendor, which asks once; a known maker is taken to support it. *)
InitHostPlatformProp ==
    /\ Stage("dds")
    /\ card' = IF host.nvidiaInUse THEN card ELSE GetGpuPciInfo
    /\ vendor' = Manufacture(host, card')
    /\ todo' = <<Default("dds", IF vendor' \in Makers THEN "true" ELSE "false")>>
    /\ UNCHANGED <<node, watching, sizeVars, typeVars, answered, lost, faults>>

(* Both servers' properties *)
InitDockerDns == SetPlatform("dns")

InitConnections ==
    /\ Stage("connect") /\ LeaveCards
    /\ watching' = (screen # NoScreen)
    /\ UNCHANGED <<todo, sizeVars, typeVars, answered, lost, faults>>

GetPhysicalDensity ==
    /\ Stage("density") /\ LeaveCards
    /\ \/ /\ physDensity > 0
          /\ UNCHANGED <<todo, sizeVars>>
       \/ /\ physDensity = 0
          /\ IF ConfDensity > 0
             THEN /\ physDensity' = IF ConfDensity < 320 THEN 320 ELSE ConfDensity
                  /\ UNCHANGED <<todo, size, oldSize>>
             ELSE /\ Measure
                  /\ physDensity' = PhysicalDensity(Measured)
          /\ UNCHANGED qemuDensity
    /\ UNCHANGED <<watching, typeVars, answered, lost, faults>>

(* Without a running container, or when the call fails, the answer is empty. *)
FromDBus == IF container = "off" THEN Unknown ELSE GrallocMode(run.gralloc)

FromSettings ==
    IF setting \in {"drm", "emugl"} THEN setting
    ELSE IF setting = Unknown THEN "drm" ELSE "emugl"

(* Wrong form: the settings before the container *)
Decide_Settings(running) ==
    IF ~couldDrm THEN "emugl" ELSE IF setting # Unknown THEN FromSettings
    ELSE IF running # Unknown THEN running ELSE "drm"

Decide(running) ==
    IF ~couldDrm THEN "emugl" ELSE IF running # Unknown THEN running ELSE FromSettings

UpdateDisplayType ==
    /\ node' = IF type' # oldType /\ IntelOrAmd /\ node = NoCard
               THEN NodeNumbers(host, prime) ELSE node
    /\ todo' = IF type' = oldType THEN <<>> ELSE TypeWrites(type')
    /\ oldType' = type'

GetDisplayType ==
    /\ Stage("type")
    /\ \/ type # Unknown /\ UNCHANGED <<type, lost, faults>>
       \/ /\ type = Unknown
          /\ type' = Decide(FromDBus)
          /\ UNCHANGED <<lost, faults>>
       \/ /\ type = Unknown /\ couldDrm /\ faults < MaxFaults
          /\ type' = Decide(Unknown)
          /\ faults' = faults + 1 /\ lost' = TRUE
    /\ UpdateDisplayType
    /\ UNCHANGED <<card, vendor, watching, sizeVars, answered>>

Answer ==
    /\ Stage("answer") /\ LeaveCards
    /\ answered' = type
    /\ UNCHANGED <<todo, watching, sizeVars, typeVars, lost, faults>>

-----------------------------------------------------------------------------
(* Events the idle main thread handles *)

GetDisplayInformation ==
    /\ Idle
    /\ plan' = InformationPlan
    /\ UNCHANGED <<desktopVars, host, ready, up, todo, watching, stopped, gpuVars,
                   sizeVars, typeVars, containerVars, historyVars>>

(* A new resolution: Qt learns of it in the event loop, and the slot runs at  *)
(* once, if the screen is the one that was primary in initConnections.        *)
GeometryChanged ==
    /\ Idle /\ screen # NoScreen /\ changes < MaxChanges
    /\ \E s \in Screens \ {screen} : screen' = s
    /\ changes' = changes + 1
    /\ \/ watching /\ plan' = GeometryPlan /\ moved' = FALSE
       \/ ~watching /\ moved' = TRUE /\ UNCHANGED plan
    /\ UNCHANGED <<factor, setting, host, ready, up, todo, watching, stopped, gpuVars,
                   sizeVars, typeVars, containerVars, answered, lost, faults>>

OnStopApplication ==
    /\ Idle /\ stopped
    /\ Exit
    /\ UNCHANGED <<desktopVars, host, ready, containerVars, historyVars>>

Off == container' = "off" /\ run' = NotSet /\ promised' = Unknown

(* StartLogout stops the container; commitData then leaves, too. *)
OnStartLogout ==
    /\ Idle
    /\ Off
    /\ \/ /\ stopped' = (stopped \/ container # "off")
          /\ UNCHANGED <<up, plan, todo, watching, gpuVars, sizeVars, typeVars>>
       \/ Exit
    /\ UNCHANGED <<desktopVars, host, ready, def, historyVars>>

-----------------------------------------------------------------------------
(* The desktop, the host and the clients *)

(* Another monitor becomes the primary screen, or the first one again: the    *)
(* event loop learns of it, and nobody is connected to it.                    *)
PrimaryScreenChanged ==
    /\ up = "down" \/ Idle
    /\ changes < MaxChanges
    /\ screen' \in (Screens \union {NoScreen}) \ {screen}
    /\ changes' = changes + 1
    /\ watching' \in IF Idle THEN BOOLEAN ELSE {FALSE}
    /\ screen' = NoScreen => ~watching'
    /\ moved' = TRUE
    /\ UNCHANGED <<factor, setting, host, ready, up, plan, todo, stopped, gpuVars,
                   sizeVars, typeVars, containerVars, answered, lost, faults>>

ScalingChanged ==
    /\ changes < MaxChanges
    /\ factor' \in Factors \ {factor}
    /\ changes' = changes + 1
    /\ moved' = TRUE
    /\ UNCHANGED <<screen, setting, host, ready, processVars, gpuVars, sizeVars, typeVars,
                   containerVars, answered, lost, faults>>

SettingChanged ==
    /\ changes < MaxChanges
    /\ setting' \in Settings \ {setting}
    /\ changes' = changes + 1
    /\ UNCHANGED <<screen, factor, host, ready, processVars, gpuVars, sizeVars, typeVars,
                   containerVars, historyVars>>

(* The session comes up: the X server starts, the driver makes its nodes. *)
HostReady ==
    /\ \E n \in ready + 1 .. 2 : ready' = n
    /\ UNCHANGED <<desktopVars, host, processVars, gpuVars, sizeVars, typeVars, containerVars,
                   historyVars>>

Boot ==
    /\ container = "off"
    /\ container' = IF answered # Unknown /\ ~lost THEN "told" ELSE "blind"
    /\ promised' = answered
    /\ run' = def
    /\ UNCHANGED <<desktopVars, host, ready, processVars, gpuVars, sizeVars, typeVars, def,
                   historyVars>>

(* The container stops; a manager that has connected its slots hears of it. *)
Stop ==
    /\ container # "off"
    /\ Off
    /\ stopped' = (up = "running" /\ ("connect" \notin {plan[i] : i \in DOMAIN plan}))
    /\ UNCHANGED <<desktopVars, host, ready, up, plan, todo, watching, gpuVars, sizeVars,
                   typeVars, def, historyVars>>

Stages ==
    \/ GetPhysicalDisplaySize \/ GetWindowDisplaySize
    \/ SetAppropriateQemuDensity \/ InitCpuInformation \/ InitHostPlatformProp
    \/ InitDockerDns \/ InitConnections
    \/ GetPhysicalDensity \/ GetDisplayType \/ Answer

Manager ==
    \/ Exec \/ Main \/ Kill \/ Call \/ Stages
    \/ GetDisplayInformation \/ GeometryChanged \/ OnStopApplication \/ OnStartLogout

Environment ==
    \/ PrimaryScreenChanged \/ ScalingChanged \/ SettingChanged
    \/ HostReady \/ Boot \/ Stop

DisplayNext == Manager \/ Environment

DisplaySpec == DisplayInit /\ [][DisplayNext]_displayVars

-----------------------------------------------------------------------------
(* Properties *)

Sizes == [w : Nat, h : Nat]

(* Every variable has the type the code gives it. *)
DisplayTypeOK ==
    /\ screen \in Screens \union {NoScreen} /\ factor \in Factors
    /\ setting \in Settings
    /\ host \in Hosts /\ ready \in 0 .. 2
    /\ up \in {"down", "loading", "running"}
    /\ watching \in BOOLEAN /\ stopped \in BOOLEAN /\ couldDrm \in BOOLEAN
    /\ aep \in BOOLEAN /\ prime \in {Unset, Other} \cup DOMAIN host.cards
    /\ {card, node} \subseteq {NoCard} \cup DOMAIN host.cards
    /\ vendor \in Makers \cup {UnknownMaker}
    /\ size \in Sizes /\ oldSize \in Sizes
    /\ physDensity \in Nat /\ qemuDensity \in {0, 240, 320}
    /\ {type, oldType, answered, promised} \subseteq Modes \union {Unknown}
    /\ DOMAIN def = Props /\ DOMAIN run = Props
    /\ \A p \in NumberProps : def[p] \in Nat /\ run[p] \in Nat
    /\ container \in {"off", "blind", "told"}
    /\ lost \in BOOLEAN /\ moved \in BOOLEAN

(* A container booted by a client that this manager told the display type    *)
(* runs that type: the modules and switches it took over all belong to the   *)
(* one mode, and the constructor's properties are set, wherever the boot     *)
(* falls between the manager's calls.                                        *)
AnswerKept ==
    container = "told" =>
        /\ promised # Unknown
        /\ \A p \in ModeProps \ {"gralloc"} : run[p] = ModeValue[promised][p]
        /\ GrallocMode(run.gralloc) = promised
        /\ \A p \in PlatformProps : run[p] # ""

(* In drm mode it also knows the nodes of a card whose chip the manager takes *)
(* for able to do drm, though the mode was decided before main and the nodes  *)
(* are looked for when the type is told.  Unless DRI_PRIME comes from the     *)
(* global environment, which main reads in between.                           *)
NodesUsable ==
    container = "told" /\ promised = "drm" /\ host.globalPrime = Unset =>
        IF run["drm"] = NoCard
        THEN host.nvidiaInUse \/ NodeNumbers(host, host.prime) = NoCard
        ELSE run["drm"] \in DOMAIN host.cards /\ CouldUsesDrm(host, run["drm"])

(* A manager that starts beside such a container tells the type it runs, and *)
(* not the one the user has chosen since: what runs comes before settings.   *)
RestartAgrees ==
    container = "told" /\ answered # Unknown /\ ~lost => answered = promised

(* When the manager is at rest and no call failed, the container has the     *)
(* size the manager measured last and the density of the screen, if nothing  *)
(* changed unannounced, whether it booted before the calls, after them or    *)
(* between two of them.                                                      *)
Published ==
    Idle /\ ~lost =>
        /\ def["width"] = size.w /\ def["height"] = size.h
        /\ ~moved => def["lcd"] = QemuDensity(Measured)
        /\ container # "off" =>
             \A p \in {"width", "height", "lcd"} : run[p] = def[p]

=============================================================================
