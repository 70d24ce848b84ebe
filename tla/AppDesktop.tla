----------------------------- MODULE AppDesktop -----------------------------
(***************************************************************************)
(* Desktop entries and icons of the Android apps (ControlManager and       *)
(* BackendWorker).  Android reports an installation or removal with the    *)
(* signal updateAppStatus, and the end of its boot with containerEnvBooted;*)
(* the manager's main thread handles them one by one.  The handlers ask    *)
(* Android for the list of installed apps in between, and apps are         *)
(* installed, updated and removed while the answer is on its way.          *)
(***************************************************************************)
EXTENDS Naturals, Sequences

CONSTANTS
    Pkgs,           \* package names
    Excluded,       \* packages that get no entry (com.antutu.benchmark.full...)
    None,           \* the main thread is in no handler
    MaxVersion,     \* bound: versions of an app
    MaxReports,     \* bound: signals Android sends
    MaxRestarts     \* bound: times the manager is started again

ASSUME DesktopAssumption ==
    /\ Excluded \subseteq Pkgs
    /\ MaxVersion \in Nat \ {0} /\ MaxReports \in Nat /\ MaxRestarts \in Nat

Versions == 0..MaxVersion   \* 0: not there
Langs == {"zh_CN", "en_US"}

VARIABLES
    installed,  \* installed[p]: the version Android has of p
    pngs,       \* pngs[p]: the version whose icon lies in data/local/icons
    lang,       \* the language Android names its apps in
    chan,       \* signals on their way to the manager
    reports, restarts,
    work,       \* the handler under way, with the app list Android answered
    completed,  \* onContainerEnvBooted has run (static)
    desktop,    \* desktop[p]: version and language of gxme-<p>.desktop
    svgs,       \* svgs[p]: version of the icon <p>.svg below the user's icons
    missed,     \* history: a signal or an answer of Android was lost
    bootLang    \* history: the language the entries were renamed to at boot

androidVars == <<installed, pngs, lang, reports>>
filesVars == <<desktop, svgs>>
vars == <<androidVars, chan, restarts, work, completed, filesVars, missed, bootLang>>

Entry == [version : Versions, lang : Langs]
Status == [kind : {"updateAppStatus"}, pkg : Pkgs, status : {0, 1}]
Booted == [kind : {"containerEnvBooted"}, ok : BOOLEAN]
StatusOf(p, s) == [kind |-> "updateAppStatus", pkg |-> p, status |-> s]
BootedIs(ok) == [kind |-> "containerEnvBooted", ok |-> ok]

\* An answer of get_installed_applist; the library's failure reads as "[]".
AppList == [apps : [Pkgs -> Versions], lang : Langs]
EmptyList == [apps |-> [p \in Pkgs |-> 0], lang |-> lang]

\* A handler that has asked Android for the list.
Work == [msg : Status \union Booted, list : AppList]

ASSUME WorkAssumption == None \notin Work

\* The manager finds the entries as an earlier run left them, in any language.
Init ==
    /\ installed \in [Pkgs -> {0, 1}]
    /\ pngs = installed
    /\ lang = "zh_CN"
    /\ chan = <<>> /\ reports = 0 /\ restarts = 0
    /\ work = None
    /\ completed = FALSE
    /\ \E l \in Langs :
          desktop = [p \in Pkgs |->
                        [version |-> IF p \in Excluded THEN 0 ELSE installed[p], lang |-> l]]
    /\ svgs = [p \in Pkgs |-> desktop[p].version]
    /\ missed = FALSE
    /\ bootLang = "none"

-----------------------------------------------------------------------------
(* Android *)

Report(m) ==
    /\ reports < MaxReports
    /\ reports' = reports + 1
    /\ chan' = Append(chan, m)

managerVars == <<restarts, work, completed, filesVars, missed, bootLang>>

\* A new app, or a new version of one.  Its icon is drawn some time later.
Install(p) ==
    /\ installed[p] < MaxVersion
    /\ installed' = [installed EXCEPT ![p] = @ + 1]
    /\ Report(StatusOf(p, 0))
    /\ UNCHANGED <<pngs, lang, managerVars>>

DrawIcon(p) ==
    /\ pngs[p] # installed[p]
    /\ pngs' = [pngs EXCEPT ![p] = installed[p]]
    /\ UNCHANGED <<installed, lang, reports, chan, managerVars>>

Uninstall(p) ==
    /\ installed[p] # 0
    /\ installed' = [installed EXCEPT ![p] = 0]
    /\ Report(StatusOf(p, 1))
    /\ UNCHANGED <<pngs, lang, managerVars>>

ReportBoot(ok) ==
    /\ Report(BootedIs(ok))
    /\ UNCHANGED <<installed, pngs, lang, managerVars>>

ChangeLang ==
    /\ lang' = "en_US" /\ lang' # lang
    /\ bootLang' = "none"
    /\ UNCHANGED <<installed, pngs, reports, chan, restarts, work, completed,
                   filesVars, missed>>

-----------------------------------------------------------------------------
(* The manager's main thread *)

Msg == Head(chan)
Receive == work = None /\ chan # <<>> /\ chan' = Tail(chan)

\* getInstalledAppList: Android's answer, or none.
AskAndroid(m) ==
    \/ /\ work' = [msg |-> m, list |-> [apps |-> installed, lang |-> lang]]
       /\ UNCHANGED missed
    \/ /\ work' = [msg |-> m, list |-> EmptyList]
       /\ missed' = TRUE

\* onUpdateAppDesktopAndIcon, status 0: first the app's data.
OnInstalled ==
    /\ Receive /\ Msg.kind = "updateAppStatus" /\ Msg.status = 0
    /\ AskAndroid(Msg)
    /\ UNCHANGED <<androidVars, restarts, completed, filesVars, bootLang>>

\* Wrong form: only an app that has none yet gets an entry.
UpdateDesktopAndIcon_NewOnly ==
    LET p == work.msg.pkg
        info == work.list.apps[p]
    IN  /\ work # None /\ work.msg.kind = "updateAppStatus"
        /\ desktop' = IF info # 0 /\ p \notin Excluded /\ desktop[p].version = 0
                      THEN [desktop EXCEPT ![p] = [version |-> info, lang |-> work.list.lang]]
                      ELSE desktop
        /\ work' = None
        /\ UNCHANGED <<androidVars, chan, restarts, completed, svgs, missed, bootLang>>

\* Then the entry, written afresh, and the icon: the old one is removed and
\* Android's converted, unless there is none or it cannot be read.
UpdateDesktopAndIcon ==
    LET p == work.msg.pkg
        info == work.list.apps[p]
        known == info # 0 /\ p \notin Excluded
    IN  /\ work # None /\ work.msg.kind = "updateAppStatus"
        /\ desktop' = IF known
                      THEN [desktop EXCEPT ![p] = [version |-> info, lang |-> work.list.lang]]
                      ELSE desktop
        /\ IF known /\ pngs[p] # 0
           THEN \E v \in {pngs[p], 0} : svgs' = [svgs EXCEPT ![p] = v]
           ELSE UNCHANGED svgs
        /\ work' = None
        /\ UNCHANGED <<androidVars, chan, restarts, completed, missed, bootLang>>

\* Status 1: the entry goes; the icon that is removed is <p>.png, and there is none.
RemoveDesktopAndIcon ==
    /\ Receive /\ Msg.kind = "updateAppStatus" /\ Msg.status = 1
    /\ desktop' = [desktop EXCEPT ![Msg.pkg].version = 0]
    /\ UNCHANGED <<androidVars, restarts, work, completed, svgs, missed, bootLang>>

\* onContainerEnvBooted: the first report counts, whatever it says.
OnContainerEnvBooted ==
    /\ Receive /\ Msg.kind = "containerEnvBooted"
    /\ completed' = TRUE
    /\ IF ~completed /\ Msg.ok
       THEN AskAndroid(Msg) ELSE UNCHANGED <<work, missed>>
    /\ UNCHANGED <<androidVars, restarts, filesVars, bootLang>>

\* Wrong form: the apps' names are not written again.
UpdateAllAppNames_None ==
    /\ work # None /\ work.msg.kind = "containerEnvBooted"
    /\ bootLang' = IF work.list.lang = lang THEN lang ELSE "none"
    /\ work' = None
    /\ UNCHANGED <<androidVars, chan, restarts, completed, filesVars, missed>>

\* updateAllAppNameInDesktop: a new name in the entry of each app on the list.
UpdateAllAppNames ==
    LET listed == {p \in Pkgs \ Excluded : work.list.apps[p] # 0}
    IN  /\ work # None /\ work.msg.kind = "containerEnvBooted"
        /\ desktop' = [p \in Pkgs |->
                          IF p \in listed /\ desktop[p].version # 0
                          THEN [desktop[p] EXCEPT !.lang = work.list.lang]
                          ELSE desktop[p]]
        /\ bootLang' = IF work.list.lang = lang THEN lang ELSE "none"
        /\ work' = None
        /\ UNCHANGED <<androidVars, chan, restarts, completed, svgs, missed>>

\* The manager ends and is started again; signals find no one meanwhile.
Restart ==
    /\ restarts < MaxRestarts
    /\ restarts' = restarts + 1
    /\ missed' = (missed \/ chan # <<>> \/ work # None)
    /\ chan' = <<>> /\ work' = None /\ completed' = FALSE
    /\ UNCHANGED <<androidVars, filesVars, bootLang>>

Next ==
    \/ \E p \in Pkgs : Install(p) \/ DrawIcon(p) \/ Uninstall(p)
    \/ \E ok \in BOOLEAN : ReportBoot(ok)
    \/ ChangeLang
    \/ OnInstalled \/ UpdateDesktopAndIcon \/ RemoveDesktopAndIcon
    \/ OnContainerEnvBooted \/ UpdateAllAppNames
    \/ Restart

Spec == Init /\ [][Next]_vars

-----------------------------------------------------------------------------
(* Properties *)

\* Types; every handler works with a list, be it an empty one.
TypeOK ==
    /\ installed \in [Pkgs -> Versions] /\ pngs \in [Pkgs -> Versions]
    /\ lang \in Langs
    /\ chan \in Seq(Status \union Booted)
    /\ reports \in 0..MaxReports /\ restarts \in 0..MaxRestarts
    /\ work \in {None} \union Work
    /\ completed \in BOOLEAN
    /\ desktop \in [Pkgs -> Entry] /\ svgs \in [Pkgs -> Versions]
    /\ missed \in BOOLEAN
    /\ bootLang \in Langs \union {"none"}

Quiet == work = None /\ chan = <<>> /\ ~missed

\* When every signal is handled, the entries are those of the apps Android has now,
\* each with its present version: handlers that act on an app list which is newer
\* or older than their signal still end in the right entries.
DesktopMatches ==
    Quiet => \A p \in Pkgs \ Excluded : desktop[p].version = installed[p]

\* After a boot that was handled, every entry names its app in Android's language,
\* entries written before the boot and those written during it alike.
NamesCurrent ==
    Quiet /\ bootLang = lang =>
        \A p \in Pkgs : desktop[p].version # 0 => desktop[p].lang = lang
=============================================================================
