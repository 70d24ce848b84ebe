-------------------------- MODULE MainThread_proofs --------------------------
(***************************************************************************)
(* Theorems about three things the manager's main thread keeps in step     *)
(* with the container: the entries of the Android apps (AppDesktop), the   *)
(* lists and links of the media files (SyncFiles), and the display         *)
(* (Display).  The three models share no variable; each has a part of its  *)
(* own.                                                                    *)
(***************************************************************************)
EXTENDS AppDesktop, SyncFiles, Display, FiniteSetTheorems, WellFoundedInduction, TLAPS

USE DEF androidVars, filesVars, managerVars, vars
USE DEF mediaVars, mirrorVars, syncVars
USE DEF desktopVars, gpuVars, processVars, sizeVars, typeVars, containerVars, historyVars,
        displayVars

-----------------------------------------------------------------------------
(***************************************************************************)
(* Part 1: the entries of the apps, for any packages and any number of     *)
(* versions, signals and restarts: the types, which apps have entries, and *)
(* in which language the entries are.                                      *)
(***************************************************************************)

Messages == Status \cup Booted

-----------------------------------------------------------------------------
(* Types *)

\* A queue keeps its members, whatever they are.
LEMMA Queued ==
    ASSUME NEW T, NEW q \in Seq(T)
    PROVE  /\ q # <<>> => Head(q) \in T /\ Tail(q) \in Seq(T)
           /\ \A e \in T : Append(q, e) \in Seq(T)
           /\ <<>> \in Seq(T)
OBVIOUS

\* The signals Android sends are signals.
LEMMA SignalType ==
    /\ \A p \in Pkgs, s \in {0, 1} : StatusOf(p, s) \in Messages
    /\ \A ok \in BOOLEAN : BootedIs(ok) \in Messages
<1>1. \A p \in Pkgs, s \in {0, 1} : StatusOf(p, s) \in Messages
    BY DEF StatusOf, Status, Messages
<1>2. ASSUME NEW ok \in BOOLEAN
      PROVE  BootedIs(ok) \in Messages
    BY <1>2 DEF BootedIs, Booted, Messages
<1>3. QED
    BY <1>1, <1>2

\* Whatever Android answers, the handler works with a list.
LEMMA AskType ==
    ASSUME TypeOK, NEW m \in Messages, AskAndroid(m)
    PROVE  work' \in Work /\ missed' \in BOOLEAN
<1>1. installed \in [Pkgs -> Versions] /\ lang \in Langs
    BY DEF TypeOK
<1>2. EmptyList \in AppList /\ [apps |-> installed, lang |-> lang] \in AppList
    BY <1>1, DesktopAssumption DEF EmptyList, AppList, Versions
<1>3. work' \in Work
    BY <1>2 DEF AskAndroid, Work, Messages
<1>4. missed' \in BOOLEAN
    BY Zenon DEF AskAndroid, TypeOK
<1>5. QED
    BY <1>3, <1>4

\* The types hold in a manager that starts.
LEMMA InitType == Init => TypeOK
<1> SUFFICES ASSUME Init
             PROVE  TypeOK
    OBVIOUS
<1>1. completed \in BOOLEAN /\ missed \in BOOLEAN
    BY Zenon DEF Init
<1>2. chan \in Seq(Status \cup Booted)
  <2>1. chan = <<>>
      BY DEF Init
  <2>2. QED
      BY <2>1
<1>3. installed \in [Pkgs -> {0, 1}]
    BY DEF Init
<1>4. QED
    BY <1>1, <1>2, <1>3, DesktopAssumption DEF Init, TypeOK, Versions, Langs, Entry

\* Every step of Android and of the manager keeps the types.
LEMMA NextType == TypeOK /\ [Next]_vars => TypeOK'
<1> SUFFICES ASSUME TypeOK, [Next]_vars
             PROVE  TypeOK'
    OBVIOUS
<1>a. chan \in Seq(Messages)
    BY DEF TypeOK, Messages
<1>b. /\ UNCHANGED missed => missed' \in BOOLEAN
      /\ UNCHANGED completed => completed' \in BOOLEAN
    BY Zenon DEF TypeOK
<1>c. chan # <<>> => Msg \in Messages /\ Tail(chan) \in Seq(Messages)
    BY <1>a, Queued DEF Msg
<1>1. ASSUME NEW p \in Pkgs, Install(p) \/ Uninstall(p)
      PROVE  TypeOK'
  <2>1. chan' \in Seq(Messages)
      BY <1>1, <1>a, SignalType, Queued DEF Install, Uninstall, Report
  <2>2. installed' \in [Pkgs -> Versions]
      BY <1>1, DesktopAssumption DEF Install, Uninstall, TypeOK, Versions
  <2>3. reports' \in 0..MaxReports
      BY <1>1, DesktopAssumption DEF Install, Uninstall, Report, TypeOK
  <2>4. QED
      BY <1>1, <1>b, <2>1, <2>2, <2>3 DEF Install, Uninstall, Report, TypeOK, Messages
<1>2. ASSUME NEW p \in Pkgs, DrawIcon(p)
      PROVE  TypeOK'
    BY <1>2, <1>b DEF DrawIcon, TypeOK
<1>3. ASSUME NEW ok \in BOOLEAN, ReportBoot(ok)
      PROVE  TypeOK'
  <2>1. chan' \in Seq(Messages)
      BY <1>3, <1>a, SignalType, Queued DEF ReportBoot, Report
  <2>2. QED
      BY <1>3, <1>b, <2>1, DesktopAssumption DEF ReportBoot, Report, TypeOK, Messages
<1>4. CASE ChangeLang
    BY <1>4, <1>b DEF ChangeLang, TypeOK, Langs
<1>5. CASE OnInstalled
  <2>1. work' \in Work /\ missed' \in BOOLEAN
      BY <1>5, <1>c, AskType DEF OnInstalled, Receive
  <2>2. QED
      BY <1>5, <1>b, <1>c, <2>1 DEF OnInstalled, Receive, TypeOK, Messages
<1>6. CASE UpdateDesktopAndIcon
  <2>1. work \in Work
      BY <1>6 DEF UpdateDesktopAndIcon, TypeOK
  <2>2. work.msg \in Messages /\ work.list \in AppList
      BY <2>1 DEF Work, Messages
  <2>3. work.msg.pkg \in Pkgs
      BY <1>6, <2>2 DEF UpdateDesktopAndIcon, Messages, Status, Booted
  <2>4. work.list.apps[work.msg.pkg] \in Versions /\ work.list.lang \in Langs
      BY <2>2, <2>3 DEF AppList
  <2>5. desktop' \in [Pkgs -> Entry]
      BY <1>6, <2>3, <2>4 DEF UpdateDesktopAndIcon, TypeOK, Entry
  <2>6. svgs' \in [Pkgs -> Versions]
      BY <1>6, <2>3, DesktopAssumption DEF UpdateDesktopAndIcon, TypeOK, Versions
  <2>7. QED
      BY <1>6, <1>b, <2>5, <2>6 DEF UpdateDesktopAndIcon, TypeOK
<1>7. CASE RemoveDesktopAndIcon
  <2>1. desktop' \in [Pkgs -> Entry]
    <3>1. Msg.pkg \in Pkgs
        BY <1>7, <1>c DEF RemoveDesktopAndIcon, Receive, Messages, Status, Booted
    <3>2. desktop' = [desktop EXCEPT ![Msg.pkg] = [@ EXCEPT !.version = 0]]
        BY <1>7 DEF RemoveDesktopAndIcon
    <3>3. desktop[Msg.pkg] \in Entry /\ 0 \in Versions
        BY <3>1, DesktopAssumption DEF TypeOK, Versions
    <3>4. [desktop[Msg.pkg] EXCEPT !.version = 0] \in Entry
        BY <3>3 DEF Entry
    <3>5. QED
        BY <3>1, <3>2, <3>4 DEF TypeOK
  <2>2. QED
      BY <1>7, <1>b, <1>c, <2>1 DEF RemoveDesktopAndIcon, Receive, TypeOK, Messages
<1>8. CASE OnContainerEnvBooted
  <2>1. completed' \in BOOLEAN
      BY <1>8, Zenon DEF OnContainerEnvBooted
  <2>2. work' \in {None} \cup Work /\ missed' \in BOOLEAN
    <3>1. CASE ~completed /\ Msg.ok
        BY <1>8, <1>c, <3>1, AskType DEF OnContainerEnvBooted, Receive
    <3>2. CASE ~(~completed /\ Msg.ok)
      <4>1. UNCHANGED <<work, missed>>
          BY <1>8, <3>2 DEF OnContainerEnvBooted
      <4>2. QED
          BY <4>1, <1>b DEF TypeOK
    <3>3. QED
        BY <3>1, <3>2
  <2>3. QED
      BY <1>8, <1>c, <2>1, <2>2 DEF OnContainerEnvBooted, Receive, TypeOK, Messages
<1>9. CASE UpdateAllAppNames
  <2>1. work \in Work
      BY <1>9 DEF UpdateAllAppNames, TypeOK
  <2>2. work.list.lang \in Langs
      BY <2>1 DEF Work, AppList
  <2>3. desktop' \in [Pkgs -> Entry]
      BY <1>9, <2>2 DEF UpdateAllAppNames, TypeOK, Entry
  <2>4. QED
      BY <1>9, <1>b, <2>3 DEF UpdateAllAppNames, TypeOK
<1>10. CASE Restart
  <2>1. completed' \in BOOLEAN /\ missed' \in BOOLEAN
      BY <1>10, Zenon DEF Restart
  <2>2. chan' \in Seq(Messages)
      BY <1>10, Queued DEF Restart
  <2>3. QED
      BY <1>10, <2>1, <2>2, DesktopAssumption DEF Restart, TypeOK, Messages
<1>11. CASE UNCHANGED vars
    BY <1>11, <1>b DEF TypeOK
<1>12. QED
    BY <1>1, <1>2, <1>3, <1>4, <1>5, <1>6, <1>7, <1>8, <1>9, <1>10, <1>11 DEF Next

\* A handler always works with a list of the apps, be it an empty one, and an entry
\* always has a version and a language Android gave.
THEOREM TypeCorrect == Spec => []TypeOK
BY InitType, NextType, PTL DEF Spec

-----------------------------------------------------------------------------
(* The signals about one app that wait for the main thread *)

About(m, p) == m.kind = "updateAppStatus" /\ m.pkg = p

\* No signal of s is about p; the last one that is has the status v.
NoStatus(s, p) == \A k \in 1..Len(s) : ~About(s[k], p)
LastStatus(s, p, v) ==
    \E k \in 1..Len(s) :
        /\ About(s[k], p) /\ s[k].status = v
        /\ \A j \in (k + 1)..Len(s) : ~About(s[j], p)

\* A signal that is appended is the last one about its app.
LEMMA Added ==
    ASSUME NEW s \in Seq(Messages), NEW m \in Messages, NEW p, NEW v
    PROVE  /\ About(m, p) /\ m.status = v => LastStatus(Append(s, m), p, v)
           /\ ~About(m, p) /\ NoStatus(s, p) => NoStatus(Append(s, m), p)
           /\ ~About(m, p) /\ LastStatus(s, p, v) => LastStatus(Append(s, m), p, v)
<1> DEFINE t == Append(s, m)
<1>1. /\ Len(t) = Len(s) + 1 /\ Len(s) \in Nat
      /\ t[Len(s) + 1] = m
      /\ \A k \in 1..Len(s) : t[k] = s[k]
    OBVIOUS
<1> HIDE DEF t
<1>2. ASSUME About(m, p), m.status = v
      PROVE  LastStatus(t, p, v)
    BY <1>1, <1>2 DEF LastStatus
<1>3. ASSUME ~About(m, p), NoStatus(s, p)
      PROVE  NoStatus(t, p)
    BY <1>1, <1>3 DEF NoStatus
<1>4. ASSUME ~About(m, p), LastStatus(s, p, v)
      PROVE  LastStatus(t, p, v)
  <2>1. PICK k \in 1..Len(s) : /\ About(s[k], p) /\ s[k].status = v
                               /\ \A j \in (k + 1)..Len(s) : ~About(s[j], p)
      BY <1>4 DEF LastStatus
  <2>2. k \in 1..Len(t) /\ t[k] = s[k]
      BY <1>1
  <2>3. ASSUME NEW j \in (k + 1)..Len(t)
        PROVE  ~About(t[j], p)
    <3>1. CASE j = Len(s) + 1
        BY <1>1, <1>4, <3>1
    <3>2. CASE j # Len(s) + 1
      <4>1. j \in (k + 1)..Len(s) /\ j \in 1..Len(s)
          BY <1>1, <3>2
      <4>2. QED
          BY <1>1, <2>1, <4>1
    <3>3. QED
        BY <3>1, <3>2
  <2>4. QED
      BY <2>1, <2>2, <2>3 DEF LastStatus
<1>5. QED
    BY <1>2, <1>3, <1>4 DEF t

\* What the queue says without its head.
LEMMA Taken ==
    ASSUME NEW s \in Seq(Messages), s # <<>>, NEW p
    PROVE  /\ NoStatus(s, p) => NoStatus(Tail(s), p) /\ ~About(Head(s), p)
           /\ ~About(Head(s), p) /\ NoStatus(Tail(s), p) => NoStatus(s, p)
           /\ \A v : LastStatus(s, p, v) =>
                \/ LastStatus(Tail(s), p, v)
                \/ About(Head(s), p) /\ Head(s).status = v /\ NoStatus(Tail(s), p)
<1> DEFINE t == Tail(s)
<1>1. /\ Len(s) = Len(t) + 1 /\ Len(t) \in Nat
      /\ Head(s) = s[1]
      /\ \A k \in 1..Len(t) : t[k] = s[k + 1]
    OBVIOUS
<1> HIDE DEF t
<1>2. ASSUME NoStatus(s, p)
      PROVE  NoStatus(t, p) /\ ~About(Head(s), p)
    BY <1>1, <1>2 DEF NoStatus
<1>3. ASSUME ~About(Head(s), p), NoStatus(t, p), NEW k \in 1..Len(s)
      PROVE  ~About(s[k], p)
  <2>1. CASE k = 1
      BY <1>1, <1>3, <2>1
  <2>2. CASE k # 1
    <3>1. k - 1 \in 1..Len(t) /\ t[k - 1] = s[k]
        BY <1>1, <2>2
    <3>2. QED
        BY <1>3, <3>1 DEF NoStatus
  <2>3. QED
      BY <2>1, <2>2
<1>4. ASSUME NEW v, LastStatus(s, p, v)
      PROVE  \/ LastStatus(t, p, v)
             \/ About(Head(s), p) /\ Head(s).status = v /\ NoStatus(t, p)
  <2>1. PICK k \in 1..Len(s) : /\ About(s[k], p) /\ s[k].status = v
                               /\ \A j \in (k + 1)..Len(s) : ~About(s[j], p)
      BY <1>4 DEF LastStatus
  <2>2. CASE k = 1
    <3>1. \A j \in 1..Len(t) : j + 1 \in 2..Len(s) /\ t[j] = s[j + 1]
        BY <1>1
    <3>2. NoStatus(t, p)
        BY <2>1, <2>2, <3>1 DEF NoStatus
    <3>3. QED
        BY <1>1, <2>1, <2>2, <3>2
  <2>3. CASE k # 1
    <3>1. k - 1 \in 1..Len(t) /\ t[k - 1] = s[k]
        BY <1>1, <2>3
    <3>2. ASSUME NEW j \in ((k - 1) + 1)..Len(t)
          PROVE  ~About(t[j], p)
        BY <1>1, <2>1, <2>3
    <3>3. QED
        BY <2>1, <3>1, <3>2 DEF LastStatus
  <2>4. QED
      BY <2>2, <2>3
<1>5. NoStatus(s, p) <=> \A k \in 1..Len(s) : ~About(s[k], p)
    BY DEF NoStatus
<1>6. QED
    BY <1>2, <1>3, <1>4, <1>5 DEF t

\* An app that is about nothing in the queue is last there with no status.
LEMMA NotBoth ==
    ASSUME NEW s, NEW p, NEW v, LastStatus(s, p, v)
    PROVE  ~NoStatus(s, p)
BY DEF LastStatus, NoStatus

\* An empty queue is about no app.
LEMMA EmptyQueue == \A p : NoStatus(<<>>, p) /\ \A v : ~LastStatus(<<>>, p, v)
BY DEF NoStatus, LastStatus

-----------------------------------------------------------------------------
(* Which apps have entries *)

\* The handler under way writes the entry of p.
Handles(p) == work # None /\ About(work.msg, p)

\* The last signal about p says what Android has, or it has been handled.
Covered(p) ==
    \/ \E v \in {0, 1} : LastStatus(chan, p, v) /\ (v = 1 <=> installed[p] = 0)
    \/ /\ NoStatus(chan, p)
       /\ Handles(p) => work.list.apps[p] = installed[p] /\ installed[p] # 0
       /\ ~Handles(p) => desktop[p].version = installed[p]

EntriesInv == ~missed => \A p \in Pkgs \ Excluded : Covered(p)

\* What leaves the app's own state alone leaves it covered.
LEMMA LeftCovered ==
    ASSUME NEW p, Covered(p), UNCHANGED <<chan, work>>, installed'[p] = installed[p],
           desktop'[p].version = desktop[p].version
    PROVE  Covered(p)'
BY DEF Covered, Handles, LastStatus, NoStatus

\* A new signal about p covers it.
LEMMA ReportCovers ==
    ASSUME TypeOK, NEW q \in Pkgs, NEW p \in Pkgs, NEW st \in {0, 1}, Report(StatusOf(q, st)),
           p = q => (st = 1 <=> installed'[p] = 0),
           p # q => Covered(p) /\ installed'[p] = installed[p],
           UNCHANGED <<work, desktop>>
    PROVE  Covered(p)'
<1>1. chan \in Seq(Messages) /\ chan' = Append(chan, StatusOf(q, st))
    BY DEF TypeOK, Messages, Report
<1>2. /\ StatusOf(q, st) \in Messages
      /\ About(StatusOf(q, st), p) <=> p = q
      /\ StatusOf(q, st).status = st
    BY SignalType DEF StatusOf, About
<1>3. CASE p = q
  <2>1. LastStatus(chan', p, st)
      BY <1>1, <1>2, <1>3, Added
  <2>2. LastStatus(chan, p, st)'
      BY <2>1 DEF LastStatus
  <2>3. QED
      BY <1>3, <2>2 DEF Covered
<1>4. CASE p # q
  <2>1. /\ NoStatus(chan, p) => NoStatus(chan', p)
        /\ \A v : LastStatus(chan, p, v) => LastStatus(chan', p, v)
      BY <1>1, <1>2, <1>4, Added
  <2>2. /\ NoStatus(chan, p) => NoStatus(chan, p)'
        /\ \A v : LastStatus(chan, p, v) => LastStatus(chan, p, v)'
      BY <2>1 DEF LastStatus, NoStatus
  <2>3. QED
      BY <1>4, <2>2 DEF Covered, Handles
<1>5. QED
    BY <1>3, <1>4

\* A signal that is taken leaves the others' apps covered, and says what Android has
\* if it was the last about its own.
LEMMA ReceiveCovers ==
    ASSUME TypeOK, NEW p, Covered(p), Receive
    PROVE  \/ \E v \in {0, 1} : LastStatus(chan, p, v)' /\ (v = 1 <=> installed[p] = 0)
           \/ /\ NoStatus(chan, p)'
              /\ About(Msg, p) => (Msg.status = 1 <=> installed[p] = 0)
              /\ ~About(Msg, p) => desktop[p].version = installed[p]
<1>1. chan \in Seq(Messages) /\ chan # <<>> /\ chan' = Tail(chan) /\ Msg = Head(chan) /\ work = None
    BY DEF TypeOK, Messages, Receive, Msg
<1>2. CASE NoStatus(chan, p)
  <2>1. NoStatus(Tail(chan), p) /\ ~About(Msg, p)
      BY <1>1, <1>2, Taken
  <2>2. NoStatus(chan, p)'
      BY <1>1, <2>1 DEF NoStatus
  <2>3. desktop[p].version = installed[p]
      BY <1>1, <1>2, NotBoth DEF Covered, Handles
  <2>4. QED
      BY <2>1, <2>2, <2>3
<1>3. ASSUME NEW v \in {0, 1}, LastStatus(chan, p, v), v = 1 <=> installed[p] = 0
      PROVE  \/ LastStatus(chan, p, v)'
             \/ NoStatus(chan, p)' /\ About(Msg, p) /\ Msg.status = v
  <2>1. \/ LastStatus(Tail(chan), p, v)
        \/ About(Msg, p) /\ Msg.status = v /\ NoStatus(Tail(chan), p)
      BY <1>1, <1>3, Taken
  <2>2. QED
      BY <1>1, <2>1 DEF LastStatus, NoStatus
<1>4. QED
    BY <1>2, <1>3 DEF Covered

\* Every step leaves each app's entry right, or what makes it right on its way.
LEMMA EntriesStep == TypeOK /\ EntriesInv /\ [Next]_vars => EntriesInv'
<1> SUFFICES ASSUME TypeOK, EntriesInv, [Next]_vars, ~missed', NEW p \in Pkgs \ Excluded
             PROVE  Covered(p)'
    BY DEF EntriesInv
<1>a. ~missed => Covered(p)
    BY DEF EntriesInv
<1>b. chan # <<>> => Msg \in Messages
    BY Queued DEF TypeOK, Messages, Msg
<1>1. ASSUME NEW q \in Pkgs, Install(q)
      PROVE  Covered(p)'
  <2>1. p = q => installed'[p] # 0
      BY <1>1, DesktopAssumption DEF Install, TypeOK, Versions
  <2>2. p # q => Covered(p) /\ installed'[p] = installed[p]
      BY <1>1, <1>a DEF Install, TypeOK
  <2>3. QED
      BY <1>1, <2>1, <2>2, ReportCovers DEF Install
<1>2. ASSUME NEW q \in Pkgs, Uninstall(q)
      PROVE  Covered(p)'
  <2>1. p = q => installed'[p] = 0
      BY <1>2 DEF Uninstall, TypeOK
  <2>2. p # q => Covered(p) /\ installed'[p] = installed[p]
      BY <1>2, <1>a DEF Uninstall, TypeOK
  <2>3. QED
      BY <1>2, <2>1, <2>2, ReportCovers DEF Uninstall
<1>3. ASSUME NEW q \in Pkgs, DrawIcon(q)
      PROVE  Covered(p)'
    BY <1>3, <1>a, LeftCovered DEF DrawIcon
<1>4. ASSUME NEW ok \in BOOLEAN, ReportBoot(ok)
      PROVE  Covered(p)'
  <2>1. chan \in Seq(Messages) /\ chan' = Append(chan, BootedIs(ok)) /\ BootedIs(ok) \in Messages
      BY <1>4, SignalType DEF TypeOK, Messages, ReportBoot, Report
  <2>2. ~About(BootedIs(ok), p)
      BY DEF BootedIs, About
  <2>3. /\ NoStatus(chan, p) => NoStatus(chan', p)
        /\ \A v : LastStatus(chan, p, v) => LastStatus(chan', p, v)
      BY <2>1, <2>2, Added
  <2>4. /\ NoStatus(chan, p) => NoStatus(chan, p)'
        /\ \A v : LastStatus(chan, p, v) => LastStatus(chan, p, v)'
      BY <2>3 DEF LastStatus, NoStatus
  <2>5. QED
      BY <1>4, <1>a, <2>4 DEF ReportBoot, Covered, Handles
<1>5. CASE ChangeLang
    BY <1>5, <1>a, LeftCovered DEF ChangeLang
<1>6. CASE OnInstalled
  <2>1. Receive /\ Msg.kind = "updateAppStatus" /\ Msg.status = 0
        /\ UNCHANGED <<installed, desktop>>
      BY <1>6 DEF OnInstalled
  <2>2. ~missed /\ work' = [msg |-> Msg, list |-> [apps |-> installed, lang |-> lang]]
      BY <1>6 DEF OnInstalled, AskAndroid
  <2>3. work' # None
    <3>1. Msg \in Messages
        BY <1>b, <2>1 DEF Receive
    <3>2. work' \in Work
        BY <2>2, <3>1 DEF TypeOK, Work, Messages, AppList
    <3>3. QED
        BY <3>2, WorkAssumption
  <2>4. QED
      BY <1>a, <2>1, <2>2, <2>3, ReceiveCovers DEF Covered, Handles
<1>7. CASE UpdateDesktopAndIcon
  <2> DEFINE q == work.msg.pkg
  <2>1. /\ work # None /\ work.msg.kind = "updateAppStatus" /\ work' = None
        /\ UNCHANGED <<chan, installed, missed>>
        /\ desktop' = IF work.list.apps[q] # 0 /\ q \notin Excluded
                      THEN [desktop EXCEPT ![q] = [version |-> work.list.apps[q],
                                                   lang |-> work.list.lang]]
                      ELSE desktop
      BY <1>7 DEF UpdateDesktopAndIcon
  <2>2. /\ NoStatus(chan, p) <=> NoStatus(chan, p)'
        /\ \A v : LastStatus(chan, p, v) => LastStatus(chan, p, v)'
      BY <2>1 DEF LastStatus, NoStatus
  <2>3. CASE p = q
      BY <1>a, <2>1, <2>2, <2>3 DEF Covered, Handles, About, TypeOK
  <2>4. CASE p # q
    <3>1. desktop'[p] = desktop[p]
        BY <2>1, <2>4 DEF TypeOK
    <3>2. QED
        BY <1>a, <2>1, <2>2, <2>4, <3>1 DEF Covered, Handles, About
  <2>5. QED
      BY <2>3, <2>4
<1>8. CASE RemoveDesktopAndIcon
  <2>1. /\ Receive /\ Msg.kind = "updateAppStatus" /\ Msg.status = 1
        /\ UNCHANGED <<installed, work, missed>>
        /\ desktop' = [desktop EXCEPT ![Msg.pkg] = [@ EXCEPT !.version = 0]]
      BY <1>8 DEF RemoveDesktopAndIcon
  <2>2. /\ About(Msg, p) <=> p = Msg.pkg
        /\ p = Msg.pkg => desktop'[p].version = 0
        /\ p # Msg.pkg => desktop'[p] = desktop[p]
      BY <2>1 DEF About, TypeOK, Entry
  <2>3. work = None /\ work' = None
      BY <2>1 DEF Receive
  <2>4. QED
      BY <1>a, <2>1, <2>2, <2>3, ReceiveCovers DEF Covered, Handles
<1>9. CASE OnContainerEnvBooted
  <2>1. Receive /\ Msg.kind = "containerEnvBooted" /\ UNCHANGED <<installed, desktop>>
      BY <1>9 DEF OnContainerEnvBooted
  <2>2. ~About(Msg, p) /\ ~missed
      BY <1>9, <2>1 DEF About, OnContainerEnvBooted, AskAndroid
  <2>3. ~Handles(p)'
    <3>1. work' = None \/ work'.msg = Msg
        BY <1>9 DEF OnContainerEnvBooted, Receive, AskAndroid
    <3>2. QED
        BY <2>2, <3>1 DEF Handles
  <2>4. QED
      BY <1>a, <2>1, <2>2, <2>3, ReceiveCovers DEF Covered
<1>10. CASE UpdateAllAppNames
  <2>1. /\ work.msg.kind = "containerEnvBooted" /\ work' = None
        /\ UNCHANGED <<chan, installed, missed>>
      BY <1>10 DEF UpdateAllAppNames
  <2>2. desktop'[p].version = desktop[p].version
      BY <1>10 DEF UpdateAllAppNames, TypeOK, Entry
  <2>3. /\ NoStatus(chan, p) <=> NoStatus(chan, p)'
        /\ \A v : LastStatus(chan, p, v) => LastStatus(chan, p, v)'
      BY <2>1 DEF LastStatus, NoStatus
  <2>4. QED
      BY <1>a, <2>1, <2>2, <2>3 DEF Covered, Handles, About
<1>11. CASE Restart
  <2>1. chan = <<>> /\ work = None /\ ~missed /\ chan' = <<>> /\ work' = None
        /\ UNCHANGED <<installed, desktop>>
      BY <1>11 DEF Restart
  <2>2. QED
      BY <1>a, <2>1, LeftCovered
<1>12. CASE UNCHANGED vars
    BY <1>12, <1>a, LeftCovered
<1>13. QED
    BY <1>1, <1>2, <1>3, <1>4, <1>5, <1>6, <1>7, <1>8, <1>9, <1>10, <1>11, <1>12 DEF Next

\* The entries are the apps' when the signals begin.
LEMMA EntriesInit == Init => EntriesInv
<1> SUFFICES ASSUME Init, NEW p \in Pkgs \ Excluded
             PROVE  Covered(p)
    BY DEF EntriesInv
<1>1. chan = <<>> /\ work = None
    BY DEF Init
<1>2. desktop[p].version = installed[p]
    BY DEF Init
<1>3. QED
    BY <1>1, <1>2, EmptyQueue DEF Covered, Handles

\* When every signal is handled the entries are those of the apps Android has,
\* however installations and removals crossed the answers the handlers waited for.
THEOREM EntriesMatch == Spec => []DesktopMatches
<1>1. EntriesInv => DesktopMatches
  <2> SUFFICES ASSUME EntriesInv, Quiet, NEW p \in Pkgs \ Excluded
               PROVE  desktop[p].version = installed[p]
      BY DEF DesktopMatches
  <2>1. Covered(p) /\ chan = <<>> /\ work = None
      BY DEF EntriesInv, Quiet
  <2>2. QED
      BY <2>1, EmptyQueue DEF Covered, Handles
<1>2. QED
    BY <1>1, EntriesInit, EntriesStep, TypeCorrect, PTL DEF Spec

-----------------------------------------------------------------------------
(* The language of the entries *)

\* An entry in another language waits for a signal about its app, whose handler has a
\* list in Android's language; an app the list lacks has no entry, or a signal waits.
NamesInv ==
    /\ \A p \in Excluded : desktop[p].version = 0
    /\ ~missed =>
        /\ work # None /\ bootLang = lang => work.list.lang = lang
        /\ work # None /\ work.msg.kind = "containerEnvBooted" =>
             \A p \in Pkgs \ Excluded :
                 work.list.apps[p] = 0 /\ desktop[p].version # 0 => ~NoStatus(chan, p)
        /\ bootLang = lang =>
             \A p \in Pkgs \ Excluded :
                 \/ desktop[p].version = 0 \/ desktop[p].lang = lang
                 \/ ~NoStatus(chan, p) \/ Handles(p)

\* What leaves the entries alone and forgets no signal keeps their languages.
LEMMA LeftNamed ==
    ASSUME NamesInv, UNCHANGED <<work, desktop, missed>>,
           UNCHANGED <<lang, bootLang>> \/ bootLang' # lang',
           \A p : NoStatus(chan, p)' => NoStatus(chan, p)
    PROVE  NamesInv'
BY DEF NamesInv, Handles

\* A signal that is appended makes nothing forgotten.
LEMMA AppendedKeeps ==
    ASSUME TypeOK, NEW m \in Messages, Report(m)
    PROVE  \A p : NoStatus(chan, p)' => NoStatus(chan, p)
<1>1. chan \in Seq(Messages) /\ chan' = Append(chan, m)
    BY DEF TypeOK, Messages, Report
<1>2. Len(chan') = Len(chan) + 1 /\ Len(chan) \in Nat /\ \A k \in 1..Len(chan) : chan'[k] = chan[k]
    BY <1>1
<1>3. QED
    BY <1>2 DEF NoStatus

\* A signal that is taken is forgotten by its own app only.
LEMMA TakenKeeps ==
    ASSUME TypeOK, Receive, NEW p, NoStatus(chan, p)', ~About(Msg, p)
    PROVE  NoStatus(chan, p)
<1>1. chan \in Seq(Messages) /\ chan # <<>> /\ chan' = Tail(chan) /\ Msg = Head(chan)
    BY DEF TypeOK, Messages, Receive, Msg
<1>2. NoStatus(Tail(chan), p)
    BY <1>1 DEF NoStatus
<1>3. QED
    BY <1>1, <1>2, Taken

\* Every step keeps the languages, given that the entries are covered.
LEMMA NamesStep == TypeOK /\ EntriesInv /\ NamesInv /\ [Next]_vars => NamesInv'
<1> SUFFICES ASSUME TypeOK, EntriesInv, NamesInv, [Next]_vars
             PROVE  NamesInv'
    OBVIOUS
<1>b. chan # <<>> => Msg \in Messages
    BY Queued DEF TypeOK, Messages, Msg
<1>1. ASSUME NEW p \in Pkgs, Install(p) \/ Uninstall(p)
      PROVE  NamesInv'
  <2>1. \A q : NoStatus(chan, q)' => NoStatus(chan, q)
      BY <1>1, SignalType, AppendedKeeps DEF Install, Uninstall
  <2>2. QED
      BY <1>1, <2>1, LeftNamed DEF Install, Uninstall
<1>2. ASSUME NEW p \in Pkgs, DrawIcon(p)
      PROVE  NamesInv'
    BY <1>2, LeftNamed DEF DrawIcon, NoStatus
<1>3. ASSUME NEW ok \in BOOLEAN, ReportBoot(ok)
      PROVE  NamesInv'
  <2>1. \A q : NoStatus(chan, q)' => NoStatus(chan, q)
      BY <1>3, SignalType, AppendedKeeps DEF ReportBoot
  <2>2. QED
      BY <1>3, <2>1, LeftNamed DEF ReportBoot
<1>4. CASE ChangeLang
    BY <1>4, LeftNamed DEF ChangeLang, NoStatus
<1>5. CASE OnInstalled
  <2>1. /\ Receive /\ Msg.kind = "updateAppStatus" /\ work = None
        /\ UNCHANGED <<installed, desktop, lang, bootLang>>
      BY <1>5 DEF OnInstalled, Receive
  <2> SUFFICES ASSUME ~missed'
               PROVE  NamesInv'
      BY <2>1 DEF NamesInv
  <2>2. ~missed /\ work' = [msg |-> Msg, list |-> [apps |-> installed, lang |-> lang]]
      BY <1>5 DEF OnInstalled, AskAndroid
  <2>3. work' # None
    <3>1. work' \in Work
        BY <1>b, <2>1, <2>2 DEF TypeOK, Work, Messages, AppList, Receive
    <3>2. QED
        BY <3>1, WorkAssumption
  <2>4. \A p : NoStatus(chan, p)' /\ ~Handles(p)' => NoStatus(chan, p) /\ ~Handles(p)
      BY <2>1, <2>2, <2>3, TakenKeeps DEF Handles
  <2>5. work'.list.lang = lang /\ work'.msg.kind = "updateAppStatus"
      BY <2>1, <2>2
  <2>6. QED
      BY <2>1, <2>2, <2>4, <2>5 DEF NamesInv
<1>6. CASE UpdateDesktopAndIcon
  <2> DEFINE q == work.msg.pkg
  <2>1. /\ work # None /\ work.msg.kind = "updateAppStatus" /\ work' = None
        /\ UNCHANGED <<chan, installed, missed, lang, bootLang>>
        /\ desktop' = IF work.list.apps[q] # 0 /\ q \notin Excluded
                      THEN [desktop EXCEPT ![q] = [version |-> work.list.apps[q],
                                                   lang |-> work.list.lang]]
                      ELSE desktop
      BY <1>6 DEF UpdateDesktopAndIcon
  <2>2. \A p \in Pkgs : p # q => desktop'[p] = desktop[p] /\ ~Handles(p)
      BY <2>1 DEF TypeOK, Handles, About
  <2>3. \A p \in Excluded : desktop'[p].version = 0
      BY <2>1, <2>2, DesktopAssumption DEF NamesInv
  <2>4. ASSUME ~missed', bootLang' = lang', NEW p \in Pkgs \ Excluded
        PROVE  \/ desktop'[p].version = 0 \/ desktop'[p].lang = lang'
               \/ ~NoStatus(chan, p)'
    <3>1. NoStatus(chan, p)' <=> NoStatus(chan, p)
        BY <2>1 DEF NoStatus
    <3>2. CASE p # q
        BY <2>1, <2>2, <2>4, <3>1, <3>2 DEF NamesInv
    <3>3. CASE p = q
      <4>1. Handles(p) /\ Covered(p)
          BY <2>1, <2>4, <3>3 DEF Handles, About, EntriesInv
      <4>2. NoStatus(chan, p) => work.list.apps[p] # 0
          BY <4>1, NotBoth DEF Covered
      <4>3. work.list.lang = lang
          BY <2>1, <2>4 DEF NamesInv
      <4>4. work.list.apps[p] # 0 => desktop'[p].lang = work.list.lang
          BY <2>1, <3>3 DEF TypeOK
      <4>5. QED
          BY <2>1, <3>1, <4>2, <4>3, <4>4
    <3>4. QED
        BY <3>2, <3>3
  <2>5. QED
      BY <2>1, <2>3, <2>4 DEF NamesInv
<1>7. CASE RemoveDesktopAndIcon
  <2>1. /\ Receive /\ UNCHANGED <<installed, work, missed, lang, bootLang>>
        /\ Msg.kind = "updateAppStatus" /\ work = None
        /\ desktop' = [desktop EXCEPT ![Msg.pkg] = [@ EXCEPT !.version = 0]]
      BY <1>7 DEF RemoveDesktopAndIcon, Receive
  <2>2. \A p \in Pkgs : IF p = Msg.pkg THEN desktop'[p].version = 0 ELSE desktop'[p] = desktop[p]
      BY <2>1 DEF TypeOK, Entry
  <2>3. \A p \in Pkgs : About(Msg, p) <=> p = Msg.pkg
      BY <2>1 DEF About
  <2>4. \A p \in Pkgs : p # Msg.pkg /\ NoStatus(chan, p)' => NoStatus(chan, p)
      BY <2>1, <2>3, TakenKeeps
  <2>5. \A p \in Excluded : desktop'[p].version = 0
      BY <2>2, DesktopAssumption DEF NamesInv
  <2>6. \A p : ~Handles(p)
      BY <2>1 DEF Handles
  <2>7. QED
      BY <2>1, <2>2, <2>4, <2>5, <2>6 DEF NamesInv
<1>8. CASE OnContainerEnvBooted
  <2>1. /\ Receive /\ Msg.kind = "containerEnvBooted" /\ work = None
        /\ UNCHANGED <<installed, desktop, lang, bootLang>>
      BY <1>8 DEF OnContainerEnvBooted, Receive
  <2> SUFFICES ASSUME ~missed'
               PROVE  NamesInv'
      BY <2>1 DEF NamesInv
  <2>2. /\ ~missed
        /\ work' = None \/ work' = [msg |-> Msg, list |-> [apps |-> installed, lang |-> lang]]
      BY <1>8, <2>1 DEF OnContainerEnvBooted, AskAndroid
  <2>3. \A p : NoStatus(chan, p)' => NoStatus(chan, p)
    <3>1. \A p : ~About(Msg, p)
        BY <2>1 DEF About
    <3>2. QED
        BY <2>1, <3>1, TakenKeeps
  <2>4. \A p : ~Handles(p)
      BY <2>1 DEF Handles
  <2>5. \A p \in Pkgs \ Excluded : NoStatus(chan, p) => desktop[p].version = installed[p]
      BY <2>2, <2>4, NotBoth DEF EntriesInv, Covered
  <2>6. work' # None => work'.list.lang = lang /\ work'.list.apps = installed
      BY <2>2
  <2>7. QED
      BY <2>1, <2>2, <2>3, <2>4, <2>5, <2>6 DEF NamesInv
<1>9. CASE UpdateAllAppNames
  <2> DEFINE listed == {p \in Pkgs \ Excluded : work.list.apps[p] # 0}
  <2>1. /\ work # None /\ work.msg.kind = "containerEnvBooted" /\ work' = None
        /\ UNCHANGED <<chan, missed, lang>>
        /\ desktop' = [p \in Pkgs |-> IF p \in listed /\ desktop[p].version # 0
                                      THEN [desktop[p] EXCEPT !.lang = work.list.lang]
                                      ELSE desktop[p]]
        /\ bootLang' = IF work.list.lang = lang THEN lang ELSE "none"
      BY <1>9 DEF UpdateAllAppNames
  <2>2. \A p \in Pkgs : desktop'[p].version = desktop[p].version
      BY <2>1 DEF TypeOK, Entry
  <2>3. \A p \in Excluded : desktop'[p].version = 0
      BY <2>2, DesktopAssumption DEF NamesInv
  <2>4. ASSUME ~missed', bootLang' = lang', NEW p \in Pkgs \ Excluded, desktop'[p].version # 0
        PROVE  desktop'[p].lang = lang' \/ ~NoStatus(chan, p)'
    <3>1. work.list.lang = lang
        BY <2>1, <2>4 DEF TypeOK, Langs
    <3>2. CASE p \in listed
        BY <2>1, <2>2, <2>4, <3>1, <3>2 DEF TypeOK, Entry
    <3>3. CASE p \notin listed
      <4>1. ~NoStatus(chan, p)
          BY <2>1, <2>2, <2>4, <3>3 DEF NamesInv
      <4>2. QED
          BY <2>1, <4>1 DEF NoStatus
    <3>4. QED
        BY <3>2, <3>3
  <2>5. QED
      BY <2>1, <2>3, <2>4 DEF NamesInv
<1>10. CASE Restart
  <2>1. /\ UNCHANGED <<desktop, lang, bootLang>> /\ work' = None
        /\ ~missed' => ~missed /\ chan = <<>> /\ work = None /\ chan' = <<>>
      BY <1>10 DEF Restart
  <2>2. QED
      BY <2>1 DEF NamesInv, Handles, NoStatus
<1>11. CASE UNCHANGED vars
    BY <1>11, LeftNamed DEF NoStatus
<1>12. QED
    BY <1>1, <1>2, <1>3, <1>4, <1>5, <1>6, <1>7, <1>8, <1>9, <1>10, <1>11 DEF Next

\* After a boot that was handled every entry names its app in Android's language,
\* also those of apps that came and went while the manager asked for the list.
THEOREM NamesMatch == Spec => []NamesCurrent
<1>1. Init => NamesInv
  <2> SUFFICES ASSUME Init
               PROVE  NamesInv
      OBVIOUS
  <2>1. work = None /\ bootLang # lang
      BY DEF Init
  <2>2. \A p \in Excluded : desktop[p].version = 0
    <3>0. PICK l \in Langs :
             desktop = [p \in Pkgs |->
                           [version |-> IF p \in Excluded THEN 0 ELSE installed[p], lang |-> l]]
        BY Zenon DEF Init
    <3>1. \A p \in Pkgs : desktop[p].version = IF p \in Excluded THEN 0 ELSE installed[p]
        BY <3>0
    <3>2. QED
        BY <3>1, DesktopAssumption
  <2>3. QED
      BY <2>1, <2>2 DEF NamesInv
<1>2. NamesInv => NamesCurrent
  <2> SUFFICES ASSUME NamesInv, Quiet, bootLang = lang, NEW p \in Pkgs, desktop[p].version # 0
               PROVE  desktop[p].lang = lang
      BY DEF NamesCurrent
  <2>1. chan = <<>> /\ ~Handles(p) /\ ~missed
      BY DEF Quiet, Handles
  <2>2. p \in Pkgs \ Excluded
      BY DEF NamesInv
  <2>3. QED
      BY <2>1, <2>2, EmptyQueue DEF NamesInv
<1>3. QED
    BY <1>1, <1>2, EntriesInit, EntriesStep, NamesStep, TypeCorrect, PTL DEF Spec

-----------------------------------------------------------------------------
(***************************************************************************)
(* Part 2: the media files, for any files, names, batches and edits, and   *)
(* any first value of m_currentNum: the types, the links, and, of every    *)
(* round the count can be right for, that its end is not told early and    *)
(* that the manager then has what Android has.                             *)
(***************************************************************************)

-----------------------------------------------------------------------------
(* Types, and what a signal that is sent or handled does to the queue *)

\* A signal that is sent is the last one.
LEMMA Sent ==
    ASSUME SyncTypeOK, NEW m \in Message, signals' = Append(signals, m)
    PROVE  /\ Len(signals) \in Nat /\ DOMAIN signals = 1..Len(signals)
           /\ signals' \in Seq(Message)
           /\ DOMAIN signals' = 1..Len(signals) + 1
           /\ \A i \in DOMAIN signals : signals'[i] = signals[i]
           /\ signals'[Len(signals) + 1] = m
BY DEF SyncTypeOK

\* A signal that is handled is the first one, and the others move up.
LEMMA FirstTaken ==
    ASSUME SyncTypeOK, NEW t, Take(t)
    PROVE  /\ Len(signals) \in Nat \ {0} /\ DOMAIN signals = 1..Len(signals)
           /\ Signal = signals[1] /\ Signal \in Message /\ Signal.type = t
           /\ signals' \in Seq(Message)
           /\ DOMAIN signals' = 1..Len(signals) - 1
           /\ \A i \in DOMAIN signals' : i + 1 \in DOMAIN signals /\ signals'[i] = signals[i + 1]
           /\ \A i \in DOMAIN signals \ {1} :
                 i - 1 \in DOMAIN signals' /\ signals'[i - 1] = signals[i]
BY DEF SyncTypeOK, Take, Signal

\* Each signal Android sends is a signal.
LEMMA SignalTypes ==
    ASSUME SyncTypeOK
    PROVE  /\ \A fs \in SUBSET Files, r \in Rounds :
                /\ Message0(r, fs) \in Message
                /\ Message0(r, fs).type = 0 /\ Message0(r, fs).metas = fs
                /\ Message0(r, fs).round = r /\ Message0(r, fs).total = total[r]
                /\ Message0(r, fs).first <=> r \notin begun
           /\ \A f \in Files, t \in {1, 2} :
                /\ Message12(t, f) \in Message
                /\ Message12(t, f).type = t /\ Message12(t, f).metas = {f}
<1>1. ASSUME NEW fs \in SUBSET Files, NEW r \in Rounds
      PROVE  /\ Message0(r, fs) \in Message
             /\ Message0(r, fs).type = 0 /\ Message0(r, fs).metas = fs
             /\ Message0(r, fs).round = r /\ Message0(r, fs).total = total[r]
             /\ Message0(r, fs).first <=> r \notin begun
  <2>1. total[r] \in Nat /\ r \in Nat
      BY SyncAssumption DEF SyncTypeOK, Rounds
  <2>2. PICK x \in BOOLEAN : x = (r \notin begun)
      BY Zenon
  <2>3. Message0(r, fs) = [type |-> 0, metas |-> fs, total |-> total[r], round |-> r, first |-> x]
      BY <2>2, Zenon DEF Message0
  <2>4. Message0(r, fs) \in Message
      BY <2>1, <2>3 DEF Message
  <2>5. Message0(r, fs).first = x
      BY <2>3
  <2>6. Message0(r, fs).first <=> r \notin begun
      BY <2>2, <2>5, Zenon
  <2>7. /\ Message0(r, fs).type = 0 /\ Message0(r, fs).metas = fs
        /\ Message0(r, fs).round = r /\ Message0(r, fs).total = total[r]
      BY <2>3
  <2> QED BY <2>4, <2>6, <2>7, Zenon
<1>2. ASSUME NEW f \in Files, NEW t \in {1, 2}
      PROVE  /\ Message12(t, f) \in Message
             /\ Message12(t, f).type = t /\ Message12(t, f).metas = {f}
    BY DEF Message, Message12
<1> QED BY <1>1, <1>2

\* Sets of files are finite.
LEMMA Finite ==
    ASSUME NEW fs \in SUBSET Files
    PROVE  IsFiniteSet(fs) /\ Cardinality(fs) \in Nat
BY SyncAssumption, FS_Subset, FS_CardinalityType

\* A free name gets the file of one of the signal's entries that Android still has.
LEMMA Linked ==
    ASSUME SyncTypeOK, Signal \in Message, LinkFiles
    PROVE  /\ links' \in [Slots -> Files \union {NoFile}]
           /\ \A s \in Slots : IF links[s] = NoFile /\ CanLink(s) # {}
                               THEN links'[s] \in CanLink(s) ELSE links'[s] = links[s]
<1> DEFINE may == [s \in Slots |-> IF links[s] = NoFile /\ CanLink(s) # {}
                                   THEN CanLink(s) ELSE {links[s]}]
           All == UNION {may[s] : s \in Slots}
<1>1. links' \in [Slots -> All] /\ \A s \in Slots : links'[s] \in may[s]
    BY DEF LinkFiles
<1>2. \A s \in Slots : may[s] \subseteq Files \union {NoFile}
    BY DEF SyncTypeOK, CanLink, Message
<1>3. \A s \in Slots : IF links[s] = NoFile /\ CanLink(s) # {}
                        THEN links'[s] \in CanLink(s) ELSE links'[s] = links[s]
    BY <1>1
<1> HIDE DEF may
<1>4. All \subseteq Files \union {NoFile}
    BY <1>2
<1> QED BY <1>1, <1>3, <1>4

\* The batch that is sent is of the files that are left.
LEMMA BatchSent ==
    ASSUME SyncTypeOK, NEW r \in Rounds, SendBatch(r)
    PROVE  \E b \in SUBSET left[r], m \in Message :
             /\ b \subseteq Files /\ (b = {} => left[r] = {})
             /\ m.type = 0 /\ m.metas = b /\ m.round = r /\ m.total = total[r]
             /\ m.first <=> r \notin begun
             /\ signals' = Append(signals, m)
             /\ left' = [left EXCEPT ![r] = @ \ b]
             /\ sending' = IF left[r] = b THEN sending \ {r} ELSE sending
<1>1. PICK b \in SUBSET left[r] :
        /\ \/ Cardinality(b) = BatchSize
           \/ Cardinality(left[r]) < BatchSize /\ b = left[r]
        /\ signals' = Append(signals, Message0(r, b))
        /\ left' = [left EXCEPT ![r] = @ \ b]
        /\ sending' = IF left[r] = b THEN sending \ {r} ELSE sending
    BY DEF SendBatch
<1>2. b \subseteq Files
    BY DEF SyncTypeOK
<1>3. b = {} => left[r] = {}
    BY <1>1, FS_EmptySet, SyncAssumption
<1>4. /\ Message0(r, b) \in Message
      /\ Message0(r, b).type = 0 /\ Message0(r, b).metas = b
      /\ Message0(r, b).round = r /\ Message0(r, b).total = total[r]
      /\ Message0(r, b).first <=> r \notin begun
    BY <1>2, SignalTypes
<1> QED BY <1>1, <1>2, <1>3, <1>4

\* The types of the start.
LEMMA SyncInitType == SyncInit => SyncTypeOK
<1> SUFFICES ASSUME SyncInit PROVE SyncTypeOK
    OBVIOUS
<1>1. signals \in Seq(Message)
    BY DEF SyncInit
<1>2. /\ round \in 0..MaxRounds /\ edits \in 0..MaxEdits /\ currentNum \in Int
      /\ total \in [Rounds -> Nat] /\ told \in [Rounds -> Nat]
    BY SyncAssumption DEF SyncInit
<1> QED BY <1>1, <1>2 DEF SyncInit, SyncTypeOK

\* Every step keeps the types.
LEMMA SyncNextType == SyncTypeOK /\ [SyncNext]_syncVars => SyncTypeOK'
<1> SUFFICES ASSUME SyncTypeOK, [SyncNext]_syncVars PROVE SyncTypeOK'
    OBVIOUS
<1>1. CASE StartRound
  <2>1. Cardinality(db) \in Nat /\ round' \in Rounds
      BY <1>1, Finite, SyncAssumption DEF SyncTypeOK, StartRound, Rounds
  <2>2. clean' \subseteq Rounds /\ sending' \subseteq Rounds
      BY <1>1, <2>1 DEF StartRound, SyncTypeOK
  <2>3. left' \in [Rounds -> SUBSET Files] /\ total' \in [Rounds -> Nat]
      BY <1>1, <2>1 DEF StartRound, SyncTypeOK
  <2>4. round' \in 0..MaxRounds
      BY <2>1, SyncAssumption DEF Rounds
  <2> QED BY <1>1, <2>2, <2>3, <2>4 DEF StartRound, SyncTypeOK
<1>2. ASSUME NEW r \in Rounds, SendBatch(r) PROVE SyncTypeOK'
  <2>1. PICK b \in SUBSET left[r], m \in Message :
          /\ b \subseteq Files /\ (b = {} => left[r] = {})
          /\ m.type = 0 /\ m.metas = b /\ m.round = r /\ m.total = total[r]
          /\ m.first <=> r \notin begun
          /\ signals' = Append(signals, m)
          /\ left' = [left EXCEPT ![r] = @ \ b]
          /\ sending' = IF left[r] = b THEN sending \ {r} ELSE sending
      BY <1>2, BatchSent
  <2>2. signals' \in Seq(Message)
      BY <2>1, Sent
  <2>3. left' \in [Rounds -> SUBSET Files] /\ sending' \subseteq Rounds /\ begun' \subseteq Rounds
      BY <1>2, <2>1 DEF SendBatch, SyncTypeOK
  <2> QED BY <1>2, <2>2, <2>3 DEF SendBatch, SyncTypeOK
<1>3. ASSUME NEW r \in Rounds, AbortRound(r) PROVE SyncTypeOK'
    BY <1>3 DEF AbortRound, SyncTypeOK
<1>4. ASSUME NEW f \in Files, Insert(f) \/ Delete(f)
      PROVE  SyncTypeOK'
  <2>1. signals' \in Seq(Message)
      BY <1>4, Sent, SignalTypes DEF Insert, Delete
  <2>2. edits' \in 0..MaxEdits
      BY <1>4, SyncAssumption DEF Insert, Delete, SyncTypeOK
  <2>3. db' \subseteq Files /\ crossed' \subseteq Files
      BY <1>4 DEF Insert, Delete, SyncTypeOK
  <2> QED BY <1>4, <2>1, <2>2, <2>3 DEF Insert, Delete, SyncTypeOK
<1>5. CASE OnAllFiles
  <2>1. Signal \in Message /\ signals' \in Seq(Message) /\ Signal.metas \in SUBSET Files
      BY <1>5, FirstTaken DEF OnAllFiles, Message
  <2>2. Cardinality(Signal.metas) \in Nat
      BY <2>1, Finite
  <2>3. metas' \subseteq Files /\ currentNum' \in Int
      BY <1>5, <2>1, <2>2 DEF OnAllFiles, SyncTypeOK
  <2>4. links' \in [Slots -> Files \union {NoFile}]
      BY <1>5, <2>1, Linked DEF OnAllFiles
  <2>5. told' \in [Rounds -> Nat]
    <3> DEFINE n == IF /\ Cardinality(Signal.metas) > 0
                       /\ currentNum + Cardinality(Signal.metas) >= Signal.total
                    THEN Cardinality(Signal.metas) ELSE 0
    <3>1. n \in Nat
        BY <2>2
    <3>2. told' = [told EXCEPT ![Signal.round] = @ + n]
        BY <1>5 DEF OnAllFiles
    <3>3. told \in [Rounds -> Nat]
        BY DEF SyncTypeOK
    <3> HIDE DEF n
    <3>4. \A r \in Rounds : told[r] + n \in Nat
        BY <3>1, <3>3
    <3> QED BY <3>2, <3>3, <3>4
  <2>6. received' \in [Rounds -> SUBSET Files]
      BY <1>5, <2>1 DEF OnAllFiles, SyncTypeOK
  <2> QED BY <1>5, <2>1, <2>3, <2>4, <2>5, <2>6 DEF OnAllFiles, SyncTypeOK
<1>6. CASE OnInsert
  <2>1. Signal \in Message /\ signals' \in Seq(Message) /\ Signal.metas \in SUBSET Files
      BY <1>6, FirstTaken DEF OnInsert, Message
  <2>2. links' \in [Slots -> Files \union {NoFile}]
      BY <1>6, <2>1, Linked DEF OnInsert
  <2> QED BY <1>6, <2>1, <2>2 DEF OnInsert, SyncTypeOK
<1>7. CASE OnDelete
  <2>1. Signal \in Message /\ signals' \in Seq(Message)
      BY <1>7, FirstTaken DEF OnDelete
  <2> QED BY <1>7, <2>1 DEF OnDelete, SyncTypeOK
<1>8. CASE UNCHANGED syncVars
    BY <1>8 DEF SyncTypeOK
<1> QED
    BY <1>1, <1>2, <1>3, <1>4, <1>5, <1>6, <1>7, <1>8 DEF SyncNext, OnSyncFiles

-----------------------------------------------------------------------------
(* Links *)

\* A deletion of f, or a signal that brings it, is on its way.
Leaving(f) == \E i \in DOMAIN signals : signals[i].type = 2 /\ f \in signals[i].metas
Bringing(f) == \E i \in DOMAIN signals : signals[i].type # 2 /\ f \in signals[i].metas

\* No other file has the link name of f.
OwnName(f) == \A g \in Files \ {f} : Slot[g] # Slot[f]

\* A link has the name of the file it holds, and that file is there or a deletion is coming.
LinksHold ==
    \A s \in Slots : links[s] # NoFile =>
        Slot[links[s]] = s /\ (links[s] \in db \/ Leaving(links[s]))

\* A listed file that is there has its link, or a signal brings it again.
ListedHold == \A f \in metas \intersect db : OwnName(f) => links[Slot[f]] = f \/ Bringing(f)

LinksInv == LinksHold /\ ListedHold

\* A signal that is sent keeps it, if it deletes what Android has deleted and brings what is new.
LEMMA SentLinks ==
    ASSUME SyncTypeOK, LinksInv, NEW m \in Message, signals' = Append(signals, m),
           UNCHANGED <<metas, links>>,
           \A f \in db \ db' : m.type = 2 /\ f \in m.metas,
           \A f \in db' \ db : m.type # 2 /\ f \in m.metas
    PROVE  LinksInv'
<1>1. /\ Len(signals) \in Nat /\ DOMAIN signals = 1..Len(signals)
      /\ DOMAIN signals' = 1..Len(signals) + 1
      /\ \A i \in DOMAIN signals : signals'[i] = signals[i]
      /\ signals'[Len(signals) + 1] = m
    BY Sent
<1>2. \A f : (Leaving(f) => Leaving(f)') /\ (Bringing(f) => Bringing(f)')
    BY <1>1 DEF Leaving, Bringing
<1>3. (\A f \in db \ db' : Leaving(f)') /\ (\A f \in db' \ db : Bringing(f)')
    BY <1>1 DEF Leaving, Bringing
<1>4. LinksHold'
    BY <1>2, <1>3 DEF LinksInv, LinksHold
<1>5. ListedHold'
    BY <1>2, <1>3 DEF LinksInv, ListedHold, OwnName
<1> QED BY <1>4, <1>5 DEF LinksInv

\* A deletion that is handled is the only one that has left the queue, and so for the others.
LEMMA TakenLinks ==
    ASSUME SyncTypeOK, NEW t, Take(t)
    PROVE  /\ \A f : Leaving(f) => Leaving(f)' \/ (t = 2 /\ f \in Signal.metas)
           /\ \A f : Bringing(f) => Bringing(f)' \/ (t # 2 /\ f \in Signal.metas)
<1>1. /\ Signal = signals[1] /\ Signal.type = t
      /\ \A i \in DOMAIN signals \ {1} :
            i - 1 \in DOMAIN signals' /\ signals'[i - 1] = signals[i]
    BY FirstTaken
<1>2. ASSUME NEW f, Leaving(f)
      PROVE  Leaving(f)' \/ (t = 2 /\ f \in Signal.metas)
    BY <1>1, <1>2 DEF Leaving
<1>3. ASSUME NEW f, Bringing(f)
      PROVE  Bringing(f)' \/ (t # 2 /\ f \in Signal.metas)
    BY <1>1, <1>3 DEF Bringing
<1> QED BY <1>2, <1>3

\* A signal that brings files links them, where it can, and lists them.
LEMMA BroughtLinks ==
    ASSUME SyncTypeOK, LinksInv, NEW t \in {0, 1}, Take(t), db' = db, LinkFiles,
           metas' \subseteq metas \union Signal.metas
    PROVE  LinksInv'
<1>1. /\ \A f : Leaving(f) => Leaving(f)'
      /\ \A f : Bringing(f) => Bringing(f)' \/ f \in Signal.metas
    BY TakenLinks
<1>2. Signal \in Message /\ Signal.metas \subseteq Files
    BY FirstTaken DEF Message
<1>3. \A s \in Slots : IF links[s] = NoFile /\ CanLink(s) # {}
                       THEN links'[s] \in CanLink(s) ELSE links'[s] = links[s]
    BY <1>2, Linked
<1>4. LinksHold'
  <2> SUFFICES ASSUME NEW s \in Slots, links'[s] # NoFile
               PROVE  (Slot[links[s]] = s /\ (links[s] \in db \/ Leaving(links[s])))'
      BY DEF LinksHold
  <2>1. CASE links'[s] = links[s]
    <3>1. Slot[links[s]] = s /\ (links[s] \in db \/ Leaving(links[s])')
        BY <1>1, <2>1 DEF LinksInv, LinksHold
    <3> QED BY <2>1, <3>1 DEF Leaving
  <2>2. CASE links'[s] \in CanLink(s)
      BY <2>2 DEF CanLink
  <2> QED BY <1>3, <2>1, <2>2
<1>5. ListedHold'
  <2> SUFFICES ASSUME NEW f \in metas' \intersect db, OwnName(f), ~Bringing(f)'
               PROVE  links'[Slot[f]] = f
      BY DEF ListedHold, OwnName
  <2>1. f \in Files /\ Slot[f] \in Slots
      BY SyncAssumption DEF SyncTypeOK
  <2>2. links[Slot[f]] \in {f, NoFile}
      BY <2>1 DEF LinksInv, LinksHold, OwnName, SyncTypeOK
  <2>3. CASE links[Slot[f]] = f
      BY <1>3, <2>1, <2>3, SyncAssumption
  <2>4. CASE links[Slot[f]] = NoFile
    <3>1. f \in Signal.metas
      <4>1. f # NoFile
          BY <2>1, SyncAssumption
      <4>2. f \in metas => Bringing(f)
          BY <2>4, <4>1 DEF LinksInv, ListedHold
      <4> QED BY <1>1, <4>2
    <3>2. CanLink(Slot[f]) = {f}
        BY <1>2, <3>1 DEF CanLink, OwnName
    <3> QED BY <1>3, <2>1, <2>4, <3>2
  <2> QED BY <2>2, <2>3, <2>4
<1> QED BY <1>4, <1>5 DEF LinksInv

\* Every step keeps the links and the lists right.
LEMMA LinksStep == SyncTypeOK /\ LinksInv /\ [SyncNext]_syncVars => LinksInv'
<1> SUFFICES ASSUME SyncTypeOK, LinksInv, [SyncNext]_syncVars
             PROVE  LinksInv'
    OBVIOUS
<1>1. ASSUME UNCHANGED <<db, signals, mirrorVars>> PROVE LinksInv'
    BY <1>1 DEF LinksInv, LinksHold, ListedHold, Leaving, Bringing, OwnName
<1>2. ASSUME NEW r \in Rounds, SendBatch(r) PROVE LinksInv'
  <2>1. \E m \in Message : signals' = Append(signals, m)
      BY <1>2, BatchSent
  <2> QED BY <1>2, <2>1, SentLinks DEF SendBatch
<1>3. ASSUME NEW f \in Files, Insert(f) PROVE LinksInv'
  <2>1. Message12(1, f) \in Message /\ Message12(1, f).metas = {f} /\ Message12(1, f).type = 1
      BY SignalTypes
  <2> QED BY <1>3, <2>1, SentLinks DEF Insert
<1>4. ASSUME NEW f \in Files, Delete(f) PROVE LinksInv'
  <2>1. Message12(2, f) \in Message /\ Message12(2, f).metas = {f} /\ Message12(2, f).type = 2
      BY SignalTypes
  <2> QED BY <1>4, <2>1, SentLinks DEF Delete
<1>5. CASE OnAllFiles
  <2>1. metas' \subseteq metas \union Signal.metas
      BY <1>5 DEF OnAllFiles
  <2> QED BY <1>5, <2>1, BroughtLinks DEF OnAllFiles
<1>6. CASE OnInsert
    BY <1>6, BroughtLinks DEF OnInsert
<1>7. CASE OnDelete
  <2>1. /\ \A f : Leaving(f) => Leaving(f)' \/ f \in Signal.metas
        /\ \A f : Bringing(f) => Bringing(f)'
      BY <1>7, TakenLinks DEF OnDelete
  <2>2. \A s \in Slots : links'[s] = IF \E f \in Signal.metas : Slot[f] = s
                                     THEN NoFile ELSE links[s]
      BY <1>7 DEF OnDelete
  <2>3. LinksHold'
      BY <1>7, <2>1, <2>2 DEF OnDelete, LinksInv, LinksHold
  <2>4. ListedHold'
    <3> SUFFICES ASSUME NEW f \in metas' \intersect db, OwnName(f), ~Bringing(f)'
                 PROVE  links'[Slot[f]] = f
        BY <1>7 DEF ListedHold, OwnName, OnDelete
    <3>1. f \in metas /\ f \notin Signal.metas /\ f \in Files
        BY <1>7 DEF OnDelete, SyncTypeOK
    <3>2. links[Slot[f]] = f
        BY <2>1, <3>1 DEF LinksInv, ListedHold
    <3>3. Signal.metas \subseteq Files
        BY <1>7, FirstTaken DEF OnDelete, Message
    <3> QED BY <2>2, <3>1, <3>2, <3>3, SyncAssumption DEF OwnName
  <2> QED BY <2>3, <2>4 DEF LinksInv
<1> QED
    BY <1>1, <1>2, <1>3, <1>4, <1>5, <1>6, <1>7
       DEF SyncNext, OnSyncFiles, StartRound, AbortRound

-----------------------------------------------------------------------------
(* Rounds *)

\* A round under way has files left, but before its first batch; of the rounds under way only
\* the latest can be one the count is right for, and then it is the only one.
SendingInv ==
    /\ sending \subseteq 1..round /\ begun \subseteq 1..round /\ clean \subseteq 1..round
    /\ clean \subseteq begun \union sending
    /\ \A r \in Rounds : left[r] # {} => r \in sending
    /\ \A r \in sending \intersect begun : left[r] # {}
    /\ \A s \in sending, c \in clean : c <= s
    /\ sending \intersect clean \subseteq {round}
    /\ round \in clean => sending \subseteq {round}

\* Every step keeps this.
LEMMA SendingStep == SyncTypeOK /\ SendingInv /\ [SyncNext]_syncVars => SendingInv'
<1> SUFFICES ASSUME SyncTypeOK, SendingInv, [SyncNext]_syncVars PROVE SendingInv'
    OBVIOUS
<1>1. CASE StartRound
  <2>1. PICK n \in Rounds :
          /\ n = round + 1 /\ n = round' /\ round \in Nat /\ 1..n = (1..round) \union {n}
          /\ left' = [left EXCEPT ![n] = db] /\ sending' = sending \union {n} /\ begun' = begun
          /\ clean' = IF (NoBatches /\ currentNum = 0) \/ (sending = {} /\ round \in clean)
                      THEN clean \union {n} ELSE clean \ sending
    <3>1. round' \in Rounds /\ round' = round + 1 /\ round \in Nat
        BY <1>1, SyncAssumption DEF StartRound, SyncTypeOK, Rounds
    <3>2. 1..(round + 1) = (1..round) \union {round + 1}
        BY <3>1
    <3> QED BY <1>1, <3>1, <3>2 DEF StartRound
  <2>2. n \notin clean /\ n \notin begun /\ n \notin sending
      BY <2>1 DEF SendingInv
  <2>3. \A c \in clean \union {n} : c <= n
      BY <2>1 DEF SendingInv
  <2>4. /\ sending' \subseteq 1..n /\ begun' \subseteq 1..n /\ clean' \subseteq 1..n
        /\ clean' \subseteq begun' \union sending'
      BY <2>1 DEF SendingInv
  <2>5. /\ \A r \in Rounds : left'[r] # {} => r \in sending'
        /\ \A r \in sending' \intersect begun' : left'[r] # {}
      BY <2>1, <2>2 DEF SendingInv, SyncTypeOK
  <2>6. CASE sending = {} /\ clean' = clean \union {n}
      BY <2>1, <2>3, <2>4, <2>5, <2>6 DEF SendingInv
  <2>7. CASE clean' = clean \ sending
      BY <2>1, <2>2, <2>3, <2>4, <2>5, <2>7 DEF SendingInv
  <2> QED BY <2>1, <2>6, <2>7 DEF NoBatches
<1>2. ASSUME NEW r \in Rounds, SendBatch(r) PROVE SendingInv'
  <2>1. PICK b \in SUBSET left[r] :
          /\ left' = [left EXCEPT ![r] = @ \ b]
          /\ sending' = IF left[r] = b THEN sending \ {r} ELSE sending
      BY <1>2, BatchSent
  <2>2. /\ r \in sending /\ begun' = begun \union {r}
        /\ UNCHANGED <<round, clean>>
      BY <1>2 DEF SendBatch
  <2>3. \A s \in Rounds : left'[s] = IF s = r THEN left[s] \ b ELSE left[s]
      BY <2>1 DEF SyncTypeOK
  <2>4. \A s \in Rounds : left'[s] # {} => s \in sending'
      BY <2>1, <2>3 DEF SendingInv
  <2>5. \A s \in sending' \intersect begun' : left'[s] # {}
      BY <2>1, <2>2, <2>3 DEF SendingInv, SyncTypeOK
  <2>6. sending' \subseteq sending /\ sending \subseteq sending' \union {r}
      BY <2>1
  <2> QED BY <2>2, <2>4, <2>5, <2>6 DEF SendingInv
<1>3. ASSUME NEW r \in Rounds, AbortRound(r) PROVE SendingInv'
    BY <1>3 DEF AbortRound, SendingInv, SyncTypeOK
<1>4. ASSUME UNCHANGED <<left, sending, begun, round, clean>> PROVE SendingInv'
    BY <1>4 DEF SendingInv
<1> QED
    BY <1>1, <1>2, <1>3, <1>4
       DEF SyncNext, OnSyncFiles, Insert, Delete, OnAllFiles, OnInsert, OnDelete

Batch(i) == i \in DOMAIN signals /\ signals[i].type = 0

\* What the signals on their way, and Android, still have of a round.
Coming(r) == {f \in Files : \E i \in DOMAIN signals :
                 Batch(i) /\ signals[i].round = r /\ f \in signals[i].metas}
Whole(r) == received[r] \union Coming(r) \union left[r]
Complete(r) == Coming(r) = {} /\ left[r] = {}

\* A batch on its way is of a round that has begun, nobody else brings its files, and only the
\* first of a round can be empty.
BatchKnown ==
    \A i \in DOMAIN signals : Batch(i) =>
        /\ signals[i].round \in begun
        /\ signals[i].total = total[signals[i].round]
        /\ signals[i].metas \intersect left[signals[i].round] = {}
        /\ signals[i].metas \intersect received[signals[i].round] = {}
        /\ ~signals[i].first => signals[i].metas # {}

\* Batches of a round are disjoint.  Those of the rounds the count can be right for come in
\* order, after those received, and before them comes no batch of another round.
BatchOrder ==
    /\ \A i, j \in DOMAIN signals : Batch(i) /\ Batch(j) /\ i < j =>
          /\ signals[i].round = signals[j].round =>
                signals[i].metas \intersect signals[j].metas = {}
          /\ signals[i].round \in clean \/ signals[j].round \in clean =>
                signals[i].round <= signals[j].round
          /\ signals[j].round \in clean => signals[i].round \in clean
    /\ \A i \in DOMAIN signals, r \in clean : Batch(i) /\ received[r] # {} => r <= signals[i].round
    /\ round \in clean => \A i \in DOMAIN signals : Batch(i) => signals[i].round \in clean

\* The first batch comes before the others, which have files before them.
FirstInv ==
    /\ \A i \in DOMAIN signals : Batch(i) /\ signals[i].first =>
          /\ received[signals[i].round] = {}
          /\ \A j \in DOMAIN signals : j < i /\ Batch(j) => signals[j].round # signals[i].round
    /\ \A i \in DOMAIN signals : Batch(i) /\ ~signals[i].first =>
          \/ received[signals[i].round] # {}
          \/ \E j \in DOMAIN signals :
                j < i /\ Batch(j) /\ signals[j].round = signals[i].round /\ signals[j].metas # {}
    /\ \A r \in begun \intersect sending : received[r] # {} \/ Coming(r) # {}
    /\ \A r \in Rounds : received[r] # {} \/ told[r] > 0 => r \in begun

\* The total of a round counts its files, wherever they are.
RoundKnown ==
    /\ \A r \in Rounds : left[r] \intersect received[r] = {}
    /\ \A r \in clean : Cardinality(Whole(r)) = total[r]

\* The manager has to do with the rounds the count can be right for.
Active == round \in clean \/ \E i \in DOMAIN signals : Batch(i) /\ signals[i].round \in clean

\* Then m_currentNum is the number of files received of the round under way, and a round that
\* was told is over.
CountInv ==
    /\ \A r \in clean : received[r] # {} /\ ~Complete(r) => currentNum = Cardinality(received[r])
    /\ Active /\ (\A r \in clean : received[r] = {} \/ Complete(r)) => currentNum = 0
    /\ \A r \in clean : told[r] > 0 => Complete(r)

CountsInv == BatchKnown /\ BatchOrder /\ FirstInv /\ RoundKnown /\ CountInv

\* When a signal is sent, the others stay where they are.
LEMMA SentBatches ==
    ASSUME SyncTypeOK, NEW m \in Message, signals' = Append(signals, m)
    PROVE  \E k \in Nat \ {0} :
             /\ DOMAIN signals = 1..(k - 1) /\ DOMAIN signals' = 1..k
             /\ signals'[k] = m
             /\ \A i \in DOMAIN signals :
                   i \in DOMAIN signals' /\ i < k /\ signals'[i] = signals[i]
             /\ \A i : Batch(i) => Batch(i)' /\ i < k /\ signals'[i] = signals[i]
             /\ Batch(k)' <=> m.type = 0
             /\ \A i : Batch(i)' => Batch(i) \/ i = k
<1>1. /\ Len(signals) \in Nat /\ DOMAIN signals = 1..Len(signals)
      /\ DOMAIN signals' = 1..Len(signals) + 1
      /\ \A i \in DOMAIN signals : signals'[i] = signals[i]
      /\ signals'[Len(signals) + 1] = m
    BY Sent
<1>2. PICK k \in Nat \ {0} : k = Len(signals) + 1
    BY <1>1
<1>3. /\ DOMAIN signals = 1..(k - 1) /\ DOMAIN signals' = 1..k /\ signals'[k] = m
      /\ \A i \in DOMAIN signals : i \in DOMAIN signals' /\ i < k
    BY <1>1, <1>2
<1>4. /\ \A i : Batch(i) => Batch(i)' /\ i < k /\ signals'[i] = signals[i]
      /\ Batch(k)' <=> m.type = 0
      /\ \A i : Batch(i)' => Batch(i) \/ i = k
    BY <1>1, <1>3 DEF Batch
<1> QED BY <1>1, <1>3, <1>4

\* When a signal is handled, the others move up.
LEMMA TakenBatches ==
    ASSUME SyncTypeOK, NEW t, Take(t)
    PROVE  /\ 1 \in DOMAIN signals /\ Signal = signals[1] /\ signals[1] \in Message
           /\ signals[1].type = t
           /\ Batch(1) <=> t = 0
           /\ DOMAIN signals \subseteq Nat \ {0} /\ DOMAIN signals' \subseteq Nat \ {0}
           /\ \A i \in DOMAIN signals' :
                 i + 1 \in DOMAIN signals /\ 1 < i + 1 /\ signals'[i] = signals[i + 1]
           /\ \A i \in DOMAIN signals \ {1} :
                 i - 1 \in DOMAIN signals' /\ signals'[i - 1] = signals[i]
           /\ \A i : Batch(i)' => /\ Batch(i + 1) /\ signals'[i] = signals[i + 1]
                                  /\ i + 1 \in DOMAIN signals /\ 1 < i + 1
           /\ \A i : Batch(i) /\ i # 1 =>
                 Batch(i - 1)' /\ i - 1 \in DOMAIN signals' /\ signals'[i - 1] = signals[i]
<1>1. /\ Len(signals) \in Nat \ {0} /\ DOMAIN signals = 1..Len(signals)
      /\ Signal = signals[1] /\ Signal \in Message /\ Signal.type = t
      /\ DOMAIN signals' = 1..Len(signals) - 1
      /\ \A i \in DOMAIN signals' : i + 1 \in DOMAIN signals /\ signals'[i] = signals[i + 1]
      /\ \A i \in DOMAIN signals \ {1} :
            i - 1 \in DOMAIN signals' /\ signals'[i - 1] = signals[i]
    BY FirstTaken
<1>2. /\ 1 \in DOMAIN signals /\ DOMAIN signals \subseteq Nat \ {0}
      /\ DOMAIN signals' \subseteq Nat \ {0} /\ \A i \in DOMAIN signals' : 1 < i + 1
    BY <1>1
<1> QED BY <1>1, <1>2 DEF Batch

\* Nothing but batches counts.
LEMMA SameCounts ==
    ASSUME CountsInv, UNCHANGED <<left, sending, begun, total, round, clean>>,
           UNCHANGED <<received, told, currentNum>>,
           \A r : Coming(r)' = Coming(r), Active' <=> Active, BatchKnown', BatchOrder',
           \A i \in DOMAIN signals' : Batch(i)' /\ signals'[i].first =>
              /\ received[signals'[i].round] = {}
              /\ \A j \in DOMAIN signals' : j < i /\ Batch(j)' => signals'[j].round # signals'[i].round,
           \A i \in DOMAIN signals' : Batch(i)' /\ ~signals'[i].first =>
              \/ received[signals'[i].round] # {}
              \/ \E j \in DOMAIN signals' : /\ j < i /\ Batch(j)'
                                            /\ signals'[j].round = signals'[i].round
                                            /\ signals'[j].metas # {}
    PROVE  CountsInv'
<1>1. \A r : Whole(r)' = Whole(r) /\ (Complete(r)' <=> Complete(r))
    BY DEF Whole, Complete
<1>2. RoundKnown'
    BY <1>1 DEF CountsInv, RoundKnown
<1>3. CountInv'
    BY <1>1 DEF CountsInv, CountInv
<1>4. FirstInv'
    BY DEF CountsInv, FirstInv
<1> QED BY <1>2, <1>3, <1>4 DEF CountsInv

\* An insertion or deletion that is sent changes no count.
LEMMA SentCounts ==
    ASSUME SyncTypeOK, CountsInv, NEW m \in Message, m.type # 0, signals' = Append(signals, m),
           UNCHANGED <<left, sending, begun, total, round, clean>>,
           UNCHANGED <<received, told, currentNum>>
    PROVE  CountsInv'
<1>1. PICK k \in Nat \ {0} :
        /\ \A i \in DOMAIN signals : i \in DOMAIN signals' /\ i < k /\ signals'[i] = signals[i]
        /\ \A i : Batch(i) => Batch(i)' /\ i < k /\ signals'[i] = signals[i]
        /\ Batch(k)' <=> m.type = 0
        /\ \A i : Batch(i)' => Batch(i) \/ i = k
    BY SentBatches
<1>2. \A i : Batch(i)' => Batch(i) /\ i \in DOMAIN signals /\ signals'[i] = signals[i]
    BY <1>1 DEF Batch
<1>3. \A i : Batch(i) => Batch(i)' /\ i \in DOMAIN signals' /\ signals'[i] = signals[i]
    BY <1>1 DEF Batch
<1>4. \A r : Coming(r)' = Coming(r)
    BY <1>2, <1>3 DEF Coming
<1>5. BatchKnown'
    BY <1>2 DEF CountsInv, BatchKnown
<1>6. BatchOrder'
    BY <1>2 DEF CountsInv, BatchOrder
<1>7. Active' <=> Active
    BY <1>2, <1>3 DEF Active
<1>8. ASSUME NEW i \in DOMAIN signals', Batch(i)', signals'[i].first
      PROVE  /\ received[signals'[i].round] = {}
             /\ \A j \in DOMAIN signals' : j < i /\ Batch(j)' => signals'[j].round # signals'[i].round
    BY <1>2, <1>8 DEF CountsInv, FirstInv
<1>9. ASSUME NEW i \in DOMAIN signals', Batch(i)', ~signals'[i].first
      PROVE  \/ received[signals'[i].round] # {}
             \/ \E j \in DOMAIN signals' : /\ j < i /\ Batch(j)'
                                           /\ signals'[j].round = signals'[i].round
                                           /\ signals'[j].metas # {}
    BY <1>2, <1>3, <1>9 DEF CountsInv, FirstInv
<1> QED BY <1>4, <1>5, <1>6, <1>7, <1>8, <1>9, SameCounts

\* Neither does one that is handled.
LEMMA TakenCounts ==
    ASSUME SyncTypeOK, CountsInv, NEW t \in {1, 2}, Take(t),
           UNCHANGED <<left, sending, begun, total, round, clean>>,
           UNCHANGED <<received, told, currentNum>>
    PROVE  CountsInv'
<1>1. /\ ~Batch(1)
      /\ DOMAIN signals \subseteq Nat \ {0} /\ DOMAIN signals' \subseteq Nat \ {0}
      /\ \A i : Batch(i)' => /\ Batch(i + 1) /\ signals'[i] = signals[i + 1]
                             /\ i + 1 \in DOMAIN signals /\ 1 < i + 1
      /\ \A i : Batch(i) => /\ Batch(i - 1)' /\ i - 1 \in DOMAIN signals'
                            /\ signals'[i - 1] = signals[i]
    BY TakenBatches DEF Batch
<1>2. ASSUME NEW r PROVE Coming(r)' = Coming(r)
  <2>1. ASSUME NEW f, f \in Coming(r)' PROVE f \in Coming(r)
    <3>1. PICK i \in DOMAIN signals' : Batch(i)' /\ signals'[i].round = r /\ f \in signals'[i].metas
        BY <2>1 DEF Coming
    <3>2. /\ Batch(i + 1) /\ i + 1 \in DOMAIN signals
          /\ signals[i + 1].round = r /\ f \in signals[i + 1].metas
        BY <1>1, <3>1
    <3> QED BY <2>1, <3>2 DEF Coming
  <2>2. ASSUME NEW f, f \in Coming(r) PROVE f \in Coming(r)'
    <3>1. PICK i \in DOMAIN signals : Batch(i) /\ signals[i].round = r /\ f \in signals[i].metas
        BY <2>2 DEF Coming
    <3>2. /\ Batch(i - 1)' /\ i - 1 \in DOMAIN signals'
          /\ signals'[i - 1].round = r /\ f \in signals'[i - 1].metas
        BY <1>1, <3>1
    <3> QED BY <2>2, <3>2 DEF Coming
  <2> QED BY <2>1, <2>2
<1>3. \A i, j \in DOMAIN signals' : i < j <=> i + 1 < j + 1
    BY <1>1
<1>4. BatchKnown'
    BY <1>1 DEF CountsInv, BatchKnown
<1>5. BatchOrder'
    BY <1>1, <1>3 DEF CountsInv, BatchOrder
<1>6. Active' <=> Active
    BY <1>1 DEF Active
<1>7. ASSUME NEW i \in DOMAIN signals', Batch(i)', signals'[i].first
      PROVE  /\ received[signals'[i].round] = {}
             /\ \A j \in DOMAIN signals' : j < i /\ Batch(j)' => signals'[j].round # signals'[i].round
    BY <1>1, <1>3, <1>7 DEF CountsInv, FirstInv
<1>8. ASSUME NEW i \in DOMAIN signals', Batch(i)', ~signals'[i].first
      PROVE  \/ received[signals'[i].round] # {}
             \/ \E j \in DOMAIN signals' : /\ j < i /\ Batch(j)'
                                           /\ signals'[j].round = signals'[i].round
                                           /\ signals'[j].metas # {}
  <2>1. Batch(i + 1) /\ signals'[i] = signals[i + 1] /\ i + 1 \in DOMAIN signals
      BY <1>1, <1>8
  <2>2. CASE received[signals[i + 1].round] # {}
      BY <2>1, <2>2
  <2>3. ASSUME NEW j \in DOMAIN signals, j < i + 1, Batch(j),
               signals[j].round = signals[i + 1].round, signals[j].metas # {}
        PROVE  \E l \in DOMAIN signals' : /\ l < i /\ Batch(l)'
                                          /\ signals'[l].round = signals'[i].round
                                          /\ signals'[l].metas # {}
    <3>1. j - 1 \in DOMAIN signals' /\ Batch(j - 1)' /\ signals'[j - 1] = signals[j]
        BY <1>1, <2>3
    <3>2. j - 1 < i
        BY <1>1, <1>8, <2>3
    <3> QED BY <2>1, <2>3, <3>1, <3>2
  <2> QED BY <1>8, <2>1, <2>2, <2>3 DEF CountsInv, FirstInv
<1> QED BY <1>2, <1>4, <1>5, <1>6, <1>7, <1>8, SameCounts

\* When the count can no longer be right for the latest round, it still is for those before.
LEMMA Uncleaned ==
    ASSUME SyncTypeOK, SendingInv, CountsInv, NEW C \in SUBSET clean, clean \ C \subseteq {round},
           round \notin C
    PROVE  /\ \A i, j \in DOMAIN signals : Batch(i) /\ Batch(j) /\ i < j =>
                /\ signals[i].round \in C \/ signals[j].round \in C =>
                      signals[i].round <= signals[j].round
                /\ signals[j].round \in C => signals[i].round \in C
           /\ /\ \E i \in DOMAIN signals : Batch(i) /\ signals[i].round \in C
              /\ \A r \in C : received[r] = {} \/ Complete(r)
              => currentNum = 0
<1>1. ASSUME NEW r \in clean, r # round PROVE r \in C
    BY <1>1
<1>2. ASSUME NEW r \in C PROVE r \in Nat /\ r < round
    BY <1>2 DEF SendingInv, SyncTypeOK
<1>3. ASSUME NEW i \in DOMAIN signals, NEW j \in DOMAIN signals, Batch(i), Batch(j), i < j,
             signals[j].round \in C
      PROVE  signals[i].round \in C
  <2>1. signals[i].round \in clean /\ signals[i].round <= signals[j].round
      BY <1>3 DEF CountsInv, BatchOrder
  <2>2. signals[j].round < round /\ signals[j].round \in Nat /\ round \in Nat
      BY <1>2, <1>3 DEF SyncTypeOK
  <2>3. signals[i].round # round
      BY <2>1, <2>2
  <2> QED BY <1>1, <2>1, <2>3
<1>4. ASSUME NEW i \in DOMAIN signals, Batch(i), signals[i].round \in C,
             \A r \in C : received[r] = {} \/ Complete(r)
      PROVE  currentNum = 0
  <2>1. signals[i].round < round /\ signals[i].round \in Nat /\ round \in Nat
      BY <1>2, <1>4 DEF SyncTypeOK
  <2>2. round \in clean => received[round] = {}
    <3>1. round \in clean /\ received[round] # {} => round <= signals[i].round
        BY <1>4 DEF CountsInv, BatchOrder
    <3> QED BY <2>1, <3>1
  <2>3. \A r \in clean : received[r] = {} \/ Complete(r)
      BY <1>1, <1>4, <2>2
  <2>4. Active
      BY <1>4 DEF Active
  <2> QED BY <2>3, <2>4 DEF CountsInv, CountInv
<1> QED BY <1>3, <1>4 DEF CountsInv, BatchOrder

\* A new round has all its files before it, and no batch on its way.
LEMMA StartCounts ==
    ASSUME SyncTypeOK, SendingInv, CountsInv, StartRound
    PROVE  CountsInv'
<1>1. PICK n \in Rounds :
        /\ n = round + 1 /\ round' = n /\ round \in Nat /\ n \in Nat
        /\ left' = [left EXCEPT ![n] = db] /\ sending' = sending \union {n}
        /\ total' = [total EXCEPT ![n] = Cardinality(db)]
        /\ UNCHANGED <<db, begun, signals, metas, currentNum, received, told>>
        /\ \/ clean' = clean \union {n} /\ NoBatches /\ currentNum = 0
           \/ clean' = clean \union {n} /\ sending = {} /\ round \in clean
           \/ clean' = clean \ sending /\ ~(sending = {} /\ round \in clean)
  <2>1. round' \in Rounds /\ round' = round + 1 /\ round \in Nat /\ round' \in Nat
      BY SyncAssumption DEF StartRound, SyncTypeOK, Rounds
  <2> QED BY <2>1 DEF StartRound
<1>2. n \notin clean /\ n \notin begun /\ n \notin sending
    BY <1>1 DEF SendingInv
<1>3. /\ \A r \in Rounds \ {n} : left'[r] = left[r] /\ total'[r] = total[r]
      /\ left'[n] = db /\ total'[n] = Cardinality(db) /\ db \subseteq Files /\ left[n] = {}
    BY <1>1, <1>2 DEF SyncTypeOK, SendingInv
<1>4. \A i : Batch(i)' <=> Batch(i)
    BY <1>1 DEF Batch
<1>5. \A r : Coming(r)' = Coming(r)
    BY <1>1, <1>4 DEF Coming
<1>6. \A i \in DOMAIN signals : Batch(i) => signals[i].round \in Rounds \ {n}
    BY <1>2 DEF CountsInv, BatchKnown, SyncTypeOK
<1>7. Coming(n) = {} /\ received[n] = {} /\ told[n] = 0
  <2>1. Coming(n) = {}
      BY <1>6 DEF Coming
  <2>2. received[n] = {} /\ ~(told[n] > 0)
      BY <1>2 DEF CountsInv, FirstInv
  <2>3. told[n] \in Nat
      BY DEF SyncTypeOK
  <2> QED BY <2>1, <2>2, <2>3
<1>8. \A r \in Rounds \ {n} : Whole(r)' = Whole(r) /\ (Complete(r)' <=> Complete(r))
    BY <1>1, <1>3, <1>5 DEF Whole, Complete
<1>9. BatchKnown'
    BY <1>1, <1>3, <1>4, <1>6 DEF CountsInv, BatchKnown
<1>10. FirstInv'
  <2>1. begun' \intersect sending' = begun \intersect sending
      BY <1>1, <1>2
  <2> QED BY <1>1, <1>4, <1>5, <2>1 DEF CountsInv, FirstInv
<1>11. clean' \ {n} \subseteq clean /\ clean' \subseteq Rounds
    BY <1>1 DEF SyncTypeOK
<1>12. RoundKnown'
  <2>1. \A r \in Rounds : left'[r] \intersect received'[r] = {}
      BY <1>1, <1>3, <1>7 DEF CountsInv, RoundKnown
  <2>2. ASSUME NEW r \in clean' PROVE Cardinality(Whole(r)') = total'[r]
    <3>1. CASE r = n
      <4>1. Whole(r)' = db
          BY <1>1, <1>3, <1>5, <1>7, <3>1 DEF Whole
      <4> QED BY <1>3, <3>1, <4>1
    <3>2. CASE r # n
        BY <1>3, <1>8, <1>11, <2>2, <3>2 DEF CountsInv, RoundKnown
    <3> QED BY <3>1, <3>2
  <2> QED BY <2>1, <2>2 DEF RoundKnown
<1>13. \A r \in clean' : told'[r] > 0 => Complete(r)'
    BY <1>1, <1>7, <1>8, <1>11 DEF CountsInv, CountInv
<1>14. \A r \in clean' : received'[r] # {} /\ ~Complete(r)' =>
          r \in clean /\ r # n /\ received[r] # {} /\ ~Complete(r)
    BY <1>1, <1>7, <1>8, <1>11
<1>15. CASE clean' = clean \union {n}
  <2>1. \A i \in DOMAIN signals : Batch(i) => signals[i].round \in clean
      BY <1>1, <1>2, <1>15 DEF CountsInv, BatchOrder, NoBatches, Batch, SyncTypeOK
  <2>2. BatchOrder'
      BY <1>1, <1>2, <1>4, <1>6, <1>7, <1>15, <2>1 DEF CountsInv, BatchOrder
  <2>3. ASSUME \A r \in clean' : received'[r] = {} \/ Complete(r)' PROVE currentNum = 0
    <3>1. \A r \in clean : received[r] = {} \/ Complete(r)
        BY <1>1, <1>2, <1>8, <1>11, <1>15, <2>3
    <3>2. CASE round \in clean
        BY <3>1, <3>2 DEF CountsInv, CountInv, Active
    <3> QED BY <1>1, <1>2, <1>15, <3>2
  <2>4. CountInv'
      BY <1>1, <1>13, <1>14, <2>3 DEF CountsInv, CountInv
  <2> QED BY <1>9, <1>10, <1>12, <2>2, <2>4 DEF CountsInv
<1>16. CASE clean' = clean \ sending /\ ~(sending = {} /\ round \in clean)
  <2>1. PICK C \in SUBSET clean : C = clean'
      BY <1>16
  <2>2. clean \ C \subseteq {round} /\ n \notin C /\ round \notin C
      BY <1>2, <1>16, <2>1 DEF SendingInv
  <2>3. /\ \A i, j \in DOMAIN signals : Batch(i) /\ Batch(j) /\ i < j =>
             /\ signals[i].round \in C \/ signals[j].round \in C =>
                   signals[i].round <= signals[j].round
             /\ signals[j].round \in C => signals[i].round \in C
        /\ /\ \E i \in DOMAIN signals : Batch(i) /\ signals[i].round \in C
           /\ \A r \in C : received[r] = {} \/ Complete(r)
           => currentNum = 0
      BY <2>2, Uncleaned
  <2>4. BatchOrder'
      BY <1>1, <1>4, <2>1, <2>2, <2>3 DEF CountsInv, BatchOrder
  <2>5. ASSUME Active', \A r \in clean' : received'[r] = {} \/ Complete(r)'
        PROVE  currentNum = 0
    <3>1. \E i \in DOMAIN signals : Batch(i) /\ signals[i].round \in C
        BY <1>1, <1>4, <2>1, <2>2, <2>5 DEF Active
    <3>2. \A r \in C : received[r] = {} \/ Complete(r)
        BY <1>1, <1>8, <1>11, <2>1, <2>2, <2>5
    <3> QED BY <2>3, <3>1, <3>2
  <2>6. CountInv'
      BY <1>1, <1>13, <1>14, <2>5 DEF CountsInv, CountInv
  <2> QED BY <1>9, <1>10, <1>12, <2>4, <2>6 DEF CountsInv
<1> QED BY <1>1, <1>15, <1>16

\* Of a round that is broken off nothing more comes, and the count can no longer be right for it.
LEMMA AbortCounts ==
    ASSUME SyncTypeOK, SendingInv, CountsInv, NEW r \in Rounds, AbortRound(r)
    PROVE  CountsInv'
<1>1. /\ r \in sending /\ sending' = sending \ {r} /\ left' = [left EXCEPT ![r] = {}]
      /\ clean' = clean \ {r}
      /\ UNCHANGED <<begun, total, round, signals, currentNum, received, told>>
    BY DEF AbortRound
<1>2. \A s \in Rounds : left'[s] = IF s = r THEN {} ELSE left[s]
    BY <1>1 DEF SyncTypeOK
<1>3. \A i : Batch(i)' <=> Batch(i)
    BY <1>1 DEF Batch
<1>4. \A s : Coming(s)' = Coming(s)
    BY <1>1, <1>3 DEF Coming
<1>5. PICK C \in SUBSET clean : C = clean' /\ C \subseteq Rounds \ {r}
    BY <1>1 DEF SyncTypeOK
<1>6. clean \ C \subseteq {round} /\ round \notin C
    BY <1>1, <1>5 DEF SendingInv
<1>7. \A s \in C : Whole(s)' = Whole(s) /\ (Complete(s)' <=> Complete(s))
    BY <1>1, <1>2, <1>4, <1>5 DEF Whole, Complete
<1>8. BatchKnown'
  <2>1. \A i \in DOMAIN signals : Batch(i) => signals[i].round \in Rounds
      BY DEF CountsInv, BatchKnown, SyncTypeOK
  <2> QED BY <1>1, <1>2, <1>3, <2>1 DEF CountsInv, BatchKnown
<1>9. FirstInv'
    BY <1>1, <1>3, <1>4 DEF CountsInv, FirstInv
<1>10. RoundKnown'
  <2>1. \A s \in Rounds : left'[s] \intersect received'[s] = {}
      BY <1>1, <1>2 DEF CountsInv, RoundKnown
  <2>2. \A s \in clean' : Cardinality(Whole(s)') = total'[s]
      BY <1>1, <1>5, <1>7 DEF CountsInv, RoundKnown
  <2> QED BY <2>1, <2>2 DEF RoundKnown
<1>11. /\ \A i, j \in DOMAIN signals : Batch(i) /\ Batch(j) /\ i < j =>
             /\ signals[i].round \in C \/ signals[j].round \in C =>
                   signals[i].round <= signals[j].round
             /\ signals[j].round \in C => signals[i].round \in C
       /\ /\ \E i \in DOMAIN signals : Batch(i) /\ signals[i].round \in C
          /\ \A s \in C : received[s] = {} \/ Complete(s)
          => currentNum = 0
    BY <1>6, Uncleaned
<1>12. BatchOrder'
    BY <1>1, <1>3, <1>5, <1>6, <1>11 DEF CountsInv, BatchOrder
<1>13. CountInv'
  <2>1. ASSUME Active', \A s \in clean' : received'[s] = {} \/ Complete(s)'
        PROVE  currentNum = 0
    <3>1. \E i \in DOMAIN signals : Batch(i) /\ signals[i].round \in C
        BY <1>1, <1>3, <1>5, <1>6, <2>1 DEF Active
    <3>2. \A s \in C : received[s] = {} \/ Complete(s)
        BY <1>1, <1>5, <1>7, <2>1
    <3> QED BY <1>11, <3>1, <3>2
  <2> QED BY <1>1, <1>5, <1>7, <2>1 DEF CountsInv, CountInv
<1> QED BY <1>8, <1>9, <1>10, <1>12, <1>13 DEF CountsInv

\* A batch goes from what Android has left to what is coming.
LEMMA SendCounts ==
    ASSUME SyncTypeOK, SendingInv, CountsInv, NEW r \in Rounds, SendBatch(r)
    PROVE  CountsInv'
<1>1. PICK b \in SUBSET left[r], m \in Message :
        /\ b \subseteq Files /\ (b = {} => left[r] = {})
        /\ m.type = 0 /\ m.metas = b /\ m.round = r /\ m.total = total[r]
        /\ m.first <=> r \notin begun
        /\ signals' = Append(signals, m)
        /\ left' = [left EXCEPT ![r] = @ \ b]
        /\ sending' = IF left[r] = b THEN sending \ {r} ELSE sending
    BY BatchSent
<1>2. /\ r \in sending /\ begun' = begun \union {r} /\ r \in 1..round /\ round \in Nat
      /\ UNCHANGED <<total, round, clean, currentNum, received, told>>
    BY DEF SendBatch, SendingInv, SyncTypeOK
<1>3. \A s \in Rounds : left'[s] = IF s = r THEN left[s] \ b ELSE left[s]
    BY <1>1 DEF SyncTypeOK
<1>4. PICK k \in Nat \ {0} :
        /\ DOMAIN signals = 1..(k - 1) /\ DOMAIN signals' = 1..k
        /\ signals'[k] = m
        /\ \A i \in DOMAIN signals : i \in DOMAIN signals' /\ i < k /\ signals'[i] = signals[i]
        /\ \A i : Batch(i) => Batch(i)' /\ i < k /\ signals'[i] = signals[i]
        /\ Batch(k)' <=> m.type = 0
        /\ \A i : Batch(i)' => Batch(i) \/ i = k
    BY <1>1, SentBatches
<1>5. /\ k \in DOMAIN signals' /\ Batch(k)' /\ signals'[k].metas = b
      /\ signals'[k].round = r /\ signals'[k].total = total[r]
      /\ signals'[k].first <=> r \notin begun
    BY <1>1, <1>4
<1>6. \A i : Batch(i) => i \in DOMAIN signals /\ i \in DOMAIN signals'
    BY <1>4 DEF Batch
<1>7. /\ r \in clean => r = round
      /\ round \in clean => r = round
      /\ \A c \in clean : c <= r
      /\ \A s \in begun : s \in Nat /\ s <= round
    BY <1>2 DEF SendingInv
<1>8. \A s : Coming(s)' = IF s = r THEN Coming(s) \union b ELSE Coming(s)
  <2> SUFFICES ASSUME NEW s, NEW f
               PROVE  f \in Coming(s)' <=> f \in Coming(s) \/ (s = r /\ f \in b)
      OBVIOUS
  <2>1. f \in Coming(s)' <=>
            f \in Files /\ \E i : Batch(i)' /\ signals'[i].round = s /\ f \in signals'[i].metas
      BY DEF Coming, Batch
  <2>2. f \in Coming(s) <=>
            f \in Files /\ \E i : Batch(i) /\ signals[i].round = s /\ f \in signals[i].metas
      BY DEF Coming, Batch
  <2> QED BY <1>1, <1>4, <1>5, <2>1, <2>2
<1>9. \A s \in Rounds : Whole(s)' = Whole(s)
    BY <1>1, <1>2, <1>3, <1>8 DEF Whole
<1>10. \A s \in Rounds : Complete(s)' <=> Complete(s)
    BY <1>1, <1>3, <1>8 DEF Complete
<1>11. left[r] \intersect received[r] = {}
    BY DEF CountsInv, RoundKnown
<1>12. BatchKnown'
  <2> SUFFICES ASSUME NEW i \in DOMAIN signals', Batch(i)'
               PROVE  /\ signals'[i].round \in begun'
                      /\ signals'[i].total = total[signals'[i].round]
                      /\ signals'[i].metas \intersect left'[signals'[i].round] = {}
                      /\ signals'[i].metas \intersect received[signals'[i].round] = {}
                      /\ ~signals'[i].first => signals'[i].metas # {}
      BY <1>2 DEF BatchKnown
  <2>1. CASE Batch(i)
    <3>1. /\ signals[i].round \in begun /\ signals[i].round \in Rounds
          /\ signals[i].total = total[signals[i].round]
          /\ signals[i].metas \intersect left[signals[i].round] = {}
          /\ signals[i].metas \intersect received[signals[i].round] = {}
          /\ ~signals[i].first => signals[i].metas # {}
        BY <1>6, <2>1 DEF CountsInv, BatchKnown, SyncTypeOK
    <3> QED BY <1>2, <1>3, <1>4, <2>1, <3>1
  <2>2. CASE i = k
    <3>1. ~signals'[k].first => b # {}
        BY <1>1, <1>2, <1>5 DEF SendingInv
    <3> QED BY <1>2, <1>3, <1>5, <1>11, <2>2, <3>1
  <2> QED BY <1>4, <2>1, <2>2
<1>13. BatchOrder'
  <2>1. ASSUME NEW i \in DOMAIN signals', NEW j \in DOMAIN signals', Batch(i)', Batch(j)', i < j
        PROVE  /\ signals'[i].round = signals'[j].round =>
                     signals'[i].metas \intersect signals'[j].metas = {}
               /\ signals'[i].round \in clean \/ signals'[j].round \in clean =>
                     signals'[i].round <= signals'[j].round
               /\ signals'[j].round \in clean => signals'[i].round \in clean
    <3>1. Batch(i) /\ i \in DOMAIN signals /\ signals'[i] = signals[i]
        BY <1>4, <1>6, <2>1
    <3>2. CASE Batch(j)
        BY <1>4, <1>6, <2>1, <3>1, <3>2 DEF CountsInv, BatchOrder
    <3>3. CASE j = k
      <4>1. /\ signals[i].round \in begun
            /\ signals[i].metas \intersect left[signals[i].round] = {}
          BY <3>1 DEF CountsInv, BatchKnown
      <4>2. signals[i].round \in Nat /\ signals[i].round <= round
          BY <1>7, <4>1
      <4>3. r \in clean => signals[i].round \in clean
          BY <1>7, <3>1 DEF CountsInv, BatchOrder
      <4> QED BY <1>1, <1>5, <1>7, <3>1, <3>3, <4>1, <4>2, <4>3
    <3> QED BY <1>4, <2>1, <3>2, <3>3
  <2>2. ASSUME NEW i \in DOMAIN signals', NEW s \in clean, Batch(i)', received[s] # {}
        PROVE  s <= signals'[i].round
      BY <1>4, <1>5, <1>6, <1>7, <2>2 DEF CountsInv, BatchOrder
  <2>3. ASSUME round \in clean, NEW i \in DOMAIN signals', Batch(i)'
        PROVE  signals'[i].round \in clean
      BY <1>4, <1>5, <1>6, <1>7, <2>3 DEF CountsInv, BatchOrder
  <2> QED BY <1>2, <2>1, <2>2, <2>3 DEF BatchOrder
<1>14. FirstInv'
  <2>1. ASSUME NEW i \in DOMAIN signals', Batch(i)', signals'[i].first
        PROVE  /\ received[signals'[i].round] = {}
               /\ \A j \in DOMAIN signals' : j < i /\ Batch(j)' =>
                     signals'[j].round # signals'[i].round
    <3>1. CASE Batch(i)
      <4>1. \A j \in DOMAIN signals' : j < i /\ Batch(j)' => Batch(j)
          BY <1>4, <3>1
      <4> QED BY <1>4, <1>6, <2>1, <3>1, <4>1 DEF CountsInv, FirstInv
    <3>2. CASE i = k
      <4>1. r \notin begun
          BY <1>5, <2>1, <3>2
      <4>2. received[r] = {}
          BY <4>1 DEF CountsInv, FirstInv
      <4>3. \A j : Batch(j) => signals[j].round # r
          BY <1>6, <4>1 DEF CountsInv, BatchKnown
      <4>4. \A j \in DOMAIN signals' : j < k /\ Batch(j)' => Batch(j) /\ signals'[j] = signals[j]
          BY <1>4
      <4> QED BY <1>5, <3>2, <4>2, <4>3, <4>4
    <3> QED BY <1>4, <2>1, <3>1, <3>2
  <2>2. ASSUME NEW i \in DOMAIN signals', Batch(i)', ~signals'[i].first
        PROVE  \/ received[signals'[i].round] # {}
               \/ \E j \in DOMAIN signals' : /\ j < i /\ Batch(j)'
                                             /\ signals'[j].round = signals'[i].round
                                             /\ signals'[j].metas # {}
    <3>1. CASE Batch(i)
      <4>1. \A j : j < i /\ Batch(j) =>
                j \in DOMAIN signals' /\ Batch(j)' /\ signals'[j] = signals[j]
          BY <1>4, <1>6
      <4> QED BY <1>4, <1>6, <2>2, <3>1, <4>1 DEF CountsInv, FirstInv
    <3>2. CASE i = k
      <4>1. received[r] # {} \/ Coming(r) # {}
          BY <1>2, <1>5, <2>2, <3>2 DEF CountsInv, FirstInv
      <4>2. Coming(r) # {} =>
                \E j \in DOMAIN signals : Batch(j) /\ signals[j].round = r /\ signals[j].metas # {}
          BY DEF Coming
      <4>3. Coming(r) # {} =>
                \E j \in DOMAIN signals' : /\ j < k /\ Batch(j)'
                                           /\ signals'[j].round = r /\ signals'[j].metas # {}
          BY <1>4, <1>6, <4>2
      <4> QED BY <1>5, <3>2, <4>1, <4>3
    <3> QED BY <1>4, <2>2, <3>1, <3>2
  <2>3. ASSUME NEW s \in begun' \intersect sending' PROVE received[s] # {} \/ Coming(s)' # {}
    <3>1. CASE s \in begun
        BY <1>1, <1>8, <2>3, <3>1 DEF CountsInv, FirstInv
    <3>2. CASE s = r
        BY <1>1, <1>8, <2>3, <3>2
    <3> QED BY <1>2, <2>3, <3>1, <3>2
  <2>4. \A s \in Rounds : received[s] # {} \/ told[s] > 0 => s \in begun'
      BY <1>2 DEF CountsInv, FirstInv
  <2> QED BY <1>2, <2>1, <2>2, <2>3, <2>4 DEF FirstInv
<1>15. RoundKnown'
  <2>1. \A s \in Rounds : left'[s] \intersect received[s] = {}
      BY <1>3 DEF CountsInv, RoundKnown
  <2>2. \A s \in clean : Cardinality(Whole(s)') = total[s]
      BY <1>9 DEF CountsInv, RoundKnown, SyncTypeOK
  <2> QED BY <1>2, <2>1, <2>2 DEF RoundKnown
<1>16. CountInv'
  <2>1. Active' => Active
      BY <1>2, <1>4, <1>5, <1>6, <1>7 DEF Active
  <2> QED BY <1>2, <1>10, <2>1 DEF CountsInv, CountInv, SyncTypeOK
<1> QED BY <1>12, <1>13, <1>14, <1>15, <1>16 DEF CountsInv

\* When a batch of a round the count can be right for is the next signal, only that round can be
\* under way, and m_currentNum counts it.
LEMMA NextBatch ==
    ASSUME SyncTypeOK, SendingInv, CountsInv, NEW r0 \in clean, 1 \in DOMAIN signals, Batch(1),
           signals[1].round = r0
    PROVE  /\ \A r \in clean \ {r0} : received[r] # {} => Complete(r)
           /\ currentNum = Cardinality(received[r0])
           /\ signals[1].first <=> received[r0] = {}
           /\ signals[1].metas # {} => ~Complete(r0)
<1>1. /\ clean \subseteq Nat /\ clean \subseteq Rounds /\ DOMAIN signals \subseteq Nat \ {0}
      /\ signals[1] \in Message /\ signals[1].metas \subseteq Files
  <2>1. clean \subseteq Rounds /\ Rounds \subseteq Nat
      BY DEF SyncTypeOK, Rounds
  <2>2. signals[1] \in Message /\ DOMAIN signals \subseteq Nat \ {0}
      BY DEF SyncTypeOK
  <2>3. signals[1].metas \subseteq Files
      BY <2>2 DEF Message
  <2> QED BY <2>1, <2>2, <2>3
<1>2. ASSUME NEW r \in clean \ {r0}, received[r] # {} PROVE Complete(r)
  <2>1. r < r0 /\ r \in Rounds /\ r \in Nat /\ r0 \in Nat
    <3>1. r <= r0
        BY <1>2 DEF CountsInv, BatchOrder
    <3>2. r \in Rounds /\ r \in Nat /\ r0 \in Nat /\ r # r0
        BY <1>1, <1>2
    <3> QED BY <3>1, <3>2
  <2>2. left[r] = {}
    <3>1. r \in sending => r0 <= r
        BY DEF SendingInv
    <3> QED BY <2>1, <3>1 DEF SendingInv
  <2>3. ASSUME NEW i \in DOMAIN signals, Batch(i), signals[i].round = r PROVE FALSE
    <3>1. 1 < i
        BY <1>1, <1>2, <2>3
    <3>2. r0 <= r
        BY <2>3, <3>1 DEF CountsInv, BatchOrder
    <3> QED BY <2>1, <3>2
  <2>4. Coming(r) = {}
      BY <2>3 DEF Coming
  <2> QED BY <2>2, <2>4 DEF Complete
<1>3. signals[1].first <=> received[r0] = {}
  <2>1. \A j \in DOMAIN signals : ~(j < 1)
      BY <1>1
  <2> QED BY <2>1 DEF CountsInv, FirstInv
<1>4. signals[1].metas # {} => ~Complete(r0)
  <2>1. signals[1].metas \subseteq Coming(r0)
      BY <1>1 DEF Coming
  <2> QED BY <2>1 DEF Complete
<1>5. currentNum = Cardinality(received[r0])
  <2>1. CASE received[r0] # {}
    <3>1. signals[1].metas # {}
        BY <1>3, <2>1 DEF CountsInv, BatchKnown
    <3> QED BY <1>4, <2>1, <3>1 DEF CountsInv, CountInv
  <2>2. CASE received[r0] = {}
    <3>1. Active
        BY DEF Active
    <3> QED BY <1>2, <2>2, <3>1, FS_EmptySet DEF CountsInv, CountInv
  <2> QED BY <2>1, <2>2
<1> QED BY <1>2, <1>3, <1>4, <1>5

\* The batch that is handled goes from what is coming to what is received.
LEMMA TakenBatch ==
    ASSUME SyncTypeOK, CountsInv, NEW r0, NEW fs, Take(0), signals[1].round = r0,
           signals[1].metas = fs
    PROVE  \A r : Coming(r)' = IF r = r0 THEN Coming(r) \ fs ELSE Coming(r)
<1>1. /\ 1 \in DOMAIN signals /\ Batch(1)
      /\ \A i : Batch(i)' => /\ Batch(i + 1) /\ signals'[i] = signals[i + 1]
                             /\ i + 1 \in DOMAIN signals /\ 1 < i + 1
      /\ \A i : Batch(i) /\ i # 1 =>
            Batch(i - 1)' /\ i - 1 \in DOMAIN signals' /\ signals'[i - 1] = signals[i]
    BY TakenBatches
<1>2. ASSUME NEW i, 1 < i, Batch(i)
      PROVE  signals[i].round = r0 => signals[i].metas \intersect fs = {}
    BY <1>1, <1>2 DEF CountsInv, BatchOrder, Batch
<1>3. ASSUME NEW r, NEW f
      PROVE  f \in Coming(r)' <=> f \in Coming(r) /\ ~(r = r0 /\ f \in fs)
  <2>1. f \in Coming(r)' <=>
            f \in Files /\ \E i : Batch(i)' /\ signals'[i].round = r /\ f \in signals'[i].metas
      BY DEF Coming, Batch
  <2>2. f \in Coming(r) <=>
            f \in Files /\ \E i : Batch(i) /\ signals[i].round = r /\ f \in signals[i].metas
      BY DEF Coming, Batch
  <2>3. ASSUME f \in Coming(r)' PROVE f \in Coming(r) /\ ~(r = r0 /\ f \in fs)
    <3>1. PICK i : Batch(i)' /\ signals'[i].round = r /\ f \in signals'[i].metas
        BY <2>1, <2>3
    <3>2. 1 < i + 1 /\ Batch(i + 1) /\ signals[i + 1].round = r /\ f \in signals[i + 1].metas
        BY <1>1, <3>1
    <3>3. r = r0 => f \notin fs
        BY <1>2, <3>2
    <3>4. f \in Files
        BY <2>1, <2>3
    <3> QED BY <2>2, <3>2, <3>3, <3>4
  <2>4. ASSUME f \in Coming(r), ~(r = r0 /\ f \in fs) PROVE f \in Coming(r)'
    <3>1. PICK i : Batch(i) /\ signals[i].round = r /\ f \in signals[i].metas
        BY <2>2, <2>4
    <3>2. i # 1
        BY <2>4, <3>1
    <3> QED BY <1>1, <2>1, <2>2, <2>4, <3>1, <3>2
  <2> QED BY <2>3, <2>4
<1>4. ASSUME NEW r PROVE Coming(r)' = IF r = r0 THEN Coming(r) \ fs ELSE Coming(r)
  <2>1. CASE r = r0
    <3>1. \A f : f \in Coming(r)' <=> f \in Coming(r) \ fs
        BY <1>3, <2>1
    <3> QED BY <2>1, <3>1
  <2>2. CASE r # r0
    <3>1. \A f : f \in Coming(r)' <=> f \in Coming(r)
        BY <1>3, <2>2
    <3> QED BY <2>2, <3>1
  <2> QED BY <2>1, <2>2
<1> QED BY <1>4

\* A batch that is handled leaves the queue and the rounds in order.
LEMMA ReceiveOrder ==
    ASSUME SyncTypeOK, SendingInv, CountsInv, OnAllFiles
    PROVE  BatchKnown' /\ BatchOrder' /\ FirstInv' /\ RoundKnown'
<1>1. PICK r0, fs, n : signals[1].round = r0 /\ signals[1].metas = fs /\ n = Cardinality(fs)
    OBVIOUS
<1>2. /\ 1 \in DOMAIN signals /\ Signal = signals[1] /\ signals[1] \in Message
      /\ Take(0) /\ Batch(1)
      /\ DOMAIN signals' \subseteq Nat \ {0} /\ DOMAIN signals \subseteq Nat \ {0}
      /\ \A i : Batch(i)' => /\ Batch(i + 1) /\ signals'[i] = signals[i + 1]
                             /\ i + 1 \in DOMAIN signals /\ 1 < i + 1
      /\ \A i : Batch(i) /\ i # 1 =>
            Batch(i - 1)' /\ i - 1 \in DOMAIN signals' /\ signals'[i - 1] = signals[i]
      /\ UNCHANGED mediaVars
    BY TakenBatches DEF OnAllFiles
<1>3. \A r : Coming(r)' = IF r = r0 THEN Coming(r) \ fs ELSE Coming(r)
    BY <1>1, <1>2, TakenBatch
<1>4. /\ r0 \in begun /\ r0 \in Rounds /\ fs \subseteq Files /\ fs \subseteq Coming(r0)
      /\ fs \intersect left[r0] = {} /\ fs \intersect received[r0] = {}
  <2>1. /\ r0 \in begun /\ r0 \in Rounds /\ fs \subseteq Files
        /\ fs \intersect left[r0] = {} /\ fs \intersect received[r0] = {}
      BY <1>1, <1>2 DEF CountsInv, BatchKnown, SyncTypeOK, Message
  <2> QED BY <1>1, <1>2, <2>1 DEF Coming
<1>5. \A r \in Rounds : received'[r] = IF r = r0 THEN received[r] \union fs ELSE received[r]
  <2>1. received' = [received EXCEPT ![r0] = @ \union fs]
      BY <1>1, <1>2 DEF OnAllFiles
  <2> QED BY <2>1 DEF SyncTypeOK
<1>6. \A i, j \in DOMAIN signals' : i < j <=> i + 1 < j + 1
    BY <1>2
<1>7. \A i : Batch(i) => i \in DOMAIN signals /\ signals[i].round \in Rounds
    BY DEF CountsInv, BatchKnown, Batch, SyncTypeOK
<1>8. BatchKnown'
  <2> SUFFICES ASSUME NEW i \in DOMAIN signals', Batch(i)'
               PROVE  /\ signals'[i].round \in begun
                      /\ signals'[i].total = total[signals'[i].round]
                      /\ signals'[i].metas \intersect left[signals'[i].round] = {}
                      /\ signals'[i].metas \intersect received'[signals'[i].round] = {}
                      /\ ~signals'[i].first => signals'[i].metas # {}
      BY <1>2 DEF BatchKnown
  <2>1. 1 < i + 1 /\ Batch(i + 1) /\ signals'[i] = signals[i + 1]
      BY <1>2
  <2>2. /\ signals[i + 1].round \in begun /\ signals[i + 1].round \in Rounds
        /\ signals[i + 1].total = total[signals[i + 1].round]
        /\ signals[i + 1].metas \intersect left[signals[i + 1].round] = {}
        /\ signals[i + 1].metas \intersect received[signals[i + 1].round] = {}
        /\ ~signals[i + 1].first => signals[i + 1].metas # {}
      BY <1>7, <2>1 DEF CountsInv, BatchKnown
  <2>3. signals[i + 1].round = r0 => signals[i + 1].metas \intersect fs = {}
      BY <1>1, <1>2, <1>7, <2>1 DEF CountsInv, BatchOrder
  <2>4. signals[i + 1].metas \intersect received'[signals[i + 1].round] = {}
      BY <1>5, <2>2, <2>3
  <2> QED BY <2>1, <2>2, <2>4
<1>9. BatchOrder'
  <2>1. ASSUME NEW i \in DOMAIN signals', NEW j \in DOMAIN signals', Batch(i)', Batch(j)', i < j
        PROVE  /\ signals'[i].round = signals'[j].round =>
                     signals'[i].metas \intersect signals'[j].metas = {}
               /\ signals'[i].round \in clean \/ signals'[j].round \in clean =>
                     signals'[i].round <= signals'[j].round
               /\ signals'[j].round \in clean => signals'[i].round \in clean
    <3>1. /\ Batch(i + 1) /\ signals'[i] = signals[i + 1] /\ i + 1 \in DOMAIN signals
          /\ Batch(j + 1) /\ signals'[j] = signals[j + 1] /\ j + 1 \in DOMAIN signals
          /\ i + 1 < j + 1
        BY <1>2, <1>6, <2>1
    <3> QED BY <3>1 DEF CountsInv, BatchOrder
  <2>2. ASSUME NEW i \in DOMAIN signals', NEW r \in clean, Batch(i)', received'[r] # {}
        PROVE  r <= signals'[i].round
    <3>1. 1 < i + 1 /\ Batch(i + 1) /\ signals'[i] = signals[i + 1] /\ i + 1 \in DOMAIN signals
        BY <1>2, <2>2
    <3>2. CASE r = r0
        BY <1>1, <1>2, <3>1, <3>2 DEF CountsInv, BatchOrder
    <3>3. CASE r # r0
        BY <1>5, <2>2, <3>1, <3>3 DEF CountsInv, BatchOrder, SyncTypeOK
    <3> QED BY <3>2, <3>3
  <2>3. ASSUME round \in clean, NEW i \in DOMAIN signals', Batch(i)'
        PROVE  signals'[i].round \in clean
      BY <1>2, <2>3 DEF CountsInv, BatchOrder
  <2> QED BY <1>2, <2>1, <2>2, <2>3 DEF BatchOrder
<1>10. FirstInv'
  <2>1. ASSUME NEW i \in DOMAIN signals', Batch(i)', signals'[i].first
        PROVE  /\ received'[signals'[i].round] = {}
               /\ \A j \in DOMAIN signals' : j < i /\ Batch(j)' =>
                     signals'[j].round # signals'[i].round
    <3>1. 1 < i + 1 /\ Batch(i + 1) /\ signals'[i] = signals[i + 1] /\ i + 1 \in DOMAIN signals
        BY <1>2, <2>1
    <3>2. /\ received[signals[i + 1].round] = {} /\ signals[i + 1].round # r0
          /\ \A j \in DOMAIN signals : j < i + 1 /\ Batch(j) => signals[j].round # signals[i + 1].round
        BY <1>1, <1>2, <2>1, <3>1 DEF CountsInv, FirstInv
    <3>3. received'[signals'[i].round] = {}
        BY <1>5, <1>7, <3>1, <3>2
    <3>4. ASSUME NEW j \in DOMAIN signals', j < i, Batch(j)'
          PROVE  signals'[j].round # signals'[i].round
      <4>1. /\ Batch(j + 1) /\ signals'[j] = signals[j + 1] /\ j + 1 \in DOMAIN signals
            /\ j + 1 < i + 1
          BY <1>2, <1>6, <3>4
      <4> QED BY <3>1, <3>2, <4>1
    <3> QED BY <3>3, <3>4
  <2>2. ASSUME NEW i \in DOMAIN signals', Batch(i)', ~signals'[i].first
        PROVE  \/ received'[signals'[i].round] # {}
               \/ \E j \in DOMAIN signals' : /\ j < i /\ Batch(j)'
                                             /\ signals'[j].round = signals'[i].round
                                             /\ signals'[j].metas # {}
    <3>1. /\ 1 < i + 1 /\ Batch(i + 1) /\ signals'[i] = signals[i + 1]
          /\ i + 1 \in DOMAIN signals /\ signals[i + 1].round \in Rounds
        BY <1>2, <1>7, <2>2
    <3>2. CASE received[signals[i + 1].round] # {}
        BY <1>5, <3>1, <3>2
    <3>3. ASSUME NEW j \in DOMAIN signals, j < i + 1, Batch(j),
                 signals[j].round = signals[i + 1].round, signals[j].metas # {}
          PROVE  \/ received'[signals'[i].round] # {}
                 \/ \E l \in DOMAIN signals' : /\ l < i /\ Batch(l)'
                                               /\ signals'[l].round = signals'[i].round
                                               /\ signals'[l].metas # {}
      <4>1. CASE j = 1
          BY <1>1, <1>5, <3>1, <3>3, <4>1
      <4>2. CASE j # 1
        <5>1. j - 1 \in DOMAIN signals' /\ Batch(j - 1)' /\ signals'[j - 1] = signals[j]
            BY <1>2, <3>3, <4>2
        <5>2. j - 1 < i
            BY <1>2, <2>2, <3>3
        <5> QED BY <3>1, <3>3, <5>1, <5>2
      <4> QED BY <4>1, <4>2
    <3> QED BY <2>2, <3>1, <3>2, <3>3 DEF CountsInv, FirstInv
  <2>3. ASSUME NEW r \in begun \intersect sending PROVE received'[r] # {} \/ Coming(r)' # {}
    <3>1. received[r] # {} \/ Coming(r) # {}
        BY DEF CountsInv, FirstInv
    <3> QED BY <1>3, <1>5, <3>1 DEF SyncTypeOK
  <2>4. ASSUME NEW r \in Rounds, received'[r] # {} \/ told'[r] > 0 PROVE r \in begun
    <3>1. CASE r = r0
        BY <1>4, <3>1
    <3>2. CASE r # r0
      <4>1. received'[r] = received[r] /\ told'[r] = told[r]
          BY <1>1, <1>2, <1>5, <3>2 DEF OnAllFiles, SyncTypeOK
      <4> QED BY <2>4, <4>1 DEF CountsInv, FirstInv
    <3> QED BY <3>1, <3>2
  <2> QED BY <1>2, <2>1, <2>2, <2>3, <2>4 DEF FirstInv
<1>11. RoundKnown'
  <2>1. \A r \in Rounds : left[r] \intersect received'[r] = {}
      BY <1>4, <1>5 DEF CountsInv, RoundKnown
  <2>2. ASSUME NEW r \in clean PROVE Cardinality(Whole(r)') = total[r]
    <3>1. Whole(r)' = Whole(r)
        BY <1>2, <1>3, <1>4, <1>5 DEF Whole, SyncTypeOK
    <3> QED BY <3>1 DEF CountsInv, RoundKnown
  <2> QED BY <1>2, <2>1, <2>2 DEF RoundKnown
<1> QED BY <1>8, <1>9, <1>10, <1>11

\* A batch of a round the count cannot be right for comes only when no other is under way.
LEMMA ReceiveUnclean ==
    ASSUME SyncTypeOK, SendingInv, CountsInv, OnAllFiles, signals[1].round \notin clean
    PROVE  CountInv'
<1>1. PICK r0, fs : signals[1].round = r0 /\ signals[1].metas = fs
    OBVIOUS
<1>2. /\ 1 \in DOMAIN signals /\ Signal = signals[1] /\ Take(0) /\ Batch(1)
      /\ DOMAIN signals \subseteq Nat \ {0}
      /\ \A i : Batch(i)' => /\ Batch(i + 1) /\ signals'[i] = signals[i + 1]
                             /\ i + 1 \in DOMAIN signals /\ 1 < i + 1
      /\ UNCHANGED mediaVars
    BY TakenBatches DEF OnAllFiles
<1>3. \A r : Coming(r)' = IF r = r0 THEN Coming(r) \ fs ELSE Coming(r)
    BY <1>1, <1>2, TakenBatch
<1>4. \A i \in DOMAIN signals : Batch(i) => signals[i].round \notin clean
  <2> SUFFICES ASSUME NEW i \in DOMAIN signals, Batch(i), signals[i].round \in clean PROVE FALSE
      OBVIOUS
  <2>1. 1 < i
      BY <1>2
  <2> QED BY <1>2, <2>1 DEF CountsInv, BatchOrder
<1>5. round \notin clean
    BY <1>2, <1>4 DEF CountsInv, BatchOrder
<1>6. ~Active'
    BY <1>2, <1>4, <1>5 DEF Active
<1>7. ASSUME NEW r \in clean PROVE Complete(r) /\ Complete(r)'
  <2>1. Coming(r) = {} /\ Coming(r)' = {}
      BY <1>3, <1>4 DEF Coming
  <2>2. left[r] = {}
      BY <1>5 DEF SendingInv, SyncTypeOK
  <2> QED BY <1>2, <2>1, <2>2 DEF Complete
<1> QED BY <1>2, <1>6, <1>7 DEF CountInv

\* A batch that is handled is counted, and the last one of its round resets the count.
LEMMA ReceiveClean ==
    ASSUME SyncTypeOK, SendingInv, CountsInv, OnAllFiles, signals[1].round \in clean
    PROVE  CountInv'
<1>1. PICK r0, fs, n :
        r0 \in clean /\ signals[1].round = r0 /\ signals[1].metas = fs /\ n = Cardinality(fs)
    OBVIOUS
<1>2. /\ 1 \in DOMAIN signals /\ Signal = signals[1] /\ signals[1] \in Message
      /\ Take(0) /\ Batch(1) /\ UNCHANGED mediaVars
    BY TakenBatches DEF OnAllFiles
<1>3. \A r : Coming(r)' = IF r = r0 THEN Coming(r) \ fs ELSE Coming(r)
    BY <1>1, <1>2, TakenBatch
<1>4. /\ r0 \in Rounds /\ fs \subseteq Files /\ fs \subseteq Coming(r0)
      /\ fs \intersect left[r0] = {} /\ fs \intersect received[r0] = {}
      /\ signals[1].total = total[r0] /\ clean \subseteq Rounds
  <2>1. /\ r0 \in Rounds /\ fs \subseteq Files /\ clean \subseteq Rounds
        /\ signals[1].total = total[r0]
        /\ fs \intersect left[r0] = {} /\ fs \intersect received[r0] = {}
      BY <1>1, <1>2 DEF CountsInv, BatchKnown, SyncTypeOK, Message
  <2> QED BY <1>1, <1>2, <2>1 DEF Coming
<1>5. /\ \A r \in clean \ {r0} : received[r] # {} => Complete(r)
      /\ currentNum = Cardinality(received[r0])
      /\ signals[1].first <=> received[r0] = {}
      /\ fs # {} => ~Complete(r0)
    BY <1>1, <1>2, NextBatch
<1>6. PICK old \in SUBSET Files, new \in SUBSET Files, t \in Nat :
        /\ received[r0] = old /\ received'[r0] = new /\ new = old \union fs /\ total[r0] = t
        /\ \A r \in Rounds \ {r0} : received'[r] = received[r]
    BY <1>1, <1>2, <1>4 DEF OnAllFiles, SyncTypeOK
<1>7. /\ IsFiniteSet(fs) /\ n \in Nat /\ IsFiniteSet(old) /\ IsFiniteSet(new)
      /\ n = 0 <=> fs = {}
      /\ currentNum + n = Cardinality(new) /\ Cardinality(new) \in Nat
  <2>1. /\ IsFiniteSet(fs) /\ n \in Nat /\ IsFiniteSet(old) /\ IsFiniteSet(new)
        /\ Cardinality(old) \in Nat /\ Cardinality(new) \in Nat
      BY <1>1, <1>4, Finite
  <2>2. n = 0 <=> fs = {}
      BY <1>1, <2>1, FS_EmptySet
  <2>3. Cardinality(old \union fs) =
            Cardinality(old) + Cardinality(fs) - Cardinality(old \intersect fs)
      BY <2>1, FS_Union
  <2>4. old \intersect fs = {}
      BY <1>4, <1>6
  <2>5. Cardinality(old \intersect fs) = 0
      BY <2>4, FS_EmptySet
  <2> QED BY <1>1, <1>5, <1>6, <2>1, <2>2, <2>3, <2>5
<1>8. /\ currentNum' = IF n > 0 /\ Cardinality(new) >= t THEN 0 ELSE Cardinality(new)
      /\ told' = [told EXCEPT ![r0] = @ + (IF n > 0 /\ Cardinality(new) >= t THEN n ELSE 0)]
    BY <1>1, <1>2, <1>4, <1>6, <1>7 DEF OnAllFiles
<1>9. \A r \in clean \ {r0} : Complete(r)' <=> Complete(r)
    BY <1>2, <1>3 DEF Complete
<1>10. Complete(r0)' <=> Cardinality(new) >= t
  <2>1. PICK w \in SUBSET Files : w = Whole(r0)
      BY <1>4 DEF Whole, Coming, SyncTypeOK
  <2>2. w = Whole(r0)' /\ new \subseteq w
      BY <1>2, <1>3, <1>4, <1>6, <2>1 DEF Whole
  <2>3. IsFiniteSet(w) /\ Cardinality(w) = t
      BY <1>1, <1>6, <2>1, Finite DEF CountsInv, RoundKnown
  <2>4. Cardinality(new) <= t /\ (Cardinality(new) = t => w = new)
      BY <2>2, <2>3, FS_Subset
  <2>5. (Coming(r0)' \union left[r0]) \intersect new = {}
    <3>1. Coming(r0) \intersect old = {}
        BY <1>6 DEF Coming, CountsInv, BatchKnown
    <3>2. left[r0] \intersect old = {}
        BY <1>4, <1>6 DEF CountsInv, RoundKnown
    <3> QED BY <1>3, <1>4, <1>6, <3>1, <3>2
  <2>6. w = new \union Coming(r0)' \union left[r0]
      BY <1>2, <1>6, <2>2 DEF Whole
  <2>7. Complete(r0)' <=> w = new
      BY <1>2, <2>5, <2>6 DEF Complete
  <2>8. w = new => Cardinality(new) = t
      BY <2>3
  <2> QED BY <1>7, <2>4, <2>7, <2>8
<1>11. ASSUME NEW r \in clean, received'[r] # {}, ~Complete(r)'
       PROVE  currentNum' = Cardinality(received'[r])
  <2>1. r = r0
      BY <1>4, <1>5, <1>6, <1>9, <1>11
  <2> QED BY <1>6, <1>8, <1>10, <1>11, <2>1
<1>12. ASSUME \A r \in clean : received'[r] = {} \/ Complete(r)'
       PROVE  currentNum' = 0
  <2>1. CASE new = {}
    <3>1. Cardinality(new) = 0
        BY <2>1, FS_EmptySet
    <3> QED BY <1>8, <3>1
  <2>2. CASE fs # {}
    <3>1. n > 0 /\ new # {}
        BY <1>6, <1>7, <2>2
    <3>2. Complete(r0)'
        BY <1>1, <1>6, <1>12, <3>1
    <3> QED BY <1>8, <1>10, <3>1, <3>2
  <2>3. CASE fs = {} /\ new # {}
    <3>1. signals[1].first \/ fs # {}
        BY <1>1, <1>2 DEF CountsInv, BatchKnown
    <3> QED BY <1>5, <1>6, <2>3, <3>1
  <2> QED BY <2>1, <2>2, <2>3
<1>13. ASSUME NEW r \in clean, told'[r] > 0 PROVE Complete(r)'
  <2>1. told \in [Rounds -> Nat]
      BY DEF SyncTypeOK
  <2>2. CASE r # r0
      BY <1>4, <1>8, <1>9, <1>13, <2>1, <2>2 DEF CountsInv, CountInv
  <2>3. CASE r = r0 /\ fs # {}
    <3>1. told[r0] = 0
        BY <1>4, <1>5, <2>1, <2>3 DEF CountsInv, CountInv
    <3> QED BY <1>4, <1>8, <1>10, <1>13, <2>1, <2>3, <3>1
  <2>4. CASE r = r0 /\ fs = {}
    <3>1. told'[r0] = told[r0] + 0
        BY <1>4, <1>7, <1>8, <2>1, <2>4
    <3>2. Complete(r0)
        BY <1>4, <1>13, <2>1, <2>4, <3>1 DEF CountsInv, CountInv
    <3> QED BY <1>2, <1>3, <2>4, <3>2 DEF Complete
  <2> QED BY <2>2, <2>3, <2>4
<1> QED BY <1>2, <1>11, <1>12, <1>13 DEF CountInv

\* Every step keeps the counts right.
LEMMA CountsStep ==
    ASSUME SyncTypeOK, SendingInv, CountsInv, [SyncNext]_syncVars
    PROVE  CountsInv'
<1>1. CASE StartRound
    BY <1>1, StartCounts
<1>2. ASSUME NEW r \in Rounds, SendBatch(r) PROVE CountsInv'
    BY <1>2, SendCounts
<1>3. ASSUME NEW r \in Rounds, AbortRound(r) PROVE CountsInv'
    BY <1>3, AbortCounts
<1>4. ASSUME NEW f \in Files, Insert(f) \/ Delete(f)
      PROVE  CountsInv'
  <2>1. PICK t \in {1, 2} : signals' = Append(signals, Message12(t, f))
      BY <1>4 DEF Insert, Delete
  <2>2. Message12(t, f) \in Message /\ Message12(t, f).type # 0
      BY SignalTypes
  <2> QED BY <1>4, <2>1, <2>2, SentCounts DEF Insert, Delete
<1>5. CASE OnAllFiles
    BY <1>5, ReceiveOrder, ReceiveClean, ReceiveUnclean DEF CountsInv
<1>6. CASE OnInsert \/ OnDelete
    BY <1>6, TakenCounts DEF OnInsert, OnDelete
<1>7. CASE UNCHANGED syncVars
  <2>1. \A i : Batch(i)' <=> Batch(i)
      BY <1>7 DEF Batch
  <2>2. \A r : Coming(r)' = Coming(r)
      BY <1>7, <2>1 DEF Coming
  <2>3. Active' <=> Active
      BY <1>7, <2>1 DEF Active
  <2>4. BatchKnown' /\ BatchOrder'
      BY <1>7, <2>1 DEF CountsInv, BatchKnown, BatchOrder
  <2>5. FirstInv' /\ RoundKnown' /\ CountInv'
      BY <1>7, <2>1, <2>2, <2>3
         DEF CountsInv, FirstInv, RoundKnown, CountInv, Whole, Complete
  <2> QED BY <2>4, <2>5 DEF CountsInv
<1> QED
    BY <1>1, <1>2, <1>3, <1>4, <1>5, <1>6, <1>7 DEF SyncNext, OnSyncFiles

-----------------------------------------------------------------------------
(* Lists *)

\* But for the files whose change it crossed, Android has what is left of the latest round,
\* and before its first batch nothing else.
CrossedInv ==
    /\ round \in sending => \A f \in left[round] \ crossed : f \in db
    /\ round \in sending \ begun => \A f \in Files \ (left[round] \union crossed) : f \notin db

\* The i-th signal decides whether f is listed, and how.
Decides(i, f) == f \in signals[i].metas \/ (Batch(i) /\ signals[i].first)
Verdict(i, f) == f \in signals[i].metas /\ signals[i].type # 2

\* The last signal that decides it, or the list if none is coming, is right about f.
Settled(f) ==
    \/ \E i \in DOMAIN signals : /\ Decides(i, f) /\ (Verdict(i, f) <=> f \in db)
                                 /\ \A j \in DOMAIN signals : j > i => ~Decides(j, f)
    \/ (f \in metas <=> f \in db) /\ \A j \in DOMAIN signals : ~Decides(j, f)

ListsInv == round \in clean \intersect begun => \A f \in Files \ (left[round] \union crossed) : Settled(f)

\* Every step keeps the marks of the files whose change was crossed.
LEMMA CrossedStep ==
    ASSUME SyncTypeOK, SendingInv, CrossedInv, [SyncNext]_syncVars
    PROVE  CrossedInv'
<1>1. CASE StartRound
  <2>1. /\ round' \in Rounds /\ left' = [left EXCEPT ![round'] = db] /\ db' = db
        /\ crossed' = {}
      BY <1>1, SyncAssumption DEF StartRound, SyncTypeOK, Rounds
  <2>2. left'[round'] = db
      BY <2>1 DEF SyncTypeOK
  <2> QED BY <2>1, <2>2 DEF CrossedInv
<1>2. ASSUME NEW r \in Rounds, SendBatch(r) PROVE CrossedInv'
  <2>1. PICK b \in SUBSET left[r] :
          /\ left' = [left EXCEPT ![r] = @ \ b]
          /\ sending' = IF left[r] = b THEN sending \ {r} ELSE sending
      BY <1>2, BatchSent
  <2>2. /\ begun' = begun \union {r} /\ UNCHANGED <<db, round, crossed>>
      BY <1>2 DEF SendBatch
  <2>3. /\ \A s \in Rounds : left'[s] = IF s = r THEN left[s] \ b ELSE left[s]
        /\ sending' \subseteq sending /\ sending \subseteq Rounds
      BY <2>1 DEF SyncTypeOK
  <2> QED BY <2>2, <2>3 DEF CrossedInv
<1>3. ASSUME NEW r \in Rounds, AbortRound(r) PROVE CrossedInv'
    BY <1>3 DEF AbortRound, CrossedInv, SyncTypeOK
<1>4. ASSUME NEW f \in Files, Insert(f) PROVE CrossedInv'
    BY <1>4 DEF Insert, MissedBy, CrossedInv
<1>5. ASSUME NEW f \in Files, Delete(f) PROVE CrossedInv'
    BY <1>5 DEF Delete, BroughtBack, CrossedInv
<1>6. ASSUME UNCHANGED mediaVars PROVE CrossedInv'
    BY <1>6 DEF CrossedInv
<1> QED
    BY <1>1, <1>2, <1>3, <1>4, <1>5, <1>6
       DEF SyncNext, OnSyncFiles, OnAllFiles, OnInsert, OnDelete

\* A signal that is sent settles a file, or leaves it as it was.
LEMMA SentSettled ==
    ASSUME SyncTypeOK, NEW m \in Message, signals' = Append(signals, m), metas' = metas, NEW f,
           \/ /\ f \in m.metas \/ (m.type = 0 /\ m.first)
              /\ f \in m.metas /\ m.type # 2 <=> f \in db'
           \/ /\ f \notin m.metas /\ ~(m.type = 0 /\ m.first)
              /\ f \in db' <=> f \in db
              /\ Settled(f)
    PROVE  Settled(f)'
<1>1. PICK k \in Nat \ {0} :
        /\ DOMAIN signals = 1..(k - 1) /\ DOMAIN signals' = 1..k
        /\ signals'[k] = m
        /\ \A i \in DOMAIN signals : i \in DOMAIN signals' /\ i < k /\ signals'[i] = signals[i]
        /\ \A i : Batch(i) => Batch(i)' /\ i < k /\ signals'[i] = signals[i]
        /\ Batch(k)' <=> m.type = 0
        /\ \A i : Batch(i)' => Batch(i) \/ i = k
    BY SentBatches
<1>2. k \in DOMAIN signals' /\ \A j \in DOMAIN signals' : ~(j > k)
    BY <1>1
<1>3. /\ Decides(k, f)' <=> f \in m.metas \/ (m.type = 0 /\ m.first)
      /\ Verdict(k, f)' <=> f \in m.metas /\ m.type # 2
    BY <1>1 DEF Decides, Verdict
<1>4. \A i \in DOMAIN signals : (Decides(i, f)' <=> Decides(i, f)) /\ (Verdict(i, f)' <=> Verdict(i, f))
    BY <1>1 DEF Decides, Verdict
<1>5. \A i \in DOMAIN signals' : i \in DOMAIN signals \/ i = k
    BY <1>1
<1>6. CASE Decides(k, f)' /\ (Verdict(k, f)' <=> f \in db')
    BY <1>2, <1>6 DEF Settled
<1>7. CASE ~Decides(k, f)' /\ (f \in db' <=> f \in db) /\ Settled(f)
  <2>1. CASE (f \in metas <=> f \in db) /\ \A j \in DOMAIN signals : ~Decides(j, f)
      BY <1>4, <1>5, <1>7, <2>1 DEF Settled
  <2>2. ASSUME NEW i \in DOMAIN signals, Decides(i, f), Verdict(i, f) <=> f \in db,
               \A j \in DOMAIN signals : j > i => ~Decides(j, f)
        PROVE  Settled(f)'
    <3>1. i \in DOMAIN signals' /\ Decides(i, f)' /\ (Verdict(i, f)' <=> f \in db')
        BY <1>1, <1>4, <1>7, <2>2
    <3>2. \A j \in DOMAIN signals' : j > i => ~Decides(j, f)'
        BY <1>4, <1>5, <1>7, <2>2
    <3> QED BY <3>1, <3>2 DEF Settled
  <2> QED BY <1>7, <2>1, <2>2 DEF Settled
<1> QED BY <1>3, <1>6, <1>7

\* A signal that is handled leaves a file settled, if the list follows it where it decides.
LEMMA TakenSettled ==
    ASSUME SyncTypeOK, NEW t, Take(t), db' = db, NEW f, Settled(f),
           Decides(1, f) => (f \in metas' <=> Verdict(1, f)),
           ~Decides(1, f) => (f \in metas' <=> f \in metas)
    PROVE  Settled(f)'
<1>1. /\ 1 \in DOMAIN signals
      /\ DOMAIN signals \subseteq Nat \ {0} /\ DOMAIN signals' \subseteq Nat \ {0}
      /\ \A i \in DOMAIN signals' :
            i + 1 \in DOMAIN signals /\ 1 < i + 1 /\ signals'[i] = signals[i + 1]
      /\ \A i \in DOMAIN signals \ {1} :
            i - 1 \in DOMAIN signals' /\ signals'[i - 1] = signals[i]
    BY TakenBatches
<1>2. \A i \in DOMAIN signals' :
          (Decides(i, f)' <=> Decides(i + 1, f)) /\ (Verdict(i, f)' <=> Verdict(i + 1, f))
    BY <1>1 DEF Decides, Verdict, Batch
<1>3. CASE (f \in metas <=> f \in db) /\ \A j \in DOMAIN signals : ~Decides(j, f)
    BY <1>1, <1>2, <1>3 DEF Settled
<1>4. ASSUME NEW i \in DOMAIN signals, Decides(i, f), Verdict(i, f) <=> f \in db,
             \A j \in DOMAIN signals : j > i => ~Decides(j, f)
      PROVE  Settled(f)'
  <2>1. CASE i = 1
    <3>1. \A j \in DOMAIN signals' : ~Decides(j, f)'
        BY <1>1, <1>2, <1>4, <2>1
    <3> QED BY <1>4, <2>1, <3>1 DEF Settled
  <2>2. CASE i # 1
    <3>1. PICK k \in DOMAIN signals' : k = i - 1 /\ k + 1 = i
        BY <1>1, <2>2
    <3>2. Decides(k, f)' /\ (Verdict(k, f)' <=> f \in db')
        BY <1>2, <1>4, <3>1
    <3>3. \A j \in DOMAIN signals' : j > k => j + 1 > i
        BY <1>1, <3>1
    <3>4. \A j \in DOMAIN signals' : j > k => ~Decides(j, f)'
        BY <1>1, <1>2, <1>4, <3>3
    <3> QED BY <3>2, <3>4 DEF Settled
  <2> QED BY <2>1, <2>2
<1> QED BY <1>3, <1>4 DEF Settled

\* Every step keeps the files settled that the round has sent and no change crossed.
LEMMA ListsStep ==
    ASSUME SyncTypeOK, SendingInv, CountsInv, CrossedInv, ListsInv, [SyncNext]_syncVars
    PROVE  ListsInv'
<1> SUFFICES ASSUME round' \in clean' \intersect begun',
                    NEW f \in Files \ (left'[round'] \union crossed')
             PROVE  Settled(f)'
    BY DEF ListsInv
<1>1. CASE StartRound
  <2>1. round' = round + 1 /\ round \in Nat /\ begun' \subseteq 1..round
      BY <1>1 DEF StartRound, SendingInv, SyncTypeOK
  <2> QED BY <2>1
<1>2. ASSUME NEW r \in Rounds, SendBatch(r) PROVE Settled(f)'
  <2>1. PICK b \in SUBSET left[r], m \in Message :
          /\ b \subseteq Files /\ (b = {} => left[r] = {})
          /\ m.type = 0 /\ m.metas = b /\ m.round = r /\ m.total = total[r]
          /\ m.first <=> r \notin begun
          /\ signals' = Append(signals, m)
          /\ left' = [left EXCEPT ![r] = @ \ b]
          /\ sending' = IF left[r] = b THEN sending \ {r} ELSE sending
      BY <1>2, BatchSent
  <2>2. /\ r \in sending /\ begun' = begun \union {r}
        /\ UNCHANGED <<db, round, clean, crossed, metas>>
      BY <1>2 DEF SendBatch
  <2>3. r = round /\ round \in clean
      BY <2>2 DEF SendingInv
  <2>4. f \notin left[round] \ b /\ f \notin crossed /\ f \in Files
      BY <2>1, <2>2, <2>3 DEF SyncTypeOK
  <2>5. CASE f \in b
    <3>1. f \in db'
        BY <2>2, <2>3, <2>4, <2>5 DEF CrossedInv
    <3> QED BY <2>1, <2>2, <2>5, <3>1, SentSettled
  <2>6. CASE f \notin b /\ m.first
    <3>1. f \notin db'
        BY <2>1, <2>2, <2>3, <2>4, <2>6 DEF CrossedInv
    <3> QED BY <2>1, <2>2, <2>6, <3>1, SentSettled
  <2>7. CASE f \notin b /\ ~m.first
    <3>1. Settled(f)
        BY <2>1, <2>3, <2>4, <2>7 DEF ListsInv
    <3> QED BY <2>1, <2>2, <2>7, <3>1, SentSettled
  <2> QED BY <2>5, <2>6, <2>7
<1>3. ASSUME NEW r \in Rounds, AbortRound(r) PROVE Settled(f)'
    BY <1>3 DEF AbortRound, SendingInv
<1>4. ASSUME NEW g \in Files, Insert(g) PROVE Settled(f)'
  <2>1. PICK m \in Message : m = Message12(1, g) /\ m.type = 1 /\ m.metas = {g}
      BY SignalTypes
  <2>2. f # g => Settled(f)
      BY <1>4 DEF Insert, ListsInv
  <2> QED BY <1>4, <2>1, <2>2, SentSettled DEF Insert
<1>5. ASSUME NEW g \in Files, Delete(g) PROVE Settled(f)'
  <2>1. PICK m \in Message : m = Message12(2, g) /\ m.type = 2 /\ m.metas = {g}
      BY SignalTypes
  <2>2. f # g => Settled(f)
      BY <1>5 DEF Delete, ListsInv
  <2> QED BY <1>5, <2>1, <2>2, SentSettled DEF Delete
<1>6. CASE OnAllFiles
  <2>1. PICK r0, fs : signals[1].round = r0 /\ signals[1].metas = fs
      OBVIOUS
  <2>2. /\ 1 \in DOMAIN signals /\ Signal = signals[1] /\ signals[1].type = 0
        /\ Take(0) /\ Batch(1) /\ UNCHANGED mediaVars
      BY <1>6, TakenBatches DEF OnAllFiles
  <2>3. Settled(f) /\ r0 \in clean
      BY <2>1, <2>2 DEF ListsInv, CountsInv, BatchOrder
  <2>4. currentNum = Cardinality(received[r0]) /\ (signals[1].first <=> received[r0] = {})
      BY <2>1, <2>2, <2>3, NextBatch
  <2>5. received[r0] \in SUBSET Files
      BY <2>3 DEF SyncTypeOK
  <2>6. signals[1].first <=> currentNum = 0
      BY <2>4, <2>5, Finite, FS_EmptySet
  <2>7. metas' = (IF currentNum = 0 THEN {} ELSE metas) \union fs
      BY <1>6, <2>1, <2>2 DEF OnAllFiles
  <2> QED BY <2>1, <2>2, <2>3, <2>6, <2>7, TakenSettled DEF Decides, Verdict
<1>7. CASE OnInsert
  <2>1. /\ Signal = signals[1] /\ signals[1].type = 1
        /\ Take(1) /\ UNCHANGED mediaVars /\ metas' = metas \union Signal.metas /\ Settled(f)
      BY <1>7, TakenBatches DEF OnInsert, ListsInv
  <2> QED BY <2>1, TakenSettled DEF Decides, Verdict, Batch
<1>8. CASE OnDelete
  <2>1. /\ Signal = signals[1] /\ signals[1].type = 2
        /\ Take(2) /\ UNCHANGED mediaVars /\ metas' = metas \ Signal.metas /\ Settled(f)
      BY <1>8, TakenBatches DEF OnDelete, ListsInv
  <2> QED BY <2>1, TakenSettled DEF Decides, Verdict, Batch
<1>9. CASE UNCHANGED syncVars
    BY <1>9 DEF ListsInv, Settled, Decides, Verdict, Batch
<1> QED
    BY <1>1, <1>2, <1>3, <1>4, <1>5, <1>6, <1>7, <1>8, <1>9 DEF SyncNext, OnSyncFiles

-----------------------------------------------------------------------------
(* The properties *)

\* Nothing is on its way at the start, and no round has begun, whatever m_currentNum holds.
LEMMA SyncInitInv == SyncInit => LinksInv /\ SendingInv /\ CountsInv /\ CrossedInv /\ ListsInv
<1> SUFFICES ASSUME SyncInit PROVE LinksInv /\ SendingInv /\ CountsInv /\ CrossedInv /\ ListsInv
    OBVIOUS
<1>1. /\ DOMAIN signals = {} /\ round = 0 /\ metas = {} /\ clean = {} /\ begun = {} /\ sending = {}
      /\ \A r \in Rounds : left[r] = {} /\ received[r] = {} /\ told[r] = 0
    BY DEF SyncInit
<1>2. LinksInv
    BY <1>1 DEF SyncInit, LinksInv, LinksHold, ListedHold
<1>3. SendingInv /\ CrossedInv /\ ListsInv
    BY <1>1 DEF SendingInv, CrossedInv, ListsInv
<1>4. BatchKnown /\ BatchOrder /\ RoundKnown /\ CountInv
    BY <1>1 DEF BatchKnown, BatchOrder, RoundKnown, CountInv, Active
<1>5. FirstInv
    BY <1>1 DEF FirstInv
<1> QED BY <1>2, <1>3, <1>4, <1>5 DEF CountsInv

\* Every variable keeps its type.
THEOREM SyncTypes == SyncSpec => []SyncTypeOK
<1> QED BY SyncInitType, SyncNextType, PTL DEF SyncSpec

\* When all signals are handled, a listed file that Android has has its link, unless another file
\* has its link's name, and no link holds a file that Android deleted, whatever rounds were
\* broken off or overlapped and whatever changed meanwhile.
THEOREM LinksRight == SyncSpec => []LinksMatch
<1> DEFINE Inv == SyncTypeOK /\ LinksInv
<1>1. SyncInit => Inv
    BY SyncInitType, SyncInitInv
<1>2. Inv /\ [SyncNext]_syncVars => Inv'
    BY SyncNextType, LinksStep
<1>3. Inv => LinksMatch
  <2> SUFFICES ASSUME Inv, signals = <<>>
               PROVE  /\ \A f \in metas \intersect db :
                            links[Slot[f]] = f \/ \E g \in Files \ {f} : Slot[g] = Slot[f]
                      /\ \A s \in Slots : links[s] \in db \union {NoFile}
      BY DEF LinksMatch
  <2>1. \A f : ~Leaving(f) /\ ~Bringing(f)
      BY DEF Leaving, Bringing
  <2> QED BY <2>1 DEF LinksInv, LinksHold, ListedHold, OwnName
<1> QED BY <1>1, <1>2, <1>3, PTL DEF SyncSpec

\* The invariant of the rounds.
LEMMA RoundsRight ==
    SyncSpec => [](SyncTypeOK /\ SendingInv /\ CountsInv /\ CrossedInv /\ ListsInv)
<1> DEFINE Inv == SyncTypeOK /\ SendingInv /\ CountsInv /\ CrossedInv /\ ListsInv
<1>1. SyncInit => Inv
    BY SyncInitType, SyncInitInv
<1>2. Inv /\ [SyncNext]_syncVars => Inv'
    BY SyncNextType, SendingStep, CountsStep, CrossedStep, ListsStep
<1> QED BY <1>1, <1>2, PTL DEF SyncSpec

\* The end of a round that begins with nothing counted, or follows such a round unbroken, is told
\* only when every file of the round has arrived, whatever m_currentNum is at the start and
\* whatever rounds were broken off or overlapped before.
THEOREM NeverEarly == SyncSpec => []NotEarly
<1>1. CountsInv => NotEarly
  <2> SUFFICES ASSUME CountsInv, NEW r \in clean, told[r] > 0
               PROVE  Cardinality(received[r]) = total[r]
      BY DEF NotEarly
  <2>1. Complete(r)
      BY DEF CountsInv, CountInv
  <2>2. Whole(r) = received[r]
      BY <2>1 DEF Whole, Complete
  <2> QED BY <2>2 DEF CountsInv, RoundKnown
<1> QED BY <1>1, RoundsRight, PTL

\* Once such a round and all later changes are handled, the lists hold exactly Android's files,
\* but for the files whose change the round crossed.
THEOREM ListsRight == SyncSpec => []ListsMatchAndroid
<1>1. SyncTypeOK /\ SendingInv /\ ListsInv => ListsMatchAndroid
  <2> SUFFICES ASSUME SyncTypeOK, SendingInv, ListsInv, Handled, round \in clean,
                      NEW f \in Files \ crossed
               PROVE  f \in metas <=> f \in db
      BY DEF ListsMatchAndroid
  <2>1. DOMAIN signals = {} /\ sending = {}
      BY DEF Handled
  <2>2. round \in clean \intersect begun /\ left[round] = {}
      BY <2>1 DEF SendingInv, SyncTypeOK
  <2> QED BY <2>1, <2>2 DEF ListsInv, Settled
<1> QED BY <1>1, RoundsRight, PTL

-----------------------------------------------------------------------------
(***************************************************************************)
(* Part 3: the display, for any hosts, screens, settings, lost calls and   *)
(* kills: the types, what a booted container was told and keeps, and the   *)
(* sizes it is left with.                                                  *)
(***************************************************************************)

-----------------------------------------------------------------------------
(* What the functions of the model return *)

\* A set of positions has a least one.
LEMMA LeastIsIn ==
    ASSUME NEW S \in SUBSET Nat, S # {}
    PROVE  Min(S) \in S
<1> DEFINE less == OpToRel(<, Nat)
<1>1. \E x \in S : \A y \in S : ~(<<y, x>> \in less)
    BY NatLessThanWellFounded, WFMin
<1>2. \A x, y \in Nat : x < y => <<x, y>> \in less
    BY DEF OpToRel
<1> HIDE DEF less
<1>3. PICK x \in S : \A y \in S : ~(<<y, x>> \in less)
    BY <1>1
<1>4. \A y \in S : ~(y < x)
  <2>1. \A y \in S : y < x => <<y, x>> \in less
      BY <1>2
  <2> QED BY <1>3, <2>1
<1>5. \A y \in S : x =< y
    BY <1>4
<1> QED BY <1>5 DEF Min

\* The cards of a host, and the one its process prefers.
LEMMA Preferred ==
    ASSUME NEW h \in Hosts, NEW d
    PROVE  /\ h.cards \in Seq(Card) /\ DOMAIN h.cards \subseteq Nat \ {0}
           /\ h.default \in DOMAIN h.cards
           /\ {h.prime, h.globalPrime} \subseteq {Unset, Other} \cup DOMAIN h.cards
           /\ \A c \in DOMAIN h.cards :
                 /\ h.cards[c].maker \in Makers \cup {UnknownMaker}
                 /\ h.cards[c].named \in Makers \cup {UnknownMaker}
           /\ UserPreferred(h, d) \in DOMAIN h.cards
<1>1. /\ h.cards \in Seq(Card) /\ h.default \in DOMAIN h.cards
      /\ {h.prime, h.globalPrime} \subseteq {Unset, Other} \cup DOMAIN h.cards
    BY DisplayAssumption
<1>2. DOMAIN h.cards \subseteq Nat \ {0} /\ \A c \in DOMAIN h.cards : h.cards[c] \in Card
    BY <1>1
<1>3. \A c \in DOMAIN h.cards :
         /\ h.cards[c].maker \in Makers \cup {UnknownMaker}
         /\ h.cards[c].named \in Makers \cup {UnknownMaker}
    BY <1>2 DEF Card
<1> DEFINE fits == {c \in DOMAIN h.cards :
                      /\ h.cards[c].render
                      /\ IF d = Other THEN c # h.default ELSE c = d}
<1>4. fits # {} => Min(fits) \in DOMAIN h.cards
  <2>1. fits \in SUBSET Nat /\ fits \subseteq DOMAIN h.cards
      BY <1>2
  <2> HIDE DEF fits
  <2> QED BY <2>1, LeastIsIn
<1>5. UserPreferred(h, d) = IF d = Unset \/ fits = {} THEN h.default ELSE Min(fits)
    BY DEF UserPreferred
<1> QED BY <1>1, <1>2, <1>3, <1>4, <1>5

\* What is found out of a card is a card or none, and a maker.
LEMMA FoundCard ==
    ASSUME NEW h \in Hosts, NEW d
    PROVE  /\ PciInfo(h, d) \in {NoCard} \cup DOMAIN h.cards
           /\ NodeNumbers(h, d) \in {NoCard} \cup DOMAIN h.cards
           /\ \A c \in {NoCard} \cup DOMAIN h.cards :
                 Manufacture(h, c) \in Makers \cup {UnknownMaker}
<1>1. UserPreferred(h, d) \in DOMAIN h.cards
    BY Preferred
<1>2. ASSUME NEW c \in {NoCard} \cup DOMAIN h.cards
      PROVE  Manufacture(h, c) \in Makers \cup {UnknownMaker}
  <2> DEFINE known == {e \in DOMAIN h.cards : h.cards[e].pci /\ KnownOnBus(h, e) # UnknownMaker}
  <2>1. known \in SUBSET Nat /\ known \subseteq DOMAIN h.cards
      BY Preferred
  <2>2. \A e \in DOMAIN h.cards : KnownOnBus(h, e) \in Makers \cup {UnknownMaker}
      BY Preferred DEF KnownOnBus
  <2>3. MakerOf(h, c) \in Makers \cup {UnknownMaker}
      BY Preferred DEF MakerOf
  <2>4. Manufacture(h, c) =
            IF h.nvidiaInUse THEN "nvidia"
            ELSE IF MakerOf(h, c) # UnknownMaker THEN MakerOf(h, c)
            ELSE IF known # {} THEN KnownOnBus(h, Min(known))
            ELSE UnknownMaker
      BY DEF Manufacture
  <2> HIDE DEF known
  <2>5. known # {} => Min(known) \in DOMAIN h.cards
      BY <2>1, LeastIsIn
  <2> QED BY <2>2, <2>3, <2>4, <2>5 DEF Makers
<1> QED BY <1>1, <1>2 DEF PciInfo, NodeNumbers

\* A card the manager takes for able to do drm is one of the host's, of Intel or of AMD.
LEMMA DrmCard ==
    ASSUME NEW h \in Hosts, NEW d, CouldUsesDrm(h, PciInfo(h, d))
    PROVE  /\ PciInfo(h, d) # NoCard /\ PciInfo(h, d) = UserPreferred(h, d)
           /\ MakerOf(h, PciInfo(h, d)) \in {"intel", "amd"}
BY DEF CouldUsesDrm, PciInfo, MakerOf, UnknownMaker

\* A scaled screen has a size.
LEMMA MeasuredSize ==
    ASSUME DisplayTypeOK
    PROVE  Measured \in Sizes /\ Measured # NoSize
<1> DEFINE Scaled(n) == (n + factor \div 2) \div factor
<1>1. CASE screen = NoScreen
    BY <1>1 DEF Measured, Upright, Sizes, NoSize
<1>2. CASE screen \in Screens
  <2>1. /\ factor \in Nat \ {0} /\ screen = [w |-> screen.w, h |-> screen.h]
        /\ screen.w \in Nat /\ screen.h \in Nat /\ factor <= screen.w
      BY <1>2, DisplayAssumption DEF DisplayTypeOK
  <2>2. factor \div 2 \in Nat
      BY <2>1
  <2>3. \A n \in Nat : Scaled(n) \in Nat /\ (factor <= n => Scaled(n) # 0)
    <3>1. \A a \in Nat : a \div factor \in Nat
        BY <2>1
    <3>2. \A a \in Nat : factor <= a => a \div factor # 0
        BY <2>1
    <3> QED BY <2>1, <2>2, <3>1, <3>2
  <2>4. screen # NoScreen
      BY <1>2, DisplayAssumption
  <2>5. Measured = Upright([w |-> Scaled(screen.w), h |-> Scaled(screen.h)])
      BY <2>4 DEF Measured
  <2> HIDE DEF Scaled
  <2>6. Scaled(screen.w) \in Nat /\ Scaled(screen.w) # 0 /\ Scaled(screen.h) \in Nat
      BY <2>1, <2>3
  <2> QED BY <2>5, <2>6 DEF Upright, Sizes, NoSize
<1> QED BY <1>1, <1>2 DEF DisplayTypeOK

\* The densities are numbers.
LEMMA Densities ==
    ASSUME NEW s
    PROVE  QemuDensity(s) \in {240, 320} /\ PhysicalDensity(s) \in {320, 360}
BY DEF QemuDensity, PhysicalDensity

-----------------------------------------------------------------------------
(* Types, stages and the calls they leave *)

StageNames ==
    {"window", "size", "bridge", "lcd", "dds", "dns", "connect", "density", "type", "answer"}

Words ==
    {"mesa", "emulation", "swiftshader", "intel", "drm", "gbm", "goldfish", "dri", "0", "1",
     "true", "false", "set"}

\* A call of a handler: running properties are set to numbers alone.
Calls ==
    [layer : {"default", "running"}, prop : NumberProps, value : Nat]
    \cup [layer : {"default"}, prop : Props \ (NumberProps \cup {"drm"}), value : Words]
    \cup [layer : {"default"}, prop : {"drm"}, value : {NoCard} \cup DOMAIN host.cards]

\* The stages left are the last ones of a handler.
Rest(stages) ==
    /\ Len(plan) <= Len(stages)
    /\ \A i \in 1..Len(plan) : plan[i] = stages[Len(stages) - Len(plan) + i]

PlanInv ==
    /\ plan \in Seq(StageNames) /\ todo \in Seq(Calls)
    /\ up # "running" => plan = <<>> /\ todo = <<>>
    /\ Rest(ConstructorPlan) \/ Rest(GeometryPlan) \/ Rest(InformationPlan)

DisplayTyped == DisplayTypeOK /\ PlanInv

Constructing == plan # <<>> /\ plan[Len(plan)] = "connect"
Resizing == plan # <<>> /\ plan[Len(plan)] = "lcd"
Telling == plan # <<>> /\ plan[Len(plan)] = "answer"

\* Of the constructor fewer than k stages are left.
Past(k) == up = "running" /\ (Constructing => Len(plan) < k)

\* The handlers.
LEMMA Handlers ==
    /\ Len(ConstructorPlan) = 8 /\ ConstructorPlan[1] = "window" /\ ConstructorPlan[2] = "size"
    /\ ConstructorPlan[3] = "bridge" /\ ConstructorPlan[4] = "window"
    /\ ConstructorPlan[5] = "lcd" /\ ConstructorPlan[6] = "dds" /\ ConstructorPlan[7] = "dns"
    /\ ConstructorPlan[8] = "connect"
    /\ Len(GeometryPlan) = 2 /\ GeometryPlan[1] = "window" /\ GeometryPlan[2] = "lcd"
    /\ Len(InformationPlan) = 5 /\ InformationPlan[1] = "window" /\ InformationPlan[2] = "size"
    /\ InformationPlan[3] = "density" /\ InformationPlan[4] = "type"
    /\ InformationPlan[5] = "answer"
    /\ {ConstructorPlan, GeometryPlan, InformationPlan} \subseteq Seq(StageNames)
<1>1. /\ Len(ConstructorPlan) = 8 /\ ConstructorPlan[1] = "window" /\ ConstructorPlan[2] = "size"
      /\ ConstructorPlan[3] = "bridge" /\ ConstructorPlan[4] = "window"
      /\ ConstructorPlan[5] = "lcd" /\ ConstructorPlan[6] = "dds" /\ ConstructorPlan[7] = "dns"
      /\ ConstructorPlan[8] = "connect"
    BY DEF ConstructorPlan
<1>2. Len(GeometryPlan) = 2 /\ GeometryPlan[1] = "window" /\ GeometryPlan[2] = "lcd"
    BY DEF GeometryPlan
<1>3. /\ Len(InformationPlan) = 5 /\ InformationPlan[1] = "window" /\ InformationPlan[2] = "size"
      /\ InformationPlan[3] = "density" /\ InformationPlan[4] = "type"
      /\ InformationPlan[5] = "answer"
    BY DEF InformationPlan
<1>4. ConstructorPlan \in Seq(StageNames)
    BY DEF ConstructorPlan, StageNames
<1>5. GeometryPlan \in Seq(StageNames) /\ InformationPlan \in Seq(StageNames)
    BY DEF GeometryPlan, InformationPlan, StageNames
<1> QED BY <1>1, <1>2, <1>3, <1>4, <1>5

\* The stage that comes next tells which handler runs, and how much of it is left.
LEMMA Position ==
    ASSUME PlanInv, plan # <<>>
    PROVE  /\ Len(plan) \in Nat \ {0} /\ Head(plan) = plan[1] /\ up = "running"
           /\ \/ /\ Constructing /\ ~Resizing /\ ~Telling
                 /\ \/ Head(plan) = "window" /\ Len(plan) \in {8, 5}
                    \/ Head(plan) = "size" /\ Len(plan) = 7
                    \/ Head(plan) = "bridge" /\ Len(plan) = 6
                    \/ Head(plan) = "lcd" /\ Len(plan) = 4
                    \/ Head(plan) = "dds" /\ Len(plan) = 3
                    \/ Head(plan) = "dns" /\ Len(plan) = 2
                    \/ Head(plan) = "connect" /\ Len(plan) = 1
              \/ /\ Resizing /\ ~Constructing /\ ~Telling
                 /\ \/ Head(plan) = "window" /\ Len(plan) = 2
                    \/ Head(plan) = "lcd" /\ Len(plan) = 1
              \/ /\ Telling /\ ~Constructing /\ ~Resizing
                 /\ \/ Head(plan) = "window" /\ Len(plan) = 5
                    \/ Head(plan) = "size" /\ Len(plan) = 4
                    \/ Head(plan) = "density" /\ Len(plan) = 3
                    \/ Head(plan) = "type" /\ Len(plan) = 2
                    \/ Head(plan) = "answer" /\ Len(plan) = 1
<1>1. PICK n : n = Len(plan)
    OBVIOUS
<1>2. n \in Nat \ {0}
    BY <1>1 DEF PlanInv
<1>3. Head(plan) = plan[1] /\ 1 \in 1..n /\ n \in 1..n /\ up = "running"
    BY <1>1 DEF PlanInv
<1>4. CASE Rest(ConstructorPlan)
  <2>1. n <= 8
      BY <1>1, <1>2, <1>3, <1>4, Handlers DEF Rest
  <2>2. plan[1] = ConstructorPlan[8 - n + 1] /\ plan[n] = ConstructorPlan[8]
      BY <1>1, <1>2, <1>3, <1>4, Handlers DEF Rest
  <2>3. n \in {1, 2, 3, 4, 5, 6, 7, 8}
      BY <1>2, <2>1
  <2>4. plan[n] = "connect"
      BY <2>2, Handlers
  <2>5.
        \/ n = 8 /\ plan[1] = "window"
        \/ n = 7 /\ plan[1] = "size"
        \/ n = 6 /\ plan[1] = "bridge"
        \/ n = 5 /\ plan[1] = "window"
        \/ n = 4 /\ plan[1] = "lcd"
        \/ n = 3 /\ plan[1] = "dds"
        \/ n = 2 /\ plan[1] = "dns"
        \/ n = 1 /\ plan[1] = "connect"
      BY <2>2, <2>3, Handlers
  <2> QED BY <1>1, <1>2, <1>3, <2>4, <2>5 DEF Constructing, Resizing, Telling
<1>5. CASE Rest(GeometryPlan)
  <2>1. n <= 2
      BY <1>1, <1>2, <1>3, <1>5, Handlers DEF Rest
  <2>2. plan[1] = GeometryPlan[2 - n + 1] /\ plan[n] = GeometryPlan[2]
      BY <1>1, <1>2, <1>3, <1>5, Handlers DEF Rest
  <2>3. n \in {1, 2}
      BY <1>2, <2>1
  <2>4. plan[n] = "lcd"
      BY <2>2, Handlers
  <2>5.
        \/ n = 2 /\ plan[1] = "window"
        \/ n = 1 /\ plan[1] = "lcd"
      BY <2>2, <2>3, Handlers
  <2> QED BY <1>1, <1>2, <1>3, <2>4, <2>5 DEF Constructing, Resizing, Telling
<1>6. CASE Rest(InformationPlan)
  <2>1. n <= 5
      BY <1>1, <1>2, <1>3, <1>6, Handlers DEF Rest
  <2>2. plan[1] = InformationPlan[5 - n + 1] /\ plan[n] = InformationPlan[5]
      BY <1>1, <1>2, <1>3, <1>6, Handlers DEF Rest
  <2>3. n \in {1, 2, 3, 4, 5}
      BY <1>2, <2>1
  <2>4. plan[n] = "answer"
      BY <2>2, Handlers
  <2>5.
        \/ n = 5 /\ plan[1] = "window"
        \/ n = 4 /\ plan[1] = "size"
        \/ n = 3 /\ plan[1] = "density"
        \/ n = 2 /\ plan[1] = "type"
        \/ n = 1 /\ plan[1] = "answer"
      BY <2>2, <2>3, Handlers
  <2> QED BY <1>1, <1>2, <1>3, <2>4, <2>5 DEF Constructing, Resizing, Telling
<1> QED BY <1>4, <1>5, <1>6 DEF PlanInv

\* A stage that is done leaves the others.
LEMMA StageDone ==
    ASSUME PlanInv, NEW name, Stage(name)
    PROVE  /\ plan # <<>> /\ Head(plan) = name /\ todo = <<>> /\ up = "running" /\ up' = up
           /\ Len(plan) \in Nat \ {0} /\ plan' \in Seq(StageNames) /\ Len(plan') = Len(plan) - 1
           /\ plan' # <<>> => plan'[Len(plan')] = plan[Len(plan)]
           /\ plan' = <<>> <=> Len(plan) = 1
           /\ (Rest(ConstructorPlan) \/ Rest(GeometryPlan) \/ Rest(InformationPlan))'
<1>1. /\ plan \in Seq(StageNames) /\ plan # <<>> /\ plan' = Tail(plan) /\ Head(plan) = name
      /\ todo = <<>> /\ up = "running" /\ up' = up
    BY DEF Stage, PlanInv
<1>2. /\ Len(plan) \in Nat \ {0} /\ plan' \in Seq(StageNames) /\ Len(plan') = Len(plan) - 1
      /\ \A i \in 1..Len(plan') : plan'[i] = plan[i + 1] /\ i + 1 \in 1..Len(plan)
    BY <1>1
<1>3. plan' # <<>> => plan'[Len(plan')] = plan[Len(plan)]
    BY <1>2
<1>4. plan' = <<>> <=> Len(plan) = 1
  <2>1. plan' = <<>> <=> Len(plan') = 0
      BY <1>2
  <2> QED BY <1>2, <2>1
<1>5. ASSUME NEW stages, Len(stages) \in Nat, Rest(stages)
      PROVE  /\ Len(plan') <= Len(stages)
             /\ \A i \in 1..Len(plan') : plan'[i] = stages[Len(stages) - Len(plan') + i]
  <2>1. Len(plan') <= Len(stages)
      BY <1>2, <1>5 DEF Rest
  <2>2. ASSUME NEW i \in 1..Len(plan')
        PROVE  plan'[i] = stages[Len(stages) - Len(plan') + i]
    <3>1. plan'[i] = stages[Len(stages) - Len(plan) + (i + 1)]
        BY <1>2, <1>5 DEF Rest
    <3>2. Len(stages) - Len(plan) + (i + 1) = Len(stages) - Len(plan') + i
        BY <1>2, <1>5
    <3> QED BY <3>1, <3>2
  <2> QED BY <2>1, <2>2
<1>6. (Rest(ConstructorPlan) \/ Rest(GeometryPlan) \/ Rest(InformationPlan))'
    BY <1>5, Handlers DEF PlanInv, Rest, ConstructorPlan, GeometryPlan, InformationPlan
<1> QED BY <1>1, <1>2, <1>3, <1>4, <1>6

\* A handler that begins is all left, and one that is done leaves nothing.
LEMMA WholePlan ==
    ASSUME plan' \in {<<>>, ConstructorPlan, GeometryPlan, InformationPlan}
    PROVE  /\ plan' \in Seq(StageNames)
           /\ (Rest(ConstructorPlan) \/ Rest(GeometryPlan) \/ Rest(InformationPlan))'
<1>1. CASE plan' = <<>>
    BY <1>1, Handlers DEF Rest, ConstructorPlan
<1>2. CASE plan' = ConstructorPlan
    BY <1>2, Handlers DEF Rest
<1>3. CASE plan' = GeometryPlan
    BY <1>3, Handlers DEF Rest
<1>4. CASE plan' = InformationPlan
    BY <1>4, Handlers DEF Rest
<1> QED BY <1>1, <1>2, <1>3, <1>4

\* The calls left for a property of a layer.
Due(layer, p) == {i \in DOMAIN todo : todo[i].layer = layer /\ todo[i].prop = p}

\* What each mode sets but for gralloc, which for drm depends on the card.
Switches ==
    [drm   |-> [egl |-> "mesa", qemu |-> "0", gles |-> "0", post |-> "false"],
     emugl |-> [egl |-> "emulation", qemu |-> "1", gles |-> "1", post |-> "true"],
     sw    |-> [egl |-> "swiftshader", qemu |-> "0", gles |-> "0", post |-> "false"]]

\* The value v of a mode's property agrees with the type t.
Agrees(p, t, v) == IF p = "gralloc" THEN GrallocMode(v) = t ELSE v = Switches[t][p]

\* What the modes set, and what gralloc tells of them.
LEMMA ModeValues ==
    /\ \A t \in Modes, p \in ModeProps : ModeValue[t][p] \in Words /\ Agrees(p, t, ModeValue[t][p])
    /\ \A g : GrallocMode(g) \in Modes \cup {Unknown}
<1>1. DrmModule \in {"intel", "drm", "gbm"}
    BY DEF DrmModule
<1>2. \A g : GrallocMode(g) \in Modes \cup {Unknown}
    BY DEF GrallocMode, Modes
<1>3. ASSUME NEW p \in ModeProps
      PROVE  ModeValue["drm"][p] \in Words /\ Agrees(p, "drm", ModeValue["drm"][p])
    BY <1>1 DEF ModeValue, ModeProps, Words, Agrees, Switches, GrallocMode
<1>4. ASSUME NEW p \in ModeProps
      PROVE  ModeValue["emugl"][p] \in Words /\ Agrees(p, "emugl", ModeValue["emugl"][p])
    BY DEF ModeValue, ModeProps, Words, Agrees, Switches, GrallocMode
<1>5. ASSUME NEW p \in ModeProps
      PROVE  ModeValue["sw"][p] \in Words /\ Agrees(p, "sw", ModeValue["sw"][p])
    BY DEF ModeValue, ModeProps, Words, Agrees, Switches, GrallocMode
<1> QED BY <1>2, <1>3, <1>4, <1>5 DEF Modes

\* Agreeing with a type is having its values.
LEMMA ModesAgreed ==
    ASSUME NEW t \in Modes, NEW p \in ModeProps, NEW v, Agrees(p, t, v)
    PROVE  IF p = "gralloc" THEN GrallocMode(v) = t ELSE v = ModeValue[t][p]
BY DEF Agrees, Switches, ModeValue, Modes, ModeProps

\* The calls of c are those of a and b.
MadeOf(c, a, b) ==
    /\ c \in Seq(Calls)
    /\ \A i \in 1..Len(c) :
          (\E j \in 1..Len(a) : c[i] = a[j]) \/ (\E j \in 1..Len(b) : c[i] = b[j])
    /\ \A j \in 1..Len(a) : \E i \in 1..Len(c) : c[i] = a[j]
    /\ \A j \in 1..Len(b) : \E i \in 1..Len(c) : c[i] = b[j]

\* The calls of two sequences are those of the sequence they make.
LEMMA Joined ==
    ASSUME NEW a \in Seq(Calls), NEW b \in Seq(Calls), NEW c, c = a \o b
    PROVE  MadeOf(c, a, b)
<1>1. PICK la \in Nat, lb \in Nat :
      /\ c \in Seq(Calls) /\ DOMAIN c = 1..la + lb /\ DOMAIN a = 1..la /\ DOMAIN b = 1..lb
      /\ \A i \in 1..la + lb : c[i] = IF i <= la THEN a[i] ELSE b[i - la]
  <2>1. c \in Seq(Calls) /\ Len(a) \in Nat /\ Len(b) \in Nat
      OBVIOUS
  <2>2. DOMAIN c = 1..Len(a) + Len(b) /\ DOMAIN a = 1..Len(a) /\ DOMAIN b = 1..Len(b)
      OBVIOUS
  <2>3. \A i \in 1..Len(a) + Len(b) : c[i] = IF i <= Len(a) THEN a[i] ELSE b[i - Len(a)]
      OBVIOUS
  <2> QED BY <2>1, <2>2, <2>3
<1>2. Len(a) = la /\ Len(b) = lb /\ Len(c) = la + lb
    BY <1>1
<1>3. ASSUME NEW i \in 1..Len(c)
      PROVE  (\E j \in 1..Len(a) : c[i] = a[j]) \/ (\E j \in 1..Len(b) : c[i] = b[j])
  <2>1. CASE i <= la
      BY <1>1, <1>2, <2>1
  <2>2. CASE ~(i <= la)
    <3>1. i - la \in 1..Len(b) /\ c[i] = b[i - la]
        BY <1>1, <1>2, <2>2
    <3> QED BY <3>1
  <2> QED BY <2>1, <2>2
<1>4. ASSUME NEW j \in 1..Len(a) PROVE \E i \in 1..Len(c) : c[i] = a[j]
  <2>1. j \in 1..Len(c) /\ c[j] = a[j]
      BY <1>1, <1>2
  <2> QED BY <2>1
<1>5. ASSUME NEW j \in 1..Len(b) PROVE \E i \in 1..Len(c) : c[i] = b[j]
  <2>1. j + la \in 1..Len(c) /\ c[j + la] = b[j]
      BY <1>1, <1>2
  <2> QED BY <2>1
<1> QED BY <1>1, <1>3, <1>4, <1>5 DEF MadeOf

\* The calls that set a size: a default property before the running one.
LEMMA SizeCalls ==
    ASSUME NEW s \in Sizes, NEW d \in Nat
    PROVE  /\ SizeWrites(s, d) \in Seq(Calls) /\ DOMAIN SizeWrites(s, d) = 1..6
           /\ SizeWrites(s, d)[1] = Default("width", s.w)
           /\ SizeWrites(s, d)[2] = Default("height", s.h)
           /\ SizeWrites(s, d)[3] = Default("density", d)
           /\ SizeWrites(s, d)[4] = Running("width", s.w)
           /\ SizeWrites(s, d)[5] = Running("height", s.h)
           /\ SizeWrites(s, d)[6] = Running("density", d)
<1>1. \A p \in {"width", "height", "density"}, v \in Nat :
         Default(p, v) \in Calls /\ Running(p, v) \in Calls
    BY DEF Default, Running, Calls, NumberProps
<1>2. s.w \in Nat /\ s.h \in Nat
    BY DEF Sizes
<1>3. SizeWrites(s, d) \in Seq(Calls)
    BY <1>1, <1>2 DEF SizeWrites
<1> QED BY <1>3 DEF SizeWrites

\* The calls that set a type.
LEMMA TypeCalls ==
    ASSUME NEW t \in Modes, node' \in {NoCard} \cup DOMAIN host.cards
    PROVE  /\ TypeWrites(t) \in Seq(Calls)
           /\ \A i \in DOMAIN TypeWrites(t) :
                 /\ TypeWrites(t)[i].layer = "default"
                 /\ \/ /\ TypeWrites(t)[i].prop \in ModeProps
                       /\ TypeWrites(t)[i].value = ModeValue[t][TypeWrites(t)[i].prop]
                    \/ /\ TypeWrites(t)[i].prop = "drm" /\ TypeWrites(t)[i].value = node'
                       /\ node' # NoCard
                    \/ TypeWrites(t)[i].prop = "aep"
           /\ \A p \in ModeProps : \E i \in DOMAIN TypeWrites(t) :
                 TypeWrites(t)[i].layer = "default" /\ TypeWrites(t)[i].prop = p
           /\ IntelOrAmd /\ node' # NoCard =>
                 \E i \in DOMAIN TypeWrites(t) :
                    TypeWrites(t)[i].layer = "default" /\ TypeWrites(t)[i].prop = "drm"
<1> DEFINE c1 == IF node' # NoCard THEN <<Default("drm", node')>> ELSE <<>>
           c2 == <<Default("aep", IF t = "drm" /\ aep /\ DetectAEP THEN "true" ELSE "false")>>
           m == <<Default("egl", ModeValue[t].egl), Default("gralloc", ModeValue[t].gralloc),
                  Default("qemu", ModeValue[t].qemu), Default("gles", ModeValue[t].gles),
                  Default("post", ModeValue[t].post)>>
           cw == IF IntelOrAmd THEN c1 \o c2 ELSE <<>>
<1>1. TypeWrites(t) = cw \o m
    BY DEF TypeWrites, CardWrites
<1>2. \A p \in ModeProps : Default(p, ModeValue[t][p]) \in Calls
    BY ModeValues DEF Default, Calls, Props, NumberProps, ModeProps
<1>3. /\ m \in Seq(Calls) /\ DOMAIN m = 1..5
      /\ m[1] = Default("egl", ModeValue[t].egl) /\ m[2] = Default("gralloc", ModeValue[t].gralloc)
      /\ m[3] = Default("qemu", ModeValue[t].qemu) /\ m[4] = Default("gles", ModeValue[t].gles)
      /\ m[5] = Default("post", ModeValue[t].post)
  <2>1. m \in Seq(Calls)
      BY <1>2 DEF ModeProps
  <2> QED BY <2>1
<1>4. /\ \A i \in DOMAIN m : /\ m[i].layer = "default" /\ m[i].prop \in ModeProps
                             /\ m[i].value = ModeValue[t][m[i].prop]
      /\ \A p \in ModeProps : \E i \in DOMAIN m : m[i].layer = "default" /\ m[i].prop = p
  <2> HIDE DEF m
  <2>1. \A i \in 1..5 : i = 1 \/ i = 2 \/ i = 3 \/ i = 4 \/ i = 5
      OBVIOUS
  <2>2. /\ \A i \in 1..5 : /\ m[i].layer = "default" /\ m[i].prop \in ModeProps
                           /\ m[i].value = ModeValue[t][m[i].prop]
      BY <1>3, <2>1 DEF Default, ModeProps
  <2>3. \A p \in ModeProps : \E i \in 1..5 : m[i].layer = "default" /\ m[i].prop = p
      BY <1>3 DEF Default, ModeProps
  <2> QED BY <1>3, <2>2, <2>3
<1>5. /\ c1 \in Seq(Calls)
      /\ \A i \in DOMAIN c1 : /\ c1[i].layer = "default" /\ c1[i].prop = "drm"
                              /\ c1[i].value = node' /\ node' # NoCard
      /\ node' # NoCard => \E i \in DOMAIN c1 : c1[i].layer = "default" /\ c1[i].prop = "drm"
  <2>1. Default("drm", node') \in Calls
      BY DEF Default, Calls
  <2>2. CASE node' # NoCard
    <3>1. c1 = <<Default("drm", node')>>
        BY <2>2
    <3> HIDE DEF c1
    <3>2. c1 \in Seq(Calls) /\ DOMAIN c1 = {1} /\ c1[1] = Default("drm", node')
        BY <2>1, <3>1
    <3> QED BY <2>2, <3>2 DEF Default
  <2>3. CASE node' = NoCard
    <3>1. c1 = <<>>
        BY <2>3
    <3> HIDE DEF c1
    <3> QED BY <2>3, <3>1
  <2> QED BY <2>2, <2>3
<1>6. /\ c2 \in Seq(Calls)
      /\ \A i \in DOMAIN c2 : c2[i].layer = "default" /\ c2[i].prop = "aep"
  <2>1. \A v \in {"true", "false"} : Default("aep", v) \in Calls
      BY DEF Default, Calls, Props, NumberProps, Words
  <2>2. PICK v \in {"true", "false"} : c2 = <<Default("aep", v)>>
      OBVIOUS
  <2> HIDE DEF c2
  <2>3. c2 \in Seq(Calls) /\ DOMAIN c2 = {1} /\ c2[1] = Default("aep", v)
      BY <2>1, <2>2
  <2> QED BY <2>3 DEF Default
<1> HIDE DEF c1, c2, m
<1>7. /\ cw \in Seq(Calls)
      /\ \A i \in DOMAIN cw :
            /\ cw[i].layer = "default"
            /\ (cw[i].prop = "drm" /\ cw[i].value = node' /\ node' # NoCard) \/ cw[i].prop = "aep"
      /\ IntelOrAmd /\ node' # NoCard =>
            \E i \in DOMAIN cw : cw[i].layer = "default" /\ cw[i].prop = "drm"
  <2>1. CASE IntelOrAmd
    <3>1. cw = c1 \o c2
        BY <2>1
    <3> HIDE DEF cw
    <3>2. c1 \in Seq(Calls) /\ c2 \in Seq(Calls)
        BY <1>5, <1>6
    <3>3. /\ cw \in Seq(Calls)
          /\ \A i \in DOMAIN cw :
                (\E j \in DOMAIN c1 : cw[i] = c1[j]) \/ (\E j \in DOMAIN c2 : cw[i] = c2[j])
          /\ \A j \in DOMAIN c1 : \E i \in DOMAIN cw : cw[i] = c1[j]
      <4>1. MadeOf(cw, c1, c2)
          BY <3>1, <3>2, Joined
      <4>2. DOMAIN cw = 1..Len(cw) /\ DOMAIN c1 = 1..Len(c1) /\ DOMAIN c2 = 1..Len(c2)
          BY <3>2, <4>1 DEF MadeOf
      <4> QED BY <4>1, <4>2 DEF MadeOf
    <3>4. ASSUME NEW i \in DOMAIN cw
          PROVE  /\ cw[i].layer = "default"
                 /\ \/ cw[i].prop = "drm" /\ cw[i].value = node' /\ node' # NoCard
                    \/ cw[i].prop = "aep"
      <4>1. CASE \E j \in DOMAIN c1 : cw[i] = c1[j]
        <5>1. PICK j \in DOMAIN c1 : cw[i] = c1[j]
            BY <4>1
        <5> QED BY <1>5, <5>1
      <4>2. CASE \E j \in DOMAIN c2 : cw[i] = c2[j]
        <5>1. PICK j \in DOMAIN c2 : cw[i] = c2[j]
            BY <4>2
        <5> QED BY <1>6, <5>1
      <4> QED BY <3>3, <4>1, <4>2
    <3>5. ASSUME node' # NoCard
          PROVE  \E i \in DOMAIN cw : cw[i].layer = "default" /\ cw[i].prop = "drm"
        BY <1>5, <3>3, <3>5, Zenon
    <3> QED BY <3>3, <3>4, <3>5
  <2>2. CASE ~IntelOrAmd
    <3>1. cw = <<>>
        BY <2>2
    <3> HIDE DEF cw
    <3> QED BY <2>2, <3>1
  <2> QED BY <2>1, <2>2
<1> HIDE DEF cw
<1>8. PICK w : w = cw \o m
    OBVIOUS
<1>9. /\ w \in Seq(Calls)
      /\ \A i \in DOMAIN w :
            (\E j \in DOMAIN cw : w[i] = cw[j]) \/ (\E j \in DOMAIN m : w[i] = m[j])
      /\ \A j \in DOMAIN cw : \E i \in DOMAIN w : w[i] = cw[j]
      /\ \A j \in DOMAIN m : \E i \in DOMAIN w : w[i] = m[j]
  <2>1. cw \in Seq(Calls) /\ m \in Seq(Calls)
      BY <1>3, <1>7
  <2>2. MadeOf(w, cw, m)
      BY <1>8, <2>1, Joined
  <2>3. DOMAIN w = 1..Len(w) /\ DOMAIN cw = 1..Len(cw) /\ DOMAIN m = 1..Len(m)
      BY <2>1, <2>2 DEF MadeOf
  <2> QED BY <2>2, <2>3 DEF MadeOf
<1>10. ASSUME NEW i \in DOMAIN w
       PROVE  /\ w[i].layer = "default"
              /\ \/ w[i].prop \in ModeProps /\ w[i].value = ModeValue[t][w[i].prop]
                 \/ w[i].prop = "drm" /\ w[i].value = node' /\ node' # NoCard
                 \/ w[i].prop = "aep"
  <2>1. CASE \E j \in DOMAIN cw : w[i] = cw[j]
    <3>1. PICK j \in DOMAIN cw : w[i] = cw[j]
        BY <2>1
    <3> QED BY <1>7, <3>1
  <2>2. CASE \E j \in DOMAIN m : w[i] = m[j]
    <3>1. PICK j \in DOMAIN m : w[i] = m[j]
        BY <2>2
    <3> QED BY <1>4, <3>1
  <2> QED BY <1>9, <2>1, <2>2
<1>11. ASSUME NEW p \in ModeProps
       PROVE  \E i \in DOMAIN w : w[i].layer = "default" /\ w[i].prop = p
  <2>1. PICK j \in DOMAIN m : m[j].layer = "default" /\ m[j].prop = p
      BY <1>4, <1>11
  <2>2. PICK i \in DOMAIN w : w[i] = m[j]
      BY <1>9
  <2> QED BY <2>1, <2>2
<1>12. ASSUME IntelOrAmd, node' # NoCard
       PROVE  \E i \in DOMAIN w : w[i].layer = "default" /\ w[i].prop = "drm"
  <2>1. PICK j \in DOMAIN cw : cw[j].layer = "default" /\ cw[j].prop = "drm"
      BY <1>7, <1>12
  <2>2. PICK i \in DOMAIN w : w[i] = cw[j]
      BY <1>9
  <2> QED BY <2>1, <2>2
<1>13. TypeWrites(t) = w
    BY <1>1, <1>8
<1> QED BY <1>9, <1>10, <1>11, <1>12, <1>13

\* A type is decided on once; without drm it is emugl.
LEMMA Decided ==
    ASSUME DisplayTypeOK, NEW d \in Modes \cup {Unknown}
    PROVE  Decide(d) \in Modes /\ (Decide(d) # "emugl" => couldDrm)
BY DisplayAssumption DEF Decide, FromSettings, Modes, Unknown, DisplayTypeOK

\* What measuring the screen leaves to be called.
LEMMA Measuring ==
    ASSUME DisplayTyped, Measure
    PROVE  /\ size' = Measured /\ oldSize' = Measured /\ Measured \in Sizes /\ Measured # NoSize
           /\ todo' \in Seq(Calls)
           /\ \/ Measured = oldSize /\ todo' = <<>>
              \/ /\ Measured # oldSize /\ DOMAIN todo' = 1..6
                 /\ todo'[1] = Default("width", Measured.w)
                 /\ todo'[2] = Default("height", Measured.h)
                 /\ todo'[3] = Default("density", physDensity)
                 /\ todo'[4] = Running("width", Measured.w)
                 /\ todo'[5] = Running("height", Measured.h)
                 /\ todo'[6] = Running("density", physDensity)
<1>1. Measured \in Sizes /\ Measured # NoSize /\ physDensity \in Nat
    BY MeasuredSize DEF DisplayTyped, DisplayTypeOK
<1>2. PICK s \in Sizes : s = Measured
    BY <1>1
<1>3. PICK w : w = SizeWrites(s, physDensity)
    OBVIOUS
<1>4. /\ w \in Seq(Calls) /\ DOMAIN w = 1..6
      /\ w[1] = Default("width", s.w) /\ w[2] = Default("height", s.h)
      /\ w[3] = Default("density", physDensity)
      /\ w[4] = Running("width", s.w) /\ w[5] = Running("height", s.h)
      /\ w[6] = Running("density", physDensity)
    BY <1>1, <1>3, SizeCalls
<1>5. size' = s /\ oldSize' = s /\ todo' = IF s = oldSize THEN <<>> ELSE w
    BY <1>2, <1>3 DEF Measure
<1>6. CASE s = oldSize
    BY <1>1, <1>2, <1>5, <1>6
<1>7. CASE s # oldSize
    BY <1>1, <1>2, <1>4, <1>5, <1>7
<1> QED BY <1>6, <1>7

\* What a handler's stage leaves to be called.
LEMMA StageTodo ==
    ASSUME DisplayTyped
    PROVE  /\ SetAppropriateQemuDensity =>
                /\ todo' \in Seq(Calls) /\ DOMAIN todo' = 1..2
                /\ todo'[1] = Default("lcd", qemuDensity) /\ todo'[2] = Running("lcd", qemuDensity)
           /\ \A p \in {"bridge", "dns"} : SetPlatform(p) =>
                /\ todo' \in Seq(Calls) /\ DOMAIN todo' = {1} /\ todo'[1] = Default(p, "set")
           /\ InitHostPlatformProp =>
                /\ todo' \in Seq(Calls) /\ DOMAIN todo' = {1}
                /\ todo'[1] \in {Default("dds", "true"), Default("dds", "false")}
           /\ InitConnections \/ Answer => todo' = <<>>
<1>1. qemuDensity \in Nat
    BY DEF DisplayTyped, DisplayTypeOK
<1>2. /\ Default("lcd", qemuDensity) \in Calls /\ Running("lcd", qemuDensity) \in Calls
    BY <1>1 DEF Default, Running, Calls, NumberProps
<1>3. \A p \in PlatformProps, v \in {"set", "true", "false"} : Default(p, v) \in Calls
    BY DEF Default, Calls, PlatformProps, Props, NumberProps, Words
<1>4. ASSUME SetAppropriateQemuDensity
      PROVE  /\ todo' \in Seq(Calls) /\ DOMAIN todo' = 1..2
             /\ todo'[1] = Default("lcd", qemuDensity) /\ todo'[2] = Running("lcd", qemuDensity)
    BY <1>2, <1>4 DEF SetAppropriateQemuDensity
<1>5. ASSUME NEW p \in {"bridge", "dns"}, SetPlatform(p)
      PROVE  todo' \in Seq(Calls) /\ DOMAIN todo' = {1} /\ todo'[1] = Default(p, "set")
  <2>1. todo' = <<Default(p, "set")>> /\ Default(p, "set") \in Calls
      BY <1>3, <1>5 DEF SetPlatform, PlatformProps
  <2> QED BY <2>1
<1>6. ASSUME InitHostPlatformProp
      PROVE  /\ todo' \in Seq(Calls) /\ DOMAIN todo' = {1}
             /\ todo'[1] \in {Default("dds", "true"), Default("dds", "false")}
  <2>1. PICK v \in {"true", "false"} : todo' = <<Default("dds", v)>>
      BY <1>6 DEF InitHostPlatformProp
  <2>2. Default("dds", v) \in Calls
      BY <1>3 DEF PlatformProps
  <2> QED BY <2>1, <2>2
<1>7. ASSUME InitConnections \/ Answer PROVE todo' = <<>>
    BY <1>7 DEF InitConnections, Answer, Stage
<1> QED BY <1>4, <1>5, <1>6, <1>7

\* What telling the type leaves to be called.
LEMMA TypeTodo ==
    ASSUME DisplayTyped, GetDisplayType, host \in Hosts
    PROVE  /\ type' \in Modes /\ oldType' = type' /\ node' \in {NoCard} \cup DOMAIN host.cards
           /\ type # Unknown => type' = type
           /\ type = Unknown /\ type' # "emugl" => couldDrm
           /\ ~lost' => ~lost /\ (type = Unknown => type' = Decide(FromDBus))
           /\ lost' \in BOOLEAN
           /\ node' = IF type' # oldType /\ IntelOrAmd /\ node = NoCard
                      THEN NodeNumbers(host, prime) ELSE node
           /\ todo' \in Seq(Calls)
           /\ todo' = IF type' = oldType THEN <<>> ELSE TypeWrites(type')
<1>1. FromDBus \in Modes \cup {Unknown}
    BY ModeValues DEF FromDBus
<1>2. Decide(FromDBus) \in Modes /\ (Decide(FromDBus) # "emugl" => couldDrm)
    BY <1>1, Decided DEF DisplayTyped
<1>3. Decide(Unknown) \in Modes /\ (Decide(Unknown) # "emugl" => couldDrm)
    BY Decided DEF DisplayTyped
<1>4. type \in Modes \cup {Unknown} /\ lost \in BOOLEAN
    BY DEF DisplayTyped, DisplayTypeOK
<1>5. /\ type' \in Modes
      /\ type # Unknown => type' = type
      /\ type = Unknown /\ type' # "emugl" => couldDrm
      /\ ~lost' => ~lost /\ (type = Unknown => type' = Decide(FromDBus))
      /\ lost' \in BOOLEAN
    BY <1>2, <1>3, <1>4 DEF GetDisplayType
<1>6. /\ oldType' = type'
      /\ node' = IF type' # oldType /\ IntelOrAmd /\ node = NoCard
                 THEN NodeNumbers(host, prime) ELSE node
      /\ todo' = IF type' = oldType THEN <<>> ELSE TypeWrites(type')
    BY DEF GetDisplayType, UpdateDisplayType
<1>7. node' \in {NoCard} \cup DOMAIN host.cards
    BY <1>6, FoundCard DEF DisplayTyped, DisplayTypeOK
<1>8. TypeWrites(type') \in Seq(Calls)
    BY <1>5, <1>7, TypeCalls
<1> QED BY <1>5, <1>6, <1>7, <1>8

\* The sizes alone are called then.
LEMMA SizeProps ==
    ASSUME DisplayTyped, todo' = <<>> \/ Measure
    PROVE  \A i \in DOMAIN todo' : todo'[i].prop \in {"width", "height", "density"}
<1>1. CASE todo' = <<>>
    BY <1>1
<1>2. CASE Measure
    BY <1>2, Measuring DEF Default, Running
<1> QED BY <1>1, <1>2
\* What a call does.
LEMMA CallDone ==
    ASSUME DisplayTyped, Call
    PROVE  /\ Len(todo) \in Nat \ {0} /\ DOMAIN todo = 1..Len(todo) /\ up = "running"
           /\ todo[1] \in Calls
           /\ todo' \in Seq(Calls) /\ DOMAIN todo' = 1..Len(todo) - 1
           /\ \A i \in DOMAIN todo' : i + 1 \in DOMAIN todo /\ todo'[i] = todo[i + 1]
           /\ \A i \in DOMAIN todo : i # 1 => i - 1 \in DOMAIN todo' /\ todo'[i - 1] = todo[i]
           /\ \/ /\ todo[1].layer = "default"
                 /\ def' = [def EXCEPT ![todo[1].prop] = todo[1].value]
                 /\ run' = run /\ lost' = lost
              \/ /\ todo[1].layer = "running" /\ def' = def /\ lost' = lost
                 /\ run' = IF container = "off" THEN run
                           ELSE [run EXCEPT ![todo[1].prop] = todo[1].value]
              \/ lost' = TRUE /\ def' = def /\ run' = run
           /\ UNCHANGED <<desktopVars, host, ready, up, plan, watching, stopped, gpuVars,
                          sizeVars, typeVars, container, promised, answered, moved>>
<1>1. todo \in Seq(Calls) /\ todo # <<>> /\ Head(todo) = todo[1] /\ todo' = Tail(todo)
    BY DEF DisplayTyped, PlanInv, Call
<1>2. /\ Len(todo) \in Nat \ {0} /\ DOMAIN todo = 1..Len(todo) /\ todo[1] \in Calls
      /\ todo' \in Seq(Calls) /\ DOMAIN todo' = 1..Len(todo) - 1
      /\ \A i \in DOMAIN todo' : i + 1 \in DOMAIN todo /\ todo'[i] = todo[i + 1]
      /\ \A i \in DOMAIN todo : i # 1 => i - 1 \in DOMAIN todo' /\ todo'[i - 1] = todo[i]
    BY <1>1
<1>3. up = "running"
    BY <1>1 DEF DisplayTyped, PlanInv
<1> QED BY <1>1, <1>2, <1>3 DEF Call

\* Calls have properties, and numbers get numbers.
LEMMA CallTypes ==
    ASSUME NEW c \in Calls
    PROVE  /\ c.prop \in Props /\ c.layer \in {"default", "running"}
           /\ c.prop \in NumberProps => c.value \in Nat
           /\ c.layer = "running" => c.prop \in NumberProps
           /\ c.prop = "drm" => c.value \in {NoCard} \cup DOMAIN host.cards
BY DEF Calls, Props, NumberProps

\* The stages keep their order, and the calls their types, in a stage.
LEMMA StageTyped ==
    ASSUME DisplayTyped, NEW name, Stage(name), todo' \in Seq(Calls)
    PROVE  /\ PlanInv'
           /\ /\ screen' \in Screens \union {NoScreen} /\ factor' \in Factors
              /\ setting' \in Settings
              /\ host' \in Hosts /\ ready' \in 0 .. 2
              /\ up' \in {"down", "loading", "running"}
              /\ stopped' \in BOOLEAN /\ couldDrm' \in BOOLEAN
              /\ aep' \in BOOLEAN /\ prime' \in {Unset, Other} \cup DOMAIN host.cards
              /\ promised' \in Modes \union {Unknown}
              /\ DOMAIN def' = Props /\ DOMAIN run' = Props
              /\ \A p \in NumberProps : def'[p] \in Nat /\ run'[p] \in Nat
              /\ container' \in {"off", "blind", "told"} /\ moved' \in BOOLEAN
<1>1. /\ plan' \in Seq(StageNames) /\ up' = "running" /\ todo' \in Seq(Calls)'
      /\ (Rest(ConstructorPlan) \/ Rest(GeometryPlan) \/ Rest(InformationPlan))'
    BY StageDone DEF DisplayTyped, Stage, Calls
<1> QED BY <1>1 DEF PlanInv, DisplayTyped, DisplayTypeOK, Stage

\* The types of the start.
LEMMA DisplayInitType == DisplayInit => DisplayTyped
<1> SUFFICES ASSUME DisplayInit PROVE DisplayTyped
    OBVIOUS
<1>1. plan \in Seq(StageNames) /\ todo \in Seq(Calls)
    BY DEF DisplayInit
<1>2. (Rest(ConstructorPlan) \/ Rest(GeometryPlan) \/ Rest(InformationPlan))
    BY Handlers DEF DisplayInit, Rest
<1>3. watching \in BOOLEAN /\ stopped \in BOOLEAN /\ couldDrm \in BOOLEAN /\ aep \in BOOLEAN
    BY Zenon DEF DisplayInit
<1>4. lost \in BOOLEAN /\ moved \in BOOLEAN
    BY Zenon DEF DisplayInit
<1>5. size \in Sizes /\ oldSize \in Sizes
    BY DEF DisplayInit, Sizes, NoSize
<1>6. /\ DOMAIN def = Props /\ DOMAIN run = Props
      /\ \A p \in NumberProps : def[p] \in Nat /\ run[p] \in Nat
    BY DEF DisplayInit, NotSet, Props
<1>7. /\ screen \in Screens \union {NoScreen} /\ factor \in Factors
      /\ setting \in Settings /\ host \in Hosts /\ ready \in 0 .. 2 /\ up = "down"
      /\ prime \in {Unset, Other} \cup DOMAIN host.cards
      /\ {card, node} \subseteq {NoCard} \cup DOMAIN host.cards
      /\ vendor \in Makers \cup {UnknownMaker}
      /\ physDensity \in Nat /\ qemuDensity \in {0, 240, 320}
      /\ {type, oldType, answered, promised} \subseteq Modes \union {Unknown}
      /\ container \in {"off", "blind", "told"} /\ plan = <<>> /\ todo = <<>>
    BY DEF DisplayInit
<1> QED BY <1>1, <1>2, <1>3, <1>4, <1>5, <1>6, <1>7 DEF DisplayTyped, DisplayTypeOK, PlanInv

\* Every stage keeps the types.
LEMMA StagesType == DisplayTyped /\ Stages => DisplayTyped'
<1> SUFFICES ASSUME DisplayTyped, Stages PROVE DisplayTyped'
    OBVIOUS
<1> USE DEF LeaveCards
<1>1. host \in Hosts /\ DisplayTypeOK
    BY DEF DisplayTyped, DisplayTypeOK
<1>2. CASE GetPhysicalDisplaySize
  <2>1. /\ size' \in Sizes /\ oldSize' \in Sizes /\ todo' \in Seq(Calls)
      BY <1>2, Measuring DEF GetPhysicalDisplaySize
  <2> QED BY <1>2, <2>1, StageTyped DEF GetPhysicalDisplaySize, DisplayTyped, DisplayTypeOK, Stage
<1>3. CASE GetWindowDisplaySize
  <2>1. /\ size' \in Sizes /\ oldSize' \in Sizes /\ todo' \in Seq(Calls)
        /\ qemuDensity' \in {0, 240, 320}
      BY <1>3, Measuring, Densities DEF GetWindowDisplaySize
  <2> QED BY <1>3, <2>1, StageTyped DEF GetWindowDisplaySize, DisplayTyped, DisplayTypeOK, Stage
<1>4. CASE SetAppropriateQemuDensity
    BY <1>4, StageTodo, StageTyped
    DEF SetAppropriateQemuDensity, DisplayTyped, DisplayTypeOK, Stage
<1>5. ASSUME NEW p \in {"bridge", "dns"}, SetPlatform(p) PROVE DisplayTyped'
  <2>1. todo' \in Seq(Calls)
      BY <1>5, StageTodo
  <2> QED BY <1>5, <2>1, StageTyped DEF SetPlatform, DisplayTyped, DisplayTypeOK, Stage
<1>6. CASE InitHostPlatformProp
  <2>1. todo' \in Seq(Calls)
      BY <1>6, StageTodo
  <2>2. card' \in {NoCard} \cup DOMAIN host.cards
      BY <1>1, <1>6, FoundCard DEF InitHostPlatformProp, GetGpuPciInfo, DisplayTypeOK
  <2>3. vendor' \in Makers \cup {UnknownMaker}
      BY <1>1, <1>6, <2>2, FoundCard DEF InitHostPlatformProp
  <2> QED BY <1>6, <2>1, <2>2, <2>3, StageTyped
          DEF InitHostPlatformProp, DisplayTyped, DisplayTypeOK, Stage
<1>7. CASE InitConnections
  <2>1. todo' \in Seq(Calls)
      BY <1>7, StageTodo
  <2>2. watching' \in BOOLEAN
      BY <1>7, Zenon DEF InitConnections
  <2> QED BY <1>7, <2>1, <2>2, StageTyped DEF InitConnections, DisplayTyped, DisplayTypeOK, Stage
<1>8. CASE GetPhysicalDensity
  <2>1. /\ size' \in Sizes /\ oldSize' \in Sizes /\ todo' \in Seq(Calls)
        /\ physDensity' \in Nat
    <3>1. physDensity \in Nat /\ ConfDensity \in Nat
        BY <1>1, DisplayAssumption DEF DisplayTypeOK
    <3>2. \/ physDensity > 0
          \/ physDensity = 0 /\ ConfDensity > 0
          \/ physDensity = 0 /\ ConfDensity = 0
        BY <3>1
    <3>3. ConfDensity \in Nat /\ todo \in Seq(Calls)
        BY DisplayAssumption DEF DisplayTyped, PlanInv
    <3>4. CASE physDensity > 0
        BY <1>1, <1>8, <3>3, <3>4 DEF GetPhysicalDensity, DisplayTypeOK
    <3>5. CASE physDensity = 0 /\ ConfDensity > 0
        BY <1>1, <1>8, <3>3, <3>5 DEF GetPhysicalDensity, DisplayTypeOK
    <3>6. CASE physDensity = 0 /\ ConfDensity = 0
      <4>1. Measure /\ physDensity' = PhysicalDensity(Measured)
          BY <1>8, <3>6 DEF GetPhysicalDensity
      <4> QED BY <4>1, Measuring, Densities
    <3> QED BY <3>2, <3>4, <3>5, <3>6
  <2>2. qemuDensity' = qemuDensity
      BY <1>8 DEF GetPhysicalDensity
  <2> QED BY <1>8, <2>1, <2>2, StageTyped DEF GetPhysicalDensity, DisplayTyped, DisplayTypeOK, Stage
<1>9. CASE GetDisplayType
  <2>1. /\ type' \in Modes /\ oldType' = type' /\ node' \in {NoCard} \cup DOMAIN host.cards
        /\ lost' \in BOOLEAN /\ todo' \in Seq(Calls)
      BY <1>1, <1>9, TypeTodo
  <2> QED BY <1>9, <2>1, StageTyped DEF GetDisplayType, DisplayTyped, DisplayTypeOK, Stage
<1>10. CASE Answer
  <2>1. todo' \in Seq(Calls)
      BY <1>10, StageTodo
  <2> QED BY <1>10, <2>1, StageTyped DEF Answer, DisplayTyped, DisplayTypeOK, Stage
<1> QED
    BY <1>2, <1>3, <1>4, <1>5, <1>6, <1>7, <1>8, <1>9, <1>10
    DEF Stages, InitCpuInformation, InitDockerDns

\* Every step keeps the types.
LEMMA DisplayNextType == DisplayTyped /\ [DisplayNext]_displayVars => DisplayTyped'
<1> SUFFICES ASSUME DisplayTyped, [DisplayNext]_displayVars PROVE DisplayTyped'
    OBVIOUS
<1>1. host \in Hosts /\ DisplayTypeOK /\ PlanInv
    BY DEF DisplayTyped, DisplayTypeOK
<1>2. ASSUME PlanInv', DisplayTypeOK' PROVE DisplayTyped'
    BY <1>2 DEF DisplayTyped
<1>3. ASSUME host' = host, todo' \in {todo, <<>>},
             up' # "running" => plan' = <<>> /\ todo' = <<>>,
             plan' \in {plan, <<>>, ConstructorPlan, GeometryPlan, InformationPlan}
      PROVE  PlanInv'
  <2>1. Seq(Calls)' = Seq(Calls)
      BY <1>3 DEF Calls
  <2>2. todo' \in Seq(Calls)
    <3>1. todo \in Seq(Calls) /\ <<>> \in Seq(Calls)
        BY <1>1 DEF PlanInv
    <3> QED BY <1>3, <3>1
  <2>3. CASE plan' = plan
      BY <1>1, <1>3, <2>1, <2>2, <2>3
      DEF PlanInv, Rest, ConstructorPlan, GeometryPlan, InformationPlan
  <2>4. CASE plan' \in {<<>>, ConstructorPlan, GeometryPlan, InformationPlan}
      BY <1>3, <2>1, <2>2, <2>4, WholePlan DEF PlanInv
  <2> QED BY <1>3, <2>3, <2>4
<1>4. ASSUME Exit, UNCHANGED host PROVE PlanInv'
    BY <1>3, <1>4 DEF Exit
<1>5. ASSUME Exit, UNCHANGED <<desktopVars, host, ready>>, container' \in {container, "off"},
             def' = def, run' \in {run, NotSet}, promised' \in {promised, Unknown},
             answered' = answered, lost' = lost, moved' = moved
      PROVE  DisplayTypeOK'
  <2>1. watching' \in BOOLEAN /\ stopped' \in BOOLEAN /\ couldDrm' \in BOOLEAN /\ aep' \in BOOLEAN
      BY <1>5, Zenon DEF Exit
  <2>2. size' \in Sizes /\ oldSize' \in Sizes
      BY <1>5 DEF Exit, Sizes, NoSize
  <2>3. DOMAIN NotSet = Props /\ \A p \in NumberProps : NotSet[p] \in Nat
      BY DEF NotSet, Props
  <2> QED BY <1>1, <1>5, <2>1, <2>2, <2>3 DEF Exit, DisplayTypeOK
<1>6. CASE Exec
  <2>1. PlanInv'
      BY <1>1, <1>3, <1>6 DEF Exec, PlanInv
  <2>2. PciInfo(host, host.prime) \in {NoCard} \cup DOMAIN host.cards
      BY <1>1, FoundCard
  <2>3. couldDrm' \in BOOLEAN /\ aep' \in BOOLEAN /\ lost' \in BOOLEAN
    <3>1. lost' \in BOOLEAN
        BY <1>6, Zenon DEF Exec
    <3>2. aep' \in BOOLEAN
        BY <1>6, Zenon DEF Exec
    <3>3. couldDrm' \in BOOLEAN
        BY <1>6, Zenon DEF Exec
    <3> QED BY <3>1, <3>2, <3>3
  <2>4. host.prime \in {Unset, Other} \cup DOMAIN host.cards
      BY <1>1, DisplayAssumption
  <2> QED BY <1>1, <1>2, <1>6, <2>1, <2>2, <2>3, <2>4 DEF Exec, DisplayTypeOK
<1>7. CASE Main
  <2>1. PlanInv'
    <3>1. plan = <<>> /\ todo = <<>>
        BY <1>1, <1>7 DEF Main, PlanInv
    <3> QED BY <1>3, <1>7, <3>1 DEF Main
  <2>2. card' \in {NoCard} \cup DOMAIN host.cards
      BY <1>1, <1>7, FoundCard DEF Main, GetGpuPciInfo, DisplayTypeOK
  <2>3. couldDrm' \in BOOLEAN /\ aep' \in BOOLEAN /\ moved' \in BOOLEAN
    <3>1. couldDrm \in BOOLEAN /\ aep \in BOOLEAN /\ moved \in BOOLEAN
        BY <1>1 DEF DisplayTypeOK
    <3>2. couldDrm' = couldDrm \/ couldDrm' = FALSE
        BY <1>7 DEF Main
    <3>3. aep' = aep \/ aep' = FALSE
        BY <1>7 DEF Main
    <3>4. moved' = moved \/ moved' = FALSE
        BY <1>7 DEF Main
    <3> QED BY <3>1, <3>2, <3>3, <3>4, Zenon
  <2>4. {host.prime, host.globalPrime} \subseteq {Unset, Other} \cup DOMAIN host.cards
      BY <1>1, DisplayAssumption
  <2> QED BY <1>1, <1>2, <1>7, <2>1, <2>2, <2>3, <2>4 DEF Main, DisplayTypeOK
<1>8. CASE Kill
    BY <1>2, <1>4, <1>5, <1>8 DEF Kill
<1>9. CASE Call
  <2>1. /\ up = "running" /\ todo[1] \in Calls /\ todo' \in Seq(Calls)
        /\ \/ def' = [def EXCEPT ![todo[1].prop] = todo[1].value] /\ run' = run /\ lost' = lost
           \/ /\ def' = def /\ lost' = lost
              /\ run' \in {run, [run EXCEPT ![todo[1].prop] = todo[1].value]}
           \/ lost' = TRUE /\ def' = def /\ run' = run
        /\ UNCHANGED <<desktopVars, host, ready, up, plan, watching, stopped, gpuVars,
                       sizeVars, typeVars, container, promised, answered, moved>>
      BY <1>9, CallDone
  <2>2. PlanInv'
    <3>1. Seq(Calls)' = Seq(Calls)
        BY <2>1 DEF Calls
    <3> QED BY <1>1, <2>1, <3>1
            DEF PlanInv, Rest, ConstructorPlan, GeometryPlan, InformationPlan
  <2>3. todo[1].prop \in Props /\ (todo[1].prop \in NumberProps => todo[1].value \in Nat)
      BY <2>1, CallTypes
  <2>4. NumberProps \subseteq Props
      BY DEF Props
  <2>5. /\ DOMAIN def' = Props /\ DOMAIN run' = Props
        /\ \A p \in NumberProps : def'[p] \in Nat /\ run'[p] \in Nat
      BY <1>1, <2>1, <2>3, <2>4 DEF DisplayTypeOK
  <2>6. lost' \in BOOLEAN
      BY <1>1, <2>1 DEF DisplayTypeOK
  <2>7. DisplayTypeOK'
      BY <1>1, <2>1, <2>5, <2>6 DEF DisplayTypeOK
  <2> QED BY <1>2, <2>2, <2>7
<1>10. CASE Stages
    BY <1>10, StagesType
<1>11. CASE GetDisplayInformation
  <2>1. PlanInv'
      BY <1>1, <1>3, <1>11 DEF GetDisplayInformation, Idle
  <2> QED BY <1>1, <1>2, <1>11, <2>1 DEF GetDisplayInformation, DisplayTypeOK
<1>12. CASE GeometryChanged
  <2>1. PlanInv'
      BY <1>1, <1>3, <1>12 DEF GeometryChanged, Idle
  <2>2. moved' \in BOOLEAN
      BY <1>12, Zenon DEF GeometryChanged
  <2>3. screen' \in Screens
      BY <1>12 DEF GeometryChanged
  <2> QED BY <1>1, <1>2, <1>12, <2>1, <2>2, <2>3 DEF GeometryChanged, DisplayTypeOK
<1>13. CASE OnStopApplication
    BY <1>2, <1>4, <1>5, <1>13 DEF OnStopApplication
<1>14. CASE OnStartLogout
  <2>1. DOMAIN NotSet = Props /\ \A p \in NumberProps : NotSet[p] \in Nat
      BY DEF NotSet, Props
  <2>2. CASE Exit
      BY <1>2, <1>4, <1>5, <1>14, <2>2 DEF OnStartLogout, Off
  <2>3. CASE /\ stopped' = (stopped \/ container # "off")
             /\ UNCHANGED <<up, plan, todo, watching, gpuVars, sizeVars, typeVars>>
    <3>1. stopped' \in BOOLEAN
        BY <2>3, Zenon
    <3>2. PlanInv'
        BY <1>1, <1>3, <1>14, <2>3 DEF OnStartLogout, PlanInv
    <3> QED BY <1>1, <1>2, <1>14, <2>1, <2>3, <3>1, <3>2 DEF OnStartLogout, Off, DisplayTypeOK
  <2> QED BY <1>14, <2>2, <2>3 DEF OnStartLogout
<1>15. CASE PrimaryScreenChanged
  <2>1. PlanInv'
      BY <1>1, <1>3, <1>15 DEF PrimaryScreenChanged, PlanInv
  <2>2. moved' \in BOOLEAN /\ watching' \in BOOLEAN
    <3>1. moved' = TRUE
        BY <1>15 DEF PrimaryScreenChanged
    <3>2. watching' \in BOOLEAN \/ watching' = FALSE
        BY <1>15 DEF PrimaryScreenChanged
    <3> QED BY <3>1, <3>2
  <2> QED BY <1>1, <1>2, <1>15, <2>1, <2>2 DEF PrimaryScreenChanged, DisplayTypeOK
<1>16. CASE ScalingChanged
  <2>1. PlanInv'
      BY <1>1, <1>3, <1>16 DEF ScalingChanged, PlanInv
  <2> QED BY <1>1, <1>2, <1>16, <2>1 DEF ScalingChanged, DisplayTypeOK
<1>17. CASE SettingChanged
  <2>1. PlanInv'
      BY <1>1, <1>3, <1>17 DEF SettingChanged, PlanInv
  <2> QED BY <1>1, <1>2, <1>17, <2>1 DEF SettingChanged, DisplayTypeOK
<1>18. CASE HostReady
  <2>1. PlanInv'
      BY <1>1, <1>3, <1>18 DEF HostReady, PlanInv
  <2>2. ready' \in 0 .. 2
      BY <1>1, <1>18 DEF HostReady, DisplayTypeOK
  <2> QED BY <1>1, <1>2, <1>18, <2>1, <2>2 DEF HostReady, DisplayTypeOK
<1>19. CASE Boot
  <2>1. PlanInv'
      BY <1>1, <1>3, <1>19 DEF Boot, PlanInv
  <2>2. container' \in {"told", "blind"}
      BY <1>19 DEF Boot
  <2> QED BY <1>1, <1>2, <1>19, <2>1, <2>2 DEF Boot, DisplayTypeOK
<1>20. CASE Stop
  <2>1. PlanInv'
      BY <1>1, <1>3, <1>20 DEF Stop, PlanInv
  <2>2. stopped' \in BOOLEAN
      BY <1>20, Zenon DEF Stop
  <2>3. DOMAIN NotSet = Props /\ \A p \in NumberProps : NotSet[p] \in Nat
      BY DEF NotSet, Props
  <2> QED BY <1>1, <1>2, <1>20, <2>1, <2>2, <2>3 DEF Stop, Off, DisplayTypeOK
<1>21. CASE UNCHANGED displayVars
  <2>1. PlanInv'
      BY <1>1, <1>3, <1>21 DEF PlanInv
  <2> QED BY <1>1, <1>2, <1>21, <2>1 DEF DisplayTypeOK
<1> QED
    BY <1>6, <1>7, <1>8, <1>9, <1>10, <1>11, <1>12, <1>13, <1>14, <1>15, <1>16, <1>17, <1>18, <1>19,
       <1>20, <1>21
    DEF DisplayNext, Manager, Environment

-----------------------------------------------------------------------------
(* The steps, by what they leave alone *)

\* The manager's process ends.
Leaves ==
    /\ Exit
    /\ UNCHANGED <<desktopVars, host, ready, def, answered, lost, moved>>
    /\ UNCHANGED <<container, run, promised>> \/ Off

\* An event: what the process knows and the calls it has left stay as they are.
Outside ==
    /\ UNCHANGED <<host, up, todo, gpuVars, sizeVars, typeVars, def, answered, lost>>
    /\ plan' = plan \/ (Idle /\ plan' \in {GeometryPlan, InformationPlan})
    /\ ready' = ready \/ ready # 2
    /\ UNCHANGED <<container, run, promised>> \/ Off \/ Boot
    /\ moved' \/ UNCHANGED <<screen, factor, moved>> \/ plan' = GeometryPlan

\* A step that is not of main, of a call or of a stage.
LEMMA Steps ==
    ASSUME DisplayTyped, [DisplayNext]_displayVars
    PROVE  Exec \/ Main \/ Call \/ Stages \/ Leaves \/ Outside
<1>1. CASE Kill \/ OnStopApplication
    BY <1>1 DEF Kill, OnStopApplication, Leaves
<1>2. CASE OnStartLogout
    BY <1>2 DEF OnStartLogout, Leaves, Outside
<1>3. CASE GetDisplayInformation
    BY <1>3 DEF GetDisplayInformation, Outside
<1>4. CASE GeometryChanged
    BY <1>4 DEF GeometryChanged, Outside
<1>5. CASE PrimaryScreenChanged \/ ScalingChanged \/ SettingChanged
    BY <1>5 DEF PrimaryScreenChanged, ScalingChanged, SettingChanged, Outside
<1>6. CASE HostReady
    BY <1>6 DEF HostReady, Outside, DisplayTyped, DisplayTypeOK
<1>7. CASE Boot
    BY <1>7 DEF Boot, Outside
<1>8. CASE Stop
    BY <1>8 DEF Stop, Outside
<1>9. CASE UNCHANGED displayVars
    BY <1>9 DEF Outside
<1> QED BY <1>1, <1>2, <1>3, <1>4, <1>5, <1>6, <1>7, <1>8, <1>9
        DEF DisplayNext, Manager, Environment

\* An event finds the constructor as far as it was, or done.
LEMMA EventPast ==
    ASSUME DisplayTyped, Outside, NEW k
    PROVE  /\ Past(k)' <=> Past(k)
           /\ Constructing' => Constructing /\ plan' = plan
<1>1. CASE plan' = plan
    BY <1>1 DEF Past, Constructing, Outside
<1>2. CASE Idle /\ plan' = GeometryPlan
    BY <1>2, Handlers DEF Past, Constructing, Outside, Idle
<1>3. CASE Idle /\ plan' = InformationPlan
    BY <1>3, Handlers DEF Past, Constructing, Outside, Idle
<1> QED BY <1>1, <1>2, <1>3 DEF Outside

\* Main begins with the constructor.
LEMMA MainPast ==
    ASSUME Main, NEW k \in Nat, k <= 8
    PROVE  ~Past(k)'
<1>1. CASE up' = "down"
    BY <1>1 DEF Past
<1>2. CASE plan' = ConstructorPlan
  <2>1. Len(plan') = 8 /\ plan'[8] = "connect" /\ plan' # <<>>
      BY <1>2, Handlers
  <2> QED BY <2>1 DEF Past, Constructing
<1> QED BY <1>1, <1>2 DEF Main

\* A stage takes the constructor a step on.
LEMMA StagePast ==
    ASSUME DisplayTyped, NEW name, Stage(name)
    PROVE  /\ up = "running" /\ up' = "running"
           /\ Len(plan) \in Nat \ {0} /\ Len(plan') = Len(plan) - 1
           /\ Constructing' <=> Constructing /\ Len(plan) # 1
<1>1. PlanInv
    BY DEF DisplayTyped
<1>2. /\ plan # <<>> /\ up = "running" /\ up' = up
      /\ Len(plan) \in Nat \ {0} /\ Len(plan') = Len(plan) - 1
      /\ plan' # <<>> => plan'[Len(plan')] = plan[Len(plan)]
      /\ plan' = <<>> <=> Len(plan) = 1
    BY <1>1, StageDone
<1> QED BY <1>2 DEF Constructing

\* A call that is made leaves the others.
LEMMA CallDue ==
    ASSUME DisplayTyped, Call, NEW layer, NEW p
    PROVE  /\ \A i \in Due(layer, p)' : i + 1 \in Due(layer, p) /\ todo'[i] = todo[i + 1]
           /\ \A i \in Due(layer, p) : i # 1 => i - 1 \in Due(layer, p)' /\ todo'[i - 1] = todo[i]
           /\ 1 \in Due(layer, p) <=> todo[1].layer = layer /\ todo[1].prop = p
           /\ Due(layer, p)' = {} => Due(layer, p) = {} \/ 1 \in Due(layer, p)
           /\ Due(layer, p) = {} => Due(layer, p)' = {}
<1>1. /\ 1 \in DOMAIN todo
      /\ \A i \in DOMAIN todo' : i + 1 \in DOMAIN todo /\ todo'[i] = todo[i + 1]
      /\ \A i \in DOMAIN todo : i # 1 => i - 1 \in DOMAIN todo' /\ todo'[i - 1] = todo[i]
    BY CallDone
<1>2. \A i \in Due(layer, p)' : i + 1 \in Due(layer, p) /\ todo'[i] = todo[i + 1]
    BY <1>1 DEF Due
<1>3. \A i \in Due(layer, p) : i # 1 => i - 1 \in Due(layer, p)' /\ todo'[i - 1] = todo[i]
    BY <1>1 DEF Due
<1>4. 1 \in Due(layer, p) <=> todo[1].layer = layer /\ todo[1].prop = p
    BY <1>1 DEF Due
<1> QED BY <1>2, <1>3, <1>4

\* What the stages leave alone, but for those that look for it.
LEMMA StageLeaves ==
    ASSUME DisplayTyped, Stages
    PROVE  /\ \E name : Stage(name)
           /\ ~GetDisplayType =>
                 /\ UNCHANGED <<node, typeVars, lost>>
                 /\ \A i \in DOMAIN todo' : todo'[i].prop \notin ModeProps \cup {"drm"}
           /\ ~InitHostPlatformProp => UNCHANGED <<card, vendor>> /\ Head(plan) # "dds"
           /\ ~Answer => UNCHANGED answered
<1>1. ASSUME UNCHANGED <<node, typeVars, lost, card, vendor, answered>>,
             NEW name, Stage(name), name # "dds",
             \A i \in DOMAIN todo' : todo'[i].prop \in NumberProps \cup PlatformProps
      PROVE  /\ \E n : Stage(n)
             /\ ~GetDisplayType =>
                   /\ UNCHANGED <<node, typeVars, lost>>
                   /\ \A i \in DOMAIN todo' : todo'[i].prop \notin ModeProps \cup {"drm"}
             /\ ~InitHostPlatformProp => UNCHANGED <<card, vendor>> /\ Head(plan) # "dds"
             /\ ~Answer => UNCHANGED answered
  <2>1. Head(plan) # "dds"
      BY <1>1 DEF Stage
  <2>2. \A i \in DOMAIN todo' : todo'[i].prop \notin ModeProps \cup {"drm"}
      BY <1>1 DEF NumberProps, PlatformProps, ModeProps
  <2>3. \E n : Stage(n)
      BY <1>1
  <2> QED BY <1>1, <2>1, <2>2, <2>3
<1>2. ASSUME todo' = <<>> \/ Measure
      PROVE  \A i \in DOMAIN todo' : todo'[i].prop \in NumberProps \cup PlatformProps
    BY <1>2, SizeProps DEF NumberProps
<1>3. CASE GetPhysicalDisplaySize
  <2>1. Stage("size") /\ Measure /\ UNCHANGED <<node, typeVars, lost, card, vendor, answered>>
      BY <1>3 DEF GetPhysicalDisplaySize, LeaveCards
  <2> QED BY <1>1, <1>2, <2>1
<1>4. CASE GetWindowDisplaySize
  <2>1. Stage("window") /\ Measure /\ UNCHANGED <<node, typeVars, lost, card, vendor, answered>>
      BY <1>4 DEF GetWindowDisplaySize, LeaveCards
  <2> QED BY <1>1, <1>2, <2>1
<1>5. CASE SetAppropriateQemuDensity
  <2>1. Stage("lcd") /\ UNCHANGED <<node, typeVars, lost, card, vendor, answered>>
      BY <1>5 DEF SetAppropriateQemuDensity, LeaveCards
  <2>2. \A i \in DOMAIN todo' : todo'[i].prop \in NumberProps \cup PlatformProps
      BY <1>5, StageTodo DEF Default, Running, NumberProps
  <2> QED BY <1>1, <2>1, <2>2
<1>6. ASSUME NEW p \in {"bridge", "dns"}, SetPlatform(p)
      PROVE  /\ Stage(p) /\ UNCHANGED <<node, typeVars, lost, card, vendor, answered>>
             /\ \A i \in DOMAIN todo' : todo'[i].prop \in NumberProps \cup PlatformProps
  <2>1. Stage(p) /\ UNCHANGED <<node, typeVars, lost, card, vendor, answered>>
      BY <1>6 DEF SetPlatform, LeaveCards
  <2>2. \A i \in DOMAIN todo' : todo'[i].prop \in NumberProps \cup PlatformProps
      BY <1>6, StageTodo DEF Default, PlatformProps
  <2> QED BY <2>1, <2>2
<1>7. CASE InitHostPlatformProp
  <2>1. Stage("dds") /\ UNCHANGED <<node, typeVars, lost, answered>>
      BY <1>7 DEF InitHostPlatformProp
  <2>2. \A i \in DOMAIN todo' : todo'[i].prop \notin ModeProps \cup {"drm"}
      BY <1>7, StageTodo DEF Default, ModeProps
  <2> QED BY <1>7, <2>1, <2>2
<1>8. CASE InitConnections
  <2>1. /\ Stage("connect") /\ UNCHANGED <<node, typeVars, lost, card, vendor, answered>>
        /\ todo' = <<>>
      BY <1>8 DEF InitConnections, LeaveCards, Stage
  <2> QED BY <1>1, <1>2, <2>1
<1>9. CASE GetPhysicalDensity
  <2>1. /\ Stage("density") /\ UNCHANGED <<node, typeVars, lost, card, vendor, answered>>
        /\ todo' = <<>> \/ Measure
      BY <1>9 DEF GetPhysicalDensity, LeaveCards, Stage
  <2> QED BY <1>1, <1>2, <2>1
<1>10. CASE GetDisplayType
  <2>1. /\ Stage("type") /\ UNCHANGED <<card, vendor, answered>> /\ Head(plan) # "dds"
      BY <1>10 DEF GetDisplayType, Stage
  <2> QED BY <1>10, <2>1
<1>11. CASE Answer
  <2>1. /\ Stage("answer") /\ UNCHANGED <<node, typeVars, lost, card, vendor>>
        /\ todo' = <<>> /\ Head(plan) # "dds"
      BY <1>11 DEF Answer, LeaveCards, Stage
  <2> QED BY <1>11, <2>1
<1> QED
  <2>1. CASE InitCpuInformation
      BY <1>1, <1>6, <2>1 DEF InitCpuInformation
  <2>2. CASE InitDockerDns
      BY <1>1, <1>6, <2>2 DEF InitDockerDns
  <2> QED BY <1>3, <1>4, <1>5, <1>7, <1>8, <1>9, <1>10, <1>11, <2>1, <2>2 DEF Stages

-----------------------------------------------------------------------------
(* The card and its nodes *)

Nodes == NodeNumbers(host, host.prime)

\* Main reads no other DRI_PRIME.
Early == host.globalPrime = Unset

\* The host can do drm, as far as the manager can know before main.
DrmHost == ready = 2 /\ CouldUsesDrm(host, PciInfo(host, host.prime))

\* A process that may do drm has the card it looked at before main, and the nodes are that card's.
CardInv ==
    /\ couldDrm => DrmHost /\ card = PciInfo(host, host.prime)
    /\ up = "loading" \/ (up = "running" /\ Early) => prime = host.prime
    /\ couldDrm /\ ~host.nvidiaInUse /\ Past(3) => IntelOrAmd
    /\ Early => /\ node \in {NoCard, Nodes} /\ def["drm"] \in {NoCard, Nodes}
                /\ \A i \in Due("default", "drm") : todo[i].value = Nodes

LEMMA CardInit == DisplayInit => CardInv
<1> SUFFICES ASSUME DisplayInit PROVE CardInv
    OBVIOUS
<1>1. /\ up = "down" /\ couldDrm = FALSE /\ node = NoCard /\ todo = <<>>
      /\ def["drm"] = NoCard
    BY DEF DisplayInit, NotSet, Props, NumberProps
<1> QED BY <1>1 DEF CardInv, Past, Due

\* What a stage does to the card.
LEMMA StageCard ==
    ASSUME DisplayTyped, CardInv, Stages
    PROVE  CardInv'
<1>1. host \in Hosts /\ up = "running" /\ todo = <<>> /\ plan # <<>>
    BY StageLeaves DEF Stage, DisplayTyped, DisplayTypeOK, PlanInv
<1>2. PICK name : Stage(name)
    BY StageLeaves
<1>3. Past(3)' => Past(3) \/ (Constructing /\ Len(plan) = 3)
  <2>1. /\ up = "running" /\ up' = "running"
        /\ Len(plan) \in Nat \ {0} /\ Len(plan') = Len(plan) - 1
      BY <1>2, StagePast
  <2>2. Constructing' <=> Constructing /\ Len(plan) # 1
      BY <1>2, StagePast
  <2> QED BY <2>1, <2>2 DEF Past
<1>4. Constructing /\ Len(plan) = 3 => Head(plan) = "dds"
    BY <1>1, Position DEF DisplayTyped
<1>5. /\ UNCHANGED <<host, ready, up, couldDrm, prime, def>>
      /\ Nodes' = Nodes /\ (Early' <=> Early) /\ (DrmHost' <=> DrmHost)
    BY <1>2 DEF Stage, Nodes, Early, DrmHost
<1>6. ASSUME ~GetDisplayType
      PROVE  Early => /\ node' \in {NoCard, Nodes}
                      /\ \A i \in Due("default", "drm")' : todo'[i].value = Nodes
    BY <1>6, StageLeaves DEF CardInv, Due
<1>7. ASSUME ~InitHostPlatformProp,
             Early => /\ node' \in {NoCard, Nodes}
                      /\ \A i \in Due("default", "drm")' : todo'[i].value = Nodes
      PROVE  CardInv'
  <2>1. UNCHANGED <<card, vendor>> /\ Head(plan) # "dds"
      BY <1>7, StageLeaves
  <2> QED BY <1>3, <1>4, <1>5, <1>7, <2>1 DEF CardInv, IntelOrAmd
<1>8. CASE InitHostPlatformProp
  <2>1. ~GetDisplayType
      BY <1>8 DEF InitHostPlatformProp, GetDisplayType, Stage
  <2>2. couldDrm => /\ card = PciInfo(host, host.prime) /\ card # NoCard
                    /\ MakerOf(host, card) \in {"intel", "amd"}
      BY <1>1, DrmCard DEF CardInv, DrmHost
  <2>3. couldDrm => card' = card
      BY <1>8, <2>2 DEF InitHostPlatformProp, GetGpuPciInfo
  <2>4. couldDrm /\ ~host.nvidiaInUse => vendor' \in {"intel", "amd"}
      BY <1>8, <2>2, <2>3 DEF InitHostPlatformProp, Manufacture, UnknownMaker
  <2> QED BY <1>5, <1>6, <2>1, <2>2, <2>3, <2>4 DEF CardInv, IntelOrAmd
<1>9. CASE GetDisplayType
  <2>1. ~InitHostPlatformProp
      BY <1>9 DEF InitHostPlatformProp, GetDisplayType, Stage
  <2>2. /\ type' \in Modes /\ node' \in {NoCard} \cup DOMAIN host.cards
        /\ node' = node \/ node' = NodeNumbers(host, prime)
        /\ todo' = <<>> \/ todo' = TypeWrites(type')
      BY <1>1, <1>9, TypeTodo
  <2>3. Early => node' \in {NoCard, Nodes}
      BY <1>1, <2>2 DEF CardInv, Nodes
  <2>4. \A i \in Due("default", "drm")' : todo'[i].value = node' /\ node' # NoCard
    <3>1. CASE todo' = <<>>
        BY <3>1 DEF Due
    <3>2. CASE todo' = TypeWrites(type')
      <4>1. \A i \in DOMAIN todo' :
               \/ todo'[i].prop \in ModeProps
               \/ todo'[i].prop = "drm" /\ todo'[i].value = node' /\ node' # NoCard
               \/ todo'[i].prop = "aep"
          BY <2>2, <3>2, TypeCalls
      <4> QED BY <4>1 DEF Due, ModeProps
    <3> QED BY <2>2, <3>1, <3>2
  <2> QED BY <1>7, <2>1, <2>3, <2>4
<1> QED BY <1>6, <1>7, <1>8, <1>9

\* Every step keeps it.
LEMMA CardKept == DisplayTyped /\ CardInv /\ [DisplayNext]_displayVars => CardInv'
<1> SUFFICES ASSUME DisplayTyped, CardInv, [DisplayNext]_displayVars PROVE CardInv'
    OBVIOUS
<1>1. host \in Hosts /\ ready \in 0 .. 2 /\ (up # "running" => plan = <<>> /\ todo = <<>>)
    BY DEF DisplayTyped, DisplayTypeOK, PlanInv
<1>2. CASE Exec
  <2>1. /\ up' = "loading" /\ prime' = host.prime /\ UNCHANGED <<host, ready, node, def, todo>>
        /\ todo = <<>>
      BY <1>1, <1>2 DEF Exec
  <2>2. couldDrm' => ready = 2 /\ CouldUsesDrm(host, card')
      BY <1>2, Zenon DEF Exec, DriDeviceCheck
  <2>3. ready = 2 => card' = PciInfo(host, host.prime)
      BY <1>2 DEF Exec
  <2> QED BY <2>1, <2>2, <2>3 DEF CardInv, Past, Nodes, Early, DrmHost, Due
<1>3. CASE Main
  <2>1. couldDrm => card # NoCard
      BY <1>1, DrmCard DEF CardInv, DrmHost
  <2>2. couldDrm' => couldDrm /\ card' = card
      BY <1>3, <2>1 DEF Main, GetGpuPciInfo
  <2>3. up' # "loading" /\ (up' = "running" /\ Early => prime' = prime /\ up = "loading")
      BY <1>3 DEF Main, Early
  <2>4. ~Past(3)'
      BY <1>3, MainPast DEF Past, Constructing
  <2>5. UNCHANGED <<host, ready, node, def, todo>>
      BY <1>3 DEF Main
  <2> QED BY <2>2, <2>3, <2>4, <2>5 DEF CardInv, Nodes, Early, DrmHost, Due
<1>4. CASE Leaves
    BY <1>4 DEF Leaves, Exit, CardInv, Past, Nodes, Early, Due
<1>5. CASE Call
  <2>1. /\ UNCHANGED <<host, ready, up, plan, gpuVars>>
        /\ \/ def' = def
           \/ /\ def' = [def EXCEPT ![todo[1].prop] = todo[1].value]
              /\ todo[1].layer = "default"
      BY <1>5, CallDone
  <2>2. Early => \A i \in Due("default", "drm")' : todo'[i].value = Nodes
      BY <1>5, CallDue DEF CardInv
  <2>3. Early => def'["drm"] \in {NoCard, Nodes}
    <3>1. todo[1].prop = "drm" /\ todo[1].layer = "default" => 1 \in Due("default", "drm")
        BY <1>5, CallDue
    <3>2. DOMAIN def = Props /\ "drm" \in Props
        BY DEF DisplayTyped, DisplayTypeOK, Props
    <3>3. CASE def' = def
        BY <3>3 DEF CardInv
    <3>4. CASE def' = [def EXCEPT ![todo[1].prop] = todo[1].value] /\ todo[1].layer = "default"
        BY <3>1, <3>2, <3>4 DEF CardInv
    <3> QED BY <2>1, <3>3, <3>4
  <2>4. Past(3)' <=> Past(3)
      BY <2>1 DEF Past, Constructing
  <2> QED BY <2>1, <2>2, <2>3, <2>4 DEF CardInv, Nodes, Early, DrmHost, IntelOrAmd
<1>6. CASE Stages
    BY <1>6, StageCard
<1>7. CASE Outside
  <2>1. Past(3)' <=> Past(3)
      BY <1>7, EventPast DEF Past, Constructing
  <2>2. /\ UNCHANGED <<host, up, todo, gpuVars, def>>
        /\ couldDrm => ready' = ready
      BY <1>7 DEF Outside, CardInv, DrmHost
  <2> QED BY <2>1, <2>2 DEF CardInv, Nodes, Early, DrmHost, IntelOrAmd, Due
<1> QED BY <1>2, <1>3, <1>4, <1>5, <1>6, <1>7, Steps

\* What a call does to one property.
LEMMA CallSets ==
    ASSUME DisplayTyped, Call, NEW p \in Props
    PROVE  /\ ~lost' => ~lost
           /\ 1 \in Due("default", p) /\ ~lost' => def'[p] = todo[1].value
           /\ 1 \in Due("default", p) => def'[p] \in {def[p], todo[1].value}
           /\ 1 \notin Due("default", p) => def'[p] = def[p]
           /\ 1 \in Due("running", p) /\ ~lost' /\ container # "off" => run'[p] = todo[1].value
           /\ 1 \notin Due("running", p) \/ container = "off" => run'[p] = run[p]
<1>1. /\ todo[1] \in Calls /\ DOMAIN def = Props /\ DOMAIN run = Props
      /\ \/ /\ todo[1].layer = "default"
            /\ def' = [def EXCEPT ![todo[1].prop] = todo[1].value]
            /\ run' = run /\ lost' = lost
         \/ /\ todo[1].layer = "running" /\ def' = def /\ lost' = lost
            /\ run' = IF container = "off" THEN run
                      ELSE [run EXCEPT ![todo[1].prop] = todo[1].value]
         \/ lost' = TRUE /\ def' = def /\ run' = run
    BY CallDone DEF DisplayTyped, DisplayTypeOK
<1>2. /\ 1 \in Due("default", p) <=> todo[1].layer = "default" /\ todo[1].prop = p
      /\ 1 \in Due("running", p) <=> todo[1].layer = "running" /\ todo[1].prop = p
    BY CallDue
<1>3. todo[1].prop \in Props
    BY <1>1, CallTypes
<1>4. lost \in BOOLEAN
    BY DEF DisplayTyped, DisplayTypeOK
<1>5. CASE /\ todo[1].layer = "default"
           /\ def' = [def EXCEPT ![todo[1].prop] = todo[1].value]
           /\ run' = run /\ lost' = lost
    BY <1>1, <1>2, <1>3, <1>5
<1>6. CASE /\ todo[1].layer = "running" /\ def' = def /\ lost' = lost
           /\ run' = IF container = "off" THEN run
                     ELSE [run EXCEPT ![todo[1].prop] = todo[1].value]
    BY <1>1, <1>2, <1>3, <1>6
<1>7. CASE lost' = TRUE /\ def' = def /\ run' = run
    BY <1>7
<1> QED BY <1>1, <1>5, <1>6, <1>7

-----------------------------------------------------------------------------
(* The type the process has decided on *)

\* Without a lost call its properties are set, or in todo.
TypeInv ==
    /\ oldType = type
    /\ up # "running" => type = Unknown
    /\ type \notin {Unknown, "emugl"} => couldDrm
    /\ \A p \in ModeProps : \A i \in Due("default", p) :
          type \in Modes /\ Agrees(p, type, todo[i].value)
    /\ type # Unknown /\ ~lost =>
          /\ \A p \in ModeProps : Due("default", p) = {} => Agrees(p, type, def[p])
          /\ type = "drm" /\ Early /\ ~host.nvidiaInUse /\ Due("default", "drm") = {} =>
                def["drm"] = Nodes

LEMMA TypeInit == DisplayInit => TypeInv
BY DEF DisplayInit, TypeInv, Due

\* Deciding on a type leaves all its properties to be set.
LEMMA TypeDecided ==
    ASSUME DisplayTyped, CardInv, TypeInv, GetDisplayType
    PROVE  TypeInv'
<1>1. host \in Hosts /\ up = "running" /\ todo = <<>> /\ plan # <<>> /\ Stage("type")
    BY DEF GetDisplayType, Stage, DisplayTyped, DisplayTypeOK, PlanInv
<1>2. /\ type' \in Modes /\ oldType' = type' /\ node' \in {NoCard} \cup DOMAIN host.cards
      /\ type # Unknown => type' = type
      /\ type = Unknown /\ type' # "emugl" => couldDrm
      /\ ~lost' => ~lost
      /\ node' = IF type' # oldType /\ IntelOrAmd /\ node = NoCard
                 THEN NodeNumbers(host, prime) ELSE node
      /\ todo' = IF type' = oldType THEN <<>> ELSE TypeWrites(type')
    BY <1>1, TypeTodo
<1>3. UNCHANGED <<host, up, couldDrm, def>> /\ Nodes' = Nodes /\ (Early' <=> Early)
    BY <1>1 DEF Stage, Nodes, Early
<1>4. type \in Modes \cup {Unknown} /\ oldType = type /\ Unknown \notin Modes
    BY DEF DisplayTyped, DisplayTypeOK, TypeInv, Unknown, Modes
<1>5. type' \notin {Unknown, "emugl"} => couldDrm'
    BY <1>2, <1>3, <1>4 DEF TypeInv
<1>6. CASE type' = type
  <2>1. todo' = <<>> /\ Due("default", "drm") = {} /\ type # Unknown
      BY <1>1, <1>2, <1>4, <1>6 DEF Due
  <2>2. \A p \in ModeProps : Due("default", p) = {} /\ Due("default", p)' = {}
      BY <1>1, <2>1 DEF Due
  <2>3. ~lost' => \A p \in ModeProps : Agrees(p, type, def[p])
      BY <1>2, <2>1, <2>2 DEF TypeInv
  <2>4. ~lost' /\ type = "drm" /\ Early /\ ~host.nvidiaInUse => def["drm"] = Nodes
      BY <1>2, <2>1 DEF TypeInv
  <2> QED BY <1>1, <1>2, <1>3, <1>4, <1>5, <1>6, <2>2, <2>3, <2>4 DEF TypeInv
<1>7. CASE type' # type
  <2>1. todo' = TypeWrites(type') /\ type = Unknown
      BY <1>2, <1>4, <1>7
  <2>2. /\ \A i \in DOMAIN todo' :
             /\ todo'[i].layer = "default"
             /\ \/ /\ todo'[i].prop \in ModeProps
                   /\ todo'[i].value = ModeValue[type'][todo'[i].prop]
                \/ todo'[i].prop = "drm"
                \/ todo'[i].prop = "aep"
        /\ \A p \in ModeProps : \E i \in DOMAIN todo' :
             todo'[i].layer = "default" /\ todo'[i].prop = p
        /\ IntelOrAmd /\ node' # NoCard =>
             \E i \in DOMAIN todo' : todo'[i].layer = "default" /\ todo'[i].prop = "drm"
      BY <1>2, <2>1, TypeCalls
  <2>3. \A p \in ModeProps : \A i \in Due("default", p)' : Agrees(p, type', todo'[i].value)
    <3> SUFFICES ASSUME NEW p \in ModeProps, NEW i \in Due("default", p)'
                 PROVE  Agrees(p, type', todo'[i].value)
        OBVIOUS
    <3>1. i \in DOMAIN todo' /\ todo'[i].prop = p
        BY DEF Due
    <3>2. todo'[i].value = ModeValue[type'][p]
        BY <2>2, <3>1 DEF ModeProps
    <3>3. Agrees(p, type', ModeValue[type'][p])
        BY <1>2, ModeValues
    <3> QED BY <3>2, <3>3
  <2>4. \A p \in ModeProps : Due("default", p)' # {}
      BY <2>2 DEF Due
  <2>5. type' = "drm" /\ Early /\ ~host.nvidiaInUse /\ Due("default", "drm")' = {} =>
            def["drm"] = Nodes
    <3> SUFFICES ASSUME type' = "drm", Early, ~host.nvidiaInUse, Due("default", "drm")' = {}
                 PROVE  def["drm"] = Nodes
        OBVIOUS
    <3>1. couldDrm
        BY <1>2, <2>1
    <3>2. Past(3)
      <4>1. ~Constructing
          BY <1>1, Position DEF DisplayTyped, Stage
      <4> QED BY <1>1, <4>1 DEF Past
    <3>3. IntelOrAmd
        BY <3>1, <3>2 DEF CardInv
    <3>4. prime = host.prime
        BY <1>1 DEF CardInv
    <3>5. node' = Nodes
        BY <1>2, <1>4, <1>7, <3>3, <3>4 DEF CardInv, Nodes
    <3>6. node' = NoCard
        BY <2>2, <3>3 DEF Due
    <3> QED BY <3>5, <3>6 DEF CardInv
  <2> QED BY <1>1, <1>2, <1>3, <1>4, <1>5, <2>3, <2>4, <2>5 DEF TypeInv
<1> QED BY <1>6, <1>7

\* Every step keeps it.
LEMMA TypeKept == DisplayTyped /\ CardInv /\ TypeInv /\ [DisplayNext]_displayVars => TypeInv'
<1> SUFFICES ASSUME DisplayTyped, CardInv, TypeInv, [DisplayNext]_displayVars PROVE TypeInv'
    OBVIOUS
<1>1. /\ up # "running" => plan = <<>> /\ todo = <<>>
      /\ type \in Modes \cup {Unknown} /\ Unknown \notin Modes
    BY DEF DisplayTyped, DisplayTypeOK, PlanInv, Unknown, Modes
<1>2. CASE Exec
    BY <1>1, <1>2 DEF Exec, TypeInv, Due
<1>3. CASE Main
    BY <1>1, <1>3 DEF Main, TypeInv, Due
<1>4. CASE Leaves
    BY <1>4 DEF Leaves, Exit, TypeInv, Due
<1>5. ASSUME UNCHANGED <<host, up, typeVars, couldDrm>>, ~lost' => ~lost,
             \A p \in ModeProps : \A i \in Due("default", p)' :
                type \in Modes /\ Agrees(p, type, todo'[i].value),
             type # Unknown /\ ~lost' =>
                /\ \A p \in ModeProps : Due("default", p)' = {} => Agrees(p, type, def'[p])
                /\ type = "drm" /\ Early /\ ~host.nvidiaInUse /\ Due("default", "drm")' = {} =>
                      def'["drm"] = Nodes
      PROVE  TypeInv'
  <2>1. Nodes' = Nodes /\ (Early' <=> Early)
      BY <1>5 DEF Nodes, Early
  <2> QED BY <1>5, <2>1 DEF TypeInv
<1>6. CASE Call
  <2>1. UNCHANGED <<host, up, typeVars, couldDrm>>
      BY <1>6, CallDone
  <2>2. ~lost' => ~lost
      BY <1>6, CallSets DEF Props
  <2>3. \A p \in ModeProps : \A i \in Due("default", p)' :
           type \in Modes /\ Agrees(p, type, todo'[i].value)
      BY <1>6, CallDue DEF TypeInv
  <2>4. ASSUME NEW p \in ModeProps, type # Unknown, ~lost', Due("default", p)' = {}
        PROVE  Agrees(p, type, def'[p])
    <3>1. p \in Props
        BY DEF Props
    <3>2. CASE 1 \in Due("default", p)
        BY <1>6, <2>4, <3>1, <3>2, CallSets DEF TypeInv
    <3>3. CASE 1 \notin Due("default", p)
        BY <1>6, <2>2, <2>4, <3>1, <3>3, CallSets, CallDue DEF TypeInv
    <3> QED BY <3>2, <3>3
  <2>5. ASSUME type = "drm", Early, ~host.nvidiaInUse, Due("default", "drm")' = {}, ~lost'
        PROVE  def'["drm"] = Nodes
    <3>1. "drm" \in Props /\ type # Unknown
        BY <2>5 DEF Props, Unknown
    <3>2. CASE 1 \in Due("default", "drm")
        BY <1>6, <2>5, <3>1, <3>2, CallSets DEF CardInv
    <3>3. CASE 1 \notin Due("default", "drm")
        BY <1>6, <2>2, <2>5, <3>1, <3>3, CallSets, CallDue DEF TypeInv
    <3> QED BY <3>2, <3>3
  <2> QED BY <1>5, <2>1, <2>2, <2>3, <2>4, <2>5
<1>7. CASE Stages
  <2>1. CASE GetDisplayType
      BY <2>1, TypeDecided
  <2>2. CASE ~GetDisplayType
    <3>1. PICK name : Stage(name)
        BY <1>7, StageLeaves
    <3>2. /\ UNCHANGED <<host, up, typeVars, couldDrm, lost, def>> /\ todo = <<>>
          /\ \A i \in DOMAIN todo' : todo'[i].prop \notin ModeProps \cup {"drm"}
        BY <1>7, <2>2, <3>1, StageLeaves DEF Stage
    <3>3. \A p \in ModeProps \cup {"drm"} : Due("default", p) = {} /\ Due("default", p)' = {}
        BY <3>2 DEF Due
    <3> QED BY <1>5, <3>2, <3>3 DEF TypeInv
  <2> QED BY <2>1, <2>2
<1>8. CASE Outside
  <2>1. /\ UNCHANGED <<host, up, typeVars, couldDrm, lost, def, todo>>
        /\ \A p : Due("default", p)' = Due("default", p)
      BY <1>8 DEF Outside, Due
  <2> QED BY <1>5, <2>1 DEF TypeInv
<1> QED BY <1>2, <1>3, <1>4, <1>6, <1>7, <1>8, Steps

\* A stage that comes next is the one its name tells.
LEMMA StageNamed ==
    ASSUME Stages
    PROVE  /\ Head(plan) = "bridge" => InitCpuInformation
           /\ Head(plan) = "dds" => InitHostPlatformProp
           /\ Head(plan) = "dns" => InitDockerDns
           /\ Head(plan) = "answer" => Answer
           /\ Head(plan) = "lcd" => SetAppropriateQemuDensity
           /\ Head(plan) = "window" => GetWindowDisplaySize
<1>1. \A name : Stage(name) => Head(plan) = name
    BY DEF Stage
<1>2. /\ GetPhysicalDisplaySize => Stage("size")
      /\ GetWindowDisplaySize => Stage("window")
      /\ SetAppropriateQemuDensity => Stage("lcd")
      /\ InitCpuInformation => Stage("bridge")
      /\ InitHostPlatformProp => Stage("dds")
      /\ InitDockerDns => Stage("dns")
      /\ InitConnections => Stage("connect")
      /\ GetPhysicalDensity => Stage("density")
      /\ GetDisplayType => Stage("type")
      /\ Answer => Stage("answer")
    BY DEF GetPhysicalDisplaySize, GetWindowDisplaySize, SetAppropriateQemuDensity,
           InitCpuInformation, InitHostPlatformProp, InitDockerDns, InitConnections, SetPlatform,
           GetPhysicalDensity, GetDisplayType, Answer
<1> QED BY <1>1, <1>2 DEF Stages

-----------------------------------------------------------------------------
(* What the constructor sets *)

Turn == [bridge |-> 6, dds |-> 3, dns |-> 2]

\* A property of the constructor is set, or in todo, when its stage is done.
PlatformInv ==
    \A p \in PlatformProps :
        ~lost /\ Past(Turn[p]) /\ Due("default", p) = {} => def[p] # ""

LEMMA PlatformInit == DisplayInit => PlatformInv
BY DEF DisplayInit, PlatformInv, Past

\* What is called for it is not empty.
LEMMA CallsSay ==
    ASSUME DisplayTyped, NEW p \in PlatformProps, NEW i \in Due("default", p)
    PROVE  todo[i].value # ""
<1>1. todo[i] \in Calls /\ todo[i].prop = p
    BY DEF DisplayTyped, PlanInv, Due
<1> QED BY <1>1 DEF Calls, PlatformProps, NumberProps, Words

\* Every step keeps it.
LEMMA PlatformKept ==
    DisplayTyped /\ PlatformInv /\ [DisplayNext]_displayVars => PlatformInv'
<1> SUFFICES ASSUME DisplayTyped, PlatformInv, [DisplayNext]_displayVars,
                    NEW p \in PlatformProps, ~lost', Past(Turn[p])', Due("default", p)' = {}
             PROVE  def'[p] # ""
    BY DEF PlatformInv
<1>1. /\ p \in Props /\ Turn[p] \in {2, 3, 6}
      /\ \/ p = "bridge" /\ Turn[p] = 6
         \/ p = "dds" /\ Turn[p] = 3
         \/ p = "dns" /\ Turn[p] = 2
    BY DEF PlatformProps, Props, Turn
<1>2. CASE Exec
    BY <1>2 DEF Exec, Past
<1>3. CASE Main
  <2>1. PICK k \in Nat : k = Turn[p] /\ k <= 8
      BY <1>1
  <2> QED BY <1>3, <2>1, MainPast
<1>4. CASE Leaves
    BY <1>4 DEF Leaves, Exit, Past
<1>5. CASE Call
  <2>1. UNCHANGED <<up, plan>>
      BY <1>5, CallDone
  <2>2. Past(Turn[p])
      BY <2>1 DEF Past, Constructing
  <2>3. CASE 1 \in Due("default", p)
    <3>1. def'[p] = todo[1].value
        BY <1>1, <1>5, <2>3, CallSets
    <3> QED BY <2>3, <3>1, CallsSay
  <2>4. CASE 1 \notin Due("default", p)
    <3>1. def'[p] = def[p] /\ ~lost
        BY <1>1, <1>5, <2>4, CallSets
    <3>2. Due("default", p) = {}
        BY <1>5, <2>4, CallDue
    <3> QED BY <2>2, <3>1, <3>2 DEF PlatformInv
  <2> QED BY <2>3, <2>4
<1>6. CASE Stages
  <2>1. PICK name : Stage(name)
      BY <1>6, StageLeaves
  <2>2. /\ todo = <<>> /\ plan # <<>> /\ UNCHANGED def /\ ~lost
    <3>1. todo = <<>> /\ plan # <<>> /\ UNCHANGED def
        BY <2>1 DEF Stage
    <3>2. CASE GetDisplayType
        BY <3>1, <3>2, TypeTodo DEF DisplayTyped, DisplayTypeOK
    <3>3. CASE ~GetDisplayType
        BY <1>6, <3>1, <3>3, StageLeaves
    <3> QED BY <3>1, <3>2, <3>3
  <2>3. CASE Past(Turn[p])
    <3>1. Due("default", p) = {}
        BY <2>2 DEF Due
    <3> QED BY <2>2, <2>3, <3>1 DEF PlatformInv
  <2>4. CASE ~Past(Turn[p])
    <3>1. PICK k \in {2, 3, 6} : k = Turn[p]
        BY <1>1
    <3>2. /\ up = "running" /\ up' = "running"
          /\ Len(plan) \in Nat \ {0} /\ Len(plan') = Len(plan) - 1
        BY <2>1, StagePast
    <3>3. Constructing' <=> Constructing /\ Len(plan) # 1
        BY <2>1, StagePast
    <3>4. Constructing /\ Len(plan) = k
      <4>1. Past(k)' /\ ~Past(k)
          BY <2>4, <3>1
      <4>2. Constructing /\ ~(Len(plan) < k)
          BY <3>2, <4>1 DEF Past
      <4>3. Len(plan) # 1
          BY <3>1, <3>2, <4>2
      <4>4. Len(plan') < k
          BY <3>3, <4>1, <4>2, <4>3 DEF Past
      <4> QED BY <3>1, <3>2, <4>2, <4>4
    <3>5. Head(plan) = p
        BY <1>1, <2>2, <3>1, <3>4, Position DEF DisplayTyped
    <3>6. 1 \in Due("default", p)'
      <4>1. CASE p = "bridge"
          BY <1>6, <3>5, <4>1, StageNamed, StageTodo DEF InitCpuInformation, Due, Default
      <4>2. CASE p = "dds"
          BY <1>6, <3>5, <4>2, StageNamed, StageTodo DEF Due, Default
      <4>3. CASE p = "dns"
          BY <1>6, <3>5, <4>3, StageNamed, StageTodo DEF InitDockerDns, Due, Default
      <4> QED BY <1>1, <4>1, <4>2, <4>3
    <3> QED BY <3>6
  <2> QED BY <2>3, <2>4
<1>7. CASE Outside
  <2>1. Past(Turn[p]) /\ Due("default", p) = {} /\ UNCHANGED <<def, lost>>
      BY <1>7, EventPast DEF Outside, Due
  <2> QED BY <2>1 DEF PlatformInv
<1> QED BY <1>2, <1>3, <1>4, <1>5, <1>6, <1>7, Steps

-----------------------------------------------------------------------------
(* The type that was told *)

\* It is that of the process as long as it lives, and a client can boot the container with it.
ToldInv ==
    answered # Unknown =>
        /\ up # "loading" /\ (up = "running" => type = answered /\ Past(1))
        /\ answered # "emugl" => DrmHost
        /\ ~lost =>
              /\ \A p \in ModeProps \cup {"drm"} : Due("default", p) = {}
              /\ \A p \in ModeProps : Agrees(p, answered, def[p])
              /\ \A p \in PlatformProps : def[p] # ""
              /\ answered = "drm" /\ Early /\ ~host.nvidiaInUse => def["drm"] = Nodes

LEMMA ToldInit == DisplayInit => ToldInv
BY DEF DisplayInit, ToldInv

\* Every step keeps it.
LEMMA ToldKept ==
    DisplayTyped /\ CardInv /\ TypeInv /\ PlatformInv /\ ToldInv /\ [DisplayNext]_displayVars
        => ToldInv'
<1> SUFFICES ASSUME DisplayTyped, CardInv, TypeInv, PlatformInv, ToldInv,
                    [DisplayNext]_displayVars, answered' # Unknown
             PROVE  ToldInv'
    BY DEF ToldInv
<1>1. /\ up # "running" => plan = <<>> /\ todo = <<>>
      /\ type \in Modes \cup {Unknown} /\ Unknown \notin Modes
    BY DEF DisplayTyped, DisplayTypeOK, PlanInv, Unknown, Modes
<1>2. CASE Exec
    BY <1>2 DEF Exec
<1>3. CASE Main
    BY <1>3 DEF Main, ToldInv
<1>4. CASE Leaves
  <2>1. up' = "down" /\ todo' = <<>> /\ UNCHANGED <<host, ready, def, answered, lost>>
      BY <1>4 DEF Leaves, Exit
  <2>2. /\ Nodes' = Nodes /\ (Early' <=> Early) /\ (DrmHost' <=> DrmHost)
      BY <2>1 DEF Nodes, Early, DrmHost
  <2>3. \A p : Due("default", p)' = {}
      BY <2>1 DEF Due
  <2> QED BY <2>1, <2>2, <2>3 DEF ToldInv
<1>5. CASE Call
  <2>1. UNCHANGED <<host, ready, up, plan, typeVars, answered>>
      BY <1>5, CallDone
  <2>2. /\ Nodes' = Nodes /\ (Early' <=> Early) /\ (DrmHost' <=> DrmHost) /\ (Past(1)' <=> Past(1))
      BY <2>1 DEF Nodes, Early, DrmHost, Past, Constructing
  <2>3. ASSUME ~lost'
        PROVE  /\ \A p \in ModeProps \cup {"drm"} : Due("default", p)' = {}
               /\ \A p \in ModeProps \cup {"drm"} : def'[p] = def[p]
               /\ \A p \in PlatformProps : def'[p] # ""
    <3>1. ~lost /\ "drm" \in Props /\ ModeProps \subseteq Props /\ PlatformProps \subseteq Props
        BY <1>5, <2>3, CallSets DEF Props
    <3>2. \A p \in ModeProps \cup {"drm"} : Due("default", p) = {}
        BY <2>1, <3>1 DEF ToldInv
    <3>3. \A p \in ModeProps \cup {"drm"} : Due("default", p)' = {} /\ def'[p] = def[p]
        BY <1>5, <3>1, <3>2, CallDue, CallSets
    <3>4. ASSUME NEW p \in PlatformProps PROVE def'[p] # ""
      <4>1. CASE 1 \in Due("default", p)
          BY <1>5, <2>3, <3>1, <4>1, CallSets, CallsSay
      <4>2. CASE 1 \notin Due("default", p)
          BY <1>5, <2>1, <3>1, <4>2, CallSets DEF ToldInv
      <4> QED BY <4>1, <4>2
    <3> QED BY <3>3, <3>4
  <2>4. ~lost' => ~lost
      BY <1>5, CallSets DEF Props
  <2> QED BY <2>1, <2>2, <2>3, <2>4 DEF ToldInv
<1>6. CASE Stages
  <2>1. PICK name : Stage(name)
      BY <1>6, StageLeaves
  <2>2. /\ todo = <<>> /\ plan # <<>> /\ UNCHANGED <<host, ready, def>>
        /\ up = "running" /\ up' = up
      BY <1>1, <2>1 DEF Stage
  <2>3. /\ Nodes' = Nodes /\ (Early' <=> Early) /\ (DrmHost' <=> DrmHost)
      BY <2>2 DEF Nodes, Early, DrmHost
  <2>4. \A p : Due("default", p) = {}
      BY <2>2 DEF Due
  <2>5. Past(1) => Past(1)'
    <3>1. /\ up = "running" /\ up' = "running"
          /\ Len(plan) \in Nat \ {0} /\ Len(plan') = Len(plan) - 1
        BY <2>1, StagePast
    <3>2. Constructing' <=> Constructing /\ Len(plan) # 1
        BY <2>1, StagePast
    <3> QED BY <3>1, <3>2 DEF Past
  <2>6. CASE Answer
    <3>1. answered' = type /\ type' = type /\ lost' = lost /\ todo' = <<>>
        BY <2>2, <2>6 DEF Answer, Stage
    <3>2. ~Constructing
        BY <2>2, <2>6, Position DEF DisplayTyped, Answer, Stage
    <3>3. \A k : Past(k)
        BY <2>2, <3>2 DEF Past
    <3>4. \A p : Due("default", p)' = {}
        BY <3>1 DEF Due
    <3>5. type # "emugl" => DrmHost
        BY <3>1 DEF TypeInv, CardInv
    <3>6. ~lost => \A p \in PlatformProps : def[p] # ""
        BY <2>4, <3>3 DEF PlatformInv
    <3>7. ~lost => /\ \A p \in ModeProps : Agrees(p, type, def[p])
                   /\ type = "drm" /\ Early /\ ~host.nvidiaInUse => def["drm"] = Nodes
        BY <2>4, <3>1 DEF TypeInv
    <3>8. Past(1)'
        BY <2>5, <3>3
    <3> QED BY <2>2, <2>3, <3>1, <3>4, <3>5, <3>6, <3>7, <3>8 DEF ToldInv
  <2>7. CASE ~Answer
    <3>1. answered' = answered /\ type = answered /\ Past(1) /\ type # Unknown
        BY <1>6, <2>2, <2>7, StageLeaves DEF ToldInv
    <3>2. /\ type' = type /\ (~lost' => ~lost)
          /\ \A p \in ModeProps \cup {"drm"} : Due("default", p)' = {}
      <4>1. CASE GetDisplayType
        <5>1. type' = type /\ (~lost' => ~lost) /\ todo' = <<>>
            BY <3>1, <4>1, TypeTodo DEF DisplayTyped, DisplayTypeOK, TypeInv
        <5> QED BY <5>1 DEF Due
      <4>2. CASE ~GetDisplayType
        <5>1. /\ UNCHANGED <<typeVars, lost>>
              /\ \A i \in DOMAIN todo' : todo'[i].prop \notin ModeProps \cup {"drm"}
            BY <1>6, <4>2, StageLeaves
        <5> QED BY <5>1 DEF Due
      <4> QED BY <4>1, <4>2
    <3> QED BY <2>2, <2>3, <2>5, <3>1, <3>2 DEF ToldInv
  <2> QED BY <2>6, <2>7
<1>7. CASE Outside
  <2>1. /\ UNCHANGED <<host, up, todo, type, def, answered, lost>>
        /\ ready = 2 => ready' = ready
        /\ \A p : Due("default", p)' = Due("default", p)
      BY <1>7 DEF Outside, Due
  <2>2. Past(1)' <=> Past(1)
      BY <1>7, EventPast
  <2> QED BY <2>1, <2>2 DEF ToldInv, DrmHost, Early, Nodes
<1> QED BY <1>2, <1>3, <1>4, <1>5, <1>6, <1>7, Steps

-----------------------------------------------------------------------------
(* The container that was booted with a type *)

\* It runs that type; a process that starts beside it can only decide on the same one.
PromiseInv ==
    container = "told" =>
        /\ promised \in Modes
        /\ \A p \in ModeProps : Agrees(p, promised, run[p])
        /\ \A p \in PlatformProps : run[p] # ""
        /\ promised # "emugl" => DrmHost /\ (up # "down" => couldDrm)
        /\ ~lost => type \in {Unknown, promised} /\ answered \in {Unknown, promised}
        /\ Early => /\ run["drm"] \in {NoCard, Nodes}
                    /\ promised = "drm" /\ ~host.nvidiaInUse => run["drm"] = Nodes

LEMMA PromiseInit == DisplayInit => PromiseInv
BY DEF DisplayInit, PromiseInv

\* Booting takes over what the client was told.
LEMMA BootPromised ==
    ASSUME DisplayTyped, CardInv, TypeInv, ToldInv, Boot, Outside
    PROVE  PromiseInv'
<1> SUFFICES ASSUME container' = "told" PROVE PromiseInv'
    BY DEF PromiseInv
<1>1. /\ answered # Unknown /\ ~lost /\ promised' = answered /\ run' = def
      /\ UNCHANGED <<host, ready, up, couldDrm, type, answered, lost>>
    BY DEF Boot
<1>2. /\ answered \in Modes /\ up \in {"down", "loading", "running"}
    BY <1>1 DEF DisplayTyped, DisplayTypeOK
<1>3. /\ Nodes' = Nodes /\ (Early' <=> Early) /\ (DrmHost' <=> DrmHost)
    BY <1>1 DEF Nodes, Early, DrmHost
<1>4. up = "running" => type = answered
    BY <1>1 DEF ToldInv
<1>5. up # "running" => type = Unknown
    BY DEF TypeInv
<1>6. answered # "emugl" => DrmHost /\ (up # "down" => couldDrm)
    BY <1>1, <1>2, <1>4 DEF ToldInv, TypeInv
<1>7. /\ \A p \in ModeProps : Agrees(p, answered, def[p])
      /\ \A p \in PlatformProps : def[p] # ""
      /\ answered = "drm" /\ Early /\ ~host.nvidiaInUse => def["drm"] = Nodes
    BY <1>1 DEF ToldInv
<1>8. Early => def["drm"] \in {NoCard, Nodes}
    BY DEF CardInv
<1> QED BY <1>1, <1>2, <1>3, <1>4, <1>5, <1>6, <1>7, <1>8 DEF PromiseInv

\* Every step keeps it.
LEMMA PromiseKept ==
    DisplayTyped /\ CardInv /\ TypeInv /\ ToldInv /\ PromiseInv /\ [DisplayNext]_displayVars
        => PromiseInv'
<1> SUFFICES ASSUME DisplayTyped, CardInv, TypeInv, ToldInv, PromiseInv,
                    [DisplayNext]_displayVars, container' = "told"
             PROVE  PromiseInv'
    BY DEF PromiseInv
<1>1. /\ host \in Hosts /\ up \in {"down", "loading", "running"}
      /\ type \in Modes \cup {Unknown} /\ Unknown \notin Modes
    BY DEF DisplayTyped, DisplayTypeOK, PlanInv, Unknown, Modes
<1>2. ASSUME UNCHANGED <<host, ready, container, promised>>,
             \A p \in ModeProps \cup PlatformProps \cup {"drm"} : run'[p] = run[p],
             promised # "emugl" /\ up' # "down" => couldDrm',
             ~lost' => type' \in {Unknown, promised} /\ answered' \in {Unknown, promised}
      PROVE  PromiseInv'
  <2>1. /\ Nodes' = Nodes /\ (Early' <=> Early) /\ (DrmHost' <=> DrmHost)
      BY <1>2 DEF Nodes, Early, DrmHost
  <2> QED BY <1>2, <2>1 DEF PromiseInv
<1>3. CASE Exec
  <2>1. /\ UNCHANGED <<host, ready, container, promised, run, type>> /\ answered' = Unknown
        /\ up = "down"
      BY <1>3 DEF Exec
  <2>2. DrmHost => couldDrm'
    <3>1. DrmHost => card' = PciInfo(host, host.prime) /\ ready = 2 /\ CouldUsesDrm(host, card')
        BY <1>3 DEF Exec, DrmHost
    <3>2. couldDrm' = (DriDeviceCheck /\ CouldUsesDrm(host, card'))
        BY <1>3 DEF Exec
    <3> QED BY <3>1, <3>2, Zenon DEF DriDeviceCheck
  <2>3. type = Unknown
      BY <2>1 DEF TypeInv
  <2> QED BY <1>2, <2>1, <2>2, <2>3 DEF PromiseInv
<1>4. CASE Main
  <2>1. UNCHANGED <<host, ready, container, promised, run, type, answered, lost>>
      BY <1>4 DEF Main
  <2>2. up = "loading" /\ (up' = "down" \/ couldDrm' = couldDrm)
      BY <1>4 DEF Main
  <2> QED BY <1>2, <2>1, <2>2 DEF PromiseInv
<1>5. CASE Leaves
  <2>1. /\ UNCHANGED <<host, ready, container, promised, run, answered, lost>>
        /\ type' = Unknown /\ up' = "down"
      BY <1>5 DEF Leaves, Exit, Off
  <2> QED BY <1>2, <2>1 DEF PromiseInv
<1>6. CASE Call
  <2>1. UNCHANGED <<host, ready, container, promised, up, gpuVars, typeVars, answered>>
      BY <1>6, CallDone
  <2>2. ~lost' => ~lost
      BY <1>6, CallSets DEF Props
  <2>3. ASSUME NEW p \in ModeProps \cup PlatformProps \cup {"drm"} PROVE run'[p] = run[p]
    <3>1. p \in Props /\ p \notin NumberProps
        BY DEF Props, NumberProps, ModeProps, PlatformProps
    <3>2. 1 \notin Due("running", p)
        BY <1>6, <3>1, CallDue, CallDone, CallTypes
    <3> QED BY <1>6, <3>1, <3>2, CallSets
  <2> QED BY <1>2, <2>1, <2>2, <2>3 DEF PromiseInv
<1>7. CASE Stages
  <2>1. PICK name : Stage(name)
      BY <1>7, StageLeaves
  <2>2. /\ UNCHANGED <<host, ready, container, promised, run, couldDrm, up>> /\ up = "running"
      BY <2>1 DEF Stage, DisplayTyped, PlanInv
  <2>3. container = "told"
      BY <2>2
  <2>4. CASE GetDisplayType
    <3>1. /\ answered' = answered
          /\ type # Unknown => type' = type
          /\ ~lost' => ~lost /\ (type = Unknown => type' = Decide(FromDBus))
        BY <1>1, <2>4, TypeTodo DEF GetDisplayType
    <3>2. FromDBus = promised
        BY <2>3 DEF FromDBus, PromiseInv, Agrees, ModeProps
    <3>3. Decide(FromDBus) = promised
        BY <1>1, <2>2, <2>3, <3>2 DEF Decide, PromiseInv
    <3> QED BY <1>2, <2>2, <3>1, <3>3 DEF PromiseInv
  <2>5. CASE ~GetDisplayType
    <3>1. UNCHANGED <<typeVars, lost>>
        BY <1>7, <2>5, StageLeaves
    <3>2. answered' \in {answered, type}
        BY <1>7, StageLeaves DEF Answer
    <3> QED BY <1>2, <2>2, <3>1, <3>2 DEF PromiseInv
  <2> QED BY <2>4, <2>5
<1>8. CASE Outside
  <2>1. CASE Boot
      BY <1>8, <2>1, BootPromised
  <2>2. CASE ~Boot
    <3>1. UNCHANGED <<container, run, promised>>
        BY <1>8, <2>2 DEF Outside, Off
    <3>2. /\ UNCHANGED <<host, up, type, answered, lost, couldDrm>>
          /\ ready = 2 => ready' = ready
        BY <1>8 DEF Outside
    <3>3. /\ Nodes' = Nodes /\ (Early' <=> Early) /\ (DrmHost => DrmHost')
        BY <3>2 DEF Nodes, Early, DrmHost
    <3> QED BY <3>1, <3>2, <3>3 DEF PromiseInv
  <2> QED BY <2>1, <2>2
<1> QED BY <1>3, <1>4, <1>5, <1>6, <1>7, <1>8, Steps

-----------------------------------------------------------------------------
(* What the container was told, and keeps *)

TellingInv ==
    DisplayTyped /\ CardInv /\ TypeInv /\ PlatformInv /\ ToldInv /\ PromiseInv

LEMMA TellingInvariant == DisplaySpec => []TellingInv
<1>1. DisplayInit => TellingInv
    BY DisplayInitType, CardInit, TypeInit, PlatformInit, ToldInit, PromiseInit DEF TellingInv
<1>2. TellingInv /\ [DisplayNext]_displayVars => TellingInv'
    BY DisplayNextType, CardKept, TypeKept, PlatformKept, ToldKept, PromiseKept DEF TellingInv
<1> QED BY <1>1, <1>2, PTL DEF DisplaySpec

\* Every variable has the type the code gives it, on every host and through every order of the
\* manager's steps, calls and events.
THEOREM DisplayTypes == DisplaySpec => []DisplayTypeOK
<1>1. TellingInv => DisplayTypeOK
    BY DEF TellingInv, DisplayTyped
<1> QED BY <1>1, TellingInvariant, PTL

\* A container booted with a type runs that type's modules and switches and has the
\* constructor's properties, wherever the boot falls between the manager's calls.
THEOREM AnswersKept == DisplaySpec => []AnswerKept
<1>1. TellingInv => AnswerKept
  <2> SUFFICES ASSUME TellingInv, container = "told"
               PROVE  /\ promised # Unknown
                      /\ \A p \in ModeProps \ {"gralloc"} : run[p] = ModeValue[promised][p]
                      /\ GrallocMode(run.gralloc) = promised
                      /\ \A p \in PlatformProps : run[p] # ""
      BY DEF AnswerKept
  <2>1. /\ promised \in Modes
        /\ \A p \in ModeProps : Agrees(p, promised, run[p])
        /\ \A p \in PlatformProps : run[p] # ""
      BY DEF TellingInv, PromiseInv
  <2>2. \A p \in ModeProps : IF p = "gralloc" THEN GrallocMode(run[p]) = promised
                             ELSE run[p] = ModeValue[promised][p]
      BY <2>1, ModesAgreed
  <2>3. promised # Unknown /\ "gralloc" \in ModeProps
      BY <2>1 DEF Modes, Unknown, ModeProps
  <2> QED BY <2>1, <2>2, <2>3
<1> QED BY <1>1, TellingInvariant, PTL

\* In drm mode the container knows the nodes of a card that can do drm, unless main reads
\* another DRI_PRIME than the static initialisers.
THEOREM NodesKnown == DisplaySpec => []NodesUsable
<1>1. TellingInv => NodesUsable
  <2> SUFFICES ASSUME TellingInv, container = "told", promised = "drm", host.globalPrime = Unset
               PROVE  IF run["drm"] = NoCard
                      THEN host.nvidiaInUse \/ NodeNumbers(host, host.prime) = NoCard
                      ELSE run["drm"] \in DOMAIN host.cards /\ CouldUsesDrm(host, run["drm"])
      BY DEF NodesUsable
  <2>1. /\ run["drm"] \in {NoCard, Nodes} /\ (~host.nvidiaInUse => run["drm"] = Nodes)
        /\ DrmHost /\ host \in Hosts
      BY DEF TellingInv, PromiseInv, Early, DisplayTyped, DisplayTypeOK
  <2>2. /\ PciInfo(host, host.prime) = UserPreferred(host, host.prime)
        /\ CouldUsesDrm(host, PciInfo(host, host.prime))
        /\ UserPreferred(host, host.prime) \in DOMAIN host.cards
      BY <2>1, DrmCard, Preferred DEF DrmHost
  <2>3. Nodes \in {NoCard, UserPreferred(host, host.prime)}
      BY DEF Nodes, NodeNumbers
  <2> QED BY <2>1, <2>2, <2>3 DEF Nodes
<1> QED BY <1>1, TellingInvariant, PTL

\* A manager that starts beside such a container tells the type it runs, whatever the user has
\* chosen since.
THEOREM RestartsAgree == DisplaySpec => []RestartAgrees
<1>1. TellingInv => RestartAgrees
    BY DEF TellingInv, PromiseInv, RestartAgrees
<1> QED BY <1>1, TellingInvariant, PTL

-----------------------------------------------------------------------------
(* The sizes and the density *)

Shown == {"width", "height", "lcd"}

Value(p) == IF p = "width" THEN size.w ELSE IF p = "height" THEN size.h ELSE qemuDensity

\* The stage of the constructor that is the first to set a number.
First(p) == IF p = "lcd" THEN 4 ELSE 8

\* What is left to be called has the values measured last, a running property after its default.
ShownCalls(p) ==
    /\ \A i \in DOMAIN todo : todo[i].prop = p => todo[i].value = Value(p)
    /\ \A i \in Due("default", p) : \E j \in Due("running", p) : j > i

\* A default that is not left to be called is set, and what runs follows it.
ShownValues(p) ==
    /\ ~lost /\ Due("default", p) = {} /\ (Due("running", p) # {} \/ (p # "lcd" /\ Past(8))) =>
          def[p] = Value(p)
    /\ ~lost /\ Due("running", p) = {} /\ container # "off" /\ Past(First(p)) => run[p] = def[p]

NumbersInv ==
    /\ oldSize = size
    /\ ~Past(8) => size = NoSize
    /\ \A p \in Shown : ShownCalls(p) /\ ShownValues(p)

LEMMA NumbersInit == DisplayInit => NumbersInv
<1> SUFFICES ASSUME DisplayInit PROVE NumbersInv
    OBVIOUS
<1>1. todo = <<>> /\ up = "down" /\ oldSize = size /\ size = NoSize
    BY DEF DisplayInit
<1>2. \A layer, p : Due(layer, p) = {}
    BY <1>1 DEF Due
<1>3. \A k : ~Past(k)
    BY <1>1 DEF Past
<1>4. \A p \in Shown : ShownCalls(p)
    BY <1>1, <1>2 DEF ShownCalls
<1>5. \A p \in Shown : ShownValues(p)
    BY <1>2, <1>3 DEF ShownValues
<1> QED BY <1>1, <1>4, <1>5 DEF NumbersInv

\* What the stages do to the sizes.
LEMMA StageSizes ==
    ASSUME DisplayTyped, Stages
    PROVE  /\ ~lost' => ~lost
           /\ \/ /\ Measure /\ Head(plan) \in {"window", "size", "density"}
                 /\ qemuDensity' = IF Head(plan) = "window" THEN QemuDensity(Measured)
                                   ELSE qemuDensity
              \/ SetAppropriateQemuDensity /\ Head(plan) = "lcd" /\ UNCHANGED sizeVars
              \/ /\ UNCHANGED <<size, oldSize, qemuDensity>> /\ Head(plan) \notin {"window", "lcd"}
                 /\ \A i \in DOMAIN todo' : todo'[i].prop \notin Shown
<1>1. ~lost' => ~lost
  <2>1. CASE GetDisplayType
      BY <2>1, TypeTodo DEF DisplayTyped, DisplayTypeOK
  <2>2. CASE ~GetDisplayType
      BY <2>2, StageLeaves
  <2> QED BY <2>1, <2>2
<1>2. CASE GetPhysicalDisplaySize
    BY <1>1, <1>2 DEF GetPhysicalDisplaySize, Stage
<1>3. CASE GetWindowDisplaySize
    BY <1>1, <1>3 DEF GetWindowDisplaySize, Stage
<1>4. CASE SetAppropriateQemuDensity
    BY <1>1, <1>4 DEF SetAppropriateQemuDensity, Stage
<1>5. ASSUME NEW p \in {"bridge", "dns"}, SetPlatform(p)
      PROVE  /\ UNCHANGED <<size, oldSize, qemuDensity>> /\ Head(plan) \notin {"window", "lcd"}
             /\ \A i \in DOMAIN todo' : todo'[i].prop \notin Shown
  <2>1. UNCHANGED <<size, oldSize, qemuDensity>> /\ Head(plan) \notin {"window", "lcd"}
      BY <1>5 DEF SetPlatform, Stage
  <2>2. \A i \in DOMAIN todo' : todo'[i].prop \notin Shown
      BY <1>5, StageTodo DEF Default, Shown
  <2> QED BY <2>1, <2>2
<1>6. CASE InitHostPlatformProp
  <2>1. UNCHANGED <<size, oldSize, qemuDensity>> /\ Head(plan) \notin {"window", "lcd"}
      BY <1>6 DEF InitHostPlatformProp, Stage
  <2>2. \A i \in DOMAIN todo' : todo'[i].prop \notin Shown
      BY <1>6, StageTodo DEF Default, Shown
  <2> QED BY <1>1, <2>1, <2>2
<1>7. CASE InitConnections \/ Answer
  <2>1. /\ UNCHANGED <<size, oldSize, qemuDensity>> /\ Head(plan) \notin {"window", "lcd"}
        /\ todo' = <<>>
      BY <1>7 DEF InitConnections, Answer, Stage
  <2> QED BY <1>1, <2>1
<1>8. CASE GetPhysicalDensity
  <2>1. Head(plan) = "density" /\ todo = <<>> /\ qemuDensity' = qemuDensity
      BY <1>8 DEF GetPhysicalDensity, Stage
  <2>2. Measure \/ (todo' = todo /\ UNCHANGED <<size, oldSize>>)
      BY <1>8 DEF GetPhysicalDensity
  <2> QED BY <1>1, <2>1, <2>2
<1>9. CASE GetDisplayType
  <2>1. /\ UNCHANGED <<size, oldSize, qemuDensity>> /\ Head(plan) \notin {"window", "lcd"}
      BY <1>9 DEF GetDisplayType, Stage
  <2>2. /\ type' \in Modes /\ node' \in {NoCard} \cup DOMAIN host.cards
        /\ todo' = <<>> \/ todo' = TypeWrites(type')
      BY <1>9, TypeTodo DEF DisplayTyped, DisplayTypeOK
  <2>3. CASE todo' = <<>>
      BY <1>1, <2>1, <2>3
  <2>4. CASE todo' = TypeWrites(type')
    <3>1. \A i \in DOMAIN todo' :
             \/ todo'[i].prop \in ModeProps
             \/ todo'[i].prop = "drm"
             \/ todo'[i].prop = "aep"
        BY <2>2, <2>4, TypeCalls
    <3>2. \A i \in DOMAIN todo' : todo'[i].prop \notin Shown
        BY <3>1 DEF ModeProps, Shown
    <3> QED BY <1>1, <2>1, <3>2
  <2> QED BY <2>2, <2>3, <2>4
<1> QED BY <1>1, <1>2, <1>3, <1>4, <1>5, <1>6, <1>7, <1>8, <1>9
        DEF Stages, InitCpuInformation, InitDockerDns

\* The constructor passes its first stage before its fifth.
LEMMA PastFirst == DisplayTyped /\ Past(4) => Past(8)
<1> SUFFICES ASSUME DisplayTyped, Past(4) PROVE Past(8)
    OBVIOUS
<1>1. plan # <<>> => Len(plan) \in Nat
    BY Position DEF DisplayTyped
<1>2. Constructing => plan # <<>>
    BY DEF Constructing
<1> QED BY <1>1, <1>2 DEF Past

\* How far the constructor is after a stage.
LEMMA StageFirst ==
    ASSUME DisplayTyped, NEW name, Stage(name)
    PROVE  /\ Past(8)' /\ (Past(8) \/ Head(plan) = "window")
           /\ Past(4) => Past(4)'
           /\ Past(4)' /\ Head(plan) # "lcd" => Past(4)
           /\ Head(plan) = "window" => Telling \/ ~Past(4)' \/ Resizing'
           /\ Resizing' => Resizing /\ Head(plan) = "window"
           /\ Resizing => (Head(plan) = "window" /\ Len(plan) = 2) \/ Head(plan) = "lcd"
           /\ Constructing /\ Head(plan) = "lcd" => Past(8)
<1>1. /\ up = "running" /\ up' = "running" /\ plan # <<>>
      /\ Len(plan) \in Nat \ {0} /\ Len(plan') = Len(plan) - 1
    BY StagePast DEF Stage
<1>2. Constructing' <=> Constructing /\ Len(plan) # 1
    BY StagePast
<1>3. Resizing' <=> Resizing /\ Len(plan) # 1
  <2>1. /\ plan' # <<>> => plan'[Len(plan')] = plan[Len(plan)]
        /\ plan' = <<>> <=> Len(plan) = 1
      BY StageDone DEF DisplayTyped
  <2> QED BY <1>1, <2>1 DEF Resizing
<1>4. \/ /\ Constructing /\ ~Resizing /\ ~Telling
         /\ \/ Head(plan) = "window" /\ Len(plan) \in {8, 5}
            \/ Head(plan) = "size" /\ Len(plan) = 7
            \/ Head(plan) = "bridge" /\ Len(plan) = 6
            \/ Head(plan) = "lcd" /\ Len(plan) = 4
            \/ Head(plan) = "dds" /\ Len(plan) = 3
            \/ Head(plan) = "dns" /\ Len(plan) = 2
            \/ Head(plan) = "connect" /\ Len(plan) = 1
      \/ /\ Resizing /\ ~Constructing /\ ~Telling
         /\ \/ Head(plan) = "window" /\ Len(plan) = 2
            \/ Head(plan) = "lcd" /\ Len(plan) = 1
      \/ Telling /\ ~Constructing /\ ~Resizing /\ Head(plan) # "lcd"
    BY <1>1, Position DEF DisplayTyped
<1>5. /\ Past(8) <=> (Constructing => Len(plan) < 8)
      /\ Past(4) <=> (Constructing => Len(plan) < 4)
    BY <1>1 DEF Past
<1>6. /\ Past(8)' <=> (Constructing' => Len(plan) - 1 < 8)
      /\ Past(4)' <=> (Constructing' => Len(plan) - 1 < 4)
    BY <1>1 DEF Past
<1>7. CASE Constructing
  <2>1. PICK n \in Nat : n = Len(plan)
      BY <1>1
  <2>2. ~Resizing /\ ~Telling /\ ~Resizing'
      BY <1>3, <1>4, <1>7
  <2>3. \/ Head(plan) = "window" /\ (n = 8 \/ n = 5)
        \/ Head(plan) \notin {"window", "lcd"} /\ (n = 7 \/ n = 6 \/ n < 4)
        \/ Head(plan) = "lcd" /\ n = 4
    <3>1. \/ Head(plan) = "window" /\ Len(plan) \in {8, 5}
          \/ Head(plan) = "size" /\ Len(plan) = 7
          \/ Head(plan) = "bridge" /\ Len(plan) = 6
          \/ Head(plan) = "lcd" /\ Len(plan) = 4
          \/ Head(plan) = "dds" /\ Len(plan) = 3
          \/ Head(plan) = "dns" /\ Len(plan) = 2
          \/ Head(plan) = "connect" /\ Len(plan) = 1
        BY <1>4, <1>7, <2>2
    <3>2. \/ Head(plan) = "window" /\ (n = 8 \/ n = 5)
          \/ Head(plan) = "size" /\ n = 7
          \/ Head(plan) = "bridge" /\ n = 6
          \/ Head(plan) = "lcd" /\ n = 4
          \/ Head(plan) = "dds" /\ n = 3
          \/ Head(plan) = "dns" /\ n = 2
          \/ Head(plan) = "connect" /\ n = 1
        BY <2>1, <3>1
    <3> QED BY <3>2
  <2>4. (Past(8) <=> n < 8) /\ (Past(4) <=> n < 4)
      BY <1>5, <1>7, <2>1
  <2>5. (Past(8)' <=> n < 9) /\ (Past(4)' <=> n < 5 )
    <3>1. CASE n = 1
        BY <1>2, <1>6, <1>7, <2>1, <3>1
    <3>2. CASE n # 1
        BY <1>2, <1>6, <1>7, <2>1, <3>2
    <3> QED BY <3>1, <3>2
  <2> QED BY <1>7, <2>2, <2>3, <2>4, <2>5
<1>8. CASE Resizing
    BY <1>1, <1>2, <1>3, <1>4, <1>5, <1>6, <1>8
<1>9. CASE Telling /\ ~Constructing /\ ~Resizing /\ Head(plan) # "lcd"
    BY <1>1, <1>2, <1>3, <1>4, <1>5, <1>6, <1>9
<1> QED BY <1>4, <1>7, <1>8, <1>9

\* Measuring leaves the size to be told, unless it is what it was.
LEMMA MeasureKeeps ==
    ASSUME DisplayTyped, NumbersInv, Stages, Measure, Head(plan) \in {"window", "size", "density"}
    PROVE  NumbersInv'
<1>1. PICK name : Stage(name)
    BY StageLeaves
<1>2. /\ todo = <<>> /\ UNCHANGED <<def, run, container>> /\ (~lost' => ~lost)
    BY <1>1, StageSizes DEF Stage
<1>3. /\ Past(8)' /\ (Past(8) \/ Head(plan) = "window")
      /\ Past(4)' => Past(4)
    BY <1>1, StageFirst
<1>4. \A layer, p : Due(layer, p) = {}
    BY <1>2 DEF Due
<1>5. size' = Measured /\ oldSize' = Measured /\ Measured # NoSize
    BY Measuring
<1>6. /\ \A i \in DOMAIN todo' : todo'[i].prop # "lcd"
      /\ Due("default", "lcd")' = {} /\ Due("running", "lcd")' = {}
  <2>1. \A i \in DOMAIN todo' : todo'[i].prop \in {"width", "height", "density"}
      BY SizeProps
  <2> QED BY <2>1 DEF Due
<1>7. ShownCalls("lcd")' /\ ShownValues("lcd")'
  <2>1. ShownCalls("lcd")'
      BY <1>6 DEF ShownCalls
  <2>2. ~lost' /\ container' # "off" /\ Past(4)' => run'["lcd"] = def'["lcd"]
    <3>1. ShownValues("lcd")
        BY DEF NumbersInv, Shown
    <3> QED BY <1>2, <1>3, <1>4, <3>1 DEF ShownValues, First
  <2> QED BY <1>6, <2>1, <2>2 DEF ShownValues, First
<1>8. CASE Measured = oldSize
  <2>1. todo' = <<>> /\ size' = size /\ Past(8)
      BY <1>5, <1>8, Measuring DEF NumbersInv
  <2>2. \A layer, p : Due(layer, p)' = {}
      BY <2>1 DEF Due
  <2>3. ASSUME NEW p \in {"width", "height"} PROVE ShownCalls(p)' /\ ShownValues(p)'
    <3>1. ShownValues(p) /\ First(p) = 8 /\ Value(p)' = Value(p)
        BY <2>1 DEF NumbersInv, Shown, First, Value
    <3>2. ~lost => def[p] = Value(p) /\ (container # "off" => run[p] = def[p])
        BY <1>4, <2>1, <3>1 DEF ShownValues
    <3>3. ShownCalls(p)'
        BY <2>1, <2>2 DEF ShownCalls
    <3>4. ShownValues(p)'
        BY <1>2, <2>2, <3>1, <3>2 DEF ShownValues
    <3> QED BY <3>3, <3>4
  <2> QED BY <1>3, <1>5, <1>7, <2>3 DEF NumbersInv, Shown
<1>9. CASE Measured # oldSize
  <2>1. /\ DOMAIN todo' = 1..6
        /\ todo'[1] = Default("width", size.w)' /\ todo'[2] = Default("height", size.h)'
        /\ todo'[3].prop = "density"
        /\ todo'[4] = Running("width", size.w)' /\ todo'[5] = Running("height", size.h)'
        /\ todo'[6].prop = "density"
      BY <1>5, <1>9, Measuring DEF Default, Running
  <2>2. \A i \in 1..6 : i = 1 \/ i = 2 \/ i = 3 \/ i = 4 \/ i = 5 \/ i = 6
      OBVIOUS
  <2>3. /\ Due("default", "width")' = {1} /\ Due("running", "width")' = {4}
        /\ Due("default", "height")' = {2} /\ Due("running", "height")' = {5}
    <3>1. \A i \in DOMAIN todo' :
             /\ todo'[i].layer = "default" /\ todo'[i].prop = "width" <=> i = 1
             /\ todo'[i].layer = "default" /\ todo'[i].prop = "height" <=> i = 2
             /\ todo'[i].layer = "running" /\ todo'[i].prop = "width" <=> i = 4
             /\ todo'[i].layer = "running" /\ todo'[i].prop = "height" <=> i = 5
        BY <2>1, <2>2 DEF Default, Running
    <3> QED BY <2>1, <3>1 DEF Due
  <2>4. ASSUME NEW p \in {"width", "height"} PROVE ShownCalls(p)'
    <3>1. \A i \in DOMAIN todo' : todo'[i].prop = p => todo'[i].value = Value(p)'
        BY <2>1, <2>2 DEF Default, Running, Value
    <3> QED BY <2>3, <3>1 DEF ShownCalls
  <2>5. ASSUME NEW p \in {"width", "height"} PROVE ShownValues(p)'
      BY <2>3 DEF ShownValues
  <2> QED BY <1>3, <1>5, <1>7, <2>4, <2>5 DEF NumbersInv, Shown
<1> QED BY <1>8, <1>9

\* Every stage keeps what is told of the sizes.
LEMMA StageNumbers ==
    ASSUME DisplayTyped, NumbersInv, Stages
    PROVE  NumbersInv'
<1>1. PICK name : Stage(name)
    BY StageLeaves
<1>2. /\ todo = <<>> /\ UNCHANGED <<def, run, container>> /\ (~lost' => ~lost)
    BY <1>1, StageSizes DEF Stage
<1>3. /\ Past(8)' /\ (Past(8) \/ Head(plan) = "window")
      /\ Past(4)' /\ Head(plan) # "lcd" => Past(4)
    BY <1>1, StageFirst
<1>4. \A layer, p : Due(layer, p) = {}
    BY <1>2 DEF Due
<1>5. ASSUME UNCHANGED <<size, qemuDensity>>, Head(plan) # "window", NEW p \in Shown,
             p # "lcd" \/ Head(plan) # "lcd", \A i \in DOMAIN todo' : todo'[i].prop # p
      PROVE  ShownCalls(p)' /\ ShownValues(p)'
  <2>1. Due("default", p)' = {} /\ Due("running", p)' = {}
      BY <1>5 DEF Due
  <2>2. Value(p)' = Value(p) /\ Past(8)
      BY <1>3, <1>5 DEF Value
  <2>3. Past(First(p))' => Past(First(p))
      BY <1>3, <1>5, <2>2 DEF First
  <2>4. ShownCalls(p)'
      BY <1>5, <2>1 DEF ShownCalls
  <2>5. ShownValues(p)
      BY <1>5 DEF NumbersInv
  <2>6. ShownValues(p)'
      BY <1>2, <1>4, <2>1, <2>2, <2>3, <2>5 DEF ShownValues
  <2> QED BY <2>4, <2>6
<1>6. CASE Measure /\ Head(plan) \in {"window", "size", "density"}
    BY <1>6, MeasureKeeps
<1>7. CASE SetAppropriateQemuDensity /\ Head(plan) = "lcd" /\ UNCHANGED sizeVars
  <2>1. /\ DOMAIN todo' = 1..2
        /\ todo'[1] = Default("lcd", qemuDensity) /\ todo'[2] = Running("lcd", qemuDensity)
      BY <1>7, StageTodo
  <2>2. \A i \in 1..2 : i = 1 \/ i = 2
      OBVIOUS
  <2>3. /\ \A i \in DOMAIN todo' : todo'[i].prop = "lcd" /\ todo'[i].value = qemuDensity
        /\ 1 \in Due("default", "lcd")' /\ 2 \in Due("running", "lcd")'
        /\ \A i \in Due("default", "lcd")' : i = 1
      BY <2>1, <2>2 DEF Default, Running, Due
  <2>4. ShownCalls("lcd")'
      BY <1>7, <2>3 DEF ShownCalls, Value
  <2>5. ShownValues("lcd")'
      BY <2>3 DEF ShownValues
  <2>6. \A p \in {"width", "height"} : ShownCalls(p)' /\ ShownValues(p)'
      BY <1>5, <1>7, <2>3 DEF Shown
  <2> QED BY <1>3, <1>7, <2>4, <2>5, <2>6 DEF NumbersInv, Shown
<1>8. CASE /\ UNCHANGED <<size, oldSize, qemuDensity>> /\ Head(plan) \notin {"window", "lcd"}
           /\ \A i \in DOMAIN todo' : todo'[i].prop \notin Shown
  <2>1. \A p \in Shown : ShownCalls(p)' /\ ShownValues(p)'
      BY <1>5, <1>8
  <2> QED BY <1>3, <1>8, <2>1 DEF NumbersInv
<1> QED BY <1>6, <1>7, <1>8, StageSizes

\* A call that is made keeps what is told of a number.
LEMMA CallNumbers ==
    ASSUME DisplayTyped, Call, NEW p \in Shown, ShownCalls(p), ShownValues(p)
    PROVE  ShownCalls(p)' /\ ShownValues(p)'
<1>1. p \in Props
    BY DEF Shown, Props, NumberProps
<1>2. /\ UNCHANGED <<up, plan, sizeVars, container>> /\ Value(p)' = Value(p)
      /\ \A k : Past(k)' <=> Past(k)
      /\ \A i \in DOMAIN todo' : i \in Nat /\ i + 1 \in DOMAIN todo /\ todo'[i] = todo[i + 1]
    BY CallDone DEF Value, Past, Constructing
<1>3. /\ \A i \in Due("default", p)' : i \in Nat /\ i + 1 \in Due("default", p)
      /\ \A i \in Due("default", p) \cup Due("running", p) : i \in Nat \ {0}
      /\ \A i \in Due("running", p) : i # 1 => i - 1 \in Due("running", p)'
  <2>1. \A i \in Due("default", p)' : i + 1 \in Due("default", p)
      BY CallDue
  <2>2. \A i \in Due("running", p) : i # 1 => i - 1 \in Due("running", p)'
      BY CallDue
  <2>3. DOMAIN todo' = 1..Len(todo) - 1 /\ DOMAIN todo = 1..Len(todo) /\ Len(todo) \in Nat \ {0}
      BY CallDone
  <2> QED BY <2>1, <2>2, <2>3 DEF Due
<1>4. ShownCalls(p)'
  <2>1. \A i \in DOMAIN todo' : todo'[i].prop = p => todo'[i].value = Value(p)'
      BY <1>2 DEF ShownCalls
  <2>2. ASSUME NEW i \in Due("default", p)' PROVE \E j \in Due("running", p)' : j > i
    <3>1. PICK j \in Due("running", p) : j > i + 1
        BY <1>3 DEF ShownCalls
    <3>2. j - 1 \in Due("running", p)' /\ j - 1 > i
        BY <1>3, <3>1
    <3> QED BY <3>2
  <2> QED BY <2>1, <2>2 DEF ShownCalls
<1>5. ASSUME Due("running", p)' = {} PROVE Due("default", p) = {}
    BY <1>3, <1>5 DEF ShownCalls
<1>6. /\ 1 \in Due("default", p) \/ 1 \in Due("running", p) => todo[1].value = Value(p)
      /\ ~(1 \in Due("default", p) /\ 1 \in Due("running", p))
    BY DEF ShownCalls, Due
<1>7. ASSUME ~lost', Due("default", p)' = {},
             Due("running", p)' # {} \/ (p # "lcd" /\ Past(8))
      PROVE  def'[p] = Value(p)
  <2>1. CASE 1 \in Due("default", p)
      BY <1>1, <1>6, <1>7, <2>1, CallSets
  <2>2. CASE 1 \notin Due("default", p)
    <3>1. Due("default", p) = {} /\ ~lost /\ def'[p] = def[p]
        BY <1>1, <1>7, <2>2, CallDue, CallSets
    <3>2. Due("running", p)' # {} => Due("running", p) # {}
        BY CallDue
    <3> QED BY <1>7, <3>1, <3>2 DEF ShownValues
  <2> QED BY <2>1, <2>2
<1>8. ASSUME ~lost', Due("running", p)' = {}, container # "off", Past(First(p))
      PROVE  run'[p] = def'[p]
  <2>1. Due("default", p) = {} /\ ~lost /\ def'[p] = def[p]
      BY <1>1, <1>5, <1>8, CallSets
  <2>2. CASE 1 \in Due("running", p)
    <3>1. run'[p] = Value(p)
        BY <1>1, <1>6, <1>8, <2>2, CallSets
    <3>2. def[p] = Value(p)
        BY <2>1, <2>2 DEF ShownValues
    <3> QED BY <2>1, <3>1, <3>2
  <2>3. CASE 1 \notin Due("running", p)
    <3>1. Due("running", p) = {} /\ run'[p] = run[p]
        BY <1>1, <1>8, <2>3, CallDue, CallSets
    <3> QED BY <1>8, <2>1, <3>1 DEF ShownValues
  <2> QED BY <2>2, <2>3
<1>9. ShownValues(p)'
  <2>1. First(p)' = First(p) /\ (Past(First(p))' <=> Past(First(p)))
      BY <1>2 DEF First
  <2> QED BY <1>2, <1>7, <1>8, <2>1 DEF ShownValues
<1> QED BY <1>4, <1>9

\* Every step keeps it.
LEMMA NumbersKept == DisplayTyped /\ NumbersInv /\ [DisplayNext]_displayVars => NumbersInv'
<1> SUFFICES ASSUME DisplayTyped, NumbersInv, [DisplayNext]_displayVars PROVE NumbersInv'
    OBVIOUS
<1>1. up # "running" => plan = <<>> /\ todo = <<>>
    BY DEF DisplayTyped, PlanInv
<1>2. ASSUME todo' = <<>>, oldSize' = size', size' = NoSize, ~Past(8)', ~Past(4)'
      PROVE  NumbersInv'
  <2>1. \A layer, p : Due(layer, p)' = {}
      BY <1>2 DEF Due
  <2>2. \A p \in Shown : ShownCalls(p)'
      BY <1>2, <2>1 DEF ShownCalls
  <2>3. \A p \in Shown : ShownValues(p)'
      BY <1>2, <2>1 DEF ShownValues, First
  <2> QED BY <1>2, <2>2, <2>3 DEF NumbersInv
<1>3. ASSUME up # "running" PROVE size = NoSize /\ oldSize = NoSize /\ todo = <<>>
    BY <1>1, <1>3 DEF NumbersInv, Past
<1>4. CASE Exec
    BY <1>2, <1>3, <1>4 DEF Exec, Past
<1>5. CASE Main
  <2>1. ~Past(8)' /\ ~Past(4)'
      BY <1>5, MainPast
  <2>2. todo' = <<>> /\ size' = NoSize /\ oldSize' = NoSize
      BY <1>3, <1>5 DEF Main
  <2> QED BY <1>2, <2>1, <2>2
<1>6. CASE Leaves
    BY <1>2, <1>6 DEF Leaves, Exit, Past
<1>7. CASE Call
  <2>1. UNCHANGED <<up, plan, sizeVars>>
      BY <1>7, CallDone
  <2>2. Past(8)' <=> Past(8)
      BY <2>1 DEF Past, Constructing
  <2>3. \A p \in Shown : ShownCalls(p)' /\ ShownValues(p)'
      BY <1>7, CallNumbers DEF NumbersInv
  <2> QED BY <2>1, <2>2, <2>3 DEF NumbersInv
<1>8. CASE Stages
    BY <1>8, StageNumbers
<1>9. CASE Outside
  <2>1. /\ UNCHANGED <<todo, sizeVars, def, lost>>
        /\ \A layer, p : Due(layer, p)' = Due(layer, p)
      BY <1>9 DEF Outside, Due
  <2>2. (Past(8)' <=> Past(8)) /\ (Past(4)' <=> Past(4))
      BY <1>9, EventPast
  <2>3. ASSUME NEW p \in Shown PROVE ShownCalls(p)' /\ ShownValues(p)'
    <3>1. ShownCalls(p) /\ ShownValues(p) /\ Value(p)' = Value(p)
        BY <2>1 DEF NumbersInv, Value
    <3>2. ShownCalls(p)'
        BY <2>1, <3>1 DEF ShownCalls
    <3>3. CASE UNCHANGED <<container, run>>
      <4>1. Past(First(p))' <=> Past(First(p))
          BY <2>2 DEF First
      <4> QED BY <2>1, <2>2, <3>1, <3>2, <3>3, <4>1 DEF ShownValues
    <3>4. CASE container' = "off"
        BY <2>1, <2>2, <3>1, <3>2, <3>4 DEF ShownValues
    <3>5. CASE Boot
        BY <2>1, <2>2, <3>1, <3>2, <3>5 DEF ShownValues, Boot
    <3> QED BY <1>9, <3>3, <3>4, <3>5 DEF Outside, Off
  <2> QED BY <2>1, <2>2, <2>3 DEF NumbersInv
<1> QED BY <1>4, <1>5, <1>6, <1>7, <1>8, <1>9, Steps

\* The density is the screen's, and the container's is it once it is set.
DensityInv ==
    ~moved =>
        /\ Past(8) /\ ~(Resizing /\ Len(plan) = 2) => qemuDensity = QemuDensity(Measured)
        /\ ~lost /\ Past(4) /\ ~Resizing /\ Due("default", "lcd") = {} =>
              def["lcd"] = QemuDensity(Measured)

LEMMA DensityInit == DisplayInit => DensityInv
BY DEF DisplayInit, DensityInv, Past

\* Every stage keeps it.
LEMMA StageDensity ==
    ASSUME DisplayTyped, DensityInv, Stages
    PROVE  DensityInv'
<1>1. PICK name : Stage(name)
    BY StageLeaves
<1>2. PICK d : d = QemuDensity(Measured)
    OBVIOUS
<1>3. /\ todo = <<>> /\ UNCHANGED <<screen, factor, def, moved>> /\ (~lost' => ~lost)
      /\ Due("default", "lcd") = {} /\ d = QemuDensity(Measured)'
    BY <1>1, <1>2, StageSizes DEF Stage, Due, Measured
<1>4. /\ Past(8)' /\ (Past(8) \/ Head(plan) = "window")
      /\ Past(4)' /\ Head(plan) # "lcd" => Past(4)
      /\ Head(plan) = "window" => Telling \/ ~Past(4)' \/ Resizing'
      /\ Resizing' => Resizing /\ Head(plan) = "window"
      /\ Resizing => (Head(plan) = "window" /\ Len(plan) = 2) \/ Head(plan) = "lcd"
      /\ Constructing /\ Head(plan) = "lcd" => Past(8)
    BY <1>1, StageFirst
<1>5. /\ Telling => ~Resizing
      /\ Resizing /\ Head(plan) = "lcd" => Len(plan) = 1
    BY <1>1, Position DEF DisplayTyped, Stage
<1>6. CASE Measure /\ Head(plan) = "window" /\ qemuDensity' = d
  <2>1. ~lost' /\ Past(4)' /\ ~Resizing' /\ ~moved => def["lcd"] = d
      BY <1>2, <1>3, <1>4, <1>5, <1>6 DEF DensityInv
  <2> QED BY <1>3, <1>6, <2>1 DEF DensityInv
<1>7. CASE SetAppropriateQemuDensity /\ Head(plan) = "lcd" /\ UNCHANGED sizeVars
  <2>1. ~moved => qemuDensity = d
      BY <1>2, <1>4, <1>5, <1>7 DEF DensityInv
  <2>2. Due("default", "lcd")' # {}
      BY <1>7, StageTodo DEF Due, Default
  <2> QED BY <1>3, <1>7, <2>1, <2>2 DEF DensityInv
<1>8. CASE qemuDensity' = qemuDensity /\ Head(plan) \notin {"window", "lcd"}
  <2>1. ~moved => qemuDensity = d
      BY <1>2, <1>4, <1>8 DEF DensityInv
  <2>2. ~lost' /\ Past(4)' /\ ~moved => def["lcd"] = d
      BY <1>2, <1>3, <1>4, <1>8 DEF DensityInv
  <2> QED BY <1>3, <1>8, <2>1, <2>2 DEF DensityInv
<1> QED BY <1>2, <1>6, <1>7, <1>8, StageSizes

\* Every step keeps it.
LEMMA DensityKept ==
    DisplayTyped /\ NumbersInv /\ DensityInv /\ [DisplayNext]_displayVars => DensityInv'
<1> SUFFICES ASSUME DisplayTyped, NumbersInv, DensityInv, [DisplayNext]_displayVars
             PROVE  DensityInv'
    OBVIOUS
<1>1. CASE Exec
    BY <1>1 DEF Exec, DensityInv, Past
<1>2. CASE Main
  <2>1. ~Past(8)' /\ ~Past(4)'
      BY <1>2, MainPast
  <2> QED BY <2>1 DEF DensityInv
<1>3. CASE Leaves
    BY <1>3 DEF Leaves, Exit, DensityInv, Past
<1>4. CASE Call
  <2>1. PICK d : d = QemuDensity(Measured)
      OBVIOUS
  <2>2. /\ UNCHANGED <<screen, factor, up, plan, qemuDensity, moved>>
        /\ d = QemuDensity(Measured)'
      BY <1>4, <2>1, CallDone DEF Measured
  <2>3. /\ (Past(8)' <=> Past(8)) /\ (Past(4)' <=> Past(4)) /\ (Resizing' <=> Resizing)
        /\ Past(4) => Past(8)
      BY <2>2, PastFirst DEF Past, Constructing, Resizing
  <2>4. ASSUME ~moved, ~lost', Past(4), ~Resizing, Due("default", "lcd")' = {}
        PROVE  def'["lcd"] = d
    <3>1. "lcd" \in Props /\ "lcd" \in Shown
        BY DEF Props, NumberProps, Shown
    <3>2. CASE 1 \in Due("default", "lcd")
      <4>1. def'["lcd"] = todo[1].value
          BY <1>4, <2>4, <3>1, <3>2, CallSets
      <4>2. todo[1].value = qemuDensity
          BY <3>1, <3>2 DEF NumbersInv, ShownCalls, Value, Due
      <4> QED BY <2>1, <2>3, <2>4, <4>1, <4>2 DEF DensityInv
    <3>3. CASE 1 \notin Due("default", "lcd")
      <4>1. def'["lcd"] = def["lcd"] /\ ~lost /\ Due("default", "lcd") = {}
          BY <1>4, <2>4, <3>1, <3>3, CallSets, CallDue
      <4> QED BY <2>1, <2>4, <4>1 DEF DensityInv
    <3> QED BY <3>2, <3>3
  <2> QED BY <2>1, <2>2, <2>3, <2>4 DEF DensityInv
<1>5. CASE Stages
    BY <1>5, StageDensity
<1>6. CASE Outside
  <2> SUFFICES ASSUME ~moved' PROVE DensityInv'
      BY DEF DensityInv
  <2>1. CASE plan' = GeometryPlan
    <3>1. Len(plan') = 2 /\ plan'[2] = "lcd" /\ plan' # <<>>
        BY <2>1, Handlers
    <3> QED BY <3>1 DEF DensityInv, Resizing
  <2>2. CASE plan' # GeometryPlan
    <3>1. PICK d : d = QemuDensity(Measured)
        OBVIOUS
    <3>2. /\ UNCHANGED <<screen, factor, moved, todo, qemuDensity, def, lost>>
          /\ d = QemuDensity(Measured)' /\ Due("default", "lcd")' = Due("default", "lcd")
        BY <1>6, <2>2, <3>1 DEF Outside, Measured, Due
    <3>3. (Past(8)' <=> Past(8)) /\ (Past(4)' <=> Past(4))
        BY <1>6, EventPast
    <3>4. plan' = plan \/ (Idle /\ plan' = InformationPlan)
        BY <1>6, <2>2 DEF Outside
    <3>5. plan' = InformationPlan => ~Resizing'
      <4>1. plan' = InformationPlan => Len(plan') = 5 /\ plan'[5] = "answer"
          BY Handlers
      <4> QED BY <4>1 DEF Resizing
    <3>6. CASE plan' = plan
        BY <3>1, <3>2, <3>3, <3>6 DEF DensityInv, Resizing
    <3>7. CASE Idle /\ plan' = InformationPlan
      <4>1. ~Resizing /\ ~Resizing'
          BY <3>5, <3>7 DEF Idle, Resizing
      <4> QED BY <3>1, <3>2, <3>3, <4>1 DEF DensityInv
    <3> QED BY <3>4, <3>6, <3>7
  <2> QED BY <2>1, <2>2
<1> QED BY <1>1, <1>2, <1>3, <1>4, <1>5, <1>6, Steps

SizeInv == DisplayTyped /\ NumbersInv /\ DensityInv

LEMMA SizeInvariant == DisplaySpec => []SizeInv
<1>1. DisplayInit => SizeInv
    BY DisplayInitType, NumbersInit, DensityInit DEF SizeInv
<1>2. SizeInv /\ [DisplayNext]_displayVars => SizeInv'
    BY DisplayNextType, NumbersKept, DensityKept DEF SizeInv
<1> QED BY <1>1, <1>2, PTL DEF DisplaySpec

\* At rest, and without a lost call, the container has the size measured last and the screen's
\* density, whether it booted before the calls, after them or between two of them.
THEOREM SizesPublished == DisplaySpec => []Published
<1>1. SizeInv => Published
  <2> SUFFICES ASSUME SizeInv, Idle, ~lost
               PROVE  /\ def["width"] = size.w /\ def["height"] = size.h
                      /\ ~moved => def["lcd"] = QemuDensity(Measured)
                      /\ container # "off" =>
                           \A p \in {"width", "height", "lcd"} : run[p] = def[p]
      BY DEF Published
  <2>1. /\ \A layer, p : Due(layer, p) = {}
        /\ Past(8) /\ Past(4) /\ ~Resizing
      BY DEF Idle, Due, Past, Constructing, Resizing
  <2>2. \A p \in Shown : ShownValues(p)
      BY DEF SizeInv, NumbersInv
  <2>3. def["width"] = size.w /\ def["height"] = size.h
      BY <2>1, <2>2 DEF Shown, ShownValues, Value
  <2>4. ~moved => def["lcd"] = QemuDensity(Measured)
      BY <2>1 DEF SizeInv, DensityInv
  <2>5. container # "off" => \A p \in {"width", "height", "lcd"} : run[p] = def[p]
    <3>1. \A p \in Shown : Past(First(p))
        BY <2>1 DEF First
    <3> QED BY <2>1, <2>2, <3>1 DEF Shown, ShownValues
  <2> QED BY <2>3, <2>4, <2>5
<1> QED BY <1>1, SizeInvariant, PTL

==============================================================================
