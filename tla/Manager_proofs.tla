--------------------------- MODULE Manager_proofs ---------------------------
(***************************************************************************)
(* Theorems about Manager, for any number of descriptors, devices, clients *)
(* and faults: the types, which thread's files the camera worker and the   *)
(* backend thread close, what becomes of the selected camera, which camera *)
(* a client gets, and that Android is told of the battery what the host    *)
(* says.                                                                   *)
(***************************************************************************)
EXTENDS Manager, WellFoundedInduction, TLAPS

-----------------------------------------------------------------------------
(* Descriptors *)

\* What Lowest chooses is a member: a set of numbers has a least one.
LEMMA LowestIsIn ==
    ASSUME NEW S \in SUBSET Nat, S # {}
    PROVE  Lowest(S) \in S
<1> DEFINE less == OpToRel(<, Nat)
<1>1. \E x \in S : \A y \in S : ~(<<y, x>> \in less)
    BY NatLessThanWellFounded, WFMin
<1>2. \A x, y \in Nat : x < y => <<x, y>> \in less
    BY DEF OpToRel
<1> HIDE DEF less
<1>3. \E n \in S : \A k \in S : n <= k
  <2>1. PICK x \in S : \A y \in S : ~(<<y, x>> \in less)
      BY <1>1
  <2>2. \A y \in S : ~(y < x)
    <3>1. \A y \in S : y < x => <<y, x>> \in less
        BY <1>2
    <3>2. QED
        BY <2>1, <3>1
  <2>3. \A y \in S : x <= y
      BY <2>2
  <2>4. QED
      BY <2>3
<1>4. QED
    BY <1>3 DEF Lowest

FilesTyped == files \in [Numbers -> Files] /\ robbed \in BOOLEAN

\* A file that is opened gets a number nobody has; the other numbers keep theirs.
LEMMA OpenedFile ==
    ASSUME FilesTyped, Free # {},
           NEW kind \in {"camera", "video", "client", "library"}, NEW d \in Devices,
           OpenFile(kind, d)
    PROVE  /\ Lowest(Free) \in Numbers
           /\ files[Lowest(Free)].kind = "nothing"
           /\ files' \in [Numbers -> Files]
           /\ files'[Lowest(Free)].kind = kind
           /\ \A n \in Numbers \ {Lowest(Free)} : files'[n] = files[n]
<1>1. Lowest(Free) \in Free
  <2>1. Free \in SUBSET Nat
      BY DEF Free, Numbers
  <2>2. QED
      BY <2>1, LowestIsIn
<1>2. Lowest(Free) \in Numbers /\ files[Lowest(Free)] = Closed
    BY <1>1 DEF Free
<1>3. Open(kind, d) \in Files /\ Open(kind, d).kind = kind /\ Closed.kind = "nothing"
    BY DEF Open, Files, Closed
<1>4. QED
    BY <1>2, <1>3 DEF OpenFile, FilesTyped

\* A number that is closed is free; a thread is robbed only by the close of a file
\* of a kind the caller does not open.
LEMMA ClosedFile ==
    ASSUME FilesTyped, NEW n \in Numbers \cup {NoFile}, NEW kinds, CloseFile(n, kinds)
    PROVE  /\ files' \in [Numbers -> Files] /\ robbed' \in BOOLEAN
           /\ \A k \in Numbers \ {n} : files'[k] = files[k]
           /\ n \in Numbers /\ files[n].kind \in kinds => robbed' = robbed
           /\ n = NoFile => robbed' = robbed /\ files' = files
<1>1. Closed \in Files
    BY DescriptorsAssumption DEF Open, Files, Closed, Devices
<1>2. NoFile \notin Numbers
    BY DEF NoFile, Numbers
<1>3. robbed' \in BOOLEAN
    BY Zenon DEF CloseFile
<1>4. n \in Numbers /\ files[n].kind \in kinds => robbed' = robbed
    BY Zenon DEF CloseFile, FilesTyped
<1>5. n = NoFile => robbed' = robbed /\ files' = files
    BY Zenon DEF CloseFile, FilesTyped
<1>6. QED
    BY <1>1, <1>2, <1>3, <1>4, <1>5 DEF CloseFile, FilesTyped

-----------------------------------------------------------------------------
(* Types of the power manager's state *)

Values == {0, 1, 100} \cup Percents
Requests == [prop : Props, value : Values]

\* The request under way stays at the head of the queue.
PowerTyped ==
    /\ battery \in [state : States, percent : Percents]
    /\ booted \in BOOLEAN /\ announced \in BOOLEAN /\ completed \in BOOLEAN /\ missed \in BOOLEAN
    /\ android \in [Props -> {Unknown} \cup Values]
    /\ step \in {"read", "watch", "connect", "loop"} /\ reading \in BOOLEAN
    /\ mPowerState \in States \cup {-1, -2} /\ mBatteryPercent \in Percents \cup {0, 100}
    /\ changed \in Nat /\ reported \in Seq(BOOLEAN)
    /\ queue \in Seq(Requests)
    /\ lib \in Numbers \cup {NoFile} /\ (lib # NoFile => queue # <<>>)
    /\ misread \in [Props -> BOOLEAN] /\ unset \in [Props -> BOOLEAN]
    /\ handed \in [Props -> BOOLEAN]

\* A queue keeps its members, whatever they are.
LEMMA Queued ==
    ASSUME NEW T, NEW q \in Seq(T)
    PROVE  /\ q # <<>> => Head(q) \in T /\ Tail(q) \in Seq(T)
           /\ \A e \in T : Append(q, e) \in Seq(T) /\ Append(q, e) # <<>>
           /\ \A r \in Seq(T) : q \o r \in Seq(T) /\ (q # <<>> => q \o r # <<>>)
           /\ <<>> \in Seq(T)
           /\ \A e \in T : <<e>> \in Seq(T)
OBVIOUS

\* A flag of one property is raised or lowered.
LEMMA Flags ==
    ASSUME NEW h \in [Props -> BOOLEAN], NEW q, NEW b \in BOOLEAN
    PROVE  [h EXCEPT ![q] = b] \in [Props -> BOOLEAN]
OBVIOUS

\* What is read of the battery's state, kept and handed over has its type.
LEMMA StateType ==
    ASSUME PowerTyped, NEW failed \in BOOLEAN, ReadState(failed)
    PROVE  /\ mPowerState' \in States \cup {-1, -2} /\ mBatteryPercent' \in Percents \cup {0, 100}
           /\ queue' \in Seq(Requests) /\ (queue # <<>> => queue' # <<>>)
           /\ misread' \in [Props -> BOOLEAN] /\ handed' \in [Props -> BOOLEAN]
           /\ missed' \in BOOLEAN /\ reading' \in BOOLEAN
<1> DEFINE state == IF failed THEN -2 ELSE battery.state
           new == mPowerState # state
           was == handed["battery_charging"] \/ new
           r == Request("battery_charging", Charging(state))
<1>1. state \in States \cup {-1, -2}
    BY DEF PowerTyped
<1>2. r \in Requests
    BY DEF Request, Charging, Requests, Props, Values
<1>3. /\ queue' = IF new THEN Append(queue, r) ELSE queue
      /\ mPowerState' = state /\ mBatteryPercent' = mBatteryPercent
    BY Zenon DEF ReadState
<1>4. queue' \in Seq(Requests) /\ (queue # <<>> => queue' # <<>>)
  <2> HIDE DEF r, new
  <2>1. queue \in Seq(Requests)
      BY DEF PowerTyped
  <2>2. QED
      BY <1>2, <1>3, <2>1, Queued
<1>5. was \in BOOLEAN
    BY Zenon
<1>6. misread' \in [Props -> BOOLEAN] /\ handed' \in [Props -> BOOLEAN]
  <2>1. /\ misread' = [misread EXCEPT !["battery_charging"] = failed]
        /\ handed' = [handed EXCEPT !["battery_charging"] = was]
      BY Zenon DEF ReadState
  <2>2. misread \in [Props -> BOOLEAN] /\ handed \in [Props -> BOOLEAN]
      BY DEF PowerTyped
  <2> HIDE DEF was
  <2>3. QED
      BY <1>5, <2>1, <2>2, Flags, Zenon
<1>7. missed' \in BOOLEAN /\ reading' \in BOOLEAN
    BY Zenon DEF ReadState
<1>8. QED
    BY <1>1, <1>3, <1>4, <1>6, <1>7 DEF PowerTyped

\* And so has what is read of the percentage.
LEMMA PercentType ==
    ASSUME PowerTyped, NEW failed \in BOOLEAN, ReadPercentage(failed)
    PROVE  PowerTyped'
<1> DEFINE percent == IF failed THEN 100 ELSE battery.percent
           new == mBatteryPercent # percent
           was == handed["battery_percent"] \/ new
           r == Request("battery_percent", percent)
<1>1. percent \in Percents \cup {0, 100}
    BY DEF PowerTyped
<1>2. r \in Requests
    BY <1>1 DEF Request, Requests, Props, Values
<1>3. /\ queue' = IF new THEN Append(queue, r) ELSE queue
      /\ mBatteryPercent' = percent
    BY Zenon DEF ReadPercentage
<1>4. queue' \in Seq(Requests) /\ (queue # <<>> => queue' # <<>>)
  <2> HIDE DEF r, new
  <2>1. queue \in Seq(Requests)
      BY DEF PowerTyped
  <2>2. QED
      BY <1>2, <1>3, <2>1, Queued
<1>5. was \in BOOLEAN
    BY Zenon
<1>6. misread' \in [Props -> BOOLEAN] /\ handed' \in [Props -> BOOLEAN]
  <2>1. /\ misread' = [misread EXCEPT !["battery_percent"] = failed]
        /\ handed' = [handed EXCEPT !["battery_percent"] = was]
      BY Zenon DEF ReadPercentage
  <2>2. misread \in [Props -> BOOLEAN] /\ handed \in [Props -> BOOLEAN]
      BY DEF PowerTyped
  <2> HIDE DEF was
  <2>3. QED
      BY <1>5, <2>1, <2>2, Flags, Zenon
<1>7. reading' \in BOOLEAN
    BY Zenon DEF ReadPercentage
<1>8. UNCHANGED <<battery, booted, announced, android, step, mPowerState, completed, changed,
                  reported, missed, lib, unset>>
    BY DEF ReadPercentage, hostVars
<1>9. QED
    BY <1>1, <1>3, <1>4, <1>6, <1>7, <1>8 DEF PowerTyped

USE DEF hostVars, cacheVars, signalVars, backendVars, powerVars

\* The same when Android has not booted, or does not say so, and nothing is read.
LEMMA OnUpdateType ==
    ASSUME PowerTyped, OnUpdateBatteryState
    PROVE  /\ mPowerState' \in States \cup {-1, -2} /\ mBatteryPercent' \in Percents \cup {0, 100}
           /\ queue' \in Seq(Requests) /\ (queue # <<>> => queue' # <<>>)
           /\ misread' \in [Props -> BOOLEAN] /\ handed' \in [Props -> BOOLEAN]
           /\ missed' \in BOOLEAN /\ reading' \in BOOLEAN
<1>1. CASE LeaveBattery
  <2>1. missed' \in BOOLEAN /\ reading' \in BOOLEAN
      BY <1>1, Zenon DEF LeaveBattery, PowerTyped
  <2>2. QED
      BY <1>1, <2>1 DEF LeaveBattery, PowerTyped
<1>2. CASE NoAnswer
  <2>1. missed' \in BOOLEAN /\ reading' \in BOOLEAN
      BY <1>2, Zenon DEF NoAnswer, PowerTyped
  <2>2. QED
      BY <1>2, <2>1 DEF NoAnswer, PowerTyped
<1>3. QED
    BY <1>1, <1>2, StateType DEF OnUpdateBatteryState

\* Every step of the host, the main thread and the backend thread keeps the types.
LEMMA PowerNextType == PowerTyped /\ FilesTyped /\ PowerNext => PowerTyped' /\ FilesTyped'
<1> SUFFICES ASSUME PowerTyped, FilesTyped, PowerNext
             PROVE  PowerTyped' /\ FilesTyped'
    OBVIOUS
<1> USE PowerAssumption
<1>0. UNCHANGED <<files, robbed>> => FilesTyped'
  <2>1. UNCHANGED robbed => robbed' \in BOOLEAN
      BY Zenon DEF FilesTyped
  <2>2. QED
      BY <2>1 DEF FilesTyped
<1>1. ASSUME NEW b \in [state : States, percent : Percents],
             BatteryChanges(b) /\ UNCHANGED <<files, robbed>>
      PROVE  PowerTyped' /\ FilesTyped'
  <2>1. missed' \in BOOLEAN
      BY <1>1, Zenon DEF BatteryChanges
  <2>2. QED
      BY <1>0, <1>1, <2>1 DEF BatteryChanges, PowerTyped
<1>2. CASE Boot /\ UNCHANGED <<files, robbed>>
  <2>1. booted' \in BOOLEAN
      BY <1>2, Zenon DEF Boot
  <2>2. QED
      BY <1>0, <1>2, <2>1 DEF Boot, PowerTyped
<1>3. ASSUME NEW ok \in BOOLEAN, Report(ok) /\ UNCHANGED <<files, robbed>>
      PROVE  PowerTyped' /\ FilesTyped'
  <2>1. announced' \in BOOLEAN /\ missed' \in BOOLEAN
      BY <1>3, Zenon DEF Report
  <2>2. reported' \in Seq(BOOLEAN)
    <3>1. reported \in Seq(BOOLEAN)
        BY DEF PowerTyped
    <3>2. Append(reported, ok) \in Seq(BOOLEAN)
        BY <3>1, Queued
    <3>3. reported' = Append(reported, ok) \/ reported' = reported
        BY <1>3 DEF Report
    <3>4. QED
        BY <3>1, <3>2, <3>3
  <2>3. QED
      BY <1>0, <1>3, <2>1, <2>2 DEF Report, PowerTyped
<1>4. CASE ReadAtStart /\ UNCHANGED <<files, robbed>>
    BY <1>0, <1>4, OnUpdateType DEF ReadAtStart, PowerTyped
<1>5. CASE WatchBattery /\ UNCHANGED <<files, robbed>>
    BY <1>0, <1>5 DEF WatchBattery, PowerTyped
<1>6. CASE InitConnections /\ UNCHANGED <<files, robbed>>
    BY <1>0, <1>6 DEF InitConnections, PowerTyped
<1>7. CASE OnPropertiesChanged /\ UNCHANGED <<files, robbed>>
    BY <1>0, <1>7, OnUpdateType DEF OnPropertiesChanged, PowerTyped
<1>8. CASE OnContainerEnvBooted /\ UNCHANGED <<files, robbed>>
  <2>1. completed' \in BOOLEAN
      BY <1>8, Zenon DEF OnContainerEnvBooted
  <2>2. reported \in Seq(BOOLEAN) /\ reported # <<>> /\ reported' = Tail(reported)
      BY <1>8 DEF OnContainerEnvBooted, PowerTyped
  <2>3. reported' \in Seq(BOOLEAN)
      BY <2>2, Queued
  <2>4. CASE ~completed /\ Head(reported)
    <3>1. OnUpdateBatteryState
        BY <1>8, <2>4 DEF OnContainerEnvBooted
    <3>2. QED
        BY <1>0, <1>8, <2>1, <2>3, <3>1, OnUpdateType DEF OnContainerEnvBooted, PowerTyped
  <2>5. CASE ~(~completed /\ Head(reported))
    <3>1. missed' \in BOOLEAN
        BY <1>8, <2>5, Zenon DEF OnContainerEnvBooted
    <3>2. QED
        BY <1>0, <1>8, <2>1, <2>3, <2>5, <3>1 DEF OnContainerEnvBooted, PowerTyped
  <2>6. QED
      BY <2>4, <2>5
<1>9. CASE OpenLibrary
  <2>1. 0 \in Devices
      BY DescriptorsAssumption DEF Devices
  <2>2. Lowest(Free) \in Numbers /\ files' \in [Numbers -> Files]
      BY <1>9, <2>1, OpenedFile DEF OpenLibrary
  <2>3. robbed' \in BOOLEAN
      BY <1>9, Zenon DEF OpenLibrary, FilesTyped
  <2>4. QED
      BY <1>9, <2>2, <2>3 DEF OpenLibrary, PowerTyped, FilesTyped
<1>10. ASSUME NEW ok \in BOOLEAN, SetSystemProp(ok)
       PROVE  PowerTyped' /\ FilesTyped'
  <2> DEFINE set == files[lib].kind = "library" /\ ok
  <2>1. queue # <<>> /\ Head(queue) \in Requests /\ Tail(queue) \in Seq(Requests)
      BY <1>10, Queued DEF SetSystemProp, PowerTyped
  <2>2. Head(queue).prop \in Props /\ Head(queue).value \in Values
      BY <2>1 DEF Requests
  <2>3. unset' \in [Props -> BOOLEAN]
    <3>1. unset' = [unset EXCEPT ![Head(queue).prop] = ~set]
        BY <1>10, Zenon DEF SetSystemProp
    <3>2. (~set) \in BOOLEAN
        BY Zenon
    <3> HIDE DEF set
    <3>3. QED
        BY <3>1, <3>2, <2>2 DEF PowerTyped
  <2>4. android' \in [Props -> {Unknown} \cup Values]
      BY <1>10, <2>2 DEF SetSystemProp, PowerTyped
  <2>5. FilesTyped'
    <3>1. lib \in Numbers \cup {NoFile} /\ CloseFile(lib, {"library"})
        BY <1>10 DEF SetSystemProp, PowerTyped
    <3>2. QED
        BY <3>1, ClosedFile DEF FilesTyped
  <2>6. QED
      BY <1>10, <2>1, <2>3, <2>4, <2>5 DEF SetSystemProp, PowerTyped
<1>11. ASSUME NEW failed \in BOOLEAN, ReadPercentage(failed) /\ UNCHANGED <<files, robbed>>
       PROVE  PowerTyped' /\ FilesTyped'
    BY <1>0, <1>11, PercentType
<1>12. QED
    BY <1>1, <1>2, <1>3, <1>4, <1>5, <1>6, <1>7, <1>8, <1>9, <1>10, <1>11 DEF PowerNext

-----------------------------------------------------------------------------
(* Types of the camera service's state *)

\* The search is at one of the devices.
CameraTyped ==
    /\ plugged \in [Devices -> DeviceKinds]
    /\ backlog \in Seq(BOOLEAN) /\ talks \in BOOLEAN
    /\ m_cameraDeviceName \in Names /\ wanted \in Names /\ dev_name \in Names
    /\ setting \in Devices \cup {Nobody}
    /\ worker \in {"accept", "receive", "select", "close", "open", "send", "closeFile",
                   "closeClient", "ended"}
    /\ com_fd \in Numbers \cup {NoFile} /\ fd_to_send \in Numbers \cup {NoFile}
    /\ i \in 0..(LastDevice + 1)
    /\ worker \in {"close", "open"} => i \in Devices
    /\ dropped \in BOOLEAN /\ usable \subseteq Devices /\ twice \in BOOLEAN

USE DEF deviceVars, clientVars, selectVars, workerVars, cameraVars

\* open of a video device: it fails, or the number is a new one.
LEMMA OpenedDevice ==
    ASSUME FilesTyped, CameraTyped, NEW n \in Names, OpenDevice(n)
    PROVE  /\ fd_to_send' \in Numbers \cup {NoFile}
           /\ files' \in [Numbers -> Files]
           /\ fd_to_send' # NoFile =>
                /\ files[fd_to_send'].kind = "nothing"
                /\ files'[fd_to_send'].kind \in {"camera", "video"}
           /\ \A k \in Numbers : files[k].kind # "nothing" => files'[k] = files[k]
<1>1. CASE n \in Devices /\ plugged[n] # "absent" /\ Free # {}
  <2>1. OpenFile(plugged[n], n) /\ fd_to_send' = Lowest(Free)
      BY <1>1 DEF OpenDevice
  <2>2. plugged[n] \in {"camera", "video"}
      BY <1>1 DEF CameraTyped, DeviceKinds
  <2>3. QED
      BY <1>1, <2>1, <2>2, OpenedFile
<1>2. CASE ~(n \in Devices /\ plugged[n] # "absent" /\ Free # {})
  <2>1. fd_to_send' = NoFile /\ UNCHANGED files
      BY <1>2 DEF OpenDevice
  <2>2. QED
      BY <2>1 DEF FilesTyped
<1>3. QED
    BY <1>1, <1>2

\* What the worker can read of the name is a name.
LEMMA NamesRead ==
    ASSUME CameraTyped,
           NEW n \in (IF setting = Nobody THEN {m_cameraDeviceName}
                      ELSE {m_cameraDeviceName, setting, Junk})
    PROVE  n \in Names
BY DEF CameraTyped, Names

\* Every step of the worker, of the main thread, of clients and devices keeps the types.
LEMMA CameraNextType == CameraTyped /\ FilesTyped /\ CameraNext => CameraTyped' /\ FilesTyped'
<1> SUFFICES ASSUME CameraTyped, FilesTyped, CameraNext
             PROVE  CameraTyped' /\ FilesTyped'
    OBVIOUS
<1>a. 0 \in Devices /\ Devices = 0..LastDevice /\ Devices \subseteq Names /\ Junk \in Names
      /\ LastDevice \in Nat
    BY DescriptorsAssumption DEF Devices, Names
<1>b. /\ UNCHANGED robbed => robbed' \in BOOLEAN
      /\ UNCHANGED dropped => dropped' \in BOOLEAN
      /\ UNCHANGED twice => twice' \in BOOLEAN
      /\ UNCHANGED talks => talks' \in BOOLEAN
    BY Zenon DEF FilesTyped, CameraTyped
<1>1. ASSUME NEW d \in Devices, NEW kind \in DeviceKinds, Plug(d, kind)
      PROVE  CameraTyped' /\ FilesTyped'
    BY <1>1, <1>b DEF Plug, CameraTyped, FilesTyped
<1>2. ASSUME NEW sends \in BOOLEAN, Connect(sends)
      PROVE  CameraTyped' /\ FilesTyped'
  <2>1. Append(backlog, sends) \in Seq(BOOLEAN)
      BY Queued DEF CameraTyped
  <2>2. QED
      BY <1>2, <1>b, <2>1 DEF Connect, CameraTyped, FilesTyped
<1>3. ASSUME NEW d \in Devices, StartSet(d)
      PROVE  CameraTyped' /\ FilesTyped'
    BY <1>3, <1>b DEF StartSet, CameraTyped, FilesTyped
<1>4. CASE FinishSet
  <2>1. dropped' \in BOOLEAN
      BY <1>4, SMT DEF FinishSet, Searching
  <2>2. QED
      BY <1>4, <1>a, <1>b, <2>1 DEF FinishSet, CameraTyped, FilesTyped
<1>5. CASE Accept
  <2>1. Lowest(Free) \in Numbers /\ files' \in [Numbers -> Files]
      BY <1>5, <1>a, OpenedFile DEF Accept
  <2>2. Head(backlog) \in BOOLEAN /\ Tail(backlog) \in Seq(BOOLEAN)
      BY <1>5, Queued DEF Accept, CameraTyped
  <2>3. QED
      BY <1>5, <1>b, <2>1, <2>2 DEF Accept, CameraTyped, FilesTyped
<1>6. CASE AcceptFails
    BY <1>6, <1>b DEF AcceptFails, CameraTyped, FilesTyped
<1>7. CASE Received
    BY <1>7, <1>b DEF Received, CameraTyped, FilesTyped
<1>8. CASE OpenSelected
  <2>1. dev_name' \in Names /\ OpenDevice(dev_name')
      BY <1>8, NamesRead DEF OpenSelected
  <2>2. fd_to_send' \in Numbers \cup {NoFile} /\ files' \in [Numbers -> Files]
      BY <2>1, OpenedDevice
  <2>3. dropped' \in BOOLEAN
      BY <1>8, Zenon DEF OpenSelected
  <2>4. QED
      BY <1>8, <1>a, <1>b, <2>1, <2>2, <2>3 DEF OpenSelected, CameraTyped, FilesTyped
<1>9. CASE CloseTried
  <2>1. FilesTyped'
      BY <1>9, ClosedFile DEF CloseTried, CameraTyped, FilesTyped
  <2>2. twice' \in BOOLEAN
      BY <1>9, <1>b, Zenon DEF CloseTried
  <2>3. QED
      BY <1>9, <1>a, <1>b, <2>1, <2>2 DEF CloseTried, CameraTyped
<1>10. CASE OpenNext
  <2>1. i \in Devices /\ i \in Names
      BY <1>10, <1>a DEF OpenNext, CameraTyped
  <2>2. fd_to_send' \in Numbers \cup {NoFile} /\ files' \in [Numbers -> Files]
      BY <1>10, <2>1, OpenedDevice DEF OpenNext
  <2>3. QED
      BY <1>10, <1>a, <1>b, <2>1, <2>2 DEF OpenNext, CameraTyped, FilesTyped
<1>11. CASE SendFile
    BY <1>11, <1>b DEF SendFile, CameraTyped, FilesTyped
<1>12. CASE CloseSent
  <2>1. FilesTyped'
      BY <1>12, ClosedFile DEF CloseSent, CameraTyped, FilesTyped
  <2>2. QED
      BY <1>12, <1>b, <2>1 DEF CloseSent, CameraTyped
<1>13. CASE CloseClient
  <2>1. FilesTyped'
      BY <1>13, ClosedFile DEF CloseClient, CameraTyped, FilesTyped
  <2>2. talks' \in BOOLEAN
      BY <1>13, Zenon DEF CloseClient, RoundOver
  <2>3. QED
      BY <1>13, <1>a, <1>b, <2>1, <2>2 DEF CloseClient, RoundOver, CameraTyped
<1>14. QED
    BY <1>1, <1>2, <1>3, <1>4, <1>5, <1>6, <1>7, <1>8, <1>9, <1>10, <1>11, <1>12, <1>13
    DEF CameraNext, Receive, TimeOut

-----------------------------------------------------------------------------
(* Types of the manager *)

Typed == PowerTyped /\ CameraTyped /\ FilesTyped

\* The types hold in a manager that starts, whatever the host is like.
LEMMA InitType == Init => Typed
<1> SUFFICES ASSUME Init
             PROVE  Typed
    OBVIOUS
<1>1. PowerTyped
  <2>1. booted \in BOOLEAN /\ announced \in BOOLEAN /\ completed \in BOOLEAN /\ missed \in BOOLEAN
      BY Zenon DEF Init, PowerInit
  <2>2. [q \in Props |-> FALSE] \in [Props -> BOOLEAN]
      BY Zenon
  <2>3. misread \in [Props -> BOOLEAN] /\ unset \in [Props -> BOOLEAN] /\ handed \in [Props -> BOOLEAN]
      BY <2>2, Zenon DEF Init, PowerInit
  <2>4. reported \in Seq(BOOLEAN) /\ queue \in Seq(Requests)
    <3>1. reported = <<>> /\ queue = <<>>
        BY DEF Init, PowerInit
    <3>2. QED
        BY <3>1
  <2>5. QED
      BY <2>1, <2>3, <2>4, PowerAssumption DEF Init, PowerInit, PowerTyped, NoFile
<1>2. CameraTyped
  <2>1. talks \in BOOLEAN /\ dropped \in BOOLEAN /\ twice \in BOOLEAN
      BY Zenon DEF Init, CameraInit, RoundInit
  <2>2. QED
      BY <2>1, DescriptorsAssumption DEF Init, CameraInit, RoundInit, CameraTyped, Names, Devices
<1>3. FilesTyped
  <2>1. robbed \in BOOLEAN
      BY Zenon DEF Init, FilesInit
  <2>2. Closed \in Files
      BY DescriptorsAssumption DEF Closed, Open, Files, Devices
  <2>3. QED
      BY <2>1, <2>2 DEF Init, FilesInit, FilesTyped
<1>4. QED
    BY <1>1, <1>2, <1>3 DEF Typed

\* A manager that is started again has its types.
LEMMA RestartType == Typed /\ Restart => Typed'
<1> SUFFICES ASSUME Typed, Restart
             PROVE  Typed'
    OBVIOUS
<1>1. PowerTyped'
  <2>1. completed' \in BOOLEAN /\ missed' \in BOOLEAN
      BY Zenon DEF Restart, PowerRestart
  <2>2. [q \in Props |-> FALSE] \in [Props -> BOOLEAN]
      BY Zenon
  <2>3. misread' \in [Props -> BOOLEAN] /\ unset' \in [Props -> BOOLEAN]
        /\ handed' \in [Props -> BOOLEAN]
      BY <2>2, Zenon DEF Restart, PowerRestart
  <2>4. reported' \in Seq(BOOLEAN) /\ queue' \in Seq(Requests)
    <3>1. reported' = <<>> /\ queue' = <<>>
        BY DEF Restart, PowerRestart
    <3>2. QED
        BY <3>1
  <2>5. booted' \in BOOLEAN /\ announced' \in BOOLEAN
      BY Zenon DEF Restart, PowerRestart, Typed, PowerTyped
  <2>6. QED
      BY <2>1, <2>3, <2>4, <2>5, PowerAssumption
      DEF Restart, PowerRestart, Typed, PowerTyped, NoFile
<1>2. CameraTyped'
  <2>1. talks' \in BOOLEAN /\ dropped' \in BOOLEAN /\ twice' \in BOOLEAN
      BY Zenon DEF Restart, CameraRestart, RoundOver
  <2>2. backlog' \in Seq(BOOLEAN)
    <3>1. backlog' = <<>>
        BY DEF Restart, CameraRestart
    <3>2. QED
        BY <3>1
  <2>3. QED
      BY <2>1, <2>2, DescriptorsAssumption
      DEF Restart, CameraRestart, RoundOver, Typed, CameraTyped, Names, Devices
<1>3. FilesTyped'
  <2>1. robbed' \in BOOLEAN
      BY Zenon DEF Restart
  <2>2. Closed \in Files
      BY DescriptorsAssumption DEF Closed, Open, Files, Devices
  <2>3. QED
      BY <2>1, <2>2 DEF Restart, FilesTyped
<1>4. QED
    BY <1>1, <1>2, <1>3 DEF Typed

\* What a thread leaves alone keeps its types.
LEMMA LeftType ==
    /\ PowerTyped /\ UNCHANGED powerVars => PowerTyped'
    /\ CameraTyped /\ UNCHANGED cameraVars => CameraTyped'
    /\ FilesTyped /\ UNCHANGED <<files, robbed>> => FilesTyped'
<1>1. ASSUME PowerTyped, UNCHANGED powerVars
      PROVE  PowerTyped'
  <2>1. booted' \in BOOLEAN /\ announced' \in BOOLEAN /\ completed' \in BOOLEAN /\ missed' \in BOOLEAN
      BY <1>1, Zenon DEF PowerTyped
  <2>2. QED
      BY <1>1, <2>1 DEF PowerTyped
<1>2. ASSUME CameraTyped, UNCHANGED cameraVars
      PROVE  CameraTyped'
  <2>1. talks' \in BOOLEAN /\ dropped' \in BOOLEAN /\ twice' \in BOOLEAN
      BY <1>2, Zenon DEF CameraTyped
  <2>2. QED
      BY <1>2, <2>1 DEF CameraTyped
<1>3. ASSUME FilesTyped, UNCHANGED <<files, robbed>>
      PROVE  FilesTyped'
  <2>1. robbed' \in BOOLEAN
      BY <1>3, Zenon DEF FilesTyped
  <2>2. QED
      BY <1>3, <2>1 DEF FilesTyped
<1>4. QED
    BY <1>1, <1>2, <1>3

\* Every step of the manager and of what is around it keeps the types.
LEMMA NextType == Typed /\ [Next]_vars => Typed'
<1> SUFFICES ASSUME Typed, [Next]_vars
             PROVE  Typed'
    OBVIOUS
<1>1. CASE PowerNext /\ UNCHANGED cameraVars
    BY <1>1, PowerNextType, LeftType DEF Typed
<1>2. CASE CameraNext /\ UNCHANGED powerVars
    BY <1>2, CameraNextType, LeftType DEF Typed
<1>3. CASE Restart
    BY <1>3, RestartType
<1>4. CASE UNCHANGED vars
    BY <1>4, LeftType DEF Typed, vars
<1>5. QED
    BY <1>1, <1>2, <1>3, <1>4 DEF Next

\* The manager keeps the types of its state: descriptors are numbers, the search is
\* at a device, and only the two properties are asked to be set, to values they have.
THEOREM TypeCorrect == Spec => []TypeOK
<1>1. Typed => TypeOK
    BY DEF Typed, PowerTyped, CameraTyped, FilesTyped, TypeOK, Values, Requests
<1>2. QED
    BY <1>1, InitType, NextType, PTL DEF Spec

-----------------------------------------------------------------------------
(* Whose files are closed *)

\* What the worker believes to be its own is its own: the client it serves, and the
\* device it has opened, until it closes one twice.
WorkerOwns ==
    /\ worker \in {"receive", "select", "close", "open", "send", "closeFile", "closeClient"} =>
         com_fd \in Numbers /\ files[com_fd].kind = "client"
    /\ worker \in {"close", "send", "closeFile"} /\ fd_to_send # NoFile =>
         files[fd_to_send].kind \in {"camera", "video"}

BackendOwns == lib # NoFile => files[lib].kind = "library"

Owned == ~twice => ~robbed /\ WorkerOwns /\ BackendOwns

\* The backend thread opens and closes files of its own.
LEMMA BackendKeeps ==
    ASSUME Typed, Owned, PowerNext, UNCHANGED cameraVars
    PROVE  Owned'
<1> USE DEF Owned, WorkerOwns, BackendOwns
<1>1. CASE UNCHANGED <<files, robbed>> /\ UNCHANGED lib
    BY <1>1
<1>2. CASE OpenLibrary
  <2>1. 0 \in Devices
      BY DescriptorsAssumption DEF Devices
  <2>2. /\ files[Lowest(Free)].kind = "nothing" /\ files'[Lowest(Free)].kind = "library"
        /\ \A n \in Numbers \ {Lowest(Free)} : files'[n] = files[n]
      BY <1>2, <2>1, OpenedFile DEF OpenLibrary, Typed
  <2>3. QED
      BY <1>2, <2>2 DEF OpenLibrary, Typed, CameraTyped
<1>3. ASSUME NEW ok \in BOOLEAN, SetSystemProp(ok)
      PROVE  Owned'
  <2>1. lib \in Numbers /\ CloseFile(lib, {"library"}) /\ lib' = NoFile
      BY <1>3 DEF SetSystemProp, Typed, PowerTyped
  <2>2. /\ \A k \in Numbers \ {lib} : files'[k] = files[k]
        /\ files[lib].kind \in {"library"} => robbed' = robbed
      BY <2>1, ClosedFile DEF Typed
  <2>3. QED
      BY <1>3, <2>1, <2>2 DEF SetSystemProp, Typed, CameraTyped
<1>4. QED
    BY <1>1, <1>2, <1>3 DEF PowerNext, BatteryChanges, Boot, Report, ReadAtStart, ReadPercentage, WatchBattery,
       InitConnections, OnPropertiesChanged, OnContainerEnvBooted

\* The camera worker closes files of its own, or one of its own twice.
LEMMA WorkerKeeps ==
    ASSUME Typed, Owned, CameraNext, UNCHANGED powerVars
    PROVE  Owned'
<1> USE DEF Owned, WorkerOwns, BackendOwns
<1>a. Devices \subseteq Names /\ 0 \in Devices
    BY DescriptorsAssumption DEF Devices, Names
<1>1. ASSUME NEW d \in Devices, NEW kind \in DeviceKinds, Plug(d, kind)
      PROVE  Owned'
    BY <1>1 DEF Plug
<1>2. ASSUME NEW sends \in BOOLEAN, Connect(sends)
      PROVE  Owned'
    BY <1>2 DEF Connect
<1>3. ASSUME NEW d \in Devices, StartSet(d) \/ FinishSet
      PROVE  Owned'
    BY <1>3 DEF StartSet, FinishSet
<1>4. CASE Accept
  <2>1. /\ Lowest(Free) \in Numbers
        /\ files[Lowest(Free)].kind = "nothing" /\ files'[Lowest(Free)].kind = "client"
        /\ \A n \in Numbers \ {Lowest(Free)} : files'[n] = files[n]
      BY <1>4, <1>a, OpenedFile DEF Accept, Typed
  <2>2. QED
      BY <1>4, <2>1 DEF Accept, Typed, PowerTyped
<1>5. CASE AcceptFails \/ Received \/ SendFile
    BY <1>5 DEF AcceptFails, Received, SendFile
<1>6. CASE OpenSelected
  <2>1. dev_name' \in Names /\ OpenDevice(dev_name')
      BY <1>6, NamesRead DEF OpenSelected, Typed
  <2>2. QED
      BY <1>6, <2>1, OpenedDevice DEF OpenSelected, Typed, PowerTyped
<1>7. CASE CloseTried
  <2>1. CloseFile(fd_to_send, {"camera", "video"}) /\ fd_to_send \in Numbers \cup {NoFile}
      BY <1>7 DEF CloseTried, Typed, CameraTyped
  <2>2. CASE fd_to_send = NoFile
      BY <1>7, <2>1, <2>2, ClosedFile DEF CloseTried, Typed
  <2>3. CASE fd_to_send # NoFile
    <3>1. /\ \A k \in Numbers \ {fd_to_send} : files'[k] = files[k]
          /\ files[fd_to_send].kind \in {"camera", "video"} => robbed' = robbed
        BY <2>1, <2>3, ClosedFile DEF Typed
    <3>2. CASE i = dev_name
        BY <1>7, <2>3, <3>2 DEF CloseTried
    <3>3. CASE i # dev_name
        BY <1>7, <2>3, <3>1, <3>3 DEF CloseTried, Typed, PowerTyped
    <3>4. QED
        BY <3>2, <3>3
  <2>4. QED
      BY <2>2, <2>3
<1>8. CASE OpenNext
  <2>1. i \in Names /\ OpenDevice(i)
      BY <1>8, <1>a DEF OpenNext, Typed, CameraTyped
  <2>2. QED
      BY <1>8, <2>1, OpenedDevice DEF OpenNext, Typed, PowerTyped
<1>9. CASE CloseSent
  <2>1. CloseFile(fd_to_send, {"camera", "video"}) /\ fd_to_send \in Numbers \cup {NoFile}
      BY <1>9 DEF CloseSent, Typed, CameraTyped
  <2>2. CASE fd_to_send = NoFile
      BY <1>9, <2>1, <2>2, ClosedFile DEF CloseSent, Typed
  <2>3. CASE fd_to_send # NoFile
    <3>1. /\ \A k \in Numbers \ {fd_to_send} : files'[k] = files[k]
          /\ files[fd_to_send].kind \in {"camera", "video"} => robbed' = robbed
        BY <2>1, <2>3, ClosedFile DEF Typed
    <3>2. QED
        BY <1>9, <2>3, <3>1 DEF CloseSent, Typed, PowerTyped
  <2>4. QED
      BY <2>2, <2>3
<1>10. CASE CloseClient
  <2>1. CloseFile(com_fd, {"client"}) /\ com_fd \in Numbers \cup {NoFile}
      BY <1>10 DEF CloseClient, Typed, CameraTyped
  <2>2. QED
      BY <1>10, <2>1, ClosedFile DEF CloseClient, RoundOver, Typed, PowerTyped
<1>11. QED
    BY <1>1, <1>2, <1>3, <1>4, <1>5, <1>6, <1>7, <1>8, <1>9, <1>10, <1>a
    DEF CameraNext, Receive, TimeOut

\* No thread closes a file of another one, in any order of their opens and closes,
\* before the camera worker has closed a number twice.
THEOREM NothingRobbed == Spec => []OthersFilesKept
<1>1. Init => Owned
    BY DEF Init, FilesInit, CameraInit, RoundInit, PowerInit, Owned, WorkerOwns, BackendOwns
<1>2. Typed /\ Owned /\ [Next]_vars => Owned'
  <2> SUFFICES ASSUME Typed, Owned, [Next]_vars
               PROVE  Owned'
      OBVIOUS
  <2>1. CASE Restart
      BY <2>1 DEF Restart, PowerRestart, CameraRestart, RoundOver, Owned, WorkerOwns, BackendOwns
  <2>2. CASE UNCHANGED vars
      BY <2>2 DEF vars, Owned, WorkerOwns, BackendOwns
  <2>3. QED
      BY <2>1, <2>2, BackendKeeps, WorkerKeeps DEF Next
<1>3. Owned => OthersFilesKept
    BY DEF Owned, OthersFilesKept
<1>4. QED
    BY <1>1, <1>2, <1>3, InitType, NextType, PTL DEF Spec

-----------------------------------------------------------------------------
(* The selected camera *)

\* A round that will send the selected device has read its name and found a camera.
Selected ==
    ~dropped =>
        /\ m_cameraDeviceName = wanted
        /\ worker \notin {"close", "open"}
        /\ worker = "send" => dev_name = wanted

\* However setCameraDevice runs into a round, the selection is lost only to a round
\* that had found it to be no camera or had read it before.
THEOREM SelectionKeptAlways == Spec => []SelectionKept
<1>1. Init => Selected
    BY DEF Init, CameraInit, RoundInit, Selected
<1>2. Selected /\ [Next]_vars => Selected'
  <2> SUFFICES ASSUME Selected, [Next]_vars
               PROVE  Selected'
      OBVIOUS
  <2> USE DEF Selected
  <2>1. CASE UNCHANGED cameraVars
      BY <2>1
  <2>2. CASE CameraNext
    <3>1. CASE FinishSet
        BY <3>1 DEF FinishSet, Searching
    <3>2. CASE OpenSelected
        BY <3>2 DEF OpenSelected
    <3>3. CASE CloseTried \/ OpenNext \/ SendFile
        BY <3>3 DEF CloseTried, OpenNext, SendFile
    <3>4. CASE Accept \/ AcceptFails \/ Received \/ CloseSent \/ CloseClient
        BY <3>4 DEF Accept, AcceptFails, Received, CloseSent, CloseClient, RoundOver
    <3>5. ASSUME NEW d \in Devices, NEW kind \in DeviceKinds, Plug(d, kind)
          PROVE  Selected'
        BY <3>5 DEF Plug
    <3>6. ASSUME NEW sends \in BOOLEAN, Connect(sends)
          PROVE  Selected'
        BY <3>6 DEF Connect
    <3>7. ASSUME NEW d \in Devices, StartSet(d)
          PROVE  Selected'
        BY <3>7 DEF StartSet
    <3>8. QED
        BY <2>2, <3>1, <3>2, <3>3, <3>4, <3>5, <3>6, <3>7 DEF CameraNext, Receive, TimeOut
  <2>3. CASE Restart
      BY <2>3 DEF Restart, CameraRestart, RoundOver
  <2>4. QED
      BY <2>1, <2>2, <2>3 DEF Next, vars
<1>3. Selected => SelectionKept
    BY DEF Selected, SelectionKept
<1>4. QED
    BY <1>1, <1>2, <1>3, PTL DEF Spec

-----------------------------------------------------------------------------
(* The camera that is found *)

\* What is open is the backend's, the client, or the device under way.
Held ==
    /\ worker \in {"accept", "ended"} => com_fd = NoFile
    /\ \A n \in Numbers :
          files[n] # Closed =>
              \/ n \in {lib, com_fd}
              \/ worker \in {"close", "send", "closeFile"} /\ n = fd_to_send

\* A number that is opened was free, the one that is closed is, the others stay.
LEMMA HeldByOpen ==
    ASSUME Typed, Free # {},
           NEW kind \in {"camera", "video", "client", "library"}, NEW d \in Devices,
           OpenFile(kind, d)
    PROVE  /\ Lowest(Free) \in Numbers /\ files[Lowest(Free)] = Closed
           /\ files'[Lowest(Free)] = Open(kind, d)
           /\ \A n \in Numbers \ {Lowest(Free)} : files'[n] = files[n]
<1>1. Lowest(Free) \in Free
  <2>1. Free \in SUBSET Nat
      BY DEF Free, Numbers
  <2>2. QED
      BY <2>1, LowestIsIn
<1>2. QED
    BY <1>1 DEF Free, OpenFile, Typed, FilesTyped

\* close leaves a number free.
LEMMA HeldByClose ==
    ASSUME Typed, NEW n \in Numbers \cup {NoFile}, NEW kinds, CloseFile(n, kinds)
    PROVE  \A k \in Numbers : files'[k] # Closed => k # n /\ files'[k] = files[k]
<1>1. NoFile \notin Numbers
    BY DEF NoFile, Numbers
<1>2. QED
    BY <1>1 DEF CloseFile, Typed, FilesTyped

\* A video device that could be opened is the file that was opened; with a descriptor
\* to spare only a device that is not there could not.
LEMMA DeviceOpened ==
    ASSUME Typed, Free # {}, NEW n \in Names, OpenDevice(n)
    PROVE  /\ \A k \in Numbers \ {fd_to_send'} : files'[k] = files[k]
           /\ Available => /\ n \in Devices /\ plugged[n] = "camera" /\ fd_to_send' \in Numbers
                           /\ files'[fd_to_send'] = Open("camera", n)
           /\ n \in Devices /\ plugged[n] = "camera" => Available
<1>0. NoFile \notin Numbers
    BY DEF NoFile, Numbers
<1>1. CASE n \in Devices /\ plugged[n] # "absent"
  <2>1. OpenFile(plugged[n], n) /\ fd_to_send' = Lowest(Free)
      BY <1>1 DEF OpenDevice
  <2>2. plugged[n] \in {"camera", "video"}
      BY <1>1 DEF Typed, CameraTyped, DeviceKinds
  <2>3. /\ fd_to_send' \in Numbers /\ files'[fd_to_send'] = Open(plugged[n], n)
        /\ \A k \in Numbers \ {fd_to_send'} : files'[k] = files[k]
      BY <1>1, <2>1, <2>2, HeldByOpen
  <2>4. Open(plugged[n], n).kind = plugged[n]
      BY DEF Open
  <2>5. QED
      BY <1>0, <1>1, <2>3, <2>4 DEF Available
<1>2. CASE ~(n \in Devices /\ plugged[n] # "absent")
  <2>1. fd_to_send' = NoFile /\ UNCHANGED files
      BY <1>2 DEF OpenDevice
  <2>2. QED
      BY <1>2, <2>1 DEF Available
<1>3. QED
    BY <1>1, <1>2

\* The threads hold no files but the three.
LEMMA HeldStep == Typed /\ Held /\ [Next]_vars => Held'
<1> SUFFICES ASSUME Typed, Held, [Next]_vars
             PROVE  Held'
    OBVIOUS
<1>a. Devices \subseteq Names /\ 0 \in Devices
    BY DescriptorsAssumption DEF Devices, Names
<1>0. ASSUME UNCHANGED <<files, lib, com_fd, fd_to_send, worker>>
      PROVE  Held'
    BY <1>0 DEF Held
<1>1. CASE OpenLibrary /\ UNCHANGED cameraVars
  <2>1. \A n \in Numbers \ {lib'} : files'[n] = files[n]
      BY <1>1, <1>a, HeldByOpen DEF OpenLibrary
  <2>2. lib = NoFile /\ NoFile \notin Numbers
      BY <1>1 DEF OpenLibrary, NoFile, Numbers
  <2>3. QED
      BY <1>1, <2>1, <2>2 DEF Held
<1>2. ASSUME NEW ok \in BOOLEAN, SetSystemProp(ok), UNCHANGED cameraVars
      PROVE  Held'
  <2>1. lib \in Numbers \cup {NoFile} /\ CloseFile(lib, {"library"})
      BY <1>2 DEF SetSystemProp, Typed, PowerTyped
  <2>2. \A k \in Numbers : files'[k] # Closed => k # lib /\ files'[k] = files[k]
      BY <2>1, HeldByClose
  <2>3. QED
      BY <1>2, <2>2 DEF Held
<1>3. CASE PowerNext /\ UNCHANGED cameraVars
  <2>1. \/ OpenLibrary \/ \E ok \in BOOLEAN : SetSystemProp(ok)
        \/ UNCHANGED <<files, lib>>
      BY <1>3 DEF PowerNext, BatteryChanges, Boot, Report, ReadAtStart, ReadPercentage, WatchBattery,
         InitConnections, OnPropertiesChanged, OnContainerEnvBooted
  <2>2. QED
      BY <1>0, <1>1, <1>2, <1>3, <2>1
<1>4. CASE Accept /\ UNCHANGED powerVars
  <2>1. \A n \in Numbers \ {com_fd'} : files'[n] = files[n]
      BY <1>4, <1>a, HeldByOpen DEF Accept
  <2>2. com_fd = NoFile /\ NoFile \notin Numbers
      BY <1>4 DEF Accept, Held, NoFile, Numbers
  <2>3. QED
      BY <1>4, <2>1, <2>2 DEF Accept, Held
<1>5. CASE (AcceptFails \/ Received \/ SendFile) /\ UNCHANGED powerVars
    BY <1>5 DEF AcceptFails, Received, SendFile, Held
<1>6. ASSUME NEW n \in Names, OpenDevice(n), worker \in {"select", "open"},
             worker' \in {"close", "send"}, UNCHANGED <<com_fd, lib>>
      PROVE  Held'
  <2>1. \A k \in Numbers \ {fd_to_send'} : files'[k] = files[k]
    <3>1. CASE Free # {}
        BY <1>6, <3>1, DeviceOpened
    <3>2. CASE Free = {}
        BY <1>6, <3>2 DEF OpenDevice
    <3>3. QED
        BY <3>1, <3>2
  <2>2. QED
      BY <1>6, <2>1 DEF Held
<1>7. CASE OpenSelected /\ UNCHANGED powerVars
  <2>1. dev_name' \in Names /\ OpenDevice(dev_name')
      BY <1>7, NamesRead DEF OpenSelected, Typed
  <2>2. QED
      BY <1>6, <1>7, <2>1 DEF OpenSelected
<1>8. CASE OpenNext /\ UNCHANGED powerVars
  <2>1. i \in Names /\ OpenDevice(i)
      BY <1>8, <1>a DEF OpenNext, Typed, CameraTyped
  <2>2. QED
      BY <1>6, <1>8, <2>1 DEF OpenNext
<1>9. CASE (CloseTried \/ CloseSent) /\ UNCHANGED powerVars
  <2>1. CloseFile(fd_to_send, {"camera", "video"}) /\ fd_to_send \in Numbers \cup {NoFile}
      BY <1>9 DEF CloseTried, CloseSent, Typed, CameraTyped
  <2>2. \A k \in Numbers : files'[k] # Closed => k # fd_to_send /\ files'[k] = files[k]
      BY <2>1, HeldByClose
  <2>3. worker' \notin {"accept", "ended"} /\ UNCHANGED <<com_fd, lib>>
      BY <1>9 DEF CloseTried, CloseSent
  <2>4. QED
      BY <2>2, <2>3 DEF Held
<1>10. CASE CloseClient /\ UNCHANGED powerVars
  <2>1. CloseFile(com_fd, {"client"}) /\ com_fd \in Numbers \cup {NoFile}
      BY <1>10 DEF CloseClient, Typed, CameraTyped
  <2>2. \A k \in Numbers : files'[k] # Closed => k # com_fd /\ files'[k] = files[k]
      BY <2>1, HeldByClose
  <2>3. worker = "closeClient" /\ com_fd' = NoFile /\ UNCHANGED lib
      BY <1>10 DEF CloseClient, RoundOver
  <2>4. QED
      BY <2>2, <2>3 DEF Held
<1>11. ASSUME NEW d \in Devices, UNCHANGED powerVars,
              (\E kind \in DeviceKinds : Plug(d, kind)) \/ (\E sends \in BOOLEAN : Connect(sends))
              \/ StartSet(d) \/ FinishSet
       PROVE  Held'
    BY <1>0, <1>11 DEF Plug, Connect, StartSet, FinishSet
<1>12. CASE CameraNext /\ UNCHANGED powerVars
    BY <1>4, <1>5, <1>7, <1>8, <1>9, <1>10, <1>11, <1>12, <1>a DEF CameraNext, Receive, TimeOut
<1>13. CASE Restart
    BY <1>13 DEF Restart, CameraRestart, RoundOver, Held
<1>14. CASE UNCHANGED vars
    BY <1>0, <1>14 DEF vars
<1>15. QED
    BY <1>3, <1>12, <1>13, <1>14 DEF Next

\* Of three descriptors one is free for a device.
LEMMA OneFree ==
    ASSUME MaxFiles >= 3, Typed, Held, worker \in {"select", "open"}
    PROVE  Free # {}
<1>1. 1 \in Numbers /\ 2 \in Numbers /\ 3 \in Numbers
    BY DescriptorsAssumption DEF Numbers
<1>2. PICK n \in {1, 2, 3} : n \notin {lib, com_fd}
    OBVIOUS
<1>3. n \in Numbers /\ files[n] = Closed
    BY <1>1, <1>2 DEF Held
<1>4. QED
    BY <1>3 DEF Free

\* The search has passed no device that was a camera all through it: neither the
\* selected one, whose name dev_name still is, nor one before i.
Searched ==
    /\ worker \in {"close", "open", "send"} => \A d \in usable : plugged[d] = "camera"
    /\ worker \in {"close", "open"} => \A d \in usable : d >= i
    /\ worker = "close" => dev_name \notin usable
    /\ worker = "send" /\ usable # {} /\ ~robbed =>
          fd_to_send \in Numbers /\ files[fd_to_send] = Open("camera", dev_name)

FoundInv == Typed /\ Held /\ Searched

\* Every step of the search keeps the cameras before it; nobody else closes what it found.
LEMMA SearchedStep ==
    ASSUME MaxFiles >= 3, FoundInv, [Next]_vars
    PROVE  Searched'
<1>t. /\ Typed /\ Held /\ Searched
      /\ usable \in SUBSET Devices /\ Devices \subseteq Names /\ Devices \subseteq Nat
      /\ plugged \in [Devices -> DeviceKinds] /\ LastDevice \in Nat
    BY DescriptorsAssumption DEF FoundInv, Typed, CameraTyped, Devices, Names
<1>0. ASSUME UNCHANGED <<cameraVars, files>>, robbed => robbed'
      PROVE  Searched'
    BY <1>0, <1>t DEF Searched
<1>1. CASE OpenLibrary /\ UNCHANGED cameraVars
  <2>1. \A n \in Numbers : files[n] # Closed => files'[n] = files[n]
    <3>1. 0 \in Devices
        BY DescriptorsAssumption DEF Devices
    <3>2. QED
        BY <1>1, <1>t, <3>1, HeldByOpen DEF OpenLibrary
  <2>2. Open("camera", dev_name) # Closed
      BY DEF Open, Closed
  <2>3. robbed' = robbed
      BY <1>1 DEF OpenLibrary
  <2>4. QED
      BY <1>1, <1>t, <2>1, <2>2, <2>3 DEF Searched
<1>2. ASSUME NEW ok \in BOOLEAN, SetSystemProp(ok), UNCHANGED cameraVars
      PROVE  Searched'
  <2>1. lib \in Numbers \cup {NoFile} /\ CloseFile(lib, {"library"}) /\ lib # NoFile
      BY <1>2, <1>t DEF SetSystemProp, Typed, PowerTyped
  <2>2. ~robbed' => ~robbed /\ files[lib].kind \in {"library", "nothing"}
      BY <2>1 DEF CloseFile
  <2>3. \A n \in Numbers : n # lib => files'[n] = files[n]
      BY <2>1, <1>t DEF CloseFile, Typed, FilesTyped
  <2>4. Open("camera", dev_name).kind \notin {"library", "nothing"}
      BY DEF Open
  <2>5. QED
      BY <1>2, <1>t, <2>2, <2>3, <2>4 DEF Searched
<1>3. CASE PowerNext /\ UNCHANGED cameraVars
  <2>1. \/ OpenLibrary \/ \E ok \in BOOLEAN : SetSystemProp(ok)
        \/ UNCHANGED <<files, robbed>>
      BY <1>3 DEF PowerNext
  <2>2. QED
      BY <1>0, <1>1, <1>2, <1>3, <2>1
<1>4. CASE OpenSelected
  <2>1. dev_name' \in Names /\ OpenDevice(dev_name') /\ worker = "select"
      BY <1>4, <1>t, NamesRead DEF OpenSelected, Typed
  <2>2. Free # {}
      BY <1>t, <2>1, OneFree
  <2>3. PICK n \in Names : n = dev_name'
      BY <2>1
  <2>4. /\ Available => /\ n \in Devices /\ fd_to_send' \in Numbers
                        /\ files'[fd_to_send'] = Open("camera", n)
        /\ n \in Devices /\ plugged[n] = "camera" => Available
      BY <1>t, <2>1, <2>2, <2>3, DeviceOpened
  <2>5. /\ worker' = IF Available THEN "send" ELSE "close"
        /\ usable' = {d \in Devices : plugged[d] = "camera"} /\ i' = 0 /\ plugged' = plugged
      BY <1>4 DEF OpenSelected
  <2>6. \A d \in usable' : d \in Devices /\ d >= i' /\ plugged'[d] = "camera"
      BY <1>t, <2>5
  <2>7. CASE Available
    <3>1. worker' = "send"
        BY <2>5, <2>7
    <3>2. QED
        BY <2>3, <2>4, <2>6, <2>7, <3>1 DEF Searched
  <2>8. CASE ~Available
    <3>1. worker' = "close" /\ dev_name' \notin usable'
        BY <2>3, <2>4, <2>5, <2>8
    <3>2. QED
        BY <2>6, <3>1 DEF Searched
  <2>9. QED
      BY <2>7, <2>8
<1>5. CASE CloseTried
  <2>1. /\ worker = "close" /\ UNCHANGED <<dev_name, usable, plugged>> /\ i \in Devices
        /\ \A d \in usable : plugged[d] = "camera" /\ d >= i /\ d # dev_name
      BY <1>5, <1>t DEF CloseTried, Searched, Typed, CameraTyped
  <2>2. CASE i = dev_name
    <3>1. i' = i + 1 /\ worker' = IF i = LastDevice THEN "send" ELSE "close"
        BY <1>5, <2>2 DEF CloseTried
    <3>2. \A d \in usable : d >= i + 1
        BY <1>t, <2>1, <2>2
    <3>3. i = LastDevice => usable = {}
        BY <1>t, <3>2 DEF Devices
    <3>4. QED
        BY <2>1, <3>1, <3>2, <3>3 DEF Searched
  <2>3. CASE i # dev_name
    <3>1. i' = i /\ worker' = "open"
        BY <1>5, <2>3 DEF CloseTried
    <3>2. QED
        BY <2>1, <3>1 DEF Searched
  <2>4. QED
      BY <2>2, <2>3
<1>6. CASE OpenNext
  <2>1. /\ worker = "open" /\ UNCHANGED <<usable, plugged>> /\ i \in Devices /\ dev_name' = i
        /\ OpenDevice(i)
        /\ \A d \in usable : plugged[d] = "camera" /\ d >= i
      BY <1>6, <1>t DEF OpenNext, Searched, Typed, CameraTyped
  <2>2. Free # {} /\ i \in Names
      BY <1>t, <2>1, OneFree
  <2>3. PICK n \in Names : n = i
      BY <2>2
  <2>4. /\ Available => fd_to_send' \in Numbers /\ files'[fd_to_send'] = Open("camera", n)
        /\ n \in Devices /\ plugged[n] = "camera" => Available
      BY <1>t, <2>1, <2>2, <2>3, DeviceOpened
  <2>5. CASE Available
    <3>1. worker' = "send"
        BY <1>6, <2>5 DEF OpenNext
    <3>2. QED
        BY <2>1, <2>3, <2>4, <2>5, <3>1 DEF Searched
  <2>6. CASE ~Available
    <3>1. \A d \in usable : d >= i + 1
        BY <1>t, <2>1, <2>3, <2>4, <2>6
    <3>2. i = LastDevice => usable = {} /\ worker' = "send"
        BY <1>6, <1>t, <2>6, <3>1 DEF OpenNext, Devices
    <3>3. i # LastDevice => worker' = "close" /\ i' = i + 1
        BY <1>6, <2>6 DEF OpenNext
    <3>4. i \notin usable
        BY <1>t, <2>1, <3>1
    <3>5. QED
        BY <2>1, <3>1, <3>2, <3>3, <3>4 DEF Searched
  <2>7. QED
      BY <2>5, <2>6
<1>7. ASSUME NEW d \in Devices, NEW kind \in DeviceKinds, Plug(d, kind)
      PROVE  Searched'
  <2>1. /\ usable' = usable \ {d} /\ plugged' = [plugged EXCEPT ![d] = kind]
        /\ UNCHANGED <<worker, i, dev_name, fd_to_send, files, robbed>>
      BY <1>7 DEF Plug
  <2>2. \A e \in usable' : e \in usable /\ plugged'[e] = plugged[e]
      BY <1>t, <2>1
  <2>3. QED
      BY <1>t, <2>1, <2>2 DEF Searched
<1>8. ASSUME NEW sends \in BOOLEAN, NEW d \in Devices, Connect(sends) \/ StartSet(d) \/ FinishSet
      PROVE  Searched'
    BY <1>8, <1>t DEF Connect, StartSet, FinishSet, Searched
<1>9. CASE Accept \/ AcceptFails \/ Received \/ SendFile \/ CloseSent \/ CloseClient
    BY <1>9 DEF Accept, AcceptFails, Received, SendFile, CloseSent, CloseClient, RoundOver,
       Searched
<1>10. CASE CameraNext
  <2>1. 0 \in Devices /\ TRUE \in BOOLEAN
      BY DescriptorsAssumption DEF Devices
  <2>2. QED
      BY <1>4, <1>5, <1>6, <1>7, <1>8, <1>9, <1>10, <2>1 DEF CameraNext, Receive, TimeOut
<1>11. CASE Restart
    BY <1>11 DEF Restart, CameraRestart, RoundOver, Searched
<1>12. CASE UNCHANGED vars
    BY <1>0, <1>12 DEF vars
<1>13. QED
    BY <1>3, <1>10, <1>11, <1>12 DEF Next

\* With a descriptor for each of the three threads the worker sends an open camera under its
\* own name whenever one was plugged in all through the search, whatever was selected,
\* plugged in or out, or left in fd_to_send, and however many devices there are.
THEOREM CameraSent ==
    ASSUME MaxFiles >= 3
    PROVE  Spec => []CameraFound
<1>1. Init => FoundInv
  <2>1. Init => Held /\ Searched
      BY DEF Init, FilesInit, CameraInit, RoundInit, Held, Searched
  <2>2. QED
      BY <2>1, InitType DEF FoundInv
<1>2. FoundInv /\ [Next]_vars => FoundInv'
    BY NextType, HeldStep, SearchedStep DEF FoundInv
<1>3. FoundInv => CameraFound
  <2>1. NoFile \notin Numbers
      BY DEF NoFile, Numbers
  <2>2. QED
      BY <2>1 DEF FoundInv, Searched, CameraFound
<1>4. QED
    BY <1>1, <1>2, <1>3, PTL DEF Spec

-----------------------------------------------------------------------------
(* The requests that wait for the backend thread *)

\* No request of s is about q; the last one of s that is gives it the value v.
NoneFor(s, q) == \A k \in 1..Len(s) : s[k].prop # q
LastIs(s, q, v) ==
    \E k \in 1..Len(s) :
        /\ s[k].prop = q /\ s[k].value = v
        /\ \A j \in (k + 1)..Len(s) : s[j].prop # q

\* Where the members of a sequence are without its head, whatever they are.
LEMMA Shifted ==
    ASSUME NEW T, NEW s \in Seq(T), s # <<>>, NEW k \in 1..Len(s), k # 1
    PROVE  k - 1 \in 1..Len(Tail(s)) /\ Tail(s)[k - 1] = s[k]
OBVIOUS

\* A request that is appended is the last one about its property.
LEMMA Added ==
    ASSUME NEW s \in Seq(Requests), NEW r \in Requests, NEW q, NEW v
    PROVE  /\ r.prop = q /\ r.value = v => LastIs(Append(s, r), q, v)
           /\ r.prop # q /\ NoneFor(s, q) => NoneFor(Append(s, r), q)
           /\ r.prop # q /\ LastIs(s, q, v) => LastIs(Append(s, r), q, v)
<1> DEFINE t == Append(s, r)
<1>1. /\ Len(t) = Len(s) + 1 /\ Len(s) \in Nat
      /\ t[Len(s) + 1] = r
      /\ \A k \in 1..Len(s) : t[k] = s[k]
    OBVIOUS
<1> HIDE DEF t
<1>2. ASSUME r.prop = q, r.value = v
      PROVE  LastIs(t, q, v)
    BY <1>1, <1>2 DEF LastIs
<1>3. ASSUME r.prop # q, NoneFor(s, q)
      PROVE  NoneFor(t, q)
    BY <1>1, <1>3 DEF NoneFor
<1>4. ASSUME r.prop # q, LastIs(s, q, v)
      PROVE  LastIs(t, q, v)
  <2>1. PICK k \in 1..Len(s) : /\ s[k].prop = q /\ s[k].value = v
                               /\ \A j \in (k + 1)..Len(s) : s[j].prop # q
      BY <1>4 DEF LastIs
  <2>2. k \in 1..Len(t) /\ t[k] = s[k]
      BY <1>1
  <2>3. ASSUME NEW j \in (k + 1)..Len(t)
        PROVE  t[j].prop # q
    <3>1. CASE j = Len(s) + 1
        BY <1>1, <1>4, <3>1
    <3>2. CASE j # Len(s) + 1
      <4>1. j \in (k + 1)..Len(s) /\ j \in 1..Len(s)
          BY <1>1, <3>2
      <4>2. QED
          BY <1>1, <2>1, <4>1
    <3>3. QED
        BY <3>1, <3>2
  <2>4. QED
      BY <2>1, <2>2, <2>3 DEF LastIs
<1>5. QED
    BY <1>2, <1>3, <1>4 DEF t

\* What the queue says without its head.
LEMMA Taken ==
    ASSUME NEW s \in Seq(Requests), s # <<>>, NEW q, NEW v
    PROVE  /\ NoneFor(s, q) => NoneFor(Tail(s), q) /\ Head(s).prop # q
           /\ LastIs(s, q, v) =>
                \/ LastIs(Tail(s), q, v)
                \/ Head(s).prop = q /\ Head(s).value = v /\ NoneFor(Tail(s), q)
<1> DEFINE t == Tail(s)
<1>1. /\ Len(s) = Len(t) + 1 /\ Len(t) \in Nat
      /\ Head(s) = s[1]
      /\ \A k \in 1..Len(t) : t[k] = s[k + 1]
    OBVIOUS
<1> HIDE DEF t
<1>2. ASSUME NoneFor(s, q)
      PROVE  NoneFor(t, q) /\ Head(s).prop # q
    BY <1>1, <1>2 DEF NoneFor
<1>3. ASSUME LastIs(s, q, v)
      PROVE  \/ LastIs(t, q, v)
             \/ Head(s).prop = q /\ Head(s).value = v /\ NoneFor(t, q)
  <2>1. PICK k \in 1..Len(s) : /\ s[k].prop = q /\ s[k].value = v
                               /\ \A j \in (k + 1)..Len(s) : s[j].prop # q
      BY <1>3 DEF LastIs
  <2>2. CASE k = 1
    <3>1. \A j \in 1..Len(t) : j + 1 \in 2..Len(s) /\ t[j] = s[j + 1]
        BY <1>1
    <3>2. NoneFor(t, q)
        BY <2>1, <2>2, <3>1 DEF NoneFor
    <3>3. QED
        BY <1>1, <2>1, <2>2, <3>2
  <2>3. CASE k # 1
    <3>1. k - 1 \in 1..Len(t) /\ t[k - 1] = s[k]
        BY <1>1, <2>3
    <3>2. ASSUME NEW j \in ((k - 1) + 1)..Len(t)
          PROVE  t[j].prop # q
        BY <1>1, <2>1, <2>3
    <3>3. QED
        BY <2>1, <3>1, <3>2 DEF LastIs
  <2>4. QED
      BY <2>2, <2>3
<1>4. QED
    BY <1>2, <1>3 DEF t

-----------------------------------------------------------------------------
(* What was handed over is what is cached *)

Cached(q) == IF q = "battery_charging" THEN Charging(mPowerState) ELSE mBatteryPercent
NeverRead(q) == IF q = "battery_charging" THEN mPowerState = -1 ELSE mBatteryPercent = 0

\* The last request about q brings Android what is cached of it, or has brought it.
Told(q) ==
    /\ handed[q] =>
         \/ LastIs(queue, q, Cached(q))
         \/ NoneFor(queue, q) /\ (unset[q] \/ android[q] = Cached(q))
    /\ ~handed[q] => NoneFor(queue, q) /\ NeverRead(q)

AllTold == \A q \in Props : Told(q)

\* What an update appends for one property.
Handed(s, new, r) == IF new THEN Append(s, r) ELSE s

\* What is appended about another property changes nothing for q.
LEMMA OtherHanded ==
    ASSUME NEW s \in Seq(Requests), NEW new, NEW r \in Requests, NEW q, NEW v, r.prop # q
    PROVE  /\ NoneFor(s, q) => NoneFor(Handed(s, new, r), q)
           /\ LastIs(s, q, v) => LastIs(Handed(s, new, r), q, v)
<1>1. CASE new
    BY <1>1, Added DEF Handed
<1>2. CASE ~new
    BY <1>2 DEF Handed
<1>3. QED
    BY <1>1, <1>2

\* The first half of an update hands over the state it caches, if it is new, and
\* leaves the percentage alone.
LEMMA StateTells ==
    ASSUME PowerTyped, AllTold, NEW failed \in BOOLEAN, ReadState(failed),
           UNCHANGED <<android, unset>>
    PROVE  AllTold'
<1> DEFINE state == IF failed THEN -2 ELSE battery.state
           new == mPowerState # state
           q == "battery_charging"
           r == Request(q, Charging(state))
<1>1. state \in States \cup {-1, -2}
    BY DEF PowerTyped
<1>2. r \in Requests /\ r.prop = q /\ r.value = Charging(state)
    BY DEF Request, Charging, Requests, Props, Values
<1>3. queue \in Seq(Requests) /\ queue' = Handed(queue, new, r)
    BY DEF PowerTyped, ReadState, Handed
<1>4. mPowerState' = state /\ mBatteryPercent' = mBatteryPercent
    BY Zenon DEF ReadState
<1>5. /\ handed'[q] <=> (handed[q] \/ new)
      /\ handed'["battery_percent"] = handed["battery_percent"]
  <2>1. handed' = [handed EXCEPT ![q] = handed[q] \/ new]
      BY Zenon DEF ReadState
  <2>2. q \in Props /\ "battery_percent" # q /\ "battery_percent" \in Props
      BY DEF Props
  <2>3. handed \in [Props -> BOOLEAN]
      BY DEF PowerTyped
  <2> HIDE DEF new, q
  <2>4. QED
      BY <2>1, <2>2, <2>3, Zenon
<1>6. Told(q)'
  <2>1. Told(q) /\ Cached(q)' = Charging(state)
      BY <1>4 DEF AllTold, Props, Cached
  <2>2. CASE new
    <3>1. LastIs(queue', q, Charging(state))
        BY <1>2, <1>3, <2>2, Added DEF Handed
    <3>2. LastIs(queue, q, Cached(q))'
        BY <2>1, <3>1 DEF LastIs
    <3>3. QED
        BY <1>5, <2>2, <3>2 DEF Told
  <2>3. CASE ~new
    <3>1. queue' = queue /\ Cached(q)' = Cached(q) /\ (NeverRead(q) => NeverRead(q)')
        BY <1>3, <1>4, <2>3 DEF Handed, Cached, NeverRead
    <3>2. /\ NoneFor(queue, q) => NoneFor(queue, q)'
          /\ LastIs(queue, q, Cached(q)) => LastIs(queue, q, Cached(q))'
        BY <3>1 DEF NoneFor, LastIs
    <3>3. QED
        BY <1>5, <2>1, <2>3, <3>1, <3>2 DEF Told
  <2>4. QED
      BY <2>2, <2>3
<1>7. Told("battery_percent")'
  <2>1. /\ Told("battery_percent")
        /\ Cached("battery_percent")' = Cached("battery_percent")
        /\ NeverRead("battery_percent") => NeverRead("battery_percent")'
      BY <1>4 DEF AllTold, Props, Cached, NeverRead
  <2>2. r.prop # "battery_percent"
      BY <1>2
  <2>3. /\ NoneFor(queue, "battery_percent") => NoneFor(queue, "battery_percent")'
        /\ LastIs(queue, "battery_percent", Cached("battery_percent")) =>
              LastIs(queue, "battery_percent", Cached("battery_percent"))'
    <3> HIDE DEF r, new
    <3>1. /\ NoneFor(queue, "battery_percent") => NoneFor(queue', "battery_percent")
          /\ LastIs(queue, "battery_percent", Cached("battery_percent")) =>
                LastIs(queue', "battery_percent", Cached("battery_percent"))
        BY <1>2, <1>3, <2>2, OtherHanded
    <3>2. QED
        BY <2>1, <3>1 DEF NoneFor, LastIs
  <2>4. QED
      BY <1>5, <2>1, <2>3 DEF Told
<1>8. QED
    BY <1>6, <1>7 DEF AllTold, Props

\* The second half does so for the percentage.
LEMMA PercentTells ==
    ASSUME PowerTyped, AllTold, NEW failed \in BOOLEAN, ReadPercentage(failed)
    PROVE  AllTold'
<1> DEFINE percent == IF failed THEN 100 ELSE battery.percent
           new == mBatteryPercent # percent
           q == "battery_percent"
           r == Request(q, percent)
<1>1. percent \in Percents \cup {0, 100}
    BY DEF PowerTyped
<1>2. r \in Requests /\ r.prop = q /\ r.value = percent
    BY <1>1 DEF Request, Requests, Props, Values
<1>3. /\ queue \in Seq(Requests) /\ queue' = Handed(queue, new, r)
      /\ UNCHANGED <<android, unset>>
    BY DEF PowerTyped, ReadPercentage, Handed
<1>4. mBatteryPercent' = percent /\ mPowerState' = mPowerState
    BY Zenon DEF ReadPercentage
<1>5. /\ handed'[q] <=> (handed[q] \/ new)
      /\ handed'["battery_charging"] = handed["battery_charging"]
  <2>1. handed' = [handed EXCEPT ![q] = handed[q] \/ new]
      BY Zenon DEF ReadPercentage
  <2>2. q \in Props /\ "battery_charging" # q /\ "battery_charging" \in Props
      BY DEF Props
  <2>3. handed \in [Props -> BOOLEAN]
      BY DEF PowerTyped
  <2> HIDE DEF new, q
  <2>4. QED
      BY <2>1, <2>2, <2>3, Zenon
<1>6. Told(q)'
  <2>1. Told(q) /\ Cached(q)' = percent
      BY <1>4 DEF AllTold, Props, Cached
  <2>2. CASE new
    <3>1. LastIs(queue', q, percent)
        BY <1>2, <1>3, <2>2, Added DEF Handed
    <3>2. LastIs(queue, q, Cached(q))'
        BY <2>1, <3>1 DEF LastIs
    <3>3. QED
        BY <1>5, <2>2, <3>2 DEF Told
  <2>3. CASE ~new
    <3>1. queue' = queue /\ Cached(q)' = Cached(q) /\ (NeverRead(q) => NeverRead(q)')
        BY <1>3, <1>4, <2>3 DEF Handed, Cached, NeverRead
    <3>2. /\ NoneFor(queue, q) => NoneFor(queue, q)'
          /\ LastIs(queue, q, Cached(q)) => LastIs(queue, q, Cached(q))'
        BY <3>1 DEF NoneFor, LastIs
    <3>3. QED
        BY <1>3, <1>5, <2>1, <2>3, <3>1, <3>2 DEF Told
  <2>4. QED
      BY <2>2, <2>3
<1>7. Told("battery_charging")'
  <2>1. /\ Told("battery_charging")
        /\ Cached("battery_charging")' = Cached("battery_charging")
        /\ NeverRead("battery_charging") => NeverRead("battery_charging")'
      BY <1>4 DEF AllTold, Props, Cached, NeverRead
  <2>2. r.prop # "battery_charging"
      BY <1>2
  <2>3. /\ NoneFor(queue, "battery_charging") => NoneFor(queue, "battery_charging")'
        /\ LastIs(queue, "battery_charging", Cached("battery_charging")) =>
              LastIs(queue, "battery_charging", Cached("battery_charging"))'
    <3> HIDE DEF r, new
    <3>1. /\ NoneFor(queue, "battery_charging") => NoneFor(queue', "battery_charging")
          /\ LastIs(queue, "battery_charging", Cached("battery_charging")) =>
                LastIs(queue', "battery_charging", Cached("battery_charging"))
        BY <1>2, <1>3, <2>2, OtherHanded
    <3>2. QED
        BY <2>1, <3>1 DEF NoneFor, LastIs
  <2>4. QED
      BY <1>3, <1>5, <2>1, <2>3 DEF Told
<1>8. QED
    BY <1>6, <1>7 DEF AllTold, Props

\* What a step leaves alone stays told.
LEMMA LeftTold ==
    ASSUME AllTold, UNCHANGED <<queue, android, unset, handed, mPowerState, mBatteryPercent>>
    PROVE  AllTold'
BY DEF AllTold, Told, Cached, NeverRead, LastIs, NoneFor

\* The backend thread sets the property at the head of the queue, or marks it.
LEMMA BackendTells ==
    ASSUME PowerTyped, AllTold, NEW ok \in BOOLEAN, SetSystemProp(ok)
    PROVE  AllTold'
<1> DEFINE set == files[lib].kind = "library" /\ ok
<1>1. /\ queue \in Seq(Requests) /\ queue # <<>> /\ queue' = Tail(queue)
      /\ UNCHANGED <<handed, mPowerState, mBatteryPercent>>
    BY DEF SetSystemProp, PowerTyped, cacheVars
<1>2. /\ unset' = [unset EXCEPT ![Head(queue).prop] = ~set]
      /\ android' = IF set THEN [android EXCEPT ![Head(queue).prop] = Head(queue).value] ELSE android
    BY Zenon DEF SetSystemProp
<1>3. SUFFICES ASSUME NEW q \in Props
               PROVE  Told(q)'
    BY DEF AllTold
<1>4. Told(q) /\ Cached(q)' = Cached(q) /\ (NeverRead(q)' <=> NeverRead(q))
    BY <1>1 DEF AllTold, Cached, NeverRead
<1>5. /\ NoneFor(queue, q) => NoneFor(queue, q)' /\ Head(queue).prop # q
      /\ LastIs(queue, q, Cached(q)) =>
           \/ LastIs(queue, q, Cached(q))'
           \/ Head(queue).prop = q /\ Head(queue).value = Cached(q) /\ NoneFor(queue, q)'
    BY <1>1, <1>4, Taken DEF NoneFor, LastIs
<1>6. Head(queue).prop # q => unset'[q] = unset[q] /\ android'[q] = android[q]
    BY <1>2 DEF PowerTyped
<1>7. Head(queue).prop = q /\ Head(queue).value = Cached(q) => unset'[q] \/ android'[q] = Cached(q)
  <2>1. CASE set
      BY <1>2, <2>1 DEF PowerTyped
  <2>2. CASE ~set
    <3>1. Head(queue).prop = q => unset'[q]
        BY <1>2, <2>2, Zenon DEF PowerTyped
    <3>2. QED
        BY <3>1
  <2>3. QED
      BY <2>1, <2>2
<1>8. QED
    BY <1>1, <1>4, <1>5, <1>6, <1>7 DEF Told

-----------------------------------------------------------------------------
(* What is cached is what UPower says *)

\* Of the percentage only once it has been read too.
Fresh ==
    /\ mPowerState # -1
    /\ misread["battery_charging"] \/ Cached("battery_charging") = Current("battery_charging")
    /\ \/ reading \/ misread["battery_percent"]
       \/ Cached("battery_percent") = Current("battery_percent")

\* A battery that is not fresh will be read: at the start, for a change that waits,
\* or for the report that Android has booted.
Known ==
    /\ announced => booted
    /\ announced /\ ~missed /\ step # "read" =>
         Fresh \/ changed > 0 \/ \E k \in 1..Len(reported) : reported[k]

\* A state that has been read is fresh ...
LEMMA StateFreshens ==
    ASSUME PowerTyped, NEW failed \in BOOLEAN, ReadState(failed), UNCHANGED battery
    PROVE  Fresh'
<1>1. mPowerState' = (IF failed THEN -2 ELSE battery.state) /\ reading'
    BY Zenon DEF ReadState
<1>2. failed => misread'["battery_charging"]
  <2>1. misread' = [misread EXCEPT !["battery_charging"] = failed]
      BY Zenon DEF ReadState
  <2>2. "battery_charging" \in Props /\ misread \in [Props -> BOOLEAN]
      BY DEF Props, PowerTyped
  <2>3. QED
      BY <2>1, <2>2, Zenon
<1>3. mPowerState' # -1
    BY <1>1 DEF PowerTyped, States, Discharging
<1>4. ~failed => Cached("battery_charging")' = Current("battery_charging")'
    BY <1>1 DEF Cached, Current
<1>5. QED
    BY <1>1, <1>2, <1>3, <1>4 DEF Fresh

\* ... and stays so while the percentage is read.
LEMMA PercentFreshens ==
    ASSUME PowerTyped, Fresh, NEW failed \in BOOLEAN, ReadPercentage(failed)
    PROVE  Fresh'
<1>1. /\ mBatteryPercent' = (IF failed THEN 100 ELSE battery.percent)
      /\ UNCHANGED <<mPowerState, battery>>
    BY Zenon DEF ReadPercentage, hostVars
<1>2. /\ failed => misread'["battery_percent"]
      /\ misread'["battery_charging"] = misread["battery_charging"]
  <2>1. misread' = [misread EXCEPT !["battery_percent"] = failed]
      BY Zenon DEF ReadPercentage
  <2>2. /\ "battery_percent" \in Props /\ misread \in [Props -> BOOLEAN]
        /\ "battery_charging" \in Props /\ "battery_charging" # "battery_percent"
      BY DEF Props, PowerTyped
  <2>3. QED
      BY <2>1, <2>2, Zenon
<1>3. ~failed => Cached("battery_percent")' = Current("battery_percent")'
    BY <1>1 DEF Cached, Current
<1>4. /\ Cached("battery_charging")' = Cached("battery_charging")
      /\ Current("battery_charging")' = Current("battery_charging")
    BY <1>1 DEF Cached, Current
<1>5. QED
    BY <1>1, <1>2, <1>3, <1>4 DEF Fresh

\* A battery that is left alone stays fresh.
LEMMA LeftFresh ==
    ASSUME Fresh, UNCHANGED <<battery, mPowerState, mBatteryPercent, misread, reading>>
    PROVE  Fresh'
BY DEF Fresh, Cached, Current

BatteryInv == AllTold /\ Known

\* The main thread reads, if Android says that it has booted: both parts of the
\* invariant hold then, whatever they were about before.
LEMMA ReadKnown ==
    ASSUME PowerTyped, BatteryInv, OnUpdateBatteryState, UNCHANGED <<hostVars, android, unset>>
    PROVE  AllTold' /\ (announced' => booted') /\ (booted => Fresh' \/ missed')
<1> USE DEF hostVars, cacheVars
<1>1. ASSUME NEW failed \in BOOLEAN, ReadState(failed)
      PROVE  AllTold' /\ Fresh'
    BY <1>1, StateTells, StateFreshens DEF BatteryInv
<1>2. CASE LeaveBattery
    BY <1>2, LeftTold DEF LeaveBattery, BatteryInv, Known
<1>3. CASE NoAnswer
    BY <1>3, LeftTold DEF NoAnswer, BatteryInv, Known
<1>4. QED
    BY <1>1, <1>2, <1>3 DEF OnUpdateBatteryState, BatteryInv, Known

\* Each step of the host, the main thread and the backend thread keeps it.
LEMMA BatteryStep ==
    ASSUME PowerTyped, BatteryInv, PowerNext
    PROVE  BatteryInv'
<1> USE DEF hostVars, cacheVars, signalVars, backendVars, BatteryInv
<1>1. ASSUME NEW b \in [state : States, percent : Percents], BatteryChanges(b)
      PROVE  BatteryInv'
  <2>1. AllTold'
      BY <1>1, LeftTold DEF BatteryChanges
  <2>2. step # "read" => missed' \/ changed' > 0
    <3>1. CASE step = "watch"
        BY <1>1, <3>1 DEF BatteryChanges
    <3>2. CASE step \in {"connect", "loop"}
        BY <1>1, <3>2 DEF BatteryChanges, Watching, PowerTyped
    <3>3. QED
        BY <3>1, <3>2 DEF PowerTyped
  <2>3. UNCHANGED <<announced, booted, step>>
      BY <1>1 DEF BatteryChanges
  <2>4. QED
      BY <2>1, <2>2, <2>3 DEF Known
<1>2. CASE Boot
    BY <1>2, LeftTold, LeftFresh DEF Boot, Known
<1>3. ASSUME NEW ok \in BOOLEAN, Report(ok)
      PROVE  BatteryInv'
  <2>1. AllTold' /\ (announced' => booted')
      BY <1>3, LeftTold DEF Report, Known
  <2>2. UNCHANGED <<step, changed>> /\ (Fresh => Fresh')
      BY <1>3, LeftFresh DEF Report
  <2>3. reported \in Seq(BOOLEAN)
      BY DEF PowerTyped
  <2>4. CASE step = "loop"
    <3>1. reported' = Append(reported, ok) /\ missed' = missed
          /\ announced' = (announced \/ ok)
        BY <1>3, <2>4 DEF Report, PowerTyped
    <3>2. /\ \A k \in 1..Len(reported) : k \in 1..Len(reported') /\ reported'[k] = reported[k]
          /\ Len(reported) + 1 \in 1..Len(reported') /\ reported'[Len(reported) + 1] = ok
        BY <2>3, <3>1
    <3>3. CASE ok
        BY <2>1, <3>2, <3>3 DEF Known
    <3>4. CASE ~ok
        BY <2>1, <2>2, <3>1, <3>2, <3>4 DEF Known
    <3>5. QED
        BY <3>3, <3>4
  <2>5. CASE step \in {"watch", "connect"}
    <3>1. reported' = reported /\ (ok => missed') /\ (~missed' => ~missed)
          /\ (~ok /\ announced' => announced)
        BY <1>3, <2>5 DEF Report
    <3>2. QED
        BY <2>1, <2>2, <3>1 DEF Known
  <2>6. CASE step = "read"
      BY <2>1, <2>2, <2>6 DEF Known
  <2>7. QED
      BY <2>4, <2>5, <2>6 DEF PowerTyped
<1>4. CASE ReadAtStart
  <2>1. AllTold' /\ (announced' => booted') /\ (booted => Fresh' \/ missed')
      BY <1>4, ReadKnown DEF ReadAtStart
  <2>2. QED
      BY <1>4, <2>1 DEF ReadAtStart, Known
<1>5. CASE WatchBattery
    BY <1>5, LeftTold, LeftFresh DEF WatchBattery, Known, PowerTyped
<1>6. CASE InitConnections
    BY <1>6, LeftTold, LeftFresh DEF InitConnections, Known
<1>7. CASE OnPropertiesChanged
  <2>1. AllTold' /\ (announced' => booted') /\ (booted => Fresh' \/ missed')
      BY <1>7, ReadKnown DEF OnPropertiesChanged
  <2>2. QED
      BY <1>7, <2>1 DEF OnPropertiesChanged, Known
<1>8. CASE OnContainerEnvBooted
  <2>1. CASE ~completed /\ Head(reported)
    <3>1. AllTold' /\ (announced' => booted') /\ (booted => Fresh' \/ missed')
        BY <1>8, <2>1, ReadKnown DEF OnContainerEnvBooted
    <3>2. QED
        BY <1>8, <3>1 DEF OnContainerEnvBooted, Known
  <2>2. CASE ~(~completed /\ Head(reported))
    <3>1. /\ missed' = (missed \/ Head(reported)) /\ reported' = Tail(reported)
          /\ UNCHANGED <<cacheVars, queue, step, reading, changed, hostVars, android, unset>>
        BY <1>8, <2>2, Zenon DEF OnContainerEnvBooted
    <3>2. AllTold' /\ (Fresh => Fresh')
        BY <3>1, LeftTold, LeftFresh
    <3>3. reported \in Seq(BOOLEAN) /\ reported # <<>>
        BY <1>8 DEF OnContainerEnvBooted, PowerTyped
    <3>4. ASSUME NEW k \in 1..Len(reported), reported[k], ~Head(reported)
          PROVE  \E j \in 1..Len(reported') : reported'[j]
      <4>1. k # 1
        <5>1. Head(reported) = reported[1]
            BY <3>3
        <5>2. QED
            BY <3>4, <5>1, Zenon
      <4>2. k - 1 \in 1..Len(reported') /\ reported'[k - 1] = reported[k]
        <5>1. k - 1 \in 1..Len(Tail(reported)) /\ Tail(reported)[k - 1] = reported[k]
            BY <3>3, <4>1, Shifted
        <5>2. QED
            BY <3>1, <5>1, Zenon
      <4>3. QED
          BY <3>4, <4>2, Zenon
    <3>5. ~missed' => ~missed /\ ~Head(reported)
        BY <3>1, Zenon
    <3>6. QED
        BY <3>1, <3>2, <3>4, <3>5 DEF Known
  <2>3. QED
      BY <2>1, <2>2
<1>9. CASE OpenLibrary
    BY <1>9, LeftTold, LeftFresh DEF OpenLibrary, Known
<1>10. ASSUME NEW ok \in BOOLEAN, SetSystemProp(ok)
       PROVE  BatteryInv'
  <2>1. AllTold'
      BY <1>10, BackendTells
  <2>2. UNCHANGED <<hostVars, cacheVars, signalVars>>
      BY <1>10 DEF SetSystemProp
  <2>3. QED
      BY <2>1, <2>2, LeftFresh DEF Known
<1>11. ASSUME NEW failed \in BOOLEAN, ReadPercentage(failed)
       PROVE  BatteryInv'
  <2>1. AllTold'
      BY <1>11, PercentTells
  <2>2. UNCHANGED <<announced, booted, missed, step, changed, reported>>
      BY <1>11 DEF ReadPercentage
  <2>3. QED
      BY <1>11, <2>1, <2>2, PercentFreshens DEF Known
<1>12. QED
    BY <1>1, <1>2, <1>3, <1>4, <1>5, <1>6, <1>7, <1>8, <1>9, <1>10, <1>11 DEF PowerNext

\* Once Android has booted, has said so and the manager has nothing left to do, the
\* battery Android shows is the host's, whatever came in which order before, but for
\* a call that failed, a signal nobody was connected to, and an empty battery.
THEOREM BatteryIsKnown == Spec => []BatteryKnown
<1>1. Init => BatteryInv
  <2> SUFFICES ASSUME Init
               PROVE  BatteryInv
      OBVIOUS
  <2>1. queue = <<>> /\ step = "read" /\ mPowerState = -1 /\ mBatteryPercent = 0
        /\ announced = booted
      BY DEF Init, PowerInit
  <2>2. \A q \in Props : ~handed[q]
      BY Zenon DEF Init, PowerInit
  <2>3. QED
      BY <2>1, <2>2 DEF BatteryInv, AllTold, Told, Known, NoneFor, NeverRead
<1>2. Typed /\ BatteryInv /\ [Next]_vars => BatteryInv'
  <2> SUFFICES ASSUME Typed, BatteryInv, [Next]_vars
               PROVE  BatteryInv'
      OBVIOUS
  <2>1. CASE PowerNext
      BY <2>1, BatteryStep DEF Typed
  <2>2. CASE UNCHANGED powerVars
      BY <2>2, LeftTold, LeftFresh
      DEF powerVars, hostVars, cacheVars, signalVars, backendVars, BatteryInv, Known
  <2>3. CASE Restart
    <3>1. /\ queue' = <<>> /\ step' = "read" /\ mPowerState' = -1 /\ mBatteryPercent' = 0
          /\ UNCHANGED hostVars
        BY <2>3 DEF Restart, PowerRestart
    <3>2. \A q \in Props : ~handed'[q]
        BY <2>3, Zenon DEF Restart, PowerRestart
    <3>3. QED
        BY <3>1, <3>2 DEF BatteryInv, AllTold, Told, Known, NoneFor, NeverRead, hostVars
  <2>4. QED
      BY <2>1, <2>2, <2>3 DEF Next, vars
<1>3. Typed /\ BatteryInv => BatteryKnown
  <2> SUFFICES ASSUME Typed, BatteryInv, AtRest, announced, ~missed, NEW q \in Props
               PROVE  \/ misread[q] \/ unset[q]
                      \/ android[q] = Current(q)
                      \/ q = "battery_percent" /\ Current(q) = 0 /\ ~handed[q]
      BY DEF BatteryKnown
  <2>1. queue = <<>> /\ reported = <<>> /\ changed = 0 /\ step = "loop" /\ ~reading
      BY DEF AtRest
  <2>2. misread[q] \/ Cached(q) = Current(q)
      BY <2>1 DEF BatteryInv, Known, Fresh, Props
  <2>3. ~LastIs(queue, q, Cached(q))
      BY <2>1 DEF LastIs
  <2>4. CASE handed[q]
      BY <2>2, <2>3, <2>4 DEF BatteryInv, AllTold, Told
  <2>5. CASE ~handed[q]
    <3>1. NeverRead(q)
        BY <2>5 DEF BatteryInv, AllTold, Told
    <3>2. /\ q = "battery_charging" => mPowerState = -1
          /\ q # "battery_charging" => mBatteryPercent = 0
        BY <3>1 DEF NeverRead
    <3>3. mPowerState # -1
        BY <2>1 DEF BatteryInv, Known, Fresh
    <3>4. QED
        BY <2>2, <2>5, <3>2, <3>3 DEF Cached, Props
  <2>6. QED
      BY <2>4, <2>5
<1>4. QED
    BY <1>1, <1>2, <1>3, InitType, NextType, PTL DEF Spec
=============================================================================
