------------------------------- MODULE Camera -------------------------------
(***************************************************************************)
(* The camera of the host for Android (CameraService): a thread of the     *)
(* manager accepts one client at a time, opens the selected camera, or the *)
(* first of /dev/video0, 1, ... that is one, and sends the descriptor.     *)
(* The main thread sets the selection meanwhile, without a lock, and       *)
(* devices are plugged in and out.                                         *)
(***************************************************************************)
EXTENDS Descriptors, Sequences

CONSTANTS
    MaxClients,     \* clients that connect
    MaxPlugs,       \* times a device is plugged in or out
    MaxSets         \* calls of setCameraDevice

ASSUME CameraAssumption == MaxClients \in Nat /\ MaxPlugs \in Nat /\ MaxSets \in Nat

Junk == LastDevice + 1      \* a name that opens nothing, such as the empty one
Names == Devices \cup {Junk}
Nobody == LastDevice + 2    \* no call of setCameraDevice is under way
DeviceKinds == {"absent", "video", "camera"}

VARIABLES
    plugged,    \* plugged[d]: what /dev/video<d> is
    backlog,    \* clients that wait; TRUE: they send what the worker waits for
    m_cameraDeviceName,
    setting,    \* the device setCameraDevice is assigning to it
    worker,     \* where the worker is
    com_fd, fd_to_send, dev_name, i,
    talks,      \* the client under way sends
    clients, plugs, sets,
    wanted,     \* history: the device selected last
    dropped,    \* history: the selection could not be kept
    usable,     \* history: devices that were cameras all through this round
    twice       \* history: the worker has closed a number twice

deviceVars == <<plugged, plugs, usable>>
clientVars == <<backlog, clients>>
selectVars == <<m_cameraDeviceName, setting, sets, wanted, dropped>>
workerVars == <<worker, com_fd, fd_to_send, dev_name, i, talks, twice>>
cameraVars == <<deviceVars, clientVars, selectVars, workerVars>>

\* Between two rounds the worker's variables hold nothing that is read again.
RoundInit ==
    /\ worker = "accept"
    /\ com_fd = NoFile /\ fd_to_send = NoFile /\ dev_name = Junk /\ i = 0
    /\ talks = TRUE /\ usable = {}

RoundOver ==
    /\ worker' = "accept"
    /\ com_fd' = NoFile /\ fd_to_send' = NoFile /\ dev_name' = Junk /\ i' = 0
    /\ talks' = TRUE /\ usable' = {}

\* The selection is read from kmre.ini.  The listening socket is there: a failure
\* before the loop ends the worker at once.  Clients, devices and calls
\* come, or they do not.
CameraInit ==
    /\ plugged \in [Devices -> DeviceKinds]
    /\ backlog = <<>>
    /\ m_cameraDeviceName \in Names
    /\ setting = Nobody
    /\ RoundInit /\ twice = FALSE
    /\ clients \in {0, MaxClients} /\ plugs \in {0, MaxPlugs} /\ sets \in {0, MaxSets}
    /\ wanted = m_cameraDeviceName
    /\ dropped = FALSE

-----------------------------------------------------------------------------
(* Devices and clients *)

Plug(d, kind) ==
    /\ plugged[d] # kind
    /\ plugs < MaxPlugs
    /\ plugs' = plugs + 1
    /\ plugged' = [plugged EXCEPT ![d] = kind]
    /\ usable' = usable \ {d}
    /\ UNCHANGED <<clientVars, selectVars, workerVars, files, robbed>>

Connect(sends) ==
    /\ worker # "ended"
    /\ clients < MaxClients
    /\ clients' = clients + 1
    /\ backlog' = Append(backlog, sends)
    /\ UNCHANGED <<deviceVars, selectVars, workerVars, files, robbed>>

-----------------------------------------------------------------------------
(* The main thread: the assignment of a QString takes more than one step *)

StartSet(d) ==
    /\ setting = Nobody
    /\ sets < MaxSets
    /\ sets' = sets + 1
    /\ setting' = d
    /\ UNCHANGED <<m_cameraDeviceName, wanted, dropped, deviceVars, clientVars, workerVars,
                   files, robbed>>

\* A round that has read the name before will put its own device in its place.
Searching == worker \in {"close", "open", "send"}

FinishSet ==
    /\ setting # Nobody
    /\ m_cameraDeviceName' = setting
    /\ wanted' = setting
    /\ setting' = Nobody
    /\ dropped' = Searching
    /\ UNCHANGED <<sets, deviceVars, clientVars, workerVars, files, robbed>>

-----------------------------------------------------------------------------
(* The worker *)

Accept ==
    /\ worker = "accept" /\ backlog # <<>> /\ Free # {}
    /\ com_fd' = Lowest(Free)
    /\ OpenFile("client", 0)
    /\ talks' = Head(backlog)
    /\ backlog' = Tail(backlog)
    /\ worker' = "receive"
    /\ UNCHANGED <<robbed, clients, fd_to_send, dev_name, i, twice, deviceVars, selectVars>>

\* An accept that fails ends the worker for good.
AcceptFails ==
    /\ worker = "accept" /\ backlog # <<>>
    /\ worker' = "ended"
    /\ UNCHANGED <<com_fd, fd_to_send, dev_name, i, talks, twice, deviceVars, clientVars,
                   selectVars, files, robbed>>

\* What the client sends is not looked at, and neither is whether it does.
Received ==
    /\ worker = "receive"
    /\ worker' = "select"
    /\ UNCHANGED <<com_fd, fd_to_send, dev_name, i, talks, twice, deviceVars, clientVars,
                   selectVars, files, robbed>>

\* Wrong form: the socket is given no timeout.
TimeOut_Never == FALSE

Receive == talks /\ Received
TimeOut == ~talks /\ Received

\* open of /dev/video<n> for fd_to_send.
OpenDevice(n) ==
    IF n \in Devices /\ plugged[IF n \in Devices THEN n ELSE 0] # "absent" /\ Free # {}
      THEN /\ fd_to_send' = Lowest(Free)
           /\ OpenFile(plugged[n], n)
      ELSE fd_to_send' = NoFile /\ UNCHANGED files

\* The file just opened is one of a camera (isAvailableCamera).
Available == fd_to_send' # NoFile /\ files'[fd_to_send'].kind = "camera"

\* Wrong form: the selected device is opened, and the search goes on all the same.
OpenSelected_Search ==
    /\ worker = "select"
    /\ \E n \in (IF setting = Nobody THEN {m_cameraDeviceName}
                 ELSE {m_cameraDeviceName, setting, Junk}) :
          /\ dev_name' = n
          /\ OpenDevice(n)
    /\ worker' = "close"
    /\ i' = 0
    /\ dropped' = (dropped \/ dev_name' # wanted \/ ~Available)
    /\ usable' = {d \in Devices : plugged[d] = "camera"}
    /\ UNCHANGED <<robbed, com_fd, talks, twice, plugged, plugs, clientVars,
                   m_cameraDeviceName, setting, sets, wanted>>

\* While the main thread assigns the name the worker may read anything.
OpenSelected ==
    /\ worker = "select"
    /\ \E n \in (IF setting = Nobody THEN {m_cameraDeviceName}
                 ELSE {m_cameraDeviceName, setting, Junk}) :
          /\ dev_name' = n
          /\ OpenDevice(n)
    /\ worker' = IF Available THEN "send" ELSE "close"
    /\ i' = 0
    /\ dropped' = (dropped \/ dev_name' # wanted \/ ~Available)
    /\ usable' = {d \in Devices : plugged[d] = "camera"}
    /\ UNCHANGED <<robbed, com_fd, talks, twice, plugged, plugs, clientVars,
                   m_cameraDeviceName, setting, sets, wanted>>

\* The head of the search: the last file is closed; the device that was selected
\* is not tried again, and fd_to_send keeps the number of a file that is closed.
CloseTried ==
    /\ worker = "close"
    /\ CloseFile(fd_to_send, {"camera", "video"})
    /\ IF i = dev_name
         THEN /\ i' = i + 1
              /\ worker' = IF i = LastDevice THEN "send" ELSE "close"
              /\ twice' = (twice \/ fd_to_send # NoFile)
         ELSE worker' = "open" /\ UNCHANGED <<i, twice>>
    /\ UNCHANGED <<com_fd, fd_to_send, dev_name, talks, deviceVars, clientVars, selectVars>>

\* Wrong form: the last device is never tried.
OpenNext_Short ==
    /\ worker = "open"
    /\ OpenDevice(i)
    /\ dev_name' = i
    /\ IF Available \/ i + 1 = LastDevice
         THEN worker' = "send" /\ UNCHANGED i
         ELSE worker' = "close" /\ i' = i + 1
    /\ UNCHANGED <<robbed, com_fd, talks, twice, deviceVars, clientVars, selectVars>>

\* Wrong form: an open that fails leaves the last number in fd_to_send.
OpenNext_Stale ==
    /\ worker = "open"
    /\ IF plugged[i] # "absent" THEN OpenDevice(i) ELSE UNCHANGED <<fd_to_send, files>>
    /\ dev_name' = i
    /\ IF Available \/ i = LastDevice
         THEN worker' = "send" /\ UNCHANGED i
         ELSE worker' = "close" /\ i' = i + 1
    /\ UNCHANGED <<robbed, com_fd, talks, twice, deviceVars, clientVars, selectVars>>

OpenNext ==
    /\ worker = "open"
    /\ OpenDevice(i)
    /\ dev_name' = i
    /\ IF Available \/ i = LastDevice
         THEN worker' = "send" /\ UNCHANGED i
         ELSE worker' = "close" /\ i' = i + 1
    /\ UNCHANGED <<robbed, com_fd, talks, twice, deviceVars, clientVars, selectVars>>

\* The device sent becomes the selected one, even one that is no camera.
SendFile ==
    /\ worker = "send"
    /\ m_cameraDeviceName' = IF fd_to_send # NoFile THEN dev_name ELSE m_cameraDeviceName
    /\ worker' = "closeFile"
    /\ UNCHANGED <<com_fd, fd_to_send, dev_name, i, talks, twice, setting, sets, wanted, dropped,
                   deviceVars, clientVars, files, robbed>>

CloseSent ==
    /\ worker = "closeFile"
    /\ CloseFile(fd_to_send, {"camera", "video"})
    /\ worker' = "closeClient"
    /\ UNCHANGED <<com_fd, fd_to_send, dev_name, i, talks, twice, deviceVars, clientVars, selectVars>>

CloseClient ==
    /\ worker = "closeClient"
    /\ CloseFile(com_fd, {"client"})
    /\ RoundOver
    /\ UNCHANGED <<twice, plugged, plugs, clientVars, selectVars>>

-----------------------------------------------------------------------------

\* The manager's exit; the selection is read from the file again.
CameraRestart ==
    /\ RoundOver /\ twice' = FALSE
    /\ backlog' = <<>>
    /\ setting' = Nobody
    /\ m_cameraDeviceName' \in Names
    /\ wanted' = m_cameraDeviceName'
    /\ dropped' = FALSE
    /\ UNCHANGED <<plugged, plugs, clients, sets>>

WorkerNext ==
    \/ Accept \/ Receive \/ TimeOut \/ OpenSelected \/ CloseTried \/ OpenNext
    \/ SendFile \/ CloseSent \/ CloseClient

CameraNext ==
    \/ \E d \in Devices, kind \in DeviceKinds : Plug(d, kind)
    \/ \E sends \in BOOLEAN : Connect(sends)
    \/ \E d \in Devices : StartSet(d)
    \/ FinishSet
    \/ Accept \/ AcceptFails \/ Receive \/ TimeOut \/ OpenSelected \/ CloseTried
    \/ OpenNext \/ SendFile \/ CloseSent \/ CloseClient

-----------------------------------------------------------------------------

\* The worker closes a file of another thread only after the device that was
\* selected has opened and was no camera, and is the first of the search: it
\* then closes the same number twice, and a thread may have got it in between.
OthersFilesKept == robbed => twice

\* A client gets a camera whenever one was plugged in all through the search,
\* whichever was selected, and under the name of the device that was opened.
CameraFound ==
    worker = "send" /\ usable # {} /\ ~robbed =>
        fd_to_send # NoFile /\ files[fd_to_send] = Open("camera", dev_name)

\* The selection stays, unless a round found it to be no camera, read it while
\* it was assigned, or was under way when it was assigned.
SelectionKept == dropped \/ m_cameraDeviceName = wanted

\* The worker comes to every client, and a client that sends nothing does not
\* keep it from the next.
ClientsServed ==
    backlog # <<>> ~> (worker = "accept" /\ backlog = <<>>) \/ worker = "ended"
============================================================================
