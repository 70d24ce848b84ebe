------------------------------ MODULE Manager ------------------------------
(***************************************************************************)
(* The manager's threads in one process: the main thread, the backend      *)
(* thread that loads libkmre.so for every request, and the camera worker.  *)
(* They share the descriptors, and end together.                           *)
(***************************************************************************)
EXTENDS Power, Camera

vars == <<powerVars, cameraVars, files, robbed>>

Init == PowerInit /\ CameraInit /\ FilesInit

\* quit, commitData, or a crash: the threads end where they are.
Restart == PowerRestart /\ CameraRestart /\ files' = [n \in Numbers |-> Closed] /\ robbed' = FALSE

Next ==
    \/ PowerNext /\ UNCHANGED cameraVars
    \/ CameraNext /\ UNCHANGED powerVars
    \/ Restart

\* The camera's thread runs.
Fairness == WF_vars(WorkerNext /\ UNCHANGED powerVars)

Spec == Init /\ [][Next]_vars /\ Fairness

TypeOK ==
    /\ battery \in [state : States, percent : Percents]
    /\ booted \in BOOLEAN /\ announced \in BOOLEAN /\ completed \in BOOLEAN /\ missed \in BOOLEAN
    /\ android \in [Props -> {Unknown, 0, 1, 100} \cup Percents]
    /\ step \in {"read", "watch", "connect", "loop"} /\ reading \in BOOLEAN
    /\ mPowerState \in States \cup {-1, -2} /\ mBatteryPercent \in Percents \cup {0, 100}
    /\ changed \in Nat /\ reported \in Seq(BOOLEAN)
    /\ queue \in Seq([prop : Props, value : {0, 1, 100} \cup Percents])
    /\ lib \in Numbers \cup {NoFile}
    /\ misread \in [Props -> BOOLEAN] /\ unset \in [Props -> BOOLEAN]
    /\ handed \in [Props -> BOOLEAN]
    /\ plugged \in [Devices -> DeviceKinds]
    /\ backlog \in Seq(BOOLEAN) /\ talks \in BOOLEAN
    /\ m_cameraDeviceName \in Names /\ wanted \in Names /\ dev_name \in Names
    /\ setting \in Devices \cup {Nobody}
    /\ worker \in {"accept", "receive", "select", "close", "open", "send", "closeFile",
                   "closeClient", "ended"}
    /\ com_fd \in Numbers \cup {NoFile} /\ fd_to_send \in Numbers \cup {NoFile}
    /\ i \in 0..(LastDevice + 1)
    /\ dropped \in BOOLEAN /\ usable \subseteq Devices /\ twice \in BOOLEAN
    /\ files \in [Numbers -> Files] /\ robbed \in BOOLEAN
============================================================================
