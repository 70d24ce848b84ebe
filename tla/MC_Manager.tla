---------------------------- MODULE MC_Manager ----------------------------
(* The battery and Android change while no camera is asked for; or the camera's
   clients come to a manager that has just started in a host that is quiet,
   while a device is plugged or a camera is selected. *)
EXTENDS Manager

MCPercents == {0, 50}

QuietCamera ==
    /\ clients = MaxClients /\ plugs = MaxPlugs /\ sets = MaxSets
    /\ plugged = [d \in Devices |-> "absent"] /\ m_cameraDeviceName = Junk
    /\ changes = 0 /\ faults = 0
    /\ battery \in {[state |-> Discharging, percent |-> 50], [state |-> 1, percent |-> 0]}

QuietHost ==
    /\ changes = MaxChanges /\ faults = MaxFaults /\ starts = MaxStarts
    /\ battery = [state |-> Discharging, percent |-> 0] /\ booted
    /\ clients = 0 /\ (plugs = MaxPlugs \/ sets = MaxSets)

MCInit == Init /\ (QuietCamera \/ QuietHost)

MCSpec == MCInit /\ [][Next]_vars /\ Fairness
============================================================================
