------------------------------- MODULE Power -------------------------------
(***************************************************************************)
(* The battery of the host as Android sees it: PowerManager reads UPower   *)
(* when the manager starts, on every PropertiesChanged of the battery, and *)
(* once Android has booted; it keeps what it has read, and hands what has  *)
(* changed to the backend thread, which loads libkmre.so for every request *)
(* and sets the property.  Nothing is handed over twice.                   *)
(***************************************************************************)
EXTENDS Descriptors, Integers, Sequences

CONSTANTS
    Percents,       \* the charges of the battery
    MaxChanges,     \* times the battery changes
    MaxReports,     \* signals containerEnvBooted
    MaxFaults,      \* calls that fail
    MaxStarts       \* times the manager is started again

ASSUME PowerAssumption ==
    /\ Percents \subseteq 0..100 /\ Percents # {}
    /\ MaxChanges \in Nat /\ MaxReports \in Nat /\ MaxFaults \in Nat /\ MaxStarts \in Nat

Discharging == 2
States == {1, Discharging}  \* of UPower: 1 is charging
Props == {"battery_charging", "battery_percent"}

VARIABLES
    battery,    \* what UPower says
    booted,     \* sys.kmre.boot_completed is "1"
    announced,  \* Android has reported that it has booted
    android,    \* android[q]: the value of the property q in the container
    step,       \* where the main thread is
    reading,    \* it has asked UPower for the state and not yet for the percentage
    mPowerState, mBatteryPercent,
    completed,  \* onContainerEnvBooted has run (static)
    changed,    \* PropertiesChanged that wait for the event loop
    reported,   \* containerEnvBooted that wait for the event loop
    queue,      \* requests that wait for the backend thread
    lib,        \* the descriptor of libkmre.so while dlopen reads it
    changes, reports, faults, starts,
    missed,     \* history: the battery or the boot went on and nothing was read for it
    misread,    \* history: misread[q]: UPower did not answer the last question
    unset,      \* history: unset[q]: the last request did not reach Android
    handed      \* history: handed[q]: a request was made since the start

hostVars == <<battery, booted, announced, changes, reports>>
cacheVars == <<mPowerState, mBatteryPercent, misread, handed>>
signalVars == <<step, reading, completed, changed, reported, missed>>
backendVars == <<queue, lib, android, unset>>
powerVars == <<hostVars, cacheVars, signalVars, backendVars, faults, starts>>

Request(q, v) == [prop |-> q, value |-> v]

\* What Android is told; a value the container came with is the model's -1.
Charging(state) == IF state = Discharging THEN 0 ELSE 1
Unknown == -1

\* Either the host goes on changing or it does not, and calls fail or do not.
PowerInit ==
    /\ battery \in [state : States, percent : Percents]
    /\ booted \in BOOLEAN
    /\ announced = booted
    /\ android = [q \in Props |-> Unknown]
    /\ mPowerState = -1 /\ mBatteryPercent = 0
    /\ misread = [q \in Props |-> FALSE] /\ handed = misread
    /\ step = "read" /\ reading = FALSE /\ completed = FALSE /\ changed = 0 /\ reported = <<>>
    /\ missed = FALSE
    /\ queue = <<>> /\ lib = NoFile
    /\ unset = [q \in Props |-> FALSE]
    /\ \/ changes = 0 /\ reports = 0
       \/ changes = MaxChanges /\ reports = MaxReports
    /\ faults \in {0, MaxFaults} /\ starts \in {0, MaxStarts}

-----------------------------------------------------------------------------
(* The host and the container *)

Watching == step \in {"connect", "loop"}

\* UPower's signal finds the manager once it has connected to it.
BatteryChanges(b) ==
    /\ b # battery
    /\ changes < MaxChanges
    /\ changes' = changes + 1
    /\ battery' = b
    /\ changed' = IF Watching THEN changed + 1 ELSE changed
    /\ missed' = (missed \/ step = "watch")
    /\ UNCHANGED <<booted, announced, reports, step, reading, completed, reported,
                   cacheVars, backendVars, faults, starts>>

Boot ==
    /\ ~booted
    /\ booted' = TRUE
    /\ UNCHANGED <<battery, announced, changes, reports, cacheVars, signalVars, backendVars,
                   faults, starts>>

\* The window's signal containerEnvBooted; a failure may be reported first.
Report(ok) ==
    /\ ok => booted
    /\ reports < MaxReports
    /\ reports' = reports + 1
    /\ announced' = (announced \/ ok)
    /\ reported' = IF step = "loop" THEN Append(reported, ok) ELSE reported
    /\ missed' = (missed \/ (ok /\ step \in {"watch", "connect"}))
    /\ UNCHANGED <<battery, booted, changes, step, reading, completed, changed, cacheVars, backendVars,
                   faults, starts>>

-----------------------------------------------------------------------------
(* The main thread *)

\* One of UPower's two answers, which may fail.
Answer(failed) ==
    /\ failed => faults < MaxFaults
    /\ faults' = IF failed THEN faults + 1 ELSE faults

\* Wrong form: returns as soon as the state is found to be the old one.
ReadState_Returns(failed) ==
    LET state == IF failed THEN -2 ELSE battery.state
        new == mPowerState # state
    IN  /\ Answer(failed)
        /\ mPowerState' = state
        /\ queue' = IF new THEN Append(queue, Request("battery_charging", Charging(state))) ELSE queue
        /\ handed' = [handed EXCEPT !["battery_charging"] = handed["battery_charging"] \/ new]
        /\ misread' = [misread EXCEPT !["battery_charging"] = failed]
        /\ reading' = new /\ missed' = FALSE
        /\ UNCHANGED mBatteryPercent

\* The first half of onUpdateBatteryState: UPower's state is kept, and handed over
\* if it is new.
ReadState(failed) ==
    LET state == IF failed THEN -2 ELSE battery.state
        new == mPowerState # state
    IN  /\ Answer(failed)
        /\ mPowerState' = state
        /\ queue' = IF new THEN Append(queue, Request("battery_charging", Charging(state))) ELSE queue
        /\ handed' = [handed EXCEPT !["battery_charging"] = handed["battery_charging"] \/ new]
        /\ misread' = [misread EXCEPT !["battery_charging"] = failed]
        /\ reading' = TRUE /\ missed' = FALSE
        /\ UNCHANGED mBatteryPercent

\* The second half, for the percentage; the battery may have changed since.
ReadPercentage(failed) ==
    LET percent == IF failed THEN 100 ELSE battery.percent
        new == mBatteryPercent # percent
    IN  /\ reading
        /\ reading' = FALSE
        /\ Answer(failed)
        /\ mBatteryPercent' = percent
        /\ queue' = IF new THEN Append(queue, Request("battery_percent", percent)) ELSE queue
        /\ handed' = [handed EXCEPT !["battery_percent"] = handed["battery_percent"] \/ new]
        /\ misread' = [misread EXCEPT !["battery_percent"] = failed]
        /\ UNCHANGED <<mPowerState, step, completed, changed, reported, missed, hostVars,
                       lib, android, unset, starts>>

\* Nothing is read before Android has booted ...
LeaveBattery == ~booted /\ UNCHANGED <<cacheVars, queue, faults, missed, reading>>

\* ... nor when the container does not tell boot_completed.
NoAnswer ==
    /\ booted /\ Answer(TRUE)
    /\ missed' = TRUE
    /\ UNCHANGED <<cacheVars, queue, reading>>

OnUpdateBatteryState ==
    \/ booted /\ \E failed \in BOOLEAN : ReadState(failed)
    \/ LeaveBattery
    \/ NoAnswer

\* The constructor of PowerManager reads first and then asks for the signals ...
ReadAtStart ==
    /\ step = "read"
    /\ step' = "watch"
    /\ OnUpdateBatteryState
    /\ UNCHANGED <<completed, changed, reported, hostVars, lib, android, unset, starts>>

WatchBattery ==
    /\ step = "watch" /\ ~reading
    /\ step' = "connect"
    /\ UNCHANGED <<reading, completed, changed, reported, missed, hostVars, cacheVars, backendVars,
                   faults, starts>>

\* ... and initConnections for the container's.
InitConnections ==
    /\ step = "connect"
    /\ step' = "loop"
    /\ UNCHANGED <<reading, completed, changed, reported, missed, hostVars, cacheVars, backendVars,
                   faults, starts>>

OnPropertiesChanged ==
    /\ step = "loop" /\ ~reading /\ changed > 0
    /\ changed' = changed - 1
    /\ OnUpdateBatteryState
    /\ UNCHANGED <<step, completed, reported, hostVars, lib, android, unset, starts>>

\* Only the first report counts, be it a failure.
OnContainerEnvBooted ==
    /\ step = "loop" /\ ~reading /\ reported # <<>>
    /\ reported' = Tail(reported)
    /\ completed' = TRUE
    /\ IF ~completed /\ Head(reported)
         THEN OnUpdateBatteryState
         ELSE /\ missed' = (missed \/ Head(reported))
              /\ UNCHANGED <<cacheVars, queue, faults, reading>>
    /\ UNCHANGED <<step, changed, hostVars, lib, android, unset, starts>>

-----------------------------------------------------------------------------
(* The backend thread: a request is one call of GetFunction and of set_system_prop *)

OpenLibrary ==
    /\ queue # <<>> /\ lib = NoFile /\ Free # {}
    /\ lib' = Lowest(Free)
    /\ OpenFile("library", 0)
    /\ UNCHANGED <<robbed, queue, android, unset, hostVars, cacheVars, signalVars, faults, starts>>

\* dlopen has read the library, unless its descriptor was closed meanwhile;
\* it closes the descriptor, and the function is called.
SetSystemProp(ok) ==
    /\ lib # NoFile
    /\ LET q == Head(queue).prop
           loaded == files[lib].kind = "library"
           set == loaded /\ ok
       IN  /\ ok \/ (loaded /\ faults < MaxFaults)
           /\ faults' = IF ok THEN faults ELSE faults + 1
           /\ android' = IF set THEN [android EXCEPT ![q] = Head(queue).value] ELSE android
           /\ unset' = [unset EXCEPT ![q] = ~set]
    /\ CloseFile(lib, {"library"})
    /\ lib' = NoFile
    /\ queue' = Tail(queue)
    /\ UNCHANGED <<hostVars, cacheVars, signalVars, starts>>

-----------------------------------------------------------------------------

\* The manager's exit takes what waits in it along; a new one starts from nothing.
PowerRestart ==
    /\ starts < MaxStarts
    /\ starts' = starts + 1
    /\ mPowerState' = -1 /\ mBatteryPercent' = 0
    /\ misread' = [q \in Props |-> FALSE] /\ handed' = misread'
    /\ step' = "read" /\ reading' = FALSE /\ completed' = FALSE /\ changed' = 0 /\ reported' = <<>>
    /\ missed' = FALSE
    /\ queue' = <<>> /\ lib' = NoFile
    /\ unset' = [q \in Props |-> FALSE]
    /\ UNCHANGED <<hostVars, android, faults>>

PowerNext ==
    \/ \E b \in [state : States, percent : Percents] : BatteryChanges(b) /\ UNCHANGED <<files, robbed>>
    \/ Boot /\ UNCHANGED <<files, robbed>>
    \/ \E ok \in BOOLEAN : Report(ok) /\ UNCHANGED <<files, robbed>>
    \/ ReadAtStart /\ UNCHANGED <<files, robbed>>
    \/ \E failed \in BOOLEAN : ReadPercentage(failed) /\ UNCHANGED <<files, robbed>>
    \/ WatchBattery /\ UNCHANGED <<files, robbed>>
    \/ InitConnections /\ UNCHANGED <<files, robbed>>
    \/ OnPropertiesChanged /\ UNCHANGED <<files, robbed>>
    \/ OnContainerEnvBooted /\ UNCHANGED <<files, robbed>>
    \/ OpenLibrary
    \/ \E ok \in BOOLEAN : SetSystemProp(ok)

-----------------------------------------------------------------------------

AtRest ==
    /\ step = "loop" /\ ~reading
    /\ changed = 0 /\ reported = <<>> /\ queue = <<>>

\* What Android should be told of q.
Current(q) == IF q = "battery_charging" THEN Charging(battery.state) ELSE battery.percent

\* Once Android has booted and the manager has nothing left to do, Android's
\* battery is the host's: the values handed over arrive in order, the last
\* change is never left out, and what was cached was handed over.  The
\* exceptions are what the code does not make up for: a failed call, a signal
\* that was sent while nobody was connected or that came after a first report,
\* and a battery that is empty from the start (the cache begins at 0 percent).
BatteryKnown ==
    AtRest /\ announced /\ ~missed =>
        \A q \in Props :
            \/ misread[q] \/ unset[q]
            \/ android[q] = Current(q)
            \/ q = "battery_percent" /\ Current(q) = 0 /\ ~handed[q]
============================================================================
