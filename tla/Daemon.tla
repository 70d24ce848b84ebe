------------------------------- MODULE Daemon -------------------------------
(***************************************************************************)
(* The life of the daemons: kylin-kmre-audio, -gps, -sensor, -filewatcher  *)
(* and -manager.  Each is a program started by a call to its D-Bus name    *)
(* (data/*.service) or by hand, takes a lock of its own with flock, owns   *)
(* the name, serves, and ends: on a stop call, on the signal Stopped of    *)
(* the container, by itself, or killed.                                    *)
(*                                                                         *)
(* A program is written as the steps of its main that another process can  *)
(* see, each with the step that follows.                                   *)
(* The daemons share nothing, so each behaviour is about one of them.      *)
(***************************************************************************)
EXTENDS Naturals, Sequences, FiniteSets

CONSTANTS
    Daemons,        \* which of the programs are looked at
    Processes, None,
    MaxStops,       \* times the container stops
    MaxKills        \* processes that are killed

ASSUME DaemonAssumption ==
    /\ Daemons \subseteq {"audio", "gps", "sensor", "filewatcher", "manager"}
    /\ Daemons # {} /\ None \notin Processes
    /\ MaxStops \in Nat /\ MaxKills \in Nat

VARIABLES
    kind,       \* the daemon
    pc,         \* pc[p]: the step p's main takes next
    born,       \* the processes that were started
    again,      \* those that wait for the lock a second time
    lock,       \* who holds the lock
    owner,      \* who owns the D-Bus name
    path,       \* whose socket the path of the daemon leads to
    unbound,    \* processes whose worker has still to listen
    listening,  \* processes whose worker listens
    subscribed, \* processes that get Stopped
    asked,      \* asked[p]: why p's event loop is to end
    activation, \* the process the bus has started for a call and waits for
    alone,      \* history: nothing has disturbed the activation
    lost,       \* history: an activation nothing disturbed came to nothing
    overrun,    \* history: a worker listened after its process had let go of the lock
    stops, kills

lifeVars == <<kind, pc, born, again, lock>>
busVars == <<owner, subscribed, asked, activation, alone, lost>>
socketVars == <<path, unbound, listening, overrun>>
boundVars == <<stops, kills>>
vars == <<lifeVars, busVars, socketVars, boundVars>>

-----------------------------------------------------------------------------
(* The programs: what follows each step *)

AudioMain == [lock |-> "serve", serve |-> "subscribe", subscribe |-> "name", name |-> "loop"]
GpsMain == [lock |-> "name", name |-> "serve", serve |-> "subscribe", subscribe |-> "loop"]
SensorMain == [lock |-> "name", name |-> "serve", serve |-> "subscribe", subscribe |-> "loop"]
FileWatcherMain == [lock |-> "subscribe", subscribe |-> "name", name |-> "apps", apps |-> "loop"]
ManagerMain == [lock |-> "session", session |-> "subscribe", subscribe |-> "name", name |-> "loop"]

Main ==
    CASE kind = "audio" -> AudioMain
      [] kind = "gps" -> GpsMain
      [] kind = "sensor" -> SensorMain
      [] kind = "filewatcher" -> FileWatcherMain
      [] kind = "manager" -> ManagerMain

\* quit ends the loop and main goes on: the audio daemon unlocks before the rest of it
\* ends.  In the others the kernel releases the lock with the process.
AudioReturn == [loop |-> "unlock", unlock |-> "leave", leave |-> "end"]
FileWatcherReturn == [loop |-> "leave", leave |-> "end"]

\* Wrong form: the lock is given up, as in the audio daemon, before the name.
FeedExit_UnlockFirst ==
    [loop |-> "unlink", unlink |-> "unlock", unlock |-> "leave", leave |-> "end"]

\* exit(0) destroys the static objects: the listening UnixStream of GpsdataGet and of
\* SensordataGet unlinks its path, and the connection to the bus is closed.
FeedExit == [loop |-> "unlink", unlink |-> "leave", leave |-> "end"]
PlainExit == [loop |-> "leave", leave |-> "end"]

Ending ==
    CASE kind = "audio" -> AudioReturn
      [] kind \in {"gps", "sensor"} -> FeedExit
      [] kind = "filewatcher" -> FileWatcherReturn
      [] kind = "manager" -> PlainExit

\* KmreAudio::stop quits, onStopApplication exits.
AfterLoop(why) ==
    IF kind = "audio" /\ why = "Stopped" THEN PlainExit["loop"] ELSE Ending["loop"]

\* How often flock is tried for a lock another process holds: try_lock_file of the audio,
\* gps and sensor daemons gives up at EWOULDBLOCK.
FlockTries == 1
TestLockFileTries == 1
TryLockFileTries == 2
Tries ==
    CASE kind = "filewatcher" -> TestLockFileTries
      [] kind = "manager" -> TryLockFileTries
      [] kind \in {"audio", "gps", "sensor"} -> FlockTries

-----------------------------------------------------------------------------

Alive(p) == pc[p] # "gone"
At(p, step) == pc[p] = step
Goto(p, step) == pc' = [pc EXCEPT ![p] = step]
Proceed(p) == Goto(p, IF pc[p] \in DOMAIN Main THEN Main[pc[p]] ELSE Ending[pc[p]])

Init ==
    /\ kind \in Daemons
    /\ pc = [p \in Processes |-> "gone"] /\ born = {} /\ again = {}
    /\ lock = None /\ owner = None
    /\ path = None /\ unbound = {} /\ listening = {} /\ overrun = FALSE
    /\ subscribed = {} /\ asked = [p \in Processes |-> "nothing"]
    /\ activation = None /\ alone = FALSE /\ lost = FALSE
    /\ stops = 0 /\ kills = 0

-----------------------------------------------------------------------------
(* The session around the daemon *)

Begin(p) ==
    /\ p \notin born /\ born' = born \union {p}
    /\ Goto(p, "lock")

\* A call finds no owner of the name: the bus starts the program and holds the call.
Activate(p) ==
    /\ owner = None /\ activation = None
    /\ Begin(p)
    /\ activation' = p
    /\ alone' = \A q \in Processes : ~Alive(q)
    /\ UNCHANGED <<kind, again, lock, owner, subscribed, asked, lost, socketVars, boundVars>>

\* The program is started by hand or by the session.
Launch(p) ==
    /\ Begin(p)
    /\ alone' = FALSE
    /\ UNCHANGED <<kind, again, lock, owner, subscribed, asked, activation, lost,
                   socketVars, boundVars>>

Ask(p, why) == asked' = [asked EXCEPT ![p] = IF @ = "nothing" THEN why ELSE @]

\* A call of stop, or of quit of the manager.
CallStop ==
    /\ owner # None
    /\ Ask(owner, "stop")
    /\ UNCHANGED <<lifeVars, owner, subscribed, activation, alone, lost, socketVars, boundVars>>

\* The container stops: its signal is put into the queue of every subscriber.
StopContainer ==
    /\ stops < MaxStops /\ stops' = stops + 1
    /\ asked' = [p \in Processes |->
                   IF p \in subscribed /\ asked[p] = "nothing" THEN "Stopped" ELSE asked[p]]
    /\ UNCHANGED <<lifeVars, owner, subscribed, activation, alone, lost, socketVars, kills>>

\* What the kernel and the bus do when a process is gone.
Gone(p, undisturbed) ==
    /\ Goto(p, "gone")
    /\ lock' = IF lock = p THEN None ELSE lock
    /\ owner' = IF owner = p THEN None ELSE owner
    /\ subscribed' = subscribed \ {p}
    /\ asked' = [asked EXCEPT ![p] = "nothing"]
    /\ unbound' = unbound \ {p} /\ listening' = listening \ {p}
    /\ activation' = IF activation = p THEN None ELSE activation
    /\ lost' = (lost \/ (activation = p /\ undisturbed))
    /\ UNCHANGED <<kind, born, path, overrun>>

\* The process is killed: its path stays.
Kill(p) ==
    /\ kills < MaxKills /\ kills' = kills + 1
    /\ Alive(p)
    /\ Gone(p, FALSE)
    /\ alone' = FALSE
    /\ again' = again \ {p}
    /\ UNCHANGED stops

-----------------------------------------------------------------------------
(* The steps of main *)

\* Wrong form: a lock that a killed process leaves behind.
TakeLock_Stale(p) ==
    /\ At(p, "lock")
    /\ IF lock = None /\ kills = 0 THEN lock' = p /\ Proceed(p) ELSE lock' = lock /\ Goto(p, "end")
    /\ UNCHANGED <<kind, born, again, busVars, socketVars, boundVars>>

\* Wrong form: main goes on when the lock is held.
TakeLock_Ignored(p) ==
    /\ At(p, "lock") /\ Proceed(p)
    /\ lock' = IF lock = None THEN p ELSE lock
    /\ UNCHANGED <<kind, born, again, busVars, socketVars, boundVars>>

\* do_lock_file, test_lockfile, tryLockFile.
TakeLock(p) ==
    /\ At(p, "lock")
    /\ IF lock = None
         THEN lock' = p /\ Proceed(p) /\ UNCHANGED again
         ELSE /\ lock' = lock
              /\ IF p \notin again /\ Tries > 1
                   THEN again' = again \union {p} /\ UNCHANGED pc
                   ELSE Goto(p, "end") /\ UNCHANGED again
    /\ UNCHANGED <<kind, born, busVars, socketVars, boundVars>>

\* init starts the thread in whose loop the worker will listen.
Serve(p) ==
    /\ At(p, "serve") /\ Proceed(p)
    /\ unbound' = unbound \union {p}
    /\ UNCHANGED <<kind, born, again, lock, busVars, path, listening, overrun, boundVars>>

\* Wrong form: nothing is removed first, and bind fails where a path is.
Listen_Keep(p) ==
    /\ p \in unbound /\ unbound' = unbound \ {p}
    /\ listening' = listening \union {p}
    /\ path' = (IF path = None THEN p ELSE path)
    /\ overrun' = (overrun \/ lock # p)
    /\ UNCHANGED <<lifeVars, busVars, boundVars>>

\* UnixStream::listen in the worker's thread, after mkpath has removed what was at the path.
Listen(p) ==
    /\ p \in unbound /\ unbound' = unbound \ {p}
    /\ listening' = listening \union {p}
    /\ path' = p
    /\ overrun' = (overrun \/ lock # p)
    /\ UNCHANGED <<lifeVars, busVars, boundVars>>

Subscribe(p) ==
    /\ At(p, "subscribe") /\ Proceed(p)
    /\ subscribed' = subscribed \union {p}
    /\ UNCHANGED <<kind, born, again, lock, owner, asked, activation, alone, lost,
                   socketVars, boundVars>>

\* registerService neither queues nor replaces.  Where it fails main returns, except in
\* the gps and the sensor daemon, whose DbusAdaptor only skips registerObject.
RegisterName(p) ==
    /\ At(p, "name")
    /\ IF owner = None
         THEN owner' = p /\ activation' = None /\ Proceed(p)
         ELSE /\ UNCHANGED <<owner, activation>>
              /\ IF kind \in {"gps", "sensor"} THEN Proceed(p) ELSE Goto(p, "leave")
    /\ UNCHANGED <<kind, born, again, lock, subscribed, asked, alone, lost, socketVars, boundVars>>

\* The manager ends where there is no shell, no X display or no session bus.
CheckSession(p) ==
    /\ At(p, "session")
    /\ \/ Proceed(p) /\ UNCHANGED alone
       \/ Goto(p, "end") /\ alone' = FALSE
    /\ UNCHANGED <<kind, born, again, lock, owner, subscribed, asked, activation, lost,
                   socketVars, boundVars>>

\* Wrong form: the queue is worked off before exec, where quit has no effect.
CheckApps_Early(p) ==
    /\ At(p, "apps") /\ Proceed(p)
    /\ asked' = [asked EXCEPT ![p] = "nothing"]
    /\ UNCHANGED <<kind, born, again, lock, owner, subscribed, activation, alone, lost,
                   socketVars, boundVars>>

\* shouldRun: without installed applications the file watcher quits after five seconds.
CheckApps(p) ==
    /\ At(p, "apps") /\ Proceed(p)
    /\ Ask(p, "timer") \/ UNCHANGED asked
    /\ UNCHANGED <<kind, born, again, lock, owner, subscribed, activation, alone, lost,
                   socketVars, boundVars>>

\* The event loop handles what p was asked.
LeaveLoop(p) ==
    /\ At(p, "loop") /\ asked[p] # "nothing"
    /\ Goto(p, AfterLoop(asked[p]))
    /\ UNCHANGED <<kind, born, again, lock, busVars, socketVars, boundVars>>

-----------------------------------------------------------------------------
(* The steps of the end *)

Unlock(p) ==
    /\ At(p, "unlock") /\ Proceed(p)
    /\ lock' = IF lock = p THEN None ELSE lock
    /\ UNCHANGED <<kind, born, again, busVars, socketVars, boundVars>>

\* ~ThreadPool has asked the worker's thread to quit: one that does not listen yet never
\* will.  ~GpsdataGet deletes the UnixStream, which unlinks the path it has bound.
Unlink(p) ==
    /\ At(p, "unlink") /\ Proceed(p)
    /\ path' = IF p \in listening THEN None ELSE path
    /\ listening' = listening \ {p} /\ unbound' = unbound \ {p}
    /\ UNCHANGED <<kind, born, again, lock, busVars, overrun, boundVars>>

\* The connection to the bus is closed, and with it the name is free.
LeaveBus(p) ==
    /\ At(p, "leave") /\ Proceed(p)
    /\ owner' = IF owner = p THEN None ELSE owner
    /\ subscribed' = subscribed \ {p}
    /\ UNCHANGED <<kind, born, again, lock, asked, activation, alone, lost, socketVars, boundVars>>

End(p) ==
    /\ At(p, "end")
    /\ Gone(p, alone)
    /\ again' = again \ {p}
    /\ UNCHANGED <<alone, boundVars>>

-----------------------------------------------------------------------------

MainStep(p) ==
    \/ TakeLock(p) \/ Serve(p) \/ Subscribe(p) \/ RegisterName(p)
    \/ CheckSession(p) \/ CheckApps(p) \/ LeaveLoop(p)
    \/ Unlock(p) \/ Unlink(p) \/ LeaveBus(p) \/ End(p)

Next ==
    \/ CallStop \/ StopContainer
    \/ \E p \in Processes : Activate(p) \/ Launch(p) \/ Kill(p) \/ MainStep(p) \/ Listen(p)

\* sendData may keep the main thread of the gps and the sensor daemon in accept, a call it
\* handles in its loop, for as long as no client comes (Feed has the details).
MayWait(p) == kind \in {"gps", "sensor"} /\ At(p, "loop")
SureStep(p) == MainStep(p) /\ ~MayWait(p)

\* A thread that can go on does; nobody has to start, stop or kill anything.
Spec ==
    /\ Init /\ [][Next]_vars
    /\ \A p \in Processes : WF_vars(SureStep(p)) /\ WF_vars(Listen(p))

-----------------------------------------------------------------------------
(* Properties *)

Labels ==
    {"gone", "lock", "session", "serve", "subscribe", "name", "apps", "loop",
     "unlock", "unlink", "leave", "end"}

TypeOK ==
    /\ kind \in Daemons
    /\ pc \in [Processes -> Labels] /\ born \subseteq Processes
    /\ \A p \in Processes \ born : pc[p] = "gone"
    /\ again \subseteq born /\ unbound \subseteq born
    /\ listening \subseteq born /\ subscribed \subseteq born
    /\ lock \in born \union {None} /\ owner \in born \union {None}
    /\ path \in born \union {None} /\ activation \in born \union {None}
    /\ asked \in [Processes -> {"nothing", "stop", "Stopped", "timer"}]
    /\ alone \in BOOLEAN /\ lost \in BOOLEAN /\ overrun \in BOOLEAN
    /\ stops \in 0..MaxStops /\ kills \in 0..MaxKills

\* The daemon is a Service: the process that serves is the one in its loop.  It cannot be
\* in its loop unless it owns the name, and no successor is there before it has left.
Server == IF \E p \in Processes : At(p, "loop")
            THEN CHOOSE p \in Processes : At(p, "loop") ELSE None

S == INSTANCE Service WITH Servers <- Processes, server <- Server, name <- owner

ImplementsService == S!Spec

\* A process whose loop runs owns the name.  The audio daemon gives up its lock before
\* its name and the gps and sensor daemons go on without a name: one that got the lock
\* while its predecessor still had the name would stay out of reach.
Reachable == \A p \in Processes : At(p, "loop") => owner = p

\* The path leads to the process that holds the lock once its worker listens, whatever
\* earlier processes left there or unlink on their way out.  Only a worker that listens
\* when its process has already unlocked can take it away.
PathLeadsToHolder ==
    ~overrun => \A p \in Processes : lock = p /\ p \in listening => path = p

\* A call that starts the daemon is answered if no other process of it was there, even
\* after one was killed.
ActivationWorks == ~lost

\* The signal Stopped ends every process of the audio daemon, the file watcher and the
\* manager that has subscribed, also one that is still between its subscription and its
\* loop.  One of the gps or the sensor daemon may stay in its loop, and nowhere else.
StoppedEnds ==
    \A p \in Processes : asked[p] = "Stopped" ~> ~Alive(p) \/ MayWait(p)
=============================================================================
