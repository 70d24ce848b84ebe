# kylin-kmre-manager: a TLA+ verification project

The repository holds the host side of KMRE, an Android environment in a container
on the Kylin desktop: a set of C++/Qt daemons of the user's session. They start
and stop with the container, mirror Android's files and apps on the desktop,
tell Android about new media files, the screen, the battery and the camera, and
carry sound, position and sensor data over Unix sockets. This directory models
them in TLA+, checks the models with TLC and proves the properties that matter
most with TLAPS.

## The system

| Component | State it keeps | Operations | Talks to |
|---|---|---|---|
| File watcher, inotify service (`filewatcher/file-inotify`) | two maps between watch descriptors and paths; the stack of the recursive scan | add roots, scan, read an event, drop a watch | kernel (inotify, file system); feeds the notification list |
| File watcher, notification list (same files, `loopList`) | list of `(path, size)`, cached owner of the manager's name | append, visit the list every 100 ms, announce | manager over the session bus |
| File watcher, links (`file-watcher.cpp`, the two check workers) | tables of shared directories and storages | link, unlink, watch | worker threads through queued signals; container's `Stopped` |
| Manager, media lists (`controlmanager.cpp`) | five lists by mime class, two counters, two trees of hard links | handle `syncFiles` of type 0, 1, 2 | Android over D-Bus; desktop programs (`filesMessage`) |
| Manager, desktop entries and icons (`controlmanager.cpp`, `backendworker.cpp`) | `.desktop` files and icons below the home, static `completed` | handle `updateAppStatus`, `containerEnvBooted` | Android over D-Bus, and synchronous queries to it |
| Manager, backend thread (`backendworker.cpp`) | queue of requests | insert a record, ask for all files, install, close, set properties | Android through a vendored library |
| The five daemons' life (`main.cpp` of each, `appmanager`, lock files) | lock file, name on the session bus, socket's path | start by a call or by hand, lock, register, subscribe, stop, `Stopped`, exit | session bus (which starts them for a call), container service |
| Manager, display (`displaysizemanager.cpp`, `displaytypemanager.cpp`, `gpuinfo.cpp`) | measured size, densities, display type, what was last told the container | measure, decide, set the container's properties one by one | container service over D-Bus; X, the graphics card, the user's settings; clients that ask |
| Manager, power (`powermanager.cpp`) | cached charge and state of the battery | read, tell Android what changed | UPower, backend thread |
| Manager, camera (`camera_service.cpp`) | one worker thread, one client, the selected device | accept, search a camera, send its descriptor; select | Android's camera HAL, desktop programs |
| Audio, playback and recording (`audio/`) | one worker thread each with a listening socket and one client; the PCM device | accept, read type, play or record, end; stop and replace a worker on waking | Android's audio HAL, ALSA, login manager |
| GPS and sensor feeds (`gps/`, `sensors/`) | one listening socket and one stream shared by two threads, a time stamp | pass data, reconnect | desktop programs over D-Bus, Android's HAL |

Interaction is by D-Bus signals (handled in order by one main thread), blocking
D-Bus calls, queued Qt signals between threads, Unix sockets with blocking reads,
and the file system, which other programs change at any time.

What is hard here: every directory listing, event and `stat` is out of date when
it is used; the manager quits with the container while requests are still queued;
rounds of signals are broken off; the audio worker and the thread that stops it
share pointers without a lock; three threads of the manager share descriptors,
one of them closing a number twice; a daemon's lock, name and socket go at
different times when it ends; nearly every wait is a blocking call without a
limit. `PROJECT.json` lists the hazards one by one at their lines.

## Modules

| Module | Models | State |
|---|---|---|
| `Service` | what a daemon found by its bus name promises (abstract) | `server`, `name` |
| `Daemon` | the five `main`s, locks, names and sockets' paths; each is a `Service` | `pc` (step of `main`), `lock`, `owner`, `path`, `listening`, `subscribed`, `asked`, `activation` |
| `InotifyFS` | file system and kernel inotify (external) | `fs`, `kwatch`, `nextWd`, `queue`, `overflow`, `ops` |
| `FileInotify` | `FileInotifyWatcher`, the scan and `run()` of `FileInotifyService` | `wdToPath` (`mWdToPathMap`), `pathToWd` (`mPathToWdMap`), `stack` (recursion), `toAdd`, `running` |
| `NotifyList` | `addNotifyFile` as `run` and the scan call it, `loopList`, `notifyFile`, `queryService`; the record's way through the manager | `list` (`mFileList`), `pos`/`phase` (where `loopList` is), `owned`, `up`, `requests` |
| `SyncFiles` | `ControlManager::onSyncFiles` with the signals Android sends | `metas`, `currentNum`, `links`, `signals` |
| `AppDesktop` | `updateAppStatus` and `containerEnvBooted` with the app list asked for in between | `desktop`, `svgs`, `completed`, `work` (the handler under way), `chan` |
| `Descriptors` | the manager's table of open files, which its threads share (external) | `files` |
| `Power` | `PowerManager`, the slots that call it, `setSystemProp` of the backend thread | `mPowerState`, `mBatteryPercent`, `step`, `reading`, `changed`/`reported` (signals that wait), `queue`, `lib` / `battery`, `booted`, `android` |
| `Camera` | `CameraService`: the worker's loop, `setCameraDevice` | `worker`, `com_fd`, `fd_to_send`, `dev_name`, `i`, `m_cameraDeviceName`, `setting` / `plugged`, `backlog` |
| `Manager` | `Power` and `Camera` in one process, over one table of descriptors | those of both |
| `GpuInfo` | `gpuinfo.cpp` and what `displaytypemanager.cpp` asks of it, as functions of the host | none |
| `Display` | the display classes, the manager's constructor and the slots around them, the container's properties | `plan` and `todo` (what the handler has left), `size`, `type`, `prime`, `card`, `vendor`, `node`, `aep` and the other statics / `host`, `ready`, `def`, `run`, `container` |
| `PlaybackServer` | `PlaybackWorker`, `AudioServer::onSleep`, and its clients | `pc`, `sock`, `stream`, `exit`, `pcm` / `spc`, `target` / `backlog`, `conn` |
| `RecordingServer` | `RecordingWorker` and its clients | `pc`, `stream`, `rate`, `recorder`, `denoiser`, `resampler`, `count` / `backlog`, `conn`, `type`, `asked` |
| `Feed` | the gps and the sensor daemon, one of which `kind` chooses | `pc` and `arg` of both threads, `stream`, `current` (`gpsdata`) / `backlog`, `conn`, `last` |

The `MC_` modules give the constants their values for TLC; the `_proofs` modules hold
the theorems about the module they are named after, but `MainThread_proofs`, which holds
those about the three components whose handlers the manager's main thread runs one after
the other: `AppDesktop`, `SyncFiles` and `Display`. Operators named
`X_Something`, introduced as wrong forms, are plausible bugs of the operator `X`;
no specification uses them. Each property is broken by one of them.

Some properties speak of *history variables*: what the code does not see or cannot
repair is recorded where it happens, and the property holds wherever it did not. The
ones used are named with their modules below.

**Daemon and Service.** The five programs are one module, because they differ only in
the order of their steps: `Main` and `Ending` give, for each, the step that follows
each step, from `do_lock_file` (or `test_lockfile`, `tryLockFile`) to the closing of the
connection at exit. Any process may take a step between any two of another. The kernel
releases a lock and the bus a name when the process is gone; the bus starts a program
for a call when nobody owns the name, and gives the call up when the process ends
without taking it. The path of a socket belongs to the file system: `mkpath` removes
what is there, `~UnixStream` unlinks it on exit, a kill leaves it. `Service` is the
promise to callers: at most one server, found by the name as long as it serves.
`ImplementsService` maps `server` to the process that is in its event loop and `name`
to the owner of the name. History: `alone`/`lost` (a process the bus has started, with
no other of the program there, that ends without a name), `overrun` (the audio
worker binds its path only after its process has unlocked).

**FileInotify.** A path is the sequence of its names, an inode is a directory or a
file; a kernel watch belongs to the inode, which is why a renamed directory keeps
its descriptor and its descriptor gets several paths. `mWdToPathMap` is a
QMultiMap, whose values come newest first: an entry carries its `age`. The scan is
a stack of frames; between any two of its steps (`addWatchLocked`, `opendir` and
`readdir`, each name) the file system may move on. The event handler reads the
newest path of the descriptor that is a directory *now*, as the code does. `main`
and the thread of `run` never overlap (both hold `mWatcherLock` while they scan).
History variables name what the code cannot repair: `overflow` and `refused`
(events dropped by the kernel, watches refused), `skipped` (files met by the scan at
start, which does not announce) and `astray`. An inode goes astray when it comes to a name
that is still the key of another inode's watch (`Taken`), and so does the inode that watch
belongs to: `addWatch` takes the key as proof that the first is watched, and
`watchedPathFromWd` may give the events of the second the name of the first. It stays
astray while it is in the tree, because nothing in the code looks again. A root that
comes back counts as well, since no watch above it says that it did.

**NotifyList.** One entry is visited in the code's steps: `stat`, the question for
the manager, the sniffing of the content, the call. `mListLock` is held throughout
the sweep (`pos # 0`) and keeps `addNotifyFile` out. A size is kept in an `int`
(`AsInt`), the `off_t` it is compared with is not. A file comes on the list from the handler
of its event or from a notifying scan that meets it, and from both when it is created after
its directory is watched and before `readdir` reaches it: nothing looks whether the list
has the path already (`file-inotify-service.cpp:266`). So `Create` raises an event or none,
as the directory is watched or not, and `ScanFile` comes upon any file at any time. `looks`
counts how often each path was put on the list. The manager appears as the two
things the list meets: its name on the bus and its backend's queue.

**SyncFiles.** Five lists and two trees of links behave alike and are one set and
one map. A *slot* is a link's name: two files with the same package, type and last
component share it, and `link(2)` then fails. Android's side is free: a request starts a
round whatever else is under way (`requestAllFilesFromAndroidDB` asks nothing first), also
over no files; files come and go between any two batches; and a round may be broken off. A
round lists the files of the moment it starts, which is an assumption about Android.
`currentNum` starts with anything, because `m_currentNum` is never initialised
(`controlmanager.h:88`). The signals carry two values the code does not see: the round they
belong to (0 for a change) and whether they are its first. History: `clean` (rounds the
count can be right for: begun when nothing was under way and nothing counted, or right
after such a round that was sent to its end, and not broken off or overlapped since),
`crossed` (files inserted between the latest round's listing and its first batch, which
then clears the lists, or deleted before the batch that has them, which lists them again).
The container's `Stopped` ends the manager (`kmremanager.cpp:180`), and the count with it;
a round is left unfinished, and the manager alive, when Android's media process ends.

**AppDesktop.** Each handler is two steps, before and after Android's answer,
because apps are installed and removed in between; `work` holds the answer.
A failed query reads as an empty list (`EmptyList`), as in the code.

**PlaybackServer.** `exitPlayback` is four steps of the server thread (look at
`m_stream`, stop it, stop the listening socket, set `mExit`); the worker has one
step per blocking call. Use after free and a handle closed twice are undefined
behaviour: the model lets the process crash (`alive`) or go on. `onSleep` replaces
the worker only in builds with `UKUI_WAYLAND`; the model is of these builds.

**RecordingServer.** One thread, so the order is its own; what matters is what it
keeps between clients: the resampler, the count of empty reads, and after a failed
`initRecoder` an open stream. A rate is a number (0: any the worker does not resample
to), the denoiser and the resampler are the rates they were made for. A read brings
frames or nothing, as `silent` says: an overrun that was recovered from counts as
nothing in the code too. The count is cut off above `READ_TRY_TIMES`, where only its
being greater matters.

**GpuInfo and Display.** A host has cards in bus order, the one the X server draws with,
and `DRI_PRIME`. A card has a maker, a chip family of the PCI tables (with the three
numbers that stand in two makers' tables), and its nodes; `GpuInfo` says which card the
process sees and what mode, nodes and AEP support follow. `Display` reads it when the
code does: the static initialisers before `main` (`couldDrm`, `card`), `main`'s reading of
`kmre-global-env` (`prime`), and the nodes afterwards (`node`). What they find differs
while the session comes up (`ready`: no X yet, no `/dev/dri` yet).
The main thread handles one event at a time; a handler is the list of the
functions it calls (`plan`), and a function leaves the D-Bus calls it makes in `todo`.
Each call is a step, and may be lost: nobody looks at its reply. Between any two steps
the container may boot (it takes over its defaults) or stop, the manager may be killed,
and what it reads may change; only the screen itself changes in Qt's event loop alone.
`answered` is the type this process told a client, `promised` the one that held when
the container booted, `moved` that screen or scaling changed with no signal.
Properties whose value nothing depends on are just set.

**Manager: Descriptors, Power, Camera.** The three threads share numbers of open
files, and a number that is closed is given to whoever opens a file next; that
is why power and camera, which share nothing else, are composed. The backend thread
opens `libkmre.so` for every request and closes it (`lib`); the camera worker opens
devices and closes them, once too often (see Findings).
`Power` has the main thread's start (read, subscribe, connect, loop) as steps, and the two
queries of `onUpdateBatteryState` as two (`ReadState`, `ReadPercentage`), so that
the battery may change between any two. A `boot_completed` that the container does not tell
ends the update before the first (`NoAnswer`). `PropertiesChanged` and `containerEnvBooted`
wait in `changed` and `reported`. `Camera` has the worker's search device by device; the
assignment of the `QString` by the main thread is two steps with no lock around it, and
a read in between gives the old name, the new one, or `Junk`; a crash it may cause is a
`Restart`. History: `missed` (a signal nobody was connected to, a second report, or an update that was not told of the boot),
`misread`/`unset` (a query or a call failed), `handed` (a request was made since the start),
`robbed` (a thread closed another's file), `twice` (the double close happened),
`dropped` (a round overwrote the selection), `usable` (cameras plugged in throughout the
search).

**Feed.** `passGpsData` runs in the main thread, `start` in the worker, and neither
takes a lock: each test of `m_stream` and each write is a step. `accept` and the
assignment of its result are one step (two threads that swap them differ in the names
of the clients only). Descriptors are counted, because a stream is never deleted and
`accept` fails at the limit. An empty position is sent as a fixed one (`Default`). A write to a
client that lives succeeds at once: that it may block on a full buffer is not modelled.

## Runs

| Run | What it shows | Distinct states | Time |
|---|---|---|---|
| `Daemon` | `Reachable`: whoever serves owns its name. `PathLeadsToHolder`: the path leads to the holder of the lock once it listens, though predecessors unlink late. `ActivationWorks`: a call that starts an undisturbed daemon is answered, also after a kill. `ImplementsService`: each daemon is a `Service`. `StoppedEnds`: `Stopped` ends every subscriber, also one on its way to its loop, but for a gps or sensor daemon that is in its loop, whose main thread may wait in `accept` for good (`Feed` has the details in `StopsOrWaits`) | 53 519 | 25 s |
| `FileInotify` | `TablesInverse`: both maps agree, though `removeWatch` erases one by path and the other by descriptor. `NoOrphanWatch`: no kernel watch without an entry. `TreeWatched`, `FilesNoticed`: at rest every directory below a tracked root, hidden ones and what went astray left out, is tracked and every file was noted, through renames, removals and replacements during the scan. `Settles`: the daemon comes to rest | 905 383 | 120 s |
| `NotifyList` | `Kept`: a picture with content stays on the list, in the queue or in Android's database unless a fault that the code does not see takes it. `NotMidWrite`: nothing is announced that grew between two looks. `OncePerLook`: a path is announced no more often than a scan or an event put it on the list (a creation that both see may be announced twice). `WorkedOff`: with a manager that stays the list empties, but for files of 2 GiB and more | 415 493 | 30 s |
| `SyncFiles` | For the rounds the count can be right for (`clean`): `ListsMatchAndroid`, after the latest round and all changes the lists are Android's files, but for those whose change it crossed; `NotEarly`, their end is told with their last batch; `RoundTold`, it is told if the round has files. `LinksMatch`, for all rounds: with all signals handled a listed file that Android has has its link, unless another file shares the name, and no link holds a deleted file, also with changes in the middle of a round | 783 523 | 56 s |
| `SyncFiles_aborted` | violated as expected, see Findings | | |
| `AppDesktop` | `DesktopMatches`: entries end as Android's apps, with the present version. `NamesCurrent`: after a boot every entry has its name in Android's language | 1 558 480 | 21 s |
| `Manager` | `BatteryKnown`: at rest Android shows the host's battery. `CameraFound`: a client gets a camera if one was there all through the search, under its name. `OthersFilesKept`: no thread closes another's file unless the number was closed twice. `SelectionKept`: the user's camera stays selected unless a round under way overwrites it. `ClientsServed`: a client that sends nothing does not keep the worker from the next | 778 709 | 75 s |
| `Display` | `AnswerKept`: a container booted by a client that was told the type runs that type throughout, with the constructor's properties set. `NodesUsable`: in the drm mode the container gets the nodes of the card the mode was chosen for. `RestartAgrees`: a manager that comes back beside it tells the same type, whatever the settings say now. `Published`: at rest the container has the measured size and the screen's density, whenever it booted, unless a call was lost or a change was not announced | 3.43 million | 58 s |
| `PlaybackServer` | `PathIsOurs`, `AcceptedAreKept` under every interleaving with `exitPlayback`; `Served`: a queued client is served or refused; `WakeEnds`: waking ends with a new worker if the old one had begun to listen | 39 642 | 9 s |
| `RecordingServer` | `SamplesFit`: each client gets samples of the rate it asked for, denoised for the device as it was opened for it. `AcceptedAreKept`: a connection is closed before it is forgotten, but for a failed device. `Served`: a queued client is served if the microphone is not silent for ever | 58 164 | 10 s |
| `RecordingServer_silent` | violated as expected, see Findings | | |
| `Feed` | `LiveClientKept`: no client that listens is forgotten for another, unless both threads wait in `accept`. `NewestWins`: at rest the client has the newest position, whichever thread sent it. `NoCrash`: a null stream is used only when the descriptors have run out. `StopsOrWaits`: after `Stopped` only a wait for a client keeps the daemon | 180 656 | 16 s |

All runs but `Display` say `CHECK_DEADLOCK FALSE`: bounded environments stop, and a
process that has ended stays ended.

### Bounds

- `Daemon`: three processes of each program (one that ends, its successor, and one
  started in between), one `Stopped`, one kill.
- `FileInotify`: one watched root, an unwatched directory next to it, two names on
  two levels, five directories, one file, two initial trees, four operations.
  Two moves and a creation give a descriptor two names and a name two directories,
  the cases the maps have trouble with; the fourth races with the cleaning up. The
  queue (8) and the watch limit (8) are beyond what four operations can fill.
- `NotifyList`: one picture and one file that only looks like one, sizes 0 to 2,
  an `int` that holds 0 and 1, two creations, each with an event or without, one file met by
  a scan, one end of the manager. A file with two entries, from scan and event, a replaced
  file and a sweep over several entries all occur.
- `SyncFiles`: any of three files, batches of two (the code's five), so that a round has no
  file, a short batch, a full one, or a full and a short one; two of the files share a slot;
  two rounds, which may overlap; two changes; a first count below zero, zero, or positive
  (with three changes, 5.9 million states, the properties hold too).
- `AppDesktop`: one app and one package that gets no entry, two versions, four
  signals, one restart, two languages.
- `Manager`: three descriptors (all the threads can hold), `/dev/video0` and `1` (the
  code looks at twelve), two charges, one change, two reports, one failed call, one
  restart, two clients, one plug, one selection. Either the battery and Android change
  while no camera is asked for, or the camera is used on a quiet host that has something
  to hand over at its start (`MCInit`): the two sides meet only in the descriptors.
- `Display`: two resolutions at two scaling factors, which give large and small
  windows, one change of screen, scaling or settings, and one fault: a lost call or a
  killed manager. Boots, stops, questions and restarts are not bounded. The settings
  are none or `emugl`; `drm` is what none means, and `sw` leads to `emugl`. Six hosts: a
  laptop with one card, a hybrid with `DRI_PRIME`, one where `DRI_PRIME` comes from
  `kmre-global-env`, an old AMD chip with a number of Intel's, one with NVIDIA's
  driver, a virtual machine. Changes and faults are for the laptop.
- `PlaybackServer`: two clients (one served, one waiting), two wakes, a device that
  may fail.
- `RecordingServer`: two clients, two rates to ask for, a device that opens at one of
  them or at another; one read too many gives up (`TryTimes` = 1), and the microphone
  falls silent or comes back three times.
- `Feed`: three clients, two descriptors: a reconnection, two of them at once, and the
  failure after them; two positions.

### Fairness

- `Daemon`: weak fairness of each process's `MainStep` and of its worker's `Listen`:
  threads the system schedules. The main thread of a gps or sensor daemon that is in its
  loop is left out (`MayWait`): it may be in `accept`. Nobody has to start, stop or kill
  anything.
- `FileInotify`: weak fairness of the daemon's step: `main` and `run` are threads the
  system schedules. The file system is under no obligation.
- `NotifyList`: weak fairness of `loopList`; strong fairness of the handler of
  events (`HandleEvent`), which waits for a mutex that `loopList` releases for 100 ms after every sweep. The
  manager's stay is a hypothesis of `WorkedOff`, not an assumption.
- `SyncFiles`: the manager's event loop runs, and Android sends the rest of each round
  it has begun, or breaks it off.
- `Manager`: weak fairness of the camera worker's step; its only wait for a client is
  limited by `SO_RCVTIMEO`, so that waiting too long is a step of the worker.
- `PlaybackServer`: both threads run, and each client ends some time. The code reads
  from a client with no limit, so the last is a condition of `Served` the code does
  not secure.
- `RecordingServer`: the worker's thread runs, clients end (as above), and a microphone
  that is not silent brings frames now and then (strong fairness of `RecordData`).
- `Feed`: both threads run, and the main loop comes to every message in its queue
  (strong fairness of `OnStopApplication`). No client is obliged to connect.

### Assumed of the world

The bus notices that a connection is closed before it serves a request made later.
`DRI_PRIME` is the same for every process of the session, but for `kmre-global-env`. A host
without a battery is one whose UPower queries fail. A data race on a `QString` gives the
old, the new or a useless value, or a crash.

## Findings

Two have a run:

- `SyncFiles_aborted`: `m_currentNum` is reset only when a round completes. After a
  round that Android broke off while the container went on (on the container's `Stopped` the
  manager ends, and the count with it), the next one is neither counted from zero nor do
  the lists start empty, and its end is told before its last batch. Rounds that overlap
  and a first count that is garbage lead to the same; `SyncFiles` has them.
- `RecordingServer_silent`: the count of empty reads survives its client; once it is
  beyond `READ_TRY_TIMES` the test for equality never holds again, and a silent
  microphone keeps the worker, and everyone in its queue, for ever.

The others were met while modelling, and the models have them as they are in the code:

- An icon is written as `.svg` and removed as `.png` (`backendworker.cpp:279`, `:360`), and
  one Android draws late is never copied.
- `m_currentNum` is never initialised (`controlmanager.h:88`): with a positive value the first
  round is told early and does not clear the lists, with a negative one it never completes.
- A round without files is never told, because the test for its end is made for each file of a
  batch (`controlmanager.cpp:452`).
- A file created while its directory is scanned for the first time is put on the notification
  list by the scan and by its event, and may be announced twice
  (`file-inotify-service.cpp:200`, `:236`).
- The end of a round is told inside the loop over the last batch
  (`controlmanager.cpp:453`), once for each file it has left.
- A desktop entry is cut to nothing and written again (`controlmanager.cpp:240`): an exit
  in between leaves it empty.
- A new file that is empty for 100 ms is never looked at again
  (`file-inotify-service.cpp:276`).
- The first size the manager sets comes with a density of 0 (`displaysizemanager.cpp:394`),
  because `getPhysicalDensity` is called by `getDisplayInformation` only and sets no
  property: 0 stays until the size changes. The density of the windows follows neither
  another primary screen nor the scaling factor (`kmremanager.cpp:128`).
- `DRI_PRIME` from `kmre-global-env` is put into the environment after the static
  initialisers have looked the card up: mode and nodes may be those of two cards.
- The comment at `gpuinfo.cpp:511` says "Do not enable iris for the moment.", and the code
  below it enables it.
- The camera's search closes `fd_to_send`, skips the device it has tried, and closes the
  same number again (`camera_service.cpp:148` to `152`): in between the backend thread may
  have got it.
- A camera that was sent overwrites the user's selection with its own name
  (`camera_service.cpp:165`), also one the user made while the round was under way.
- `getSystemProp` asks Android from the main thread, past the requests in the queue.

## Proofs

Eight modules hold the theorems, each for every value of the module's constants: any number
of processes, clients, files, apps, devices, changes and faults. A safety invariant is
proved from a stronger one that is inductive; the table names it.

| Module | Theorem | States | Inductive with |
|---|---|---|---|
| `Daemon_proofs` | `ServersReachable` | `[]Reachable` | `Order` |
| | `PathRight` | `[]PathLeadsToHolder` | `Order` |
| | `CallsAnswered` | `[]ActivationWorks` | `Undisturbed`: a process that is gone holds no lock, and an activated one without rivals is at a step before the name |
| | `ServiceImplemented` | `Spec => ImplementsService` | `Order`, step by step |
| `FileInotify_proofs` | `MapsInverse` | `[]TablesInverse` | itself |
| | `WatchesHaveEntries` | `[]NoOrphanWatch` | itself |
| | `TreeIsWatched` | `[]TreeWatched` | `IInv` (`ScanInv`, `KeysInv`, `WdsInv`, `OneEntry`) |
| | `FilesAreNoticed` | `[]FilesNoticed` | `IInv` |
| `NotifyList_proofs` | `NothingForgotten` | `[]Kept` | `Sound` |
| | `NoneAnnouncedEarly` | `[]NotMidWrite` | `AllLooked`, `Still` |
| | `AnnouncedPerLook` | `[]OncePerLook` | `Counted` |
| `MainThread_proofs` | `EntriesMatch` | `[]DesktopMatches` | `Covered` |
| | `NamesMatch` | `[]NamesCurrent` | `NamesInv` |
| | `LinksRight` | `[]LinksMatch` | `LinksInv` |
| | `NeverEarly` | `[]NotEarly` | `SendingInv`, `CountsInv` |
| | `ListsRight` | `[]ListsMatchAndroid` | `CountsInv`, `CrossedInv`, `ListsInv` |
| | `AnswersKept` | `[]AnswerKept` | `TellingInv` |
| | `NodesKnown` | `[]NodesUsable` | `TellingInv` |
| | `RestartsAgree` | `[]RestartAgrees` | `TellingInv` |
| | `SizesPublished` | `[]Published` | `NumbersInv`, `DensityInv` |
| `Manager_proofs` | `NothingRobbed` | `[]OthersFilesKept` | `WorkerOwns`, `BackendOwns` |
| | `SelectionKeptAlways` | `[]SelectionKept` | `Selected` |
| | `CameraSent` (`MaxFiles >= 3`) | `[]CameraFound` | `Held`, `Searched` |
| | `BatteryIsKnown` | `[]BatteryKnown` | `AllTold`, `Known` |
| `PlaybackServer_proofs` | `PathFollowed` | `[]PathIsOurs` | `WakesCounted` |
| | `AcceptedKept` | `[]AcceptedAreKept` | `NothingLoose` |
| `RecordingServer_proofs` | `SamplesFitted` (with `RatesFit`, `DenoisersFit`) | `[]SamplesFit` | `Leftovers` |
| | `ConnectionsKept` | `[]AcceptedAreKept` | `NothingHeld` |
| `Feed_proofs` | `ClientsKept` | `[]LiveClientKept` | `Startup`, `Replacing` |
| | `NullOnlyWhenFull` | `[]NoCrash` | `Startup`, `FullStays` |
| | `NewestArrives` | `[]NewestWins` | `Newest` |

and in each module `TypeCorrect`, `Spec => []TypeOK`, which no run repeats; in
`MainThread_proofs` that is the one of `AppDesktop`, and `SyncTypes` and `DisplayTypes` are
those of the two others.

`Daemon`: the properties relate three things that are given up at different times. `Order`
says for each step of each program what a process has at that step: the lock from `lock` to
its last step (the audio daemon to `unlock`), the name in the loop. The gps and the sensor
daemon would go on without a name; that they never have to follows from the lock, which the
predecessor keeps until its connection is closed. The refinement is proved action by action:
`LeaveLoop` is `Finish`, the last step before the loop `Serve` or a stutter, and
`RegisterName`, `LeaveBus`, `Kill` take or leave the name.

`FileInotify`: `AddWatchEntries` says what `addWatch` leaves of the
entries; `RemoveWatch` is the step where `TablesInverse` is used on itself, since the
paths erased from one map must be exactly those whose entries leave the other, and
the step where `NoOrphanWatch` holds because the kernel's watch goes exactly when
the last entry does.

`TreeIsWatched` and `FilesAreNoticed` hold at rest only, so that their invariant says what
holds on the way there. `ScanInv`: what is *owed* (there, shown below a root whose path is a
key, nothing on its way astray) is *done* (tracked, or met as a file) or *ahead*, that is, on
its way lies a place that a frame of the scan will come to or that a waiting event names by a
tracked directory. Each step moves a place from one to the other: an operation of the file system
raises an event on the directory something came to or, where that one is not tracked
yet, leaves it to what leads there (`AheadElsewhere`); `addWatch` comes before `opendir`, so that
what appears after the listing has an event (`AheadWatch`, `AheadList`); an event finds
the one present name of its descriptor (`WatchedPathIs`), which needs that a descriptor belongs to one
inode (`WdsInv`), a path has one entry (`OneEntry`) and a key that did not go astray
leads to the inode at its path (`KeysInv`); `removeWatch` spares a path that is a directory
(`AheadSelfGone`). The lemmas about paths (`UnderOrder`, `TowardIs`, `RebaseIs`) and the tree
(`CreateTree`, `RemoveTree`, `MoveTree`) say that a rename takes a whole subtree along and
that for everything there afterwards either nothing on its way changed or it lies below what came
(`EnvironmentIs`). When the stack and the queue are empty nothing is ahead.

`NotifyList`: `Kept` needs that a path without content is exempt (`Sound`). For
`NotMidWrite`, what is recorded of an entry is at most the file's size and less if it has
grown since (`Looked`, for each of several entries of one path), and an entry past `stat` is
`Still`. For `OncePerLook` a path's announcements and entries are together no more than the times it
was put on the list (`Counted`): an announcement takes the entry it is made for.

`AppDesktop`: `Covered(p)` says of the last signal about `p` either that it waits and says
what Android has, or that the handler under way has an answer as new as Android, or that the
entry is already right: this is what makes answers that are newer or older than their
signal harmless. `NamesInv` is the same for languages.

`SyncFiles`: a signal says what was true when it was sent, so each invariant says of a file
either that Android still has it or that the signal of its deletion waits, and behind the one
that would list it (`SignalsHold`). `LinksInv` says so of links, of the lists, and of the
signals; that a file without its own link shares a slot is the code's `link(2)` that failed.
`LinksRight` holds whatever is broken off, overlaps or changes meanwhile. `NeverEarly` and
`ListsRight` assume nothing of the first count and of the rounds before: they speak of the
`clean` rounds, which begin with nothing counted or follow one that does. `CountsInv` orders
the batches that wait: each is of a round that has begun, apart from what has arrived and from
what is left to send, and the total counts what has arrived, waits and is left
(`RoundKnown`); the batches of clean rounds come round by round with no other between them
(`BatchOrder`), the first of a round before the rest, and only it may be empty (`FirstInv`).
`m_currentNum` is then the number that arrived of the one clean round that has begun and is
not complete, and 0 when there is none (`CountInv`): a round that is told has arrived as a
whole, and the first batch of the next finds 0 and clears the lists. For the lists,
`Settled(f)` says that the last signal on its way which decides about `f` (it names it, or is
a first batch and clears the lists) is right about it, or none does and the list is right.
`ListsInv` says so of every file but those the round has left to send and those whose change
it crossed; `CrossedInv` says what the round lacks: what it has left to send is in Android,
and before its first batch nothing else is.

`Display`: a handler is followed by what is left of it. `PlanInv` says that this is always the end
of one of the three lists of stages, and `Past(k)` that a stage has been done; `Due` are the calls
left for a property. Each invariant then says of a property that it has its value or that the
call which sets it is due. `CardInv`: a process that may do drm has seen the host's
card, and the nodes it finds are that card's, unless the global environment changes
`DRI_PRIME`. `TypeInv` and `PlatformInv` say so of the mode's properties and the constructor's;
`ToldInv`: once a client has the answer nothing is due, so that a container booted with
it takes over one mode as a whole. `PromiseInv` says of that container what it runs, and that
any later process can only decide on the same type: `couldDrm` is the host's, and what runs is
asked for before the settings. `NumbersInv` says of width, height and density that the calls
due come in the code's order, defaults first, so that a container which boots between
two of them gets the rest; `DensityInv` that the density is the present screen's, unless it
changed unannounced or the handler that follows has yet to run.

`Manager`: `Owned` says what each number a thread holds is open for, as long as nothing was
closed twice. `Selected` says that a round which will write its device into the
selection either has the wanted one or is one the history variable names. `CameraFound` needs
two things: what is open is the library, the client or the device under way (`Held`), so
that three descriptors leave one for every `open` of the search; and the search has passed no
device that was a camera throughout (`Searched`). For the battery,
`AllTold` relates the cache, the last request in the queue about a property, and Android
(what was handed over last arrives last); `Known` says that a cache which is out of date has a
reading before it: at the start, for a change that waits, or for the boot report; while the
percentage is still to be read only the state has to be fresh.

`PlaybackServer`: `WakesCounted` ties the generations of workers to the wakes, so that an old
socket's file is gone before its successor's; `NothingLoose` says that what `accept`
returned is assigned next, and that `m_stream` is overwritten only when it was given up.

`RecordingServer`: a resampler that stays behind never has two equal rates, so that one that
fits a client is one it needs; no denoiser stays behind (`Leftovers`). `NothingHeld`: the stream
the worker is about to overwrite is none, or one it gave up.

`Feed`: `Startup` says that nothing is written before the worker's accept has
returned. `Replacing` carries `ClientsKept`: a thread that goes to accept a client has
seen the one before it gone, and as long as it is alone no other step changes
`m_stream`. For `NullOnlyWhenFull` a thread that is about to write has a stream unless
accept failed, and the limit, once reached, stays reached (`FullStays`). `Newest` says that
what a thread is sending is the newest position, and that a thread is still sending as
long as the client has not got it.

The assumptions are the modules' own: `FSAssumption` and `ServiceAssumption` (inodes of
directories and files are apart, the home directory is not moved, paths are sequences of
names and closed under what lies above, the daemon finds a tree when it starts), `DaemonAssumption`, `DescriptorsAssumption`, `PowerAssumption` and
`CameraAssumption` (bounds are natural numbers, at least one descriptor, at least one
charge), those of `RecordingServer`, `Feed`, `PlaybackServer`, `NotifyList` and `AppDesktop`
(`None` is no client, no piece of work; there is at least one version; clients are
finitely many), `SyncAssumption` (files are finitely many and each has a slot) and
`DisplayAssumption` (a screen is at least as wide as the scaling factor, so that a scaled one has
a width; a host's default card and a `DRI_PRIME` that names one are among its cards). TLC evaluates each of them.

Only model-checked: everything about liveness (`Settles`, `WorkedOff`, `RoundTold`, `Served`,
`WakeEnds`, `StopsOrWaits`, `StoppedEnds`, `ClientsServed`). Every invariant of a passing run
is a theorem.

## Not modelled

- `removeWatch(path)` and `wdFromWatchedPath`, which nothing calls.
- The directory and storage links of `file-watcher.cpp`: every insertion into the tables they
  work from is commented out at this commit (lines 283 to 292), so that the code in between
  is never reached with an entry. `Daemon` has how the program starts and ends.
- The interval between two calls of the sensor daemon: the models have no clock.
- A failing file system in `onSyncFiles`; `getAllFiles` and `filesIsEmpty`, which read.
- Closing, pausing and installing apps: the manager hands one call on and keeps nothing.
- The signal `sigCurrentCameraDevice`; the dialog and inhibitor at the end of a session.
- The loops of `readFully` and `writeFully` below the audio workers, one blocking step here.
- Sample data, ALSA parameters, mime detection beyond "is media", desktop file text.
- Builds for Wayland of the display type; `getWindowDensity`, a cached setting, and
  `updateVirtualDisplaySize`, which nothing calls.
- Generated D-Bus adaptors, vendored libraries, packaging and translations.

## Plan

1. Done: `FileInotify`, `NotifyList`, `SyncFiles`, `AppDesktop`, `PlaybackServer`,
   `RecordingServer`, `Feed`, `Display`.
2. Done: `Service` and `Daemon` with the refinement; `Manager` from `Power`, `Camera` and
   `Descriptors`; `GpuInfo` below `Display`; the proofs above.
3. Done: the theorems about `SyncFiles` and `Display`, `TreeWatched` and `FilesNoticed`.
4. Next: `LinkWatcher`, once the tables are filled.
