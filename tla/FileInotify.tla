---------------------------- MODULE FileInotify ----------------------------
(***************************************************************************)
(* kylin-kmre-filewatcher's inotify service: FileInotifyWatcher's two maps *)
(* between watch descriptors and paths, FileInotifyService's recursive     *)
(* scan, and the handler of run().  The file system moves on between any   *)
(* two steps of the daemon: every event and every directory listing may be *)
(* out of date when it is used.                                            *)
(*                                                                         *)
(* main() adds the roots recursively (shouldNotify false), then starts the *)
(* thread that runs run(); both hold mWatcherLock while they scan and never*)
(* overlap, so one stack of frames stands for the recursion of either.     *)
(***************************************************************************)
EXTENDS InotifyFS

CONSTANTS
    Names,      \* file names
    Roots,      \* the paths main() adds, in its order
    Hidden      \* the names that start with a dot

ASSUME ServiceAssumption == Paths \subseteq Seq(Names) /\ Roots \in Seq(Paths)

VARIABLES
    wdToPath,   \* mWdToPathMap: a set of [wd, path, age]; QMultiMap keeps the
                \* values of one key newest first, age is the position
    pathToWd,   \* mPathToWdMap: pathToWd[p] is a descriptor, or 0 when absent
    toAdd,      \* roots main() has still to add
    running,    \* start() was called: run() reads events
    stack,      \* frames of watchAndNotifyDirectoryRecursivelyLocked
    noticed,    \* history: <<path, inode>> given to addNotifyFileLocked
    skipped,    \* history: <<path, inode>> met with shouldNotifyFile false
    astray,     \* history: inodes that came to a name, or lost one to another inode,
                \* while it was a key of pathToWd (see Elsewhere)
    refused     \* history: inotify_add_watch failed at the user's limit

svcVars == <<wdToPath, pathToWd, toAdd, running, stack,
             noticed, skipped, astray, refused>>
vars == <<fsVars, svcVars>>

Entry == [wd : Nat \ {0}, path : Paths, age : Nat]

\* A call of watchAndNotifyDirectoryRecursivelyLocked(path): at = "watch" before
\* addWatchLocked, "list" before opendir, "walk" while readdir has names left.
Frame == [path : Paths, at : {"watch", "list", "walk"}, left : SUBSET Paths]
Call(p) == [path |-> p, at |-> "watch", left |-> {}]

Init ==
    /\ FSInit
    /\ wdToPath = {}
    /\ pathToWd = [p \in Paths |-> 0]
    /\ toAdd = Roots
    /\ running = FALSE
    /\ stack = <<>>
    /\ noticed = {} /\ skipped = {} /\ astray = {} /\ refused = FALSE

-----------------------------------------------------------------------------
(* FileInotifyWatcher *)

EntriesOf(wd) == {e \in wdToPath : e.wd = wd}

\* mWdToPathMap.insert: the new value comes before the key's older ones.
InsertEntry(wd, p) ==
    {[wd |-> wd, path |-> p, age |-> 0]} \union
    {IF e.wd = wd THEN [e EXCEPT !.age = @ + 1] ELSE e : e \in wdToPath}

\* addWatch: nothing when the path is a key already, whatever inode is there now.
AddWatch(p) ==
    LET i == fs[p]
        known == pathToWd[p] # 0
    IN  /\ refused' = (refused \/ (~known /\ ~CanWatch(i)))
        /\ IF known \/ ~CanWatch(i)
           THEN UNCHANGED <<kwatch, nextWd, wdToPath, pathToWd>>
           ELSE /\ InotifyAddWatch(i)
                /\ wdToPath' = InsertEntry(WdFor(i), p)
                /\ pathToWd' = [pathToWd EXCEPT ![p] = WdFor(i)]

\* Wrong forms of removeWatch: the path key stays; the kernel's watch stays; every
\* path of the descriptor goes, without looking whether it is a directory.
RemoveWatch_KeepKey(wd) ==
    LET gone == {e \in EntriesOf(wd) : ~IsDir(e.path)}
    IN  /\ wdToPath' = wdToPath \ gone
        /\ UNCHANGED pathToWd
        /\ IF gone = EntriesOf(wd) THEN InotifyRmWatch(wd) ELSE UNCHANGED kwatch

RemoveWatch_NoRm(wd) ==
    LET gone == {e \in EntriesOf(wd) : ~IsDir(e.path)}
        paths == {e.path : e \in gone}
    IN  /\ wdToPath' = wdToPath \ gone
        /\ pathToWd' = [p \in Paths |-> IF p \in paths THEN 0 ELSE pathToWd[p]]
        /\ UNCHANGED kwatch

RemoveWatch_NoStat(wd) ==
    /\ wdToPath' = wdToPath \ EntriesOf(wd)
    /\ pathToWd' = [p \in Paths |-> IF pathToWd[p] = wd THEN 0 ELSE pathToWd[p]]
    /\ InotifyRmWatch(wd)

\* removeWatch(int wd): drop the descriptor's paths that are no directory now,
\* and the kernel's watch when no path is left.
RemoveWatch(wd) ==
    LET gone == {e \in EntriesOf(wd) : ~IsDir(e.path)}
        paths == {e.path : e \in gone}
    IN  /\ wdToPath' = wdToPath \ gone
        /\ pathToWd' = [p \in Paths |-> IF p \in paths THEN 0 ELSE pathToWd[p]]
        /\ IF gone = EntriesOf(wd)
           THEN InotifyRmWatch(wd)
           ELSE UNCHANGED kwatch

\* watchedPathFromWd: the newest path of the descriptor that is a directory now.
DirEntries(wd) == {e \in EntriesOf(wd) : IsDir(e.path)}
WatchedPathFromWd(wd) ==
    (CHOOSE e \in DirEntries(wd) : \A o \in DirEntries(wd) : e.age <= o.age).path

-----------------------------------------------------------------------------
(* The recursive scan *)

Top == Head(stack)
Return == stack' = Tail(stack)
Goto(at, left) == stack' = <<[Top EXCEPT !.at = at, !.left = left]>> \o Tail(stack)

AddNotifyFile(p) == noticed' = noticed \union {<<p, fs[p]>>}

\* realpath, then addWatchLocked; a path that is gone ends the call.  A failed
\* addWatch does not.
ScanWatch ==
    /\ stack # <<>> /\ Top.at = "watch"
    /\ IF fs[Top.path] = NoInode
       THEN /\ Return
            /\ UNCHANGED <<kwatch, nextWd, wdToPath, pathToWd, refused>>
       ELSE AddWatch(Top.path) /\ Goto("list", {})
    /\ UNCHANGED <<fs, queue, overflow, ops, toAdd, running, noticed, skipped, astray>>

\* opendir and the names readdir will return, hidden ones left out.
ScanList ==
    /\ stack # <<>> /\ Top.at = "list"
    /\ IF IsDir(Top.path)
       THEN Goto("walk", {c \in Children(Top.path) : NameOf(c) \notin Hidden})
       ELSE Return
    /\ UNCHANGED <<fsVars, wdToPath, pathToWd, toAdd, running,
                   noticed, skipped, astray, refused>>

\* Wrong form: a scan never notifies, as at start.
ScanEntry_Silent ==
    /\ stack # <<>> /\ Top.at = "walk"
    /\ \E c \in Top.left :
        LET rest == <<[Top EXCEPT !.left = @ \ {c}]>> \o Tail(stack)
        IN  stack' = IF IsDir(c) THEN <<Call(c)>> \o rest ELSE rest
    /\ UNCHANGED <<fsVars, wdToPath, pathToWd, toAdd, running,
                   noticed, skipped, astray, refused>>

\* One name: a file is noted when the scan notifies, a directory is entered.
ScanEntry ==
    /\ stack # <<>> /\ Top.at = "walk"
    /\ \E c \in Top.left :
        LET rest == <<[Top EXCEPT !.left = @ \ {c}]>> \o Tail(stack)
        IN  /\ stack' = IF IsDir(c) THEN <<Call(c)>> \o rest ELSE rest
            /\ IF IsFile(c) /\ running
               THEN AddNotifyFile(c) ELSE UNCHANGED noticed
            /\ skipped' = IF IsFile(c) /\ ~running
                          THEN skipped \union {<<c, fs[c]>>} ELSE skipped
    /\ UNCHANGED <<fsVars, wdToPath, pathToWd, toAdd, running, astray, refused>>

\* closedir and return.
ScanDone ==
    /\ stack # <<>> /\ Top.at = "walk" /\ Top.left = {}
    /\ Return
    /\ UNCHANGED <<fsVars, wdToPath, pathToWd, toAdd, running,
                   noticed, skipped, astray, refused>>

-----------------------------------------------------------------------------
(* main() and run() *)

AddRoot ==
    /\ stack = <<>> /\ toAdd # <<>>
    /\ stack' = IF IsDir(Head(toAdd)) THEN <<Call(Head(toAdd))>> ELSE <<>>
    /\ toAdd' = Tail(toAdd)
    /\ UNCHANGED <<fsVars, wdToPath, pathToWd, running,
                   noticed, skipped, astray, refused>>

Start ==
    /\ stack = <<>> /\ toAdd = <<>> /\ ~running
    /\ running' = TRUE
    /\ UNCHANGED <<fsVars, wdToPath, pathToWd, toAdd, stack,
                   noticed, skipped, astray, refused>>

ReadNextEvent == running /\ stack = <<>> /\ queue # <<>> /\ queue' = Tail(queue)

\* Wrong form: an event whose directory has no name is looked at again, not dropped.
HandleNewEntry_Again ==
    LET e == Head(queue)
        newPath == Append(WatchedPathFromWd(e.wd), e.name)
        found == DirEntries(e.wd) # {}
    IN  /\ running /\ stack = <<>> /\ queue # <<>>
        /\ queue' = IF found THEN Tail(queue) ELSE queue
        /\ e.mask \in {"IN_CREATE", "IN_MOVED_TO"}
        /\ stack' = IF found /\ IsDir(newPath) THEN <<Call(newPath)>> ELSE <<>>
        /\ IF found /\ IsFile(newPath)
           THEN AddNotifyFile(newPath) ELSE UNCHANGED noticed
        /\ UNCHANGED <<fs, kwatch, nextWd, overflow, ops, wdToPath, pathToWd,
                       toAdd, running, skipped, astray, refused>>

\* IN_CREATE, IN_MOVED_TO: the new path is built from the directory's present
\* name and looked at again; a new directory is scanned with notification.
HandleNewEntry ==
    LET e == Head(queue)
        newPath == Append(WatchedPathFromWd(e.wd), e.name)
        found == DirEntries(e.wd) # {}
    IN  /\ ReadNextEvent
        /\ e.mask \in {"IN_CREATE", "IN_MOVED_TO"}
        /\ stack' = IF found /\ IsDir(newPath) THEN <<Call(newPath)>> ELSE <<>>
        /\ IF found /\ IsFile(newPath)
           THEN AddNotifyFile(newPath) ELSE UNCHANGED noticed
        /\ UNCHANGED <<fs, kwatch, nextWd, overflow, ops, wdToPath, pathToWd,
                       toAdd, running, skipped, astray, refused>>

\* IN_MOVE_SELF, IN_DELETE_SELF.
HandleSelfGone ==
    LET e == Head(queue)
    IN  /\ ReadNextEvent
        /\ e.mask \in {"IN_MOVE_SELF", "IN_DELETE_SELF"}
        /\ RemoveWatch(e.wd)
        /\ UNCHANGED <<fs, nextWd, overflow, ops, toAdd, running, stack,
                       noticed, skipped, astray, refused>>

Daemon ==
    \/ AddRoot \/ Start
    \/ ScanWatch \/ ScanList \/ ScanEntry \/ ScanDone
    \/ HandleNewEntry \/ HandleSelfGone

\* Something comes to p while p is still a key: another inode than the one whose
\* watch the key leads to, or a root, above which no one watches.
Taken(p) ==
    /\ pathToWd[p] # 0 /\ fs'[p] \notin {fs[p], NoInode}
    /\ kwatch'[fs'[p]] # pathToWd[p] \/ \E k \in DOMAIN Roots : Roots[k] = p

\* The file system moves on; the daemon's state stays.
Elsewhere ==
    /\ Environment
    /\ astray' = (astray \ Unused) \union
          {i \in Inodes : \E p \in Paths : Taken(p) /\ (i = fs'[p] \/ kwatch'[i] = pathToWd[p])}
    /\ UNCHANGED <<wdToPath, pathToWd, toAdd, running, stack, noticed, skipped, refused>>

Next ==
    \/ Elsewhere
    \/ Daemon

Spec == Init /\ [][Next]_vars

\* main() and the thread of run() are ordinary threads: the scheduler runs them.
FairSpec == Spec /\ WF_vars(Daemon)

-----------------------------------------------------------------------------
(* Properties *)

\* Type correctness of the kernel's and the service's state.
TypeOK ==
    /\ fs \in [Paths -> Inodes \union {NoInode}]
    /\ kwatch \in [Inodes -> Nat]
    /\ nextWd \in Nat \ {0}
    /\ queue \in Seq([wd : Nat, mask : Masks, name : Names \union {NoName}])
    /\ overflow \in BOOLEAN /\ ops \in Nat
    /\ wdToPath \subseteq Entry
    /\ pathToWd \in [Paths -> Nat]
    /\ toAdd \in Seq(Paths)
    /\ running \in BOOLEAN
    /\ stack \in Seq(Frame)
    /\ noticed \subseteq Paths \X Inodes
    /\ skipped \subseteq Paths \X Inodes
    /\ astray \subseteq Inodes
    /\ refused \in BOOLEAN

\* The two maps are inverse to each other: a path has one descriptor at most, and
\* it is listed under exactly that one (addWatch and removeWatch update both, but
\* removeWatch erases mPathToWdMap by path, whichever descriptor it maps to).
TablesInverse ==
    /\ \A e \in wdToPath : pathToWd[e.path] = e.wd
    /\ \A p \in Paths : pathToWd[p] # 0 =>
          \E e \in wdToPath : e.path = p /\ e.wd = pathToWd[p]

\* No watch of the kernel is forgotten: while it lives some path of the maps leads
\* to its descriptor, so its events can be named and it can be removed.
NoOrphanWatch == \A i \in Watched : EntriesOf(kwatch[i]) # {}

Quiescent == running /\ stack = <<>> /\ queue = <<>>
Faultless == ~overflow /\ ~refused

\* The maps know the directory at p by its own watch.
Tracked(p) == IsDir(p) /\ pathToWd[p] # 0 /\ pathToWd[p] = kwatch[fs[p]]

\* p lies below a root, in no hidden directory, and every directory of its path has
\* been known by its own names all the time.
InTree(p) ==
    /\ \E k \in DOMAIN Roots :
          /\ Tracked(Roots[k]) /\ Under(Roots[k], p) /\ p # Roots[k]
          /\ \A n \in Len(Roots[k]) + 1 .. Len(p) : p[n] \notin Hidden
    /\ \A q \in Paths : IsDir(q) /\ Under(q, p) => fs[q] \notin astray

\* When every event is handled, each directory below a root is tracked, through any
\* renames and removals that raced with the scan.  The one way to lose a directory is
\* a name that is given away while it is still a key of mPathToWdMap.
TreeWatched ==
    Quiescent /\ Faultless => \A p \in Paths : IsDir(p) /\ InTree(p) => Tracked(p)

\* When every event is handled, each file below a root was put on the notification list
\* under its present path, unless the scan at start passed it over: the scan and the
\* events leave no gap between them.
FilesNoticed ==
    Quiescent /\ Faultless =>
        \A p \in Paths : IsFile(p) /\ InTree(p) => <<p, fs[p]>> \in noticed \union skipped

\* Once the file system is quiet, the daemon handles all events and rests.
Settles == []<>Quiescent
=============================================================================
