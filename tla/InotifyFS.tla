----------------------------- MODULE InotifyFS -----------------------------
(***************************************************************************)
(* What the file watcher stands on: the directory tree below the user's    *)
(* home and the kernel's inotify instance opened by                        *)
(* FileInotifyWatcher::initialize.  Neither is code of the repository; both*)
(* are modelled from how file-inotify-watcher.cpp uses them (the event     *)
(* mask of addWatchLocked, the lstat of utils.cpp, one inotify descriptor).*)
(*                                                                         *)
(* A path is the sequence of its names from the home directory.  An inode  *)
(* is a directory or a regular (media) file; a watch belongs to the inode, *)
(* not to the path, which is why a renamed directory keeps its descriptor. *)
(***************************************************************************)
EXTENDS Naturals, Sequences, FiniteSets

CONSTANTS
    Paths,          \* the paths the tree may hold, closed under parents
    Dirs, Files,    \* inodes of directories, inodes of regular files
    NoInode,        \* nothing at a path
    Fixed,          \* paths no one renames or removes
    InitialTrees,   \* the trees the daemon may find when it starts
    MaxOps,         \* bound: file-system operations in a behaviour
    QueueMax,       \* fs.inotify.max_queued_events
    MaxWatches      \* fs.inotify.max_user_watches

Inodes == Dirs \union Files

Parent(p) == SubSeq(p, 1, Len(p) - 1)
Under(p, q) == Len(p) <= Len(q) /\ SubSeq(q, 1, Len(p)) = p   \* q is p or below
Rebase(r, p, q) == q \o SubSeq(r, Len(p) + 1, Len(r))         \* r, moved from p to q

\* What is above something is a directory, and no inode has two paths.
IsTree(t) ==
    /\ t[<<>>] \in Dirs
    /\ \A p, q \in Paths : t[p] # NoInode /\ Under(q, p) /\ q # p => t[q] \in Dirs
    /\ \A p, q \in Paths : t[p] # NoInode /\ t[q] = t[p] => q = p

ASSUME FSAssumption ==
    /\ Dirs \intersect Files = {}
    /\ NoInode \notin Inodes
    /\ <<>> \in Paths /\ <<>> \in Fixed
    /\ \A p \in Paths : \A n \in 0..Len(p) : SubSeq(p, 1, n) \in Paths
    /\ InitialTrees \subseteq {t \in [Paths -> Inodes \union {NoInode}] : IsTree(t)}
    /\ MaxOps \in Nat /\ QueueMax \in Nat /\ MaxWatches \in Nat

VARIABLES
    fs,         \* fs[p]: the inode at path p, or NoInode
    kwatch,     \* kwatch[i]: descriptor of the kernel's watch on inode i, or 0
    nextWd,     \* the next descriptor inotify_add_watch hands out
    queue,      \* events not yet returned by readNextEvent, oldest first
    overflow,   \* history: some event was dropped because the queue was full
    ops         \* file-system operations done so far

fsVars == <<fs, kwatch, nextWd, queue, overflow, ops>>

Masks  == {"IN_CREATE", "IN_MOVED_TO", "IN_MOVE_SELF", "IN_DELETE_SELF"}
NoName == "none"

\* isPathDir and isPathRegularFile: lstat, then the file type
IsDir(p)  == p \in Paths /\ fs[p] \in Dirs
IsFile(p) == p \in Paths /\ fs[p] \in Files
Children(p) == {c \in Paths : c # <<>> /\ Parent(c) = p /\ fs[c] # NoInode}

-----------------------------------------------------------------------------
(***************************************************************************)
(* The kernel's queue.  An event that repeats the last queued one is merged *)
(* into it; a full queue drops the event (run() ignores IN_Q_OVERFLOW).    *)
(***************************************************************************)
Event(wd, mask, name) == [wd |-> wd, mask |-> mask, name |-> name]

\* The pair <<queue, overflow>> after the event is raised; none without a watch.
Raise(q, e) ==
    IF \/ e.wd = 0
       \/ q.events # <<>> /\ q.events[Len(q.events)] = e
    THEN q
    ELSE IF Len(q.events) >= QueueMax
         THEN [q EXCEPT !.dropped = TRUE]
         ELSE [q EXCEPT !.events = Append(@, e)]

Pending == [events |-> queue, dropped |-> overflow]

SetPending(q) == queue' = q.events /\ overflow' = q.dropped

NameOf(p) == p[Len(p)]
ParentWd(p) == kwatch[fs[Parent(p)]]

-----------------------------------------------------------------------------
FSInit ==
    /\ fs \in InitialTrees
    /\ kwatch = [i \in Inodes |-> 0]
    /\ nextWd = 1
    /\ queue = <<>>
    /\ overflow = FALSE
    /\ ops = 0

Unused == {i \in Inodes : \A p \in Paths : fs[p] # i}

CanHold(p) == p # <<>> /\ fs[p] = NoInode /\ IsDir(Parent(p))

\* mkdir, or a regular file created in place: IN_CREATE on the parent.
Create(p, i) ==
    /\ ops < MaxOps
    /\ CanHold(p) /\ i \in Unused
    /\ fs' = [fs EXCEPT ![p] = i]
    /\ SetPending(Raise(Pending, Event(ParentWd(p), "IN_CREATE", NameOf(p))))
    /\ ops' = ops + 1
    /\ UNCHANGED <<kwatch, nextWd>>

\* rmdir of an empty directory or unlink: the inode dies, and its watch with it.
Remove(p) ==
    /\ ops < MaxOps
    /\ p \notin Fixed /\ fs[p] # NoInode /\ Children(p) = {}
    /\ SetPending(Raise(Pending, Event(kwatch[fs[p]], "IN_DELETE_SELF", NoName)))
    /\ fs' = [fs EXCEPT ![p] = NoInode]
    /\ kwatch' = [kwatch EXCEPT ![fs[p]] = 0]
    /\ ops' = ops + 1
    /\ UNCHANGED nextWd

\* rename: IN_MOVED_TO on the new parent, then IN_MOVE_SELF on the inode moved.
Move(p, q) ==
    /\ ops < MaxOps
    /\ p \notin Fixed /\ fs[p] # NoInode /\ CanHold(q) /\ ~Under(p, q)
    /\ \A r \in Paths : Under(p, r) /\ fs[r] # NoInode => Rebase(r, p, q) \in Paths
    /\ fs' = [r \in Paths |->
                IF Under(q, r)
                THEN IF Rebase(r, q, p) \in Paths THEN fs[Rebase(r, q, p)] ELSE NoInode
                ELSE IF Under(p, r) THEN NoInode ELSE fs[r]]
    /\ SetPending(Raise(Raise(Pending,
                              Event(ParentWd(q), "IN_MOVED_TO", NameOf(q))),
                        Event(kwatch[fs[p]], "IN_MOVE_SELF", NoName)))
    /\ ops' = ops + 1
    /\ UNCHANGED <<kwatch, nextWd>>

Environment ==
    \/ \E p \in Paths, i \in Inodes : Create(p, i)
    \/ \E p \in Paths : Remove(p)
    \/ \E p, q \in Paths : Move(p, q)

-----------------------------------------------------------------------------
(***************************************************************************)
(* inotify_add_watch on the inode at a path: the descriptor the inode has  *)
(* already, or a fresh one while the user's limit is not reached.          *)
(***************************************************************************)
Watched == {i \in Inodes : kwatch[i] # 0}
CanWatch(i) == kwatch[i] # 0 \/ Cardinality(Watched) < MaxWatches
WdFor(i) == IF kwatch[i] # 0 THEN kwatch[i] ELSE nextWd

InotifyAddWatch(i) ==
    /\ kwatch' = [kwatch EXCEPT ![i] = WdFor(i)]
    /\ nextWd' = IF kwatch[i] # 0 THEN nextWd ELSE nextWd + 1

\* inotify_rm_watch; a descriptor that is gone already is EINVAL, no effect.
InotifyRmWatch(wd) ==
    kwatch' = [i \in Inodes |-> IF kwatch[i] = wd THEN 0 ELSE kwatch[i]]
=============================================================================
