------------------------- MODULE FileInotify_proofs -------------------------
(***************************************************************************)
(* Proofs about the file watcher's inotify service, for every tree, every  *)
(* set of roots and hidden names and every queue and watch limit: the      *)
(* state is well typed, the two maps stay inverse to each other, no watch  *)
(* of the kernel is left without an entry, and when every event is handled *)
(* each directory below a root is watched and each file there was met.     *)
(***************************************************************************)
EXTENDS FileInotify, SequenceTheorems, TLAPS

\* The events of the kernel and its queue with the mark of a dropped one, as Raise takes it.
EventType == [wd : Nat, mask : Masks, name : Names \union {NoName}]
PendingType == [events : Seq(EventType), dropped : BOOLEAN]

\* The kernel's queue keeps its type whatever is raised.
LEMMA RaiseType ==
    ASSUME NEW q \in PendingType, NEW e \in EventType
    PROVE  Raise(q, e) \in PendingType
<1>1. q.events \in Seq(EventType) /\ Append(q.events, e) \in Seq(EventType)
  BY DEF PendingType
<1>2. [q EXCEPT !.dropped = TRUE] \in PendingType
  BY DEF PendingType
<1>3. \A s \in Seq(EventType) : [q EXCEPT !.events = s] \in PendingType
  BY DEF PendingType
<1>4. QED
  BY <1>1, <1>2, <1>3 DEF Raise

\* An event built from a descriptor, a mask and a name has the type of events.
LEMMA EventTyped ==
    ASSUME NEW w \in Nat, NEW m \in Masks, NEW n \in Names \union {NoName}
    PROVE  Event(w, m, n) \in EventType
BY DEF Event, EventType

\* The last name of a path below the home directory is a name.
LEMMA NameTyped ==
    ASSUME NEW p \in Paths, p # <<>>
    PROVE  NameOf(p) \in Names
BY ServiceAssumption DEF NameOf

\* A file-system operation keeps the types of the tree, the watches and the queue,
\* and no inode gains a watch by it.
LEMMA EnvironmentType ==
    ASSUME TypeOK, Environment
    PROVE  /\ fs' \in [Paths -> Inodes \union {NoInode}]
           /\ kwatch' \in [Inodes -> Nat]
           /\ nextWd' \in Nat \ {0}
           /\ queue' \in Seq(EventType)
           /\ overflow' \in BOOLEAN /\ ops' \in Nat
           /\ \A i \in Inodes : kwatch'[i] \in {kwatch[i], 0}
<1>1. Pending \in PendingType
  BY DEF TypeOK, Pending, PendingType, EventType
<1>2. ASSUME NEW p \in Paths, CanHold(p)
      PROVE  ParentWd(p) \in Nat /\ NameOf(p) \in Names
  <2>1. fs[Parent(p)] \in Inodes
    BY <1>2 DEF CanHold, IsDir, Inodes
  <2>2. QED
    BY <1>2, <2>1, NameTyped DEF ParentWd, TypeOK, CanHold
<1>3. ASSUME NEW q \in PendingType, SetPending(q)
      PROVE  queue' \in Seq(EventType) /\ overflow' \in BOOLEAN
  BY <1>3 DEF SetPending, PendingType
<1>4. ASSUME NEW p \in Paths, NEW i \in Inodes, Create(p, i)
      PROVE  /\ fs' \in [Paths -> Inodes \union {NoInode}]
             /\ kwatch' = kwatch /\ nextWd' = nextWd /\ ops' \in Nat
             /\ queue' \in Seq(EventType) /\ overflow' \in BOOLEAN
  <2>1. Event(ParentWd(p), "IN_CREATE", NameOf(p)) \in EventType
    BY <1>2, <1>4, EventTyped DEF Create, Masks
  <2>2. queue' \in Seq(EventType) /\ overflow' \in BOOLEAN
    BY <1>1, <1>3, <1>4, <2>1, RaiseType DEF Create
  <2>3. QED
    BY <1>4, <2>2 DEF Create, TypeOK
<1>5. ASSUME NEW p \in Paths, Remove(p)
      PROVE  /\ fs' \in [Paths -> Inodes \union {NoInode}]
             /\ kwatch' \in [Inodes -> Nat] /\ nextWd' = nextWd /\ ops' \in Nat
             /\ \A i \in Inodes : kwatch'[i] \in {kwatch[i], 0}
             /\ queue' \in Seq(EventType) /\ overflow' \in BOOLEAN
  <2>1. fs[p] \in Inodes
    BY <1>5 DEF Remove, TypeOK
  <2>2. Event(kwatch[fs[p]], "IN_DELETE_SELF", NoName) \in EventType
    BY <2>1, EventTyped DEF TypeOK, Masks
  <2>3. queue' \in Seq(EventType) /\ overflow' \in BOOLEAN
    BY <1>1, <1>3, <1>5, <2>2, RaiseType DEF Remove
  <2>4. QED
    BY <1>5, <2>1, <2>3 DEF Remove, TypeOK
<1>6. ASSUME NEW p \in Paths, NEW q \in Paths, Move(p, q)
      PROVE  /\ fs' \in [Paths -> Inodes \union {NoInode}]
             /\ kwatch' = kwatch /\ nextWd' = nextWd /\ ops' \in Nat
             /\ queue' \in Seq(EventType) /\ overflow' \in BOOLEAN
  <2>1. Event(ParentWd(q), "IN_MOVED_TO", NameOf(q)) \in EventType
    BY <1>2, <1>6, EventTyped DEF Move, Masks
  <2>2. Event(kwatch[fs[p]], "IN_MOVE_SELF", NoName) \in EventType
    <3>1. fs[p] \in Inodes
      BY <1>6 DEF Move, TypeOK
    <3>2. QED
      BY <3>1, EventTyped DEF TypeOK, Masks
  <2>3. queue' \in Seq(EventType) /\ overflow' \in BOOLEAN
    BY <1>1, <1>3, <1>6, <2>1, <2>2, RaiseType DEF Move
  <2>4. fs' \in [Paths -> Inodes \union {NoInode}]
    BY <1>6 DEF Move, TypeOK
  <2>5. QED
    BY <1>6, <2>3, <2>4 DEF Move, TypeOK
<1>7. QED
  BY <1>4, <1>5, <1>6 DEF Environment, TypeOK

\* inotify_add_watch and the insertion into both maps keep the types.
LEMMA AddWatchType ==
    ASSUME TypeOK, NEW p \in Paths, fs[p] # NoInode, AddWatch(p)
    PROVE  /\ kwatch' \in [Inodes -> Nat]
           /\ nextWd' \in Nat \ {0}
           /\ wdToPath' \subseteq Entry
           /\ pathToWd' \in [Paths -> Nat]
           /\ refused' \in BOOLEAN
<1>1. fs[p] \in Inodes
  BY DEF TypeOK
<1>2. WdFor(fs[p]) \in Nat \ {0}
  BY <1>1 DEF WdFor, TypeOK
<1>3. InsertEntry(WdFor(fs[p]), p) \subseteq Entry
  <2>1. [wd |-> WdFor(fs[p]), path |-> p, age |-> 0] \in Entry
    BY <1>2 DEF Entry
  <2>2. ASSUME NEW e \in wdToPath
        PROVE  e \in Entry /\ [e EXCEPT !.age = @ + 1] \in Entry
    <3>1. e \in Entry
      BY DEF TypeOK
    <3>2. QED
      BY <3>1 DEF Entry
  <2>3. QED
    BY <2>1, <2>2 DEF InsertEntry
<1>4. CASE pathToWd[p] # 0 \/ ~CanWatch(fs[p])
  BY <1>4 DEF AddWatch, TypeOK
<1>5. CASE ~(pathToWd[p] # 0 \/ ~CanWatch(fs[p]))
  <2>1. /\ InotifyAddWatch(fs[p])
        /\ wdToPath' = InsertEntry(WdFor(fs[p]), p)
        /\ pathToWd' = [pathToWd EXCEPT ![p] = WdFor(fs[p])]
        /\ refused' = (refused \/ (pathToWd[p] = 0 /\ ~CanWatch(fs[p])))
    BY <1>5 DEF AddWatch
  <2>2. kwatch' \in [Inodes -> Nat] /\ nextWd' \in Nat \ {0}
    BY <1>1, <1>2, <2>1 DEF InotifyAddWatch, TypeOK
  <2>3. pathToWd' \in [Paths -> Nat]
    BY <1>2, <2>1 DEF TypeOK
  <2>4. refused' \in BOOLEAN
    BY <2>1 DEF TypeOK
  <2>5. QED
    BY <1>3, <2>1, <2>2, <2>3, <2>4
<1>6. QED
  BY <1>4, <1>5

\* A frame taken off the stack, changed or put on it leaves frames on it.
LEMMA StackType ==
    ASSUME NEW s \in Seq(Frame), s # <<>>
    PROVE  /\ Head(s) \in Frame /\ Tail(s) \in Seq(Frame)
           /\ \A f \in Frame : <<f>> \o Tail(s) \in Seq(Frame)
OBVIOUS

\* A call of the scan begins with a well-formed frame.
LEMMA CallType == ASSUME NEW p \in Paths PROVE Call(p) \in Frame
BY DEF Call, Frame

\* Types are preserved by every step.
LEMMA NextType == TypeOK /\ [Next]_vars => TypeOK'
<1> SUFFICES ASSUME TypeOK, [Next]_vars PROVE TypeOK'
  OBVIOUS
<1>0. stack # <<>> => /\ Top \in Frame /\ Tail(stack) \in Seq(Frame)
                      /\ \A f \in Frame : <<f>> \o Tail(stack) \in Seq(Frame)
  BY StackType DEF TypeOK, Top
<1>1. CASE Elsewhere
  <2>1. astray' \subseteq Inodes
    BY <1>1 DEF Elsewhere, TypeOK
  <2>2. QED
    BY <1>1, <2>1, EnvironmentType DEF Elsewhere, TypeOK, EventType
<1>2. CASE AddRoot
  <2>1. Head(toAdd) \in Paths /\ Tail(toAdd) \in Seq(Paths)
    BY <1>2 DEF AddRoot, TypeOK
  <2>2. stack' \in Seq(Frame)
    BY <1>2, <2>1, CallType DEF AddRoot
  <2>3. QED
    BY <1>2, <2>1, <2>2 DEF AddRoot, TypeOK, fsVars
<1>3. CASE Start
  BY <1>3 DEF Start, TypeOK, fsVars
<1>4. CASE ScanWatch
  <2>1. Top.path \in Paths
    BY <1>0, <1>4 DEF ScanWatch, Frame
  <2>2. CASE fs[Top.path] = NoInode
    BY <1>0, <1>4, <2>2 DEF ScanWatch, Return, TypeOK
  <2>3. CASE fs[Top.path] # NoInode
    <3>1. AddWatch(Top.path) /\ Goto("list", {})
      BY <1>4, <2>3 DEF ScanWatch
    <3>2. [Top EXCEPT !.at = "list", !.left = {}] \in Frame
      BY <1>0, <1>4 DEF ScanWatch, Frame
    <3>3. stack' \in Seq(Frame)
      BY <1>0, <1>4, <3>1, <3>2 DEF ScanWatch, Goto
    <3>4. QED
      BY <1>4, <2>1, <2>3, <3>1, <3>3, AddWatchType DEF ScanWatch, TypeOK
  <2>4. QED
    BY <2>2, <2>3
<1>5. CASE ScanList
  <2>1. [Top EXCEPT !.at = "walk",
             !.left = {c \in Children(Top.path) : NameOf(c) \notin Hidden}] \in Frame
    BY <1>0, <1>5 DEF ScanList, Frame, Children
  <2>2. stack' \in Seq(Frame)
    BY <1>0, <1>5, <2>1 DEF ScanList, Goto, Return
  <2>3. QED
    BY <1>5, <2>2 DEF ScanList, TypeOK, fsVars
<1>6. CASE ScanEntry
  <2>1. PICK c \in Top.left :
            /\ stack' = IF IsDir(c)
                        THEN <<Call(c)>> \o (<<[Top EXCEPT !.left = @ \ {c}]>> \o Tail(stack))
                        ELSE <<[Top EXCEPT !.left = @ \ {c}]>> \o Tail(stack)
            /\ IF IsFile(c) /\ running
               THEN AddNotifyFile(c) ELSE UNCHANGED noticed
            /\ skipped' = IF IsFile(c) /\ ~running
                          THEN skipped \union {<<c, fs[c]>>} ELSE skipped
    BY <1>6 DEF ScanEntry
  <2>2. c \in Paths /\ [Top EXCEPT !.left = @ \ {c}] \in Frame
    BY <1>0, <1>6 DEF ScanEntry, Frame
  <2>3. stack' \in Seq(Frame)
    <3>1. <<[Top EXCEPT !.left = @ \ {c}]>> \o Tail(stack) \in Seq(Frame)
      BY <1>0, <1>6, <2>2 DEF ScanEntry
    <3>2. \A f \in Frame, s \in Seq(Frame) : <<f>> \o s \in Seq(Frame)
      OBVIOUS
    <3>3. QED
      BY <2>1, <2>2, <3>1, <3>2, CallType
  <2>4. IsFile(c) => <<c, fs[c]>> \in Paths \X Inodes
    BY <2>2 DEF IsFile, Inodes
  <2>5. noticed' \subseteq Paths \X Inodes /\ skipped' \subseteq Paths \X Inodes
    BY <2>1, <2>4 DEF AddNotifyFile, TypeOK
  <2>6. QED
    BY <1>6, <2>3, <2>5 DEF ScanEntry, TypeOK, fsVars
<1>7. CASE ScanDone
  BY <1>0, <1>7 DEF ScanDone, Return, TypeOK, fsVars
<1>8. CASE HandleNewEntry
  <2> DEFINE e == Head(queue)
             newPath == Append(WatchedPathFromWd(e.wd), e.name)
             found == DirEntries(e.wd) # {}
  <2>1. queue' \in Seq(EventType)
    BY <1>8 DEF HandleNewEntry, ReadNextEvent, TypeOK, EventType
  <2>2. stack' = IF found /\ IsDir(newPath) THEN <<Call(newPath)>> ELSE <<>>
    BY <1>8 DEF HandleNewEntry
  <2>3. stack' \in Seq(Frame)
    <3> HIDE DEF newPath, found
    <3> QED BY <2>2, CallType DEF IsDir
  <2>4. IF found /\ IsFile(newPath) THEN AddNotifyFile(newPath) ELSE UNCHANGED noticed
    BY <1>8 DEF HandleNewEntry
  <2>5. noticed' \subseteq Paths \X Inodes
    <3> HIDE DEF newPath, found
    <3> QED BY <2>4 DEF AddNotifyFile, IsFile, Inodes, TypeOK
  <2>6. QED
    BY <1>8, <2>1, <2>3, <2>5 DEF HandleNewEntry, TypeOK, EventType
<1>9. CASE HandleSelfGone
  <2>1. queue' \in Seq(EventType)
    BY <1>9 DEF HandleSelfGone, ReadNextEvent, TypeOK, EventType
  <2>2. /\ wdToPath' \subseteq Entry /\ pathToWd' \in [Paths -> Nat]
        /\ kwatch' \in [Inodes -> Nat]
    BY <1>9 DEF HandleSelfGone, RemoveWatch, InotifyRmWatch, TypeOK
  <2>3. QED
    BY <1>9, <2>1, <2>2 DEF HandleSelfGone, ReadNextEvent, TypeOK, EventType
<1>10. CASE UNCHANGED vars
  BY <1>10 DEF vars, fsVars, svcVars, TypeOK
<1>11. QED
  BY <1>1, <1>2, <1>3, <1>4, <1>5, <1>6, <1>7, <1>8, <1>9, <1>10 DEF Next, Daemon

\* The initial state has its types.
LEMMA InitType == Init => TypeOK
<1> SUFFICES ASSUME Init PROVE TypeOK
  OBVIOUS
<1>1. ASSUME NEW S PROVE <<>> \in Seq(S)
  OBVIOUS
<1>2. fs \in [Paths -> Inodes \union {NoInode}]
  BY FSAssumption DEF Init, FSInit
<1>3. kwatch \in [Inodes -> Nat]
  BY DEF Init, FSInit
<1>4. nextWd \in Nat \ {0} /\ ops \in Nat
  BY DEF Init, FSInit
<1>5. overflow \in BOOLEAN
  BY DEF Init, FSInit
<1>6. queue \in Seq([wd : Nat, mask : Masks, name : Names \union {NoName}])
  BY <1>1 DEF Init, FSInit
<1>7. stack \in Seq(Frame)
  BY <1>1 DEF Init
<1>8. /\ pathToWd \in [Paths -> Nat] /\ toAdd \in Seq(Paths)
      /\ running \in BOOLEAN /\ refused \in BOOLEAN
  BY ServiceAssumption DEF Init
<1>9. /\ wdToPath \subseteq Entry /\ astray \subseteq Inodes
      /\ noticed \subseteq Paths \X Inodes /\ skipped \subseteq Paths \X Inodes
  BY DEF Init
<1>10. QED
  BY <1>2, <1>3, <1>4, <1>5, <1>6, <1>7, <1>8, <1>9 DEF TypeOK

\* The state of the kernel and of the service has its types in every behaviour.
THEOREM TypeCorrect == Spec => []TypeOK
BY InitType, NextType, PTL DEF Spec

-----------------------------------------------------------------------------
(* The maps and the kernel's watches *)

\* What addWatch does to the entries: each old one stays, at most older by one, and
\* a new one joins them only for a path that was no key.
LEMMA AddWatchEntries ==
    ASSUME TypeOK, NEW p \in Paths, fs[p] # NoInode, AddWatch(p)
    PROVE  \/ /\ UNCHANGED <<kwatch, wdToPath, pathToWd>>
           \/ /\ pathToWd[p] = 0 /\ fs[p] \in Inodes
              /\ \E w \in Nat \ {0} :
                    /\ kwatch' = [kwatch EXCEPT ![fs[p]] = w]
                    /\ pathToWd' = [pathToWd EXCEPT ![p] = w]
                    /\ \E n \in wdToPath' : n.wd = w /\ n.path = p
                    /\ \A e \in wdToPath : \E n \in wdToPath' : n.wd = e.wd /\ n.path = e.path
                    /\ \A n \in wdToPath' :
                          \/ n.wd = w /\ n.path = p
                          \/ \E e \in wdToPath : n.wd = e.wd /\ n.path = e.path
<1>1. CASE pathToWd[p] # 0 \/ ~CanWatch(fs[p])
  BY <1>1 DEF AddWatch
<1>2. CASE ~(pathToWd[p] # 0 \/ ~CanWatch(fs[p]))
  <2> DEFINE w == WdFor(fs[p])
  <2>1. fs[p] \in Inodes /\ w \in Nat \ {0}
    BY DEF TypeOK, WdFor
  <2>2. /\ kwatch' = [kwatch EXCEPT ![fs[p]] = w]
        /\ pathToWd' = [pathToWd EXCEPT ![p] = w]
        /\ wdToPath' = InsertEntry(w, p)
    BY <1>2 DEF AddWatch, InotifyAddWatch
  <2> HIDE DEF w
  <2> DEFINE fresh == [wd |-> w, path |-> p, age |-> 0]
             older(e) == IF e.wd = w THEN [e EXCEPT !.age = @ + 1] ELSE e
  <2>3. ASSUME NEW e \in wdToPath
        PROVE  older(e).wd = e.wd /\ older(e).path = e.path
    <3>1. e \in Entry
      BY DEF TypeOK
    <3>2. QED
      BY <3>1 DEF Entry
  <2>f. fresh.wd = w /\ fresh.path = p
    OBVIOUS
  <2>i. wdToPath' = {fresh} \union {older(e) : e \in wdToPath}
    BY <2>2 DEF InsertEntry
  <2> HIDE DEF fresh, older
  <2>4. \E n \in wdToPath' : n.wd = w /\ n.path = p
    BY <2>f, <2>i
  <2>5. ASSUME NEW e \in wdToPath
        PROVE  \E n \in wdToPath' : n.wd = e.wd /\ n.path = e.path
    BY <2>3, <2>i
  <2>6. ASSUME NEW n \in wdToPath'
        PROVE  \/ n.wd = w /\ n.path = p
               \/ \E e \in wdToPath : n.wd = e.wd /\ n.path = e.path
    BY <2>3, <2>f, <2>i
  <2>7. pathToWd[p] = 0
    BY <1>2
  <2>8. QED
    BY <2>1, <2>2, <2>4, <2>5, <2>6, <2>7
<1>3. QED
  BY <1>1, <1>2

\* The maps are inverse to each other initially and after every step.
LEMMA InverseStep == TypeOK /\ TablesInverse /\ [Next]_vars => TablesInverse'
<1> SUFFICES ASSUME TypeOK, TablesInverse, [Next]_vars PROVE TablesInverse'
  OBVIOUS
<1>1. CASE UNCHANGED <<wdToPath, pathToWd>>
  BY <1>1 DEF TablesInverse
<1>2. CASE ScanWatch
  <2>1. Top.path \in Paths
    BY <1>2, StackType DEF ScanWatch, Top, TypeOK, Frame
  <2>2. CASE fs[Top.path] = NoInode
    BY <1>1, <1>2, <2>2 DEF ScanWatch
  <2>3. CASE fs[Top.path] # NoInode
    <3>1. AddWatch(Top.path)
      BY <1>2, <2>3 DEF ScanWatch
    <3>2. CASE UNCHANGED <<kwatch, wdToPath, pathToWd>>
      BY <1>1, <3>2
    <3>3. CASE ~UNCHANGED <<kwatch, wdToPath, pathToWd>>
      <4> DEFINE p == Top.path
      <4>1. PICK w \in Nat \ {0} :
               /\ pathToWd' = [pathToWd EXCEPT ![p] = w]
               /\ \E n \in wdToPath' : n.wd = w /\ n.path = p
               /\ \A e \in wdToPath : \E n \in wdToPath' : n.wd = e.wd /\ n.path = e.path
               /\ \A n \in wdToPath' :
                     \/ n.wd = w /\ n.path = p
                     \/ \E e \in wdToPath : n.wd = e.wd /\ n.path = e.path
        BY <2>1, <2>3, <3>1, <3>3, AddWatchEntries
      <4>2. pathToWd[p] = 0
        BY <2>1, <2>3, <3>1, <3>3, AddWatchEntries
      <4> HIDE DEF p
      <4>3. \A e \in wdToPath : e.path # p /\ e.path \in Paths
        BY <4>2 DEF TablesInverse, TypeOK, Entry
      <4>4. \A n \in wdToPath' : pathToWd'[n.path] = n.wd
        BY <2>1, <4>1, <4>3 DEF TablesInverse, TypeOK, p
      <4>5. \A q \in Paths : pathToWd'[q] # 0 =>
               \E n \in wdToPath' : n.path = q /\ n.wd = pathToWd'[q]
        <5>1. \A q \in Paths : q # p => pathToWd'[q] = pathToWd[q]
          BY <4>1 DEF TypeOK
        <5>2. pathToWd'[p] = w
          BY <2>1, <4>1 DEF TypeOK, p
        <5>3. QED
          BY <4>1, <5>1, <5>2 DEF TablesInverse
      <4>6. QED
        BY <4>4, <4>5 DEF TablesInverse
    <3>4. QED
      BY <3>2, <3>3
  <2>4. QED
    BY <2>2, <2>3
<1>3. CASE HandleSelfGone
  <2> DEFINE wd == Head(queue).wd
             gone == {e \in EntriesOf(wd) : ~IsDir(e.path)}
             paths == {e.path : e \in gone}
  <2>1. /\ wdToPath' = wdToPath \ gone
        /\ pathToWd' = [p \in Paths |-> IF p \in paths THEN 0 ELSE pathToWd[p]]
    BY <1>3 DEF HandleSelfGone, RemoveWatch
  <2>2. \A e \in wdToPath : e.path \in paths => e \in gone
    BY DEF TablesInverse, EntriesOf
  <2>3. \A e \in wdToPath' : pathToWd'[e.path] = e.wd
    <3> HIDE DEF gone, paths
    <3> QED BY <2>1, <2>2 DEF TablesInverse, TypeOK, Entry
  <2>4. ASSUME NEW p \in Paths, pathToWd'[p] # 0
        PROVE  \E e \in wdToPath' : e.path = p /\ e.wd = pathToWd'[p]
    <3>1. p \notin paths /\ pathToWd'[p] = pathToWd[p]
      BY <2>1, <2>4
    <3>2. PICK e \in wdToPath : e.path = p /\ e.wd = pathToWd[p]
      BY <2>4, <3>1 DEF TablesInverse
    <3>3. e \notin gone
      BY <3>1, <3>2
    <3>4. QED
      BY <2>1, <3>1, <3>2, <3>3
  <2>5. QED
    BY <2>3, <2>4 DEF TablesInverse
<1>4. QED
  BY <1>1, <1>2, <1>3
     DEF Next, Elsewhere, Daemon, AddRoot, Start, ScanList, ScanEntry, ScanDone,
         HandleNewEntry, vars, svcVars

\* mWdToPathMap and mPathToWdMap are inverse to each other in every behaviour.
THEOREM MapsInverse == Spec => []TablesInverse
<1>1. Init => TablesInverse
  BY DEF Init, TablesInverse
<1>2. QED
  BY <1>1, TypeCorrect, InverseStep, PTL DEF Spec

\* No step of the daemon or of the file system leaves a watch without an entry.
LEMMA OrphanStep == TypeOK /\ NoOrphanWatch /\ [Next]_vars => NoOrphanWatch'
<1> SUFFICES ASSUME TypeOK, NoOrphanWatch, [Next]_vars, NEW i \in Inodes, kwatch'[i] # 0
             PROVE  \E n \in wdToPath' : n.wd = kwatch'[i]
  BY DEF NoOrphanWatch, Watched, EntriesOf
<1>0. kwatch[i] # 0 => \E e \in wdToPath : e.wd = kwatch[i]
  BY DEF NoOrphanWatch, Watched, EntriesOf
<1>1. CASE UNCHANGED <<wdToPath, kwatch>>
  BY <1>0, <1>1
<1>2. CASE Elsewhere
  <2>1. kwatch'[i] = kwatch[i] /\ wdToPath' = wdToPath
    BY <1>2, EnvironmentType DEF Elsewhere
  <2>2. QED
    BY <1>0, <2>1
<1>3. CASE ScanWatch
  <2>1. Top.path \in Paths
    BY <1>3, StackType DEF ScanWatch, Top, TypeOK, Frame
  <2>2. CASE fs[Top.path] = NoInode
    BY <1>1, <1>3, <2>2 DEF ScanWatch
  <2>3. CASE fs[Top.path] # NoInode
    <3>1. AddWatch(Top.path)
      BY <1>3, <2>3 DEF ScanWatch
    <3>2. CASE UNCHANGED <<kwatch, wdToPath, pathToWd>>
      BY <1>1, <3>2
    <3>3. CASE ~UNCHANGED <<kwatch, wdToPath, pathToWd>>
      <4>1. PICK w \in Nat \ {0} :
               /\ kwatch' = [kwatch EXCEPT ![fs[Top.path]] = w]
               /\ \E n \in wdToPath' : n.wd = w /\ n.path = Top.path
               /\ \A e \in wdToPath : \E n \in wdToPath' : n.wd = e.wd /\ n.path = e.path
        BY <2>1, <2>3, <3>1, <3>3, AddWatchEntries
      <4>2. kwatch'[i] \in {w, kwatch[i]}
        BY <4>1 DEF TypeOK
      <4>3. QED
        BY <1>0, <4>1, <4>2
    <3>4. QED
      BY <3>2, <3>3
  <2>4. QED
    BY <2>2, <2>3
<1>4. CASE HandleSelfGone
  <2> DEFINE wd == Head(queue).wd
             gone == {e \in EntriesOf(wd) : ~IsDir(e.path)}
  <2>1. /\ wdToPath' = wdToPath \ gone
        /\ IF gone = EntriesOf(wd) THEN InotifyRmWatch(wd) ELSE UNCHANGED kwatch
    BY <1>4 DEF HandleSelfGone, RemoveWatch
  <2>2. kwatch'[i] = kwatch[i]
    BY <2>1 DEF InotifyRmWatch
  <2>3. PICK e \in wdToPath : e.wd = kwatch[i]
    BY <1>0, <2>2
  <2>4. CASE kwatch[i] # wd
    <3>1. e \notin gone
      BY <2>3, <2>4 DEF EntriesOf
    <3>2. QED
      BY <2>1, <2>2, <2>3, <3>1
  <2>5. CASE kwatch[i] = wd
    <3>1. gone # EntriesOf(wd)
      BY <2>1, <2>2, <2>5 DEF InotifyRmWatch
    <3>2. PICK o \in EntriesOf(wd) : o \notin gone
      BY <3>1
    <3>3. QED
      BY <2>1, <2>2, <2>5, <3>2 DEF EntriesOf
  <2>6. QED
    BY <2>4, <2>5
<1>5. QED
  BY <1>1, <1>2, <1>3, <1>4
     DEF Next, Daemon, AddRoot, Start, ScanList, ScanEntry, ScanDone,
         HandleNewEntry, vars, fsVars, svcVars

\* Every watch the kernel holds for the daemon has an entry in mWdToPathMap.
THEOREM WatchesHaveEntries == Spec => []NoOrphanWatch
<1>1. Init => NoOrphanWatch
  BY DEF Init, FSInit, NoOrphanWatch, Watched
<1>2. QED
  BY <1>1, TypeCorrect, OrphanStep, PTL DEF Spec

-----------------------------------------------------------------------------
(* Paths as sequences of names *)

\* What is left of a path cut short.
LEMMA PrefixIs ==
    ASSUME NEW p \in Seq(Names), NEW n \in 0..Len(p)
    PROVE  /\ SubSeq(p, 1, n) \in Seq(Names) /\ Len(SubSeq(p, 1, n)) = n
           /\ \A i \in 1..n : SubSeq(p, 1, n)[i] = p[i]
<1>1. \A i \in 1..n : p[i] \in Names
  OBVIOUS
<1>2. n \in Int /\ n >= 0
  OBVIOUS
<1>3. /\ SubSeq(p, 1, n) \in Seq(Names)
      /\ Len(SubSeq(p, 1, n)) = IF 1 <= n THEN n - 1 + 1 ELSE 0
      /\ \A i \in 1..n - 1 + 1 : SubSeq(p, 1, n)[i] = p[1 + i - 1]
  <2>1. 1 \in Int OBVIOUS
  <2>2. QED BY <1>1, <1>2, <2>1, SubSeqProperties
<1>4. n - 1 + 1 = n /\ \A i \in 1..n : 1 + i - 1 = i
  BY <1>2
<1>5. Len(SubSeq(p, 1, n)) = n
  <2>1. (IF 1 <= n THEN n - 1 + 1 ELSE 0) = n
    BY <1>2
  <2>2. QED BY <1>3, <2>1
<1>6. \A i \in 1..n : SubSeq(p, 1, n)[i] = p[i]
  BY <1>3, <1>4
<1>7. QED BY <1>3, <1>5, <1>6

\* A path is below another one when it continues its names.
LEMMA UnderNames ==
    ASSUME NEW p \in Seq(Names), NEW q \in Seq(Names)
    PROVE  Under(q, p) <=> Len(q) <= Len(p) /\ \A n \in 1..Len(q) : p[n] = q[n]
<1>1. ASSUME Under(q, p) PROVE Len(q) <= Len(p) /\ \A n \in 1..Len(q) : p[n] = q[n]
  BY <1>1 DEF Under
<1>2. ASSUME Len(q) <= Len(p), \A n \in 1..Len(q) : p[n] = q[n] PROVE Under(q, p)
  <2> DEFINE t == SubSeq(p, 1, Len(q))
  <2>1. t \in Seq(Names) /\ Len(t) = Len(q) /\ \A n \in 1..Len(q) : t[n] = q[n]
    BY <1>2
  <2> HIDE DEF t
  <2>2. t = q
    BY <2>1, SeqEqual
  <2>3. QED BY <1>2, <2>2 DEF Under, t
<1>3. QED BY <1>1, <1>2

\* A path below the home directory is its parent's path and a name.
LEMMA ParentIs ==
    ASSUME NEW p \in Seq(Names), p # <<>>
    PROVE  /\ Parent(p) \in Seq(Names) /\ Len(Parent(p)) = Len(p) - 1 /\ NameOf(p) \in Names
           /\ \A n \in 1..Len(p)-1 : Parent(p)[n] = p[n]
           /\ Under(Parent(p), p) /\ Parent(p) # p
           /\ Append(Parent(p), NameOf(p)) = p
<1> DEFINE m == Len(p) - 1
<1>0. m \in 0..Len(p)
  BY EmptySeq
<1>1. Parent(p) \in Seq(Names) /\ Len(Parent(p)) = m /\ \A n \in 1..m : Parent(p)[n] = p[n]
  BY <1>0, PrefixIs DEF Parent
<1>2. Under(Parent(p), p)
  BY <1>1, UnderNames
<1>3. NameOf(p) \in Names
  BY DEF NameOf
<1>4. Append(Parent(p), NameOf(p)) = p
  BY <1>1, <1>3 DEF NameOf
<1>5. QED BY <1>1, <1>2, <1>3, <1>4

\* Under is an order, in which what is above one path is a chain.
LEMMA UnderOrder ==
    ASSUME NEW p \in Seq(Names), NEW q \in Seq(Names), NEW r \in Seq(Names)
    PROVE  /\ Under(p, p)
           /\ Under(r, q) /\ Under(q, p) => Under(r, p)
           /\ Under(r, p) /\ Under(q, p) => Under(r, q) \/ Under(q, r)
           /\ Under(p, q) /\ Under(q, p) => p = q
           /\ Under(q, p) /\ q # p => p # <<>> /\ Len(q) < Len(p) /\ Under(q, Parent(p))
<1>1. Under(p, p)
  BY UnderNames
<1>2. Under(r, q) /\ Under(q, p) => Under(r, p)
  BY UnderNames
<1>3. Under(r, p) /\ Under(q, p) => Under(r, q) \/ Under(q, r)
  BY UnderNames
<1>4. Len(p) = Len(q) /\ Under(q, p) => p = q
  BY UnderNames
<1>5. Under(p, q) /\ Under(q, p) => p = q
  BY <1>4, UnderNames
<1>6. ASSUME Under(q, p), q # p PROVE p # <<>> /\ Len(q) < Len(p) /\ Under(q, Parent(p))
  <2>1. Len(q) < Len(p) /\ p # <<>>
    BY <1>4, <1>6, UnderNames
  <2>2. \A n \in 1..Len(q) : Parent(p)[n] = q[n]
    BY <1>6, <2>1, UnderNames, ParentIs
  <2>3. QED BY <2>1, <2>2, UnderNames, ParentIs
<1>7. QED BY <1>1, <1>2, <1>3, <1>5, <1>6

\* One step from q towards p.
Toward(q, p) == SubSeq(p, 1, Len(q) + 1)

\* One step from q towards p is below q, on the way to p, and has q as its parent.
LEMMA TowardIs ==
    ASSUME NEW p \in Seq(Names), NEW q \in Seq(Names), Under(q, p), q # p
    PROVE  /\ Toward(q, p) \in Seq(Names) /\ Toward(q, p) # <<>> /\ Toward(q, p) # q
           /\ Under(q, Toward(q, p)) /\ Under(Toward(q, p), p)
           /\ Parent(Toward(q, p)) = q
<1>1. Len(q) < Len(p)
  BY UnderOrder
<1>2. Toward(q, p) \in Seq(Names) /\ Len(Toward(q, p)) = Len(q) + 1
      /\ \A n \in 1..Len(q) + 1 : Toward(q, p)[n] = p[n]
  BY <1>1 DEF Toward
<1>3. \A n \in 1..Len(q) : p[n] = q[n]
  BY UnderNames
<1>4. Under(q, Toward(q, p)) /\ Under(Toward(q, p), p)
  BY <1>1, <1>2, <1>3, UnderNames
<1>5. Toward(q, p) # <<>> /\ Toward(q, p) # q
  BY <1>2
<1> HIDE DEF Toward
<1>6. Parent(Toward(q, p)) = q
  <2> DEFINE t == Parent(Toward(q, p))
  <2> DEFINE c == Toward(q, p)
  <2>0. c \in Seq(Names) /\ c # <<>> /\ Len(c) - 1 = Len(q) /\ \A n \in 1..Len(q) : c[n] = q[n]
    BY <1>2, <1>3, <1>5
  <2> HIDE DEF c
  <2>1. t \in Seq(Names) /\ Len(t) = Len(q) /\ \A n \in 1..Len(q) : t[n] = q[n]
    <3>1. Parent(c) \in Seq(Names) /\ Len(Parent(c)) = Len(c) - 1
          /\ \A n \in 1..Len(c)-1 : Parent(c)[n] = c[n]
      BY <2>0, ParentIs
    <3>2. QED BY <2>0, <3>1 DEF c
  <2> HIDE DEF t
  <2>2. t = q
    BY <2>1, SeqEqual
  <2>3. QED BY <2>2 DEF t
<1>7. QED BY <1>2, <1>4, <1>5, <1>6

\* A path moved from s to r keeps its names below s.
LEMMA RebaseIs ==
    ASSUME NEW p \in Seq(Names), NEW s \in Seq(Names), NEW r \in Seq(Names), Under(s, p)
    PROVE  /\ Rebase(p, s, r) \in Seq(Names)
           /\ Len(Rebase(p, s, r)) = Len(p) - Len(s) + Len(r)
           /\ \A n \in 1..Len(r) : Rebase(p, s, r)[n] = r[n]
           /\ \A n \in Len(r) + 1..Len(p) - Len(s) + Len(r) : Rebase(p, s, r)[n] = p[n - Len(r) + Len(s)]
           /\ Under(r, Rebase(p, s, r))
<1>1. Len(s) <= Len(p) /\ Len(s) \in Nat /\ Len(p) \in Nat /\ Len(r) \in Nat
  BY UnderNames
<1> DEFINE t == SubSeq(p, Len(s) + 1, Len(p))
<1>2. t \in Seq(Names) /\ Len(t) = Len(p) - Len(s) /\ \A n \in 1..Len(t) : t[n] = p[n + Len(s)]
  BY <1>1
<1> HIDE DEF t
<1> DEFINE b == r \o t
<1>3. /\ b \in Seq(Names) /\ Len(b) = Len(r) + Len(t)
      /\ \A n \in 1..Len(r) + Len(t) : b[n] = IF n <= Len(r) THEN r[n] ELSE t[n - Len(r)]
  <2>1. t \in Seq(Names)
    BY <1>2
  <2>2. r \o t \in Seq(Names) /\ Len(r \o t) = Len(r) + Len(t)
    BY <2>1, ConcatProperties
  <2>3. \A n \in 1..Len(r) + Len(t) : (r \o t)[n] = IF n <= Len(r) THEN r[n] ELSE t[n - Len(r)]
    BY <2>1, ConcatProperties
  <2>4. QED BY <2>2, <2>3
<1>4. b = Rebase(p, s, r)
  BY DEF Rebase, t
<1> HIDE DEF b
<1>5. Len(b) = Len(p) - Len(s) + Len(r) /\ Len(r) <= Len(b) /\ b \in Seq(Names)
  <2>1. Len(t) = Len(p) - Len(s) /\ Len(b) = Len(r) + Len(t) /\ b \in Seq(Names)
    BY <1>2, <1>3
  <2>2. QED BY <1>1, <2>1
<1>6. \A n \in 1..Len(r) : b[n] = r[n]
  <2> TAKE n \in 1..Len(r)
  <2>1. n \in 1..Len(r) + Len(t) /\ n <= Len(r)
    BY <1>1, <1>2
  <2>2. QED BY <1>3, <2>1
<1>7. \A n \in Len(r) + 1..Len(p) - Len(s) + Len(r) : b[n] = p[n - Len(r) + Len(s)]
  <2> TAKE n \in Len(r) + 1..Len(p) - Len(s) + Len(r)
  <2>1. n - Len(r) \in 1..Len(t) /\ n \in 1..Len(r)+Len(t) /\ ~(n <= Len(r))
    BY <1>1, <1>2
  <2>2. QED BY <1>1, <1>2, <1>3, <2>1
<1>8. Under(r, b)
  BY <1>5, <1>6, UnderNames
<1>9. QED BY <1>3, <1>4, <1>5, <1>6, <1>7, <1>8

\* Moved there and back, a path is the same.
LEMMA RebaseTwice ==
    ASSUME NEW p \in Seq(Names), NEW s \in Seq(Names), NEW r \in Seq(Names), Under(s, p)
    PROVE  Rebase(Rebase(p, s, r), r, s) = p
<1> DEFINE b == Rebase(p, s, r)
           c == Rebase(b, r, s)
<1>1. Len(s) <= Len(p) /\ Len(s) \in Nat /\ Len(p) \in Nat /\ Len(r) \in Nat /\ \A n \in 1..Len(s) : p[n] = s[n]
  BY UnderNames
<1>2. /\ b \in Seq(Names) /\ Len(b) = Len(p) - Len(s) + Len(r) /\ Under(r, b)
      /\ \A n \in Len(r) + 1..Len(p) - Len(s) + Len(r) : b[n] = p[n - Len(r) + Len(s)]
  BY RebaseIs
<1> HIDE DEF b
<1>3. /\ c \in Seq(Names) /\ Len(c) = Len(b) - Len(r) + Len(s) /\ \A n \in 1..Len(s) : c[n] = s[n]
      /\ \A n \in Len(s) + 1..Len(b) - Len(r) + Len(s) : c[n] = b[n - Len(s) + Len(r)]
  <2>1. c \in Seq(Names)
    BY <1>2, RebaseIs
  <2>2. Len(c) = Len(b) - Len(r) + Len(s)
    BY <1>2, RebaseIs
  <2>3. \A n \in 1..Len(s) : c[n] = s[n]
    BY <1>2, RebaseIs
  <2>4. \A n \in Len(s) + 1..Len(b) - Len(r) + Len(s) : c[n] = b[n - Len(s) + Len(r)]
    BY <1>2, RebaseIs
  <2>5. QED BY <2>1, <2>2, <2>3, <2>4
<1> HIDE DEF c
<1>4. Len(c) = Len(p)
  BY <1>1, <1>2, <1>3
<1>5. ASSUME NEW n \in 1..Len(p) PROVE c[n] = p[n]
  <2>1. CASE n <= Len(s)
    BY <1>1, <1>3, <2>1
  <2>2. CASE n > Len(s)
    <3>1. n \in Len(s) + 1..Len(b) - Len(r) + Len(s) /\ n - Len(s) + Len(r) \in Len(r) + 1..Len(p) - Len(s) + Len(r)
      BY <1>1, <1>2, <2>2
    <3>2. (n - Len(s) + Len(r)) - Len(r) + Len(s) = n
      BY <1>1
    <3>3. QED BY <1>2, <1>3, <3>1, <3>2
  <2>3. QED BY <1>1, <2>1, <2>2
<1>6. c = p
  BY <1>3, <1>4, <1>5
<1>7. QED BY <1>6 DEF c, b

\* What lay below s lies below r in the same order.
LEMMA RebaseOrder ==
    ASSUME NEW p \in Seq(Names), NEW q \in Seq(Names), NEW s \in Seq(Names), NEW r \in Seq(Names),
           Under(s, q), Under(q, p), q # p
    PROVE  Under(Rebase(q, s, r), Rebase(p, s, r)) /\ Rebase(q, s, r) # Rebase(p, s, r)
<1>1. Under(s, p) /\ Len(q) < Len(p) /\ Len(s) <= Len(q)
  BY UnderOrder, UnderNames
<1>2. \A n \in 1..Len(q) : p[n] = q[n]
  BY UnderNames
<1> DEFINE a == Rebase(q, s, r)
           b == Rebase(p, s, r)
<1>3. /\ a \in Seq(Names) /\ Len(a) = Len(q) - Len(s) + Len(r) /\ \A n \in 1..Len(r) : a[n] = r[n]
      /\ \A n \in Len(r) + 1..Len(q) - Len(s) + Len(r) : a[n] = q[n - Len(r) + Len(s)]
  BY RebaseIs
<1>4. /\ b \in Seq(Names) /\ Len(b) = Len(p) - Len(s) + Len(r) /\ \A n \in 1..Len(r) : b[n] = r[n]
      /\ \A n \in Len(r) + 1..Len(p) - Len(s) + Len(r) : b[n] = p[n - Len(r) + Len(s)]
  <2>1. b \in Seq(Names) /\ Len(b) = Len(p) - Len(s) + Len(r)
    BY <1>1, RebaseIs
  <2>2. \A n \in 1..Len(r) : b[n] = r[n]
    BY <1>1, RebaseIs
  <2>3. \A n \in Len(r) + 1..Len(p) - Len(s) + Len(r) : b[n] = p[n - Len(r) + Len(s)]
    BY <1>1, RebaseIs
  <2>4. QED BY <2>1, <2>2, <2>3
<1> HIDE DEF a, b
<1>5. Len(a) < Len(b)
  BY <1>1, <1>3, <1>4
<1>6. ASSUME NEW n \in 1..Len(a) PROVE b[n] = a[n]
  <2>1. CASE n <= Len(r)
    BY <1>3, <1>4, <2>1
  <2>2. CASE n > Len(r)
    <3>1. /\ n \in Len(r) + 1..Len(q) - Len(s) + Len(r) /\ n \in Len(r) + 1..Len(p) - Len(s) + Len(r)
          /\ n - Len(r) + Len(s) \in 1..Len(q)
      BY <1>1, <1>3, <2>2
    <3>2. QED BY <1>2, <1>3, <1>4, <3>1
  <2>3. QED BY <1>3, <2>1, <2>2
<1>7. Under(a, b) /\ a # b
  <2>1. Len(a) <= Len(b) /\ a # b
    BY <1>3, <1>4, <1>5
  <2>2. QED BY <1>3, <1>4, <1>6, <2>1, UnderNames
<1>8. QED BY <1>7 DEF a, b

-----------------------------------------------------------------------------
(* The tree, and what an operation does to it *)

\* Paths are sequences of names, closed under what lies above.
LEMMA PathsAbove ==
    ASSUME NEW p \in Paths
    PROVE  /\ p \in Seq(Names) /\ <<>> \in Paths
           /\ p # <<>> => Parent(p) \in Paths
           /\ \A q \in Seq(Names) : Under(q, p) => q \in Paths
           /\ \A q \in Paths : Under(q, p) /\ q # p => Toward(q, p) \in Paths
<1>1. p \in Seq(Names) /\ <<>> \in Paths /\ \A n \in 0..Len(p) : SubSeq(p, 1, n) \in Paths
  BY FSAssumption, ServiceAssumption
<1>2. p # <<>> => Parent(p) \in Paths
  <2> HAVE p # <<>>
  <2>1. Len(p) - 1 \in 0..Len(p)
    BY <1>1, EmptySeq
  <2>2. QED BY <1>1, <2>1 DEF Parent
<1>3. ASSUME NEW q \in Seq(Names), Under(q, p) PROVE q \in Paths
  <2>1. Len(q) \in 0..Len(p) /\ SubSeq(p, 1, Len(q)) = q
    BY <1>1, <1>3 DEF Under
  <2>2. QED BY <1>1, <2>1
<1>4. ASSUME NEW q \in Paths, Under(q, p), q # p PROVE Toward(q, p) \in Paths
  <2>1. q \in Seq(Names)
    BY ServiceAssumption
  <2>2. Toward(q, p) \in Seq(Names) /\ Under(Toward(q, p), p)
    BY <1>1, <1>4, <2>1, TowardIs
  <2>3. QED BY <1>3, <2>2
<1>5. QED BY <1>1, <1>2, <1>3, <1>4

\* In a tree all above something is a directory, and nothing is below what is not there.
LEMMA TreeAbove ==
    ASSUME NEW t \in [Paths -> Inodes \union {NoInode}], IsTree(t), NEW p \in Paths, NEW q \in Paths, Under(q, p)
    PROVE  /\ t[p] # NoInode => t[q] # NoInode /\ (q # p => t[q] \in Dirs)
           /\ t[q] = NoInode => t[p] = NoInode
BY FSAssumption DEF IsTree, Inodes

\* What a file-system operation that creates something at p does to the tree.
LEMMA CreateTree ==
    ASSUME TypeOK, IsTree(fs), NEW p \in Paths, NEW i \in Inodes, Create(p, i)
    PROVE  IsTree(fs')
<1>1. /\ p # <<>> /\ fs[p] = NoInode /\ IsDir(Parent(p)) /\ i \in Unused
      /\ fs' = [fs EXCEPT ![p] = i]
  BY DEF Create, CanHold
<1>2. fs \in [Paths -> Inodes \union {NoInode}] /\ i # NoInode
  BY FSAssumption DEF TypeOK
<1>3. fs'[p] = i /\ \A x \in Paths : x # p => fs'[x] = fs[x]
  BY <1>1, <1>2
<1>4. fs'[<<>>] \in Dirs
  BY <1>1, <1>3, PathsAbove DEF IsTree
<1>5. ASSUME NEW x \in Paths, NEW q \in Paths, fs'[x] # NoInode, Under(q, x), q # x
      PROVE  fs'[q] \in Dirs
  <2>1. CASE x = p
    <3>1. Under(q, Parent(p)) /\ Parent(p) \in Paths
      BY <1>1, <1>5, <2>1, PathsAbove, UnderOrder
    <3>2. fs[q] \in Dirs
      BY <1>1, <1>2, <3>1, TreeAbove, FSAssumption DEF IsDir, Inodes
    <3>3. QED BY <1>3, <1>5, <2>1, <3>2
  <2>2. CASE x # p
    <3>1. fs[q] \in Dirs
      BY <1>2, <1>3, <1>5, <2>2, TreeAbove
    <3>2. q # p
      BY <1>1, <3>1, FSAssumption DEF Inodes
    <3>3. QED BY <1>3, <3>1, <3>2
  <2>3. QED BY <2>1, <2>2
<1>6. ASSUME NEW x \in Paths, NEW q \in Paths, fs'[x] # NoInode, fs'[q] = fs'[x] PROVE q = x
  BY <1>1, <1>2, <1>3, <1>6 DEF IsTree, Unused
<1>7. QED BY <1>4, <1>5, <1>6 DEF IsTree

\* Nothing lies below what is removed.
LEMMA RemoveTree ==
    ASSUME TypeOK, IsTree(fs), NEW p \in Paths, Remove(p)
    PROVE  /\ IsTree(fs')
           /\ p # <<>> /\ fs' = [fs EXCEPT ![p] = NoInode] /\ fs[p] \in Inodes
           /\ \A x \in Paths : Under(p, x) => fs'[x] = NoInode
<1>1. p # <<>> /\ fs[p] # NoInode /\ Children(p) = {} /\ fs' = [fs EXCEPT ![p] = NoInode]
  BY FSAssumption DEF Remove
<1>2. fs \in [Paths -> Inodes \union {NoInode}] /\ fs[p] \in Inodes
  BY <1>1 DEF TypeOK
<1>3. fs'[p] = NoInode /\ \A x \in Paths : x # p => fs'[x] = fs[x]
  BY <1>1, <1>2
<1>4. ASSUME NEW x \in Paths, Under(p, x), x # p PROVE fs[x] = NoInode
  <2> SUFFICES ASSUME fs[x] # NoInode PROVE FALSE
    OBVIOUS
  <2> DEFINE c == Toward(p, x)
  <2>1. c \in Paths /\ c # <<>> /\ Parent(c) = p /\ Under(c, x)
    BY <1>4, PathsAbove, TowardIs
  <2>2. fs[c] # NoInode
    BY <1>2, <2>1, TreeAbove
  <2>3. QED BY <1>1, <2>1, <2>2 DEF Children
<1>5. fs'[<<>>] \in Dirs
  BY <1>1, <1>3, PathsAbove DEF IsTree
<1>6. ASSUME NEW x \in Paths, NEW q \in Paths, fs'[x] # NoInode, Under(q, x), q # x
      PROVE  fs'[q] \in Dirs
  <2>1. x # p /\ fs[x] # NoInode
    BY <1>3, <1>6
  <2>2. q # p
    BY <1>4, <1>6, <2>1
  <2>3. QED BY <1>2, <1>3, <1>6, <2>1, <2>2, TreeAbove
<1>7. ASSUME NEW x \in Paths, NEW q \in Paths, fs'[x] # NoInode, fs'[q] = fs'[x] PROVE q = x
  BY <1>3, <1>7 DEF IsTree
<1>8. QED BY <1>1, <1>2, <1>3, <1>4, <1>5, <1>6, <1>7 DEF IsTree

\* A rename takes what lies at p and below to q, where there was nothing.
LEMMA MoveIs ==
    ASSUME TypeOK, IsTree(fs), NEW p \in Paths, NEW q \in Paths, Move(p, q)
    PROVE  /\ p # <<>> /\ q # <<>> /\ fs[p] \in Inodes /\ fs[q] = NoInode /\ IsDir(Parent(q))
           /\ ~Under(p, q) /\ ~Under(q, p)
           /\ \A x \in Paths : fs'[x] =
                IF Under(q, x)
                THEN IF Rebase(x, q, p) \in Paths THEN fs[Rebase(x, q, p)] ELSE NoInode
                ELSE IF Under(p, x) THEN NoInode ELSE fs[x]
           /\ \A x \in Paths : Under(p, x) /\ fs[x] # NoInode =>
                Rebase(x, p, q) \in Paths /\ fs'[Rebase(x, p, q)] = fs[x]
<1>1. /\ p # <<>> /\ q # <<>> /\ fs[p] # NoInode /\ fs[q] = NoInode /\ IsDir(Parent(q)) /\ ~Under(p, q)
      /\ \A x \in Paths : Under(p, x) /\ fs[x] # NoInode => Rebase(x, p, q) \in Paths
  BY FSAssumption DEF Move, CanHold
<1>2. fs \in [Paths -> Inodes \union {NoInode}] /\ fs[p] \in Inodes
  BY <1>1 DEF TypeOK
<1>3. ~Under(q, p)
  BY <1>1, <1>2, TreeAbove
<1>4. \A x \in Paths : fs'[x] =
        IF Under(q, x)
        THEN IF Rebase(x, q, p) \in Paths THEN fs[Rebase(x, q, p)] ELSE NoInode
        ELSE IF Under(p, x) THEN NoInode ELSE fs[x]
  BY DEF Move
<1>5. ASSUME NEW x \in Paths, Under(p, x), fs[x] # NoInode
      PROVE  Rebase(x, p, q) \in Paths /\ fs'[Rebase(x, p, q)] = fs[x]
  <2>1. x \in Seq(Names) /\ p \in Seq(Names) /\ q \in Seq(Names)
    BY PathsAbove
  <2>2. Rebase(x, p, q) \in Paths
    BY <1>1, <1>5
  <2>3. Under(q, Rebase(x, p, q)) /\ Rebase(Rebase(x, p, q), q, p) = x
    BY <1>5, <2>1, RebaseIs, RebaseTwice
  <2>4. QED BY <1>4, <2>2, <2>3
<1>6. QED BY <1>1, <1>2, <1>3, <1>4, <1>5

\* A rename leaves a tree: what is above something moved moved with it.
LEMMA MoveTree ==
    ASSUME TypeOK, IsTree(fs), NEW p \in Paths, NEW q \in Paths, Move(p, q)
    PROVE  IsTree(fs')
<1> DEFINE Back(x) == Rebase(x, q, p)
<1>1. /\ p # <<>> /\ q # <<>> /\ fs[p] \in Inodes /\ fs[q] = NoInode /\ IsDir(Parent(q))
      /\ ~Under(p, q) /\ ~Under(q, p)
  BY MoveIs
<1>2. \A x \in Paths : fs'[x] =
         IF Under(q, x)
         THEN IF Back(x) \in Paths THEN fs[Back(x)] ELSE NoInode
         ELSE IF Under(p, x) THEN NoInode ELSE fs[x]
  BY MoveIs
<1>3. fs \in [Paths -> Inodes \union {NoInode}] /\ p \in Seq(Names) /\ q \in Seq(Names)
  BY PathsAbove DEF TypeOK
<1>4. \A x \in Paths : x \in Seq(Names)
  BY PathsAbove
<1>5. \A x \in Paths : Under(q, x) => Back(x) \in Seq(Names) /\ Under(p, Back(x)) /\ Rebase(Back(x), p, q) = x
  BY <1>3, <1>4, RebaseIs, RebaseTwice
<1>6. \A x, y \in Paths : Under(q, y) /\ Under(y, x) /\ y # x => Under(Back(y), Back(x)) /\ Back(y) # Back(x)
  BY <1>3, <1>4, RebaseOrder
<1> HIDE DEF Back
<1>7. \A x \in Paths : Under(q, x) => fs[x] = NoInode
  BY <1>1, <1>3, TreeAbove
<1>8. fs'[<<>>] \in Dirs
  <2>1. <<>> \in Paths /\ fs[<<>>] \in Dirs
    BY PathsAbove DEF IsTree
  <2>2. ~Under(q, <<>>) /\ ~Under(p, <<>>)
    <3>1. ASSUME NEW x \in Seq(Names), x # <<>> PROVE ~Under(x, <<>>)
      BY <3>1 DEF Under
    <3>2. QED BY <1>1, <1>3, <3>1
  <2>3. QED BY <1>2, <2>1, <2>2
<1>9. ASSUME NEW x \in Paths, NEW y \in Paths, fs'[x] # NoInode, Under(y, x), y # x
      PROVE  fs'[y] \in Dirs
  <2>1. CASE Under(q, x) /\ Under(q, y)
    <3>1. Back(x) \in Paths /\ fs[Back(x)] # NoInode
      BY <1>2, <1>9, <2>1
    <3>2. Back(y) \in Seq(Names) /\ Under(Back(y), Back(x)) /\ Back(y) # Back(x)
      BY <1>5, <1>6, <1>9, <2>1
    <3>3. Back(y) \in Paths
      BY <3>1, <3>2, PathsAbove
    <3>4. fs[Back(y)] \in Dirs
      BY <1>3, <3>1, <3>2, <3>3, TreeAbove
    <3>5. QED BY <1>2, <2>1, <3>3, <3>4
  <2>2. CASE Under(q, x) /\ ~Under(q, y)
    <3>1. q # y /\ Under(y, q)
      BY <1>3, <1>4, <1>9, <2>2, UnderOrder
    <3>2. Under(y, Parent(q)) /\ Parent(q) \in Paths
      BY <1>1, <1>3, <1>4, <3>1, PathsAbove, UnderOrder
    <3>3. fs[y] \in Dirs
      BY <1>1, <1>3, <3>2, TreeAbove, FSAssumption DEF IsDir, Inodes
    <3>4. ~Under(p, y)
      BY <1>1, <1>3, <1>4, <3>1, UnderOrder
    <3>5. QED BY <1>2, <2>2, <3>3, <3>4
  <2>3. CASE ~Under(q, x)
    <3>1. ~Under(p, x) /\ fs[x] # NoInode
      BY <1>2, <1>9, <2>3
    <3>2. ~Under(p, y) /\ ~Under(q, y)
      BY <1>3, <1>4, <1>9, <2>3, <3>1, UnderOrder
    <3>3. fs[y] \in Dirs
      BY <1>3, <1>9, <3>1, TreeAbove
    <3>4. QED BY <1>2, <3>2, <3>3
  <2>4. QED BY <2>1, <2>2, <2>3
<1>10. ASSUME NEW x \in Paths, NEW y \in Paths, fs'[x] # NoInode, fs'[y] = fs'[x] PROVE y = x
  <2>1. CASE Under(q, x) /\ Under(q, y)
    <3>1. Back(x) \in Paths /\ Back(y) \in Paths /\ fs[Back(x)] # NoInode /\ fs[Back(y)] = fs[Back(x)]
      BY <1>2, <1>10, <2>1
    <3>2. Back(x) = Back(y)
      BY <3>1 DEF IsTree
    <3>3. QED BY <1>5, <2>1, <3>2
  <2>2. CASE Under(q, x) /\ ~Under(q, y)
    <3>1. /\ Back(x) \in Paths /\ fs[Back(x)] # NoInode
          /\ ~Under(p, y) /\ fs[y] = fs[Back(x)]
      BY <1>2, <1>10, <2>2
    <3>2. y = Back(x)
      BY <3>1 DEF IsTree
    <3>3. QED BY <1>5, <2>2, <3>1, <3>2
  <2>3. CASE ~Under(q, x) /\ Under(q, y)
    <3>1. /\ Back(y) \in Paths /\ ~Under(p, x) /\ fs[x] # NoInode /\ fs[x] = fs[Back(y)]
      BY <1>2, <1>10, <2>3
    <3>2. x = Back(y)
      BY <3>1 DEF IsTree
    <3>3. QED BY <1>5, <2>3, <3>1, <3>2
  <2>4. CASE ~Under(q, x) /\ ~Under(q, y)
    <3>1. fs[x] # NoInode /\ fs[y] = fs[x]
      BY <1>2, <1>10, <2>4
    <3>2. QED BY <3>1 DEF IsTree
  <2>5. QED BY <2>1, <2>2, <2>3, <2>4
<1>11. QED BY <1>8, <1>9, <1>10 DEF IsTree

\* The file system stays a tree.
LEMMA TreeStep == TypeOK /\ IsTree(fs) /\ [Next]_vars => IsTree(fs')
<1> SUFFICES ASSUME TypeOK, IsTree(fs), [Next]_vars PROVE IsTree(fs')
  OBVIOUS
<1>1. CASE Elsewhere
  <2>1. Environment
    BY <1>1 DEF Elsewhere
  <2>2. QED BY <2>1, CreateTree, RemoveTree, MoveTree DEF Environment
<1>2. CASE UNCHANGED fs
  <2>1. fs' = fs
    BY <1>2
  <2>2. QED BY <2>1
<1>3. QED
  BY <1>1, <1>2
     DEF Next, Daemon, AddRoot, Start, ScanWatch, ScanList, ScanEntry, ScanDone,
         HandleNewEntry, HandleSelfGone, ReadNextEvent, vars, fsVars

-----------------------------------------------------------------------------
(* What an operation tells the queue *)

\* Each descriptor was handed out once, to one inode, and its inode is in the tree.
WdsInv ==
    /\ \A i \in Inodes : kwatch[i] < nextWd
    /\ \A p \in Paths : pathToWd[p] < nextWd
    /\ \A i, j \in Inodes : kwatch[i] # 0 /\ kwatch[j] = kwatch[i] => j = i
    /\ \A i \in Inodes : kwatch[i] # 0 => \E p \in Paths : fs[p] = i

\* e waits in the queue s.
Waits(e, s) == \E n \in DOMAIN s : s[n] = e

\* An event that is raised waits, unless it is dropped, and those that waited still do.
LEMMA RaiseIs ==
    ASSUME NEW q \in PendingType, NEW e \in EventType
    PROVE  /\ \A d : Waits(d, q.events) => Waits(d, Raise(q, e).events)
           /\ q.dropped => Raise(q, e).dropped
           /\ e.wd # 0 => Waits(e, Raise(q, e).events) \/ Raise(q, e).dropped
<1>1. q.events \in Seq(EventType)
  BY DEF PendingType
<1>2. CASE e.wd = 0
  BY <1>2 DEF Raise
<1>3. CASE e.wd # 0 /\ q.events # <<>> /\ q.events[Len(q.events)] = e
  <2>1. Raise(q, e) = q
    BY <1>3 DEF Raise
  <2>2. Len(q.events) \in DOMAIN q.events
    BY <1>1, <1>3
  <2>3. QED BY <1>3, <2>1, <2>2 DEF Waits
<1>4. CASE e.wd # 0 /\ ~(q.events # <<>> /\ q.events[Len(q.events)] = e) /\ Len(q.events) >= QueueMax
  <2>1. Raise(q, e) = [q EXCEPT !.dropped = TRUE]
    BY <1>4 DEF Raise
  <2>2. Raise(q, e).events = q.events /\ Raise(q, e).dropped
    BY <2>1 DEF PendingType
  <2>3. QED BY <2>2
<1>5. CASE e.wd # 0 /\ ~(q.events # <<>> /\ q.events[Len(q.events)] = e) /\ ~(Len(q.events) >= QueueMax)
  <2> DEFINE s == Append(q.events, e)
  <2>1. Raise(q, e) = [q EXCEPT !.events = s]
    BY <1>5 DEF Raise
  <2>2. Raise(q, e).events = s /\ Raise(q, e).dropped = q.dropped
    BY <2>1 DEF PendingType
  <2>3. /\ Len(q.events) + 1 \in DOMAIN s /\ s[Len(q.events) + 1] = e
        /\ \A n \in DOMAIN q.events : n \in DOMAIN s /\ s[n] = q.events[n]
    BY <1>1
  <2>4. QED BY <2>2, <2>3 DEF Waits
<1>6. QED BY <1>2, <1>3, <1>4, <1>5

\* The masks of the events that say a name has come to a directory.
Arrivals == {"IN_CREATE", "IN_MOVED_TO"}

\* Nothing on the way to p changes.
Same(p) == \A q \in Paths : Under(q, p) => fs'[q] = fs[q]

\* Something comes to s, and the watch of the directory it comes to says so.
Arrived(s) ==
    /\ s # <<>> /\ fs[s] = NoInode /\ IsDir(Parent(s)) /\ Same(Parent(s))
    /\ ~overflow' /\ ParentWd(s) # 0 =>
          \E m \in Arrivals : Waits(Event(ParentWd(s), m, NameOf(s)), queue')

\* What a file-system operation does to watches, tree and queue.
LEMMA EnvironmentIs ==
    ASSUME TypeOK, IsTree(fs), WdsInv, Environment
    PROVE  /\ nextWd' = nextWd /\ (overflow => overflow')
           /\ \A i \in Inodes : kwatch'[i] \in {kwatch[i], 0}
           /\ \A i \in Inodes : (\E p \in Paths : fs'[p] = i) => kwatch'[i] = kwatch[i]
           /\ \A i \in Inodes : kwatch'[i] # 0 => \E p \in Paths : fs'[p] = i
           /\ \A e : Waits(e, queue) => Waits(e, queue')
           /\ \A x \in Paths : fs'[x] # NoInode =>
                 Same(x) \/ \E s \in Paths : Arrived(s) /\ Under(s, x)
<1>1. Pending \in PendingType /\ Pending.events = queue /\ Pending.dropped = overflow
  BY DEF TypeOK, Pending, PendingType, EventType
<1>2. ASSUME NEW p \in Paths, CanHold(p)
      PROVE  ParentWd(p) \in Nat /\ NameOf(p) \in Names
  <2>1. fs[Parent(p)] \in Inodes
    BY <1>2 DEF CanHold, IsDir, Inodes
  <2>2. QED
    BY <1>2, <2>1, NameTyped DEF ParentWd, TypeOK, CanHold
<1>3. ASSUME NEW p \in Paths, NEW i \in Inodes, Create(p, i)
      PROVE  /\ nextWd' = nextWd /\ kwatch' = kwatch /\ (overflow => overflow')
             /\ \A j \in Inodes : kwatch'[j] # 0 => \E x \in Paths : fs'[x] = j
             /\ \A e : Waits(e, queue) => Waits(e, queue')
             /\ Arrived(p)
             /\ \A x \in Paths : ~Under(p, x) => Same(x)
  <2> DEFINE e == Event(ParentWd(p), "IN_CREATE", NameOf(p))
  <2>1. e \in EventType /\ e.wd = ParentWd(p)
    BY <1>2, <1>3, EventTyped DEF Create, Masks, Event
  <2> HIDE DEF e
  <2>2. queue' = Raise(Pending, e).events /\ overflow' = Raise(Pending, e).dropped
    BY <1>3 DEF Create, SetPending, e
  <2>3. /\ (overflow => overflow') /\ \A d : Waits(d, queue) => Waits(d, queue')
        /\ ParentWd(p) # 0 => Waits(e, queue') \/ overflow'
    BY <1>1, <2>1, <2>2, RaiseIs
  <2>4. /\ p # <<>> /\ fs[p] = NoInode /\ IsDir(Parent(p)) /\ i \in Unused /\ kwatch' = kwatch
        /\ nextWd' = nextWd /\ fs' = [fs EXCEPT ![p] = i] /\ fs \in [Paths -> Inodes \union {NoInode}]
    BY <1>3 DEF Create, CanHold, TypeOK
  <2>5. \A x \in Paths : x # p => fs'[x] = fs[x]
    BY <2>4
  <2>6. \A x \in Paths : ~Under(p, x) => Same(x)
    BY <2>5 DEF Same
  <2>7. ~Under(p, Parent(p)) /\ Parent(p) \in Paths
    BY <2>4, PathsAbove, ParentIs, UnderOrder
  <2>8. Arrived(p)
    BY <2>3, <2>4, <2>6, <2>7 DEF Arrived, Arrivals, e
  <2>9. ASSUME NEW j \in Inodes, kwatch'[j] # 0 PROVE \E x \in Paths : fs'[x] = j
    <3>1. PICK x \in Paths : fs[x] = j
      BY <2>4, <2>9 DEF WdsInv
    <3>2. x # p
      BY <2>4, <3>1, FSAssumption
    <3>3. QED BY <2>5, <3>1, <3>2
  <2>10. QED BY <2>3, <2>4, <2>6, <2>8, <2>9
<1>4. ASSUME NEW p \in Paths, Remove(p)
      PROVE  /\ nextWd' = nextWd /\ (overflow => overflow')
             /\ \A i \in Inodes : kwatch'[i] \in {kwatch[i], 0}
             /\ \A i \in Inodes : (\E x \in Paths : fs'[x] = i) => kwatch'[i] = kwatch[i]
             /\ \A i \in Inodes : kwatch'[i] # 0 => \E x \in Paths : fs'[x] = i
             /\ \A e : Waits(e, queue) => Waits(e, queue')
             /\ \A x \in Paths : fs'[x] # NoInode => Same(x)
  <2>1. /\ fs' = [fs EXCEPT ![p] = NoInode] /\ fs[p] \in Inodes
        /\ \A x \in Paths : Under(p, x) => fs'[x] = NoInode
    BY <1>4, RemoveTree
  <2>2. /\ kwatch' = [kwatch EXCEPT ![fs[p]] = 0] /\ nextWd' = nextWd /\ kwatch \in [Inodes -> Nat]
        /\ fs \in [Paths -> Inodes \union {NoInode}]
    BY <1>4 DEF Remove, TypeOK
  <2> DEFINE e == Event(kwatch[fs[p]], "IN_DELETE_SELF", NoName)
  <2>3. e \in EventType
    BY <2>1, <2>2, EventTyped DEF Masks
  <2>4. queue' = Raise(Pending, e).events /\ overflow' = Raise(Pending, e).dropped
    BY <1>4 DEF Remove, SetPending
  <2> HIDE DEF e
  <2>5. (overflow => overflow') /\ \A d : Waits(d, queue) => Waits(d, queue')
    BY <1>1, <2>3, <2>4, RaiseIs
  <2>6. \A x \in Paths : x # p => fs'[x] = fs[x]
    BY <2>1, <2>2
  <2>7. \A x \in Paths : fs'[x] # NoInode => Same(x)
    BY <2>1, <2>6 DEF Same
  <2>8. \A i \in Inodes : kwatch'[i] = IF i = fs[p] THEN 0 ELSE kwatch[i]
    BY <2>1, <2>2
  <2>9. ASSUME NEW i \in Inodes, NEW x \in Paths, fs'[x] = i PROVE i # fs[p]
    <3>1. x # p /\ fs[x] = i
      BY <2>1, <2>2, <2>6, <2>9, FSAssumption
    <3>2. QED BY <2>1, <3>1, FSAssumption DEF IsTree
  <2>10. ASSUME NEW i \in Inodes, kwatch'[i] # 0 PROVE \E x \in Paths : fs'[x] = i
    <3>1. i # fs[p] /\ kwatch[i] # 0
      BY <2>8, <2>10
    <3>2. PICK x \in Paths : fs[x] = i
      BY <3>1 DEF WdsInv
    <3>3. QED BY <2>6, <3>1, <3>2
  <2>11. QED BY <2>2, <2>5, <2>7, <2>8, <2>9, <2>10
<1>5. ASSUME NEW p \in Paths, NEW q \in Paths, Move(p, q)
      PROVE  /\ nextWd' = nextWd /\ kwatch' = kwatch /\ (overflow => overflow')
             /\ \A j \in Inodes : kwatch'[j] # 0 => \E x \in Paths : fs'[x] = j
             /\ \A e : Waits(e, queue) => Waits(e, queue')
             /\ Arrived(q)
             /\ \A x \in Paths : fs'[x] # NoInode /\ ~Under(q, x) => Same(x)
  <2>1. /\ p # <<>> /\ q # <<>> /\ fs[p] \in Inodes /\ fs[q] = NoInode /\ IsDir(Parent(q))
        /\ ~Under(p, q) /\ ~Under(q, p)
        /\ \A x \in Paths : fs'[x] =
             IF Under(q, x)
             THEN IF Rebase(x, q, p) \in Paths THEN fs[Rebase(x, q, p)] ELSE NoInode
             ELSE IF Under(p, x) THEN NoInode ELSE fs[x]
        /\ \A x \in Paths : Under(p, x) /\ fs[x] # NoInode =>
             Rebase(x, p, q) \in Paths /\ fs'[Rebase(x, p, q)] = fs[x]
    BY <1>5, MoveIs
  <2>2. kwatch' = kwatch /\ nextWd' = nextWd /\ kwatch \in [Inodes -> Nat] /\ CanHold(q)
        /\ fs \in [Paths -> Inodes \union {NoInode}]
    BY <1>5 DEF Move, TypeOK
  <2> DEFINE e == Event(ParentWd(q), "IN_MOVED_TO", NameOf(q))
             d == Event(kwatch[fs[p]], "IN_MOVE_SELF", NoName)
             first == Raise(Pending, e)
  <2>3. e \in EventType /\ e.wd = ParentWd(q)
    BY <1>2, <2>2, EventTyped DEF Masks, Event
  <2>4. d \in EventType
    BY <2>1, <2>2, EventTyped DEF Masks
  <2>5. queue' = Raise(first, d).events /\ overflow' = Raise(first, d).dropped
    BY <1>5 DEF Move, SetPending
  <2> HIDE DEF d
  <2>6. first \in PendingType
    BY <1>1, <2>3, RaiseType
  <2> HIDE DEF e
  <2>7. /\ \A c : Waits(c, queue) => Waits(c, first.events)
        /\ overflow => first.dropped
        /\ ParentWd(q) # 0 => Waits(e, first.events) \/ first.dropped
    BY <1>1, <2>3, RaiseIs
  <2> HIDE DEF first
  <2>8. /\ \A c : Waits(c, first.events) => Waits(c, queue')
        /\ first.dropped => overflow'
    BY <2>4, <2>5, <2>6, RaiseIs
  <2>9. /\ (overflow => overflow') /\ \A c : Waits(c, queue) => Waits(c, queue')
        /\ ParentWd(q) # 0 => Waits(e, queue') \/ overflow'
    BY <2>7, <2>8
  <2>10. ASSUME NEW x \in Paths, ~Under(p, x), ~Under(q, x) PROVE Same(x)
    <3>1. \A y \in Paths : Under(y, x) => ~Under(p, y) /\ ~Under(q, y)
      BY <2>10, PathsAbove, UnderOrder
    <3>2. QED BY <2>1, <3>1 DEF Same
  <2>11. \A x \in Paths : fs'[x] # NoInode /\ ~Under(q, x) => Same(x)
    BY <2>1, <2>10
  <2>12. Parent(q) \in Paths /\ ~Under(p, Parent(q)) /\ ~Under(q, Parent(q))
    BY <2>1, PathsAbove, ParentIs, UnderOrder
  <2>13. Arrived(q)
    BY <2>1, <2>9, <2>10, <2>12 DEF Arrived, Arrivals, e
  <2>14. ASSUME NEW j \in Inodes, kwatch'[j] # 0 PROVE \E x \in Paths : fs'[x] = j
    <3>1. PICK x \in Paths : fs[x] = j
      BY <2>2, <2>14 DEF WdsInv
    <3>2. fs[x] # NoInode
      BY <3>1, FSAssumption
    <3>3. CASE Under(p, x)
      BY <2>1, <3>1, <3>2, <3>3
    <3>4. CASE ~Under(p, x)
      <4>1. ~Under(q, x)
        BY <2>1, <2>2, <3>2, TreeAbove
      <4>2. QED BY <2>1, <3>1, <3>4, <4>1
    <3>5. QED BY <3>3, <3>4
  <2>15. QED BY <2>2, <2>9, <2>11, <2>13, <2>14
<1>6. CASE \E p \in Paths, i \in Inodes : Create(p, i)
  BY <1>3, <1>6 DEF TypeOK
<1>7. CASE \E p \in Paths : Remove(p)
  BY <1>4, <1>7
<1>8. CASE \E p, q \in Paths : Move(p, q)
  BY <1>5, <1>8
<1>9. QED BY <1>6, <1>7, <1>8 DEF Environment

-----------------------------------------------------------------------------
(* Descriptors, entries and keys *)

\* What addWatch does to descriptors and keys.
LEMMA AddWatchIs ==
    ASSUME TypeOK, NEW p \in Paths, fs[p] # NoInode, AddWatch(p)
    PROVE  /\ fs[p] \in Inodes /\ (refused => refused')
           /\ \/ UNCHANGED <<kwatch, nextWd, wdToPath, pathToWd>> /\ (pathToWd[p] # 0 \/ refused')
              \/ /\ pathToWd[p] = 0
                 /\ kwatch' = [kwatch EXCEPT ![fs[p]] = WdFor(fs[p])]
                 /\ nextWd' = IF kwatch[fs[p]] # 0 THEN nextWd ELSE nextWd + 1
                 /\ wdToPath' = InsertEntry(WdFor(fs[p]), p)
                 /\ pathToWd' = [pathToWd EXCEPT ![p] = WdFor(fs[p])]
                 /\ WdFor(fs[p]) \in Nat \ {0}
<1>1. fs[p] \in Inodes
  BY DEF TypeOK
<1>2. WdFor(fs[p]) \in Nat \ {0}
  BY <1>1 DEF WdFor, TypeOK
<1>3. refused => refused'
  BY DEF AddWatch, TypeOK
<1>4. CASE pathToWd[p] # 0 \/ ~CanWatch(fs[p])
  <2>1. UNCHANGED <<kwatch, nextWd, wdToPath, pathToWd>>
    BY <1>4 DEF AddWatch
  <2>2. pathToWd[p] # 0 \/ refused'
    BY <1>4 DEF AddWatch, TypeOK
  <2>3. QED BY <1>1, <1>3, <2>1, <2>2
<1>5. CASE ~(pathToWd[p] # 0 \/ ~CanWatch(fs[p]))
  BY <1>1, <1>2, <1>3, <1>5 DEF AddWatch, InotifyAddWatch
<1>6. QED BY <1>4, <1>5

\* Each descriptor belongs to one inode, initially and after every step.
LEMMA WdsStep == TypeOK /\ IsTree(fs) /\ WdsInv /\ [Next]_vars => WdsInv'
<1> SUFFICES ASSUME TypeOK, IsTree(fs), WdsInv, [Next]_vars PROVE WdsInv'
  OBVIOUS
<1>0. /\ kwatch \in [Inodes -> Nat] /\ pathToWd \in [Paths -> Nat] /\ nextWd \in Nat \ {0}
  BY DEF TypeOK
<1>1. CASE UNCHANGED <<fs, kwatch, nextWd, pathToWd>>
  BY <1>1 DEF WdsInv
<1>2. CASE Elsewhere
  <2>1. Environment /\ pathToWd' = pathToWd
    BY <1>2 DEF Elsewhere
  <2>2. /\ nextWd' = nextWd
        /\ \A i \in Inodes : kwatch'[i] \in {kwatch[i], 0}
        /\ \A i \in Inodes : kwatch'[i] # 0 => \E p \in Paths : fs'[p] = i
    BY <2>1, EnvironmentIs
  <2>3. \A i \in Inodes : kwatch'[i] < nextWd'
    BY <1>0, <2>2 DEF WdsInv
  <2>4. \A i, j \in Inodes : kwatch'[i] # 0 /\ kwatch'[j] = kwatch'[i] => j = i
    BY <2>2 DEF WdsInv
  <2>5. QED BY <2>1, <2>2, <2>3, <2>4 DEF WdsInv
<1>3. CASE ScanWatch
  <2>1. Top.path \in Paths /\ fs' = fs
    BY <1>3, StackType DEF ScanWatch, Top, TypeOK, Frame
  <2>2. CASE fs[Top.path] = NoInode
    BY <1>1, <1>3, <2>2 DEF ScanWatch
  <2>3. CASE fs[Top.path] # NoInode
    <3> DEFINE p == Top.path
               w == WdFor(fs[p])
    <3>1. AddWatch(p)
      BY <1>3, <2>3 DEF ScanWatch
    <3>2. CASE UNCHANGED <<kwatch, nextWd, wdToPath, pathToWd>>
      BY <1>1, <2>1, <3>2
    <3>3. CASE ~UNCHANGED <<kwatch, nextWd, wdToPath, pathToWd>>
      <4>1. /\ fs[p] \in Inodes
            /\ kwatch' = [kwatch EXCEPT ![fs[p]] = w]
            /\ nextWd' = IF kwatch[fs[p]] # 0 THEN nextWd ELSE nextWd + 1
            /\ pathToWd' = [pathToWd EXCEPT ![p] = w]
        BY <2>1, <2>3, <3>1, <3>3, AddWatchIs
      <4>2. w = IF kwatch[fs[p]] # 0 THEN kwatch[fs[p]] ELSE nextWd
        BY DEF WdFor
      <4> HIDE DEF p, w
      <4>3. w < nextWd' /\ nextWd <= nextWd' /\ nextWd' \in Nat
        BY <1>0, <4>1, <4>2 DEF WdsInv
      <4>4. \A i \in Inodes : kwatch'[i] = IF i = fs[p] THEN w ELSE kwatch[i]
        BY <1>0, <4>1
      <4>5. \A x \in Paths : pathToWd'[x] = IF x = p THEN w ELSE pathToWd[x]
        BY <1>0, <4>1
      <4>6. \A i \in Inodes : kwatch'[i] < nextWd'
        BY <1>0, <4>3, <4>4 DEF WdsInv
      <4>7. \A x \in Paths : pathToWd'[x] < nextWd'
        BY <1>0, <4>3, <4>5 DEF WdsInv
      <4>8. \A j \in Inodes : j # fs[p] => kwatch[j] # w \/ kwatch[j] = 0
        BY <1>0, <4>1, <4>2 DEF WdsInv
      <4>9. \A i, j \in Inodes : kwatch'[i] # 0 /\ kwatch'[j] = kwatch'[i] => j = i
        BY <4>4, <4>8 DEF WdsInv
      <4>10. \A i \in Inodes : kwatch'[i] # 0 => \E x \in Paths : fs'[x] = i
        BY <2>1, <4>4 DEF WdsInv, p
      <4>11. QED BY <4>6, <4>7, <4>9, <4>10 DEF WdsInv
    <3>4. QED BY <3>2, <3>3
  <2>4. QED BY <2>2, <2>3
<1>4. CASE HandleSelfGone
  <2>1. fs' = fs /\ nextWd' = nextWd /\ RemoveWatch(Head(queue).wd)
    BY <1>4 DEF HandleSelfGone
  <2>2. \A i \in Inodes : kwatch'[i] \in {kwatch[i], 0}
    BY <2>1 DEF RemoveWatch, InotifyRmWatch
  <2>3. \A p \in Paths : pathToWd'[p] \in {pathToWd[p], 0}
    BY <2>1 DEF RemoveWatch
  <2>4. (\A i \in Inodes : kwatch'[i] < nextWd') /\ (\A p \in Paths : pathToWd'[p] < nextWd')
    BY <1>0, <2>1, <2>2, <2>3 DEF WdsInv
  <2>5. \A i, j \in Inodes : kwatch'[i] # 0 /\ kwatch'[j] = kwatch'[i] => j = i
    BY <2>2 DEF WdsInv
  <2>6. \A i \in Inodes : kwatch'[i] # 0 => \E x \in Paths : fs'[x] = i
    BY <2>1, <2>2 DEF WdsInv
  <2>7. QED BY <2>4, <2>5, <2>6 DEF WdsInv
<1>5. QED
  BY <1>1, <1>2, <1>3, <1>4
     DEF Next, Daemon, AddRoot, Start, ScanList, ScanEntry, ScanDone,
         HandleNewEntry, vars, fsVars, svcVars

\* A path is listed once in mWdToPathMap.
OneEntry == \A d, e \in wdToPath : d.path = e.path => d = e

\* addWatch inserts a path only when it is no key, so each stays listed once.
LEMMA OneEntryStep == TypeOK /\ TablesInverse /\ OneEntry /\ [Next]_vars => OneEntry'
<1> SUFFICES ASSUME TypeOK, TablesInverse, OneEntry, [Next]_vars PROVE OneEntry'
  OBVIOUS
<1>1. CASE wdToPath' \subseteq wdToPath
  BY <1>1 DEF OneEntry
<1>2. CASE ScanWatch /\ fs[Top.path] # NoInode
  <2> DEFINE p == Top.path
             w == WdFor(fs[p])
             fresh == [wd |-> w, path |-> p, age |-> 0]
             older(e) == IF e.wd = w THEN [e EXCEPT !.age = @ + 1] ELSE e
  <2>1. p \in Paths /\ fs[p] # NoInode /\ AddWatch(p)
    BY <1>2, StackType DEF ScanWatch, Top, TypeOK, Frame
  <2>2. CASE wdToPath' = wdToPath
    BY <1>1, <2>2
  <2>3. CASE wdToPath' # wdToPath
    <3>1. pathToWd[p] = 0 /\ wdToPath' = InsertEntry(w, p)
      BY <2>1, <2>3, AddWatchIs
    <3>2. wdToPath' = {fresh} \union {older(e) : e \in wdToPath}
      BY <3>1 DEF InsertEntry
    <3>3. ASSUME NEW e \in wdToPath
          PROVE  older(e).path = e.path /\ e.path # p
      <4>1. e \in Entry
        BY DEF TypeOK
      <4>2. older(e).path = e.path
        BY <4>1 DEF Entry
      <4>3. e.path # p
        <5> HIDE DEF older, p
        <5> QED BY <3>1, <4>1 DEF TablesInverse, Entry
      <4>4. QED BY <4>2, <4>3
    <3>4. fresh.path = p
      OBVIOUS
    <3> HIDE DEF fresh, older, p, w
    <3>5. ASSUME NEW d \in wdToPath', NEW e \in wdToPath', d.path = e.path PROVE d = e
      <4>1. CASE d = fresh \/ e = fresh
        BY <3>2, <3>3, <3>4, <3>5, <4>1
      <4>2. CASE d # fresh /\ e # fresh
        <5>1. PICK x \in wdToPath : d = older(x)
          BY <3>2, <4>2
        <5>2. PICK y \in wdToPath : e = older(y)
          BY <3>2, <4>2
        <5>3. x.path = y.path
          BY <3>3, <3>5, <5>1, <5>2
        <5>4. QED BY <5>1, <5>2, <5>3 DEF OneEntry
      <4>3. QED BY <4>1, <4>2
    <3>6. QED BY <3>5 DEF OneEntry
  <2>4. QED BY <2>2, <2>3
<1>3. CASE HandleSelfGone
  BY <1>1, <1>3 DEF HandleSelfGone, RemoveWatch
<1>4. QED
  BY <1>1, <1>2, <1>3
     DEF Next, Elsewhere, Daemon, AddRoot, Start, ScanWatch, ScanList, ScanEntry, ScanDone,
         HandleNewEntry, vars, svcVars

\* A name that is a key leads to the watch of what is there, or went astray: then what is
\* there and what its watch belongs to both are.
KeysInv ==
    \A p \in Paths : pathToWd[p] # 0 /\ fs[p] # NoInode =>
        \/ kwatch[fs[p]] = pathToWd[p]
        \/ /\ fs[p] \in astray
           /\ \A i \in Inodes : kwatch[i] = pathToWd[p] => i \in astray

\* removeWatch leaves a name that is a key its watch.
LEMMA KeyKept ==
    ASSUME TypeOK, TablesInverse, NEW wd, RemoveWatch(wd), NEW p \in Paths, NEW i \in Inodes,
           pathToWd[p] # 0, pathToWd'[p] # 0, kwatch[i] = pathToWd[p]
    PROVE  pathToWd'[p] = pathToWd[p] /\ kwatch'[i] = kwatch[i]
<1> DEFINE gone == {e \in EntriesOf(wd) : ~IsDir(e.path)}
           paths == {e.path : e \in gone}
<1>1. /\ pathToWd' = [x \in Paths |-> IF x \in paths THEN 0 ELSE pathToWd[x]]
      /\ IF gone = EntriesOf(wd) THEN InotifyRmWatch(wd) ELSE UNCHANGED kwatch
  BY DEF RemoveWatch
<1>2. p \notin paths /\ pathToWd'[p] = pathToWd[p]
  BY <1>1
<1>3. PICK e \in wdToPath : e.path = p /\ e.wd = pathToWd[p]
  BY DEF TablesInverse
<1>4. gone = EntriesOf(wd) => kwatch[i] # wd
  BY <1>2, <1>3 DEF EntriesOf
<1>5. QED BY <1>1, <1>2, <1>4 DEF InotifyRmWatch

\* Keys lead where KeysInv says after every step: addWatch makes them so, removeWatch
\* keeps them so, and what comes to a key by another watch goes astray.
LEMMA KeysStep ==
    TypeOK /\ IsTree(fs) /\ WdsInv /\ TablesInverse /\ KeysInv /\ [Next]_vars => KeysInv'
<1> SUFFICES ASSUME TypeOK, IsTree(fs), WdsInv, TablesInverse, KeysInv, [Next]_vars,
                    NEW p \in Paths, pathToWd'[p] # 0, fs'[p] # NoInode
             PROVE  \/ kwatch'[fs'[p]] = pathToWd'[p]
                    \/ /\ fs'[p] \in astray'
                       /\ \A i \in Inodes : kwatch'[i] = pathToWd'[p] => i \in astray'
  BY DEF KeysInv
<1>0. /\ kwatch \in [Inodes -> Nat] /\ pathToWd \in [Paths -> Nat] /\ nextWd \in Nat \ {0}
      /\ fs \in [Paths -> Inodes \union {NoInode}]
  BY DEF TypeOK
<1>1. CASE UNCHANGED <<fs, kwatch, pathToWd, astray>>
  BY <1>1 DEF KeysInv
<1>2. CASE Elsewhere
  <2>1. /\ Environment /\ pathToWd' = pathToWd
        /\ astray' = (astray \ Unused) \union
             {i \in Inodes : \E x \in Paths : Taken(x) /\ (i = fs'[x] \/ kwatch'[i] = pathToWd[x])}
    BY <1>2 DEF Elsewhere
  <2>2. /\ \A i \in Inodes : kwatch'[i] \in {kwatch[i], 0}
        /\ \A i \in Inodes : (\E x \in Paths : fs'[x] = i) => kwatch'[i] = kwatch[i]
    BY <2>1, EnvironmentIs
  <2>3. fs'[p] \in Inodes
    BY EnvironmentType, <2>1
  <2>4. CASE fs'[p] = fs[p]
    <3>1. CASE kwatch[fs[p]] = pathToWd[p]
      BY <2>1, <2>2, <2>3, <2>4, <3>1
    <3>2. CASE kwatch[fs[p]] # pathToWd[p]
      <4>1. fs[p] \in astray /\ \A i \in Inodes : kwatch[i] = pathToWd[p] => i \in astray
        BY <2>1, <2>4, <3>2 DEF KeysInv
      <4>2. fs[p] \notin Unused
        BY DEF Unused
      <4>3. \A i \in Inodes : kwatch'[i] = pathToWd[p] => i \in astray /\ i \notin Unused
        BY <2>1, <2>2, <4>1 DEF WdsInv, Unused
      <4>4. QED BY <2>1, <2>4, <4>1, <4>2, <4>3
    <3>3. QED BY <3>1, <3>2
  <2>5. CASE fs'[p] # fs[p] /\ kwatch'[fs'[p]] # pathToWd'[p]
    <3>1. Taken(p)
      BY <2>1, <2>5 DEF Taken
    <3>2. QED BY <2>1, <2>3, <3>1
  <2>6. QED BY <2>4, <2>5
<1>3. CASE ScanWatch
  <2>1. Top.path \in Paths /\ fs' = fs /\ astray' = astray
    BY <1>3, StackType DEF ScanWatch, Top, TypeOK, Frame
  <2>2. CASE fs[Top.path] = NoInode
    BY <1>1, <1>3, <2>2 DEF ScanWatch
  <2>3. CASE fs[Top.path] # NoInode
    <3> DEFINE c == Top.path
               w == WdFor(fs[c])
    <3>1. AddWatch(c)
      BY <1>3, <2>3 DEF ScanWatch
    <3>2. CASE UNCHANGED <<kwatch, nextWd, wdToPath, pathToWd>>
      BY <1>1, <2>1, <3>2
    <3>3. CASE ~UNCHANGED <<kwatch, nextWd, wdToPath, pathToWd>>
      <4>1. /\ fs[c] \in Inodes
            /\ kwatch' = [kwatch EXCEPT ![fs[c]] = w]
            /\ pathToWd' = [pathToWd EXCEPT ![c] = w]
        BY <2>1, <2>3, <3>1, <3>3, AddWatchIs
      <4>2. w = IF kwatch[fs[c]] # 0 THEN kwatch[fs[c]] ELSE nextWd
        BY DEF WdFor
      <4> HIDE DEF c, w
      <4>3. \A i \in Inodes : kwatch'[i] = IF i = fs[c] THEN w ELSE kwatch[i]
        BY <1>0, <4>1
      <4>4. \A x \in Paths : pathToWd'[x] = IF x = c THEN w ELSE pathToWd[x]
        BY <1>0, <4>1
      <4>5. CASE p = c
        BY <2>1, <4>1, <4>3, <4>4, <4>5
      <4>6. CASE p # c
        <5>1. pathToWd'[p] = pathToWd[p] /\ pathToWd[p] # nextWd
          BY <1>0, <4>4, <4>6 DEF WdsInv
        <5>2. \A i \in Inodes : kwatch'[i] = pathToWd[p] <=> kwatch[i] = pathToWd[p]
          BY <4>2, <4>3, <5>1
        <5>3. fs[p] \in Inodes
          BY <1>0, <2>1
        <5>4. QED BY <2>1, <5>1, <5>2, <5>3 DEF KeysInv
      <4>7. QED BY <4>5, <4>6
    <3>4. QED BY <3>2, <3>3
  <2>4. QED BY <2>2, <2>3
<1>4. CASE HandleSelfGone
  <2>1. fs' = fs /\ astray' = astray /\ RemoveWatch(Head(queue).wd)
    BY <1>4 DEF HandleSelfGone
  <2>2. pathToWd'[p] = pathToWd[p]
    BY <2>1 DEF RemoveWatch
  <2>3. \A i \in Inodes : kwatch'[i] \in {kwatch[i], 0}
    BY <2>1 DEF RemoveWatch, InotifyRmWatch
  <2>4. fs[p] \in Inodes
    BY <1>0, <2>1
  <2>5. kwatch[fs[p]] = pathToWd[p] => kwatch'[fs[p]] = kwatch[fs[p]]
    BY <2>1, <2>2, <2>4, KeyKept
  <2>6. \A i \in Inodes : kwatch'[i] = pathToWd[p] => kwatch[i] = pathToWd[p]
    BY <2>2, <2>3
  <2>7. QED BY <2>1, <2>2, <2>5, <2>6 DEF KeysInv
<1>5. QED
  BY <1>1, <1>2, <1>3, <1>4
     DEF Next, Daemon, AddRoot, Start, ScanList, ScanEntry, ScanDone,
         HandleNewEntry, vars, fsVars, svcVars

-----------------------------------------------------------------------------
(* What the service owes, and what still leads to it *)

\* p lies below r, in no hidden directory.
Shown(r, p) == Under(r, p) /\ \A n \in Len(r) + 1 .. Len(p) : p[n] \notin Hidden

\* No directory on the way to p went astray.
Clean(p) == \A q \in Paths : IsDir(q) /\ Under(q, p) => fs[q] \notin astray

\* What the service owes: all that is shown below a root it watches.
Owed(r, p) == fs[p] # NoInode /\ p # r /\ Shown(r, p) /\ Clean(p) /\ pathToWd[r] # 0

\* What the service owes for p: a directory is tracked, a file was met under its path.
Done(p) == IF IsDir(p) THEN Tracked(p) ELSE <<p, fs[p]>> \in noticed \union skipped

\* The frame f of the scan will come to q, and from there to p.
Reaches(f, q, p) ==
    \/ f.at = "watch" /\ f.path = q /\ (q = p => IsDir(p))
    \/ f.at = "list" /\ q # <<>> /\ f.path = Parent(q)
    \/ f.at = "walk" /\ q \in f.left

\* Some frame of the scan will come to q, and from there to p.
Framed(q, p) == \E f \in Frame : Waits(f, stack) /\ Reaches(f, q, p)

\* An event waits that names q by the present name of its directory.
Announced(q) ==
    /\ q # <<>> /\ Tracked(Parent(q))
    /\ \E m \in Arrivals : Waits(Event(pathToWd[Parent(q)], m, NameOf(q)), queue)

\* The scan or an event still leads to p, or to a directory above it.
Ahead(r, p) ==
    \E q \in Paths : Under(r, q) /\ q # r /\ Under(q, p) /\ (Framed(q, p) \/ Announced(q))

\* What is owed and not done is ahead, unless a watch was refused or an event dropped.
ScanInv ==
    ~refused /\ ~overflow =>
        \A k \in DOMAIN Roots : \A p \in Paths :
            Owed(Roots[k], p) => Done(p) \/ Ahead(Roots[k], p)

\* The inductive invariant of TreeWatched and FilesNoticed.
IInv == TypeOK /\ IsTree(fs) /\ WdsInv /\ TablesInverse /\ OneEntry /\ KeysInv /\ ScanInv

\* Roots are paths.
LEMMA RootIs ==
    ASSUME NEW k \in DOMAIN Roots
    PROVE  Roots[k] \in Paths /\ Roots[k] \in Seq(Names)
BY ServiceAssumption

\* What is on a stack or in a queue is its head or in its tail.
LEMMA Stacked ==
    ASSUME NEW S, NEW s \in Seq(S)
    PROVE  /\ s # <<>> => \A f : Waits(f, s) => f = Head(s) \/ Waits(f, Tail(s))
           /\ \A f \in S : Waits(f, <<f>> \o s) /\ \A g : Waits(g, s) => Waits(g, <<f>> \o s)
<1>1. ASSUME s # <<>>, NEW f, Waits(f, s)
      PROVE  f = Head(s) \/ Waits(f, Tail(s))
  <2>1. PICK n \in DOMAIN s : s[n] = f
    BY <1>1 DEF Waits
  <2>2. CASE n = 1
    BY <1>1, <2>1, <2>2
  <2>3. CASE n # 1
    <3>1. n - 1 \in DOMAIN Tail(s) /\ Tail(s)[n - 1] = s[n]
      BY <1>1, <2>1, <2>3
    <3>2. QED BY <2>1, <3>1 DEF Waits
  <2>4. QED BY <2>2, <2>3
<1>2. ASSUME NEW f \in S
      PROVE  Waits(f, <<f>> \o s)
  <2>1. 1 \in DOMAIN (<<f>> \o s) /\ (<<f>> \o s)[1] = f
    OBVIOUS
  <2>2. QED BY <2>1 DEF Waits
<1>3. ASSUME NEW f \in S, NEW g, Waits(g, s)
      PROVE  Waits(g, <<f>> \o s)
  <2>1. PICK n \in DOMAIN s : s[n] = g
    BY <1>3 DEF Waits
  <2>2. n + 1 \in DOMAIN (<<f>> \o s) /\ (<<f>> \o s)[n + 1] = s[n]
    BY <2>1
  <2>3. QED BY <2>1, <2>2 DEF Waits
<1>4. QED BY <1>1, <1>2, <1>3

\* An empty stack or queue holds nothing.
LEMMA NothingWaits == \A f : ~Waits(f, <<>>)
BY DEF Waits

\* What is shown below a root is shown on the way.
LEMMA ShownAbove ==
    ASSUME NEW r \in Paths, NEW p \in Paths, NEW q \in Paths, Shown(r, p), Under(r, q), Under(q, p)
    PROVE  Shown(r, q) /\ (q # r => NameOf(q) \notin Hidden)
<1>1. p \in Seq(Names) /\ q \in Seq(Names) /\ r \in Seq(Names)
  BY PathsAbove
<1>2. Len(q) <= Len(p) /\ \A n \in 1..Len(q) : p[n] = q[n]
  BY <1>1, UnderNames
<1>3. \A n \in Len(r) + 1 .. Len(p) : p[n] \notin Hidden
  BY DEF Shown
<1>4. \A n \in Len(r) + 1 .. Len(q) : q[n] \notin Hidden
  BY <1>1, <1>2, <1>3
<1>5. ASSUME q # r PROVE NameOf(q) \notin Hidden
  <2>1. Len(q) \in Len(r) + 1 .. Len(q)
    BY <1>1, <1>5, UnderOrder
  <2>2. QED BY <1>4, <2>1 DEF NameOf
<1>6. QED BY <1>4, <1>5 DEF Shown

\* The step from a directory on the way to what is shown leads on.
LEMMA OnTheWay ==
    ASSUME NEW r \in Paths, NEW p \in Paths, NEW q \in Paths, Under(r, q), Under(q, p), q # p
    PROVE  /\ Toward(q, p) \in Paths /\ Toward(q, p) # <<>> /\ Parent(Toward(q, p)) = q
           /\ Under(r, Toward(q, p)) /\ Toward(q, p) # r /\ Under(Toward(q, p), p)
<1>1. p \in Seq(Names) /\ q \in Seq(Names) /\ r \in Seq(Names)
  BY PathsAbove
<1> DEFINE s == Toward(q, p)
<1>2. s \in Paths /\ s \in Seq(Names) /\ s # <<>> /\ s # q /\ Under(q, s) /\ Under(s, p) /\ Parent(s) = q
  BY <1>1, PathsAbove, TowardIs
<1> HIDE DEF s
<1>3. Under(r, s) /\ s # r
  BY <1>1, <1>2, UnderOrder
<1>4. QED BY <1>2, <1>3 DEF s

\* A directory that did not go astray is tracked when its name is a key.
LEMMA KeyTracked ==
    ASSUME KeysInv, NEW q \in Paths, IsDir(q), fs[q] \notin astray, pathToWd[q] # 0
    PROVE  Tracked(q)
BY FSAssumption DEF KeysInv, Tracked, IsDir, Inodes

\* Events name what they announce by the one name its directory has.
LEMMA WatchedPathIs ==
    ASSUME TypeOK, IsTree(fs), WdsInv, TablesInverse, OneEntry, KeysInv,
           NEW d \in Paths, Tracked(d), fs[d] \notin astray
    PROVE  DirEntries(pathToWd[d]) # {} /\ WatchedPathFromWd(pathToWd[d]) = d
<1> DEFINE wd == pathToWd[d]
<1>1. IsDir(d) /\ fs[d] \in Inodes /\ wd # 0 /\ kwatch[fs[d]] = wd
  BY DEF Tracked, IsDir, Inodes
<1>2. PICK e \in wdToPath : e.path = d /\ e.wd = wd
  BY <1>1 DEF TablesInverse
<1>3. e \in DirEntries(wd)
  BY <1>1, <1>2 DEF DirEntries, EntriesOf
<1>4. ASSUME NEW o \in DirEntries(wd) PROVE o.path = d
  <2>1. o \in wdToPath /\ o.wd = wd /\ IsDir(o.path) /\ o.path \in Paths
    BY DEF DirEntries, EntriesOf, IsDir
  <2>2. pathToWd[o.path] = wd
    BY <2>1 DEF TablesInverse
  <2>3. fs[o.path] \in Inodes /\ fs[o.path] # NoInode
    BY <2>1, FSAssumption DEF IsDir, Inodes
  <2>4. kwatch[fs[o.path]] = wd
    BY <1>1, <2>1, <2>2, <2>3 DEF KeysInv
  <2>5. fs[o.path] = fs[d]
    BY <1>1, <2>3, <2>4 DEF WdsInv
  <2>6. QED BY <1>1, <2>1, <2>3, <2>5 DEF IsTree
<1>5. \A o \in DirEntries(wd) : o = e
  BY <1>2, <1>4 DEF OneEntry, DirEntries, EntriesOf
<1>6. e.age <= e.age
  BY <1>2 DEF TypeOK, Entry
<1>7. \E x \in DirEntries(wd) : \A o \in DirEntries(wd) : x.age <= o.age
  BY <1>3, <1>5, <1>6
<1>8. (CHOOSE x \in DirEntries(wd) : \A o \in DirEntries(wd) : x.age <= o.age) \in DirEntries(wd)
  BY <1>7
<1>9. QED BY <1>3, <1>4, <1>8 DEF WatchedPathFromWd

\* What a scan that leaves the file system and the maps alone does not undo.
LEMMA StillOwed ==
    ASSUME UNCHANGED <<fs, kwatch, pathToWd, astray>>,
           noticed \subseteq noticed', skipped \subseteq skipped',
           NEW r \in Paths, NEW p \in Paths
    PROVE  /\ Owed(r, p)' => Owed(r, p)
           /\ Done(p) => Done(p)'
           /\ \A q \in Paths : Tracked(q) => Tracked(q)'
<1>1. \A q \in Paths : Tracked(q) => Tracked(q)'
  BY DEF Tracked, IsDir
<1>2. Owed(r, p)' => Owed(r, p)
  BY DEF Owed, Clean, IsDir
<1>3. Done(p) => Done(p)'
  BY <1>1 DEF Done, IsDir
<1>4. QED BY <1>1, <1>2, <1>3

\* A step that takes nothing from the stack or the queue but what it does.
LEMMA StillAhead ==
    ASSUME fs' = fs, \A q \in Paths : Tracked(q) => Tracked(q)' /\ pathToWd'[q] = pathToWd[q],
           \A e : Waits(e, queue) => Waits(e, queue)',
           NEW r \in Paths, NEW p \in Paths, Ahead(r, p),
           \A q \in Paths : Under(r, q) /\ q # r /\ Under(q, p) /\ Framed(q, p) => Done(p)' \/ Ahead(r, p)'
    PROVE  Done(p)' \/ Ahead(r, p)'
<1>1. PICK q \in Paths : Under(r, q) /\ q # r /\ Under(q, p) /\ (Framed(q, p) \/ Announced(q))
  BY DEF Ahead
<1>2. CASE Framed(q, p)
  BY <1>1, <1>2
<1>3. CASE Announced(q)
  <2>1. q # <<>> /\ Parent(q) \in Paths
    BY <1>3, PathsAbove DEF Announced
  <2>2. PICK m \in Arrivals : Waits(Event(pathToWd[Parent(q)], m, NameOf(q)), queue)
    BY <1>3 DEF Announced
  <2>3. Waits(Event(pathToWd'[Parent(q)], m, NameOf(q)), queue')
    <3>1. pathToWd'[Parent(q)] = pathToWd[Parent(q)]
      BY <1>3, <2>1 DEF Announced
    <3>2. QED BY <2>2, <3>1 DEF Waits
  <2>4. Announced(q)'
    BY <1>3, <2>1, <2>3 DEF Announced
  <2>5. QED BY <1>1, <2>4 DEF Ahead
<1>4. QED BY <1>1, <1>2, <1>3

\* The head of the stack and what is below it.
LEMMA StackIs ==
    ASSUME TypeOK, stack # <<>>
    PROVE  /\ Top \in Frame /\ Tail(stack) \in Seq(Frame) /\ Top.path \in Paths
           /\ \A f : Waits(f, stack) => f = Top \/ Waits(f, Tail(stack))
BY StackType, Stacked DEF TypeOK, Top, Frame

-----------------------------------------------------------------------------
(* Each step of the daemon keeps what is owed done or ahead *)

\* A frame below the head still leads where it led.
LEMMA FramesKept ==
    ASSUME TypeOK, stack # <<>>, fs' = fs, \A f : Waits(f, Tail(stack)) => Waits(f, stack'),
           NEW q \in Paths, NEW p \in Paths, Framed(q, p), ~Reaches(Top, q, p)
    PROVE  Framed(q, p)'
<1>1. PICK f \in Frame : Waits(f, stack) /\ Reaches(f, q, p)
  BY DEF Framed
<1>2. Waits(f, Tail(stack))
  BY <1>1, StackIs
<1>3. Waits(f, stack') /\ Reaches(f, q, p)'
  BY <1>1, <1>2 DEF Reaches, IsDir
<1>4. QED BY <1>3 DEF Framed

\* opendir: the names readdir will return hold the next one on the way.
LEMMA AheadList ==
    ASSUME TypeOK, IsTree(fs), ScanList, NEW r \in Paths, NEW p \in Paths,
           Owed(r, p), Done(p) \/ Ahead(r, p)
    PROVE  Done(p)' \/ Ahead(r, p)'
<1>1. /\ UNCHANGED <<fs, kwatch, pathToWd, astray, noticed, skipped, queue>> /\ stack # <<>>
      /\ Top.at = "list"
  BY DEF ScanList, fsVars
<1>2. /\ Done(p) => Done(p)'
      /\ \A q \in Paths : Tracked(q) => Tracked(q)' /\ pathToWd'[q] = pathToWd[q]
  BY <1>1, StillOwed
<1> DEFINE names == {c \in Children(Top.path) : NameOf(c) \notin Hidden}
<1>3. Top \in Frame /\ Top.path \in Paths /\ Tail(stack) \in Seq(Frame)
  BY <1>1, StackIs
<1>4. PICK f \in Frame : f = [Top EXCEPT !.at = "walk", !.left = names]
  BY <1>3 DEF Frame, Children
<1>f. f.at = "walk" /\ f.left = names
  BY <1>3, <1>4 DEF Frame
<1>5. stack' = IF IsDir(Top.path) THEN <<f>> \o Tail(stack) ELSE Tail(stack)
  BY <1>4 DEF ScanList, Goto, Return
<1>6. \A g : Waits(g, Tail(stack)) => Waits(g, stack')
  BY <1>3, <1>4, <1>5, Stacked
<1>7. ASSUME NEW q \in Paths, Under(r, q), q # r, Under(q, p), Framed(q, p)
      PROVE  Framed(q, p)'
  <2>1. CASE ~Reaches(Top, q, p)
    BY <1>1, <1>6, <1>7, <2>1, FramesKept
  <2>2. CASE Reaches(Top, q, p)
    <3>1. q # <<>> /\ Top.path = Parent(q)
      BY <1>1, <2>2 DEF Reaches
    <3>2. fs[q] # NoInode
      BY <1>7, TreeAbove DEF Owed, TypeOK
    <3>3. IsDir(Parent(q))
      <4>1. q \in Seq(Names) /\ Parent(q) \in Paths
        BY <3>1, PathsAbove
      <4>2. Under(Parent(q), q) /\ Parent(q) # q
        BY <3>1, <4>1, ParentIs
      <4>3. QED BY <3>2, <4>1, <4>2, TreeAbove DEF TypeOK, IsDir
    <3>4. NameOf(q) \notin Hidden
      BY <1>7, ShownAbove DEF Owed
    <3>5. q \in f.left
      BY <1>f, <3>1, <3>2, <3>4 DEF Children
    <3>6. Waits(f, stack')
      BY <1>3, <1>4, <1>5, <3>1, <3>3, Stacked
    <3>7. Reaches(f, q, p)'
      BY <1>f, <3>5 DEF Reaches
    <3>8. QED BY <1>4, <3>6, <3>7 DEF Framed
  <2>3. QED BY <2>1, <2>2
<1>8. CASE Done(p)
  BY <1>2, <1>8
<1>9. CASE Ahead(r, p)
  <2>1. \A q \in Paths : Under(r, q) /\ q # r /\ Under(q, p) /\ Framed(q, p) => Ahead(r, p)'
    BY <1>7 DEF Ahead
  <2>2. \A e : Waits(e, queue) => Waits(e, queue)'
    BY <1>1 DEF Waits
  <2>3. QED BY <1>1, <1>2, <1>9, <2>1, <2>2, StillAhead
<1>10. QED BY <1>8, <1>9

\* readdir: the name is noted or passed over, or its directory entered.
LEMMA AheadEntry ==
    ASSUME TypeOK, IsTree(fs), ScanEntry, NEW r \in Paths, NEW p \in Paths,
           Owed(r, p), Done(p) \/ Ahead(r, p)
    PROVE  Done(p)' \/ Ahead(r, p)'
<1>1. UNCHANGED <<fs, kwatch, pathToWd, astray, queue>> /\ stack # <<>> /\ Top.at = "walk"
  BY DEF ScanEntry, fsVars
<1>2. PICK c \in Top.left :
         /\ stack' = IF IsDir(c)
                     THEN <<Call(c)>> \o (<<[Top EXCEPT !.left = @ \ {c}]>> \o Tail(stack))
                     ELSE <<[Top EXCEPT !.left = @ \ {c}]>> \o Tail(stack)
         /\ IF IsFile(c) /\ running
            THEN AddNotifyFile(c) ELSE UNCHANGED noticed
         /\ skipped' = IF IsFile(c) /\ ~running
                       THEN skipped \union {<<c, fs[c]>>} ELSE skipped
  BY DEF ScanEntry
<1>3. noticed \subseteq noticed' /\ skipped \subseteq skipped'
  BY <1>2 DEF AddNotifyFile
<1>4. /\ Done(p) => Done(p)'
      /\ \A q \in Paths : Tracked(q) => Tracked(q)' /\ pathToWd'[q] = pathToWd[q]
  BY <1>1, <1>3, StillOwed
<1>5. Top \in Frame /\ Tail(stack) \in Seq(Frame) /\ c \in Paths
  BY <1>1, StackIs DEF Frame
<1>6. PICK f \in Frame : f = [Top EXCEPT !.left = @ \ {c}]
  BY <1>5 DEF Frame
<1>f. f.at = "walk" /\ f.left = Top.left \ {c}
  BY <1>1, <1>5, <1>6 DEF Frame
<1> DEFINE rest == <<f>> \o Tail(stack)
<1>7. stack' = IF IsDir(c) THEN <<Call(c)>> \o rest ELSE rest
  BY <1>2, <1>6
<1>8. rest \in Seq(Frame)
  BY <1>5, <1>6
<1>9. Waits(f, rest) /\ \A g : Waits(g, Tail(stack)) => Waits(g, rest)
  BY <1>5, <1>6, Stacked
<1> HIDE DEF rest
<1>10. \A g : Waits(g, rest) => Waits(g, stack')
  BY <1>5, <1>7, <1>8, CallType, Stacked
<1>11. ASSUME NEW q \in Paths, Under(r, q), q # r, Under(q, p), Framed(q, p)
       PROVE  Framed(q, p)' \/ Done(p)'
  <2>1. CASE ~Reaches(Top, q, p)
    BY <1>1, <1>9, <1>10, <1>11, <2>1, FramesKept
  <2>2. CASE Reaches(Top, q, p) /\ q # c
    <3>1. q \in f.left
      BY <1>1, <1>f, <2>2 DEF Reaches
    <3>2. Reaches(f, q, p)' /\ Waits(f, stack')
      BY <1>f, <1>9, <1>10, <3>1 DEF Reaches
    <3>3. QED BY <1>6, <3>2 DEF Framed
  <2>3. CASE q = c /\ IsDir(c)
    <3>1. Call(c) \in Frame /\ Waits(Call(c), stack')
      BY <1>5, <1>7, <1>8, <2>3, CallType, Stacked
    <3>2. Reaches(Call(c), q, p)'
      BY <1>1, <2>3 DEF Reaches, Call, IsDir
    <3>3. QED BY <3>1, <3>2 DEF Framed
  <2>4. CASE q = c /\ ~IsDir(c)
    <3>1. fs[p] # NoInode /\ fs[q] # NoInode /\ (q # p => fs[q] \in Dirs)
      BY <1>11, TreeAbove DEF Owed, TypeOK
    <3>2. q = p /\ IsFile(c) /\ ~IsDir(p)
      BY <1>5, <2>4, <3>1 DEF IsDir, IsFile, TypeOK, Inodes
    <3>3. <<p, fs[p]>> \in noticed' \union skipped'
      BY <1>2, <2>4, <3>2 DEF AddNotifyFile
    <3>4. QED BY <1>1, <3>2, <3>3 DEF Done, IsDir
  <2>5. QED BY <2>1, <2>2, <2>3, <2>4
<1>12. CASE Done(p)
  BY <1>4, <1>12
<1>13. CASE Ahead(r, p)
  <2>1. \A q \in Paths : Under(r, q) /\ q # r /\ Under(q, p) /\ Framed(q, p) => Done(p)' \/ Ahead(r, p)'
    BY <1>11 DEF Ahead
  <2>2. \A e : Waits(e, queue) => Waits(e, queue)'
    BY <1>1 DEF Waits
  <2>3. QED BY <1>1, <1>4, <1>13, <2>1, <2>2, StillAhead
<1>14. QED BY <1>12, <1>13

\* closedir: no name is left.
LEMMA AheadDone ==
    ASSUME TypeOK, ScanDone, NEW r \in Paths, NEW p \in Paths, Done(p) \/ Ahead(r, p)
    PROVE  Done(p)' \/ Ahead(r, p)'
<1>1. /\ UNCHANGED <<fs, kwatch, pathToWd, astray, noticed, skipped, queue>> /\ stack # <<>>
      /\ Top.at = "walk" /\ Top.left = {} /\ stack' = Tail(stack)
  BY DEF ScanDone, fsVars, Return
<1>2. /\ Done(p) => Done(p)'
      /\ \A q \in Paths : Tracked(q) => Tracked(q)' /\ pathToWd'[q] = pathToWd[q]
  BY <1>1, StillOwed
<1>3. ASSUME NEW q \in Paths, Framed(q, p) PROVE Framed(q, p)'
  <2>1. ~Reaches(Top, q, p)
    BY <1>1 DEF Reaches
  <2>2. QED BY <1>1, <1>3, <2>1, FramesKept
<1>4. CASE Done(p)
  BY <1>2, <1>4
<1>5. CASE Ahead(r, p)
  <2>1. \A q \in Paths : Under(r, q) /\ q # r /\ Under(q, p) /\ Framed(q, p) => Ahead(r, p)'
    BY <1>3 DEF Ahead
  <2>2. \A e : Waits(e, queue) => Waits(e, queue)'
    BY <1>1 DEF Waits
  <2>3. QED BY <1>1, <1>2, <1>5, <2>1, <2>2, StillAhead
<1>6. QED BY <1>4, <1>5

\* main() between two scans: no frame is on the stack, no event is taken.
LEMMA AheadMain ==
    ASSUME TypeOK, AddRoot \/ Start, NEW r \in Paths, NEW p \in Paths, Done(p) \/ Ahead(r, p)
    PROVE  Done(p)' \/ Ahead(r, p)'
<1>1. UNCHANGED <<fs, kwatch, pathToWd, astray, noticed, skipped, queue>> /\ stack = <<>>
  BY DEF AddRoot, Start, fsVars
<1>2. /\ Done(p) => Done(p)'
      /\ \A q \in Paths : Tracked(q) => Tracked(q)' /\ pathToWd'[q] = pathToWd[q]
  BY <1>1, StillOwed
<1>3. \A q : ~Framed(q, p)
  BY <1>1, NothingWaits DEF Framed
<1>4. \A e : Waits(e, queue) => Waits(e, queue)'
  BY <1>1 DEF Waits
<1>5. QED BY <1>1, <1>2, <1>3, <1>4, StillAhead

\* An event that is handled leads to what it announced, by the name its directory has now.
LEMMA AheadNewEntry ==
    ASSUME TypeOK, IsTree(fs), WdsInv, TablesInverse, OneEntry, KeysInv, HandleNewEntry,
           NEW r \in Paths, NEW p \in Paths, Owed(r, p), Done(p) \/ Ahead(r, p)
    PROVE  Done(p)' \/ Ahead(r, p)'
<1> DEFINE e == Head(queue)
           newPath == Append(WatchedPathFromWd(e.wd), e.name)
           found == DirEntries(e.wd) # {}
<1>1. /\ UNCHANGED <<fs, kwatch, pathToWd, astray, skipped>>
      /\ stack = <<>> /\ queue # <<>> /\ queue' = Tail(queue)
      /\ stack' = IF found /\ IsDir(newPath) THEN <<Call(newPath)>> ELSE <<>>
      /\ IF found /\ IsFile(newPath) THEN AddNotifyFile(newPath) ELSE UNCHANGED noticed
  BY DEF HandleNewEntry, ReadNextEvent
<1> HIDE DEF newPath, found, e
<1>2. noticed \subseteq noticed' /\ skipped \subseteq skipped'
  BY <1>1 DEF AddNotifyFile
<1>3. /\ Done(p) => Done(p)'
      /\ \A q \in Paths : Tracked(q) => Tracked(q)' /\ pathToWd'[q] = pathToWd[q]
  BY <1>1, <1>2, StillOwed
<1>4. CASE Done(p)
  BY <1>3, <1>4
<1>5. CASE ~Done(p)
  <2>1. PICK q \in Paths : Under(r, q) /\ q # r /\ Under(q, p) /\ (Framed(q, p) \/ Announced(q))
    BY <1>5 DEF Ahead
  <2>2. q # <<>> /\ Tracked(Parent(q)) /\ Parent(q) \in Paths /\ q \in Seq(Names)
    <3>1. ~Framed(q, p)
      BY <1>1, NothingWaits DEF Framed
    <3>2. QED BY <2>1, <3>1, PathsAbove DEF Announced
  <2>3. PICK m \in Arrivals : Waits(Event(pathToWd[Parent(q)], m, NameOf(q)), queue)
    <3>1. ~Framed(q, p)
      BY <1>1, NothingWaits DEF Framed
    <3>2. QED BY <2>1, <3>1 DEF Announced
  <2>4. queue \in Seq(EventType)
    BY DEF TypeOK, EventType
  <2>5. CASE Waits(Event(pathToWd[Parent(q)], m, NameOf(q)), Tail(queue))
    <3>1. Waits(Event(pathToWd'[Parent(q)], m, NameOf(q)), queue')
      BY <1>1, <2>5
    <3>2. Tracked(Parent(q))'
      BY <1>3, <2>2
    <3>3. Announced(q)'
      BY <2>2, <3>1, <3>2 DEF Announced
    <3>4. QED BY <2>1, <3>3 DEF Ahead
  <2>6. CASE ~Waits(Event(pathToWd[Parent(q)], m, NameOf(q)), Tail(queue))
    <3>1. e = Event(pathToWd[Parent(q)], m, NameOf(q))
      BY <1>1, <2>3, <2>4, <2>6, Stacked DEF e
    <3>2. e.wd = pathToWd[Parent(q)] /\ e.name = NameOf(q)
      BY <3>1 DEF Event
    <3>3. Under(Parent(q), p)
      BY <2>1, <2>2, ParentIs, UnderOrder, PathsAbove
    <3>4. fs[Parent(q)] \notin astray
      BY <2>2, <3>3 DEF Owed, Clean, Tracked
    <3>5. found /\ WatchedPathFromWd(e.wd) = Parent(q)
      BY <2>2, <3>2, <3>4, WatchedPathIs DEF found
    <3>6. newPath = q
      BY <2>2, <3>2, <3>5, ParentIs DEF newPath
    <3>7. CASE IsDir(q)
      <4>1. stack' = <<Call(q)>>
        BY <1>1, <3>5, <3>6, <3>7
      <4>2. Call(q) \in Frame /\ Waits(Call(q), stack')
        <5>1. 1 \in DOMAIN <<Call(q)>> /\ <<Call(q)>>[1] = Call(q)
          OBVIOUS
        <5>2. QED BY <4>1, <5>1, CallType DEF Waits
      <4>3. Reaches(Call(q), q, p)'
        BY <1>1, <3>7 DEF Reaches, Call, IsDir
      <4>4. QED BY <2>1, <4>2, <4>3 DEF Framed, Ahead
    <3>8. CASE ~IsDir(q)
      <4>1. fs[p] # NoInode /\ fs[q] # NoInode /\ (q # p => fs[q] \in Dirs)
        BY <2>1, TreeAbove DEF Owed, TypeOK
      <4>2. q = p /\ IsFile(q) /\ ~IsDir(p)
        BY <3>8, <4>1 DEF IsDir, IsFile, TypeOK, Inodes
      <4>3. <<p, fs[p]>> \in noticed'
        BY <1>1, <3>5, <3>6, <4>2 DEF AddNotifyFile
      <4>4. QED BY <1>1, <4>2, <4>3 DEF Done, IsDir
    <3>9. QED BY <3>7, <3>8
  <2>7. QED BY <2>5, <2>6
<1>6. QED BY <1>4, <1>5

\* removeWatch looks whether a path is a directory: one that is tracked stays so.
LEMMA AheadSelfGone ==
    ASSUME TypeOK, TablesInverse, HandleSelfGone,
           NEW r \in Paths, NEW p \in Paths, Done(p) \/ Ahead(r, p)
    PROVE  Done(p)' \/ Ahead(r, p)'
<1> DEFINE wd == Head(queue).wd
<1>1. /\ UNCHANGED <<fs, noticed, skipped, stack>> /\ stack = <<>> /\ RemoveWatch(wd)
      /\ queue # <<>> /\ queue' = Tail(queue) /\ Head(queue).mask \notin Arrivals
  BY DEF HandleSelfGone, ReadNextEvent, Arrivals
<1>2. ASSUME NEW q \in Paths, Tracked(q) PROVE Tracked(q)' /\ pathToWd'[q] = pathToWd[q]
  <2>1. IsDir(q) /\ pathToWd[q] # 0 /\ kwatch[fs[q]] = pathToWd[q] /\ fs[q] \in Inodes
    BY <1>2 DEF Tracked, IsDir, Inodes
  <2>2. pathToWd'[q] = pathToWd[q]
    BY <1>1, <2>1 DEF RemoveWatch
  <2>3. kwatch'[fs[q]] = kwatch[fs[q]]
    BY <1>1, <2>1, <2>2, KeyKept
  <2>4. QED BY <1>1, <2>1, <2>2, <2>3 DEF Tracked, IsDir
<1>3. Done(p) => Done(p)'
  BY <1>1, <1>2 DEF Done, IsDir
<1>4. CASE Done(p)
  BY <1>3, <1>4
<1>5. CASE ~Done(p)
  <2>1. PICK q \in Paths : Under(r, q) /\ q # r /\ Under(q, p) /\ (Framed(q, p) \/ Announced(q))
    BY <1>5 DEF Ahead
  <2>2. Announced(q)
    BY <1>1, <2>1, NothingWaits DEF Framed
  <2>3. q # <<>> /\ Tracked(Parent(q)) /\ Parent(q) \in Paths
    BY <2>2, PathsAbove DEF Announced
  <2>4. PICK m \in Arrivals : Waits(Event(pathToWd[Parent(q)], m, NameOf(q)), queue)
    BY <2>2 DEF Announced
  <2>5. queue \in Seq(EventType)
    BY DEF TypeOK, EventType
  <2>6. Event(pathToWd[Parent(q)], m, NameOf(q)) # Head(queue)
    BY <1>1 DEF Event
  <2>7. Waits(Event(pathToWd'[Parent(q)], m, NameOf(q)), queue')
    <3>1. pathToWd'[Parent(q)] = pathToWd[Parent(q)]
      BY <1>2, <2>3
    <3>2. Waits(Event(pathToWd[Parent(q)], m, NameOf(q)), Tail(queue))
      BY <1>1, <2>4, <2>5, <2>6, Stacked
    <3>3. QED BY <1>1, <3>1, <3>2
  <2>8. Tracked(Parent(q))'
    BY <1>2, <2>3
  <2>9. Announced(q)'
    BY <2>3, <2>7, <2>8 DEF Announced
  <2>10. QED BY <2>1, <2>9 DEF Ahead
<1>6. QED BY <1>4, <1>5

\* addWatch: the call goes on to the names below the path, and a key that was made leads
\* to the watch of what is there.
LEMMA AheadWatch ==
    ASSUME TypeOK, IsTree(fs), WdsInv, KeysInv, ScanWatch, ~refused',
           NEW r \in Paths, NEW p \in Paths, Owed(r, p)', Owed(r, p) => Done(p) \/ Ahead(r, p)
    PROVE  Done(p)' \/ Ahead(r, p)'
<1>0. PICK c \in Paths : c = Top.path
  BY StackIs DEF ScanWatch
<1>1. /\ UNCHANGED <<fs, astray, noticed, skipped, queue>> /\ stack # <<>> /\ Top.at = "watch"
      /\ Top \in Frame /\ c = Top.path /\ Tail(stack) \in Seq(Frame)
  BY <1>0, StackIs DEF ScanWatch
<1>2. /\ fs[p] # NoInode /\ p # r /\ Shown(r, p) /\ Clean(p) /\ pathToWd'[r] # 0
      /\ \A q \in Paths : Under(q, p) => fs[q] # NoInode
  <2>1. fs[p] # NoInode /\ p # r /\ Shown(r, p) /\ Clean(p) /\ pathToWd'[r] # 0
    BY <1>1 DEF Owed, Clean, IsDir
  <2>2. QED BY <2>1, TreeAbove DEF TypeOK
<1>3. Under(r, p) /\ p \in Seq(Names) /\ r \in Seq(Names)
  BY <1>2, PathsAbove DEF Shown
<1>4. CASE fs[c] = NoInode
  <2>1. UNCHANGED <<kwatch, pathToWd>> /\ stack' = Tail(stack)
    BY <1>1, <1>4 DEF ScanWatch, Return
  <2>2. /\ Owed(r, p) /\ (Done(p) => Done(p)')
        /\ \A q \in Paths : Tracked(q) => Tracked(q)' /\ pathToWd'[q] = pathToWd[q]
    BY <1>1, <2>1, StillOwed
  <2>3. ASSUME NEW q \in Paths, Under(q, p), Framed(q, p) PROVE Framed(q, p)'
    <3>1. ~Reaches(Top, q, p)
      BY <1>1, <1>2, <1>4, <2>3 DEF Reaches
    <3>2. QED BY <1>1, <2>1, <2>3, <3>1, FramesKept
  <2>4. CASE Done(p)
    BY <2>2, <2>4
  <2>5. CASE ~Done(p)
    <3>1. Ahead(r, p)
      BY <2>2, <2>5
    <3>2. \A q \in Paths : Under(r, q) /\ q # r /\ Under(q, p) /\ Framed(q, p) => Ahead(r, p)'
      BY <2>3 DEF Ahead
    <3>3. \A e : Waits(e, queue) => Waits(e, queue)'
      BY <1>1 DEF Waits
    <3>4. QED BY <1>1, <2>2, <3>1, <3>2, <3>3, StillAhead
  <2>6. QED BY <2>4, <2>5
<1>5. CASE fs[c] # NoInode
  <2>1. PICK f \in Frame : f = [Top EXCEPT !.at = "list", !.left = {}]
    BY <1>1 DEF Frame
  <2>2. f.at = "list" /\ f.path = c
    BY <1>1, <2>1 DEF Frame
  <2>3. AddWatch(c) /\ stack' = <<f>> \o Tail(stack)
    BY <1>1, <1>5, <2>1 DEF ScanWatch, Goto
  <2>4. Waits(f, stack') /\ \A g : Waits(g, Tail(stack)) => Waits(g, stack')
    BY <1>1, <2>3, Stacked
  <2>5. /\ fs[c] \in Inodes
        /\ \/ UNCHANGED <<kwatch, pathToWd>> /\ pathToWd[c] # 0
           \/ /\ pathToWd[c] = 0 /\ WdFor(fs[c]) # 0
              /\ kwatch' = [kwatch EXCEPT ![fs[c]] = WdFor(fs[c])]
              /\ pathToWd' = [pathToWd EXCEPT ![c] = WdFor(fs[c])]
    BY <1>1, <1>5, <2>3, AddWatchIs
  <2>w. WdFor(fs[c]) = kwatch[fs[c]] \/ kwatch[fs[c]] = 0
    BY DEF WdFor
  <2>6. ASSUME NEW q \in Paths, Tracked(q)
        PROVE  Tracked(q)' /\ pathToWd'[q] = pathToWd[q]
    <3>1. IsDir(q) /\ pathToWd[q] # 0 /\ kwatch[fs[q]] = pathToWd[q] /\ fs[q] \in Inodes
      BY <2>6 DEF Tracked, IsDir, Inodes
    <3>2. pathToWd'[q] = pathToWd[q] /\ kwatch'[fs[q]] = kwatch[fs[q]]
      BY <2>5, <2>w, <3>1 DEF TypeOK
    <3>3. QED BY <1>1, <3>1, <3>2 DEF Tracked, IsDir
  <2>7. IsDir(c) /\ fs[c] \notin astray => Tracked(c)'
    <3>1. CASE pathToWd[c] # 0
      BY <1>1, <2>6, <3>1, KeyTracked
    <3>2. CASE pathToWd[c] = 0
      BY <1>1, <2>5, <3>2 DEF Tracked, IsDir, TypeOK
    <3>3. QED BY <3>1, <3>2
  <2>8. ASSUME Under(r, c), Under(c, p), c # p
        PROVE  Ahead(r, p)'
    <3> DEFINE q == Toward(c, p)
    <3>1. q \in Paths /\ q # <<>> /\ Parent(q) = c /\ Under(r, q) /\ q # r /\ Under(q, p)
      BY <1>1, <2>8, OnTheWay
    <3> HIDE DEF q
    <3>2. PICK s \in Paths : s = q
      BY <3>1
    <3>3. Reaches(f, s, p)'
      <4>1. f.at = "list" /\ s # <<>> /\ f.path = Parent(s)
        BY <2>2, <3>1, <3>2
      <4>2. QED BY <4>1 DEF Reaches
    <3>4. Framed(s, p)'
      BY <2>4, <3>3 DEF Framed
    <3>5. QED BY <3>1, <3>2, <3>4 DEF Ahead
  <2>9. ASSUME NEW q \in Paths, Under(r, q), q # r, Under(q, p), Framed(q, p)
        PROVE  Done(p)' \/ Ahead(r, p)'
    <3>1. CASE ~Reaches(Top, q, p)
      <4>1. Framed(q, p)'
        BY <1>1, <2>4, <2>9, <3>1, FramesKept
      <4>2. QED BY <2>9, <4>1 DEF Ahead
    <3>2. CASE Reaches(Top, q, p) /\ q # p
      BY <1>1, <2>8, <2>9, <3>2 DEF Reaches
    <3>3. CASE Reaches(Top, q, p) /\ q = p
      <4>1. q = c /\ IsDir(c)
        BY <1>1, <3>3 DEF Reaches
      <4>2. fs[c] \notin astray
        BY <1>2, <2>9, <4>1 DEF Clean
      <4>3. Tracked(p)'
        BY <2>7, <3>3, <4>1, <4>2
      <4>4. QED BY <4>3 DEF Done, Tracked
    <3>4. QED BY <3>1, <3>2, <3>3
  <2>10. CASE pathToWd[r] = 0
    <3>1. r = c
      BY <1>2, <2>5, <2>10 DEF TypeOK
    <3>2. QED BY <1>2, <1>3, <2>8, <3>1, UnderOrder
  <2>11. CASE pathToWd[r] # 0
    <3>1. Owed(r, p)
      BY <1>2, <2>11 DEF Owed
    <3>2. CASE Done(p)
      BY <1>1, <2>6, <3>2 DEF Done, IsDir
    <3>3. CASE Ahead(r, p)
      <4>1. \A e : Waits(e, queue) => Waits(e, queue)'
        BY <1>1 DEF Waits
      <4>2. QED BY <1>1, <2>6, <2>9, <3>3, <4>1, StillAhead
    <3>4. QED BY <3>1, <3>2, <3>3
  <2>12. QED BY <2>10, <2>11
<1>6. QED BY <1>4, <1>5

-----------------------------------------------------------------------------
(* The file system's steps, and the theorems *)

\* Where nothing changes on the way, nothing is lost while the file system moves on.
LEMMA SameKept ==
    ASSUME TypeOK, IsTree(fs), WdsInv, Elsewhere, NEW x \in Paths, Same(x), fs[x] # NoInode
    PROVE  /\ fs'[x] # NoInode /\ (IsDir(x)' <=> IsDir(x))
           /\ Clean(x)' => Clean(x)
           /\ \A q \in Paths : Under(q, x) /\ Tracked(q) => Tracked(q)'
           /\ \A q \in Paths : Under(q, x) /\ Framed(q, x) => Framed(q, x)'
           /\ \A q \in Paths : Under(q, x) /\ Announced(q) => Announced(q)'
           /\ Done(x) => Done(x)'
<1>1. /\ Environment /\ UNCHANGED <<pathToWd, stack, noticed, skipped>>
      /\ astray \ Unused \subseteq astray'
  BY DEF Elsewhere
<1>2. /\ \A i \in Inodes : (\E p \in Paths : fs'[p] = i) => kwatch'[i] = kwatch[i]
      /\ \A e : Waits(e, queue) => Waits(e, queue')
  BY <1>1, EnvironmentIs
<1>3. x \in Seq(Names) /\ Under(x, x)
  BY PathsAbove, UnderOrder
<1>4. \A q \in Paths : Under(q, x) => fs'[q] = fs[q] /\ (IsDir(q)' <=> IsDir(q))
  BY DEF Same, IsDir
<1>5. ASSUME Clean(x)', NEW q \in Paths, IsDir(q), Under(q, x)
      PROVE  fs[q] \notin astray
  <2>1. fs[q] \notin Unused
    BY DEF Unused
  <2>2. fs'[q] \notin astray'
    BY <1>4, <1>5 DEF Clean
  <2>3. QED BY <1>1, <1>4, <1>5, <2>1, <2>2
<1>6. ASSUME NEW q \in Paths, Under(q, x), Tracked(q)
      PROVE  Tracked(q)'
  <2>1. fs[q] \in Inodes /\ fs'[q] = fs[q]
    BY <1>4, <1>6 DEF Tracked, IsDir, Inodes
  <2>2. kwatch'[fs[q]] = kwatch[fs[q]]
    BY <1>2, <2>1
  <2>3. QED BY <1>1, <1>4, <1>6, <2>1, <2>2 DEF Tracked
<1>7. ASSUME NEW q \in Paths, Under(q, x), Framed(q, x)
      PROVE  Framed(q, x)'
  <2>1. PICK f \in Frame : Waits(f, stack) /\ Reaches(f, q, x)
    BY <1>7 DEF Framed
  <2>2. Waits(f, stack') /\ Reaches(f, q, x)'
    BY <1>1, <1>3, <1>4, <2>1 DEF Reaches
  <2>3. QED BY <2>2 DEF Framed
<1>8. ASSUME NEW q \in Paths, Under(q, x), Announced(q)
      PROVE  Announced(q)'
  <2>1. q # <<>> /\ Tracked(Parent(q)) /\ Parent(q) \in Paths /\ q \in Seq(Names)
    BY <1>8, PathsAbove DEF Announced
  <2>2. Under(Parent(q), x)
    BY <1>3, <1>8, <2>1, ParentIs, UnderOrder
  <2>3. PICK m \in Arrivals : Waits(Event(pathToWd[Parent(q)], m, NameOf(q)), queue)
    BY <1>8 DEF Announced
  <2>4. Waits(Event(pathToWd'[Parent(q)], m, NameOf(q)), queue')
    BY <1>1, <1>2, <2>3
  <2>5. Tracked(Parent(q))'
    BY <1>6, <2>1, <2>2
  <2>6. QED BY <2>1, <2>4, <2>5 DEF Announced
<1>9. Done(x) => Done(x)'
  BY <1>1, <1>3, <1>4, <1>6 DEF Done
<1>10. Clean(x)' => Clean(x)
  BY <1>5 DEF Clean
<1>11. fs'[x] # NoInode /\ (IsDir(x)' <=> IsDir(x))
  BY <1>3, <1>4
<1>12. QED BY <1>6, <1>7, <1>8, <1>9, <1>10, <1>11

\* The file system moves on: what comes to a place is announced by its directory's watch,
\* or led to by what leads to that directory.
LEMMA AheadElsewhere ==
    ASSUME TypeOK, IsTree(fs), IsTree(fs'), WdsInv, KeysInv, Elsewhere, ~overflow',
           NEW k \in DOMAIN Roots, NEW r \in Paths, r = Roots[k], NEW p \in Paths, Owed(r, p)',
           \A x \in Paths : Owed(r, x) => Done(x) \/ Ahead(r, x)
    PROVE  Done(p)' \/ Ahead(r, p)'
<1>1. /\ Environment /\ pathToWd' = pathToWd
      /\ \A x \in Paths : Taken(x) => \A i \in Inodes : i = fs'[x] => i \in astray'
  BY DEF Elsewhere
<1>2. /\ fs'[p] # NoInode /\ p # r /\ Shown(r, p) /\ Clean(p)' /\ pathToWd[r] # 0
      /\ Under(r, p) /\ p \in Seq(Names) /\ r \in Seq(Names)
  BY <1>1, PathsAbove DEF Owed, Shown
<1>3. fs' \in [Paths -> Inodes \union {NoInode}]
  BY <1>1, EnvironmentType
<1>4. Same(p) \/ \E s \in Paths : Arrived(s) /\ Under(s, p)
  BY <1>1, <1>2, EnvironmentIs
<1>5. ASSUME NEW x \in Paths, Under(x, p), Same(x), fs[x] # NoInode
      PROVE  Clean(x)
  <2>1. x \in Seq(Names)
    BY PathsAbove
  <2>2. \A q \in Paths : Under(q, x) => Under(q, p)
    BY <1>2, <1>5, <2>1, PathsAbove, UnderOrder
  <2>3. Clean(x)'
    BY <1>2, <2>2 DEF Clean
  <2>4. QED BY <1>5, <2>3, SameKept
<1>6. CASE Same(p)
  <2>1. Under(p, p) /\ fs[p] # NoInode
    BY <1>2, <1>6, UnderOrder DEF Same
  <2>2. Owed(r, p)
    BY <1>2, <1>5, <1>6, <2>1 DEF Owed
  <2>3. CASE Done(p)
    BY <1>6, <2>1, <2>3, SameKept
  <2>4. CASE Ahead(r, p)
    <3>1. PICK q \in Paths : Under(r, q) /\ q # r /\ Under(q, p) /\ (Framed(q, p) \/ Announced(q))
      BY <2>4 DEF Ahead
    <3>2. Framed(q, p)' \/ Announced(q)'
      BY <1>6, <2>1, <3>1, SameKept
    <3>3. QED BY <3>1, <3>2 DEF Ahead
  <2>5. QED BY <2>2, <2>3, <2>4
<1>7. ASSUME NEW s \in Paths, Arrived(s), Under(s, p) PROVE Done(p)' \/ Ahead(r, p)'
  <2>1. /\ s # <<>> /\ fs[s] = NoInode /\ IsDir(Parent(s)) /\ Same(Parent(s))
        /\ ParentWd(s) # 0 => \E m \in Arrivals : Waits(Event(ParentWd(s), m, NameOf(s)), queue')
        /\ s \in Seq(Names) /\ Parent(s) \in Paths /\ Parent(s) \in Seq(Names)
    BY <1>7, PathsAbove DEF Arrived
  <2>2. CASE Under(s, r)
    <3>1. fs[r] = NoInode
      BY <2>1, <2>2, TreeAbove DEF TypeOK
    <3>2. fs'[r] \in Dirs /\ fs'[r] # NoInode
      BY <1>2, <1>3, FSAssumption, TreeAbove DEF Inodes
    <3>3. Taken(r)
      BY <1>2, <3>1, <3>2 DEF Taken
    <3>4. fs'[r] \in astray'
      BY <1>1, <3>2, <3>3 DEF Inodes
    <3>5. QED BY <1>2, <3>2, <3>4 DEF Clean, IsDir
  <2>3. CASE ~Under(s, r)
    <3>1. Under(r, s) /\ s # r /\ Under(r, Parent(s))
      BY <1>2, <1>7, <2>1, <2>3, UnderOrder
    <3>2. Under(Parent(s), p) /\ Parent(s) # p
      BY <1>2, <1>7, <2>1, ParentIs, UnderOrder
    <3> DEFINE d == Parent(s)
    <3>3. fs[d] \in Inodes /\ fs[d] # NoInode /\ fs[d] \in Dirs
      BY <2>1, FSAssumption DEF IsDir, Inodes
    <3>4. Clean(d) /\ fs[d] \notin astray
      <4>1. Clean(d)
        BY <1>5, <2>1, <3>2, <3>3
      <4>2. Under(d, d)
        BY <2>1, UnderOrder
      <4>3. QED BY <2>1, <4>1, <4>2 DEF Clean
    <3>5. CASE Tracked(d)
      <4>1. pathToWd'[d] = ParentWd(s) /\ ParentWd(s) # 0
        BY <1>1, <3>5 DEF Tracked, ParentWd
      <4>2. PICK m \in Arrivals : Waits(Event(ParentWd(s), m, NameOf(s)), queue')
        BY <2>1, <4>1
      <4>3. Under(d, d)
        BY <2>1, UnderOrder
      <4>4. Tracked(d)'
        BY <2>1, <3>3, <3>5, <4>3, SameKept
      <4>5. Waits(Event(pathToWd'[d], m, NameOf(s)), queue')
        BY <4>1, <4>2
      <4>6. Announced(s)'
        BY <2>1, <4>4, <4>5 DEF Announced
      <4>7. QED BY <1>7, <3>1, <4>6 DEF Ahead
    <3>6. CASE ~Tracked(d)
      <4>1. d # r
        BY <1>2, <2>1, <3>4, <3>6, KeyTracked
      <4>2. Shown(r, d)
        BY <1>2, <2>1, <3>1, <3>2, ShownAbove
      <4>3. Owed(r, d)
        BY <1>2, <3>3, <3>4, <4>1, <4>2 DEF Owed
      <4>4. Ahead(r, d)
        BY <2>1, <3>6, <4>3 DEF Done
      <4>5. PICK q \in Paths : Under(r, q) /\ q # r /\ Under(q, d) /\ (Framed(q, d) \/ Announced(q))
        BY <4>4 DEF Ahead
      <4>6. Framed(q, d)' \/ Announced(q)'
        BY <2>1, <3>3, <4>5, SameKept
      <4>7. q \in Seq(Names) /\ Under(q, p) /\ q # p
        BY <1>2, <2>1, <3>2, <4>5, PathsAbove, UnderOrder
      <4>8. Framed(q, d)' => Framed(q, p)'
        BY <4>7 DEF Framed, Reaches
      <4>9. QED BY <4>5, <4>6, <4>7, <4>8 DEF Ahead
    <3>7. QED BY <3>5, <3>6
  <2>4. QED BY <2>2, <2>3
<1>8. QED BY <1>4, <1>6, <1>7

\* What is owed and not done stays ahead, whatever steps.
LEMMA ScanStep ==
    TypeOK /\ IsTree(fs) /\ IsTree(fs') /\ WdsInv /\ TablesInverse /\ OneEntry /\ KeysInv /\ ScanInv
        /\ [Next]_vars => ScanInv'
<1> SUFFICES ASSUME TypeOK, IsTree(fs), IsTree(fs'), WdsInv, TablesInverse, OneEntry, KeysInv, ScanInv,
                    [Next]_vars, ~refused', ~overflow',
                    NEW k \in DOMAIN Roots, NEW r \in Paths, r = Roots[k], NEW p \in Paths, Owed(r, p)'
             PROVE  Done(p)' \/ Ahead(r, p)'
  BY RootIs DEF ScanInv
<1>1. ~refused /\ ~overflow
  <2>1. CASE Elsewhere
    BY <2>1, EnvironmentIs DEF Elsewhere
  <2>2. CASE ScanWatch
    BY <2>2, StackIs, AddWatchIs DEF ScanWatch
  <2>3. QED
    BY <2>1, <2>2
       DEF Next, Daemon, AddRoot, Start, ScanList, ScanEntry, ScanDone,
           HandleNewEntry, HandleSelfGone, vars, fsVars, svcVars
<1>2. \A x \in Paths : Owed(r, x) => Done(x) \/ Ahead(r, x)
  BY <1>1 DEF ScanInv
<1>3. CASE Elsewhere
  BY <1>2, <1>3, AheadElsewhere
<1>4. CASE ScanWatch
  BY <1>2, <1>4, AheadWatch
<1>5. CASE AddRoot \/ Start \/ ScanList \/ ScanEntry \/ ScanDone \/ HandleNewEntry
  <2>1. /\ UNCHANGED <<fs, kwatch, pathToWd, astray>>
        /\ noticed \subseteq noticed' /\ skipped \subseteq skipped'
    BY <1>5 DEF AddRoot, Start, ScanList, ScanEntry, ScanDone, HandleNewEntry, AddNotifyFile, fsVars
  <2>2. Owed(r, p)
    BY <2>1, StillOwed
  <2>3. Done(p) \/ Ahead(r, p)
    BY <1>2, <2>2
  <2>4. QED
    BY <1>5, <2>2, <2>3, AheadMain, AheadList, AheadEntry, AheadDone, AheadNewEntry
<1>6. CASE HandleSelfGone
  <2>1. Owed(r, p)
    BY <1>6 DEF HandleSelfGone, RemoveWatch, Owed, Clean, IsDir
  <2>2. QED BY <1>2, <1>6, <2>1, AheadSelfGone
<1>7. CASE UNCHANGED vars
  BY <1>2, <1>7 DEF vars, fsVars, svcVars, Owed, Clean, Done, Ahead, Framed, Reaches, Announced,
                    Tracked, IsDir, Waits
<1>8. QED
  BY <1>3, <1>4, <1>5, <1>6, <1>7 DEF Next, Daemon

\* All of the invariant, initially and after every step.
LEMMA InvInit == Init => IInv
<1> SUFFICES ASSUME Init PROVE IInv
  OBVIOUS
<1>1. TypeOK
  BY InitType
<1>2. IsTree(fs)
  BY FSAssumption DEF Init, FSInit
<1>3. WdsInv
  BY DEF Init, FSInit, WdsInv
<1>4. TablesInverse /\ OneEntry
  BY DEF Init, TablesInverse, OneEntry
<1>5. KeysInv
  BY DEF Init, KeysInv
<1>6. ScanInv
  BY RootIs DEF Init, ScanInv, Owed
<1>7. QED BY <1>1, <1>2, <1>3, <1>4, <1>5, <1>6 DEF IInv

\* Every step of the daemon or of the file system preserves the whole invariant.
LEMMA InvStep == IInv /\ [Next]_vars => IInv'
<1> SUFFICES ASSUME IInv, [Next]_vars PROVE IInv'
  OBVIOUS
<1>1. TypeOK' /\ TablesInverse'
  BY NextType, InverseStep DEF IInv
<1>2. IsTree(fs') /\ WdsInv'
  BY TreeStep, WdsStep DEF IInv
<1>3. OneEntry' /\ KeysInv'
  BY OneEntryStep, KeysStep DEF IInv
<1>4. ScanInv'
  BY <1>2, ScanStep DEF IInv
<1>5. (IsTree(fs))'
  BY <1>2 DEF IsTree
<1>6. QED BY <1>1, <1>2, <1>3, <1>4, <1>5 DEF IInv

\* When nothing is left to do, what is owed is done.
LEMMA AllDone ==
    ASSUME IInv, Quiescent, Faultless, NEW p \in Paths, fs[p] # NoInode, InTree(p)
    PROVE  Done(p)
<1>1. PICK k \in DOMAIN Roots :
         /\ Tracked(Roots[k]) /\ Under(Roots[k], p) /\ p # Roots[k]
         /\ \A n \in Len(Roots[k]) + 1 .. Len(p) : p[n] \notin Hidden
  BY DEF InTree
<1>2. Owed(Roots[k], p)
  BY <1>1 DEF Owed, Shown, Clean, InTree, Tracked
<1>3. ~Ahead(Roots[k], p)
  BY NothingWaits DEF Quiescent, Ahead, Framed, Announced
<1>4. QED BY <1>2, <1>3 DEF IInv, ScanInv, Faultless

\* Every directory below a root is tracked when every event is handled.
THEOREM TreeIsWatched == Spec => []TreeWatched
<1>1. IInv => TreeWatched
  BY AllDone, FSAssumption DEF TreeWatched, Done, IsDir, Inodes
<1>2. QED BY <1>1, InvInit, InvStep, PTL DEF Spec

\* Every file below a root is on the list, or was passed over at start.
THEOREM FilesAreNoticed == Spec => []FilesNoticed
<1>1. IInv => FilesNoticed
  BY AllDone, FSAssumption DEF FilesNoticed, Done, IsDir, IsFile, Inodes
<1>2. QED BY <1>1, InvInit, InvStep, PTL DEF Spec
=============================================================================
