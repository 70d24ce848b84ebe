----------------------------- MODULE NotifyList -----------------------------
(***************************************************************************)
(* The file watcher's notification list.  The scan of a directory and the  *)
(* events of its files both append an image or video, which may be on the  *)
(* list already; loopList visits the whole list every 100 ms under         *)
(* mListLock and announces each file whose size stood still to the manager,*)
(* whose backend thread inserts it into Android's media database.          *)
(*                                                                         *)
(* Files are written, removed and replaced while the list is visited, and  *)
(* the manager comes and goes: it quits with the container, and a call to  *)
(* its name makes the bus start it again, or fail to.                      *)
(***************************************************************************)
EXTENDS Integers, Sequences

CONSTANTS
    Paths,          \* files with an image's or a video's extension below the home
    Media,          \* those whose content, once there is any, is one too
    Gone,           \* no file at a path
    IntMax,         \* the greatest int: NotifyFileInfo keeps a size in one
    MaxSize,        \* bound: size of a file
    MaxCreates,     \* bound: files created or moved in, over all paths
    MaxScans,       \* bound: files a scan comes upon
    MaxStops        \* bound: times the manager quits

ASSUME ListAssumption ==
    /\ Media \subseteq Paths
    /\ Gone \notin Int
    /\ IntMax \in Nat
    /\ MaxSize \in Nat /\ MaxCreates \in Nat /\ MaxScans \in Nat /\ MaxStops \in Nat

VARIABLES
    disk,       \* disk[p]: the size of the file at p, or Gone
    creates,    \* files created so far
    scans,      \* files a scan came upon so far
    seen,       \* paths of the events run() has still to handle
    list,       \* mFileList
    pos,        \* the entry loopList is at; 0: mListLock is free
    phase,      \* where loopList is in that entry
    owned,      \* mServiceNameOwned
    up,         \* the manager owns its name on the session bus
    stops,      \* times it quit
    requests,   \* requestAddFileRecord signals queued to the backend thread
    inserted,   \* paths the backend inserted
    lost,       \* history: records lost by a fault after they left the list
    looks,      \* history: looks[p]: how often a scan or an event put p on the list
    announced,  \* history: announced[p]: how often p was announced
    flawed,     \* history: paths not handled yet, or empty then, or removed since
    removed,    \* history: paths a file was removed from
    grew,       \* history: paths that grew since loopList looked at them last
    busy        \* history: the entry loopList is at had grown when it looked

diskVars == <<disk, creates, flawed, removed, grew>>
loopVars == <<list, pos, phase, owned, looks, announced, busy>>
managerVars == <<up, stops, requests, inserted, lost>>
vars == <<diskVars, scans, seen, loopVars, managerVars>>

NotifyFileInfo == [path : Paths, size : Int]

\* An off_t assigned to an int.
AsInt(n) == ((n + IntMax + 1) % (2 * (IntMax + 1))) - (IntMax + 1)

Init ==
    /\ disk = [p \in Paths |-> Gone]
    /\ creates = 0 /\ scans = 0
    /\ seen = <<>>
    /\ list = <<>>
    /\ pos = 0 /\ phase = "stat"
    /\ owned = FALSE
    /\ up \in BOOLEAN /\ stops = 0
    /\ requests = <<>> /\ inserted = {} /\ lost = {}
    /\ looks = [p \in Paths |-> 0] /\ announced = [p \in Paths |-> 0]
    /\ flawed = Paths /\ removed = {} /\ grew = {} /\ busy = FALSE

-----------------------------------------------------------------------------
(* The file system: a file appears empty and is written, or is moved in whole *)

\* The event is raised where the directory is watched already.
Create(p, size) ==
    /\ creates < MaxCreates
    /\ disk[p] = Gone
    /\ disk' = [disk EXCEPT ![p] = size]
    /\ creates' = creates + 1
    /\ seen' \in {seen, Append(seen, p)}
    /\ UNCHANGED <<flawed, removed, grew, scans, loopVars, managerVars>>

Write(p) ==
    /\ disk[p] # Gone /\ disk[p] < MaxSize
    /\ disk' = [disk EXCEPT ![p] = @ + 1]
    /\ grew' = grew \union {p}
    /\ UNCHANGED <<creates, flawed, removed, scans, seen, loopVars, managerVars>>

\* A file created later at the same path is another one.
Remove(p) ==
    /\ disk[p] # Gone
    /\ disk' = [disk EXCEPT ![p] = Gone]
    /\ flawed' = flawed \union {p}
    /\ removed' = removed \union {p}
    /\ grew' = grew \ {p}
    /\ UNCHANGED <<creates, scans, seen, loopVars, managerVars>>

-----------------------------------------------------------------------------
(* run(): the handlers of events, and the scans they begin *)

\* addNotifyFileLocked waits for mListLock; the list may hold the path already.
AddNotifyFile(p) ==
    /\ pos = 0
    /\ list' = Append(list, [path |-> p, size |-> -1])
    /\ looks' = [looks EXCEPT ![p] = @ + 1]
    /\ flawed' = IF disk[p] = 0 THEN flawed \union {p} ELSE flawed \ {p}
    /\ UNCHANGED <<disk, creates, removed, grew, pos, phase, owned,
                   announced, busy, managerVars>>

\* The event of a file: a file that is gone is no regular file any more.
HandleEvent ==
    /\ seen # <<>> /\ pos = 0
    /\ seen' = Tail(seen)
    /\ \/ disk[Head(seen)] # Gone /\ AddNotifyFile(Head(seen))
       \/ disk[Head(seen)] = Gone /\ UNCHANGED <<diskVars, loopVars, managerVars>>
    /\ UNCHANGED scans

\* A notifying scan comes upon a file, whose event may be waiting or handled too.
ScanFile(p) ==
    /\ scans < MaxScans
    /\ disk[p] # Gone
    /\ AddNotifyFile(p)
    /\ scans' = scans + 1
    /\ UNCHANGED seen

-----------------------------------------------------------------------------
(* loopList *)

At(ph) == pos \in 1..Len(list) /\ phase = ph
Here == list[pos]

NextEntry == pos' = pos + 1 /\ phase' = "stat"

\* QMutableListIterator::remove, continue
RemoveHere ==
    /\ list' = SubSeq(list, 1, pos - 1) \o SubSeq(list, pos + 1, Len(list))
    /\ phase' = "stat"
    /\ UNCHANGED pos

BeginSweep ==
    /\ pos = 0 /\ list # <<>>
    /\ pos' = 1
    /\ UNCHANGED <<diskVars, scans, seen, list, phase, owned, looks, announced, busy,
                   managerVars>>

\* Wrong forms: a file whose size changed is announced too, or is forgotten; a
\* missing file stays.
StatEntry_AnySize ==
    LET p == Here.path
    IN  /\ At("stat")
        /\ \/ disk[p] = Gone /\ RemoveHere
           \/ disk[p] # Gone /\ phase' = "query" /\ UNCHANGED <<list, pos>>
        /\ busy' = (p \in grew)
        /\ grew' = grew \ {p}
        /\ UNCHANGED <<disk, creates, flawed, removed, scans, seen, owned, looks, announced,
                       managerVars>>

StatEntry_Forget ==
    LET p == Here.path
    IN  /\ At("stat")
        /\ \/ /\ disk[p] # Here.size /\ Here.size # -1
              /\ RemoveHere
           \/ /\ disk[p] # Gone /\ Here.size = -1
              /\ list' = [list EXCEPT ![pos].size = AsInt(disk[p])]
              /\ NextEntry
           \/ /\ disk[p] = Here.size
              /\ phase' = "query"
              /\ UNCHANGED <<list, pos>>
        /\ busy' = (p \in grew)
        /\ grew' = grew \ {p}
        /\ UNCHANGED <<disk, creates, flawed, removed, scans, seen, owned, looks, announced,
                       managerVars>>

StatEntry_KeepGone ==
    LET p == Here.path
    IN  /\ At("stat")
        /\ \/ disk[p] = Gone /\ NextEntry /\ UNCHANGED list
           \/ /\ disk[p] # Gone /\ disk[p] # Here.size
              /\ list' = [list EXCEPT ![pos].size = AsInt(disk[p])]
              /\ NextEntry
           \/ /\ disk[p] = Here.size
              /\ phase' = "query"
              /\ UNCHANGED <<list, pos>>
        /\ busy' = (p \in grew)
        /\ grew' = grew \ {p}
        /\ UNCHANGED <<disk, creates, flawed, removed, scans, seen, owned, looks, announced,
                       managerVars>>

\* stat: a missing file leaves the list, a new size is recorded.  The off_t is
\* compared with the int recorded, which it never equals when it is too great.
StatEntry ==
    LET p == Here.path
    IN  /\ At("stat")
        /\ \/ /\ disk[p] = Gone
              /\ RemoveHere
           \/ /\ disk[p] # Gone /\ disk[p] # Here.size
              /\ list' = [list EXCEPT ![pos].size = AsInt(disk[p])]
              /\ NextEntry
           \/ /\ disk[p] = Here.size
              /\ phase' = "query"
              /\ UNCHANGED <<list, pos>>
        /\ busy' = (p \in grew)
        /\ grew' = grew \ {p}
        /\ UNCHANGED <<disk, creates, flawed, removed, scans, seen, owned, looks, announced,
                       managerVars>>

\* queryService: once the name had an owner the answer is yes for ever.  Without
\* an owner the entry stays.
QueryService ==
    /\ At("query")
    /\ owned' = (owned \/ up)
    /\ IF owned' THEN phase' = "sniff" /\ UNCHANGED pos
                 ELSE NextEntry
    /\ UNCHANGED <<diskVars, scans, seen, list, looks, announced, busy, managerVars>>

\* mimeTypeForFile by content: an empty or a missing file is no image.
HasContent(p) == p \in Media /\ disk[p] # Gone /\ disk[p] > 0

Sniff ==
    /\ At("sniff")
    /\ IF HasContent(Here.path) THEN phase' = "call" /\ UNCHANGED <<list, pos>>
                                ELSE RemoveHere
    /\ UNCHANGED <<diskVars, scans, seen, owned, looks, announced, busy, managerVars>>

Announce(p) == announced' = [announced EXCEPT ![p] = @ + 1]

\* Wrong form: the entry stays, and is announced again by the next sweep.
CallManager_Again ==
    /\ At("call")
    /\ Announce(Here.path)
    /\ up' = TRUE
    /\ requests' = Append(requests, Here.path)
    /\ NextEntry
    /\ UNCHANGED <<diskVars, scans, seen, list, owned, looks, busy, stops, inserted, lost>>

\* notifyFile: the call's result is not looked at; the bus may start the manager.
CallManager ==
    /\ At("call")
    /\ Announce(Here.path)
    /\ \/ /\ up' = TRUE
          /\ requests' = Append(requests, Here.path)
          /\ UNCHANGED lost
       \/ /\ ~up
          /\ lost' = lost \union {Here.path}
          /\ UNCHANGED <<up, requests>>
    /\ RemoveHere
    /\ UNCHANGED <<diskVars, scans, seen, owned, looks, busy, stops, inserted>>

EndSweep ==
    /\ pos > Len(list)
    /\ pos' = 0
    /\ UNCHANGED <<diskVars, scans, seen, list, phase, owned, looks, announced, busy,
                   managerVars>>

LoopList ==
    \/ BeginSweep \/ StatEntry \/ QueryService \/ Sniff \/ CallManager \/ EndSweep

-----------------------------------------------------------------------------
(* The manager *)

ManagerStart ==
    /\ ~up
    /\ up' = TRUE
    /\ UNCHANGED <<diskVars, scans, seen, loopVars, stops, requests, inserted, lost>>

\* quit: exit(0), whatever the backend thread has still to do.
ManagerStop ==
    /\ up /\ stops < MaxStops
    /\ up' = FALSE /\ stops' = stops + 1
    /\ lost' = lost \union {requests[i] : i \in 1..Len(requests)}
    /\ requests' = <<>>
    /\ UNCHANGED <<diskVars, scans, seen, loopVars, inserted>>

\* insertOneRecordToAndroidDB: a failure is logged.
InsertOneRecord ==
    /\ requests # <<>>
    /\ requests' = Tail(requests)
    /\ \/ inserted' = inserted \union {Head(requests)} /\ UNCHANGED lost
       \/ lost' = lost \union {Head(requests)} /\ UNCHANGED inserted
    /\ UNCHANGED <<diskVars, scans, seen, loopVars, up, stops>>

-----------------------------------------------------------------------------
FileSystem ==
    \E p \in Paths :
        \/ \E size \in {0, MaxSize} : Create(p, size)
        \/ Write(p) \/ Remove(p)

Next ==
    \/ FileSystem
    \/ HandleEvent \/ \E p \in Paths : ScanFile(p)
    \/ LoopList
    \/ ManagerStart \/ ManagerStop \/ InsertOneRecord

Spec == Init /\ [][Next]_vars

\* The two threads of the daemon run; mListLock is a mutex that a waiting thread
\* gets in the end, loopList sleeping 100 ms between sweeps.
FairSpec == Spec /\ WF_vars(LoopList) /\ SF_vars(HandleEvent)

-----------------------------------------------------------------------------
(* Properties *)

Listed(p) == \E i \in 1..Len(list) : list[i].path = p
Requested(p) == \E i \in 1..Len(requests) : requests[i] = p

\* Types; between two looks at an entry loopList stays on it.
TypeOK ==
    /\ disk \in [Paths -> 0..MaxSize \union {Gone}]
    /\ creates \in Nat /\ scans \in Nat
    /\ seen \in Seq(Paths)
    /\ list \in Seq(NotifyFileInfo)
    /\ pos \in Nat /\ phase \in {"stat", "query", "sniff", "call"}
    /\ phase # "stat" => pos \in 1..Len(list)
    /\ owned \in BOOLEAN
    /\ up \in BOOLEAN /\ stops \in 0..MaxStops
    /\ requests \in Seq(Paths)
    /\ inserted \subseteq Paths /\ lost \subseteq Paths
    /\ looks \in [Paths -> Nat] /\ announced \in [Paths -> Nat]
    /\ flawed \subseteq Paths /\ removed \subseteq Paths
    /\ grew \subseteq Paths /\ busy \in BOOLEAN

\* A picture that had content when its event was handled and was left in place
\* since is on the list, on its way through the manager or in Android's database,
\* unless a fault took it: no sweep, no change of size and no absence of the
\* manager makes the list forget it.
Kept ==
    \A p \in Media \ flawed :
        Listed(p) \/ Requested(p) \/ p \in inserted \union lost

\* A file that is still growing is not announced: an entry for which the manager is
\* called had not grown between two looks, however many entries name its path.
\* (A file put in its place with the size of the old one does pass.)
NotMidWrite == phase = "call" /\ busy => Here.path \in removed

\* A file is announced at most once for each time a scan or an event put it on the list,
\* though several entries may name it (a file created after its directory is watched and
\* before readdir reaches it has two) and it may change and vanish between two sweeps.
OncePerLook == \A p \in Paths : announced[p] <= looks[p]

\* If the manager stays in the end the list is worked off, whatever was removed,
\* emptied or written while it was visited.  Only files whose size does not fit an
\* int remain on it, for as long as they exist.
WorkedOff ==
    <>[]up => <>[](/\ seen = <<>>
                   /\ \A p \in Paths : Listed(p) => disk[p] # Gone /\ disk[p] > IntMax)
=============================================================================
