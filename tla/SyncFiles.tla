----------------------------- MODULE SyncFiles -----------------------------
(***************************************************************************)
(* The manager's mirror of Android's media files (ControlManager).  Android*)
(* answers a request with its whole list in batches (type 0) and reports    *)
(* single insertions (type 1) and deletions (type 2); all arrive as D-Bus   *)
(* signals, in order, and onSyncFiles handles each in the main thread.      *)
(*                                                                         *)
(* The five lists by mime class behave alike (a path is in one class), so  *)
(* one set stands for them; likewise the two trees of hard links below     *)
(* KmreData, by package and by type.  A slot is a link's name there:       *)
(* package, type and the last component of the path.                       *)
(***************************************************************************)
EXTENDS Integers, FiniteSets, Sequences

CONSTANTS
    Files, NoFile,  \* the media files Android may hold
    Slots, Slot,    \* link names; Slot[f] is the name of f's link
    BatchSize,      \* files in a batch of type 0 (five, says kmremanager.cpp)
    InitialCounts,  \* what m_currentNum may hold before anything is assigned
    MaxRounds, MaxEdits,    \* bounds: rounds of type 0, insertions and deletions
    MaxAtOnce       \* bound: rounds under way at a time

ASSUME SyncAssumption ==
    /\ NoFile \notin Files /\ IsFiniteSet(Files)
    /\ Slot \in [Files -> Slots]
    /\ BatchSize \in Nat \ {0}
    /\ InitialCounts \subseteq Int
    /\ MaxRounds \in Nat /\ MaxEdits \in Nat /\ MaxAtOnce \in Nat

Rounds == 1..MaxRounds

VARIABLES
    db,         \* the files Android holds
    left,       \* left[r]: files of round r not yet sent
    sending,    \* rounds under way
    begun,      \* rounds of which a batch was sent
    total,      \* the total announced with every batch of each round
    round,      \* rounds started so far
    edits,      \* insertions and deletions so far
    clean,      \* history: rounds the count can be right for
    crossed,    \* history: files whose change the latest round crossed
    signals,    \* signals on their way to the manager, oldest first
    metas,      \* m_imageMetas ... m_otherMetas
    currentNum, \* m_currentNum, which nothing initialises
    links,      \* links[s]: the file whose inode the link s holds, or NoFile
    received,   \* history: files of each round the manager has received
    told        \* history: filesMessage signals of type 0 emitted for each round

mediaVars == <<db, left, sending, begun, total, round, edits, clean, crossed>>
mirrorVars == <<metas, currentNum, links, received, told>>
syncVars == <<mediaVars, signals, mirrorVars>>

\* The signal's arguments; round and first (of the round's batches) are history.
Message == [type : 0..2, metas : SUBSET Files, total : Nat, round : Nat, first : BOOLEAN]
Message0(r, fs) ==
    [type |-> 0, metas |-> fs, total |-> total[r], round |-> r, first |-> r \notin begun]
Message12(t, f) == [type |-> t, metas |-> {f}, total |-> 0, round |-> 0, first |-> FALSE]

SyncInit ==
    /\ db \in SUBSET Files
    /\ left = [r \in Rounds |-> {}] /\ sending = {} /\ begun = {}
    /\ total = [r \in Rounds |-> 0]
    /\ round = 0 /\ edits = 0 /\ clean = {} /\ crossed = {}
    /\ signals = <<>>
    /\ metas = {}
    /\ currentNum \in InitialCounts
    /\ links = [s \in Slots |-> NoFile]
    /\ received = [r \in Rounds |-> {}]
    /\ told = [r \in Rounds |-> 0]

-----------------------------------------------------------------------------
(* Android, seen through the signals of cn.kylinos.Kmre.Window *)

\* No batch is under way or will be.
NoBatches == sending = {} /\ \A i \in 1..Len(signals) : signals[i].type # 0

\* requestAllFiles reaches Android, whatever else is under way: a round over the files of
\* the moment begins.  The count can be right for a round that begins when nothing is
\* under way and nothing counted, or that follows such a round and overlaps no other.
StartRound ==
    /\ round < MaxRounds /\ Cardinality(sending) < MaxAtOnce
    /\ round' = round + 1
    /\ left' = [left EXCEPT ![round'] = db]
    /\ sending' = sending \union {round'}
    /\ total' = [total EXCEPT ![round'] = Cardinality(db)]
    /\ clean' = IF (NoBatches /\ currentNum = 0) \/ (sending = {} /\ round \in clean)
                THEN clean \union {round'}
                ELSE clean \ sending
    /\ crossed' = {}
    /\ UNCHANGED <<db, begun, edits, signals, mirrorVars>>

\* A round without files is one batch without files.
SendBatch(r) ==
    /\ r \in sending
    /\ \E b \in SUBSET left[r] :
        /\ \/ Cardinality(b) = BatchSize
           \/ Cardinality(left[r]) < BatchSize /\ b = left[r]
        /\ signals' = Append(signals, Message0(r, b))
        /\ left' = [left EXCEPT ![r] = @ \ b]
        /\ sending' = IF left[r] = b THEN sending \ {r} ELSE sending
    /\ begun' = begun \union {r}
    /\ UNCHANGED <<db, total, round, edits, clean, crossed, mirrorVars>>

\* Android's media process ends, and the rest of the round is never sent.  (When the whole
\* container stops the manager ends too, and m_currentNum with it.)
AbortRound(r) ==
    /\ r \in sending
    /\ sending' = sending \ {r} /\ left' = [left EXCEPT ![r] = {}]
    /\ clean' = clean \ {r}
    /\ UNCHANGED <<db, begun, total, round, edits, crossed, signals, mirrorVars>>

\* A file that comes after the latest round's list was made, and is told before the
\* round's first batch clears the lists, is in neither.
MissedBy(f) == round \in sending \ begun /\ f \notin left[round]

Insert(f) ==
    /\ f \notin db /\ edits < MaxEdits
    /\ db' = db \union {f}
    /\ edits' = edits + 1
    /\ crossed' = IF MissedBy(f) THEN crossed \union {f} ELSE crossed \ {f}
    /\ signals' = Append(signals, Message12(1, f))
    /\ UNCHANGED <<left, sending, begun, total, round, clean, mirrorVars>>

\* A file that is deleted while a round has still to bring it comes back with its batch.
BroughtBack(f) == round \in sending /\ f \in left[round]

Delete(f) ==
    /\ f \in db /\ edits < MaxEdits
    /\ db' = db \ {f}
    /\ edits' = edits + 1
    /\ crossed' = IF BroughtBack(f) THEN crossed \union {f} ELSE crossed \ {f}
    /\ signals' = Append(signals, Message12(2, f))
    /\ UNCHANGED <<left, sending, begun, total, round, clean, mirrorVars>>

-----------------------------------------------------------------------------
(* onSyncFiles *)

Signal == Head(signals)
Take(type) == signals # <<>> /\ Signal.type = type /\ signals' = Tail(signals)

\* link(2): the name must be free and the file still there.
CanLink(s) == {f \in Signal.metas \intersect db : Slot[f] = s}
LinkFiles ==
    LET may == [s \in Slots |-> IF links[s] = NoFile /\ CanLink(s) # {}
                                THEN CanLink(s) ELSE {links[s]}]
    IN  links' \in {l \in [Slots -> UNION {may[s] : s \in Slots}] : \A s \in Slots : l[s] \in may[s]}

\* Wrong forms: cleared by every batch; counters kept at the end of a round; the
\* end of the round missed by one.
OnAllFiles_ClearAlways ==
    LET n == Cardinality(Signal.metas)
        sum == currentNum + n
        atEnd == n > 0 /\ sum >= Signal.total
    IN  /\ Take(0)
        /\ metas' = Signal.metas
        /\ currentNum' = IF atEnd THEN 0 ELSE sum
        /\ told' = [told EXCEPT ![Signal.round] = @ + (IF atEnd THEN n ELSE 0)]
        /\ received' = [received EXCEPT ![Signal.round] = @ \union Signal.metas]
        /\ LinkFiles
        /\ UNCHANGED mediaVars

OnAllFiles_NoReset ==
    LET n == Cardinality(Signal.metas)
        sum == currentNum + n
        atEnd == n > 0 /\ sum >= Signal.total
    IN  /\ Take(0)
        /\ metas' = (IF currentNum = 0 THEN {} ELSE metas) \union Signal.metas
        /\ currentNum' = sum
        /\ told' = [told EXCEPT ![Signal.round] = @ + (IF atEnd THEN n ELSE 0)]
        /\ received' = [received EXCEPT ![Signal.round] = @ \union Signal.metas]
        /\ LinkFiles
        /\ UNCHANGED mediaVars

OnAllFiles_Strict ==
    LET n == Cardinality(Signal.metas)
        sum == currentNum + n
        atEnd == n > 0 /\ sum > Signal.total
    IN  /\ Take(0)
        /\ metas' = (IF currentNum = 0 THEN {} ELSE metas) \union Signal.metas
        /\ currentNum' = IF atEnd THEN 0 ELSE sum
        /\ told' = [told EXCEPT ![Signal.round] = @ + (IF atEnd THEN n ELSE 0)]
        /\ received' = [received EXCEPT ![Signal.round] = @ \union Signal.metas]
        /\ LinkFiles
        /\ UNCHANGED mediaVars

\* Type 0.  The lists are cleared when m_currentNum is zero; the test for the end
\* of the round is made for each file of the batch, and resets both counters: after it
\* every further file of the batch is told too.
OnAllFiles ==
    LET n == Cardinality(Signal.metas)
        sum == currentNum + n
        atEnd == n > 0 /\ sum >= Signal.total
    IN  /\ Take(0)
        /\ metas' = (IF currentNum = 0 THEN {} ELSE metas) \union Signal.metas
        /\ currentNum' = IF atEnd THEN 0 ELSE sum
        /\ told' = [told EXCEPT ![Signal.round] = @ + (IF atEnd THEN n ELSE 0)]
        /\ received' = [received EXCEPT ![Signal.round] = @ \union Signal.metas]
        /\ LinkFiles
        /\ UNCHANGED mediaVars

\* Type 1.
OnInsert ==
    /\ Take(1)
    /\ metas' = metas \union Signal.metas
    /\ LinkFiles
    /\ UNCHANGED <<mediaVars, currentNum, received, told>>

\* Wrong form: the link outlives the file.
OnDelete_KeepLink ==
    /\ Take(2)
    /\ metas' = metas \ Signal.metas
    /\ UNCHANGED <<mediaVars, currentNum, links, received, told>>

\* Type 2: the list forgets the file, and the name of its link is removed,
\* whichever file the link holds.
OnDelete ==
    /\ Take(2)
    /\ metas' = metas \ Signal.metas
    /\ links' = [s \in Slots |-> IF \E f \in Signal.metas : Slot[f] = s THEN NoFile ELSE links[s]]
    /\ UNCHANGED <<mediaVars, currentNum, received, told>>

OnSyncFiles == OnAllFiles \/ OnInsert \/ OnDelete

SyncNext ==
    \/ StartRound \/ \E r \in Rounds : SendBatch(r) \/ AbortRound(r)
    \/ \E f \in Files : Insert(f) \/ Delete(f)
    \/ OnSyncFiles

SyncSpec == SyncInit /\ [][SyncNext]_syncVars

\* The manager's event loop runs, and Android sends what it has begun to send.
FairSyncSpec ==
    SyncSpec /\ (\A r \in Rounds : WF_syncVars(SendBatch(r))) /\ WF_syncVars(OnSyncFiles)

-----------------------------------------------------------------------------
(* Properties *)

\* Every variable keeps its type.
SyncTypeOK ==
    /\ db \subseteq Files /\ left \in [Rounds -> SUBSET Files]
    /\ sending \subseteq Rounds /\ begun \subseteq Rounds /\ clean \subseteq Rounds
    /\ total \in [Rounds -> Nat] /\ round \in 0..MaxRounds /\ edits \in 0..MaxEdits
    /\ crossed \subseteq Files
    /\ signals \in Seq(Message)
    /\ metas \subseteq Files /\ currentNum \in Int
    /\ links \in [Slots -> Files \union {NoFile}]
    /\ received \in [Rounds -> SUBSET Files] /\ told \in [Rounds -> Nat]

Handled == sending = {} /\ signals = <<>>

\* Once a whole round and all later changes are handled, the lists hold exactly Android's
\* files, but for files changed while the round crossed their change: no batch forgets
\* what an earlier one of the round brought, or an insertion after it.
ListsMatchAndroid ==
    Handled /\ round \in clean => \A f \in Files \ crossed : f \in metas <=> f \in db

\* The end of a round is told only when every file of the round has arrived.
\* (controlmanager.cpp, line 452: the round is complete when the number of entries
\* received is the number expected.)
ToldWhenComplete == \A r \in Rounds : told[r] > 0 => Cardinality(received[r]) = total[r]

\* The same for every round the count can be right for: whatever m_currentNum was at the
\* start and whatever rounds were broken off or overlapped before, a round that begins with
\* nothing counted, and those that follow it unbroken, are never told early.
NotEarly == \A r \in clean : told[r] > 0 => Cardinality(received[r]) = total[r]

\* When all signals are handled, a listed file that Android has has its link, unless another
\* file has the same package, type and file name, and no link keeps a file alive that
\* Android deleted: deletions and insertions of one path never cross, nor do the batches.
LinksMatch ==
    signals = <<>> =>
        /\ \A f \in metas \intersect db :
              links[Slot[f]] = f \/ \E g \in Files \ {f} : Slot[g] = Slot[f]
        /\ \A s \in Slots : links[s] \in db \union {NoFile}

\* A round with files that the count can be right for is told in the end, unless it is
\* broken off or overlapped.
RoundTold ==
    \A r \in Rounds : (r \in clean /\ total[r] > 0) ~> (told[r] > 0 \/ r \notin clean)
=============================================================================
