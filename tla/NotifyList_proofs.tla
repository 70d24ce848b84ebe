-------------------------- MODULE NotifyList_proofs --------------------------
(***************************************************************************)
(* Theorems about NotifyList, for any files, sizes and faults: the types,  *)
(* that no picture is forgotten, and that no file is announced while it    *)
(* grows, or more often than scans and events put it on the list.          *)
(***************************************************************************)
EXTENDS NotifyList, FiniteSetTheorems, TLAPS

USE DEF diskVars, loopVars, managerVars, vars

-----------------------------------------------------------------------------
(* Sequences and sizes *)

\* A queue keeps its members, whatever they are.
LEMMA Queued ==
    ASSUME NEW T, NEW q \in Seq(T)
    PROVE  /\ q # <<>> => Head(q) \in T /\ Tail(q) \in Seq(T)
           /\ \A e \in T : Append(q, e) \in Seq(T)
           /\ <<>> \in Seq(T)
OBVIOUS

\* Two sequences put together.
LEMMA Joined ==
    ASSUME NEW T, NEW a \in Seq(T), NEW b \in Seq(T)
    PROVE  /\ a \o b \in Seq(T) /\ Len(a \o b) = Len(a) + Len(b)
           /\ \A k \in 1..Len(a) : (a \o b)[k] = a[k]
           /\ \A k \in 1..Len(b) : (a \o b)[Len(a) + k] = b[k]
OBVIOUS

\* A list without one of its entries.
LEMMA Without ==
    ASSUME NEW T, NEW s \in Seq(T), NEW i \in 1..Len(s)
    PROVE  LET r == SubSeq(s, 1, i - 1) \o SubSeq(s, i + 1, Len(s))
           IN  /\ r \in Seq(T) /\ Len(r) = Len(s) - 1
               /\ \A k \in 1..Len(r) : r[k] = IF k < i THEN s[k] ELSE s[k + 1]
<1> DEFINE a == SubSeq(s, 1, i - 1)
           b == SubSeq(s, i + 1, Len(s))
<1>1. /\ a \in Seq(T) /\ Len(a) = i - 1
      /\ \A k \in 1..(i - 1) : a[k] = s[k]
    OBVIOUS
<1>2. /\ b \in Seq(T) /\ Len(b) = Len(s) - i
      /\ \A k \in 1..(Len(s) - i) : b[k] = s[i + k]
    OBVIOUS
<1> HIDE DEF a, b
<1>3. a \o b \in Seq(T) /\ Len(a \o b) = Len(s) - 1
  <2>1. a \o b \in Seq(T) /\ Len(a \o b) = Len(a) + Len(b)
      BY <1>1, <1>2, Joined
  <2>2. Len(s) \in Nat /\ i \in Int
      OBVIOUS
  <2>3. QED
      BY <1>1, <1>2, <2>1, <2>2
<1>4. ASSUME NEW k \in 1..Len(a \o b)
      PROVE  (a \o b)[k] = IF k < i THEN s[k] ELSE s[k + 1]
  <2>1. CASE k < i
    <3>1. k \in 1..Len(a)
        BY <1>1, <2>1
    <3>2. QED
        BY <1>1, <1>2, <2>1, <3>1, Joined
  <2>2. CASE ~(k < i)
    <3>1. k - (i - 1) \in 1..(Len(s) - i) /\ i + (k - (i - 1)) = k + 1
        BY <1>3, <2>2
    <3>2. (a \o b)[k] = b[k - (i - 1)]
      <4>1. k = Len(a) + (k - (i - 1)) /\ k - (i - 1) \in 1..Len(b)
          BY <1>1, <1>2, <3>1
      <4>2. QED
          BY <1>1, <1>2, <4>1, Joined
    <3>3. QED
        BY <1>2, <2>2, <3>1, <3>2
  <2>3. QED
      BY <2>1, <2>2
<1>5. QED
    BY <1>3, <1>4 DEF a, b

\* An int is never more than the off_t assigned to it.
LEMMA AsIntLess == \A n \in Nat : AsInt(n) \in Int /\ AsInt(n) <= n
<1> SUFFICES ASSUME NEW n \in Nat
             PROVE  AsInt(n) \in Int /\ AsInt(n) <= n
    OBVIOUS
<1> DEFINE m == n + IntMax + 1
           w == 2 * (IntMax + 1)
<1>1. m \in Nat /\ w \in Nat \ {0}
    BY ListAssumption
<1> HIDE DEF m, w
<1>2. m % w \in Nat /\ m % w <= m
    BY <1>1
<1>3. AsInt(n) = (m % w) - (IntMax + 1)
    BY DEF AsInt, m, w
<1>4. QED
    BY <1>2, <1>3, ListAssumption DEF m

-----------------------------------------------------------------------------
(* Types *)

Phases == {"stat", "query", "sniff", "call"}

\* The entry loopList is at is removed, the others keep their order.
LEMMA Removed ==
    ASSUME TypeOK, pos \in 1..Len(list), RemoveHere
    PROVE  /\ list' \in Seq(NotifyFileInfo) /\ Len(list') = Len(list) - 1
           /\ \A k \in 1..Len(list') : list'[k] = IF k < pos THEN list[k] ELSE list[k + 1]
           /\ phase' = "stat" /\ pos' = pos
BY Without DEF RemoveHere, TypeOK

\* What an entry of the list is.
LEMMA Entries ==
    ASSUME TypeOK, NEW k \in 1..Len(list)
    PROVE  list[k] \in NotifyFileInfo /\ list[k].path \in Paths /\ list[k].size \in Int
<1>1. list \in Seq(NotifyFileInfo)
    BY DEF TypeOK
<1>2. list[k] \in NotifyFileInfo
    BY <1>1
<1>3. QED
    BY <1>2 DEF NotifyFileInfo

\* What stat finds changes the list in one of three ways.
LEMMA StatEntryType ==
    ASSUME TypeOK, StatEntry
    PROVE  /\ list' \in Seq(NotifyFileInfo) /\ pos' \in Nat /\ phase' \in Phases
           /\ phase' # "stat" => pos' \in 1..Len(list')
<1>1. pos \in 1..Len(list) /\ list[pos] \in NotifyFileInfo /\ list[pos].path \in Paths
    BY Entries DEF StatEntry, At
<1>2. CASE RemoveHere
    BY <1>1, <1>2, Removed DEF TypeOK, Phases
<1>3. CASE /\ disk[Here.path] # Gone
           /\ list' = [list EXCEPT ![pos].size = AsInt(disk[Here.path])]
           /\ NextEntry
  <2>1. disk[Here.path] \in Nat
      BY <1>1, <1>3 DEF TypeOK, Here, ListAssumption
  <2>2. [list[pos] EXCEPT !.size = AsInt(disk[Here.path])] \in NotifyFileInfo
      BY <1>1, <2>1, AsIntLess DEF NotifyFileInfo
  <2>3. list' \in Seq(NotifyFileInfo)
      BY <1>1, <1>3, <2>2 DEF TypeOK
  <2>4. QED
      BY <1>3, <2>3 DEF TypeOK, NextEntry, Phases
<1>4. CASE phase' = "query" /\ UNCHANGED <<list, pos>>
    BY <1>1, <1>4 DEF TypeOK, Phases
<1>5. QED
    BY <1>2, <1>3, <1>4 DEF StatEntry

\* The types hold before the first event.
LEMMA InitType == Init => TypeOK
<1> SUFFICES ASSUME Init
             PROVE  TypeOK
    OBVIOUS
<1>1. owned \in BOOLEAN /\ busy \in BOOLEAN
    BY Zenon DEF Init
<1>2. seen \in Seq(Paths) /\ list \in Seq(NotifyFileInfo) /\ requests \in Seq(Paths)
  <2>1. seen = <<>> /\ list = <<>> /\ requests = <<>>
      BY DEF Init
  <2>2. QED
      BY <2>1
<1>3. QED
    BY <1>1, <1>2, ListAssumption DEF Init, TypeOK

\* Steps of the file system keep the types.
LEMMA FileType ==
    ASSUME TypeOK, NEW p \in Paths,
           (\E size \in {0, MaxSize} : Create(p, size)) \/ Write(p) \/ Remove(p)
    PROVE  TypeOK'
<1>a. owned' \in BOOLEAN /\ up' \in BOOLEAN /\ busy' \in BOOLEAN
    BY Zenon DEF TypeOK, Create, Write, Remove
<1>1. ASSUME NEW size \in {0, MaxSize}, Create(p, size)
      PROVE  TypeOK'
  <2>1. seen' \in Seq(Paths)
    <3>1. seen \in Seq(Paths) /\ Append(seen, p) \in Seq(Paths)
        BY Queued DEF TypeOK
    <3>2. QED
        BY <1>1, <3>1 DEF Create
  <2>2. QED
      BY <1>1, <1>a, <2>1, ListAssumption DEF Create, TypeOK
<1>2. CASE Write(p)
  <2>1. disk' \in [Paths -> 0..MaxSize \union {Gone}]
      BY <1>2, ListAssumption DEF Write, TypeOK
  <2>2. QED
      BY <1>2, <1>a, <2>1 DEF Write, TypeOK
<1>3. CASE Remove(p)
    BY <1>3, <1>a DEF Remove, TypeOK
<1>4. QED
    BY <1>1, <1>2, <1>3

\* An entry that is added is the last one, with no size yet.
LEMMA Added ==
    ASSUME TypeOK, NEW p \in Paths, AddNotifyFile(p)
    PROVE  /\ list' \in Seq(NotifyFileInfo) /\ Len(list) \in Nat /\ Len(list') = Len(list) + 1
           /\ list'[Len(list) + 1].path = p /\ list'[Len(list) + 1].size = -1
           /\ \A k \in 1..Len(list) : list'[k] = list[k]
           /\ phase = "stat"
<1> DEFINE new == [path |-> p, size |-> -1]
<1>1. new \in NotifyFileInfo /\ new.path = p /\ new.size = -1
    BY DEF NotifyFileInfo
<1>2. list \in Seq(NotifyFileInfo) /\ list' = Append(list, new)
    BY DEF TypeOK, AddNotifyFile
<1>3. phase = "stat"
    BY DEF TypeOK, AddNotifyFile
<1> HIDE DEF new
<1>4. QED
    BY <1>1, <1>2, <1>3

\* Whoever adds it, a scan or the handler of an event, a path is noted, or nothing is.
LEMMA Noted ==
    ASSUME TypeOK, HandleEvent \/ \E p \in Paths : ScanFile(p)
    PROVE  /\ seen' \in Seq(Paths) /\ scans' \in Nat
           /\ \/ \E p \in Paths : disk[p] # Gone /\ AddNotifyFile(p)
              \/ UNCHANGED <<diskVars, loopVars, managerVars>>
<1>1. CASE HandleEvent
  <2>1. Head(seen) \in Paths /\ Tail(seen) \in Seq(Paths)
      BY <1>1, Queued DEF HandleEvent, TypeOK
  <2>2. QED
      BY <1>1, <2>1 DEF HandleEvent, TypeOK
<1>2. CASE \E p \in Paths : ScanFile(p)
    BY <1>2 DEF ScanFile, TypeOK
<1>3. QED
    BY <1>1, <1>2

\* What is noted keeps the types.
LEMMA NotedType ==
    ASSUME TypeOK, HandleEvent \/ \E p \in Paths : ScanFile(p)
    PROVE  TypeOK'
<1>1. seen' \in Seq(Paths) /\ scans' \in Nat
    BY Noted
<1>2. CASE UNCHANGED <<diskVars, loopVars, managerVars>>
  <2>1. owned' \in BOOLEAN /\ up' \in BOOLEAN /\ busy' \in BOOLEAN
      BY <1>2, Zenon DEF TypeOK
  <2>2. QED
      BY <1>1, <1>2, <2>1 DEF TypeOK
<1>3. ASSUME NEW p \in Paths, AddNotifyFile(p)
      PROVE  TypeOK'
  <2>1. owned' \in BOOLEAN /\ up' \in BOOLEAN /\ busy' \in BOOLEAN
      BY <1>3, Zenon DEF TypeOK, AddNotifyFile
  <2>2. list' \in Seq(NotifyFileInfo) /\ phase = "stat"
      BY <1>3, Added
  <2>3. flawed' \subseteq Paths /\ looks' \in [Paths -> Nat]
      BY <1>3 DEF AddNotifyFile, TypeOK
  <2>4. QED
      BY <1>1, <1>3, <2>1, <2>2, <2>3 DEF AddNotifyFile, TypeOK
<1>4. QED
    BY <1>2, <1>3, Noted

\* Every step keeps the types.
LEMMA NextType == TypeOK /\ [Next]_vars => TypeOK'
<1> SUFFICES ASSUME TypeOK, [Next]_vars
             PROVE  TypeOK'
    OBVIOUS
<1>a. /\ UNCHANGED owned => owned' \in BOOLEAN
      /\ UNCHANGED up => up' \in BOOLEAN
      /\ UNCHANGED busy => busy' \in BOOLEAN
    BY Zenon DEF TypeOK
<1>1. CASE FileSystem
    BY <1>1, FileType DEF FileSystem
<1>2. CASE HandleEvent \/ \E p \in Paths : ScanFile(p)
    BY <1>2, NotedType
<1>3. CASE BeginSweep
    BY <1>3, <1>a DEF BeginSweep, TypeOK
<1>4. CASE StatEntry
  <2>1. /\ list' \in Seq(NotifyFileInfo) /\ pos' \in Nat /\ phase' \in Phases
        /\ phase' # "stat" => pos' \in 1..Len(list')
      BY <1>4, StatEntryType
  <2>2. busy' \in BOOLEAN
      BY <1>4, SMT DEF StatEntry
  <2>3. QED
      BY <1>4, <1>a, <2>1, <2>2 DEF StatEntry, TypeOK, Phases
<1>5. CASE QueryService
  <2>1. owned' \in BOOLEAN
      BY <1>5, Zenon DEF QueryService
  <2>2. QED
      BY <1>5, <1>a, <2>1 DEF QueryService, At, NextEntry, TypeOK
<1>6. CASE Sniff
    BY <1>6, <1>a, Removed DEF Sniff, At, TypeOK
<1>7. CASE CallManager
  <2>1. Here.path \in Paths
      BY <1>7, Entries DEF CallManager, At, Here
  <2>2. up' \in BOOLEAN
      BY <1>7, <1>a, Zenon DEF CallManager
  <2>3. requests' \in Seq(Paths)
    <3>1. requests' = requests \/ requests' = Append(requests, Here.path)
        BY <1>7 DEF CallManager
    <3>2. requests \in Seq(Paths)
        BY DEF TypeOK
    <3>3. Append(requests, Here.path) \in Seq(Paths)
        BY <2>1, <3>2, Queued
    <3>4. QED
        BY <3>1, <3>2, <3>3
  <2>4. announced' \in [Paths -> Nat]
      BY <1>7, <2>1 DEF CallManager, Announce, TypeOK
  <2>5. QED
      BY <1>7, <1>a, <2>1, <2>2, <2>3, <2>4, Removed DEF CallManager, At, TypeOK
<1>8. CASE EndSweep
    BY <1>8, <1>a DEF EndSweep, TypeOK
<1>9. CASE ManagerStart
  <2>1. up' \in BOOLEAN
      BY <1>9, Zenon DEF ManagerStart
  <2>2. QED
      BY <1>9, <1>a, <2>1 DEF ManagerStart, TypeOK
<1>10. CASE ManagerStop
  <2>1. up' \in BOOLEAN
      BY <1>10, Zenon DEF ManagerStop
  <2>2. requests' \in Seq(Paths) /\ {requests[i] : i \in 1..Len(requests)} \subseteq Paths
      BY <1>10, Queued DEF ManagerStop, TypeOK
  <2>3. QED
      BY <1>10, <1>a, <2>1, <2>2, ListAssumption DEF ManagerStop, TypeOK
<1>11. CASE InsertOneRecord
  <2>1. Head(requests) \in Paths /\ Tail(requests) \in Seq(Paths)
      BY <1>11, Queued DEF InsertOneRecord, TypeOK
  <2>2. QED
      BY <1>11, <1>a, <2>1 DEF InsertOneRecord, TypeOK
<1>12. CASE UNCHANGED vars
    BY <1>12, <1>a DEF TypeOK
<1>13. QED
    BY <1>1, <1>2, <1>3, <1>4, <1>5, <1>6, <1>7, <1>8, <1>9, <1>10, <1>11, <1>12
    DEF Next, LoopList

\* The daemon and the manager keep the types of what they share: between two looks at
\* an entry loopList stays on an entry the list has.
THEOREM TypeCorrect == Spec => []TypeOK
BY InitType, NextType, PTL DEF Spec

-----------------------------------------------------------------------------
(* No picture is forgotten *)

\* A path without content is flawed.
Sound == \A p \in Paths : disk[p] = Gone \/ disk[p] = 0 => p \in flawed

KeptInv == Sound /\ Kept

\* An entry that is removed is the only one of its path that may be the last.
LEMMA OthersListed ==
    ASSUME TypeOK, pos \in 1..Len(list), RemoveHere, NEW p, p # Here.path, Listed(p)
    PROVE  Listed(p)'
<1>1. PICK k \in 1..Len(list) : list[k].path = p
    BY DEF Listed
<1>2. k # pos
    BY <1>1 DEF Here
<1>3. /\ Len(list') = Len(list) - 1 /\ Len(list) \in Nat
      /\ \A j \in 1..Len(list') : list'[j] = IF j < pos THEN list[j] ELSE list[j + 1]
    BY Removed DEF TypeOK
<1>4. CASE k < pos
  <2>1. k \in 1..Len(list') /\ list'[k] = list[k]
      BY <1>3, <1>4
  <2>2. QED
      BY <1>1, <2>1 DEF Listed
<1>5. CASE k > pos
  <2>1. k - 1 \in 1..Len(list') /\ list'[k - 1] = list[k]
      BY <1>3, <1>5
  <2>2. QED
      BY <1>1, <2>1 DEF Listed
<1>6. QED
    BY <1>2, <1>4, <1>5

\* A change of an entry's size leaves its path on the list.
LEMMA SizedListed ==
    ASSUME TypeOK, pos \in 1..Len(list), NEW n, list' = [list EXCEPT ![pos].size = n],
           NEW p, Listed(p)
    PROVE  Listed(p)'
<1>1. PICK k \in 1..Len(list) : list[k].path = p
    BY DEF Listed
<1>2. list \in Seq(NotifyFileInfo) /\ list[pos] \in NotifyFileInfo
    BY Entries DEF TypeOK
<1>3. Len(list') = Len(list) /\ list'[k].path = list[k].path
    BY <1>2 DEF NotifyFileInfo
<1>4. QED
    BY <1>1, <1>3 DEF Listed

\* Every step of loopList keeps what has content.
LEMMA LoopKeeps ==
    ASSUME TypeOK, KeptInv, LoopList
    PROVE  KeptInv'
<1>1. UNCHANGED <<disk, flawed>> => Sound'
    BY DEF KeptInv, Sound
<1>2. CASE BeginSweep \/ EndSweep \/ QueryService
    BY <1>1, <1>2 DEF BeginSweep, EndSweep, QueryService, KeptInv, Kept, Listed, Requested
<1>3. CASE StatEntry
  <2>1. pos \in 1..Len(list) /\ UNCHANGED <<disk, flawed, requests, inserted, lost>>
      BY <1>3 DEF StatEntry, At
  <2>2. Here.path \in Paths
      BY <2>1, Entries DEF Here
  <2>3. ASSUME NEW p \in Media \ flawed, Listed(p)
        PROVE  Listed(p)'
    <3>1. CASE disk[Here.path] = Gone /\ RemoveHere
      <4>1. p # Here.path
          BY <2>2, <2>3, <3>1 DEF KeptInv, Sound
      <4>2. QED
          BY <2>1, <2>3, <3>1, <4>1, OthersListed
    <3>2. CASE list' = [list EXCEPT ![pos].size = AsInt(disk[Here.path])]
        BY <2>1, <2>3, <3>2, SizedListed
    <3>3. CASE UNCHANGED list
        BY <2>3, <3>3 DEF Listed
    <3>4. QED
        BY <1>3, <3>1, <3>2, <3>3 DEF StatEntry
  <2>4. QED
      BY <1>1, <2>1, <2>3 DEF KeptInv, Kept, Requested
<1>4. CASE Sniff
  <2>1. pos \in 1..Len(list) /\ UNCHANGED <<disk, flawed, requests, inserted, lost>>
      BY <1>4 DEF Sniff, At
  <2>2. Here.path \in Paths
      BY <2>1, Entries DEF Here
  <2>3. ASSUME NEW p \in Media \ flawed, Listed(p)
        PROVE  Listed(p)'
    <3>1. CASE HasContent(Here.path)
        BY <1>4, <2>3, <3>1 DEF Sniff, Listed
    <3>2. CASE ~HasContent(Here.path)
      <4>1. p # Here.path
        <5>1. SUFFICES ASSUME p = Here.path
                       PROVE  FALSE
            OBVIOUS
        <5>2. disk[p] # Gone /\ disk[p] # 0
            BY <2>2, <2>3, <5>1 DEF KeptInv, Sound
        <5>3. disk[p] > 0
            BY <2>2, <5>1, <5>2, ListAssumption DEF TypeOK
        <5>4. QED
            BY <2>3, <3>2, <5>1, <5>2, <5>3 DEF HasContent
      <4>2. RemoveHere
          BY <1>4, <3>2 DEF Sniff
      <4>3. QED
          BY <2>1, <2>3, <4>1, <4>2, OthersListed
    <3>3. QED
        BY <3>1, <3>2
  <2>4. QED
      BY <1>1, <2>1, <2>3 DEF KeptInv, Kept, Requested
<1>5. CASE CallManager
  <2>1. pos \in 1..Len(list) /\ RemoveHere /\ UNCHANGED <<disk, flawed, inserted>>
      BY <1>5 DEF CallManager, At
  <2>2. ASSUME NEW p, Listed(p), p # Here.path
        PROVE  Listed(p)'
      BY <2>1, <2>2, OthersListed
  <2>3. requests \in Seq(Paths)
      BY DEF TypeOK
  <2>4. \/ /\ requests' = Append(requests, Here.path) /\ lost' = lost
        \/ /\ requests' = requests /\ lost' = lost \union {Here.path}
      BY <1>5 DEF CallManager
  <2>5. ASSUME requests' = Append(requests, Here.path)
        PROVE  /\ \E k \in 1..Len(requests') : requests'[k] = Here.path
               /\ \A p : Requested(p) => Requested(p)'
    <3>1. /\ Len(requests') = Len(requests) + 1 /\ Len(requests) \in Nat
          /\ requests'[Len(requests) + 1] = Here.path
          /\ \A k \in 1..Len(requests) : requests'[k] = requests[k]
        BY <2>3, <2>5
    <3>2. \E k \in 1..Len(requests') : requests'[k] = Here.path
        BY <3>1
    <3>3. \A p : Requested(p) => Requested(p)'
        BY <3>1 DEF Requested
    <3>4. QED
        BY <3>2, <3>3
  <2>6. QED
      BY <1>1, <2>1, <2>2, <2>4, <2>5 DEF KeptInv, Kept, Requested
<1>6. QED
    BY <1>2, <1>3, <1>4, <1>5 DEF LoopList

\* A picture with content that was left in place is on the list, on its way through
\* the manager or in Android's database, or a fault took it: no interleaving of the
\* sweep with writers, removals and the manager's absence makes the list forget it.
THEOREM NothingForgotten == Spec => []Kept
<1>1. Init => KeptInv
    BY ListAssumption DEF Init, KeptInv, Sound, Kept
<1>2. TypeOK /\ KeptInv /\ [Next]_vars => KeptInv'
  <2> SUFFICES ASSUME TypeOK, KeptInv, [Next]_vars
               PROVE  KeptInv'
      OBVIOUS
  <2>1. ASSUME NEW p \in Paths,
               (\E size \in {0, MaxSize} : Create(p, size)) \/ Write(p) \/ Remove(p)
        PROVE  KeptInv'
    <3>1. Sound'
      <4>1. CASE Write(p)
        <5>1. disk[p] \in 0..MaxSize /\ disk'[p] = disk[p] + 1 /\ flawed' = flawed
            BY <4>1 DEF Write, TypeOK
        <5>2. disk'[p] # 0 /\ disk'[p] # Gone
            BY <5>1, ListAssumption
        <5>3. QED
            BY <4>1, <5>1, <5>2 DEF Write, TypeOK, KeptInv, Sound
      <4>2. CASE Remove(p)
          BY <4>2 DEF Remove, TypeOK, KeptInv, Sound
      <4>3. CASE \E size \in {0, MaxSize} : Create(p, size)
          BY <4>3 DEF Create, TypeOK, KeptInv, Sound
      <4>4. QED
          BY <2>1, <4>1, <4>2, <4>3
    <3>2. flawed \subseteq flawed' /\ UNCHANGED <<list, requests, inserted, lost>>
        BY <2>1 DEF Create, Write, Remove
    <3>3. QED
        BY <3>1, <3>2 DEF KeptInv, Kept, Listed, Requested
  <2>2. CASE HandleEvent \/ \E p \in Paths : ScanFile(p)
    <3>1. CASE UNCHANGED <<diskVars, loopVars, managerVars>>
        BY <3>1 DEF KeptInv, Sound, Kept, Listed, Requested
    <3>2. ASSUME NEW q \in Paths, disk[q] # Gone, AddNotifyFile(q)
          PROVE  KeptInv'
      <4>1. /\ UNCHANGED <<disk, requests, inserted, lost>>
            /\ flawed' = IF disk[q] = 0 THEN flawed \union {q} ELSE flawed \ {q}
          BY <3>2 DEF AddNotifyFile
      <4>2. /\ Len(list) \in Nat /\ Len(list') = Len(list) + 1
            /\ list'[Len(list) + 1].path = q
            /\ \A k \in 1..Len(list) : list'[k] = list[k]
          BY <3>2, Added
      <4>3. Listed(q)' /\ \A p : Listed(p) => Listed(p)'
          BY <4>2 DEF Listed
      <4>4. Sound'
          BY <3>2, <4>1 DEF KeptInv, Sound
      <4>5. ASSUME NEW p \in Media \ flawed'
            PROVE  (Listed(p) \/ Requested(p) \/ p \in inserted \union lost)'
        <5>1. CASE p \in flawed
            BY <4>1, <4>3, <4>5, <5>1
        <5>2. CASE p \notin flawed
            BY <4>1, <4>3, <4>5, <5>2 DEF KeptInv, Kept, Requested
        <5>3. QED
            BY <5>1, <5>2
      <4>6. QED
          BY <4>4, <4>5 DEF KeptInv, Kept
    <3>3. QED
        BY <2>2, <3>1, <3>2, Noted
  <2>3. CASE LoopList
      BY <2>3, LoopKeeps
  <2>4. CASE ManagerStart \/ ManagerStop
      BY <2>4 DEF ManagerStart, ManagerStop, KeptInv, Sound, Kept, Listed, Requested
  <2>5. CASE InsertOneRecord
    <3>1. requests \in Seq(Paths) /\ requests # <<>> /\ requests' = Tail(requests)
        BY <2>5 DEF InsertOneRecord, TypeOK
    <3>2. /\ Head(requests) = requests[1] /\ Len(requests') = Len(requests) - 1
          /\ \A k \in 1..Len(requests') : requests'[k] = requests[k + 1]
        BY <3>1
    <3>3. ASSUME NEW p, Requested(p), p # Head(requests)
          PROVE  Requested(p)'
      <4>1. PICK k \in 1..Len(requests) : requests[k] = p
          BY <3>3 DEF Requested
      <4>2. k # 1 /\ Len(requests) \in Nat
        <5>1. k # 1
            BY <3>2, <3>3, <4>1
        <5>2. Len(requests) \in Nat
            BY <3>1
        <5>3. QED
            BY <5>1, <5>2
      <4>3. k - 1 \in 1..Len(requests') /\ requests'[k - 1] = requests[k]
          BY <3>2, <4>2
      <4>4. QED
          BY <4>1, <4>3 DEF Requested
    <3>4. UNCHANGED <<disk, flawed, list>>
        BY <2>5 DEF InsertOneRecord
    <3>5. /\ Head(requests) \in (inserted \union lost)'
          /\ inserted \union lost \subseteq (inserted \union lost)'
        BY <2>5 DEF InsertOneRecord
    <3>6. QED
        BY <3>3, <3>4, <3>5 DEF KeptInv, Sound, Kept, Listed
  <2>6. CASE UNCHANGED vars
      BY <2>6 DEF KeptInv, Sound, Kept, Listed, Requested
  <2>7. QED
      BY <2>1, <2>2, <2>3, <2>4, <2>5, <2>6 DEF Next, FileSystem
<1>3. QED
    BY <1>1, <1>2, TypeCorrect, PTL DEF Spec, KeptInv

-----------------------------------------------------------------------------
(* No growing file is announced *)

\* What is recorded of a file that is still the first at its path is not more than its
\* size, and less if the file has grown since it was looked at last.
Looked(e) ==
    e.path \notin removed =>
        /\ disk[e.path] # Gone
        /\ e.size <= disk[e.path]
        /\ e.path \in grew => e.size < disk[e.path]

AllLooked == \A k \in 1..Len(list) : Looked(list[k])

\* The entry loopList has found unchanged had not grown.
Still == phase # "stat" /\ busy => Here.path \in removed

GrowthInv == AllLooked /\ Still

\* The file system's steps: sizes grow, and what is removed is known to be.
LEMMA FilesLooked ==
    ASSUME TypeOK, GrowthInv, NEW p \in Paths,
           (\E size \in {0, MaxSize} : Create(p, size)) \/ Write(p) \/ Remove(p)
    PROVE  GrowthInv'
<1>a. UNCHANGED <<list, pos, phase, busy>> /\ removed \subseteq removed'
    BY DEF Create, Write, Remove
<1>1. ASSUME NEW k \in 1..Len(list)
      PROVE  Looked(list[k])'
  <2>1. PICK e \in NotifyFileInfo : e = list[k]
      BY Entries
  <2>2. Looked(e) /\ e.path \in Paths /\ e.size \in Int
      BY <2>1 DEF GrowthInv, AllLooked, NotifyFileInfo
  <2>3. CASE Write(p)
    <3>1. /\ disk[p] \in 0..MaxSize /\ disk' = [disk EXCEPT ![p] = disk[p] + 1]
          /\ grew' = grew \union {p} /\ removed' = removed
        BY <2>3, ListAssumption DEF Write, TypeOK
    <3>2. CASE e.path = p
      <4>1. disk'[e.path] = disk[e.path] + 1 /\ disk[e.path] \in 0..MaxSize
          BY <3>1, <3>2 DEF TypeOK
      <4>2. disk'[e.path] # Gone
          BY <4>1, ListAssumption
      <4>3. QED
          BY <1>a, <2>1, <2>2, <3>1, <4>1, <4>2, ListAssumption DEF Looked
    <3>3. CASE e.path # p
      <4>1. disk'[e.path] = disk[e.path] /\ (e.path \in grew' => e.path \in grew)
          BY <2>2, <3>1, <3>3 DEF TypeOK
      <4>2. QED
          BY <1>a, <2>1, <2>2, <3>1, <4>1 DEF Looked
    <3>4. QED
        BY <3>2, <3>3
  <2>4. CASE Remove(p)
    <3>1. /\ disk' = [disk EXCEPT ![p] = Gone]
          /\ grew' = grew \ {p} /\ removed' = removed \union {p}
        BY <2>4 DEF Remove
    <3>2. e.path # p => disk'[e.path] = disk[e.path]
        BY <2>2, <3>1 DEF TypeOK
    <3>3. QED
        BY <1>a, <2>1, <2>2, <3>1, <3>2 DEF Looked
  <2>5. ASSUME NEW size \in {0, MaxSize}, Create(p, size)
        PROVE  Looked(list[k])'
    <3>1. /\ disk[p] = Gone /\ disk' = [disk EXCEPT ![p] = size]
          /\ grew' = grew /\ removed' = removed
        BY <2>5 DEF Create
    <3>2. e.path # p => disk'[e.path] = disk[e.path]
        BY <2>2, <3>1 DEF TypeOK
    <3>3. QED
        BY <1>a, <2>1, <2>2, <3>1, <3>2 DEF Looked
  <2>6. QED
      BY <2>3, <2>4, <2>5
<1>2. AllLooked'
    BY <1>a, <1>1 DEF AllLooked
<1>3. Still'
    BY <1>a DEF GrowthInv, Still, Here
<1>4. QED
    BY <1>2, <1>3 DEF GrowthInv

\* Without one of its entries the list is as looked at as before.
LEMMA RemovedLooked ==
    ASSUME TypeOK, AllLooked, pos \in 1..Len(list), RemoveHere, UNCHANGED <<disk, removed>>,
           grew' \subseteq grew
    PROVE  AllLooked' /\ phase' = "stat"
<1>1. /\ Len(list') = Len(list) - 1 /\ Len(list) \in Nat /\ phase' = "stat"
      /\ \A k \in 1..Len(list') : list'[k] = IF k < pos THEN list[k] ELSE list[k + 1]
    BY Removed DEF TypeOK
<1>2. ASSUME NEW k \in 1..Len(list')
      PROVE  Looked(list[k])'
  <2>1. PICK j \in 1..Len(list) : list'[k] = list[j]
    <3>1. CASE k < pos
        BY <1>1, <3>1
    <3>2. CASE ~(k < pos)
      <4>1. k + 1 \in 1..Len(list) /\ list'[k] = list[k + 1]
          BY <1>1, <3>2
      <4>2. QED
          BY <4>1
    <3>3. QED
        BY <3>1, <3>2
  <2>2. Looked(list[j])
      BY DEF AllLooked
  <2>3. QED
      BY <2>1, <2>2 DEF Looked
<1>3. QED
    BY <1>1, <1>2 DEF AllLooked

\* What stat finds: a size that stood still is one that did not grow.
LEMMA StatLooked ==
    ASSUME TypeOK, GrowthInv, StatEntry
    PROVE  GrowthInv'
<1>1. /\ pos \in 1..Len(list) /\ UNCHANGED <<disk, removed>>
      /\ grew' = grew \ {Here.path} /\ (busy' <=> Here.path \in grew)
  <2>1. busy' = (Here.path \in grew)
      BY Zenon DEF StatEntry
  <2>2. pos \in 1..Len(list) /\ UNCHANGED <<disk, removed>> /\ grew' = grew \ {Here.path}
      BY DEF StatEntry, At
  <2>3. busy' <=> Here.path \in grew
      BY <2>1, Zenon
  <2>4. QED
      BY <2>2, <2>3
<1>2. AllLooked
    BY DEF GrowthInv
<1>3. CASE RemoveHere
    BY <1>1, <1>2, <1>3, RemovedLooked DEF GrowthInv, Still
<1>4. CASE /\ disk[Here.path] # Gone
           /\ list' = [list EXCEPT ![pos].size = AsInt(disk[Here.path])]
           /\ NextEntry
  <2>1. list \in Seq(NotifyFileInfo) /\ list[pos] \in NotifyFileInfo /\ Here.path \in Paths
      BY <1>1, Entries DEF TypeOK, Here
  <2>2. /\ Len(list') = Len(list)
        /\ list'[pos].path = Here.path /\ list'[pos].size = AsInt(disk[Here.path])
        /\ \A k \in 1..Len(list) : k # pos => list'[k] = list[k]
      BY <1>1, <1>4, <2>1 DEF NotifyFileInfo, Here
  <2>3. disk[Here.path] \in Nat
      BY <1>4, <2>1, ListAssumption DEF TypeOK
  <2>4. AsInt(disk[Here.path]) \in Int /\ AsInt(disk[Here.path]) <= disk[Here.path]
      BY <2>3, AsIntLess
  <2>5. ASSUME NEW k \in 1..Len(list')
        PROVE  Looked(list[k])'
    <3>1. CASE k = pos
      <4>1. /\ list'[k].path = Here.path /\ list'[k].size = AsInt(disk[Here.path])
            /\ disk'[Here.path] = disk[Here.path] /\ Here.path \notin grew'
          BY <1>1, <2>2, <3>1
      <4>2. QED
          BY <1>4, <2>4, <4>1 DEF Looked
    <3>2. CASE k # pos
      <4>1. list'[k] = list[k] /\ Looked(list[k])
          BY <1>2, <2>2, <2>5, <3>2 DEF AllLooked
      <4>2. QED
          BY <1>1, <4>1 DEF Looked
    <3>3. QED
        BY <3>1, <3>2
  <2>6. QED
      BY <1>4, <2>5 DEF GrowthInv, AllLooked, Still, NextEntry
<1>5. CASE disk[Here.path] = Here.size /\ UNCHANGED <<list, pos>>
  <2>1. Looked(Here) /\ Here.size \in Int
      BY <1>1, <1>2, Entries DEF AllLooked, Here
  <2>2. busy' => Here.path \in removed
      BY <1>1, <1>5, <2>1 DEF Looked
  <2>3. AllLooked'
      BY <1>1, <1>2, <1>5 DEF AllLooked, Looked
  <2>4. QED
      BY <1>1, <1>5, <2>2, <2>3 DEF GrowthInv, Still, Here
<1>6. QED
    BY <1>3, <1>4, <1>5 DEF StatEntry

\* Whichever of several entries names a file that is still being written, the manager
\* is not called for it: it has to be found unchanged since it was looked at last.
THEOREM NoneAnnouncedEarly == Spec => []NotMidWrite
<1>1. Init => GrowthInv
    BY DEF Init, GrowthInv, AllLooked, Still
<1>2. TypeOK /\ GrowthInv /\ [Next]_vars => GrowthInv'
  <2> SUFFICES ASSUME TypeOK, GrowthInv, [Next]_vars
               PROVE  GrowthInv'
      OBVIOUS
  <2>a. ASSUME UNCHANGED <<disk, removed, grew, list>>
        PROVE  AllLooked'
      BY <2>a DEF GrowthInv, AllLooked, Looked
  <2>1. CASE FileSystem
      BY <2>1, FilesLooked DEF FileSystem
  <2>2. CASE HandleEvent \/ \E p \in Paths : ScanFile(p)
    <3>1. CASE UNCHANGED <<diskVars, loopVars, managerVars>>
        BY <2>a, <3>1 DEF GrowthInv, Still, Here
    <3>2. ASSUME NEW q \in Paths, disk[q] # Gone, AddNotifyFile(q)
          PROVE  GrowthInv'
      <4>1. UNCHANGED <<disk, removed, grew, phase, busy>>
          BY <3>2 DEF AddNotifyFile
      <4>2. /\ Len(list) \in Nat /\ Len(list') = Len(list) + 1 /\ phase = "stat"
            /\ list'[Len(list) + 1].path = q /\ list'[Len(list) + 1].size = -1
            /\ \A k \in 1..Len(list) : list'[k] = list[k]
          BY <3>2, Added
      <4>3. ASSUME NEW k \in 1..Len(list')
            PROVE  Looked(list[k])'
        <5>1. CASE k = Len(list) + 1
          <6>1. list'[k].path = q /\ list'[k].size = -1
              BY <4>2, <5>1
          <6>2. disk[q] \in Nat
              BY <3>2, ListAssumption DEF TypeOK
          <6>3. QED
              BY <3>2, <4>1, <6>1, <6>2 DEF Looked
        <5>2. CASE k # Len(list) + 1
          <6>1. k \in 1..Len(list) /\ list'[k] = list[k]
              BY <4>2, <5>2
          <6>2. QED
              BY <4>1, <6>1 DEF GrowthInv, AllLooked, Looked
        <5>3. QED
            BY <5>1, <5>2
      <4>4. QED
          BY <4>1, <4>2, <4>3 DEF GrowthInv, AllLooked, Still
    <3>3. QED
        BY <2>2, <3>1, <3>2, Noted
  <2>3. CASE BeginSweep \/ EndSweep
    <3>1. UNCHANGED <<disk, removed, grew, list, phase, busy>> /\ phase = "stat"
        BY <2>3 DEF BeginSweep, EndSweep, TypeOK
    <3>2. QED
        BY <2>a, <3>1 DEF GrowthInv, Still
  <2>4. CASE StatEntry
      BY <2>4, StatLooked
  <2>5. CASE QueryService
      BY <2>5, <2>a DEF QueryService, At, NextEntry, GrowthInv, Still, Here
  <2>6. CASE Sniff
    <3>1. CASE RemoveHere
        BY <2>6, <3>1, RemovedLooked DEF Sniff, At, GrowthInv, Still
    <3>2. CASE UNCHANGED <<list, pos>>
        BY <2>6, <2>a, <3>2 DEF Sniff, At, GrowthInv, Still, Here
    <3>3. QED
        BY <2>6, <3>1, <3>2 DEF Sniff
  <2>7. CASE CallManager
      BY <2>7, RemovedLooked DEF CallManager, At, GrowthInv, Still
  <2>8. CASE ManagerStart \/ ManagerStop \/ InsertOneRecord
      BY <2>8, <2>a DEF ManagerStart, ManagerStop, InsertOneRecord, GrowthInv, Still, Here
  <2>9. CASE UNCHANGED vars
      BY <2>9, <2>a DEF GrowthInv, Still, Here
  <2>10. QED
      BY <2>1, <2>2, <2>3, <2>4, <2>5, <2>6, <2>7, <2>8, <2>9 DEF Next, LoopList
<1>3. GrowthInv => NotMidWrite
    BY DEF GrowthInv, Still, NotMidWrite
<1>4. QED
    BY <1>1, <1>2, <1>3, TypeCorrect, PTL DEF Spec

-----------------------------------------------------------------------------
(* A file is announced no more often than it was noted *)

\* The entries of p on the list.
Entered(p) == {k \in 1..Len(list) : list[k].path = p}

\* Each time p was noted is an entry, then an announcement, or nothing any more.
Counted(p) == announced[p] + Cardinality(Entered(p)) <= looks[p]

CountInv == TypeOK /\ \A p \in Paths : Counted(p)

\* Positions are finitely many.
LEMMA PositionsFinite ==
    ASSUME NEW n \in Nat, NEW A \in SUBSET (1..n)
    PROVE  IsFiniteSet(A) /\ Cardinality(A) \in Nat
<1>1. IsFiniteSet(1..n)
    BY FS_Interval
<1>2. IsFiniteSet(A)
    BY <1>1, FS_Subset
<1>3. QED
    BY <1>2, FS_CardinalityType

\* If what is at the positions B was at the positions A before position i was taken
\* out, B is not larger, and smaller if i was one of A.
LEMMA Fewer ==
    ASSUME NEW n \in Nat, NEW A \in SUBSET (1..n), NEW m \in Nat, NEW B \in SUBSET (1..m),
           NEW i \in Nat, \A k \in B : (IF k < i THEN k ELSE k + 1) \in A
    PROVE  /\ Cardinality(B) <= Cardinality(A)
           /\ i \in A => Cardinality(B) <= Cardinality(A) - 1
<1> DEFINE f == [k \in B |-> IF k < i THEN k ELSE k + 1]
           R == A \ {i}
<1>1. /\ IsFiniteSet(A) /\ Cardinality(A) \in Nat
      /\ IsFiniteSet(B) /\ Cardinality(B) \in Nat
    BY PositionsFinite
<1>2. /\ IsFiniteSet(R)
      /\ Cardinality(R) = IF i \in A THEN Cardinality(A) - 1 ELSE Cardinality(A)
    BY <1>1, FS_RemoveElement
<1>3. \A k \in B : k \in Int /\ f[k] = IF k < i THEN k ELSE k + 1
    OBVIOUS
<1>4. \A k \in B : f[k] \in R
    BY <1>3
<1>5. f \in [B -> R]
    BY <1>4
<1>6. \A j, k \in B : f[j] = f[k] => j = k
    BY <1>3
<1>7. f \in Injection(B, R)
    BY <1>5, <1>6 DEF Injection, IsInjective
<1> HIDE DEF f, R
<1>8. Cardinality(B) <= Cardinality(R)
    BY <1>2, <1>7, FS_Injection
<1>9. QED
    BY <1>1, <1>2, <1>8

\* What is appended adds at most one position.
LEMMA OneMore ==
    ASSUME NEW n \in Nat, NEW A \in SUBSET (1..n), NEW B \in SUBSET (A \cup {n + 1})
    PROVE  /\ Cardinality(B) \in Nat /\ Cardinality(B) <= Cardinality(A) + 1
           /\ n + 1 \notin B => Cardinality(B) <= Cardinality(A)
<1>1. IsFiniteSet(A) /\ Cardinality(A) \in Nat
    BY PositionsFinite
<1>2. /\ IsFiniteSet(A \cup {n + 1})
      /\ Cardinality(A \cup {n + 1}) <= Cardinality(A) + 1
    BY <1>1, FS_AddElement
<1>3. Cardinality(B) <= Cardinality(A \cup {n + 1}) /\ IsFiniteSet(B)
    BY <1>2, FS_Subset
<1>4. Cardinality(B) \in Nat /\ Cardinality(A \cup {n + 1}) \in Nat
    BY <1>2, <1>3, FS_CardinalityType
<1>5. n + 1 \notin B => B \subseteq A
    OBVIOUS
<1>6. n + 1 \notin B => Cardinality(B) <= Cardinality(A)
    BY <1>1, <1>5, FS_Subset
<1>7. QED
    BY <1>1, <1>2, <1>3, <1>4, <1>6

\* The counts are numbers.
LEMMA Counts ==
    ASSUME TypeOK, NEW p \in Paths
    PROVE  /\ Entered(p) \in SUBSET (1..Len(list)) /\ Len(list) \in Nat
           /\ Cardinality(Entered(p)) \in Nat
           /\ announced[p] \in Nat /\ looks[p] \in Nat
<1>1. Entered(p) \in SUBSET (1..Len(list)) /\ Len(list) \in Nat
    BY DEF TypeOK, Entered
<1>2. Cardinality(Entered(p)) \in Nat
    BY <1>1, PositionsFinite
<1>3. announced[p] \in Nat /\ looks[p] \in Nat
    BY DEF TypeOK
<1>4. QED
    BY <1>1, <1>2, <1>3

\* An entry that is removed is one less of its path, and none more of another.
LEMMA RemovedCounts ==
    ASSUME TypeOK, TypeOK', pos \in 1..Len(list), RemoveHere, NEW p \in Paths
    PROVE  /\ Cardinality(Entered(p)') <= Cardinality(Entered(p))
           /\ Here.path = p => Cardinality(Entered(p)') <= Cardinality(Entered(p)) - 1
<1> DEFINE A == Entered(p)
           B == Entered(p)'
<1>0. list' \in Seq(NotifyFileInfo) /\ Len(list) \in Nat
    BY DEF TypeOK
<1>1. /\ Len(list') = Len(list) - 1 /\ Len(list) \in Nat
      /\ \A k \in 1..Len(list') : list'[k] = IF k < pos THEN list[k] ELSE list[k + 1]
    BY <1>0, Removed
<1>2. /\ A \in SUBSET (1..Len(list))
      /\ B \in SUBSET (1..Len(list')) /\ Len(list') \in Nat
    BY <1>0 DEF Entered
<1>3. \A k \in B : (IF k < pos THEN k ELSE k + 1) \in A
  <2>1. SUFFICES ASSUME NEW k \in 1..Len(list'), list'[k].path = p
                 PROVE  (IF k < pos THEN k ELSE k + 1) \in A
      BY DEF Entered
  <2>2. CASE k < pos
      BY <1>1, <2>1, <2>2 DEF Entered
  <2>3. CASE ~(k < pos)
      BY <1>1, <2>1, <2>3 DEF Entered
  <2>4. QED
      BY <2>2, <2>3
<1>4. pos \in A <=> Here.path = p
    BY DEF Entered, Here
<1> HIDE DEF A, B
<1>5. pos \in Nat
    BY DEF TypeOK
<1>6. QED
    BY <1>1, <1>2, <1>3, <1>4, <1>5, Fewer DEF A, B

\* A path that is noted is one entry more.
LEMMA AddedCounts ==
    ASSUME TypeOK, TypeOK', NEW q \in Paths, AddNotifyFile(q), NEW p \in Paths, Counted(p)
    PROVE  Counted(p)'
<1> DEFINE A == Entered(p)
           B == Entered(p)'
<1>1. /\ Len(list') = Len(list) + 1 /\ list'[Len(list) + 1].path = q
      /\ \A k \in 1..Len(list) : list'[k] = list[k]
    BY Added
<1>2. /\ A \in SUBSET (1..Len(list)) /\ Len(list) \in Nat
      /\ announced[p] \in Nat /\ looks[p] \in Nat /\ Cardinality(A) \in Nat
    BY Counts
<1>3. B \subseteq A \cup {Len(list) + 1} /\ (q # p => Len(list) + 1 \notin B)
    BY <1>1, <1>2 DEF Entered
<1>4. announced' = announced /\ looks'[p] = IF p = q THEN looks[p] + 1 ELSE looks[p]
    BY DEF AddNotifyFile, TypeOK
<1>5. announced[p] + Cardinality(A) <= looks[p]
    BY DEF Counted
<1> HIDE DEF A, B
<1>6. /\ Cardinality(B) \in Nat /\ Cardinality(B) <= Cardinality(A) + 1
      /\ q # p => Cardinality(B) <= Cardinality(A)
    BY <1>2, <1>3, OneMore
<1>7. announced'[p] + Cardinality(B) <= looks'[p]
    BY <1>2, <1>4, <1>5, <1>6
<1>8. QED
    BY <1>7 DEF Counted, B

\* An announcement takes its entry off the list.
LEMMA CallCounts ==
    ASSUME TypeOK, TypeOK', CallManager, NEW p \in Paths, Counted(p)
    PROVE  Counted(p)'
<1> DEFINE A == Entered(p)
           B == Entered(p)'
<1>1. pos \in 1..Len(list) /\ RemoveHere /\ looks' = looks
    BY DEF CallManager, At
<1>2. announced'[p] = IF p = Here.path THEN announced[p] + 1 ELSE announced[p]
    BY DEF CallManager, Announce, TypeOK
<1>4. /\ Cardinality(B) <= Cardinality(A)
      /\ Here.path = p => Cardinality(B) <= Cardinality(A) - 1
    BY <1>1, RemovedCounts
<1>t. list' \in Seq(NotifyFileInfo)
    BY DEF TypeOK
<1>5. B \in SUBSET (1..Len(list')) /\ Len(list') \in Nat
    BY <1>t DEF Entered
<1> HIDE DEF A, B
<1>6. Cardinality(B) \in Nat
    BY <1>5, PositionsFinite
<1>7. announced[p] + Cardinality(A) <= looks[p]
    BY DEF Counted, A
<1>8. /\ Cardinality(A) \in Nat
      /\ announced[p] \in Nat /\ looks[p] \in Nat
    BY Counts DEF A
<1>9. announced'[p] + Cardinality(B) <= looks'[p]
  <2>1. looks'[p] = looks[p]
      BY <1>1
  <2>2. CASE p = Here.path
    <3>1. announced'[p] = announced[p] + 1 /\ Cardinality(B) <= Cardinality(A) - 1
        BY <1>2, <1>4, <2>2
    <3>2. QED
        BY <1>6, <1>7, <1>8, <2>1, <3>1
  <2>3. CASE p # Here.path
    <3>1. announced'[p] = announced[p] /\ Cardinality(B) <= Cardinality(A)
        BY <1>2, <1>4, <2>3
    <3>2. QED
        BY <1>6, <1>7, <1>8, <2>1, <3>1
  <2>4. QED
      BY <2>2, <2>3
<1>10. QED
    BY <1>9 DEF Counted, B

\* However many entries name a path, and whenever files come and go there, it is announced
\* at most once for each time a scan or an event put it on the list.
THEOREM AnnouncedPerLook == Spec => []OncePerLook
<1>1. Init => CountInv
  <2> SUFFICES ASSUME Init, NEW p \in Paths
               PROVE  Counted(p)
      BY InitType DEF CountInv
  <2>1. Entered(p) = {}
      BY DEF Init, Entered
  <2>2. Cardinality({}) = 0
      BY FS_EmptySet
  <2>3. QED
      BY <2>1, <2>2 DEF Init, Counted
<1>2. CountInv /\ [Next]_vars => CountInv'
  <2> SUFFICES ASSUME CountInv, [Next]_vars
               PROVE  CountInv'
      OBVIOUS
  <2>t. TypeOK /\ TypeOK'
      BY NextType DEF CountInv
  <2> SUFFICES ASSUME NEW p \in Paths
               PROVE  Counted(p)'
      BY <2>t DEF CountInv
  <2>c. Counted(p)
      BY DEF CountInv
  <2>0. ASSUME UNCHANGED <<looks, announced>>, Entered(p)' = Entered(p)
        PROVE  Counted(p)'
      BY <2>0, <2>c DEF Counted
  <2>r. ASSUME UNCHANGED <<looks, announced>>, RemoveHere, pos \in 1..Len(list)
        PROVE  Counted(p)'
    <3>1. Cardinality(Entered(p)') <= Cardinality(Entered(p))
        BY <2>r, <2>t, RemovedCounts
    <3>3. Entered(p)' \in SUBSET (1..Len(list')) /\ Len(list') \in Nat
        BY <2>t DEF Entered, TypeOK
    <3>4. Cardinality(Entered(p)') \in Nat
        BY <3>3, PositionsFinite
    <3>5. announced'[p] + Cardinality(Entered(p)') <= looks'[p]
        BY <2>r, <2>t, <2>c, <3>1, <3>4, Counts DEF Counted
    <3>6. QED
        BY <3>5 DEF Counted
  <2>1. CASE FileSystem
      BY <2>0, <2>1 DEF FileSystem, Create, Write, Remove, Entered
  <2>2. CASE HandleEvent \/ \E q \in Paths : ScanFile(q)
    <3>1. CASE UNCHANGED <<diskVars, loopVars, managerVars>>
        BY <2>0, <3>1 DEF Entered
    <3>2. ASSUME NEW q \in Paths, AddNotifyFile(q) PROVE Counted(p)'
        BY <2>t, <2>c, <3>2, AddedCounts
    <3>3. QED
        BY <2>t, <2>2, <3>1, <3>2, Noted
  <2>3. CASE BeginSweep \/ EndSweep \/ QueryService
      BY <2>0, <2>3 DEF BeginSweep, EndSweep, QueryService, Entered
  <2>4. CASE StatEntry
    <3>1. UNCHANGED <<looks, announced>> /\ pos \in 1..Len(list)
        BY <2>4 DEF StatEntry, At
    <3>2. CASE list' = [list EXCEPT ![pos].size = AsInt(disk[Here.path])]
      <4>1. /\ Len(list') = Len(list)
            /\ \A k \in 1..Len(list) : list'[k].path = list[k].path
        <5>1. list \in Seq(NotifyFileInfo) /\ list[pos] \in NotifyFileInfo
            BY <2>t, <3>1, Entries DEF TypeOK
        <5>2. QED
            BY <3>1, <3>2, <5>1 DEF NotifyFileInfo
      <4>2. QED
          BY <2>0, <3>1, <4>1 DEF Entered
    <3>3. CASE UNCHANGED list
        BY <2>0, <3>1, <3>3 DEF Entered
    <3>4. QED
        BY <2>4, <2>r, <3>1, <3>2, <3>3 DEF StatEntry
  <2>5. CASE Sniff
    <3>1. UNCHANGED <<looks, announced>> /\ pos \in 1..Len(list)
        BY <2>5 DEF Sniff, At
    <3>2. RemoveHere \/ UNCHANGED list
        BY <2>5 DEF Sniff
    <3>3. QED
        BY <2>0, <2>r, <3>1, <3>2 DEF Entered
  <2>6. CASE CallManager
      BY <2>t, <2>c, <2>6, CallCounts
  <2>7. CASE ManagerStart \/ ManagerStop \/ InsertOneRecord \/ UNCHANGED vars
      BY <2>0, <2>7 DEF ManagerStart, ManagerStop, InsertOneRecord, Entered
  <2>8. QED
      BY <2>1, <2>2, <2>3, <2>4, <2>5, <2>6, <2>7 DEF Next, LoopList
<1>3. CountInv => OncePerLook
  <2> SUFFICES ASSUME CountInv, NEW p \in Paths
               PROVE  announced[p] <= looks[p]
      BY DEF OncePerLook
  <2>1. /\ announced[p] + Cardinality(Entered(p)) <= looks[p]
        /\ Cardinality(Entered(p)) \in Nat /\ announced[p] \in Nat /\ looks[p] \in Nat
      BY Counts DEF CountInv, Counted
  <2>2. QED
      BY <2>1
<1>4. QED
    BY <1>1, <1>2, <1>3, PTL DEF Spec
=============================================================================
