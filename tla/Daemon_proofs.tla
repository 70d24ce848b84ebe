--------------------------- MODULE Daemon_proofs ---------------------------
(***************************************************************************)
(* Proofs about Daemon: its types, that whoever serves can be reached, that *)
(* the path leads to the holder of the lock, that an undisturbed call is   *)
(* answered, and that it is a Service.                                     *)
(***************************************************************************)
EXTENDS Daemon, TLAPS

Kinds == {"audio", "gps", "sensor", "filewatcher", "manager"}

\* The steps at which a process of this kind can be.
Own == {"gone", "end"} \union DOMAIN Main \union DOMAIN Ending

Successor(x) == IF x \in DOMAIN Main THEN Main[x] ELSE Ending[x]

Feeds == {"gps", "sensor"}

\* What each step leads to, read off the programs.
Leads(x, y) ==
    /\ x = "lock" => y \in {"serve", "name", "subscribe", "session"}
    /\ x = "lock" /\ y \in {"serve", "subscribe", "session"} => kind \notin Feeds
    /\ x = "serve" => y = "subscribe"
    /\ x = "subscribe" => y = IF kind \in Feeds THEN "loop" ELSE "name"
    /\ x = "name" => y = IF kind \in Feeds THEN "serve"
                         ELSE IF kind = "filewatcher" THEN "apps" ELSE "loop"
    /\ x = "session" => y = "subscribe" /\ kind \notin Feeds
    /\ x = "apps" => y = "loop"
    /\ x \in {"unlock", "unlink"} => y = "leave"
    /\ x = "leave" => y = "end"

\* The five programs.
LEMMA Programs ==
    ASSUME kind \in Kinds
    PROVE  /\ Own \subseteq Labels
           /\ {"gone", "lock", "leave", "end"} \subseteq Own
           /\ "unlock" \in Own => kind = "audio"
           /\ "unlink" \in Own => kind \in Feeds
           /\ \A x \in Own \ {"gone", "end", "loop"} :
                Successor(x) \in Own /\ Leads(x, Successor(x))
           /\ \A why : AfterLoop(why) \in Own \intersect {"unlock", "unlink", "leave"}
<1> USE DEF Own, Successor, Leads, Feeds, Labels, Main, Ending, AfterLoop
<1>1. CASE kind = "audio"
  BY <1>1 DEF AudioMain, AudioReturn, PlainExit
<1>2. CASE kind = "gps"
  BY <1>2 DEF GpsMain, FeedExit, PlainExit
<1>3. CASE kind = "sensor"
  BY <1>3 DEF SensorMain, FeedExit, PlainExit
<1>4. CASE kind = "filewatcher"
  BY <1>4 DEF FileWatcherMain, FileWatcherReturn, PlainExit
<1>5. CASE kind = "manager"
  BY <1>5 DEF ManagerMain, PlainExit
<1> QED BY <1>1, <1>2, <1>3, <1>4, <1>5 DEF Kinds

-----------------------------------------------------------------------------
(* The invariant *)

Held == {"serve", "subscribe", "name", "session", "apps", "loop", "unlock", "unlink"}

\* From taking the lock until giving it up: only the audio daemon leaves the bus without it.
Holding(p) == pc[p] \in Held \/ (kind # "audio" /\ pc[p] = "leave")

\* Steps only an owner of the name takes.
Named(p) == pc[p] \in {"apps", "loop"} \/ (kind \in Feeds /\ pc[p] \in {"serve", "subscribe"})

\* Steps an owner of the name can be at.
MayOwn(p) == Named(p) \/ pc[p] \in {"unlock", "unlink", "leave"}

Order ==
    \A p \in Processes :
        /\ pc[p] \in Own
        /\ Holding(p) => lock = p
        /\ owner = p => MayOwn(p)
        /\ Named(p) => owner = p
        /\ p \in unbound \union listening => pc[p] \notin {"gone", "lock"}

IInv == TypeOK /\ Order /\ PathLeadsToHolder

USE DEF vars, lifeVars, busVars, socketVars, boundVars

\* The daemon is one of the five.
LEMMA KindIsKnown == TypeOK => kind \in Kinds
BY DaemonAssumption DEF TypeOK, Kinds

\* The invariant holds before any process is started.
LEMMA InitIInv == Init => IInv
<1> SUFFICES ASSUME Init PROVE IInv
    OBVIOUS
<1>1. kind \in Kinds
    BY DaemonAssumption DEF Init, Kinds
<1>2. alone \in BOOLEAN /\ lost \in BOOLEAN /\ overrun \in BOOLEAN
    BY Zenon DEF Init
<1>3. TypeOK
    BY <1>2, DaemonAssumption DEF Init, TypeOK, Labels
<1>4. Order
    BY <1>1, Programs, DaemonAssumption DEF Init, Order, Holding, Named, Held, MayOwn
<1> QED BY <1>3, <1>4 DEF Init, IInv, PathLeadsToHolder

\* What a step of main leads to, for the process that takes it.
LEMMA ProceedTo ==
    ASSUME TypeOK, NEW p \in Processes, pc[p] \in Own \ {"gone", "end", "loop"}, Proceed(p)
    PROVE  \E y \in Own : Leads(pc[p], y) /\ pc' = [pc EXCEPT ![p] = y]
BY KindIsKnown, Programs DEF Proceed, Goto, Successor

\* The path stays right while no process comes to hold the lock and to listen.
LEMMA PathKept ==
    ASSUME PathLeadsToHolder, UNCHANGED <<path, overrun>>,
           \A p \in Processes :
             lock' = p /\ p \in listening' => lock = p /\ p \in listening
    PROVE  PathLeadsToHolder'
BY Zenon DEF PathLeadsToHolder

\* What is left when a process is gone.
LEMMA GoneKeeps ==
    ASSUME TypeOK, Order, PathLeadsToHolder, NEW p \in Processes, NEW u, Gone(p, u),
           again' = again \ {p}, alone' \in BOOLEAN,
           stops' \in 0..MaxStops, kills' \in 0..MaxKills
    PROVE  IInv'
<1>k. kind \in Kinds /\ Own \subseteq Labels /\ {"gone", "lock", "leave", "end"} \subseteq Own
    BY KindIsKnown, Programs
<1>0. kind' = kind /\ Own' = Own
    BY DEF Gone, Own, Main, Ending
<1>1. lost' \in BOOLEAN /\ overrun' \in BOOLEAN
    BY Zenon DEF Gone, TypeOK
<1>2. pc' = [pc EXCEPT ![p] = "gone"] /\ pc' \in [Processes -> Labels]
    BY <1>k DEF Gone, Goto, TypeOK
<1>3. asked' \in [Processes -> {"nothing", "stop", "Stopped", "timer"}]
    BY DEF Gone, TypeOK
<1>4. /\ lock' \in born' \union {None} /\ owner' \in born' \union {None}
      /\ path' \in born' \union {None} /\ activation' \in born' \union {None}
    BY DEF Gone, TypeOK
<1>5. /\ again' \subseteq born' /\ unbound' \subseteq born'
      /\ listening' \subseteq born' /\ subscribed' \subseteq born'
    BY DEF Gone, TypeOK
<1>6. TypeOK'
    BY <1>0, <1>1, <1>2, <1>3, <1>4, <1>5 DEF TypeOK, Gone
<1>7. Order'
  <2> SUFFICES ASSUME NEW q \in Processes
               PROVE  /\ pc'[q] \in Own
                      /\ Holding(q)' => lock' = q
                      /\ owner' = q => MayOwn(q)'
                      /\ Named(q)' => owner' = q
                      /\ q \in unbound' \union listening' => pc'[q] \notin {"gone", "lock"}
    BY <1>0 DEF Order
  <2>1. CASE q = p
    BY <2>1, <1>k, <1>2, DaemonAssumption DEF Gone, TypeOK, Holding, Held, Named, MayOwn, Order
  <2>2. CASE q # p
    <3>1. pc'[q] = pc[q]
      BY <2>2, <1>2 DEF TypeOK
    <3>2. /\ pc[q] \in Own
          /\ Holding(q) => lock = q
          /\ owner = q => MayOwn(q)
          /\ Named(q) => owner = q
          /\ q \in unbound \union listening => pc[q] \notin {"gone", "lock"}
      BY DEF Order
    <3>3. (Holding(q)' <=> Holding(q)) /\ (Named(q)' <=> Named(q)) /\ (MayOwn(q)' <=> MayOwn(q))
      BY <3>1, <1>0 DEF Holding, Named, MayOwn
    <3>4. /\ lock = q <=> lock' = q
          /\ owner = q <=> owner' = q
          /\ q \in unbound' \union listening' => q \in unbound \union listening
      BY <2>2, DaemonAssumption DEF Gone
    <3> QED BY <3>1, <3>2, <3>3, <3>4
  <2> QED BY <2>1, <2>2
<1>8. PathLeadsToHolder'
  <2>1. \A q \in Processes : lock' = q /\ q \in listening' => lock = q /\ q \in listening
    BY DaemonAssumption DEF Gone
  <2> QED BY <2>1, PathKept DEF Gone
<1> QED BY <1>6, <1>7, <1>8 DEF IInv

\* Every step keeps the invariant.
LEMMA NextIInv == IInv /\ [Next]_vars => IInv'
<1> SUFFICES ASSUME IInv, [Next]_vars PROVE IInv'
    OBVIOUS
<1> USE DEF IInv
<1>k. kind \in Kinds /\ Own \subseteq Labels /\ {"gone", "lock", "leave", "end"} \subseteq Own
    BY KindIsKnown, Programs
<1>0. kind' = kind /\ Own' = Own
    BY DEF Next, MainStep, CallStop, StopContainer, Activate, Launch, Kill, Gone, Listen,
           TakeLock, Serve, Subscribe, RegisterName, CheckSession, CheckApps, LeaveLoop,
           Unlock, Unlink, LeaveBus, End, Own, Main, Ending
<1> USE <1>k, <1>0
<1> USE DEF TypeOK, Order, Held, Holding, Named, MayOwn, Feeds, Kinds
<1>1. CASE CallStop
    BY <1>1, PathKept DEF CallStop, Ask
<1>2. CASE StopContainer
  <2>1. asked' \in [Processes -> {"nothing", "stop", "Stopped", "timer"}]
    BY <1>2 DEF StopContainer
  <2>2. stops' \in 0..MaxStops
    BY <1>2, DaemonAssumption DEF StopContainer
  <2> QED BY <1>2, <2>1, <2>2, PathKept DEF StopContainer
<1>3. ASSUME NEW p \in Processes, Activate(p) PROVE IInv'
  <2>1. pc' = [pc EXCEPT ![p] = "lock"]
    BY <1>3 DEF Activate, Begin, Goto
  <2>2. TypeOK'
    BY <1>3, <2>1 DEF Activate, Begin
  <2>3. Order'
    BY <1>3, <2>1 DEF Activate, Begin
  <2>4. PathLeadsToHolder'
    BY <1>3, <2>1, PathKept DEF Activate, Begin
  <2> QED BY <2>2, <2>3, <2>4
<1>4. ASSUME NEW p \in Processes, Launch(p) PROVE IInv'
  <2>1. pc' = [pc EXCEPT ![p] = "lock"]
    BY <1>4 DEF Launch, Begin, Goto
  <2>2. TypeOK'
    BY <1>4, <2>1 DEF Launch, Begin
  <2>3. Order'
    BY <1>4, <2>1 DEF Launch, Begin
  <2>4. PathLeadsToHolder'
    BY <1>4, <2>1, PathKept DEF Launch, Begin
  <2> QED BY <2>2, <2>3, <2>4
<1>5. ASSUME NEW p \in Processes, Kill(p) PROVE IInv'
  <2>1. kills' \in 0..MaxKills /\ stops' \in 0..MaxStops
    BY <1>5, DaemonAssumption DEF Kill
  <2> QED BY <1>5, <2>1, GoneKeeps DEF Kill
<1>6. ASSUME NEW p \in Processes, Listen(p) PROVE IInv'
  <2>1. TypeOK' /\ Order'
    BY <1>6 DEF Listen
  <2>2. CASE lock = p
    BY <1>6, <2>2, Zenon DEF Listen, PathLeadsToHolder
  <2>3. CASE lock # p
    BY <1>6, <2>3, Zenon DEF Listen, PathLeadsToHolder
  <2> QED BY <2>1, <2>2, <2>3
<1>7. ASSUME NEW p \in Processes, TakeLock(p) PROVE IInv'
  <2>1. CASE lock = None
    <3>1. PICK y \in Own : Leads(pc[p], y) /\ pc' = [pc EXCEPT ![p] = y]
      BY <1>7, <2>1, ProceedTo DEF TakeLock, At
    <3>2. TypeOK'
      BY <1>7, <2>1, <3>1 DEF TakeLock, At
    <3>3. Order'
      BY <1>7, <2>1, <3>1, DaemonAssumption DEF TakeLock, At, Leads
    <3>4. PathLeadsToHolder'
      BY <1>7, <2>1, PathKept DEF TakeLock, At
    <3> QED BY <3>2, <3>3, <3>4
  <2>2. CASE lock # None
    BY <1>7, <2>2, PathKept DEF TakeLock, At, Goto
  <2> QED BY <2>1, <2>2
<1>8. ASSUME NEW p \in Processes, Serve(p) PROVE IInv'
  <2>1. PICK y \in Own : Leads(pc[p], y) /\ pc' = [pc EXCEPT ![p] = y]
    BY <1>8, ProceedTo DEF Serve, At
  <2>2. TypeOK'
    BY <1>8, <2>1 DEF Serve, At
  <2>3. Order'
    BY <1>8, <2>1 DEF Serve, At, Leads
  <2>4. PathLeadsToHolder'
    BY <1>8, <2>1, PathKept DEF Serve, At, Leads
  <2> QED BY <2>2, <2>3, <2>4
<1>9. ASSUME NEW p \in Processes, Subscribe(p) PROVE IInv'
  <2>1. PICK y \in Own : Leads(pc[p], y) /\ pc' = [pc EXCEPT ![p] = y]
    BY <1>9, ProceedTo DEF Subscribe, At
  <2>2. TypeOK'
    BY <1>9, <2>1 DEF Subscribe, At
  <2>3. Order'
    <3> SUFFICES ASSUME NEW q \in Processes
                 PROVE  /\ pc'[q] \in Own
                        /\ Holding(q)' => lock' = q
                        /\ owner' = q => MayOwn(q)'
                        /\ Named(q)' => owner' = q
                        /\ q \in unbound' \union listening' => pc'[q] \notin {"gone", "lock"}
      OBVIOUS
    <3>1. CASE q = p
      BY <1>9, <2>1, <3>1 DEF Subscribe, At, Leads
    <3>2. CASE q # p
      <4>1. pc'[q] = pc[q]
        BY <2>1, <3>2
      <4> QED BY <1>9, <3>2, <4>1 DEF Subscribe
    <3> QED BY <3>1, <3>2
  <2>4. PathLeadsToHolder'
    BY <1>9, <2>1, PathKept DEF Subscribe, At, Leads
  <2> QED BY <2>2, <2>3, <2>4
<1>10. ASSUME NEW p \in Processes, RegisterName(p) PROVE IInv'
  <2>1. CASE owner = None
    BY <1>10, <2>1, PathKept, ProceedTo DEF RegisterName, At, Leads
  <2>2. CASE owner # None
    BY <1>10, <2>2, PathKept, Programs, ProceedTo DEF RegisterName, At, Goto, Leads
  <2> QED BY <2>1, <2>2
<1>11. ASSUME NEW p \in Processes, CheckSession(p) PROVE IInv'
  <2>1. CASE Proceed(p) /\ UNCHANGED alone
    <3>1. PICK y \in Own : Leads(pc[p], y) /\ pc' = [pc EXCEPT ![p] = y]
      BY <1>11, <2>1, ProceedTo DEF CheckSession, At
    <3>2. TypeOK'
      BY <1>11, <2>1, <3>1 DEF CheckSession, At
    <3>3. Order'
      BY <1>11, <2>1, <3>1 DEF CheckSession, At, Leads
    <3>4. PathLeadsToHolder'
      BY <1>11, <2>1, <3>1, PathKept DEF CheckSession, At, Leads
    <3> QED BY <3>2, <3>3, <3>4
  <2>2. CASE Goto(p, "end") /\ alone' = FALSE
    BY <1>11, <2>2, PathKept DEF CheckSession, At, Goto
  <2> QED BY <1>11, <2>1, <2>2 DEF CheckSession
<1>12. ASSUME NEW p \in Processes, CheckApps(p) PROVE IInv'
  <2>1. PICK y \in Own : Leads(pc[p], y) /\ pc' = [pc EXCEPT ![p] = y]
    BY <1>12, ProceedTo DEF CheckApps, At
  <2>2. TypeOK'
    BY <1>12, <2>1 DEF CheckApps, At, Ask
  <2>3. Order'
    BY <1>12, <2>1 DEF CheckApps, At, Leads
  <2>4. PathLeadsToHolder'
    BY <1>12, <2>1, PathKept DEF CheckApps, At, Leads
  <2> QED BY <2>2, <2>3, <2>4
<1>13. ASSUME NEW p \in Processes, LeaveLoop(p) PROVE IInv'
    BY <1>13, PathKept, Programs DEF LeaveLoop, At, Goto
<1>14. ASSUME NEW p \in Processes, Unlock(p) PROVE IInv'
  <2>1. PICK y \in Own : Leads(pc[p], y) /\ pc' = [pc EXCEPT ![p] = y]
    BY <1>14, ProceedTo DEF Unlock, At
  <2>2. TypeOK'
    BY <1>14, <2>1 DEF Unlock, At
  <2>3. Order'
    BY <1>14, <2>1, Programs, DaemonAssumption DEF Unlock, At, Leads
  <2>4. PathLeadsToHolder'
    BY <1>14, PathKept, DaemonAssumption DEF Unlock
  <2> QED BY <2>2, <2>3, <2>4
<1>15. ASSUME NEW p \in Processes, Unlink(p) PROVE IInv'
  <2>1. PICK y \in Own : Leads(pc[p], y) /\ pc' = [pc EXCEPT ![p] = y]
    BY <1>15, ProceedTo DEF Unlink, At
  <2>2. TypeOK'
    BY <1>15, <2>1 DEF Unlink, At
  <2>3. Order'
    BY <1>15, <2>1 DEF Unlink, At, Leads
  <2>4. lock = p
    BY <1>15 DEF Unlink, At
  <2>5. PathLeadsToHolder'
    BY <1>15, <2>4, Zenon DEF Unlink, PathLeadsToHolder
  <2> QED BY <2>2, <2>3, <2>5
<1>16. ASSUME NEW p \in Processes, LeaveBus(p) PROVE IInv'
  <2>1. PICK y \in Own : Leads(pc[p], y) /\ pc' = [pc EXCEPT ![p] = y]
    BY <1>16, ProceedTo DEF LeaveBus, At
  <2>2. TypeOK'
    BY <1>16, <2>1 DEF LeaveBus, At
  <2>3. Order'
    <3> SUFFICES ASSUME NEW q \in Processes
                 PROVE  /\ pc'[q] \in Own
                        /\ Holding(q)' => lock' = q
                        /\ owner' = q => MayOwn(q)'
                        /\ Named(q)' => owner' = q
                        /\ q \in unbound' \union listening' => pc'[q] \notin {"gone", "lock"}
      OBVIOUS
    <3>1. CASE q = p
      BY <1>16, <2>1, <3>1, DaemonAssumption DEF LeaveBus, At, Leads
    <3>2. CASE q # p
      <4>1. pc'[q] = pc[q]
        BY <2>1, <3>2
      <4> QED BY <1>16, <3>2, <4>1, DaemonAssumption DEF LeaveBus
    <3> QED BY <3>1, <3>2
  <2>4. PathLeadsToHolder'
    BY <1>16, <2>1, PathKept DEF LeaveBus, At, Leads
  <2> QED BY <2>2, <2>3, <2>4
<1>17. ASSUME NEW p \in Processes, End(p) PROVE IInv'
  <2>1. kills' \in 0..MaxKills /\ stops' \in 0..MaxStops /\ alone' \in BOOLEAN
    BY <1>17, Zenon DEF End
  <2> QED BY <1>17, <2>1, GoneKeeps DEF End
<1>18. CASE UNCHANGED vars
    BY <1>18, PathKept
<1> QED
    BY <1>1, <1>2, <1>3, <1>4, <1>5, <1>6, <1>7, <1>8, <1>9, <1>10, <1>11, <1>12, <1>13,
       <1>14, <1>15, <1>16, <1>17, <1>18 DEF Next, MainStep

-----------------------------------------------------------------------------
(* Theorems *)

\* The inductive invariant holds throughout.
THEOREM Invariant == Spec => []IInv
<1>1. Init => IInv
    BY InitIInv
<1>2. IInv /\ [Next]_vars => IInv'
    BY NextIInv
<1> QED BY <1>1, <1>2, PTL DEF Spec

\* The types of the daemon's state, for any number of processes.
THEOREM TypeCorrect == Spec => []TypeOK
<1>1. IInv => TypeOK
    BY DEF IInv
<1> QED BY <1>1, Invariant, PTL

\* A process whose loop runs owns the name, in each of the daemons.
THEOREM ServersReachable == Spec => []Reachable
<1>1. IInv => Reachable
    BY DEF IInv, Order, Named, Reachable, At
<1> QED BY <1>1, Invariant, PTL

\* Whoever holds the lock and listens is found at the path.
THEOREM PathRight == Spec => []PathLeadsToHolder
<1>1. IInv => PathLeadsToHolder
    BY DEF IInv
<1> QED BY <1>1, Invariant, PTL

-----------------------------------------------------------------------------
(* An activation that nothing disturbs *)

\* Steps before the name is owned.
Starting == IF kind \in Feeds THEN {"lock", "name"}
                              ELSE {"lock", "session", "serve", "subscribe", "name"}

\* A process that is gone holds no lock, and an undisturbed activation has no rival.
Undisturbed ==
    /\ \A q \in Processes : lock = q => pc[q] \notin {"gone", "lock"}
    /\ alone /\ activation # None =>
         /\ pc[activation] \in Starting
         /\ \A q \in Processes \ {activation} : pc[q] = "gone"
    /\ ~lost

\* A process without rivals finds the lock and the name free.
LEMMA NothingInTheWay ==
    ASSUME IInv, Undisturbed, alone, activation # None, NEW p \in Processes, pc[p] # "gone"
    PROVE  /\ p = activation /\ pc[p] \in Starting
           /\ pc[p] = "lock" => lock = None
           /\ pc[p] = "name" => owner = None
<1>1. p = activation /\ pc[p] \in Starting /\ \A q \in Processes \ {p} : pc[q] = "gone"
    BY DEF Undisturbed
<1>2. pc[p] = "lock" => lock = None
    BY <1>1 DEF Undisturbed, IInv, TypeOK
<1>3. pc[p] = "name" => owner = None
    BY <1>1 DEF IInv, TypeOK, Order, MayOwn, Named, Feeds
<1> QED BY <1>1, <1>2, <1>3

\* Every step leaves an undisturbed activation on its way or answers it.
LEMMA NextUndisturbed == IInv /\ Undisturbed /\ [Next]_vars => Undisturbed'
<1> SUFFICES ASSUME IInv, Undisturbed, [Next]_vars PROVE Undisturbed'
    OBVIOUS
<1>k. kind \in Kinds
    BY KindIsKnown DEF IInv
<1>t. TypeOK /\ Order
    BY DEF IInv
<1>s. \A q \in Processes : lock = q => pc[q] \notin {"gone", "lock"}
    BY DEF Undisturbed
<1>l. ~lost
    BY DEF Undisturbed
<1>o. kind' = kind => Starting' = Starting
    BY DEF Starting
<1>1. CASE CallStop \/ StopContainer \/ UNCHANGED vars
    BY <1>1, <1>o DEF CallStop, StopContainer, Undisturbed
<1>2. ASSUME NEW p \in Processes, Activate(p) PROVE Undisturbed'
  <2>1. /\ pc' = [pc EXCEPT ![p] = "lock"] /\ p \notin born /\ pc[p] = "gone"
        /\ activation' = p /\ lock' = lock /\ lost' = lost /\ kind' = kind
        /\ alone' = \A q \in Processes : ~Alive(q)
    BY <1>2, <1>t DEF Activate, Begin, Goto, TypeOK
  <2>2. \A q \in Processes : lock' = q => pc'[q] \notin {"gone", "lock"}
    BY <2>1, <1>t, <1>s DEF TypeOK
  <2>3. pc'[p] \in Starting' /\ "lock" \in Starting'
    BY <2>1, <1>t DEF TypeOK, Starting
  <2>4. alone' => \A q \in Processes \ {p} : pc'[q] = "gone"
    BY <2>1, <1>t DEF TypeOK, Alive
  <2> QED BY <2>1, <2>2, <2>3, <2>4, <1>l DEF Undisturbed
<1>3. ASSUME NEW p \in Processes, Launch(p) PROVE Undisturbed'
  <2>1. /\ pc' = [pc EXCEPT ![p] = "lock"] /\ p \notin born /\ pc[p] = "gone"
        /\ lock' = lock /\ lost' = lost /\ ~alone'
    BY <1>3, <1>t DEF Launch, Begin, Goto, TypeOK
  <2>2. \A q \in Processes : lock' = q => pc'[q] \notin {"gone", "lock"}
    BY <2>1, <1>t, <1>s DEF TypeOK
  <2> QED BY <2>1, <2>2, <1>l DEF Undisturbed
<1>4. ASSUME NEW p \in Processes, NEW u, Gone(p, u), u => alone /\ pc[p] = "end",
             alone' => alone
      PROVE  Undisturbed'
  <2>1. /\ pc' = [pc EXCEPT ![p] = "gone"] /\ kind' = kind
        /\ lock' = (IF lock = p THEN None ELSE lock)
        /\ activation' = (IF activation = p THEN None ELSE activation)
        /\ lost' = (lost \/ (activation = p /\ u))
    BY <1>4 DEF Gone, Goto
  <2>2. \A q \in Processes : lock' = q => pc'[q] \notin {"gone", "lock"}
    BY <2>1, <1>t, <1>s, DaemonAssumption DEF TypeOK
  <2>3. ~(activation = p /\ u)
    BY <1>4, NothingInTheWay, DaemonAssumption DEF Starting
  <2>4. alone' /\ activation' # None =>
          /\ pc'[activation'] \in Starting'
          /\ \A q \in Processes \ {activation'} : pc'[q] = "gone"
    BY <2>1, <1>4, <1>t, <1>o DEF TypeOK, Undisturbed
  <2> QED BY <2>1, <2>2, <2>3, <2>4, <1>l DEF Undisturbed
<1>5. ASSUME NEW p \in Processes, Kill(p) PROVE Undisturbed'
    BY <1>5, <1>4 DEF Kill
<1>6. ASSUME NEW p \in Processes, End(p) PROVE Undisturbed'
    BY <1>6, <1>4 DEF End, At
<1>7. ASSUME NEW p \in Processes, Listen(p) PROVE Undisturbed'
    BY <1>7, <1>o DEF Listen, Undisturbed
\* The rest are steps of one process that was there and goes on.
<1>8. ASSUME NEW p \in Processes, NEW y, pc' = [pc EXCEPT ![p] = y], kind' = kind,
             pc[p] # "gone", y \notin {"gone", "lock"},
             lock' \in {lock, None} \/ lock' = p, lost' = lost,
             alone' => alone, activation' \in {activation, None},
             alone' /\ activation' # None /\ pc[p] \in Starting => y \in Starting
      PROVE  Undisturbed'
  <2>1. \A q \in Processes : lock' = q => pc'[q] \notin {"gone", "lock"}
    BY <1>8, <1>t, <1>s, DaemonAssumption DEF TypeOK
  <2>2. ASSUME alone', activation' # None
        PROVE  /\ pc'[activation'] \in Starting'
               /\ \A q \in Processes \ {activation'} : pc'[q] = "gone"
    <3>1. p = activation /\ pc[p] \in Starting
      BY <1>8, <2>2, NothingInTheWay
    <3> QED BY <3>1, <2>2, <1>8, <1>t, <1>o DEF TypeOK, Undisturbed
  <2> QED BY <2>1, <2>2, <1>8, <1>l DEF Undisturbed
<1>9. ASSUME NEW p \in Processes, pc[p] \in Own \ {"gone", "end", "loop"}, Proceed(p),
             kind' = kind, lock' \in {lock, None} \/ lock' = p, lost' = lost,
             alone' => alone, activation' \in {activation, None},
             pc[p] = "name" => activation' = None \/ owner # None
      PROVE  Undisturbed'
  <2>1. PICK y \in Own : Leads(pc[p], y) /\ pc' = [pc EXCEPT ![p] = y]
    BY <1>9, <1>t, ProceedTo
  <2>2. y \notin {"gone", "lock"}
    BY <1>k, <1>9, <2>1, Programs DEF Leads, Labels
  <2>3. pc[p] \in Starting /\ pc[p] # "name" => y \in Starting
    BY <2>1 DEF Leads, Starting
  <2>4. alone' /\ activation' # None /\ pc[p] \in Starting => pc[p] # "name"
    BY <1>9, NothingInTheWay
  <2> QED BY <1>8, <1>9, <2>1, <2>2, <2>3, <2>4
\* Nor is there an undisturbed activation whose process turns back.
<1>10. ASSUME NEW p \in Processes, NEW y \in {"end", "leave", "unlock", "unlink"}, Goto(p, y),
              kind' = kind, lock' = lock, lost' = lost,
              alone' => alone, activation' = activation,
              \/ pc[p] = "lock" /\ lock # None
              \/ pc[p] = "name" /\ owner # None
              \/ pc[p] = "loop"
              \/ pc[p] = "session" /\ ~alone'
       PROVE  Undisturbed'
  <2>1. alone' /\ activation' # None => pc[p] \notin Starting
    BY <1>10, NothingInTheWay DEF Starting
  <2> QED BY <1>8, <1>10, <2>1 DEF Goto
<1>p. "lock" \in Own
    BY <1>k, Programs
<1>11. ASSUME NEW p \in Processes, TakeLock(p) PROVE Undisturbed'
  <2>1. CASE lock = None
    BY <1>11, <1>9, <1>p, <2>1 DEF TakeLock, At
  <2>2. CASE lock # None /\ Goto(p, "end")
    BY <1>11, <1>10, <2>2 DEF TakeLock, At
  <2>3. CASE lock # None /\ UNCHANGED pc
    BY <1>11, <1>o, <2>3 DEF TakeLock, Undisturbed
  <2> QED BY <1>11, <2>1, <2>2, <2>3 DEF TakeLock
<1>12. ASSUME NEW p \in Processes,
              Serve(p) \/ Subscribe(p) \/ CheckApps(p) \/ Unlock(p) \/ Unlink(p) \/ LeaveBus(p)
       PROVE  Undisturbed'
  <2>1. pc[p] \in Own \ {"gone", "end", "loop"} /\ pc[p] # "name"
    BY <1>12, <1>t DEF Order, Serve, Subscribe, CheckApps, Unlock, Unlink, LeaveBus, At
  <2> QED BY <1>12, <1>9, <2>1
            DEF Serve, Subscribe, CheckApps, Unlock, Unlink, LeaveBus
<1>13. ASSUME NEW p \in Processes, RegisterName(p) PROVE Undisturbed'
  <2>1. CASE Proceed(p)
    BY <1>13, <1>9, <1>t, <2>1 DEF RegisterName, At, Order
  <2>2. CASE Goto(p, "leave") /\ owner # None
    BY <1>13, <1>10, <2>2 DEF RegisterName, At
  <2> QED BY <1>13, <2>1, <2>2 DEF RegisterName
<1>14. ASSUME NEW p \in Processes, CheckSession(p) PROVE Undisturbed'
  <2>1. CASE Proceed(p) /\ UNCHANGED alone
    BY <1>14, <1>9, <1>t, <2>1 DEF CheckSession, At, Order
  <2>2. CASE Goto(p, "end") /\ alone' = FALSE
    BY <1>14, <1>10, <2>2 DEF CheckSession, At
  <2> QED BY <1>14, <2>1, <2>2 DEF CheckSession
<1>15. ASSUME NEW p \in Processes, LeaveLoop(p) PROVE Undisturbed'
  <2>1. AfterLoop(asked[p]) \in {"unlock", "unlink", "leave"}
    BY <1>k, Programs
  <2> QED BY <1>15, <1>10, <2>1 DEF LeaveLoop, At
<1> QED
    BY <1>1, <1>2, <1>3, <1>5, <1>6, <1>7, <1>11, <1>12, <1>13, <1>14, <1>15
    DEF Next, MainStep

\* A call that starts the daemon is answered if nothing disturbs it.
THEOREM CallsAnswered == Spec => []ActivationWorks
<1>1. Init => Undisturbed
    BY DaemonAssumption DEF Init, Undisturbed
<1>2. IInv /\ Undisturbed /\ [Next]_vars => Undisturbed'
    BY NextUndisturbed
<1>3. Undisturbed => ActivationWorks
    BY DEF Undisturbed, ActivationWorks
<1> QED BY <1>1, <1>2, <1>3, Invariant, PTL DEF Spec

-----------------------------------------------------------------------------
(* Daemon implements Service *)

\* There is one process in its loop at most, and it owns the name.
ServerOwns ==
    /\ \A p \in Processes : At(p, "loop") => Server = p /\ owner = p
    /\ Server # None => Server \in Processes /\ pc[Server] = "loop"

\* It follows from the order of the steps.
LEMMA ServerIs == Order => ServerOwns
BY DaemonAssumption DEF Order, Named, At, Server, ServerOwns

\* The name never goes straight from one owner to another.
LEMMA NameIsLeft ==
    ASSUME [Next]_vars
    PROVE  owner' = owner \/ owner = None \/ owner' = None
<1>1. CASE CallStop \/ StopContainer \/ UNCHANGED vars
    BY <1>1 DEF CallStop, StopContainer
<1>2. ASSUME NEW p \in Processes, Activate(p) \/ Launch(p) \/ Listen(p)
      PROVE  owner' = owner
    BY <1>2 DEF Activate, Launch, Listen
<1>3. ASSUME NEW p \in Processes, Kill(p) \/ End(p) \/ LeaveBus(p)
      PROVE  owner' \in {owner, None}
    BY <1>3 DEF Kill, End, Gone, LeaveBus
<1>4. ASSUME NEW p \in Processes,
             TakeLock(p) \/ Serve(p) \/ Subscribe(p) \/ CheckSession(p) \/ CheckApps(p)
               \/ LeaveLoop(p) \/ Unlock(p) \/ Unlink(p)
      PROVE  owner' = owner
    BY <1>4 DEF TakeLock, Serve, Subscribe, CheckSession, CheckApps, LeaveLoop, Unlock, Unlink
<1>5. ASSUME NEW p \in Processes, RegisterName(p)
      PROVE  owner = None \/ owner' = owner
    BY <1>5 DEF RegisterName
<1> QED BY <1>1, <1>2, <1>3, <1>4, <1>5 DEF Next, MainStep

\* Every step is a step of Service or changes nothing Service sees.
LEMMA RefinedStep == IInv /\ IInv' /\ [Next]_vars => [S!Next]_(S!vars)
<1> SUFFICES ASSUME IInv, IInv', [Next]_vars, ~(Server' = Server /\ owner' = owner)
             PROVE  S!Next
    BY DEF S!vars
<1>1. owner' = owner \/ owner = None \/ owner' = None
    BY NameIsLeft
<1>2. ServerOwns /\ ServerOwns'
  <2>1. Order /\ Order'
    BY DEF IInv
  <2> QED BY <2>1, ServerIs, PTL
<1>3. Server \in Processes \union {None} /\ Server' \in Processes \union {None}
    BY <1>2 DEF ServerOwns
<1>4. CASE Server = None /\ Server' = None
  <2>1. owner \in Processes \union {None} /\ owner' \in Processes \union {None}
    BY DEF IInv, TypeOK
  <2> QED BY <1>1, <1>4, <2>1 DEF S!Next, S!Appear, S!Vanish
<1>5. CASE Server = None /\ Server' # None
  <2>1. owner' = Server'
    BY <1>2, <1>3, <1>5 DEF ServerOwns, At
  <2>2. owner \in {None, Server'}
    BY <1>1, <1>3, <1>5, <2>1
  <2> QED BY <1>3, <1>5, <2>1, <2>2 DEF S!Next, S!Serve
<1>6. CASE Server # None /\ Server' = None
  <2>1. owner = Server
    BY <1>2, <1>3, <1>6 DEF ServerOwns, At
  <2> QED BY <1>1, <1>3, <1>6, <2>1, DaemonAssumption DEF S!Next, S!Finish
<1>7. CASE Server # None /\ Server' # None
  <2>1. pc[Server] = "loop" /\ pc'[Server'] = "loop" /\ owner = Server /\ owner' = Server'
    BY <1>2, <1>3, <1>7 DEF ServerOwns, At
  <2>2. Server' = Server
    BY <1>1, <1>7, <2>1
  <2> QED BY <2>1, <2>2
<1> QED BY <1>4, <1>5, <1>6, <1>7

\* Every daemon is a Service: one server at a time, found by its name as long as it serves.
THEOREM ServiceImplemented == Spec => ImplementsService
<1>1. Init => S!Init
    BY DEF Init, S!Init, Server, At
<1>2. IInv /\ IInv' /\ [Next]_vars => [S!Next]_(S!vars)
    BY RefinedStep
<1> QED BY <1>1, <1>2, Invariant, PTL DEF Spec, ImplementsService, S!Spec

=============================================================================
