------------------------ MODULE PlaybackServer_proofs ------------------------
(***************************************************************************)
(* Theorems about PlaybackServer, for any clients and any number of wakes: *)
(* the types, whose socket the path leads to, and what becomes of a        *)
(* connection that was accepted.                                           *)
(***************************************************************************)
EXTENDS PlaybackServer, TLAPS

USE DEF Working, Serving, workerVars, serverVars, clientVars, vars

-----------------------------------------------------------------------------
(* Types *)

\* A worker is made once for each wake, at its end.
WakesCounted ==
    /\ gen <= wakes + 1
    /\ spc # "idle" => gen <= wakes

Typed == TypeOK /\ WakesCounted

\* A crash leaves the connections closed, and nothing in the queue.
LEMMA CrashType ==
    ASSUME TypeOK, Survive \/ Crash
    PROVE  /\ alive' \in BOOLEAN
           /\ backlog' \in Seq(Clients)
           /\ conn' \in [Clients -> {"idle", "queued", "accepted", "closed"}]
<1>1. alive' \in BOOLEAN
    BY Zenon DEF Survive, Crash, TypeOK
<1>2. backlog' \in Seq(Clients)
  <2>1. backlog' = backlog \/ backlog' = <<>>
      BY DEF Survive, Crash
  <2>2. <<>> \in Seq(Clients)
      OBVIOUS
  <2>3. QED
      BY <2>1, <2>2 DEF TypeOK
<1>3. conn' \in [Clients -> {"idle", "queued", "accepted", "closed"}]
    BY DEF Survive, Crash, TypeOK
<1>4. QED
    BY <1>1, <1>2, <1>3

\* The types hold before the worker has begun.
LEMMA InitType == Init => Typed
<1> SUFFICES ASSUME Init
             PROVE  Typed
    OBVIOUS
<1>1. exit \in BOOLEAN /\ pcm \in BOOLEAN /\ alive \in BOOLEAN
    BY Zenon DEF Init
<1>2. backlog \in Seq(Clients)
    BY DEF Init
<1>3. gen \in 1..MaxWakes + 1 /\ path \in 0..gen /\ wakes \in 0..MaxWakes
    BY PlaybackAssumption DEF Init
<1>4. QED
    BY <1>1, <1>2, <1>3 DEF Init, Typed, TypeOK, WakesCounted

\* Every step of a client and of both threads keeps the types.
LEMMA NextType == Typed /\ [Next]_vars => Typed'
<1> SUFFICES ASSUME Typed, [Next]_vars
             PROVE  Typed'
    OBVIOUS
<1> USE PlaybackAssumption DEF Typed, TypeOK, WakesCounted
<1>1. ASSUME NEW c \in Clients, Connect(c)
      PROVE  Typed'
    BY <1>1 DEF Connect
<1>2. ASSUME NEW c \in Clients, SendType(c)
      PROVE  Typed'
    BY <1>2 DEF SendType
<1>3. ASSUME NEW c \in Clients, Disconnect(c)
      PROVE  Typed'
    BY <1>3 DEF Disconnect
<1>4. CASE InitData
  <2>1. alive' \in BOOLEAN /\ backlog' \in Seq(Clients)
        /\ conn' \in [Clients -> {"idle", "queued", "accepted", "closed"}]
      BY <1>4, CrashType DEF InitData
  <2>2. pcm' \in BOOLEAN
      BY <1>4, Zenon DEF InitData
  <2>3. QED
      BY <1>4, <2>1, <2>2 DEF InitData
<1>5. CASE Listen
    BY <1>5 DEF Listen
<1>6. CASE Accept
  <2>1. ASSUME backlog # <<>>
        PROVE  Head(backlog) \in Clients /\ Tail(backlog) \in Seq(Clients)
      BY <2>1
  <2>2. QED
      BY <1>6, <2>1 DEF Accept
<1>7. CASE Assign
    BY <1>7 DEF Assign
<1>8. CASE ReadType
    BY <1>8 DEF ReadType, CloseStream, Exiting
<1>9. CASE OpenDevice
  <2>1. alive' \in BOOLEAN /\ backlog' \in Seq(Clients)
        /\ conn' \in [Clients -> {"idle", "queued", "accepted", "closed"}]
      BY <1>9, CrashType DEF OpenDevice
  <2>2. pcm' \in BOOLEAN
      BY <1>9, Zenon DEF OpenDevice
  <2>3. QED
      BY <1>9, <2>1, <2>2 DEF OpenDevice
<1>10. CASE ReadData
    BY <1>10 DEF ReadData
<1>11. CASE EndClient
  <2>1. pcm' \in BOOLEAN
      BY <1>11, Zenon DEF EndClient
  <2>2. QED
      BY <1>11, <2>1 DEF EndClient, CloseStream, Exiting
<1>12. CASE Wake
    BY <1>12 DEF Wake
<1>13. CASE LookAtStream
    BY <1>13 DEF LookAtStream
<1>14. CASE StopStream
  <2>1. alive' \in BOOLEAN /\ backlog' \in Seq(Clients)
        /\ conn' \in [Clients -> {"idle", "queued", "accepted", "closed"}]
      BY <1>14, CrashType DEF StopStream
  <2>2. QED
      BY <1>14, <2>1 DEF StopStream
<1>15. CASE StopListen
    BY <1>15 DEF StopListen
<1>16. CASE SetExit
  <2>1. exit' \in BOOLEAN
      BY <1>16, Zenon DEF SetExit
  <2>2. QED
      BY <1>16, <2>1 DEF SetExit
<1>17. CASE ReplaceWorker
  <2>1. exit' \in BOOLEAN /\ pcm' \in BOOLEAN
      BY <1>17, Zenon DEF ReplaceWorker
  <2>2. backlog' \in Seq(Clients)
      BY <1>17 DEF ReplaceWorker
  <2>3. QED
      BY <1>17, <2>1, <2>2 DEF ReplaceWorker
<1>18. CASE UNCHANGED vars
    BY <1>18
<1>19. QED
    BY <1>1, <1>2, <1>3, <1>4, <1>5, <1>6, <1>7, <1>8, <1>9, <1>10, <1>11, <1>12, <1>13,
       <1>14, <1>15, <1>16, <1>17, <1>18 DEF Next, Worker, OnSleep

\* Both threads keep the types of what they share: the worker serves a client only
\* through a stream it has and plays on an open device, and no more workers are made
\* than the computer has woken.
THEOREM TypeCorrect == Spec => []TypeOK
<1>1. Typed => TypeOK
    BY DEF Typed
<1>2. QED
    BY <1>1, InitType, NextType, PTL DEF Spec

-----------------------------------------------------------------------------
(* The socket's path *)

\* Whichever worker listens, the path leads to its socket: an old worker's file is
\* removed before its successor listens, never after.
THEOREM PathFollowed == Spec => []PathIsOurs
<1>1. Init => PathIsOurs
    BY DEF Init, PathIsOurs
<1>2. PathIsOurs /\ [Next]_vars => PathIsOurs'
  <2> SUFFICES ASSUME PathIsOurs, [Next]_vars
               PROVE  PathIsOurs'
      OBVIOUS
  <2> USE DEF PathIsOurs
  <2>1. CASE Worker
      BY <2>1 DEF Worker, InitData, Listen, Accept, Assign, ReadType, OpenDevice, ReadData,
                  EndClient
  <2>2. CASE Wake \/ OnSleep
      BY <2>2 DEF Wake, OnSleep, LookAtStream, StopStream, StopListen, SetExit, ReplaceWorker
  <2>3. ASSUME NEW c \in Clients, Connect(c) \/ SendType(c) \/ Disconnect(c)
        PROVE  PathIsOurs'
      BY <2>3 DEF Connect, SendType, Disconnect
  <2>4. CASE UNCHANGED vars
      BY <2>4
  <2>5. QED
      BY <2>1, <2>2, <2>3, <2>4 DEF Next
<1>3. QED
    BY <1>1, <1>2, PTL DEF Spec

-----------------------------------------------------------------------------
(* Accepted connections *)

Serves == pc \in {"type", "open", "read", "end"}

\* What accept returned is assigned next, and m_stream is overwritten only when the
\* worker has given it up.
NothingLoose ==
    /\ got # None => pc = "assign"
    /\ ~Serves => stream \in orphaned \cup {None}

KeepInv == TypeOK /\ NothingLoose /\ AcceptedAreKept

\* The steps of the clients accept nothing and give nothing up.
LEMMA ClientsKeep ==
    ASSUME KeepInv, NEW c \in Clients, Connect(c) \/ SendType(c) \/ Disconnect(c)
    PROVE  NothingLoose' /\ AcceptedAreKept'
<1> USE DEF KeepInv, TypeOK, NothingLoose, AcceptedAreKept, Serves
<1>1. CASE Connect(c)
    BY <1>1 DEF Connect
<1>2. CASE SendType(c) \/ Disconnect(c)
    BY <1>2 DEF SendType, Disconnect
<1>3. QED
    BY <1>1, <1>2

\* Each step of the worker passes a connection on, closes it, or gives it up.
LEMMA WorkerKeeps ==
    ASSUME KeepInv, Worker
    PROVE  NothingLoose' /\ AcceptedAreKept'
<1> USE PlaybackAssumption DEF KeepInv, TypeOK, NothingLoose, AcceptedAreKept, Serves
<1>1. CASE InitData
    BY <1>1 DEF InitData, Survive, Crash
<1>2. CASE Listen
    BY <1>2 DEF Listen
<1>3. CASE Accept
  <2>1. ASSUME backlog # <<>>
        PROVE  Head(backlog) \in Clients
      BY <2>1
  <2>2. QED
      BY <1>3, <2>1 DEF Accept
<1>4. CASE Assign
    BY <1>4 DEF Assign
<1>5. CASE ReadType
    BY <1>5 DEF ReadType, CloseStream, Exiting
<1>6. CASE OpenDevice
    BY <1>6 DEF OpenDevice, Survive, Crash
<1>7. CASE ReadData
    BY <1>7 DEF ReadData
<1>8. CASE EndClient
    BY <1>8 DEF EndClient, CloseStream, Exiting
<1>9. QED
    BY <1>1, <1>2, <1>3, <1>4, <1>5, <1>6, <1>7, <1>8 DEF Worker

\* The server thread closes no connection that was accepted, and replaces a worker
\* only when it holds nothing.
LEMMA ServerKeeps ==
    ASSUME KeepInv, Wake \/ OnSleep
    PROVE  NothingLoose' /\ AcceptedAreKept'
<1> USE DEF KeepInv, TypeOK, NothingLoose, AcceptedAreKept, Serves
<1>1. CASE Wake \/ LookAtStream \/ StopListen \/ SetExit
    BY <1>1 DEF Wake, LookAtStream, StopListen, SetExit
<1>2. CASE StopStream
    BY <1>2 DEF StopStream, Survive, Crash
<1>3. CASE ReplaceWorker
    BY <1>3 DEF ReplaceWorker
<1>4. QED
    BY <1>1, <1>2, <1>3 DEF OnSleep

\* However a wake interrupts the worker, a connection that was accepted is closed,
\* or still held, or is one of those the code gives up knowingly: at an exit, and
\* when the device does not open.
THEOREM AcceptedKept == Spec => []AcceptedAreKept
<1>1. Init => NothingLoose /\ AcceptedAreKept
    BY DEF Init, NothingLoose, AcceptedAreKept, Serves
<1>2. KeepInv /\ [Next]_vars => NothingLoose' /\ AcceptedAreKept'
  <2>1. KeepInv /\ UNCHANGED vars => NothingLoose' /\ AcceptedAreKept'
      BY DEF KeepInv, NothingLoose, AcceptedAreKept, Serves
  <2>2. QED
      BY <2>1, ClientsKeep, WorkerKeeps, ServerKeeps DEF Next
<1>3. QED
    BY <1>1, <1>2, TypeCorrect, PTL DEF Spec, KeepInv
=============================================================================
