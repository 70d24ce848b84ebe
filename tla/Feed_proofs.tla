---------------------------- MODULE Feed_proofs ----------------------------
(***************************************************************************)
(* Theorems about Feed, for both daemons and any number of clients, values *)
(* and descriptors: the types, the clients that are kept although nothing  *)
(* locks m_stream, and when a null stream can be used at all.              *)
(***************************************************************************)
EXTENDS Feed, FiniteSetTheorems, TLAPS

USE DEF feedVars, clientVars, processVars, vars, Threads, At, Goto

-----------------------------------------------------------------------------
(* Types *)

Labels == {"listen", "failed", "accept", "copy", "done", "test", "send", "update",
           "test again", "send again"}

\* Until the worker's accept has returned m_stream is null and nothing is written; in the
\* sensor daemon it does nothing after that.
Startup ==
    /\ pc["worker"] \in {"listen", "failed", "accept"} =>
           stream = None /\ pc["main"] \in {"done", "test"}
    /\ kind = "sensor" => pc["worker"] \in {"listen", "failed", "accept", "done"}

TypeInv == TypeOK /\ Startup

\* A client more keeps a queue a queue of clients.
LEMMA Appended ==
    ASSUME NEW q \in Seq(Clients), NEW c \in Clients
    PROVE  Append(q, c) \in Seq(Clients)
OBVIOUS

\* What accept leaves is a client or None, and the queue and the ends keep their types.
LEMMA TakeClientType ==
    ASSUME TypeOK, TakeClient
    PROVE  /\ stream' \in Clients \union {None}
           /\ backlog' \in Seq(Clients)
           /\ conn' \in [Clients -> {"idle", "queued", "accepted", "closed"}]
<1>1. CASE Full /\ stream' = None /\ UNCHANGED <<backlog, conn>>
    BY <1>1 DEF TypeOK
<1>2. CASE ~Full /\ backlog # <<>> /\ stream' = Head(backlog) /\ backlog' = Tail(backlog)
           /\ conn' = [conn EXCEPT ![Head(backlog)] = "accepted"]
  <2>0. backlog \in Seq(Clients) /\ backlog # <<>>
      BY <1>2 DEF TypeOK
  <2>1. Head(backlog) \in Clients /\ Tail(backlog) \in Seq(Clients)
      BY <2>0
  <2>2. QED
      BY <1>2, <2>1 DEF TypeOK
<1>3. QED
    BY <1>1, <1>2 DEF TakeClient

\* The end of the process keeps the types.
LEMMA DieType ==
    ASSUME TypeOK, Die
    PROVE  /\ alive' = FALSE
           /\ backlog' \in Seq(Clients)
           /\ conn' \in [Clients -> {"idle", "queued", "accepted", "closed"}]
<1>1. <<>> \in Seq(Clients)
    OBVIOUS
<1>2. QED
    BY <1>1 DEF TypeOK, Die

LEMMA InitType == Init => TypeInv
<1> SUFFICES ASSUME Init
             PROVE  TypeInv
    OBVIOUS
<1>1. /\ alive \in BOOLEAN /\ stop \in BOOLEAN /\ crashed \in BOOLEAN
      /\ overtaken \in BOOLEAN /\ raced \in BOOLEAN
    BY Zenon DEF Init
<1>2. backlog \in Seq(Clients)
    BY DEF Init
<1>3. pc \in [Threads -> Labels] /\ pc["worker"] = "listen" /\ pc["main"] = "done"
    BY DEF Init, Labels
<1>4. QED
    BY <1>1, <1>2, <1>3, FeedAssumption DEF Init, TypeInv, TypeOK, Startup, Labels

LEMMA NextType == TypeInv /\ [Next]_vars => TypeInv'
<1> SUFFICES ASSUME TypeInv, [Next]_vars
             PROVE  TypeInv'
    OBVIOUS
<1> USE FeedAssumption DEF TypeInv, TypeOK, Startup
<1>1. ASSUME NEW c \in Clients, Connect(c) \/ Disconnect(c)
      PROVE  TypeInv'
  <2>1. CASE Connect(c)
    <3>1. Append(backlog, c) \in Seq(Clients)
        BY Appended
    <3>2. QED
        BY <2>1, <3>1 DEF Connect
  <2>2. CASE Disconnect(c)
      BY <2>2 DEF Disconnect
  <2>3. QED
      BY <1>1, <2>1, <2>2
<1>2. CASE StopContainer
  <2>1. stop' \in BOOLEAN
      BY <1>2, Zenon DEF StopContainer
  <2>2. QED
      BY <1>2, <2>1 DEF StopContainer
<1>3. CASE Listen
    BY <1>3 DEF Listen
<1>4. CASE Accept
    BY <1>4, TakeClientType DEF Accept
<1>5. CASE Copy
    BY <1>5 DEF Copy
<1>6. ASSUME NEW v \in Values, Pass(v)
      PROVE  TypeInv'
  <2>1. overtaken' \in BOOLEAN
      BY <1>6, Zenon DEF Pass
  <2>2. QED
      BY <1>6, <2>1 DEF Pass
<1>7. ASSUME NEW t \in Threads, Test(t)
      PROVE  TypeInv'
  <2>1. UNCHANGED <<kind, arg, current, stream, overtaken, raced, processVars, clientVars>>
      BY <1>7 DEF Test
  <2>2. PICK l \in {"done", "send", "send again"} : pc' = [pc EXCEPT ![t] = l]
      BY <1>7, Zenon DEF Test
  <2>3. l = "send" => stream # None
      BY <1>7, <2>2 DEF Test
  <2>4. /\ pc["worker"] \notin {"listen", "failed", "accept"} \/ (t = "main" /\ l = "done")
        /\ kind = "sensor" => t = "main"
      BY <1>7, <2>2 DEF Test
  <2>5. QED
      BY <2>1, <2>2, <2>3, <2>4
<1>8. ASSUME NEW t \in Threads, UseNull(t)
      PROVE  TypeInv'
  <2>1. crashed' \in BOOLEAN /\ alive' \in BOOLEAN
      BY <1>8, Zenon DEF UseNull, Die
  <2>2. QED
      BY <1>8, <2>1, DieType DEF UseNull
<1>9. ASSUME NEW t \in Threads, Write(t)
      PROVE  TypeInv'
    BY <1>9 DEF Write
<1>10. ASSUME NEW t \in Threads, WriteFails(t)
       PROVE  TypeInv'
  <2>1. raced' \in BOOLEAN
      BY <1>10, Zenon DEF WriteFails
  <2>2. QED
      BY <1>10, <2>1 DEF WriteFails
<1>11. ASSUME NEW t \in Threads, UpdateSocket(t)
       PROVE  TypeInv'
  <2>1. /\ stream' \in Clients \union {None} /\ backlog' \in Seq(Clients)
        /\ conn' \in [Clients -> {"idle", "queued", "accepted", "closed"}]
      BY <1>11, TakeClientType DEF UpdateSocket
  <2>2. /\ pc["worker"] \notin {"listen", "failed", "accept"}
        /\ kind = "sensor" => t = "main"
      BY <1>11 DEF UpdateSocket
  <2>3. pc' \in [Threads -> {"listen", "failed", "accept", "copy", "done", "test", "send",
                              "update", "test again", "send again"}]
      BY <1>11 DEF UpdateSocket
  <2>4. /\ pc'["main"] \notin {"listen", "failed", "accept", "copy"}
        /\ kind = "sensor" => pc'["main"] = "send again" /\ pc'["worker"] = "done"
        /\ pc'["worker"] \notin {"listen", "failed", "accept"}
      BY <1>11, <2>2 DEF UpdateSocket
  <2>5. QED
      BY <1>11, <2>1, <2>3, <2>4 DEF UpdateSocket
<1>12. CASE OnStopApplication
  <2>1. alive' \in BOOLEAN
      BY <1>12, Zenon DEF OnStopApplication, Die
  <2>2. QED
      BY <1>12, <2>1, DieType DEF OnStopApplication
<1>13. CASE UNCHANGED vars
    BY <1>13
<1>14. QED
    BY <1>1, <1>2, <1>3, <1>4, <1>5, <1>6, <1>7, <1>8, <1>9, <1>10, <1>11, <1>12, <1>13
       DEF Next, Step

\* Both daemons keep their types; the sensor daemon's first write has a stream.
THEOREM TypeCorrect == Spec => []TypeOK
<1>1. TypeInv => TypeOK
    BY DEF TypeInv
<1>2. QED
    BY <1>1, InitType, NextType, PTL DEF Spec

-----------------------------------------------------------------------------
(* Clients that listen *)

\* A thread that goes to accept a client has found the one before it gone, and only
\* one of them does unless they race.
Replacing ==
    /\ \A t \in Threads : alive /\ pc[t] = "update" => stream \in ended \union {None} \/ raced
    /\ (\A t \in Threads : pc[t] = "update") => raced

KeptInv == TypeInv /\ Replacing /\ LiveClientKept

\* Accepting a client forgets none, when the stream that is overwritten has ended.
LEMMA TakeClientKeeps ==
    ASSUME TypeInv, LiveClientKept, TakeClient, UNCHANGED <<ended, raced>>,
           stream \in ended \union {None} \/ raced
    PROVE  LiveClientKept'
<1>1. CASE Full /\ stream' = None /\ UNCHANGED <<backlog, conn>>
    BY <1>1, FeedAssumption DEF LiveClientKept, TypeInv, TypeOK
<1>2. CASE ~Full /\ backlog # <<>> /\ stream' = Head(backlog) /\ backlog' = Tail(backlog)
           /\ conn' = [conn EXCEPT ![Head(backlog)] = "accepted"]
  <2>1. \A c \in Clients : conn'[c] = "accepted" => c = stream' \/ conn[c] = "accepted"
      BY <1>2 DEF TypeInv, TypeOK
  <2>2. QED
      BY <2>1, FeedAssumption DEF LiveClientKept
<1>3. QED
    BY <1>1, <1>2 DEF TakeClient

LEMMA NextKept == KeptInv /\ [Next]_vars => KeptInv'
<1> SUFFICES ASSUME KeptInv, [Next]_vars
             PROVE  KeptInv'
    OBVIOUS
<1>t. TypeInv /\ TypeInv'
    BY NextType DEF KeptInv
<1>p. pc \in [Threads -> Labels]
    BY <1>t DEF TypeInv, TypeOK, Labels
<1>1. ASSUME NEW c \in Clients, Connect(c) \/ Disconnect(c)
      PROVE  KeptInv'
  <2>1. Replacing'
      BY <1>1 DEF KeptInv, Replacing, Connect, Disconnect
  <2>2. LiveClientKept'
      BY <1>1, <1>t DEF KeptInv, LiveClientKept, Connect, Disconnect, TypeInv, TypeOK
  <2>3. QED
      BY <1>t, <2>1, <2>2 DEF KeptInv
<1>2. CASE StopContainer \/ Listen \/ Copy \/ UNCHANGED vars
  <2>1. UNCHANGED <<stream, alive, conn, ended, raced>>
        /\ \A t \in Threads : pc'[t] = "update" => pc[t] = "update"
      BY <1>2, <1>p DEF StopContainer, Listen, Copy
  <2>2. QED
      BY <1>t, <2>1 DEF KeptInv, Replacing, LiveClientKept
<1>3. ASSUME NEW v \in Values, Pass(v)
      PROVE  KeptInv'
  <2>1. UNCHANGED <<stream, alive, conn, ended, raced>>
        /\ \A t \in Threads : pc'[t] = "update" => pc[t] = "update"
      BY <1>3, <1>p DEF Pass
  <2>2. QED
      BY <1>t, <2>1 DEF KeptInv, Replacing, LiveClientKept
<1>4. ASSUME NEW u \in Threads, Test(u) \/ Write(u)
      PROVE  KeptInv'
  <2>1. UNCHANGED <<stream, alive, conn, ended, raced>>
        /\ \A t \in Threads : pc'[t] = "update" => pc[t] = "update"
      BY <1>4, <1>p DEF Test, Write
  <2>2. QED
      BY <1>t, <2>1 DEF KeptInv, Replacing, LiveClientKept
<1>5. CASE Accept
  <2>1. stream = None /\ UNCHANGED <<ended, raced>> /\ TakeClient
      BY <1>5, <1>t DEF Accept, TypeInv, Startup
  <2>2. LiveClientKept'
      BY <2>1, <1>t, TakeClientKeeps DEF KeptInv
  <2>3. \A t \in Threads : pc'[t] # "update"
      BY <1>5, <1>t, <1>p DEF Accept, TypeInv, Startup
  <2>4. QED
      BY <1>t, <2>2, <2>3 DEF KeptInv, Replacing
<1>6. ASSUME NEW u \in Threads, WriteFails(u)
      PROVE  KeptInv'
  <2>1. raced => raced'
      BY <1>6, Zenon DEF WriteFails
  <2>2. UNCHANGED <<stream, alive, conn, ended>> /\ stream \in ended
      BY <1>6 DEF WriteFails
  <2>3. LiveClientKept'
      BY <2>1, <2>2, <1>t DEF KeptInv, LiveClientKept
  <2>4. (\A t \in Threads : pc'[t] = "update") => raced'
    <3>1. SUFFICES ASSUME \A t \in Threads : pc'[t] = "update"
                   PROVE  raced'
        OBVIOUS
    <3>2. pc[u] = "send"
        BY <1>6, <3>1, <1>p DEF WriteFails
    <3>3. \E t \in Threads \ {u} : pc[t] = "update"
        BY <1>6, <3>1, <1>p DEF WriteFails
    <3>4. QED
        BY <1>6, <3>2, <3>3, Zenon DEF WriteFails
  <2>5. QED
      BY <1>t, <2>2, <2>3, <2>4 DEF KeptInv, Replacing
<1>7. ASSUME NEW u \in Threads, UpdateSocket(u)
      PROVE  KeptInv'
  <2>1. alive /\ pc[u] = "update" /\ TakeClient /\ UNCHANGED <<ended, raced>>
      BY <1>7 DEF UpdateSocket
  <2>2. stream \in ended \union {None} \/ raced
      BY <2>1 DEF KeptInv, Replacing
  <2>3. LiveClientKept'
      BY <2>1, <2>2, <1>t, TakeClientKeeps DEF KeptInv
  <2>4. pc'[u] # "update" /\ \A t \in Threads \ {u} : pc'[t] = pc[t]
      BY <1>7, <1>p DEF UpdateSocket
  <2>5. (\A t \in Threads : pc[t] = "update") \/ \A t \in Threads : pc'[t] # "update"
      BY <2>1, <2>4
  <2>6. Replacing'
      BY <2>1, <2>4, <2>5 DEF KeptInv, Replacing
  <2>7. QED
      BY <1>t, <2>3, <2>6 DEF KeptInv
<1>8. ASSUME Die, UNCHANGED <<pc, stream, ended, raced>>
      PROVE  KeptInv'
    BY <1>8, <1>t DEF Die, KeptInv, Replacing, LiveClientKept, TypeInv, TypeOK
<1>9. ASSUME NEW u \in Threads, UseNull(u)
      PROVE  KeptInv'
    BY <1>8, <1>9 DEF UseNull
<1>10. CASE OnStopApplication
    BY <1>8, <1>10 DEF OnStopApplication
<1>11. QED
    BY <1>1, <1>2, <1>3, <1>4, <1>5, <1>6, <1>7, <1>9, <1>10 DEF Next, Step

\* No thread forgets a client that listens, unless both have gone to accept one.
THEOREM ClientsKept == Spec => []LiveClientKept
<1>1. Init => KeptInv
    BY InitType DEF Init, KeptInv, Replacing, LiveClientKept
<1>2. KeptInv => LiveClientKept
    BY DEF KeptInv
<1>3. QED
    BY <1>1, <1>2, NextKept, PTL DEF Spec

-----------------------------------------------------------------------------
(* Null streams *)

\* A thread about to write finds a stream, unless no client could be accepted.
NullInv ==
    /\ TypeInv
    /\ \A t \in Threads :
           alive /\ pc[t] \in {"send", "send again"} /\ stream = None => Full

\* Descriptors are not given back while the process runs.
LEMMA FullStays ==
    ASSUME \A c \in Clients : conn[c] = "accepted" => conn'[c] = "accepted",
           Full
    PROVE  Full'
<1> DEFINE A == {c \in Clients : conn[c] = "accepted"}
           B == {c \in Clients : conn'[c] = "accepted"}
<1>1. IsFiniteSet(B) /\ A \subseteq B
    BY FeedAssumption, FS_Subset
<1>2. Cardinality(A) <= Cardinality(B) /\ Cardinality(A) \in Nat /\ Cardinality(B) \in Nat
    BY <1>1, FS_Subset, FS_CardinalityType
<1>3. QED
    BY <1>2, FeedAssumption DEF Full

\* Accepting fails only when the process is at its limit, and then stays there.
LEMMA TakeClientFull ==
    ASSUME TypeInv, TakeClient
    PROVE  (stream' = None => Full') /\ (Full => Full')
<1>1. \A c \in Clients : conn[c] = "accepted" => conn'[c] = "accepted"
    BY DEF TakeClient, TypeInv, TypeOK
<1>2. stream' = None => Full
  <2>1. backlog \in Seq(Clients)
      BY DEF TypeInv, TypeOK
  <2>2. backlog # <<>> => Head(backlog) \in Clients
      BY <2>1
  <2>3. QED
      BY <2>2, FeedAssumption DEF TakeClient
<1>3. QED
    BY <1>1, <1>2, FullStays

LEMMA NextNull == NullInv /\ [Next]_vars => NullInv'
<1> SUFFICES ASSUME NullInv, [Next]_vars
             PROVE  NullInv'
    OBVIOUS
<1>t. TypeInv /\ TypeInv'
    BY NextType DEF NullInv
<1>p. pc \in [Threads -> Labels] /\ conn \in [Clients -> {"idle", "queued", "accepted", "closed"}]
    BY <1>t DEF TypeInv, TypeOK, Labels
<1>1. ASSUME NEW c \in Clients, Connect(c) \/ Disconnect(c)
      PROVE  NullInv'
  <2>1. \A e \in Clients : conn[e] = "accepted" => conn'[e] = "accepted"
      BY <1>1, <1>p DEF Connect, Disconnect
  <2>2. Full => Full'
      BY <2>1, FullStays
  <2>3. UNCHANGED <<pc, stream, alive>>
      BY <1>1 DEF Connect, Disconnect
  <2>4. QED
      BY <1>t, <2>2, <2>3 DEF NullInv
<1>2. CASE StopContainer \/ Listen \/ Copy \/ (\E v \in Values : Pass(v)) \/ UNCHANGED vars
  <2>1. UNCHANGED <<stream, alive, conn>>
        /\ \A t \in Threads : pc'[t] \in {"send", "send again"} => pc'[t] = pc[t]
      BY <1>2, <1>p DEF StopContainer, Listen, Copy, Pass
  <2>2. Full' <=> Full
      BY <2>1 DEF Full
  <2>3. QED
      BY <1>t, <2>1, <2>2 DEF NullInv
<1>3. ASSUME NEW u \in Threads, Test(u)
      PROVE  NullInv'
  <2>1. UNCHANGED <<stream, alive, conn>>
        /\ \A t \in Threads : pc'[t] \in {"send", "send again"} =>
               pc'[t] = pc[t] \/ stream # None
      BY <1>3, <1>p DEF Test
  <2>2. Full' <=> Full
      BY <2>1 DEF Full
  <2>3. QED
      BY <1>t, <2>1, <2>2 DEF NullInv
<1>4. ASSUME NEW u \in Threads, Write(u) \/ WriteFails(u)
      PROVE  NullInv'
    BY <1>4, <1>t DEF Write, WriteFails, NullInv
<1>5. ASSUME TakeClient
      PROVE  NullInv'
    BY <1>5, <1>t, TakeClientFull DEF NullInv
<1>6. CASE Accept
    BY <1>5, <1>6 DEF Accept
<1>7. ASSUME NEW u \in Threads, UpdateSocket(u)
      PROVE  NullInv'
    BY <1>5, <1>7 DEF UpdateSocket
<1>8. ASSUME Die
      PROVE  NullInv'
    BY <1>8, <1>t DEF Die, NullInv
<1>9. ASSUME NEW u \in Threads, UseNull(u)
      PROVE  NullInv'
    BY <1>8, <1>9 DEF UseNull
<1>10. CASE OnStopApplication
    BY <1>8, <1>10 DEF OnStopApplication
<1>11. QED
    BY <1>1, <1>2, <1>3, <1>4, <1>6, <1>7, <1>9, <1>10 DEF Next, Step

\* Neither daemon uses a null stream before the descriptors have run out.
THEOREM NullOnlyWhenFull == Spec => NoCrash
<1>1. Init => NullInv
    BY InitType DEF Init, NullInv
<1>2. NullInv /\ [Next]_vars => [~crashed /\ crashed' => Full]_vars
  <2>1. SUFFICES ASSUME NullInv, Next, ~crashed, crashed'
                 PROVE  Full
      OBVIOUS
  <2>2. PICK t \in Threads : UseNull(t)
      BY <2>1, Zenon DEF Next, Step, Connect, Disconnect, StopContainer, Listen, Accept, Copy,
                  Pass, Test, Write, WriteFails, UpdateSocket, OnStopApplication
  <2>3. QED
      BY <2>1, <2>2 DEF UseNull, NullInv
<1>3. QED
    BY <1>1, <1>2, NextNull, PTL DEF Spec, NoCrash

-----------------------------------------------------------------------------
(* The newest position *)

Sending == {"test", "send", "update", "test again", "send again"}

\* The client there is has the newest position, or there is none that listens.
Told == stream = None \/ stream \in ended \/ last[stream] = current

\* What a thread is sending is the newest position: the worker copies it after the
\* calls that came before, and a later call has overtaken it.  While the client has not
\* got it, a thread is still about to send it.
Newest ==
    kind = "gps" /\ alive /\ ~overtaken =>
        /\ \A t \in Threads : pc[t] \in Sending => arg[t] = current
        /\ Told \/ \E t \in Threads : pc[t] \in Sending \cup {"copy"}

NewestInv == TypeInv /\ Newest

\* Every step keeps the newest position under way until the client has it.
LEMMA NextNewest == NewestInv /\ [Next]_vars => NewestInv'
<1> SUFFICES ASSUME NewestInv, [Next]_vars
             PROVE  NewestInv'
    OBVIOUS
<1>t. TypeInv /\ TypeInv'
    BY NextType DEF NewestInv
<1>p. pc \in [Threads -> {"listen", "failed", "accept", "copy", "done", "test", "send", "update",
                          "test again", "send again"}]
      /\ pc["main"] \notin {"listen", "failed", "accept", "copy"}
    BY <1>t DEF TypeInv, TypeOK
<1>a. /\ arg \in [Threads -> Values] /\ last \in [Clients -> Values \union {None}]
      /\ stream \in Clients \union {None}
    BY <1>t DEF TypeInv, TypeOK
<1>n. Newest
    BY DEF NewestInv
<1> SUFFICES Newest'
    BY <1>t DEF NewestInv
<1> USE DEF Sending
<1>0. ASSUME UNCHANGED <<kind, alive, overtaken, pc, arg, current, stream, last>>,
             ended \subseteq ended'
      PROVE  Newest'
  <2>1. Told => Told'
      BY <1>0 DEF Told
  <2>2. QED
      BY <1>0, <1>n, <2>1 DEF Newest
<1>1. ASSUME NEW c \in Clients, Connect(c) \/ Disconnect(c)
      PROVE  Newest'
    BY <1>0, <1>1 DEF Connect, Disconnect
<1>2. CASE StopContainer \/ UNCHANGED vars
    BY <1>0, <1>2 DEF StopContainer
<1>3. CASE Listen
    BY <1>3, <1>n, <1>p DEF Listen, Newest, Told
<1>4. CASE Copy
    BY <1>4, <1>n, <1>p, <1>a DEF Copy, Newest, Told
<1>5. ASSUME NEW v \in Values, Pass(v)
      PROVE  Newest'
  <2>1. SUFFICES ASSUME kind = "gps", ~overtaken'
                 PROVE  /\ \A t \in Threads : pc'[t] \in Sending => arg'[t] = current'
                        /\ pc'["main"] \in Sending
      BY <1>5 DEF Pass, Newest
  <2>2. /\ pc["worker"] \notin Sending
        /\ pc' = [pc EXCEPT !["main"] = "test"] /\ arg' = [arg EXCEPT !["main"] = v]
        /\ current' = v
      BY <1>5, <2>1 DEF Pass
  <2>3. QED
      BY <2>2, <1>p, <1>a
<1>6. CASE Accept
  <2>1. stream' = None => Told'
      BY DEF Told
  <2>2. kind = "gps" /\ stream' # None => pc'["worker"] = "copy"
      BY <1>6, <1>p DEF Accept
  <2>3. \A t \in Threads : pc'[t] \in Sending => pc[t] \in Sending
      BY <1>6, <1>p DEF Accept
  <2>4. QED
      BY <1>6, <1>n, <2>1, <2>2, <2>3 DEF Accept, Newest
<1>7. ASSUME NEW u \in Threads, Test(u)
      PROVE  Newest'
  <2>1. CASE stream = None
      <3>1. Told'
          BY <1>7, <2>1 DEF Test, Told
      <3>2. \A t \in Threads : pc'[t] \in Sending => pc[t] \in Sending
          BY <1>7, <1>p DEF Test
      <3>3. QED
          BY <1>7, <1>n, <3>1, <3>2 DEF Test, Newest
  <2>2. CASE stream # None
      <3>1. \A t \in Threads : pc'[t] \in Sending <=> pc[t] \in Sending
          BY <1>7, <1>p, <2>2 DEF Test
      <3>2. pc'[u] \in Sending
          BY <1>7, <1>p, <2>2 DEF Test
      <3>3. QED
          BY <1>7, <1>n, <3>1, <3>2 DEF Test, Newest
  <2>3. QED
      BY <2>1, <2>2
<1>8. ASSUME NEW u \in Threads, Write(u)
      PROVE  Newest'
  <2>1. pc[u] \in Sending /\ stream \in Clients /\ last' = [last EXCEPT ![stream] = arg[u]]
      BY <1>8, <1>a DEF Write
  <2>2. kind = "gps" /\ alive /\ ~overtaken => last'[stream] = current
      BY <2>1, <1>a, <1>n DEF Newest
  <2>3. \A t \in Threads : pc'[t] \in Sending => pc[t] \in Sending
      BY <1>8, <1>p DEF Write
  <2>4. QED
      BY <1>8, <1>n, <2>2, <2>3 DEF Write, Newest, Told
<1>9. ASSUME NEW u \in Threads, WriteFails(u)
      PROVE  Newest'
  <2>1. \A t \in Threads : pc'[t] \in Sending => pc[t] \in Sending
      BY <1>9, <1>p DEF WriteFails
  <2>2. QED
      BY <1>9, <1>n, <2>1 DEF WriteFails, Newest, Told
<1>10. ASSUME NEW u \in Threads, UpdateSocket(u)
       PROVE  Newest'
  <2>1. \A t \in Threads : pc'[t] \in Sending => pc[t] \in Sending
      BY <1>10, <1>p DEF UpdateSocket
  <2>2. kind = "gps" => stream' = None \/ pc'[u] = "test again"
      BY <1>10, <1>p DEF UpdateSocket
  <2>3. QED
      BY <1>10, <1>n, <2>1, <2>2 DEF UpdateSocket, Newest, Told
<1>11. ASSUME NEW u \in Threads, UseNull(u)
       PROVE  Newest'
    BY <1>11 DEF UseNull, Die, Newest
<1>12. CASE OnStopApplication
    BY <1>12 DEF OnStopApplication, Die, Newest
<1>13. QED
    BY <1>1, <1>2, <1>3, <1>4, <1>5, <1>6, <1>7, <1>8, <1>9, <1>10, <1>11, <1>12
       DEF Next, Step

\* At rest the client that is connected has the newest position, in whatever order the
\* two threads sent theirs, however often one of them had to accept another client.
THEOREM NewestArrives == Spec => []NewestWins
<1>1. Init => NewestInv
    BY InitType DEF Init, NewestInv, Newest, Told
<1>2. NewestInv => NewestWins
    BY DEF NewestInv, Newest, Told, NewestWins, Sending
<1>3. QED
    BY <1>1, <1>2, NextNewest, PTL DEF Spec
=============================================================================
