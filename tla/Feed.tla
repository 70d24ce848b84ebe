-------------------------------- MODULE Feed --------------------------------
(***************************************************************************)
(* kylin-kmre-gps and kylin-kmre-sensor: two daemons of one shape.  A      *)
(* worker thread listens and accepts the client in the container, once; the *)
(* main thread handles the D-Bus calls that bring positions (passGpsData)  *)
(* or accelerations (passAcceKey) and writes them to m_stream.  A write    *)
(* that fails makes the writing thread accept the next client itself       *)
(* (updateSocket).  Nothing locks m_stream, and no stream is ever deleted. *)
(*                                                                         *)
(* The two daemons differ in three places: the worker of the gps daemon    *)
(* sends the last position to the client it has accepted; the gps daemon   *)
(* tests m_stream before each write, the sensor daemon before the first    *)
(* one only; and a failed accept ends the call in the gps daemon only.     *)
(***************************************************************************)
EXTENDS Naturals, Sequences, FiniteSets

CONSTANTS
    Clients, None,  \* connections the container makes, each of them once
    Values,         \* positions or accelerations
    Default,        \* the position that is sent for an empty one
    FdLimit         \* descriptors the process has for accepted connections

ASSUME FeedAssumption ==
    /\ IsFiniteSet(Clients) /\ None \notin Clients \union Values
    /\ Default \in Values
    /\ FdLimit \in Nat

VARIABLES
    kind,       \* which of the daemons this is
    pc,         \* pc["worker"] in start, pc["main"] in sendData
    arg,        \* the data each thread is sending
    current,    \* gpsdata
    stream,     \* m_stream
    alive,      \* the process runs
    stop,       \* the container has stopped: Stopped is in the main thread's queue
    crashed,    \* history: a null stream was used
    backlog,    \* connections accept has not returned yet
    conn,       \* conn[c]: the daemon's end of connection c
    ended,      \* clients that closed their end
    last,       \* last[c]: the last data written to c
    overtaken,  \* history: a call came while the worker was sending its copy
    raced       \* history: both threads waited in accept at once

feedVars == <<pc, arg, current, stream, overtaken, raced>>
clientVars == <<backlog, conn, ended, last>>
processVars == <<alive, stop, crashed>>
vars == <<kind, feedVars, processVars, clientVars>>

Threads == {"worker", "main"}

Init ==
    /\ kind \in {"gps", "sensor"}
    /\ pc = [t \in Threads |-> IF t = "worker" THEN "listen" ELSE "done"]
    /\ arg = [t \in Threads |-> Default]
    /\ current = Default
    /\ stream = None
    /\ alive = TRUE /\ stop = FALSE /\ crashed = FALSE
    /\ backlog = <<>>
    /\ conn = [c \in Clients |-> "idle"] /\ ended = {}
    /\ last = [c \in Clients |-> None]
    /\ overtaken = FALSE /\ raced = FALSE

-----------------------------------------------------------------------------
(* The container *)

Connect(c) ==
    /\ alive /\ pc["worker"] \notin {"listen", "failed"} /\ conn[c] = "idle"
    /\ conn' = [conn EXCEPT ![c] = "queued"]
    /\ backlog' = Append(backlog, c)
    /\ UNCHANGED <<kind, feedVars, processVars, ended, last>>

Disconnect(c) ==
    /\ conn[c] \in {"queued", "accepted"} /\ c \notin ended
    /\ ended' = ended \union {c}
    /\ UNCHANGED <<kind, feedVars, processVars, backlog, conn, last>>

StopContainer ==
    /\ alive /\ ~stop
    /\ stop' = TRUE
    /\ UNCHANGED <<kind, feedVars, alive, crashed, clientVars>>

-----------------------------------------------------------------------------
(* The two threads *)

At(t, label) == alive /\ pc[t] = label
Goto(t, label) == pc' = [pc EXCEPT ![t] = label]

\* Whether there is a path and a socket; if not, start ends and no client ever comes.
Listen ==
    /\ At("worker", "listen")
    /\ \E label \in {"accept", "failed"} : Goto("worker", label)
    /\ UNCHANGED <<kind, arg, current, stream, overtaken, raced, processVars, clientVars>>

Full == Cardinality({c \in Clients : conn[c] = "accepted"}) >= FdLimit

\* accept, and the assignment to m_stream: the former stream is not deleted.  accept
\* takes a descriptor before it waits: at the limit it fails at once.
TakeClient ==
    \/ /\ ~Full /\ backlog # <<>>
       /\ stream' = Head(backlog) /\ backlog' = Tail(backlog)
       /\ conn' = [conn EXCEPT ![Head(backlog)] = "accepted"]
    \/ Full /\ stream' = None /\ UNCHANGED <<backlog, conn>>

\* start: the worker's only accept.
Accept ==
    /\ At("worker", "accept")
    /\ TakeClient
    /\ Goto("worker", IF stream' = None \/ kind = "sensor" THEN "done" ELSE "copy")
    /\ UNCHANGED <<kind, arg, current, overtaken, raced, processVars, ended, last>>

\* Wrong form: the worker sends what was there when the daemon started.
Copy_Default ==
    /\ At("worker", "copy")
    /\ Goto("worker", "test")
    /\ UNCHANGED <<kind, arg, current, stream, overtaken, raced, processVars, clientVars>>

\* sendData(gpsdata), by value.
Copy ==
    /\ At("worker", "copy")
    /\ arg' = [arg EXCEPT !["worker"] = current]
    /\ Goto("worker", "test")
    /\ UNCHANGED <<kind, current, stream, overtaken, raced, processVars, clientVars>>

\* passGpsData, or a call of passAcceKey that is not too early.
Pass(v) ==
    /\ At("main", "done")
    /\ arg' = [arg EXCEPT !["main"] = v]
    /\ current' = IF kind = "gps" THEN v ELSE current
    /\ Goto("main", "test")
    /\ overtaken' = (overtaken \/ pc["worker"] \in {"test", "send", "update", "test again", "send again"})
    /\ UNCHANGED <<kind, stream, raced, processVars, clientVars>>

\* Wrong form: m_stream is used as it is.
Test_None(t) ==
    /\ \/ At(t, "test") /\ Goto(t, "send")
       \/ At(t, "test again") /\ Goto(t, "send again")
    /\ UNCHANGED <<kind, arg, current, stream, overtaken, raced, processVars, clientVars>>

\* if (m_stream)
Test(t) ==
    /\ \/ At(t, "test") /\ Goto(t, IF stream = None THEN "done" ELSE "send")
       \/ At(t, "test again") /\ Goto(t, IF stream = None THEN "done" ELSE "send again")
    /\ UNCHANGED <<kind, arg, current, stream, overtaken, raced, processVars, clientVars>>

\* The process ends: the kernel closes what it had open.
Die ==
    /\ alive' = FALSE
    /\ backlog' = <<>>
    /\ conn' = [c \in Clients |-> IF conn[c] = "idle" THEN "idle" ELSE "closed"]

\* m_stream is read again: the other thread may have changed it since the test.
UseNull(t) ==
    /\ At(t, "send") \/ At(t, "send again")
    /\ stream = None
    /\ crashed' = TRUE /\ Die
    /\ UNCHANGED <<kind, feedVars, stop, ended, last>>

\* Wrong form: the result of the first write is not looked at.
Write_NoLook(t) ==
    /\ At(t, "send") \/ At(t, "send again")
    /\ stream # None /\ stream \notin ended
    /\ last' = [last EXCEPT ![stream] = arg[t]]
    /\ Goto(t, IF pc[t] = "send" THEN "update" ELSE "done")
    /\ UNCHANGED <<kind, arg, current, stream, overtaken, raced, processVars, backlog, conn, ended>>

\* send, with MSG_NOSIGNAL.
Write(t) ==
    /\ At(t, "send") \/ At(t, "send again")
    /\ stream # None /\ stream \notin ended
    /\ last' = [last EXCEPT ![stream] = arg[t]]
    /\ Goto(t, "done")
    /\ UNCHANGED <<kind, arg, current, stream, overtaken, raced, processVars, backlog, conn, ended>>

\* EPIPE.  The second write is the last one.
WriteFails(t) ==
    /\ At(t, "send") \/ At(t, "send again")
    /\ stream # None /\ stream \in ended
    /\ Goto(t, IF pc[t] = "send" THEN "update" ELSE "done")
    /\ raced' = (raced \/ (pc[t] = "send" /\ \E u \in Threads \ {t} : pc[u] = "update"))
    /\ UNCHANGED <<kind, arg, current, stream, overtaken, processVars, clientVars>>

\* Wrong form: updateSocket goes on until it has a stream.
UpdateSocket_UntilStream(t) ==
    /\ At(t, "update")
    /\ TakeClient
    /\ Goto(t, IF stream' = None THEN "update" ELSE IF kind = "sensor" THEN "send again"
               ELSE "test again")
    /\ UNCHANGED <<kind, arg, current, overtaken, raced, processVars, ended, last>>

\* updateSocket, and whether the data is written again.
UpdateSocket(t) ==
    /\ At(t, "update")
    /\ TakeClient
    /\ Goto(t, IF kind = "sensor" THEN "send again"
               ELSE IF stream' = None THEN "done" ELSE "test again")
    /\ UNCHANGED <<kind, arg, current, overtaken, raced, processVars, ended, last>>

\* onStopApplication, or the slot stop: exit, in the main thread and between two calls.
OnStopApplication ==
    /\ At("main", "done") /\ stop
    /\ Die
    /\ UNCHANGED <<kind, feedVars, stop, crashed, ended, last>>

Step(t) == Test(t) \/ UseNull(t) \/ Write(t) \/ WriteFails(t) \/ UpdateSocket(t)

Next ==
    \/ \E c \in Clients : Connect(c) \/ Disconnect(c)
    \/ StopContainer
    \/ Listen \/ Accept \/ Copy
    \/ \E v \in Values : Pass(v)
    \/ \E t \in Threads : Step(t)
    \/ OnStopApplication

Spec == Init /\ [][Next]_vars

\* Both threads run, and the main thread comes to every message in its queue.
FairSpec ==
    /\ Spec
    /\ WF_vars(Listen \/ Accept \/ Copy)
    /\ \A t \in Threads : WF_vars(Step(t))
    /\ SF_vars(OnStopApplication)

-----------------------------------------------------------------------------
(* Properties *)

\* Types; the sensor daemon's first write never meets a null stream.
TypeOK ==
    /\ kind \in {"gps", "sensor"}
    /\ pc \in [Threads -> {"listen", "failed", "accept", "copy", "done", "test", "send", "update",
                           "test again", "send again"}]
    /\ pc["main"] \notin {"listen", "failed", "accept", "copy"}
    /\ arg \in [Threads -> Values] /\ current \in Values
    /\ stream \in Clients \union {None}
    /\ alive \in BOOLEAN /\ stop \in BOOLEAN /\ crashed \in BOOLEAN
    /\ backlog \in Seq(Clients)
    /\ conn \in [Clients -> {"idle", "queued", "accepted", "closed"}]
    /\ ended \subseteq Clients
    /\ last \in [Clients -> Values \union {None}]
    /\ overtaken \in BOOLEAN /\ raced \in BOOLEAN
    /\ kind = "sensor" /\ alive /\ pc["main"] = "send" => stream # None

\* A null stream is used only when the descriptors have run out, through the streams
\* that were never deleted.
NoCrash == [][~crashed /\ crashed' => Full]_vars

\* A client that still listens is not forgotten for a newer one, unless both threads
\* had gone to accept one (gps).
LiveClientKept ==
    \A c \in Clients :
        conn[c] = "accepted" /\ c \notin ended => c = stream \/ raced

\* When both threads are done, the client that is connected has the newest position,
\* whichever thread wrote it, unless a call overtook the worker's own sending.
NewestWins ==
    kind = "gps" /\ alive /\ (\A t \in Threads : pc[t] = "done") /\ ~overtaken
    /\ stream # None /\ stream \notin ended =>
        last[stream] = current

\* When the container has stopped the daemon ends, unless its main thread waits in
\* accept for a client who will not come.
StopsOrWaits ==
    <>[](stop => ~alive \/ (pc["main"] = "update" /\ backlog = <<>>))
=============================================================================
