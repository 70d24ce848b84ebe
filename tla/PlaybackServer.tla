--------------------------- MODULE PlaybackServer ---------------------------
(***************************************************************************)
(* The playback half of kylin-kmre-audio.  A worker thread owns the        *)
(* listening socket and serves one client of Android's audio HAL at a time *)
(* with blocking calls (PlaybackWorker).  When the computer wakes from     *)
(* sleep the server thread stops the worker from outside and makes a new   *)
(* one (AudioServer::onSleep, built with UKUI_WAYLAND): exitPlayback reads  *)
(* and shuts the worker's streams while the worker replaces them, with no  *)
(* lock between the two threads.                                           *)
(***************************************************************************)
EXTENDS Naturals, Sequences

CONSTANTS
    Clients, None,      \* connections clients make, each of them once
    DeviceMayFail,      \* the PCM device may fail to open, or to take data
    MaxWakes            \* bound: wakes from sleep

ASSUME PlaybackAssumption ==
    None \notin Clients /\ DeviceMayFail \in BOOLEAN /\ MaxWakes \in Nat

VARIABLES
    pc,         \* where the worker is in initData and start
    sock,       \* mListenSock: none, new, listening, or shut down
    got,        \* what accept returned, not yet in m_stream
    stream,     \* m_stream
    exit,       \* mExit
    pcm,        \* mPlayback holds the device open
    gen,        \* workers made so far
    path,       \* the worker whose socket the path leads to; 0: none
    spc,        \* where the server thread is in onSleep
    target,     \* the m_stream it saw when it looked
    wakes,
    alive,      \* the process has not crashed
    backlog,    \* connections accept has not returned yet
    conn,       \* conn[c]: the server's end of connection c
    said,       \* said[c]: the type c has sent
    ended,      \* clients that closed their end
    shut,       \* connections the server has shut down
    orphaned    \* history: connections given up without being closed

workerVars == <<pc, sock, got, stream, exit, pcm, gen, path>>
serverVars == <<spc, target, wakes, alive>>
clientVars == <<backlog, conn, said, ended, shut, orphaned>>
vars == <<workerVars, serverVars, clientVars>>

Init ==
    /\ pc = "init" /\ sock = "none"
    /\ got = None /\ stream = None /\ exit = FALSE /\ pcm = FALSE
    /\ gen = 1 /\ path = 0
    /\ spc = "idle" /\ target = None /\ wakes = 0 /\ alive = TRUE
    /\ backlog = <<>>
    /\ conn = [c \in Clients |-> "idle"]
    /\ said = [c \in Clients |-> "nothing"]
    /\ ended = {} /\ shut = {} /\ orphaned = {}

-----------------------------------------------------------------------------
(* The audio HAL in the container *)

Connect(c) ==
    /\ alive /\ path = gen /\ sock = "listening" /\ conn[c] = "idle"
    /\ conn' = [conn EXCEPT ![c] = "queued"]
    /\ backlog' = Append(backlog, c)
    /\ UNCHANGED <<workerVars, serverVars, said, ended, shut, orphaned>>

SendType(c) ==
    /\ conn[c] \in {"queued", "accepted"} /\ c \notin ended /\ said[c] = "nothing"
    /\ \E t \in {"PLAYBACK", "other"} : said' = [said EXCEPT ![c] = t]
    /\ UNCHANGED <<workerVars, serverVars, backlog, conn, ended, shut, orphaned>>

Disconnect(c) ==
    /\ conn[c] \in {"queued", "accepted"} /\ c \notin ended
    /\ ended' = ended \union {c}
    /\ UNCHANGED <<workerVars, serverVars, backlog, conn, said, shut, orphaned>>

-----------------------------------------------------------------------------
(* PlaybackWorker *)

Working(at) == alive /\ pc = at

\* The kernel closes what the process had open.
Crash ==
    /\ alive' = FALSE
    /\ backlog' = <<>>
    /\ conn' = [c \in Clients |-> IF conn[c] = "idle" THEN "idle" ELSE "closed"]
Survive == UNCHANGED <<alive, backlog, conn>>

\* forceStop, delete, nullptr
CloseStream ==
    /\ conn' = [conn EXCEPT ![stream] = "closed"]
    /\ shut' = shut \union {stream}
    /\ stream' = None

\* The worker returns, its m_stream is never deleted.
Exiting ==
    /\ pc' = "ended"
    /\ orphaned' = orphaned \union ({stream} \ {None})
    /\ UNCHANGED <<stream, conn, shut>>

\* initData: the device is opened first; without it there is no server.  After a
\* failure destroyPlayback closes a handle that is closed or was never opened:
\* that is undefined, and may end the process.
InitData ==
    /\ Working("init")
    /\ sock' = "new"
    /\ \/ pc' = "listen" /\ pcm' = TRUE /\ Survive
       \/ DeviceMayFail /\ pc' = "ended" /\ UNCHANGED pcm /\ (Survive \/ Crash)
    /\ UNCHANGED <<got, stream, exit, gen, path, spc, target, wakes,
                   said, ended, shut, orphaned>>

\* listen: an old socket file at the path is removed.
Listen ==
    /\ Working("listen")
    /\ sock' = "listening" /\ path' = gen /\ pc' = "accept"
    /\ UNCHANGED <<got, stream, exit, pcm, gen, serverVars, clientVars>>

\* accept returns a waiting connection, or nothing once the socket is shut down.
Accept ==
    /\ Working("accept")
    /\ \/ /\ backlog # <<>>
          /\ got' = Head(backlog) /\ backlog' = Tail(backlog)
          /\ conn' = [conn EXCEPT ![Head(backlog)] = "accepted"]
       \/ /\ sock = "shut"
          /\ got' = None /\ UNCHANGED <<backlog, conn>>
    /\ pc' = "assign"
    /\ UNCHANGED <<sock, stream, exit, pcm, gen, path, serverVars, said, ended, shut, orphaned>>

\* Nothing accepted: the worker looks whether it has to exit, and tries again.
Assign ==
    /\ Working("assign")
    /\ stream' = got /\ got' = None
    /\ pc' = IF got # None THEN "type" ELSE IF exit THEN "ended" ELSE "accept"
    /\ UNCHANGED <<sock, exit, pcm, gen, path, serverVars, clientVars>>

Broken(c) == c \in ended \union shut

\* Wrong forms: a stream of another type is not closed; it ends the loop.
ReadType_NoClose ==
    /\ Working("type")
    /\ \/ /\ said[stream] = "PLAYBACK"
          /\ pc' = "open" /\ UNCHANGED <<stream, conn, shut, orphaned>>
       \/ /\ said[stream] = "other"
          /\ pc' = "accept" /\ UNCHANGED <<stream, conn, shut, orphaned>>
       \/ /\ said[stream] = "nothing" /\ Broken(stream)
          /\ IF exit THEN Exiting ELSE CloseStream /\ pc' = "accept" /\ UNCHANGED orphaned
    /\ UNCHANGED <<sock, got, exit, pcm, gen, path, serverVars, backlog, said, ended>>

ReadType_Break ==
    /\ Working("type")
    /\ \/ /\ said[stream] = "PLAYBACK"
          /\ pc' = "open" /\ UNCHANGED <<stream, conn, shut, orphaned>>
       \/ /\ said[stream] = "other"
          /\ CloseStream /\ pc' = "ended" /\ UNCHANGED orphaned
       \/ /\ said[stream] = "nothing" /\ Broken(stream)
          /\ IF exit THEN Exiting ELSE CloseStream /\ pc' = "accept" /\ UNCHANGED orphaned
    /\ UNCHANGED <<sock, got, exit, pcm, gen, path, serverVars, backlog, said, ended>>

\* The type: what was sent before the end is still read.
ReadType ==
    /\ Working("type")
    /\ \/ /\ said[stream] = "PLAYBACK"
          /\ pc' = "open" /\ UNCHANGED <<stream, conn, shut, orphaned>>
       \/ /\ said[stream] = "other"
          /\ CloseStream /\ pc' = "accept" /\ UNCHANGED orphaned
       \/ /\ said[stream] = "nothing" /\ Broken(stream)
          /\ IF exit THEN Exiting ELSE CloseStream /\ pc' = "accept" /\ UNCHANGED orphaned
    /\ UNCHANGED <<sock, got, exit, pcm, gen, path, serverVars, backlog, said, ended>>

\* The device is opened again when an earlier client's end closed it.  If it
\* cannot be, the loop goes on and m_stream is overwritten.
OpenDevice ==
    /\ Working("open")
    /\ \/ pcm' = TRUE /\ pc' = "read" /\ UNCHANGED orphaned /\ Survive
       \/ /\ DeviceMayFail /\ ~pcm
          /\ pc' = "accept" /\ orphaned' = orphaned \union {stream}
          /\ UNCHANGED pcm
          /\ Survive \/ Crash
    /\ UNCHANGED <<sock, got, stream, exit, gen, path, spc, target, wakes, said, ended, shut>>

\* Data is played until the client ends, the stream is shut or the device cannot be
\* prepared again.  (Its other errors are not seen: wc is unsigned, never below 0.)
ReadData ==
    /\ Working("read")
    /\ Broken(stream) \/ DeviceMayFail
    /\ pc' = "end"
    /\ UNCHANGED <<sock, got, stream, exit, pcm, gen, path, serverVars, clientVars>>

\* Wrong form: the socket's file goes with the client's stream.
EndClient_Unlink ==
    /\ Working("end")
    /\ IF exit
       THEN Exiting /\ UNCHANGED <<pcm, path>>
       ELSE CloseStream /\ pcm' = FALSE /\ path' = 0 /\ pc' = "accept" /\ UNCHANGED orphaned
    /\ UNCHANGED <<sock, got, exit, gen, serverVars, backlog, said, ended>>

EndClient ==
    /\ Working("end")
    /\ IF exit
       THEN Exiting /\ UNCHANGED pcm
       ELSE CloseStream /\ pcm' = FALSE /\ pc' = "accept" /\ UNCHANGED orphaned
    /\ UNCHANGED <<sock, got, exit, gen, path, serverVars, backlog, said, ended>>

Worker ==
    \/ InitData \/ Listen \/ Accept \/ Assign
    \/ ReadType \/ OpenDevice \/ ReadData \/ EndClient

-----------------------------------------------------------------------------
(* AudioServer::onSleep(false) and exitPlayback, in the server thread *)

Serving(at) == alive /\ spc = at

Wake ==
    /\ Serving("idle") /\ wakes < MaxWakes
    /\ wakes' = wakes + 1 /\ spc' = "look"
    /\ UNCHANGED <<workerVars, target, alive, clientVars>>

LookAtStream ==
    /\ Serving("look")
    /\ target' = stream
    /\ spc' = IF stream # None THEN "stopStream" ELSE "stopListen"
    /\ UNCHANGED <<workerVars, wakes, alive, clientVars>>

\* m_stream->forceStop().  When the worker has deleted the stream meanwhile, this
\* is undefined: nothing happens, another stream is shut, or the process crashes.
StopStream ==
    /\ Serving("stopStream")
    /\ \/ /\ shut' = IF stream = None THEN shut ELSE shut \union {stream}
          /\ spc' = "stopListen" /\ Survive
       \/ /\ stream # target
          /\ spc' = "stopListen" /\ UNCHANGED shut /\ (Survive \/ Crash)
    /\ target' = None
    /\ UNCHANGED <<workerVars, wakes, said, ended, orphaned>>

\* Wrong form: only the stream is stopped.
StopListen_None ==
    /\ Serving("stopListen")
    /\ spc' = "setExit"
    /\ UNCHANGED <<workerVars, target, wakes, alive, clientVars>>

StopListen ==
    /\ Serving("stopListen")
    /\ sock' = IF sock = "listening" THEN "shut" ELSE sock
    /\ spc' = "setExit"
    /\ UNCHANGED <<pc, got, stream, exit, pcm, gen, path, target, wakes, alive, clientVars>>

SetExit ==
    /\ Serving("setExit")
    /\ exit' = TRUE /\ spc' = "wait"
    /\ UNCHANGED <<pc, sock, got, stream, pcm, gen, path, target, wakes, alive, clientVars>>

\* quitThread, wait, delete the worker and its thread, make new ones.
ReplaceWorker ==
    /\ Serving("wait") /\ pc = "ended"
    /\ pc' = "init" /\ sock' = "none" /\ got' = None /\ stream' = None
    /\ exit' = FALSE /\ pcm' = FALSE
    /\ gen' = gen + 1
    /\ path' = IF sock \in {"listening", "shut"} THEN 0 ELSE path
    /\ conn' = [c \in Clients |-> IF conn[c] = "queued" THEN "closed" ELSE conn[c]]
    /\ backlog' = <<>>
    /\ spc' = "idle"
    /\ UNCHANGED <<target, wakes, alive, said, ended, shut, orphaned>>

OnSleep == LookAtStream \/ StopStream \/ StopListen \/ SetExit \/ ReplaceWorker

-----------------------------------------------------------------------------
Next ==
    \/ \E c \in Clients : Connect(c) \/ SendType(c) \/ Disconnect(c)
    \/ Worker
    \/ Wake \/ OnSleep

Spec == Init /\ [][Next]_vars

\* Both threads run.  A client ends some time: what the worker waits for.
FairSpec ==
    /\ Spec
    /\ WF_vars(Worker) /\ WF_vars(OnSleep)
    /\ \A c \in Clients : WF_vars(Disconnect(c))

-----------------------------------------------------------------------------
(* Properties *)

\* Types; the worker serves a client only through a stream it has, and plays its
\* data on an open device, though every client's end closes it.
TypeOK ==
    /\ pc \in {"init", "listen", "accept", "assign", "type", "open", "read", "end", "ended"}
    /\ sock \in {"none", "new", "listening", "shut"}
    /\ pc \in {"type", "open", "read", "end"} => stream # None
    /\ pc = "read" => pcm
    /\ got \in Clients \union {None} /\ stream \in Clients \union {None}
    /\ exit \in BOOLEAN /\ pcm \in BOOLEAN
    /\ gen \in 1..MaxWakes + 1 /\ path \in 0..gen
    /\ spc \in {"idle", "look", "stopStream", "stopListen", "setExit", "wait"}
    /\ target \in Clients \union {None} /\ wakes \in 0..MaxWakes /\ alive \in BOOLEAN
    /\ backlog \in Seq(Clients)
    /\ conn \in [Clients -> {"idle", "queued", "accepted", "closed"}]
    /\ said \in [Clients -> {"nothing", "PLAYBACK", "other"}]
    /\ ended \subseteq Clients /\ shut \subseteq Clients /\ orphaned \subseteq Clients

\* While the worker listens the path leads to its socket, across clients that end
\* and workers that replace each other and unlink the path.
PathIsOurs == sock = "listening" => path = gen

\* A connection that was accepted is closed before the worker forgets it, except
\* when the device could not be opened for it and when the worker exits.
AcceptedAreKept ==
    alive => \A c \in Clients :
        conn[c] = "accepted" => c \in {got, stream} \union orphaned

\* A client in the queue is accepted in the end, or refused by a wake.
Served == \A c \in Clients : (conn[c] = "queued") ~> (conn[c] # "queued")

\* A wake ends with a new worker if the old one had begun to listen, whatever it
\* was doing with which client.  (A worker that has not called listen yet misses
\* the stop: nothing looks at mExit before accept.)
WakeEnds ==
    (spc = "look" /\ pc \notin {"init", "listen"}) ~> (spc = "idle" \/ ~alive)
=============================================================================
