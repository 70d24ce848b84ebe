-------------------------- MODULE RecordingServer --------------------------
(***************************************************************************)
(* The recording half of kylin-kmre-audio (RecordingWorker): one thread    *)
(* that accepts a client of Android's audio HAL, reads its type and its    *)
(* sample rate, opens the microphone, fits the denoiser and the resampler  *)
(* to both rates, and sends what it records until a write fails, the       *)
(* device fails, or too many reads in a row brought nothing.               *)
(*                                                                         *)
(* The worker, its resampler and its count of empty reads outlive the      *)
(* clients: each client meets what the ones before it have left.           *)
(***************************************************************************)
EXTENDS Naturals, Sequences

CONSTANTS
    Clients, None,      \* connections clients make, each of them once
    ClientRates,        \* the rates the worker resamples to (8000, 16000, 48000)
    DeviceRates,        \* the rates the microphone may be opened with
    TryTimes,           \* READ_TRY_TIMES
    MaxFlips            \* bound: times the microphone falls silent or comes back

\* 0 is any other rate a client asks for: it gets the microphone's own.
ASSUME RecordingAssumption ==
    /\ None \notin Clients /\ None \notin Nat
    /\ ClientRates \subseteq Nat \ {0} /\ DeviceRates \subseteq Nat \ {0}
    /\ DeviceRates # {}
    /\ TryTimes \in Nat /\ MaxFlips \in Nat

VARIABLES
    pc,         \* where the worker is in start
    stream,     \* m_stream
    rate,       \* mClientSampleRate
    recorder,   \* mRecoder: None, or the rate the device was opened with
    denoiser,   \* mSpeexPreprocesser: None, or the rate it was made for
    resampler,  \* mSpeexResampler: None, or its two rates
    unfit,      \* history: speex could not make the resampler this client needs
    count,      \* empty reads, as start counts them
    tries,      \* history: empty reads in a row since this client came
    alive,      \* the process has not crashed
    silent,     \* every read of the microphone brings nothing
    flips,
    backlog,    \* connections accept has not returned yet
    conn,       \* conn[c]: the server's end of connection c
    type,       \* type[c]: None, or the type c has sent
    asked,      \* asked[c]: None, or the rate c has sent after it
    ended,      \* clients that closed their end
    orphaned    \* history: connections given up without being closed

workerVars == <<pc, stream, rate, recorder, denoiser, resampler, unfit, count, tries>>
micVars == <<silent, flips>>
requestVars == <<type, asked, ended>>
clientVars == <<backlog, conn, requestVars, orphaned>>
vars == <<workerVars, alive, micVars, clientVars>>

Init ==
    /\ pc = "listen"
    /\ stream = None /\ rate = 0
    /\ recorder = None /\ denoiser = None /\ resampler = None /\ unfit = FALSE
    /\ count = 0 /\ tries = 0
    /\ alive = TRUE
    /\ silent = FALSE /\ flips = 0
    /\ backlog = <<>>
    /\ conn = [c \in Clients |-> "idle"]
    /\ type = [c \in Clients |-> None] /\ asked = [c \in Clients |-> None]
    /\ ended = {} /\ orphaned = {}

-----------------------------------------------------------------------------
(* The audio HAL and the microphone *)

Connect(c) ==
    /\ alive /\ pc \notin {"listen", "returned"} /\ conn[c] = "idle"
    /\ conn' = [conn EXCEPT ![c] = "queued"]
    /\ backlog' = Append(backlog, c)
    /\ UNCHANGED <<workerVars, alive, micVars, requestVars, orphaned>>

Open(c) == conn[c] \in {"queued", "accepted"} /\ c \notin ended

SendType(c) ==
    /\ Open(c) /\ type[c] = None
    /\ \E t \in {"RECORDING", "other"} : type' = [type EXCEPT ![c] = t]
    /\ UNCHANGED <<workerVars, alive, micVars, backlog, conn, asked, ended, orphaned>>

SendRate(c) ==
    /\ Open(c) /\ type[c] = "RECORDING" /\ asked[c] = None
    /\ \E r \in ClientRates \union {0} : asked' = [asked EXCEPT ![c] = r]
    /\ UNCHANGED <<workerVars, alive, micVars, backlog, conn, type, ended, orphaned>>

Disconnect(c) ==
    /\ Open(c)
    /\ ended' = ended \union {c}
    /\ UNCHANGED <<workerVars, alive, micVars, backlog, conn, type, asked, orphaned>>

\* One overrun after the other, or reads of no frames at all.
Flip ==
    /\ flips < MaxFlips
    /\ silent' = ~silent /\ flips' = flips + 1
    /\ UNCHANGED <<workerVars, alive, clientVars>>

-----------------------------------------------------------------------------
(* RecordingWorker *)

Working(at) == alive /\ pc = at

\* listen, with the path and the socket it needs.
Listen ==
    /\ Working("listen")
    /\ pc' \in {"accept", "returned"}
    /\ UNCHANGED <<stream, rate, recorder, denoiser, resampler, unfit, count, tries,
                   alive, micVars, clientVars>>

\* forceStop, delete, nullptr
CloseStream ==
    /\ conn' = [conn EXCEPT ![stream] = "closed"]
    /\ stream' = None
    /\ UNCHANGED <<backlog, orphaned>>

Accept ==
    /\ Working("accept") /\ backlog # <<>>
    /\ stream' = Head(backlog) /\ backlog' = Tail(backlog)
    /\ conn' = [conn EXCEPT ![Head(backlog)] = "accepted"]
    /\ tries' = 0
    /\ pc' = "type"
    /\ UNCHANGED <<rate, recorder, denoiser, resampler, unfit, count, alive,
                   micVars, requestVars, orphaned>>

\* Wrong forms: a stream of another type is not closed; the worker returns when a
\* client ends before its type.
ReadType_NoClose ==
    /\ Working("type")
    /\ \/ /\ type[stream] = "RECORDING" /\ pc' = "rate"
          /\ UNCHANGED <<stream, conn, backlog, orphaned>>
       \/ /\ type[stream] = "other" \/ (type[stream] = None /\ stream \in ended)
          /\ pc' = "accept"
          /\ UNCHANGED <<stream, conn, backlog, orphaned>>
    /\ UNCHANGED <<rate, recorder, denoiser, resampler, unfit, count, tries,
                   alive, micVars, requestVars>>

ReadType_Return ==
    /\ Working("type")
    /\ \/ /\ type[stream] = "RECORDING" /\ pc' = "rate"
          /\ UNCHANGED <<stream, conn, backlog, orphaned>>
       \/ /\ type[stream] = "other" \/ (type[stream] = None /\ stream \in ended)
          /\ pc' = "returned"
          /\ CloseStream
    /\ UNCHANGED <<rate, recorder, denoiser, resampler, unfit, count, tries,
                   alive, micVars, requestVars>>

\* The type: RECORDING, another one, or the client's end.
ReadType ==
    /\ Working("type")
    /\ \/ /\ type[stream] = "RECORDING" /\ pc' = "rate"
          /\ UNCHANGED <<stream, conn, backlog, orphaned>>
       \/ /\ type[stream] = "other" \/ (type[stream] = None /\ stream \in ended)
          /\ pc' = "accept"
          /\ CloseStream
    /\ UNCHANGED <<rate, recorder, denoiser, resampler, unfit, count, tries,
                   alive, micVars, requestVars>>

\* The rate; one the worker does not resample to counts as 0.
ReadRate ==
    /\ Working("rate")
    /\ \/ /\ asked[stream] # None
          /\ rate' = asked[stream]
          /\ pc' = "open" /\ UNCHANGED <<stream, conn, backlog, orphaned>>
       \/ /\ asked[stream] = None /\ stream \in ended
          /\ pc' = "accept" /\ CloseStream
          /\ UNCHANGED rate
    /\ UNCHANGED <<recorder, denoiser, resampler, unfit, count, tries,
                   alive, micVars, requestVars>>

\* The kernel closes what the process had open.
Crash ==
    /\ alive' = FALSE
    /\ backlog' = <<>>
    /\ conn' = [c \in Clients |-> IF conn[c] = "idle" THEN "idle" ELSE "closed"]
Survive == UNCHANGED <<alive, backlog, conn>>

\* initRecoder.  When it fails destroyRecorder closes the handle, which is null when
\* the device could not be opened and closed already otherwise: undefined, and the
\* process may end.  (There is no recorder here: the last client's is destroyed.)  If not, m_stream stays open and is overwritten.
OpenRecorder ==
    /\ Working("open") /\ recorder = None
    /\ \/ /\ \E r \in DeviceRates : recorder' = r
          /\ pc' = "fit"
          /\ UNCHANGED <<alive, backlog, conn, orphaned>>
       \/ /\ pc' = "accept"
          /\ orphaned' = orphaned \union {stream}
          /\ UNCHANGED recorder
          /\ Survive \/ Crash
    /\ UNCHANGED <<stream, rate, denoiser, resampler, unfit, count, tries,
                   micVars, requestVars>>

\* Wrong form: a resampler an earlier client left is taken as it is.
Fit_Keep ==
    /\ Working("fit")
    /\ denoiser' = IF rate = 0 \/ denoiser # None THEN denoiser ELSE recorder
    /\ IF rate = 0 THEN resampler' = None /\ unfit' = FALSE
       ELSE IF resampler # None \/ recorder = rate
            THEN unfit' = FALSE /\ UNCHANGED resampler
            ELSE \/ resampler' = <<recorder, rate>> /\ unfit' = FALSE
                 \/ resampler' = None /\ unfit' = TRUE
    /\ pc' = "record"
    /\ UNCHANGED <<stream, rate, recorder, count, tries, alive, micVars, clientVars>>

\* The denoiser is made for a client with a rate, unless there is one; a resampler
\* that does not fit is replaced, where the two rates differ.  Speex may fail.
Fit ==
    LET fits == resampler = <<recorder, rate>>
    IN  /\ Working("fit")
        /\ denoiser' = IF rate = 0 \/ denoiser # None THEN denoiser ELSE recorder
        /\ \/ rate = 0 /\ resampler' = None /\ unfit' = FALSE
           \/ rate # 0 /\ fits /\ UNCHANGED resampler /\ unfit' = FALSE
           \/ rate # 0 /\ ~fits /\ rate = recorder /\ resampler' = None /\ unfit' = FALSE
           \/ rate # 0 /\ ~fits /\ rate # recorder
              /\ \/ resampler' = <<recorder, rate>> /\ unfit' = FALSE
                 \/ resampler' = None /\ unfit' = TRUE
        /\ pc' = "record"
        /\ UNCHANGED <<stream, rate, recorder, count, tries, alive, micVars, clientVars>>

\* Frames came and are written: then the count starts anew.  The write to a client that has
\* ended fails, and the loop breaks with the count as it was.
RecordData ==
    /\ Working("record") /\ ~silent
    /\ tries' = 0
    /\ \/ stream \notin ended /\ count' = 0 /\ UNCHANGED pc
       \/ stream \in ended /\ pc' = "end" /\ UNCHANGED count
    /\ UNCHANGED <<stream, rate, recorder, denoiser, resampler, unfit, alive,
                   micVars, clientVars>>

\* count++ == READ_TRY_TIMES.  Beyond that value only its being greater matters.
Counted(n) == IF n > TryTimes THEN n ELSE n + 1

\* No frame: the loop gives up when the count it finds is the limit.
RecordNothing ==
    /\ Working("record") /\ silent
    /\ count' = Counted(count) /\ tries' = Counted(tries)
    /\ pc' = IF count = TryTimes THEN "end" ELSE "record"
    /\ UNCHANGED <<stream, rate, recorder, denoiser, resampler, unfit, alive,
                   micVars, clientVars>>

\* The device fails, or cannot be started again after an overrun.
RecordError ==
    /\ Working("record")
    /\ pc' = "end"
    /\ UNCHANGED <<stream, rate, recorder, denoiser, resampler, unfit, count, tries,
                   alive, micVars, clientVars>>

\* The stream is closed; stop closes the device and frees the denoiser.
EndClient ==
    /\ Working("end")
    /\ CloseStream
    /\ recorder' = None /\ denoiser' = None
    /\ pc' = "accept"
    /\ UNCHANGED <<rate, resampler, unfit, count, tries, alive, micVars, requestVars>>

Worker ==
    \/ Listen \/ Accept \/ ReadType \/ ReadRate \/ OpenRecorder \/ Fit
    \/ RecordData \/ RecordNothing \/ RecordError \/ EndClient

Next ==
    \/ \E c \in Clients : Connect(c) \/ SendType(c) \/ SendRate(c) \/ Disconnect(c)
    \/ Flip
    \/ Worker

Spec == Init /\ [][Next]_vars

\* The worker's thread runs, and reads of a microphone that is not silent bring
\* frames.  A client ends some time: what the worker's reads wait for.
FairSpec ==
    /\ Spec
    /\ WF_vars(Worker) /\ SF_vars(RecordData)
    /\ \A c \in Clients : WF_vars(Disconnect(c))

-----------------------------------------------------------------------------
(* Properties *)

\* Types; the worker records only through a stream and from a device it has.
TypeOK ==
    /\ pc \in {"listen", "accept", "type", "rate", "open", "fit", "record", "end", "returned"}
    /\ stream \in Clients \union {None}
    /\ rate \in ClientRates \union {0}
    /\ recorder \in DeviceRates \union {None}
    /\ denoiser \in DeviceRates \union {None}
    /\ resampler \in (DeviceRates \X ClientRates) \union {None}
    /\ pc \in {"type", "rate", "open", "fit", "record", "end"} => stream # None
    /\ pc \in {"fit", "record", "end"} <=> recorder # None
    /\ unfit \in BOOLEAN /\ alive \in BOOLEAN /\ silent \in BOOLEAN
    /\ count \in 0..TryTimes + 1 /\ tries \in 0..TryTimes + 1
    /\ flips \in 0..MaxFlips
    /\ backlog \in Seq(Clients)
    /\ conn \in [Clients -> {"idle", "queued", "accepted", "closed"}]
    /\ type \in [Clients -> {"RECORDING", "other", None}]
    /\ asked \in [Clients -> ClientRates \union {0, None}]
    /\ ended \subseteq Clients /\ orphaned \subseteq Clients

\* A client is sent samples of the rate it asked for, converted from the rate the
\* device has now, whatever resampler the clients before it left (unless speex could
\* not make one); a client without a rate gets the device's own samples.
RateFits ==
    pc = "record" /\ ~unfit =>
        resampler = IF rate = 0 \/ rate = recorder THEN None ELSE <<recorder, rate>>

\* The samples are denoised exactly for clients with a rate, by a denoiser made for
\* the device as it was opened for this client.
DenoiseFits == pc = "record" => denoiser = IF rate = 0 THEN None ELSE recorder

\* What the worker keeps from client to client never spoils a client's samples.
SamplesFit == RateFits /\ DenoiseFits

\* A connection that was accepted is closed before the worker forgets it, except
\* when the microphone could not be opened for it.
AcceptedAreKept ==
    alive => \A c \in Clients : conn[c] = "accepted" => c \in {stream} \union orphaned

\* If the microphone is not silent for ever, a client in the queue is served in the
\* end, or loses its connection with the process.
Served ==
    <>[]~silent => \A c \in Clients : (conn[c] = "queued") ~> (conn[c] # "queued")

\* A client whose microphone is silent is given up when READ_TRY_TIMES empty reads in
\* a row have been followed by another one.  (recordingworker.cpp, lines 30 and 243:
\* "#define READ_TRY_TIMES 500", and "Failed to read recording data from microphone.")
GivesUp == pc = "record" => tries <= TryTimes
=============================================================================
