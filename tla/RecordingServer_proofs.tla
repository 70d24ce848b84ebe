----------------------- MODULE RecordingServer_proofs -----------------------
(***************************************************************************)
(* Theorems about RecordingServer, for any clients, rates and limits: the  *)
(* types, the fit of denoiser and resampler to every client, and what is   *)
(* left of a connection.                                                   *)
(***************************************************************************)
EXTENDS RecordingServer, TLAPS

USE DEF Working, Open, workerVars, micVars, requestVars, clientVars, vars

-----------------------------------------------------------------------------
(* Types *)

\* A count that is not beyond the limit's successor stays so.
LEMMA CountedType ==
    ASSUME NEW n \in 0..TryTimes + 1
    PROVE  Counted(n) \in 0..TryTimes + 1
BY RecordingAssumption DEF Counted

\* The types hold before the worker listens.
LEMMA InitType == Init => TypeOK
<1> SUFFICES ASSUME Init
             PROVE  TypeOK
    OBVIOUS
<1>1. unfit \in BOOLEAN /\ alive \in BOOLEAN /\ silent \in BOOLEAN
    BY Zenon DEF Init
<1>2. backlog \in Seq(Clients)
    BY DEF Init
<1>3. count \in 0..TryTimes + 1 /\ tries \in 0..TryTimes + 1 /\ flips \in 0..MaxFlips
    BY RecordingAssumption DEF Init
<1>4. QED
    BY <1>1, <1>2, <1>3 DEF Init, TypeOK

\* Every step of a client, of the microphone and of the worker keeps the types.
LEMMA NextType == TypeOK /\ [Next]_vars => TypeOK'
<1> SUFFICES ASSUME TypeOK, [Next]_vars
             PROVE  TypeOK'
    OBVIOUS
<1> USE RecordingAssumption DEF TypeOK
<1>1. ASSUME NEW c \in Clients, Connect(c)
      PROVE  TypeOK'
    BY <1>1 DEF Connect
<1>2. ASSUME NEW c \in Clients, SendType(c)
      PROVE  TypeOK'
    BY <1>2 DEF SendType
<1>3. ASSUME NEW c \in Clients, SendRate(c)
      PROVE  TypeOK'
    BY <1>3 DEF SendRate
<1>4. ASSUME NEW c \in Clients, Disconnect(c)
      PROVE  TypeOK'
    BY <1>4 DEF Disconnect
<1>5. CASE Flip
    BY <1>5 DEF Flip
<1>6. CASE Listen
    BY <1>6 DEF Listen
<1>7. CASE Accept
  <2>1. Head(backlog) \in Clients /\ Tail(backlog) \in Seq(Clients)
      BY <1>7 DEF Accept
  <2>2. QED
      BY <1>7, <2>1 DEF Accept
<1>8. CASE ReadType
    BY <1>8 DEF ReadType, CloseStream
<1>9. CASE ReadRate
    BY <1>9 DEF ReadRate, CloseStream
<1>10. CASE OpenRecorder
  <2>1. stream \in Clients
      BY <1>10 DEF OpenRecorder
  <2>2. alive' \in BOOLEAN
      BY <1>10, Zenon DEF OpenRecorder, Crash, Survive
  <2>3. backlog' \in Seq(Clients)
    <3>1. backlog' = backlog \/ backlog' = <<>>
        BY <1>10 DEF OpenRecorder, Crash, Survive
    <3>2. <<>> \in Seq(Clients)
        OBVIOUS
    <3>3. QED
        BY <3>1, <3>2
  <2>4. conn' \in [Clients -> {"idle", "queued", "accepted", "closed"}]
      BY <1>10 DEF OpenRecorder, Crash, Survive
  <2>5. QED
      BY <1>10, <2>1, <2>2, <2>3, <2>4 DEF OpenRecorder
<1>11. CASE Fit
  <2>1. unfit' \in BOOLEAN
      BY <1>11, Zenon DEF Fit
  <2>2. resampler' \in (DeviceRates \X ClientRates) \union {None}
      BY <1>11 DEF Fit
  <2>3. denoiser' \in DeviceRates \union {None}
      BY <1>11 DEF Fit
  <2>4. QED
      BY <1>11, <2>1, <2>2, <2>3 DEF Fit
<1>12. CASE RecordData
    BY <1>12 DEF RecordData
<1>13. CASE RecordNothing
    BY <1>13, CountedType DEF RecordNothing
<1>14. CASE RecordError
    BY <1>14 DEF RecordError
<1>15. CASE EndClient
    BY <1>15 DEF EndClient, CloseStream
<1>16. CASE UNCHANGED vars
    BY <1>16
<1>17. QED
    BY <1>1, <1>2, <1>3, <1>4, <1>5, <1>6, <1>7, <1>8, <1>9, <1>10, <1>11, <1>12,
       <1>13, <1>14, <1>15, <1>16 DEF Next, Worker

\* The worker's state keeps its types: it records only through a stream it holds
\* and from a device it has opened.
THEOREM TypeCorrect == Spec => []TypeOK
BY InitType, NextType, PTL DEF Spec

-----------------------------------------------------------------------------
(* The client's rate *)

\* What the resampler that stays between clients may be, and that the denoiser does
\* not stay.
Leftovers ==
    /\ resampler # None => resampler[1] # resampler[2]
    /\ pc \notin {"record", "end"} => denoiser = None

FitInv == TypeOK /\ Leftovers /\ RateFits /\ DenoiseFits

\* Steps that leave the worker's device and rates alone, and do not begin to record,
\* keep the fit.
LEMMA Unfitted ==
    ASSUME FitInv, TypeOK',
           UNCHANGED <<denoiser, resampler>>,
           pc' \notin {"record", "end"}, pc \notin {"record", "end"}
    PROVE  FitInv'
BY DEF FitInv, Leftovers, RateFits, DenoiseFits

LEMMA NextFit == FitInv /\ [Next]_vars => FitInv'
<1> SUFFICES ASSUME FitInv, [Next]_vars
             PROVE  FitInv'
    OBVIOUS
<1>t. TypeOK /\ TypeOK'
    BY NextType DEF FitInv
<1>1. CASE \/ \E c \in Clients : Connect(c) \/ SendType(c) \/ SendRate(c) \/ Disconnect(c)
           \/ Flip \/ UNCHANGED vars
  <2>1. UNCHANGED workerVars
      BY <1>1 DEF Connect, SendType, SendRate, Disconnect, Flip
  <2>2. QED
      BY <2>1, <1>t DEF FitInv, Leftovers, RateFits, DenoiseFits
<1>2. CASE Listen \/ Accept
    BY <1>2, <1>t, Unfitted DEF Listen, Accept
<1>3. CASE ReadType \/ ReadRate
    BY <1>3, <1>t, Unfitted DEF ReadType, ReadRate, CloseStream
<1>4. CASE OpenRecorder
    BY <1>4, <1>t, Unfitted DEF OpenRecorder
<1>5. CASE Fit
  <2>1. rate \in ClientRates \union {0} /\ recorder \in DeviceRates /\ denoiser = None
      BY <1>5, <1>t DEF Fit, TypeOK, FitInv, Leftovers
  <2>2. DenoiseFits'
      BY <1>5, <2>1 DEF Fit, DenoiseFits
  <2>3. (resampler # None => resampler[1] # resampler[2])'
      BY <1>5, <2>1 DEF Fit, FitInv, Leftovers
  <2>4. RateFits'
      BY <1>5, <2>1 DEF Fit, RateFits, FitInv, Leftovers
  <2>5. QED
      BY <1>5, <1>t, <2>2, <2>3, <2>4 DEF Fit, FitInv, Leftovers
<1>6. CASE RecordData \/ RecordNothing \/ RecordError
    BY <1>6, <1>t DEF RecordData, RecordNothing, RecordError, FitInv, Leftovers,
                      RateFits, DenoiseFits
<1>7. CASE EndClient
    BY <1>7, <1>t DEF EndClient, FitInv, Leftovers, RateFits, DenoiseFits
<1>8. QED
    BY <1>1, <1>2, <1>3, <1>4, <1>5, <1>6, <1>7 DEF Next, Worker

\* Every client is sent samples of the rate it asked for, from the device as it was
\* opened for it, whatever resampler the clients before it left.
THEOREM RatesFit == Spec => []RateFits
<1>1. Init => FitInv
    BY InitType DEF Init, FitInv, Leftovers, RateFits, DenoiseFits
<1>2. FitInv => RateFits
    BY DEF FitInv
<1>3. QED
    BY <1>1, <1>2, NextFit, PTL DEF Spec

\* Samples are denoised exactly for clients with a rate, by a denoiser made for the
\* device as it was opened for this client.
THEOREM DenoisersFit == Spec => []DenoiseFits
<1>1. Init => FitInv
    BY InitType DEF Init, FitInv, Leftovers, RateFits, DenoiseFits
<1>2. FitInv => DenoiseFits
    BY DEF FitInv
<1>3. QED
    BY <1>1, <1>2, NextFit, PTL DEF Spec

-----------------------------------------------------------------------------
(* Connections *)

\* When the worker goes to accept a client, the stream it overwrites is none, or the
\* one it gave up because the microphone could not be opened.
NothingHeld == pc \in {"listen", "accept"} => stream \in {None} \union orphaned

KeptInv == TypeOK /\ NothingHeld /\ AcceptedAreKept

LEMMA NextKept == KeptInv /\ [Next]_vars => KeptInv'
<1> SUFFICES ASSUME KeptInv, [Next]_vars
             PROVE  KeptInv'
    OBVIOUS
<1>t. TypeOK /\ TypeOK'
    BY NextType DEF KeptInv
<1> USE <1>t, RecordingAssumption DEF KeptInv, NothingHeld, AcceptedAreKept, TypeOK
<1>1. ASSUME NEW c \in Clients, Connect(c)
      PROVE  KeptInv'
    BY <1>1 DEF Connect
<1>2. ASSUME NEW c \in Clients, SendType(c) \/ SendRate(c) \/ Disconnect(c)
      PROVE  KeptInv'
    BY <1>2 DEF SendType, SendRate, Disconnect
<1>3. CASE Flip \/ Listen \/ UNCHANGED vars
    BY <1>3 DEF Flip, Listen
<1>4. CASE Accept
    BY <1>4 DEF Accept
<1>5. CASE ReadType
    BY <1>5 DEF ReadType, CloseStream
<1>6. CASE ReadRate
    BY <1>6 DEF ReadRate, CloseStream
<1>7. CASE OpenRecorder
    BY <1>7 DEF OpenRecorder, Survive, Crash
<1>8. CASE Fit
    BY <1>8 DEF Fit
<1>9. CASE RecordData \/ RecordNothing \/ RecordError
    BY <1>9 DEF RecordData, RecordNothing, RecordError
<1>10. CASE EndClient
    BY <1>10 DEF EndClient, CloseStream
<1>11. QED
    BY <1>1, <1>2, <1>3, <1>4, <1>5, <1>6, <1>7, <1>8, <1>9, <1>10 DEF Next, Worker

\* No connection is forgotten open, but for those whose microphone could not be opened.
THEOREM ConnectionsKept == Spec => []AcceptedAreKept
<1>1. Init => KeptInv
    BY InitType DEF Init, KeptInv, NothingHeld, AcceptedAreKept
<1>2. KeptInv => AcceptedAreKept
    BY DEF KeptInv
<1>3. QED
    BY <1>1, <1>2, NextKept, PTL DEF Spec

\* What the worker keeps from client to client never spoils a client's samples.
THEOREM SamplesFitted == Spec => []SamplesFit
<1>1. RateFits /\ DenoiseFits => SamplesFit
    BY DEF SamplesFit
<1>2. QED
    BY <1>1, RatesFit, DenoisersFit, PTL
=============================================================================
