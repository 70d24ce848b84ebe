---------------------------- MODULE Descriptors ----------------------------
(***************************************************************************)
(* The descriptors of the manager's process, which all its threads share.  *)
(* A number that is closed is given to whoever opens a file next; close    *)
(* does not ask who opened the number.                                     *)
(***************************************************************************)
EXTENDS Naturals

CONSTANTS
    MaxFiles,   \* descriptors the threads looked at can have at a time
    LastDevice  \* the camera worker looks at /dev/video0 to /dev/video<LastDevice>

ASSUME DescriptorsAssumption == MaxFiles \in Nat \ {0} /\ LastDevice \in Nat

Devices == 0..LastDevice
Numbers == 1..MaxFiles
NoFile == 0         \* the result of an open that failed

VARIABLES
    files,      \* files[n]: what the number n is open for
    robbed      \* history: a thread has closed a file of another one

\* A camera, another video device, the camera's client, libkmre.so while it is
\* loaded, or nothing.
Open(kind, d) == [kind |-> kind, device |-> d]
Closed == Open("nothing", 0)
Files == [kind : {"nothing", "camera", "video", "client", "library"}, device : Devices]

FilesInit ==
    /\ files = [n \in Numbers |-> Closed]
    /\ robbed = FALSE

Free == {n \in Numbers : files[n] = Closed}
Lowest(S) == CHOOSE n \in S : \A k \in S : n <= k

\* open, accept: the lowest number that is free.
OpenFile(kind, d) == files' = [files EXCEPT ![Lowest(Free)] = Open(kind, d)]

\* close of a number that is the caller's, which has opened files of these kinds.
CloseFile(n, kinds) ==
    /\ files' = IF n = NoFile THEN files ELSE [files EXCEPT ![n] = Closed]
    /\ robbed' = (robbed \/ (n # NoFile /\ files[n].kind \notin kinds \cup {"nothing"}))
============================================================================
