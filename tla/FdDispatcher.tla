---------------------------- MODULE FdDispatcher ----------------------------
(***************************************************************************)
(* What AsyncFdWatcher promises its client, with no thread, pipe or lock   *)
(* in sight: registered descriptors have their callbacks run one at a time *)
(* while they have data, and a stop waits for the callback that is running *)
(* and then forgets every descriptor.                                      *)
(***************************************************************************)
EXTENDS Integers

CONSTANTS Fds, MaxUnits, NoFd

VARIABLES
    registered,   \* descriptors whose callback may run
    stopping,     \* a stop has been asked for and has not finished
    active,       \* the descriptor whose callback is running, or NoFd
    avail         \* unread units behind each descriptor

vars == <<registered, stopping, active, avail>>

Init ==
    /\ registered = {}
    /\ stopping = FALSE
    /\ active = NoFd
    /\ avail = [fd \in Fds |-> 0]

Register(fd) ==
    /\ ~stopping
    /\ registered' = registered \cup {fd}
    /\ UNCHANGED <<stopping, active, avail>>

BeginCallback(fd) ==
    /\ active = NoFd
    /\ fd \in registered
    /\ avail[fd] > 0
    /\ active' = fd
    /\ UNCHANGED <<registered, stopping, avail>>

EndCallback ==
    /\ active # NoFd
    /\ active' = NoFd
    /\ avail' = [avail EXCEPT ![active] = @ - 1]
    /\ UNCHANGED <<registered, stopping>>

BeginStop ==
    /\ ~stopping
    /\ stopping' = TRUE
    /\ UNCHANGED <<registered, active, avail>>

FinishStop ==
    /\ stopping
    /\ active = NoFd
    /\ stopping' = FALSE
    /\ registered' = {}
    /\ UNCHANGED <<active, avail>>

DataArrives(fd) ==
    /\ avail[fd] < MaxUnits
    /\ avail' = [avail EXCEPT ![fd] = @ + 1]
    /\ UNCHANGED <<registered, stopping, active>>

Next ==
    \/ \E fd \in Fds : Register(fd) \/ BeginCallback(fd) \/ DataArrives(fd)
    \/ EndCallback
    \/ BeginStop
    \/ FinishStop

SafetySpec == Init /\ [][Next]_vars

\* A callback that runs returns; a stop that was asked for finishes.
Spec ==
    /\ SafetySpec
    /\ WF_vars(EndCallback)
    /\ SF_vars(FinishStop)
=============================================================================
