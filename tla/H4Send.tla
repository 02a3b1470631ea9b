------------------------------- MODULE H4Send -------------------------------
(***************************************************************************)
(* The sending half of the H4 transport: H4Protocol::Send and              *)
(* HciProtocol::WriteSafely (src/bluetooth/h4_protocol.cc,                 *)
(* src/bluetooth/hci_protocol.cc).                                         *)
(*                                                                         *)
(* A frame is a type byte and a payload, written with one or more write()  *)
(* calls each. Send takes no lock: the RPC thread and the watcher thread   *)
(* (a call nested in a callback runs on it) may both be inside. The wire   *)
(* is the sequence of the bytes the tty has accepted; byte 0 of a frame is *)
(* its type.                                                               *)
(***************************************************************************)
EXTENDS Integers, Sequences

CONSTANTS
    Senders,       \* threads that call Send
    MaxFrames,     \* bound: calls of Send
    MaxPayload     \* bound: payload bytes of a frame

ASSUME SendBoundsAssumption == MaxFrames \in Nat /\ MaxPayload \in Nat

VARIABLES
    begun,     \* calls of Send begun: their sender and payload length
    at,        \* where each sender is
    frame,     \* the call it is in
    next,      \* index in the frame of the next byte it will write
    wire,      \* bytes accepted by the tty
    failed     \* history: calls that a write error has cut short

sendVars == <<begun, at, frame, next, wire, failed>>

Frames == 1..MaxFrames

InitSend ==
    /\ begun = <<>>
    /\ at = [s \in Senders |-> "idle"]
    /\ frame = [s \in Senders |-> 0]
    /\ next = [s \in Senders |-> 0]
    /\ wire = <<>>
    /\ failed = {}

Send(s, length) ==
    /\ at[s] = "idle"
    /\ Len(begun) < MaxFrames
    /\ begun' = Append(begun, [by |-> s, length |-> length])
    /\ at' = [at EXCEPT ![s] = "type"]
    /\ frame' = [frame EXCEPT ![s] = Len(begun')]
    /\ next' = [next EXCEPT ![s] = 0]
    /\ UNCHANGED <<wire, failed>>

\* The bytes from..to of the frame s is sending.
Bytes(s, from, to) ==
    [i \in 1..(to - from + 1) |-> [frame |-> frame[s], index |-> from + i - 1]]

\* The last byte of the WriteSafely call s is in.
LastByte(s) == IF at[s] = "type" THEN 0 ELSE begun[frame[s]].length

Progress(s, to) == to + 1

\* write() accepts the bytes up to index to, perhaps not all that were offered.
Write(s, to) ==
    /\ at[s] # "idle"
    /\ to \in next[s]..LastByte(s)
    /\ wire' = wire \o Bytes(s, next[s], to)
    /\ next' = [next EXCEPT ![s] = Progress(s, to)]
    /\ UNCHANGED <<begun, at, frame, failed>>

\* Mutations: the loop ends at any time; it waits for one byte too many.
AnyOutcome(s) == TRUE
OneMore(s) == next[s] > LastByte(s) + 1
Transmitted(s) == next[s] > LastByte(s)

\* The first WriteSafely has returned sizeof(type).
BeginPayload(s) ==
    /\ at[s] = "type"
    /\ Transmitted(s)
    /\ at' = [at EXCEPT ![s] = "payload"]
    /\ next' = [next EXCEPT ![s] = 1]
    /\ UNCHANGED <<begun, frame, wire, failed>>

SendReturns(s) ==
    /\ at[s] = "payload"
    /\ Transmitted(s)
    /\ at' = [at EXCEPT ![s] = "idle"]
    /\ UNCHANGED <<begun, frame, next, wire, failed>>

\* write() returns 0 or an error other than EAGAIN, which ends the loop and the call.
WriteFails(s) ==
    /\ at[s] # "idle"
    /\ next[s] <= LastByte(s)
    /\ at' = [at EXCEPT ![s] = "idle"]
    /\ failed' = failed \cup {frame[s]}
    /\ UNCHANGED <<begun, frame, next, wire>>

\* EAGAIN is retried at once: a step that changes nothing.
SenderStep(s) ==
    \/ \E to \in 0..MaxPayload : Write(s, to)
    \/ BeginPayload(s) \/ SendReturns(s)

NextSend ==
    \E s \in Senders :
        \/ \E length \in 0..MaxPayload : Send(s, length)
        \/ SenderStep(s)
        \/ WriteFails(s)

SendSpec == InitSend /\ [][NextSend]_sendVars

\* The tty does not answer EAGAIN for ever.
FairSendSpec == SendSpec /\ \A s \in Senders : WF_sendVars(SenderStep(s))

-----------------------------------------------------------------------------
(* Properties.                                                             *)

\* The places on the wire of the bytes of a frame, and of a thread.
PlacesOf(f) == {k \in DOMAIN wire : wire[k].frame = f}
PlacesBy(s) == {k \in DOMAIN wire : begun[wire[k].frame].by = s}

First(P, k) == k \in P /\ \A i \in P : k <= i
Adjacent(P, j, k) == j \in P /\ k \in P /\ j < k /\ \A i \in P : i <= j \/ k <= i

\* Whatever the threads interleave and however short the writes are: the bytes
\* of one frame are on the wire in order, each once, none before its type byte.
FramesInOrder ==
    \A f \in Frames :
        /\ \A k \in PlacesOf(f) : First(PlacesOf(f), k) => wire[k].index = 0
        /\ \A j, k \in PlacesOf(f) :
               Adjacent(PlacesOf(f), j, k) => wire[k].index = wire[j].index + 1

\* FramesInOrder, and a thread none of whose writes has failed puts its frames on the
\* wire whole, one after the other, as the controller has to cut them. (The bytes of
\* the other thread may lie between them: Send takes no lock.)
WireIsFramed ==
    /\ FramesInOrder
    /\ \A s \in Senders :
           (\A f \in failed : begun[f].by # s) =>
               \A j, k \in PlacesBy(s) :
                   Adjacent(PlacesBy(s), j, k) =>
                       IF wire[j].index < begun[wire[j].frame].length
                       THEN wire[k] = [wire[j] EXCEPT !.index = @ + 1]
                       ELSE wire[k].frame > wire[j].frame /\ wire[k].index = 0

\* Every Send returns, whatever the tty makes of its bytes.
EverySendReturns == \A s \in Senders : (at[s] # "idle") ~> (at[s] = "idle")
=============================================================================
