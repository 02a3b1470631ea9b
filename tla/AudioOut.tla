------------------------------ MODULE AudioOut ------------------------------
(***************************************************************************)
(* src/audio/audio_hw.c: the output streams of the audio HAL.  Any thread  *)
(* may write to a stream, put it in standby or change its route; each call *)
(* takes the lock of the device, then the lock of the stream, and a write  *)
(* gives the first one back before it goes to the kernel.                  *)
(*                                                                         *)
(* The card plays one stream at a time.  A frame stands for a block of     *)
(* them, and Modulus for the 2^32 of an unsigned int, at which the count   *)
(* of the frames written starts again from 0.                              *)
(* The input streams, which are stubs, have no state; `devices` is written *)
(* by out_set_parameters and read by nobody, and is left out.              *)
(***************************************************************************)
EXTENDS Integers, FiniteSets

CONSTANTS Threads,
          Streams,      \* alsa_stream_out objects
          NoStream, NoThread,
          BUFFER_SIZE,  \* period_size * period_count
          Modulus,
          MaxFrames     \* bound: frames of a stream, when another write begins

ASSUME BufferAssumption == BUFFER_SIZE \in Nat \ {0}
ASSUME ModulusAssumption == Modulus \in Nat /\ Modulus > BUFFER_SIZE /\ MaxFrames \in Nat
ASSUME NoStreamAssumption == NoStream \notin Streams /\ NoThread \notin Threads

VARIABLES
    out,            \* the streams; NoObject before calloc and after free
    active_output,  \* of the device
    queued,         \* frames the kernel has and has not played
    adev_lock,      \* the thread that has the lock of the device
    call,           \* where each thread is
    gone,           \* history: all the frames of each stream that were played, or dropped
                    \* by a standby, as long as all its writes were counted
    uncounted,      \* history: streams that had a write fail half way
    eclipsed        \* history: streams that were open when the start of another failed

vars == <<out, active_output, queued, adev_lock, call, gone, uncounted, eclipsed>>
history == <<gone, uncounted, eclipsed>>

NoObject == [alive |-> FALSE, standby |-> TRUE, pcm |-> "null", unavailable |-> FALSE,
             written |-> 0, lock |-> NoThread]
Idle == [pc |-> "idle", op |-> "none", stream |-> NoStream]
Playing(s) == out[s].pcm = "open"

Init ==
    /\ out = [s \in Streams |-> NoObject]
    /\ active_output = NoStream
    /\ queued = 0
    /\ adev_lock = NoThread
    /\ call = [t \in Threads |-> Idle]
    /\ gone = [s \in Streams |-> 0] /\ uncounted = {} /\ eclipsed = {}
-----------------------------------------------------------------------------
(* Streams come and go.  The caller closes a stream that is in standby and *)
(* that no thread is in, and writes to a stream from one thread at a time. *)

\* n frames of s leave the kernel.
Left(s, n) == IF s \in uncounted THEN gone ELSE [gone EXCEPT ![s] = @ + n]

Busy(s) == \E t \in Threads : call[t].stream = s
Writing(s) == \E t \in Threads : call[t].stream = s /\ call[t].op = "write"

adev_open_output_stream(s) ==
    /\ ~out[s].alive
    /\ out' = [out EXCEPT ![s] = [NoObject EXCEPT !.alive = TRUE]]
    /\ UNCHANGED <<active_output, queued, adev_lock, call, history>>

\* Nothing but free().
adev_close_output_stream(s) ==
    /\ out[s].alive /\ out[s].standby /\ ~Busy(s)
    /\ out' = [out EXCEPT ![s] = NoObject]
    /\ gone' = [gone EXCEPT ![s] = 0]
    /\ uncounted' = uncounted \ {s}
    /\ eclipsed' = eclipsed \ {s}
    /\ UNCHANGED <<active_output, queued, adev_lock, call>>

Begin(t, op, s) ==
    /\ call[t] = Idle /\ out[s].alive
    /\ op = "write" => ~Writing(s) /\ gone[s] + queued < MaxFrames
    /\ call' = [call EXCEPT ![t] = [pc |-> "device", op |-> op, stream |-> s]]
    /\ UNCHANGED <<out, active_output, queued, adev_lock, history>>

Goto(t, label) == call' = [call EXCEPT ![t].pc = label]

UnlockDevice(t) == adev_lock' = IF adev_lock = t THEN NoThread ELSE adev_lock

LockDevice(t) ==
    /\ call[t].pc = "device" /\ adev_lock = NoThread
    /\ adev_lock' = t
    /\ Goto(t, "stream")
    /\ UNCHANGED <<out, active_output, queued, history>>

\* Mutant of LockDeviceFor: a stream that plays needs only its own lock.
LockDeviceToStart(t) ==
    \/ LockDevice(t)
    \/ /\ call[t].pc = "device" /\ call[t].op = "write" /\ ~out[call[t].stream].standby
       /\ Goto(t, "stream")
       /\ UNCHANGED <<out, active_output, queued, adev_lock, history>>

\* Every call does this, a write to a stream that plays as well.
LockDeviceFor(t) == LockDevice(t)

\* Mutant of LockStream: standby relies on the lock of the device.
StandbyUnlocked(t) ==
    LET s == call[t].stream IN
    /\ call[t].pc = "stream" /\ (call[t].op = "standby" \/ out[s].lock = NoThread)
    /\ out' = IF call[t].op = "standby" THEN out ELSE [out EXCEPT ![s].lock = t]
    /\ Goto(t, call[t].op)
    /\ UNCHANGED <<active_output, queued, adev_lock, history>>

LockStream(t) ==
    LET s == call[t].stream IN
    /\ call[t].pc = "stream" /\ out[s].lock = NoThread
    /\ out' = [out EXCEPT ![s].lock = t]
    /\ Goto(t, call[t].op)
    /\ UNCHANGED <<active_output, queued, adev_lock, history>>

\* out_set_parameters, as far as it goes with the locks.
out_set_parameters(t) ==
    /\ call[t].pc = "route"
    /\ out' = [out EXCEPT ![call[t].stream].lock = NoThread]
    /\ UnlockDevice(t)
    /\ call' = [call EXCEPT ![t] = Idle]
    /\ UNCHANGED <<active_output, queued, history>>

\* What is queued is lost when the pcm is closed; written is not told.
do_output_standby(t) ==
    LET s == call[t].stream IN
    /\ call[t].pc = "standby"
    /\ IF out[s].standby
       THEN /\ out' = [out EXCEPT ![s].lock = NoThread]
            /\ UNCHANGED <<active_output, queued, gone>>
       ELSE /\ out' = [out EXCEPT ![s].lock = NoThread, ![s].pcm = "null",
                                  ![s].standby = TRUE]
            /\ active_output' = NoStream
            /\ gone' = Left(s, queued)
            /\ queued' = 0
    /\ eclipsed' = eclipsed \ {s}
    /\ UnlockDevice(t)
    /\ call' = [call EXCEPT ![t] = Idle]
    /\ UNCHANGED uncounted
-----------------------------------------------------------------------------
(* A write. *)

\* pcm_open succeeds only for the one that has the card.
start_output_stream(s) ==
    /\ ~out[s].unavailable /\ \A r \in Streams : ~Playing(r)
    /\ out' = [out EXCEPT ![s].pcm = "open", ![s].standby = FALSE]
    /\ active_output' = s
    /\ UNCHANGED eclipsed

\* It is not tried again: the stream stays unavailable.  What was active is forgotten.
StartFails(s) ==
    IF out[s].unavailable THEN UNCHANGED <<out, active_output, eclipsed>>
    ELSE /\ out' = [out EXCEPT ![s].pcm = "bad", ![s].unavailable = TRUE]
         /\ active_output' = NoStream
         /\ eclipsed' = eclipsed \cup {r \in Streams : Playing(r)}

WriteStart(t) ==
    LET s == call[t].stream IN
    /\ call[t].pc = "write"
    /\ \/ /\ ~out[s].standby
          /\ UNCHANGED <<out, active_output, eclipsed>>
          /\ Goto(t, "pcm")
       \/ /\ out[s].standby
          /\ start_output_stream(s)
          /\ Goto(t, "pcm")
       \/ /\ out[s].standby
          /\ StartFails(s)
          /\ Goto(t, "exit")
    /\ UnlockDevice(t)
    /\ UNCHANGED <<queued, gone, uncounted>>

\* Mutant of CountWritten: frames are counted when they are handed over.
CountAll(s, ret) == [out EXCEPT ![s].written = (@ + 1) % Modulus]

CountWritten(s, ret) ==
    IF ret = 0 THEN [out EXCEPT ![s].written = (@ + 1) % Modulus] ELSE out

\* pcm_mmap_write waits for room, or until something goes wrong, perhaps when the
\* frames are in the buffer.
pcm_mmap_write(t) ==
    LET s == call[t].stream IN
    /\ call[t].pc = "pcm"
    /\ \E ret \in {0, -1}, taken \in {0, 1} :
          /\ ret = 0 => taken = 1
          /\ queued + taken <= BUFFER_SIZE
          /\ queued' = queued + taken
          /\ out' = CountWritten(s, ret)
          /\ IF ret # 0 /\ taken = 1
             THEN uncounted' = uncounted \cup {s} /\ gone' = [gone EXCEPT ![s] = 0]
             ELSE UNCHANGED <<uncounted, gone>>
    /\ Goto(t, "exit")
    /\ UNCHANGED <<active_output, adev_lock, eclipsed>>

Exit(t) ==
    /\ call[t].pc = "exit"
    /\ out' = [out EXCEPT ![call[t].stream].lock = NoThread]
    /\ call' = [call EXCEPT ![t] = Idle]
    /\ UNCHANGED <<active_output, queued, adev_lock, history>>

\* The card plays a frame.
Play ==
    /\ queued > 0
    /\ queued' = queued - 1
    /\ \E s \in Streams : Playing(s) /\ gone' = Left(s, 1)
    /\ UNCHANGED <<out, active_output, adev_lock, call, uncounted, eclipsed>>
-----------------------------------------------------------------------------
Step(t) ==
    \/ LockDeviceFor(t) \/ LockStream(t)
    \/ out_set_parameters(t) \/ do_output_standby(t)
    \/ WriteStart(t) \/ pcm_mmap_write(t) \/ Exit(t)

Next ==
    \/ Play
    \/ \E s \in Streams : adev_open_output_stream(s) \/ adev_close_output_stream(s)
    \/ \E t \in Threads :
          \/ Step(t)
          \/ \E op \in {"write", "standby", "route"}, s \in Streams : Begin(t, op, s)

\* A thread goes on when it can.  The lock of the device is given to everybody who
\* waits for it; nothing like that is asked of the locks of the streams.
Fairness ==
    /\ WF_vars(Play)
    /\ \A t \in Threads : WF_vars(Step(t)) /\ SF_vars(LockDeviceFor(t))

Spec == Init /\ [][Next]_vars /\ Fairness
-----------------------------------------------------------------------------
\* active_output names a stream that plays, and each stream that plays but for one
\* that another stream, failing to start, has made the device forget.  The pcm that
\* a write goes to, without the lock of the device, is open until the write is over.
OutputConsistent ==
    /\ \A s \in Streams : Playing(s) <=> out[s].alive /\ ~out[s].standby
    /\ active_output # NoStream => Playing(active_output)
    /\ \A s \in Streams : Playing(s) => active_output = s \/ s \in eclipsed
    /\ \A t \in Threads :
          call[t].pc = "pcm" => Playing(call[t].stream) /\ out[call[t].stream].lock = t

\* The sum is one of unsigned ints where size_t has 32 bits, and starts again from 0
\* with them; 64 bits hold it as it is, and below 0 there is no answer.
NoPosition == -1

out_get_presentation_position(s, size_t) ==
    LET avail == BUFFER_SIZE - queued
        sum   == out[s].written - BUFFER_SIZE + avail
        signed_frames == IF size_t = 32 THEN sum % Modulus ELSE sum
    IN IF signed_frames >= 0 THEN signed_frames ELSE NoPosition

\* The frame played last and the last one written are not of the same round of `written`.
Between(s) == (gone[s] % Modulus) + queued >= Modulus

\* Asked for between two writes, the position is that of the frame played last, modulo
\* 2^32: after as many frames it starts again from 0, though a client has 64 bits for
\* it.  The 64 bit build has no answer from when the count starts again until what was
\* played does.  Frames that a standby has dropped are counted as played.  A write that
\* failed after the kernel took its frames makes the position wrong for ever, and so
\* does asking while a write runs.
PositionIsPlayed ==
    \A s \in Streams, size_t \in {32, 64} :
        Playing(s) /\ ~Writing(s) /\ s \notin uncounted =>
            out_get_presentation_position(s, size_t) =
                IF size_t = 64 /\ Between(s) THEN NoPosition ELSE gone[s] % Modulus

\* Every call returns.  A thread that has the lock of the device and waits for the
\* lock of a stream is not overtaken by the next write: that one needs the lock of
\* the device first, "useful if a low priority thread is waiting on the output
\* stream mutex" (line 256).
CallsReturn == \A t \in Threads : call[t] # Idle ~> call[t] = Idle
=============================================================================
