--------------------------- MODULE AudioOutProofs ---------------------------
(***************************************************************************)
(* Proofs about AudioOut: for any threads, streams and buffer, the device  *)
(* and the streams agree on what plays, no pcm is closed under a write,    *)
(* and the position is that of what was played, modulo the range of an     *)
(* unsigned int, whatever the number of frames.                            *)
(***************************************************************************)
EXTENDS AudioOut, TLAPS

Labels == {"idle", "device", "stream", "write", "standby", "route", "pcm", "exit"}

Objects == [alive : BOOLEAN, standby : BOOLEAN, pcm : {"null", "open", "bad"},
            unavailable : BOOLEAN, written : 0..(Modulus - 1),
            lock : Threads \cup {NoThread}]

Calls == [pc : Labels, op : {"none", "write", "standby", "route"},
          stream : Streams \cup {NoStream}]

TypeOK ==
    /\ out \in [Streams -> Objects]
    /\ active_output \in Streams \cup {NoStream}
    /\ queued \in Nat
    /\ adev_lock \in Threads \cup {NoThread}
    /\ call \in [Threads -> Calls]
    /\ gone \in [Streams -> Nat]
    /\ uncounted \subseteq Streams /\ eclipsed \subseteq Streams

\* A thread in a call is in one of a stream that is there.  Past the lock of the
\* stream it has that lock, and before the end of a write the pcm plays.
CallInv ==
    \A t \in Threads :
        /\ call[t].pc # "idle" => /\ call[t].op # "none"
                                  /\ call[t].stream \in Streams /\ out[call[t].stream].alive
        /\ call[t].pc \in {"route", "standby", "write", "pcm", "exit"}
              => out[call[t].stream].lock = t
        /\ call[t].pc = "pcm" => Playing(call[t].stream)

\* One stream plays at most, and the device knows it unless it was made to forget.
CardInv ==
    /\ \A s \in Streams : Playing(s) <=> out[s].alive /\ ~out[s].standby
    /\ \A r, s \in Streams : Playing(r) /\ Playing(s) => r = s
    /\ active_output # NoStream => Playing(active_output)
    /\ \A s \in Streams : Playing(s) => active_output = s \/ s \in eclipsed

\* A number of frames, in an unsigned int.
Counted(n) == n % Modulus

\* Nothing is queued unless a stream plays, and never more than fits; and what a stream
\* has counted is what has left the kernel and, if it plays, what is queued, in an
\* unsigned int.
FrameInv ==
    /\ queued <= BUFFER_SIZE
    /\ (\A s \in Streams : ~Playing(s)) => queued = 0
    /\ \A s \in Streams :
          /\ s \notin uncounted =>
                out[s].written = Counted(gone[s] + (IF Playing(s) THEN queued ELSE 0))
          /\ ~out[s].alive => out[s] = NoObject

AudioInv == TypeOK /\ CallInv /\ CardInv /\ FrameInv
-----------------------------------------------------------------------------
\* What a remainder is, for any modulus.
LEMMA Remainder ==
    ASSUME NEW a \in Int, NEW m \in Nat \ {0}
    PROVE  /\ a % m \in 0..(m - 1)
           /\ a \div m \in Int
           /\ a = m * (a \div m) + (a % m)
  OBVIOUS

\* A multiple of m and a rest below m: the rest is the remainder.
LEMMA OnlyRemainder ==
    ASSUME NEW a \in Int, NEW m \in Nat \ {0}, NEW q \in Int, NEW r \in 0..(m - 1),
           a = m * q + r
    PROVE  a % m = r
<1>1. PICK p \in Int : p = a \div m /\ a = m * p + (a % m)
  BY Remainder
<1>2. PICK x \in Int : x = a % m /\ 0 <= x /\ x < m
  BY Remainder
<1>3. m * (q - p) = x - r
  BY <1>1, <1>2
<1>4. q - p < 1
  <2> SUFFICES ASSUME q - p >= 1 PROVE FALSE
    OBVIOUS
  <2>1. m * (q - p) >= m
    OBVIOUS
  <2> QED
    BY <1>2, <1>3, <2>1
<1>5. p - q < 1
  <2> SUFFICES ASSUME p - q >= 1 PROVE FALSE
    OBVIOUS
  <2>1. m * (p - q) >= m /\ m * (p - q) = r - x
    BY <1>3
  <2> QED
    BY <1>2, <2>1
<1>6. q - p = 0
  BY <1>4, <1>5
<1>7. m * (q - p) = 0
  BY <1>6
<1> QED
  BY <1>2, <1>3, <1>7

\* An unsigned int counts on, from 0 again after the last number it has.
LEMMA CountsOn ==
    ASSUME NEW n \in Nat
    PROVE  /\ Counted(n) \in 0..(Modulus - 1)
           /\ Counted(n + 1) = (Counted(n) + 1) % Modulus
<1>1. Modulus \in Nat \ {0}
  BY BufferAssumption, ModulusAssumption
<1>2. PICK q \in Int, x \in 0..(Modulus - 1) :
          q = n \div Modulus /\ x = n % Modulus /\ n = Modulus * q + x
  BY <1>1, Remainder
<1>3. CASE x + 1 < Modulus
  <2>1. x + 1 \in 0..(Modulus - 1) /\ n + 1 \in Int /\ n + 1 = Modulus * q + (x + 1)
    BY <1>1, <1>2, <1>3
  <2>2. (n + 1) % Modulus = x + 1
    BY <1>1, <2>1, OnlyRemainder
  <2>3. (x + 1) % Modulus = x + 1
    BY <1>1, <2>1
  <2> QED
    BY <1>2, <2>2, <2>3 DEF Counted
<1>4. CASE x + 1 = Modulus
  <2>1. 0 \in 0..(Modulus - 1) /\ n + 1 \in Int /\ q + 1 \in Int
    BY <1>1
  <2>2. n + 1 = Modulus * (q + 1) + 0
    BY <1>1, <1>2, <1>4
  <2>3. (n + 1) % Modulus = 0
    BY <1>1, <2>1, <2>2, OnlyRemainder
  <2>4. x + 1 \in Int /\ 1 \in Int /\ x + 1 = Modulus * 1 + 0
    BY <1>1, <1>4
  <2>5. (x + 1) % Modulus = 0
    BY <1>1, <2>1, <2>4, OnlyRemainder
  <2> QED
    BY <1>2, <2>3, <2>5 DEF Counted
<1>5. x + 1 < Modulus \/ x + 1 = Modulus
  BY <1>1, <1>2
<1> QED
  BY <1>2, <1>3, <1>4, <1>5 DEF Counted

\* Nothing counted is 0.
LEMMA NothingCounted == Counted(0) = 0
<1>1. Modulus \in Nat \ {0}
  BY BufferAssumption, ModulusAssumption
<1>2. 0 \in Int /\ 0 \in 0..(Modulus - 1) /\ 0 = Modulus * 0 + 0
  BY <1>1
<1>3. 0 % Modulus = 0
  BY <1>1, <1>2, OnlyRemainder
<1> QED
  BY <1>3 DEF Counted

-----------------------------------------------------------------------------
\* No stream exists, no thread is in a call.
LEMMA InitAudio == Init => AudioInv
<1> SUFFICES ASSUME Init PROVE AudioInv
  OBVIOUS
<1> USE DEF Init, NoObject, Idle, Playing
<1>1. TypeOK
  <2>1. 0 \in 0..(Modulus - 1)
    BY BufferAssumption, ModulusAssumption
  <2> QED
    BY <2>1 DEF TypeOK, Labels, Objects, Calls
<1>2. CallInv
  BY DEF CallInv
<1>3. CardInv
  BY DEF CardInv
<1>4. FrameInv
  BY BufferAssumption, NothingCounted DEF FrameInv
<1> QED
  BY <1>1, <1>2, <1>3, <1>4 DEF AudioInv

\* A stream comes with nothing written, and goes when no thread is in it.
LEMMA OpenKeepsAudio ==
    ASSUME AudioInv, NEW s \in Streams, adev_open_output_stream(s)
    PROVE  AudioInv'
<1> USE DEF AudioInv, adev_open_output_stream, NoObject, history
<1>1. TypeOK'
  <2>1. 0 \in 0..(Modulus - 1)
    BY BufferAssumption, ModulusAssumption
  <2> QED
    BY <2>1 DEF TypeOK, Objects, Calls
<1>2. CallInv'
  BY DEF TypeOK, Objects, Calls, CallInv, FrameInv, Playing
<1>3. CardInv'
  BY DEF TypeOK, Objects, Calls, CardInv, FrameInv, Playing
<1>4. FrameInv'
  BY DEF TypeOK, Objects, Calls, CardInv, FrameInv, Playing
<1> QED
  BY <1>1, <1>2, <1>3, <1>4

LEMMA CloseKeepsAudio ==
    ASSUME AudioInv, NEW s \in Streams, adev_close_output_stream(s)
    PROVE  AudioInv'
<1> USE DEF AudioInv, adev_close_output_stream, NoObject
<1>1. TypeOK'
  <2>1. 0 \in 0..(Modulus - 1)
    BY BufferAssumption, ModulusAssumption
  <2> QED
    BY <2>1 DEF TypeOK, Objects, Calls
<1>2. CallInv'
  BY DEF TypeOK, Objects, Calls, CallInv, Busy, Playing
<1>3. CardInv'
  BY NoStreamAssumption DEF TypeOK, Objects, Calls, CardInv, Playing
<1>4. FrameInv'
  BY NothingCounted DEF TypeOK, Objects, Calls, CardInv, FrameInv, Playing
<1> QED
  BY <1>1, <1>2, <1>3, <1>4

\* A call that begins, or takes the lock of the device, changes no stream.
LEMMA BeginKeepsAudio ==
    ASSUME AudioInv, NEW t \in Threads, NEW s \in Streams,
           NEW op \in {"write", "standby", "route"}, Begin(t, op, s)
    PROVE  AudioInv'
<1> USE DEF AudioInv, Begin, history
<1>1. TypeOK'
  BY DEF TypeOK, Labels, Objects, Calls
<1>2. CallInv'
  BY DEF TypeOK, Objects, Calls, CallInv, Playing
<1>3. CardInv' /\ FrameInv'
  BY DEF CardInv, FrameInv, Playing
<1> QED
  BY <1>1, <1>2, <1>3

LEMMA LockDeviceKeepsAudio ==
    ASSUME AudioInv, NEW t \in Threads, LockDeviceFor(t)
    PROVE  AudioInv'
<1> USE DEF AudioInv, LockDeviceFor, LockDevice, Goto, history
<1>1. TypeOK'
  BY DEF TypeOK, Labels, Objects, Calls
<1>2. CallInv'
  BY DEF TypeOK, Objects, Calls, CallInv, Playing
<1>3. CardInv' /\ FrameInv'
  BY DEF CardInv, FrameInv, Playing
<1> QED
  BY <1>1, <1>2, <1>3

\* What the other conjuncts say of a stream does not depend on its lock.
LEMMA LocksAside ==
    ASSUME TypeOK, CardInv, FrameInv, NEW s \in Streams, out[s].alive,
           NEW t \in Threads \cup {NoThread},
           out' = [out EXCEPT ![s].lock = t],
           UNCHANGED <<active_output, queued, gone, uncounted, eclipsed>>
    PROVE  CardInv' /\ FrameInv'
<1>1. \A r \in Streams : /\ out'[r].alive = out[r].alive /\ out'[r].standby = out[r].standby
                         /\ out'[r].pcm = out[r].pcm /\ out'[r].written = out[r].written
                         /\ ~out[r].alive => out'[r] = out[r]
  BY DEF TypeOK, Objects
<1>2. CardInv'
  BY <1>1, NoStreamAssumption DEF CardInv, Playing, TypeOK
<1>3. \A r \in Streams : out'[r].pcm = "open" <=> out[r].pcm = "open"
  BY <1>1
<1>4. \A r \in Streams : ~out'[r].alive => out'[r] = NoObject
  BY <1>1 DEF FrameInv
<1>5. FrameInv'
  BY <1>1, <1>3, <1>4 DEF FrameInv, Playing
<1> QED
  BY <1>2, <1>5

LEMMA LockStreamKeepsAudio ==
    ASSUME AudioInv, NEW t \in Threads, LockStream(t)
    PROVE  AudioInv'
<1> USE DEF AudioInv, Goto, history
<1>1. PICK s \in Streams :
          /\ s = call[t].stream /\ out[s].alive /\ out[s].lock = NoThread
          /\ out' = [out EXCEPT ![s].lock = t]
  BY DEF CallInv, LockStream
<1>2. /\ call' = [call EXCEPT ![t].pc = call[t].op] /\ call[t].pc = "stream"
      /\ UNCHANGED <<active_output, queued, adev_lock, gone, uncounted, eclipsed>>
  BY DEF LockStream
<1>3. TypeOK'
  <2>1. out' \in [Streams -> Objects]
    BY <1>1 DEF TypeOK, Objects
  <2>2. call' \in [Threads -> Calls]
    BY <1>2 DEF TypeOK, CallInv, Calls, Labels
  <2> QED
    BY <1>2, <2>1, <2>2 DEF TypeOK
<1>4. CallInv'
  BY <1>1, <1>2, NoStreamAssumption DEF TypeOK, Objects, Calls, CallInv, Playing
<1>5. CardInv' /\ FrameInv'
  BY <1>1, <1>2, LocksAside
<1> QED
  BY <1>3, <1>4, <1>5

LEMMA ExitKeepsAudio ==
    ASSUME AudioInv, NEW t \in Threads, Exit(t) \/ out_set_parameters(t)
    PROVE  AudioInv'
<1> USE DEF AudioInv, history
<1>1. PICK s \in Streams :
          /\ s = call[t].stream /\ out[s].alive /\ out[s].lock = t
          /\ out' = [out EXCEPT ![s].lock = NoThread]
  BY DEF CallInv, Exit, out_set_parameters
<1>2. /\ call' = [call EXCEPT ![t] = Idle]
      /\ adev_lock' \in {adev_lock, NoThread}
      /\ UNCHANGED <<active_output, queued, gone, uncounted, eclipsed>>
  BY DEF Exit, out_set_parameters, UnlockDevice
<1>3. TypeOK'
  <2>1. out' \in [Streams -> Objects]
    BY <1>1 DEF TypeOK, Objects
  <2>2. call' \in [Threads -> Calls]
    BY <1>2 DEF TypeOK, Calls, Labels, Idle
  <2> QED
    BY <1>2, <2>1, <2>2 DEF TypeOK
<1>4. CallInv'
  BY <1>1, <1>2, NoStreamAssumption DEF TypeOK, Objects, Calls, CallInv, Playing, Idle
<1>5. CardInv' /\ FrameInv'
  BY <1>1, <1>2, LocksAside
<1> QED
  BY <1>3, <1>4, <1>5

\* A standby closes the pcm of a stream that no writer is in, for it has its lock;
\* no other stream plays.
LEMMA StandbyKeepsAudio ==
    ASSUME AudioInv, NEW t \in Threads, do_output_standby(t)
    PROVE  AudioInv'
<1> USE DEF AudioInv
<1>1. PICK s \in Streams : s = call[t].stream /\ out[s].alive /\ out[s].lock = t
  BY DEF CallInv, do_output_standby
<1>2. /\ call' = [call EXCEPT ![t] = Idle] /\ call[t].pc = "standby"
      /\ adev_lock' \in {adev_lock, NoThread}
      /\ eclipsed' = eclipsed \ {s} /\ uncounted' = uncounted
  BY <1>1 DEF do_output_standby, UnlockDevice
<1>3. call' \in [Threads -> Calls]
  BY <1>2 DEF TypeOK, Calls, Labels, Idle
<1>4. CASE out[s].standby
  <2>1. /\ out' = [out EXCEPT ![s].lock = NoThread]
        /\ UNCHANGED <<active_output, queued, gone>>
    BY <1>1, <1>4 DEF do_output_standby
  <2>2. ~Playing(s)
    BY <1>1, <1>4 DEF CardInv
  <2>3. \A r \in Streams :
            /\ out'[r].alive = out[r].alive /\ out'[r].standby = out[r].standby
            /\ out'[r].pcm = out[r].pcm /\ out'[r].written = out[r].written
            /\ ~out[r].alive => out'[r] = out[r]
    BY <1>1, <2>1 DEF TypeOK, Objects
  <2>4. TypeOK'
    <3>1. out' \in [Streams -> Objects]
      BY <2>1 DEF TypeOK, Objects
    <3> QED
      BY <1>2, <1>3, <2>1, <3>1 DEF TypeOK
  <2>5. CallInv'
    BY <1>1, <1>2, <2>1, NoStreamAssumption
       DEF TypeOK, Objects, Calls, CallInv, Playing, Idle
  <2>6. CardInv'
    BY <1>2, <2>1, <2>2, <2>3, NoStreamAssumption DEF TypeOK, CardInv, Playing
  <2>7. FrameInv'
    <3>1. \A r \in Streams : ~out'[r].alive => out'[r] = NoObject
      BY <2>3 DEF FrameInv
    <3> QED
      BY <1>2, <2>1, <2>3, <3>1 DEF FrameInv, Playing
  <2> QED
    BY <2>4, <2>5, <2>6, <2>7
<1>5. CASE ~out[s].standby
  <2>1. /\ out' = [out EXCEPT ![s].lock = NoThread, ![s].pcm = "null", ![s].standby = TRUE]
        /\ active_output' = NoStream /\ queued' = 0
        /\ gone' = IF s \in uncounted THEN gone ELSE [gone EXCEPT ![s] = @ + queued]
    BY <1>1, <1>5 DEF do_output_standby, Left
  <2>2. Playing(s) /\ \A r \in Streams \ {s} : ~Playing(r)
    BY <1>1, <1>5 DEF CardInv
  <2>3. /\ out'[s].alive /\ out'[s].standby /\ out'[s].pcm = "null"
        /\ out'[s].written = out[s].written
        /\ \A r \in Streams \ {s} : out'[r] = out[r]
    BY <1>1, <2>1 DEF TypeOK, Objects
  <2>4. TypeOK'
    <3>1. out' \in [Streams -> Objects]
      <4>1. [out[s] EXCEPT !.lock = NoThread, !.pcm = "null", !.standby = TRUE] \in Objects
        BY DEF TypeOK, Objects
      <4>2. out' = [out EXCEPT ![s] = [out[s] EXCEPT !.lock = NoThread, !.pcm = "null",
                                                     !.standby = TRUE]]
        BY <2>1 DEF TypeOK, Objects
      <4>3. out \in [Streams -> Objects]
        BY DEF TypeOK
      <4> QED
        BY <4>1, <4>2, <4>3
    <3>2. gone' \in [Streams -> Nat]
      BY <2>1 DEF TypeOK
    <3> QED
      BY <1>2, <1>3, <2>1, <3>1, <3>2 DEF TypeOK
  <2>5. CallInv'
    BY <1>1, <1>2, <2>1, NoStreamAssumption
       DEF TypeOK, Objects, Calls, CallInv, Playing, Idle
  <2>6. CardInv'
    BY <1>2, <2>1, <2>2, <2>3 DEF CardInv, Playing
  <2>7. FrameInv'
    <3>1. \A r \in Streams : out'[r].pcm # "open"
      BY <2>2, <2>3 DEF Playing
    <3>2. \A r \in Streams \ {s} :
              /\ r \notin uncounted => out'[r].written = Counted(gone'[r] + 0)
              /\ ~out'[r].alive => out'[r] = NoObject
      BY <2>1, <2>2, <2>3 DEF FrameInv, TypeOK
    <3>3. s \notin uncounted => out'[s].written = Counted(gone'[s] + 0)
      BY <2>1, <2>2, <2>3 DEF FrameInv, TypeOK
    <3>4. \A r \in Streams :
              /\ r \notin uncounted => out'[r].written = Counted(gone'[r] + 0)
              /\ ~out'[r].alive => out'[r] = NoObject
      BY <2>3, <3>2, <3>3
    <3>5. gone' \in [Streams -> Nat]
      BY <2>4 DEF TypeOK
    <3>6. \A r \in Streams : ~Playing(r)'
      BY <3>1 DEF Playing
    <3>7. \A r \in Streams : r \notin uncounted' =>
              out'[r].written = Counted(gone'[r] + (IF Playing(r)' THEN queued' ELSE 0))
      BY <1>2, <3>4, <3>6
    <3>8. queued' = 0 /\ queued' <= BUFFER_SIZE
      BY <2>1, BufferAssumption
    <3> QED
      BY <3>4, <3>7, <3>8 DEF FrameInv, Playing
  <2> QED
    BY <2>4, <2>5, <2>6, <2>7
<1> QED
  BY <1>4, <1>5

\* A stream starts only when no other plays, and then nothing is queued.
LEMMA WriteStartKeepsAudio ==
    ASSUME AudioInv, NEW t \in Threads, WriteStart(t)
    PROVE  AudioInv'
<1> USE DEF AudioInv
<1>1. PICK s \in Streams : s = call[t].stream /\ out[s].alive /\ out[s].lock = t
  BY DEF CallInv, WriteStart
<1>2. /\ call[t].pc = "write" /\ adev_lock' \in {adev_lock, NoThread}
      /\ UNCHANGED <<queued, gone, uncounted>>
  BY DEF WriteStart, UnlockDevice
<1>3. CASE /\ ~out[s].standby /\ UNCHANGED <<out, active_output, eclipsed>>
           /\ Goto(t, "pcm")
  <2>1. Playing(s)
    BY <1>1, <1>3 DEF CardInv
  <2>2. TypeOK'
    BY <1>2, <1>3 DEF TypeOK, Calls, Labels, Goto
  <2>3. CallInv'
    BY <1>1, <1>2, <1>3, <2>1 DEF TypeOK, Calls, CallInv, Playing, Goto
  <2>4. CardInv' /\ FrameInv'
    BY <1>2, <1>3 DEF CardInv, FrameInv, Playing
  <2> QED
    BY <2>2, <2>3, <2>4
<1>4. CASE out[s].standby /\ start_output_stream(s) /\ Goto(t, "pcm")
  <2>1. /\ out' = [out EXCEPT ![s].pcm = "open", ![s].standby = FALSE]
        /\ active_output' = s /\ eclipsed' = eclipsed
        /\ call' = [call EXCEPT ![t].pc = "pcm"]
        /\ \A r \in Streams : ~Playing(r)
    BY <1>4 DEF start_output_stream, Goto
  <2>2. /\ out'[s].alive /\ ~out'[s].standby /\ out'[s].pcm = "open" /\ out'[s].lock = t
        /\ out'[s].written = out[s].written
        /\ \A r \in Streams \ {s} : out'[r] = out[r]
    BY <1>1, <2>1 DEF TypeOK, Objects
  <2>3. TypeOK'
    <3>1. out' \in [Streams -> Objects]
      BY <2>1 DEF TypeOK, Objects
    <3>2. call' \in [Threads -> Calls]
      BY <2>1 DEF TypeOK, Calls, Labels
    <3> QED
      BY <1>2, <2>1, <3>1, <3>2 DEF TypeOK
  <2>4. CallInv'
    BY <1>1, <1>2, <2>1, <2>2 DEF TypeOK, Calls, CallInv, Playing
  <2>5. CardInv'
    <3>1. \A r \in Streams \ {s} : out'[r].pcm # "open" /\ (out'[r].alive => out'[r].standby)
      BY <2>1, <2>2 DEF CardInv, Playing
    <3> QED
      BY <2>1, <2>2, <3>1 DEF CardInv, Playing
  <2>6. FrameInv'
    <3>1. queued' = 0
      BY <1>2, <2>1 DEF FrameInv
    <3>2. \A r \in Streams :
              /\ out'[r].written = out[r].written
              /\ r \notin uncounted' => out'[r].written = Counted(gone'[r] + 0)
              /\ ~out'[r].alive => out'[r] = NoObject
      <4>1. \A r \in Streams : r \notin uncounted => out[r].written = Counted(gone[r] + 0)
        BY <2>1 DEF FrameInv
      <4>2. \A r \in Streams : out'[r].written = out[r].written
        BY <2>2
      <4>3. \A r \in Streams : ~out'[r].alive => out'[r] = NoObject
        BY <2>2 DEF FrameInv
      <4> QED
        BY <1>2, <4>1, <4>2, <4>3
    <3>3. gone' \in [Streams -> Nat]
      BY <2>3 DEF TypeOK
    <3> QED
      BY <1>1, <2>2, <3>1, <3>2, <3>3, BufferAssumption DEF FrameInv, Playing
  <2> QED
    BY <2>3, <2>4, <2>5, <2>6
<1>5. CASE out[s].standby /\ StartFails(s) /\ Goto(t, "exit")
  <2>1. call' = [call EXCEPT ![t].pc = "exit"] /\ ~Playing(s)
    BY <1>1, <1>5 DEF CardInv, Goto
  <2>2. call' \in [Threads -> Calls]
    BY <2>1 DEF TypeOK, Calls, Labels
  <2>3. CASE UNCHANGED <<out, active_output, eclipsed>>
    <3>1. TypeOK'
      BY <1>2, <2>2, <2>3 DEF TypeOK
    <3>2. CallInv'
      BY <1>1, <1>2, <2>1, <2>3 DEF TypeOK, Calls, CallInv, Playing
    <3>3. CardInv' /\ FrameInv'
      BY <1>2, <2>3 DEF CardInv, FrameInv, Playing
    <3> QED
      BY <3>1, <3>2, <3>3
  <2>4. CASE /\ out' = [out EXCEPT ![s].pcm = "bad", ![s].unavailable = TRUE]
             /\ active_output' = NoStream
             /\ eclipsed' = eclipsed \cup {r \in Streams : Playing(r)}
    <3>1. /\ out'[s].alive /\ out'[s].standby /\ out'[s].pcm = "bad" /\ out'[s].lock = t
          /\ out'[s].written = out[s].written
          /\ \A r \in Streams \ {s} : out'[r] = out[r]
      BY <1>1, <1>5, <2>4 DEF TypeOK, Objects
    <3>2. TypeOK'
      <4>1. out' \in [Streams -> Objects]
        BY <2>4 DEF TypeOK, Objects
      <4> QED
        BY <1>2, <2>2, <2>4, <4>1 DEF TypeOK
    <3>3. CallInv'
      BY <1>1, <1>2, <2>1, <3>1 DEF TypeOK, Calls, CallInv, Playing
    <3>4. \A r \in Streams : out'[r].pcm = "open" <=> out[r].pcm = "open"
      BY <2>1, <3>1 DEF Playing
    <3>5. CardInv'
      BY <2>1, <2>4, <3>1, <3>4 DEF CardInv, Playing
    <3>6. FrameInv'
      <4>1. \A r \in Streams : /\ out'[r].written = out[r].written
                               /\ ~out'[r].alive => out'[r] = NoObject
        BY <3>1 DEF FrameInv
      <4> QED
        BY <1>2, <3>4, <4>1 DEF FrameInv, Playing
    <3> QED
      BY <3>2, <3>3, <3>5, <3>6
  <2> QED
    BY <1>5, <2>3, <2>4 DEF StartFails
<1> QED
  BY <1>1, <1>3, <1>4, <1>5 DEF WriteStart

\* A write counts the frames it queues, or the stream is no longer vouched for.
LEMMA WriteKeepsAudio ==
    ASSUME AudioInv, NEW t \in Threads, pcm_mmap_write(t)
    PROVE  AudioInv'
<1> USE DEF AudioInv
<1>1. PICK s \in Streams :
          /\ s = call[t].stream /\ out[s].alive /\ out[s].lock = t
          /\ Playing(s) /\ \A r \in Streams \ {s} : ~Playing(r)
  BY DEF CallInv, CardInv, pcm_mmap_write
<1>2. PICK ret \in {0, -1}, taken \in {0, 1} :
          /\ ret = 0 => taken = 1
          /\ queued' = queued + taken /\ queued + taken <= BUFFER_SIZE
          /\ out' = IF ret = 0 THEN [out EXCEPT ![s].written = (@ + 1) % Modulus] ELSE out
          /\ IF ret # 0 /\ taken = 1
             THEN uncounted' = uncounted \cup {s} /\ gone' = [gone EXCEPT ![s] = 0]
             ELSE UNCHANGED <<uncounted, gone>>
  BY <1>1 DEF pcm_mmap_write, CountWritten
<1>3. /\ call[t].pc = "pcm" /\ call' = [call EXCEPT ![t].pc = "exit"]
      /\ UNCHANGED <<active_output, adev_lock, eclipsed>>
  BY DEF pcm_mmap_write, Goto
<1>4. \A r \in Streams : /\ out'[r].alive = out[r].alive /\ out'[r].standby = out[r].standby
                         /\ out'[r].pcm = out[r].pcm /\ out'[r].lock = out[r].lock
                         /\ r # s => out'[r] = out[r]
  BY <1>1, <1>2 DEF TypeOK, Objects
<1>5. /\ out[s].written \in Nat
      /\ out'[s].written = IF ret = 0 THEN (out[s].written + 1) % Modulus ELSE out[s].written
  BY <1>1, <1>2 DEF TypeOK, Objects
<1>6. TypeOK'
  <2>1. out' \in [Streams -> Objects]
    <3>1. Modulus \in Nat \ {0}
      BY BufferAssumption, ModulusAssumption
    <3>2. PICK k \in 0..(Modulus - 1) : k = (out[s].written + 1) % Modulus
      BY <1>5, <3>1
    <3>3. out' = IF ret = 0 THEN [out EXCEPT ![s].written = k] ELSE out
      BY <1>2, <3>2
    <3> QED
      BY <1>1, <3>3 DEF TypeOK, Objects
  <2>2. queued' \in Nat /\ gone' \in [Streams -> Nat] /\ uncounted' \subseteq Streams
    BY <1>1, <1>2 DEF TypeOK
  <2>3. call' \in [Threads -> Calls]
    BY <1>3 DEF TypeOK, Calls, Labels
  <2> QED
    BY <1>3, <2>1, <2>2, <2>3 DEF TypeOK
<1>7. CallInv'
  BY <1>1, <1>3, <1>4 DEF TypeOK, Calls, CallInv, Playing
<1>8. CardInv'
  BY <1>3, <1>4, NoStreamAssumption DEF TypeOK, CardInv, Playing
<1>9. FrameInv'
  <2>1. out'[s].pcm = "open" /\ \A r \in Streams \ {s} : out'[r].pcm # "open"
    BY <1>1, <1>4 DEF Playing
  <2>2. \A r \in Streams \ {s} :
            /\ r \notin uncounted' => out'[r].written = Counted(gone'[r] + 0)
            /\ ~out'[r].alive => out'[r] = NoObject
    <3> SUFFICES ASSUME NEW r \in Streams \ {s}
                 PROVE  /\ r \notin uncounted' => out'[r].written = Counted(gone'[r] + 0)
                        /\ ~out'[r].alive => out'[r] = NoObject
      OBVIOUS
    <3>1. out'[r] = out[r] /\ gone'[r] = gone[r] /\ (r \in uncounted' <=> r \in uncounted)
      BY <1>2, <1>4 DEF TypeOK
    <3> QED
      BY <1>1, <3>1 DEF FrameInv
  <2>3. queued' <= BUFFER_SIZE
    BY <1>2
  <2>4. s \notin uncounted' => out'[s].written = Counted(gone'[s] + queued')
    <3>1. s \notin uncounted => out[s].written = Counted(gone[s] + queued)
      BY <1>1 DEF FrameInv
    <3>2. PICK n \in Nat : n = gone[s] + queued
      BY DEF TypeOK
    <3>3. SUFFICES ASSUME s \notin uncounted' PROVE out'[s].written = Counted(gone'[s] + queued')
      OBVIOUS
    <3>4. s \notin uncounted /\ gone' = gone /\ queued \in Nat /\ gone[s] \in Nat
      BY <1>2, <3>3 DEF TypeOK
    <3>5. out[s].written = Counted(n)
      BY <3>1, <3>2, <3>4
    <3>6. CASE ret = 0
      <4>1. gone'[s] + queued' = n + 1
        BY <1>2, <3>2, <3>4, <3>6
      <4>2. out'[s].written = (Counted(n) + 1) % Modulus
        BY <1>5, <3>5, <3>6
      <4>3. Counted(n + 1) = (Counted(n) + 1) % Modulus
        BY CountsOn
      <4> QED
        BY <4>1, <4>2, <4>3, Zenon
    <3>7. CASE ret # 0
      <4>1. taken = 0
        BY <1>2, <3>3, <3>7
      <4>2. gone'[s] + queued' = n
        BY <1>2, <3>2, <3>4, <4>1
      <4> QED
        BY <1>5, <3>5, <3>7, <4>2, Zenon
    <3> QED
      BY <3>6, <3>7
  <2>5. out'[s].alive
    BY <1>1, <1>4
  <2> QED
    BY <2>1, <2>2, <2>3, <2>4, <2>5 DEF FrameInv, Playing
<1> QED
  BY <1>6, <1>7, <1>8, <1>9

\* What the card plays leaves the stream that plays.
LEMMA PlayKeepsAudio ==
    ASSUME AudioInv, Play
    PROVE  AudioInv'
<1> USE DEF AudioInv
<1>1. PICK s \in Streams : Playing(s) /\ gone' = Left(s, 1)
  BY DEF Play
<1>2. /\ queued > 0 /\ queued' = queued - 1
      /\ UNCHANGED <<out, active_output, adev_lock, call, uncounted, eclipsed>>
  BY DEF Play
<1>3. \A r \in Streams \ {s} : ~Playing(r)
  BY <1>1 DEF CardInv
<1>4. TypeOK'
  BY <1>1, <1>2 DEF TypeOK, Left
<1>5. CallInv' /\ CardInv'
  BY <1>2 DEF CallInv, CardInv, Playing
<1>6. FrameInv'
  <2>1. queued \in Nat /\ gone \in [Streams -> Nat]
    BY DEF TypeOK
  <2>2. queued' <= BUFFER_SIZE
    BY <1>2, <2>1, BufferAssumption DEF FrameInv
  <2>3. s \notin uncounted' => out'[s].written = Counted(gone'[s] + queued')
    <3>1. SUFFICES ASSUME s \notin uncounted PROVE out[s].written = Counted(gone'[s] + queued')
      BY <1>2
    <3>2. gone'[s] + queued' = gone[s] + queued
      BY <1>1, <1>2, <2>1, <3>1 DEF Left
    <3>3. out[s].written = Counted(gone[s] + queued)
      BY <1>1, <3>1 DEF FrameInv
    <3> QED
      BY <3>2, <3>3, Zenon
  <2>4. \A r \in Streams \ {s} : r \notin uncounted' => out'[r].written = Counted(gone'[r] + 0)
    <3>1. \A r \in Streams \ {s} : gone'[r] = gone[r]
      BY <1>1, <2>1 DEF Left
    <3>2. \A r \in Streams \ {s} : r \notin uncounted => out[r].written = Counted(gone[r] + 0)
      BY <1>3 DEF FrameInv
    <3> QED
      BY <1>2, <3>1, <3>2
  <2> QED
    BY <1>1, <1>2, <1>3, <2>2, <2>3, <2>4 DEF FrameInv, Playing
<1> QED
  BY <1>4, <1>5, <1>6

\* AudioInv is inductive.
LEMMA NextAudio == AudioInv /\ [Next]_vars => AudioInv'
<1> SUFFICES ASSUME AudioInv, [Next]_vars PROVE AudioInv'
  OBVIOUS
<1>1. CASE Play
  BY <1>1, PlayKeepsAudio
<1>2. ASSUME NEW s \in Streams, adev_open_output_stream(s) \/ adev_close_output_stream(s)
      PROVE  AudioInv'
  BY <1>2, OpenKeepsAudio, CloseKeepsAudio
<1>3. ASSUME NEW t \in Threads, Step(t) PROVE AudioInv'
  BY <1>3, LockDeviceKeepsAudio, LockStreamKeepsAudio, ExitKeepsAudio, StandbyKeepsAudio,
     WriteStartKeepsAudio, WriteKeepsAudio DEF Step
<1>4. ASSUME NEW t \in Threads, NEW op \in {"write", "standby", "route"}, NEW s \in Streams,
             Begin(t, op, s)
      PROVE  AudioInv'
  BY <1>4, BeginKeepsAudio
<1>5. CASE UNCHANGED vars
  BY <1>5 DEF vars, AudioInv, TypeOK, CallInv, CardInv, FrameInv, Playing
<1> QED
  BY <1>1, <1>2, <1>3, <1>4, <1>5 DEF Next
-----------------------------------------------------------------------------
\* The invariant of the output streams, with their types, holds in every state.
THEOREM AudioHolds == Spec => []AudioInv
BY InitAudio, NextAudio, PTL DEF Spec

\* Whatever threads write, route and put in standby, the device and the streams agree
\* on what plays, and the pcm of a write is open until the write is over.
THEOREM OutputStaysConsistent == Spec => []OutputConsistent
<1>1. AudioInv => OutputConsistent
  <2> SUFFICES ASSUME AudioInv PROVE OutputConsistent
    OBVIOUS
  <2>1. \A t \in Threads :
            call[t].pc = "pcm" => Playing(call[t].stream) /\ out[call[t].stream].lock = t
    BY DEF AudioInv, CallInv
  <2> QED
    BY <2>1 DEF AudioInv, CardInv, OutputConsistent
<1> QED
  BY <1>1, AudioHolds, PTL

\* The position that is computed of n frames that left the kernel and k that did not:
\* the number of frames that left, in an unsigned int. Sums of 64 bits fall below 0 while
\* only what was written has come round.
LEMMA PositionOfSum ==
    ASSUME NEW n \in Nat, NEW k \in Nat, k < Modulus, NEW w, w = Counted(n + k)
    PROVE  /\ (w - k) % Modulus = n % Modulus
           /\ (n % Modulus) + k >= Modulus => w - k < 0
           /\ (n % Modulus) + k < Modulus => w - k = n % Modulus
<1>1. Modulus \in Nat \ {0}
  BY BufferAssumption, ModulusAssumption
<1>2. PICK q \in Int, x \in 0..(Modulus - 1) : x = n % Modulus /\ n = Modulus * q + x
  <2>1. n \in Int
    OBVIOUS
  <2>2. /\ n % Modulus \in 0..(Modulus - 1) /\ n \div Modulus \in Int
        /\ n = Modulus * (n \div Modulus) + (n % Modulus)
    BY <1>1, <2>1, Remainder, Zenon
  <2> QED
    BY <2>2, Zenon
<1>3. CASE x + k < Modulus
  <2>1. n + k \in Int /\ x + k \in 0..(Modulus - 1) /\ n + k = Modulus * q + (x + k)
    BY <1>1, <1>2, <1>3
  <2>2. w = x + k
    BY <1>1, <2>1, OnlyRemainder DEF Counted
  <2>3. w - k = x
    BY <1>2, <2>2
  <2>4. x % Modulus = x
    BY <1>1, <1>2
  <2>5. (w - k) % Modulus = n % Modulus /\ w - k = n % Modulus
    BY <1>2, <2>3, <2>4, Zenon
  <2>6. ~((n % Modulus) + k >= Modulus)
    <3>1. ~(x + k >= Modulus)
      BY <1>1, <1>2, <1>3
    <3> QED
      BY <1>2, <3>1, Zenon
  <2> QED
    BY <2>5, <2>6, Zenon
<1>4. CASE x + k >= Modulus
  <2>1. /\ n + k \in Int /\ q + 1 \in Int /\ x + k - Modulus \in 0..(Modulus - 1)
        /\ n + k = Modulus * (q + 1) + (x + k - Modulus)
    BY <1>1, <1>2, <1>4
  <2>2. w = x + k - Modulus
    BY <1>1, <2>1, OnlyRemainder DEF Counted
  <2>3. PICK d \in Int : d = w - k /\ d = Modulus * (-1) + x /\ d < 0
    BY <1>1, <1>2, <2>2
  <2>4. -1 \in Int
    OBVIOUS
  <2>5. d % Modulus = x
    BY <1>1, <1>2, <2>3, <2>4, OnlyRemainder
  <2>6. (w - k) % Modulus = n % Modulus /\ w - k < 0
    BY <1>2, <2>3, <2>5, Zenon
  <2>7. ~((n % Modulus) + k < Modulus)
    <3>1. ~(x + k < Modulus)
      BY <1>1, <1>2, <1>4
    <3> QED
      BY <1>2, <3>1, Zenon
  <2> QED
    BY <2>6, <2>7, Zenon
<1>5. x + k < Modulus \/ x + k >= Modulus
  BY <1>1, <1>2
<1> QED
  BY <1>3, <1>4, <1>5

\* The position of a stream whose writes were all counted is the number of frames that
\* have left the kernel, modulo 2^32, however often the count has started again.
THEOREM PositionIsRight == Spec => []PositionIsPlayed
<1>1. AudioInv => PositionIsPlayed
  <2> SUFFICES ASSUME AudioInv, NEW s \in Streams, NEW size_t \in {32, 64},
                      Playing(s), s \notin uncounted
               PROVE  out_get_presentation_position(s, size_t) =
                          IF size_t = 64 /\ Between(s) THEN NoPosition ELSE gone[s] % Modulus
    BY DEF PositionIsPlayed
  <2>1. PICK n \in Nat, k \in Nat : n = gone[s] /\ k = queued
    BY DEF AudioInv, TypeOK
  <2>2. PICK w \in Nat : w = out[s].written /\ w = Counted(n + k)
    BY <2>1 DEF AudioInv, TypeOK, Objects, FrameInv
  <2>3. k < Modulus /\ Modulus \in Nat \ {0}
    BY <2>1, BufferAssumption, ModulusAssumption DEF AudioInv, FrameInv
  <2>4. PICK x \in 0..(Modulus - 1) : x = n % Modulus
    BY <2>3
  <2>5. /\ (w - k) % Modulus = x
        /\ x + k >= Modulus => w - k < 0
        /\ x + k < Modulus => w - k = x
    BY <2>2, <2>3, <2>4, PositionOfSum
  <2>6. w - BUFFER_SIZE + (BUFFER_SIZE - k) = w - k
    BY BufferAssumption
  <2>7. Between(s) <=> x + k >= Modulus
    BY <2>1, <2>4 DEF Between
  <2>8. out_get_presentation_position(s, size_t) =
            LET signed_frames == IF size_t = 32 THEN (w - k) % Modulus ELSE w - k
            IN IF signed_frames >= 0 THEN signed_frames ELSE NoPosition
    BY <2>1, <2>2, <2>6 DEF out_get_presentation_position
  <2>9. CASE size_t = 32
    BY <2>1, <2>3, <2>4, <2>5, <2>8, <2>9
  <2>10. CASE size_t = 64 /\ x + k >= Modulus
    <3>1. out_get_presentation_position(s, size_t) = NoPosition
      BY <2>5, <2>8, <2>10
    <3> QED
      BY <2>7, <2>10, <3>1
  <2>11. CASE size_t = 64 /\ x + k < Modulus
    <3>1. out_get_presentation_position(s, size_t) = x
      BY <2>3, <2>5, <2>8, <2>11
    <3>2. ~Between(s)
      BY <2>3, <2>7, <2>11
    <3> QED
      BY <2>1, <2>4, <3>1, <3>2
  <2>12. x + k >= Modulus \/ x + k < Modulus
    BY <2>3
  <2> QED
    BY <2>9, <2>10, <2>11, <2>12
<1> QED
  BY <1>1, AudioHolds, PTL
=============================================================================
