---------------------------- MODULE IdtDownload ----------------------------
(***************************************************************************)
(* src/installer/hikey/hisi-idt.py: the download of one or two images to   *)
(* the boot ROM of the board over a serial line, in frames that are sent   *)
(* again until a byte 0xaa comes back.                                     *)
(*                                                                         *)
(* Byte number i of an image is the number i.  The line, which may lose or *)
(* spoil what it carries, and the boot ROM, of which this repository has   *)
(* nothing but what the script expects of it, are external.  The checksum  *)
(* of a frame stands behind the choice of the line between a frame that    *)
(* arrives and one that is lost.                                           *)
(***************************************************************************)
EXTENDS Integers, Sequences, FiniteSets, SequencesExt

CONSTANTS MAX_DATA_LEN,
          SeqModulus,   \* 256: a frame has the low byte of its number
          HeadLoop, DataLoop, TailLoop,     \* 16, 32 and 16
          Lengths       \* of the two images; 0 is no second image

ASSUME LengthAssumption == MAX_DATA_LEN \in Nat \ {0} /\ SeqModulus \in Nat /\ SeqModulus >= 2
ASSUME ImagesAssumption == Lengths \subseteq Nat \X Nat

VARIABLES
    images,         \* their lengths
    image,          \* which one is sent
    length, seq,    \* of senddata: what is left of it, the number of the frame
    frame,          \* that is sent
    i,              \* of sendframe
    at,
    wire,           \* external: a frame on its way to the ROM
    air,            \* external: what the ROM has said and has not arrived
    input,          \* the input buffer of the serial port
    rom,            \* external: what the ROM has of the image, and whether it has its end
    skipped         \* history: frames of this image left without an answer of their own

downloadVars == <<images, image, length, seq, frame, i, at, wire, air, input, rom, skipped>>

Attempts == [head |-> HeadLoop, data |-> DataLoop, tail |-> TailLoop]
Header(n, size) == [image |-> n, kind |-> "head", seq |-> 0, data |-> <<>>, size |-> size]
NoFrame == Header(0, 0)

InitDownload ==
    /\ images \in Lengths
    /\ image = 1 /\ length = images[1] /\ seq = 0
    /\ frame = Header(1, images[1]) /\ i = 1
    /\ at = "write"
    /\ wire = NoFrame /\ air = {} /\ input = <<>>
    /\ rom = [expect |-> 0, stored |-> <<>>, complete |-> FALSE]
    /\ skipped = {}

\* data[from:to] of Python, of an image of that length.
Slice(size, from, to) == [k \in 1..((IF to < size THEN to ELSE size) - from) |-> from + k]
-----------------------------------------------------------------------------
(* The boot ROM: it says 0xaa to a frame that it waits for, and to the one   *)
(* it has had last, and something else to the others.                       *)

Answers(f, byte) == air' = air \cup {[to |-> f, byte |-> byte]}

RomReceives ==
    /\ wire # NoFrame
    /\ wire' = NoFrame
    /\ \/ /\ wire.kind = "head"
          /\ rom' = [expect |-> 1, stored |-> <<>>, complete |-> FALSE]
          /\ Answers(wire, "0xaa")
       \/ /\ wire.kind = "data" /\ wire.seq % SeqModulus = rom.expect % SeqModulus
          /\ rom' = [rom EXCEPT !.expect = @ + 1, !.stored = @ \o wire.data]
          /\ Answers(wire, "0xaa")
       \/ /\ wire.kind = "tail" /\ wire.seq % SeqModulus = rom.expect % SeqModulus
          /\ rom' = [rom EXCEPT !.complete = TRUE]
          /\ Answers(wire, "0xaa")
       \/ /\ wire.kind = "data" /\ wire.seq % SeqModulus = (rom.expect - 1) % SeqModulus
          /\ UNCHANGED rom
          /\ Answers(wire, "0xaa")
       \/ /\ wire.kind # "head"
          /\ wire.seq % SeqModulus # rom.expect % SeqModulus
          /\ wire.kind = "tail" \/ wire.seq % SeqModulus # (rom.expect - 1) % SeqModulus
          /\ UNCHANGED rom
          /\ Answers(wire, "other")
    /\ UNCHANGED <<images, image, length, seq, frame, i, at, input, skipped>>

LineLoses ==
    /\ \/ wire # NoFrame /\ wire' = NoFrame /\ UNCHANGED air
       \/ \E a \in air : air' = air \ {a} /\ UNCHANGED wire
    /\ UNCHANGED <<images, image, length, seq, frame, i, at, input, rom, skipped>>

\* An answer is late if the frame that waits for one when it arrives is another one.
LineDelivers ==
    /\ \E a \in air :
          /\ air' = air \ {a}
          /\ input' = Append(input, [byte |-> a.byte, late |-> at = "read" /\ a.to # frame])
    /\ UNCHANGED <<images, image, length, seq, frame, i, at, wire, rom, skipped>>
-----------------------------------------------------------------------------
(* senddata: the frame after this one, whatever has become of this one. *)

\* while length > MAX_DATA_LEN
MoreData(left) == left > MAX_DATA_LEN

DataFrame(n, size, more) ==
    Slice(size, (n - 1) * MAX_DATA_LEN, IF more THEN n * MAX_DATA_LEN ELSE size)

\* length counts what is left when the frame was cut; a last frame leaves nothing.
NextData ==
    LET n == seq + 1 IN
    /\ frame.kind = "head" \/ (frame.kind = "data" /\ length > 0)
    /\ frame' = [frame EXCEPT !.kind = "data", !.seq = n,
                              !.data = DataFrame(n, frame.size, MoreData(length))]
    /\ length' = IF MoreData(length) THEN length - MAX_DATA_LEN ELSE 0
    /\ seq' = n
    /\ at' = "write" /\ i' = 1
    /\ UNCHANGED <<images, image>>

NextTail ==
    /\ frame.kind = "data" /\ length = 0
    /\ frame' = [frame EXCEPT !.kind = "tail", !.seq = seq + 1, !.data = <<>>]
    /\ at' = "write" /\ i' = 1
    /\ UNCHANGED <<images, image, length, seq>>

\* download: "Done", and the second image if there is one.
ImageSent ==
    /\ frame.kind = "tail"
    /\ at' = "sent"
    /\ UNCHANGED <<images, image, length, seq, frame, i>>

Continue == NextData \/ NextTail \/ ImageSent

SecondImage ==
    /\ at = "sent" /\ image = 1 /\ images[2] > 0
    /\ image' = 2 /\ length' = images[2] /\ seq' = 0
    /\ frame' = Header(2, images[2]) /\ i' = 1
    /\ at' = "write"
    /\ skipped' = {}
    /\ UNCHANGED <<images, wire, air, input, rom>>
-----------------------------------------------------------------------------
(* sendframe *)

\* Mutant of FlushInput: what has come before is left for the next read.
KeepInput == UNCHANGED input

FlushInput == input' = <<>>

\* A frame that is still on its way when the next is written is lost.
Write ==
    /\ at = "write" /\ i < Attempts[frame.kind]
    /\ wire' = frame
    /\ FlushInput
    /\ at' = "read"
    /\ UNCHANGED <<images, image, length, seq, frame, i, air, rom, skipped>>

Skip == skipped' = skipped \cup {<<frame.kind, frame.seq>>}

\* A 0xaa ends it, anything else and a timeout make it try again.
ReadAck ==
    /\ at = "read" /\ input # <<>> /\ Head(input).byte = "0xaa"
    /\ input' = Tail(input)
    /\ IF Head(input).late THEN Skip ELSE UNCHANGED skipped
    /\ Continue
    /\ UNCHANGED <<wire, air, rom>>

ReadOther ==
    /\ at = "read" /\ (input # <<>> => Head(input).byte # "0xaa")
    /\ input' = IF input = <<>> THEN input ELSE Tail(input)
    /\ i' = i + 1
    /\ at' = "write"
    /\ UNCHANGED <<images, image, length, seq, frame, wire, air, rom, skipped>>

\* An exception of read() ends it too, and nothing is said.
ReadRaises ==
    /\ at = "read"
    /\ Skip
    /\ Continue
    /\ UNCHANGED <<wire, air, input, rom>>

\* print 'failed'
Failed ==
    /\ at = "write" /\ i >= Attempts[frame.kind]
    /\ Skip
    /\ Continue
    /\ UNCHANGED <<wire, air, input, rom>>

NextDownload ==
    \/ Write \/ ReadAck \/ ReadOther \/ ReadRaises \/ Failed \/ SecondImage
    \/ RomReceives \/ LineLoses \/ LineDelivers

DownloadSpec == InitDownload /\ [][NextDownload]_downloadVars
-----------------------------------------------------------------------------
\* The script goes on when a frame fails.  If none does, whatever was lost and sent
\* again, the ROM has the image when it is sent.  If some do, the ROM refuses what
\* follows and has a beginning of the image, so that the words "failed" are right and
\* "Done" is not; but after SeqModulus - 1 of them the number of the next one is again
\* that of the frame the ROM has had last, which it takes for a repetition, and the one
\* after that is stored in the place of a frame that was left out.
ImageArrives ==
    LET whole == [k \in 1..images[image] |-> k] IN
    <<"head", 0>> \notin skipped =>
        /\ frame.kind # "head" /\ Cardinality(skipped) < SeqModulus - 1 => IsPrefix(rom.stored, whole)
        /\ at = "sent" /\ skipped = {} => rom.stored = whole /\ rom.complete
=============================================================================
