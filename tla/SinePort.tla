------------------------------ MODULE SinePort ------------------------------
(***************************************************************************)
(* The sine generator of custome-media-port.c: create_sine_port() builds a *)
(* table of one frame of one channel; the sound device's thread then calls *)
(* sine_get_frame(), which copies the table to the left channel and every  *)
(* second entry of it to the right one.                                    *)
(*                                                                         *)
(* A sample is its index in the table.  PJMEDIA turns the samples per      *)
(* frame it is given into a frame time and back and so loses a sample on   *)
(* the way (11025 Hz: 440 become 439): `spf' is what it answers, any       *)
(* number of FrameSizes, and the frames the device asks for hold as many   *)
(* 16-bit samples.                                                         *)
(***************************************************************************)
EXTENDS Integers

CONSTANTS
    FrameSizes,     \* samples per frame, of all channels, PJMEDIA may answer
    ChannelCounts   \* the channel counts the port is asked for

ASSUME FrameSizesAssumption == FrameSizes \subseteq Nat
ASSUME ChannelCountsAssumption == ChannelCounts \subseteq Nat

VARIABLES
    phase,             \* "new", "refused", "idle" or "filling"
    channel_count,  \* PJMEDIA_PIA_CCNT of the port
    spf,            \* PJMEDIA_PIA_SPF of the port
    table,          \* number of entries of sine->samples
    count,          \* samples of one channel wanted by this call
    i, left, right, \* the loop's counter and its two positions in the table
    written         \* samples stored in frame->buf so far

sineVars == <<phase, channel_count, spf, table, count, i, left, right, written>>

loop == <<count, i, left, right, written>>

SineInit ==
    /\ phase = "new"
    /\ channel_count \in ChannelCounts
    /\ spf \in FrameSizes
    /\ table = 0
    /\ count = 0
    /\ i = 0 /\ left = 0 /\ right = 0 /\ written = 0

(* create_sine_port: only mono and stereo are accepted. *)
Refuse ==
    /\ phase = "new"
    /\ ~(channel_count > 0 /\ channel_count <= 2)
    /\ phase' = "refused"
    /\ UNCHANGED <<channel_count, spf, table, loop>>

SineCreate ==
    /\ phase = "new"
    /\ channel_count > 0 /\ channel_count <= 2
    /\ table' = spf \div channel_count
    /\ phase' = "idle"
    /\ UNCHANGED <<channel_count, spf, loop>>

(* frame->size is in bytes, of 16-bit samples. *)
FrameBytes == 2 * spf

(* The device's thread calls sine_get_frame. *)
Enter ==
    /\ phase = "idle"
    /\ count' = (FrameBytes \div 2) \div channel_count
    /\ i' = 0 /\ left' = 0 /\ right' = 0 /\ written' = 0
    /\ phase' = "filling"
    /\ UNCHANGED <<channel_count, spf, table>>

(* Slips: > for >=, and a right channel that keeps the left one's pace. *)
NextRightLate(r) == IF r + 2 > count THEN 0 ELSE r + 2
NextRightSlow(r) == IF r + 1 >= count THEN 0 ELSE r + 1

NextRight(r) == IF r + 2 >= count THEN 0 ELSE r + 2

(* A slip: the loop runs once too often. *)
MoreSamplesInclusive == i <= count

MoreSamples == i < count

(* One iteration: a sample for each channel. *)
Sample ==
    /\ phase = "filling" /\ MoreSamples
    /\ i' = i + 1
    /\ left' = left + 1
    /\ right' = IF channel_count = 2 THEN NextRight(right) ELSE right
    /\ written' = written + (IF channel_count = 2 THEN 2 ELSE 1)
    /\ UNCHANGED <<phase, channel_count, spf, table, count>>

SineReturn ==
    /\ phase = "filling" /\ ~MoreSamples
    /\ phase' = "idle"
    /\ UNCHANGED <<channel_count, spf, table, loop>>

Refused == phase = "refused" /\ UNCHANGED sineVars

SineNext == Refuse \/ SineCreate \/ Enter \/ Sample \/ SineReturn \/ Refused

SineSpec == SineInit /\ [][SineNext]_sineVars

-----------------------------------------------------------------------------
(* The shape of every variable. *)
SineTypeOK ==
    /\ phase \in {"new", "refused", "idle", "filling"}
    /\ channel_count \in ChannelCounts
    /\ spf \in FrameSizes
    /\ table \in Nat
    /\ count \in Nat
    /\ i \in Nat
    /\ left \in Nat
    /\ right \in Nat
    /\ written \in Nat

(* The callback never reads the table past its end, though it takes its    *)
(* count from the frame and never from the table.                          *)
ReadsInTable ==
    (phase = "filling" /\ MoreSamples) =>
        left < table /\ (channel_count = 2 => right < table)

(* The callback never writes past the frame, and when it returns it has    *)
(* filled it: at most the odd sample of an incomplete pair is left over.   *)
FillsFrame ==
    /\ written <= spf
    /\ (phase = "idle" /\ i > 0) => spf - written < channel_count

(* The right channel is one octave up: its position is always twice the    *)
(* left one's, and when it wraps, half a frame later, it starts again from *)
(* the first entry and skips none.                                         *)
Half == (count + 1) \div 2
RightAtDoubleSpeed ==
    (phase = "filling" /\ MoreSamples /\ channel_count = 2) =>
        right = 2 * (IF i < Half THEN i ELSE i - Half)

(* The inductive invariant. *)
SineInv ==
    /\ SineTypeOK
    /\ phase \in {"idle", "filling"} =>
          channel_count \in {1, 2} /\ table = spf \div channel_count
    /\ phase = "new" => i = 0 /\ written = 0
    /\ phase = "refused" => i = 0 /\ written = 0
    /\ phase = "filling" => count = table
    /\ i > 0 => channel_count \in {1, 2} /\ count = spf \div channel_count
    /\ (phase = "idle" /\ i > 0) => i = count
    /\ i <= count
    /\ left = i
    /\ written = i * channel_count
    /\ channel_count = 2 =>
          right = 2 * (IF i < Half THEN i ELSE i - Half) \/ i = count
=============================================================================
