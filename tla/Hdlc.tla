-------------------------------- MODULE Hdlc --------------------------------
(***************************************************************************)
(* The HDLC layer of the AFSK modem, between the modulator of a sending    *)
(* station (AfskModulator.cpp) and the demodulator of a receiving one      *)
(* (AfskDemodulator.cpp), one symbol per step.                             *)
(*                                                                         *)
(* A symbol is a tone: TRUE for mark, FALSE for space.  The filters and    *)
(* the symbol clock are abstracted to what they can do to the stream of    *)
(* symbols: a decision may be wrong (Flip) and the clock may slip by one   *)
(* symbol (Lose, Double).  Between transmissions the receiver decides      *)
(* tones of noise.  Everything from the decided tone to the frame callback *)
(* is the code's: NRZI, the shift register, stuffing, abort, assembly and  *)
(* the frame check sequence.                                               *)
(***************************************************************************)
EXTENDS Integers, Sequences, FiniteSets, SequencesExt

CONSTANTS
    Payloads,        \* what a station may send: sequences of bytes, without the FCS
    kPreambleFlags,  \* 20 in the code
    kTailFlags,      \* 3 in the code
    kMaxFrameBytes,  \* 330 in the code
    MaxSymbols,      \* what the PCM buffer holds (kAfskMaxPcmSamples), in symbols
    MaxNoise,        \* bound: symbols of noise heard before a transmission
    MaxFaults        \* bound: wrong decisions and clock slips in a transmission

VARIABLES
    data,   \* the bits of the frame being sent; <<>> when nobody transmits
    pos,    \* symbols of its signal already sent
    tone,   \* nrzi_tone_: the last tone sent
    rx,     \* the demodulator, with the frames it gave to frame_cb_ since the
            \* last transmission began
    hits,   \* the symbols of the signal that a fault struck
    noise   \* symbols of noise heard since the last transmission

hdlcVars == <<data, pos, tone, rx, hits, noise>>

Bit == {0, 1}

\* A frame of the AX.25 encoder is two addresses and more; one flag before it
\* synchronises the receiver, one after it delivers it.
ASSUME HdlcAssumption ==
    /\ \A p \in Payloads : p \in Seq(0..255) /\ Len(p) >= 2
    /\ {kPreambleFlags, kTailFlags} \subseteq Nat \ {0}
    /\ {kMaxFrameBytes, MaxSymbols, MaxNoise, MaxFaults} \subseteq Nat

-----------------------------------------------------------------------------
\* A frame is a payload and its check sequence; each byte goes LSB first.

Weight == <<1, 2, 4, 8, 16, 32, 64, 128>>

BitsOf(bytes) ==
    [i \in 1..(8 * Len(bytes)) |->
        (bytes[(i - 1) \div 8 + 1] \div Weight[((i - 1) % 8) + 1]) % 2]

\* The places of the ones in the reflected polynomial 0x8408, LSB at place 1.
Poly == {4, 11, 16}

\* A turn of the inner loop of fcs, with the bit of data[i] that leaves at it.
CrcStep(crc, bit) ==
    LET carry == (crc[1] + bit) % 2
    IN  [i \in 1..16 |->
            ((IF i = 16 THEN 0 ELSE crc[i + 1]) + (IF i \in Poly THEN carry ELSE 0)) % 2]

fcs(bits) ==
    LET crc[k \in 0..Len(bits)] ==
            IF k = 0 THEN [i \in 1..16 |-> 1] ELSE CrcStep(crc[k - 1], bits[k])
        end == crc[Len(bits)]
    IN  [i \in 1..16 |-> 1 - end[i]]

FrameOf(payload) == BitsOf(payload) \o fcs(BitsOf(payload))

-----------------------------------------------------------------------------
\* AfskModulator: the signal of a frame, as the bits that NRZI turns into tones.

Flag == <<0, 1, 1, 1, 1, 1, 1, 0>>

Flags(n) == FlattenSeq([i \in 1..n |-> Flag])

\* emit_data_bit, with out the bits emitted and ones = stuff_count_.
Emit(acc, bit) ==
    CASE bit = 0                   -> [out |-> Append(acc.out, 0), ones |-> 0]
      [] bit = 1 /\ acc.ones < 4   -> [out |-> Append(acc.out, 1), ones |-> acc.ones + 1]
      [] OTHER                     -> [out |-> acc.out \o <<1, 0>>, ones |-> 0]

Stuffed(bits) ==
    LET acc[k \in 0..Len(bits)] ==
            IF k = 0 THEN [out |-> <<>>, ones |-> 0] ELSE Emit(acc[k - 1], bits[k])
    IN  acc[Len(bits)].out

Frames == {FrameOf(p) : p \in Payloads}

\* modulate_frame: preamble, start flag, data, tail.
Signal == [f \in Frames |->
              Flags(kPreambleFlags) \o Flag \o Stuffed(f) \o Flags(kTailFlags)]

Sending == data # <<>>

-----------------------------------------------------------------------------
\* AfskDemodulator: one symbol through process_symbol.  rx.bits is bit_buf_,
\* bit_pos_, frame_buf_ and frame_len_ together: the bits assembled so far.

Rx0 == [nrzi_prev |-> FALSE, sr |-> 0, ones_count |-> 0, in_frame |-> FALSE,
        bits |-> <<>>, heard |-> <<>>]

FrameLen(r) == Len(r.bits) \div 8

\* Mutant: the frame check is left out.
Dispatched_NoFcs(r) ==
    IF r.in_frame /\ FrameLen(r) >= 4
    THEN <<SubSeq(r.bits, 1, 8 * FrameLen(r))>>
    ELSE <<>>

\* dispatch_frame: what the callback is given, if anything.
Dispatched(r) ==
    LET n == 8 * (FrameLen(r) - 2)
    IN  IF /\ r.in_frame
           /\ FrameLen(r) >= 4
           /\ fcs(SubSeq(r.bits, 1, n)) = SubSeq(r.bits, n + 1, n + 16)
        THEN <<SubSeq(r.bits, 1, n + 16)>>
        ELSE <<>>

\* Mutant: a flag does not empty the buffer.
OnFlag_KeepsBits(r) ==
    [r EXCEPT !.in_frame = TRUE, !.ones_count = 0, !.heard = @ \o Dispatched(r)]

OnFlag(r) ==
    [r EXCEPT !.in_frame = TRUE, !.bits = <<>>, !.ones_count = 0,
              !.heard = @ \o Dispatched(r)]

Abort(r) == [r EXCEPT !.in_frame = FALSE, !.bits = <<>>]

\* A byte that is complete and finds frame_buf_ full ends the frame.
Assemble(r, bit) ==
    IF Len(r.bits) = 8 * kMaxFrameBytes + 7
    THEN Abort(r)
    ELSE [r EXCEPT !.bits = Append(@, bit)]

InFrame(r, bit) ==
    CASE bit = 1 /\ r.ones_count + 1 >= 7 -> Abort([r EXCEPT !.ones_count = @ + 1])
      [] bit = 1 /\ r.ones_count + 1 < 7  -> Assemble([r EXCEPT !.ones_count = @ + 1], 1)
      [] bit = 0 /\ r.ones_count = 5      -> [r EXCEPT !.ones_count = 0]
      [] OTHER                            -> Assemble([r EXCEPT !.ones_count = 0], 0)

ProcessBit(r, bit) ==
    LET s == [r EXCEPT !.sr = @ \div 2 + 128 * bit]
    IN  IF s.sr = 126 THEN OnFlag(s)
        ELSE IF s.in_frame THEN InFrame(s, bit)
        ELSE s

ProcessSymbol(r, mark) ==
    ProcessBit([r EXCEPT !.nrzi_prev = mark], IF mark = r.nrzi_prev THEN 1 ELSE 0)

-----------------------------------------------------------------------------
HdlcInit ==
    /\ data = <<>>
    /\ pos = 0
    /\ tone = TRUE
    /\ rx = Rx0
    /\ hits = {}
    /\ noise = 0

Noise ==
    /\ ~Sending
    /\ noise < MaxNoise
    /\ noise' = noise + 1
    /\ \E mark \in BOOLEAN : rx' = ProcessSymbol(rx, mark)
    /\ UNCHANGED <<data, pos, tone, hits>>

\* afsk_tx_frame of the sending station: a new modulator, and nothing is sent
\* of a frame whose samples do not fit the buffer.
KeyUp ==
    /\ ~Sending
    /\ \E f \in Frames :
          /\ Len(Signal[f]) <= MaxSymbols
          /\ data' = f
    /\ pos' = 0
    /\ tone' = TRUE
    /\ hits' = {}
    /\ rx' = [rx EXCEPT !.heard = <<>>]
    /\ UNCHANGED noise

\* The tone of the next symbol: a 0 is a change of tone.
NextTone == IF Signal[data][pos + 1] = 0 THEN ~tone ELSE tone

Advance ==
    /\ Sending
    /\ pos < Len(Signal[data])
    /\ pos' = pos + 1
    /\ tone' = NextTone
    /\ UNCHANGED <<data, noise>>

Symbol ==
    /\ Advance
    /\ rx' = ProcessSymbol(rx, NextTone)
    /\ UNCHANGED hits

Struck ==
    /\ Cardinality(hits) < MaxFaults
    /\ hits' = hits \union {pos + 1}

Flip ==
    /\ Advance /\ Struck
    /\ rx' = ProcessSymbol(rx, ~NextTone)

Lose ==
    /\ Advance /\ Struck
    /\ UNCHANGED rx

Double ==
    /\ Advance /\ Struck
    /\ rx' = ProcessSymbol(ProcessSymbol(rx, NextTone), NextTone)

KeyDown ==
    /\ Sending
    /\ pos = Len(Signal[data])
    /\ data' = <<>>
    /\ noise' = 0
    /\ UNCHANGED <<pos, tone, rx, hits>>

HdlcNext == Noise \/ KeyUp \/ Symbol \/ Flip \/ Lose \/ Double \/ KeyDown

HdlcSpec == HdlcInit /\ [][HdlcNext]_hdlcVars

-----------------------------------------------------------------------------
\* Types: in particular frame_buf_ never holds more than kMaxFrameBytes bytes
\* and a shift register of eight bits, whatever the receiver hears.
HdlcTypeOK ==
    /\ data \in Frames \union {<<>>}
    /\ pos \in 0..MaxSymbols
    /\ tone \in BOOLEAN
    /\ rx.nrzi_prev \in BOOLEAN
    /\ rx.sr \in 0..255
    /\ rx.ones_count \in 0..7
    /\ rx.in_frame \in BOOLEAN
    /\ \A i \in DOMAIN rx.bits : rx.bits[i] \in Bit
    /\ FrameLen(rx) <= kMaxFrameBytes
    /\ hits \subseteq 1..MaxSymbols
    /\ noise \in 0..MaxNoise

\* The part of a signal that must arrive whole: from the last symbol of the
\* preamble, which the first bit of the start flag is decoded against, to the
\* end of the first tail flag, which delivers the frame.
Delivery == Len(Signal[data]) - 8 * (kTailFlags - 1)
Critical == (8 * kPreambleFlags)..Delivery

\* A frame whose critical part arrives whole is given to the callback as soon
\* as that part is over, however the noise before it, a false flag in that
\* noise, a frame cut off by the previous fault or faults in the preamble left
\* the receiver: one flag is enough to put it right (process_bit, assemble_bit).
CleanFrameDelivered ==
    /\ Sending
    /\ pos >= Delivery
    /\ Len(data) <= 8 * kMaxFrameBytes
    /\ hits \intersect Critical = {}
    => data \in Range(rx.heard)

\* Wherever one fault strikes, the callback is given nothing but the frame that
\* was sent, at most once: a frame whose bits were changed, shifted, cut at a
\* false flag or run into the next one is refused by dispatch_frame.  One is the
\* limit: two faults can turn a frame into another with a right check sequence,
\* since a changed bit also changes which zeros are taken for stuffing.
OnlyWhatWasSent == Sending => rx.heard \in {<<>>, <<data>>}

=============================================================================
