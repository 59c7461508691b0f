----------------------------- MODULE InboundAudio -----------------------------
(***************************************************************************)
(* The way of a client's audio to the models: audio/convert.py decodes and *)
(* downmixes a payload, the StreamingResampler of audio/resample.py brings *)
(* it to the models' rate, the FrameSlicer of audio/framing.py cuts it into*)
(* frames, and InboundAudioPipeline of audio/pipeline.py composes them.    *)
(*                                                                         *)
(* A sample is its position in the stream. A resampled one is the part of  *)
(* the input its filter covers, first and last position, and the row of the*)
(* filter table used. Time is counted in 1 / (src * dst) seconds, so that  *)
(* an input sample lasts dst and an output sample src.                     *)
(***************************************************************************)
EXTENDS Integers, Sequences

CONSTANTS Streams,       \* records src, dst, channels, width: rates, layout
          HalfLen,       \* half_len, zero crossings kept on each side
          MaxPhases,     \* _MAX_PHASES
          FrameSamples,  \* frame_samples
          MaxInput,      \* bound on a stream's samples per channel
          MaxPayload     \* bound on the samples per channel of one payload

ASSUME AudioAssumption ==
    /\ \A s \in Streams : {s.src, s.dst, s.channels, s.width} \subseteq Nat \ {0}
    /\ {HalfLen, MaxPhases, FrameSamples} \subseteq Nat \ {0}
    /\ {MaxInput, MaxPayload} \subseteq Nat

VARIABLES stream,      \* what this pipeline was built for
          resampler,   \* _buffer, _origin, _frac
          slicer,      \* _pending, _pending_captured_at, _sequence
          frames,      \* history: the frames given to the VAD and the ASR
          total,       \* history: input samples pushed, per channel
          flushed      \* history: flush() was called

audioVars == <<stream, resampler, slicer, frames, total, flushed>>

NoDate == -1
Silence == <<>>

-----------------------------------------------------------------------------

(***** audio/resample.py ****************************************************)

Gcd(a, b) == CHOOSE d \in 1 .. a : /\ a % d = 0 /\ b % d = 0
                                   /\ \A e \in d + 1 .. a : ~(a % e = 0 /\ b % e = 0)

Passthrough(s) == s.src = s.dst
Up(s) == s.dst \div Gcd(s.src, s.dst)
Down(s) == s.src \div Gcd(s.src, s.dst)

\* ceil(half_len / (2 * cutoff)), where 2 * cutoff = min(1, dst / src).
HalfTaps(s) ==
    IF Passthrough(s) THEN 0
    ELSE IF s.src > s.dst THEN (HalfLen * s.src + s.dst - 1) \div s.dst
    ELSE HalfLen

\* The row of the filter table for a position fraction / up past a sample.
PhaseIndex(s, fraction) ==
    IF Up(s) <= MaxPhases THEN fraction
    ELSE LET scaled == (fraction * MaxPhases) \div Up(s)
         IN IF scaled < MaxPhases THEN scaled ELSE MaxPhases - 1

\* reset() primes the filter with half a kernel of silence, at positions
\* before the first.
FreshResampler(s) ==
    [buffer |-> [k \in 1 .. HalfTaps(s) |-> k - HalfTaps(s) - 1],
     origin |-> HalfTaps(s), frac |-> 0]

\* How many outputs have their whole kernel inside the buffer.
Ready(s, r, buffer) ==
    LET headroom == Len(buffer) - 1 - HalfTaps(s) - r.origin
    IN IF headroom < 0 THEN 0
       ELSE (Up(s) * (headroom + 1) - 1 - r.frac) \div Down(s) + 1

Outputs(s, r, buffer, count) ==
    [m \in 1 .. count |->
        LET step   == (m - 1) * Down(s) + r.frac
            centre == r.origin + step \div Up(s)
        IN <<buffer[centre - HalfTaps(s) + 1], buffer[centre + HalfTaps(s) + 1],
             PhaseIndex(s, step % Up(s))>>]

\* Seeded bug: the fraction past the last output is forgotten between two chunks.
Bug_AdvanceDropsFraction(s, r, buffer, count) ==
    LET origin == r.origin + (count * Down(s)) \div Up(s)
        cut    == origin - HalfTaps(s)
    IN [buffer |-> SubSeq(buffer, cut + 1, Len(buffer)),
        origin |-> HalfTaps(s), frac |-> 0]

\* The state after count outputs: the buffer is cut where the next kernel starts.
Advance(s, r, buffer, count) ==
    LET advanced == r.frac + count * Down(s)
        origin   == r.origin + advanced \div Up(s)
        keepFrom == origin - HalfTaps(s)
        cut      == IF keepFrom > 0 THEN keepFrom ELSE 0
    IN [buffer |-> SubSeq(buffer, cut + 1, Len(buffer)),
        origin |-> origin - cut, frac |-> advanced % Up(s)]

\* process(): the new state and the outputs for the next block of a stream.
Process(s, r, block) ==
    LET buffer == r.buffer \o block
        count  == Ready(s, r, buffer)
    IN IF Passthrough(s)
       THEN [state |-> r, out |-> [k \in DOMAIN block |-> <<block[k], block[k], 0>>]]
       ELSE IF count = 0 THEN [state |-> [r EXCEPT !.buffer = buffer], out |-> <<>>]
       ELSE [state |-> Advance(s, r, buffer, count),
             out   |-> Outputs(s, r, buffer, count)]

\* The samples first, first + 1 .. of an input, or the silence that flush() feeds.
Block(first, count) == [k \in 1 .. count |-> first + k - 1]
FlushBlock(s, n) == Block(n, HalfTaps(s))

\* resample(): the whole signal of n samples at once, on a resampler of its own.
Resample(s, n) ==
    LET head == Process(s, FreshResampler(s), Block(0, n))
        tail == Process(s, head.state, FlushBlock(s, n))
    IN head.out \o tail.out

-----------------------------------------------------------------------------

(***** audio/framing.py *****************************************************)

FreshSlicer == [pending |-> <<>>, capturedAt |-> NoDate, sequence |-> 0]

FrameTime(s) == FrameSamples * s.src

\* _wrap(): the frame of these samples, index frames after origin.
Wrap(s, samples, origin, sequence, index) ==
    [samples |-> samples, sequence |-> sequence + index,
     capturedAt |-> origin + index * FrameTime(s)]

\* Seeded bug: a partial frame keeps the date of the frame before it.
Bug_SlicerKeepsDate(s, w, samples, capturedAt) ==
    LET origin   == IF w.capturedAt = NoDate THEN capturedAt ELSE w.capturedAt
        block    == w.pending \o samples
        complete == Len(block) \div FrameSamples
    IN [state |-> [pending |-> SubSeq(block, complete * FrameSamples + 1, Len(block)),
                   capturedAt |-> origin, sequence |-> w.sequence + complete],
        out   |-> [k \in 1 .. complete |->
                     Wrap(s, SubSeq(block, (k - 1) * FrameSamples + 1, k * FrameSamples),
                          origin, w.sequence, k - 1)]]

\* push(): the new state and the complete frames of one chunk.
SlicerPush(s, w, samples, capturedAt) ==
    LET origin   == IF w.capturedAt = NoDate THEN capturedAt ELSE w.capturedAt
        block    == w.pending \o samples
        complete == Len(block) \div FrameSamples
        cut      == complete * FrameSamples
        rest     == SubSeq(block, cut + 1, Len(block))
    IN [state |-> [pending |-> rest,
                   capturedAt |-> IF rest = <<>> /\ complete > 0 THEN NoDate
                                  ELSE origin + cut * s.src,
                   sequence |-> w.sequence + complete],
        out   |-> [k \in 1 .. complete |->
                     Wrap(s, SubSeq(block, (k - 1) * FrameSamples + 1, k * FrameSamples),
                          origin, w.sequence, k - 1)]]

\* flush(): the partial frame, padded with silence.
SlicerFlush(s, w) ==
    IF w.pending = <<>> THEN [state |-> w, out |-> <<>>]
    ELSE LET padding == [k \in 1 .. FrameSamples - Len(w.pending) |-> Silence]
         IN [state |-> [FreshSlicer EXCEPT !.sequence = w.sequence + 1],
             out   |-> <<Wrap(s, w.pending \o padding, w.capturedAt, w.sequence, 0)>>]

\* concat_chunks() of frames, which are full (see FramesDated): one chunk that
\* keeps the number and the date of the first.
ConcatChunks(chunks) ==
    [Head(chunks) EXCEPT !.samples =
        [m \in 1 .. Len(chunks) * FrameSamples |->
            chunks[(m - 1) \div FrameSamples + 1].samples[((m - 1) % FrameSamples) + 1]]]

-----------------------------------------------------------------------------

(***** audio/convert.py and audio/pipeline.py *******************************)

AudioInit ==
    /\ stream \in Streams
    /\ resampler = FreshResampler(stream)
    /\ slicer = FreshSlicer
    /\ frames = <<>>
    /\ total = 0
    /\ flushed = FALSE

\* decode_pcm() and downmix_to_mono() refuse what does not divide evenly.
Truncated(bytes) == bytes % stream.width # 0
                    \/ (bytes \div stream.width) % stream.channels # 0

\* _frame(): nothing reaches the slicer when the resampler gave nothing.
FrameUp(w, samples, capturedAt) ==
    IF samples = <<>> THEN [state |-> w, out |-> <<>>]
    ELSE SlicerPush(stream, w, samples, capturedAt)

\* A payload, dated by its first sample or, as the voice socket does it, by
\* the moment it is complete. The ValueError of a refused one leaves no trace.
PushBytes(bytes, dated) ==
    LET count == bytes \div (stream.width * stream.channels)
        date  == (IF dated THEN total ELSE total + count) * stream.dst
        res   == Process(stream, resampler, Block(total, count))
        cut   == FrameUp(slicer, res.out, date)
    IN /\ ~flushed
       /\ total + count <= MaxInput
       /\ ~Truncated(bytes)
       /\ resampler' = res.state
       /\ slicer' = cut.state
       /\ frames' = frames \o cut.out
       /\ total' = total + count
       /\ UNCHANGED <<stream, flushed>>

Flush ==
    LET res  == Process(stream, resampler, FlushBlock(stream, total))
        up   == FrameUp(slicer, res.out, total * stream.dst)
        last == SlicerFlush(stream, up.state)
    IN /\ ~flushed
       /\ flushed' = TRUE
       /\ resampler' = res.state
       /\ slicer' = last.state
       /\ frames' = frames \o up.out \o last.out
       /\ UNCHANGED <<stream, total>>

\* reset(), between two streams.
ResetAudio ==
    /\ resampler' = FreshResampler(stream)
    /\ slicer' = FreshSlicer
    /\ frames' = <<>> /\ total' = 0 /\ flushed' = FALSE
    /\ UNCHANGED stream

AudioNext ==
    \/ \E bytes \in 0 .. MaxPayload * stream.width * stream.channels, dated \in BOOLEAN :
          PushBytes(bytes, dated)
    \/ Flush
    \/ ResetAudio

AudioSpec == AudioInit /\ [][AudioNext]_audioVars

-----------------------------------------------------------------------------

Emitted == (IF frames = <<>> THEN <<>> ELSE ConcatChunks(frames).samples) \o slicer.pending

\* The m-th output of a stream, whatever the chunks it came in.
Sample(s, m) ==
    LET centre == (m * Down(s)) \div Up(s)
    IN <<centre - HalfTaps(s), centre + HalfTaps(s),
         PhaseIndex(s, (m * Down(s)) % Up(s))>>

\* However the client cuts its stream into payloads, the samples that left
\* are the resampled signal from its start, each filtered around its own
\* position and never drifting, and all that can be computed so far; at the
\* end they are what a one-shot resample() of the whole gives, then silence
\* up to a full frame (resample.py: "removes the boundary discontinuity
\* between consecutive chunks").
SignalKept ==
    \E kept \in 0 .. Len(Emitted) :
        /\ SubSeq(Emitted, 1, kept) = [m \in 1 .. kept |-> Sample(stream, m - 1)]
        /\ \A m \in kept + 1 .. Len(Emitted) : flushed /\ Emitted[m] = Silence
        /\ IF flushed THEN Resample(stream, total) = SubSeq(Emitted, 1, kept)
           ELSE Sample(stream, kept)[2] >= total

\* Frames are full, numbered without gaps, and dated no earlier than their
\* first sample and later by at most a payload and half a kernel
\* (framing.py: "numbered consecutively and dated from the capture time of
\* their first sample").
FramesDated ==
    \A k \in DOMAIN frames :
        LET late == frames[k].capturedAt - (k - 1) * FrameTime(stream)
        IN /\ Len(frames[k].samples) = FrameSamples
           /\ frames[k].sequence = k - 1
           /\ late \in 0 .. (MaxPayload + HalfTaps(stream)) * stream.dst
==============================================================================
