---------------------------- MODULE SpeechDetector ----------------------------
(***************************************************************************)
(* The voice activity detector of vad/silero.py: one recurrent network per *)
(* call, cloned from a shared template, and the counters that turn its     *)
(* verdicts on single frames into the start and the end of an utterance.   *)
(*                                                                         *)
(* The network is abstract: a frame is heard as speech or not, and what a  *)
(* network remembers is how many frames it has seen since it was reset.    *)
(***************************************************************************)
EXTENDS Integers, Sequences, FiniteSets

CONSTANTS VadCalls,      \* the calls, each with a session of its own
          MinSpeechMs,   \* min_speech_ms
          MinSilenceMs,  \* min_silence_ms
          MaxHeard       \* bound on the frames a call hears between two resets

ASSUME VadAssumption == /\ IsFiniteSet(VadCalls)
                        /\ {MinSpeechMs, MinSilenceMs, MaxHeard} \subseteq Nat

VARIABLES networkOf,      \* _model of each session, FALSE before it is opened
          remembered,     \* what each network has seen
          speechFrames,   \* _speech_frames
          silenceFrames,  \* _silence_frames
          frameIndex,     \* _frame_index
          speaking,       \* _speaking
          heard,          \* history: the verdicts since the last reset
          events          \* history: the events since the last reset

vadVars == <<networkOf, remembered, speechFrames, silenceFrames, frameIndex,
             speaking, heard, events>>

Template == 0
Networks == 0 .. Cardinality(VadCalls)

VadInit ==
    /\ networkOf = [c \in VadCalls |-> Template]
    /\ remembered = [n \in Networks |-> 0]
    /\ speechFrames = [c \in VadCalls |-> 0]
    /\ silenceFrames = [c \in VadCalls |-> 0]
    /\ frameIndex = [c \in VadCalls |-> 0]
    /\ speaking = [c \in VadCalls |-> FALSE]
    /\ heard = [c \in VadCalls |-> <<>>]
    /\ events = [c \in VadCalls |-> <<>>]

\* max(1, round(ms / 32)), where round() goes to the even neighbour of a half.
FramesIn(ms) ==
    LET up == IF ms % 32 > 16 \/ (ms % 32 = 16 /\ (ms \div 32) % 2 = 1) THEN 1 ELSE 0
        n  == ms \div 32 + up
    IN IF n = 0 THEN 1 ELSE n

\* Seeded bug: every session is given the same network.
Bug_SharesWrapper(c) ==
    /\ networkOf' = [networkOf EXCEPT ![c] = 1]
    /\ remembered' = [remembered EXCEPT ![1] = 0]

\* The memory of a fresh clone: deepcopy() takes the template's, which has seen
\* nothing, and a network that cannot be copied deeply is copied and reset.
CloneModel(c) ==
    LET fresh == CHOOSE n \in Networks \ {Template} : \A d \in VadCalls : networkOf[d] # n
    IN /\ networkOf' = [networkOf EXCEPT ![c] = fresh]
       /\ remembered' = [remembered EXCEPT ![fresh] = 0]

OpenVad(c) ==
    /\ networkOf[c] = Template
    /\ CloneModel(c)
    /\ UNCHANGED <<speechFrames, silenceFrames, frameIndex, speaking, heard, events>>

\* process() of a frame the network takes for speech: the frame that makes the
\* run long enough starts an utterance.
HearSpeech(c) ==
    LET run    == speechFrames[c] + 1
        starts == ~speaking[c] /\ run >= FramesIn(MinSpeechMs)
    IN /\ speechFrames' = [speechFrames EXCEPT ![c] = run]
       /\ silenceFrames' = [silenceFrames EXCEPT ![c] = 0]
       /\ speaking' = [speaking EXCEPT ![c] = @ \/ starts]
       /\ events' = IF starts
                    THEN [events EXCEPT ![c] = Append(@, <<"SPEECH_STARTED", frameIndex[c] + 1>>)]
                    ELSE events

\* And of one it does not: the frame that makes the pause long enough ends it.
HearSilence(c) ==
    LET pause == silenceFrames[c] + 1
        ends  == speaking[c] /\ pause >= FramesIn(MinSilenceMs)
    IN /\ silenceFrames' = [silenceFrames EXCEPT ![c] = pause]
       /\ speechFrames' = [speechFrames EXCEPT ![c] = 0]
       /\ speaking' = [speaking EXCEPT ![c] = @ /\ ~ends]
       /\ events' = IF ends
                    THEN [events EXCEPT ![c] = Append(@, <<"SPEECH_ENDED", frameIndex[c] + 1>>)]
                    ELSE events

ProcessFrame(c, isSpeech) ==
    /\ networkOf[c] # Template
    /\ Len(heard[c]) < MaxHeard
    /\ remembered' = [remembered EXCEPT ![networkOf[c]] = @ + 1]
    /\ frameIndex' = [frameIndex EXCEPT ![c] = @ + 1]
    /\ heard' = [heard EXCEPT ![c] = Append(@, isSpeech)]
    /\ \/ isSpeech /\ HearSpeech(c)
       \/ ~isSpeech /\ HearSilence(c)
    /\ UNCHANGED networkOf

\* reset(), when the pipeline closes; an utterance it cuts off has no end event.
ResetVad(c) ==
    /\ networkOf[c] # Template
    /\ remembered' = [remembered EXCEPT ![networkOf[c]] = 0]
    /\ speechFrames' = [speechFrames EXCEPT ![c] = 0]
    /\ silenceFrames' = [silenceFrames EXCEPT ![c] = 0]
    /\ frameIndex' = [frameIndex EXCEPT ![c] = 0]
    /\ speaking' = [speaking EXCEPT ![c] = FALSE]
    /\ heard' = [heard EXCEPT ![c] = <<>>]
    /\ events' = [events EXCEPT ![c] = <<>>]
    /\ UNCHANGED networkOf

VadNext == \E c \in VadCalls :
    \/ OpenVad(c)
    \/ \E isSpeech \in BOOLEAN : ProcessFrame(c, isSpeech)
    \/ ResetVad(c)

VadSpec == VadInit /\ [][VadNext]_vadVars

-----------------------------------------------------------------------------

\* The last n verdicts before and at frame k were all v.
RunAt(c, k, n, v) == k >= n /\ \A j \in k - n + 1 .. k : heard[c][j] = v

\* Reference: after frame k somebody speaks if a long enough run of speech has
\* not been followed by a long enough pause.
SpeakingAt(c, k) ==
    \E i \in 1 .. k : /\ RunAt(c, i, FramesIn(MinSpeechMs), TRUE)
                      /\ \A j \in i + 1 .. k : ~RunAt(c, j, FramesIn(MinSilenceMs), FALSE)

\* Each call is judged on its own audio and its memory of it, whatever the
\* other calls say, and it reports exactly the frames at which its caller
\* starts and stops speaking by the reference above: no start twice in a row,
\* none missed, none on a run that was too short (silero.py: "strictly
\* isolated recurrent state per session").
UtterancesHeard ==
    \A c \in VadCalls :
        LET changes == {k \in 1 .. Len(heard[c]) : SpeakingAt(c, k) # SpeakingAt(c, k - 1)}
        IN /\ networkOf[c] # Template => remembered[networkOf[c]] = Len(heard[c])
           /\ Len(events[c]) = Cardinality(changes)
           /\ {events[c][i][2] : i \in DOMAIN events[c]} = changes
           /\ \A i \in DOMAIN events[c] :
                 events[c][i][1] = IF SpeakingAt(c, events[c][i][2])
                                   THEN "SPEECH_STARTED" ELSE "SPEECH_ENDED"
==============================================================================
