------------------------------- MODULE MCSpeech -------------------------------
(***************************************************************************)
(* TLC instance of the parts a voice pipeline is put together from. None   *)
(* touches another's state, so a run takes one of them, chosen at the      *)
(* start, and leaves the others where they began.                          *)
(***************************************************************************)
EXTENDS AudioRing, InboundAudio, SpeechDetector, SpeechRecognizer,
        SpeechDecoder, ConversationHistory, GrokProvider

VARIABLE part  \* the component that runs

\* A telephone's 8 kHz, one and two channels; the voice socket's own 16 kHz;
\* rates whose ratio does not reduce. Rates are in units of 8 kHz.
MCStreams == {[src |-> 2, dst |-> 2, channels |-> 2, width |-> 2],
              [src |-> 3, dst |-> 1, channels |-> 1, width |-> 2],
              [src |-> 2, dst |-> 3, channels |-> 1, width |-> 4],
              [src |-> 6, dst |-> 4, channels |-> 1, width |-> 2]}

Init == /\ part \in {"ring", "audio", "vad", "asr", "tts", "history", "grok"}
        /\ RingInit /\ AudioInit /\ VadInit /\ AsrInit /\ DecInit /\ HistoryInit /\ GrokInit
        /\ part # "audio" => stream = CHOOSE x \in Streams : TRUE
        /\ part # "history" => systemPrompt = CHOOSE x \in PromptSizes : TRUE

Next ==
    \/ /\ part = "ring" /\ RingNext
       /\ UNCHANGED <<part, audioVars, vadVars, asrVars, decVars, historyVars, grokVars>>
    \/ /\ part = "audio" /\ AudioNext
       /\ UNCHANGED <<part, ringVars, vadVars, asrVars, decVars, historyVars, grokVars>>
    \/ /\ part = "vad" /\ VadNext
       /\ UNCHANGED <<part, ringVars, audioVars, asrVars, decVars, historyVars, grokVars>>
    \/ /\ part = "asr" /\ AsrNext
       /\ UNCHANGED <<part, ringVars, audioVars, vadVars, decVars, historyVars, grokVars>>
    \/ /\ part = "tts" /\ DecNext
       /\ UNCHANGED <<part, ringVars, audioVars, vadVars, asrVars, historyVars, grokVars>>
    \/ /\ part = "history" /\ HistoryNext
       /\ UNCHANGED <<part, ringVars, audioVars, vadVars, asrVars, decVars, grokVars>>
    \/ /\ part = "grok" /\ GrokNext
       /\ UNCHANGED <<part, ringVars, audioVars, vadVars, asrVars, decVars, historyVars>>

vars == <<part, ringVars, audioVars, vadVars, asrVars, decVars, historyVars, grokVars>>

Spec == Init /\ [][Next]_vars
=============================================================================
