SPECIFICATION Spec
INVARIANTS SignalKept FramesDated UtterancesHeard TranscriptionsApart DecodedByToken BreakerCounts
PROPERTIES RingKeepsNewest HistoryWindow
CHECK_DEADLOCK FALSE
CONSTANTS
    RingCapacity = 3
    MaxWritten = 8
    MaxBlock = 5
    Streams <- MCStreams
    HalfLen = 1
    MaxPhases = 2
    FrameSamples = 2
    MaxInput = 9
    MaxPayload = 4
    VadCalls = {a, b}
    MinSpeechMs = 48
    MinSilenceMs = 80
    MaxHeard = 5
    AsrCalls = {a, b, c}
    MaxBatch = 2
    MaxFrames = 2
    PerFrame = 2
    WindowFrames = 2
    MaxTokens = 6
    MaxTurns = 2
    MaxChars = 6
    PromptSizes = {0, 2}
    MessageSizes = {1, 3}
    MaxMessages = 5
    MaxTurnsEver = 4
    GrokSessions = {a, b}
    MaxRetries = 1
    Threshold = 2
    ResetAfter = 1
    MaxCompletions = 3
    MaxTime = 1
