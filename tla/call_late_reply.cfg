SPECIFICATION Spec
CONSTANTS
    MaxReplies = 2
    MaxSentences = 2
    MaxPumps = 2
    MaxChunks = 1
    OutputSize = 1
INVARIANTS NoReplyOnClosedSession
CHECK_DEADLOCK FALSE
