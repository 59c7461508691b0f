SPECIFICATION FairSpec
CONSTANTS
    MaxReplies = 2
    MaxSentences = 2
    MaxPumps = 2
    MaxChunks = 1
    OutputSize = 1
INVARIANTS LiveReplyStoppable NoStraySynthesis NoStaleContext RecordedWasSaid
PROPERTIES HeardInOrder CallEnds
CHECK_DEADLOCK FALSE
