SPECIFICATION FairSpec
CONSTANTS
    None = none
    Huge = huge
    Capacity = 2
    Whole <- MCWhole
    Streamed <- MCStreamed
    Replies <- MCReplies
    Probes <- MCProbes
    Scripts <- MCScripts
INVARIANTS Grammar    RequestKept
PROPERTIES StreamEnds
