SPECIFICATION FairSpec
CONSTANTS
    None = none
    Huge = huge
    a = a
    b = b
    unknown = unknown
    r1 = r1
    r2 = r2
    Run = {r1, r2}
    Known = {a, b}
    Priority = a
    Jobs <- MCJobs
    CallShaped <- MCCallShaped
    Json <- MCJson
    Responses <- MCResponses
    MaxListed = 2
INVARIANTS  CallNotMissed HistoryTrue
PROPERTIES RunEnds
CHECK_DEADLOCK FALSE
