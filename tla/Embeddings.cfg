SPECIFICATION FairSpec
CONSTANTS
    Requests = {r1, r2, r3}
    Embedder = embedder
    Reranker = reranker
    None = none
    Floor = 2
    Pins <- MCPins
    Plans <- MCPlans
    Inputs <- MCInputs
    Rankings <- MCRankings
INVARIANTS PermitsKept AnswerWhole
PROPERTIES QueueEnds
