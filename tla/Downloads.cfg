SPECIFICATION FairSpec
CONSTANTS
    p1 = p1
    p2 = p2
    Pulls = {p1, p2}
    Scenarios <- MCScenarios
    Uploads <- MCUploads
    Selectors <- MCSelectors
    Capacity = 5
    Size <- MCSize
    MaxUploads = 3
    MaxFaults = 2
INVARIANTS ResumesExactly 
PROPERTIES RegistersWhole  Heals
