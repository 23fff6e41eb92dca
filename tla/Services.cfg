CONSTANTS
    Owners <- MCOwners
    MaxFiles = 2
    Listings <- MCListings
    Rounds = 2
    Chunks = 2
    Listeners = {l1}
    Scenarios <- MCScenarios
    Directories <- MCDirectories
SPECIFICATION Spec
INVARIANTS EndsTold NothingLost UploadsWhole
PROPERTY RequestsEnd
CHECK_DEADLOCK FALSE
