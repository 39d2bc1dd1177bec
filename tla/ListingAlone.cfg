SPECIFICATION Spec
CONSTANTS
    Repeats <- SomeRepeats
    Count <- SomeCount
    MaxCount = 4
    Nodes = {1, 2}
    Setups <- MCSetups
    Names <- MCNames
    Loads <- MCLoads
    Shelf <- MCShelf
    Skills <- MCSkills
    Text <- MCText
    Meant <- MCMeant
    Regular <- MCRegular
    MaxStarts = 2
    MaxChurn = 2
    MaxCalls = 3
CONSTRAINTS
    DraftIsOnlyRead
    OneRequest
INVARIANT CompleteMeansAlone
