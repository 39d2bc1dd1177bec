SPECIFICATION FairSpec
CONSTANTS
    Repeats <- SomeRepeats
    Count <- SomeCount
    MaxCount = 4
    Nodes = {1, 2}
    Setups <- MCSetups
    Names <- MCNames
    Loads <- MCLoads
    Shelf <- MCShelf
    Skills <- MCSkills
    Text <- MCText
    Meant <- MCMeant
    Regular <- MCRegular
    MaxStarts = 2
    MaxChurn = 2
    MaxCalls = 3
CONSTRAINTS
    DraftIsOnlyRead
    OneRequest
INVARIANTS
    TypeOK
    WellWrittenFilesLoad
    SourceReadsBack
    OrderCooksWhatWasWritten
    AnswerIsAHeldRecipe
    NotFoundHasACause
    OnlyStaleEntriesMakeDetours
    ListingIsTrue
PROPERTY EveryRequestEnds
