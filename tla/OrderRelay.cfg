SPECIFICATION Spec
CONSTANTS
    a = a
    b = b
    c = c
    pizza = pizza
    salad = salad
    dough = dough
    bake = bake
    grill = grill
    Nodes = {a, b, c}
    Orders = {pizza, salad}
    ActionNames = {dough, bake, grill}
    Caps <- RelayCaps
    Recipe <- RelayRecipe
    Menu <- RelayMenu
    Origin <- RelayOrigin
    Unparsable = {salad}
    Started <- RelayStarted
    InitKnown <- RelayKnown
    MaxForwards = 3
    MaxChurn = 1
    MaxCrashes = 0
    MaxStarts = 2
INVARIANTS
    TypeOK
    CompletedIsWholeRecipe
    AnswerTrailIsHonest
    AnswerTrailIsExact
    EveryHopAdvances
    ExecutedOnceUnlessRetried
    ErrorMeansUndeliveredUnlessRetried
    SignalNeverBlocks
    WaiterIsReachable
    DrivenOrderLeavesNoEntry
    PlaceholderMeansDelivered
    FailureHasACause
