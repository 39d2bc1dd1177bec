SPECIFICATION FairSpec
CONSTANTS
    a = a
    b = b
    c = c
    pizza = pizza
    salad = salad
    dough = dough
    bake = bake
    grill = grill
    Nodes = {a, b, c}
    Orders = {pizza}
    ActionNames = {dough, bake, grill}
    Caps <- CrashCaps
    Recipe <- CrashRecipe
    Menu <- CrashMenu
    Origin <- CrashOrigin
    Unparsable = {}
    Started <- Once
    InitKnown <- SelfKnown
    MaxForwards = 2
    MaxChurn = 0
    MaxCrashes = 1
    MaxStarts = 2
PROPERTIES
    ImplementsService
    ReceiptLeadsToAnswer
    EveryTaskEnds
