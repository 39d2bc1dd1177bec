SPECIFICATION Spec
CONSTANTS
    a = a
    b = b
    c = c
    pizza = pizza
    salad = salad
    dough = dough
    bake = bake
    grill = grill
    Nodes = {a, b, c}
    Orders = {pizza}
    ActionNames = {dough, bake, grill}
    Caps <- RivalCaps
    Recipe <- CrashRecipe
    Menu <- CrashMenu
    Origin <- CrashOrigin
    Unparsable = {}
    Started <- Once
    InitKnown <- AllKnown
    MaxForwards = 3
    MaxChurn = 0
    MaxCrashes = 0
    MaxStarts = 1
INVARIANT ErrorMeansUndelivered
