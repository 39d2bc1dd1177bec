SPECIFICATION Spec
CONSTANTS
    a = a
    b = b
    c = c
    pizza = pizza
    salad = salad
    dough = dough
    bake = bake
    grill = grill
    Nodes = {a, b}
    Orders = {pizza, salad}
    ActionNames = {dough, bake, grill}
    Caps <- CrowdCaps
    Recipe <- CrowdRecipe
    Menu <- CrowdMenu
    Origin <- CrowdOrigin
    Unparsable = {}
    Started <- Once
    InitKnown <- AllKnown
    MaxForwards = 1
    MaxChurn = 0
    MaxCrashes = 0
    MaxStarts = 1
INVARIANT EntriesHaveWaiters
