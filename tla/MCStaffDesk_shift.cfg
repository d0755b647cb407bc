\* One shift on one phone; its manner is chosen in the initial state.
SPECIFICATION FairSpec
CONSTANTS
    o1 = o1
    o2 = o2
    Orders <- MCOrders
    Loops <- MCLoops
    Hand = 0
    NoOrder = NoOrder
    Manners = {"steady", "apart"}
    Opening <- MCOpening
    MaxTaps <- MCMaxTaps
    MaxDrops <- MCMaxDrops
    MaxUpsets = 1
INVARIANT PromiseKeptApart
PROPERTY TapsSound
PROPERTY QueuedStartHappens
CHECK_DEADLOCK FALSE
