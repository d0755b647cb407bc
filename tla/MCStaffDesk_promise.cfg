\* A shift in which a tap may be queued while a loop replays the queue.
SPECIFICATION Spec
CONSTANTS
    o1 = o1
    o2 = o2
    Orders <- MCOrders
    Loops <- MCLoops
    Hand = 0
    NoOrder = NoOrder
    Manners = {"any"}
    Opening <- MCOpening
    MaxTaps <- MCMaxTaps
    MaxDrops <- MCMaxDrops
    MaxUpsets = 1
CHECK_DEADLOCK FALSE
INVARIANT PromiseKept
