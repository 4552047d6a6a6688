CONSTANTS
    Promises = {1, 2, 3}
    Plain = {x}
    Thenables = {}
    Coroutines = {c1}
    TypeError = TypeError
    Undefined = Undefined
    MaxPairs = 2
    MaxDepth = 4
    MaxQueue = 2
    MaxEvals = 1
    Poisonable = TRUE
    x = x
    t = t
    c1 = c1
SPECIFICATION Spec
INVARIANT TypeOK
INVARIANT ReactionsRunOnce
INVARIANT ReactionsInOrder
PROPERTY FollowsItsFate
CHECK_DEADLOCK FALSE
