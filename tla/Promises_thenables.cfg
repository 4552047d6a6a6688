CONSTANTS
    Promises = {1, 2}
    Plain = {x}
    Thenables = {t}
    Coroutines = {c1}
    TypeError = TypeError
    Undefined = Undefined
    MaxPairs = 3
    MaxDepth = 4
    MaxQueue = 3
    MaxEvals = 1
    Poisonable = FALSE
    x = x
    t = t
    c1 = c1
SPECIFICATION FairSpec
INVARIANT OneWayToSettle
INVARIANT AwaitsAreResumed
INVARIANT IdleIsDrained
PROPERTY ReactionsServed
CHECK_DEADLOCK FALSE
