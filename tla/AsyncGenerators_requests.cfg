CONSTANTS
    MaxRequests = 5
    MaxStops = 3
    Poisonable = {"unwrap", "finish"}
    Body = Body
    Undefined = Undefined
SPECIFICATION Spec
INVARIANT TypeOK
INVARIANT FlagsTellThePlace
INVARIANT OneHolder
INVARIANT ValuesReachTheirOwners
PROPERTY EndedIsEnded
PROPERTY ServesInOrder
PROPERTY NobodyWaits
CHECK_DEADLOCK FALSE
