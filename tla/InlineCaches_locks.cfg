SPECIFICATION Spec
CONSTANTS
    a = a
    b = b
    get = get
    set = set
    Objects = {o}
    Keys = {a, b}
    Values = {v, w}
    Holders = {h}
    Receivers = {o}
    GetSites = {get}
    SetSites = {set}
    SiteKeys <- DynamicGetStaticSet
    Attributes <- Locking
    Lockable = {o}
    NoObject = NoObject
    NoKey = NoKey
    NoProto = NoProto
    PolyCap = 2
    ProtoDepth = 5
    MaxShapes = 4
    MaxCalls = 1
INVARIANT HitsFindTheProperty
PROPERTY OnePropertyAtATime
PROPERTY LockedStaysLocked
PROPERTY KeysKeepTheirOrder
CHECK_DEADLOCK FALSE
