SPECIFICATION Spec
CONSTANTS
    a = a
    b = b
    get = get
    set = set
    Objects = {o, p, q}
    Keys = {a, b}
    Values = {v}
    Holders = {h}
    Receivers = {o}
    GetSites = {get}
    SetSites = {}
    SiteKeys <- StaticGet
    Attributes <- Unlocked
    Lockable = {}
    NoObject = NoObject
    NoKey = NoKey
    NoProto = NoProto
    PolyCap = 2
    ProtoDepth = 5
    MaxShapes = 3
    MaxCalls = 1
SYMMETRY Interchangeable
INVARIANT TypeOK
INVARIANT HitsFindTheProperty
CHECK_DEADLOCK FALSE
