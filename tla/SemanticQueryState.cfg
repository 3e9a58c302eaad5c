SPECIFICATION Spec
CONSTANTS
    s1 = s1
    p1 = p1
    p2 = p2
    r1 = r1
    off = off
    on = on
    NoEntry = NoEntry
    NoIdentity = NoIdentity
    Slots = {s1}
    Pairs = {p1}
    Roots = {r1}
    Settings = {off, on}
    MaxDepth = 2
    MaxGraph = 2
    MaxJournal = 3
    MaxLayers = 4
INVARIANTS
    TypeOK
    LayersSuffice
    FreshReads
PROPERTIES
    Transactional
