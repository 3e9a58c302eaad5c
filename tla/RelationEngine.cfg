SPECIFICATION FairSpec
CONSTANTS
    a = a
    b = b
    c = c
    d = d
    e = e
    f = f
    g = g
    h = h
    t = t
    x = x
    y = y
    z = z
    n1 = n1
    n2 = n2
    n3 = n3
    n4 = n4
    s1 = s1
    NoNode = NoNode
    Keys <- MCKeys
    Rule <- MCRule
    Identical = {t}
    Contextual = {h, y, z}
    ClassNodes = {n1, n3}
    EvalNodes = {n2, n4}
    SurfaceNodes = {s1}
    Needs <- MCNeeds
    Apparent <- MCApparent
    Garbled <- MCGarbled
    MaxExpansions = 1
    Poisoned = {b}
    Cyclic = {n3, n4}
    Witness <- MCWitness
INVARIANTS
    TypeOK
    DurableSound
    MemoSound
    AnswerIsFixpoint
    AssumptionsInFlight
    ExpansionsClean
PROPERTIES
    DurableStable
    EveryQueryAnswered
