SPECIFICATION FairSpec
CONSTANTS
    None = None
    d1 = d1
    d2 = d2
    d3 = d3
    b1 = b1
    b2 = b2
    Delegations = {d1, d2, d3}
    BossCalls = {b1, b2}
    TooDeep = {d3}
    ClientTurns = {t1}
    NSlots = 1
    AtOnce = 2
    Plans <- MCPlans
INVARIANTS
    TypeOK
    SlotsHeld
    WipedOnlyAfterCut
    WindowHasAnAnswer
PROPERTY
    CallsEnd
CHECK_DEADLOCK FALSE
