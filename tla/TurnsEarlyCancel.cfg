\* A frame handled before the first step of the turn it is about.
CONSTANTS
    Sessions = {s1}
    Headless = {}
    Conns = {c1, c2}
    Tick = Tick
    Prompts = {r1, r2}
    Cwds = {d1, d2}
    ClientDir = d1
    UpgradeDir = d2
    Cwd <- MCCwd
    SlowConns = {}
    EarlyFrames = TRUE
    MaxToolRounds = 1
    Refusals = {}
    None = None
SPECIFICATION Spec
INVARIANTS
    LockReleasedOnExit
CHECK_DEADLOCK FALSE
