\* A cancel frame that names a session while its connection runs a turn of
\* another.
CONSTANTS
    Sessions = {s1, s2}
    Headless = {}
    Conns = {c1}
    Tick = Tick
    Prompts = {r1, r2}
    Cwds = {d1, d2}
    ClientDir = d1
    UpgradeDir = d2
    Cwd <- MCCwd
    SlowConns = {}
    EarlyFrames = FALSE
    MaxToolRounds = 1
    Refusals = {}
    None = None
SPECIFICATION Spec
PROPERTIES
    CancelStaysInSession
CHECK_DEADLOCK FALSE
