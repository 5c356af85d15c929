\* A cancel while the turn folds queued prompts in.
CONSTANTS
    Sessions = {s1}
    Headless = {}
    Conns = {c1, c2}
    Tick = Tick
    Prompts = {r1, r2, r3}
    Cwds = {d1, d2}
    ClientDir = d1
    UpgradeDir = d2
    Cwd <- MCCwd
    SlowConns = {c2}
    EarlyFrames = FALSE
    MaxToolRounds = 1
    Refusals = {}
    None = None
SPECIFICATION Spec
INVARIANTS
    NoSilentLoss
CHECK_DEADLOCK FALSE
