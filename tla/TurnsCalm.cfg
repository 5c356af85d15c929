\* Sockets never fill and a task is always stepped before the next frame is
\* read: what the turn lifecycle guarantees outright.
CONSTANTS
    Sessions = {s1}
    Headless = {s1}
    Conns = {c1, c2}
    Tick = Tick
    Prompts = {r1, r2}
    Cwds = {d1, d2}
    ClientDir = d1
    UpgradeDir = d2
    Cwd <- MCCwd
    SlowConns = {}
    EarlyFrames = FALSE
    MaxToolRounds = 2
    Refusals = {"scrub", "shrink"}
    None = None
SPECIFICATION FairSpec
INVARIANTS
    LockReleasedOnExit
    FramesKeepToDirectory
PROPERTIES
    TurnsEnd
    QueuesDrain
CHECK_DEADLOCK FALSE
