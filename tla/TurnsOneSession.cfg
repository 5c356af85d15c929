\* One session, two clients of which one may be slow, three prompts, frames
\* at any time: every window of the turn lifecycle is open.
CONSTANTS
    Sessions = {s1}
    Headless = {}
    Conns = {c1, c2}
    Tick = Tick
    Prompts = {r1, r2, r3}
    Cwds = {d1, d2}
    ClientDir = d1
    UpgradeDir = d2
    Cwd <- MCCwd
    SlowConns = {c2}
    EarlyFrames = TRUE
    MaxToolRounds = 1
    Refusals = {}
    None = None
SPECIFICATION Spec
INVARIANTS
    TypeOK
    OneTurnPerSession
    BusyMeansHeld
    OneTerminalFrame
    RegistrationsFollowTurn
    QueueHasServer
PROPERTIES
    PromptsDelivered
    WrittenInTurn
SYMMETRY PromptSymmetry
VIEW LiveView
CHECK_DEADLOCK FALSE
