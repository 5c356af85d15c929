\* Two sessions, one of which the upgrade tick runs turns in too, and one
\* slow client that works in both.
CONSTANTS
    Sessions = {s1, s2}
    Headless = {s2}
    Conns = {c1}
    Tick = Tick
    Prompts = {r1, r2, r3}
    Cwds = {d1, d2}
    ClientDir = d1
    UpgradeDir = d2
    Cwd <- MCCwd
    SlowConns = {c1}
    EarlyFrames = TRUE
    MaxToolRounds = 1
    Refusals = {}
    None = None
SPECIFICATION Spec
INVARIANTS
    RegistrationsFollowTurn
PROPERTIES
    PromptsDelivered
SYMMETRY PromptSymmetry
VIEW LiveView
CHECK_DEADLOCK FALSE
