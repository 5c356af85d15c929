SPECIFICATION CastSpec
CONSTANTS
    q1 = q1
    q2 = q2
    s1 = s1
    s2 = s2
    c1 = c1
    c2 = c2
    None = None
    Calls = {q1, q2}
    Sessions = {s1, s2}
    Session <- TwoSessions
    Channelled = {q1}
    Clients = {c1, c2}
INVARIANTS
    TypeOK
    FirstAnswerDecides
    OneOutcome
    AskersTold
    TableFollowsQuestions
PROPERTY
    QuestionsEnd
CHECK_DEADLOCK FALSE
