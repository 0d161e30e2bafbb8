SPECIFICATION FairSpec
CONSTANTS
    m1 = m1
    m2 = m2
    t1 = t1
    t2 = t2
    q = q
    s1 = s1
    s2 = s2
    Messages = {m1, m2}
    Taps = {t1, t2}
    Suggestions = {s1, s2}
    MaxAttempts = 3
    Deadline = 9
    AttemptTimeout = 3
    RetryDelay = 1
    Query = q
    Scenarios <- MCScenarios
\* Once every update has been handled nothing is left to do.
CHECK_DEADLOCK FALSE
INVARIANTS
    CountedIsShown
    QuestionHeard
    RefreshIsFresh
    FormattingKept
    AnsweredByDeadline
    MissingOnlyAfterRetries
PROPERTIES
    DispatchReturns
