CONSTANTS
    Spans = {m1}
    Captures = {p1, p2}
    Runtimes = {r1}
    RuntimeOf <- OneRuntime
    Models = {m1}
    MaxRecent = 1
    MaxErrors = 1
    MaxCrashes = 1
    r1 = r1
    Nothing = Nothing
    Calls = {s1, s2, a1}
    Streamed = {s1, s2}
    CallOf <- MCCallOf
    Replies <- MCReplies
    s1 = s1
    s2 = s2
    a1 = a1
SPECIFICATION AllSpec
INVARIANTS EachOnce ClosedIsComplete CapturedAsAnswered
PROPERTIES ImplementsAcknowledgedStore

CHECK_DEADLOCK FALSE
