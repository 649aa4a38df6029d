SPECIFICATION FairSpec
CONSTANTS
    s1 = s1
    s2 = s2
    e1 = e1
    e2 = e2
    None = None
    w1 = w1
    c1 = c1
    c2 = c2
    c3 = c3
    Subs = {s1, s2}
    Types = {e1, e2}
    Wants <- MCWants
    Posters = {w1}
    Closers = {c1, c2, c3}
    MaxPosts = 1
PROPERTIES ClosedOnce NoLateEvents EveryoneReturns
CHECK_DEADLOCK FALSE
