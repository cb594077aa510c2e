SPECIFICATION MCSpec
CONSTANTS
    t1 = t1
    t2 = t2
    h1 = h1
    h2 = h2
    a1 = a1
    Tabs = {t1, t2}
    HttpCalls = {h1, h2}
    ApiCalls = {a1}
    MaxFailures = 2
    MaxRejected = 2
    MaxMessages = 1
PROPERTIES
    FreshSessionKept
    RenewsOrEndsAlone
    CallsEndAlone
CHECK_DEADLOCK FALSE
