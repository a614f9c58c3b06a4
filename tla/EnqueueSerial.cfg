\* Three requests one after the other on one host, with a limit of two.
SPECIFICATION Spec
CONSTANTS
    upperA = upperA
    lowerA = lowerA
    lowerB = lowerB
    k1 = k1
    t1 = t1
    c1 = c1
    c2 = c2
    Addresses = {upperA, lowerA, lowerB}
    Lower <- MCLower
    Admins = {}
    CallChoices <- SuppressCall
    Requests = {r1, r2, r3}
    Inputs <- SerialInputs
    Keys = {k1, EmptyKey}
    NoKey = NoKey
    EmptyKey = EmptyKey
    Renders <- MCRenders
    NoRender = NoRender
    None = None
    Hosts = {h1}
    RateLimitEnabled = TRUE
    RateLimitMax = 2
    RateLimitWindow = 2
    KeyTtl = 2
    HtmlTtl = 1
    MaxInFlight = 1
    MaxTicks = 3
    MaxRestarts = 1
    MaxFaults = 1
SYMMETRY RequestSymmetry
INVARIANTS RateLimitHolds RepeatAnswersStored HtmlIsItsOwn
\* Every request and every call of the list ends.
CHECK_DEADLOCK FALSE
