\* Two requests at a time for one address, with a limit of one.
SPECIFICATION Spec
CONSTANTS
    upperA = upperA
    lowerA = lowerA
    lowerB = lowerB
    k1 = k1
    t1 = t1
    c1 = c1
    c2 = c2
    Addresses = {upperA, lowerA, lowerB}
    Lower <- MCLower
    Admins = {a1}
    CallChoices <- SuppressCall
    Requests = {r1, r2}
    Inputs <- UnkeyedInputs
    Keys = {k1}
    NoKey = NoKey
    EmptyKey = EmptyKey
    Renders <- NoRenders
    NoRender = NoRender
    None = None
    Hosts = {h1, h2}
    RateLimitEnabled = TRUE
    RateLimitMax = 1
    RateLimitWindow = 2
    KeyTtl = 2
    HtmlTtl = 1
    MaxInFlight = 2
    MaxTicks = 0
    MaxRestarts = 0
    MaxFaults = 0
SYMMETRY RequestSymmetry
INVARIANT RateLimitHolds
\* Every request and every call of the list ends.
CHECK_DEADLOCK FALSE
