\* Three requests race on two hosts with two calls that change the list; enqueue
\* implements the intake.
SPECIFICATION Spec
CONSTANTS
    upperA = upperA
    lowerA = lowerA
    lowerB = lowerB
    k1 = k1
    t1 = t1
    c1 = c1
    c2 = c2
    Addresses = {upperA, lowerA, lowerB}
    Lower <- MCLower
    Admins = {a1, a2}
    CallChoices <- RaceCalls
    Requests = {r1, r2, r3}
    Inputs <- RaceInputs
    Keys = {k1, EmptyKey}
    NoKey = NoKey
    EmptyKey = EmptyKey
    Renders <- NoRenders
    NoRender = NoRender
    None = None
    Hosts = {h1, h2}
    RateLimitEnabled = FALSE
    RateLimitMax = 1
    RateLimitWindow = 2
    KeyTtl = 2
    HtmlTtl = 1
    MaxInFlight = 3
    MaxTicks = 0
    MaxRestarts = 1
    MaxFaults = 1
SYMMETRY RequestSymmetry
INVARIANTS TypeOK SameKeySameMail RepeatAnswersStored BarredGetNoMail
           SuppressionTypeOK SuppressedUnlessRemoved
PROPERTY ImplementsIntake
\* Every request and every call of the list ends.
CHECK_DEADLOCK FALSE
