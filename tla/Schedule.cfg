\* Three mails, batches of two, three attempts and so two different delays, at
\* most a mail every second tick.  MaxLag = 0 forgets how long a mail is overdue,
\* so that due mails of one priority are claimed in any order.
SPECIFICATION FairSpec
CONSTANTS
    Slots = {"s1", "s2", "s3"}
    Ranks = {0, 2}
    BatchSize = 2
    BaseDelay = 1
    MaxAttempts = 3
    MaxAhead = 0
    MaxLag = 0
    MaxAge = 3
    ArrivalGap = 2
    PoolSize = 2
    MaxFaults = 1
INVARIANTS TypeOK PoolAccounted GivenUpSlowly
PROPERTY DueIsTried
