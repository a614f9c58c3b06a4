\* No crash, database fault, webhook or requeue; the SMTP server may still
\* refuse messages and lose answers.  Two priorities, batches of one.
SPECIFICATION FairSpec
CONSTANTS
    Nodes = {n1, n2}
    NoNode = NoNode
    Mails = {m1, m2}
    NoMail = NoMail
    Lanes = {l1}
    Operators = {}
    Priorities <- TwoPriorities
    MaxAttemptsChoices = {1, 3}
    BatchSize = 1
    MaxCrashes = 0
    MaxDbFaults = 0
    MaxLostReplies = 1
    MaxReceipts = 0
INVARIANT FailedMeansExhausted FailureDateIsCurrent
PROPERTIES SentIsFinal EveryMailSettles
