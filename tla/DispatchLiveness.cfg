\* Progress with every fault; no requeue.
SPECIFICATION FairSpec
CONSTANTS
    Nodes = {n1}
    NoNode = NoNode
    Mails = {m1, m2}
    NoMail = NoMail
    Lanes = {l1}
    Operators = {}
    Priorities <- OnePriority
    MaxAttemptsChoices = {2}
    BatchSize = 2
    MaxCrashes = 1
    MaxDbFaults = 2
    MaxLostReplies = 1
    MaxReceipts = 1
PROPERTIES SettlesOrIsOrphaned TickCompletes
