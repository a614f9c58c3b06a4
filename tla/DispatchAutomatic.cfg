\* No requeue: two hosts with one lane, every fault and a webhook.
SPECIFICATION Spec
CONSTANTS
    Nodes = {n1, n2}
    NoNode = NoNode
    Mails = {m1, m2}
    NoMail = NoMail
    Lanes = {l1}
    Operators = {}
    Priorities <- OnePriority
    MaxAttemptsChoices = {1, 2}
    BatchSize = 2
    MaxCrashes = 1
    MaxDbFaults = 1
    MaxLostReplies = 1
    MaxReceipts = 1
INVARIANTS SingleWorker ClaimsWithinMaxAttempts
PROPERTIES OrphanIsLeftAlone ImplementsLedger
