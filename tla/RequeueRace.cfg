\* Two requeue requests for one mail on one host.
SPECIFICATION Spec
CONSTANTS
    Nodes = {n1}
    NoNode = NoNode
    Mails = {m1}
    NoMail = NoMail
    Lanes = {l1}
    Operators = {o1, o2}
    Priorities <- OnePriority
    MaxAttemptsChoices = {1}
    BatchSize = 1
    MaxCrashes = 0
    MaxDbFaults = 0
    MaxLostReplies = 0
    MaxReceipts = 0
PROPERTY RequeueOnlyFailed
