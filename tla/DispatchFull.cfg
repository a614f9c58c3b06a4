\* Two hosts, every fault and a concurrent webhook and requeue.
SPECIFICATION Spec
CONSTANTS
    Nodes = {n1, n2}
    NoNode = NoNode
    Mails = {m1, m2}
    NoMail = NoMail
    Lanes = {l1, l2}
    Operators = {o1}
    Priorities <- OnePriority
    MaxAttemptsChoices = {2}
    BatchSize = 2
    MaxCrashes = 1
    MaxDbFaults = 1
    MaxLostReplies = 0
    MaxReceipts = 1
SYMMETRY WorkerSymmetry
INVARIANTS TypeOK RowConsistent SelectionStable NodeHoldsOnce
           OneSendPerClaim
PROPERTY SentMeansAccepted
