\* One host, two tabs of one browser, up to four mails.
SPECIFICATION Spec
CONSTANTS
    t1 = t1
    t2 = t2
    Tabs = {t1, t2}
    Scenarios <- MCScenarios
    Starts <- MCStarts
    Schemes <- MCSchemes
    Asks <- MCAsks
    Tables <- MCTables
    Environments <- MCEnvironments
    MaxIssued = 2
    MaxMails = 4
INVARIANTS TypeOK ListensAsValidated LateChecksNeverFire OnlyOvertakenTabsAreRefused
           ScanSeesAll RowsAreDeliverable
\* A host that ended or was stopped stays so, and clients may fall silent.
CHECK_DEADLOCK FALSE
