CONSTANTS
    MaxRestarts = 2
    Reader = {testqspi, http}
    Polls = {testqspi}
    File <- MCFile
    ReadLen = {0, 1, 2}
    QSPI_FLASH_SIZE = 4
SPECIFICATION FairSpec
INVARIANT TypeOK
INVARIANT ReadyMeansConfigured
INVARIANT FailureExplained
INVARIANT DeliveredIsFile
INVARIANT EndMeansWhole
PROPERTY CommandsFindBusFree
PROPERTY Settles
PROPERTY ReadersServed
