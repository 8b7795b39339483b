CONSTANTS
    MaxRestarts = 1
    Reader = {testqspi, http}
    Polls = {testqspi}
    File <- MCFile
    ReadLen = {2}
    QSPI_FLASH_SIZE = 4
SPECIFICATION Spec
INVARIANT NotFoundMeansAbsent
