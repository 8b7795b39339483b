CONSTANTS
    Task = {t1, t2}
    NoTask = NoTask
    Data = {d1}
    WORD = 64
    QSPI_FLASH_OFFSET = 32
    QSPI_FLASH_SIZE = 8
    QSPI_FLASH_READONLY = 4
    PAGE = 2
    CHUNK = 3
    ERASE_SIZE <- MCEraseSize
    QSPI_MAX_CMD_QUEUE = 2
    Address = {2, 33, 37}
    ReadLength = {0, 4}
    WriteLength = {0, 3}
    EraseCode = {0, 1}
SPECIFICATION FairSpec
INVARIANT TypeOK
PROPERTY ImplementsService
PROPERTY Served
