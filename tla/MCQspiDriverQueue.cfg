CONSTANTS
    Task = {t1, t2, t3}
    NoTask = NoTask
    Data = {d1}
    WORD = 64
    QSPI_FLASH_OFFSET = 32
    QSPI_FLASH_SIZE = 8
    QSPI_FLASH_READONLY = 4
    PAGE = 2
    CHUNK = 3
    ERASE_SIZE <- MCEraseSize
    QSPI_MAX_CMD_QUEUE = 2
    Address = {2}
    ReadLength = {4}
    WriteLength = {4}
    EraseCode = {1}
SYMMETRY Symmetry
SPECIFICATION Spec
INVARIANT ReadsBeforeWrites
INVARIANT FetchFindsRead
INVARIANT OneCommandPerCall
INVARIANT PointersAlive
PROPERTY ImplementsService
