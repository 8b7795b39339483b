CONSTANTS
    Task = {t1}
    NoTask = NoTask
    Data = {d1}
    WORD = 64
    QSPI_FLASH_OFFSET = 32
    QSPI_FLASH_SIZE = 16
    QSPI_FLASH_READONLY = 7
    PAGE = 1
    CHUNK = 4
    ERASE_SIZE <- MCEraseSize
    QSPI_MAX_CMD_QUEUE = 1
    Address = {2, 4, 8}
    ReadLength = {2}
    WriteLength = {2}
    EraseCode = {1}
SPECIFICATION Spec
INVARIANT ReadOnlyKept
