CONSTANTS
    QSPI_FLASH_SIZE = 4
    DMA_THRESHOLD = 2
    FIFO_DEPTH = 2
    Address = {0, 2}
    ReadLength = {1, 2, 4}
    WriteLength = {4}
    SectorLength = {2, 4}
    Data = {d1, d2}
    NoData = NoData
SPECIFICATION FairSpec
PROPERTY Returns
