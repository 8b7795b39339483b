\* Programs and erases that wait, on a chip that may never be done.
SPECIFICATION Spec
CONSTANTS
    FlashSize = 8
    PageSize = 2
    SectorSize = 2
    FlashOTPSize = 1
    MaxTries = 3
    COUNT_FOR_A_SECOND = 1
    SE_TIMEOUT = 1
    BE_TIMEOUT = 2
    Op <- MCEraseOp
INVARIANT SuccessMeansErased
