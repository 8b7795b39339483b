--------------------------- MODULE MCQspiTransfer ---------------------------
EXTENDS QspiTransfer
=============================================================================
