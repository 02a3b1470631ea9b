SPECIFICATION DownloadSpec
CONSTANTS
    MAX_DATA_LEN = 2
    SeqModulus = 3
    HeadLoop = 3
    DataLoop = 3
    TailLoop = 3
    Lengths <- MCLengths
CONSTRAINT FewAnswers
INVARIANT ImageArrives
CHECK_DEADLOCK FALSE
