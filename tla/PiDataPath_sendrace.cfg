\* peMgrDataReq and piRx racing piCloseReq on inst.txChan and inst.rxChan
SPECIFICATION Spec
CONSTANTS
    MaxData = 2
    MaxCloses = 1
    TxCap = 1
    MaxRx = 1
    RxCap = 1
\* once the packages and closes are spent every task waits for a message
CHECK_DEADLOCK FALSE
INVARIANT TeardownSendsSafe
