\* Accounts deleted, added, toggled and re-connected while they are read.
SPECIFICATION AccSpec
CONSTANTS
    Messages = {"m1"}
    Epochs <- MCEpochs
    UidOf <- MCUidOf
    Requests = {"r1"}
    MaxAccounts = 2
    MaxSecrets = 2
    AccFaults = {"grant", "imap", "db", "crash"}
INVARIANTS
    ExaminedAccountedFor
    OneVerdictPerMessage
    StaleTokenFromOverlap
PROPERTY
    NewAccountStartsClean
