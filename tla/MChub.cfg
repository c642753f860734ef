CONSTANTS
    c1 = c1
    c2 = c2
    Clients <- MCClients
    BroadcastSize = 1
    RegisterSize = 1
    SendSize = 1
    MaxEvents = 3
SPECIFICATION LiveSpec
INVARIANTS HubTypeOK NoPanic NoGaps
PROPERTIES ReadersLeave BufferedIsWritten
CHECK_DEADLOCK FALSE
