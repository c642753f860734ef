CONSTANTS
    t1 = t1
    k1 = k1
    k2 = k2
    Null = Null
    Requests <- MCRequests
    Calls <- MCCalls
    TemplateIds <- MCTemplates
    TemplateOf <- MCTemplateOf
    Keys <- MCKeys
SPECIFICATION LiveSpec
INVARIANTS RequestTypeOK StoredIsValid AllOrNothing KeyHeldOnce WaitsEnd
PROPERTIES EveryRequestIsAnswered
CHECK_DEADLOCK FALSE
