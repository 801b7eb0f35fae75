CONSTANTS
    Requests = {r1, r2}
    InitialSize = 1
    Sizes <- MCSizes
    MaxSemaphores = 3
    Faults = {f1, f2}
    FaultDurations <- MCFaultDurations
SPECIFICATION Spec
INVARIANTS TypeOK ActiveIsExact SlotsMatchHolders
PROPERTIES RequestsEnd LimitHoldsEventually FaultsEnd
