CONSTANTS
    Gateways = {g1}
    Requests = {r1}
    Savers = {s1, s2}
    Configs = {a, b, bad}
    ValidConfigs = {a, b}
    DefaultConfig = a
    MaxVersion = 3
SPECIFICATION Spec
INVARIANTS
    TypeOK
    RequestUsesCurrentConfig
    NoL1EntryFromBeforeSave
PROPERTIES
    GatewaysConverge
