CONSTANTS
    Goroutines = {g1, g2, g3}
    Durations = {1, 2}
    Percent = 60
    Window = 2
    MaxStall = 1
    MaxTime = 4
    MaxSamples = 3
SPECIFICATION SignalsSpec
SYMMETRY Symmetry
INVARIANTS ReportIsRecent ReportsPercentile
PROPERTY DropsOnlyExpired
CHECK_DEADLOCK FALSE
