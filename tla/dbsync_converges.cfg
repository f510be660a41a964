SPECIFICATION FairSpec
CONSTANTS
    d1 = d1  d2 = d2  k1 = k1  p1 = p1  p2 = p2
    Home <- OneEach
    Devices = {d1, d2}
    Keys = {k1}
    Procs = {p1, p2}
    Initial = {{}, {k1}}
    Second = 2
    Start = 3
    MaxTime = 4
    MaxWrites = 2
    MaxCuts = 0
    MaxBusy = 1
PROPERTIES Converges
