SPECIFICATION QuietSpec
CONSTANTS
    NoHolder = none
    Workers = {w1, w2}
    Clients = {c1}
    Sources = {s1}
    Global = global
    MaxJobs = 2
    MaxRetries = 1
    MaxCrashes = 1
    MaxReruns = 1
SYMMETRY Symmetry
INVARIANTS TypeOK OneHolder RetryCountIsTrue
PROPERTIES TerminalUntilRerun ImplementsLeases
