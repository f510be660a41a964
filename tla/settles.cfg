SPECIFICATION Settling
CONSTANTS
    Parts = {"source", "chain", "jobs"}
    d1 = d1  d2 = d2  r1 = r1  t1 = t1
    w1 = w1  w2 = w2  c1 = c1  s1 = s1  global = global
    Devices = {d1, d2}
    Gens = {1, 2, 3}
    Rels = {r1}
    Texts = {1, 2}
    Skews = {0, 1}
    Step = 16
    Rank <- Halves
    MaxWrites = 3
    Workers = {w1, w2}
    Clients = {c1}
    Sources = {s1}
    Global = global
    MaxJobs = 2
    MaxRetries = 1
    MaxCrashes = 1
    MaxReruns = 0
INVARIANTS OneGenerationServes
PROPERTIES EveryJobSettles PrimaryComesBack Settles
CHECK_DEADLOCK FALSE
