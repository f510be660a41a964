SPECIFICATION Settling
CONSTANTS
    Parts = {"source"}
    d1 = d1  d2 = d2  r1 = r1  t1 = t1
    w1 = w1  w2 = w2  c1 = c1  s1 = s1  global = global
    Devices = {d1, d2}
    Gens = {1, 2}
    Rels = {r1}
    Texts = {1, 2}
    Skews = {0}
    Step = 16
    Rank <- Halves
    MaxWrites = 4
    Workers = {w1}
    Clients = {c1}
    Sources = {s1}
    Global = global
    MaxJobs = 1
    MaxRetries = 0
    MaxCrashes = 0
    MaxReruns = 0
INVARIANTS ServesOne
CHECK_DEADLOCK FALSE
