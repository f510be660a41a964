SPECIFICATION Services
CONSTANTS
    a = a  b = b  k1 = k1  k2 = k2  i1 = i1  i2 = i2  i3 = i3
    Providers = {0, 1}  Metered = {0}  Callers = {a, b}  Chunks = 2  MaxFlips = 2
    Threads = {a, b}  Keys = {k1, k2}  MaxRequests = 3  MaxChanges = 7
    Refreshers = {a, b}  MaxIndexed = 2  MaxRefreshes = 2
    Spans = {"p1", "p2", "q1", "q2"}  SourceOf <- PlanSourceOf  RecordIds = {"e", "rep"}  Kind <- PlanKind  Cites <- PlanCites
    Policies <- TwoPolicies  Requests <- FourRequests  MaxMeanwhile = 2
    Atoms = {"x", "y", "z"}  Linked <- TwoLinked  MaxPairs = 1  Actors = {a, b}  MaxRuns = 2  MaxEdits = 1
INVARIANT NothingOutOfScope
SYMMETRY Symmetry
CHECK_DEADLOCK FALSE
