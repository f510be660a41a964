SPECIFICATION Compiling
CONSTANTS
    c1 = c1  p = p  q = q  a = a  b = b  k1 = k1  s1 = s1  s2 = s2  s3 = s3  w1 = w1  w2 = w2
    Compiles = {c1}
    Spans = {p, q}
    Texts = {{p, q}, {q}}
    Edits <- Shrink
    Claims = {a, b}
    Grounded = {a}
    Prompts = {k1}
    MaxUnits = 3
    MaxGens = 2
    Cited <- TwoSpans
    Claim = {"f", "g"}
    Readings <- Sure
    Shows <- ShowsOne
    Procs = {w1, w2}
    MaxCalls = 2
    MaxPages = 2
    Devices = {1, 2}
    Makers = {1}
    Batches = {1, 2}
    Keep = 1
    MaxLogged = 3
    MaxPublishes = 1
INVARIANTS ServesOneText TextOncePaidOnce  FormulasFounded
PROPERTIES PublishedOnce
SYMMETRY Symmetry
