SPECIFICATION Storage
CONSTANTS
    Files = {"f", "g"}
    Spellings = {"nfc", "nfd", "mixed"}
    Canonical = "nfc"
    Hashes = {"h1", "h2"}
    Readings = {"t1"}
    MaxId = 4
    Documents = {a, b}
    Texts = {x, y}
    Importers = {i1}
    Key = key
    none = none
    stub = stub
    MaxStubs = 2
    MaxEvents = 2
    MaxImports = 3
    Others <- OtherPages
    Places = {"s", "t"}
    Raw = {"s"}
    MaxFixEdits = 1
    Actors = {a, b}
    Ops = {"vault", "workspace", "session", "persona", "plugin"}
    MaxSetups = 2
    MaxTyped = 2
PROPERTIES MergesKeep   
SYMMETRY Symmetry
CHECK_DEADLOCK FALSE
