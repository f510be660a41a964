SPECIFICATION Spec
CONSTANTS
    x1 = x1  a1 = a1  a2 = a2  c1 = c1  c2 = c2  y1 = y1  s1 = s1
    NoPage = NoPage
    Contexts <- MCContexts
    Atoms <- MCAtoms
    Concepts <- MCConcepts
    Syntheses <- MCSyntheses
    Sources <- MCSources
    FirstPages <- MCFirstPages
    Drafts <- MCDrafts
    Named <- MCNamed
    MaxSections = 2
    MaxEdits = 2
    Modes = {"incremental", "full", "report"}
INVARIANTS VerifiesAll 
 
