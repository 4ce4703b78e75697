SPECIFICATION Spec
CONSTANTS
    Humans = {h1}
    Workflows = {w1}
    Clients = {c1}
    Origins = {"generated", "rejected", "imported"}
    Texts = {t1, t2}
    MaxAttempts = 2
SYMMETRY TextSymmetry
INVARIANTS
    ReviewedNeedsHuman
    PublishedMeetsGate
    RevisionIdentifiesContent
