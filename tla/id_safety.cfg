SPECIFICATION Spec
CONSTANTS
    Emails = {e1, e2}
    Requests = {r1, r2}
    Hashes = {h1, h2, h3, h4}
    Ids = {i1, i2, i3, i4}
    None = None
SYMMETRY Symmetry
INVARIANTS
    AdminRemains
    AccessIsCurrent
