SPECIFICATION Spec
CONSTANTS
    Problems = {p1}
    Models = {m1, m2}
    Texts = {t1, t2}
    Codes = {c1}
    Workers = {w1}
    Admins = {a1, a2}
    Asked = {"statement"}
    None = None
INVARIANTS PublishedIsCovered StatementsActivate
PROPERTIES OnlySwitchUnserves ActivatesRuntime
SYMMETRY Symmetry
