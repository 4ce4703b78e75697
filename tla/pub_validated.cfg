SPECIFICATION Spec
CONSTANTS
    Humans = {h1}
    Workflows = {w1}
    Clients = {}
    Origins = {"generated"}
    Texts = {t1, t2}
    MaxAttempts = 2
PROPERTY ClearsWhatWasValidated
