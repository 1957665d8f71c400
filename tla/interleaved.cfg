CONSTANTS
    i1 = i1
    i2 = i2
    m1 = m1
    m2 = m2
    p1 = p1
    c1 = c1
    c2 = c2
    Intents <- OneIntent
    Members = {m1, m2}
    Owner <- OwnedByM1
    Payloads = {p1}
    PayloadOf <- SamePayload
    Calls = {c1, c2}
    Revocable = {m1}
    MaxApprovers = 2
    MaxAttempts = 2
    Failures = TRUE
SPECIFICATION Spec
SYMMETRY CallSymmetry
INVARIANTS TypeOK OnlyAuthorisedMoves FulfilledByQuorum ExecutedOnSafe DeniedIsFinal
PROPERTIES ImplementsAbstract
