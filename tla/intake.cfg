CONSTANTS
    Workers = {w1, w2}
    Intakes = {i1, i2}
    Photos = {p1}
    Seals = {s1}
    Appraisers = {a1}
    Values = {1, 2}
    None = None
    DualAppraisalThreshold = 3
    InsuredLimit = 2
    MaxVersion = 3
    MaxAppraisals = 3
SPECIFICATION Spec
SYMMETRY Identical
INVARIANTS
    IntakeTypeOK
    AttachedIsKept
    ExposureWithinLimit
    RepeatsReplay
PROPERTY SealedForGood
CHECK_DEADLOCK FALSE
