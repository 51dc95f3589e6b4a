CONSTANTS
    Workers = {w1, w2}
    Intakes = {i1}
    Photos = {p1}
    Seals = {s1}
    Appraisers = {a1, a2}
    Values = {1, 2}
    None = None
    DualAppraisalThreshold = 2
    InsuredLimit = 2
    MaxVersion = 3
    MaxAppraisals = 3
SPECIFICATION Spec
SYMMETRY Identical
INVARIANT DualAppraised
CHECK_DEADLOCK FALSE
