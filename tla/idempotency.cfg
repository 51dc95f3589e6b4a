CONSTANTS
    first = first
    second = second
    third = third
    other = other
    key = key
    Keys = {key}
    Requests = {first, second, third, other}
    KeyOf <- MCKeyOf
    PayloadOf <- MCPayloadOf
    Nobody = Nobody
    Window = 2
    MaxTime = 3
SPECIFICATION Spec
SYMMETRY Repeated
INVARIANTS
    IdempotencyTypeOK
    ReplayIsFaithful
    NoStuckKey
PROPERTIES
    OncePerWindow
CHECK_DEADLOCK FALSE
