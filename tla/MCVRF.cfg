SPECIFICATION Spec
CONSTANTS
    FIELD_SIZE = 43
    GROUP_ORDER = 31
    Generator <- SmallGenerator
    Scalars = {0, 1, 2, 30, 31, 33}
    KeyScalars = {1, 2, 5}
    GammaScalars = {1, 5, 15, 30}
CHECK_DEADLOCK FALSE
INVARIANTS
    VRFTypeOK
    HashIsPoint
    EquationsHold
    HonestAccepted
