SPECIFICATION Spec
CONSTANTS
    File = {f1, f2}
    None = None
    Ours = Ours
    Alien = Alien
    V1 = V1
    MaxTornSaves = 2
    MaxKeys = 4
    MaxCrashes = 3
    MaxForeign = 0
INVARIANT
    OwnRingSuffices
    PublicRingSuffices
    LegacySecretKept
CHECK_DEADLOCK FALSE
