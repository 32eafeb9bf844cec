SPECIFICATION Spec
CONSTANTS
    File = {f1, f2}
    None = None
    Ours = Ours
    Alien = Alien
    V1 = V1
    MaxTornSaves = 2
    MaxKeys = 4
    MaxCrashes = 5
    MaxForeign = 2
INVARIANT
    RunningKeyIsOnDisk
    RingsSuffice
    SecretKept
    NothingLaundered
CHECK_DEADLOCK FALSE
