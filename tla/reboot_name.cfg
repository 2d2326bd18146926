SPECIFICATION Spec
CONSTANTS
    NameLen = 2
    Char = {"a", "b"}
    Fires <- MCFires
    NoFire <- MCNoFire
    HardFault <- MCHardFault
    MaxResets = 3
INVARIANT NameFits
