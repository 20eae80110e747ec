\* Every path through the three enumerations, any call failing.
SPECIFICATION Spec
CONSTANTS
    Registries <- RegistrySet
    DeviceLists <- DeviceSet
    Missing = Missing
    LastCom = 16
INVARIANTS ReleasedOnEveryWay LastKeyWins Presentable
CHECK_DEADLOCK FALSE
