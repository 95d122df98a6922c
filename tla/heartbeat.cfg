SPECIFICATION FairSpec

CONSTANTS
    Duration = 5
    HeartbeatInterval = 1
    MonitorPeriod = 3
    Skew = 0
    MaxLag = 1
    MaxMisses = 2
    MaxRefusals = 1
    MemoryLevels = {1}

INVARIANTS
    TypeOK
    DetectedInTime

PROPERTIES
    NoFalseAlarm
    ImplementsRegistry
    AliveBecomesReady
