SPECIFICATION FairSpec

CONSTANTS
    Envs = {e1}
    Workers = {w1}
    Matching = {w1}
    Passwords = {p1}
    NoWorker = NoWorker
    NoPassword = NoPassword
    Clients = {"gateway"}
    Events = {"containersUp", "scale"}
    Faults = {}
    MemoryLevels = {50}
    MemoryThreshold = 90
    MaxReplicas = 1

PROPERTIES
    AssignedSurvivesScaling

CHECK_DEADLOCK FALSE
