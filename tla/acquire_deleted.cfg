SPECIFICATION FairSpec

CONSTANTS
    Envs = {e1}
    Workers = {w1}
    Matching = {w1}
    Passwords = {p1}
    NoWorker = NoWorker
    NoPassword = NoPassword
    Clients = {"gateway"}
    Events = {"containersUp", "release"}
    Faults = {}
    MemoryLevels = {50}
    MemoryThreshold = 90
    MaxReplicas = 1

PROPERTIES
    HandsOutOnlyLive

CHECK_DEADLOCK FALSE
