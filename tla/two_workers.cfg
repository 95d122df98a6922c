SPECIFICATION Spec

CONSTANTS
    Envs = {e1}
    Workers = {w1, w2}
    Matching = {w1, w2}
    Passwords = {p1}
    NoWorker = NoWorker
    NoPassword = NoPassword
    Clients = {}
    Events = {"deleteProblem"}
    Faults = {}
    MemoryLevels = {50}
    MemoryThreshold = 90
    MaxReplicas = 1

SYMMETRY Symmetry

INVARIANTS
    LabIsOwned
    RunsOnOneWorker
    CopyInv

CHECK_DEADLOCK FALSE
