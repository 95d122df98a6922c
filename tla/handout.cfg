SPECIFICATION Spec

CONSTANTS
    Envs = {e1}
    Workers = {w1}
    Matching = {w1}
    Passwords = {p1, p2}
    NoWorker = NoWorker
    NoPassword = NoPassword
    Clients = {"gateway", "kubectl"}
    Events = {"containersUp", "release", "workerNotFound", "admin"}
    Faults = {}
    MemoryLevels = {50}
    MemoryThreshold = 90
    MaxReplicas = 1

SYMMETRY Symmetry

INVARIANTS
    LoginsAreGenuine
    OneHolder
    HandOutInv
    CopiesAreEarlier

PROPERTIES
    ImplementsLifecycle

CHECK_DEADLOCK FALSE
