SPECIFICATION Spec

CONSTANTS
    Envs = {e1}
    Workers = {w1}
    Matching = {w1}
    Passwords = {p1}
    NoWorker = NoWorker
    NoPassword = NoPassword
    Clients = {"kubectl"}
    Events = {"containersUp", "delete", "restart", "crashDeploying", "listFails"}
    Faults = {"deployFails", "destroyFails"}
    MemoryLevels = {50}
    MemoryThreshold = 90
    MaxReplicas = 1

SYMMETRY Symmetry

INVARIANTS
    ConditionsOrdered
    LabInv
    ManagerForgetsNothing
    NcletForgetsNothing

PROPERTIES
    DeletionIsFinal
    ImplementsLifecycle

CHECK_DEADLOCK FALSE
