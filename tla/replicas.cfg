SPECIFICATION Spec

CONSTANTS
    Envs = {e1, e2}
    Workers = {w1}
    Passwords = {p1}
    NoWorker = NoWorker
    NoPassword = NoPassword
    Clients = {}
    Events = {"scale", "assign", "deleteProblem"}
    MaxReplicas = 1

INVARIANTS
    
    RestsWhenDone

PROPERTIES
    ScalesTowardsDesired
    ReplicasConverge
    
    

CHECK_DEADLOCK FALSE
