SPECIFICATION FairSpec

CONSTANTS
    Router = Router
    Grader = Grader
    NoNode = NoNode
    Conns = {c1}
    Nodes = {Router, Grader}
    AdminOnly = {Grader}
    ExecNodes = {Grader}
    Users <- MCUsers
    HostKeys = {k1}
    Events = {"crash"}
    RequestBuffer = 1
    MaxRequests = 4
    MaxInFlight = 1

INVARIANTS
    TypeOK
    
    
    ClonerReadsRaw
    NoOrphanCommand
    StuckTakesRequests

PROPERTIES
    HostKeyKept
    StreamEndEndsCommand
    CommandEndEndsSession
    NodeExitReturnsToMenu
