SPECIFICATION FairSpec

CONSTANTS
    Router = Router
    Grader = Grader
    NoNode = NoNode
    Conns = {c1}
    Nodes = {Router, Grader}
    AdminOnly = {Grader}
    ExecNodes = {Grader}
    Users <- MCUsers
    HostKeys = {k1}
    Events = {}
    RequestBuffer = 1
    MaxRequests = 5
    MaxInFlight = 1

PROPERTIES
    StreamEndEndsCommand

CHECK_DEADLOCK FALSE
