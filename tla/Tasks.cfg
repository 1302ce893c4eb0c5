CONSTANTS
    long = long
    gui = gui
    knot = knot
    a = a
    b = b
    unknown = unknown
    Tasks = {gui, long, knot}
    Plan <- MCPlan
    Cyclic = {knot}
    Known = {a, b}
    Tools = {a, b, unknown}
    Outputs = {out1}
    Errors = {err}
    None = None
    MaxSteps = 3
    ToolThreshold = 3
    Registered = {"known"}
    MaxPlanned = 3
    MaxRequests = 2
    Ids = {"s1", "s2", "s3", "s4"}
    Plans <- MCPlans
CHECK_DEADLOCK FALSE
SPECIFICATION BothSpec
INVARIANTS EndsAsReported StepsInOrder OrderIsRight
PROPERTIES ImplementsTaskLifecycle ExecutionsEnd
