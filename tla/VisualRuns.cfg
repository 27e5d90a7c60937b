SPECIFICATION VisualSpec
CONSTANTS
    a1 = a1
    a2 = a2
    a3 = a3
    k1 = k1
    k2 = k2
    k3 = k3
    Agents <- TheAgents
    Kinds <- TheKinds
    Produces <- TheProduces
    Consumes <- TheConsumes
    Looked = {"visual"}
    MaxRounds = 2
    MaxSteps = 3
    Dispatches = {d1, d2}
    MaxFaults = 2
    MaxRotations = 1
    Callers = {c1, c2}
    Runs = {r1, r2, r3}
    NodeCount = 2
    MaxCrashes = 1
INVARIANTS
    RunsAreFew
    RunTellsItsNodes
    StatusIsEarned
    RunningMeansAWorker
PROPERTIES
    RunEnds
CHECK_DEADLOCK FALSE
