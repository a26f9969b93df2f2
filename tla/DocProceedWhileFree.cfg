SPECIFICATION Spec
CONSTANTS
    RouteIds = {r1, r2}
    NoRoute = NoRoute
    NoPlan = NoPlan
    Sections <- MCSections
    Points = {}
    Signals <- MCSignals
    OperatorDirs = {"N", "R"}
    Guard <- MCGuard
    Protect <- NoPoints
    MoveTime <- NoPoints
    Plans <- MCPlans
    Expanded <- MCExpanded
    TransitMargin = 0
    FallbackDelay = 1
    Deltas <- MCDeltas
    MaxClock = 1
    MaxOcc = 1
    Detectors <- MCDetectors
INVARIANT ProceedWhileFree
