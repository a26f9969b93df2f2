SPECIFICATION TrafficSpec
CONSTANTS
    RouteIds = {r1, r2}
    Trains = {t1, t2}
    NoRoute = NoRoute
    NoPlan = NoPlan
    Sections <- MCSections
    Points <- MCPoints
    Signals <- MCSignals
    OperatorDirs = {"N", "R"}
    Guard <- MCGuard
    Protect <- MCProtect
    MoveTime <- MCMoveTime
    Plans <- MCPlans
    Expanded <- MCExpanded
    TransitMargin = 0
    FallbackDelay = 1
    Deltas <- MCDeltas
    MaxClock = 2
    MaxOcc = 2
    Detectors <- MCSections
    Ahead <- MCAhead
    Switch <- MCSwitch
    Disciplined = FALSE
INVARIANT NoCollision
