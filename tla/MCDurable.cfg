SPECIFICATION DurableSpec
CONSTANTS
    RouteIds = {r1, r2}
    NoRoute = NoRoute
    NoPlan = NoPlan
    Sections <- MCSections
    Points <- MCPoints
    Signals <- MCSignals
    OperatorDirs = {"N", "R"}
    Guard <- MCGuard
    Protect <- MCProtect
    MoveTime <- MCMoveTime
    Plans <- MCPlans
    Expanded <- MCExpanded
    TransitMargin = 0
    FallbackDelay = 1
    Deltas <- MCDeltas
    MaxClock = 1
    MaxOcc = 1
    Detectors = {"s1", "sN"}
    MaxLost = 1
SYMMETRY Symmetry
INVARIANTS
    DurableTypeOK PointsSurviveRestart StoreKnowsRoutePoints StoreInStep ReconcileIdempotent OccupancyNeverUnderstated
PROPERTIES
    EndedStaysEnded StoredEndIsFinal
