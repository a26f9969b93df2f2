SPECIFICATION Spec
CONSTANTS
    NodeIds = {n1, n2, n3, n4}
    SectionIds = {s1, s2, s3}
    PointIds = {p1}
    SignalIds = {g1}
    Directions = {"N", "X"}
    MaxFailures = 1
SYMMETRY Symmetry
INVARIANTS
    Forest References Adjacency GraphIsStore RoutesAreSound
