SPECIFICATION Spec
CONSTANTS
    Lengths <- MCLengths
    Speeds <- MCSpeeds
    MaxSections = 2
CHECK_DEADLOCK FALSE
INVARIANTS
    NearestSpeed TenthOfTheWay

