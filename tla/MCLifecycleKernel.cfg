CONSTANTS
    Generations = {g1, g2}
    Leases = {l1, l2, l3}
    None = none
SYMMETRY Tokens
SPECIFICATION MCSpec
INVARIANTS
    ReportIsTrue
PROPERTIES
    Retention
    RevokedForGood
    WritesOnce
