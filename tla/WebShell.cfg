SPECIFICATION FairSpec
INVARIANTS
    GuardsHold
    LandsWhereAsked
PROPERTIES
    NavigationSettles
