SPECIFICATION Spec
CONSTANTS
    plain = plain
    vision = vision
    fp8 = fp8
    bit = bit
    None = None
    Models = {plain, vision, fp8, bit}
    Describe <- Bases
    Settings <- Pools
INVARIANTS TiersSound OldestLeavesFirst ResidentsAreWhole
PROPERTIES TieredIsRewrap
\* With PROPERTY TieredLoadsAlike, or with INVARIANT SlotsServe, TLC shows where the pools
\* differ and what a config that could not be read leads to (README, section 3).
