\* Every shape of datum, loss and worker: each item trained once, the gradient whole.
CONSTANTS
    Posts <- MixedPosts
    Setups <- MixedSetups
    MaxImages = 3
    MaxBytes = 5
SPECIFICATION PassSpec
CHECK_DEADLOCK FALSE
INVARIANTS ItemsWhole GradientIsWhole PairsKept NoneWaitsAlone
