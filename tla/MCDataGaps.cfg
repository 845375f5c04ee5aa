\* Statements the code contradicts (README, section 3), one at a time: TLC reports the
\* one that is not commented out.
CONSTANTS
    Posts <- MixedPosts
    Setups <- MixedSetups
    MaxImages = 3
    MaxBytes = 5
SPECIFICATION PassSpec
CHECK_DEADLOCK FALSE

INVARIANT SplitAsReplicated

\* INVARIANT PackedAsPadded

\* INVARIANT SequencesCounted

\* INVARIANT OutputPerDatum

\* INVARIANT AllTogether

\* INVARIANT OrpoTakesEven

\* INVARIANT OrpoOverTargets

\* INVARIANT ImagesBounded
