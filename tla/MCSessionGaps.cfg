\* Statements the code contradicts (README, section 3), one at a time: TLC reports the
\* one that is not commented out.
SPECIFICATION Spec
CONSTANTS
    l = l
    f = f
    w1 = w1
    w2 = w2
    disk1 = disk1
    disk2 = disk2
    None = None
    Sessions = {l, f}

CONSTANT Setups <- FullParamEvicted
INVARIANT LoraOverPristine

\* CONSTANT Setups <- FullParamEvicted
\* INVARIANT LiveWithCurrentWeights

\* CONSTANT Setups <- SecondCheckpoint
\* PROPERTY CheckpointIsCurrent

\* CONSTANT Setups <- FullParamEvicted
\* INVARIANT MarkedUntrained

\* CONSTANT Setups <- TornWrite
\* INVARIANT SnapshotMatchesMeta

\* CONSTANT Setups <- Handoff
\* INVARIANT RunsOnLatest

\* CONSTANT Setups <- LoadBetween
\* PROPERTY LoadResetsGrads

\* CONSTANT Setups <- TwoFullParam
\* INVARIANT OneFullParamSession

\* CONSTANT Setups <- TwoSteps
\* INVARIANT NoEmptyUpdate

\* CONSTANT Setups <- TokensDropped
\* INVARIANT TokensOfGrads
