\* Statements the code contradicts (README, section 3), one at a time: TLC reports the
\* one that is not commented out.
SPECIFICATION Spec
CONSTANTS
    l1 = l1
    l2 = l2
    f1 = f1
    f2 = f2
    None = None
    Modes <- ModesOf
    Savers <- OneSaver
    MaxSteps <- StepsOf
    MaxPasses = 1
CHECK_DEADLOCK FALSE

CONSTANTS Sessions <- LFF  Bases <- PlainBase  Uses = {"beside"}
PROPERTY TrainsPrivately

\* CONSTANTS Sessions <- LFF  Bases <- PlainBase  Uses = {"decay"}
\* PROPERTY TrainsPrivately

\* CONSTANTS Sessions <- LFF  Bases <- PlainBase  Uses = {"wrap_later"}
\* PROPERTY TrainsPrivately

\* CONSTANTS Sessions <- LFF  Bases <- PlainBase  Uses = {"reload_initial"}
\* PROPERTY TrainsPrivately

\* CONSTANTS Sessions <- LLF  Bases <- Sharded  Uses = {}
\* INVARIANT ShardedWhenRun

\* CONSTANTS Sessions <- LLF  Bases <- NamedFp8  Uses = {}
\* INVARIANT Fp8WinsOverName

\* CONSTANTS Sessions <- LLF  Bases <- PlainBase  Uses = {}
\* INVARIANT MomentsFollow
