\* Statements the code contradicts (README, section 3), one at a time: TLC reports the
\* one that is not commented out.
SPECIFICATION ServingSpec
CONSTANTS
    Tasks = {t1, t2, t3}
    Nothing = Nothing
    Paths = {p1, p2}
    MaxCalls = 5
    MaxEndpoints = 3
    MaxVersions = 2
    MaxSamples = 4
CHECK_DEADLOCK FALSE

CONSTANTS SamplerUses = {"overlap"}  MaxFaults = 0
INVARIANT BlockIsAwake

\* CONSTANTS SamplerUses = {"close_busy"}  MaxFaults = 0
\* INVARIANT GeneratesAwake

\* CONSTANTS SamplerUses = {"republish"}  MaxFaults = 0
\* INVARIANT FreshAdapter

\* CONSTANTS SamplerUses = {}  MaxFaults = 0
\* INVARIANT ReadyForSampling

\* CONSTANTS SamplerUses = {}  MaxFaults = 0
\* INVARIANT UnhealthyWasDown

\* CONSTANTS SamplerUses = {"race"}  MaxFaults = 0
\* INVARIANT NeverStale

\* CONSTANTS SamplerUses = {}  MaxFaults = 1
\* INVARIANT NeverStale
