SPECIFICATION FlowSpec
CONSTANTS
    IntMax = 3
    Missing = Missing
    Solvers = {"direct", "flow"}
    Direct = {"direct"}
    Flow = "flow"
    ProblemFiles <- MCProblemFiles
    SolutionFiles <- MCSolutionFiles
    Problems <- MCProblems
    InitialFiles <- MCInitialFiles
    CacheSizes = {1}
    DefaultCacheSize = 0
    SolverTypes <- MCSolverTypes
    Installations <- MCInstallations
    Formats = {"CPLEX"}
    Networks <- MCNetworks
    Bounded <- MCBounded
    SavePrefixes <- MCPrefixes
    MaxTemps = 6
    MaxRuns = 2
    MaxCalls = 1
INVARIANT SavedInTempfile
CHECK_DEADLOCK FALSE
