\* Four programs under the insensitive strategy and k-call-site, k-object and
\* hybrid contexts with k up to 3.
SPECIFICATION Spec
CONSTANTS
    Program <- MCPrograms
    Strategies <- MCStrategies
    Global <- MCGlobal
    SelfKind <- MCSelfKind
    Params <- MCParams
    Ret <- MCRet
    Impl <- MCImpl
    FnItem <- MCFnItem
    Insensitive <- MCInsensitive
    Main = "main"
    MaxDepth = 6
    MaxContext = 6
INVARIANTS
    TypeOK
    NoMoreThanInsensitive
    RunsCovered
PROPERTIES
    AnalysisEnds
