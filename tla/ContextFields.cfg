\* A field of a static, read in a function that has a context.
SPECIFICATION Spec
CONSTANTS
    Program <- FieldPrograms
    Strategies <- MCStrategies
    Global <- MCGlobal
    SelfKind <- MCSelfKind
    Params <- MCParams
    Ret <- MCRet
    Impl <- MCImpl
    FnItem <- MCFnItem
    Insensitive <- MCInsensitive
    Main = "main"
    MaxDepth = 6
    MaxContext = 6
INVARIANT
    PointersFound
