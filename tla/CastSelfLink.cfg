\* The solver with the list: two address edges, over one or two solves.
SPECIFICATION TypesSpec
CONSTANTS
    Checked = {"solver"}
    SolverBaseType <- ListBase
    SolverHeapObjs = {}
    SolverConcrete <- NoConcrete
    SolverDirect <- ListDirect
    SolverCast <- ListCast
    SolverAddr <- ListAddr
    Ty <- MCTy
    Layouts <- MCLayouts
    Never = "never"
    BaseType <- MCBaseType
    Constant = "k"
    Boxed <- MCBoxed
    PtrTo <- MCPtrTo
    FnPath <- MCFnPath
    ByRef = {"C"}
    ArrSummary <- MCArrSummary
    AuxNames <- MCAuxNames
    ConstDef <- MCConstDef
    CalleeDef <- MCCalleeDef
    U8Slice = "Sl8"
    Unit = "unit"
    Pools <- MCPools
    MaxStmts = 4
    Owners <- MCOwners
    Ret = "ret"
    ArgMem <- MCArgMem
INVARIANT CastEdgesHandled
CHECK_DEADLOCK FALSE
