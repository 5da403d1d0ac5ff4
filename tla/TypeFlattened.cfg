\* The caches of Types.cfg: the order of the flattened fields.
SPECIFICATION TypesSpec
CONSTANTS
    Checked = {"caches"}
    SolverBaseType <- MCSolverBase
    SolverHeapObjs = {"h"}
    SolverConcrete <- MCConcrete
    SolverDirect <- MCDirect
    SolverCast <- MCCast
    SolverAddr <- MCAddr
    Ty <- MCTy
    Layouts <- MCLayouts
    Never = "never"
    BaseType <- MCBaseType
    Constant = "k"
    Boxed <- MCBoxed
    PtrTo <- MCPtrTo
    FnPath <- MCFnPath
    ByRef = {"C"}
    ArrSummary <- MCArrSummary
    AuxNames <- MCAuxNames
    ConstDef <- MCConstDef
    CalleeDef <- MCCalleeDef
    U8Slice = "Sl8"
    Unit = "unit"
    Pools <- MCPools
    MaxStmts = 4
    Owners <- MCOwners
    Ret = "ret"
    ArgMem <- MCArgMem
INVARIANT FlattenedInOrder
CHECK_DEADLOCK FALSE
