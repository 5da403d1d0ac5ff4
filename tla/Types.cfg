\* Caches: every layout of a tuple, a wrapper and a struct of three fields; casts
\* under both orders of the fields of a pair and of a struct, of at most four
\* paths of up to three selectors.  Solver: five address edges over up to five
\* solves, two layouts, cast_constraint on.  Bodies of up to four statements of
\* a family, two layouts.
SPECIFICATION TypesSpec
CONSTANTS
    Checked = {"caches", "solver", "bodies"}
    SolverBaseType <- MCSolverBase
    SolverHeapObjs = {"h"}
    SolverConcrete <- MCConcrete
    SolverDirect <- MCDirect
    SolverCast <- MCCast
    SolverAddr <- MCAddr
    Ty <- MCTy
    Layouts <- MCLayouts
    Never = "never"
    BaseType <- MCBaseType
    Constant = "k"
    Boxed <- MCBoxed
    PtrTo <- MCPtrTo
    FnPath <- MCFnPath
    ByRef = {"C"}
    ArrSummary <- MCArrSummary
    AuxNames <- MCAuxNames
    ConstDef <- MCConstDef
    CalleeDef <- MCCalleeDef
    U8Slice = "Sl8"
    Unit = "unit"
    Pools <- MCPools
    MaxStmts = 4
    Owners <- MCOwners
    Ret = "ret"
    ArgMem <- MCArgMem
INVARIANTS
    LayoutExact VariantsShared CastsSolved VariantsAgree
    BodiesBuiltWell PointersFound CallsFound
PROPERTY CastsEnd
CHECK_DEADLOCK FALSE
