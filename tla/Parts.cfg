\* Queue: two elements per chunk, so that five pushes make three chunks.  Sets:
\* three words of two bits, small sets of at most two elements.  Points-to data:
\* two variables, three objects.  Rapid type analysis: any of four statements in
\* main.  Stack filter: two workers, five functions with recursion, no contexts
\* or up to three call sites.
SPECIFICATION PartsSpec
CONSTANTS
    CHUNK_CAP = 2
    Elem = {a, b}
    Iters = {i, j}
    Borrower = w
    Nil = Nil
    MaxPush = 5
    Slot = {x, y}
    Largest = 4
    WORD_BITS = 2
    SMALL_SET_CAPACITY = 2
    UsizeRange = 16
    Key = {p, q}
    Data = {a, b, c}
    None = None
    Func <- MCFunc
    Promoted <- MCPromoted
    PromotedOf <- MCPromotedOf
    Casts <- MCCasts
    CallsIn <- MCCallsIn
    Unavailable <- WithoutMir
    Entries <- Mains
    CallSite <- MCCallSite
    SiteBody <- MCSiteBody
    NextLoc <- MCNextLoc
    Ty <- MCTy
    DynTy <- MCDynTy
    FnPtrTy <- MCFnPtrTy
    Method <- MCMethod
    FnPtrCall = "fnptr"
    Special = {"alloc", "spawn"}
    Spawn = {"spawn"}
    FnTrait = {"call"}
    Pointee <- MCPointee
    UnsizeArgs <- MCUnsizeArgs
    StripAuto <- MCStripAuto
    FnItem <- MCFnItem
    MatchedSig <- MCMatchedSig
    Direct <- MCDirect
    Devirt <- MCDevirt
    StaticCasts <- NoStatics
    StaticOwners <- NoStatics
    Rounds = 20
    Workers = {w1, w2}
    Funcs <- MCFuncs
    Calls <- MCCalls
    Main = "main"
    Initialiser <- MCInitialiser
    Modes <- MCModes
    MaxDepth = 7
INVARIANTS
    QueueSound SetsReadExactly
    RtaTypeOK RoundResolved ClosedAtEnd ResultIsSolution
    MatrixExact AliveKept ContextsRefine
PROPERTIES
    ImplementsLog EveryElementDelivered SetsArePlain DiffDataExact BaseDataExact
    RtaEnds FilterEnds
CHECK_DEADLOCK FALSE
