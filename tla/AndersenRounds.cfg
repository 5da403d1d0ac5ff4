SPECIFICATION PTASpec
CONSTANTS
  a = a b = b af = af bf = bf p = p q = q r = r pp = pp junk = junk
  f = f deref = deref item = item closure = closure cref = cref fp = fp dyn = dyn
  c1 = c1 c2 = c2 c3 = c3 u3 = u3 method = method func = func none = none
  s = s mp = mp mr = mr init = init ext = ext spec = spec c4 = c4 c5 = c5 c6 = c6
  None = none
  Node <- DriverNodes
  Proj = {f, deref}
  Field <- MCField
  Filtered <- DriverFiltered
  CallSite = {c1, c2, c3, u3, c4, c5, c6}
  Func <- DriverFuncs
  DynCallee <- MCDynCallee
  FnCallee <- MCFnCallee
  FnPtrObj = {fp}
  ClosureRef <- MCClosureRef
  Unpack <- MCUnpack
  SelfRef <- MCSelfRef
  HasSelfRef = {method}
  Batches = {}
  Entries <- Mains
  FuncPag <- MCFuncPag
  StaticCalls <- MCStaticCalls
  SpecialCalls <- MCSpecialCalls
  Deps <- MCDeps
  Unavailable = {ext}
  Initialiser = {init}
  StaticNode = {s}
  Base <- MCBase
  CallFlow <- MCCallFlow
  Owner <- MCOwner
  Caller <- MCCaller
  Rounds = 30
INVARIANTS PTATypeOK ContractKept RoundClosed ResultIsLeast
PROPERTY AnalysisTerminates
