\* Every flow program, and call programs that grow after each solve.
SPECIFICATION MCSpec
CONSTANTS
  a = a b = b af = af bf = bf p = p q = q r = r pp = pp junk = junk
  f = f deref = deref item = item closure = closure cref = cref fp = fp dyn = dyn
  c1 = c1 c2 = c2 c3 = c3 u3 = u3 method = method func = func none = none
  None = none
  Node <- AllNodes
  Proj = {f, deref}
  Field <- MCField
  Filtered <- MCFiltered
  CallSite = {c1, c2, c3, u3}
  Func = {method, func}
  DynCallee <- MCDynCallee
  FnCallee <- MCFnCallee
  FnPtrObj = {fp}
  ClosureRef <- MCClosureRef
  Unpack <- MCUnpack
  SelfRef <- MCSelfRef
  HasSelfRef = {method}
  Batches <- AllBatches
INVARIANTS TypeOK DiffDisciplined Handled Complete
PROPERTIES SolveTerminates ImplementsInclusionConstraints
