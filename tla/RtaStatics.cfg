SPECIFICATION RtaSpec
CONSTANTS
  None = None
  Func <- MCFunc
  Promoted <- MCPromoted
  PromotedOf <- MCPromotedOf
  Casts <- MCCasts
  CallsIn <- FnptrCallsIn
  Unavailable <- WithoutMir
  Entries <- StaticMain
  CallSite <- MCCallSite
  SiteBody <- MCSiteBody
  NextLoc <- MCNextLoc
  Ty <- MCTy
  DynTy <- MCDynTy
  FnPtrTy <- MCFnPtrTy
  Method <- MCMethod
  FnPtrCall = "fnptr"
  Special = {"alloc", "spawn"}
  Spawn = {"spawn"}
  FnTrait = {"call"}
  Pointee <- MCPointee
  UnsizeArgs <- MCUnsizeArgs
  StripAuto <- MCStripAuto
  FnItem <- MCFnItem
  MatchedSig <- MCMatchedSig
  Direct <- MCDirect
  Devirt <- MCDevirt
  StaticCasts <- ItemInStatic
  StaticOwners <- OwnerInStatic
  Rounds = 20
INVARIANT QueriedFunctionsAreNodes
