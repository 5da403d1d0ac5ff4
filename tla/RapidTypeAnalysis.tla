------------------------- MODULE RapidTypeAnalysis -------------------------
(***************************************************************************)
(* The rapid type analysis that runs before stack filtering: it visits the *)
(* bodies of reachable functions, collects the types that are coerced to   *)
(* trait objects and the functions that are coerced to function pointers,  *)
(* resolves every dynamic call with all of them, and goes on until no      *)
(* function is new.                                                        *)
(*                                                                         *)
(* A body is the set of its casts, <<source type, target type>>, and of    *)
(* its calls, <<call site, callee, type>>: the type is the first generic   *)
(* argument of the callee, or the type of the operand that is called.      *)
(* The queue of reachable functions is the set of what rf_iter has not     *)
(* returned yet: hash maps decide the order in which calls are resolved.   *)
(***************************************************************************)
EXTENDS Naturals, FiniteSets

CONSTANTS
  Func, Promoted,  (* functions, and the bodies of promoted constants       *)
  PromotedOf,      (* PromotedOf[f] : the promoted constants of f           *)
  Casts, CallsIn,  (* Casts[b], CallsIn[b] : of a body                      *)
  Unavailable,     (* functions without MIR                                 *)
  Entries,         (* the functions that acx.entry_point may be             *)
  CallSite,
  Ty, DynTy, FnPtrTy, (* types, those of trait objects, function pointers   *)
  Method,          (* what a call names                                     *)
  FnPtrCall,       (* calls of an operand that is a function pointer        *)
  Special,         (* is_specially_handled_function                         *)
  Spawn,           (* of these, std::thread::Builder::spawn_unchecked       *)
  FnTrait,         (* Fn::call, FnMut::call_mut, FnOnce::call_once          *)
  SiteBody,        (* SiteBody[cs] : the body that cs is in                 *)
  NextLoc,         (* NextLoc[cs] : the location after it in its body       *)
  Pointee,         (* get_dereferenced_type, or None                        *)
  UnsizeArgs,      (* zipped type arguments of an ADT that is unsized       *)
  StripAuto,       (* strip_auto_traits                                     *)
  FnItem,          (* FnItem[t] : function of a FnDef or closure type, None *)
  MatchedSig,      (* function pointer types that are matched_fn_sig        *)
  Direct,          (* Direct[m, t] : function named by m, None for traits   *)
  Devirt,          (* Devirt[m, t] : the impl for t, or None                *)
  None

Body == Func \cup Promoted
Sites(T) == T \X CallSite \X Method

ASSUME RtaAssumption ==
  /\ Func \cap Promoted = {} /\ None \notin Func \cup Ty
  /\ Entries \subseteq Func /\ Unavailable \subseteq Func
  /\ PromotedOf \in [Body -> SUBSET Promoted]
  /\ Casts \in [Body -> SUBSET (Ty \X Ty)]
  /\ CallsIn \in [Body -> SUBSET (CallSite \X Method \X Ty)]
  /\ \A b \in Body : \A c \in CallsIn[b] :
       /\ SiteBody[c[1]] = b /\ SiteBody[NextLoc[c[1]]] = b
       /\ c[2] \in Special => \E g \in {Direct[c[2], c[3]], Devirt[c[2], c[3]]} : g # None
  /\ DynTy \subseteq Ty /\ FnPtrTy \subseteq Ty
  /\ FnPtrCall \in Method
  /\ Spawn \subseteq Special /\ Special \cap FnTrait = {}
  /\ Special \cup FnTrait \subseteq Method \ {FnPtrCall}
  /\ SiteBody \in [CallSite -> Body]
  /\ NextLoc \in [CallSite -> CallSite]
  /\ Pointee \in [Ty -> Ty \cup {None}]
  /\ UnsizeArgs \in [Ty \X Ty -> SUBSET (Ty \X Ty)]
  /\ StripAuto \in [DynTy -> DynTy]
  /\ FnItem \in [Ty -> Func \cup {None}]
  /\ MatchedSig \subseteq FnPtrTy \X FnPtrTy
  /\ Direct \in [Method \X Ty -> Func \cup {None}]
  /\ Devirt \in [Method \X Ty -> Func \cup {None}]

VARIABLES
  call_graph, func_nodes, reach_funcs, (* CallGraph, rf_iter                *)
  visited_functions, specially_handled_functions,
  dyn_callsites, dyn_fntrait_callsites, (* <<type, call site, callee>>      *)
  fnptr_callsites,                      (* <<type, call site>>              *)
  dynamic_to_possible_concrete_types, fnptr_sig_to_possible_targets,
  trait_upcasting_relations,
  has_new_functions, phase

graphVars == <<call_graph, func_nodes, reach_funcs>>
siteVars == <<dyn_callsites, dyn_fntrait_callsites>>
typeVars == <<fnptr_sig_to_possible_targets, trait_upcasting_relations>>
visitVars == <<visited_functions, specially_handled_functions>>
rtaVars == <<graphVars, siteVars, fnptr_callsites, typeVars,
          dynamic_to_possible_concrete_types, visitVars, has_new_functions, phase>>

Phases == {"process", "upcasting", "dyn", "fntrait", "fnptr", "done"}

-----------------------------------------------------------------------------
(* visit_assign: what a cast <<s, t>> tells.  Pointers to trait objects,   *)
(* and ADTs that are unsized, pair the types behind them.                  *)
Unsized(c) ==
  IF Pointee[c[2]] # None
  THEN {<<Pointee[c[1]], Pointee[c[2]]>>} \cap (Ty \X DynTy)
  ELSE {p \in UnsizeArgs[c] : p[2] \in DynTy}
M_ConcreteTypesOfObjects(c) == \* a trait object counts as a concrete type
  {<<StripAuto[p[2]], p[1]>> : p \in Unsized(c)}
ConcreteTypes(c) ==
  {<<StripAuto[p[2]], p[1]>> : p \in {x \in Unsized(c) : x[1] \notin DynTy}}
Upcastings(c) ==
  {u \in {<<StripAuto[p[1]], StripAuto[p[2]]>> : p \in {x \in Unsized(c) : x[1] \in DynTy}} :
     u[1] # u[2]}
FnptrTargets(c) ==
  IF c[2] \in FnPtrTy /\ FnItem[c[1]] # None THEN {<<c[2], c[1]>>} ELSE {}

(* visit_call, resolve_call, resolve_fntrait_call and                      *)
(* inline_indirectly_called_function: the calls that are called through    *)
(* one of the Fn traits, the one a spawned thread makes among them.        *)
FntraitCalls(C) ==
  {c \in C : c[2] \in FnTrait} \cup {<<NextLoc[c[1]], c[2], c[3]>> : c \in {x \in C : x[2] \in Spawn}}
Inlined(t) == FnItem[t] # None \/ t \in FnPtrTy \cup DynTy
ImplWithMir(m, t) == IF Devirt[m, t] \in Unavailable THEN None ELSE Devirt[m, t]
Callee(c) ==
  CASE c[2] \in Spawn \/ (c[2] \in FnTrait /\ Inlined(c[3])) -> FnItem[c[3]]
    [] c[2] \in FnTrait /\ ~Inlined(c[3]) -> ImplWithMir(c[2], c[3])
    [] OTHER -> IF Direct[c[2], c[3]] # None THEN Direct[c[2], c[3]]
                ELSE Devirt[c[2], c[3]]
SpecialCalls(C) ==
  {<<c[1], IF Devirt[c[2], c[3]] # None THEN Devirt[c[2], c[3]] ELSE Direct[c[2], c[3]]>> :
     c \in {x \in C : x[2] \in Special}}
StaticCalls(C) ==
  {<<c[1], Callee(c)>> :
     c \in {x \in FntraitCalls(C) \cup {y \in C : y[2] \notin Special \cup {FnPtrCall}} :
              Callee(x) # None}}
DynCallsites(C) ==
  {<<StripAuto[c[3]], c[1], c[2]>> :
     c \in {x \in C : /\ x[2] \notin Special \cup FnTrait \cup {FnPtrCall}
                      /\ Callee(x) = None /\ x[3] \in DynTy}}
DynFntraitCallsites(C) ==
  {<<StripAuto[c[3]], c[1], c[2]>> : c \in {x \in FntraitCalls(C) : x[3] \in DynTy}}
FnptrCallsites(C) ==
  {<<c[3], c[1]>> :
     c \in {x \in FntraitCalls(C) \cup {y \in C : y[2] = FnPtrCall} : x[3] \in FnPtrTy}}

-----------------------------------------------------------------------------
M_AddCallEdgesAgain(E, rest) == \* every callee is queued, known or not
  LET funcs == UNION {{SiteBody[e[1]], e[2]} : e \in E} IN
  /\ call_graph' = call_graph \cup E
  /\ func_nodes' = func_nodes \cup funcs
  /\ reach_funcs' = rest \cup funcs
(* CallGraph::add_edge for the calls E, rest not returned by rf_iter yet.  *)
AddCallEdges(E, rest) ==
  LET funcs == UNION {{SiteBody[e[1]], e[2]} : e \in E} IN
  /\ call_graph' = call_graph \cup E
  /\ func_nodes' = func_nodes \cup funcs
  /\ reach_funcs' = rest \cup (funcs \ func_nodes)

M_BodiesWithoutPromoted(f) ==  \* promoted constants are not visited
  IF f \in visited_functions \cup specially_handled_functions \cup Unavailable THEN {}
  ELSE {f}
(* process_reachable_functions, for one function; no body for those that   *)
(* are handled specially or have no MIR.                                   *)
Bodies(f) ==
  IF f \in visited_functions \cup specially_handled_functions \cup Unavailable THEN {}
  ELSE {f} \cup (PromotedOf[f] \ visited_functions)
ProcessFunction ==
  /\ phase = "process"
  /\ \E f \in reach_funcs :
       LET B == Bodies(f)
           C == UNION {CallsIn[b] : b \in B}
           T == UNION {Casts[b] : b \in B}
       IN /\ AddCallEdges(StaticCalls(C) \cup SpecialCalls(C), reach_funcs \ {f})
          /\ visited_functions' = visited_functions \cup {f} \cup B
          /\ specially_handled_functions' =
               specially_handled_functions \cup {e[2] : e \in SpecialCalls(C)}
          /\ dyn_callsites' = dyn_callsites \cup DynCallsites(C)
          /\ dyn_fntrait_callsites' = dyn_fntrait_callsites \cup DynFntraitCallsites(C)
          /\ fnptr_callsites' = fnptr_callsites \cup FnptrCallsites(C)
          /\ dynamic_to_possible_concrete_types' =
               dynamic_to_possible_concrete_types \cup UNION {ConcreteTypes(c) : c \in T}
          /\ fnptr_sig_to_possible_targets' =
               fnptr_sig_to_possible_targets \cup UNION {FnptrTargets(c) : c \in T}
          /\ trait_upcasting_relations' =
               trait_upcasting_relations \cup UNION {Upcastings(c) : c \in T}
  /\ has_new_functions' = TRUE
  /\ UNCHANGED phase

(* iteratively_process_reachable_functions: another round, or the end.     *)
FunctionsProcessed ==
  /\ phase = "process" /\ reach_funcs = {}
  /\ phase' = IF has_new_functions THEN "upcasting" ELSE "done"
  /\ UNCHANGED <<graphVars, siteVars, fnptr_callsites, typeVars,
                 dynamic_to_possible_concrete_types, visitVars, has_new_functions>>

-----------------------------------------------------------------------------
ConcreteTypesOf(d) == {p[2] : p \in {q \in dynamic_to_possible_concrete_types : q[1] = d}}

(* solve_trait_upcasting: what implements the source type implements the   *)
(* target type; again until no set changes.                                *)
Upcast(u) == {u[2]} \X ConcreteTypesOf(u[1])
UpcastPending(u) == ~ Upcast(u) \subseteq dynamic_to_possible_concrete_types
UpcastStep ==
  /\ phase = "upcasting"
  /\ \E u \in trait_upcasting_relations :
       /\ UpcastPending(u)
       /\ dynamic_to_possible_concrete_types' = dynamic_to_possible_concrete_types \cup Upcast(u)
  /\ UNCHANGED <<graphVars, siteVars, fnptr_callsites, typeVars, visitVars,
                 has_new_functions, phase>>
M_UpcastDoneEarly ==           \* left although a set may still change
  /\ phase = "upcasting" /\ phase' = "dyn"
  /\ UNCHANGED <<graphVars, siteVars, fnptr_callsites, typeVars,
                 dynamic_to_possible_concrete_types, visitVars, has_new_functions>>
UpcastDone ==
  /\ phase = "upcasting"
  /\ \A u \in trait_upcasting_relations : ~UpcastPending(u)
  /\ phase' = "dyn"
  /\ UNCHANGED <<graphVars, siteVars, fnptr_callsites, typeVars,
                 dynamic_to_possible_concrete_types, visitVars, has_new_functions>>

(* The call sites s = <<type, call site, callee>> paired with every        *)
(* concrete type of theirs.                                                *)
Instantiated(S) == {st \in S \X Ty : st[2] \in ConcreteTypesOf(st[1][1])}
DynCalls ==
  {<<st[1][2], Devirt[st[1][3], st[2]]>> :
     st \in {x \in Instantiated(dyn_callsites) : Devirt[x[1][3], x[2]] # None}}
SolveDynCallsites ==
  /\ phase = "dyn" /\ phase' = "fntrait"
  /\ AddCallEdges(DynCalls, reach_funcs)
  /\ UNCHANGED <<siteVars, fnptr_callsites, typeVars, dynamic_to_possible_concrete_types,
                 visitVars, has_new_functions>>

(* A dyn Fn object is a function, a function pointer, which makes the site *)
(* a function pointer call, or has an implementation with a body.          *)
FntraitTarget(m, t) == IF FnItem[t] # None THEN FnItem[t] ELSE ImplWithMir(m, t)
DynFntraitCalls ==
  {<<st[1][2], FntraitTarget(st[1][3], st[2])>> :
     st \in {x \in Instantiated(dyn_fntrait_callsites) :
               x[2] \notin FnPtrTy /\ FntraitTarget(x[1][3], x[2]) # None}}
DynFntraitFnptrCalls ==
  {<<st[2], st[1][2]>> : st \in {x \in Instantiated(dyn_fntrait_callsites) : x[2] \in FnPtrTy}}
M_SolveDynFntraitCallsitesOnly == \* a function pointer object makes no call
  /\ phase = "fntrait" /\ phase' = "fnptr"
  /\ AddCallEdges(DynFntraitCalls, reach_funcs)
  /\ UNCHANGED <<siteVars, fnptr_callsites, typeVars, dynamic_to_possible_concrete_types,
                 visitVars, has_new_functions>>
SolveDynFntraitCallsites ==
  /\ phase = "fntrait" /\ phase' = "fnptr"
  /\ AddCallEdges(DynFntraitCalls, reach_funcs)
  /\ fnptr_callsites' = fnptr_callsites \cup DynFntraitFnptrCalls
  /\ UNCHANGED <<siteVars, typeVars, dynamic_to_possible_concrete_types, visitVars,
                 has_new_functions>>

(* A call through a function pointer reaches every function that was cast  *)
(* to a pointer of a matching signature; process_reachable_functions then  *)
(* starts again with has_new_functions false.                              *)
FnptrCalls ==
  {<<sf[1][2], FnItem[sf[2][2]]>> :
     sf \in {x \in fnptr_callsites \X fnptr_sig_to_possible_targets :
               <<x[1][1], x[2][1]>> \in MatchedSig}}
SolveFnptrCallsites ==
  /\ phase = "fnptr" /\ phase' = "process"
  /\ AddCallEdges(FnptrCalls, reach_funcs)
  /\ has_new_functions' = FALSE
  /\ UNCHANGED <<siteVars, fnptr_callsites, typeVars, dynamic_to_possible_concrete_types,
                 visitVars>>

AnalysisDone == phase = "done" /\ UNCHANGED rtaVars

(* analyze: the entry point is the only node.                              *)
RtaInit ==
  /\ phase = "process" /\ has_new_functions = FALSE
  /\ call_graph = {}
  /\ func_nodes \in {{e} : e \in Entries} /\ reach_funcs = func_nodes
  /\ visited_functions = {} /\ specially_handled_functions = {}
  /\ dyn_callsites = {} /\ dyn_fntrait_callsites = {} /\ fnptr_callsites = {}
  /\ dynamic_to_possible_concrete_types = {}
  /\ fnptr_sig_to_possible_targets = {} /\ trait_upcasting_relations = {}

Progress ==
  \/ ProcessFunction \/ FunctionsProcessed
  \/ UpcastStep \/ UpcastDone
  \/ SolveDynCallsites \/ SolveDynFntraitCallsites \/ SolveFnptrCallsites
RtaNext == Progress \/ AnalysisDone
RtaSpec == RtaInit /\ [][RtaNext]_rtaVars
FairRtaSpec == RtaSpec /\ WF_rtaVars(Progress)

-----------------------------------------------------------------------------
(* The types of the analysis' state: a call graph between bodies, sites    *)
(* and types of the kinds that their maps are for.                         *)
RtaTypeOK ==
  /\ phase \in Phases /\ has_new_functions \in BOOLEAN
  /\ call_graph \subseteq CallSite \X Func
  /\ func_nodes \subseteq Body /\ reach_funcs \subseteq func_nodes
  /\ visited_functions \subseteq Body
  /\ specially_handled_functions \subseteq func_nodes \cap Func
  /\ dyn_callsites \cup dyn_fntrait_callsites \subseteq Sites(DynTy)
  /\ fnptr_callsites \subseteq FnPtrTy \X CallSite
  /\ dynamic_to_possible_concrete_types \subseteq DynTy \X (Ty \ DynTy)
  /\ fnptr_sig_to_possible_targets \subseteq FnPtrTy \X {t \in Ty : FnItem[t] # None}
  /\ trait_upcasting_relations \subseteq DynTy \X DynTy

(* What the body b says has been recorded: its calls, its pending call     *)
(* sites and the types it instantiates (rta.rs:103-131).                   *)
BodyRead(b) ==
  /\ StaticCalls(CallsIn[b]) \cup SpecialCalls(CallsIn[b]) \subseteq call_graph
  /\ {e[2] : e \in SpecialCalls(CallsIn[b])} \subseteq specially_handled_functions
  /\ DynCallsites(CallsIn[b]) \subseteq dyn_callsites
  /\ DynFntraitCallsites(CallsIn[b]) \subseteq dyn_fntrait_callsites
  /\ FnptrCallsites(CallsIn[b]) \subseteq fnptr_callsites
  /\ \A c \in Casts[b] :
       /\ ConcreteTypes(c) \subseteq dynamic_to_possible_concrete_types
       /\ FnptrTargets(c) \subseteq fnptr_sig_to_possible_targets
       /\ Upcastings(c) \subseteq trait_upcasting_relations

UpcastsClosed == \A u \in trait_upcasting_relations : ~UpcastPending(u)
DynClosed == DynCalls \subseteq call_graph
FntraitClosed ==
  DynFntraitCalls \subseteq call_graph /\ DynFntraitFnptrCalls \subseteq fnptr_callsites
FnptrClosed == FnptrCalls \subseteq call_graph

(* When the analysis ends, every function of the call graph was visited,   *)
(* every body that was not left out was read with its promoted constants,  *)
(* and every pending call site has an edge for every type and function     *)
(* that was instantiated anywhere, also in the last round: the loop of     *)
(* rta.rs:93-100 stops when no function is new, and must not miss a type   *)
(* that became known after its call sites were resolved.                   *)
ClosedAtEnd ==
  phase = "done" =>
    /\ func_nodes \subseteq visited_functions
    /\ \A f \in (visited_functions \cap Func) \ (specially_handled_functions \cup Unavailable) :
         \A b \in {f} \cup PromotedOf[f] : BodyRead(b)
    /\ UpcastsClosed /\ DynClosed /\ FntraitClosed /\ FnptrClosed

(* While functions are being processed for the first time in a round, all  *)
(* call sites known so far are resolved with all types known so far        *)
(* (rta.rs:93-100): only a new function may bring new work.                *)
RoundResolved ==
  phase = "process" /\ ~has_new_functions =>
    UpcastsClosed /\ DynClosed /\ FntraitClosed /\ FnptrClosed

(* The loop ends for every program with finitely many functions: every     *)
(* further round needs a function that is new (rta.rs:93-100, 139-154).    *)
RtaTerminates == <>(phase = "done")
=============================================================================
