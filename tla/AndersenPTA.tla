----------------------------- MODULE AndersenPTA -----------------------------
(***************************************************************************)
(* The driver of the context-insensitive analysis (AndersenPTA): it builds *)
(* the PAG of the functions that become reachable, lets the solver run,    *)
(* turns the calls that the solver resolved into call edges, argument and  *)
(* return edges and newly reachable functions, and solves again until a    *)
(* solve resolves no call.                                                 *)
(*                                                                         *)
(* The solver is module Propagator, whose variables are the PAG, the       *)
(* points-to data and the associated calls.  What the driver adds to the   *)
(* PAG between two solves is kept in added, a Batch, and joins the         *)
(* solver's variables when the next solve starts: the PAG of the code is   *)
(* the union, which the driver reads to see whether an edge is new.        *)
(* The kind recorded for each call site (callsite_to_type) is output only. *)
(***************************************************************************)
EXTENDS Propagator

CONSTANTS
  Entries,      (* the functions that acx.entry_point may be                *)
  Initialiser,  (* the bodies of promoted constants and of statics          *)
  FuncPag,      (* FuncPag[f] : edges and dynamic call sites of f's body    *)
  StaticCalls,  (* StaticCalls[f] : its static_dispatch_callsites           *)
  SpecialCalls, (* SpecialCalls[f] : its special_callsites                  *)
  Deps,         (* Deps[f] : its promoted functions and involved statics    *)
  Unavailable,  (* functions without MIR                                    *)
  StaticNode,   (* the promoted constants and static variables, whole ones  *)
  Base,         (* Base[cs] : the function and location of cs               *)
  CallFlow,     (* CallFlow[cs, f] : argument-parameter and return edges    *)
  Owner,        (* Owner[f][v] : the body that path v is rooted in, or None *)
  Caller        (* Caller[f][cs] : the body that cs is in                   *)

Calls == CallSite \X Func
Body == Func \cup Initialiser

ASSUME ProgramAssumption ==
  /\ Entries \subseteq Func
  /\ Func \cap Initialiser = {}
  /\ FuncPag \in [Body -> Batch]
  /\ \A f \in Body : /\ WellFormed(FuncPag[f])
                      /\ FuncPag[f].inter = {} /\ FuncPag[f].instance = {}
  /\ StaticCalls \in [Func -> SUBSET Calls]
  /\ SpecialCalls \in [Body -> SUBSET Calls]
  /\ Unavailable \subseteq Func
  /\ StaticNode \subseteq Node
  /\ Base \in [CallSite -> CallSite]
  /\ CallFlow \in [Calls -> SUBSET (Node \X Node)]

(* Only statics have promoted constants of their own, which have no others. *)
ASSUME DepsAssumption ==
  /\ Deps \in [Body -> SUBSET Initialiser]
  /\ \A f \in Func : \A g \in Deps[f] : \A h \in Deps[g] : Deps[h] = {}

VARIABLES
  call_graph,      (* the call edges, <<base call site, callee>>            *)
  func_nodes,      (* the functions that are nodes of the call graph        *)
  reach_funcs,     (* those that rf_iter has not returned yet               *)
  processed_funcs, (* the bodies whose edges have been added                *)
  special_functions, (* those that a body that was built calls specially    *)
  added,           (* added to the PAG since the last solve                 *)
  stage            (* where initialize and propagate are                    *)

driverVars == <<call_graph, func_nodes, reach_funcs, processed_funcs,
                special_functions, added, stage>>
solverVars == vars
ptaVars == <<solverVars, driverVars>>

Stages == {"initialize", "solve", "calls", "calls_reach", "instances",
           "instances_reach", "done"}
Nothing == [addr |-> {}, direct |-> {}, inter |-> {}, offset |-> {},
            load |-> {}, store |-> {}, gep |-> {}, instance |-> {},
            dispatch |-> {}, fnptr |-> {}, fntrait |-> {}]

(* Each entry point has a program of its own, f's is made of f and of the  *)
(* functions that are no entry points.                                     *)
Program(f) == Body \ (Entries \ {f})

(* The nodes that body g reads through an edge that is not queued or       *)
(* through a call, and those that its edges lead to or take the address of.*)
Reads(g) ==
  LET pag == FuncPag[g] IN
  {e[1] : e \in {x \in pag.direct : x[1] \notin StaticNode}}
    \cup {e[1] : e \in pag.load \cup pag.gep \cup pag.offset} \cup {e[3] : e \in pag.store}
    \cup {c[1] : c \in pag.dispatch \cup pag.fnptr \cup pag.fntrait}
Targets(b) ==
  {e[1] : e \in b.addr} \cup {e[2] : e \in b.addr \cup b.direct \cup b.offset}
    \cup {e[3] : e \in b.load \cup b.gep}

(* Locals, parameters, results and heap objects are rooted in the function *)
(* they belong to, statics and function items in none (path.rs,            *)
(* get_containing_func).  A body reads nodes of its own only: statics      *)
(* through direct edges or through references to them; it writes to its    *)
(* own nodes and to statics, a call to nodes of the caller and the callee. *)
(* Not so for a call through a constant function pointer, and for a field  *)
(* of a constant of aggregate type.                                        *)
NodesOwned(f) ==
  /\ Owner[f] \in [Node -> Program(f) \cup {None}]
  /\ Caller[f] \in [CallSite -> Program(f)]
  /\ \A g \in Program(f) :
       /\ \A v \in Reads(g) : Owner[f][v] = g
       /\ \A v \in Targets(FuncPag[g]) : Owner[f][v] \in {g, None}
       /\ \A c \in FuncPag[g].dispatch \cup FuncPag[g].fnptr \cup FuncPag[g].fntrait :
            Caller[f][c[2]] = g
  /\ \A x \in Node \X Proj : Owner[f][Field[x]] \in {Owner[f][x[1]], None}
CallsOwned(f) ==
  /\ \A g \in Program(f) \cap Func : \A c \in StaticCalls[g] :
       Caller[f][c[1]] = g /\ c[2] \in Program(f)
  /\ \A g \in Program(f) : \A c \in SpecialCalls[g] : c[2] \in Program(f)
  /\ \A c \in Calls : c[2] \in Program(f) =>
       \A e \in CallFlow[c] : Owner[f][e[2]] \in {Caller[f][c[1]], c[2], None}
ResolvedOwned(f) ==
  /\ \A cs \in CallSite : Caller[f][Unpack[cs]] = Caller[f][cs]
  /\ \A o \in Node : FnCallee[o] \in Program(f) \cup {None}
  /\ \A x \in CallSite \X Node :
       /\ DynCallee[x] \in Program(f) \cup {None}
       /\ ClosureRef[x] # None => Owner[f][ClosureRef[x]] \in {Caller[f][x[1]], None}
(* What ContractKept rests on.                                             *)
Ownership ==
  /\ None \notin Body
  /\ \A f \in Entries : NodesOwned(f) /\ CallsOwned(f) /\ ResolvedOwned(f)

(* build_func_pag succeeds.                                                *)
HasFuncPag(f) == f \notin special_functions \cup Unavailable
KnownDirect == direct_edges \cup added.direct

-----------------------------------------------------------------------------
M_NewCallEdgesBySite(C) ==     \* a call site keeps its first callee
  {c \in C : \A e \in call_graph : e[1] # Base[c[1]]}
(* The calls of C that CallGraph::add_edge accepts.                        *)
NewCallEdges(C) == {c \in C : <<Base[c[1]], c[2]>> \notin call_graph}

(* add_inter_procedural_edges for the new call edges among C.              *)
InterProcEdges(C) ==
  UNION {CallFlow[c] : c \in {x \in NewCallEdges(C) : x[2] \notin Unavailable}}

M_InsertCallsUnlisted(C, rest) == \* a callee is not recorded as a node
  LET funcs == {c[2] : c \in C} IN
  /\ call_graph' = call_graph \cup {<<Base[c[1]], c[2]>> : c \in C}
  /\ reach_funcs' = rest \cup (funcs \ func_nodes)
  /\ UNCHANGED func_nodes
M_InsertCallsQuiet(C, rest) == \* new nodes are not announced as reachable
  /\ call_graph' = call_graph \cup {<<Base[c[1]], c[2]>> : c \in C}
  /\ func_nodes' = func_nodes \cup {c[2] : c \in C}
  /\ reach_funcs' = rest
(* CallGraph::add_edge for the calls C; a function that becomes a node of  *)
(* the graph joins those that are still to be returned, rest.  The caller  *)
(* is a node already: call sites come from functions that were reached.    *)
InsertCalls(C, rest) ==
  LET funcs == {c[2] : c \in C} IN
  /\ call_graph' = call_graph \cup {<<Base[c[1]], c[2]>> : c \in C}
  /\ func_nodes' = func_nodes \cup funcs
  /\ reach_funcs' = rest \cup (funcs \ func_nodes)

(* add_call_edge: the edge, and when it is new the flow of its arguments   *)
(* and result, queued where the PAG did not have it.                       *)
AddCallEdge(c) ==
  LET flow == InterProcEdges({c}) IN
  /\ InsertCalls({c}, reach_funcs)
  /\ added' = [added EXCEPT !.direct = @ \cup flow,
                            !.inter = @ \cup (flow \ KnownDirect)]
  /\ UNCHANGED <<processed_funcs, special_functions>>

-----------------------------------------------------------------------------
(* process_reach_funcs, one function of rf_iter at a time.                 *)
Reaching ==
  phase = "driver" /\ stage \in {"initialize", "calls_reach", "instances_reach"}

SkipReachFunc ==
  /\ Reaching
  /\ \E f \in reach_funcs :
       /\ f \in processed_funcs \/ ~HasFuncPag(f)
       /\ reach_funcs' = reach_funcs \ {f}
  /\ UNCHANGED <<call_graph, func_nodes, processed_funcs, special_functions,
                 added, stage, solverVars>>

(* The functions whose edges add_fpag_edges adds: f, and unless they have  *)
(* been added before its promoted constants and statics, and theirs.       *)
FpagFuncs(f) ==
  ({f} \cup Deps[f] \cup UNION {Deps[g] : g \in Deps[f]}) \ processed_funcs

SpecialCallees(B) == UNION {{c[2] : c \in SpecialCalls[g]} : g \in B}

(* The bodies B and the flow of calls join the PAG; of the direct edges,   *)
(* fresh are queued.  Call sites are taken from f alone: the bodies of     *)
(* promoted constants and statics are not searched for calls.              *)
AddEdges(f, B, flow, fresh) ==
  LET edges(k) == added[k] \cup UNION {FuncPag[g][k] : g \in B} IN
  added' = [addr |-> edges("addr"), direct |-> edges("direct") \cup flow,
            inter |-> added.inter \cup fresh, offset |-> edges("offset"),
            load |-> edges("load"), store |-> edges("store"), gep |-> edges("gep"),
            instance |-> added.instance,
            dispatch |-> added.dispatch \cup FuncPag[f].dispatch,
            fnptr |-> added.fnptr \cup FuncPag[f].fnptr,
            fntrait |-> added.fntrait \cup FuncPag[f].fntrait]

M_AddFuncPagUnqueued(f) ==     \* edges from statics are not queued
  LET B == FpagFuncs(f)
      direct == UNION {FuncPag[g].direct : g \in B}
      flow == InterProcEdges(StaticCalls[f])
  IN /\ InsertCalls(StaticCalls[f] \cup SpecialCalls[f], reach_funcs \ {f})
     /\ processed_funcs' = processed_funcs \cup B
     /\ special_functions' = special_functions \cup SpecialCallees(B)
     /\ AddEdges(f, B, flow, (flow \ direct) \ KnownDirect)
(* build_func_pag, add_fpag_edges and process_calls_in_fpag.               *)
AddFuncPag(f) ==
  LET B == FpagFuncs(f)
      direct == UNION {FuncPag[g].direct : g \in B}
      static == {e \in direct : e[1] \in StaticNode}
      flow == InterProcEdges(StaticCalls[f])
  IN /\ InsertCalls(StaticCalls[f] \cup SpecialCalls[f], reach_funcs \ {f})
     /\ processed_funcs' = processed_funcs \cup B
     /\ special_functions' = special_functions \cup SpecialCallees(B)
     /\ AddEdges(f, B, flow, (static \cup (flow \ direct)) \ KnownDirect)

ProcessReachFunc ==
  /\ Reaching
  /\ \E f \in reach_funcs :
       f \notin processed_funcs /\ HasFuncPag(f) /\ AddFuncPag(f)
  /\ UNCHANGED <<stage, solverVars>>

(* propagate's loop: the solver starts on what has been added.             *)
StartSolve ==
  /\ Reaching /\ reach_funcs = {}
  /\ stage \in {"initialize", "instances_reach"}
  /\ AddBatch(added)
  /\ phase' = "addr" /\ stage' = "solve"
  /\ added' = Nothing
  /\ UNCHANGED <<ptVars, cur, base, todo, new_calls, new_call_instances, takenVars,
                 call_graph, func_nodes, reach_funcs, processed_funcs,
                 special_functions>>

Solve == SolveWorklist /\ UNCHANGED driverVars

(* The solver has returned: stop, or process_new_calls.                    *)
Advance(from, to) ==
  /\ phase = "driver" /\ stage = from /\ stage' = to
  /\ UNCHANGED <<call_graph, func_nodes, reach_funcs, processed_funcs,
                 special_functions, added, solverVars>>

Break == new_calls \cup new_call_instances = {} /\ Advance("solve", "done")
TakeCalls == new_calls \cup new_call_instances # {} /\ Advance("solve", "calls")
NewCallsDone == new_calls = {} /\ Advance("calls", "calls_reach")
CallsReachDone == reach_funcs = {} /\ Advance("calls_reach", "instances")
NewCallInstancesDone ==
  new_call_instances = {} /\ Advance("instances", "instances_reach")

solverRest == <<graphVars, direct_edges, ptVars, addrVars, inter_queue, assoc_calls, ctlVars>>

M_ProcessNewCallKept ==        \* the list of calls is used again
  /\ phase = "driver" /\ stage = "calls"
  /\ \E c \in new_calls :
       /\ AddCallEdge(c)
       /\ taken_calls' = taken_calls \cup {c}
  /\ UNCHANGED <<stage, solverRest, new_calls, new_call_instances, taken_instances>>
ProcessNewCall ==
  /\ phase = "driver" /\ stage = "calls"
  /\ \E c \in new_calls :
       /\ AddCallEdge(c)
       /\ new_calls' = new_calls \ {c}
       /\ taken_calls' = taken_calls \cup {c}
  /\ UNCHANGED <<stage, solverRest, new_call_instances, taken_instances>>

ProcessNewCallInstance ==
  /\ phase = "driver" /\ stage = "instances"
  /\ \E c \in new_call_instances :
       /\ AddCallEdge(<<c[1], c[3]>>)
       /\ new_call_instances' = new_call_instances \ {c}
       /\ taken_instances' = taken_instances \cup {c}
  /\ UNCHANGED <<stage, solverRest, new_calls, taken_calls>>

Done == stage = "done" /\ UNCHANGED ptaVars

-----------------------------------------------------------------------------
PTAInit ==
  /\ \E f \in Entries : func_nodes = {f} /\ reach_funcs = {f}
  /\ call_graph = {} /\ processed_funcs = {} /\ special_functions = {}
  /\ added = Nothing
  /\ stage = "initialize"
  /\ addr_edges = {} /\ addr_queue = {} /\ direct_edges = {} /\ inter_queue = {}
  /\ load_edges = {} /\ store_edges = {} /\ gep_edges = {} /\ offset_edges = {}
  /\ assoc_calls = [instance |-> {}, dispatch |-> {}, fnptr |-> {}, fntrait |-> {}]
  /\ diff = [v \in Node |-> {}] /\ propa = [v \in Node |-> {}]
  /\ worklist = <<>> /\ phase = "driver" /\ cur = None /\ base = {} /\ todo = {}
  /\ new_calls = {} /\ new_call_instances = {}
  /\ taken_calls = {} /\ taken_instances = {}

PTAStep ==
  \/ SkipReachFunc \/ ProcessReachFunc
  \/ StartSolve \/ Solve
  \/ Break \/ TakeCalls
  \/ ProcessNewCall \/ NewCallsDone \/ CallsReachDone
  \/ ProcessNewCallInstance \/ NewCallInstancesDone

PTANext == PTAStep \/ Done

(* One thread runs the driver and the solver in turn.                      *)
PTASpec == PTAInit /\ [][PTANext]_ptaVars /\ WF_ptaVars(PTAStep)

-----------------------------------------------------------------------------
PTATypeOK ==
  /\ call_graph \subseteq CallSite \X Func /\ func_nodes \subseteq Func
  /\ reach_funcs \subseteq func_nodes /\ processed_funcs \subseteq Body
  /\ special_functions \subseteq Func
  /\ added \in Batch /\ added.inter \subseteq added.direct
  /\ stage \in Stages /\ (phase # "driver" => stage = "solve")
  /\ \A e \in call_graph : e[2] \in func_nodes

(* The contract between driver and solver: when the driver adds an edge or *)
(* a call site to the PAG, either its source has no object yet or the edge *)
(* is queued for a full propagation (add_call_edge, and the test for       *)
(* statics in add_fpag_edges).                                             *)
ContractKept == phase = "driver" => Acceptable(added) /\ WellFormed(added)

(* When a solve starts, and until its calls are taken, everything reported *)
(* earlier is in the call graph with its flow in the PAG, and every        *)
(* function of the call graph that has a body is in the PAG with its call  *)
(* sites: no round of propagate leaves work behind for a later one.        *)
InCallGraph(c) ==
  /\ <<Base[c[1]], c[2]>> \in call_graph
  /\ HasFuncPag(c[2]) =>
       \E s \in CallSite : /\ Base[s] = Base[c[1]]
                           /\ CallFlow[s, c[2]] \subseteq direct_edges
EdgesInPag(g) ==
  /\ FuncPag[g].addr \subseteq addr_edges /\ FuncPag[g].direct \subseteq direct_edges
  /\ FuncPag[g].load \subseteq load_edges /\ FuncPag[g].store \subseteq store_edges
  /\ FuncPag[g].gep \subseteq gep_edges /\ FuncPag[g].offset \subseteq offset_edges
InPag(f) ==
  /\ \A g \in {f} \cup Deps[f] : EdgesInPag(g)
  /\ FuncPag[f].dispatch \subseteq assoc_calls.dispatch
  /\ FuncPag[f].fnptr \subseteq assoc_calls.fnptr
  /\ FuncPag[f].fntrait \subseteq assoc_calls.fntrait
  /\ \A c \in StaticCalls[f] : InCallGraph(c)
RoundClosed ==
  stage \in {"solve", "done"} =>
    /\ \A c \in taken_calls : InCallGraph(c)
    /\ \A c \in taken_instances : InCallGraph(<<c[1], c[3]>>)
    /\ \A f \in func_nodes : HasFuncPag(f) => InPag(f)

(* The analysis ends, for recursive and mutually recursive programs too.   *)
AnalysisTerminates == <>(stage = "done")
==============================================================================
