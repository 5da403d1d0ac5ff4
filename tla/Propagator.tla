----------------------------- MODULE Propagator -----------------------------
(***************************************************************************)
(* The constraint solver of RUPTA: Propagator::solve_worklist with its     *)
(* difference-propagation points-to data (DiffPTData) and the part of the  *)
(* pointer assignment graph (PAG) it reads and extends.                    *)
(*                                                                         *)
(* One call of solve_worklist activates the queued address and             *)
(* inter-procedural edges and then empties a FIFO worklist.  Processing a  *)
(* node runs one handler per edge kind, and one per kind of call that is   *)
(* resolved through the node, over the node's diff set, and ends with a    *)
(* flush.  A step of the model is one iteration of a handler's loop; the   *)
(* order of the iterations of one loop (edge and node ids) is abstracted:  *)
(* any order is allowed.                                                   *)
(*                                                                         *)
(* The driver (AndersenPTA, ContextSensitivePTA) is the environment: when  *)
(* a solve reported calls it adds the edges of the new callees and starts  *)
(* the next solve.  Driver(b) states what the solver relies on.  Cast      *)
(* edges are absent from the PAGs of this module, so that handle_cast,     *)
(* which returns at once when a node has no cast edge, takes no step.      *)
(***************************************************************************)
EXTENDS Integers, Sequences

CONSTANTS
  Node,         (* the paths that are nodes of the PAG                      *)
  Proj,         (* the projections on load, store and gep edges             *)
  Field,        (* Field[o, p] : the path o.append_projection(p)            *)
  Filtered,     (* <<s, d, o>> : propagate drops o on its way from s to d   *)
  CallSite,
  Func,
  DynCallee,    (* DynCallee[cs, o] : method cs calls on an object like o   *)
  FnCallee,     (* FnCallee[o] : function item or closure body o stands for *)
  FnPtrObj,     (* the nodes whose type is a function pointer               *)
  ClosureRef,   (* ClosureRef[cs, o] : reference made to pass closure o     *)
  Unpack,       (* Unpack[cs] : site cs with its tuple of arguments unpacked *)
  SelfRef,      (* SelfRef[cs] : first argument of cs                       *)
  HasSelfRef,   (* the functions with a &self or &mut self parameter        *)
  None,         (* no node, no function                                     *)
  Batches       (* what the driver may add between two solves               *)

(* The edges and call sites that the driver adds at once; inter are the    *)
(* edges of direct that it also puts into inter_proc_edges_queue.          *)
Batch == [addr : SUBSET (Node \X Node), direct : SUBSET (Node \X Node),
          inter : SUBSET (Node \X Node), offset : SUBSET (Node \X Node),
          load : SUBSET (Node \X Proj \X Node),
          store : SUBSET (Node \X Proj \X Node),
          gep : SUBSET (Node \X Proj \X Node),
          instance : SUBSET (Node \X CallSite \X Func),
          dispatch : SUBSET (Node \X CallSite),
          fnptr : SUBSET (Node \X CallSite),
          fntrait : SUBSET (Node \X CallSite)]

ClosureRefs == {ClosureRef[x] : x \in CallSite \X Node} \ {None}

(* What the PAG builder guarantees of the edges of a function: no load or  *)
(* gep of a local into itself (MIR goes through a temporary), and a cell   *)
(* that a store may write and that is the store's own base pointer has a   *)
(* type other than the stored value's, so that propagate filters the flow. *)
(* A closure reference is a fresh auxiliary local: nobody calls through it.*)
WellFormed(b) ==
  /\ b.inter \subseteq b.direct
  /\ \A e \in b.load \cup b.gep : e[1] # e[3]
  /\ \A e \in b.store, o \in Node :
        Field[o, e[2]] = e[3] => \A x \in Node : <<e[1], e[3], x>> \in Filtered
  /\ \A c \in b.fnptr \cup b.fntrait : c[1] \notin ClosureRefs

ASSUME NodeAssumption ==
  /\ None \notin Node \cup Func
  /\ Field \in [Node \X Proj -> Node]
  /\ Filtered \subseteq Node \X Node \X Node

ASSUME CallAssumption ==
  /\ DynCallee \in [CallSite \X Node -> Func \cup {None}]
  /\ FnCallee \in [Node -> Func \cup {None}]
  /\ ClosureRef \in [CallSite \X Node -> Node \cup {None}]
  /\ Unpack \in [CallSite -> CallSite]
  /\ SelfRef \in [CallSite -> Node]
  /\ HasSelfRef \subseteq Func
  /\ FnPtrObj \subseteq Node \ ClosureRefs

ASSUME BatchAssumption ==
  /\ Batches \subseteq Batch
  /\ \A b \in Batches : WellFormed(b)

-----------------------------------------------------------------------------
VARIABLES
  addr_edges,   (* address-of edges of the PAG, <<object, pointer>>         *)
  addr_queue,   (* those that addr_edge_iter has not returned yet           *)
  direct_edges, (* direct edges, static ones and those of loads and stores  *)
  inter_queue,  (* edges that inter_proc_edge_iter has not returned yet     *)
  load_edges,   (* <<base, proj, dst>>                                      *)
  store_edges,  (* <<src, proj, base>>                                      *)
  gep_edges,    (* <<base, proj, dst>>                                      *)
  offset_edges, (* <<src, dst>>                                             *)
  assoc_calls,  (* AssocCallGroup : the calls resolved through each node    *)
  diff,         (* DiffPTData.diff_pts_map, {} for a missing entry          *)
  propa,        (* DiffPTData.propa_pts_map, {} for a missing entry         *)
  worklist,     (* VecDeque of nodes, duplicates included                   *)
  phase,        (* where solve_worklist is                                  *)
  cur,          (* the node in process_node, or None                        *)
  base,         (* its diff set when it was popped                          *)
  todo,         (* what is left of the current handler's loop               *)
  new_calls,    (* calls resolved in this solve, <<call site, callee>>      *)
  new_call_instances, (* <<call site, receiver object, callee>>             *)
  taken_calls,  (* new_calls and                                            *)
  taken_instances (* new_call_instances the driver has consumed             *)

graphVars == <<load_edges, store_edges, gep_edges, offset_edges>>
ptVars == <<diff, propa, worklist>>
takenVars == <<taken_calls, taken_instances>>
callVars == <<new_calls, new_call_instances, assoc_calls, takenVars>>
addrVars == <<addr_edges, addr_queue>>
ctlVars == <<phase, cur, base, todo>>
vars == <<graphVars, direct_edges, ptVars, callVars, addrVars, inter_queue, ctlVars>>

Phases == {"driver", "addr", "inter", "pop", "direct", "load", "store", "gep",
           "offset", "instance", "dispatch", "fnptr", "fntrait", "flush"}
LoopPhases == {"direct", "load", "store", "gep", "offset", "fnptr", "fntrait"}

(* The points-to set of a node: what was propagated and what is still new. *)
Pts(v) == diff[v] \cup propa[v]

-----------------------------------------------------------------------------
(* Defective variants, each a slip the code could have made; M_X stands in *)
(* for the definition X that follows it to show what a property notices.   *)

(* DiffPTData::add_pts for every object of a set, and the push_back of the *)
(* pointer when one of them was new.                                       *)
AddPts(v, S) ==
  /\ diff' = [diff EXCEPT ![v] = @ \cup (S \ propa[v])]
  /\ worklist' = IF S \subseteq Pts(v) THEN worklist ELSE Append(worklist, v)
  /\ UNCHANGED propa

M_FlowUnfiltered(s, d, S) == S  \* no type or stack filter
(* The objects that propagate(s -> d) hands on, the diff set or all.       *)
Flow(s, d, S) == {o \in S : <<s, d, o>> \notin Filtered}

(* propagate(edge, true) and propagate(edge, false).                       *)
PropagateDiff(s, d) == AddPts(d, Flow(s, d, diff[s]))
PropagateAll(s, d) == AddPts(d, Flow(s, d, Pts(s)))

M_ConnectAndPropagateDiff(s, d) == \* the new edge carries the diff set only
  IF <<s, d>> \in direct_edges
  THEN UNCHANGED <<direct_edges, ptVars>>
  ELSE /\ direct_edges' = direct_edges \cup {<<s, d>>}
       /\ PropagateDiff(s, d)
(* Propagator::add_direct_edge, followed by a full propagation when the    *)
(* edge is new.                                                            *)
ConnectAndPropagate(s, d) ==
  IF <<s, d>> \in direct_edges
  THEN UNCHANGED <<direct_edges, ptVars>>
  ELSE /\ direct_edges' = direct_edges \cup {<<s, d>>}
       /\ PropagateAll(s, d)

-----------------------------------------------------------------------------
(* solve_worklist: the queued constraints.                                 *)
ProcessAddr ==
  /\ phase = "addr"
  /\ \E e \in addr_queue :
       /\ addr_queue' = addr_queue \ {e}
       /\ AddPts(e[2], {e[1]})
  /\ UNCHANGED <<graphVars, addr_edges, direct_edges, callVars, inter_queue, ctlVars>>

AddrEdgesDone ==
  /\ phase = "addr" /\ addr_queue = {}
  /\ phase' = "inter"
  /\ UNCHANGED <<graphVars, direct_edges, ptVars, callVars, addrVars,
                 inter_queue, cur, base, todo>>

ProcessInterProc ==
  /\ phase = "inter"
  /\ \E e \in inter_queue :
       /\ inter_queue' = inter_queue \ {e}
       /\ PropagateAll(e[1], e[2])
  /\ UNCHANGED <<graphVars, direct_edges, callVars, addrVars, ctlVars>>

InterProcEdgesDone ==
  /\ phase = "inter" /\ inter_queue = {}
  /\ phase' = "pop"
  /\ UNCHANGED <<graphVars, direct_edges, ptVars, callVars, addrVars,
                 inter_queue, cur, base, todo>>

-----------------------------------------------------------------------------
(* process_node: each handler begins when the loop of the one before it    *)
(* has ended, with the edges and objects it is going to visit.             *)
M_PopNodePeek ==               \* the front of the worklist stays there
  /\ phase = "pop" /\ worklist # <<>>
  /\ cur' = Head(worklist)
  /\ base' = diff[cur']
  /\ phase' = "direct"
  /\ todo' = {e \in direct_edges : e[1] = cur'}
  /\ UNCHANGED <<graphVars, direct_edges, ptVars, callVars, addrVars, inter_queue>>
PopNode ==
  /\ phase = "pop" /\ worklist # <<>>
  /\ worklist' = Tail(worklist)
  /\ cur' = Head(worklist)
  /\ base' = diff[cur']
  /\ phase' = "direct"
  /\ todo' = {e \in direct_edges : e[1] = cur'}
  /\ UNCHANGED <<graphVars, direct_edges, diff, propa, callVars, addrVars, inter_queue>>

SolveDone ==
  /\ phase = "pop" /\ worklist = <<>>
  /\ phase' = "driver"
  /\ UNCHANGED <<graphVars, direct_edges, ptVars, callVars, addrVars,
                 inter_queue, cur, base, todo>>

(* Leave the loop of one handler for that of the next one.                 *)
Enter(from, to, items) ==
  /\ phase = from
  /\ from \in LoopPhases => todo = {}
  /\ phase' = to
  /\ todo' = items
  /\ UNCHANGED <<graphVars, direct_edges, ptVars, addrVars, inter_queue, cur, base>>

(* handle_load_and_store clones the diff set once for both loops.          *)
HandleLoad ==
  /\ Enter("direct", "load", {e \in load_edges : e[1] = cur} \X diff[cur])
  /\ UNCHANGED callVars
M_HandleStoreOfLoads ==        \* the store loop visits the load edges
  /\ Enter("load", "store", {e \in load_edges : e[1] = cur} \X base)
  /\ UNCHANGED callVars
HandleStore ==
  /\ Enter("load", "store", {e \in store_edges : e[3] = cur} \X base)
  /\ UNCHANGED callVars
HandleGep ==
  /\ Enter("store", "gep", {e \in gep_edges : e[1] = cur})
  /\ UNCHANGED callVars
HandleOffset ==
  /\ Enter("gep", "offset", {e \in offset_edges : e[1] = cur})
  /\ UNCHANGED callVars

(* An iteration of a handler's loop.                                       *)
Iterate(ph, x) ==
  /\ phase = ph
  /\ todo' = todo \ {x}
  /\ UNCHANGED <<graphVars, callVars, addrVars, inter_queue, phase, cur, base>>

ProcessDirect ==
  \E e \in todo :
    /\ Iterate("direct", e)
    /\ PropagateDiff(e[1], e[2])
    /\ UNCHANGED direct_edges

ProcessLoad ==
  \E x \in todo :
    /\ Iterate("load", x)
    /\ ConnectAndPropagate(Field[x[2], x[1][2]], x[1][3])

ProcessStore ==
  \E x \in todo :
    /\ Iterate("store", x)
    /\ ConnectAndPropagate(x[1][1], Field[x[2], x[1][2]])

M_ProcessGepInPlace ==         \* the fields go to the base pointer
  \E e \in todo :
    /\ Iterate("gep", e)
    /\ AddPts(e[1], {Field[o, e[2]] : o \in diff[cur]})
    /\ UNCHANGED direct_edges
ProcessGep ==
  \E e \in todo :
    /\ Iterate("gep", e)
    /\ AddPts(e[3], {Field[o, e[2]] : o \in diff[cur]})
    /\ UNCHANGED direct_edges

ProcessOffset ==
  \E e \in todo :
    /\ Iterate("offset", e)
    /\ PropagateDiff(e[1], e[2])
    /\ UNCHANGED direct_edges

-----------------------------------------------------------------------------
(* The calls resolved through the node, over its diff set.                 *)

(* A statically dispatched method call learns the receivers' objects.      *)
HandleStaticDispatchInstanceCall ==
  /\ Enter("offset", "instance", {})
  /\ new_call_instances' = new_call_instances \cup
       {<<c[2], o, c[3]>> : c \in {x \in assoc_calls.instance : x[1] = cur},
                            o \in diff[cur]}
  /\ UNCHANGED <<new_calls, assoc_calls, takenVars>>

(* The instances that a trait-object call at site cs resolves to.          *)
Devirtualized(cs, S) ==
  {<<cs, o, DynCallee[cs, o]>> : o \in {x \in S : DynCallee[cs, x] # None}}

Sites(calls) == {c[2] : c \in {x \in calls : x[1] = cur}}

HandleDynamicDispatchCall ==
  /\ Enter("instance", "dispatch", {})
  /\ new_call_instances' = new_call_instances \cup
       UNION {Devirtualized(cs, diff[cur]) : cs \in Sites(assoc_calls.dispatch)}
  /\ UNCHANGED <<new_calls, assoc_calls, takenVars>>

HandleFnptrCall ==
  /\ Enter("dispatch", "fnptr",
           {"fnptr"} \X Sites(assoc_calls.fnptr) \X diff[cur])
  /\ UNCHANGED callVars

HandleDynamicFntraitCall ==
  /\ Enter("fnptr", "fntrait",
           {"fntrait"} \X Sites(assoc_calls.fntrait) \X diff[cur])
  /\ UNCHANGED callVars

HandlersDone ==
  /\ Enter("fntrait", "flush", {})
  /\ UNCHANGED callVars

(* add_new_call: the call, and when the callee takes &self the objects     *)
(* that the receiver's propagated points-to set holds now.                 *)
AddNewCall(cs, f) ==
  /\ new_calls' = new_calls \cup {<<cs, f>>}
  /\ new_call_instances' = new_call_instances \cup
       IF f \in HasSelfRef THEN {<<cs, o, f>> : o \in propa[SelfRef[cs]]} ELSE {}

(* The iterations of the last two handlers.                                *)
CallIteration(items) ==
  /\ phase \in {"fnptr", "fntrait"}
  /\ todo' = items
  /\ UNCHANGED <<graphVars, direct_edges, phase, cur, base, inter_queue, takenVars>>

(* process_fnptr_call for one object of a function pointer: a function     *)
(* item or a closure is called, anything else is reported as an error.     *)
(* A closure that expects a reference to itself gets a new one             *)
(* (create_closure_callsite), with its address edge processed at once.     *)
(* The code makes another one each time; one per site and object stands    *)
(* for them all, as each points to that object and nothing else.           *)
ProcessFnptrCall ==
  \E x \in todo :
    LET o == x[3]   ref == ClosureRef[x[2], x[3]] IN
    /\ x[1] = "fnptr"
    /\ CallIteration(todo \ {x})
    /\ UNCHANGED assoc_calls
    /\ IF FnCallee[o] = None
       THEN UNCHANGED <<new_calls, new_call_instances, ptVars, addrVars>>
       ELSE /\ AddNewCall(x[2], FnCallee[o])
            /\ IF ref = None
               THEN UNCHANGED <<ptVars, addrVars>>
               ELSE /\ AddPts(ref, {o})
                    /\ addr_edges' = addr_edges \cup {<<o, ref>>}
                    /\ addr_queue' = addr_queue \cup ({<<o, ref>>} \ addr_edges)

(* process_dynamic_fntrait_call for one object that implements Fn, FnMut   *)
(* or FnOnce.  A function pointer is called with everything it points to,  *)
(* and the site is registered with it for what it will point to later.     *)
M_ProcessDynamicFntraitCallOnce == \* later targets of the pointer are lost
  \E x \in todo :
    LET cs == x[2]   o == x[3] IN
    /\ x[1] = "fntrait"
    /\ UNCHANGED <<ptVars, addrVars, assoc_calls>>
    /\ IF o \in FnPtrObj
       THEN /\ CallIteration((todo \ {x}) \cup ({"fnptr"} \X {Unpack[cs]} \X Pts(o)))
            /\ UNCHANGED <<new_calls, new_call_instances>>
       ELSE /\ CallIteration(todo \ {x})
            /\ IF FnCallee[o] # None THEN AddNewCall(Unpack[cs], FnCallee[o])
               ELSE /\ new_call_instances' =
                         new_call_instances \cup Devirtualized(cs, {o})
                    /\ UNCHANGED new_calls
ProcessDynamicFntraitCall ==
  \E x \in todo :
    LET cs == x[2]   o == x[3] IN
    /\ x[1] = "fntrait"
    /\ UNCHANGED <<ptVars, addrVars>>
    /\ \/ /\ o \in FnPtrObj
          /\ CallIteration((todo \ {x}) \cup ({"fnptr"} \X {Unpack[cs]} \X Pts(o)))
          /\ assoc_calls' = [assoc_calls EXCEPT !.fnptr = @ \cup {<<o, Unpack[cs]>>}]
          /\ UNCHANGED <<new_calls, new_call_instances>>
       \/ /\ o \notin FnPtrObj /\ FnCallee[o] # None
          /\ CallIteration(todo \ {x})
          /\ AddNewCall(Unpack[cs], FnCallee[o])
          /\ UNCHANGED assoc_calls
       \/ /\ o \notin FnPtrObj /\ FnCallee[o] = None
          /\ CallIteration(todo \ {x})
          /\ new_call_instances' = new_call_instances \cup Devirtualized(cs, {o})
          /\ UNCHANGED <<new_calls, assoc_calls>>

(* DiffPTData::flush ends process_node.                                    *)
Flush ==
  /\ phase = "flush"
  /\ propa' = [propa EXCEPT ![cur] = @ \cup diff[cur]]
  /\ diff' = [diff EXCEPT ![cur] = {}]
  /\ phase' = "pop"
  /\ cur' = None /\ base' = {}
  /\ UNCHANGED <<graphVars, direct_edges, worklist, callVars, addrVars,
                 inter_queue, todo>>

-----------------------------------------------------------------------------
(* What the driver must guarantee of the edges and call sites it adds: the *)
(* solver visits an edge for the objects that reach its source from now    *)
(* on, so the source of a new edge has no points-to set yet unless the     *)
(* edge is queued for a full propagation.                                  *)
Acceptable(b) ==
  /\ \A e \in b.direct \ direct_edges : e \in b.inter \/ Pts(e[1]) = {}
  /\ \A e \in b.load \ load_edges : Pts(e[1]) = {}
  /\ \A e \in b.store \ store_edges : Pts(e[3]) = {}
  /\ \A e \in b.gep \ gep_edges : Pts(e[1]) = {}
  /\ \A e \in b.offset \ offset_edges : Pts(e[1]) = {}
  /\ \A c \in b.instance \cup b.dispatch \cup b.fnptr \cup b.fntrait : Pts(c[1]) = {}

AddBatch(b) ==
  /\ addr_edges' = addr_edges \cup b.addr
  /\ addr_queue' = addr_queue \cup (b.addr \ addr_edges)
  /\ direct_edges' = direct_edges \cup b.direct
  /\ inter_queue' = inter_queue \cup (b.inter \ direct_edges)
  /\ load_edges' = load_edges \cup b.load
  /\ store_edges' = store_edges \cup b.store
  /\ gep_edges' = gep_edges \cup b.gep
  /\ offset_edges' = offset_edges \cup b.offset
  /\ assoc_calls' = [instance |-> assoc_calls.instance \cup b.instance,
                     dispatch |-> assoc_calls.dispatch \cup b.dispatch,
                     fnptr |-> assoc_calls.fnptr \cup b.fnptr,
                     fntrait |-> assoc_calls.fntrait \cup b.fntrait]

(* The driver's loop, between two solves: it stops when no call was        *)
(* resolved, and otherwise takes the calls and adds what they make         *)
(* reachable to the PAG.                                                   *)
Driver(b) ==
  /\ phase = "driver"
  /\ new_calls \cup new_call_instances # {}
  /\ Acceptable(b)
  /\ AddBatch(b)
  /\ taken_calls' = taken_calls \cup new_calls
  /\ taken_instances' = taken_instances \cup new_call_instances
  /\ new_calls' = {} /\ new_call_instances' = {}
  /\ phase' = "addr"
  /\ UNCHANGED <<ptVars, cur, base, todo>>

Finished == phase = "driver" /\ new_calls \cup new_call_instances = {}
AnalysisEnd == Finished /\ UNCHANGED vars

(* The driver has built the PAG of the entry point's functions.            *)
Init ==
  \E b \in Batches :
    /\ addr_edges = b.addr /\ addr_queue = b.addr
    /\ direct_edges = b.direct /\ inter_queue = b.inter
    /\ load_edges = b.load /\ store_edges = b.store
    /\ gep_edges = b.gep /\ offset_edges = b.offset
    /\ assoc_calls = [instance |-> b.instance, dispatch |-> b.dispatch,
                      fnptr |-> b.fnptr, fntrait |-> b.fntrait]
    /\ diff = [v \in Node |-> {}] /\ propa = [v \in Node |-> {}]
    /\ worklist = <<>>
    /\ phase = "addr" /\ cur = None /\ base = {} /\ todo = {}
    /\ new_calls = {} /\ new_call_instances = {} 
    /\ taken_calls = {} /\ taken_instances = {}

ProcessNode ==
  \/ PopNode
  \/ ProcessDirect
  \/ HandleLoad \/ ProcessLoad
  \/ HandleStore \/ ProcessStore
  \/ HandleGep \/ ProcessGep
  \/ HandleOffset \/ ProcessOffset
  \/ HandleStaticDispatchInstanceCall
  \/ HandleDynamicDispatchCall
  \/ HandleFnptrCall \/ ProcessFnptrCall
  \/ HandleDynamicFntraitCall \/ ProcessDynamicFntraitCall
  \/ HandlersDone
  \/ Flush

SolveWorklist ==
  \/ ProcessAddr \/ AddrEdgesDone
  \/ ProcessInterProc \/ InterProcEdgesDone
  \/ ProcessNode
  \/ SolveDone

Next == SolveWorklist \/ (\E b \in Batches : Driver(b)) \/ AnalysisEnd

(* One thread runs the solver; nothing blocks it.                          *)
Spec == Init /\ [][Next]_vars /\ WF_vars(SolveWorklist)

-----------------------------------------------------------------------------
TypeOK ==
  /\ addr_edges \subseteq Node \X Node /\ addr_queue \subseteq addr_edges
  /\ direct_edges \subseteq Node \X Node /\ inter_queue \subseteq direct_edges
  /\ load_edges \subseteq Node \X Proj \X Node
  /\ store_edges \subseteq Node \X Proj \X Node
  /\ gep_edges \subseteq Node \X Proj \X Node
  /\ offset_edges \subseteq Node \X Node
  /\ assoc_calls \in [instance : SUBSET (Node \X CallSite \X Func),
                      dispatch : SUBSET (Node \X CallSite),
                      fnptr : SUBSET (Node \X CallSite),
                      fntrait : SUBSET (Node \X CallSite)]
  /\ diff \in [Node -> SUBSET Node] /\ propa \in [Node -> SUBSET Node]
  /\ worklist \in Seq(Node)
  /\ phase \in Phases /\ base \subseteq Node
  /\ cur \in Node \cup {None}
  /\ phase \in {"driver", "addr", "inter", "pop"} <=> cur = None
  /\ phase = "direct" => todo \subseteq {e \in direct_edges : e[1] = cur}
  /\ phase = "load" => todo \subseteq {e \in load_edges : e[1] = cur} \X Node
  /\ phase = "store" => todo \subseteq {e \in store_edges : e[3] = cur} \X Node
  /\ phase = "gep" => todo \subseteq {e \in gep_edges : e[1] = cur}
  /\ phase = "offset" => todo \subseteq {e \in offset_edges : e[1] = cur}
  /\ phase \in {"fnptr", "fntrait"} =>
       todo \subseteq {"fnptr", "fntrait"} \X CallSite \X Node
  /\ phase \notin LoopPhases => todo = {}
  /\ new_calls \cup taken_calls \subseteq CallSite \X Func
  /\ new_call_instances \cup taken_instances \subseteq CallSite \X Node \X Func

(* DiffPTData: an object is never both new and propagated, so nothing is   *)
(* handed on twice.                                                        *)
DiffPropaDisjoint == \A v \in Node : diff[v] \cap propa[v] = {}

(* A node with objects that are still to be propagated is in the worklist  *)
(* or in process_node: solve_worklist cannot end and forget it.            *)
InWorklist(v) == \E i \in 1..Len(worklist) : worklist[i] = v
Scheduled(v) == v = cur \/ InWorklist(v)
DiffIsScheduled == \A v \in Node : diff[v] # {} => Scheduled(v)

(* While a node is processed its diff set stays what it was when it was    *)
(* popped, so that the handlers, which read it one after the other, see    *)
(* the same objects and flush marks as propagated only what they handled.  *)
DiffStable == cur # None => diff[cur] = base

(* The discipline of the difference sets in full: what flush, add_pts and  *)
(* the worklist must keep up between them (propagator.rs:111-154,          *)
(* pt_data.rs:181-277) so that every object passes every handler once.     *)
DiffDisciplined == DiffPropaDisjoint /\ DiffIsScheduled /\ DiffStable

(* Object o of node v has been through the loop of handler ph, as item x:  *)
(* it is marked as propagated, or it was popped with v and that loop has   *)
(* visited x or has ended.                                                 *)
CallPhases == {"instance", "dispatch", "fnptr", "fntrait", "flush"}
After == [direct |-> {"load", "store", "gep", "offset"} \cup CallPhases,
          load |-> {"store", "gep", "offset"} \cup CallPhases,
          store |-> {"gep", "offset"} \cup CallPhases,
          gep |-> {"offset"} \cup CallPhases,
          offset |-> CallPhases,
          instance |-> CallPhases \ {"instance"},
          dispatch |-> {"fnptr", "fntrait", "flush"},
          fnptr |-> {"fntrait", "flush"},
          fntrait |-> {"flush"}]
Visited(v, ph, x, o) ==
  \/ o \in propa[v]
  \/ /\ v = cur /\ o \in base
     /\ phase \in After[ph] \/ (phase = ph /\ x \notin todo)

(* At every moment, inside the handlers too, whatever a handler has been   *)
(* through satisfies the rule of its kind of edge: no edge that a handler  *)
(* adds while another is half way can make what was passed on incomplete.  *)
AddrHandled ==
  \A e \in addr_edges : e[1] \in Pts(e[2]) \/ (phase = "addr" /\ e \in addr_queue)
DirectHandled ==
  \A e \in direct_edges \ inter_queue : \A o \in Node :
    Visited(e[1], "direct", e, o) /\ <<e[1], e[2], o>> \notin Filtered
      => o \in Pts(e[2])
LoadHandled ==
  \A e \in load_edges : \A o \in Node :
    Visited(e[1], "load", <<e, o>>, o) => <<Field[o, e[2]], e[3]>> \in direct_edges
StoreHandled ==
  \A e \in store_edges : \A o \in Node :
    Visited(e[3], "store", <<e, o>>, o) => <<e[1], Field[o, e[2]]>> \in direct_edges
GepHandled ==
  \A e \in gep_edges : \A o \in Node :
    Visited(e[1], "gep", e, o) => Field[o, e[2]] \in Pts(e[3])
OffsetHandled ==
  \A e \in offset_edges : \A o \in Node :
    Visited(e[1], "offset", e, o) /\ <<e[1], e[2], o>> \notin Filtered
      => o \in Pts(e[2])
EdgesHandled == /\ AddrHandled /\ DirectHandled /\ LoadHandled
                /\ StoreHandled /\ GepHandled /\ OffsetHandled

(* The abstract machine of inclusion-based analysis, read off this state.  *)
Constraints == INSTANCE InclusionConstraints WITH
  pts <- [v \in Node |-> Pts(v)], flow <- direct_edges,
  addr <- addr_edges, load <- load_edges, store <- store_edges,
  gep <- gep_edges, offset <- offset_edges,
  solving <- phase # "driver", Refs <- ClosureRefs

(* When solve_worklist returns, the points-to sets satisfy every           *)
(* constraint of the PAG as it then is (the comments above process_load    *)
(* and process_store, and the rule of each other kind of edge).            *)
Solved == phase = "driver" => Constraints!Solution

(* In the same way the calls resolved by what a handler has been through   *)
(* have been reported, or are in the rest of the loop that resolves the    *)
(* calls of a function pointer.                                            *)
AllCalls == new_calls \cup taken_calls
AllInstances == new_call_instances \cup taken_instances
InstanceHandled ==
  \A c \in assoc_calls.instance : \A o \in Node :
    Visited(c[1], "instance", c, o) => <<c[2], o, c[3]>> \in AllInstances
DispatchHandled ==
  \A c \in assoc_calls.dispatch : \A o \in Node :
    Visited(c[1], "dispatch", c, o) => Devirtualized(c[2], {o}) \subseteq AllInstances
FnptrHandled ==
  \A c \in assoc_calls.fnptr : \A o \in Node :
    Visited(c[1], "fnptr", <<"fnptr", c[2], o>>, o) /\ FnCallee[o] # None
      => \/ <<c[2], FnCallee[o]>> \in AllCalls
         \/ phase \in {"fnptr", "fntrait"} /\ <<"fnptr", c[2], o>> \in todo
FntraitHandled ==
  \A c \in assoc_calls.fntrait : \A o \in Node :
    Visited(c[1], "fntrait", <<"fntrait", c[2], o>>, o) =>
      IF o \in FnPtrObj THEN <<o, Unpack[c[2]]>> \in assoc_calls.fnptr
      ELSE IF FnCallee[o] # None THEN <<Unpack[c[2]], FnCallee[o]>> \in AllCalls
      ELSE Devirtualized(c[2], {o}) \subseteq AllInstances
CallsHandled == InstanceHandled /\ DispatchHandled /\ FnptrHandled /\ FntraitHandled

(* Edges and calls: nothing that a loop of process_node has been through   *)
(* is incomplete (propagator.rs:140-326, 328-690).                         *)
Handled == EdgesHandled /\ CallsHandled

(* When solve_worklist returns, every call that the points-to sets resolve *)
(* has been reported to the driver, in this solve or an earlier one.       *)
FnptrResolved ==
  \A c \in assoc_calls.fnptr : \A o \in Pts(c[1]) :
    FnCallee[o] # None => <<c[2], FnCallee[o]>> \in AllCalls
FntraitResolved ==
  \A c \in assoc_calls.fntrait : \A o \in Pts(c[1]) :
    IF o \in FnPtrObj THEN <<o, Unpack[c[2]]>> \in assoc_calls.fnptr
    ELSE IF FnCallee[o] # None THEN <<Unpack[c[2]], FnCallee[o]>> \in AllCalls
    ELSE Devirtualized(c[2], {o}) \subseteq AllInstances
CallsResolved ==
  phase = "driver" =>
    /\ \A c \in assoc_calls.instance : \A o \in Pts(c[1]) :
          <<c[2], o, c[3]>> \in AllInstances
    /\ \A c \in assoc_calls.dispatch :
          Devirtualized(c[2], Pts(c[1])) \subseteq AllInstances
    /\ FnptrResolved
    /\ FntraitResolved

(* What the driver relies on when solve_worklist returns: a solution of    *)
(* all constraints, and no resolvable call missing (propagator.rs:111-117, *)
(* andersen.rs:246-265).                                                   *)
Complete == Solved /\ CallsResolved

(* The comment on Propagator.new_calls: when the first parameter of a      *)
(* resolved function is &self, "we also add all the pointed-to objects of  *)
(* self into new_call_instances".                                          *)
SelfReceiversReported ==
  phase = "driver" =>
    \A c \in AllCalls : c[2] \in HasSelfRef =>
      \A o \in Pts(SelfRef[c[1]]) : <<c[1], o, c[2]>> \in AllInstances

(* Every solve ends, whatever it was given: the worklist empties.          *)
SolveTerminates == phase # "driver" ~> phase = "driver"

(* The precision of the result: the solver only ever adds what a rule of   *)
(* inclusion-based analysis derives, and returns with a solution.          *)
ImplementsInclusionConstraints == Constraints!Spec
=============================================================================
