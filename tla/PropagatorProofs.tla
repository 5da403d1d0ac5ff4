-------------------------- MODULE PropagatorProofs --------------------------
(***************************************************************************)
(* Proofs about Propagator for every program and every order of its loops. *)
(***************************************************************************)
EXTENDS Propagator, SequenceTheorems, TLAPS

(* What the solver's invariants need to know of a driver, this module's    *)
(* own or AndersenPTA: between two solves it extends the PAG by a batch    *)
(* that the contract accepts and starts the next solve, and it takes calls *)
(* that have been reported, in any portions.                               *)
Extends(b) ==
  /\ phase = "driver" /\ phase' = "addr"
  /\ WellFormed(b) /\ Acceptable(b) /\ AddBatch(b)
  /\ AllCalls' = AllCalls /\ AllInstances' = AllInstances
  /\ UNCHANGED <<ptVars, cur, base, todo>>
Takes ==
  /\ UNCHANGED <<graphVars, direct_edges, ptVars, assoc_calls, addrVars, inter_queue, ctlVars>>
  /\ AllCalls' = AllCalls /\ AllInstances' = AllInstances
Step == SolveWorklist \/ (\E b \in Batch : Extends(b)) \/ Takes

(* The driver of Propagator takes such steps.                              *)
LEMMA NextIsStep == [Next]_vars => Step
<1>1. CASE SolveWorklist BY <1>1 DEF Step
<1>2. CASE \E b \in Batches : Driver(b)
  <2> PICK b \in Batches : Driver(b) BY <1>2
  <2>1. b \in Batch /\ WellFormed(b) BY BatchAssumption
  <2>2. Extends(b) BY <2>1 DEF Driver, Extends, AllCalls, AllInstances
  <2> QED BY <2>1, <2>2 DEF Step
<1>3. CASE UNCHANGED vars
  BY <1>3 DEF Step, Takes, vars, callVars, takenVars, AllCalls, AllInstances
<1> QED BY <1>1, <1>2, <1>3 DEF Next, AnalysisEnd

(* DiffPTData::add_pts puts the objects that were not propagated yet into  *)
(* the diff set of one node, and touches no other set.                     *)
LEMMA AddPtsEffect ==
  ASSUME TypeOK, NEW v \in Node, NEW S \in SUBSET Node, AddPts(v, S)
  PROVE  /\ diff' \in [Node -> SUBSET Node]
         /\ propa' = propa
         /\ worklist' \in Seq(Node)
         /\ diff'[v] = diff[v] \cup (S \ propa[v])
         /\ \A u \in Node \ {v} : diff'[u] = diff[u]
BY DEF AddPts, TypeOK

(* A new edge of a load or a store only adds: one direct edge, and new     *)
(* objects at its target.                                                  *)
LEMMA ConnectEffect ==
  ASSUME TypeOK, NEW s \in Node, NEW d \in Node, ConnectAndPropagate(s, d)
  PROVE  /\ diff' \in [Node -> SUBSET Node]
         /\ propa' = propa
         /\ worklist' \in Seq(Node)
         /\ direct_edges' = direct_edges \cup {<<s, d>>}
         /\ direct_edges \subseteq direct_edges' /\ direct_edges' \in SUBSET (Node \X Node)
<1>1. CASE <<s, d>> \in direct_edges
  BY <1>1 DEF ConnectAndPropagate, TypeOK, ptVars
<1>2. CASE <<s, d>> \notin direct_edges
  <2>1. Flow(s, d, Pts(s)) \in SUBSET Node
    BY DEF Flow, Pts, TypeOK
  <2>2. AddPts(d, Flow(s, d, Pts(s))) /\ direct_edges' = direct_edges \cup {<<s, d>>}
    BY <1>2 DEF ConnectAndPropagate, PropagateAll
  <2>3. direct_edges \subseteq direct_edges' /\ direct_edges' \in SUBSET (Node \X Node)
    BY <2>2 DEF TypeOK
  <2> QED BY <2>1, <2>2, <2>3, AddPtsEffect
<1> QED BY <1>1, <1>2

(* Resolving a trait-object call yields call sites, receivers and methods. *)
LEMMA DevirtualizedType ==
  ASSUME NEW cs \in CallSite, NEW S \in SUBSET Node
  PROVE  Devirtualized(cs, S) \subseteq CallSite \X Node \X Func
<1> SUFFICES ASSUME NEW o \in S, DynCallee[cs, o] # None
             PROVE  <<cs, o, DynCallee[cs, o]>> \in CallSite \X Node \X Func
  BY DEF Devirtualized
<1>1. <<cs, o>> \in CallSite \X Node
  OBVIOUS
<1>2. DynCallee[cs, o] \in Func
  BY <1>1, CallAssumption
<1> QED BY <1>2

(* add_new_call keeps the types of the two lists of resolved calls.        *)
LEMMA AddNewCallType ==
  ASSUME TypeOK, NEW cs \in CallSite, NEW f \in Func, AddNewCall(cs, f)
  PROVE  /\ new_calls' \cup taken_calls \subseteq CallSite \X Func
         /\ new_call_instances' \cup taken_instances \subseteq CallSite \X Node \X Func
<1>1. {<<cs, o, f>> : o \in propa[SelfRef[cs]]} \subseteq CallSite \X Node \X Func
  BY CallAssumption DEF TypeOK
<1> QED BY <1>1 DEF AddNewCall, TypeOK

(* An iteration that only adds objects and direct edges preserves the      *)
(* types.                                                                  *)
LEMMA IterateType ==
  ASSUME TypeOK, NEW ph \in Phases, NEW x, Iterate(ph, x),
         diff' \in [Node -> SUBSET Node], propa' = propa, worklist' \in Seq(Node),
         direct_edges \subseteq direct_edges', direct_edges' \in SUBSET (Node \X Node)
  PROVE  TypeOK'
BY DEF TypeOK, Iterate, graphVars, callVars, takenVars, addrVars

(* The diff sets that a step leaves as they are.                           *)
LEMMA AddPtsElsewhere ==
  ASSUME TypeOK, NEW v \in Node, NEW S \in SUBSET Node, AddPts(v, S),
         NEW u \in Node, u # v
  PROVE  diff'[u] = diff[u]
BY AddPtsEffect

(* Adding objects that are in the diff set already changes no diff set: a  *)
(* handler may feed its own node what it is handling.                      *)
LEMMA AddPtsKnown ==
  ASSUME TypeOK, NEW v \in Node, NEW S, S \subseteq diff[v], AddPts(v, S)
  PROVE  diff' = diff
<1>1. diff[v] \cup (S \ propa[v]) = diff[v]
  OBVIOUS
<1> QED BY <1>1 DEF AddPts, TypeOK

(* The edge of a load or a store adds objects at its target only.          *)
LEMMA ConnectElsewhere ==
  ASSUME TypeOK, NEW s \in Node, NEW d \in Node, ConnectAndPropagate(s, d),
         NEW u \in Node, u # d
  PROVE  diff'[u] = diff[u]
<1>1. Flow(s, d, Pts(s)) \in SUBSET Node
  BY DEF Flow, Pts, TypeOK
<1> QED BY <1>1, AddPtsEffect DEF ConnectAndPropagate, PropagateAll, ptVars

(* The iterations of process_node in terms of the item they visit.         *)
LEMMA LoadItem ==
  ASSUME TypeOK, ProcessLoad
  PROVE  \E e \in load_edges, o \in Node :
           /\ e[1] = cur /\ <<e, o>> \in todo /\ Iterate("load", <<e, o>>)
           /\ ConnectAndPropagate(Field[o, e[2]], e[3])
           /\ e[1] \in Node /\ e[2] \in Proj /\ e[3] \in Node /\ Field[o, e[2]] \in Node
<1> PICK x \in todo : Iterate("load", x) /\ ConnectAndPropagate(Field[x[2], x[1][2]], x[1][3])
  BY DEF ProcessLoad
<1>1. todo \subseteq {e \in load_edges : e[1] = cur} \X Node
  BY DEF Iterate, TypeOK
<1>2. PICK e \in load_edges, o \in Node : x = <<e, o>> /\ e[1] = cur
  BY ONLY <1>1, x \in todo
<1>3. e \in Node \X Proj \X Node BY DEF TypeOK
<1>4. e[1] \in Node /\ e[2] \in Proj /\ e[3] \in Node BY ONLY <1>3
<1>5. Field[o, e[2]] \in Node BY <1>4, NodeAssumption
<1> QED BY <1>2, <1>4, <1>5

(* An iteration of process_store visits a store edge into the current      *)
(* node.                                                                   *)
LEMMA StoreItem ==
  ASSUME TypeOK, ProcessStore
  PROVE  \E e \in store_edges, o \in Node :
           /\ e[3] = cur /\ <<e, o>> \in todo /\ Iterate("store", <<e, o>>)
           /\ ConnectAndPropagate(e[1], Field[o, e[2]])
           /\ e[1] \in Node /\ e[2] \in Proj /\ e[3] \in Node /\ Field[o, e[2]] \in Node
<1> PICK x \in todo : Iterate("store", x) /\ ConnectAndPropagate(x[1][1], Field[x[2], x[1][2]])
  BY DEF ProcessStore
<1>1. todo \subseteq {e \in store_edges : e[3] = cur} \X Node
  BY DEF Iterate, TypeOK
<1>2. PICK e \in store_edges, o \in Node : x = <<e, o>> /\ e[3] = cur
  BY ONLY <1>1, x \in todo
<1>3. e \in Node \X Proj \X Node BY DEF TypeOK
<1>4. e[1] \in Node /\ e[2] \in Proj /\ e[3] \in Node BY ONLY <1>3
<1>5. Field[o, e[2]] \in Node BY <1>4, NodeAssumption
<1> QED BY <1>2, <1>4, <1>5

(* An iteration of process_gep visits a gep edge of the current node.      *)
LEMMA GepItem ==
  ASSUME TypeOK, ProcessGep
  PROVE  \E e \in gep_edges :
           /\ e[1] = cur /\ e \in todo /\ Iterate("gep", e) /\ UNCHANGED direct_edges
           /\ AddPts(e[3], {Field[o, e[2]] : o \in diff[cur]})
           /\ e[3] \in Node /\ {Field[o, e[2]] : o \in diff[cur]} \in SUBSET Node
<1> PICK e \in todo : /\ Iterate("gep", e) /\ UNCHANGED direct_edges
                      /\ AddPts(e[3], {Field[o, e[2]] : o \in diff[cur]})
  BY DEF ProcessGep
<1>1. e \in gep_edges /\ e[1] = cur /\ diff[cur] \subseteq Node
  BY DEF Iterate, TypeOK
<1>2. e \in Node \X Proj \X Node BY <1>1 DEF TypeOK
<1>3. e[2] \in Proj /\ e[3] \in Node BY ONLY <1>2
<1>4. \A o \in Node : Field[o, e[2]] \in Node BY <1>3, NodeAssumption
<1>5. {Field[o, e[2]] : o \in diff[cur]} \in SUBSET Node BY ONLY <1>1, <1>4
<1> QED BY <1>1, <1>3, <1>5

(* An iteration of handle_direct visits a direct edge of the current node. *)
LEMMA DirectItem ==
  ASSUME TypeOK, ProcessDirect
  PROVE  \E e \in direct_edges :
           /\ e[1] = cur /\ e \in todo /\ Iterate("direct", e) /\ UNCHANGED direct_edges
           /\ PropagateDiff(e[1], e[2]) /\ e[1] \in Node /\ e[2] \in Node
BY DEF ProcessDirect, Iterate, TypeOK

(* An iteration of handle_offset visits an offset edge of the current      *)
(* node.                                                                   *)
LEMMA OffsetItem ==
  ASSUME TypeOK, ProcessOffset
  PROVE  \E e \in offset_edges :
           /\ e[1] = cur /\ e \in todo /\ Iterate("offset", e) /\ UNCHANGED direct_edges
           /\ PropagateDiff(e[1], e[2]) /\ e[1] \in Node /\ e[2] \in Node
BY DEF ProcessOffset, Iterate, TypeOK

(* An iteration of the function-pointer handlers visits a site and an      *)
(* object.                                                                 *)
LEMMA CallItem ==
  ASSUME TypeOK, ProcessFnptrCall \/ ProcessDynamicFntraitCall
  PROVE  \A x \in todo : x[1] \in {"fnptr", "fntrait"} /\ x[2] \in CallSite /\ x[3] \in Node
<1>1. todo \subseteq {"fnptr", "fntrait"} \X CallSite \X Node
  BY DEF ProcessFnptrCall, ProcessDynamicFntraitCall, CallIteration, TypeOK
<1> QED BY ONLY <1>1

(* Every step of the solver and of its driver preserves the types.         *)
LEMMA TypeInv == TypeOK /\ Step => TypeOK'
<1> SUFFICES ASSUME TypeOK, Step PROVE TypeOK'
  OBVIOUS
<1> USE NodeAssumption, CallAssumption DEF graphVars, addrVars, callVars, takenVars, ctlVars, Phases, LoopPhases
<1>1. CASE ProcessAddr
  <2> PICK e \in addr_queue : AddPts(e[2], {e[1]}) /\ addr_queue' = addr_queue \ {e}
    BY <1>1 DEF ProcessAddr
  <2>1. e[2] \in Node /\ {e[1]} \in SUBSET Node BY DEF TypeOK
  <2> QED BY <1>1, <2>1, AddPtsEffect DEF ProcessAddr, TypeOK
<1>2. CASE AddrEdgesDone
  BY <1>2 DEF AddrEdgesDone, ptVars, TypeOK
<1>3. CASE ProcessInterProc
  <2> PICK e \in inter_queue : PropagateAll(e[1], e[2]) /\ inter_queue' = inter_queue \ {e}
    BY <1>3 DEF ProcessInterProc
  <2>1. e[2] \in Node /\ Flow(e[1], e[2], Pts(e[1])) \in SUBSET Node
    BY DEF TypeOK, Flow, Pts
  <2> QED BY <1>3, <2>1, AddPtsEffect DEF PropagateAll, ProcessInterProc, TypeOK
<1>4. CASE InterProcEdgesDone
  BY <1>4 DEF InterProcEdgesDone, ptVars, TypeOK
<1>5. CASE PopNode
  <2>1. Head(worklist) \in Node /\ Tail(worklist) \in Seq(Node)
    BY <1>5 DEF PopNode, TypeOK
  <2>2. /\ phase' = "direct" /\ cur' \in Node /\ base' \subseteq Node
        /\ todo' = {e \in direct_edges : e[1] = cur'}
    BY <1>5, <2>1 DEF PopNode, TypeOK
  <2> QED BY <1>5, <2>1, <2>2 DEF PopNode, TypeOK
<1>6. CASE SolveDone
  BY <1>6 DEF SolveDone, ptVars, TypeOK
<1>7. CASE HandleLoad
  BY <1>7 DEF HandleLoad, Enter, ptVars, TypeOK
<1>8. CASE HandleStore
  BY <1>8 DEF HandleStore, Enter, ptVars, TypeOK
<1>9. CASE HandleGep
  BY <1>9 DEF HandleGep, Enter, ptVars, TypeOK
<1>10. CASE HandleOffset
  BY <1>10 DEF HandleOffset, Enter, ptVars, TypeOK
<1>11. CASE ProcessDirect
  <2> PICK e \in direct_edges : /\ Iterate("direct", e) /\ UNCHANGED direct_edges
                                /\ PropagateDiff(e[1], e[2]) /\ e[1] \in Node /\ e[2] \in Node
    BY <1>11, DirectItem
  <2>1. Flow(e[1], e[2], diff[e[1]]) \in SUBSET Node
    BY DEF TypeOK, Flow
  <2> QED BY <2>1, AddPtsEffect, IterateType DEF PropagateDiff, TypeOK
<1>12. CASE ProcessLoad
  BY <1>12, LoadItem, ConnectEffect, IterateType
<1>13. CASE ProcessStore
  BY <1>13, StoreItem, ConnectEffect, IterateType
<1>14. CASE ProcessGep
  BY <1>14, GepItem, AddPtsEffect, IterateType DEF TypeOK
<1>15. CASE ProcessOffset
  <2> PICK e \in offset_edges : /\ Iterate("offset", e) /\ UNCHANGED direct_edges
                                /\ PropagateDiff(e[1], e[2]) /\ e[1] \in Node /\ e[2] \in Node
    BY <1>15, OffsetItem
  <2>1. Flow(e[1], e[2], diff[e[1]]) \in SUBSET Node
    BY DEF TypeOK, Flow
  <2> QED BY <2>1, AddPtsEffect, IterateType DEF PropagateDiff, TypeOK
<1>16. CASE HandleStaticDispatchInstanceCall
  <2>1. {<<c[2], o, c[3]>> : c \in {x \in assoc_calls.instance : x[1] = cur}, o \in diff[cur]}
          \subseteq CallSite \X Node \X Func
    BY <1>16 DEF TypeOK, HandleStaticDispatchInstanceCall, Enter
  <2> QED BY <1>16, <2>1 DEF HandleStaticDispatchInstanceCall, Enter, ptVars, TypeOK
<1>17. CASE HandleDynamicDispatchCall
  <2>1. diff[cur] \subseteq Node /\ Sites(assoc_calls.dispatch) \subseteq CallSite
    BY <1>17 DEF TypeOK, HandleDynamicDispatchCall, Enter, Sites
  <2>2. \A cs \in CallSite : Devirtualized(cs, diff[cur]) \subseteq CallSite \X Node \X Func
    BY <2>1, DevirtualizedType
  <2>3. UNION {Devirtualized(cs, diff[cur]) : cs \in Sites(assoc_calls.dispatch)}
          \subseteq CallSite \X Node \X Func
    BY <2>1, <2>2
  <2> QED BY <1>17, <2>3 DEF HandleDynamicDispatchCall, Enter, ptVars, TypeOK
<1>18. CASE HandleFnptrCall
  <2>1. diff[cur] \subseteq Node /\ Sites(assoc_calls.fnptr) \subseteq CallSite
    BY <1>18 DEF TypeOK, HandleFnptrCall, Enter, Sites
  <2>2. {"fnptr"} \X Sites(assoc_calls.fnptr) \X diff[cur]
          \subseteq {"fnptr", "fntrait"} \X CallSite \X Node
    BY ONLY <2>1
  <2> QED BY <1>18, <2>2 DEF HandleFnptrCall, Enter, ptVars, TypeOK
<1>19. CASE HandleDynamicFntraitCall
  <2>1. diff[cur] \subseteq Node /\ Sites(assoc_calls.fntrait) \subseteq CallSite
    BY <1>19 DEF TypeOK, HandleDynamicFntraitCall, Enter, Sites
  <2>2. {"fntrait"} \X Sites(assoc_calls.fntrait) \X diff[cur]
          \subseteq {"fnptr", "fntrait"} \X CallSite \X Node
    BY ONLY <2>1
  <2> QED BY <1>19, <2>2 DEF HandleDynamicFntraitCall, Enter, ptVars, TypeOK
<1>20. CASE HandlersDone
  BY <1>20 DEF HandlersDone, Enter, ptVars, TypeOK
<1>21. CASE ProcessFnptrCall
  <2> PICK x \in todo :
         /\ x[1] = "fnptr" /\ CallIteration(todo \ {x}) /\ UNCHANGED assoc_calls
         /\ IF FnCallee[x[3]] = None
            THEN UNCHANGED <<new_calls, new_call_instances, ptVars, addrVars>>
            ELSE /\ AddNewCall(x[2], FnCallee[x[3]])
                 /\ IF ClosureRef[x[2], x[3]] = None
                    THEN UNCHANGED <<ptVars, addrVars>>
                    ELSE /\ AddPts(ClosureRef[x[2], x[3]], {x[3]})
                         /\ addr_edges' = addr_edges \cup {<<x[3], ClosureRef[x[2], x[3]]>>}
                         /\ addr_queue' = addr_queue \cup
                              ({<<x[3], ClosureRef[x[2], x[3]]>>} \ addr_edges)
    BY <1>21 DEF ProcessFnptrCall
  <2>1. x[2] \in CallSite /\ x[3] \in Node
    BY <1>21, CallItem
  <2>2. ClosureRef[x[2], x[3]] \in Node \cup {None} /\ FnCallee[x[3]] \in Func \cup {None}
    BY <2>1
  <2>3. /\ new_calls' \cup taken_calls \subseteq CallSite \X Func
        /\ new_call_instances' \cup taken_instances \subseteq CallSite \X Node \X Func
    <3>1. CASE FnCallee[x[3]] = None BY <3>1 DEF TypeOK
    <3>2. CASE FnCallee[x[3]] # None
      BY <2>1, <2>2, <3>2, AddNewCallType
    <3> QED BY <3>1, <3>2
  <2>4. /\ diff' \in [Node -> SUBSET Node] /\ propa' = propa /\ worklist' \in Seq(Node)
        /\ addr_edges' \subseteq Node \X Node /\ addr_queue' \subseteq addr_edges'
    <3>1. CASE UNCHANGED <<ptVars, addrVars>> BY <3>1 DEF TypeOK, ptVars
    <3>2. CASE ~UNCHANGED <<ptVars, addrVars>>
      <4>1. PICK ref \in Node :
              /\ AddPts(ref, {x[3]})
              /\ addr_edges' = addr_edges \cup {<<x[3], ref>>}
              /\ addr_queue' = addr_queue \cup ({<<x[3], ref>>} \ addr_edges)
        BY <2>2, <3>2
      <4>2. /\ addr_edges' \subseteq Node \X Node /\ addr_queue' \subseteq addr_edges'
        <5>1. addr_edges \subseteq Node \X Node /\ addr_queue \subseteq addr_edges BY DEF TypeOK
        <5> QED BY ONLY <2>1, <4>1, <5>1
      <4> QED BY <2>1, <4>1, <4>2, AddPtsEffect
    <3> QED BY <3>1, <3>2
  <2> QED BY <2>3, <2>4 DEF CallIteration, TypeOK
<1>22. CASE ProcessDynamicFntraitCall
  <2> PICK x \in todo :
         LET cs == x[2]   o == x[3] IN
         \/ /\ CallIteration((todo \ {x}) \cup ({"fnptr"} \X {Unpack[cs]} \X Pts(o)))
            /\ assoc_calls' = [assoc_calls EXCEPT !.fnptr = @ \cup {<<o, Unpack[cs]>>}]
            /\ UNCHANGED <<new_calls, new_call_instances>>
         \/ /\ FnCallee[o] # None
            /\ CallIteration(todo \ {x})
            /\ AddNewCall(Unpack[cs], FnCallee[o])
            /\ UNCHANGED assoc_calls
         \/ /\ CallIteration(todo \ {x})
            /\ new_call_instances' = new_call_instances \cup Devirtualized(cs, {o})
            /\ UNCHANGED <<new_calls, assoc_calls>>
    BY <1>22 DEF ProcessDynamicFntraitCall
  <2>0. UNCHANGED <<ptVars, addrVars>> /\ \E items : CallIteration(items)
    BY <1>22 DEF ProcessDynamicFntraitCall
  <2>1. x[2] \in CallSite /\ x[3] \in Node
    BY <1>22, CallItem
  <2>2. Unpack[x[2]] \in CallSite /\ Pts(x[3]) \subseteq Node /\ FnCallee[x[3]] \in Func \cup {None}
    BY <2>1 DEF Pts, TypeOK
  <2>3. /\ new_calls' \cup taken_calls \subseteq CallSite \X Func
        /\ new_call_instances' \cup taken_instances \subseteq CallSite \X Node \X Func
    <3>1. Devirtualized(x[2], {x[3]}) \subseteq CallSite \X Node \X Func
      BY <2>1, DevirtualizedType
    <3>2. CASE FnCallee[x[3]] # None /\ AddNewCall(Unpack[x[2]], FnCallee[x[3]])
      BY <2>2, <3>2, AddNewCallType
    <3>3. CASE UNCHANGED <<new_calls, new_call_instances>>
      BY <3>3 DEF TypeOK
    <3>4. CASE /\ new_call_instances' = new_call_instances \cup Devirtualized(x[2], {x[3]})
               /\ UNCHANGED new_calls
      BY <3>1, <3>4 DEF TypeOK
    <3> QED BY <3>2, <3>3, <3>4
  <2>4. todo' \subseteq {"fnptr", "fntrait"} \X CallSite \X Node
    <3>1. todo \subseteq {"fnptr", "fntrait"} \X CallSite \X Node
      BY <2>0 DEF CallIteration, TypeOK
    <3>2. {"fnptr"} \X {Unpack[x[2]]} \X Pts(x[3]) \subseteq {"fnptr", "fntrait"} \X CallSite \X Node
      BY ONLY <2>2
    <3> QED BY <3>1, <3>2 DEF CallIteration
  <2>5. assoc_calls' \in [instance : SUBSET (Node \X CallSite \X Func),
                          dispatch : SUBSET (Node \X CallSite),
                          fnptr : SUBSET (Node \X CallSite),
                          fntrait : SUBSET (Node \X CallSite)]
    <3>1. assoc_calls \in [instance : SUBSET (Node \X CallSite \X Func),
                          dispatch : SUBSET (Node \X CallSite),
                          fnptr : SUBSET (Node \X CallSite),
                          fntrait : SUBSET (Node \X CallSite)]
      BY DEF TypeOK
    <3>2. {<<x[3], Unpack[x[2]]>>} \in SUBSET (Node \X CallSite) BY ONLY <2>1, <2>2
    <3>3. CASE UNCHANGED assoc_calls BY ONLY <3>1, <3>3
    <3>4. CASE assoc_calls' = [assoc_calls EXCEPT !.fnptr = @ \cup {<<x[3], Unpack[x[2]]>>}]
      BY ONLY <3>1, <3>2, <3>4
    <3> QED BY <3>3, <3>4
  <2> QED BY <2>0, <2>3, <2>4, <2>5 DEF CallIteration, TypeOK, ptVars
<1>23. CASE Flush
  BY <1>23 DEF Flush, TypeOK
<1>24. CASE \E b \in Batch : Extends(b)
  <2> PICK b \in Batch : Extends(b) BY <1>24
  <2>1. b \in Batch /\ WellFormed(b) BY DEF Extends
  <2>2. addr_queue' \subseteq addr_edges' /\ inter_queue' \subseteq direct_edges'
    BY <2>1 DEF Extends, AddBatch, WellFormed, TypeOK
  <2>3. assoc_calls' \in [instance : SUBSET (Node \X CallSite \X Func),
                          dispatch : SUBSET (Node \X CallSite),
                          fnptr : SUBSET (Node \X CallSite),
                          fntrait : SUBSET (Node \X CallSite)]
    BY <2>1 DEF Extends, AddBatch, Batch, TypeOK
  <2>4. phase = "driver" /\ phase' = "addr" /\ todo' = {} /\ cur' = None
    BY DEF Extends, TypeOK
  <2>5. /\ new_calls' \cup taken_calls' \subseteq CallSite \X Func
        /\ new_call_instances' \cup taken_instances' \subseteq CallSite \X Node \X Func
    BY DEF Extends, TypeOK, AllCalls, AllInstances
  <2> QED BY <2>1, <2>2, <2>3, <2>4, <2>5 DEF Extends, AddBatch, Batch, ptVars, TypeOK
<1>25. CASE Takes
  <2>1. /\ new_calls' \cup taken_calls' \subseteq CallSite \X Func
        /\ new_call_instances' \cup taken_instances' \subseteq CallSite \X Node \X Func
    BY <1>25 DEF Takes, TypeOK, AllCalls, AllInstances
  <2> QED BY <1>25, <2>1 DEF Takes, graphVars, addrVars, ctlVars, ptVars, TypeOK
<1> QED
  BY <1>1, <1>2, <1>3, <1>4, <1>5, <1>6, <1>7, <1>8, <1>9, <1>10, <1>11, <1>12,
     <1>13, <1>14, <1>15, <1>16, <1>17, <1>18, <1>19, <1>20, <1>21, <1>22,
     <1>23, <1>24, <1>25
  DEF Step, SolveWorklist, ProcessNode

-----------------------------------------------------------------------------
(* The transitions of the control state, phase by phase.                   *)
LEMMA StepFrom ==
  ASSUME Step
  PROVE  \/ phase = "driver" /\ \E b \in Batch : Extends(b)
         \/ phase = "addr" /\ (ProcessAddr \/ AddrEdgesDone)
         \/ phase = "inter" /\ (ProcessInterProc \/ InterProcEdgesDone)
         \/ phase = "pop" /\ (PopNode \/ SolveDone)
         \/ phase = "direct" /\ (ProcessDirect \/ HandleLoad)
         \/ phase = "load" /\ (ProcessLoad \/ HandleStore)
         \/ phase = "store" /\ (ProcessStore \/ HandleGep)
         \/ phase = "gep" /\ (ProcessGep \/ HandleOffset)
         \/ phase = "offset" /\ (ProcessOffset \/ HandleStaticDispatchInstanceCall)
         \/ phase = "instance" /\ HandleDynamicDispatchCall
         \/ phase = "dispatch" /\ HandleFnptrCall
         \/ phase = "fnptr" /\ (ProcessFnptrCall \/ ProcessDynamicFntraitCall
                               \/ HandleDynamicFntraitCall)
         \/ phase = "fntrait" /\ (ProcessFnptrCall \/ ProcessDynamicFntraitCall
                                 \/ HandlersDone)
         \/ phase = "flush" /\ Flush
         \/ Takes
<1>1. \A b \in Batch : Extends(b) => phase = "driver"
  BY DEF Extends
<1>2. /\ ProcessAddr \/ AddrEdgesDone => phase = "addr"
      /\ ProcessInterProc \/ InterProcEdgesDone => phase = "inter"
      /\ PopNode \/ SolveDone => phase = "pop"
      /\ Flush => phase = "flush"
  BY DEF ProcessAddr, AddrEdgesDone, ProcessInterProc, InterProcEdgesDone, PopNode,
         SolveDone, Flush
<1>3. /\ HandleLoad => phase = "direct"
      /\ HandleStore => phase = "load"
      /\ HandleGep => phase = "store"
      /\ HandleOffset => phase = "gep"
      /\ HandleStaticDispatchInstanceCall => phase = "offset"
      /\ HandleDynamicDispatchCall => phase = "instance"
      /\ HandleFnptrCall => phase = "dispatch"
      /\ HandleDynamicFntraitCall => phase = "fnptr"
      /\ HandlersDone => phase = "fntrait"
  BY DEF Enter, HandleLoad, HandleStore, HandleGep, HandleOffset,
     HandleStaticDispatchInstanceCall, HandleDynamicDispatchCall, HandleFnptrCall,
     HandleDynamicFntraitCall, HandlersDone
<1>4. /\ ProcessDirect => phase = "direct"
      /\ ProcessLoad => phase = "load"
      /\ ProcessStore => phase = "store"
      /\ ProcessGep => phase = "gep"
      /\ ProcessOffset => phase = "offset"
  BY DEF Iterate, ProcessDirect, ProcessLoad, ProcessStore, ProcessGep, ProcessOffset
<1>5. ProcessFnptrCall \/ ProcessDynamicFntraitCall => phase \in {"fnptr", "fntrait"}
  BY DEF CallIteration, ProcessFnptrCall, ProcessDynamicFntraitCall
<1> QED
  BY <1>1, <1>2, <1>3, <1>4, <1>5 DEF Step, SolveWorklist, ProcessNode

(* What every step does to the points-to data, PopNode and Flush apart:    *)
(* sets grow by objects that were not propagated, and a node whose set     *)
(* grew is in the worklist.                                                *)
Grows ==
  /\ propa' = propa
  /\ \A u \in Node : /\ diff[u] \subseteq diff'[u]
                     /\ diff'[u] \cap propa[u] \subseteq diff[u]
                     /\ diff'[u] # diff[u] => InWorklist(u)'
                     /\ InWorklist(u) => InWorklist(u)'

(* Adding objects shrinks nothing and schedules the node it adds them to.  *)
LEMMA AddPtsGrows ==
  ASSUME TypeOK, NEW v \in Node, NEW S \in SUBSET Node, AddPts(v, S)
  PROVE  Grows
<1>1. propa' = propa
  BY DEF AddPts
<1>2. \A u \in Node : diff[u] \subseteq diff'[u] /\ diff'[u] \cap propa[u] \subseteq diff[u]
  <2> TAKE u \in Node
  <2>1. CASE u = v BY <2>1, AddPtsEffect
  <2>2. CASE u # v BY <2>2, AddPtsEffect
  <2> QED BY <2>1, <2>2
<1>3. \A u \in Node : InWorklist(u) => InWorklist(u)'
  BY DEF AddPts, TypeOK, InWorklist
<1>4. \A u \in Node : diff'[u] # diff[u] => u = v /\ ~ S \subseteq Pts(v)
  <2> SUFFICES ASSUME S \subseteq Pts(v) PROVE \A u \in Node : diff'[u] = diff[u]
    BY AddPtsEffect
  <2>1. diff'[v] = diff[v] BY AddPtsEffect DEF Pts
  <2> QED BY <2>1, AddPtsEffect
<1>5. ~ S \subseteq Pts(v) => InWorklist(v)'
  <2> SUFFICES ASSUME worklist' = Append(worklist, v) PROVE InWorklist(v)'
    BY DEF AddPts
  <2>1. Len(worklist) + 1 \in 1..Len(worklist') /\ worklist'[Len(worklist) + 1] = v
    BY DEF TypeOK
  <2> QED BY <2>1 DEF InWorklist
<1> QED BY <1>1, <1>2, <1>3, <1>4, <1>5 DEF Grows

(* A step that leaves the points-to data alone shrinks nothing.            *)
LEMMA StillGrows == ASSUME TypeOK, UNCHANGED ptVars PROVE Grows
BY DEF Grows, ptVars, InWorklist

(* Propagation along an edge shrinks nothing.                              *)
LEMMA PropagateGrows ==
  ASSUME TypeOK, NEW s \in Node, NEW d \in Node,
         \/ PropagateDiff(s, d) \/ PropagateAll(s, d) \/ ConnectAndPropagate(s, d)
  PROVE  Grows
<1>1. Flow(s, d, diff[s]) \in SUBSET Node /\ Flow(s, d, Pts(s)) \in SUBSET Node
  BY DEF Flow, Pts, TypeOK
<1>2. CASE PropagateDiff(s, d) BY <1>1, <1>2, AddPtsGrows DEF PropagateDiff
<1>3. CASE PropagateAll(s, d) BY <1>1, <1>3, AddPtsGrows DEF PropagateAll
<1>4. CASE ConnectAndPropagate(s, d)
  BY <1>3, <1>4, StillGrows DEF ConnectAndPropagate
<1> QED BY <1>2, <1>3, <1>4

(* Only popping and flushing take anything from the worklist, a diff set   *)
(* or the state of process_node; every other step only adds.               *)
LEMMA Growth ==
  ASSUME TypeOK, Step
  PROVE  PopNode \/ Flush \/ (Grows /\ UNCHANGED <<cur, base>>)
<1> USE DEF ctlVars
<1>1. CASE ProcessAddr
  <2> PICK e \in addr_queue : AddPts(e[2], {e[1]})
    BY <1>1 DEF ProcessAddr
  <2>1. e[2] \in Node /\ {e[1]} \in SUBSET Node BY DEF TypeOK
  <2> QED BY <1>1, <2>1, AddPtsGrows DEF ProcessAddr
<1>2. CASE ProcessInterProc
  <2> PICK e \in inter_queue : PropagateAll(e[1], e[2])
    BY <1>2 DEF ProcessInterProc
  <2>1. e[1] \in Node /\ e[2] \in Node BY DEF TypeOK
  <2> QED BY <1>2, <2>1, PropagateGrows DEF ProcessInterProc
<1>3. CASE ProcessDirect BY <1>3, DirectItem, PropagateGrows DEF Iterate
<1>4. CASE ProcessLoad BY <1>4, LoadItem, PropagateGrows DEF Iterate
<1>5. CASE ProcessStore BY <1>5, StoreItem, PropagateGrows DEF Iterate
<1>6. CASE ProcessGep BY <1>6, GepItem, AddPtsGrows DEF Iterate
<1>7. CASE ProcessOffset BY <1>7, OffsetItem, PropagateGrows DEF Iterate
<1>8. CASE ProcessFnptrCall
  <2>1. CASE UNCHANGED ptVars BY <1>8, <2>1, StillGrows DEF ProcessFnptrCall, CallIteration
  <2>2. CASE ~UNCHANGED ptVars
    <3>1. PICK x \in todo : /\ FnCallee[x[3]] # None /\ ClosureRef[x[2], x[3]] # None
                            /\ AddPts(ClosureRef[x[2], x[3]], {x[3]})
      BY <1>8, <2>2 DEF ProcessFnptrCall
    <3>2. x[2] \in CallSite /\ x[3] \in Node BY <1>8, CallItem
    <3>3. ClosureRef[x[2], x[3]] \in Node BY <3>1, <3>2, CallAssumption
    <3>4. {x[3]} \in SUBSET Node BY <3>2
    <3> QED BY <1>8, <3>1, <3>3, <3>4, AddPtsGrows DEF ProcessFnptrCall, CallIteration
  <2> QED BY <2>1, <2>2
<1>9. CASE ProcessDynamicFntraitCall
  BY <1>9, StillGrows DEF ProcessDynamicFntraitCall, CallIteration
<1>10. CASE \/ AddrEdgesDone \/ InterProcEdgesDone \/ SolveDone
  BY <1>10, StillGrows DEF AddrEdgesDone, InterProcEdgesDone, SolveDone
<1>11. CASE \/ HandleLoad \/ HandleStore \/ HandleGep \/ HandleOffset
            \/ HandleStaticDispatchInstanceCall \/ HandleDynamicDispatchCall
            \/ HandleFnptrCall \/ HandleDynamicFntraitCall \/ HandlersDone
  BY <1>11, StillGrows DEF HandleLoad, HandleStore, HandleGep, HandleOffset,
     HandleStaticDispatchInstanceCall, HandleDynamicDispatchCall, HandleFnptrCall,
     HandleDynamicFntraitCall, HandlersDone, Enter
<1>12. CASE \E b \in Batch : Extends(b)
  BY <1>12, StillGrows DEF Extends
<1>13. CASE Takes
  BY <1>13, StillGrows DEF Takes
<1> QED
  BY <1>1, <1>2, <1>3, <1>4, <1>5, <1>6, <1>7, <1>8, <1>9, <1>10, <1>11, <1>12, <1>13
  DEF Step, SolveWorklist, ProcessNode

-----------------------------------------------------------------------------
(* The inductive invariant: besides the invariants to be proved, that the  *)
(* PAG stays well formed, which objects and nodes a loop visits, and that  *)
(* a queue whose loop has ended is empty.                                  *)
WellFormedPAG ==
  /\ \A e \in load_edges \cup gep_edges : e[1] # e[3]
  /\ \A e \in store_edges, o \in Node :
        Field[o, e[2]] = e[3] => \A x \in Node : <<e[1], e[3], x>> \in Filtered
  /\ \A c \in assoc_calls.fnptr \cup assoc_calls.fntrait : c[1] \notin ClosureRefs
LoopItems ==
  /\ phase \in {"load", "store"} => \A x \in todo : x[2] \in base
  /\ phase \in {"fnptr", "fntrait"} /\ todo # {} => cur \notin ClosureRefs
QueuesDone ==
  /\ phase \notin {"addr", "inter"} => inter_queue = {}
  /\ phase = "driver" => worklist = <<>>
Inv == /\ TypeOK /\ WellFormedPAG /\ LoopItems /\ QueuesDone
       /\ DiffPropaDisjoint /\ DiffIsScheduled /\ DiffStable

(* Edges are never removed, and the loops of a solve add only direct edges *)
(* (loads and stores), closure references and function-pointer sites.      *)
LEMMA EdgesKept ==
  ASSUME TypeOK, Step
  PROVE  /\ addr_edges \subseteq addr_edges' /\ direct_edges \subseteq direct_edges'
         /\ \/ \E b \in Batch : Extends(b)
            \/ /\ UNCHANGED graphVars
               /\ inter_queue' \subseteq inter_queue
               /\ direct_edges' # direct_edges => ProcessLoad \/ ProcessStore
               /\ assoc_calls' # assoc_calls => ProcessDynamicFntraitCall
               /\ UNCHANGED addrVars \/ ProcessAddr \/ ProcessFnptrCall
<1>1. CASE ProcessLoad BY <1>1, LoadItem, ConnectEffect DEF Iterate, callVars, addrVars
<1>2. CASE ProcessStore BY <1>2, StoreItem, ConnectEffect DEF Iterate, callVars, addrVars
<1>3. CASE ProcessFnptrCall
  BY <1>3 DEF ProcessFnptrCall, CallIteration, addrVars
<1>4. CASE ProcessDynamicFntraitCall
  BY <1>4 DEF ProcessDynamicFntraitCall, CallIteration, addrVars
<1>5. CASE \E b \in Batch : Extends(b)
  BY <1>5 DEF Extends, AddBatch
<1>6. CASE \/ ProcessAddr \/ AddrEdgesDone \/ ProcessInterProc \/ InterProcEdgesDone
           \/ PopNode \/ SolveDone \/ Flush
  BY <1>6 DEF ProcessAddr, AddrEdgesDone, ProcessInterProc, InterProcEdgesDone, PopNode,
     SolveDone, Flush, callVars, addrVars
<1>7. CASE \/ HandleLoad \/ HandleStore \/ HandleGep \/ HandleOffset
           \/ HandleStaticDispatchInstanceCall \/ HandleDynamicDispatchCall
           \/ HandleFnptrCall \/ HandleDynamicFntraitCall \/ HandlersDone
  BY <1>7 DEF HandleLoad, HandleStore, HandleGep, HandleOffset,
     HandleStaticDispatchInstanceCall, HandleDynamicDispatchCall, HandleFnptrCall,
     HandleDynamicFntraitCall, HandlersDone, Enter, addrVars, callVars
<1>8. CASE \/ ProcessDirect \/ ProcessGep \/ ProcessOffset
  BY <1>8 DEF ProcessDirect, ProcessGep, ProcessOffset, Iterate, addrVars, callVars
<1>9. CASE Takes
  BY <1>9 DEF Takes, addrVars, callVars
<1> QED
  BY <1>1, <1>2, <1>3, <1>4, <1>5, <1>6, <1>7, <1>8, <1>9
  DEF Step, SolveWorklist, ProcessNode

(* Within a solve, only its own loop takes edges from the inter-procedural *)
(* queue.                                                                  *)
LEMMA InterQueueKept ==
  ASSUME Step
  PROVE  UNCHANGED inter_queue \/ ProcessInterProc \/ \E b \in Batch : Extends(b)
<1>1. CASE \/ ProcessDirect \/ ProcessLoad \/ ProcessStore \/ ProcessGep \/ ProcessOffset
  BY <1>1 DEF ProcessDirect, ProcessLoad, ProcessStore, ProcessGep, ProcessOffset, Iterate
<1>2. CASE \/ HandleLoad \/ HandleStore \/ HandleGep \/ HandleOffset
           \/ HandleStaticDispatchInstanceCall \/ HandleDynamicDispatchCall
           \/ HandleFnptrCall \/ HandleDynamicFntraitCall \/ HandlersDone
  BY <1>2 DEF HandleLoad, HandleStore, HandleGep, HandleOffset,
     HandleStaticDispatchInstanceCall, HandleDynamicDispatchCall, HandleFnptrCall,
     HandleDynamicFntraitCall, HandlersDone, Enter
<1>3. CASE \/ ProcessFnptrCall \/ ProcessDynamicFntraitCall \/ Takes
  BY <1>3 DEF ProcessFnptrCall, ProcessDynamicFntraitCall, CallIteration, Takes
<1>4. CASE \/ ProcessAddr \/ AddrEdgesDone \/ InterProcEdgesDone \/ PopNode \/ SolveDone \/ Flush
  BY <1>4 DEF ProcessAddr, AddrEdgesDone, InterProcEdgesDone, PopNode, SolveDone, Flush
<1> QED BY <1>1, <1>2, <1>3, <1>4 DEF Step, SolveWorklist, ProcessNode

(* The PAG keeps the shape its builder gave it:                            *)
(* process_dynamic_fntrait_call registers sites with function pointers     *)
(* only.                                                                   *)
LEMMA WellFormedInv == Inv /\ Step => WellFormedPAG'
<1> SUFFICES ASSUME Inv, Step PROVE WellFormedPAG'
  OBVIOUS
<1>1. CASE \E b \in Batch : Extends(b)
  <2> PICK b \in Batch : Extends(b) BY <1>1
  <2>1. WellFormed(b) BY DEF Extends
  <2>2. /\ load_edges' = load_edges \cup b.load /\ gep_edges' = gep_edges \cup b.gep
        /\ store_edges' = store_edges \cup b.store
        /\ assoc_calls'.fnptr = assoc_calls.fnptr \cup b.fnptr
        /\ assoc_calls'.fntrait = assoc_calls.fntrait \cup b.fntrait
    BY DEF Extends, AddBatch
  <2> QED BY <2>1, <2>2 DEF Inv, WellFormedPAG, WellFormed
<1>2. CASE ProcessDynamicFntraitCall
  <2>1. /\ UNCHANGED graphVars /\ assoc_calls'.fntrait = assoc_calls.fntrait
        /\ \A c \in assoc_calls'.fnptr \ assoc_calls.fnptr : c[1] \in FnPtrObj
    BY <1>2 DEF ProcessDynamicFntraitCall, CallIteration, Inv, TypeOK
  <2> QED BY <2>1, CallAssumption DEF Inv, WellFormedPAG, graphVars
<1>3. CASE UNCHANGED graphVars /\ UNCHANGED assoc_calls
  BY <1>3 DEF Inv, WellFormedPAG, graphVars
<1> QED BY <1>1, <1>2, <1>3, EdgesKept DEF Inv

(* No step makes an object both new and propagated.                        *)
LEMMA DisjointInv == Inv /\ Step => DiffPropaDisjoint'
<1> SUFFICES ASSUME Inv, Step, NEW v \in Node PROVE diff'[v] \cap propa'[v] = {}
  BY DEF DiffPropaDisjoint
<1>1. diff[v] \cap propa[v] = {} BY DEF Inv, DiffPropaDisjoint
<1>2. CASE PopNode BY <1>1, <1>2 DEF PopNode
<1>3. CASE Flush
  <2>1. cur \in Node /\ diff \in [Node -> SUBSET Node] /\ propa \in [Node -> SUBSET Node]
    BY <1>3 DEF Flush, Inv, TypeOK
  <2>2. diff' = [diff EXCEPT ![cur] = {}] /\ propa' = [propa EXCEPT ![cur] = @ \cup diff[cur]]
    BY <1>3 DEF Flush
  <2> QED BY ONLY <1>1, <2>1, <2>2, v \in Node
<1>4. CASE Grows BY <1>1, <1>4 DEF Grows
<1> QED BY <1>2, <1>3, <1>4, Growth DEF Inv

(* A node that gets new objects, or has some, stays in the worklist or in  *)
(* process_node: popping takes it into process_node, flushing empties its  *)
(* diff set.                                                               *)
LEMMA ScheduledInv == Inv /\ Step => DiffIsScheduled'
<1> SUFFICES ASSUME Inv, Step, NEW v \in Node, diff'[v] # {} PROVE Scheduled(v)'
  BY DEF DiffIsScheduled
<1>1. diff[v] # {} => Scheduled(v) BY DEF Inv, DiffIsScheduled
<1>2. CASE PopNode
  <2>1. /\ worklist \in Seq(Node) /\ worklist # <<>> /\ worklist' = Tail(worklist)
        /\ cur' = Head(worklist) /\ diff' = diff /\ cur = None /\ v # None
    BY <1>2, NodeAssumption DEF PopNode, Inv, TypeOK
  <2>2. PICK i \in 1..Len(worklist) : worklist[i] = v
    BY <1>1, <2>1 DEF Scheduled, InWorklist
  <2>3. CASE i = 1 BY <2>1, <2>2, <2>3 DEF Scheduled
  <2>4. CASE i # 1
    <3>1. i - 1 \in 1..Len(worklist') /\ worklist'[i - 1] = v BY <2>1, <2>2, <2>4
    <3> QED BY <3>1 DEF Scheduled, InWorklist
  <2> QED BY <2>3, <2>4
<1>3. CASE Flush
  <2>1. v # cur /\ diff'[v] = diff[v] BY <1>3 DEF Flush, Inv, TypeOK
  <2> QED BY <1>1, <1>3, <2>1 DEF Flush, Scheduled, InWorklist
<1>4. CASE Grows /\ UNCHANGED cur
  BY <1>1, <1>4 DEF Grows, Scheduled
<1> QED BY <1>2, <1>3, <1>4, Growth DEF Inv

(* The handlers leave the diff set of their own node alone.                *)
LEMMA StableInv == Inv /\ Step => DiffStable'
<1> SUFFICES ASSUME Inv, Step PROVE DiffStable'
  OBVIOUS
<1> USE DEF Inv
<1>0. ASSUME UNCHANGED cur, UNCHANGED base, cur # None => diff'[cur] = diff[cur]
      PROVE  DiffStable'
  BY <1>0 DEF DiffStable
<1>1. CASE PopNode BY <1>1 DEF PopNode, DiffStable
<1>2. CASE Flush BY <1>2 DEF Flush, DiffStable
<1>3. CASE UNCHANGED diff /\ UNCHANGED <<cur, base>> BY <1>0, <1>3
<1>4. CASE cur = None /\ UNCHANGED <<cur, base>> BY <1>0, <1>4
<1>5. CASE ProcessDirect
  <2> PICK e \in direct_edges : /\ e[1] = cur /\ Iterate("direct", e)
                                /\ PropagateDiff(e[1], e[2]) /\ e[1] \in Node /\ e[2] \in Node
    BY <1>5, DirectItem
  <2>1. /\ Flow(e[1], e[2], diff[e[1]]) \in SUBSET Node
        /\ Flow(e[1], e[2], diff[e[1]]) \subseteq diff[cur]
        /\ AddPts(e[2], Flow(e[1], e[2], diff[e[1]])) /\ cur \in Node
    BY DEF TypeOK, Flow, PropagateDiff
  <2>2. CASE e[2] = cur
    <3>1. diff' = diff BY <2>1, <2>2, AddPtsKnown, Zenon
    <3> QED BY <1>3, <3>1 DEF Iterate
  <2>3. CASE e[2] # cur
    <3>1. diff'[cur] = diff[cur] BY <2>1, <2>3, AddPtsElsewhere, Zenon
    <3> QED BY <1>0, <3>1 DEF Iterate
  <2> QED BY <2>2, <2>3
<1>6. CASE ProcessOffset
  <2> PICK e \in offset_edges : /\ e[1] = cur /\ Iterate("offset", e)
                                /\ PropagateDiff(e[1], e[2]) /\ e[1] \in Node /\ e[2] \in Node
    BY <1>6, OffsetItem
  <2>1. /\ Flow(e[1], e[2], diff[e[1]]) \in SUBSET Node
        /\ Flow(e[1], e[2], diff[e[1]]) \subseteq diff[cur]
        /\ AddPts(e[2], Flow(e[1], e[2], diff[e[1]])) /\ cur \in Node
    BY DEF TypeOK, Flow, PropagateDiff
  <2>2. CASE e[2] = cur
    <3>1. diff' = diff BY <2>1, <2>2, AddPtsKnown, Zenon
    <3> QED BY <1>3, <3>1 DEF Iterate
  <2>3. CASE e[2] # cur
    <3>1. diff'[cur] = diff[cur] BY <2>1, <2>3, AddPtsElsewhere, Zenon
    <3> QED BY <1>0, <3>1 DEF Iterate
  <2> QED BY <2>2, <2>3
<1>7. CASE ProcessLoad
  <2> PICK e \in load_edges, o \in Node :
        /\ e[1] = cur /\ Iterate("load", <<e, o>>) /\ ConnectAndPropagate(Field[o, e[2]], e[3])
        /\ e[1] \in Node /\ e[3] \in Node /\ Field[o, e[2]] \in Node
    BY <1>7, LoadItem
  <2>1. cur \in Node /\ e[3] # cur BY DEF WellFormedPAG
  <2>2. TypeOK OBVIOUS
  <2>3. diff'[cur] = diff[cur]
    BY <2>1, <2>2, ConnectElsewhere, Zenon
  <2> QED BY <1>0, <2>3 DEF Iterate
<1>8. CASE ProcessStore
  <2> PICK e \in store_edges, o \in Node :
        /\ e[3] = cur /\ Iterate("store", <<e, o>>) /\ ConnectAndPropagate(e[1], Field[o, e[2]])
        /\ e[1] \in Node /\ e[3] \in Node /\ Field[o, e[2]] \in Node
    BY <1>8, StoreItem
  <2>1. CASE Field[o, e[2]] # cur
    <3>1. cur \in Node OBVIOUS
    <3>2. diff'[cur] = diff[cur] BY <2>1, <3>1, ConnectElsewhere, Zenon
    <3> QED BY <1>0, <3>2 DEF Iterate
  <2>2. CASE Field[o, e[2]] = cur
    <3>1. Flow(e[1], cur, Pts(e[1])) = {} BY <2>2 DEF WellFormedPAG, Flow, Pts, TypeOK
    <3>2. UNCHANGED diff \/ AddPts(cur, {})
      BY <2>2, <3>1 DEF ConnectAndPropagate, PropagateAll, ptVars
    <3>3. diff' = diff
      <4>1. CASE AddPts(cur, {})
        <5>1. cur \in Node /\ {} \subseteq diff[cur] OBVIOUS
        <5> QED BY <4>1, <5>1, AddPtsKnown, Zenon
      <4> QED BY <3>2, <4>1
    <3> QED BY <1>3, <3>3 DEF Iterate
  <2> QED BY <2>1, <2>2
<1>9. CASE ProcessGep
  <2> PICK e \in gep_edges : /\ e[1] = cur /\ Iterate("gep", e) /\ e[3] \in Node
                             /\ AddPts(e[3], {Field[o, e[2]] : o \in diff[cur]})
                             /\ {Field[o, e[2]] : o \in diff[cur]} \in SUBSET Node
    BY <1>9, GepItem
  <2>1. e[3] # cur /\ cur \in Node BY DEF WellFormedPAG, Iterate, TypeOK
  <2>2. diff'[cur] = diff[cur] BY <2>1, AddPtsElsewhere, Zenon
  <2> QED BY <1>0, <2>2 DEF Iterate
<1>10. CASE ProcessFnptrCall
  <2>1. UNCHANGED <<cur, base>> BY <1>10 DEF ProcessFnptrCall, CallIteration
  <2>2. CASE UNCHANGED diff BY <1>3, <2>1, <2>2
  <2>3. CASE ~UNCHANGED diff
    <3>1. PICK x \in todo : /\ FnCallee[x[3]] # None /\ ClosureRef[x[2], x[3]] # None
                            /\ AddPts(ClosureRef[x[2], x[3]], {x[3]})
      BY <1>10, <2>3 DEF ProcessFnptrCall, ptVars
    <3>2. x[2] \in CallSite /\ x[3] \in Node BY <1>10, CallItem
    <3>3. ClosureRef[x[2], x[3]] \in Node /\ ClosureRef[x[2], x[3]] \in ClosureRefs
      BY <3>1, <3>2, CallAssumption DEF ClosureRefs
    <3>4. cur \in Node /\ cur \notin ClosureRefs
      BY <1>10, <3>1 DEF ProcessFnptrCall, CallIteration, LoopItems, TypeOK
    <3>5. diff'[cur] = diff[cur]
      <4>1. {x[3]} \in SUBSET Node BY <3>2
      <4> QED BY <3>1, <3>3, <3>4, <4>1, AddPtsEffect
    <3> QED BY <1>0, <2>1, <3>5
  <2> QED BY <2>2, <2>3
<1>11. CASE \E b \in Batch : Extends(b) BY <1>11, <1>3 DEF Extends, ptVars
<1>12. CASE ProcessAddr \/ ProcessInterProc
  <2>1. cur = None /\ UNCHANGED <<cur, base>>
    BY <1>12 DEF ProcessAddr, ProcessInterProc, ctlVars, TypeOK
  <2> QED BY <1>4, <2>1
<1>13. CASE \/ AddrEdgesDone \/ InterProcEdgesDone \/ SolveDone \/ ProcessDynamicFntraitCall
  BY <1>13, <1>3
  DEF AddrEdgesDone, InterProcEdgesDone, SolveDone, ProcessDynamicFntraitCall, CallIteration, ptVars
<1>14. CASE \/ HandleLoad \/ HandleStore \/ HandleGep \/ HandleOffset
            \/ HandleStaticDispatchInstanceCall \/ HandleDynamicDispatchCall
            \/ HandleFnptrCall \/ HandleDynamicFntraitCall \/ HandlersDone
  BY <1>14, <1>3 DEF HandleLoad, HandleStore, HandleGep, HandleOffset,
     HandleStaticDispatchInstanceCall, HandleDynamicDispatchCall, HandleFnptrCall,
     HandleDynamicFntraitCall, HandlersDone, Enter, ptVars
<1>15. CASE Takes
  BY <1>15, <1>3 DEF Takes, ptVars, ctlVars
<1> QED
  BY <1>1, <1>2, <1>5, <1>6, <1>7, <1>8, <1>9, <1>10, <1>11, <1>12, <1>13, <1>14, <1>15
  DEF Step, SolveWorklist, ProcessNode

(* What is left of a handler's loop stays within the edges and objects     *)
(* that the handler began with.                                            *)
LEMMA LoopItemsInv == Inv /\ Step => LoopItems'
<1> SUFFICES ASSUME Inv, Step PROVE LoopItems'
  OBVIOUS
<1>1. CASE HandleLoad \/ HandleStore
  <2>1. cur # None BY <1>1 DEF HandleLoad, HandleStore, Enter, Inv, TypeOK
  <2>2. diff[cur] = base BY <2>1 DEF Inv, DiffStable
  <2>3. todo' \subseteq (load_edges \cup store_edges) \X base /\ UNCHANGED base
    BY <1>1, <2>2 DEF HandleLoad, HandleStore, Enter
  <2>4. \A x \in todo' : x[2] \in base' BY ONLY <2>3
  <2> QED BY <1>1, <2>4 DEF HandleLoad, HandleStore, Enter, LoopItems
<1>2. CASE HandleFnptrCall
  <2>1. todo' # {} => \E c \in assoc_calls.fnptr : c[1] = cur
    BY <1>2 DEF HandleFnptrCall, Enter, Sites
  <2> QED BY <1>2, <2>1 DEF HandleFnptrCall, Enter, LoopItems, Inv, WellFormedPAG
<1>3. CASE HandleDynamicFntraitCall
  <2>1. todo' # {} => \E c \in assoc_calls.fntrait : c[1] = cur
    BY <1>3 DEF HandleDynamicFntraitCall, Enter, Sites
  <2> QED BY <1>3, <2>1 DEF HandleDynamicFntraitCall, Enter, LoopItems, Inv, WellFormedPAG
<1>4. CASE ProcessFnptrCall \/ ProcessDynamicFntraitCall
  BY <1>4 DEF ProcessFnptrCall, ProcessDynamicFntraitCall, CallIteration, LoopItems, Inv
<1>5. CASE ProcessLoad \/ ProcessStore
  BY <1>5 DEF ProcessLoad, ProcessStore, Iterate, LoopItems, Inv
<1>6. CASE Takes
  BY <1>6 DEF Takes, ctlVars, LoopItems, Inv
<1>7. CASE phase' \notin {"load", "store", "fnptr", "fntrait"}
  BY <1>7 DEF LoopItems
<1>8. CASE \/ ProcessAddr \/ AddrEdgesDone \/ ProcessInterProc \/ InterProcEdgesDone
           \/ PopNode \/ SolveDone \/ Flush \/ \E b \in Batch : Extends(b)
  BY <1>8, <1>7 DEF ProcessAddr, AddrEdgesDone, ProcessInterProc, InterProcEdgesDone, PopNode,
     SolveDone, Flush, Extends, ctlVars
<1>9. CASE \/ ProcessDirect \/ ProcessGep \/ ProcessOffset
           \/ HandleGep \/ HandleOffset \/ HandleStaticDispatchInstanceCall
           \/ HandleDynamicDispatchCall \/ HandlersDone
  <2>1. phase' \in {"direct", "gep", "offset", "instance", "dispatch", "flush"}
    <3>1. CASE ProcessDirect \/ ProcessGep \/ ProcessOffset
      BY <3>1 DEF ProcessDirect, ProcessGep, ProcessOffset, Iterate
    <3>2. CASE \/ HandleGep \/ HandleOffset \/ HandleStaticDispatchInstanceCall
               \/ HandleDynamicDispatchCall \/ HandlersDone
      BY <3>2 DEF HandleGep, HandleOffset, HandleStaticDispatchInstanceCall,
         HandleDynamicDispatchCall, HandlersDone, Enter
    <3> QED BY <1>9, <3>1, <3>2
  <2> QED BY <1>7, <2>1
<1> QED
  BY <1>1, <1>2, <1>3, <1>4, <1>5, <1>6, <1>8, <1>9
  DEF Step, SolveWorklist, ProcessNode

(* The queues of a solve stay empty once their loops have ended, until the *)
(* driver or a closure reference refills them.                             *)
LEMMA QueuesInv == Inv /\ Step => QueuesDone'
<1> SUFFICES ASSUME Inv, Step PROVE QueuesDone'
  OBVIOUS
<1>1. CASE \E b \in Batch : Extends(b) BY <1>1 DEF Extends, QueuesDone
<1>2. CASE \/ ProcessAddr \/ AddrEdgesDone \/ ProcessInterProc \/ InterProcEdgesDone
  BY <1>2 DEF ProcessAddr, AddrEdgesDone, ProcessInterProc, InterProcEdgesDone, ctlVars, QueuesDone
<1>8. CASE PopNode \/ SolveDone \/ Flush
  BY <1>8 DEF PopNode, SolveDone, Flush, ptVars, QueuesDone, Inv
<1>3. CASE Takes BY <1>3 DEF Takes, ctlVars, ptVars, QueuesDone, Inv
<1>4. ASSUME phase \notin {"addr", "inter", "driver"}, phase' # "driver", UNCHANGED inter_queue
      PROVE  QueuesDone'
  BY <1>4 DEF QueuesDone, Inv
<1>5. CASE \/ HandleLoad \/ HandleStore \/ HandleGep \/ HandleOffset
           \/ HandleStaticDispatchInstanceCall \/ HandleDynamicDispatchCall
           \/ HandleFnptrCall \/ HandleDynamicFntraitCall \/ HandlersDone
  BY <1>4, <1>5 DEF HandleLoad, HandleStore, HandleGep, HandleOffset,
     HandleStaticDispatchInstanceCall, HandleDynamicDispatchCall, HandleFnptrCall,
     HandleDynamicFntraitCall, HandlersDone, Enter
<1>6. CASE ProcessDirect \/ ProcessLoad \/ ProcessStore \/ ProcessGep \/ ProcessOffset
  BY <1>4, <1>6 DEF ProcessDirect, ProcessLoad, ProcessStore, ProcessGep, ProcessOffset, Iterate
<1>7. CASE ProcessFnptrCall \/ ProcessDynamicFntraitCall
  BY <1>4, <1>7 DEF ProcessFnptrCall, ProcessDynamicFntraitCall, CallIteration
<1> QED
  BY <1>1, <1>2, <1>3, <1>5, <1>6, <1>7, <1>8 DEF Step, SolveWorklist, ProcessNode

(* The PAG of the entry point satisfies the inductive invariant.           *)
LEMMA InitInv == Init => Inv
<1> SUFFICES ASSUME Init PROVE Inv
  OBVIOUS
<1> PICK b \in Batches :
    /\ addr_edges = b.addr /\ addr_queue = b.addr
    /\ direct_edges = b.direct /\ inter_queue = b.inter
    /\ load_edges = b.load /\ store_edges = b.store
    /\ gep_edges = b.gep /\ offset_edges = b.offset
    /\ assoc_calls = [instance |-> b.instance, dispatch |-> b.dispatch,
                      fnptr |-> b.fnptr, fntrait |-> b.fntrait]
  BY DEF Init
<1>1. b \in Batch /\ WellFormed(b)
  BY BatchAssumption
<1>2. /\ diff = [v \in Node |-> {}] /\ propa = [v \in Node |-> {}] /\ worklist = <<>>
      /\ phase = "addr" /\ cur = None /\ base = {} /\ todo = {}
      /\ new_calls = {} /\ new_call_instances = {}
      /\ taken_calls = {} /\ taken_instances = {}
  BY DEF Init
<1>3. TypeOK
  <2>1. /\ diff \in [Node -> SUBSET Node] /\ propa \in [Node -> SUBSET Node]
        /\ worklist \in Seq(Node)
    BY <1>2
  <2>2. assoc_calls \in [instance : SUBSET (Node \X CallSite \X Func),
                         dispatch : SUBSET (Node \X CallSite),
                         fnptr : SUBSET (Node \X CallSite),
                         fntrait : SUBSET (Node \X CallSite)]
    BY <1>1 DEF Batch
  <2> QED BY <1>1, <1>2, <2>1, <2>2 DEF TypeOK, Batch, WellFormed, Phases, LoopPhases
<1>4. WellFormedPAG
  BY <1>1 DEF WellFormedPAG, WellFormed
<1>5. /\ LoopItems /\ QueuesDone /\ DiffPropaDisjoint /\ DiffIsScheduled /\ DiffStable
  BY <1>2 DEF LoopItems, QueuesDone, DiffPropaDisjoint, DiffIsScheduled, DiffStable
<1> QED BY <1>3, <1>4, <1>5 DEF Inv

(* Every step preserves the inductive invariant.                           *)
LEMMA NextInv == Inv /\ Step => Inv'
BY TypeInv, WellFormedInv, LoopItemsInv, QueuesInv, DisjointInv, ScheduledInv, StableInv DEF Inv

-----------------------------------------------------------------------------
(* No step removes an object from a points-to set: flush moves it.         *)
LEMMA PtsGrow ==
  ASSUME TypeOK, Step, NEW v \in Node
  PROVE  Pts(v) \subseteq Pts(v)'
<1>1. CASE PopNode BY <1>1 DEF PopNode, Pts
<1>2. CASE Flush
  <2>1. /\ cur \in Node /\ diff \in [Node -> SUBSET Node] /\ propa \in [Node -> SUBSET Node]
        /\ diff' = [diff EXCEPT ![cur] = {}] /\ propa' = [propa EXCEPT ![cur] = @ \cup diff[cur]]
    BY <1>2 DEF Flush, TypeOK
  <2> QED BY ONLY <2>1, v \in Node DEF Pts
<1>3. CASE Grows BY <1>3 DEF Grows, Pts
<1> QED BY <1>1, <1>2, <1>3, Growth

Handlers == {"direct", "load", "store", "gep", "offset", "instance", "dispatch",
             "fnptr", "fntrait"}

(* A step stays in its phase or goes to the next one, out of a loop only   *)
(* when it has ended.                                                      *)
LEMMA PhaseStep ==
  ASSUME TypeOK, Step
  PROVE  \/ phase' = phase
         \/ phase \notin Handlers \cup {"flush"} /\ phase' \notin Handlers \cup {"flush"}
         \/ PopNode \/ Flush
         \/ /\ todo = {}
            /\ <<phase, phase'>> \in {<<"direct", "load">>, <<"load", "store">>,
                 <<"store", "gep">>, <<"gep", "offset">>, <<"offset", "instance">>,
                 <<"instance", "dispatch">>, <<"dispatch", "fnptr">>,
                 <<"fnptr", "fntrait">>, <<"fntrait", "flush">>}
<1>1. CASE \/ HandleLoad \/ HandleStore \/ HandleGep \/ HandleOffset
           \/ HandleStaticDispatchInstanceCall \/ HandleDynamicDispatchCall
           \/ HandleFnptrCall \/ HandleDynamicFntraitCall \/ HandlersDone
  BY <1>1 DEF HandleLoad, HandleStore, HandleGep, HandleOffset,
     HandleStaticDispatchInstanceCall, HandleDynamicDispatchCall, HandleFnptrCall,
     HandleDynamicFntraitCall, HandlersDone, Enter, TypeOK, LoopPhases
<1>2. CASE \/ ProcessDirect \/ ProcessLoad \/ ProcessStore \/ ProcessGep \/ ProcessOffset
  BY <1>2 DEF ProcessDirect, ProcessLoad, ProcessStore, ProcessGep, ProcessOffset, Iterate
<1>3. CASE \/ ProcessFnptrCall \/ ProcessDynamicFntraitCall
  BY <1>3 DEF ProcessFnptrCall, ProcessDynamicFntraitCall, CallIteration
<1>4. CASE \/ ProcessAddr \/ AddrEdgesDone \/ ProcessInterProc \/ InterProcEdgesDone
           \/ SolveDone \/ \E b \in Batch : Extends(b)
  BY <1>4 DEF ProcessAddr, AddrEdgesDone, ProcessInterProc, InterProcEdgesDone, SolveDone,
     Extends, ctlVars, Handlers
<1>5. CASE Takes BY <1>5 DEF Takes, ctlVars
<1> QED
  BY <1>1, <1>2, <1>3, <1>4, <1>5 DEF Step, SolveWorklist, ProcessNode

(* A phase after a handler is reached only out of its ended loop or from a *)
(* later phase.                                                            *)
LEMMA AfterStep ==
  ASSUME TypeOK, Step, ~PopNode, ~Flush, NEW ph \in Handlers, phase' \in After[ph]
  PROVE  phase \in After[ph] \/ (phase = ph /\ todo = {})
BY PhaseStep DEF Handlers, After, CallPhases

(* How an object comes to have been through a loop: in this step the loop  *)
(* visited it, or was entered without it.                                  *)
JustVisited(v, ph, x, o) ==
  phase = ph /\ phase' = ph /\ x \in todo \ todo' /\ v = cur /\ o \in base
LeftOut(v, ph, x, o) ==
  phase # ph /\ phase' = ph /\ x \notin todo' /\ v = cur' /\ o \in base'

(* An object is through a loop because it was, because this step visited   *)
(* it, or because the loop was entered without it.                         *)
LEMMA VisitedStep ==
  ASSUME Inv, Step, NEW v \in Node, NEW ph \in Handlers, NEW x, NEW o,
         Visited(v, ph, x, o)'
  PROVE  Visited(v, ph, x, o) \/ JustVisited(v, ph, x, o) \/ LeftOut(v, ph, x, o)
<1> USE DEF Inv
<1>1. CASE Flush
  <2>1. /\ cur \in Node /\ propa \in [Node -> SUBSET Node] /\ phase = "flush"
        /\ propa' = [propa EXCEPT ![cur] = @ \cup diff[cur]] /\ cur' = None
        /\ diff[cur] = base
    BY <1>1, NodeAssumption DEF Flush, TypeOK, DiffStable
  <2>2. o \in propa'[v] BY <2>1, NodeAssumption DEF Visited
  <2>3. o \in propa[v] \/ (v = cur /\ o \in base) BY <2>1, <2>2
  <2>4. "flush" \in After[ph] BY DEF Handlers, After, CallPhases
  <2> QED BY <2>1, <2>3, <2>4 DEF Visited
<1>2. CASE PopNode
  <2>1. phase' = "direct" /\ propa' = propa /\ phase = "pop" BY <1>2 DEF PopNode
  <2>2. "direct" \notin After[ph] /\ ph # "pop" BY DEF Handlers, After, CallPhases
  <2> QED BY <2>1, <2>2 DEF Visited, LeftOut
<1>3. CASE ~PopNode /\ ~Flush
  <2>1. propa' = propa /\ cur' = cur /\ base' = base BY <1>3, Growth DEF Grows
  <2>2. phase' \in After[ph] => phase \in After[ph] \/ (phase = ph /\ todo = {})
    BY <1>3, AfterStep
  <2> QED BY <2>1, <2>2 DEF Visited, JustVisited, LeftOut
<1> QED BY <1>1, <1>2, <1>3

(* Only a handler's own iteration visits an item of its loop.              *)
LEMMA VisitStep ==
  ASSUME Inv, Step, NEW v, NEW ph \in Handlers, NEW x, NEW o, JustVisited(v, ph, x, o)
  PROVE  /\ ph = "direct" => ProcessDirect
         /\ ph = "load" => ProcessLoad
         /\ ph = "store" => ProcessStore
         /\ ph = "gep" => ProcessGep
         /\ ph = "offset" => ProcessOffset
         /\ ph \notin {"instance", "dispatch"}
         /\ ph \in {"fnptr", "fntrait"} => ProcessFnptrCall \/ ProcessDynamicFntraitCall
<1>1. ~Takes BY DEF JustVisited, Takes, ctlVars
<1>2. (\/ HandleLoad \/ HandleStore \/ HandleGep \/ HandleOffset
       \/ HandleStaticDispatchInstanceCall \/ HandleDynamicDispatchCall
       \/ HandleFnptrCall \/ HandleDynamicFntraitCall \/ HandlersDone \/ PopNode \/ Flush)
        => phase' # phase
  BY DEF HandleLoad, HandleStore, HandleGep, HandleOffset,
     HandleStaticDispatchInstanceCall, HandleDynamicDispatchCall, HandleFnptrCall,
     HandleDynamicFntraitCall, HandlersDone, Enter, PopNode, Flush
<1>3. phase = ph /\ phase' = phase BY DEF JustVisited
<1> QED BY <1>1, <1>2, <1>3, StepFrom DEF Handlers

(* A loop is entered by the action of its handler alone.                   *)
LEMMA EnterStep ==
  ASSUME Inv, Step, NEW v, NEW ph \in Handlers, NEW x, NEW o, LeftOut(v, ph, x, o)
  PROVE  /\ ph = "direct" => PopNode
         /\ ph = "load" => HandleLoad
         /\ ph = "store" => HandleStore
         /\ ph = "gep" => HandleGep
         /\ ph = "offset" => HandleOffset
         /\ ph = "instance" => HandleStaticDispatchInstanceCall
         /\ ph = "dispatch" => HandleDynamicDispatchCall
         /\ ph = "fnptr" => HandleFnptrCall
         /\ ph = "fntrait" => HandleDynamicFntraitCall
<1>1. phase' # phase /\ phase' = ph BY DEF LeftOut
<1>2. CASE PopNode
  BY <1>1, <1>2 DEF PopNode, Handlers
<1>3. CASE ~PopNode
  <2>1. ~Flush /\ ph # "direct" BY <1>1, <1>3, PhaseStep DEF Flush, Handlers, Inv
  <2>2. <<phase, phase'>> \in {<<"direct", "load">>, <<"load", "store">>,
                 <<"store", "gep">>, <<"gep", "offset">>, <<"offset", "instance">>,
                 <<"instance", "dispatch">>, <<"dispatch", "fnptr">>,
                 <<"fnptr", "fntrait">>, <<"fntrait", "flush">>}
    BY <1>1, <1>3, <2>1, PhaseStep DEF Inv
  <2>3. /\ ProcessDirect \/ ProcessLoad \/ ProcessStore \/ ProcessGep \/ ProcessOffset
              => phase' = phase
        /\ ProcessFnptrCall \/ ProcessDynamicFntraitCall => phase' = phase
        /\ Takes => phase' = phase
    BY DEF ProcessDirect, ProcessLoad, ProcessStore, ProcessGep, ProcessOffset, Iterate,
       ProcessFnptrCall, ProcessDynamicFntraitCall, CallIteration, Takes, ctlVars
  <2> QED BY <1>1, <2>1, <2>2, <2>3, StepFrom DEF Handlers
<1> QED BY <1>2, <1>3

(* An object a loop has been through is in the points-to set: it was there *)
(* before a step that neither pops nor flushes.                            *)
LEMMA VisitedInPts ==
  ASSUME Inv, propa' = propa, UNCHANGED <<cur, base>>,
         NEW v \in Node, NEW ph, NEW x, NEW o, Visited(v, ph, x, o)'
  PROVE  o \in Pts(v)
BY NodeAssumption DEF Inv, Visited, Pts, DiffStable

(* Propagation delivers every object that the filters let pass.            *)
LEMMA PropagateEffect ==
  ASSUME TypeOK, NEW s \in Node, NEW d \in Node, NEW o, <<s, d, o>> \notin Filtered
  PROVE  /\ PropagateDiff(s, d) /\ o \in diff[s] => o \in Pts(d)'
         /\ PropagateAll(s, d) /\ o \in Pts(s) => o \in Pts(d)'
         /\ ConnectAndPropagate(s, d) /\ <<s, d>> \notin direct_edges /\ o \in Pts(s)
              => o \in Pts(d)'
<1>1. ASSUME NEW S \in SUBSET Node, AddPts(d, Flow(s, d, S)), o \in S
      PROVE  o \in Pts(d)'
  <2>1. Flow(s, d, S) \in SUBSET Node /\ o \in Flow(s, d, S) BY <1>1 DEF Flow
  <2>2. diff'[d] = diff[d] \cup (Flow(s, d, S) \ propa[d]) /\ propa' = propa
    BY <1>1, <2>1, AddPtsEffect
  <2> QED BY <2>1, <2>2 DEF Pts
<1>2. diff[s] \in SUBSET Node /\ Pts(s) \in SUBSET Node BY DEF TypeOK, Pts
<1>3. PropagateDiff(s, d) /\ o \in diff[s] => o \in Pts(d)' BY <1>1, <1>2 DEF PropagateDiff
<1>4. PropagateAll(s, d) /\ o \in Pts(s) => o \in Pts(d)' BY <1>1, <1>2 DEF PropagateAll
<1> QED BY <1>3, <1>4 DEF ConnectAndPropagate

(* handle_direct and add_direct_edge keep the rule of direct edges:        *)
(* objects that were passed on are at the target, on a new edge too.       *)
LEMMA DirectHandledInv == Inv /\ DirectHandled /\ Step => DirectHandled'
<1> SUFFICES ASSUME Inv, DirectHandled, Step,
                    NEW e \in (direct_edges \ inter_queue)', NEW o \in Node,
                    Visited(e[1], "direct", e, o)', <<e[1], e[2], o>> \notin Filtered
             PROVE  o \in Pts(e[2])'
  BY DEF DirectHandled
<1>1. e = <<e[1], e[2]>> /\ e[1] \in Node /\ e[2] \in Node
  <2>1. e \in Node \X Node BY TypeInv DEF TypeOK, Inv
  <2> QED BY ONLY <2>1
<1>2. CASE e \in direct_edges \ inter_queue
  <2>1. CASE Visited(e[1], "direct", e, o)
    <3>1. o \in Pts(e[2]) BY <1>2, <2>1 DEF DirectHandled
    <3> QED BY <1>1, <3>1, PtsGrow DEF Inv
  <2>2. CASE JustVisited(e[1], "direct", e, o)
    <3>1. ProcessDirect BY <2>2, VisitStep DEF Handlers
    <3>2. PICK e2 \in direct_edges : /\ e2[1] = cur /\ Iterate("direct", e2)
                                     /\ PropagateDiff(e2[1], e2[2])
      BY <3>1, DirectItem DEF Inv
    <3>3. e2 = e BY <2>2, <3>2 DEF Iterate, JustVisited
    <3>4. o \in diff[e[1]] BY <1>1, <2>2, NodeAssumption DEF JustVisited, Inv, DiffStable
    <3> QED BY <1>1, <3>2, <3>3, <3>4, PropagateEffect DEF Inv
  <2>3. CASE LeftOut(e[1], "direct", e, o)
    <3>1. PopNode BY <2>3, EnterStep DEF Handlers
    <3>2. e \in todo' BY <1>2, <2>3, <3>1 DEF PopNode, LeftOut
    <3> QED BY <2>3, <3>2 DEF LeftOut
  <2> QED BY <1>1, <2>1, <2>2, <2>3, VisitedStep DEF Handlers
<1>3. CASE e \in inter_queue
  <2>1. CASE ProcessInterProc
    <3>1. PropagateAll(e[1], e[2]) BY <1>3, <2>1 DEF ProcessInterProc
    <3>2. propa' = propa /\ UNCHANGED <<cur, base>>
      BY <2>1, <3>1 DEF ProcessInterProc, ctlVars, PropagateAll, AddPts
    <3>3. o \in Pts(e[1]) BY <1>1, <3>2, VisitedInPts
    <3> QED BY <1>1, <3>1, <3>3, PropagateEffect DEF Inv
  <2>2. CASE UNCHANGED inter_queue BY <1>3, <2>2
  <2>3. CASE \E b \in Batch : Extends(b) BY <1>3, <2>3 DEF Extends, AddBatch
  <2> QED BY <1>3, <2>1, <2>2, <2>3, InterQueueKept
<1>4. CASE e \notin direct_edges
  <2>1. CASE \E b \in Batch : Extends(b)
    <3>1. PICK b \in Batch : Extends(b) BY <2>1
    <3>2. e \in b.direct /\ e \notin b.inter /\ propa' = propa /\ UNCHANGED <<cur, base>>
      BY <1>4, <3>1 DEF Extends, AddBatch, ptVars
    <3>3. Pts(e[1]) = {} BY <1>4, <3>1, <3>2 DEF Extends, Acceptable
    <3>4. o \in Pts(e[1]) BY <1>1, <3>2, VisitedInPts
    <3> QED BY <3>3, <3>4
  <2>2. CASE ProcessLoad \/ ProcessStore
    <3>1. PICK s \in Node, d \in Node : ConnectAndPropagate(s, d)
      BY <2>2, LoadItem, StoreItem DEF Inv
    <3>2. propa' = propa /\ UNCHANGED <<cur, base>>
      BY <2>2, <3>1, ConnectEffect DEF ProcessLoad, ProcessStore, Iterate, Inv
    <3>3. e = <<s, d>> BY <1>4, <3>1, ConnectEffect DEF Inv
    <3>4. e[1] = s /\ e[2] = d BY <3>3
    <3>5. o \in Pts(s) BY <1>1, <3>2, <3>4, VisitedInPts
    <3> QED BY <1>4, <3>1, <3>3, <3>4, <3>5, PropagateEffect DEF Inv
  <2> QED BY <1>4, <2>1, <2>2, EdgesKept DEF Inv
<1> QED BY <1>2, <1>3, <1>4

(* process_load keeps the rule of loads: the field of an object that was   *)
(* visited is connected to the loaded local.                               *)
LEMMA LoadHandledInv == Inv /\ LoadHandled /\ Step => LoadHandled'
<1> SUFFICES ASSUME Inv, LoadHandled, Step, NEW e \in load_edges', NEW o \in Node,
                    Visited(e[1], "load", <<e, o>>, o)'
             PROVE  <<Field[o, e[2]], e[3]>> \in direct_edges'
  BY DEF LoadHandled
<1>1. e[1] \in Node /\ e[2] \in Proj /\ e[3] \in Node
  <2>1. e \in Node \X Proj \X Node BY TypeInv DEF TypeOK, Inv
  <2> QED BY ONLY <2>1
<1>2. CASE e \in load_edges
  <2>1. CASE Visited(e[1], "load", <<e, o>>, o)
    BY <1>2, <2>1, EdgesKept DEF LoadHandled, Inv
  <2>2. CASE JustVisited(e[1], "load", <<e, o>>, o)
    <3>1. ProcessLoad BY <2>2, VisitStep DEF Handlers
    <3>2. PICK e2 \in load_edges, o2 \in Node :
            /\ Iterate("load", <<e2, o2>>)
            /\ ConnectAndPropagate(Field[o2, e2[2]], e2[3])
            /\ e2[1] \in Node /\ e2[3] \in Node /\ Field[o2, e2[2]] \in Node
      BY <3>1, LoadItem DEF Inv
    <3>3. <<e2, o2>> = <<e, o>> BY <2>2, <3>2 DEF Iterate, JustVisited
    <3>4. e2 = e /\ o2 = o BY <3>3
    <3>5. ConnectAndPropagate(Field[o, e[2]], e[3]) /\ Field[o, e[2]] \in Node
      BY <3>2, <3>4
    <3>6. direct_edges' = direct_edges \cup {<<Field[o, e[2]], e[3]>>}
      BY <1>1, <3>5, ConnectEffect, Zenon DEF Inv
    <3> QED BY <3>6
  <2>3. ~LeftOut(e[1], "load", <<e, o>>, o)
    <3> SUFFICES ASSUME LeftOut(e[1], "load", <<e, o>>, o) PROVE FALSE
      OBVIOUS
    <3>1. HandleLoad BY EnterStep DEF Handlers
    <3>2. <<e, o>> \in todo'
      <4>1. cur = e[1] /\ o \in base /\ diff[cur] = base
        BY <1>1, <3>1, NodeAssumption DEF HandleLoad, Enter, LeftOut, Inv, DiffStable
      <4> QED BY <1>2, <3>1, <4>1 DEF HandleLoad, Enter
    <3> QED BY <3>2 DEF LeftOut
  <2> QED BY <1>1, <2>1, <2>2, <2>3, VisitedStep DEF Handlers
<1>3. CASE e \notin load_edges
  <2>1. PICK b \in Batch : Extends(b) BY <1>3, EdgesKept DEF graphVars, Inv
  <2>2. e \in b.load /\ propa' = propa /\ UNCHANGED <<cur, base>>
    BY <1>3, <2>1 DEF Extends, AddBatch, ptVars
  <2>3. Pts(e[1]) = {} BY <1>3, <2>1, <2>2 DEF Extends, Acceptable
  <2>4. o \in Pts(e[1]) BY <1>1, <2>2, VisitedInPts
  <2> QED BY <2>3, <2>4
<1> QED BY <1>2, <1>3

(* process_store keeps the rule of stores: the stored local is connected   *)
(* to the field of an object that was visited.                             *)
LEMMA StoreHandledInv == Inv /\ StoreHandled /\ Step => StoreHandled'
<1> SUFFICES ASSUME Inv, StoreHandled, Step, NEW e \in store_edges', NEW o \in Node,
                    Visited(e[3], "store", <<e, o>>, o)'
             PROVE  <<e[1], Field[o, e[2]]>> \in direct_edges'
  BY DEF StoreHandled
<1>1. e[1] \in Node /\ e[2] \in Proj /\ e[3] \in Node
  <2>1. e \in Node \X Proj \X Node BY TypeInv DEF TypeOK, Inv
  <2> QED BY ONLY <2>1
<1>2. CASE e \in store_edges
  <2>1. CASE Visited(e[3], "store", <<e, o>>, o)
    BY <1>2, <2>1, EdgesKept DEF StoreHandled, Inv
  <2>2. CASE JustVisited(e[3], "store", <<e, o>>, o)
    <3>1. ProcessStore BY <2>2, VisitStep DEF Handlers
    <3>2. PICK e2 \in store_edges, o2 \in Node :
            /\ Iterate("store", <<e2, o2>>)
            /\ ConnectAndPropagate(e2[1], Field[o2, e2[2]])
            /\ e2[1] \in Node /\ e2[3] \in Node /\ Field[o2, e2[2]] \in Node
      BY <3>1, StoreItem DEF Inv
    <3>3. <<e2, o2>> = <<e, o>> BY <2>2, <3>2 DEF Iterate, JustVisited
    <3>4. e2 = e /\ o2 = o BY <3>3
    <3>5. ConnectAndPropagate(e[1], Field[o, e[2]]) /\ Field[o, e[2]] \in Node
      BY <3>2, <3>4
    <3>6. direct_edges' = direct_edges \cup {<<e[1], Field[o, e[2]]>>}
      BY <1>1, <3>5, ConnectEffect, Zenon DEF Inv
    <3> QED BY <3>6
  <2>3. ~LeftOut(e[3], "store", <<e, o>>, o)
    <3> SUFFICES ASSUME LeftOut(e[3], "store", <<e, o>>, o) PROVE FALSE
      OBVIOUS
    <3>1. HandleStore BY EnterStep DEF Handlers
    <3>2. <<e, o>> \in todo'
      <4>1. cur = e[3] /\ o \in base /\ diff[cur] = base
        BY <1>1, <3>1, NodeAssumption DEF HandleStore, Enter, LeftOut, Inv, DiffStable
      <4> QED BY <1>2, <3>1, <4>1 DEF HandleStore, Enter
    <3> QED BY <3>2 DEF LeftOut
  <2> QED BY <1>1, <2>1, <2>2, <2>3, VisitedStep DEF Handlers
<1>3. CASE e \notin store_edges
  <2>1. PICK b \in Batch : Extends(b) BY <1>3, EdgesKept DEF graphVars, Inv
  <2>2. e \in b.store /\ propa' = propa /\ UNCHANGED <<cur, base>>
    BY <1>3, <2>1 DEF Extends, AddBatch, ptVars
  <2>3. Pts(e[3]) = {} BY <1>3, <2>1, <2>2 DEF Extends, Acceptable
  <2>4. o \in Pts(e[3]) BY <1>1, <2>2, VisitedInPts
  <2> QED BY <2>3, <2>4
<1> QED BY <1>2, <1>3

(* process_gep keeps the rule of field addresses.                          *)
LEMMA GepHandledInv == Inv /\ GepHandled /\ Step => GepHandled'
<1> SUFFICES ASSUME Inv, GepHandled, Step, NEW e \in gep_edges', NEW o \in Node,
                    Visited(e[1], "gep", e, o)'
             PROVE  Field[o, e[2]] \in Pts(e[3])'
  BY DEF GepHandled
<1>1. e[1] \in Node /\ e[2] \in Proj /\ e[3] \in Node
  <2>1. e \in Node \X Proj \X Node BY TypeInv DEF TypeOK, Inv
  <2> QED BY ONLY <2>1
<1>2. CASE e \in gep_edges
  <2>1. CASE Visited(e[1], "gep", e, o)
    BY <1>1, <1>2, <2>1, PtsGrow DEF GepHandled, Inv
  <2>2. CASE JustVisited(e[1], "gep", e, o)
    <3>1. ProcessGep BY <2>2, VisitStep DEF Handlers
    <3>2. PICK e2 \in gep_edges : /\ Iterate("gep", e2) /\ e2[3] \in Node
                                  /\ AddPts(e2[3], {Field[x, e2[2]] : x \in diff[cur]})
                                  /\ {Field[x, e2[2]] : x \in diff[cur]} \in SUBSET Node
      BY <3>1, GepItem DEF Inv
    <3>3. e2 = e BY <2>2, <3>2 DEF Iterate, JustVisited
    <3>4. o \in diff[cur] BY <1>1, <2>2, NodeAssumption DEF JustVisited, Inv, DiffStable
    <3>5. PICK S \in SUBSET Node : AddPts(e[3], S) /\ S = {Field[x, e[2]] : x \in diff[cur]}
      BY <3>2, <3>3
    <3>6. Field[o, e[2]] \in S BY <3>4, <3>5
    <3>7. diff'[e[3]] = diff[e[3]] \cup (S \ propa[e[3]]) /\ propa' = propa
      BY <1>1, <3>5, AddPtsEffect DEF Inv
    <3> QED BY <3>6, <3>7 DEF Pts
  <2>3. ~LeftOut(e[1], "gep", e, o)
    <3> SUFFICES ASSUME LeftOut(e[1], "gep", e, o) PROVE FALSE
      OBVIOUS
    <3>1. HandleGep BY EnterStep DEF Handlers
    <3>2. e \in todo'
      <4>1. cur = e[1] /\ o \in base /\ diff[cur] = base
        BY <1>1, <3>1, NodeAssumption DEF HandleGep, Enter, LeftOut, Inv, DiffStable
      <4> QED BY <1>2, <3>1, <4>1 DEF HandleGep, Enter
    <3> QED BY <3>2 DEF LeftOut
  <2> QED BY <1>1, <2>1, <2>2, <2>3, VisitedStep DEF Handlers
<1>3. CASE e \notin gep_edges
  <2>1. PICK b \in Batch : Extends(b) BY <1>3, EdgesKept DEF graphVars, Inv
  <2>2. e \in b.gep /\ propa' = propa /\ UNCHANGED <<cur, base>>
    BY <1>3, <2>1 DEF Extends, AddBatch, ptVars
  <2>3. Pts(e[1]) = {} BY <1>3, <2>1, <2>2 DEF Extends, Acceptable
  <2>4. o \in Pts(e[1]) BY <1>1, <2>2, VisitedInPts
  <2> QED BY <2>3, <2>4
<1> QED BY <1>2, <1>3

(* handle_offset keeps the rule of offset edges.                           *)
LEMMA OffsetHandledInv == Inv /\ OffsetHandled /\ Step => OffsetHandled'
<1> SUFFICES ASSUME Inv, OffsetHandled, Step, NEW e \in offset_edges', NEW o \in Node,
                    Visited(e[1], "offset", e, o)', <<e[1], e[2], o>> \notin Filtered
             PROVE  o \in Pts(e[2])'
  BY DEF OffsetHandled
<1>1. e[1] \in Node /\ e[2] \in Node
  <2>1. e \in Node \X Node BY TypeInv DEF TypeOK, Inv
  <2> QED BY ONLY <2>1
<1>2. CASE e \in offset_edges
  <2>1. CASE Visited(e[1], "offset", e, o)
    BY <1>1, <1>2, <2>1, PtsGrow DEF OffsetHandled, Inv
  <2>2. CASE JustVisited(e[1], "offset", e, o)
    <3>1. ProcessOffset BY <2>2, VisitStep DEF Handlers
    <3>2. PICK e2 \in offset_edges : Iterate("offset", e2) /\ PropagateDiff(e2[1], e2[2])
      BY <3>1, OffsetItem DEF Inv
    <3>3. e2 = e BY <2>2, <3>2 DEF Iterate, JustVisited
    <3>4. o \in diff[e[1]] BY <1>1, <2>2, NodeAssumption DEF JustVisited, Inv, DiffStable
    <3> QED BY <1>1, <3>2, <3>3, <3>4, PropagateEffect DEF Inv
  <2>3. ~LeftOut(e[1], "offset", e, o)
    <3> SUFFICES ASSUME LeftOut(e[1], "offset", e, o) PROVE FALSE
      OBVIOUS
    <3>1. HandleOffset BY EnterStep DEF Handlers
    <3>2. e \in todo'
      <4>1. cur = e[1] /\ o \in base /\ diff[cur] = base
        BY <1>1, <3>1, NodeAssumption DEF HandleOffset, Enter, LeftOut, Inv, DiffStable
      <4> QED BY <1>2, <3>1, <4>1 DEF HandleOffset, Enter
    <3> QED BY <3>2 DEF LeftOut
  <2> QED BY <1>1, <2>1, <2>2, <2>3, VisitedStep DEF Handlers
<1>3. CASE e \notin offset_edges
  <2>1. PICK b \in Batch : Extends(b) BY <1>3, EdgesKept DEF graphVars, Inv
  <2>2. e \in b.offset /\ propa' = propa /\ UNCHANGED <<cur, base>>
    BY <1>3, <2>1 DEF Extends, AddBatch, ptVars
  <2>3. Pts(e[1]) = {} BY <1>3, <2>1, <2>2 DEF Extends, Acceptable
  <2>4. o \in Pts(e[1]) BY <1>1, <2>2, VisitedInPts
  <2> QED BY <2>3, <2>4
<1> QED BY <1>2, <1>3

(* An address edge is queued until its object is in the pointer's set.     *)
LEMMA AddrHandledInv == Inv /\ AddrHandled /\ Step => AddrHandled'
<1> SUFFICES ASSUME Inv, AddrHandled, Step, NEW e \in addr_edges'
             PROVE  e[1] \in Pts(e[2])' \/ (phase' = "addr" /\ e \in addr_queue')
  BY DEF AddrHandled
<1>1. e[1] \in Node /\ e[2] \in Node
  BY TypeInv DEF TypeOK, Inv
<1>2. e[1] \in Pts(e[2]) => e[1] \in Pts(e[2])' BY <1>1, PtsGrow DEF Inv
<1>3. CASE ProcessAddr
  <2>1. PICK e2 \in addr_queue : addr_queue' = addr_queue \ {e2} /\ AddPts(e2[2], {e2[1]})
    BY <1>3 DEF ProcessAddr
  <2>2. CASE e = e2
    <3>1. {e[1]} \in SUBSET Node BY <1>1
    <3>2. diff'[e[2]] = diff[e[2]] \cup ({e[1]} \ propa[e[2]]) /\ propa' = propa
      BY <1>1, <2>1, <2>2, <3>1, AddPtsEffect DEF Inv
    <3> QED BY <3>2 DEF Pts
  <2>3. CASE e # e2 BY <1>2, <1>3, <2>1, <2>3 DEF ProcessAddr, AddrHandled, ctlVars
  <2> QED BY <2>2, <2>3
<1>4. CASE ProcessFnptrCall
  <2>1. phase \in {"fnptr", "fntrait"} BY <1>4 DEF ProcessFnptrCall, CallIteration
  <2>2. CASE e \in addr_edges BY <1>2, <2>1, <2>2 DEF AddrHandled
  <2>3. CASE e \notin addr_edges
    <3>1. PICK x \in todo : /\ ClosureRef[x[2], x[3]] # None
                            /\ AddPts(ClosureRef[x[2], x[3]], {x[3]})
                            /\ addr_edges' = addr_edges \cup {<<x[3], ClosureRef[x[2], x[3]]>>}
      BY <1>4, <2>3 DEF ProcessFnptrCall, addrVars
    <3>2. e = <<x[3], ClosureRef[x[2], x[3]]>> BY <2>3, <3>1
    <3>3. e[1] = x[3] /\ e[2] = ClosureRef[x[2], x[3]] BY <3>2
    <3>4. AddPts(e[2], {e[1]}) /\ {e[1]} \in SUBSET Node BY <1>1, <3>1, <3>3
    <3>5. diff'[e[2]] = diff[e[2]] \cup ({e[1]} \ propa[e[2]]) /\ propa' = propa
      BY <1>1, <3>4, AddPtsEffect DEF Inv
    <3> QED BY <3>5 DEF Pts
  <2> QED BY <2>2, <2>3
<1>5. CASE \E b \in Batch : Extends(b)
  <2>1. phase = "driver" /\ phase' = "addr" BY <1>5 DEF Extends
  <2>2. CASE e \in addr_edges BY <1>2, <2>1, <2>2 DEF AddrHandled
  <2>3. CASE e \notin addr_edges BY <1>5, <2>1, <2>3 DEF Extends, AddBatch
  <2> QED BY <2>2, <2>3
<1>6. CASE UNCHANGED addrVars
  <2>1. phase = "addr" /\ phase' # "addr" => addr_queue = {}
    BY <1>6, StepFrom DEF ProcessAddr, AddrEdgesDone, ctlVars, Takes
  <2> QED BY <1>2, <1>6, <2>1 DEF AddrHandled, addrVars
<1> QED BY <1>3, <1>4, <1>5, <1>6, EdgesKept DEF Inv

(* The rules of the six kinds of edges hold after every step.              *)
LEMMA EdgesHandledInv == Inv /\ EdgesHandled /\ Step => EdgesHandled'
BY AddrHandledInv, DirectHandledInv, LoadHandledInv, StoreHandledInv, GepHandledInv,
   OffsetHandledInv DEF EdgesHandled

(* The rules hold at first: nothing has been visited.                      *)
LEMMA InitEdgesHandled == Init => EdgesHandled
<1> SUFFICES ASSUME Init PROVE EdgesHandled
  OBVIOUS
<1>1. /\ addr_queue = addr_edges /\ phase = "addr" /\ base = {}
      /\ propa = [v \in Node |-> {}] BY DEF Init
<1>2. TypeOK BY InitInv DEF Inv
<1>3. \A v \in Node : \A ph, x, o : ~Visited(v, ph, x, o) BY <1>1 DEF Visited
<1>4. /\ \A e \in direct_edges \cup offset_edges : e[1] \in Node
      /\ \A e \in load_edges \cup store_edges \cup gep_edges : e[1] \in Node /\ e[3] \in Node
  BY <1>2 DEF TypeOK
<1> QED BY <1>1, <1>3, <1>4 DEF EdgesHandled, AddrHandled, DirectHandled, LoadHandled,
     StoreHandled, GepHandled, OffsetHandled

-----------------------------------------------------------------------------
(* Between two solves nothing is left to propagate, so that every object   *)
(* has been through every loop.                                            *)
LEMMA AllPropagated ==
  ASSUME Inv, phase = "driver", NEW v \in Node
  PROVE  diff[v] = {} /\ Pts(v) = propa[v]
<1>1. cur = None /\ worklist = <<>> /\ v # None
  BY NodeAssumption DEF Inv, TypeOK, QueuesDone
<1>2. ~InWorklist(v) BY <1>1 DEF InWorklist
<1>3. diff[v] = {} BY <1>1, <1>2 DEF Inv, DiffIsScheduled, Scheduled
<1> QED BY <1>3 DEF Pts

(* With nothing left to propagate, the rules for what was visited are      *)
(* those of a solution.                                                    *)
LEMMA SolvedWhenHandled == Inv /\ EdgesHandled => Solved
<1> SUFFICES ASSUME Inv, EdgesHandled, phase = "driver" PROVE Constraints!Solution
  BY DEF Solved
<1> DEFINE pts == [v \in Node |-> Pts(v)]
<1>1. \A v \in Node : \A o \in Pts(v) : \A ph, x : Visited(v, ph, x, o)
  BY AllPropagated DEF Visited
<1>2. inter_queue = {} BY DEF Inv, QueuesDone
<1>3. \A v \in Node : pts[v] = Pts(v) /\ Pts(v) \in SUBSET Node BY DEF Inv, TypeOK, Pts
<1>4. \A e \in addr_edges : e[1] \in pts[e[2]]
  BY <1>3 DEF EdgesHandled, AddrHandled, Inv, TypeOK
<1>5. \A e \in direct_edges \cup offset_edges : \A o \in pts[e[1]] :
        <<e[1], e[2], o>> \notin Filtered => o \in pts[e[2]]
  <2> TAKE e \in direct_edges \cup offset_edges
  <2>1. e[1] \in Node /\ e[2] \in Node BY DEF Inv, TypeOK
  <2> QED BY <1>1, <1>2, <1>3, <2>1 DEF EdgesHandled, DirectHandled, OffsetHandled
<1>6. \A e \in load_edges \cup store_edges \cup gep_edges :
        e[1] \in Node /\ e[2] \in Proj /\ e[3] \in Node
  <2>1. load_edges \cup store_edges \cup gep_edges \subseteq Node \X Proj \X Node
    BY DEF Inv, TypeOK
  <2> QED BY ONLY <2>1
<1>7. \A e \in load_edges : \A x \in pts[e[1]] : <<Field[x, e[2]], e[3]>> \in direct_edges
  BY <1>1, <1>3, <1>6 DEF EdgesHandled, LoadHandled
<1>8. \A e \in store_edges : \A x \in pts[e[3]] : <<e[1], Field[x, e[2]]>> \in direct_edges
  BY <1>1, <1>3, <1>6 DEF EdgesHandled, StoreHandled
<1>9. \A e \in gep_edges : \A x \in pts[e[1]] : Field[x, e[2]] \in pts[e[3]]
  BY <1>1, <1>3, <1>6 DEF EdgesHandled, GepHandled
<1> QED BY <1>4, <1>5, <1>7, <1>8, <1>9 DEF Constraints!Solution, Constraints!Flows

(* Every reachable state has the types of TypeOK.                          *)
THEOREM TypeCorrect == Spec => []TypeOK
<1>1. Inv => TypeOK BY DEF Inv
<1> QED BY <1>1, InitInv, NextInv, NextIsStep, PTL DEF Spec

(* Whatever the program and the order of the loops: no object is both new  *)
(* and propagated, a node with new objects is never forgotten, and the     *)
(* handlers of one process_node all see the diff set it was popped with.   *)
THEOREM DiffDiscipline == Spec => []DiffDisciplined
<1>1. Inv => DiffDisciplined BY DEF Inv, DiffDisciplined
<1> QED BY <1>1, InitInv, NextInv, NextIsStep, PTL DEF Spec

(* Inside the handlers too, what a loop has been through satisfies the     *)
(* rule of its kind of edge.                                               *)
THEOREM HandledCorrect == Spec => []EdgesHandled
<1>1. Init => Inv /\ EdgesHandled BY InitInv, InitEdgesHandled
<1>2. Inv /\ EdgesHandled /\ [Next]_vars => (Inv /\ EdgesHandled)'
  BY NextIsStep, NextInv, EdgesHandledInv
<1> QED BY <1>1, <1>2, PTL DEF Spec

(* When solve_worklist returns, its result satisfies every constraint.     *)
THEOREM SolvedCorrect == Spec => []Solved
<1>1. Inv /\ EdgesHandled => Solved BY SolvedWhenHandled
<1> QED BY <1>1, InitInv, NextInv, NextIsStep, HandledCorrect, PTL DEF Spec

-----------------------------------------------------------------------------
(* The solver implements the abstract machine: what a step adds is derived *)
(* by a rule from what was there.                                          *)
Derivable(v, o) ==
  \/ <<o, v>> \in addr_edges'
  \/ \E s \in Node : /\ <<s, v>> \in direct_edges' \cup offset_edges
                     /\ o \in Pts(s) /\ <<s, v, o>> \notin Filtered
  \/ \E e \in gep_edges : e[3] = v /\ \E x \in Pts(e[1]) : o = Field[x, e[2]]

(* A new object at a node is one that add_pts was given for that node.     *)
LEMMA AddPtsOnly ==
  ASSUME TypeOK, NEW d \in Node, NEW S \in SUBSET Node, AddPts(d, S),
         NEW v \in Node, NEW o \in Pts(v)' \ Pts(v)
  PROVE  v = d /\ o \in S
<1>1. CASE v = d BY <1>1, AddPtsEffect DEF Pts
<1>2. CASE v # d BY <1>2, AddPtsEffect DEF Pts
<1> QED BY <1>1, <1>2

(* What propagation along an edge delivers, the rule of the edge derives.  *)
LEMMA PropagateDerives ==
  ASSUME TypeOK, NEW s \in Node, NEW d \in Node,
         PropagateDiff(s, d) \/ PropagateAll(s, d) \/ ConnectAndPropagate(s, d),
         <<s, d>> \in direct_edges' \cup offset_edges,
         NEW v \in Node, NEW o \in Pts(v)' \ Pts(v)
  PROVE  Derivable(v, o)
<1>1. ASSUME NEW S \in SUBSET Pts(s), AddPts(d, Flow(s, d, S)) PROVE Derivable(v, o)
  <2>1. Flow(s, d, S) \in SUBSET Node BY <1>1 DEF Flow, Pts, TypeOK
  <2>2. v = d /\ o \in Flow(s, d, S) BY <1>1, <2>1, AddPtsOnly
  <2>3. o \in Pts(s) /\ <<s, d, o>> \notin Filtered BY <2>2 DEF Flow
  <2> QED BY <2>2, <2>3 DEF Derivable
<1>2. diff[s] \in SUBSET Pts(s) BY DEF Pts
<1>3. UNCHANGED ptVars => FALSE BY DEF ptVars, Pts
<1>4. CASE PropagateDiff(s, d) BY <1>1, <1>2, <1>4 DEF PropagateDiff
<1>5. CASE PropagateAll(s, d) BY <1>1, <1>5 DEF PropagateAll
<1>6. CASE ConnectAndPropagate(s, d) BY <1>3, <1>5, <1>6 DEF ConnectAndPropagate
<1> QED BY <1>4, <1>5, <1>6

(* Every object that a step adds to a points-to set is derived by a rule.  *)
LEMMA FactsDerived ==
  ASSUME Inv, Step, NEW v \in Node, NEW o \in Pts(v)' \ Pts(v)
  PROVE  Derivable(v, o)
<1>0. ~ UNCHANGED <<diff, propa>> BY DEF Pts
<1>1. CASE ProcessAddr
  <2>1. PICK e \in addr_queue : AddPts(e[2], {e[1]}) /\ addr_edges' = addr_edges
    BY <1>1 DEF ProcessAddr
  <2>2. e \in addr_edges /\ e = <<e[1], e[2]>> /\ e[1] \in Node /\ e[2] \in Node
    <3>1. e \in addr_edges /\ e \in Node \X Node BY DEF Inv, TypeOK
    <3> QED BY ONLY <3>1
  <2>3. v = e[2] /\ o = e[1]
    <3>1. {e[1]} \in SUBSET Node BY <2>2
    <3> QED BY <2>1, <2>2, <3>1, AddPtsOnly DEF Inv
  <2> QED BY <2>1, <2>2, <2>3 DEF Derivable
<1>2. CASE ProcessInterProc
  <2>1. PICK e \in inter_queue : PropagateAll(e[1], e[2]) /\ UNCHANGED direct_edges
    BY <1>2 DEF ProcessInterProc
  <2>2. <<e[1], e[2]>> \in direct_edges /\ e[1] \in Node /\ e[2] \in Node
    <3>1. e \in direct_edges /\ e \in Node \X Node BY DEF Inv, TypeOK
    <3> QED BY ONLY <3>1
  <2> QED BY <2>1, <2>2, PropagateDerives DEF Inv
<1>3. CASE ProcessDirect
  <2>1. PICK e \in direct_edges : /\ PropagateDiff(e[1], e[2]) /\ e[1] \in Node /\ e[2] \in Node
                                  /\ UNCHANGED direct_edges
    BY <1>3, DirectItem DEF Inv
  <2>2. <<e[1], e[2]>> \in direct_edges'
    <3>1. e \in direct_edges' /\ e \in Node \X Node BY <2>1 DEF Inv, TypeOK
    <3> QED BY ONLY <3>1
  <2> QED BY <2>1, <2>2, PropagateDerives DEF Inv
<1>4. CASE ProcessOffset
  <2>1. PICK e \in offset_edges : PropagateDiff(e[1], e[2]) /\ e[1] \in Node /\ e[2] \in Node
    BY <1>4, OffsetItem DEF Inv
  <2>2. <<e[1], e[2]>> \in offset_edges
    <3>1. e \in offset_edges /\ e \in Node \X Node BY DEF Inv, TypeOK
    <3> QED BY ONLY <3>1
  <2> QED BY <2>1, <2>2, PropagateDerives DEF Inv
<1>5. CASE ProcessLoad \/ ProcessStore
  <2>1. PICK s \in Node, d \in Node : ConnectAndPropagate(s, d)
    BY <1>5, LoadItem, StoreItem DEF Inv
  <2>2. <<s, d>> \in direct_edges' BY <2>1, ConnectEffect DEF Inv
  <2> QED BY <2>1, <2>2, PropagateDerives DEF Inv
<1>6. CASE ProcessGep
  <2>1. PICK e \in gep_edges : /\ AddPts(e[3], {Field[x, e[2]] : x \in diff[cur]})
                               /\ e[1] = cur /\ e[3] \in Node
                               /\ {Field[x, e[2]] : x \in diff[cur]} \in SUBSET Node
    BY <1>6, GepItem DEF Inv
  <2>2. v = e[3] /\ o \in {Field[x, e[2]] : x \in diff[cur]}
    BY <2>1, AddPtsOnly DEF Inv
  <2> QED BY <2>1, <2>2 DEF Derivable, Pts
<1>7. CASE ProcessFnptrCall
  <2>1. PICK x \in todo : /\ ClosureRef[x[2], x[3]] # None
                          /\ AddPts(ClosureRef[x[2], x[3]], {x[3]})
                          /\ addr_edges' = addr_edges \cup {<<x[3], ClosureRef[x[2], x[3]]>>}
    BY <1>0, <1>7 DEF ProcessFnptrCall, ptVars
  <2>2. x[2] \in CallSite /\ x[3] \in Node BY <1>7, CallItem DEF Inv
  <2>3. ClosureRef[x[2], x[3]] \in Node /\ {x[3]} \in SUBSET Node
    BY <2>1, <2>2, CallAssumption
  <2>4. PICK ref \in Node : AddPts(ref, {x[3]}) /\ addr_edges' = addr_edges \cup {<<x[3], ref>>}
    BY <2>1, <2>3
  <2>5. PICK S \in SUBSET Node : S = {x[3]} BY <2>2
  <2>6. AddPts(ref, S) BY <2>4, <2>5
  <2>7. v = ref /\ o \in S BY <2>4, <2>6, AddPtsOnly DEF Inv
  <2>8. <<o, v>> \in addr_edges' BY <2>4, <2>5, <2>7
  <2> QED BY <2>8 DEF Derivable
<1>8. CASE Flush
  <2>1. Pts(v)' \subseteq Pts(v) BY <1>8 DEF Flush, Inv, TypeOK, Pts
  <2> QED BY <2>1
<1>9. CASE \/ AddrEdgesDone \/ InterProcEdgesDone \/ PopNode \/ SolveDone
           \/ ProcessDynamicFntraitCall \/ (\E b \in Batch : Extends(b)) \/ Takes
  BY <1>0, <1>9 DEF AddrEdgesDone, InterProcEdgesDone, PopNode, SolveDone,
     ProcessDynamicFntraitCall, Extends, ptVars, Takes
<1>10. CASE \/ HandleLoad \/ HandleStore \/ HandleGep \/ HandleOffset
            \/ HandleStaticDispatchInstanceCall \/ HandleDynamicDispatchCall
            \/ HandleFnptrCall \/ HandleDynamicFntraitCall \/ HandlersDone
  BY <1>0, <1>10 DEF HandleLoad, HandleStore, HandleGep, HandleOffset,
     HandleStaticDispatchInstanceCall, HandleDynamicDispatchCall, HandleFnptrCall,
     HandleDynamicFntraitCall, HandlersDone, Enter, ptVars
<1> QED BY <1>1, <1>2, <1>3, <1>4, <1>5, <1>6, <1>7, <1>8, <1>9, <1>10, StepFrom

(* Every direct edge that a solve adds is derived by a load or a store.    *)
LEMMA EdgesDerived ==
  ASSUME Inv, Step, ~ \E b \in Batch : Extends(b), NEW e \in direct_edges' \ direct_edges
  PROVE  \/ \E l \in load_edges : l[3] = e[2] /\ \E x \in Pts(l[1]) : e[1] = Field[x, l[2]]
         \/ \E l \in store_edges : l[1] = e[1] /\ \E x \in Pts(l[3]) : e[2] = Field[x, l[2]]
<1>1. ProcessLoad \/ ProcessStore BY EdgesKept DEF Inv
<1>2. phase \in {"load", "store"} => \A x \in todo : x[2] \in diff[cur]
  BY NodeAssumption DEF Inv, LoopItems, DiffStable, TypeOK
<1>3. CASE ProcessLoad
  <2>1. PICK l \in load_edges, x \in Node :
          /\ l[1] = cur /\ <<l, x>> \in todo /\ Iterate("load", <<l, x>>)
          /\ ConnectAndPropagate(Field[x, l[2]], l[3])
          /\ l[3] \in Node /\ Field[x, l[2]] \in Node
    BY <1>3, LoadItem DEF Inv
  <2>2. x \in diff[cur] BY <1>2, <2>1 DEF Iterate
  <2>3. e = <<Field[x, l[2]], l[3]>> BY <2>1, ConnectEffect DEF Inv
  <2> QED BY <2>1, <2>2, <2>3 DEF Pts
<1>4. CASE ProcessStore
  <2>1. PICK l \in store_edges, x \in Node :
          /\ l[3] = cur /\ <<l, x>> \in todo /\ Iterate("store", <<l, x>>)
          /\ ConnectAndPropagate(l[1], Field[x, l[2]])
          /\ l[1] \in Node /\ Field[x, l[2]] \in Node
    BY <1>4, StoreItem DEF Inv
  <2>2. x \in diff[cur] BY <1>2, <2>1 DEF Iterate
  <2>3. e = <<l[1], Field[x, l[2]]>> BY <2>1, ConnectEffect DEF Inv
  <2> QED BY <2>1, <2>2, <2>3 DEF Pts
<1> QED BY <1>1, <1>3, <1>4

(* Every address edge that a solve adds belongs to a closure reference     *)
(* that process_fnptr_call makes.                                          *)
LEMMA AddrDerived ==
  ASSUME Inv, Step, ~ \E b \in Batch : Extends(b), NEW e \in addr_edges' \ addr_edges
  PROVE  e[2] \in ClosureRefs
<1>1. ProcessFnptrCall BY EdgesKept DEF Inv, addrVars, ProcessAddr
<1>2. PICK x \in todo : /\ ClosureRef[x[2], x[3]] # None
                        /\ addr_edges' = addr_edges \cup {<<x[3], ClosureRef[x[2], x[3]]>>}
  BY <1>1 DEF ProcessFnptrCall, addrVars
<1>3. x[2] \in CallSite /\ x[3] \in Node BY <1>1, CallItem DEF Inv
<1>4. e = <<x[3], ClosureRef[x[2], x[3]]>> BY <1>2
<1>5. PICK r : r = ClosureRef[x[2], x[3]] OBVIOUS
<1>6. e[2] = r BY ONLY <1>4, <1>5
<1> QED BY <1>2, <1>3, <1>5, <1>6 DEF ClosureRefs

(* Between two solves only the driver acts.                                *)
LEMMA DriverStep ==
  ASSUME Step, phase = "driver"
  PROVE  Takes \/ \E b \in Batch : Extends(b)
BY StepFrom

(* Every step derives facts and edges by the rules, extends the program,   *)
(* or is invisible to the abstract machine.                                *)
LEMMA StepImplements ==
  Inv /\ Solved' /\ Step => [Constraints!Next]_(Constraints!vars)
<1> SUFFICES ASSUME Inv, Solved', Step PROVE [Constraints!Next]_(Constraints!vars)
  OBVIOUS
<1> DEFINE pts == [v \in Node |-> Pts(v)]
<1>0. \A v \in Node : pts[v] = Pts(v) /\ pts'[v] = Pts(v)'
  OBVIOUS
<1>1. CASE Takes
  BY <1>1 DEF Takes, Constraints!vars, graphVars, ptVars, addrVars, ctlVars, Pts
<1>2. CASE \E b \in Batch : Extends(b)
  <2>1. /\ phase = "driver" /\ phase' = "addr" /\ UNCHANGED <<diff, propa>>
        /\ addr_edges \subseteq addr_edges' /\ direct_edges \subseteq direct_edges'
        /\ offset_edges \subseteq offset_edges' /\ load_edges \subseteq load_edges'
        /\ store_edges \subseteq store_edges' /\ gep_edges \subseteq gep_edges'
    BY <1>2 DEF Extends, AddBatch, ptVars
  <2>2. UNCHANGED pts BY <2>1 DEF Pts
  <2> QED BY <2>1, <2>2 DEF Constraints!Next, Constraints!Extend
<1>3. CASE ~ Takes /\ ~ \E b \in Batch : Extends(b)
  <2>1. phase # "driver" BY <1>3, DriverStep
  <2>2. UNCHANGED <<load_edges, store_edges, gep_edges, offset_edges>>
    BY <1>3, EdgesKept DEF graphVars, Inv
  <2>3. addr_edges \subseteq addr_edges' /\ \A e \in addr_edges' \ addr_edges : e[2] \in ClosureRefs
    BY <1>3, EdgesKept, AddrDerived DEF Inv
  <2>4. \A e \in load_edges \cup store_edges : e[1] \in Node /\ e[3] \in Node
    <3>1. load_edges \cup store_edges \subseteq Node \X Proj \X Node
      BY DEF Inv, TypeOK
    <3> QED BY ONLY <3>1
  <2>5. direct_edges \subseteq direct_edges'
        /\ \A e \in direct_edges' \ direct_edges : Constraints!EdgeDerivable(e[1], e[2])
    BY <1>3, <2>4, EdgesKept, EdgesDerived DEF Inv, Constraints!EdgeDerivable
  <2>6. ASSUME NEW v \in Node
        PROVE  /\ Pts(v) \subseteq Pts(v)'
               /\ \A o \in Pts(v)' \ Pts(v) :
                    Constraints!FactDerivable(direct_edges', addr_edges', v, o)
    <3>1. \A e \in gep_edges : e[1] \in Node
      <4>1. gep_edges \subseteq Node \X Proj \X Node BY DEF Inv, TypeOK
      <4> QED BY ONLY <4>1
    <3>2. \A o \in Pts(v)' \ Pts(v) : Derivable(v, o) BY FactsDerived
    <3> QED BY <3>1, <3>2, PtsGrow DEF Inv, Derivable, Constraints!FactDerivable
  <2>7. phase' # "driver" \/ (Constraints!Solution)' BY DEF Solved
  <2> QED BY <1>0, <2>1, <2>2, <2>3, <2>5, <2>6, <2>7 DEF Constraints!Next, Constraints!Derive
<1> QED BY <1>1, <1>2, <1>3

(* The solver computes the least solution of the constraints: it derives   *)
(* only what the rules of inclusion-based analysis derive, and each solve  *)
(* ends in a solution.                                                     *)
THEOREM Implementation == Spec => ImplementsInclusionConstraints
<1>1. Init => Constraints!Init
  <2> SUFFICES ASSUME Init PROVE Constraints!Init
    OBVIOUS
  <2>1. phase = "addr" /\ \A v \in Node : Pts(v) = {} BY DEF Init, Pts
  <2> QED BY <2>1 DEF Constraints!Init
<1>2. Inv /\ Solved' /\ [Next]_vars => [Constraints!Next]_(Constraints!vars)
  BY NextIsStep, StepImplements
<1> QED
  BY <1>1, <1>2, InitInv, NextInv, NextIsStep, SolvedCorrect, PTL
  DEF Spec, ImplementsInclusionConstraints, Constraints!Spec

-----------------------------------------------------------------------------
(* The calls that the solver reports: none that the points-to sets resolve *)
(* is missed, whatever the order of the handlers.                          *)

(* What was reported stays reported: the driver moves the calls it takes   *)
(* to the taken ones.                                                      *)
LEMMA CallsGrow ==
  ASSUME Step
  PROVE  AllCalls \subseteq AllCalls' /\ AllInstances \subseteq AllInstances'
<1> USE DEF AllCalls, AllInstances, callVars, takenVars
<1>1. CASE \/ ProcessAddr \/ AddrEdgesDone \/ ProcessInterProc \/ InterProcEdgesDone
           \/ PopNode \/ SolveDone \/ Flush
  BY <1>1 DEF ProcessAddr, AddrEdgesDone, ProcessInterProc, InterProcEdgesDone, PopNode,
     SolveDone, Flush
<1>2. CASE \/ ProcessDirect \/ ProcessLoad \/ ProcessStore \/ ProcessGep \/ ProcessOffset
  BY <1>2 DEF ProcessDirect, ProcessLoad, ProcessStore, ProcessGep, ProcessOffset, Iterate
<1>3. CASE \/ HandleLoad \/ HandleStore \/ HandleGep \/ HandleOffset
           \/ HandleFnptrCall \/ HandleDynamicFntraitCall \/ HandlersDone
  BY <1>3 DEF HandleLoad, HandleStore, HandleGep, HandleOffset,
     HandleFnptrCall, HandleDynamicFntraitCall, HandlersDone
<1>4. CASE HandleStaticDispatchInstanceCall \/ HandleDynamicDispatchCall
  BY <1>4 DEF HandleStaticDispatchInstanceCall, HandleDynamicDispatchCall
<1>5. CASE ProcessFnptrCall BY <1>5 DEF ProcessFnptrCall, CallIteration, AddNewCall
<1>6. CASE ProcessDynamicFntraitCall
  BY <1>6 DEF ProcessDynamicFntraitCall, CallIteration, AddNewCall
<1>7. CASE \E b \in Batch : Extends(b) BY <1>7 DEF Extends
<1>8. CASE Takes BY <1>8 DEF Takes
<1> QED BY <1>1, <1>2, <1>3, <1>4, <1>5, <1>6, <1>7, <1>8, StepFrom

(* A site that the driver adds is registered with a node that has no       *)
(* objects yet, so that no handler has missed any.                         *)
LEMMA NewSiteUnvisited ==
  ASSUME Inv, NEW b \in Batch, Extends(b), NEW ph, NEW x, NEW o,
         NEW c \in (b.instance \cup b.dispatch \cup b.fnptr \cup b.fntrait), c[1] \in Node
  PROVE  ~ Visited(c[1], ph, x, o)'
<1>1. propa' = propa /\ UNCHANGED <<cur, base>> BY DEF Extends, ptVars
<1>2. Pts(c[1]) = {} BY DEF Extends, Acceptable
<1> QED BY <1>1, <1>2, VisitedInPts

(* The registered sites have the types of AssocCallGroup.                  *)
LEMMA SiteType ==
  ASSUME TypeOK
  PROVE  /\ \A c \in assoc_calls.instance : c[1] \in Node /\ c[2] \in CallSite /\ c[3] \in Func
         /\ \A c \in assoc_calls.dispatch \cup assoc_calls.fnptr \cup assoc_calls.fntrait :
              c[1] \in Node /\ c[2] \in CallSite
<1>1. /\ assoc_calls.instance \in SUBSET (Node \X CallSite \X Func)
      /\ assoc_calls.dispatch \in SUBSET (Node \X CallSite)
      /\ assoc_calls.fnptr \in SUBSET (Node \X CallSite)
      /\ assoc_calls.fntrait \in SUBSET (Node \X CallSite)
  BY DEF TypeOK
<1> QED BY ONLY <1>1

(* Where the registered sites come from: the driver, and function pointers *)
(* that are called through a trait object.                                 *)
LEMMA SitesKept ==
  ASSUME Inv, Step
  PROVE  \/ \E b \in Batch :
              /\ Extends(b)
              /\ assoc_calls'.instance = assoc_calls.instance \cup b.instance
              /\ assoc_calls'.dispatch = assoc_calls.dispatch \cup b.dispatch
              /\ assoc_calls'.fnptr = assoc_calls.fnptr \cup b.fnptr
              /\ assoc_calls'.fntrait = assoc_calls.fntrait \cup b.fntrait
         \/ /\ assoc_calls'.instance = assoc_calls.instance
            /\ assoc_calls'.dispatch = assoc_calls.dispatch
            /\ assoc_calls'.fntrait = assoc_calls.fntrait
            /\ assoc_calls'.fnptr = assoc_calls.fnptr \/ ProcessDynamicFntraitCall
<1>1. CASE \E b \in Batch : Extends(b)
  <2> PICK b \in Batch : Extends(b) BY <1>1
  <2>1. /\ assoc_calls'.instance = assoc_calls.instance \cup b.instance
        /\ assoc_calls'.dispatch = assoc_calls.dispatch \cup b.dispatch
        /\ assoc_calls'.fnptr = assoc_calls.fnptr \cup b.fnptr
        /\ assoc_calls'.fntrait = assoc_calls.fntrait \cup b.fntrait
    BY DEF Extends, AddBatch
  <2> QED BY <2>1
<1>2. CASE ProcessDynamicFntraitCall
  <2>1. assoc_calls' = assoc_calls \/ \E S : assoc_calls' = [assoc_calls EXCEPT !.fnptr = S]
    BY <1>2 DEF ProcessDynamicFntraitCall
  <2> QED BY <1>2, <2>1 DEF Inv, TypeOK
<1>3. CASE UNCHANGED assoc_calls BY <1>3
<1> QED BY <1>1, <1>2, <1>3, EdgesKept DEF Inv

(* handle_static_dispatch_instance_call reports every new receiver.        *)
LEMMA InstanceHandledInv == Inv /\ InstanceHandled /\ Step => InstanceHandled'
<1> SUFFICES ASSUME Inv, InstanceHandled, Step, NEW c \in assoc_calls'.instance,
                    NEW o \in Node, Visited(c[1], "instance", c, o)'
             PROVE  <<c[2], o, c[3]>> \in AllInstances'
  BY DEF InstanceHandled
<1>1. c[1] \in Node
  <2>1. TypeOK' BY TypeInv DEF Inv
  <2>2. assoc_calls'.instance \in SUBSET (Node \X CallSite \X Func) BY <2>1 DEF TypeOK
  <2> QED BY ONLY <2>2, c \in assoc_calls'.instance
<1>2. CASE c \in assoc_calls.instance
  <2>1. CASE Visited(c[1], "instance", c, o)
    BY <1>2, <2>1, CallsGrow DEF InstanceHandled
  <2>2. CASE LeftOut(c[1], "instance", c, o)
    <3>1. HandleStaticDispatchInstanceCall BY <2>2, EnterStep DEF Handlers
    <3>2. c[1] = cur /\ o \in diff[cur]
      BY <1>1, <2>2, <3>1, NodeAssumption
      DEF HandleStaticDispatchInstanceCall, Enter, LeftOut, Inv, DiffStable
    <3> QED BY <1>2, <3>1, <3>2 DEF HandleStaticDispatchInstanceCall, AllInstances
  <2>3. ~JustVisited(c[1], "instance", c, o) BY VisitStep DEF Handlers
  <2> QED BY <1>1, <2>1, <2>2, <2>3, VisitedStep DEF Handlers
<1>3. CASE c \notin assoc_calls.instance
  BY <1>1, <1>3, SitesKept, NewSiteUnvisited
<1> QED BY <1>2, <1>3

(* handle_dynamic_dispatch_call reports the method of every new receiver.  *)
LEMMA DispatchHandledInv == Inv /\ DispatchHandled /\ Step => DispatchHandled'
<1> SUFFICES ASSUME Inv, DispatchHandled, Step, NEW c \in assoc_calls'.dispatch,
                    NEW o \in Node, Visited(c[1], "dispatch", c, o)'
             PROVE  Devirtualized(c[2], {o}) \subseteq AllInstances'
  BY DEF DispatchHandled, Devirtualized
<1>1. c[1] \in Node
  <2>1. TypeOK' BY TypeInv DEF Inv
  <2>2. assoc_calls'.dispatch \in SUBSET (Node \X CallSite) BY <2>1 DEF TypeOK
  <2> QED BY ONLY <2>2, c \in assoc_calls'.dispatch
<1>2. CASE c \in assoc_calls.dispatch
  <2>1. CASE Visited(c[1], "dispatch", c, o)
    BY <1>2, <2>1, CallsGrow DEF DispatchHandled
  <2>2. CASE LeftOut(c[1], "dispatch", c, o)
    <3>1. HandleDynamicDispatchCall BY <2>2, EnterStep DEF Handlers
    <3>2. c[1] = cur /\ o \in diff[cur]
      BY <1>1, <2>2, <3>1, NodeAssumption
      DEF HandleDynamicDispatchCall, Enter, LeftOut, Inv, DiffStable
    <3>3. c[2] \in Sites(assoc_calls.dispatch) BY <1>2, <3>2 DEF Sites
    <3>4. Devirtualized(c[2], {o}) \subseteq Devirtualized(c[2], diff[cur])
      BY <3>2 DEF Devirtualized
    <3> QED BY <3>1, <3>3, <3>4 DEF HandleDynamicDispatchCall, AllInstances
  <2>3. ~JustVisited(c[1], "dispatch", c, o) BY VisitStep DEF Handlers
  <2> QED BY <1>1, <2>1, <2>2, <2>3, VisitedStep DEF Handlers
<1>3. CASE c \notin assoc_calls.dispatch
  BY <1>1, <1>3, SitesKept, NewSiteUnvisited
<1> QED BY <1>2, <1>3

(* process_fnptr_call reports the call of every new target of a function   *)
(* pointer, and process_dynamic_fntrait_call leaves the targets of a       *)
(* pointer that it registers to the rest of its loop.                      *)
LEMMA FnptrHandledInv == Inv /\ FnptrHandled /\ Step => FnptrHandled'
<1> SUFFICES ASSUME Inv, FnptrHandled, Step, NEW c \in assoc_calls'.fnptr,
                    NEW o \in Node, Visited(c[1], "fnptr", <<"fnptr", c[2], o>>, o)',
                    FnCallee[o] # None
             PROVE  \/ <<c[2], FnCallee[o]>> \in AllCalls'
                    \/ phase' \in {"fnptr", "fntrait"} /\ <<"fnptr", c[2], o>> \in todo'
  BY DEF FnptrHandled
<1> DEFINE x == <<"fnptr", c[2], o>>
<1> HIDE DEF x
<1>0. x[1] = "fnptr" /\ x[2] = c[2] /\ x[3] = o BY DEF x
<1>1. c[1] \in Node /\ c[2] \in CallSite
  <2>1. TypeOK' BY TypeInv DEF Inv
  <2>2. assoc_calls'.fnptr \in SUBSET (Node \X CallSite) BY <2>1 DEF TypeOK
  <2> QED BY ONLY <2>2, c \in assoc_calls'.fnptr
(* The item leaves the loop with its call reported.                        *)
<1>2. ASSUME phase \in {"fnptr", "fntrait"}, x \in todo
      PROVE  \/ <<c[2], FnCallee[o]>> \in AllCalls'
             \/ phase' \in {"fnptr", "fntrait"} /\ x \in todo'
  <2>1. CASE ProcessFnptrCall
    <3>1. PICK y \in todo : /\ CallIteration(todo \ {y})
                            /\ FnCallee[y[3]] # None => AddNewCall(y[2], FnCallee[y[3]])
      BY <2>1 DEF ProcessFnptrCall
    <3>2. CASE y = x
      <4>1. AddNewCall(c[2], FnCallee[o]) BY <1>0, <3>1, <3>2
      <4> QED BY <4>1 DEF AddNewCall, AllCalls
    <3>3. CASE y # x BY <1>2, <3>1, <3>3 DEF CallIteration
    <3> QED BY <3>2, <3>3
  <2>2. CASE ProcessDynamicFntraitCall
    <3>1. PICK y \in todo : y[1] = "fntrait" /\ todo \ {y} \subseteq todo' /\ phase' = phase
      BY <2>2 DEF ProcessDynamicFntraitCall, CallIteration
    <3> QED BY <1>0, <1>2, <3>1
  <2>3. CASE HandleDynamicFntraitCall \/ HandlersDone
    BY <1>2, <2>3 DEF HandleDynamicFntraitCall, HandlersDone, Enter, LoopPhases
  <2>4. CASE Takes BY <1>2, <2>4 DEF Takes, ctlVars
  <2> QED BY <1>2, <2>1, <2>2, <2>3, <2>4, StepFrom
<1>3. CASE c \in assoc_calls.fnptr
  <2>1. CASE Visited(c[1], "fnptr", x, o)
    <3>1. <<c[2], FnCallee[o]>> \in AllCalls \/ (phase \in {"fnptr", "fntrait"} /\ x \in todo)
      BY <1>3, <2>1 DEF FnptrHandled, x
    <3> QED BY <1>2, <3>1, CallsGrow DEF x
  <2>2. CASE JustVisited(c[1], "fnptr", x, o)
    BY <1>2, <2>2 DEF JustVisited, x
  <2>3. ~LeftOut(c[1], "fnptr", x, o)
    <3> SUFFICES ASSUME LeftOut(c[1], "fnptr", x, o) PROVE FALSE
      OBVIOUS
    <3>1. HandleFnptrCall BY EnterStep DEF Handlers
    <3>2. c[1] = cur /\ o \in diff[cur]
      BY <1>1, <3>1, NodeAssumption DEF HandleFnptrCall, Enter, LeftOut, Inv, DiffStable
    <3>3. c[2] \in Sites(assoc_calls.fnptr) BY <1>3, <3>2 DEF Sites
    <3>4. x \in todo' BY <3>1, <3>2, <3>3 DEF HandleFnptrCall, Enter, x
    <3> QED BY <3>4 DEF LeftOut
  <2>4. Visited(c[1], "fnptr", x, o)' BY DEF x
  <2> QED BY <1>1, <2>1, <2>2, <2>3, <2>4, VisitedStep DEF Handlers
<1>4. CASE c \notin assoc_calls.fnptr
  <2>1. CASE \E b \in Batch : Extends(b) /\ c \in b.fnptr
    BY <1>1, <2>1, NewSiteUnvisited
  <2>2. CASE ProcessDynamicFntraitCall
    <3>1. PICK y \in todo :
            /\ CallIteration((todo \ {y}) \cup ({"fnptr"} \X {Unpack[y[2]]} \X Pts(y[3])))
            /\ assoc_calls' = [assoc_calls EXCEPT !.fnptr = @ \cup {<<y[3], Unpack[y[2]]>>}]
            /\ UNCHANGED ptVars
      BY <1>4, <2>2 DEF ProcessDynamicFntraitCall
    <3>2. c = <<y[3], Unpack[y[2]]>> BY <1>4, <3>1 DEF Inv, TypeOK
    <3>3. c[1] = y[3] /\ c[2] = Unpack[y[2]] BY ONLY <3>2
    <3>4. propa' = propa /\ UNCHANGED <<cur, base>> BY <3>1 DEF CallIteration, ptVars
    <3>5. o \in Pts(c[1]) BY <1>1, <3>4, VisitedInPts
    <3>6. x \in todo' /\ phase' \in {"fnptr", "fntrait"}
      BY <3>1, <3>3, <3>5 DEF CallIteration, x
    <3> QED BY <3>6 DEF x
  <2> QED BY <1>4, <2>1, <2>2, SitesKept
<1> QED BY <1>3, <1>4

(* process_dynamic_fntrait_call reports or registers every new object.     *)
LEMMA FntraitHandledInv == Inv /\ FntraitHandled /\ Step => FntraitHandled'
<1> DEFINE Resolved(c, o) ==
      IF o \in FnPtrObj THEN <<o, Unpack[c[2]]>> \in assoc_calls.fnptr
      ELSE IF FnCallee[o] # None THEN <<Unpack[c[2]], FnCallee[o]>> \in AllCalls
      ELSE Devirtualized(c[2], {o}) \subseteq AllInstances
<1> SUFFICES ASSUME Inv, FntraitHandled, Step, NEW c \in assoc_calls'.fntrait,
                    NEW o \in Node, Visited(c[1], "fntrait", <<"fntrait", c[2], o>>, o)'
             PROVE  Resolved(c, o)'
  BY DEF FntraitHandled, Devirtualized
<1> DEFINE x == <<"fntrait", c[2], o>>
<1> HIDE DEF x
<1>0. x[1] = "fntrait" /\ x[2] = c[2] /\ x[3] = o BY DEF x
<1>1. c[1] \in Node /\ c[2] \in CallSite
  <2>1. TypeOK' BY TypeInv DEF Inv
  <2>2. assoc_calls'.fntrait \in SUBSET (Node \X CallSite) BY <2>1 DEF TypeOK
  <2> QED BY ONLY <2>2, c \in assoc_calls'.fntrait
<1>2. CASE c \in assoc_calls.fntrait
  <2>1. CASE Visited(c[1], "fntrait", x, o)
    <3>1. Resolved(c, o) BY <1>2, <2>1 DEF FntraitHandled, x
    <3>2. assoc_calls.fnptr \subseteq assoc_calls'.fnptr
      <4>1. CASE ProcessDynamicFntraitCall
        BY <4>1 DEF ProcessDynamicFntraitCall, Inv, TypeOK
      <4> QED BY <4>1, SitesKept
    <3> QED BY <3>1, <3>2, CallsGrow DEF Devirtualized
  <2>2. CASE JustVisited(c[1], "fntrait", x, o)
    <3>1. phase = "fntrait" /\ x \in todo \ todo' BY <2>2 DEF JustVisited
    <3>2. ~ProcessFnptrCall
      <4>1. ProcessFnptrCall => \E y \in todo : y[1] = "fnptr" /\ todo' = todo \ {y}
        BY DEF ProcessFnptrCall, CallIteration
      <4> QED BY <1>0, <3>1, <4>1
    <3>3. ProcessDynamicFntraitCall BY <2>2, <3>2, VisitStep DEF Handlers
    <3>4. PICK y \in todo :
            /\ todo \ {y} \subseteq todo'
            /\ \/ /\ y[3] \in FnPtrObj
                  /\ assoc_calls' = [assoc_calls EXCEPT !.fnptr = @ \cup {<<y[3], Unpack[y[2]]>>}]
               \/ /\ y[3] \notin FnPtrObj /\ FnCallee[y[3]] # None
                  /\ AddNewCall(Unpack[y[2]], FnCallee[y[3]])
               \/ /\ y[3] \notin FnPtrObj /\ FnCallee[y[3]] = None
                  /\ new_call_instances' = new_call_instances \cup Devirtualized(y[2], {y[3]})
      BY <3>3 DEF ProcessDynamicFntraitCall, CallIteration
    <3>5. y = x BY <3>1, <3>4
    <3>6. \/ /\ o \in FnPtrObj
             /\ assoc_calls' = [assoc_calls EXCEPT !.fnptr = @ \cup {<<o, Unpack[c[2]]>>}]
          \/ /\ o \notin FnPtrObj /\ FnCallee[o] # None
             /\ AddNewCall(Unpack[c[2]], FnCallee[o])
          \/ /\ o \notin FnPtrObj /\ FnCallee[o] = None
             /\ new_call_instances' = new_call_instances \cup Devirtualized(c[2], {o})
      BY <1>0, <3>4, <3>5
    <3> QED BY <3>6 DEF AddNewCall, AllCalls, AllInstances, Devirtualized, Inv, TypeOK
  <2>3. ~LeftOut(c[1], "fntrait", x, o)
    <3> SUFFICES ASSUME LeftOut(c[1], "fntrait", x, o) PROVE FALSE
      OBVIOUS
    <3>1. HandleDynamicFntraitCall BY EnterStep DEF Handlers
    <3>2. c[1] = cur /\ o \in diff[cur]
      BY <1>1, <3>1, NodeAssumption DEF HandleDynamicFntraitCall, Enter, LeftOut, Inv, DiffStable
    <3>3. c[2] \in Sites(assoc_calls.fntrait) BY <1>2, <3>2 DEF Sites
    <3>4. x \in todo' BY <3>1, <3>2, <3>3 DEF HandleDynamicFntraitCall, Enter, x
    <3> QED BY <3>4 DEF LeftOut
  <2>4. Visited(c[1], "fntrait", x, o)' BY DEF x
  <2> QED BY <1>1, <2>1, <2>2, <2>3, <2>4, VisitedStep DEF Handlers
<1>3. CASE c \notin assoc_calls.fntrait
  BY <1>1, <1>3, SitesKept, NewSiteUnvisited
<1> QED BY <1>2, <1>3

(* Every step keeps the calls of all four kinds handled.                   *)
LEMMA CallsHandledInv == Inv /\ CallsHandled /\ Step => CallsHandled'
BY InstanceHandledInv, DispatchHandledInv, FnptrHandledInv, FntraitHandledInv
DEF CallsHandled

(* Between two solves everything has been through every handler: what they *)
(* have been through and reported is all there is to report.               *)
LEMMA ResolvedWhenHandled == Inv /\ CallsHandled => CallsResolved
<1> SUFFICES ASSUME Inv, CallsHandled, phase = "driver" PROVE CallsResolved
  BY DEF CallsResolved
<1>1. \A v \in Node : \A o \in Pts(v) : \A ph, x : o \in Node /\ Visited(v, ph, x, o)
  BY AllPropagated DEF Visited, Inv, TypeOK, Pts
<1>2. \A c \in assoc_calls.instance : \A o \in Pts(c[1]) : <<c[2], o, c[3]>> \in AllInstances
  BY <1>1, SiteType DEF CallsHandled, InstanceHandled, Inv
<1>3. \A c \in assoc_calls.dispatch : Devirtualized(c[2], Pts(c[1])) \subseteq AllInstances
  <2> SUFFICES ASSUME NEW c \in assoc_calls.dispatch, NEW o \in Pts(c[1]),
                      DynCallee[c[2], o] # None
               PROVE  <<c[2], o, DynCallee[c[2], o]>> \in AllInstances
    BY DEF Devirtualized
  <2>1. Devirtualized(c[2], {o}) \subseteq AllInstances
    BY <1>1, SiteType DEF CallsHandled, DispatchHandled, Inv
  <2> QED BY <2>1 DEF Devirtualized
<1>4. FnptrResolved
  BY <1>1, SiteType DEF CallsHandled, FnptrHandled, FnptrResolved, Inv
<1>5. FntraitResolved
  BY <1>1, SiteType DEF CallsHandled, FntraitHandled, FntraitResolved, Inv
<1> QED BY <1>2, <1>3, <1>4, <1>5 DEF CallsResolved

-----------------------------------------------------------------------------
(* Inside the handlers too, the calls that a loop has been through are     *)
(* reported or still ahead in the loop.                                    *)
THEOREM CallsHandledCorrect == Spec => []CallsHandled
<1>1. Init => CallsHandled
  <2> SUFFICES ASSUME Init PROVE CallsHandled
    OBVIOUS
  <2>1. phase = "addr" /\ base = {} /\ propa = [v \in Node |-> {}] BY DEF Init
  <2>2. \A v \in Node : \A ph, x, o : ~Visited(v, ph, x, o) BY <2>1 DEF Visited
  <2>3. TypeOK BY InitInv DEF Inv
  <2> QED BY <2>2, <2>3, SiteType DEF CallsHandled, InstanceHandled, DispatchHandled,
         FnptrHandled, FntraitHandled
<1>2. Inv /\ CallsHandled /\ [Next]_vars => CallsHandled'
  BY NextIsStep, CallsHandledInv
<1> QED BY <1>1, <1>2, InitInv, NextInv, NextIsStep, PTL DEF Spec

(* When solve_worklist returns, every call that the points-to sets resolve *)
(* has been reported.                                                      *)
THEOREM CallsResolvedCorrect == Spec => []CallsResolved
BY ResolvedWhenHandled, InitInv, NextInv, NextIsStep, CallsHandledCorrect, PTL DEF Spec

(* Whatever the program, the order of the loops and what the driver adds:  *)
(* inside process_node too, every edge and every call that a handler has   *)
(* been through is complete or still ahead in its loop.                    *)
THEOREM EverythingHandled == Spec => []Handled
<1>1. EdgesHandled /\ CallsHandled => Handled BY DEF Handled
<1> QED BY <1>1, HandledCorrect, CallsHandledCorrect, PTL

(* When solve_worklist returns, its points-to sets satisfy every           *)
(* constraint and every call that they resolve has been reported.          *)
THEOREM SolveComplete == Spec => []Complete
<1>1. Solved /\ CallsResolved => Complete BY DEF Complete
<1> QED BY <1>1, SolvedCorrect, CallsResolvedCorrect, PTL
=============================================================================
