--------------------------- MODULE AndersenProofs ---------------------------
(***************************************************************************)
(* Proofs about the driver AndersenPTA, for every program: types; that no  *)
(* round of propagate leaves work behind (RoundClosed, by RoundInv); that  *)
(* driver and solver keep their contract (ContractKept, by OwnInv); and    *)
(* that the result is the least solution of module AndersenFixpoint: the   *)
(* analysis stays within it (Within), and has all of it when it ends, each *)
(* iterate of the rules being below its state (Below).                     *)
(***************************************************************************)
EXTENDS AndersenFixpoint, PropagatorProofs, WellFoundedInduction

Types == TypeOK /\ PTATypeOK

(* The solver takes no step while the driver runs.                         *)
LEMMA SolverRuns == ASSUME SolveWorklist PROVE phase # "driver"
<1>1. CASE \/ ProcessAddr \/ AddrEdgesDone \/ ProcessInterProc \/ InterProcEdgesDone
           \/ PopNode \/ SolveDone \/ Flush
  BY <1>1 DEF ProcessAddr, AddrEdgesDone, ProcessInterProc, InterProcEdgesDone, PopNode,
     SolveDone, Flush
<1>2. CASE \/ ProcessDirect \/ ProcessLoad \/ ProcessStore \/ ProcessGep \/ ProcessOffset
  BY <1>2 DEF ProcessDirect, ProcessLoad, ProcessStore, ProcessGep, ProcessOffset, Iterate
<1>3. CASE \/ HandleLoad \/ HandleStore \/ HandleGep \/ HandleOffset \/ HandleFnptrCall
           \/ HandleStaticDispatchInstanceCall \/ HandleDynamicDispatchCall
           \/ HandleDynamicFntraitCall \/ HandlersDone
  BY <1>3 DEF HandleLoad, HandleStore, HandleGep, HandleOffset, HandleFnptrCall,
     HandleStaticDispatchInstanceCall, HandleDynamicDispatchCall,
     HandleDynamicFntraitCall, HandlersDone, Enter
<1>4. CASE ProcessFnptrCall \/ ProcessDynamicFntraitCall
  <2>1. phase \in {"fnptr", "fntrait"}
    BY <1>4 DEF ProcessFnptrCall, ProcessDynamicFntraitCall, CallIteration
  <2> QED BY <2>1
<1> QED BY <1>1, <1>2, <1>3, <1>4 DEF SolveWorklist, ProcessNode

(* A step of the solver takes no edge and no call site out of the PAG, and *)
(* it leaves the calls that the driver has taken alone.                    *)
LEMMA SolverKeeps ==
  ASSUME TypeOK, SolveWorklist
  PROVE  /\ addr_edges \subseteq addr_edges' /\ direct_edges \subseteq direct_edges'
         /\ UNCHANGED <<load_edges, store_edges, gep_edges, offset_edges, takenVars>>
         /\ assoc_calls.dispatch \subseteq assoc_calls'.dispatch
         /\ assoc_calls.fnptr \subseteq assoc_calls'.fnptr
         /\ assoc_calls.fntrait \subseteq assoc_calls'.fntrait
<1>1. Step BY DEF Step
<1>2. ~ \E b \in Batch : Extends(b) BY SolverRuns DEF Extends
<1>3. /\ addr_edges \subseteq addr_edges' /\ direct_edges \subseteq direct_edges'
      /\ UNCHANGED graphVars
      /\ assoc_calls' # assoc_calls => ProcessDynamicFntraitCall
  BY <1>1, <1>2, EdgesKept
<1>4. UNCHANGED takenVars
  <2>1. CASE \/ ProcessAddr \/ AddrEdgesDone \/ ProcessInterProc \/ InterProcEdgesDone
             \/ PopNode \/ SolveDone \/ Flush
    BY <2>1 DEF ProcessAddr, AddrEdgesDone, ProcessInterProc, InterProcEdgesDone, PopNode,
       SolveDone, Flush, callVars
  <2>2. CASE \/ ProcessDirect \/ ProcessLoad \/ ProcessStore \/ ProcessGep \/ ProcessOffset
    BY <2>2 DEF ProcessDirect, ProcessLoad, ProcessStore, ProcessGep, ProcessOffset, Iterate,
       callVars
  <2>3. CASE \/ HandleLoad \/ HandleStore \/ HandleGep \/ HandleOffset \/ HandleFnptrCall
             \/ HandleStaticDispatchInstanceCall \/ HandleDynamicDispatchCall
             \/ HandleDynamicFntraitCall \/ HandlersDone
    BY <2>3 DEF HandleLoad, HandleStore, HandleGep, HandleOffset, HandleFnptrCall,
       HandleStaticDispatchInstanceCall, HandleDynamicDispatchCall,
       HandleDynamicFntraitCall, HandlersDone, callVars
  <2>4. CASE ProcessFnptrCall \/ ProcessDynamicFntraitCall
    BY <2>4 DEF ProcessFnptrCall, ProcessDynamicFntraitCall, CallIteration
  <2> QED BY <2>1, <2>2, <2>3, <2>4 DEF SolveWorklist, ProcessNode
<1>5. CASE UNCHANGED assoc_calls BY <1>3, <1>4, <1>5 DEF graphVars
<1>6. CASE ProcessDynamicFntraitCall
  <2>1. /\ assoc_calls.dispatch \subseteq assoc_calls'.dispatch
        /\ assoc_calls.fnptr \subseteq assoc_calls'.fnptr
        /\ assoc_calls.fntrait \subseteq assoc_calls'.fntrait
    BY <1>6 DEF ProcessDynamicFntraitCall, TypeOK
  <2> QED BY <2>1, <1>3, <1>4 DEF graphVars
<1> QED BY <1>3, <1>5, <1>6

(* What a new call edge adds to the PAG are edges of its own call.         *)
LEMMA InterProcType ==
  ASSUME NEW C \in SUBSET Calls
  PROVE  InterProcEdges(C) \in SUBSET (Node \X Node)
<1>1. \A c \in Calls : CallFlow[c] \in SUBSET (Node \X Node) BY ProgramAssumption
<1>2. {x \in NewCallEdges(C) : x[2] \notin Unavailable} \subseteq Calls BY DEF NewCallEdges
<1> DEFINE D == {x \in NewCallEdges(C) : x[2] \notin Unavailable}
<1>3. InterProcEdges(C) = UNION {CallFlow[c] : c \in D} BY DEF InterProcEdges
<1> HIDE DEF D
<1>4. D \subseteq Calls BY <1>2 DEF D
<1> QED BY <1>1, <1>3, <1>4

(* The bodies that add_fpag_edges adds are bodies of the program.          *)
LEMMA FpagFuncsType ==
  ASSUME NEW f \in Func
  PROVE  /\ FpagFuncs(f) \subseteq Body
         /\ FpagFuncs(f) \subseteq {f} \cup Initialiser
BY DepsAssumption DEF FpagFuncs, Body

(* CallGraph::add_edge keeps the call graph's types.                       *)
LEMMA InsertType ==
  ASSUME PTATypeOK, NEW C \in SUBSET Calls, NEW rest \in SUBSET func_nodes,
         InsertCalls(C, rest)
  PROVE  /\ call_graph' \subseteq CallSite \X Func /\ func_nodes' \subseteq Func
         /\ reach_funcs' \subseteq func_nodes'
         /\ \A e \in call_graph' : e[2] \in func_nodes'
<1>1. \A c \in C : c[1] \in CallSite /\ c[2] \in Func BY DEF Calls
<1>2. \A c \in C : Base[c[1]] \in CallSite BY <1>1, ProgramAssumption
<1>3. call_graph' \subseteq CallSite \X Func BY <1>1, <1>2 DEF InsertCalls, PTATypeOK
<1>4. func_nodes' \subseteq Func BY <1>1 DEF InsertCalls, PTATypeOK
<1>5. reach_funcs' \subseteq func_nodes' BY DEF InsertCalls, PTATypeOK
<1>6. \A e \in call_graph' : e[2] \in func_nodes' BY DEF InsertCalls, PTATypeOK
<1> QED BY <1>3, <1>4, <1>5, <1>6

(* add_call_edge keeps the driver's types.                                 *)
LEMMA AddCallEdgeType ==
  ASSUME Types, NEW c \in Calls, AddCallEdge(c), phase = "driver", UNCHANGED <<phase, stage>>
  PROVE  PTATypeOK'
<1>1. InterProcEdges({c}) \in SUBSET (Node \X Node) BY InterProcType
<1>2. reach_funcs \in SUBSET func_nodes BY DEF Types, PTATypeOK
<1>3. InsertCalls({c}, reach_funcs) BY DEF AddCallEdge
<1>4. /\ call_graph' \subseteq CallSite \X Func /\ func_nodes' \subseteq Func
      /\ reach_funcs' \subseteq func_nodes'
      /\ \A e \in call_graph' : e[2] \in func_nodes'
  BY <1>2, <1>3, InsertType DEF Types
<1>5. added' \in Batch /\ added'.inter \subseteq added'.direct
  BY <1>1 DEF AddCallEdge, Types, PTATypeOK, Batch
<1> QED BY <1>4, <1>5 DEF AddCallEdge, Types, PTATypeOK

(* add_fpag_edges keeps the driver's types.                                *)
LEMMA AddEdgesType ==
  ASSUME PTATypeOK, NEW f \in Func, NEW B \in SUBSET Body,
         NEW flow \in SUBSET (Node \X Node), NEW fresh,
         fresh \subseteq flow \cup UNION {FuncPag[g].direct : g \in B},
         AddEdges(f, B, flow, fresh)
  PROVE  added' \in Batch /\ added'.inter \subseteq added'.direct
<1> DEFINE edges(k) == added[k] \cup UNION {FuncPag[g][k] : g \in B}
<1>1. \A g \in Body : FuncPag[g] \in Batch BY ProgramAssumption
<1>2. added \in Batch /\ added.inter \subseteq added.direct BY DEF PTATypeOK
<1>3. /\ edges("addr") \in SUBSET (Node \X Node) /\ edges("direct") \in SUBSET (Node \X Node)
      /\ edges("offset") \in SUBSET (Node \X Node)
  BY <1>1, <1>2 DEF Batch
<1>4. /\ edges("load") \in SUBSET (Node \X Proj \X Node)
      /\ edges("store") \in SUBSET (Node \X Proj \X Node)
      /\ edges("gep") \in SUBSET (Node \X Proj \X Node)
  BY <1>1, <1>2 DEF Batch
<1>5. /\ added.dispatch \cup FuncPag[f].dispatch \in SUBSET (Node \X CallSite)
      /\ added.fnptr \cup FuncPag[f].fnptr \in SUBSET (Node \X CallSite)
      /\ added.fntrait \cup FuncPag[f].fntrait \in SUBSET (Node \X CallSite)
      /\ added.instance \in SUBSET (Node \X CallSite \X Func)
  BY <1>1, <1>2 DEF Batch, Body
<1>6. added.inter \cup fresh \subseteq edges("direct") \cup flow BY <1>2
<1>7. added' = [addr |-> edges("addr"), direct |-> edges("direct") \cup flow,
            inter |-> added.inter \cup fresh, offset |-> edges("offset"),
            load |-> edges("load"), store |-> edges("store"), gep |-> edges("gep"),
            instance |-> added.instance,
            dispatch |-> added.dispatch \cup FuncPag[f].dispatch,
            fnptr |-> added.fnptr \cup FuncPag[f].fnptr,
            fntrait |-> added.fntrait \cup FuncPag[f].fntrait]
  BY DEF AddEdges
<1> HIDE DEF edges
<1>8. edges("direct") \cup flow \in SUBSET (Node \X Node) BY <1>3
<1>9. added.inter \cup fresh \in SUBSET (Node \X Node) BY <1>6, <1>8
<1> QED BY <1>3, <1>4, <1>5, <1>6, <1>7, <1>8, <1>9 DEF Batch

(* build_func_pag, add_fpag_edges and process_calls_in_fpag keep them.     *)
LEMMA AddFuncPagType ==
  ASSUME Types, NEW f \in reach_funcs, AddFuncPag(f), phase = "driver", UNCHANGED <<phase, stage>>
  PROVE  PTATypeOK'
<1> DEFINE B == FpagFuncs(f)
           direct == UNION {FuncPag[g].direct : g \in B}
           flow == InterProcEdges(StaticCalls[f])
           fresh == ({e \in direct : e[1] \in StaticNode} \cup (flow \ direct)) \ KnownDirect
<1>1. f \in Func /\ f \in Body BY DEF Types, PTATypeOK, Body
<1>2. StaticCalls[f] \in SUBSET Calls /\ SpecialCalls[f] \in SUBSET Calls
  BY <1>1, ProgramAssumption
<1>3. B \in SUBSET Body /\ flow \in SUBSET (Node \X Node)
  BY <1>1, <1>2, FpagFuncsType, InterProcType
<1>4. /\ InsertCalls(StaticCalls[f] \cup SpecialCalls[f], reach_funcs \ {f})
      /\ processed_funcs' = processed_funcs \cup B
      /\ special_functions' = special_functions \cup SpecialCallees(B)
      /\ AddEdges(f, B, flow, fresh)
  BY DEF AddFuncPag
<1>5. fresh \subseteq flow \cup direct OBVIOUS
<1> HIDE DEF B, flow, fresh
<1>6. added' \in Batch /\ added'.inter \subseteq added'.direct
  BY <1>1, <1>3, <1>4, <1>5, AddEdgesType DEF Types
<1>7. /\ call_graph' \subseteq CallSite \X Func /\ func_nodes' \subseteq Func
      /\ reach_funcs' \subseteq func_nodes'
      /\ \A e \in call_graph' : e[2] \in func_nodes'
  <2>1. StaticCalls[f] \cup SpecialCalls[f] \in SUBSET Calls BY <1>2
  <2>2. reach_funcs \ {f} \in SUBSET func_nodes BY DEF Types, PTATypeOK
  <2> QED BY <1>4, <2>1, <2>2, InsertType DEF Types
<1>8. SpecialCallees(B) \subseteq Func
  <2>1. \A g \in B : SpecialCalls[g] \subseteq Calls BY <1>3, ProgramAssumption
  <2> QED BY <2>1 DEF SpecialCallees, Calls
<1> QED BY <1>3, <1>4, <1>6, <1>7, <1>8 DEF Types, PTATypeOK

(* Handing the additions over to the solver keeps the solver's types.      *)
LEMMA StartSolveType == Types /\ StartSolve => Types'
<1> SUFFICES ASSUME Types, StartSolve PROVE Types'
  OBVIOUS
<1>1. added \in Batch /\ added.inter \subseteq added.direct BY DEF Types, PTATypeOK
<1>2. AddBatch(added) /\ phase = "driver" /\ phase' = "addr" /\ stage' = "solve"
  BY DEF StartSolve, Reaching
<1>3. /\ UNCHANGED <<diff, propa, worklist, cur, base, todo>>
      /\ UNCHANGED <<new_calls, new_call_instances, taken_calls, taken_instances>>
  BY DEF StartSolve, ptVars, takenVars
<1>4. /\ addr_edges' \subseteq Node \X Node /\ addr_queue' \subseteq addr_edges'
      /\ direct_edges' \subseteq Node \X Node /\ inter_queue' \subseteq direct_edges'
      /\ load_edges' \subseteq Node \X Proj \X Node
      /\ store_edges' \subseteq Node \X Proj \X Node
      /\ gep_edges' \subseteq Node \X Proj \X Node
      /\ offset_edges' \subseteq Node \X Node
  BY <1>1, <1>2 DEF AddBatch, Types, TypeOK, Batch
<1>5. assoc_calls' \in [instance : SUBSET (Node \X CallSite \X Func),
                      dispatch : SUBSET (Node \X CallSite),
                      fnptr : SUBSET (Node \X CallSite),
                      fntrait : SUBSET (Node \X CallSite)]
  BY <1>1, <1>2 DEF AddBatch, Types, TypeOK, Batch
<1>6. TypeOK'
  BY <1>2, <1>3, <1>4, <1>5 DEF Types, TypeOK, Phases, LoopPhases
<1>7. added' \in Batch /\ added'.inter \subseteq added'.direct
  BY DEF StartSolve, Nothing, Batch
<1> QED BY <1>2, <1>6, <1>7 DEF StartSolve, Types, PTATypeOK, Stages

(* The steps that only take calls or move on leave the solver's types.     *)
LEMMA CallTaken ==
  ASSUME Types, UNCHANGED solverRest,
         \/ /\ UNCHANGED <<new_call_instances, taken_instances>>
            /\ \E c \in new_calls : /\ new_calls' = new_calls \ {c}
                                    /\ taken_calls' = taken_calls \cup {c}
         \/ /\ UNCHANGED <<new_calls, taken_calls>>
            /\ \E c \in new_call_instances :
                 /\ new_call_instances' = new_call_instances \ {c}
                 /\ taken_instances' = taken_instances \cup {c}
  PROVE  TypeOK'
<1>1. /\ new_calls' \cup taken_calls' \subseteq CallSite \X Func
      /\ new_call_instances' \cup taken_instances' \subseteq CallSite \X Node \X Func
  BY DEF Types, TypeOK
<1> QED BY <1>1 DEF solverRest, graphVars, ptVars, addrVars, ctlVars, Types, TypeOK

(* Every step of driver and solver preserves the types.                    *)
LEMMA TypesInv == Types /\ [PTANext]_ptaVars => Types'
<1> SUFFICES ASSUME Types, [PTANext]_ptaVars PROVE Types'
  OBVIOUS
<1>0. ASSUME UNCHANGED solverVars PROVE TypeOK'
  BY <1>0, NextIsStep, TypeInv DEF solverVars, Types
<1>1. CASE SkipReachFunc
  <2>1. TypeOK' BY <1>1, <1>0 DEF SkipReachFunc
  <2>2. phase' = phase BY <1>1 DEF SkipReachFunc, solverVars, vars, ctlVars
  <2> QED BY <1>1, <2>1, <2>2 DEF SkipReachFunc, Types, PTATypeOK
<1>2. CASE ProcessReachFunc
  <2>1. TypeOK' BY <1>2, <1>0 DEF ProcessReachFunc
  <2>2. phase = "driver" /\ UNCHANGED <<phase, stage>>
    BY <1>2 DEF ProcessReachFunc, Reaching, solverVars, vars, ctlVars
  <2>3. PICK f \in reach_funcs : AddFuncPag(f) BY <1>2 DEF ProcessReachFunc
  <2> QED BY <2>1, <2>2, <2>3, AddFuncPagType DEF Types
<1>3. CASE StartSolve BY <1>3, StartSolveType
<1>4. CASE Solve
  <2>1. phase # "driver" BY <1>4, SolverRuns DEF Solve
  <2>2. TypeOK'
    <3>1. Step BY <1>4 DEF Solve, Step
    <3> QED BY <3>1, TypeInv DEF Types
  <2> QED BY <1>4, <2>1, <2>2 DEF Solve, driverVars, Types, PTATypeOK
<1>5. CASE \/ Break \/ TakeCalls \/ NewCallsDone \/ CallsReachDone \/ NewCallInstancesDone
  <2>1. TypeOK' BY <1>5, <1>0
    DEF Break, TakeCalls, NewCallsDone, CallsReachDone, NewCallInstancesDone, Advance
  <2>2. phase = "driver" /\ phase' = phase
    BY <1>5 DEF Break, TakeCalls, NewCallsDone, CallsReachDone, NewCallInstancesDone,
       Advance, solverVars, vars, ctlVars
  <2> QED BY <1>5, <2>1, <2>2
      DEF Break, TakeCalls, NewCallsDone, CallsReachDone, NewCallInstancesDone,
      Advance, Types, PTATypeOK, Stages
<1>6. CASE ProcessNewCall
  <2>1. PICK c \in new_calls : AddCallEdge(c) /\ new_calls' = new_calls \ {c}
                               /\ taken_calls' = taken_calls \cup {c}
    BY <1>6 DEF ProcessNewCall
  <2>2. TypeOK' BY <1>6, <2>1, CallTaken DEF ProcessNewCall
  <2>3. c \in Calls BY DEF Types, TypeOK, Calls
  <2>4. phase = "driver" /\ UNCHANGED <<phase, stage>>
    BY <1>6 DEF ProcessNewCall, solverRest, ctlVars
  <2> QED BY <2>1, <2>2, <2>3, <2>4, AddCallEdgeType DEF Types
<1>7. CASE ProcessNewCallInstance
  <2>1. PICK c \in new_call_instances :
          /\ AddCallEdge(<<c[1], c[3]>>)
          /\ new_call_instances' = new_call_instances \ {c}
          /\ taken_instances' = taken_instances \cup {c}
    BY <1>7 DEF ProcessNewCallInstance
  <2>2. TypeOK' BY <1>7, <2>1, CallTaken DEF ProcessNewCallInstance
  <2>3. <<c[1], c[3]>> \in Calls
    <3>1. c \in CallSite \X Node \X Func BY DEF Types, TypeOK
    <3> QED BY ONLY <3>1 DEF Calls
  <2>4. phase = "driver" /\ UNCHANGED <<phase, stage>>
    BY <1>7 DEF ProcessNewCallInstance, solverRest, ctlVars
  <2> QED BY <2>1, <2>2, <2>3, <2>4, AddCallEdgeType DEF Types
<1>8. CASE UNCHANGED ptaVars
  <2>1. UNCHANGED solverVars /\ UNCHANGED driverVars /\ phase' = phase
    BY <1>8 DEF ptaVars, solverVars, vars, ctlVars
  <2> QED BY <2>1, <1>0 DEF driverVars, Types, PTATypeOK
<1> QED BY <1>1, <1>2, <1>3, <1>4, <1>5, <1>6, <1>7, <1>8 DEF PTANext, PTAStep, Done

(* The driver begins with the types right.                                 *)
LEMMA TypesInit == PTAInit => Types
<1> SUFFICES ASSUME PTAInit PROVE Types
  OBVIOUS
<1>1. TypeOK BY NodeAssumption DEF PTAInit, TypeOK, Phases, LoopPhases
<1>2. added \in Batch /\ added.inter \subseteq added.direct
  BY DEF PTAInit, Nothing, Batch
<1> QED BY <1>1, <1>2, ProgramAssumption DEF PTAInit, Types, PTATypeOK, Stages

(* Every state of driver and solver has the types of AndersenPTA and of    *)
(* the solver's data.                                                      *)
THEOREM DriverTypeCorrect == PTASpec => [](TypeOK /\ PTATypeOK)
<1>1. Types => TypeOK /\ PTATypeOK BY DEF Types
<1> QED BY <1>1, TypesInit, TypesInv, PTL DEF PTASpec

-----------------------------------------------------------------------------
(* The invariant behind RoundClosed, true inside a round too: what has     *)
(* been processed is in the PAG or in what the next solve will add to it.  *)
EdgesIn(g) ==
  /\ FuncPag[g].addr \subseteq addr_edges \cup added.addr
  /\ FuncPag[g].direct \subseteq direct_edges \cup added.direct
  /\ FuncPag[g].load \subseteq load_edges \cup added.load
  /\ FuncPag[g].store \subseteq store_edges \cup added.store
  /\ FuncPag[g].gep \subseteq gep_edges \cup added.gep
  /\ FuncPag[g].offset \subseteq offset_edges \cup added.offset
SitesIn(f) ==
  /\ FuncPag[f].dispatch \subseteq assoc_calls.dispatch \cup added.dispatch
  /\ FuncPag[f].fnptr \subseteq assoc_calls.fnptr \cup added.fnptr
  /\ FuncPag[f].fntrait \subseteq assoc_calls.fntrait \cup added.fntrait
HasFlow(e) ==
  HasFuncPag(e[2]) => \E s \in CallSite :
    Base[s] = e[1] /\ CallFlow[s, e[2]] \subseteq direct_edges \cup added.direct
CallIn(c) == <<Base[c[1]], c[2]>> \in call_graph

FlowsIn == \A e \in call_graph : HasFlow(e)
BodiesIn == \A g \in processed_funcs : EdgesIn(g) /\ Deps[g] \subseteq processed_funcs
FuncsIn == \A f \in processed_funcs \cap Func :
             /\ f \in func_nodes \ reach_funcs
             /\ SitesIn(f) /\ \A c \in StaticCalls[f] : CallIn(c)
ReachedIn == \A f \in func_nodes \ reach_funcs : HasFuncPag(f) => f \in processed_funcs
TakenIn == /\ \A c \in taken_calls : CallIn(c)
           /\ \A c \in taken_instances : CallIn(<<c[1], c[3]>>)
RoundOver == stage \in {"solve", "done"} => reach_funcs = {} /\ added = Nothing
RoundInv == Types /\ FlowsIn /\ BodiesIn /\ FuncsIn /\ ReachedIn /\ TakenIn /\ RoundOver

(* What every step of driver and solver does: the PAG, with the additions  *)
(* for the next solve, and the call graph lose nothing.                    *)
PagGrows ==
  /\ addr_edges \cup added.addr \subseteq addr_edges' \cup added'.addr
  /\ direct_edges \cup added.direct \subseteq direct_edges' \cup added'.direct
  /\ load_edges \cup added.load \subseteq load_edges' \cup added'.load
  /\ store_edges \cup added.store \subseteq store_edges' \cup added'.store
  /\ gep_edges \cup added.gep \subseteq gep_edges' \cup added'.gep
  /\ offset_edges \cup added.offset \subseteq offset_edges' \cup added'.offset
  /\ assoc_calls.dispatch \cup added.dispatch \subseteq assoc_calls'.dispatch \cup added'.dispatch
  /\ assoc_calls.fnptr \cup added.fnptr \subseteq assoc_calls'.fnptr \cup added'.fnptr
  /\ assoc_calls.fntrait \cup added.fntrait \subseteq assoc_calls'.fntrait \cup added'.fntrait
  /\ call_graph \subseteq call_graph' /\ special_functions \subseteq special_functions'

(* Growth keeps what is in the PAG there.                                  *)
LEMMA InPagKept ==
  ASSUME PagGrows
  PROVE  /\ \A g \in Body : EdgesIn(g) => EdgesIn(g)'
         /\ \A f \in Func : SitesIn(f) => SitesIn(f)'
         /\ \A e : HasFlow(e) => HasFlow(e)'
         /\ \A c : CallIn(c) => CallIn(c)'
<1>1. ASSUME NEW g \in Body, EdgesIn(g) PROVE EdgesIn(g)'
  BY <1>1 DEF EdgesIn, PagGrows
<1>2. ASSUME NEW f \in Func, SitesIn(f) PROVE SitesIn(f)'
  BY <1>2 DEF SitesIn, PagGrows
<1>3. ASSUME NEW e, HasFlow(e) PROVE HasFlow(e)'
  <2> SUFFICES ASSUME HasFuncPag(e[2])'
               PROVE  \E s \in CallSite : Base[s] = e[1] /\
                        CallFlow[s, e[2]] \subseteq direct_edges' \cup added'.direct
    BY DEF HasFlow
  <2>1. HasFuncPag(e[2]) BY DEF HasFuncPag, PagGrows
  <2>2. PICK s \in CallSite :
          Base[s] = e[1] /\ CallFlow[s, e[2]] \subseteq direct_edges \cup added.direct
    BY <1>3, <2>1 DEF HasFlow
  <2> QED BY <2>2 DEF PagGrows
<1>4. ASSUME NEW c, CallIn(c) PROVE CallIn(c)'
  BY <1>4 DEF CallIn, PagGrows
<1> QED BY <1>1, <1>2, <1>3, <1>4

(* A step that changes neither the call graph nor the processed and        *)
(* reached functions keeps the invariant, but for the end of the round.    *)
LEMMA QuietStep ==
  ASSUME RoundInv, Types', PagGrows, UNCHANGED takenVars,
         UNCHANGED <<call_graph, func_nodes, reach_funcs, processed_funcs, special_functions>>
  PROVE  (FlowsIn /\ BodiesIn /\ FuncsIn /\ ReachedIn /\ TakenIn)'
<1> USE InPagKept
<1>1. FlowsIn' BY DEF RoundInv, FlowsIn
<1>2. BodiesIn' BY DEF RoundInv, BodiesIn, Types, PTATypeOK
<1>3. FuncsIn' BY DEF RoundInv, FuncsIn, CallIn
<1>4. ReachedIn' BY DEF RoundInv, ReachedIn, HasFuncPag
<1>5. TakenIn' BY DEF RoundInv, TakenIn, CallIn, takenVars
<1> QED BY <1>1, <1>2, <1>3, <1>4, <1>5

(* add_call_edge keeps the invariant, and records its call.                *)
LEMMA CallEdgeStep ==
  ASSUME RoundInv, Types', NEW c \in Calls, AddCallEdge(c),
         stage \notin {"solve", "done"}, stage' = stage,
         UNCHANGED <<direct_edges, assoc_calls, addr_edges, load_edges, store_edges,
                     gep_edges, offset_edges>>,
         \/ taken_calls' = taken_calls \cup {c} /\ taken_instances' = taken_instances
         \/ \E o : /\ taken_instances' = taken_instances \cup {<<c[1], o, c[2]>>}
                  /\ taken_calls' = taken_calls
  PROVE  RoundInv'
<1> DEFINE flow == InterProcEdges({c})
<1>1. /\ added \in Batch /\ reach_funcs \subseteq func_nodes
      /\ processed_funcs \subseteq Body /\ func_nodes \subseteq Func
  BY DEF RoundInv, Types, PTATypeOK
<1>2. /\ added' = [added EXCEPT !.direct = @ \cup flow, !.inter = @ \cup (flow \ KnownDirect)]
      /\ UNCHANGED <<processed_funcs, special_functions>>
      /\ call_graph' = call_graph \cup {<<Base[c[1]], c[2]>>}
      /\ func_nodes' = func_nodes \cup {c[2]}
      /\ reach_funcs' = reach_funcs \cup ({c[2]} \ func_nodes)
  BY DEF AddCallEdge, InsertCalls
<1> HIDE DEF flow
<1>3. added'.direct = added.direct \cup flow BY <1>1, <1>2 DEF Batch
<1>4. PagGrows BY <1>1, <1>2, <1>3 DEF PagGrows, Batch
<1>5. FlowsIn'
  <2> SUFFICES ASSUME NEW e \in call_graph' PROVE HasFlow(e)'
    BY DEF FlowsIn
  <2>1. CASE e \in call_graph BY <2>1, <1>4, InPagKept DEF RoundInv, FlowsIn
  <2>2. CASE e \notin call_graph
    <3>1. e = <<Base[c[1]], c[2]>> BY <1>2, <2>2
    <3>2. e[1] = Base[c[1]] /\ e[2] = c[2] BY <3>1
    <3>3. c[1] \in CallSite /\ c = <<c[1], c[2]>> BY DEF Calls
    <3>4. c[2] \notin Unavailable => CallFlow[c] \subseteq flow
      BY <2>2, <3>1 DEF flow, InterProcEdges, NewCallEdges
    <3>5. HasFuncPag(c[2])' => CallFlow[c[1], c[2]] \subseteq added'.direct
      BY <1>3, <3>3, <3>4 DEF HasFuncPag
    <3> QED BY <3>2, <3>3, <3>5 DEF HasFlow
  <2> QED BY <2>1, <2>2
<1>6. BodiesIn' BY <1>1, <1>2, <1>4, InPagKept DEF RoundInv, BodiesIn
<1>7. FuncsIn'
  <2> SUFFICES ASSUME NEW f \in processed_funcs \cap Func
               PROVE  /\ f \in func_nodes' \ reach_funcs'
                      /\ SitesIn(f)' /\ \A d \in StaticCalls[f] : CallIn(d)'
    BY <1>2 DEF FuncsIn, CallIn
  <2>1. /\ f \in func_nodes \ reach_funcs /\ SitesIn(f)
        /\ \A d \in StaticCalls[f] : CallIn(d)
    BY DEF RoundInv, FuncsIn
  <2> QED BY <1>2, <1>4, <2>1, InPagKept
<1>8. ReachedIn' BY <1>2 DEF RoundInv, ReachedIn, HasFuncPag
<1>9. CallIn(c)' BY <1>2 DEF CallIn
<1>10. TakenIn'
  <2>1. \A d \in taken_calls : CallIn(d)' BY <1>4, InPagKept DEF RoundInv, TakenIn
  <2>2. \A d \in taken_instances : CallIn(<<d[1], d[3]>>)'
    BY <1>4, InPagKept DEF RoundInv, TakenIn
  <2>3. CASE taken_calls' = taken_calls \cup {c} /\ taken_instances' = taken_instances
    BY <1>9, <2>1, <2>2, <2>3 DEF TakenIn, CallIn
  <2>4. ASSUME NEW o, taken_instances' = taken_instances \cup {<<c[1], o, c[2]>>},
               taken_calls' = taken_calls
        PROVE  TakenIn'
    <3>1. \A d \in taken_instances' : CallIn(<<d[1], d[3]>>)'
      BY <1>9, <2>2, <2>4 DEF CallIn
    <3> QED BY <2>1, <2>4, <3>1 DEF TakenIn, CallIn
  <2> QED BY <2>3, <2>4
<1>11. RoundOver' BY DEF RoundOver
<1> QED BY <1>5, <1>6, <1>7, <1>8, <1>10, <1>11 DEF RoundInv

(* What add_fpag_edges adds for the bodies of f is in the PAG afterwards.  *)
LEMMA AddEdgesEffect ==
  ASSUME PTATypeOK, NEW f \in Func, NEW B \in SUBSET Body, NEW flow, NEW fresh,
         AddEdges(f, B, flow, fresh),
         UNCHANGED <<direct_edges, assoc_calls, addr_edges, load_edges, store_edges,
                     gep_edges, offset_edges>>,
         call_graph \subseteq call_graph', special_functions \subseteq special_functions'
  PROVE  /\ PagGrows
         /\ \A g \in B : EdgesIn(g)'
         /\ SitesIn(f)'
         /\ flow \subseteq added'.direct
<1> DEFINE edges(k) == added[k] \cup UNION {FuncPag[g][k] : g \in B}
<1>1. added' = [addr |-> edges("addr"), direct |-> edges("direct") \cup flow,
            inter |-> added.inter \cup fresh, offset |-> edges("offset"),
            load |-> edges("load"), store |-> edges("store"), gep |-> edges("gep"),
            instance |-> added.instance,
            dispatch |-> added.dispatch \cup FuncPag[f].dispatch,
            fnptr |-> added.fnptr \cup FuncPag[f].fnptr,
            fntrait |-> added.fntrait \cup FuncPag[f].fntrait]
  BY DEF AddEdges
<1>2. /\ added.addr \subseteq edges("addr") /\ added.direct \subseteq edges("direct")
      /\ added.load \subseteq edges("load") /\ added.store \subseteq edges("store")
      /\ added.gep \subseteq edges("gep") /\ added.offset \subseteq edges("offset")
  OBVIOUS
<1>3. ASSUME NEW g \in B
      PROVE  /\ FuncPag[g].addr \subseteq edges("addr")
             /\ FuncPag[g].direct \subseteq edges("direct")
             /\ FuncPag[g].load \subseteq edges("load")
             /\ FuncPag[g].store \subseteq edges("store")
             /\ FuncPag[g].gep \subseteq edges("gep")
             /\ FuncPag[g].offset \subseteq edges("offset")
  OBVIOUS
<1> HIDE DEF edges
<1>4. /\ added'.addr = edges("addr") /\ added'.direct = edges("direct") \cup flow
      /\ added'.load = edges("load") /\ added'.store = edges("store")
      /\ added'.gep = edges("gep") /\ added'.offset = edges("offset")
  BY ONLY <1>1
<1>5. /\ added'.dispatch = added.dispatch \cup FuncPag[f].dispatch
      /\ added'.fnptr = added.fnptr \cup FuncPag[f].fnptr
      /\ added'.fntrait = added.fntrait \cup FuncPag[f].fntrait
  BY ONLY <1>1
<1>6. PagGrows BY <1>2, <1>4, <1>5 DEF PagGrows
<1>7. \A g \in B : EdgesIn(g)' BY <1>3, <1>4 DEF EdgesIn
<1>8. SitesIn(f)' BY <1>5 DEF SitesIn
<1>9. flow \subseteq added'.direct BY <1>4
<1> QED BY ONLY <1>6, <1>7, <1>8, <1>9

(* Processing a reached function keeps the invariant: its body, with the   *)
(* bodies it depends on, its call sites and its static calls are in.       *)
LEMMA FuncPagStep ==
  ASSUME RoundInv, Types', Reaching, NEW f \in reach_funcs, f \notin processed_funcs,
         HasFuncPag(f), AddFuncPag(f), UNCHANGED <<stage, solverVars>>
  PROVE  RoundInv'
<1> DEFINE B == FpagFuncs(f)
           direct == UNION {FuncPag[g].direct : g \in B}
           flow == InterProcEdges(StaticCalls[f])
           fresh == ({e \in direct : e[1] \in StaticNode} \cup (flow \ direct)) \ KnownDirect
           C == StaticCalls[f] \cup SpecialCalls[f]
<1>1. /\ call_graph' = call_graph \cup {<<Base[c[1]], c[2]>> : c \in C}
      /\ func_nodes' = func_nodes \cup {c[2] : c \in C}
      /\ reach_funcs' = (reach_funcs \ {f}) \cup ({c[2] : c \in C} \ func_nodes)
  BY DEF AddFuncPag, InsertCalls
<1>2. /\ processed_funcs' = processed_funcs \cup B
      /\ special_functions' = special_functions \cup SpecialCallees(B)
      /\ AddEdges(f, B, flow, fresh)
  BY DEF AddFuncPag
<1>3. f \in Func /\ reach_funcs \subseteq func_nodes /\ processed_funcs \subseteq Body
  BY DEF RoundInv, Types, PTATypeOK
<1>4. StaticCalls[f] \in SUBSET Calls /\ SpecialCalls[f] \in SUBSET Calls
  BY <1>3, ProgramAssumption DEF Body
<1>5. B \subseteq Body /\ B \subseteq {f} \cup Initialiser BY <1>3, FpagFuncsType
<1>6. f \in B BY DEF FpagFuncs
<1>7. Deps[f] \subseteq processed_funcs' /\ \A g \in Deps[f] : Deps[g] \subseteq processed_funcs'
  BY <1>2 DEF FpagFuncs
<1>8. \A g \in B : g = f \/ g \in Deps[f] \/ \E h \in Deps[f] : g \in Deps[h]
  BY DEF FpagFuncs
<1>9. \A c \in StaticCalls[f] :
        <<Base[c[1]], c[2]>> \notin call_graph /\ c[2] \notin Unavailable
          => CallFlow[c] \subseteq flow
  BY DEF InterProcEdges, NewCallEdges
<1> HIDE DEF B, flow, fresh
<1>10. /\ PagGrows /\ SitesIn(f)' /\ flow \subseteq added'.direct
       /\ \A g \in B : EdgesIn(g)'
  <2>1. PTATypeOK BY DEF RoundInv, Types
  <2>2. UNCHANGED <<direct_edges, assoc_calls, addr_edges, load_edges, store_edges,
                    gep_edges, offset_edges>>
    BY DEF solverVars, vars, graphVars, callVars, addrVars
  <2>3. call_graph \subseteq call_graph' /\ special_functions \subseteq special_functions'
    BY <1>1, <1>2
  <2> QED BY <1>2, <1>3, <1>5, <2>1, <2>2, <2>3, AddEdgesEffect
<1>11. FlowsIn'
  <2> SUFFICES ASSUME NEW e \in call_graph', e \notin call_graph, HasFuncPag(e[2])'
               PROVE  HasFlow(e)'
    BY <1>10, InPagKept DEF RoundInv, FlowsIn, HasFlow
  <2>1. PICK c \in C : e = <<Base[c[1]], c[2]>> BY <1>1
  <2>2. e[1] = Base[c[1]] /\ e[2] = c[2] BY <2>1
  <2>3. c[1] \in CallSite /\ c = <<c[1], c[2]>> BY <1>4 DEF Calls
  <2>4. CASE c \in SpecialCalls[f]
    <3>1. c[2] \in special_functions' BY <1>2, <1>6, <2>4 DEF SpecialCallees
    <3> QED BY <2>2, <3>1 DEF HasFuncPag
  <2>5. CASE c \in StaticCalls[f]
    <3>1. c[2] \notin Unavailable BY <2>2 DEF HasFuncPag
    <3>2. CallFlow[c] \subseteq added'.direct BY <1>9, <1>10, <2>1, <2>5, <3>1
    <3>3. CallFlow[c[1], c[2]] \subseteq added'.direct BY <2>3, <3>2
    <3> QED BY <2>2, <2>3, <3>3 DEF HasFlow
  <2> QED BY <2>4, <2>5
<1>12. BodiesIn'
  <2> SUFFICES ASSUME NEW g \in processed_funcs \cup B
               PROVE  EdgesIn(g)' /\ Deps[g] \subseteq processed_funcs'
    BY <1>2 DEF BodiesIn
  <2>1. CASE g \in processed_funcs
    BY <1>2, <1>3, <1>10, <2>1, InPagKept DEF RoundInv, BodiesIn
  <2>2. CASE g \in B
    BY <1>3, <1>7, <1>8, <1>10, <2>2, DepsAssumption
  <2> QED BY <2>1, <2>2
<1>13. FuncsIn'
  <2> SUFFICES ASSUME NEW g \in processed_funcs' \cap Func
               PROVE  /\ g \in func_nodes' \ reach_funcs'
                      /\ SitesIn(g)' /\ \A c \in StaticCalls[g] : CallIn(c)'
    BY DEF FuncsIn, CallIn
  <2>1. CASE g \in processed_funcs
    <3>1. /\ g \in func_nodes \ reach_funcs /\ SitesIn(g)
          /\ \A c \in StaticCalls[g] : CallIn(c)
      BY <2>1 DEF RoundInv, FuncsIn
    <3> QED BY <1>1, <1>10, <3>1, InPagKept
  <2>2. CASE g \notin processed_funcs
    <3>1. g = f BY <1>2, <1>5, <2>2, ProgramAssumption
    <3>2. f \in func_nodes' \ reach_funcs' BY <1>1, <1>3
    <3>3. \A c \in StaticCalls[f] : CallIn(c)' BY <1>1 DEF CallIn
    <3> QED BY <1>10, <3>1, <3>2, <3>3
  <2> QED BY <2>1, <2>2
<1>14. ReachedIn'
  <2> SUFFICES ASSUME NEW g \in func_nodes' \ reach_funcs', HasFuncPag(g)'
               PROVE  g \in processed_funcs'
    BY DEF ReachedIn
  <2>1. g = f \/ (g \in func_nodes \ reach_funcs /\ HasFuncPag(g))
    BY <1>1, <1>2 DEF HasFuncPag
  <2> QED BY <1>2, <1>6, <2>1 DEF RoundInv, ReachedIn
<1>15. TakenIn'
  <2>1. UNCHANGED takenVars BY DEF solverVars, vars, callVars, takenVars
  <2> QED BY <1>10, <2>1, InPagKept DEF RoundInv, TakenIn, CallIn, takenVars
<1>16. RoundOver' BY DEF RoundOver, Reaching
<1> QED BY <1>11, <1>12, <1>13, <1>14, <1>15, <1>16 DEF RoundInv

(* Handing over the additions, the solver's steps and the steps between    *)
(* the rounds' parts keep the invariant.                                   *)
LEMMA StartSolveStep == RoundInv /\ StartSolve => RoundInv'
<1> SUFFICES ASSUME RoundInv, StartSolve PROVE RoundInv'
  OBVIOUS
<1>1. Types' BY StartSolveType DEF RoundInv
<1>2. /\ AddBatch(added) /\ added' = Nothing /\ reach_funcs = {}
      /\ UNCHANGED takenVars
      /\ UNCHANGED <<call_graph, func_nodes, reach_funcs, processed_funcs, special_functions>>
  BY DEF StartSolve
<1>3. PagGrows BY <1>2 DEF PagGrows, AddBatch
<1>4. RoundOver' BY <1>2 DEF RoundOver
<1> QED BY <1>1, <1>2, <1>3, <1>4, QuietStep DEF RoundInv

LEMMA SolveStep == RoundInv /\ Solve => RoundInv'
<1> SUFFICES ASSUME RoundInv, Solve PROVE RoundInv'
  OBVIOUS
<1>1. Types' BY TypesInv DEF PTANext, PTAStep, RoundInv
<1>2. SolveWorklist /\ UNCHANGED driverVars /\ TypeOK BY DEF Solve, RoundInv, Types
<1>3. PagGrows /\ UNCHANGED takenVars
  BY <1>2, SolverKeeps DEF PagGrows, driverVars
<1>4. UNCHANGED <<call_graph, func_nodes, reach_funcs, processed_funcs,
                  special_functions, added, stage>>
  BY <1>2 DEF driverVars
<1>5. RoundOver' BY <1>4 DEF RoundInv, RoundOver
<1> QED BY <1>1, <1>3, <1>4, <1>5, QuietStep DEF RoundInv

LEMMA AdvanceStep ==
  ASSUME RoundInv, Types',
         UNCHANGED <<call_graph, func_nodes, reach_funcs, processed_funcs,
                     special_functions, added, solverVars>>,
         stage' \in {"solve", "done"} => stage \in {"solve", "done"}
  PROVE  RoundInv'
<1>1. /\ UNCHANGED takenVars
      /\ UNCHANGED <<direct_edges, assoc_calls, addr_edges, load_edges, store_edges,
                     gep_edges, offset_edges>>
  BY DEF solverVars, vars, graphVars, callVars, addrVars, takenVars
<1>2. PagGrows BY <1>1 DEF PagGrows
<1>3. RoundOver' BY DEF RoundInv, RoundOver
<1> QED BY <1>1, <1>2, <1>3, QuietStep DEF RoundInv

(* A function without a body to add, or added before, needs nothing.       *)
LEMMA SkipStep ==
  ASSUME RoundInv, SkipReachFunc, Types'
  PROVE  RoundInv'
<1>1. PICK f \in reach_funcs :
        (f \in processed_funcs \/ ~HasFuncPag(f)) /\ reach_funcs' = reach_funcs \ {f}
  BY DEF SkipReachFunc
<1>2. UNCHANGED <<call_graph, func_nodes, processed_funcs, special_functions, added,
                  stage, solverVars>>
  BY DEF SkipReachFunc
<1>3. /\ UNCHANGED takenVars
      /\ UNCHANGED <<direct_edges, assoc_calls, addr_edges, load_edges, store_edges,
                     gep_edges, offset_edges>>
  BY <1>2 DEF solverVars, vars, graphVars, callVars, addrVars, takenVars
<1>4. PagGrows BY <1>2, <1>3 DEF PagGrows
<1> USE InPagKept
<1>5. FlowsIn' BY <1>2, <1>4 DEF RoundInv, FlowsIn
<1>6. BodiesIn' BY <1>2, <1>4 DEF RoundInv, BodiesIn, Types, PTATypeOK
<1>7. FuncsIn' BY <1>1, <1>2, <1>4 DEF RoundInv, FuncsIn, CallIn
<1>8. ReachedIn' BY <1>1, <1>2 DEF RoundInv, ReachedIn, HasFuncPag
<1>9. TakenIn' BY <1>2, <1>3, <1>4 DEF RoundInv, TakenIn, CallIn, takenVars
<1>10. RoundOver' BY <1>2 DEF RoundOver, SkipReachFunc, Reaching
<1> QED BY <1>5, <1>6, <1>7, <1>8, <1>9, <1>10 DEF RoundInv

(* Every step of driver and solver keeps the invariant.                    *)
LEMMA RoundInvKept == RoundInv /\ [PTANext]_ptaVars => RoundInv'
<1> SUFFICES ASSUME RoundInv, [PTANext]_ptaVars PROVE RoundInv'
  OBVIOUS
<1>0. Types' BY TypesInv DEF RoundInv
<1>1. CASE SkipReachFunc BY <1>0, <1>1, SkipStep
<1>2. CASE ProcessReachFunc
  <2>1. PICK f \in reach_funcs : f \notin processed_funcs /\ HasFuncPag(f) /\ AddFuncPag(f)
    BY <1>2 DEF ProcessReachFunc
  <2>2. Reaching /\ UNCHANGED <<stage, solverVars>> BY <1>2 DEF ProcessReachFunc
  <2> QED BY <1>0, <2>1, <2>2, FuncPagStep
<1>3. CASE StartSolve BY <1>3, StartSolveStep
<1>4. CASE Solve BY <1>4, SolveStep
<1>5. CASE \/ Break \/ TakeCalls \/ NewCallsDone \/ CallsReachDone \/ NewCallInstancesDone
  <2>1. /\ UNCHANGED <<call_graph, func_nodes, reach_funcs, processed_funcs,
                       special_functions, added, solverVars>>
        /\ stage' \in {"solve", "done"} => stage \in {"solve", "done"}
    BY <1>5 DEF Break, TakeCalls, NewCallsDone, CallsReachDone, NewCallInstancesDone, Advance
  <2> QED BY <1>0, <2>1, AdvanceStep
<1>6. CASE ProcessNewCall
  <2>1. PICK c \in new_calls : AddCallEdge(c) /\ taken_calls' = taken_calls \cup {c}
    BY <1>6 DEF ProcessNewCall
  <2>2. c \in Calls BY DEF RoundInv, Types, TypeOK, Calls
  <2>3. /\ stage \notin {"solve", "done"} /\ stage' = stage
        /\ taken_instances' = taken_instances
        /\ UNCHANGED <<direct_edges, assoc_calls, addr_edges, load_edges, store_edges,
                       gep_edges, offset_edges>>
    BY <1>6 DEF ProcessNewCall, solverRest, graphVars, addrVars
  <2> QED BY <1>0, <2>1, <2>2, <2>3, CallEdgeStep
<1>7. CASE ProcessNewCallInstance
  <2>1. PICK c \in new_call_instances :
          AddCallEdge(<<c[1], c[3]>>) /\ taken_instances' = taken_instances \cup {c}
    BY <1>7 DEF ProcessNewCallInstance
  <2>2. c = <<c[1], c[2], c[3]>> /\ <<c[1], c[3]>> \in Calls
    <3>1. c \in CallSite \X Node \X Func BY DEF RoundInv, Types, TypeOK
    <3> QED BY ONLY <3>1 DEF Calls
  <2> DEFINE d == <<c[1], c[3]>>
  <2>3. d \in Calls /\ d[1] = c[1] /\ d[2] = c[3] BY <2>2
  <2>4. AddCallEdge(d) BY <2>1
  <2>5. taken_instances' = taken_instances \cup {<<d[1], c[2], d[2]>>}
    BY <2>1, <2>2, <2>3
  <2> HIDE DEF d
  <2>6. /\ stage \notin {"solve", "done"} /\ stage' = stage
        /\ taken_calls' = taken_calls
        /\ UNCHANGED <<direct_edges, assoc_calls, addr_edges, load_edges, store_edges,
                       gep_edges, offset_edges>>
    BY <1>7 DEF ProcessNewCallInstance, solverRest, graphVars, addrVars
  <2> QED BY <1>0, <2>3, <2>4, <2>5, <2>6, CallEdgeStep
<1>8. CASE UNCHANGED ptaVars
  <2>1. /\ UNCHANGED <<call_graph, func_nodes, reach_funcs, processed_funcs,
                       special_functions, added, solverVars>>
        /\ stage' = stage
    BY <1>8 DEF ptaVars, driverVars
  <2> QED BY <1>0, <2>1, AdvanceStep
<1> QED BY <1>1, <1>2, <1>3, <1>4, <1>5, <1>6, <1>7, <1>8 DEF PTANext, PTAStep, Done

LEMMA RoundInvInit == PTAInit => RoundInv
<1> SUFFICES ASSUME PTAInit PROVE RoundInv
  OBVIOUS
<1>1. Types BY TypesInit
<1>2. /\ func_nodes = reach_funcs /\ call_graph = {} /\ processed_funcs = {}
      /\ taken_calls = {} /\ taken_instances = {} /\ stage = "initialize"
  BY DEF PTAInit
<1>3. FlowsIn /\ BodiesIn /\ FuncsIn /\ ReachedIn /\ TakenIn /\ RoundOver
  BY <1>2 DEF FlowsIn, BodiesIn, FuncsIn, ReachedIn, TakenIn, RoundOver
<1> QED BY <1>1, <1>3 DEF RoundInv

(* At the end of a round nothing is left to add, so all of it is in.       *)
LEMMA RoundInvCloses == RoundInv => RoundClosed
<1> SUFFICES ASSUME RoundInv, stage \in {"solve", "done"}
             PROVE  /\ \A c \in taken_calls : InCallGraph(c)
                    /\ \A c \in taken_instances : InCallGraph(<<c[1], c[3]>>)
                    /\ \A f \in func_nodes : HasFuncPag(f) => InPag(f)
  BY DEF RoundClosed
<1>1. reach_funcs = {} /\ added = Nothing BY DEF RoundInv, RoundOver
<1>2. /\ added.addr = {} /\ added.direct = {} /\ added.load = {} /\ added.store = {}
      /\ added.gep = {} /\ added.offset = {} /\ added.dispatch = {}
      /\ added.fnptr = {} /\ added.fntrait = {}
  BY ONLY <1>1 DEF Nothing
<1>3. ASSUME NEW c, CallIn(c) PROVE InCallGraph(c)
  <2>1. HasFlow(<<Base[c[1]], c[2]>>) BY <1>3 DEF CallIn, RoundInv, FlowsIn
  <2> QED BY <1>2, <1>3, <2>1 DEF CallIn, HasFlow, InCallGraph
<1>4. ASSUME NEW g, EdgesIn(g) PROVE EdgesInPag(g)
  BY <1>2, <1>4 DEF EdgesIn, EdgesInPag
<1>5. ASSUME NEW f \in func_nodes, HasFuncPag(f) PROVE InPag(f)
  <2>1. f \in processed_funcs /\ f \in Func
    BY <1>1, <1>5 DEF RoundInv, ReachedIn, Types, PTATypeOK
  <2>2. SitesIn(f) /\ \A c \in StaticCalls[f] : CallIn(c)
    BY <2>1 DEF RoundInv, FuncsIn
  <2>3. \A g \in {f} \cup Deps[f] : EdgesIn(g) BY <2>1 DEF RoundInv, BodiesIn
  <2> QED BY <1>2, <1>3, <1>4, <2>2, <2>3 DEF SitesIn, InPag
<1> QED BY <1>3, <1>5 DEF RoundInv, TakenIn

(* No round of propagate leaves work behind: while a solve runs and when   *)
(* the analysis is done, what was resolved and reached before is in.       *)
THEOREM RoundClosedCorrect == PTASpec => []RoundClosed
BY RoundInvInit, RoundInvKept, RoundInvCloses, PTL DEF PTASpec
-----------------------------------------------------------------------------
(* The invariant behind ContractKept, for the program of entry point f.    *)
(* The bodies that may still be built, and the nodes of no such body: they *)
(* may have objects, since no constraint that reads them is to come.       *)
Pending(f) == {g \in Program(f) : g \notin processed_funcs /\ HasFuncPag(g)}
Open(f, v) == Owner[f][v] \notin Pending(f)

(* The program keeps to its functions.                                     *)
ReachedOwn(f) == func_nodes \cup processed_funcs \subseteq Program(f)
(* Objects, and nodes that have any, are of bodies that have been built.   *)
FactsOpen(f) == \A v \in Node : \A o \in Pts(v) : Open(f, v) /\ Open(f, o)
(* So is what the PAG leads to; what has been added to it may also lead to *)
(* functions that are about to be built.                                   *)
PAG == [addr |-> addr_edges, direct |-> direct_edges, offset |-> offset_edges,
        load |-> load_edges, gep |-> gep_edges]
PagOpen(f) == \A v \in Targets(PAG) : Open(f, v)
AddedOpen(f) == \A v \in Targets(added) : Open(f, v) \/ Owner[f][v] \in func_nodes
(* Calls come from bodies that have been built, and the objects that they  *)
(* are being resolved with are theirs too.                                 *)
DynamicSites(b) == {c[2] : c \in b.dispatch \cup b.fnptr \cup b.fntrait}
SitesOpen(f) ==
  /\ \A cs \in DynamicSites(assoc_calls) : Caller[f][cs] \in processed_funcs
  /\ assoc_calls.instance = {}
  /\ phase \in {"fnptr", "fntrait"} =>
       \A x \in todo : Caller[f][x[2]] \in processed_funcs /\ Open(f, x[3])
CallsOpen(f) ==
  /\ \A c \in new_calls : Caller[f][c[1]] \in processed_funcs /\ c[2] \in Program(f)
  /\ \A c \in new_call_instances :
       Caller[f][c[1]] \in processed_funcs /\ c[3] \in Program(f)
AddedSitesOpen(f) ==
  /\ \A cs \in DynamicSites(added) : Caller[f][cs] \in processed_funcs
  /\ added.instance = {}
Quiet == phase # "driver" => added = Nothing
AddedInv(f) == /\ ReachedOwn(f) /\ AddedOpen(f) /\ AddedSitesOpen(f)
               /\ Acceptable(added) /\ WellFormed(added)
OwnInv(f) == FactsOpen(f) /\ PagOpen(f) /\ SitesOpen(f) /\ CallsOpen(f) /\ Quiet /\ AddedInv(f)

(* A body that has been built stays built, so an open node stays open.     *)
LEMMA OpenKept ==
  ASSUME NEW f, processed_funcs \subseteq processed_funcs',
         special_functions \subseteq special_functions', NEW v, Open(f, v)
  PROVE  Open(f, v)'
BY DEF Open, Pending, HasFuncPag

(* A node of a built body, of a function without a body or of none is open.*)
LEMMA OpenWhen ==
  ASSUME Ownership, NEW f, NEW v,
         \/ Owner[f][v] \in processed_funcs
         \/ Owner[f][v] = None
         \/ reach_funcs = {} /\ ReachedIn /\ Owner[f][v] \in func_nodes
  PROVE  Open(f, v)
<1>1. None \notin Program(f) BY DEF Ownership, Program
<1> QED BY <1>1 DEF Open, Pending, ReachedIn

(* A step of the driver that leaves the solver alone keeps the invariant   *)
(* when it keeps the part about what has been added.                       *)
LEMMA DriverOwn ==
  ASSUME NEW f, OwnInv(f), phase = "driver" \/ added' = added, UNCHANGED solverRest,
         new_calls' \subseteq new_calls, new_call_instances' \subseteq new_call_instances,
         processed_funcs \subseteq processed_funcs',
         special_functions \subseteq special_functions', AddedInv(f)'
  PROVE  OwnInv(f)'
<1>1. UNCHANGED <<diff, propa, phase, todo, assoc_calls, addr_edges, direct_edges,
                  offset_edges, load_edges, gep_edges>>
  BY DEF solverRest, graphVars, ptVars, addrVars, ctlVars
<1>2. FactsOpen(f)' BY <1>1, OpenKept DEF OwnInv, FactsOpen, Pts
<1>3. PagOpen(f)'
  <2>1. Targets(PAG)' = Targets(PAG) BY <1>1 DEF Targets, PAG
  <2> QED BY <2>1, OpenKept DEF OwnInv, PagOpen
<1>4. SitesOpen(f)'
  <2>1. SitesOpen(f) BY DEF OwnInv
  <2>2. DynamicSites(assoc_calls)' = DynamicSites(assoc_calls) BY <1>1 DEF DynamicSites
  <2>3. \A x : Open(f, x[3]) => Open(f, x[3])' BY OpenKept
  <2> QED BY <1>1, <2>1, <2>2, <2>3 DEF SitesOpen
<1>5. CallsOpen(f)' BY DEF OwnInv, CallsOpen
<1>6. Quiet'
  <2>1. Quiet BY DEF OwnInv
  <2>2. phase' = phase BY <1>1
  <2> QED BY <2>1, <2>2 DEF Quiet
<1> QED BY <1>2, <1>3, <1>4, <1>5, <1>6 DEF OwnInv

(* A batch whose edges and sites come from well-formed ones is well formed.*)
LEMMA WellFormedFrom ==
  ASSUME NEW b, NEW S, \A x \in S : WellFormed(x), b.inter \subseteq b.direct,
         \A e \in b.load \cup b.gep : \E x \in S : e \in x.load \cup x.gep,
         \A e \in b.store : \E x \in S : e \in x.store,
         \A c \in b.fnptr \cup b.fntrait : \E x \in S : c \in x.fnptr \cup x.fntrait
  PROVE  WellFormed(b)
<1>1. ASSUME NEW e \in b.load \cup b.gep PROVE e[1] # e[3]
  <2>1. PICK x \in S : e \in x.load \cup x.gep OBVIOUS
  <2> QED BY <2>1, Zenon DEF WellFormed
<1>2. ASSUME NEW e \in b.store
      PROVE  \A o \in Node : Field[o, e[2]] = e[3] => \A n \in Node : <<e[1], e[3], n>> \in Filtered
  <2>1. PICK x \in S : e \in x.store OBVIOUS
  <2> QED BY <2>1, Zenon DEF WellFormed
<1>3. ASSUME NEW c \in b.fnptr \cup b.fntrait PROVE c[1] \notin ClosureRefs
  <2>1. PICK x \in S : c \in x.fnptr \cup x.fntrait OBVIOUS
  <2> QED BY <2>1, Zenon DEF WellFormed
<1> QED BY <1>1, <1>2, <1>3, Zenon DEF WellFormed

(* add_call_edge for a call that was reported: its flow leads to nodes of  *)
(* the caller, which has been built, and of the callee, which is now a     *)
(* node of the call graph; where it is new to the PAG it is queued.        *)
LEMMA CallEdgeOwn ==
  ASSUME Ownership, Types, NEW f \in Entries, OwnInv(f), NEW c \in Calls,
         Caller[f][c[1]] \in processed_funcs, c[2] \in Program(f),
         AddCallEdge(c), UNCHANGED solverRest
  PROVE  AddedInv(f)'
<1> DEFINE flow == InterProcEdges({c})
<1>1. /\ added' = [added EXCEPT !.direct = @ \cup flow, !.inter = @ \cup (flow \ KnownDirect)]
      /\ UNCHANGED <<processed_funcs, special_functions>>
      /\ func_nodes' = func_nodes \cup {c[2]}
  BY DEF AddCallEdge, InsertCalls
<1>2. flow \subseteq CallFlow[c]
  <2>1. \A x \in {y \in NewCallEdges({c}) : y[2] \notin Unavailable} : x = c
    BY DEF NewCallEdges
  <2> QED BY <2>1 DEF InterProcEdges
<1>3. added \in Batch BY DEF Types, PTATypeOK
<1>4. AddedInv(f) BY DEF OwnInv
<1> HIDE DEF flow
<1>5. /\ added'.direct = added.direct \cup flow
      /\ added'.inter = added.inter \cup (flow \ KnownDirect)
  BY <1>1, <1>3 DEF Batch
<1>6. /\ added'.addr = added.addr /\ added'.load = added.load /\ added'.store = added.store
      /\ added'.gep = added.gep /\ added'.offset = added.offset
  BY <1>1, <1>3 DEF Batch
<1>7. /\ added'.instance = added.instance /\ added'.dispatch = added.dispatch
      /\ added'.fnptr = added.fnptr /\ added'.fntrait = added.fntrait
  BY <1>1, <1>3 DEF Batch
<1>8. UNCHANGED <<diff, propa, direct_edges, load_edges, store_edges, gep_edges, offset_edges>>
  BY DEF solverRest, graphVars, ptVars
<1>9. ReachedOwn(f)' BY <1>1, <1>4 DEF AddedInv, ReachedOwn
<1>10. AddedOpen(f)'
  <2> SUFFICES ASSUME NEW v \in Targets(added)' PROVE (Open(f, v) \/ Owner[f][v] \in func_nodes)'
    BY DEF AddedOpen
  <2>1. v \in Targets(added) \/ \E e \in flow : v = e[2] BY <1>5, <1>6 DEF Targets
  <2>2. CASE v \in Targets(added)
    BY <1>1, <1>4, <2>2, OpenKept DEF AddedInv, AddedOpen
  <2>3. CASE \E e \in flow : v = e[2]
    <3>1. PICK e \in CallFlow[c] : v = e[2] BY <1>2, <2>3
    <3>2. Owner[f][e[2]] \in {Caller[f][c[1]], c[2], None} BY DEF Ownership, CallsOwned
    <3>3. Open(f, v) \/ Owner[f][v] = c[2] BY <3>1, <3>2, OpenWhen
    <3> QED BY <1>1, <3>3, OpenKept
  <2> QED BY <2>1, <2>2, <2>3
<1>11. AddedSitesOpen(f)' BY <1>1, <1>4, <1>7 DEF AddedInv, AddedSitesOpen, DynamicSites
<1>12. Acceptable(added)'
  <2>1. Acceptable(added) /\ \A v : Pts(v)' = Pts(v) BY <1>4, <1>8 DEF AddedInv, Pts
  <2>2. \A e \in added'.direct \ direct_edges' : e \in added'.inter \/ Pts(e[1])' = {}
    BY <1>5, <1>8, <2>1 DEF Acceptable, KnownDirect
  <2> QED BY <1>6, <1>7, <1>8, <2>1, <2>2 DEF Acceptable
<1>13. WellFormed(added)'
  <2>1. WellFormed(added) BY <1>4 DEF AddedInv
  <2>2. added.inter \subseteq added.direct BY <2>1, Zenon DEF WellFormed
  <2>3. added'.inter \subseteq added'.direct BY <1>5, <2>2
  <2>4. PICK S : S = {added} OBVIOUS
  <2>5. \A x \in S : WellFormed(x) BY <2>1, <2>4
  <2>6. /\ \A e \in added'.load \cup added'.gep : \E x \in S : e \in x.load \cup x.gep
        /\ \A e \in added'.store : \E x \in S : e \in x.store
        /\ \A d \in added'.fnptr \cup added'.fntrait : \E x \in S : d \in x.fnptr \cup x.fntrait
    BY <1>6, <1>7, <2>4
  <2>7. WellFormed(added') BY <2>3, <2>5, <2>6, WellFormedFrom
  <2> QED BY <2>7, Zenon DEF WellFormed
<1> QED BY <1>9, <1>10, <1>11, <1>12, <1>13 DEF AddedInv

(* What add_fpag_edges has added comes from the batch it added to, from    *)
(* one of the bodies or from the flow of a static call.                    *)
LEMMA AddEdgesFrom ==
  ASSUME NEW g, NEW B, NEW flow, NEW fresh, AddEdges(g, B, flow, fresh)
  PROVE  /\ \A e \in added'.addr : e \in added.addr \/ \E h \in B : e \in FuncPag[h].addr
         /\ \A e \in added'.direct : \/ e \in added.direct \cup flow
                                     \/ \E h \in B : e \in FuncPag[h].direct
         /\ \A e \in added'.load : e \in added.load \/ \E h \in B : e \in FuncPag[h].load
         /\ \A e \in added'.store : e \in added.store \/ \E h \in B : e \in FuncPag[h].store
         /\ \A e \in added'.gep : e \in added.gep \/ \E h \in B : e \in FuncPag[h].gep
         /\ \A e \in added'.offset : e \in added.offset \/ \E h \in B : e \in FuncPag[h].offset
         /\ added'.inter = added.inter \cup fresh /\ added'.instance = added.instance
         /\ added'.dispatch = added.dispatch \cup FuncPag[g].dispatch
         /\ added'.fnptr = added.fnptr \cup FuncPag[g].fnptr
         /\ added'.fntrait = added.fntrait \cup FuncPag[g].fntrait
<1> DEFINE edges(k) == added[k] \cup UNION {FuncPag[h][k] : h \in B}
<1>1. added' = [addr |-> edges("addr"), direct |-> edges("direct") \cup flow,
            inter |-> added.inter \cup fresh, offset |-> edges("offset"),
            load |-> edges("load"), store |-> edges("store"), gep |-> edges("gep"),
            instance |-> added.instance,
            dispatch |-> added.dispatch \cup FuncPag[g].dispatch,
            fnptr |-> added.fnptr \cup FuncPag[g].fnptr,
            fntrait |-> added.fntrait \cup FuncPag[g].fntrait]
  BY DEF AddEdges
<1>2. \A k : \A e \in edges(k) : e \in added[k] \/ \E h \in B : e \in FuncPag[h][k]
  OBVIOUS
<1> HIDE DEF edges
<1>3. /\ added'.addr = edges("addr") /\ added'.direct = edges("direct") \cup flow
      /\ added'.load = edges("load") /\ added'.store = edges("store")
      /\ added'.gep = edges("gep") /\ added'.offset = edges("offset")
  BY ONLY <1>1
<1>4. /\ added'.inter = added.inter \cup fresh /\ added'.instance = added.instance
      /\ added'.dispatch = added.dispatch \cup FuncPag[g].dispatch
      /\ added'.fnptr = added.fnptr \cup FuncPag[g].fnptr
      /\ added'.fntrait = added.fntrait \cup FuncPag[g].fntrait
  BY ONLY <1>1
<1> QED BY <1>2, <1>3, <1>4

(* A reached function is built with bodies that were pending: their nodes  *)
(* have no objects yet, so that no edge that reads one comes too late.     *)
LEMMA FpagPending ==
  ASSUME Ownership, Types, NEW f \in Entries, OwnInv(f), NEW g \in reach_funcs,
         g \notin processed_funcs, HasFuncPag(g)
  PROVE  /\ FpagFuncs(g) \subseteq Pending(f)
         /\ \A h \in FpagFuncs(g) : \A v \in Reads(h) : Pts(v) = {}
<1>1. g \in Func /\ g \in func_nodes BY DEF Types, PTATypeOK
<1>2. g \in Program(f) BY <1>1 DEF OwnInv, AddedInv, ReachedOwn
<1>3. Initialiser \subseteq Program(f)
  BY ProgramAssumption DEF Program, Body
<1>4. \A h \in Initialiser : HasFuncPag(h)
  BY ProgramAssumption DEF HasFuncPag, Types, PTATypeOK
<1>5. \A h \in FpagFuncs(g) : h \in {g} \cup Initialiser /\ h \notin processed_funcs
  BY <1>1, FpagFuncsType DEF FpagFuncs
<1>6. FpagFuncs(g) \subseteq Pending(f) BY <1>2, <1>3, <1>4, <1>5 DEF Pending
<1>7. ASSUME NEW h \in FpagFuncs(g), NEW v \in Reads(h) PROVE Pts(v) = {}
  <2>1. h \in Pending(f) /\ h \in Program(f) BY <1>6 DEF Pending
  <2>2. Owner[f][v] = h BY <2>1, Zenon DEF Ownership, NodesOwned
  <2>3. ~ Open(f, v) BY <2>1, <2>2 DEF Open
  <2>4. v \in Node
    <3>1. FuncPag[h] \in Batch BY <2>1, ProgramAssumption DEF Program
    <3> QED BY <3>1 DEF Reads, Batch
  <2> QED BY <2>3, <2>4 DEF OwnInv, FactsOpen
<1> QED BY <1>6, <1>7

(* Building a function keeps to the contract: an edge of its body is read  *)
(* from a node without objects, or from a static, or by a call, and then   *)
(* it is queued where the PAG did not have it.                             *)
LEMMA FuncPagOwn ==
  ASSUME Ownership, RoundInv, Types', NEW f \in Entries, OwnInv(f), NEW g \in reach_funcs,
         g \notin processed_funcs, HasFuncPag(g), AddFuncPag(g), UNCHANGED solverVars
  PROVE  AddedInv(f)'
<1> DEFINE B == FpagFuncs(g)
           direct == UNION {FuncPag[h].direct : h \in B}
           flow == InterProcEdges(StaticCalls[g])
           fresh == ({e \in direct : e[1] \in StaticNode} \cup (flow \ direct)) \ KnownDirect
           C == StaticCalls[g] \cup SpecialCalls[g]
<1>1. /\ func_nodes' = func_nodes \cup {c[2] : c \in C}
      /\ processed_funcs' = processed_funcs \cup B
      /\ special_functions \subseteq special_functions'
      /\ AddEdges(g, B, flow, fresh)
  BY DEF AddFuncPag, InsertCalls
<1>2. /\ B \subseteq Pending(f)
      /\ \A h \in B : \A v \in Reads(h) : Pts(v) = {}
  BY FpagPending DEF RoundInv
<1>3. /\ \A e \in direct : \E h \in B : e \in FuncPag[h].direct
      /\ \A h \in B : FuncPag[h].direct \subseteq direct
      /\ flow \subseteq UNION {CallFlow[c] : c \in StaticCalls[g]}
  BY DEF InterProcEdges, NewCallEdges
<1>4. g \in B /\ B \subseteq Program(f) BY <1>2 DEF FpagFuncs, Pending
<1>5. \A e \in (direct \cup flow) \ KnownDirect :
        e \in fresh \/ (e \in direct /\ e[1] \notin StaticNode)
  OBVIOUS
<1> HIDE DEF B, direct, flow, fresh
<1>6. g \in Func /\ g \in Body /\ g \in Program(f)
  BY <1>4 DEF RoundInv, Types, PTATypeOK, Body
<1>7. /\ \A e \in added'.addr : e \in added.addr \/ \E h \in B : e \in FuncPag[h].addr
      /\ \A e \in added'.direct : e \in added.direct \cup flow \/ \E h \in B : e \in FuncPag[h].direct
      /\ \A e \in added'.load : e \in added.load \/ \E h \in B : e \in FuncPag[h].load
      /\ \A e \in added'.store : e \in added.store \/ \E h \in B : e \in FuncPag[h].store
      /\ \A e \in added'.gep : e \in added.gep \/ \E h \in B : e \in FuncPag[h].gep
      /\ \A e \in added'.offset : e \in added.offset \/ \E h \in B : e \in FuncPag[h].offset
  BY <1>1, AddEdgesFrom
<1>8. /\ added'.inter = added.inter \cup fresh /\ added'.instance = added.instance
      /\ added'.dispatch = added.dispatch \cup FuncPag[g].dispatch
      /\ added'.fnptr = added.fnptr \cup FuncPag[g].fnptr
      /\ added'.fntrait = added.fntrait \cup FuncPag[g].fntrait
  BY <1>1, AddEdgesFrom
<1>9. UNCHANGED <<diff, propa, direct_edges, load_edges, store_edges, gep_edges, offset_edges>>
  BY DEF solverVars, vars, graphVars, ptVars
<1>10. AddedInv(f) BY DEF OwnInv
<1>11. StaticCalls[g] \subseteq Calls BY <1>6, ProgramAssumption
<1>12. ReachedOwn(f)'
  <2>1. \A c \in C : c[2] \in Program(f)
    BY <1>6, Zenon DEF Ownership, CallsOwned
  <2> QED BY <1>1, <1>4, <1>10, <2>1 DEF AddedInv, ReachedOwn
<1>13. AddedOpen(f)'
  <2> SUFFICES ASSUME NEW v \in Targets(added)' PROVE (Open(f, v) \/ Owner[f][v] \in func_nodes)'
    BY DEF AddedOpen
  <2>1. \/ v \in Targets(added)
        \/ \E h \in B : v \in Targets(FuncPag[h])
        \/ \E e \in flow : v = e[2]
    BY <1>7 DEF Targets
  <2>2. CASE v \in Targets(added)
    BY <1>1, <1>10, <2>2, OpenKept DEF AddedInv, AddedOpen
  <2>3. CASE \E h \in B : v \in Targets(FuncPag[h])
    <3>1. PICK h \in B : v \in Targets(FuncPag[h]) BY <2>3
    <3>2. h \in Program(f) BY <1>4
    <3>3. Owner[f][v] \in {h, None} BY <3>1, <3>2, Zenon DEF Ownership, NodesOwned
    <3>4. None \notin Program(f) BY DEF Ownership, Program
    <3> QED BY <1>1, <3>3, <3>4 DEF Open, Pending
  <2>4. CASE \E e \in flow : v = e[2]
    <3>1. PICK c \in StaticCalls[g] : \E e \in CallFlow[c] : v = e[2] BY <1>3, <2>4
    <3>2. c \in Calls /\ Caller[f][c[1]] = g /\ c[2] \in Program(f)
      <4>1. Caller[f][c[1]] = g /\ c[2] \in Program(f)
        BY <1>6, Zenon DEF Ownership, CallsOwned
      <4> QED BY <1>11, <4>1
    <3>3. Owner[f][v] \in {Caller[f][c[1]], c[2], None}
      BY <3>1, <3>2 DEF Ownership, CallsOwned
    <3>4. None \notin Program(f) BY DEF Ownership, Program
    <3>5. g \in processed_funcs' /\ c[2] \in func_nodes' BY <1>1, <1>4
    <3> QED BY <3>2, <3>3, <3>4, <3>5 DEF Open, Pending
  <2> QED BY <2>1, <2>2, <2>3, <2>4
<1>14. AddedSitesOpen(f)'
  <2> SUFFICES ASSUME NEW cs \in DynamicSites(added)' PROVE Caller[f][cs] \in processed_funcs'
    BY <1>8, <1>10 DEF AddedSitesOpen, AddedInv
  <2>1. cs \in DynamicSites(added) \/ cs \in DynamicSites(FuncPag[g])
    BY <1>8 DEF DynamicSites
  <2>2. CASE cs \in DynamicSites(added)
    BY <1>1, <1>10, <2>2 DEF AddedInv, AddedSitesOpen
  <2>3. CASE cs \in DynamicSites(FuncPag[g])
    <3>1. \A c \in FuncPag[g].dispatch \cup FuncPag[g].fnptr \cup FuncPag[g].fntrait :
            Caller[f][c[2]] = g
      BY <1>6, Zenon DEF Ownership, NodesOwned
    <3> QED BY <1>1, <1>4, <2>3, <3>1 DEF DynamicSites
  <2> QED BY <2>1, <2>2, <2>3
<1>15. Acceptable(added)'
  <2>1. Acceptable(added) /\ \A v : Pts(v)' = Pts(v) BY <1>9, <1>10 DEF AddedInv, Pts
  <2>2. ASSUME NEW h \in B
        PROVE  /\ \A e \in FuncPag[h].direct : e[1] \in StaticNode \/ Pts(e[1]) = {}
               /\ \A e \in FuncPag[h].load \cup FuncPag[h].gep \cup FuncPag[h].offset : Pts(e[1]) = {}
               /\ \A e \in FuncPag[h].store : Pts(e[3]) = {}
               /\ \A c \in FuncPag[h].dispatch \cup FuncPag[h].fnptr \cup FuncPag[h].fntrait :
                    Pts(c[1]) = {}
    BY <1>2 DEF Reads
  <2>3. ASSUME NEW e \in added'.direct, e \notin direct_edges
        PROVE  e \in added'.inter \/ Pts(e[1]) = {}
    <3>1. CASE e \in added.direct BY <1>8, <2>1, <2>3, <3>1 DEF Acceptable
    <3>2. CASE e \notin added.direct
      <4>1. e \in (direct \cup flow) \ KnownDirect
        BY <1>3, <1>7, <2>3, <3>2 DEF KnownDirect
      <4>2. CASE e \in fresh BY <1>8, <4>2
      <4>3. CASE e \in direct /\ e[1] \notin StaticNode BY <1>3, <2>2, <4>3
      <4> QED BY <1>5, <4>1, <4>2, <4>3
    <3> QED BY <3>1, <3>2
  <2>4. /\ \A e \in added'.load \ load_edges : Pts(e[1]) = {}
        /\ \A e \in added'.gep \ gep_edges : Pts(e[1]) = {}
        /\ \A e \in added'.offset \ offset_edges : Pts(e[1]) = {}
        /\ \A e \in added'.store \ store_edges : Pts(e[3]) = {}
    BY <1>7, <2>1, <2>2 DEF Acceptable
  <2>5. \A c \in added'.instance \cup added'.dispatch \cup added'.fnptr \cup added'.fntrait :
          Pts(c[1]) = {}
    BY <1>4, <1>8, <2>1, <2>2 DEF Acceptable
  <2> QED BY <1>9, <2>1, <2>3, <2>4, <2>5 DEF Acceptable
<1>16. WellFormed(added)'
  <2>1. PICK S : S = {added} \cup {FuncPag[h] : h \in B} OBVIOUS
  <2>2. \A x \in S : WellFormed(x)
    <3>1. \A h \in Body : WellFormed(FuncPag[h]) BY ProgramAssumption
    <3>2. WellFormed(added) /\ B \subseteq Body BY <1>4, <1>10 DEF AddedInv, Program
    <3> QED BY <2>1, <3>1, <3>2
  <2>3. /\ \A e \in added'.load \cup added'.gep : \E x \in S : e \in x.load \cup x.gep
        /\ \A e \in added'.store : \E x \in S : e \in x.store
    BY <1>7, <2>1
  <2>4. \A d \in added'.fnptr \cup added'.fntrait : \E x \in S : d \in x.fnptr \cup x.fntrait
    BY <1>4, <1>8, <2>1
  <2>5. added'.inter \subseteq added'.direct BY DEF Types, PTATypeOK
  <2>6. WellFormed(added') BY <2>2, <2>3, <2>4, <2>5, WellFormedFrom
  <2> QED BY <2>6, Zenon DEF WellFormed
<1> QED BY <1>12, <1>13, <1>14, <1>15, <1>16 DEF AddedInv

(* When every function that was reached has been built, what has been      *)
(* added leads to open nodes only and may join the PAG.                    *)
LEMMA StartSolveOwn ==
  ASSUME Ownership, RoundInv, NEW f \in Entries, OwnInv(f), StartSolve
  PROVE  OwnInv(f)' /\ Step
<1>1. /\ AddBatch(added) /\ added' = Nothing /\ reach_funcs = {}
      /\ phase = "driver" /\ phase' = "addr"
      /\ UNCHANGED <<func_nodes, processed_funcs, special_functions, new_calls,
                     new_call_instances, diff, propa, worklist, cur, base, todo, takenVars>>
  BY DEF StartSolve, Reaching, ptVars
<1>2. AddedInv(f) BY DEF OwnInv
<1>3. /\ added'.addr = {} /\ added'.direct = {} /\ added'.inter = {} /\ added'.load = {}
      /\ added'.store = {} /\ added'.gep = {} /\ added'.offset = {} /\ added'.instance = {}
      /\ added'.dispatch = {} /\ added'.fnptr = {} /\ added'.fntrait = {}
  BY ONLY <1>1 DEF Nothing
<1>4. /\ addr_edges' = addr_edges \cup added.addr
      /\ direct_edges' = direct_edges \cup added.direct
      /\ load_edges' = load_edges \cup added.load
      /\ gep_edges' = gep_edges \cup added.gep
      /\ offset_edges' = offset_edges \cup added.offset
  BY <1>1 DEF AddBatch
<1>5. /\ assoc_calls'.instance = assoc_calls.instance \cup added.instance
      /\ assoc_calls'.dispatch = assoc_calls.dispatch \cup added.dispatch
      /\ assoc_calls'.fnptr = assoc_calls.fnptr \cup added.fnptr
      /\ assoc_calls'.fntrait = assoc_calls.fntrait \cup added.fntrait
  BY <1>1 DEF AddBatch
<1>6. \A v \in Targets(added) : Open(f, v)
  BY <1>1, <1>2, OpenWhen DEF AddedInv, AddedOpen, RoundInv
<1>7. FactsOpen(f)' BY <1>1, OpenKept DEF OwnInv, FactsOpen, Pts
<1>8. PagOpen(f)'
  <2>1. Targets(PAG)' \subseteq Targets(PAG) \cup Targets(added)
    BY <1>4 DEF Targets, PAG
  <2> QED BY <1>1, <1>6, <2>1, OpenKept DEF OwnInv, PagOpen
<1>9. SitesOpen(f)'
  <2>1. DynamicSites(assoc_calls)' = DynamicSites(assoc_calls) \cup DynamicSites(added)
    BY <1>5 DEF DynamicSites
  <2>2. assoc_calls'.instance = {}
    BY <1>2, <1>5 DEF OwnInv, SitesOpen, AddedInv, AddedSitesOpen
  <2> QED BY <1>1, <1>2, <2>1, <2>2 DEF OwnInv, SitesOpen, AddedInv, AddedSitesOpen
<1>10. CallsOpen(f)' BY <1>1 DEF OwnInv, CallsOpen
<1>11. AddedInv(f)'
  <2>1. ReachedOwn(f)' BY <1>1, <1>2 DEF AddedInv, ReachedOwn
  <2>2. AddedOpen(f)' BY <1>3 DEF AddedOpen, Targets
  <2>3. AddedSitesOpen(f)' BY <1>3 DEF AddedSitesOpen, DynamicSites
  <2>4. Acceptable(added)' BY <1>3 DEF Acceptable
  <2>5. WellFormed(added')
    <3>1. PICK S : S = {} OBVIOUS
    <3> QED BY <1>3, <3>1, WellFormedFrom
  <2>6. WellFormed(added)' BY <2>5, Zenon DEF WellFormed
  <2> QED BY <2>1, <2>2, <2>3, <2>4, <2>6 DEF AddedInv
<1>12. Step
  <2>1. added \in Batch BY DEF RoundInv, Types, PTATypeOK
  <2>2. Extends(added)
    BY <1>1, <1>2 DEF Extends, AddedInv, AllCalls, AllInstances, takenVars, ptVars
  <2> QED BY <2>1, <2>2 DEF Step
<1> QED BY <1>1, <1>7, <1>8, <1>9, <1>10, <1>11, <1>12 DEF OwnInv, Quiet

(* Methods that are called on objects are functions of the program.        *)
LEMMA DevirtualizedOwn ==
  ASSUME Ownership, NEW f \in Entries, NEW cs \in CallSite, NEW S \in SUBSET Node,
         NEW c \in Devirtualized(cs, S)
  PROVE  c[1] = cs /\ c[3] \in Program(f)
<1>1. PICK o \in S : c = <<cs, o, DynCallee[cs, o]>> /\ DynCallee[cs, o] # None
  BY Zenon DEF Devirtualized
<1>2. PICK x \in CallSite \X Node : x = <<cs, o>> OBVIOUS
<1>3. DynCallee[x] \in Program(f) \cup {None} BY Zenon DEF Ownership, ResolvedOwned
<1>4. c = <<cs, o, DynCallee[x]>> /\ DynCallee[x] # None BY <1>1, <1>2, Zenon
<1> QED BY <1>3, <1>4

(* So are the items and closures that are called through a pointer.        *)
LEMMA AddNewCallOwn ==
  ASSUME Ownership, NEW f \in Entries, CallsOpen(f), NEW cs, NEW o \in Node,
         Caller[f][cs] \in processed_funcs, FnCallee[o] # None,
         AddNewCall(cs, FnCallee[o]), UNCHANGED processed_funcs
  PROVE  CallsOpen(f)'
<1>1. FnCallee[o] \in Program(f) BY Zenon DEF Ownership, ResolvedOwned
<1>2. PICK g : g = FnCallee[o] OBVIOUS
<1>3. new_calls' = new_calls \cup {<<cs, g>>} BY <1>2 DEF AddNewCall
<1>4. \A c \in new_call_instances' : c \in new_call_instances \/ \E x : c = <<cs, x, g>>
  BY <1>2 DEF AddNewCall
<1> QED BY <1>1, <1>2, <1>3, <1>4 DEF CallsOpen

(* The calls that a solve reports are of built bodies and of functions of  *)
(* the program.                                                            *)
LEMMA SolveCallsOwn ==
  ASSUME Ownership, Inv, NEW f \in Entries, OwnInv(f), SolveWorklist, UNCHANGED processed_funcs
  PROVE  CallsOpen(f)'
<1>1. CallsOpen(f) /\ SitesOpen(f) BY DEF OwnInv
<1>2. \A cs \in CallSite : Caller[f][Unpack[cs]] = Caller[f][cs]
  BY Zenon DEF Ownership, ResolvedOwned
<1>3. CASE UNCHANGED <<new_calls, new_call_instances>> BY <1>1, <1>3 DEF CallsOpen
<1>4. CASE HandleStaticDispatchInstanceCall
  <2>1. assoc_calls.instance = {} BY <1>1 DEF SitesOpen
  <2>2. UNCHANGED <<new_calls, new_call_instances>>
    BY <1>4, <2>1 DEF HandleStaticDispatchInstanceCall
  <2> QED BY <1>3, <2>2
<1>5. CASE HandleDynamicDispatchCall
  <2>1. /\ UNCHANGED new_calls
        /\ \A c \in new_call_instances' : c \in new_call_instances \/
             \E cs \in Sites(assoc_calls.dispatch) : c \in Devirtualized(cs, diff[cur])
    BY <1>5 DEF HandleDynamicDispatchCall
  <2>2. ASSUME NEW cs \in Sites(assoc_calls.dispatch)
        PROVE  cs \in CallSite /\ Caller[f][cs] \in processed_funcs
    <3>1. PICK c \in assoc_calls.dispatch : cs = c[2] BY DEF Sites
    <3>2. cs \in CallSite BY <3>1, SiteType DEF Inv
    <3> QED BY <1>1, <3>1, <3>2 DEF SitesOpen, DynamicSites
  <2>3. diff[cur] \in SUBSET Node
    BY <1>5, NodeAssumption DEF HandleDynamicDispatchCall, Enter, Inv, TypeOK
  <2>4. ASSUME NEW c \in new_call_instances', c \notin new_call_instances
        PROVE  Caller[f][c[1]] \in processed_funcs /\ c[3] \in Program(f)
    <3>1. PICK cs \in Sites(assoc_calls.dispatch) : c \in Devirtualized(cs, diff[cur])
      BY <2>1, <2>4
    <3>2. c[1] = cs /\ c[3] \in Program(f) BY <2>2, <2>3, <3>1, DevirtualizedOwn
    <3> QED BY <2>2, <3>2
  <2> QED BY <1>1, <2>1, <2>4 DEF CallsOpen
<1>6. CASE ProcessFnptrCall
  <2>1. PICK x \in todo : /\ phase \in {"fnptr", "fntrait"}
                          /\ IF FnCallee[x[3]] = None
                             THEN UNCHANGED <<new_calls, new_call_instances>>
                             ELSE AddNewCall(x[2], FnCallee[x[3]])
    BY <1>6, Zenon DEF ProcessFnptrCall, CallIteration
  <2>2. x[2] \in CallSite /\ x[3] \in Node BY <1>6, CallItem DEF Inv
  <2>3. Caller[f][x[2]] \in processed_funcs BY <1>1, <2>1 DEF SitesOpen
  <2> QED BY <1>1, <1>3, <2>1, <2>2, <2>3, AddNewCallOwn
<1>7. CASE ProcessDynamicFntraitCall
  <2>1. PICK x \in todo :
          /\ phase \in {"fnptr", "fntrait"}
          /\ \/ UNCHANGED <<new_calls, new_call_instances>>
             \/ FnCallee[x[3]] # None /\ AddNewCall(Unpack[x[2]], FnCallee[x[3]])
             \/ /\ new_call_instances' = new_call_instances \cup Devirtualized(x[2], {x[3]})
                /\ UNCHANGED new_calls
    BY <1>7, Zenon DEF ProcessDynamicFntraitCall, CallIteration
  <2>2. x[2] \in CallSite /\ x[3] \in Node BY <1>7, CallItem DEF Inv
  <2>3. Caller[f][x[2]] \in processed_funcs BY <1>1, <2>1 DEF SitesOpen
  <2>4. CASE FnCallee[x[3]] # None /\ AddNewCall(Unpack[x[2]], FnCallee[x[3]])
    BY <1>1, <1>2, <2>2, <2>3, <2>4, AddNewCallOwn
  <2>5. CASE /\ new_call_instances' = new_call_instances \cup Devirtualized(x[2], {x[3]})
             /\ UNCHANGED new_calls
    <3>1. \A c \in Devirtualized(x[2], {x[3]}) : c[1] = x[2] /\ c[3] \in Program(f)
      <4>1. {x[3]} \in SUBSET Node BY <2>2
      <4> QED BY <2>2, <4>1, DevirtualizedOwn
    <3> QED BY <1>1, <2>3, <2>5, <3>1 DEF CallsOpen
  <2> QED BY <1>3, <2>1, <2>4, <2>5
<1>8. CASE \/ ProcessAddr \/ AddrEdgesDone \/ ProcessInterProc \/ InterProcEdgesDone
           \/ PopNode \/ SolveDone \/ Flush
  BY <1>3, <1>8 DEF ProcessAddr, AddrEdgesDone, ProcessInterProc, InterProcEdgesDone, PopNode,
     SolveDone, Flush, callVars
<1>9. CASE \/ ProcessDirect \/ ProcessLoad \/ ProcessStore \/ ProcessGep \/ ProcessOffset
  <2>1. \E ph, x : Iterate(ph, x)
    BY <1>9, Zenon DEF ProcessDirect, ProcessLoad, ProcessStore, ProcessGep, ProcessOffset
  <2> QED BY <1>3, <2>1 DEF Iterate, callVars
<1>10. CASE \/ HandleLoad \/ HandleStore \/ HandleGep \/ HandleOffset \/ HandleFnptrCall
            \/ HandleDynamicFntraitCall \/ HandlersDone
  BY <1>3, <1>10 DEF HandleLoad, HandleStore, HandleGep, HandleOffset, HandleFnptrCall,
     HandleDynamicFntraitCall, HandlersDone, callVars
<1> QED BY <1>4, <1>5, <1>6, <1>7, <1>8, <1>9, <1>10 DEF SolveWorklist, ProcessNode

(* The call sites that a solve registers are those of trait objects that   *)
(* hold function pointers, and the objects it resolves calls with are in   *)
(* points-to sets.                                                         *)
LEMMA SolveSitesOwn ==
  ASSUME Ownership, Inv, NEW f \in Entries, OwnInv(f), SolveWorklist,
         UNCHANGED <<processed_funcs, special_functions>>
  PROVE  SitesOpen(f)'
<1> DEFINE Fits(x) == Caller[f][x[2]] \in processed_funcs /\ Open(f, x[3])
<1>1. SitesOpen(f) /\ FactsOpen(f) BY DEF OwnInv
<1>2. \A cs \in CallSite : Caller[f][Unpack[cs]] = Caller[f][cs]
  BY Zenon DEF Ownership, ResolvedOwned
<1>3. \A x : Fits(x) => Fits(x)' BY OpenKept
<1>4. \A v \in Node : \A o \in Pts(v) : Open(f, o) BY <1>1 DEF FactsOpen
<1>5. \A calls \in {assoc_calls.fnptr, assoc_calls.fntrait} :
        \A cs \in Sites(calls) : Caller[f][cs] \in processed_funcs
  BY <1>1 DEF SitesOpen, DynamicSites, Sites
<1>6. Step BY DEF Step
<1>7. ~ \E b \in Batch : Extends(b) BY SolverRuns DEF Extends
<1> HIDE DEF Fits
<1>8. CASE ProcessDynamicFntraitCall
  <2>1. PICK x \in todo :
          /\ phase \in {"fnptr", "fntrait"} /\ phase' = phase
          /\ \/ /\ assoc_calls' = [assoc_calls EXCEPT !.fnptr = @ \cup {<<x[3], Unpack[x[2]]>>}]
                /\ todo' = (todo \ {x}) \cup ({"fnptr"} \X {Unpack[x[2]]} \X Pts(x[3]))
             \/ UNCHANGED assoc_calls /\ todo' = todo \ {x}
    BY <1>8 DEF ProcessDynamicFntraitCall, CallIteration
  <2>2. x[2] \in CallSite /\ x[3] \in Node BY <1>8, CallItem DEF Inv
  <2>3. Fits(x) /\ \A y \in todo : Fits(y) BY <1>1, <2>1 DEF SitesOpen, Fits
  <2>4. CASE UNCHANGED assoc_calls /\ todo' = todo \ {x}
    BY <1>1, <1>3, <2>3, <2>4 DEF SitesOpen, Fits, DynamicSites
  <2>5. CASE /\ assoc_calls' = [assoc_calls EXCEPT !.fnptr = @ \cup {<<x[3], Unpack[x[2]]>>}]
             /\ todo' = (todo \ {x}) \cup ({"fnptr"} \X {Unpack[x[2]]} \X Pts(x[3]))
    <3>1. /\ assoc_calls'.fnptr = assoc_calls.fnptr \cup {<<x[3], Unpack[x[2]]>>}
          /\ assoc_calls'.instance = assoc_calls.instance
          /\ assoc_calls'.dispatch = assoc_calls.dispatch
          /\ assoc_calls'.fntrait = assoc_calls.fntrait
      BY <2>5 DEF Inv, TypeOK
    <3>2. Caller[f][Unpack[x[2]]] \in processed_funcs BY <1>2, <2>2, <2>3 DEF Fits
    <3>3. \A cs \in DynamicSites(assoc_calls)' : cs \in DynamicSites(assoc_calls) \/ cs = Unpack[x[2]]
      BY <3>1 DEF DynamicSites
    <3>4. ASSUME NEW y \in {"fnptr"} \X {Unpack[x[2]]} \X Pts(x[3]) PROVE Fits(y)
      <4>1. y[2] = Unpack[x[2]] /\ y[3] \in Pts(x[3]) OBVIOUS
      <4> QED BY <1>4, <2>2, <3>2, <4>1 DEF Fits
    <3>5. \A y \in todo' : Fits(y)' BY <1>3, <2>3, <2>5, <3>4
    <3> QED BY <1>1, <3>1, <3>2, <3>3, <3>5 DEF SitesOpen, Fits
  <2> QED BY <2>1, <2>4, <2>5
<1>9. CASE ~ ProcessDynamicFntraitCall
  <2>1. UNCHANGED assoc_calls BY <1>6, <1>7, <1>9, EdgesKept DEF Inv
  <2> SUFFICES ASSUME phase' \in {"fnptr", "fntrait"} PROVE \A x \in todo' : Fits(x)'
    BY <1>1, <2>1 DEF SitesOpen, Fits, DynamicSites
  <2>2. CASE HandleFnptrCall \/ HandleDynamicFntraitCall
    <3>1. PICK k \in {"fnptr", "fntrait"}, calls \in {assoc_calls.fnptr, assoc_calls.fntrait} :
            todo' = {k} \X Sites(calls) \X diff[cur]
      BY <2>2 DEF HandleFnptrCall, HandleDynamicFntraitCall, Enter
    <3>2. cur \in Node
      BY <2>2 DEF HandleFnptrCall, HandleDynamicFntraitCall, Enter, Inv, TypeOK
    <3>3. ASSUME NEW x \in todo' PROVE Fits(x)
      <4>1. x[2] \in Sites(calls) /\ x[3] \in diff[cur] BY <3>1
      <4> QED BY <1>4, <1>5, <3>2, <4>1 DEF Fits, Pts
    <3> QED BY <1>3, <3>3
  <2>3. CASE ProcessFnptrCall
    <3>1. \E x \in todo : CallIteration(todo \ {x}) BY <2>3, Zenon DEF ProcessFnptrCall
    <3>2. phase \in {"fnptr", "fntrait"} /\ todo' \subseteq todo BY <3>1 DEF CallIteration
    <3> QED BY <1>1, <1>3, <3>2 DEF SitesOpen, Fits
  <2>4. CASE ~HandleFnptrCall /\ ~HandleDynamicFntraitCall /\ ~ProcessFnptrCall
    <3>1. CASE phase \in {"fnptr", "fntrait"}
      <4>1. HandlersDone \/ Takes BY <1>6, <1>9, <2>4, <3>1, StepFrom
      <4>2. todo' = todo BY <4>1 DEF HandlersDone, Enter, Takes, ctlVars, LoopPhases
      <4> QED BY <1>1, <1>3, <3>1, <4>2 DEF SitesOpen, Fits
    <3>2. CASE phase \notin {"fnptr", "fntrait"}
      <4>1. phase = "dispatch" /\ phase' = "fnptr"
        BY <1>6, <3>2, PhaseStep DEF Inv, PopNode, Flush, Handlers
      <4> QED BY <1>6, <2>4, <4>1, StepFrom DEF Takes, ctlVars
    <3> QED BY <3>1, <3>2
  <2> QED BY <2>2, <2>3, <2>4
<1> QED BY <1>8, <1>9

(* A closure reference is a local of the function that calls the closure.  *)
LEMMA SolveAddrOwn ==
  ASSUME Ownership, Inv, NEW f \in Entries, OwnInv(f), SolveWorklist,
         NEW e \in addr_edges' \ addr_edges
  PROVE  Open(f, e[1]) /\ Open(f, e[2])
<1>1. ProcessFnptrCall
  <2>1. Step BY DEF Step
  <2>2. ~ \E b \in Batch : Extends(b) BY SolverRuns DEF Extends
  <2> QED BY <2>1, <2>2, EdgesKept DEF Inv, addrVars, ProcessAddr
<1>2. PICK x \in todo : /\ ClosureRef[x[2], x[3]] # None
                        /\ addr_edges' = addr_edges \cup {<<x[3], ClosureRef[x[2], x[3]]>>}
  <2>1. addr_edges' # addr_edges OBVIOUS
  <2> QED BY <1>1, <2>1, Zenon DEF ProcessFnptrCall, addrVars
<1>3. x[2] \in CallSite /\ x[3] \in Node BY <1>1, CallItem DEF Inv
<1>4. PICK y \in CallSite \X Node : y = <<x[2], x[3]>> BY <1>3
<1>5. /\ ClosureRef[y] # None
      /\ addr_edges' = addr_edges \cup {<<x[3], ClosureRef[y]>>}
  BY <1>2, <1>4, Zenon
<1>6. e[1] = x[3] /\ e[2] = ClosureRef[y] BY <1>5
<1>7. Owner[f][ClosureRef[y]] \in {Caller[f][y[1]], None}
  BY <1>5, Zenon DEF Ownership, ResolvedOwned
<1>8. Caller[f][y[1]] \in processed_funcs /\ Open(f, x[3])
  <2>1. \E z \in todo : CallIteration(todo \ {z}) BY <1>1, Zenon DEF ProcessFnptrCall
  <2>2. phase \in {"fnptr", "fntrait"} BY <2>1 DEF CallIteration
  <2> QED BY <1>4, <2>2 DEF OwnInv, SitesOpen
<1>9. Open(f, ClosureRef[y]) BY <1>7, <1>8, OpenWhen
<1> QED BY <1>6, <1>8, <1>9

(* The edges that a solve adds lead to open nodes, and what it adds to the *)
(* points-to sets are open objects at the ends of edges.                   *)
LEMMA SolveFactsOwn ==
  ASSUME Ownership, Inv, NEW f \in Entries, OwnInv(f), SolveWorklist,
         UNCHANGED <<processed_funcs, special_functions>>
  PROVE  PagOpen(f)' /\ FactsOpen(f)'
<1>1. PagOpen(f) /\ FactsOpen(f) BY DEF OwnInv
<1>2. Step BY DEF Step
<1>3. ~ \E b \in Batch : Extends(b) BY SolverRuns DEF Extends
<1>4. UNCHANGED <<load_edges, store_edges, gep_edges, offset_edges>>
  BY <1>2, <1>3, EdgesKept DEF Inv, graphVars
<1>5. \A o \in Node, p \in Proj : Open(f, o) => Open(f, Field[o, p])
  <2> SUFFICES ASSUME NEW o \in Node, NEW p \in Proj, Open(f, o) PROVE Open(f, Field[o, p])
    BY Zenon
  <2>1. PICK x \in Node \X Proj : x = <<o, p>> OBVIOUS
  <2>2. Owner[f][Field[x]] \in {Owner[f][x[1]], None}
    BY <2>1, Zenon DEF Ownership, NodesOwned
  <2>3. Open(f, Field[x])
    <3>1. CASE Owner[f][Field[x]] = None BY <3>1, OpenWhen
    <3>2. CASE Owner[f][Field[x]] = Owner[f][x[1]] BY <2>1, <3>2 DEF Open
    <3> QED BY <2>2, <3>1, <3>2
  <2> QED BY <2>1, <2>3, Zenon
<1>6. \A e \in load_edges \cup store_edges \cup gep_edges :
        e[1] \in Node /\ e[2] \in Proj /\ e[3] \in Node
  <2>1. load_edges \cup store_edges \cup gep_edges \subseteq Node \X Proj \X Node
    BY DEF Inv, TypeOK
  <2> QED BY ONLY <2>1
<1>7. \A v \in Node : \A x \in Pts(v) : x \in Node /\ Open(f, v) /\ Open(f, x)
  BY <1>1 DEF FactsOpen, Pts, Inv, TypeOK
<1>8. \A e \in direct_edges' \ direct_edges : Open(f, e[2])
  <2> SUFFICES ASSUME NEW e \in direct_edges' \ direct_edges PROVE Open(f, e[2])
    OBVIOUS
  <2>1. \/ \E l \in load_edges : l[3] = e[2]
        \/ \E l \in store_edges : \E x \in Pts(l[3]) : e[2] = Field[x, l[2]]
    BY <1>2, <1>3, EdgesDerived, Zenon
  <2>2. CASE \E l \in load_edges : l[3] = e[2]
    BY <1>1, <2>2 DEF PagOpen, Targets, PAG
  <2>3. CASE \E l \in store_edges : \E x \in Pts(l[3]) : e[2] = Field[x, l[2]]
    <3>1. PICK l \in store_edges : \E x \in Pts(l[3]) : e[2] = Field[x, l[2]] BY <2>3, Zenon
    <3>2. PICK x \in Pts(l[3]) : e[2] = Field[x, l[2]] BY <3>1, Zenon
    <3>3. l[3] \in Node /\ l[2] \in Proj BY <1>6
    <3>4. x \in Node /\ Open(f, x) BY <1>7, <3>3
    <3>5. Open(f, Field[x, l[2]]) BY <1>5, <3>3, <3>4, Zenon
    <3> QED BY <3>2, <3>5, Zenon
  <2> QED BY <2>1, <2>2, <2>3, Zenon
<1>9. \A e \in addr_edges' \ addr_edges : Open(f, e[1]) /\ Open(f, e[2]) BY SolveAddrOwn
<1>10. ASSUME NEW v \in Targets(PAG)' PROVE Open(f, v)
  <2>1. \/ v \in Targets(PAG)
        \/ \E e \in direct_edges' \ direct_edges : v = e[2]
        \/ \E e \in addr_edges' \ addr_edges : v = e[1] \/ v = e[2]
    BY <1>4 DEF Targets, PAG
  <2> QED BY <1>1, <1>8, <1>9, <2>1 DEF PagOpen
<1>11. PagOpen(f)' BY <1>10, OpenKept DEF PagOpen
<1>12. ASSUME NEW v \in Node, NEW o \in Pts(v)' \ Pts(v) PROVE Open(f, v) /\ Open(f, o)
  <2>1. Derivable(v, o) BY <1>2, FactsDerived
  <2>2. \/ <<o, v>> \in addr_edges'
        \/ \E s \in Node : <<s, v>> \in direct_edges' \cup offset_edges /\ o \in Pts(s)
        \/ \E e \in gep_edges : e[3] = v /\ \E x \in Pts(e[1]) : o = Field[x, e[2]]
    BY <2>1, Zenon DEF Derivable
  <2>3. CASE <<o, v>> \in addr_edges'
    <3>1. o \in Targets(PAG)' /\ v \in Targets(PAG)' BY <2>3 DEF Targets, PAG
    <3> QED BY <1>10, <3>1
  <2>4. CASE \E s \in Node : <<s, v>> \in direct_edges' \cup offset_edges /\ o \in Pts(s)
    <3>1. v \in Targets(PAG)' BY <1>4, <2>4 DEF Targets, PAG
    <3> QED BY <1>7, <1>10, <2>4, <3>1
  <2>5. CASE \E e \in gep_edges : e[3] = v /\ \E x \in Pts(e[1]) : o = Field[x, e[2]]
    <3>1. PICK e \in gep_edges : e[3] = v /\ \E x \in Pts(e[1]) : o = Field[x, e[2]]
      BY <2>5, Zenon
    <3>2. PICK x \in Pts(e[1]) : o = Field[x, e[2]] BY <3>1, Zenon
    <3>3. e[1] \in Node /\ e[2] \in Proj BY <1>6
    <3>4. v \in Targets(PAG)
      <4>1. e[3] = v BY <3>1, Zenon
      <4> QED BY <4>1 DEF Targets, PAG
    <3>5. x \in Node /\ Open(f, x) BY <1>7, <3>3
    <3>6. Open(f, Field[x, e[2]]) BY <1>5, <3>3, <3>5, Zenon
    <3>7. Open(f, o) BY <3>2, <3>6, Zenon
    <3> QED BY <1>1, <3>4, <3>7 DEF PagOpen
  <2> QED BY <2>2, <2>3, <2>4, <2>5, Zenon
<1>13. FactsOpen(f)'
  <2> SUFFICES ASSUME NEW v \in Node, NEW o \in Pts(v)' PROVE (Open(f, v) /\ Open(f, o))'
    BY DEF FactsOpen
  <2>1. Open(f, v) /\ Open(f, o) BY <1>7, <1>12
  <2> QED BY <2>1, OpenKept
<1> QED BY <1>11, <1>13

(* Nothing is added while a solve runs.                                    *)
LEMMA SolveOwn ==
  ASSUME Ownership, Inv, NEW f \in Entries, OwnInv(f), Solve
  PROVE  OwnInv(f)'
<1>1. /\ SolveWorklist
      /\ UNCHANGED <<func_nodes, processed_funcs, special_functions, added>>
  BY DEF Solve, driverVars
<1>2. added = Nothing BY <1>1, SolverRuns DEF OwnInv, Quiet
<1>3. /\ added'.addr = {} /\ added'.direct = {} /\ added'.inter = {} /\ added'.load = {}
      /\ added'.store = {} /\ added'.gep = {} /\ added'.offset = {} /\ added'.instance = {}
      /\ added'.dispatch = {} /\ added'.fnptr = {} /\ added'.fntrait = {}
  BY ONLY <1>1, <1>2 DEF Nothing
<1>4. AddedInv(f)'
  <2>1. ReachedOwn(f)' BY <1>1 DEF OwnInv, AddedInv, ReachedOwn
  <2>2. AddedOpen(f)' BY <1>3 DEF AddedOpen, Targets
  <2>3. AddedSitesOpen(f)' BY <1>3 DEF AddedSitesOpen, DynamicSites
  <2>4. Acceptable(added)' BY <1>3 DEF Acceptable
  <2>5. WellFormed(added')
    <3>1. PICK S : S = {} OBVIOUS
    <3> QED BY <1>3, <3>1, WellFormedFrom
  <2>6. WellFormed(added)' BY <2>5, Zenon DEF WellFormed
  <2> QED BY <2>1, <2>2, <2>3, <2>4, <2>6 DEF AddedInv
<1>5. PagOpen(f)' /\ FactsOpen(f)' BY <1>1, SolveFactsOwn
<1>6. SitesOpen(f)' BY <1>1, SolveSitesOwn
<1>7. CallsOpen(f)' BY <1>1, SolveCallsOwn
<1>8. Quiet' BY <1>1, <1>2 DEF Quiet
<1> QED BY <1>4, <1>5, <1>6, <1>7, <1>8 DEF OwnInv

(* A step that changes neither what is added nor what is reached.          *)
LEMMA StillOwn ==
  ASSUME NEW f, OwnInv(f),
         UNCHANGED <<func_nodes, processed_funcs, special_functions, added, solverVars>>
  PROVE  OwnInv(f)'
<1>1. /\ UNCHANGED solverRest
      /\ UNCHANGED <<new_calls, new_call_instances, diff, propa, direct_edges, load_edges,
                     store_edges, gep_edges, offset_edges>>
  BY DEF solverVars, vars, solverRest, callVars, ctlVars, graphVars, ptVars
<1>2. AddedInv(f) BY DEF OwnInv
<1>3. ReachedOwn(f)' BY <1>2 DEF AddedInv, ReachedOwn
<1>4. AddedOpen(f)' BY <1>2, OpenKept DEF AddedInv, AddedOpen
<1>5. AddedSitesOpen(f)' BY <1>2 DEF AddedInv, AddedSitesOpen
<1>6. Acceptable(added)' BY <1>1, <1>2 DEF AddedInv, Acceptable, Pts
<1>7. WellFormed(added)' BY <1>2, Zenon DEF AddedInv, WellFormed
<1>8. AddedInv(f)' BY <1>3, <1>4, <1>5, <1>6, <1>7 DEF AddedInv
<1> QED BY <1>1, <1>8, DriverOwn

(* Taking a call leaves all calls that were reported as they are.          *)
LEMMA CallsTaken ==
  ASSUME UNCHANGED solverRest,
         \/ /\ UNCHANGED <<new_call_instances, taken_instances>>
            /\ \E c \in new_calls : /\ new_calls' = new_calls \ {c}
                                    /\ taken_calls' = taken_calls \cup {c}
         \/ /\ UNCHANGED <<new_calls, taken_calls>>
            /\ \E c \in new_call_instances :
                 /\ new_call_instances' = new_call_instances \ {c}
                 /\ taken_instances' = taken_instances \cup {c}
  PROVE  Takes
<1>1. AllCalls' = AllCalls BY DEF AllCalls
<1>2. AllInstances' = AllInstances BY DEF AllInstances
<1> QED BY <1>1, <1>2 DEF Takes, solverRest

(* The driver and the solver together: the invariants of both, and the     *)
(* program that the entry point was taken from.                            *)
Owned(f) == RoundInv /\ Inv /\ OwnInv(f)

(* Every step of driver and solver is one that the solver's invariants     *)
(* allow for, and keeps the driver's part of the invariant.                *)
LEMMA OwnedStep ==
  ASSUME Ownership, NEW f \in Entries, Owned(f), [PTANext]_ptaVars
  PROVE  Step /\ OwnInv(f)'
<1>0. RoundInv /\ Inv /\ OwnInv(f) /\ Types' BY TypesInv DEF Owned, RoundInv
<1>1. ASSUME UNCHANGED solverVars PROVE Step
  BY <1>1 DEF solverVars, vars, Step, Takes, callVars, takenVars, AllCalls, AllInstances
<1>2. CASE SkipReachFunc
  <2>1. UNCHANGED <<func_nodes, processed_funcs, special_functions, added, solverVars>>
    BY <1>2 DEF SkipReachFunc, Reaching
  <2> QED BY <1>0, <1>1, <2>1, StillOwn
<1>3. CASE ProcessReachFunc
  <2>1. PICK g \in reach_funcs : g \notin processed_funcs /\ HasFuncPag(g) /\ AddFuncPag(g)
    BY <1>3 DEF ProcessReachFunc
  <2>2. phase = "driver" /\ UNCHANGED solverVars BY <1>3 DEF ProcessReachFunc, Reaching
  <2>3. AddedInv(f)' BY <1>0, <2>1, <2>2, FuncPagOwn
  <2>4. /\ processed_funcs \subseteq processed_funcs'
        /\ special_functions \subseteq special_functions'
    BY <2>1 DEF AddFuncPag
  <2>5. UNCHANGED solverRest /\ UNCHANGED <<new_calls, new_call_instances>>
    BY <2>2 DEF solverVars, vars, solverRest, callVars
  <2> QED BY <1>0, <1>1, <2>2, <2>3, <2>4, <2>5, DriverOwn
<1>4. CASE StartSolve BY <1>0, <1>4, StartSolveOwn
<1>5. CASE Solve BY <1>0, <1>5, SolveOwn DEF Solve, Step
<1>6. CASE \/ Break \/ TakeCalls \/ NewCallsDone \/ CallsReachDone \/ NewCallInstancesDone
  <2>1. UNCHANGED <<func_nodes, processed_funcs, special_functions, added, solverVars>>
    BY <1>6 DEF Break, TakeCalls, NewCallsDone, CallsReachDone, NewCallInstancesDone, Advance
  <2> QED BY <1>0, <1>1, <2>1, StillOwn
<1>7. CASE ProcessNewCall
  <2>1. PICK c \in new_calls : /\ AddCallEdge(c) /\ new_calls' = new_calls \ {c}
                               /\ taken_calls' = taken_calls \cup {c}
    BY <1>7 DEF ProcessNewCall
  <2>2. /\ phase = "driver" /\ UNCHANGED solverRest
        /\ UNCHANGED <<new_call_instances, taken_instances>>
    BY <1>7 DEF ProcessNewCall
  <2>3. /\ c \in Calls /\ Caller[f][c[1]] \in processed_funcs /\ c[2] \in Program(f)
    BY <1>0 DEF RoundInv, Types, TypeOK, Calls, OwnInv, CallsOpen
  <2>4. UNCHANGED <<processed_funcs, special_functions>> BY <2>1 DEF AddCallEdge
  <2>5. AddedInv(f)' BY <1>0, <2>1, <2>2, <2>3, CallEdgeOwn DEF RoundInv
  <2>6. Step BY <2>1, <2>2, CallsTaken DEF Step
  <2> QED BY <1>0, <2>1, <2>2, <2>4, <2>5, <2>6, DriverOwn
<1>8. CASE ProcessNewCallInstance
  <2>1. PICK c \in new_call_instances :
          /\ AddCallEdge(<<c[1], c[3]>>)
          /\ new_call_instances' = new_call_instances \ {c}
          /\ taken_instances' = taken_instances \cup {c}
    BY <1>8 DEF ProcessNewCallInstance
  <2>2. /\ phase = "driver" /\ UNCHANGED solverRest
        /\ UNCHANGED <<new_calls, taken_calls>>
    BY <1>8 DEF ProcessNewCallInstance
  <2>3. PICK d : d = <<c[1], c[3]>> OBVIOUS
  <2>4. d \in Calls /\ Caller[f][d[1]] \in processed_funcs /\ d[2] \in Program(f)
    <3>1. c \in CallSite \X Node \X Func BY <1>0 DEF RoundInv, Types, TypeOK
    <3>2. d \in Calls BY ONLY <2>3, <3>1 DEF Calls
    <3>3. d[1] = c[1] /\ d[2] = c[3] BY ONLY <2>3
    <3> QED BY <1>0, <3>2, <3>3 DEF OwnInv, CallsOpen
  <2>5. AddCallEdge(d) BY <2>1, <2>3
  <2>6. UNCHANGED <<processed_funcs, special_functions>> BY <2>5 DEF AddCallEdge
  <2>7. AddedInv(f)' BY <1>0, <2>2, <2>4, <2>5, CallEdgeOwn DEF RoundInv
  <2>8. Step BY <2>1, <2>2, CallsTaken DEF Step
  <2> QED BY <1>0, <2>1, <2>2, <2>6, <2>7, <2>8, DriverOwn
<1>9. CASE UNCHANGED ptaVars
  <2>1. UNCHANGED <<func_nodes, processed_funcs, special_functions, added, solverVars>>
    BY <1>9 DEF ptaVars, driverVars
  <2> QED BY <1>0, <1>1, <2>1, StillOwn
<1> QED BY <1>2, <1>3, <1>4, <1>5, <1>6, <1>7, <1>8, <1>9 DEF PTANext, PTAStep, Done


(* The analysis starts with one function, none of whose nodes has objects. *)
LEMMA OwnedInit ==
  ASSUME Ownership, PTAInit
  PROVE  EdgesHandled /\ CallsHandled /\ \E f \in Entries : Owned(f)
<1>1. PICK f \in Entries : func_nodes = {f} BY DEF PTAInit
<1>2. /\ processed_funcs = {} /\ phase = "driver" /\ added = Nothing
      /\ addr_edges = {} /\ addr_queue = {} /\ direct_edges = {} /\ inter_queue = {}
      /\ load_edges = {} /\ store_edges = {} /\ gep_edges = {} /\ offset_edges = {}
      /\ diff = [v \in Node |-> {}] /\ propa = [v \in Node |-> {}] /\ worklist = <<>>
      /\ cur = None /\ base = {} /\ todo = {}
      /\ new_calls = {} /\ new_call_instances = {}
  BY DEF PTAInit
<1>3. /\ assoc_calls.instance = {} /\ assoc_calls.dispatch = {}
      /\ assoc_calls.fnptr = {} /\ assoc_calls.fntrait = {}
  <2>1. assoc_calls = [instance |-> {}, dispatch |-> {}, fnptr |-> {}, fntrait |-> {}]
    BY DEF PTAInit
  <2> QED BY ONLY <2>1
<1>4. RoundInv /\ TypeOK BY RoundInvInit DEF RoundInv, Types
<1>5. ASSUME NEW v \in Node, NEW o PROVE o \notin Pts(v)
  BY <1>2 DEF Pts
<1>6. Inv
  <2>1. WellFormedPAG BY <1>2, <1>3 DEF WellFormedPAG
  <2>2. /\ LoopItems /\ QueuesDone /\ DiffPropaDisjoint /\ DiffIsScheduled /\ DiffStable
    BY <1>2 DEF LoopItems, QueuesDone, DiffPropaDisjoint, DiffIsScheduled, DiffStable
  <2> QED BY <1>4, <2>1, <2>2 DEF Inv
<1>7. EdgesHandled
  BY <1>2 DEF EdgesHandled, AddrHandled, DirectHandled, LoadHandled, StoreHandled,
     GepHandled, OffsetHandled
<1>8. CallsHandled
  BY <1>3 DEF CallsHandled, InstanceHandled, DispatchHandled, FnptrHandled, FntraitHandled
<1>9. /\ added.addr = {} /\ added.direct = {} /\ added.inter = {} /\ added.load = {}
      /\ added.store = {} /\ added.gep = {} /\ added.offset = {} /\ added.instance = {}
      /\ added.dispatch = {} /\ added.fnptr = {} /\ added.fntrait = {}
  BY ONLY <1>2 DEF Nothing
<1>10. ReachedOwn(f)
  <2>1. f \in Program(f) BY ProgramAssumption DEF Program, Body
  <2> QED BY <1>1, <1>2, <2>1 DEF ReachedOwn
<1>11. AddedInv(f)
  <2>1. AddedOpen(f) /\ AddedSitesOpen(f)
    BY <1>9 DEF AddedOpen, Targets, AddedSitesOpen, DynamicSites
  <2>2. Acceptable(added) BY <1>9 DEF Acceptable
  <2>3. WellFormed(added)
    <3>1. PICK S : S = {} OBVIOUS
    <3> QED BY <1>9, <3>1, WellFormedFrom
  <2> QED BY <1>10, <2>1, <2>2, <2>3 DEF AddedInv
<1>12. OwnInv(f)
  <2>1. FactsOpen(f)
    <3> SUFFICES ASSUME NEW v \in Node, NEW o \in Pts(v) PROVE Open(f, v) /\ Open(f, o)
      BY Zenon DEF FactsOpen
    <3> QED BY <1>5
  <2>2. PagOpen(f) BY <1>2 DEF PagOpen, Targets, PAG
  <2>3. SitesOpen(f) BY <1>2, <1>3 DEF SitesOpen, DynamicSites
  <2>4. CallsOpen(f) BY <1>2 DEF CallsOpen
  <2> QED BY <1>2, <1>11, <2>1, <2>2, <2>3, <2>4 DEF OwnInv, Quiet
<1> QED BY <1>4, <1>6, <1>7, <1>8, <1>12 DEF Owned

(* Every step keeps the whole invariant, for the same entry point.         *)
DriverInv == EdgesHandled /\ CallsHandled /\ \E f \in Entries : Owned(f)

LEMMA DriverInvKept ==
  ASSUME Ownership, DriverInv, [PTANext]_ptaVars
  PROVE  DriverInv'
<1> PICK f \in Entries : Owned(f) BY DEF DriverInv
<1>1. Step /\ OwnInv(f)' BY OwnedStep
<1>2. RoundInv' BY RoundInvKept DEF Owned
<1>3. Inv' BY <1>1, NextInv DEF Owned
<1>4. EdgesHandled' BY <1>1, EdgesHandledInv DEF DriverInv, Owned
<1>5. CallsHandled' BY <1>1, CallsHandledInv DEF DriverInv, Owned
<1>6. Owned(f)' BY <1>1, <1>2, <1>3 DEF Owned
<1> QED BY <1>4, <1>5, <1>6 DEF DriverInv

(* Of a program in which bodies read their own nodes only, the driver and  *)
(* the solver keep the invariant of both.                                  *)
LEMMA DriverInvAlways == ASSUME Ownership PROVE PTASpec => []DriverInv
<1>1. PTAInit => DriverInv BY OwnedInit DEF DriverInv
<1>2. DriverInv /\ [PTANext]_ptaVars => DriverInv' BY DriverInvKept
<1> QED BY <1>1, <1>2, PTL DEF PTASpec

(* The contract between driver and solver: whatever the program, whichever *)
(* function is reached first and whichever call is resolved by which       *)
(* solve, an edge that the driver adds to a node with objects is queued    *)
(* for a full propagation (add_call_edge, add_fpag_edges).                 *)
THEOREM ContractCorrect == ASSUME Ownership PROVE PTASpec => []ContractKept
<1>1. DriverInv => ContractKept BY DEF DriverInv, Owned, OwnInv, AddedInv, ContractKept
<1> QED BY <1>1, DriverInvAlways, PTL

(* With the PAG that the driver builds, as with any other: what a handler  *)
(* has been through is complete or still ahead in its loop, the discipline *)
(* of the difference sets is kept, and each solve of each round returns a  *)
(* solution with all calls that it resolves reported.                      *)
THEOREM DriverSolves ==
  ASSUME Ownership PROVE PTASpec => [](Handled /\ DiffDisciplined /\ Complete)
<1>1. DriverInv => Inv /\ Handled BY DEF DriverInv, Owned, Handled
<1>2. DriverInv => Solved /\ CallsResolved
  BY <1>1, SolvedWhenHandled, ResolvedWhenHandled DEF DriverInv
<1>3. DriverInv => Handled /\ DiffDisciplined /\ Complete
  BY <1>1, <1>2 DEF Inv, DiffDisciplined, Complete
<1> QED BY <1>3, DriverInvAlways, PTL

(* Each step of the driver and the solver together is a step of the        *)
(* abstract inclusion-based analysis: it derives facts and edges by its    *)
(* rules, adds constraints between two solves, or changes nothing there.   *)
THEOREM DriverImplements ==
  ASSUME Ownership PROVE PTASpec => [][Constraints!Next]_(Constraints!vars)
<1>1. ASSUME DriverInv, DriverInv', [PTANext]_ptaVars
      PROVE  [Constraints!Next]_(Constraints!vars)
  <2> PICK f \in Entries : Owned(f) BY <1>1 DEF DriverInv
  <2>1. Step BY <1>1, OwnedStep
  <2>2. Inv BY DEF Owned
  <2>3. Inv' /\ EdgesHandled' BY <1>1 DEF DriverInv, Owned
  <2>4. Solved'
    <3>1. Inv' /\ EdgesHandled' => Solved' BY SolvedWhenHandled, PTL
    <3> QED BY <2>3, <3>1
  <2> QED BY <2>1, <2>2, <2>4, StepImplements
<1> QED BY <1>1, DriverInvAlways, PTL DEF PTASpec

-----------------------------------------------------------------------------
(* The edges and calls of the least solution, element by element.          *)
Passes(e, o) == <<e[1], e[2], o>> \notin Filtered
FieldAt(e, o) == Field[o, e[2]]
LoadEdge(e, o) == <<Field[o, e[2]], e[3]>>
StoreEdge(e, o) == <<e[1], Field[o, e[2]]>>
RefEdge(cs, o) == <<o, ClosureRef[cs, o]>>
HasMethod(cs, o) == DynCallee[cs, o] # None
MethodCall(cs, o) == <<cs, DynCallee[cs, o]>>
HasItem(o) == FnCallee[o] # None
ItemCall(cs, o) == <<cs, FnCallee[o]>>
HeldSite(cs, o) == <<o, Unpack[cs]>>

LEMMA CopiesSplit ==
  ASSUME NEW R, NEW e
  PROVE  e \in Copies(R) <=>
           \/ e \in EdgesOf(R, "direct") \cup EdgesOf(R, "offset")
           \/ \E c \in R.calls : c[2] \notin Unavailable /\ e \in CallFlow[c]
           \/ \E l \in EdgesOf(R, "load") : \E o \in R.pts[l[1]] : e = LoadEdge(l, o)
           \/ \E l \in EdgesOf(R, "store") : \E o \in R.pts[l[3]] : e = StoreEdge(l, o)
<1> DEFINE Loaded(l) == {LoadEdge(l, o) : o \in R.pts[l[1]]}
           Stored(l) == {StoreEdge(l, o) : o \in R.pts[l[3]]}
           calls == UNION {CallFlow[c] : c \in {x \in R.calls : x[2] \notin Unavailable}}
           load == UNION {Loaded(l) : l \in EdgesOf(R, "load")}
           store == UNION {Stored(l) : l \in EdgesOf(R, "store")}
<1>1. Copies(R) = EdgesOf(R, "direct") \cup EdgesOf(R, "offset") \cup calls \cup load \cup store
  BY Zenon DEF Copies, LoadEdge, StoreEdge
<1>2. e \in calls <=> \E c \in R.calls : c[2] \notin Unavailable /\ e \in CallFlow[c]
  BY Zenon
<1>3. /\ \A l : e \in Loaded(l) <=> \E o \in R.pts[l[1]] : e = LoadEdge(l, o)
      /\ \A l : e \in Stored(l) <=> \E o \in R.pts[l[3]] : e = StoreEdge(l, o)
  BY Zenon
<1> HIDE DEF Loaded, Stored
<1>4. /\ e \in load <=> \E l \in EdgesOf(R, "load") : e \in Loaded(l)
      /\ e \in store <=> \E l \in EdgesOf(R, "store") : e \in Stored(l)
  BY Zenon
<1> HIDE DEF calls, load, store
<1> QED BY <1>1, <1>2, <1>3, <1>4, Zenon

LEMMA FnptrSitesSplit ==
  ASSUME NEW R, NEW c
  PROVE  c \in FnptrSites(R) <=>
           \/ c \in SitesOf(R, "fnptr")
           \/ \E s \in SitesOf(R, "fntrait") : \E o \in R.pts[s[1]] \cap FnPtrObj :
                c = HeldSite(s[2], o)
<1> DEFINE Held(s) == {HeldSite(s[2], o) : o \in R.pts[s[1]] \cap FnPtrObj}
           held == UNION {Held(s) : s \in SitesOf(R, "fntrait")}
<1>1. FnptrSites(R) = SitesOf(R, "fnptr") \cup held BY Zenon DEF FnptrSites, HeldSite
<1>2. \A s : c \in Held(s) <=> \E o \in R.pts[s[1]] \cap FnPtrObj : c = HeldSite(s[2], o)
  BY Zenon
<1> HIDE DEF Held
<1>3. c \in held <=> \E s \in SitesOf(R, "fntrait") : c \in Held(s) BY Zenon
<1> HIDE DEF held
<1> QED BY <1>1, <1>2, <1>3, Zenon

LEMMA FnptrTargetsSplit ==
  ASSUME NEW R, NEW t
  PROVE  t \in FnptrTargets(R) <=>
           \E s \in FnptrSites(R) : \E o \in R.pts[s[1]] : HasItem(o) /\ t = <<s[2], o>>
<1> DEFINE Held(s) == {<<s[2], o>> : o \in {x \in R.pts[s[1]] : HasItem(x)}}
<1>1. FnptrTargets(R) = UNION {Held(s) : s \in FnptrSites(R)} BY Zenon DEF FnptrTargets, HasItem
<1>2. \A s : t \in Held(s) <=> \E o \in R.pts[s[1]] : HasItem(o) /\ t = <<s[2], o>>
  BY Zenon
<1> HIDE DEF Held
<1>3. t \in UNION {Held(s) : s \in FnptrSites(R)} <=> \E s \in FnptrSites(R) : t \in Held(s)
  BY Zenon
<1> QED BY <1>1, <1>2, <1>3, Zenon

LEMMA AddressesSplit ==
  ASSUME NEW R, NEW e
  PROVE  e \in Addresses(R) <=>
           \/ e \in EdgesOf(R, "addr")
           \/ \E s \in FnptrSites(R) : \E o \in R.pts[s[1]] : HasItem(o) /\ e = RefEdge(s[2], o)
<1> DEFINE ref(t) == <<t[2], ClosureRef[t]>>
<1>1. Addresses(R) = EdgesOf(R, "addr") \cup {ref(t) : t \in FnptrTargets(R)}
  BY Zenon DEF Addresses
<1>2. ASSUME NEW cs, NEW o, NEW t, t = <<cs, o>> PROVE ref(t) = RefEdge(cs, o)
  <2>1. t[2] = o BY <1>2
  <2> QED BY <1>2, <2>1 DEF RefEdge
<1> HIDE DEF ref
<1>3. e \in {ref(t) : t \in FnptrTargets(R)} <=> \E t \in FnptrTargets(R) : e = ref(t)
  BY Zenon
<1>4. ASSUME NEW t \in FnptrTargets(R), e = ref(t)
      PROVE  \E s \in FnptrSites(R) : \E o \in R.pts[s[1]] : HasItem(o) /\ e = RefEdge(s[2], o)
  <2>1. PICK s \in FnptrSites(R) : \E o \in R.pts[s[1]] : HasItem(o) /\ t = <<s[2], o>>
    BY FnptrTargetsSplit
  <2>2. PICK o \in R.pts[s[1]] : HasItem(o) /\ t = <<s[2], o>> BY <2>1
  <2>3. e = RefEdge(s[2], o) BY <1>2, <1>4, <2>2
  <2> QED BY <2>2, <2>3
<1>5. ASSUME NEW s \in FnptrSites(R), NEW o \in R.pts[s[1]], HasItem(o), e = RefEdge(s[2], o)
      PROVE  \E t \in FnptrTargets(R) : e = ref(t)
  <2>1. PICK t : t = <<s[2], o>> OBVIOUS
  <2>2. t \in FnptrTargets(R) BY <1>5, <2>1, FnptrTargetsSplit
  <2> QED BY <1>2, <1>5, <2>1, <2>2
<1> QED BY <1>1, <1>3, <1>4, <1>5, Zenon

(* A call through a trait object, one for each object.                     *)
LEMMA TraitCallsSplit ==
  ASSUME NEW cs, NEW S, NEW c
  PROVE  c \in TraitCalls(cs, S) <=> \E o \in S : HasMethod(cs, o) /\ c = MethodCall(cs, o)
<1> DEFINE inst(o) == <<cs, o, DynCallee[cs, o]>>
           pair(i) == <<i[1], i[3]>>
           D == {inst(o) : o \in {x \in S : HasMethod(cs, x)}}
<1>1. TraitCalls(cs, S) = {pair(i) : i \in D} BY Zenon DEF TraitCalls, Devirtualized, HasMethod
<1>2. \A o : pair(inst(o)) = MethodCall(cs, o) BY DEF MethodCall
<1> HIDE DEF inst, pair
<1>3. c \in {pair(i) : i \in D} <=> \E i \in D : c = pair(i) BY Zenon
<1>4. \A i : i \in D <=> \E o \in S : HasMethod(cs, o) /\ i = inst(o) BY Zenon
<1> HIDE DEF D
<1> QED BY <1>1, <1>2, <1>3, <1>4

LEMMA FntraitCallsSplit ==
  ASSUME NEW cs, NEW S, NEW c
  PROVE  c \in FntraitCalls(cs, S) <=>
           \E o \in S : \/ HasItem(o) /\ c = ItemCall(Unpack[cs], o)
                        \/ ~HasItem(o) /\ HasMethod(cs, o) /\ c = MethodCall(cs, o)
<1> DEFINE T == {o \in S : ~HasItem(o)}
           items == {ItemCall(Unpack[cs], o) : o \in {x \in S : HasItem(x)}}
<1>1. FntraitCalls(cs, S) = items \cup TraitCalls(cs, T)
  <2>1. {o \in S : FnCallee[o] = None} = T BY DEF HasItem
  <2>2. FntraitCalls(cs, S) = items \cup TraitCalls(cs, {o \in S : FnCallee[o] = None})
    BY Zenon DEF FntraitCalls, HasItem, ItemCall
  <2> QED BY <2>1, <2>2, Zenon
<1>2. c \in items <=> \E o \in S : HasItem(o) /\ c = ItemCall(Unpack[cs], o) BY Zenon
<1>3. \A o : o \in T <=> o \in S /\ ~HasItem(o) OBVIOUS
<1> HIDE DEF T, items
<1>4. c \in TraitCalls(cs, T) <=> \E o \in T : HasMethod(cs, o) /\ c = MethodCall(cs, o)
  BY TraitCallsSplit
<1> QED BY <1>1, <1>2, <1>3, <1>4, Zenon

LEMMA CallsOfSplit ==
  ASSUME NEW R, NEW c
  PROVE  c \in CallsOf(R) <=>
           \/ \E g \in Analysed(R) : c \in StaticCalls[g]
           \/ \E s \in FnptrSites(R) : \E o \in R.pts[s[1]] : HasItem(o) /\ c = ItemCall(s[2], o)
           \/ \E s \in SitesOf(R, "dispatch") : \E o \in R.pts[s[1]] :
                HasMethod(s[2], o) /\ c = MethodCall(s[2], o)
           \/ \E s \in SitesOf(R, "fntrait") : \E o \in R.pts[s[1]] \ FnPtrObj :
                \/ HasItem(o) /\ c = ItemCall(Unpack[s[2]], o)
                \/ ~HasItem(o) /\ HasMethod(s[2], o) /\ c = MethodCall(s[2], o)
<1> DEFINE static == UNION {StaticCalls[g] : g \in Analysed(R)}
           item(t) == <<t[1], FnCallee[t[2]]>>
           fnptr == {item(t) : t \in FnptrTargets(R)}
           dispatch == UNION {TraitCalls(s[2], R.pts[s[1]]) : s \in SitesOf(R, "dispatch")}
           fntrait == UNION {FntraitCalls(s[2], R.pts[s[1]] \ FnPtrObj) : s \in SitesOf(R, "fntrait")}
<1>1. CallsOf(R) = static \cup fnptr \cup dispatch \cup fntrait BY Zenon DEF CallsOf
<1>2. c \in static <=> \E g \in Analysed(R) : c \in StaticCalls[g] BY Zenon
<1>3. c \in dispatch <=> \E s \in SitesOf(R, "dispatch") : c \in TraitCalls(s[2], R.pts[s[1]])
  BY Zenon
<1>4. c \in fntrait <=>
        \E s \in SitesOf(R, "fntrait") : c \in FntraitCalls(s[2], R.pts[s[1]] \ FnPtrObj)
  BY Zenon
<1>5. ASSUME NEW cs, NEW o, NEW t, t = <<cs, o>> PROVE item(t) = ItemCall(cs, o)
  BY <1>5 DEF ItemCall
<1> HIDE DEF item
<1>6. c \in fnptr <=> \E t \in FnptrTargets(R) : c = item(t) BY Zenon
<1> HIDE DEF static, fnptr, dispatch, fntrait
<1>7. c \in fnptr <=>
        \E s \in FnptrSites(R) : \E o \in R.pts[s[1]] : HasItem(o) /\ c = ItemCall(s[2], o)
  <2>1. ASSUME NEW t \in FnptrTargets(R), c = item(t)
        PROVE  \E s \in FnptrSites(R) : \E o \in R.pts[s[1]] : HasItem(o) /\ c = ItemCall(s[2], o)
    <3>1. PICK s \in FnptrSites(R) : \E o \in R.pts[s[1]] : HasItem(o) /\ t = <<s[2], o>>
      BY FnptrTargetsSplit
    <3>2. PICK o \in R.pts[s[1]] : HasItem(o) /\ t = <<s[2], o>> BY <3>1
    <3>3. c = ItemCall(s[2], o) BY <1>5, <2>1, <3>2
    <3> QED BY <3>2, <3>3
  <2>2. ASSUME NEW s \in FnptrSites(R), NEW o \in R.pts[s[1]], HasItem(o), c = ItemCall(s[2], o)
        PROVE  \E t \in FnptrTargets(R) : c = item(t)
    <3>1. PICK t : t = <<s[2], o>> OBVIOUS
    <3>2. t \in FnptrTargets(R) BY <2>2, <3>1, FnptrTargetsSplit
    <3> QED BY <1>5, <2>2, <3>1, <3>2
  <2> QED BY <1>6, <2>1, <2>2, Zenon
<1>8. c \in dispatch <=> \E s \in SitesOf(R, "dispatch") : \E o \in R.pts[s[1]] :
                HasMethod(s[2], o) /\ c = MethodCall(s[2], o)
  BY <1>3, TraitCallsSplit
<1>9. c \in fntrait <=> \E s \in SitesOf(R, "fntrait") : \E o \in R.pts[s[1]] \ FnPtrObj :
                \/ HasItem(o) /\ c = ItemCall(Unpack[s[2]], o)
                \/ ~HasItem(o) /\ HasMethod(s[2], o) /\ c = MethodCall(s[2], o)
  <2>1. ASSUME NEW s
        PROVE  c \in FntraitCalls(s[2], R.pts[s[1]] \ FnPtrObj) <=>
                 \E o \in R.pts[s[1]] \ FnPtrObj :
                   \/ HasItem(o) /\ c = ItemCall(Unpack[s[2]], o)
                   \/ ~HasItem(o) /\ HasMethod(s[2], o) /\ c = MethodCall(s[2], o)
    BY FntraitCallsSplit
  <2> QED BY <1>4, <2>1, Zenon
<1>10. c \in CallsOf(R) <=> c \in static \/ c \in fnptr \/ c \in dispatch \/ c \in fntrait
  BY <1>1, Zenon
<1> QED BY <1>2, <1>7, <1>8, <1>9, <1>10, Zenon

(* What one application of the rules gives, part by part.                  *)
FactGiven(R, v, o) ==
  \/ \E e \in Addresses(R) : e[2] = v /\ o = e[1]
  \/ \E e \in Copies(R) : e[2] = v /\ o \in R.pts[e[1]] /\ Passes(e, o)
  \/ \E e \in EdgesOf(R, "gep") : e[3] = v /\ \E x \in R.pts[e[1]] : o = FieldAt(e, x)

LEMMA RulesGive ==
  ASSUME NEW R
  PROVE  /\ ApplyRules(R).funcs = R.funcs \cup {c[2] : c \in R.calls \cup SpecialCallsOf(R)}
         /\ ApplyRules(R).left = R.left
         /\ ApplyRules(R).calls = CallsOf(R)
         /\ \A v \in Node : \A o : o \in ApplyRules(R).pts[v] <=> FactGiven(R, v, o)
<1> DEFINE funcs == R.funcs \cup {c[2] : c \in R.calls \cup SpecialCallsOf(R)}
           addr(v) == {e[1] : e \in {x \in Addresses(R) : x[2] = v}}
           copy(v) == UNION {Flow(e[1], v, R.pts[e[1]]) : e \in {x \in Copies(R) : x[2] = v}}
           Fields(e) == {FieldAt(e, o) : o \in R.pts[e[1]]}
           gep(v) == UNION {Fields(e) : e \in {x \in EdgesOf(R, "gep") : x[3] = v}}
           pts == [v \in Node |-> addr(v) \cup copy(v) \cup gep(v)]
<1>1. ApplyRules(R) = [funcs |-> funcs, left |-> R.left, calls |-> CallsOf(R), pts |-> pts]
  BY Zenon DEF ApplyRules, FieldAt
<1>2. \A v, o : o \in addr(v) <=> \E e \in Addresses(R) : e[2] = v /\ o = e[1]
  BY Zenon
<1>3. \A v, o : o \in copy(v) <=>
        \E e \in Copies(R) : e[2] = v /\ o \in R.pts[e[1]] /\ Passes(e, o)
  <2> DEFINE Into(e, v) == Flow(e[1], v, R.pts[e[1]])
  <2>1. \A v : copy(v) = UNION {Into(e, v) : e \in {x \in Copies(R) : x[2] = v}}
    OBVIOUS
  <2>2. ASSUME NEW e, NEW o PROVE o \in Into(e, e[2]) <=> o \in R.pts[e[1]] /\ Passes(e, o)
    BY Zenon DEF Flow, Passes
  <2> HIDE DEF copy, Into
  <2>3. \A v, o : o \in copy(v) <=> \E e \in Copies(R) : e[2] = v /\ o \in Into(e, v)
    BY <2>1, Zenon
  <2> QED BY <2>2, <2>3
<1>4. \A v, o : o \in gep(v) <=>
        \E e \in EdgesOf(R, "gep") : e[3] = v /\ \E x \in R.pts[e[1]] : o = FieldAt(e, x)
  <2>1. \A e, o : o \in Fields(e) <=> \E x \in R.pts[e[1]] : o = FieldAt(e, x) BY Zenon
  <2> HIDE DEF Fields
  <2>2. \A v, o : o \in gep(v) <=> \E e \in EdgesOf(R, "gep") : e[3] = v /\ o \in Fields(e)
    BY Zenon
  <2> HIDE DEF gep
  <2> QED BY <2>1, <2>2
<1> HIDE DEF addr, copy, gep, funcs
<1>5. \A v \in Node : pts[v] = addr(v) \cup copy(v) \cup gep(v) OBVIOUS
<1> HIDE DEF pts
<1>6. /\ ApplyRules(R).funcs = funcs /\ ApplyRules(R).left = R.left
      /\ ApplyRules(R).calls = CallsOf(R) /\ ApplyRules(R).pts = pts
  BY <1>1
<1>7. \A v \in Node : \A o : o \in ApplyRules(R).pts[v] <=>
        o \in addr(v) \/ o \in copy(v) \/ o \in gep(v)
  BY <1>5, <1>6, Zenon
<1>8. ASSUME NEW v \in Node, NEW o PROVE o \in ApplyRules(R).pts[v] <=> FactGiven(R, v, o)
  <2>1. o \in ApplyRules(R).pts[v] <=> o \in addr(v) \/ o \in copy(v) \/ o \in gep(v)
    BY <1>7
  <2>2. o \in addr(v) <=> \E e \in Addresses(R) : e[2] = v /\ o = e[1]
    BY <1>2
  <2>3. o \in copy(v) <=> \E e \in Copies(R) : e[2] = v /\ o \in R.pts[e[1]] /\ Passes(e, o)
    BY <1>3
  <2>4. o \in gep(v) <=>
          \E e \in EdgesOf(R, "gep") : e[3] = v /\ \E x \in R.pts[e[1]] : o = FieldAt(e, x)
    BY <1>4
  <2> QED BY <2>1, <2>2, <2>3, <2>4, Zenon DEF FactGiven
<1> QED BY <1>6, <1>8 DEF funcs

(* Every set of numbers that is not empty has a least one.                 *)
LEMMA LeastNumber ==
  ASSUME NEW T \in SUBSET Nat, T # {}
  PROVE  \E x \in T : \A y \in T : x <= y
<1> DEFINE Less == {p \in Nat \X Nat : p[1] < p[2]}
<1>1. IsWellFoundedOn(Less, Nat)
  BY NatLessThanWellFounded, Zenon DEF OpToRel
<1> HIDE DEF Less
<1>2. PICK x \in T : \A y \in T : <<y, x>> \notin Less
  BY <1>1, WFMin
<1>3. \A y \in T : ~(y < x)
  BY <1>2 DEF Less
<1> QED BY <1>3

(* Induction over a set of numbers.                                        *)
LEMMA Induct ==
  ASSUME NEW S, 0 \in S, \A n \in Nat : n \in S => n + 1 \in S
  PROVE  Nat \subseteq S
<1> DEFINE T == Nat \ S
<1>1. ASSUME T # {} PROVE FALSE
  <2>1. PICK x \in T : \A y \in T : x <= y
    BY <1>1, LeastNumber
  <2>2. x # 0 /\ x - 1 \in Nat
    OBVIOUS
  <2>3. x - 1 \in S
    BY <2>1, <2>2
  <2> QED BY <2>1, <2>2, <2>3
<1> QED BY <1>1

(* The iteration is well defined: what its equation says holds of it.      *)
LEMMA RulesIterate ==
  ASSUME NEW main, NEW S
  PROVE  \E after : /\ after = [n \in Nat |-> IF n = 0 THEN Start(main, S) ELSE ApplyRules(after[n - 1])]
                    /\ Iterated(main, S) = after[Rounds]
<1> DEFINE s == Start(main, S)
           R(x) == ApplyRules(x)
           Upto(f, n) == f = [i \in 0 .. n |-> IF i = 0 THEN s ELSE R(f[i - 1])]
           Whole(f) == f = [n \in Nat |-> IF n = 0 THEN s ELSE R(f[n - 1])]
<1>1. Iterated(main, S) = (CHOOSE f : Whole(f))[Rounds]
  BY Zenon DEF Iterated
<1> HIDE DEF s, R
<1>2. \A n \in Nat : \E f : Upto(f, n)
  <2> DEFINE N == {n \in Nat : \E f : Upto(f, n)}
  <2>1. 0 \in N
    <3>1. Upto([i \in 0 .. 0 |-> s], 0)
      OBVIOUS
    <3> QED BY <3>1
  <2>2. ASSUME NEW n \in Nat, n \in N PROVE n + 1 \in N
    <3>1. PICK f : Upto(f, n)
      BY <2>2
    <3> DEFINE g == [i \in 0 .. n + 1 |-> IF i = n + 1 THEN R(f[n]) ELSE f[i]]
    <3>2. Upto(g, n + 1)
      <4>1. ASSUME NEW i \in 0 .. n + 1
            PROVE  g[i] = IF i = 0 THEN s ELSE R(g[i - 1])
        <5>1. CASE i = n + 1
          BY <5>1
        <5>2. CASE i # n + 1
          <6>1. i \in 0 .. n /\ (i # 0 => i - 1 \in 0 .. n + 1 /\ i - 1 # n + 1)
            BY <5>2
          <6>2. f[i] = IF i = 0 THEN s ELSE R(f[i - 1])
            BY <3>1, <6>1
          <6> QED BY <5>2, <6>1, <6>2
        <5> QED BY <5>1, <5>2
      <4> QED BY <4>1
    <3> HIDE DEF g, Upto
    <3> QED BY <3>2
  <2> HIDE DEF N
  <2>3. Nat \subseteq N
    BY <2>1, <2>2, Induct
  <2> QED BY <2>3 DEF N
<1>3. ASSUME NEW n \in Nat, NEW f, NEW g, Upto(f, n), Upto(g, n + 1)
      PROVE  f[n] = g[n]
  <2> DEFINE N == {i \in Nat : i <= n => f[i] = g[i]}
  <2>1. 0 \in N
    BY <1>3
  <2>2. ASSUME NEW i \in Nat, i \in N PROVE i + 1 \in N
    <3>1. CASE i + 1 <= n
      <4>1. f[i + 1] = R(f[i]) /\ g[i + 1] = R(g[i])
        <5>1. i + 1 \in 0 .. n /\ i + 1 \in 0 .. n + 1 /\ i + 1 # 0 /\ (i + 1) - 1 = i
          BY <3>1
        <5> QED BY <1>3, <5>1
      <4> QED BY <2>2, <3>1, <4>1
    <3> QED BY <3>1
  <2> HIDE DEF N
  <2>3. n \in N
    BY <2>1, <2>2, Induct
  <2> QED BY <2>3 DEF N
<1> DEFINE a(n) == CHOOSE f : Upto(f, n)
           after == [n \in Nat |-> a(n)[n]]
<1>4. \A n \in Nat : Upto(a(n), n)
  BY <1>2
<1>5. Whole(after)
  <2>1. ASSUME NEW n \in Nat
        PROVE  a(n)[n] = IF n = 0 THEN s ELSE R(after[n - 1])
    <3>1. n \in 0 .. n /\ Upto(a(n), n)
      BY <1>4
    <3>2. CASE n = 0
      BY <3>1, <3>2
    <3>3. CASE n # 0
      <4>1. n - 1 \in Nat /\ (n - 1) + 1 = n
        BY <3>3
      <4>2. Upto(a(n - 1), n - 1)
        BY <1>4, <4>1
      <4>3. a(n - 1)[n - 1] = a(n)[n - 1]
        BY <1>3, <3>1, <4>1, <4>2
      <4>4. a(n)[n] = R(a(n)[n - 1])
        BY <3>1, <3>3
      <4>5. after[n - 1] = a(n - 1)[n - 1]
        BY <4>1
      <4> QED BY <3>3, <4>3, <4>4, <4>5
    <3> QED BY <3>2, <3>3
  <2> HIDE DEF a
  <2> QED BY <2>1
<1>6. Whole(CHOOSE f : Whole(f))
  <2> HIDE DEF after
  <2>1. \E f : Whole(f)
    BY <1>5
  <2> HIDE DEF Whole
  <2> QED BY <2>1
<1> QED BY <1>1, <1>6 DEF s, R

-----------------------------------------------------------------------------
(* A solution has functions, calls and nodes of the program.               *)
SolutionTyped(R) ==
  /\ R.funcs \subseteq Func /\ R.left \subseteq Special /\ R.calls \subseteq Calls
  /\ \A v \in Node : R.pts[v] \subseteq Node

(* The edges and call sites of a solution are edges and sites of bodies.   *)
LEMMA BodiesTyped ==
  ASSUME NEW R, SolutionTyped(R)
  PROVE  /\ Analysed(R) \subseteq Func /\ PagFuncs(R) \subseteq Body
         /\ \A h \in PagFuncs(R) : Deps[h] \subseteq Body
<1>1. Analysed(R) \subseteq Func /\ Analysed(R) \subseteq Body
  BY DEF Analysed, SolutionTyped, Body
<1>2. \A g \in Body : Deps[g] \subseteq Body BY DepsAssumption DEF Body
<1>3. PagFuncs(R) \subseteq Body BY <1>1, <1>2 DEF PagFuncs
<1> QED BY <1>1, <1>2, <1>3

LEMMA EdgeTypes ==
  ASSUME NEW R, SolutionTyped(R)
  PROVE  /\ \A e \in EdgesOf(R, "addr") \cup EdgesOf(R, "direct") \cup EdgesOf(R, "offset") :
              e[1] \in Node /\ e[2] \in Node
         /\ \A e \in EdgesOf(R, "load") \cup EdgesOf(R, "store") \cup EdgesOf(R, "gep") :
              e[1] \in Node /\ e[2] \in Proj /\ e[3] \in Node
         /\ \A s \in SitesOf(R, "dispatch") \cup SitesOf(R, "fnptr") \cup SitesOf(R, "fntrait") :
              s[1] \in Node /\ s[2] \in CallSite
<1>1. \A g \in Body : FuncPag[g] \in Batch BY ProgramAssumption
<1>2. ASSUME NEW k, NEW e \in EdgesOf(R, k) PROVE \E g \in Body : e \in FuncPag[g][k]
  BY <1>2, BodiesTyped DEF EdgesOf
<1>3. ASSUME NEW k, NEW s \in SitesOf(R, k) PROVE \E g \in Body : s \in FuncPag[g][k]
  BY <1>3, BodiesTyped DEF SitesOf, Body
<1>4. ASSUME NEW g \in Body
      PROVE  /\ \A e \in FuncPag[g].addr \cup FuncPag[g].direct \cup FuncPag[g].offset :
                  e[1] \in Node /\ e[2] \in Node
             /\ \A e \in FuncPag[g].load \cup FuncPag[g].store \cup FuncPag[g].gep :
                  e[1] \in Node /\ e[2] \in Proj /\ e[3] \in Node
             /\ \A s \in FuncPag[g].dispatch \cup FuncPag[g].fnptr \cup FuncPag[g].fntrait :
                  s[1] \in Node /\ s[2] \in CallSite
  BY <1>1 DEF Batch
<1>5. ASSUME NEW e \in EdgesOf(R, "addr") \cup EdgesOf(R, "direct") \cup EdgesOf(R, "offset")
      PROVE  e[1] \in Node /\ e[2] \in Node
  <2>1. PICK g \in Body : e \in FuncPag[g].addr \cup FuncPag[g].direct \cup FuncPag[g].offset
    BY <1>2
  <2> QED BY <1>4, <2>1
<1>6. ASSUME NEW e \in EdgesOf(R, "load") \cup EdgesOf(R, "store") \cup EdgesOf(R, "gep")
      PROVE  e[1] \in Node /\ e[2] \in Proj /\ e[3] \in Node
  <2>1. PICK g \in Body : e \in FuncPag[g].load \cup FuncPag[g].store \cup FuncPag[g].gep
    BY <1>2
  <2> QED BY <1>4, <2>1
<1>7. ASSUME NEW s \in SitesOf(R, "dispatch") \cup SitesOf(R, "fnptr") \cup SitesOf(R, "fntrait")
      PROVE  s[1] \in Node /\ s[2] \in CallSite
  <2>1. PICK g \in Body : s \in FuncPag[g].dispatch \cup FuncPag[g].fnptr \cup FuncPag[g].fntrait
    BY <1>3
  <2> QED BY <1>4, <2>1
<1> QED BY <1>5, <1>6, <1>7

LEMMA FnptrSiteTypes ==
  ASSUME NEW R, SolutionTyped(R), NEW s \in FnptrSites(R)
  PROVE  s[1] \in Node /\ s[2] \in CallSite
<1>1. CASE s \in SitesOf(R, "fnptr") BY <1>1, EdgeTypes
<1>2. CASE \E t \in SitesOf(R, "fntrait") : \E o \in R.pts[t[1]] \cap FnPtrObj :
             s = HeldSite(t[2], o)
  <2>1. PICK t \in SitesOf(R, "fntrait") : \E o \in R.pts[t[1]] \cap FnPtrObj : s = HeldSite(t[2], o)
    BY <1>2
  <2>2. PICK o \in R.pts[t[1]] \cap FnPtrObj : s = HeldSite(t[2], o) BY <2>1
  <2>3. t[1] \in Node /\ t[2] \in CallSite BY EdgeTypes
  <2>4. o \in Node BY <2>3 DEF SolutionTyped
  <2>5. s[1] = o /\ s[2] = Unpack[t[2]] BY <2>2 DEF HeldSite
  <2> QED BY <2>3, <2>4, <2>5, CallAssumption
<1> QED BY <1>1, <1>2, FnptrSitesSplit

(* What a pointer or a trait object is called with is a function of the    *)
(* program.                                                                *)
LEMMA TargetTypes ==
  ASSUME NEW cs \in CallSite, NEW o \in Node
  PROVE  /\ HasItem(o) => ItemCall(cs, o) \in Calls
         /\ HasMethod(cs, o) => MethodCall(cs, o) \in Calls
<1>1. PICK x \in CallSite \X Node : x = <<cs, o>> OBVIOUS
<1>2. DynCallee[x] \in Func \cup {None} /\ FnCallee[o] \in Func \cup {None} BY CallAssumption
<1>4. PICK d : d = DynCallee[cs, o] OBVIOUS
<1>5. d = DynCallee[x] BY <1>1, <1>4
<1>6. MethodCall(cs, o) = <<cs, d>> /\ (HasMethod(cs, o) <=> d # None)
  BY <1>4 DEF MethodCall, HasMethod
<1>7. PICK g : g = FnCallee[o] OBVIOUS
<1>8. ItemCall(cs, o) = <<cs, g>> /\ (HasItem(o) <=> g # None)
  BY <1>7 DEF ItemCall, HasItem
<1> QED BY <1>2, <1>5, <1>6, <1>7, <1>8 DEF Calls

LEMMA CallsTyped ==
  ASSUME NEW R, SolutionTyped(R), NEW c \in CallsOf(R)
  PROVE  c \in Calls
<1>1. CASE \E g \in Analysed(R) : c \in StaticCalls[g]
  <2>1. PICK g \in Analysed(R) : c \in StaticCalls[g] BY <1>1
  <2>2. g \in Func BY BodiesTyped
  <2>3. StaticCalls[g] \in SUBSET Calls BY <2>2, ProgramAssumption
  <2> QED BY <2>1, <2>2, <2>3
<1>2. CASE \E s \in FnptrSites(R) : \E o \in R.pts[s[1]] : HasItem(o) /\ c = ItemCall(s[2], o)
  <2>1. PICK s \in FnptrSites(R) : \E o \in R.pts[s[1]] : HasItem(o) /\ c = ItemCall(s[2], o)
    BY <1>2
  <2>2. PICK o \in R.pts[s[1]] : HasItem(o) /\ c = ItemCall(s[2], o) BY <2>1
  <2>3. s[1] \in Node /\ s[2] \in CallSite BY FnptrSiteTypes
  <2>4. o \in Node BY <2>3 DEF SolutionTyped
  <2> QED BY <2>2, <2>3, <2>4, TargetTypes
<1>3. CASE \E s \in SitesOf(R, "dispatch") : \E o \in R.pts[s[1]] :
             HasMethod(s[2], o) /\ c = MethodCall(s[2], o)
  <2>1. PICK s \in SitesOf(R, "dispatch") : \E o \in R.pts[s[1]] :
             HasMethod(s[2], o) /\ c = MethodCall(s[2], o)
    BY <1>3
  <2>2. PICK o \in R.pts[s[1]] : HasMethod(s[2], o) /\ c = MethodCall(s[2], o) BY <2>1
  <2>3. s[1] \in Node /\ s[2] \in CallSite BY EdgeTypes
  <2>4. o \in Node BY <2>3 DEF SolutionTyped
  <2> QED BY <2>2, <2>3, <2>4, TargetTypes
<1>4. CASE \E s \in SitesOf(R, "fntrait") : \E o \in R.pts[s[1]] \ FnPtrObj :
             \/ HasItem(o) /\ c = ItemCall(Unpack[s[2]], o)
             \/ ~HasItem(o) /\ HasMethod(s[2], o) /\ c = MethodCall(s[2], o)
  <2>1. PICK s \in SitesOf(R, "fntrait") : \E o \in R.pts[s[1]] \ FnPtrObj :
             \/ HasItem(o) /\ c = ItemCall(Unpack[s[2]], o)
             \/ ~HasItem(o) /\ HasMethod(s[2], o) /\ c = MethodCall(s[2], o)
    BY <1>4
  <2>2. PICK o \in R.pts[s[1]] : \/ HasItem(o) /\ c = ItemCall(Unpack[s[2]], o)
                                 \/ ~HasItem(o) /\ HasMethod(s[2], o) /\ c = MethodCall(s[2], o)
    BY <2>1
  <2>3. s[1] \in Node /\ s[2] \in CallSite BY EdgeTypes
  <2>4. o \in Node BY <2>3 DEF SolutionTyped
  <2>5. Unpack[s[2]] \in CallSite BY <2>3, CallAssumption
  <2> QED BY <2>2, <2>3, <2>4, <2>5, TargetTypes
<1> QED BY <1>1, <1>2, <1>3, <1>4, CallsOfSplit

LEMMA SpecialCallsTyped ==
  ASSUME NEW R, SolutionTyped(R), NEW c \in SpecialCallsOf(R)
  PROVE  c \in Calls
<1>1. PICK g \in Analysed(R) : c \in SpecialCalls[g] BY DEF SpecialCallsOf
<1>2. g \in Body BY BodiesTyped DEF Body
<1> QED BY <1>1, <1>2, ProgramAssumption

(* Copies, loads and stores included, lead from nodes.                     *)
LEMMA CopyTypes ==
  ASSUME NEW R, SolutionTyped(R), NEW e \in Copies(R)
  PROVE  e[1] \in Node
<1>1. CASE e \in EdgesOf(R, "direct") \cup EdgesOf(R, "offset") BY <1>1, EdgeTypes
<1>2. CASE \E c \in R.calls : c[2] \notin Unavailable /\ e \in CallFlow[c]
  <2>1. PICK c \in R.calls : e \in CallFlow[c] BY <1>2
  <2>2. c \in Calls BY DEF SolutionTyped
  <2>3. CallFlow[c] \in SUBSET (Node \X Node) BY <2>2, ProgramAssumption
  <2> QED BY <2>1, <2>3
<1>3. CASE \E l \in EdgesOf(R, "load") : \E o \in R.pts[l[1]] : e = LoadEdge(l, o)
  <2>1. PICK l \in EdgesOf(R, "load") : \E o \in R.pts[l[1]] : e = LoadEdge(l, o) BY <1>3
  <2>2. PICK o \in R.pts[l[1]] : e = LoadEdge(l, o) BY <2>1
  <2>3. l[1] \in Node /\ l[2] \in Proj BY EdgeTypes
  <2>4. o \in Node BY <2>3 DEF SolutionTyped
  <2>5. e[1] = Field[o, l[2]] BY <2>2 DEF LoadEdge
  <2> QED BY <2>3, <2>4, <2>5, NodeAssumption
<1>4. CASE \E l \in EdgesOf(R, "store") : \E o \in R.pts[l[3]] : e = StoreEdge(l, o)
  <2>1. PICK l \in EdgesOf(R, "store") : \E o \in R.pts[l[3]] : e = StoreEdge(l, o) BY <1>4
  <2>2. PICK o \in R.pts[l[3]] : e = StoreEdge(l, o) BY <2>1
  <2>3. e[1] = l[1] BY <2>2 DEF StoreEdge
  <2> QED BY <2>3, EdgeTypes
<1> QED BY <1>1, <1>2, <1>3, <1>4, CopiesSplit

LEMMA RulesTyped ==
  ASSUME NEW R, SolutionTyped(R)
  PROVE  SolutionTyped(ApplyRules(R))
<1>1. ASSUME NEW c \in R.calls \cup SpecialCallsOf(R) PROVE c[2] \in Func
  <2>1. c \in Calls BY SpecialCallsTyped DEF SolutionTyped
  <2> QED BY <2>1 DEF Calls
<1>2. ApplyRules(R).funcs \subseteq Func
  <2>1. ApplyRules(R).funcs = R.funcs \cup {c[2] : c \in R.calls \cup SpecialCallsOf(R)} BY RulesGive
  <2> QED BY <1>1, <2>1 DEF SolutionTyped
<1>3. ApplyRules(R).left \subseteq Special BY RulesGive DEF SolutionTyped
<1>4. ApplyRules(R).calls \subseteq Calls BY RulesGive, CallsTyped
<1>5. ASSUME NEW v \in Node, NEW o \in ApplyRules(R).pts[v] PROVE o \in Node
  <2>1. FactGiven(R, v, o) BY RulesGive
  <2>2. CASE \E e \in Addresses(R) : e[2] = v /\ o = e[1]
    <3>1. PICK e \in Addresses(R) : o = e[1] BY <2>2
    <3>2. CASE e \in EdgesOf(R, "addr") BY <3>1, <3>2, EdgeTypes
    <3>3. CASE \E s \in FnptrSites(R) : \E x \in R.pts[s[1]] : HasItem(x) /\ e = RefEdge(s[2], x)
      <4>1. PICK s \in FnptrSites(R) : \E x \in R.pts[s[1]] : e = RefEdge(s[2], x) BY <3>3
      <4>2. PICK x \in R.pts[s[1]] : e = RefEdge(s[2], x) BY <4>1
      <4>3. e[1] = x BY <4>2 DEF RefEdge
      <4>4. s[1] \in Node BY FnptrSiteTypes
      <4> QED BY <3>1, <4>3, <4>4 DEF SolutionTyped
    <3> QED BY <3>2, <3>3, AddressesSplit
  <2>3. CASE \E e \in Copies(R) : e[2] = v /\ o \in R.pts[e[1]] /\ Passes(e, o)
    BY <2>3, CopyTypes DEF SolutionTyped
  <2>4. CASE \E e \in EdgesOf(R, "gep") : e[3] = v /\ \E x \in R.pts[e[1]] : o = FieldAt(e, x)
    <3>1. PICK e \in EdgesOf(R, "gep") : \E x \in R.pts[e[1]] : o = FieldAt(e, x) BY <2>4
    <3>2. PICK x \in R.pts[e[1]] : o = FieldAt(e, x) BY <3>1
    <3>3. e[1] \in Node /\ e[2] \in Proj BY EdgeTypes
    <3>4. x \in Node BY <3>3 DEF SolutionTyped
    <3> QED BY <3>2, <3>3, <3>4, NodeAssumption DEF FieldAt
  <2> QED BY <2>1, <2>2, <2>3, <2>4 DEF FactGiven
<1> QED BY <1>2, <1>3, <1>4, <1>5 DEF SolutionTyped

(* The least solution is one: its rules give nothing that it does not have.*)
LEMMA LeastSolves ==
  ASSUME NEW main \in Entries, NEW S \in SUBSET Special
  PROVE  LET R == LeastSolution[main][S]
         IN /\ SolutionTyped(R) /\ main \in R.funcs /\ R.left = S
            /\ \A c \in R.calls \cup SpecialCallsOf(R) : c[2] \in R.funcs
            /\ R.calls = CallsOf(R)
            /\ \A v \in Node : \A o : o \in R.pts[v] <=> FactGiven(R, v, o)
<1> DEFINE R == LeastSolution[main][S]
<1>1. ApplyRules(R) = R BY RoundsSuffice
<1>2. SolutionTyped(R) /\ main \in R.funcs /\ R.left = S
  <2>1. PICK after : /\ after = [n \in Nat |-> IF n = 0 THEN Start(main, S) ELSE ApplyRules(after[n - 1])]
                     /\ Iterated(main, S) = after[Rounds]
    BY RulesIterate
  <2> DEFINE N == {n \in Nat : SolutionTyped(after[n]) /\ main \in after[n].funcs /\ after[n].left = S}
  <2>2. 0 \in N
    <3>1. after[0] = Start(main, S) BY <2>1, Zenon
    <3>2. main \in Func BY ProgramAssumption
    <3> QED BY <3>1, <3>2 DEF Start, SolutionTyped
  <2>3. ASSUME NEW n \in Nat, n \in N PROVE n + 1 \in N
    <3>1. after[n + 1] = ApplyRules(after[n])
      <4>1. n + 1 \in Nat /\ n + 1 # 0 /\ (n + 1) - 1 = n OBVIOUS
      <4> QED BY <2>1, <4>1
    <3>2. /\ after[n].funcs \subseteq ApplyRules(after[n]).funcs
          /\ ApplyRules(after[n]).left = after[n].left
      <4>1. PICK A : A = after[n] OBVIOUS
      <4>2. /\ ApplyRules(A).funcs = A.funcs \cup {c[2] : c \in A.calls \cup SpecialCallsOf(A)}
            /\ ApplyRules(A).left = A.left
        BY RulesGive
      <4>3. A.funcs \subseteq ApplyRules(A).funcs BY <4>2
      <4> QED BY <4>1, <4>2, <4>3
    <3>3. SolutionTyped(ApplyRules(after[n])) BY <2>3, RulesTyped
    <3> QED BY <2>3, <3>1, <3>2, <3>3
  <2> HIDE DEF N
  <2>4. Rounds \in N BY <2>2, <2>3, Induct, RoundsSuffice
  <2> QED BY <2>1, <2>4 DEF N, LeastSolution
<1> HIDE DEF R
<1>3. R.funcs = R.funcs \cup {c[2] : c \in R.calls \cup SpecialCallsOf(R)} BY <1>1, RulesGive
<1>4. \A c \in R.calls \cup SpecialCallsOf(R) : c[2] \in R.funcs BY <1>3
<1>5. R.calls = CallsOf(R) BY <1>1, RulesGive
<1>7. \A v \in Node : \A o : o \in R.pts[v] <=> FactGiven(R, v, o) BY <1>1, RulesGive
<1> QED BY <1>2, <1>4, <1>5, <1>7 DEF R

-----------------------------------------------------------------------------
(* The result is in the least solution: no step finds what the rules do    *)
(* not give.                                                               *)

(* What makes R a solution.                                                *)
Closed(R) ==
  /\ SolutionTyped(R)
  /\ \A c \in R.calls \cup SpecialCallsOf(R) : c[2] \in R.funcs
  /\ R.calls = CallsOf(R)
  /\ \A v \in Node : \A o : FactGiven(R, v, o) => o \in R.pts[v]

(* The calls of a solution, rule by rule.                                  *)
LEMMA ClosedCalls ==
  ASSUME NEW R, Closed(R)
  PROVE  /\ \A g \in Analysed(R) : /\ StaticCalls[g] \subseteq R.calls
                                   /\ SpecialCalls[g] \subseteq SpecialCallsOf(R)
         /\ \A s \in FnptrSites(R) : \A o \in R.pts[s[1]] : HasItem(o) =>
              ItemCall(s[2], o) \in R.calls /\ RefEdge(s[2], o) \in Addresses(R)
         /\ \A s \in SitesOf(R, "dispatch") : \A o \in R.pts[s[1]] : HasMethod(s[2], o) =>
              MethodCall(s[2], o) \in R.calls
         /\ \A s \in SitesOf(R, "fntrait") : \A o \in R.pts[s[1]] :
              /\ o \in FnPtrObj => HeldSite(s[2], o) \in FnptrSites(R)
              /\ o \notin FnPtrObj /\ HasItem(o) => ItemCall(Unpack[s[2]], o) \in R.calls
              /\ o \notin FnPtrObj /\ ~HasItem(o) /\ HasMethod(s[2], o) =>
                   MethodCall(s[2], o) \in R.calls
<1>1. R.calls = CallsOf(R) BY DEF Closed
<1>2. ASSUME NEW g \in Analysed(R)
      PROVE  StaticCalls[g] \subseteq R.calls /\ SpecialCalls[g] \subseteq SpecialCallsOf(R)
  BY <1>1, CallsOfSplit DEF SpecialCallsOf
<1>3. ASSUME NEW s \in FnptrSites(R), NEW o \in R.pts[s[1]], HasItem(o)
      PROVE  ItemCall(s[2], o) \in R.calls /\ RefEdge(s[2], o) \in Addresses(R)
  <2>1. ItemCall(s[2], o) \in CallsOf(R) BY <1>3, CallsOfSplit
  <2>2. RefEdge(s[2], o) \in Addresses(R) BY <1>3, AddressesSplit
  <2> QED BY <1>1, <2>1, <2>2
<1>4. ASSUME NEW s \in SitesOf(R, "dispatch"), NEW o \in R.pts[s[1]], HasMethod(s[2], o)
      PROVE  MethodCall(s[2], o) \in R.calls
  <2>1. MethodCall(s[2], o) \in CallsOf(R) BY <1>4, CallsOfSplit
  <2> QED BY <1>1, <2>1
<1>5. ASSUME NEW s \in SitesOf(R, "fntrait"), NEW o \in R.pts[s[1]]
      PROVE  /\ o \in FnPtrObj => HeldSite(s[2], o) \in FnptrSites(R)
             /\ o \notin FnPtrObj /\ HasItem(o) => ItemCall(Unpack[s[2]], o) \in R.calls
             /\ o \notin FnPtrObj /\ ~HasItem(o) /\ HasMethod(s[2], o) =>
                  MethodCall(s[2], o) \in R.calls
  <2>1. o \in FnPtrObj => HeldSite(s[2], o) \in FnptrSites(R) BY FnptrSitesSplit
  <2>2. o \notin FnPtrObj /\ HasItem(o) => ItemCall(Unpack[s[2]], o) \in CallsOf(R)
    BY CallsOfSplit
  <2>3. o \notin FnPtrObj /\ ~HasItem(o) /\ HasMethod(s[2], o) => MethodCall(s[2], o) \in CallsOf(R)
    BY CallsOfSplit
  <2> QED BY <1>1, <2>1, <2>2, <2>3
<1> QED BY <1>2, <1>3, <1>4, <1>5

(* The bodies whose edges are in the PAG of a solution.                    *)
PagBodies(R) == PagFuncs(R) \cup UNION {Deps[h] : h \in PagFuncs(R)}
LEMMA EdgesOfBodies ==
  ASSUME NEW R, NEW g \in PagBodies(R), NEW k
  PROVE  FuncPag[g][k] \subseteq EdgesOf(R, k)
BY DEF EdgesOf, PagBodies

CallEdge(c) == <<Base[c[1]], c[2]>>
WithinGraph(R) ==
  /\ func_nodes \subseteq R.funcs
  /\ special_functions \subseteq Special
  /\ processed_funcs \cap Func \subseteq Analysed(R) /\ processed_funcs \subseteq PagBodies(R)
  /\ \A e \in call_graph : \E c \in R.calls \cup SpecialCallsOf(R) : e = CallEdge(c)
WithinPag(R) ==
  /\ addr_edges \cup added.addr \subseteq Addresses(R)
  /\ direct_edges \cup added.direct \subseteq Copies(R)
  /\ load_edges \cup added.load \subseteq EdgesOf(R, "load")
  /\ store_edges \cup added.store \subseteq EdgesOf(R, "store")
  /\ gep_edges \cup added.gep \subseteq EdgesOf(R, "gep")
  /\ offset_edges \cup added.offset \subseteq EdgesOf(R, "offset")
  /\ assoc_calls.dispatch \cup added.dispatch \subseteq SitesOf(R, "dispatch")
  /\ assoc_calls.fnptr \cup added.fnptr \subseteq FnptrSites(R)
  /\ assoc_calls.fntrait \cup added.fntrait \subseteq SitesOf(R, "fntrait")
ItemWithin(R, x) ==
  /\ x[1] = "fnptr" => \E s \in FnptrSites(R) : s[2] = x[2] /\ x[3] \in R.pts[s[1]]
  /\ x[1] = "fntrait" => \E s \in SitesOf(R, "fntrait") : s[2] = x[2] /\ x[3] \in R.pts[s[1]]
WithinFacts(R) == \A v \in Node : Pts(v) \subseteq R.pts[v]
WithinCalls(R) ==
  /\ AllCalls \subseteq R.calls
  /\ \A i \in AllInstances : <<i[1], i[3]>> \in R.calls
WithinItems(R) == phase \in {"fnptr", "fntrait"} => \A x \in todo : ItemWithin(R, x)
Within(R) ==
  /\ WithinGraph(R) /\ WithinPag(R) /\ WithinFacts(R) /\ WithinCalls(R) /\ WithinItems(R)

(* A call that is in the call graph passes its arguments.                  *)
FlowsOf(R) ==
  \A c \in R.calls : CallEdge(c) \in call_graph /\ c[2] \notin Unavailable =>
    CallFlow[c] \subseteq direct_edges \cup added.direct
(* Of two calls that have one edge in it, either may have come first.      *)
LEMMA EdgeFlow ==
  ASSUME NEW R, UniformFlow(R), NEW c \in R.calls, NEW d \in R.calls \cup SpecialCallsOf(R),
         CallEdge(c) = CallEdge(d)
  PROVE  d \in R.calls /\ c[2] = d[2] /\ CallFlow[c] = CallFlow[d]
<1>1. Base[c[1]] = Base[d[1]] /\ c[2] = d[2] BY DEF CallEdge
<1> QED BY <1>1 DEF UniformFlow

(* Steps of the driver that leave the solver alone.                        *)
LEMMA WithinStill ==
  ASSUME NEW R, Within(R), UNCHANGED solverRest, AllCalls' = AllCalls,
         AllInstances' = AllInstances, WithinGraph(R)', WithinPag(R)'
  PROVE  Within(R)'
<1>1. UNCHANGED <<diff, propa, phase, todo>> BY DEF solverRest, ptVars, ctlVars
<1>2. WithinFacts(R)' BY <1>1 DEF Within, WithinFacts, Pts
<1>3. WithinCalls(R)' BY DEF Within, WithinCalls
<1>4. WithinItems(R)' BY <1>1 DEF Within, WithinItems, ItemWithin
<1> QED BY <1>2, <1>3, <1>4 DEF Within

(* The flow of a call of the solution is among its copies.                 *)
LEMMA FlowCopies ==
  ASSUME NEW R, NEW c \in R.calls, c[2] \notin Unavailable
  PROVE  CallFlow[c] \subseteq Copies(R)
BY CopiesSplit

LEMMA CallEdgeWithin ==
  ASSUME NEW R, Closed(R), UniformFlow(R), Types, Within(R), FlowsOf(R), NEW c \in R.calls,
         AddCallEdge(c), UNCHANGED solverRest
  PROVE  WithinGraph(R)' /\ WithinPag(R)' /\ FlowsOf(R)'
<1> DEFINE flow == InterProcEdges({c})
<1>1. /\ added' = [added EXCEPT !.direct = @ \cup flow, !.inter = @ \cup (flow \ KnownDirect)]
      /\ UNCHANGED <<processed_funcs, special_functions>>
      /\ call_graph' = call_graph \cup {CallEdge(c)}
      /\ func_nodes' = func_nodes \cup {c[2]}
  BY DEF AddCallEdge, InsertCalls, CallEdge
<1>2. flow \subseteq Copies(R)
  <2>1. ASSUME NEW e \in flow PROVE c[2] \notin Unavailable /\ e \in CallFlow[c]
    BY DEF InterProcEdges, NewCallEdges
  <2> QED BY <2>1, FlowCopies
<1>3. CallEdge(c) \notin call_graph /\ c[2] \notin Unavailable => CallFlow[c] \subseteq flow
  BY DEF InterProcEdges, NewCallEdges, CallEdge
<1>4. added \in Batch BY DEF Types, PTATypeOK
<1> HIDE DEF flow
<1>5. /\ added'.direct = added.direct \cup flow
      /\ added'.addr = added.addr /\ added'.load = added.load /\ added'.store = added.store
      /\ added'.gep = added.gep /\ added'.offset = added.offset
  BY <1>1, <1>4 DEF Batch
<1>6. /\ added'.dispatch = added.dispatch /\ added'.fnptr = added.fnptr
      /\ added'.fntrait = added.fntrait
  BY <1>1, <1>4 DEF Batch
<1>7. UNCHANGED <<addr_edges, direct_edges, load_edges, store_edges, gep_edges,
                  offset_edges, assoc_calls>>
  BY DEF solverRest, graphVars, addrVars
<1>8. WithinGraph(R)'
  <2>1. c[2] \in R.funcs BY DEF Closed
  <2>2. WithinGraph(R) BY DEF Within
  <2>3. \A e \in call_graph' : \E d \in R.calls \cup SpecialCallsOf(R) : e = CallEdge(d)
    BY <1>1, <2>2 DEF WithinGraph
  <2> QED BY <1>1, <2>1, <2>2, <2>3 DEF WithinGraph
<1>9. WithinPag(R)' BY <1>2, <1>5, <1>6, <1>7 DEF Within, WithinPag
<1>10. FlowsOf(R)'
  <2> SUFFICES ASSUME NEW d \in R.calls, CallEdge(d) \in call_graph', d[2] \notin Unavailable
               PROVE  CallFlow[d] \subseteq direct_edges' \cup added'.direct
    BY DEF FlowsOf, CallEdge
  <2>1. CASE CallEdge(d) \in call_graph
    <3>1. CallFlow[d] \subseteq direct_edges \cup added.direct BY <2>1 DEF FlowsOf
    <3> QED BY <1>5, <1>7, <3>1
  <2>2. CASE CallEdge(d) \notin call_graph
    <3>1. CallEdge(d) = CallEdge(c) BY <1>1, <2>2
    <3>2. d[2] = c[2] /\ CallFlow[d] = CallFlow[c] BY <3>1, EdgeFlow
    <3> QED BY <1>3, <1>5, <2>2, <3>1, <3>2
  <2> QED BY <2>1, <2>2
<1> QED BY <1>8, <1>9, <1>10

LEMMA FuncPagWithin ==
  ASSUME NEW R, Closed(R), UniformFlow(R), Types, Within(R), FlowsOf(R), NEW f \in reach_funcs,
         f \notin processed_funcs, HasFuncPag(f), AddFuncPag(f), UNCHANGED solverVars,
         R.left \cap processed_funcs' = {}
  PROVE  WithinGraph(R)' /\ WithinPag(R)' /\ FlowsOf(R)'
<1> DEFINE B == FpagFuncs(f)
           direct == UNION {FuncPag[g].direct : g \in B}
           flow == InterProcEdges(StaticCalls[f])
           fresh == ({e \in direct : e[1] \in StaticNode} \cup (flow \ direct)) \ KnownDirect
           C == StaticCalls[f] \cup SpecialCalls[f]
<1>1. /\ call_graph' = call_graph \cup {CallEdge(c) : c \in C}
      /\ func_nodes' = func_nodes \cup {c[2] : c \in C}
  BY DEF AddFuncPag, InsertCalls, CallEdge
<1>2. /\ processed_funcs' = processed_funcs \cup B
      /\ special_functions' = special_functions \cup SpecialCallees(B)
      /\ AddEdges(f, B, flow, fresh)
  BY DEF AddFuncPag
<1>3. f \in Func /\ f \in func_nodes BY DEF Types, PTATypeOK
<1>4. WithinGraph(R) BY DEF Within
<1>5. f \in Analysed(R)
  <2>1. f \in R.funcs /\ f \notin Unavailable BY <1>3, <1>4 DEF WithinGraph, HasFuncPag
  <2>2. f \notin R.left BY <1>2 DEF FpagFuncs
  <2> QED BY <2>1, <2>2 DEF Analysed
<1>6. B \subseteq PagBodies(R)
  <2>1. {f} \cup Deps[f] \subseteq PagFuncs(R) BY <1>5 DEF PagFuncs
  <2> QED BY <2>1 DEF PagBodies, FpagFuncs
<1>7. B \subseteq Body /\ B \subseteq {f} \cup Initialiser BY <1>3, FpagFuncsType
<1>8. \A e \in flow : \E c \in StaticCalls[f] : c[2] \notin Unavailable /\ e \in CallFlow[c]
  BY DEF InterProcEdges, NewCallEdges
<1>9. \A c \in StaticCalls[f] :
        CallEdge(c) \notin call_graph /\ c[2] \notin Unavailable => CallFlow[c] \subseteq flow
  BY DEF InterProcEdges, NewCallEdges, CallEdge
<1>10. f \in B BY DEF FpagFuncs
<1> HIDE DEF B, flow, fresh
<1>11. /\ StaticCalls[f] \subseteq R.calls /\ SpecialCalls[f] \subseteq SpecialCallsOf(R)
  BY <1>5, ClosedCalls
<1>12. flow \subseteq Copies(R) BY <1>8, <1>11, FlowCopies
<1>13. UNCHANGED <<addr_edges, direct_edges, load_edges, store_edges, gep_edges,
                   offset_edges, assoc_calls>>
  BY DEF solverVars, vars, graphVars, addrVars, callVars
<1>14. /\ \A e \in added'.addr : e \in added.addr \/ \E h \in B : e \in FuncPag[h].addr
       /\ \A e \in added'.direct : \/ e \in added.direct \cup flow
                                   \/ \E h \in B : e \in FuncPag[h].direct
       /\ \A e \in added'.load : e \in added.load \/ \E h \in B : e \in FuncPag[h].load
       /\ \A e \in added'.store : e \in added.store \/ \E h \in B : e \in FuncPag[h].store
       /\ \A e \in added'.gep : e \in added.gep \/ \E h \in B : e \in FuncPag[h].gep
       /\ \A e \in added'.offset : e \in added.offset \/ \E h \in B : e \in FuncPag[h].offset
       /\ added'.dispatch = added.dispatch \cup FuncPag[f].dispatch
       /\ added'.fnptr = added.fnptr \cup FuncPag[f].fnptr
       /\ added'.fntrait = added.fntrait \cup FuncPag[f].fntrait
  BY <1>2, AddEdgesFrom
<1>15. WithinPag(R)'
  <2>1. WithinPag(R) BY DEF Within
  <2>2. \A h \in B : /\ FuncPag[h].addr \subseteq EdgesOf(R, "addr")
                     /\ FuncPag[h].direct \subseteq EdgesOf(R, "direct")
                     /\ FuncPag[h].load \subseteq EdgesOf(R, "load")
                     /\ FuncPag[h].store \subseteq EdgesOf(R, "store")
                     /\ FuncPag[h].gep \subseteq EdgesOf(R, "gep")
                     /\ FuncPag[h].offset \subseteq EdgesOf(R, "offset")
    BY <1>6, EdgesOfBodies
  <2>3. /\ FuncPag[f].dispatch \subseteq SitesOf(R, "dispatch")
        /\ FuncPag[f].fnptr \subseteq SitesOf(R, "fnptr")
        /\ FuncPag[f].fntrait \subseteq SitesOf(R, "fntrait")
    BY <1>5 DEF SitesOf
  <2>4. EdgesOf(R, "direct") \subseteq Copies(R) BY CopiesSplit
  <2>5. EdgesOf(R, "addr") \subseteq Addresses(R) BY AddressesSplit
  <2>6. SitesOf(R, "fnptr") \subseteq FnptrSites(R) BY FnptrSitesSplit
  <2>7. added'.addr \subseteq Addresses(R) BY <1>14, <2>1, <2>2, <2>5 DEF WithinPag
  <2>8. added'.direct \subseteq Copies(R) BY <1>12, <1>14, <2>1, <2>2, <2>4 DEF WithinPag
  <2>9. /\ added'.load \subseteq EdgesOf(R, "load") /\ added'.store \subseteq EdgesOf(R, "store")
        /\ added'.gep \subseteq EdgesOf(R, "gep") /\ added'.offset \subseteq EdgesOf(R, "offset")
    BY <1>14, <2>1, <2>2 DEF WithinPag
  <2>10. /\ added'.dispatch \subseteq SitesOf(R, "dispatch")
         /\ added'.fnptr \subseteq FnptrSites(R)
         /\ added'.fntrait \subseteq SitesOf(R, "fntrait")
    BY <1>14, <2>1, <2>3, <2>6 DEF WithinPag
  <2> QED BY <1>13, <2>1, <2>7, <2>8, <2>9, <2>10 DEF WithinPag
<1>16. WithinGraph(R)'
  <2>1. \A c \in C : c[2] \in R.funcs BY <1>11 DEF Closed
  <2>2. SpecialCallees(B) \subseteq Special
    <3> SUFFICES ASSUME NEW g \in B, NEW c \in SpecialCalls[g] PROVE c[2] \in Special
      BY DEF SpecialCallees
    <3> QED BY <1>7 DEF Special
  <2>5. func_nodes' \subseteq R.funcs BY <1>1, <1>4, <2>1 DEF WithinGraph
  <2>6. special_functions' \subseteq Special BY <1>2, <1>4, <2>2 DEF WithinGraph
  <2>8. processed_funcs' \cap Func \subseteq Analysed(R)
    <3>1. B \cap Func \subseteq {f} BY <1>7, ProgramAssumption
    <3> QED BY <1>2, <1>4, <1>5, <3>1 DEF WithinGraph
  <2>9. processed_funcs' \subseteq PagBodies(R) BY <1>2, <1>4, <1>6 DEF WithinGraph
  <2>10. \A e \in call_graph' : \E c \in R.calls \cup SpecialCallsOf(R) : e = CallEdge(c)
    BY <1>1, <1>4, <1>11 DEF WithinGraph
  <2> QED BY <2>5, <2>6, <2>8, <2>9, <2>10 DEF WithinGraph
<1>17. FlowsOf(R)'
  <2> SUFFICES ASSUME NEW d \in R.calls, CallEdge(d) \in call_graph', d[2] \notin Unavailable
               PROVE  CallFlow[d] \subseteq direct_edges' \cup added'.direct
    BY DEF FlowsOf, CallEdge
  <2>1. added.direct \cup flow \subseteq added'.direct
    BY <1>2 DEF AddEdges
  <2>2. CASE CallEdge(d) \in call_graph
    <3>1. CallFlow[d] \subseteq direct_edges \cup added.direct BY <2>2 DEF FlowsOf
    <3> QED BY <1>13, <2>1, <3>1
  <2>3. CASE CallEdge(d) \notin call_graph
    <3>1. PICK c \in C : CallEdge(d) = CallEdge(c) BY <1>1, <2>3
    <3>2. c \in R.calls /\ d[2] = c[2] /\ CallFlow[d] = CallFlow[c] BY <1>11, <3>1, EdgeFlow
    <3>3. CASE c \in StaticCalls[f]
      <4>1. CallFlow[c] \subseteq flow BY <1>9, <2>3, <3>1, <3>2, <3>3
      <4> QED BY <2>1, <3>2, <4>1
    <3>4. CASE c \in SpecialCalls[f]
      <4>1. c \in SpecialCallsOf(R) BY <1>11, <3>4
      <4> QED BY <3>1, <3>2, <4>1 DEF UniformFlow, CallEdge
    <3> QED BY <3>3, <3>4
  <2> QED BY <2>2, <2>3
<1> QED BY <1>15, <1>16, <1>17

(* Handing over what was added loses nothing of it, and adds nothing.      *)
LEMMA StartSolveWithin ==
  ASSUME NEW R, Within(R), FlowsOf(R), StartSolve
  PROVE  Within(R)' /\ FlowsOf(R)'
<1>1. /\ AddBatch(added) /\ added' = Nothing /\ phase' = "addr"
      /\ UNCHANGED <<call_graph, func_nodes, processed_funcs, special_functions>>
      /\ UNCHANGED <<diff, propa, todo, new_calls, new_call_instances, taken_calls, taken_instances>>
  BY DEF StartSolve, ptVars, takenVars
<1>2. /\ added'.addr = {} /\ added'.direct = {} /\ added'.load = {} /\ added'.store = {}
      /\ added'.gep = {} /\ added'.offset = {} /\ added'.dispatch = {}
      /\ added'.fnptr = {} /\ added'.fntrait = {}
  BY ONLY <1>1 DEF Nothing
<1>3. /\ addr_edges' = addr_edges \cup added.addr
      /\ direct_edges' = direct_edges \cup added.direct
      /\ load_edges' = load_edges \cup added.load
      /\ store_edges' = store_edges \cup added.store
      /\ gep_edges' = gep_edges \cup added.gep
      /\ offset_edges' = offset_edges \cup added.offset
  BY <1>1 DEF AddBatch
<1>4. /\ assoc_calls'.dispatch = assoc_calls.dispatch \cup added.dispatch
      /\ assoc_calls'.fnptr = assoc_calls.fnptr \cup added.fnptr
      /\ assoc_calls'.fntrait = assoc_calls.fntrait \cup added.fntrait
  BY <1>1 DEF AddBatch
<1>5. WithinGraph(R)' BY <1>1 DEF Within, WithinGraph
<1>6. WithinPag(R)' BY <1>2, <1>3, <1>4 DEF Within, WithinPag
<1>7. WithinFacts(R)' BY <1>1 DEF Within, WithinFacts, Pts
<1>8. WithinCalls(R)' BY <1>1 DEF Within, WithinCalls, AllCalls, AllInstances
<1>9. WithinItems(R)' BY <1>1 DEF WithinItems
<1>10. FlowsOf(R)' BY <1>1, <1>2, <1>3 DEF FlowsOf
<1> QED BY <1>5, <1>6, <1>7, <1>8, <1>9, <1>10 DEF Within

(* A call that an iteration resolves is one that the solution has.         *)
LEMMA ItemWithinTypes ==
  ASSUME NEW R, Inv, WithinItems(R), ProcessFnptrCall \/ ProcessDynamicFntraitCall, NEW x \in todo
  PROVE  ItemWithin(R, x) /\ x[2] \in CallSite /\ x[3] \in Node
<1>1. phase \in {"fnptr", "fntrait"}
  BY DEF ProcessFnptrCall, ProcessDynamicFntraitCall, CallIteration
<1> QED BY <1>1, CallItem DEF WithinItems, Inv

LEMMA NewCallWithin ==
  ASSUME NEW R, WithinCalls(R), NEW cs, NEW o, ItemCall(cs, o) \in R.calls,
         AddNewCall(cs, FnCallee[o]), UNCHANGED takenVars
  PROVE  WithinCalls(R)'
<1>1. PICK g : g = FnCallee[o] OBVIOUS
<1>2. <<cs, g>> \in R.calls BY <1>1 DEF ItemCall
<1>3. new_calls' = new_calls \cup {<<cs, g>>} BY <1>1 DEF AddNewCall
<1>4. \A i \in new_call_instances' : i \in new_call_instances \/ \E x : i = <<cs, x, g>>
  BY <1>1 DEF AddNewCall
<1>5. AllCalls' \subseteq R.calls
  BY <1>2, <1>3 DEF AllCalls, WithinCalls, takenVars
<1>6. ASSUME NEW i \in AllInstances' PROVE <<i[1], i[3]>> \in R.calls
  <2>1. i \in AllInstances \/ \E x : i = <<cs, x, g>> BY <1>4 DEF AllInstances, takenVars
  <2>2. CASE i \in AllInstances BY <2>2 DEF WithinCalls
  <2>3. CASE \E x : i = <<cs, x, g>>
    <3>1. i[1] = cs /\ i[3] = g BY <2>3
    <3> QED BY <1>2, <3>1
  <2> QED BY <2>1, <2>2, <2>3
<1> QED BY <1>5, <1>6 DEF WithinCalls

LEMMA DevirtualizedWithin ==
  ASSUME NEW R, NEW cs, NEW S, \A o \in S : HasMethod(cs, o) => MethodCall(cs, o) \in R.calls,
         NEW i \in Devirtualized(cs, S)
  PROVE  <<i[1], i[3]>> \in R.calls
<1>1. PICK o \in S : i = <<cs, o, DynCallee[cs, o]>> /\ DynCallee[cs, o] # None
  BY Zenon DEF Devirtualized
<1>2. PICK d : d = DynCallee[cs, o] OBVIOUS
<1>3. i[1] = cs /\ i[3] = d /\ d # None BY <1>1, <1>2
<1>4. MethodCall(cs, o) = <<cs, d>> /\ HasMethod(cs, o) BY <1>2, <1>3 DEF MethodCall, HasMethod
<1> QED BY <1>3, <1>4

(* The calls that a solve reports are those of the solution.               *)
LEMMA SolveCallsWithin ==
  ASSUME NEW R, Closed(R), Inv, assoc_calls.instance = {}, Within(R), SolveWorklist
  PROVE  WithinCalls(R)'
<1>1. WithinCalls(R) /\ WithinItems(R) /\ WithinFacts(R) /\ WithinPag(R) BY DEF Within
<1>2. UNCHANGED takenVars BY SolverKeeps DEF Inv
<1>3. CASE UNCHANGED <<new_calls, new_call_instances>>
  BY <1>1, <1>2, <1>3 DEF WithinCalls, AllCalls, AllInstances, takenVars
<1>4. CASE HandleStaticDispatchInstanceCall
  <2>1. UNCHANGED <<new_calls, new_call_instances>>
    BY <1>4 DEF HandleStaticDispatchInstanceCall
  <2> QED BY <1>3, <2>1
<1>5. CASE HandleDynamicDispatchCall
  <2>1. /\ UNCHANGED new_calls
        /\ \A i \in new_call_instances' : i \in new_call_instances \/
             \E cs \in Sites(assoc_calls.dispatch) : i \in Devirtualized(cs, diff[cur])
    BY <1>5 DEF HandleDynamicDispatchCall
  <2>2. cur \in Node
    BY <1>5 DEF HandleDynamicDispatchCall, Enter, Inv, TypeOK
  <2>3. ASSUME NEW cs \in Sites(assoc_calls.dispatch), NEW i \in Devirtualized(cs, diff[cur])
        PROVE  <<i[1], i[3]>> \in R.calls
    <3>1. PICK s \in assoc_calls.dispatch : s[1] = cur /\ cs = s[2] BY DEF Sites
    <3>2. s \in SitesOf(R, "dispatch") BY <1>1 DEF WithinPag
    <3>3. \A o \in diff[cur] : o \in R.pts[s[1]] BY <1>1, <2>2, <3>1 DEF WithinFacts, Pts
    <3>4. \A o \in diff[cur] : HasMethod(cs, o) => MethodCall(cs, o) \in R.calls
      BY <3>1, <3>2, <3>3, ClosedCalls
    <3> QED BY <3>4, DevirtualizedWithin
  <2> QED BY <1>1, <1>2, <2>1, <2>3 DEF WithinCalls, AllCalls, AllInstances, takenVars
<1>6. CASE ProcessFnptrCall
  <2>1. PICK x \in todo : /\ x[1] = "fnptr"
                          /\ IF FnCallee[x[3]] = None
                             THEN UNCHANGED <<new_calls, new_call_instances>>
                             ELSE AddNewCall(x[2], FnCallee[x[3]])
    BY <1>6, Zenon DEF ProcessFnptrCall
  <2>2. ItemWithin(R, x) BY <1>1, <1>6, ItemWithinTypes
  <2>3. PICK s \in FnptrSites(R) : s[2] = x[2] /\ x[3] \in R.pts[s[1]]
    BY <2>1, <2>2 DEF ItemWithin
  <2>4. FnCallee[x[3]] # None => ItemCall(x[2], x[3]) \in R.calls
    BY <2>3, ClosedCalls DEF HasItem
  <2> QED BY <1>1, <1>2, <1>3, <2>1, <2>4, NewCallWithin
<1>7. CASE ProcessDynamicFntraitCall
  <2>1. PICK x \in todo :
          /\ x[1] = "fntrait"
          /\ \/ UNCHANGED <<new_calls, new_call_instances>>
             \/ /\ x[3] \notin FnPtrObj /\ FnCallee[x[3]] # None
                /\ AddNewCall(Unpack[x[2]], FnCallee[x[3]])
             \/ /\ x[3] \notin FnPtrObj /\ FnCallee[x[3]] = None
                /\ new_call_instances' = new_call_instances \cup Devirtualized(x[2], {x[3]})
                /\ UNCHANGED new_calls
    BY <1>7, Zenon DEF ProcessDynamicFntraitCall
  <2>2. ItemWithin(R, x) BY <1>1, <1>7, ItemWithinTypes
  <2>3. PICK s \in SitesOf(R, "fntrait") : s[2] = x[2] /\ x[3] \in R.pts[s[1]]
    BY <2>1, <2>2 DEF ItemWithin
  <2>4. CASE /\ x[3] \notin FnPtrObj /\ FnCallee[x[3]] # None
             /\ AddNewCall(Unpack[x[2]], FnCallee[x[3]])
    <3>1. ItemCall(Unpack[s[2]], x[3]) \in R.calls BY <2>3, <2>4, ClosedCalls DEF HasItem
    <3>2. ItemCall(Unpack[x[2]], x[3]) \in R.calls BY <2>3, <3>1
    <3> QED BY <1>1, <1>2, <2>4, <3>2, NewCallWithin
  <2>5. CASE /\ x[3] \notin FnPtrObj /\ FnCallee[x[3]] = None
             /\ new_call_instances' = new_call_instances \cup Devirtualized(x[2], {x[3]})
             /\ UNCHANGED new_calls
    <3>1. HasMethod(s[2], x[3]) => MethodCall(s[2], x[3]) \in R.calls
      BY <2>3, <2>5, ClosedCalls DEF HasItem
    <3>2. \A o \in {x[3]} : HasMethod(x[2], o) => MethodCall(x[2], o) \in R.calls
      BY <2>3, <3>1
    <3>3. \A i \in Devirtualized(x[2], {x[3]}) : <<i[1], i[3]>> \in R.calls
      BY <3>2, DevirtualizedWithin
    <3> QED BY <1>1, <1>2, <2>5, <3>3 DEF WithinCalls, AllCalls, AllInstances, takenVars
  <2> QED BY <1>3, <2>1, <2>4, <2>5
<1>8. CASE \/ ProcessAddr \/ AddrEdgesDone \/ ProcessInterProc \/ InterProcEdgesDone
           \/ PopNode \/ SolveDone \/ Flush
  BY <1>3, <1>8 DEF ProcessAddr, AddrEdgesDone, ProcessInterProc, InterProcEdgesDone, PopNode,
     SolveDone, Flush, callVars
<1>9. CASE \/ ProcessDirect \/ ProcessLoad \/ ProcessStore \/ ProcessGep \/ ProcessOffset
  <2>1. \E ph, x : Iterate(ph, x)
    BY <1>9, Zenon DEF ProcessDirect, ProcessLoad, ProcessStore, ProcessGep, ProcessOffset
  <2> QED BY <1>3, <2>1 DEF Iterate, callVars
<1>10. CASE \/ HandleLoad \/ HandleStore \/ HandleGep \/ HandleOffset \/ HandleFnptrCall
            \/ HandleDynamicFntraitCall \/ HandlersDone
  BY <1>3, <1>10 DEF HandleLoad, HandleStore, HandleGep, HandleOffset, HandleFnptrCall,
     HandleDynamicFntraitCall, HandlersDone, callVars
<1> QED BY <1>4, <1>5, <1>6, <1>7, <1>8, <1>9, <1>10 DEF SolveWorklist, ProcessNode

(* So are the call sites that it registers and the items of its loops.     *)
LEMMA SolveItemsWithin ==
  ASSUME NEW R, Closed(R), Inv, Within(R), SolveWorklist
  PROVE  /\ WithinItems(R)'
         /\ assoc_calls'.dispatch = assoc_calls.dispatch
         /\ assoc_calls'.fntrait = assoc_calls.fntrait
         /\ assoc_calls'.fnptr \subseteq FnptrSites(R)
<1>1. WithinItems(R) /\ WithinFacts(R) /\ WithinPag(R) BY DEF Within
<1>2. Step BY DEF Step
<1>3. ~ \E b \in Batch : Extends(b) BY SolverRuns DEF Extends
<1>4. /\ assoc_calls.fnptr \subseteq FnptrSites(R)
      /\ assoc_calls.fntrait \subseteq SitesOf(R, "fntrait")
  BY <1>1 DEF WithinPag
<1>5. CASE ProcessDynamicFntraitCall
  <2>1. PICK x \in todo :
          /\ x[1] = "fntrait" /\ phase \in {"fnptr", "fntrait"} /\ phase' = phase
          /\ \/ /\ assoc_calls' = [assoc_calls EXCEPT !.fnptr = @ \cup {<<x[3], Unpack[x[2]]>>}]
                /\ todo' = (todo \ {x}) \cup ({"fnptr"} \X {Unpack[x[2]]} \X Pts(x[3]))
                /\ x[3] \in FnPtrObj
             \/ UNCHANGED assoc_calls /\ todo' = todo \ {x}
    BY <1>5 DEF ProcessDynamicFntraitCall, CallIteration
  <2>2. ItemWithin(R, x) /\ x[3] \in Node BY <1>1, <1>5, ItemWithinTypes
  <2>3. PICK s \in SitesOf(R, "fntrait") : s[2] = x[2] /\ x[3] \in R.pts[s[1]]
    BY <2>1, <2>2 DEF ItemWithin
  <2>4. CASE UNCHANGED assoc_calls /\ todo' = todo \ {x}
    BY <1>1, <1>4, <2>1, <2>4 DEF WithinItems, ItemWithin
  <2>5. CASE /\ assoc_calls' = [assoc_calls EXCEPT !.fnptr = @ \cup {<<x[3], Unpack[x[2]]>>}]
             /\ todo' = (todo \ {x}) \cup ({"fnptr"} \X {Unpack[x[2]]} \X Pts(x[3]))
             /\ x[3] \in FnPtrObj
    <3>1. /\ assoc_calls'.fnptr = assoc_calls.fnptr \cup {<<x[3], Unpack[x[2]]>>}
          /\ assoc_calls'.dispatch = assoc_calls.dispatch
          /\ assoc_calls'.fntrait = assoc_calls.fntrait
      BY <2>5 DEF Inv, TypeOK
    <3>2. HeldSite(s[2], x[3]) \in FnptrSites(R) BY <2>3, <2>5, ClosedCalls
    <3>3. PICK t : t = <<x[3], Unpack[x[2]]>> OBVIOUS
    <3>4. t \in FnptrSites(R) BY <2>3, <3>2, <3>3 DEF HeldSite
    <3>5. t[1] = x[3] /\ t[2] = Unpack[x[2]] BY <3>3
    <3>6. ASSUME NEW y \in {"fnptr"} \X {Unpack[x[2]]} \X Pts(x[3]) PROVE ItemWithin(R, y)
      <4>1. y[1] = "fnptr" /\ y[2] = Unpack[x[2]] /\ y[3] \in Pts(x[3]) OBVIOUS
      <4>2. y[3] \in R.pts[t[1]] BY <1>1, <2>2, <3>5, <4>1 DEF WithinFacts
      <4> QED BY <3>4, <3>5, <4>1, <4>2 DEF ItemWithin
    <3>7. \A y \in todo' : ItemWithin(R, y) BY <1>1, <2>1, <2>5, <3>6 DEF WithinItems
    <3>8. assoc_calls'.fnptr \subseteq FnptrSites(R) BY <1>4, <3>1, <3>3, <3>4
    <3> QED BY <3>1, <3>7, <3>8 DEF WithinItems, ItemWithin
  <2> QED BY <2>1, <2>4, <2>5
<1>6. CASE ~ ProcessDynamicFntraitCall
  <2>1. UNCHANGED assoc_calls BY <1>2, <1>3, <1>6, EdgesKept DEF Inv
  <2> SUFFICES ASSUME phase' \in {"fnptr", "fntrait"} PROVE \A x \in todo' : ItemWithin(R, x)
    BY <1>4, <2>1 DEF WithinItems, ItemWithin
  <2>2. CASE HandleFnptrCall
    <3>1. todo' = {"fnptr"} \X Sites(assoc_calls.fnptr) \X diff[cur] /\ cur \in Node
      BY <2>2 DEF HandleFnptrCall, Enter, Inv, TypeOK
    <3> SUFFICES ASSUME NEW x \in todo' PROVE ItemWithin(R, x)
      OBVIOUS
    <3>2. x[1] = "fnptr" /\ x[2] \in Sites(assoc_calls.fnptr) /\ x[3] \in diff[cur] BY <3>1
    <3>3. PICK s \in assoc_calls.fnptr : s[1] = cur /\ x[2] = s[2] BY <3>2 DEF Sites
    <3>4. x[3] \in R.pts[s[1]] BY <1>1, <3>1, <3>2, <3>3 DEF WithinFacts, Pts
    <3> QED BY <1>4, <3>2, <3>3, <3>4 DEF ItemWithin
  <2>3. CASE HandleDynamicFntraitCall
    <3>1. todo' = {"fntrait"} \X Sites(assoc_calls.fntrait) \X diff[cur] /\ cur \in Node
      BY <2>3 DEF HandleDynamicFntraitCall, Enter, Inv, TypeOK
    <3> SUFFICES ASSUME NEW x \in todo' PROVE ItemWithin(R, x)
      OBVIOUS
    <3>2. x[1] = "fntrait" /\ x[2] \in Sites(assoc_calls.fntrait) /\ x[3] \in diff[cur] BY <3>1
    <3>3. PICK s \in assoc_calls.fntrait : s[1] = cur /\ x[2] = s[2] BY <3>2 DEF Sites
    <3>4. x[3] \in R.pts[s[1]] BY <1>1, <3>1, <3>2, <3>3 DEF WithinFacts, Pts
    <3> QED BY <1>4, <3>2, <3>3, <3>4 DEF ItemWithin
  <2>4. CASE ProcessFnptrCall
    <3>1. \E x \in todo : CallIteration(todo \ {x}) BY <2>4, Zenon DEF ProcessFnptrCall
    <3>2. phase \in {"fnptr", "fntrait"} /\ todo' \subseteq todo BY <3>1 DEF CallIteration
    <3> QED BY <1>1, <3>2 DEF WithinItems
  <2>5. CASE ~HandleFnptrCall /\ ~HandleDynamicFntraitCall /\ ~ProcessFnptrCall
    <3>1. CASE phase \in {"fnptr", "fntrait"}
      <4>1. HandlersDone \/ Takes BY <1>2, <1>6, <2>5, <3>1, StepFrom
      <4>2. todo' = todo BY <4>1 DEF HandlersDone, Enter, Takes, ctlVars, LoopPhases
      <4> QED BY <1>1, <3>1, <4>2 DEF WithinItems
    <3>2. CASE phase \notin {"fnptr", "fntrait"}
      <4>1. phase = "dispatch" /\ phase' = "fnptr"
        BY <1>2, <3>2, PhaseStep DEF Inv, PopNode, Flush, Handlers
      <4> QED BY <1>2, <2>5, <4>1, StepFrom DEF Takes, ctlVars
    <3> QED BY <3>1, <3>2
  <2> QED BY <2>2, <2>3, <2>4, <2>5
<1> QED BY <1>5, <1>6

(* A closure reference is made for a call of the solution.                 *)
LEMMA SolveAddrWithin ==
  ASSUME NEW R, Closed(R), Inv, Within(R), SolveWorklist, NEW e \in addr_edges' \ addr_edges
  PROVE  e \in Addresses(R)
<1>1. ProcessFnptrCall
  <2>1. Step BY DEF Step
  <2>2. ~ \E b \in Batch : Extends(b) BY SolverRuns DEF Extends
  <2> QED BY <2>1, <2>2, EdgesKept DEF Inv, addrVars, ProcessAddr
<1>2. PICK x \in todo : /\ x[1] = "fnptr" /\ FnCallee[x[3]] # None
                        /\ addr_edges' = addr_edges \cup {<<x[3], ClosureRef[x[2], x[3]]>>}
  <2>1. addr_edges' # addr_edges OBVIOUS
  <2> QED BY <1>1, <2>1, Zenon DEF ProcessFnptrCall, addrVars
<1>3. ItemWithin(R, x) BY <1>1, ItemWithinTypes DEF Within
<1>4. PICK s \in FnptrSites(R) : s[2] = x[2] /\ x[3] \in R.pts[s[1]]
  BY <1>2, <1>3 DEF ItemWithin
<1>5. RefEdge(s[2], x[3]) \in Addresses(R) BY <1>2, <1>4, ClosedCalls DEF HasItem
<1>6. addr_edges' = addr_edges \cup {RefEdge(x[2], x[3])} BY <1>2 DEF RefEdge
<1> QED BY <1>4, <1>5, <1>6

(* The edges that a solve adds and the objects that it hands on follow by  *)
(* the rules of the solution.                                              *)
LEMMA SolveFactsWithin ==
  ASSUME NEW R, Closed(R), Inv, Within(R), SolveWorklist
  PROVE  /\ addr_edges' \subseteq Addresses(R) /\ direct_edges' \subseteq Copies(R)
         /\ WithinFacts(R)'
<1>1. WithinFacts(R) /\ WithinPag(R) BY DEF Within
<1>2. Step BY DEF Step
<1>3. ~ \E b \in Batch : Extends(b) BY SolverRuns DEF Extends
<1>4. addr_edges' \subseteq Addresses(R)
  BY <1>1, SolveAddrWithin DEF WithinPag
<1>5. ASSUME NEW e \in direct_edges', e \notin direct_edges PROVE e \in Copies(R)
  <2>0. direct_edges' \subseteq Node \X Node BY <1>2, TypeInv DEF Inv, TypeOK
  <2>1. e = <<e[1], e[2]>> BY <2>0
  <2>2. \/ \E l \in load_edges : l[3] = e[2] /\ \E x \in Pts(l[1]) : e[1] = Field[x, l[2]]
        \/ \E l \in store_edges : l[1] = e[1] /\ \E x \in Pts(l[3]) : e[2] = Field[x, l[2]]
    BY <1>2, <1>3, <1>5, EdgesDerived, Zenon
  <2>3. ASSUME NEW l \in load_edges, l[3] = e[2], NEW x \in Pts(l[1]), e[1] = Field[x, l[2]]
        PROVE  e \in Copies(R)
    <3>1. l \in EdgesOf(R, "load") BY <1>1 DEF WithinPag
    <3>2. l[1] \in Node BY <3>1, EdgeTypes DEF Closed
    <3>3. x \in R.pts[l[1]] BY <1>1, <3>2 DEF WithinFacts
    <3>4. e = LoadEdge(l, x) BY <2>1, <2>3 DEF LoadEdge
    <3> QED BY <3>1, <3>3, <3>4, CopiesSplit
  <2>4. ASSUME NEW l \in store_edges, l[1] = e[1], NEW x \in Pts(l[3]), e[2] = Field[x, l[2]]
        PROVE  e \in Copies(R)
    <3>1. l \in EdgesOf(R, "store") BY <1>1 DEF WithinPag
    <3>2. l[3] \in Node BY <3>1, EdgeTypes DEF Closed
    <3>3. x \in R.pts[l[3]] BY <1>1, <3>2 DEF WithinFacts
    <3>4. e = StoreEdge(l, x) BY <2>1, <2>4 DEF StoreEdge
    <3> QED BY <3>1, <3>3, <3>4, CopiesSplit
  <2> QED BY <2>2, <2>3, <2>4, Zenon
<1>6. direct_edges' \subseteq Copies(R) BY <1>1, <1>5 DEF WithinPag
<1>7. ASSUME NEW v \in Node, NEW o \in Pts(v)' \ Pts(v) PROVE FactGiven(R, v, o)
  <2>1. Derivable(v, o) BY <1>2, FactsDerived
  <2>2. \/ <<o, v>> \in addr_edges'
        \/ \E s \in Node : /\ <<s, v>> \in direct_edges' \cup offset_edges
                           /\ o \in Pts(s) /\ <<s, v, o>> \notin Filtered
        \/ \E e \in gep_edges : e[3] = v /\ \E x \in Pts(e[1]) : o = FieldAt(e, x)
    BY <2>1, Zenon DEF Derivable, FieldAt
  <2>3. CASE <<o, v>> \in addr_edges'
    <3>1. PICK e : e = <<o, v>> OBVIOUS
    <3>2. e \in Addresses(R) /\ e[1] = o /\ e[2] = v BY <1>4, <2>3, <3>1
    <3> QED BY <3>2 DEF FactGiven
  <2>4. ASSUME NEW s \in Node, <<s, v>> \in direct_edges' \cup offset_edges,
               o \in Pts(s), <<s, v, o>> \notin Filtered
        PROVE  FactGiven(R, v, o)
    <3>1. PICK e : e = <<s, v>> OBVIOUS
    <3>2. e[1] = s /\ e[2] = v BY <3>1
    <3>3. e \in Copies(R)
      <4>1. offset_edges \subseteq EdgesOf(R, "offset") BY <1>1 DEF WithinPag
      <4>2. EdgesOf(R, "offset") \subseteq Copies(R) BY CopiesSplit
      <4> QED BY <1>6, <2>4, <3>1, <4>1, <4>2
    <3>4. o \in R.pts[e[1]] BY <1>1, <2>4, <3>2 DEF WithinFacts
    <3>5. Passes(e, o) BY <2>4, <3>2 DEF Passes
    <3> QED BY <3>2, <3>3, <3>4, <3>5 DEF FactGiven
  <2>5. ASSUME NEW e \in gep_edges, e[3] = v, NEW x \in Pts(e[1]), o = FieldAt(e, x)
        PROVE  FactGiven(R, v, o)
    <3>1. e \in EdgesOf(R, "gep") BY <1>1 DEF WithinPag
    <3>2. e[1] \in Node BY <3>1, EdgeTypes DEF Closed
    <3>3. x \in R.pts[e[1]] BY <1>1, <3>2 DEF WithinFacts
    <3> QED BY <2>5, <3>1, <3>3 DEF FactGiven
  <2> QED BY <2>2, <2>3, <2>4, <2>5, Zenon
<1>8. WithinFacts(R)' BY <1>1, <1>7 DEF WithinFacts, Closed
<1> QED BY <1>4, <1>6, <1>8

LEMMA SolveWithin ==
  ASSUME NEW R, Closed(R), Inv, assoc_calls.instance = {}, Within(R), FlowsOf(R), Solve,
         phase # "driver" => added = Nothing
  PROVE  Within(R)' /\ FlowsOf(R)'
<1>1. /\ SolveWorklist
      /\ UNCHANGED <<call_graph, func_nodes, processed_funcs, special_functions, added>>
  BY DEF Solve, driverVars
<1>2. added = Nothing BY <1>1, SolverRuns
<1>3. /\ added'.addr = {} /\ added'.direct = {} /\ added'.load = {} /\ added'.store = {}
      /\ added'.gep = {} /\ added'.offset = {} /\ added'.dispatch = {}
      /\ added'.fnptr = {} /\ added'.fntrait = {}
  BY ONLY <1>1, <1>2 DEF Nothing
<1>4. WithinGraph(R)' BY <1>1 DEF Within, WithinGraph
<1>5. WithinPag(R)'
  <2>1. UNCHANGED <<load_edges, store_edges, gep_edges, offset_edges>>
    BY <1>1, SolverKeeps DEF Inv
  <2>2. WithinPag(R) BY DEF Within
  <2>3. addr_edges' \subseteq Addresses(R) /\ direct_edges' \subseteq Copies(R)
    BY <1>1, SolveFactsWithin
  <2>4. /\ assoc_calls'.dispatch = assoc_calls.dispatch
        /\ assoc_calls'.fntrait = assoc_calls.fntrait
        /\ assoc_calls'.fnptr \subseteq FnptrSites(R)
    BY <1>1, SolveItemsWithin
  <2> QED BY <1>3, <2>1, <2>2, <2>3, <2>4 DEF WithinPag
<1>6. WithinFacts(R)' BY <1>1, SolveFactsWithin
<1>7. WithinCalls(R)' BY <1>1, SolveCallsWithin
<1>8. WithinItems(R)' BY <1>1, SolveItemsWithin
<1>9. FlowsOf(R)'
  <2>1. direct_edges \subseteq direct_edges' BY <1>1, SolverKeeps DEF Inv
  <2> QED BY <1>1, <2>1 DEF FlowsOf
<1> QED BY <1>4, <1>5, <1>6, <1>7, <1>8, <1>9 DEF Within

LEMMA LeastClosed ==
  ASSUME NEW main \in Entries, NEW S \in SUBSET Special
  PROVE  LET R == LeastSolution[main][S] IN Closed(R) /\ main \in R.funcs /\ R.left = S
BY LeastSolves DEF Closed

(* The analysis of main stays within the least solution without functions  *)
(* whose bodies it has not built.                                          *)
ResultWithin(main) ==
  /\ main \in func_nodes
  /\ \A S \in SUBSET Special : S \cap processed_funcs = {} =>
       Within(LeastSolution[main][S]) /\ FlowsOf(LeastSolution[main][S])

LEMMA WithinInit ==
  ASSUME PTAInit, NEW main \in Entries, func_nodes = {main}
  PROVE  ResultWithin(main)
<1> SUFFICES ASSUME NEW S \in SUBSET Special
             PROVE  Within(LeastSolution[main][S]) /\ FlowsOf(LeastSolution[main][S])
  BY DEF ResultWithin
<1>1. PICK R : R = LeastSolution[main][S] OBVIOUS
<1>2. Closed(R) /\ main \in R.funcs BY <1>1, LeastClosed
<1>3. /\ processed_funcs = {} /\ special_functions = {} /\ call_graph = {}
      /\ phase = "driver" /\ added = Nothing
      /\ addr_edges = {} /\ direct_edges = {}
      /\ load_edges = {} /\ store_edges = {} /\ gep_edges = {} /\ offset_edges = {}
      /\ diff = [v \in Node |-> {}] /\ propa = [v \in Node |-> {}]
      /\ new_calls = {} /\ new_call_instances = {} /\ taken_calls = {} /\ taken_instances = {}
  BY DEF PTAInit
<1>4. assoc_calls.dispatch = {} /\ assoc_calls.fnptr = {} /\ assoc_calls.fntrait = {}
  <2>1. assoc_calls = [instance |-> {}, dispatch |-> {}, fnptr |-> {}, fntrait |-> {}]
    BY DEF PTAInit
  <2> QED BY ONLY <2>1
<1>5. /\ added.addr = {} /\ added.direct = {} /\ added.load = {} /\ added.store = {}
      /\ added.gep = {} /\ added.offset = {} /\ added.dispatch = {}
      /\ added.fnptr = {} /\ added.fntrait = {}
  BY ONLY <1>3 DEF Nothing
<1>6. WithinGraph(R) BY <1>2, <1>3 DEF WithinGraph
<1>7. WithinPag(R) BY <1>3, <1>4, <1>5 DEF WithinPag
<1>8. WithinFacts(R)
  <2>1. \A v \in Node : Pts(v) = {} BY <1>3 DEF Pts
  <2> QED BY <2>1 DEF WithinFacts
<1>9. WithinCalls(R) BY <1>3 DEF WithinCalls, AllCalls, AllInstances
<1>10. WithinItems(R) BY <1>3 DEF WithinItems
<1>11. FlowsOf(R) BY <1>3 DEF FlowsOf
<1> QED BY <1>1, <1>6, <1>7, <1>8, <1>9, <1>10, <1>11 DEF Within

(* A body that has been built stays so.                                    *)
LEMMA ProcessedKept ==
  ASSUME [PTANext]_ptaVars
  PROVE  processed_funcs \subseteq processed_funcs'
BY DEF PTANext, PTAStep, Done, SkipReachFunc, ProcessReachFunc, AddFuncPag, StartSolve, Solve,
   driverVars, Break, TakeCalls, NewCallsDone, CallsReachDone, NewCallInstancesDone, Advance,
   ProcessNewCall, ProcessNewCallInstance, AddCallEdge, ptaVars

(* Every step of driver and solver stays within the solution.             *)
LEMMA WithinStep ==
  ASSUME Ownership, FlowByBase, NEW main \in Entries, NEW f \in Entries, Owned(f),
         ResultWithin(main), [PTANext]_ptaVars
  PROVE  ResultWithin(main)'
<1> SUFFICES ASSUME NEW S \in SUBSET Special, S \cap processed_funcs' = {}
             PROVE  /\ main \in func_nodes'
                    /\ Within(LeastSolution[main][S])' /\ FlowsOf(LeastSolution[main][S])'
  <2>1. {} \in SUBSET Special /\ {} \cap processed_funcs' = {} OBVIOUS
  <2> QED BY <2>1 DEF ResultWithin
<1>0. RoundInv /\ Inv /\ OwnInv(f) /\ Types BY DEF Owned, RoundInv
<1>1. PICK R : R = LeastSolution[main][S] OBVIOUS
<1>2. /\ Closed(R) /\ UniformFlow(R) /\ Within(R) /\ FlowsOf(R) /\ main \in func_nodes
      /\ R.left \cap processed_funcs' = {}
  <2>1. processed_funcs \subseteq processed_funcs' BY ProcessedKept
  <2>2. S \cap processed_funcs = {} BY <2>1
  <2>3. Within(R) /\ FlowsOf(R) /\ main \in func_nodes BY <1>1, <2>2 DEF ResultWithin
  <2>4. Closed(R) /\ R.left = S BY <1>1, LeastClosed
  <2>5. UniformFlow(R) BY <1>1 DEF FlowByBase
  <2> QED BY <2>3, <2>4, <2>5
<1> SUFFICES main \in func_nodes' /\ Within(R)' /\ FlowsOf(R)'
  BY <1>1
<1>3. ASSUME UNCHANGED <<call_graph, func_nodes, processed_funcs, special_functions, added,
                         solverVars>>
      PROVE  main \in func_nodes' /\ Within(R)' /\ FlowsOf(R)'
  <2>1. /\ UNCHANGED solverRest /\ AllCalls' = AllCalls /\ AllInstances' = AllInstances
        /\ UNCHANGED <<addr_edges, direct_edges, load_edges, store_edges, gep_edges,
                       offset_edges, assoc_calls>>
    BY <1>3 DEF solverVars, vars, solverRest, callVars, takenVars, AllCalls, AllInstances,
       graphVars, addrVars
  <2>2. WithinGraph(R)' BY <1>2, <1>3 DEF Within, WithinGraph
  <2>3. WithinPag(R)' BY <1>2, <1>3, <2>1 DEF Within, WithinPag
  <2>4. FlowsOf(R)' BY <1>2, <1>3, <2>1 DEF FlowsOf
  <2> QED BY <1>2, <1>3, <2>1, <2>2, <2>3, <2>4, WithinStill
<1>4. ASSUME NEW c \in R.calls, AddCallEdge(c), Takes, UNCHANGED solverRest
      PROVE  main \in func_nodes' /\ Within(R)' /\ FlowsOf(R)'
  <2>1. WithinGraph(R)' /\ WithinPag(R)' /\ FlowsOf(R)'
    BY <1>0, <1>2, <1>4, CallEdgeWithin
  <2>2. AllCalls' = AllCalls /\ AllInstances' = AllInstances BY <1>4 DEF Takes
  <2>3. main \in func_nodes' BY <1>2, <1>4 DEF AddCallEdge, InsertCalls
  <2> QED BY <1>2, <1>4, <2>1, <2>2, <2>3, WithinStill
<1>5. CASE SkipReachFunc
  <2>1. UNCHANGED <<call_graph, func_nodes, processed_funcs, special_functions, added, solverVars>>
    BY <1>5 DEF SkipReachFunc, Reaching
  <2> QED BY <1>3, <2>1
<1>6. CASE ProcessReachFunc
  <2>1. PICK g \in reach_funcs : g \notin processed_funcs /\ HasFuncPag(g) /\ AddFuncPag(g)
    BY <1>6 DEF ProcessReachFunc
  <2>2. UNCHANGED solverVars BY <1>6 DEF ProcessReachFunc
  <2>3. WithinGraph(R)' /\ WithinPag(R)' /\ FlowsOf(R)'
    BY <1>0, <1>2, <2>1, <2>2, FuncPagWithin
  <2>4. UNCHANGED solverRest /\ AllCalls' = AllCalls /\ AllInstances' = AllInstances
    BY <2>2 DEF solverVars, vars, solverRest, callVars, takenVars, AllCalls, AllInstances
  <2>5. main \in func_nodes' BY <1>2, <2>1 DEF AddFuncPag, InsertCalls
  <2> QED BY <1>2, <2>3, <2>4, <2>5, WithinStill
<1>7. CASE StartSolve
  <2>1. Within(R)' /\ FlowsOf(R)' BY <1>0, <1>2, <1>7, StartSolveWithin
  <2>2. main \in func_nodes' BY <1>2, <1>7 DEF StartSolve
  <2> QED BY <2>1, <2>2
<1>8. CASE Solve
  <2>1. assoc_calls.instance = {} /\ (phase # "driver" => added = Nothing)
    BY <1>0 DEF OwnInv, SitesOpen, Quiet
  <2>2. Within(R)' /\ FlowsOf(R)' BY <1>0, <1>2, <1>8, <2>1, SolveWithin
  <2>3. main \in func_nodes' BY <1>2, <1>8 DEF Solve, driverVars
  <2> QED BY <2>2, <2>3
<1>9. CASE \/ Break \/ TakeCalls \/ NewCallsDone \/ CallsReachDone \/ NewCallInstancesDone
  <2>1. UNCHANGED <<call_graph, func_nodes, processed_funcs, special_functions, added, solverVars>>
    BY <1>9 DEF Break, TakeCalls, NewCallsDone, CallsReachDone, NewCallInstancesDone, Advance
  <2> QED BY <1>3, <2>1
<1>10. CASE ProcessNewCall
  <2>1. PICK c \in new_calls : /\ AddCallEdge(c) /\ new_calls' = new_calls \ {c}
                               /\ taken_calls' = taken_calls \cup {c}
    BY <1>10 DEF ProcessNewCall
  <2>2. UNCHANGED solverRest /\ UNCHANGED <<new_call_instances, taken_instances>>
    BY <1>10 DEF ProcessNewCall
  <2>3. c \in R.calls BY <1>2 DEF Within, WithinCalls, AllCalls
  <2>4. Takes BY <2>1, <2>2, CallsTaken
  <2> QED BY <1>4, <2>1, <2>2, <2>3, <2>4
<1>11. CASE ProcessNewCallInstance
  <2>1. PICK c \in new_call_instances :
          /\ AddCallEdge(<<c[1], c[3]>>)
          /\ new_call_instances' = new_call_instances \ {c}
          /\ taken_instances' = taken_instances \cup {c}
    BY <1>11 DEF ProcessNewCallInstance
  <2>2. UNCHANGED solverRest /\ UNCHANGED <<new_calls, taken_calls>>
    BY <1>11 DEF ProcessNewCallInstance
  <2>3. PICK d : d = <<c[1], c[3]>> OBVIOUS
  <2>4. d \in R.calls BY <1>2, <2>3 DEF Within, WithinCalls, AllInstances
  <2>5. AddCallEdge(d) BY <2>1, <2>3
  <2>6. Takes BY <2>1, <2>2, CallsTaken
  <2> QED BY <1>4, <2>2, <2>4, <2>5, <2>6
<1>12. CASE UNCHANGED ptaVars
  <2>1. UNCHANGED <<call_graph, func_nodes, processed_funcs, special_functions, added, solverVars>>
    BY <1>12 DEF ptaVars, driverVars
  <2> QED BY <1>3, <2>1
<1> QED BY <1>5, <1>6, <1>7, <1>8, <1>9, <1>10, <1>11, <1>12 DEF PTANext, PTAStep, Done

-----------------------------------------------------------------------------
(* The least solution is in the result: when the analysis ends, no rule    *)
(* gives anything that it has not found.                                   *)

(* The special calls of a body are in the call graph when it is processed. *)
SpecialsIn ==
  \A g \in processed_funcs \cap Func : \A c \in SpecialCalls[g] : CallEdge(c) \in call_graph
(* The analysis ends when no call is left to take.                         *)
NoneLeft == stage = "done" => new_calls = {} /\ new_call_instances = {}
(* A closure that a function pointer calls has its reference, or is still  *)
(* ahead in the loop that makes it.                                        *)
HasRef(cs, o) == ClosureRef[cs, o] # None
RefsHandled ==
  \A c \in assoc_calls.fnptr : \A o \in Node :
    Visited(c[1], "fnptr", <<"fnptr", c[2], o>>, o) /\ HasItem(o) /\ HasRef(c[2], o)
      => \/ RefEdge(c[2], o) \in addr_edges
         \/ phase \in {"fnptr", "fntrait"} /\ <<"fnptr", c[2], o>> \in todo

LEMMA SpecialsInKept == Types /\ SpecialsIn /\ [PTANext]_ptaVars => SpecialsIn'
<1> SUFFICES ASSUME Types, SpecialsIn, [PTANext]_ptaVars PROVE SpecialsIn'
  OBVIOUS
<1>1. CASE ProcessReachFunc
  <2>1. PICK f \in reach_funcs : AddFuncPag(f) BY <1>1 DEF ProcessReachFunc
  <2>2. f \in Func BY DEF Types, PTATypeOK
  <2> DEFINE B == FpagFuncs(f)
             C == StaticCalls[f] \cup SpecialCalls[f]
  <2>3. processed_funcs' = processed_funcs \cup B /\ call_graph' = call_graph \cup {CallEdge(c) : c \in C}
    BY <2>1 DEF AddFuncPag, InsertCalls, CallEdge
  <2>4. B \cap Func \subseteq {f} BY <2>2, FpagFuncsType, ProgramAssumption
  <2> HIDE DEF B
  <2> QED BY <2>3, <2>4 DEF SpecialsIn
<1>2. CASE ~ProcessReachFunc
  <2>1. processed_funcs' = processed_funcs /\ call_graph \subseteq call_graph'
    BY <1>2 DEF PTANext, PTAStep, Done, SkipReachFunc, StartSolve, Solve, driverVars, Break,
       TakeCalls, NewCallsDone, CallsReachDone, NewCallInstancesDone, Advance, ProcessNewCall,
       ProcessNewCallInstance, AddCallEdge, InsertCalls, ptaVars
  <2> QED BY <2>1 DEF SpecialsIn
<1> QED BY <1>1, <1>2

LEMMA NoneLeftKept == Types /\ NoneLeft /\ [PTANext]_ptaVars => NoneLeft'
<1> SUFFICES ASSUME Types, NoneLeft, [PTANext]_ptaVars, stage' = "done"
             PROVE  new_calls' = {} /\ new_call_instances' = {}
  BY DEF NoneLeft
<1>1. CASE Break BY <1>1 DEF Break, Advance, solverVars, vars, callVars
<1>2. CASE ~Break
  <2>1. stage = "done" /\ phase = "driver"
    BY <1>2 DEF PTANext, PTAStep, Done, SkipReachFunc, ProcessReachFunc, StartSolve, Solve,
       driverVars, TakeCalls, NewCallsDone, CallsReachDone, NewCallInstancesDone, Advance,
       ProcessNewCall, ProcessNewCallInstance, ptaVars, Types, PTATypeOK, Reaching
  <2>2. ~SolveWorklist BY <2>1, SolverRuns
  <2>3. UNCHANGED <<new_calls, new_call_instances>>
    BY <1>2, <2>1, <2>2 DEF PTANext, PTAStep, Done, SkipReachFunc, ProcessReachFunc, StartSolve,
       Solve, TakeCalls, NewCallsDone, CallsReachDone, NewCallInstancesDone, Advance,
       ProcessNewCall, ProcessNewCallInstance, ptaVars, Reaching, solverVars, vars, callVars
  <2> QED BY <2>1, <2>3 DEF NoneLeft
<1> QED BY <1>1, <1>2

(* process_fnptr_call makes the reference of every closure that it calls.  *)
LEMMA RefsHandledInv == Inv /\ RefsHandled /\ Step => RefsHandled'
<1> SUFFICES ASSUME Inv, RefsHandled, Step, NEW c \in assoc_calls'.fnptr,
                    NEW o \in Node, Visited(c[1], "fnptr", <<"fnptr", c[2], o>>, o)',
                    HasItem(o), HasRef(c[2], o)
             PROVE  \/ RefEdge(c[2], o) \in addr_edges'
                    \/ phase' \in {"fnptr", "fntrait"} /\ <<"fnptr", c[2], o>> \in todo'
  BY DEF RefsHandled, HasItem, HasRef, RefEdge
<1> DEFINE x == <<"fnptr", c[2], o>>
<1> HIDE DEF x
<1>0. x[1] = "fnptr" /\ x[2] = c[2] /\ x[3] = o BY DEF x
<1>1. c[1] \in Node /\ c[2] \in CallSite
  <2>1. TypeOK' BY TypeInv DEF Inv
  <2>2. assoc_calls'.fnptr \in SUBSET (Node \X CallSite) BY <2>1 DEF TypeOK
  <2> QED BY ONLY <2>2, c \in assoc_calls'.fnptr
(* The item leaves the loop with its reference made.                       *)
<1>2. ASSUME phase \in {"fnptr", "fntrait"}, x \in todo
      PROVE  \/ RefEdge(c[2], o) \in addr_edges'
             \/ phase' \in {"fnptr", "fntrait"} /\ x \in todo'
  <2>1. CASE ProcessFnptrCall
    <3>1. PICK y \in todo : /\ CallIteration(todo \ {y})
                            /\ HasItem(y[3]) /\ HasRef(y[2], y[3]) =>
                                 RefEdge(y[2], y[3]) \in addr_edges'
      BY <2>1 DEF ProcessFnptrCall, HasItem, HasRef, RefEdge
    <3>2. CASE y = x BY <1>0, <3>1, <3>2
    <3>3. CASE y # x BY <1>2, <3>1, <3>3 DEF CallIteration
    <3> QED BY <3>2, <3>3
  <2>2. CASE ProcessDynamicFntraitCall
    <3>1. PICK y \in todo : y[1] = "fntrait" /\ todo \ {y} \subseteq todo' /\ phase' = phase
      BY <2>2 DEF ProcessDynamicFntraitCall, CallIteration
    <3> QED BY <1>0, <1>2, <3>1
  <2>3. CASE HandleDynamicFntraitCall \/ HandlersDone
    BY <1>2, <2>3 DEF HandleDynamicFntraitCall, HandlersDone, Enter, LoopPhases
  <2>4. CASE Takes BY <1>2, <2>4 DEF Takes, ctlVars
  <2> QED BY <1>2, <2>1, <2>2, <2>3, <2>4, StepFrom
<1>3. CASE c \in assoc_calls.fnptr
  <2>1. CASE Visited(c[1], "fnptr", x, o)
    <3>1. RefEdge(c[2], o) \in addr_edges \/ (phase \in {"fnptr", "fntrait"} /\ x \in todo)
      BY <1>3, <2>1 DEF RefsHandled, x
    <3> QED BY <1>2, <3>1, EdgesKept DEF x, Inv
  <2>2. CASE JustVisited(c[1], "fnptr", x, o)
    BY <1>2, <2>2 DEF JustVisited, x
  <2>3. ~LeftOut(c[1], "fnptr", x, o)
    <3> SUFFICES ASSUME LeftOut(c[1], "fnptr", x, o) PROVE FALSE
      OBVIOUS
    <3>1. HandleFnptrCall BY EnterStep DEF Handlers
    <3>2. c[1] = cur /\ o \in diff[cur]
      BY <1>1, <3>1, NodeAssumption DEF HandleFnptrCall, Enter, LeftOut, Inv, DiffStable
    <3>3. c[2] \in Sites(assoc_calls.fnptr) BY <1>3, <3>2 DEF Sites
    <3>4. x \in todo' BY <3>1, <3>2, <3>3 DEF HandleFnptrCall, Enter, x
    <3> QED BY <3>4 DEF LeftOut
  <2>4. Visited(c[1], "fnptr", x, o)' BY DEF x
  <2> QED BY <1>1, <2>1, <2>2, <2>3, <2>4, VisitedStep DEF Handlers
<1>4. CASE c \notin assoc_calls.fnptr
  <2>1. CASE \E b \in Batch : Extends(b) /\ c \in b.fnptr
    BY <1>1, <2>1, NewSiteUnvisited
  <2>2. CASE ProcessDynamicFntraitCall
    <3>1. PICK y \in todo :
            /\ CallIteration((todo \ {y}) \cup ({"fnptr"} \X {Unpack[y[2]]} \X Pts(y[3])))
            /\ assoc_calls' = [assoc_calls EXCEPT !.fnptr = @ \cup {<<y[3], Unpack[y[2]]>>}]
            /\ UNCHANGED ptVars
      BY <1>4, <2>2 DEF ProcessDynamicFntraitCall
    <3>2. c = <<y[3], Unpack[y[2]]>> BY <1>4, <3>1 DEF Inv, TypeOK
    <3>3. c[1] = y[3] /\ c[2] = Unpack[y[2]] BY ONLY <3>2
    <3>4. propa' = propa /\ UNCHANGED <<cur, base>> BY <3>1 DEF CallIteration, ptVars
    <3>5. o \in Pts(c[1]) BY <1>1, <3>4, VisitedInPts
    <3>6. x \in todo' /\ phase' \in {"fnptr", "fntrait"}
      BY <3>1, <3>3, <3>5 DEF CallIteration, x
    <3> QED BY <3>6 DEF x
  <2> QED BY <1>4, <2>1, <2>2, SitesKept
<1> QED BY <1>3, <1>4

(* A call that has been found: the static ones of the bodies that are in   *)
(* the PAG, and those that the solver reported.                            *)
Made(c) ==
  \/ \E f \in processed_funcs \cap Func : c \in StaticCalls[f]
  \/ c \in AllCalls
  \/ \E i \in AllInstances : c = <<i[1], i[3]>>

(* What the end of the analysis has come to, part by part: bodies and call *)
(* sites are in the PAG, its edges have been followed, the calls resolved, *)
(* and the calls made pass their arguments.                                *)
BodiesSettled ==
  /\ \A g \in processed_funcs : EdgesInPag(g) /\ Deps[g] \subseteq processed_funcs
  /\ \A f \in func_nodes : f \notin SkippedFuncs \cup Unavailable => f \in processed_funcs
  /\ \A f \in processed_funcs \cap Func :
       /\ FuncPag[f].dispatch \subseteq assoc_calls.dispatch
       /\ FuncPag[f].fnptr \subseteq assoc_calls.fnptr
       /\ FuncPag[f].fntrait \subseteq assoc_calls.fntrait
       /\ \A c \in SpecialCalls[f] : CallEdge(c) \in call_graph /\ c[2] \in func_nodes
EdgesSettled ==
  /\ \A e \in addr_edges : e[1] \in Pts(e[2])
  /\ \A e \in direct_edges \cup offset_edges : \A o \in Pts(e[1]) : Passes(e, o) => o \in Pts(e[2])
  /\ \A e \in load_edges : \A o \in Pts(e[1]) : LoadEdge(e, o) \in direct_edges
  /\ \A e \in store_edges : \A o \in Pts(e[3]) : StoreEdge(e, o) \in direct_edges
  /\ \A e \in gep_edges : \A o \in Pts(e[1]) : FieldAt(e, o) \in Pts(e[3])
SitesSettled ==
  /\ \A s \in assoc_calls.dispatch : \A o \in Pts(s[1]) :
       HasMethod(s[2], o) => Made(MethodCall(s[2], o))
  /\ \A s \in assoc_calls.fnptr : \A o \in Pts(s[1]) : HasItem(o) =>
       Made(ItemCall(s[2], o)) /\ (HasRef(s[2], o) => RefEdge(s[2], o) \in addr_edges)
  /\ \A s \in assoc_calls.fntrait : \A o \in Pts(s[1]) :
       /\ o \in FnPtrObj => HeldSite(s[2], o) \in assoc_calls.fnptr
       /\ o \notin FnPtrObj /\ HasItem(o) => Made(ItemCall(Unpack[s[2]], o))
       /\ o \notin FnPtrObj /\ ~HasItem(o) /\ HasMethod(s[2], o) => Made(MethodCall(s[2], o))
CallsSettled(R) ==
  \A c : Made(c) => /\ c \in R.calls /\ CallEdge(c) \in call_graph /\ c[2] \in func_nodes
                    /\ c[2] \notin Unavailable => CallFlow[c] \subseteq direct_edges
Settled(R) == BodiesSettled /\ EdgesSettled /\ SitesSettled /\ CallsSettled(R)

LEMMA BodiesSettle ==
  ASSUME RoundInv, SpecialsIn, stage = "done"
  PROVE  BodiesSettled
<1>1. reach_funcs = {} /\ added = Nothing BY DEF RoundInv, RoundOver
<1>2. /\ added.addr = {} /\ added.direct = {} /\ added.load = {} /\ added.store = {}
      /\ added.gep = {} /\ added.offset = {} /\ added.dispatch = {}
      /\ added.fnptr = {} /\ added.fntrait = {}
  BY ONLY <1>1 DEF Nothing
<1>3. ASSUME NEW g \in processed_funcs PROVE EdgesInPag(g) /\ Deps[g] \subseteq processed_funcs
  <2>1. EdgesIn(g) /\ Deps[g] \subseteq processed_funcs BY DEF RoundInv, BodiesIn
  <2> QED BY <1>2, <2>1 DEF EdgesIn, EdgesInPag
<1>4. ASSUME NEW f \in func_nodes, f \notin SkippedFuncs \cup Unavailable
      PROVE  f \in processed_funcs
  <2>1. HasFuncPag(f) \/ f \in processed_funcs BY <1>4 DEF HasFuncPag, SkippedFuncs
  <2> QED BY <1>1, <2>1 DEF RoundInv, ReachedIn
<1>5. ASSUME NEW f \in processed_funcs \cap Func
      PROVE  /\ FuncPag[f].dispatch \subseteq assoc_calls.dispatch
             /\ FuncPag[f].fnptr \subseteq assoc_calls.fnptr
             /\ FuncPag[f].fntrait \subseteq assoc_calls.fntrait
  <2>1. SitesIn(f) BY DEF RoundInv, FuncsIn
  <2> QED BY <1>2, <2>1 DEF SitesIn
<1>6. ASSUME NEW f \in processed_funcs \cap Func, NEW c \in SpecialCalls[f]
      PROVE  CallEdge(c) \in call_graph /\ c[2] \in func_nodes
  <2>1. PICK e : e = CallEdge(c) OBVIOUS
  <2>2. e \in call_graph BY <2>1 DEF SpecialsIn
  <2>3. e[2] = c[2] BY <2>1 DEF CallEdge
  <2> QED BY <2>1, <2>2, <2>3 DEF RoundInv, Types, PTATypeOK
<1> QED BY <1>3, <1>4, <1>5, <1>6 DEF BodiesSettled

LEMMA EdgesSettle ==
  ASSUME Inv, EdgesHandled, phase = "driver"
  PROVE  EdgesSettled
<1> DEFINE pts == [v \in Node |-> Pts(v)]
<1>1. Constraints!Solution BY SolvedWhenHandled DEF Solved
<1>2. /\ \A e \in addr_edges \cup direct_edges \cup offset_edges : e[1] \in Node /\ e[2] \in Node
      /\ \A e \in load_edges \cup store_edges \cup gep_edges : e[1] \in Node /\ e[3] \in Node
  <2>1. /\ addr_edges \cup direct_edges \cup offset_edges \subseteq Node \X Node
        /\ load_edges \cup store_edges \cup gep_edges \subseteq Node \X Proj \X Node
    BY DEF Inv, TypeOK
  <2> QED BY ONLY <2>1
<1>3. \A v \in Node : pts[v] = Pts(v) OBVIOUS
<1>4. /\ \A e \in addr_edges : e[1] \in pts[e[2]]
      /\ \A e \in direct_edges \cup offset_edges : \A o \in pts[e[1]] :
           Passes(e, o) => o \in pts[e[2]]
      /\ \A e \in load_edges : \A o \in pts[e[1]] : LoadEdge(e, o) \in direct_edges
      /\ \A e \in store_edges : \A o \in pts[e[3]] : StoreEdge(e, o) \in direct_edges
      /\ \A e \in gep_edges : \A o \in pts[e[1]] : FieldAt(e, o) \in pts[e[3]]
  BY <1>1 DEF Constraints!Solution, Constraints!Flows, Passes, LoadEdge, StoreEdge, FieldAt
<1> QED BY <1>2, <1>3, <1>4 DEF EdgesSettled

(* A method call that was reported has been made.                          *)
LEMMA MethodMade ==
  ASSUME NEW cs, NEW S, Devirtualized(cs, S) \subseteq AllInstances,
         NEW o \in S, HasMethod(cs, o)
  PROVE  Made(MethodCall(cs, o))
<1>1. PICK d : d = DynCallee[cs, o] OBVIOUS
<1>2. PICK i : i = <<cs, o, d>> OBVIOUS
<1>3. i \in Devirtualized(cs, S) BY <1>1, <1>2 DEF HasMethod, Devirtualized
<1>4. MethodCall(cs, o) = <<cs, d>> BY <1>1 DEF MethodCall
<1>5. i[1] = cs /\ i[3] = d BY <1>2
<1> QED BY <1>3, <1>4, <1>5 DEF Made

LEMMA SitesSettle ==
  ASSUME Inv, CallsHandled, RefsHandled, phase = "driver"
  PROVE  SitesSettled
<1>1. CallsResolved BY ResolvedWhenHandled
<1>2. ASSUME NEW s \in assoc_calls.dispatch, NEW o \in Pts(s[1]), HasMethod(s[2], o)
      PROVE  Made(MethodCall(s[2], o))
  <2>1. Devirtualized(s[2], Pts(s[1])) \subseteq AllInstances BY <1>1 DEF CallsResolved
  <2> QED BY <1>2, <2>1, MethodMade
<1>3. ASSUME NEW s \in assoc_calls.fnptr, NEW o \in Pts(s[1]), HasItem(o)
      PROVE  Made(ItemCall(s[2], o)) /\ (HasRef(s[2], o) => RefEdge(s[2], o) \in addr_edges)
  <2>1. ItemCall(s[2], o) \in AllCalls
    BY <1>1, <1>3 DEF CallsResolved, FnptrResolved, HasItem, ItemCall
  <2>2. s[1] \in Node BY SiteType DEF Inv
  <2>3. o \in Node BY <2>2 DEF Inv, TypeOK, Pts
  <2>4. o \in propa[s[1]] BY <2>2, AllPropagated
  <2>5. HasRef(s[2], o) => RefEdge(s[2], o) \in addr_edges
    BY <1>3, <2>3, <2>4 DEF RefsHandled, Visited
  <2> QED BY <2>1, <2>5 DEF Made
<1>4. ASSUME NEW s \in assoc_calls.fntrait, NEW o \in Pts(s[1])
      PROVE  /\ o \in FnPtrObj => HeldSite(s[2], o) \in assoc_calls.fnptr
             /\ o \notin FnPtrObj /\ HasItem(o) => Made(ItemCall(Unpack[s[2]], o))
             /\ o \notin FnPtrObj /\ ~HasItem(o) /\ HasMethod(s[2], o) => Made(MethodCall(s[2], o))
  <2>1. IF o \in FnPtrObj THEN HeldSite(s[2], o) \in assoc_calls.fnptr
        ELSE IF HasItem(o) THEN ItemCall(Unpack[s[2]], o) \in AllCalls
        ELSE Devirtualized(s[2], {o}) \subseteq AllInstances
    BY <1>1 DEF CallsResolved, FntraitResolved, HeldSite, HasItem, ItemCall
  <2>2. o \notin FnPtrObj /\ ~HasItem(o) /\ HasMethod(s[2], o) => Made(MethodCall(s[2], o))
    BY <2>1, MethodMade
  <2>3. o \notin FnPtrObj /\ HasItem(o) => Made(ItemCall(Unpack[s[2]], o)) BY <2>1 DEF Made
  <2> QED BY <2>1, <2>2, <2>3
<1> QED BY <1>2, <1>3, <1>4 DEF SitesSettled

LEMMA CallsSettle ==
  ASSUME NEW R, Closed(R), Within(R), FlowsOf(R), RoundInv, NoneLeft, stage = "done"
  PROVE  CallsSettled(R)
<1> SUFFICES ASSUME NEW c, Made(c)
             PROVE  /\ c \in R.calls /\ CallEdge(c) \in call_graph /\ c[2] \in func_nodes
                    /\ c[2] \notin Unavailable => CallFlow[c] \subseteq direct_edges
  BY DEF CallsSettled
<1>2. AllCalls = taken_calls /\ AllInstances = taken_instances
  BY DEF NoneLeft, AllCalls, AllInstances
<1>3. c \in R.calls /\ CallIn(c)
  <2>1. CASE \E f \in processed_funcs \cap Func : c \in StaticCalls[f]
    <3>1. PICK f \in processed_funcs \cap Func : c \in StaticCalls[f] BY <2>1
    <3>2. f \in Analysed(R) BY DEF Within, WithinGraph
    <3> QED BY <3>1, <3>2, ClosedCalls DEF RoundInv, FuncsIn
  <2>2. CASE c \in AllCalls
    BY <1>2, <2>2 DEF Within, WithinCalls, RoundInv, TakenIn
  <2>3. CASE \E i \in AllInstances : c = <<i[1], i[3]>>
    BY <1>2, <2>3 DEF Within, WithinCalls, RoundInv, TakenIn
  <2> QED BY <2>1, <2>2, <2>3 DEF Made
<1>4. PICK e : e = CallEdge(c) OBVIOUS
<1>5. e \in call_graph /\ e[1] = Base[c[1]] /\ e[2] = c[2] BY <1>3, <1>4 DEF CallIn, CallEdge
<1>6. c[2] \in func_nodes BY <1>5 DEF RoundInv, Types, PTATypeOK
<1>7. ASSUME c[2] \notin Unavailable PROVE CallFlow[c] \subseteq direct_edges
  <2>1. CallFlow[c] \subseteq direct_edges \cup added.direct BY <1>3, <1>4, <1>5, <1>7 DEF FlowsOf
  <2>2. added.direct = {}
    <3>1. added = Nothing BY DEF RoundInv, RoundOver
    <3> QED BY ONLY <3>1 DEF Nothing
  <2> QED BY <2>1, <2>2
<1> QED BY <1>3, <1>4, <1>5, <1>6, <1>7

(* An iterate of the rules that has no more than the analysis.             *)
Below(A) ==
  /\ SolutionTyped(A) /\ A.left = SkippedFuncs
  /\ A.funcs \subseteq func_nodes
  /\ \A c \in A.calls : Made(c)
  /\ \A v \in Node : A.pts[v] \subseteq Pts(v)

(* Its bodies are in the PAG, with their call sites.                       *)
LEMMA BelowBodies ==
  ASSUME NEW A, Below(A), BodiesSettled
  PROVE  /\ Analysed(A) \subseteq processed_funcs \cap Func
         /\ EdgesOf(A, "addr") \subseteq addr_edges /\ EdgesOf(A, "direct") \subseteq direct_edges
         /\ EdgesOf(A, "load") \subseteq load_edges /\ EdgesOf(A, "store") \subseteq store_edges
         /\ EdgesOf(A, "gep") \subseteq gep_edges /\ EdgesOf(A, "offset") \subseteq offset_edges
         /\ SitesOf(A, "dispatch") \subseteq assoc_calls.dispatch
         /\ SitesOf(A, "fnptr") \subseteq assoc_calls.fnptr
         /\ SitesOf(A, "fntrait") \subseteq assoc_calls.fntrait
<1>1. Analysed(A) \subseteq processed_funcs \cap Func
  <2> SUFFICES ASSUME NEW f \in Analysed(A) PROVE f \in processed_funcs \cap Func
    OBVIOUS
  <2>1. f \in A.funcs /\ f \notin A.left /\ f \notin Unavailable BY DEF Analysed
  <2>2. f \in func_nodes /\ f \notin SkippedFuncs /\ f \in Func
    BY <2>1 DEF Below, SolutionTyped
  <2> QED BY <2>1, <2>2 DEF BodiesSettled
<1>2. PagBodies(A) \subseteq processed_funcs
  <2>1. PagFuncs(A) \subseteq processed_funcs BY <1>1 DEF PagFuncs, BodiesSettled
  <2> QED BY <2>1 DEF PagBodies, BodiesSettled
<1>3. \A g \in PagBodies(A) : EdgesInPag(g) BY <1>2 DEF BodiesSettled
<1>4. ASSUME NEW k, NEW e \in EdgesOf(A, k) PROVE \E g \in PagBodies(A) : e \in FuncPag[g][k]
  BY <1>4 DEF EdgesOf, PagBodies
<1>5. ASSUME NEW k, NEW s \in SitesOf(A, k) PROVE \E g \in Analysed(A) : s \in FuncPag[g][k]
  BY <1>5 DEF SitesOf
<1>6. /\ EdgesOf(A, "addr") \subseteq addr_edges /\ EdgesOf(A, "direct") \subseteq direct_edges
      /\ EdgesOf(A, "load") \subseteq load_edges /\ EdgesOf(A, "store") \subseteq store_edges
      /\ EdgesOf(A, "gep") \subseteq gep_edges /\ EdgesOf(A, "offset") \subseteq offset_edges
  <2>1. \A e \in EdgesOf(A, "addr") : e \in addr_edges BY <1>3, <1>4 DEF EdgesInPag
  <2>2. \A e \in EdgesOf(A, "direct") : e \in direct_edges BY <1>3, <1>4 DEF EdgesInPag
  <2>3. \A e \in EdgesOf(A, "load") : e \in load_edges BY <1>3, <1>4 DEF EdgesInPag
  <2>4. \A e \in EdgesOf(A, "store") : e \in store_edges BY <1>3, <1>4 DEF EdgesInPag
  <2>5. \A e \in EdgesOf(A, "gep") : e \in gep_edges BY <1>3, <1>4 DEF EdgesInPag
  <2>6. \A e \in EdgesOf(A, "offset") : e \in offset_edges BY <1>3, <1>4 DEF EdgesInPag
  <2> QED BY <2>1, <2>2, <2>3, <2>4, <2>5, <2>6
<1>7. /\ \A s \in SitesOf(A, "dispatch") : s \in assoc_calls.dispatch
      /\ \A s \in SitesOf(A, "fnptr") : s \in assoc_calls.fnptr
      /\ \A s \in SitesOf(A, "fntrait") : s \in assoc_calls.fntrait
  BY <1>1, <1>5 DEF BodiesSettled
<1> QED BY <1>1, <1>6, <1>7

(* What it gives its function pointers the analysis has registered.        *)
LEMMA BelowSites ==
  ASSUME NEW A, Below(A), BodiesSettled, SitesSettled
  PROVE  FnptrSites(A) \subseteq assoc_calls.fnptr
<1> SUFFICES ASSUME NEW s \in FnptrSites(A) PROVE s \in assoc_calls.fnptr
  OBVIOUS
<1>1. CASE s \in SitesOf(A, "fnptr") BY <1>1, BelowBodies
<1>2. CASE \E t \in SitesOf(A, "fntrait") : \E o \in A.pts[t[1]] \cap FnPtrObj :
             s = HeldSite(t[2], o)
  <2>1. PICK t \in SitesOf(A, "fntrait") : \E o \in A.pts[t[1]] \cap FnPtrObj : s = HeldSite(t[2], o)
    BY <1>2
  <2>2. PICK o \in A.pts[t[1]] \cap FnPtrObj : s = HeldSite(t[2], o) BY <2>1
  <2>3. t[1] \in Node BY EdgeTypes DEF Below
  <2>4. o \in Pts(t[1]) BY <2>3 DEF Below
  <2>5. t \in assoc_calls.fntrait BY BelowBodies
  <2> QED BY <2>2, <2>4, <2>5 DEF SitesSettled
<1> QED BY <1>1, <1>2, FnptrSitesSplit

(* The calls that the rules give it have been made.                        *)
LEMMA BelowCalls ==
  ASSUME NEW A, Below(A), BodiesSettled, SitesSettled, NEW c \in CallsOf(A)
  PROVE  Made(c)
<1>1. CASE \E g \in Analysed(A) : c \in StaticCalls[g]
  BY <1>1, BelowBodies DEF Made
<1>2. CASE \E s \in FnptrSites(A) : \E o \in A.pts[s[1]] : HasItem(o) /\ c = ItemCall(s[2], o)
  <2>1. PICK s \in FnptrSites(A) : \E o \in A.pts[s[1]] : HasItem(o) /\ c = ItemCall(s[2], o)
    BY <1>2
  <2>2. PICK o \in A.pts[s[1]] : HasItem(o) /\ c = ItemCall(s[2], o) BY <2>1
  <2>3. s[1] \in Node BY FnptrSiteTypes DEF Below
  <2>4. o \in Pts(s[1]) BY <2>3 DEF Below
  <2>5. s \in assoc_calls.fnptr BY BelowSites
  <2> QED BY <2>2, <2>4, <2>5 DEF SitesSettled
<1>3. CASE \E s \in SitesOf(A, "dispatch") : \E o \in A.pts[s[1]] :
             HasMethod(s[2], o) /\ c = MethodCall(s[2], o)
  <2>1. PICK s \in SitesOf(A, "dispatch") : \E o \in A.pts[s[1]] :
             HasMethod(s[2], o) /\ c = MethodCall(s[2], o)
    BY <1>3
  <2>2. PICK o \in A.pts[s[1]] : HasMethod(s[2], o) /\ c = MethodCall(s[2], o) BY <2>1
  <2>3. s[1] \in Node BY EdgeTypes DEF Below
  <2>4. o \in Pts(s[1]) BY <2>3 DEF Below
  <2>5. s \in assoc_calls.dispatch BY BelowBodies
  <2> QED BY <2>2, <2>4, <2>5 DEF SitesSettled
<1>4. CASE \E s \in SitesOf(A, "fntrait") : \E o \in A.pts[s[1]] \ FnPtrObj :
             \/ HasItem(o) /\ c = ItemCall(Unpack[s[2]], o)
             \/ ~HasItem(o) /\ HasMethod(s[2], o) /\ c = MethodCall(s[2], o)
  <2>1. PICK s \in SitesOf(A, "fntrait") : \E o \in A.pts[s[1]] \ FnPtrObj :
             \/ HasItem(o) /\ c = ItemCall(Unpack[s[2]], o)
             \/ ~HasItem(o) /\ HasMethod(s[2], o) /\ c = MethodCall(s[2], o)
    BY <1>4
  <2>2. PICK o \in A.pts[s[1]] \ FnPtrObj :
             \/ HasItem(o) /\ c = ItemCall(Unpack[s[2]], o)
             \/ ~HasItem(o) /\ HasMethod(s[2], o) /\ c = MethodCall(s[2], o)
    BY <2>1
  <2>3. s[1] \in Node BY EdgeTypes DEF Below
  <2>4. o \in Pts(s[1]) BY <2>3 DEF Below
  <2>5. s \in assoc_calls.fntrait BY BelowBodies
  <2> QED BY <2>2, <2>4, <2>5 DEF SitesSettled
<1> QED BY <1>1, <1>2, <1>3, <1>4, CallsOfSplit

(* The edges that objects follow in it are edges of the PAG.               *)
LEMMA BelowCopies ==
  ASSUME NEW A, NEW R, Below(A), Settled(R), NEW e \in Copies(A)
  PROVE  e \in direct_edges \cup offset_edges
<1>0. BodiesSettled /\ EdgesSettled BY DEF Settled
<1>1. CASE e \in EdgesOf(A, "direct") \cup EdgesOf(A, "offset") BY <1>0, <1>1, BelowBodies
<1>2. CASE \E c \in A.calls : c[2] \notin Unavailable /\ e \in CallFlow[c]
  <2>1. PICK c \in A.calls : c[2] \notin Unavailable /\ e \in CallFlow[c] BY <1>2
  <2>2. Made(c) BY DEF Below
  <2> QED BY <2>1, <2>2 DEF Settled, CallsSettled
<1>3. CASE \E l \in EdgesOf(A, "load") : \E o \in A.pts[l[1]] : e = LoadEdge(l, o)
  <2>1. PICK l \in EdgesOf(A, "load") : \E o \in A.pts[l[1]] : e = LoadEdge(l, o) BY <1>3
  <2>2. PICK o \in A.pts[l[1]] : e = LoadEdge(l, o) BY <2>1
  <2>3. l[1] \in Node /\ l \in load_edges BY <1>0, EdgeTypes, BelowBodies DEF Below
  <2>4. o \in Pts(l[1]) BY <2>3 DEF Below
  <2> QED BY <1>0, <2>2, <2>3, <2>4 DEF EdgesSettled
<1>4. CASE \E l \in EdgesOf(A, "store") : \E o \in A.pts[l[3]] : e = StoreEdge(l, o)
  <2>1. PICK l \in EdgesOf(A, "store") : \E o \in A.pts[l[3]] : e = StoreEdge(l, o) BY <1>4
  <2>2. PICK o \in A.pts[l[3]] : e = StoreEdge(l, o) BY <2>1
  <2>3. l[3] \in Node /\ l \in store_edges BY <1>0, EdgeTypes, BelowBodies DEF Below
  <2>4. o \in Pts(l[3]) BY <2>3 DEF Below
  <2> QED BY <1>0, <2>2, <2>3, <2>4 DEF EdgesSettled
<1> QED BY <1>1, <1>2, <1>3, <1>4, CopiesSplit

(* The objects that the rules give it have been found.                     *)
LEMMA BelowFacts ==
  ASSUME NEW A, NEW R, Below(A), Settled(R), NEW v \in Node, NEW o, FactGiven(A, v, o)
  PROVE  o \in Pts(v)
<1>0. BodiesSettled /\ EdgesSettled /\ SitesSettled BY DEF Settled
<1>1. CASE \E e \in Addresses(A) : e[2] = v /\ o = e[1]
  <2>1. PICK e \in Addresses(A) : e[2] = v /\ o = e[1] BY <1>1
  <2>2. CASE e \in EdgesOf(A, "addr") BY <1>0, <2>1, <2>2, BelowBodies DEF EdgesSettled
  <2>3. CASE \E s \in FnptrSites(A) : \E x \in A.pts[s[1]] : HasItem(x) /\ e = RefEdge(s[2], x)
    <3>1. PICK s \in FnptrSites(A) : \E x \in A.pts[s[1]] : HasItem(x) /\ e = RefEdge(s[2], x)
      BY <2>3
    <3>2. PICK x \in A.pts[s[1]] : HasItem(x) /\ e = RefEdge(s[2], x) BY <3>1
    <3>3. s[1] \in Node BY FnptrSiteTypes DEF Below
    <3>4. x \in Pts(s[1]) /\ s \in assoc_calls.fnptr BY <1>0, <3>3, BelowSites DEF Below
    <3>5. PICK r : r = ClosureRef[s[2], x] OBVIOUS
    <3>6. e[2] = r BY <3>2, <3>5 DEF RefEdge
    <3>7. HasRef(s[2], x) BY <2>1, <3>5, <3>6, NodeAssumption DEF HasRef
    <3>8. e \in addr_edges BY <1>0, <3>2, <3>4, <3>7 DEF SitesSettled
    <3> QED BY <1>0, <2>1, <3>8 DEF EdgesSettled
  <2> QED BY <2>2, <2>3, AddressesSplit
<1>2. CASE \E e \in Copies(A) : e[2] = v /\ o \in A.pts[e[1]] /\ Passes(e, o)
  <2>1. PICK e \in Copies(A) : e[2] = v /\ o \in A.pts[e[1]] /\ Passes(e, o) BY <1>2
  <2>2. e[1] \in Node BY CopyTypes DEF Below
  <2>3. o \in Pts(e[1]) BY <2>1, <2>2 DEF Below
  <2>4. e \in direct_edges \cup offset_edges BY BelowCopies
  <2> QED BY <1>0, <2>1, <2>3, <2>4 DEF EdgesSettled
<1>3. CASE \E e \in EdgesOf(A, "gep") : e[3] = v /\ \E x \in A.pts[e[1]] : o = FieldAt(e, x)
  <2>1. PICK e \in EdgesOf(A, "gep") : e[3] = v /\ \E x \in A.pts[e[1]] : o = FieldAt(e, x)
    BY <1>3
  <2>2. PICK x \in A.pts[e[1]] : o = FieldAt(e, x) BY <2>1
  <2>3. e[1] \in Node /\ e \in gep_edges BY <1>0, EdgeTypes, BelowBodies DEF Below
  <2>4. x \in Pts(e[1]) BY <2>3 DEF Below
  <2> QED BY <1>0, <2>1, <2>2, <2>3, <2>4 DEF EdgesSettled
<1> QED BY <1>1, <1>2, <1>3 DEF FactGiven

LEMMA BelowRules ==
  ASSUME NEW A, NEW R, Below(A), Settled(R)
  PROVE  Below(ApplyRules(A))
<1>0. BodiesSettled /\ SitesSettled /\ CallsSettled(R) BY DEF Settled
<1>1. PICK N : N = ApplyRules(A) OBVIOUS
<1>2. SolutionTyped(N) BY <1>1, RulesTyped DEF Below
<1>3. /\ N.funcs = A.funcs \cup {c[2] : c \in A.calls \cup SpecialCallsOf(A)}
      /\ N.left = A.left
      /\ N.calls = CallsOf(A)
      /\ \A v \in Node : \A o : o \in N.pts[v] <=> FactGiven(A, v, o)
  BY <1>1, RulesGive
<1>4. ASSUME NEW c \in A.calls PROVE c[2] \in func_nodes
  <2>1. Made(c) BY DEF Below
  <2> QED BY <1>0, <2>1 DEF CallsSettled
<1>5. ASSUME NEW c \in SpecialCallsOf(A) PROVE c[2] \in func_nodes
  <2>1. PICK g \in Analysed(A) : c \in SpecialCalls[g] BY DEF SpecialCallsOf
  <2>2. g \in processed_funcs \cap Func BY <1>0, BelowBodies
  <2> QED BY <1>0, <2>1, <2>2 DEF BodiesSettled
<1>6. N.funcs \subseteq func_nodes /\ N.left = SkippedFuncs
  BY <1>3, <1>4, <1>5 DEF Below
<1>7. \A c \in N.calls : Made(c) BY <1>0, <1>3, BelowCalls
<1>8. \A v \in Node : N.pts[v] \subseteq Pts(v) BY <1>3, BelowFacts
<1> QED BY <1>1, <1>2, <1>6, <1>7, <1>8 DEF Below

(* By induction over the iteration, the least solution is below the result.*)
LEMMA LeastBelow ==
  ASSUME NEW main \in Entries, main \in func_nodes, special_functions \subseteq Special,
         NEW R, Settled(R)
  PROVE  Below(LeastSolution[main][SkippedFuncs])
<1>1. PICK S : S = SkippedFuncs OBVIOUS
<1>2. S \in SUBSET Special BY <1>1 DEF SkippedFuncs
<1>3. PICK after : /\ after = [n \in Nat |-> IF n = 0 THEN Start(main, S) ELSE ApplyRules(after[n - 1])]
                   /\ Iterated(main, S) = after[Rounds]
  BY RulesIterate
<1> DEFINE N == {n \in Nat : Below(after[n])}
<1>4. 0 \in N
  <2>1. after[0] = Start(main, S) BY <1>3, Zenon
  <2>2. main \in Func BY ProgramAssumption
  <2>3. Below(Start(main, S)) BY <1>1, <1>2, <2>2 DEF Start, Below, SolutionTyped
  <2> QED BY <2>1, <2>3
<1>5. ASSUME NEW n \in Nat, n \in N PROVE n + 1 \in N
  <2>1. after[n + 1] = ApplyRules(after[n])
    <3>1. n + 1 \in Nat /\ n + 1 # 0 /\ (n + 1) - 1 = n OBVIOUS
    <3> QED BY <1>3, <3>1
  <2>2. Below(ApplyRules(after[n])) BY <1>5, BelowRules
  <2> QED BY <2>1, <2>2
<1> HIDE DEF N
<1>6. Rounds \in N BY <1>4, <1>5, Induct, RoundsSuffice
<1> QED BY <1>1, <1>2, <1>3, <1>6 DEF N, LeastSolution

-----------------------------------------------------------------------------
(* Both halves at the end of the analysis.                                 *)
ResultInv ==
  /\ EdgesHandled /\ CallsHandled /\ RefsHandled /\ SpecialsIn /\ NoneLeft
  /\ \E f \in Entries : Owned(f)
  /\ \E main \in Entries : ResultWithin(main)

LEMMA ResultInvInit ==
  ASSUME Ownership, PTAInit
  PROVE  ResultInv
<1>1. PICK main \in Entries : func_nodes = {main} BY DEF PTAInit
<1>2. ResultWithin(main) BY <1>1, WithinInit
<1>3. RefsHandled
  <2>1. assoc_calls.fnptr = {}
    <3>1. assoc_calls = [instance |-> {}, dispatch |-> {}, fnptr |-> {}, fntrait |-> {}]
      BY DEF PTAInit
    <3> QED BY ONLY <3>1
  <2> QED BY <2>1 DEF RefsHandled
<1>4. SpecialsIn /\ NoneLeft BY DEF PTAInit, SpecialsIn, NoneLeft
<1> QED BY <1>2, <1>3, <1>4, OwnedInit DEF ResultInv

LEMMA ResultInvKept ==
  ASSUME Ownership, FlowByBase, ResultInv, [PTANext]_ptaVars
  PROVE  ResultInv'
<1> PICK f \in Entries : Owned(f) BY DEF ResultInv
<1> PICK main \in Entries : ResultWithin(main) BY DEF ResultInv
<1>1. DriverInv' BY DriverInvKept DEF DriverInv, ResultInv
<1>2. Step BY OwnedStep
<1>3. Inv /\ Types BY DEF Owned, RoundInv
<1>4. RefsHandled' BY <1>2, <1>3, RefsHandledInv DEF ResultInv
<1>5. SpecialsIn' /\ NoneLeft' BY <1>3, SpecialsInKept, NoneLeftKept DEF ResultInv
<1>6. ResultWithin(main)' BY WithinStep
<1> QED BY <1>1, <1>4, <1>5, <1>6 DEF DriverInv, ResultInv

LEMMA ResultInvGives == ASSUME ResultInv PROVE ResultIsLeast
<1> SUFFICES ASSUME stage = "done"
             PROVE  \E main \in Entries :
                      LET R == LeastSolution[main][SkippedFuncs]
                      IN /\ func_nodes = R.funcs
                         /\ call_graph = {CallEdge(c) : c \in R.calls \cup SpecialCallsOf(R)}
                         /\ \A v \in Node : Pts(v) = R.pts[v]
  BY DEF ResultIsLeast, CallEdge
<1> PICK f \in Entries : Owned(f) BY DEF ResultInv
<1> PICK main \in Entries : ResultWithin(main) BY DEF ResultInv
<1>1. RoundInv /\ Inv /\ phase = "driver" BY DEF Owned, RoundInv, Types, PTATypeOK
<1>2. PICK R : R = LeastSolution[main][SkippedFuncs] OBVIOUS
<1>0. special_functions \subseteq Special
  <2>1. {} \in SUBSET Special /\ {} \cap processed_funcs = {} OBVIOUS
  <2> QED BY <2>1 DEF ResultWithin, Within, WithinGraph
<1>3. Closed(R) /\ Within(R) /\ FlowsOf(R)
  <2>1. SkippedFuncs \in SUBSET Special /\ SkippedFuncs \cap processed_funcs = {}
    BY <1>0 DEF SkippedFuncs
  <2> QED BY <1>2, <2>1, LeastClosed DEF ResultWithin
<1>4. Settled(R)
  <2>1. BodiesSettled BY <1>1, BodiesSettle DEF ResultInv
  <2>2. EdgesSettled BY <1>1, EdgesSettle DEF ResultInv
  <2>3. SitesSettled BY <1>1, SitesSettle DEF ResultInv
  <2>4. CallsSettled(R) BY <1>1, <1>3, CallsSettle DEF ResultInv
  <2> QED BY <2>1, <2>2, <2>3, <2>4 DEF Settled
<1>5. Below(R) BY <1>0, <1>2, <1>4, LeastBelow DEF ResultWithin
<1>6. func_nodes = R.funcs BY <1>3, <1>5 DEF Within, WithinGraph, Below
<1>7. \A v \in Node : Pts(v) = R.pts[v] BY <1>3, <1>5 DEF Within, WithinFacts, Below
<1>8. call_graph = {CallEdge(c) : c \in R.calls \cup SpecialCallsOf(R)}
  <2>1. \A e \in call_graph : \E c \in R.calls \cup SpecialCallsOf(R) : e = CallEdge(c)
    BY <1>3 DEF Within, WithinGraph
  <2>2. ASSUME NEW c \in R.calls PROVE CallEdge(c) \in call_graph
    BY <1>4, <1>5 DEF Below, Settled, CallsSettled
  <2>3. ASSUME NEW c \in SpecialCallsOf(R) PROVE CallEdge(c) \in call_graph
    <3>1. PICK g \in Analysed(R) : c \in SpecialCalls[g] BY DEF SpecialCallsOf
    <3>2. g \in processed_funcs \cap Func BY <1>4, <1>5, BelowBodies DEF Settled
    <3> QED BY <1>4, <3>1, <3>2 DEF Settled, BodiesSettled
  <2> QED BY <2>1, <2>2, <2>3
<1> QED BY <1>2, <1>6, <1>7, <1>8

(* The result of the context-insensitive analysis, for every program whose *)
(* bodies own what they read: when it ends, the reachable functions, the   *)
(* call graph and the points-to sets are exactly the least solution of the *)
(* rules for the entry point without the bodies that were left out for a   *)
(* summary, whatever order functions, calls and edges were processed in.   *)
(* FlowByBase excludes the programs in which two calls of one place pass   *)
(* their arguments differently.                                            *)
THEOREM ResultIsLeastCorrect ==
  ASSUME Ownership, FlowByBase
  PROVE  PTASpec => []ResultIsLeast
<1>1. PTAInit => ResultInv BY ResultInvInit
<1>2. ResultInv /\ [PTANext]_ptaVars => ResultInv' BY ResultInvKept
<1>3. ResultInv => ResultIsLeast BY ResultInvGives
<1> QED BY <1>1, <1>2, <1>3, PTL DEF PTASpec
=============================================================================
