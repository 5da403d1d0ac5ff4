---------------------------- MODULE MCPropagator ----------------------------
(* Instances of Propagator.  The program's types are struct S {f: *S}, *S  *)
(* and **S; a and b are objects of type S.                                 *)
EXTENDS Propagator

CONSTANTS a, b, af, bf, p, q, r, pp, junk, \* objects, fields, locals
          f, deref,                          \* the projections .f and none
          item, closure, cref, fp, dyn, \* function values and their pointers
          c1, c2, c3, u3, method, func, none

PointerNodes == {af, bf, p, q, r}
FlowNodes == {a, b, junk, pp} \cup PointerNodes
CallNodes == {a, b, junk, item, closure, cref, fp, dyn, p, q, r}

(* The type of a node, as far as the solver tells types apart.             *)
Kind(v) == IF v \in {a, b} THEN 0 ELSE IF v \in PointerNodes THEN 1
           ELSE IF v = pp THEN 2 ELSE IF v \in {fp, item, closure} THEN 3
           ELSE IF v = dyn THEN 4 ELSE IF v = cref THEN 5 ELSE 6

MCField == [x \in Node \X Proj |->
              IF x[2] = deref THEN x[1]
              ELSE IF x[1] = a /\ af \in Node THEN af
              ELSE IF x[1] = b /\ bf \in Node THEN bf ELSE junk]
MCFiltered == {x \in Node \X Node \X Node : Kind(x[1]) # Kind(x[2])}

NoEdges == [addr |-> {}, direct |-> {}, inter |-> {}, offset |-> {},
            load |-> {}, store |-> {}, gep |-> {}, instance |-> {},
            dispatch |-> {}, fnptr |-> {}, fntrait |-> {}]

(* No calls: every PAG with these address edges and any of the others.     *)
FlowBatches ==
  {[NoEdges EXCEPT !.addr = {<<a, p>>, <<b, q>>, <<p, pp>>},
                   !.direct = d, !.load = l, !.store = s, !.gep = g, !.offset = o] :
     d \in SUBSET {<<p, q>>, <<q, p>>},
     l \in SUBSET {<<p, f, r>>, <<pp, deref, q>>},
     s \in SUBSET {<<q, f, p>>, <<p, f, q>>, <<r, deref, pp>>},
     g \in SUBSET {<<q, f, pp>>},
     o \in {{}, {<<r, q>>, <<pp, q>>}}}

(* Calls: the driver adds the bodies of some of these functions.           *)
MCDynCallee == [x \in CallSite \X Node |->
                  IF x \in {<<c2, a>>, <<c3, b>>} THEN method
                  ELSE IF x = <<c3, a>> THEN func ELSE none]
MCFnCallee == [x \in Node |-> IF x = item THEN method
                               ELSE IF x = closure THEN func ELSE none]
MCClosureRef == [x \in CallSite \X Node |->
                   IF x \in {<<c1, closure>>, <<u3, closure>>} THEN cref ELSE none]
MCUnpack == [x \in CallSite |-> IF x = c2 THEN u3 ELSE x]
MCSelfRef == [x \in CallSite |-> p]

Bodies ==
  {[NoEdges EXCEPT !.addr = {<<item, fp>>}, !.fnptr = {<<fp, c1>>}],
   [NoEdges EXCEPT !.addr = {<<closure, fp>>, <<closure, dyn>>}],
   [NoEdges EXCEPT !.addr = {<<fp, dyn>>}, !.fntrait = {<<dyn, c2>>}],
   [NoEdges EXCEPT !.addr = {<<a, p>>}, !.direct = {<<p, q>>},
                   !.inter = {<<p, q>>}, !.dispatch = {<<q, c3>>}],
   [NoEdges EXCEPT !.addr = {<<b, q>>, <<a, dyn>>},
                   !.instance = {<<r, c3, func>>},
                   !.direct = {<<q, r>>}, !.inter = {<<q, r>>}]}

Join(B) == [k \in DOMAIN NoEdges |-> UNION {x[k] : x \in B}]
CallBatches == {Join(B) : B \in SUBSET Bodies}

(* The two kinds of program in one run: flow programs, which have all their *)
(* edges from the start, and call programs, which grow.                     *)
AllNodes == FlowNodes \cup CallNodes
AllBatches == FlowBatches \cup CallBatches
Grows == <<p, pp>> \notin addr_edges
MCNext == SolveWorklist \/ (\E x \in CallBatches : Grows /\ Driver(x)) \/ AnalysisEnd
MCSpec == Init /\ [][MCNext]_vars /\ WF_vars(SolveWorklist)
=============================================================================
