-------------------------- MODULE RapidTypeProofs --------------------------
(***************************************************************************)
(* Proofs about RapidTypeAnalysis, for every program: its state is typed,  *)
(* a round that starts has resolved every call site with every type known, *)
(* and so has the analysis when it ends; and what it found then lies       *)
(* between the two solutions of RapidTypeFixpoint.                         *)
(***************************************************************************)
EXTENDS RapidTypeFixpoint, TLAPS, WellFoundedInduction

(* What holds of the call sites in each phase: a phase establishes one     *)
(* part and the later ones keep it; a new function gives all of them up.   *)
AllClosed == UpcastsClosed /\ DynClosed /\ FntraitClosed /\ FnptrClosed
PhaseClosed ==
  /\ phase \in {"dyn", "fntrait", "fnptr"} => UpcastsClosed
  /\ phase \in {"fntrait", "fnptr"} => DynClosed
  /\ phase = "fnptr" => FntraitClosed
  /\ (phase = "process" /\ ~has_new_functions) \/ phase = "done" => AllClosed

(* What holds of the functions that were visited.                          *)
QueueComplete ==
  /\ func_nodes \subseteq visited_functions \cup reach_funcs
  /\ phase = "done" => reach_funcs = {}
Skipped == specially_handled_functions \cup Unavailable
BodiesRead == \A b \in visited_functions \ Skipped : BodyRead(b)
PromotedVisited == \A f \in (visited_functions \cap Func) \ Skipped : PromotedOf[f] \subseteq visited_functions

RtaInv == RtaTypeOK /\ PhaseClosed /\ QueueComplete /\ BodiesRead /\ PromotedVisited

-----------------------------------------------------------------------------
(* The calls of bodies, as visit_call classifies them.                     *)
InBodies(C) == \A c \in C : \E b \in Body : c \in CallsIn[b]

(* Stripping the auto traits of a trait object gives a trait object.       *)
LEMMA StripTyped == \A d \in DynTy : StripAuto[d] \in DynTy
BY RtaAssumption

(* What visit_call records is typed, and every static callee is a function *)
(* (body_visitor.rs:230-410).                                              *)
LEMMA CallsTyped ==
  ASSUME NEW C, InBodies(C)
  PROVE  /\ StaticCalls(C) \subseteq CallSite \X Func
         /\ SpecialCalls(C) \subseteq CallSite \X Func
         /\ DynCallsites(C) \subseteq Sites(DynTy)
         /\ DynFntraitCallsites(C) \subseteq Sites(DynTy)
         /\ FnptrCallsites(C) \subseteq FnPtrTy \X CallSite
<1>1. \A c \in C : c \in CallSite \X Method \X Ty
  BY RtaAssumption DEF InBodies
<1>2. FntraitCalls(C) \subseteq CallSite \X Method \X Ty
  <2>1. NextLoc \in [CallSite -> CallSite]
    BY RtaAssumption
  <2> SUFFICES ASSUME NEW y \in FntraitCalls(C)
               PROVE  y \in CallSite \X Method \X Ty
    OBVIOUS
  <2>2. CASE y \in C
    BY <1>1, <2>2
  <2>3. ASSUME NEW c \in C, y = <<NextLoc[c[1]], c[2], c[3]>>
        PROVE  y \in CallSite \X Method \X Ty
    <3>1. c[1] \in CallSite /\ c[2] \in Method /\ c[3] \in Ty
      BY <1>1
    <3>2. NextLoc[c[1]] \in CallSite
      BY <2>1, <3>1
    <3> QED BY <2>3, <3>1, <3>2
  <2> QED BY <2>2, <2>3 DEF FntraitCalls
<1>3. \A c \in CallSite \X Method \X Ty : Callee(c) \in Func \cup {None}
  BY RtaAssumption DEF Callee, ImplWithMir
<1>4. StaticCalls(C) \subseteq CallSite \X Func
  BY <1>1, <1>2, <1>3 DEF StaticCalls
<1>5. SpecialCalls(C) \subseteq CallSite \X Func
  <2>1. \A c \in C : c[2] \in Special => c[1] \in CallSite /\
          (IF Devirt[c[2], c[3]] # None THEN Devirt[c[2], c[3]] ELSE Direct[c[2], c[3]]) \in Func
    <3> SUFFICES ASSUME NEW c \in C, c[2] \in Special
                 PROVE  c[1] \in CallSite /\
          (IF Devirt[c[2], c[3]] # None THEN Devirt[c[2], c[3]] ELSE Direct[c[2], c[3]]) \in Func
      OBVIOUS
    <3>1. PICK b \in Body : c \in CallsIn[b]
      BY DEF InBodies
    <3>2. \E g \in {Direct[c[2], c[3]], Devirt[c[2], c[3]]} : g # None
      BY <3>1, RtaAssumption
    <3>3. Direct[c[2], c[3]] \in Func \cup {None} /\ Devirt[c[2], c[3]] \in Func \cup {None}
      BY <1>1, RtaAssumption
    <3> QED BY <1>1, <3>2, <3>3
  <2> SUFFICES ASSUME NEW y \in SpecialCalls(C)
               PROVE  y \in CallSite \X Func
    OBVIOUS
  <2>2. PICK c \in C : c[2] \in Special /\
          y = <<c[1], IF Devirt[c[2], c[3]] # None THEN Devirt[c[2], c[3]] ELSE Direct[c[2], c[3]]>>
    BY Zenon DEF SpecialCalls
  <2> QED BY <2>1, <2>2
<1>6. DynCallsites(C) \subseteq Sites(DynTy)
  <2> SUFFICES ASSUME NEW y \in DynCallsites(C) PROVE y \in DynTy \X CallSite \X Method
    BY DEF Sites
  <2>1. PICK c \in C : c[3] \in DynTy /\ y = <<StripAuto[c[3]], c[1], c[2]>>
    BY Zenon DEF DynCallsites
  <2>2. StripAuto[c[3]] \in DynTy
    BY <2>1, StripTyped
  <2> QED BY <1>1, <2>1, <2>2
<1>7. DynFntraitCallsites(C) \subseteq Sites(DynTy)
  <2> SUFFICES ASSUME NEW y \in DynFntraitCallsites(C) PROVE y \in DynTy \X CallSite \X Method
    BY DEF Sites
  <2>1. PICK c \in FntraitCalls(C) : c[3] \in DynTy /\ y = <<StripAuto[c[3]], c[1], c[2]>>
    BY Zenon DEF DynFntraitCallsites
  <2>2. StripAuto[c[3]] \in DynTy
    BY <2>1, StripTyped
  <2> QED BY <1>2, <2>1, <2>2
<1>8. FnptrCallsites(C) \subseteq FnPtrTy \X CallSite
  BY <1>1, <1>2 DEF FnptrCallsites
<1> QED BY <1>4, <1>5, <1>6, <1>7, <1>8

(* What visit_assign records is typed (body_visitor.rs:103-165).           *)
LEMMA CastsTyped ==
  ASSUME NEW c \in Ty \X Ty
  PROVE  /\ ConcreteTypes(c) \subseteq DynTy \X (Ty \ DynTy)
         /\ FnptrTargets(c) \subseteq FnPtrTy \X {t \in Ty : FnItem[t] # None}
         /\ Upcastings(c) \subseteq DynTy \X DynTy
<1>1. Unsized(c) \subseteq Ty \X DynTy
  <2>1. UnsizeArgs[c] \subseteq Ty \X Ty
    BY RtaAssumption
  <2> QED BY <2>1 DEF Unsized
<1>2. ConcreteTypes(c) \subseteq DynTy \X (Ty \ DynTy)
  <2> SUFFICES ASSUME NEW y \in ConcreteTypes(c) PROVE y \in DynTy \X (Ty \ DynTy)
    OBVIOUS
  <2>1. PICK p \in Unsized(c) : p[1] \notin DynTy /\ y = <<StripAuto[p[2]], p[1]>>
    BY Zenon DEF ConcreteTypes
  <2>2. p[1] \in Ty /\ p[2] \in DynTy
    BY <1>1
  <2> QED BY <2>1, <2>2, StripTyped
<1>3. Upcastings(c) \subseteq DynTy \X DynTy
  <2> SUFFICES ASSUME NEW y \in Upcastings(c) PROVE y \in DynTy \X DynTy
    OBVIOUS
  <2>1. PICK p \in Unsized(c) : p[1] \in DynTy /\ y = <<StripAuto[p[1]], StripAuto[p[2]]>>
    BY Zenon DEF Upcastings
  <2>2. p[2] \in DynTy
    BY <1>1
  <2> QED BY <2>1, <2>2, StripTyped
<1>4. FnptrTargets(c) \subseteq FnPtrTy \X {t \in Ty : FnItem[t] # None}
  BY DEF FnptrTargets
<1> QED BY <1>2, <1>3, <1>4

(* The calls of a part of the bodies are among those of all of them.       *)
LEMMA CallsMonotone ==
  ASSUME NEW C, NEW D, D \subseteq C
  PROVE  /\ StaticCalls(D) \subseteq StaticCalls(C)
         /\ SpecialCalls(D) \subseteq SpecialCalls(C)
         /\ DynCallsites(D) \subseteq DynCallsites(C)
         /\ DynFntraitCallsites(D) \subseteq DynFntraitCallsites(C)
         /\ FnptrCallsites(D) \subseteq FnptrCallsites(C)
<1>1. FntraitCalls(D) \subseteq FntraitCalls(C)
  BY DEF FntraitCalls
<1>2. StaticCalls(D) \subseteq StaticCalls(C)
  BY <1>1 DEF StaticCalls
<1>3. SpecialCalls(D) \subseteq SpecialCalls(C)
  BY DEF SpecialCalls
<1>4. DynCallsites(D) \subseteq DynCallsites(C)
  BY DEF DynCallsites
<1>5. DynFntraitCallsites(D) \subseteq DynFntraitCallsites(C)
  BY <1>1 DEF DynFntraitCallsites
<1>6. FnptrCallsites(D) \subseteq FnptrCallsites(C)
  BY <1>1 DEF FnptrCallsites
<1> QED BY <1>2, <1>3, <1>4, <1>5, <1>6

(* The calls that a solve finds are typed, and so are its new sites.       *)
LEMMA ResolvedTyped ==
  ASSUME RtaTypeOK
  PROVE  /\ DynCalls \subseteq CallSite \X Func
         /\ DynFntraitCalls \subseteq CallSite \X Func
         /\ DynFntraitFnptrCalls \subseteq FnPtrTy \X CallSite
         /\ FnptrCalls \subseteq CallSite \X Func
<1>1. /\ Instantiated(dyn_callsites) \subseteq Sites(DynTy) \X Ty
      /\ Instantiated(dyn_fntrait_callsites) \subseteq Sites(DynTy) \X Ty
  BY DEF Instantiated, RtaTypeOK
<1>2. DynCalls \subseteq CallSite \X Func
  <2>1. \A m \in Method, t \in Ty : Devirt[m, t] \in Func \cup {None}
    BY RtaAssumption
  <2> SUFFICES ASSUME NEW y \in DynCalls PROVE y \in CallSite \X Func
    OBVIOUS
  <2>2. PICK x \in Instantiated(dyn_callsites) :
          Devirt[x[1][3], x[2]] # None /\ y = <<x[1][2], Devirt[x[1][3], x[2]]>>
    BY Zenon DEF DynCalls
  <2>3. x[1][2] \in CallSite /\ x[1][3] \in Method /\ x[2] \in Ty
    BY <1>1 DEF Sites
  <2>4. Devirt[x[1][3], x[2]] \in Func \cup {None}
    BY <2>1, <2>3
  <2> QED BY <2>2, <2>3, <2>4
<1>3. DynFntraitCalls \subseteq CallSite \X Func
  <2>1. \A m \in Method, t \in Ty : FntraitTarget(m, t) \in Func \cup {None}
    BY RtaAssumption DEF FntraitTarget, ImplWithMir
  <2> SUFFICES ASSUME NEW y \in DynFntraitCalls PROVE y \in CallSite \X Func
    OBVIOUS
  <2>2. PICK x \in Instantiated(dyn_fntrait_callsites) :
          FntraitTarget(x[1][3], x[2]) # None /\ y = <<x[1][2], FntraitTarget(x[1][3], x[2])>>
    BY Zenon DEF DynFntraitCalls
  <2>3. x[1][2] \in CallSite /\ x[1][3] \in Method /\ x[2] \in Ty
    BY <1>1 DEF Sites
  <2>4. FntraitTarget(x[1][3], x[2]) \in Func \cup {None}
    BY <2>1, <2>3
  <2> QED BY <2>2, <2>3, <2>4
<1>4. DynFntraitFnptrCalls \subseteq FnPtrTy \X CallSite
  BY <1>1 DEF DynFntraitFnptrCalls, Sites
<1>5. FnptrCalls \subseteq CallSite \X Func
  <2>1. \A t \in Ty : FnItem[t] \in Func \cup {None}
    BY RtaAssumption
  <2> SUFFICES ASSUME NEW y \in FnptrCalls PROVE y \in CallSite \X Func
    OBVIOUS
  <2>2. PICK x \in fnptr_callsites \X fnptr_sig_to_possible_targets :
          y = <<x[1][2], FnItem[x[2][2]]>>
    BY Zenon DEF FnptrCalls
  <2>3. x[1] \in FnPtrTy \X CallSite /\ x[2] \in FnPtrTy \X {t \in Ty : FnItem[t] # None}
    BY DEF RtaTypeOK
  <2> QED BY <2>1, <2>2, <2>3
<1> QED BY <1>2, <1>3, <1>4, <1>5

(* Call edges keep the nodes and the queue typed, and no node is lost.     *)
LEMMA EdgesTyped ==
  ASSUME NEW E, NEW rest, E \subseteq CallSite \X Func, RtaTypeOK,
         rest \subseteq reach_funcs, AddCallEdges(E, rest)
  PROVE  /\ call_graph' \subseteq CallSite \X Func
         /\ func_nodes' \subseteq Body /\ reach_funcs' \subseteq func_nodes'
         /\ call_graph \subseteq call_graph' /\ E \subseteq call_graph'
         /\ func_nodes \subseteq func_nodes'
         /\ {e[2] : e \in E} \subseteq func_nodes'
         /\ func_nodes' \subseteq func_nodes \cup reach_funcs'
         /\ rest \subseteq reach_funcs'
<1> DEFINE funcs == UNION {{SiteBody[e[1]], e[2]} : e \in E}
<1>1. funcs \subseteq Body
  <2>1. \A cs \in CallSite : SiteBody[cs] \in Body
    BY RtaAssumption
  <2>2. ASSUME NEW e \in E PROVE SiteBody[e[1]] \in Body /\ e[2] \in Body
    <3>1. e[1] \in CallSite /\ e[2] \in Func
      OBVIOUS
    <3> QED BY <2>1, <3>1 DEF Body
  <2>3. \A y \in funcs : \E e \in E : y = SiteBody[e[1]] \/ y = e[2]
    BY Zenon
  <2> QED BY <2>2, <2>3
<1>2. {e[2] : e \in E} \subseteq funcs
  OBVIOUS
<1>3. /\ call_graph' = call_graph \cup E
      /\ func_nodes' = func_nodes \cup funcs
      /\ reach_funcs' = rest \cup (funcs \ func_nodes)
  BY DEF AddCallEdges
<1> HIDE DEF funcs
<1> QED BY <1>1, <1>2, <1>3 DEF RtaTypeOK

(* What was read of a body stays read while the state only grows.          *)
LEMMA BodyReadStable ==
  ASSUME NEW b, BodyRead(b),
         call_graph \subseteq call_graph',
         specially_handled_functions \subseteq specially_handled_functions',
         dyn_callsites \subseteq dyn_callsites',
         dyn_fntrait_callsites \subseteq dyn_fntrait_callsites',
         fnptr_callsites \subseteq fnptr_callsites',
         dynamic_to_possible_concrete_types \subseteq dynamic_to_possible_concrete_types',
         fnptr_sig_to_possible_targets \subseteq fnptr_sig_to_possible_targets',
         trait_upcasting_relations \subseteq trait_upcasting_relations'
  PROVE  BodyRead(b)'
BY DEF BodyRead

(* The two parts about visited functions survive a step that visits none.  *)
LEMMA VisitedStable ==
  ASSUME BodiesRead, PromotedVisited, UNCHANGED visitVars, UNCHANGED siteVars, UNCHANGED typeVars,
         call_graph \subseteq call_graph', fnptr_callsites \subseteq fnptr_callsites',
         dynamic_to_possible_concrete_types \subseteq dynamic_to_possible_concrete_types'
  PROVE  BodiesRead' /\ PromotedVisited'
<1>1. ASSUME NEW b \in visited_functions' \ Skipped'
      PROVE  BodyRead(b)'
  <2>1. BodyRead(b)
    BY DEF BodiesRead, Skipped, visitVars
  <2> QED BY <2>1, BodyReadStable DEF visitVars, siteVars, typeVars
<1>2. BodiesRead'
  BY <1>1 DEF BodiesRead
<1>3. PromotedVisited'
  BY DEF PromotedVisited, Skipped, visitVars
<1> QED BY <1>2, <1>3

-----------------------------------------------------------------------------
(* The step that visits a function keeps the invariant.                    *)
LEMMA ProcessKeepsInv ==
  ASSUME RtaInv, ProcessFunction
  PROVE  RtaInv'
<1> DEFINE B(f) == Bodies(f)
           C(f) == UNION {CallsIn[b] : b \in B(f)}
           T(f) == UNION {Casts[b] : b \in B(f)}
<1>1. PICK f \in reach_funcs :
        /\ AddCallEdges(StaticCalls(C(f)) \cup SpecialCalls(C(f)), reach_funcs \ {f})
        /\ visited_functions' = visited_functions \cup {f} \cup B(f)
        /\ specially_handled_functions' =
             specially_handled_functions \cup {e[2] : e \in SpecialCalls(C(f))}
        /\ dyn_callsites' = dyn_callsites \cup DynCallsites(C(f))
        /\ dyn_fntrait_callsites' = dyn_fntrait_callsites \cup DynFntraitCallsites(C(f))
        /\ fnptr_callsites' = fnptr_callsites \cup FnptrCallsites(C(f))
        /\ dynamic_to_possible_concrete_types' =
             dynamic_to_possible_concrete_types \cup UNION {ConcreteTypes(c) : c \in T(f)}
        /\ fnptr_sig_to_possible_targets' =
             fnptr_sig_to_possible_targets \cup UNION {FnptrTargets(c) : c \in T(f)}
        /\ trait_upcasting_relations' =
             trait_upcasting_relations \cup UNION {Upcastings(c) : c \in T(f)}
  BY Zenon DEF ProcessFunction
<1>2. phase' = "process" /\ phase = "process" /\ has_new_functions' = TRUE
  BY DEF ProcessFunction
<1>3. f \in Body
  BY DEF RtaInv, RtaTypeOK
<1>4. B(f) \subseteq Body
  <2>1. PromotedOf[f] \subseteq Promoted
    BY <1>3, RtaAssumption
  <2> QED BY <1>3, <2>1 DEF Bodies, Body
<1>5. InBodies(C(f))
  BY <1>4 DEF InBodies
<1>6. \A c \in T(f) : c \in Ty \X Ty
  <2>1. Casts \in [Body -> SUBSET (Ty \X Ty)]
    BY RtaAssumption
  <2> QED BY <1>4, <2>1
<1>7. \A b \in B(f) : CallsIn[b] \subseteq C(f) /\ Casts[b] \subseteq T(f)
  OBVIOUS
<1>8. B(f) = IF f \in visited_functions \cup Skipped THEN {}
             ELSE {f} \cup (PromotedOf[f] \ visited_functions)
  BY DEF Bodies, Skipped
<1> HIDE DEF B, C, T
<1>9. /\ StaticCalls(C(f)) \cup SpecialCalls(C(f)) \subseteq CallSite \X Func
      /\ SpecialCalls(C(f)) \subseteq CallSite \X Func
      /\ DynCallsites(C(f)) \subseteq Sites(DynTy)
      /\ DynFntraitCallsites(C(f)) \subseteq Sites(DynTy)
      /\ FnptrCallsites(C(f)) \subseteq FnPtrTy \X CallSite
  BY <1>5, CallsTyped
<1>10. /\ call_graph' \subseteq CallSite \X Func
       /\ func_nodes' \subseteq Body /\ reach_funcs' \subseteq func_nodes'
       /\ call_graph \subseteq call_graph'
       /\ StaticCalls(C(f)) \cup SpecialCalls(C(f)) \subseteq call_graph'
       /\ func_nodes \subseteq func_nodes'
       /\ {e[2] : e \in StaticCalls(C(f)) \cup SpecialCalls(C(f))} \subseteq func_nodes'
       /\ func_nodes' \subseteq func_nodes \cup reach_funcs'
       /\ reach_funcs \ {f} \subseteq reach_funcs'
  BY <1>1, <1>9, EdgesTyped DEF RtaInv
<1>11. RtaTypeOK'
  <2>1. \A c \in T(f) : /\ ConcreteTypes(c) \subseteq DynTy \X (Ty \ DynTy)
                       /\ FnptrTargets(c) \subseteq FnPtrTy \X {t \in Ty : FnItem[t] # None}
                       /\ Upcastings(c) \subseteq DynTy \X DynTy
    BY <1>6, CastsTyped
  <2>2. /\ dynamic_to_possible_concrete_types' \subseteq DynTy \X (Ty \ DynTy)
        /\ fnptr_sig_to_possible_targets' \subseteq FnPtrTy \X {t \in Ty : FnItem[t] # None}
        /\ trait_upcasting_relations' \subseteq DynTy \X DynTy
    BY <1>1, <2>1 DEF RtaInv, RtaTypeOK
  <2>3. specially_handled_functions' \subseteq func_nodes' \cap Func
    <3>1. {e[2] : e \in SpecialCalls(C(f))} \subseteq func_nodes' \cap Func
      BY <1>9, <1>10
    <3> QED BY <1>1, <1>10, <3>1 DEF RtaInv, RtaTypeOK
  <2>4. /\ dyn_callsites' \cup dyn_fntrait_callsites' \subseteq Sites(DynTy)
        /\ fnptr_callsites' \subseteq FnPtrTy \X CallSite
        /\ visited_functions' \subseteq Body
    BY <1>1, <1>3, <1>4, <1>9 DEF RtaInv, RtaTypeOK
  <2> QED BY <1>2, <1>10, <2>2, <2>3, <2>4 DEF RtaTypeOK, Phases
<1>12. PhaseClosed'
  BY <1>2 DEF PhaseClosed
<1>13. QueueComplete'
  BY <1>1, <1>2, <1>10 DEF RtaInv, QueueComplete
<1>14. BodiesRead'
  <2> SUFFICES ASSUME NEW b \in visited_functions' \ Skipped'
               PROVE  BodyRead(b)'
    BY DEF BodiesRead
  <2>1. Skipped \subseteq Skipped'
    BY <1>1 DEF Skipped
  <2>2. CASE b \in visited_functions
    <3>1. BodyRead(b)
      BY <2>1, <2>2 DEF RtaInv, BodiesRead
    <3> QED BY <1>1, <1>10, <3>1, BodyReadStable
  <2>3. CASE b \in B(f)
    <3>1. /\ StaticCalls(CallsIn[b]) \subseteq StaticCalls(C(f))
          /\ SpecialCalls(CallsIn[b]) \subseteq SpecialCalls(C(f))
          /\ DynCallsites(CallsIn[b]) \subseteq DynCallsites(C(f))
          /\ DynFntraitCallsites(CallsIn[b]) \subseteq DynFntraitCallsites(C(f))
          /\ FnptrCallsites(CallsIn[b]) \subseteq FnptrCallsites(C(f))
      BY <1>7, <2>3, CallsMonotone
    <3>2. \A c \in Casts[b] :
            /\ ConcreteTypes(c) \subseteq dynamic_to_possible_concrete_types'
            /\ FnptrTargets(c) \subseteq fnptr_sig_to_possible_targets'
            /\ Upcastings(c) \subseteq trait_upcasting_relations'
      BY <1>1, <1>7, <2>3
    <3>3. {e[2] : e \in SpecialCalls(CallsIn[b])} \subseteq specially_handled_functions'
      BY <1>1, <3>1
    <3> QED BY <1>1, <1>10, <3>1, <3>2, <3>3 DEF BodyRead
  <2>4. CASE b = f /\ b \notin visited_functions
    BY <1>8, <2>1, <2>3, <2>4
  <2> QED BY <1>1, <2>2, <2>3, <2>4
<1>15. PromotedVisited'
  <2> SUFFICES ASSUME NEW g \in (visited_functions' \cap Func) \ Skipped'
               PROVE  PromotedOf[g] \subseteq visited_functions'
    BY DEF PromotedVisited
  <2>1. Skipped \subseteq Skipped'
    BY <1>1 DEF Skipped
  <2>2. CASE g \in visited_functions
    BY <1>1, <2>1, <2>2 DEF RtaInv, PromotedVisited
  <2>3. CASE g = f /\ g \notin visited_functions
    BY <1>1, <1>8, <2>1, <2>3
  <2>4. CASE g \notin visited_functions /\ g # f
    <3>1. g \in PromotedOf[f]
      BY <1>1, <1>8, <2>4
    <3>2. PromotedOf[f] \subseteq Promoted
      BY <1>3, RtaAssumption
    <3> QED BY <3>1, <3>2, RtaAssumption
  <2> QED BY <2>2, <2>3, <2>4
<1> QED BY <1>11, <1>12, <1>13, <1>14, <1>15 DEF RtaInv

(* So does the step to another round or to the end.                        *)
LEMMA ProcessedKeepsInv ==
  ASSUME RtaInv, FunctionsProcessed
  PROVE  RtaInv'
<1> USE DEF FunctionsProcessed, graphVars
<1>1. RtaTypeOK'
  BY DEF RtaInv, RtaTypeOK, Phases, siteVars, typeVars, visitVars
<1>2. PhaseClosed'
  <2>1. CASE has_new_functions
    BY <2>1 DEF PhaseClosed
  <2>2. CASE ~has_new_functions
    <3>1. AllClosed
      BY <2>2 DEF RtaInv, PhaseClosed
    <3>2. AllClosed'
      BY <3>1 DEF AllClosed, UpcastsClosed, UpcastPending, Upcast, ConcreteTypesOf, DynClosed,
         DynCalls, FntraitClosed, DynFntraitCalls, DynFntraitFnptrCalls, Instantiated,
         FnptrClosed, FnptrCalls, siteVars, typeVars
    <3> QED BY <2>2, <3>2 DEF PhaseClosed
  <2> QED BY <2>1, <2>2
<1>3. QueueComplete'
  BY DEF RtaInv, QueueComplete, visitVars
<1>4. BodiesRead' /\ PromotedVisited'
  BY VisitedStable DEF RtaInv
<1> QED BY <1>1, <1>2, <1>3, <1>4 DEF RtaInv

(* So does an upcast, and the end of the upcasts establishes their part.   *)
LEMMA UpcastKeepsInv ==
  ASSUME RtaInv, UpcastStep \/ UpcastDone
  PROVE  RtaInv'
<1>1. CASE UpcastStep
  <2> USE <1>1 DEF UpcastStep, graphVars
  <2>1. PICK u \in trait_upcasting_relations :
          dynamic_to_possible_concrete_types' = dynamic_to_possible_concrete_types \cup Upcast(u)
    OBVIOUS
  <2>2. Upcast(u) \subseteq DynTy \X (Ty \ DynTy)
    BY DEF Upcast, ConcreteTypesOf, RtaInv, RtaTypeOK
  <2>3. RtaTypeOK'
    BY <2>1, <2>2 DEF RtaInv, RtaTypeOK, siteVars, typeVars, visitVars
  <2>4. PhaseClosed' /\ QueueComplete'
    BY DEF RtaInv, PhaseClosed, QueueComplete, visitVars
  <2>5. BodiesRead' /\ PromotedVisited'
    BY <2>1, VisitedStable DEF RtaInv
  <2> QED BY <2>3, <2>4, <2>5 DEF RtaInv
<1>2. CASE UpcastDone
  <2> USE <1>2 DEF UpcastDone, graphVars
  <2>1. RtaTypeOK'
    BY DEF RtaInv, RtaTypeOK, Phases, siteVars, typeVars, visitVars
  <2>2. UpcastsClosed'
    BY DEF UpcastsClosed, UpcastPending, Upcast, ConcreteTypesOf, typeVars
  <2>3. PhaseClosed' /\ QueueComplete'
    BY <2>2 DEF RtaInv, PhaseClosed, QueueComplete, visitVars
  <2>4. BodiesRead' /\ PromotedVisited'
    BY VisitedStable DEF RtaInv
  <2> QED BY <2>1, <2>3, <2>4 DEF RtaInv
<1> QED BY <1>1, <1>2

(* The upcasts that were made stay made while types are only read.         *)
LEMMA UpcastsStable ==
  ASSUME UpcastsClosed, UNCHANGED dynamic_to_possible_concrete_types, UNCHANGED typeVars
  PROVE  UpcastsClosed'
BY DEF UpcastsClosed, UpcastPending, Upcast, ConcreteTypesOf, typeVars

(* Resolved calls stay resolved while types are only read: call sites of   *)
(* trait methods and of Fn objects, with edges and sites only added.       *)
LEMMA DynStable ==
  ASSUME UNCHANGED dynamic_to_possible_concrete_types, UNCHANGED siteVars,
         call_graph \subseteq call_graph', fnptr_callsites \subseteq fnptr_callsites'
  PROVE  /\ DynCalls' = DynCalls /\ DynFntraitCalls' = DynFntraitCalls
         /\ DynFntraitFnptrCalls' = DynFntraitFnptrCalls
         /\ (DynClosed => DynClosed') /\ (FntraitClosed => FntraitClosed')
BY DEF DynClosed, DynCalls, FntraitClosed, DynFntraitCalls, DynFntraitFnptrCalls,
   Instantiated, ConcreteTypesOf, siteVars

(* So do the three steps that resolve calls.                               *)
LEMMA SolveKeepsInv ==
  ASSUME RtaInv, SolveDynCallsites \/ SolveDynFntraitCallsites \/ SolveFnptrCallsites
  PROVE  RtaInv'
<1>1. PICK E \in {DynCalls, DynFntraitCalls, FnptrCalls} : AddCallEdges(E, reach_funcs)
  BY DEF SolveDynCallsites, SolveDynFntraitCallsites, SolveFnptrCallsites
<1>2. UNCHANGED <<siteVars, typeVars, dynamic_to_possible_concrete_types, visitVars>>
  BY DEF SolveDynCallsites, SolveDynFntraitCallsites, SolveFnptrCallsites
<1>3. RtaTypeOK
  BY DEF RtaInv
<1>4. /\ call_graph' \subseteq CallSite \X Func
      /\ func_nodes' \subseteq Body /\ reach_funcs' \subseteq func_nodes'
      /\ call_graph \subseteq call_graph' /\ E \subseteq call_graph'
      /\ func_nodes \subseteq func_nodes'
      /\ func_nodes' \subseteq func_nodes \cup reach_funcs'
      /\ reach_funcs \subseteq reach_funcs'
  <2>1. E \subseteq CallSite \X Func
    BY <1>3, ResolvedTyped
  <2> QED BY <1>1, <1>3, <2>1, EdgesTyped
<1>5. /\ fnptr_callsites' \subseteq FnPtrTy \X CallSite
      /\ fnptr_callsites \subseteq fnptr_callsites'
  BY <1>3, ResolvedTyped DEF RtaTypeOK,
     SolveDynCallsites, SolveDynFntraitCallsites, SolveFnptrCallsites
<1>6. phase \in {"dyn", "fntrait", "fnptr"} /\ phase' \in {"fntrait", "fnptr", "process"}
  BY DEF SolveDynCallsites, SolveDynFntraitCallsites, SolveFnptrCallsites
<1>7. RtaTypeOK'
  <2>1. has_new_functions' \in BOOLEAN
    BY <1>3 DEF RtaTypeOK, SolveDynCallsites, SolveDynFntraitCallsites, SolveFnptrCallsites
  <2> QED BY <1>2, <1>3, <1>4, <1>5, <1>6, <2>1 DEF RtaTypeOK, Phases, siteVars, typeVars, visitVars
<1>8. QueueComplete'
  BY <1>2, <1>4, <1>6 DEF RtaInv, QueueComplete, visitVars
<1>9. BodiesRead' /\ PromotedVisited'
  BY <1>2, <1>4, <1>5, VisitedStable DEF RtaInv
<1>10. UpcastsClosed'
  BY <1>2, <1>6, UpcastsStable DEF RtaInv, PhaseClosed
<1>11. /\ DynCalls' = DynCalls /\ DynFntraitCalls' = DynFntraitCalls
       /\ DynFntraitFnptrCalls' = DynFntraitFnptrCalls
       /\ (DynClosed => DynClosed') /\ (FntraitClosed => FntraitClosed')
  BY <1>2, <1>4, <1>5, DynStable
<1>12. PhaseClosed'
  <2>1. CASE SolveDynCallsites
    <3>1. DynClosed' /\ phase' = "fntrait"
      BY <1>11, <2>1 DEF SolveDynCallsites, AddCallEdges, DynClosed
    <3> QED BY <1>10, <3>1 DEF PhaseClosed
  <2>2. CASE SolveDynFntraitCallsites
    <3>1. FntraitClosed' /\ phase' = "fnptr" /\ phase = "fntrait"
      BY <1>11, <2>2 DEF SolveDynFntraitCallsites, AddCallEdges, FntraitClosed
    <3>2. DynClosed'
      BY <1>11, <3>1 DEF RtaInv, PhaseClosed
    <3> QED BY <1>10, <3>1, <3>2 DEF PhaseClosed
  <2>3. CASE SolveFnptrCallsites
    <3>1. phase = "fnptr" /\ phase' = "process"
      BY <2>3 DEF SolveFnptrCallsites
    <3>2. DynClosed' /\ FntraitClosed'
      BY <1>11, <3>1 DEF RtaInv, PhaseClosed
    <3>3. FnptrCalls' = FnptrCalls
      BY <1>2, <2>3 DEF SolveFnptrCallsites, FnptrCalls, typeVars
    <3>4. FnptrClosed'
      BY <2>3, <3>3 DEF SolveFnptrCallsites, AddCallEdges, FnptrClosed
    <3> QED BY <1>10, <3>1, <3>2, <3>4 DEF PhaseClosed, AllClosed
  <2> QED BY <2>1, <2>2, <2>3
<1> QED BY <1>7, <1>8, <1>9, <1>12 DEF RtaInv

-----------------------------------------------------------------------------
(* At the start nothing is known, so that everything known is resolved.    *)
LEMMA InitHasInv == RtaInit => RtaInv
<1> SUFFICES ASSUME RtaInit PROVE RtaInv
  OBVIOUS
<1> USE DEF RtaInit
<1>1. RtaTypeOK
  <2>1. PICK e \in Entries : func_nodes = {e}
    BY Zenon
  <2>2. e \in Func
    BY RtaAssumption
  <2> QED BY <2>1, <2>2 DEF RtaTypeOK, Phases, Body
<1>2. AllClosed
  BY DEF AllClosed, UpcastsClosed, DynClosed, DynCalls, FntraitClosed, DynFntraitCalls,
     DynFntraitFnptrCalls, Instantiated, FnptrClosed, FnptrCalls
<1>3. PhaseClosed /\ QueueComplete
  BY <1>2 DEF PhaseClosed, QueueComplete
<1>4. BodiesRead /\ PromotedVisited
  BY DEF BodiesRead, PromotedVisited
<1> QED BY <1>1, <1>3, <1>4 DEF RtaInv

(* The inductive invariant, in every behaviour of the analysis.            *)
LEMMA RtaInvHolds == RtaSpec => []RtaInv
<1>1. RtaInv /\ [RtaNext]_rtaVars => RtaInv'
  <2> SUFFICES ASSUME RtaInv, [RtaNext]_rtaVars PROVE RtaInv'
    OBVIOUS
  <2>1. CASE ProcessFunction
    BY <2>1, ProcessKeepsInv
  <2>2. CASE FunctionsProcessed
    BY <2>2, ProcessedKeepsInv
  <2>3. CASE UpcastStep \/ UpcastDone
    BY <2>3, UpcastKeepsInv
  <2>4. CASE SolveDynCallsites \/ SolveDynFntraitCallsites \/ SolveFnptrCallsites
    BY <2>4, SolveKeepsInv
  <2>5. CASE UNCHANGED rtaVars
    <3>1. RtaTypeOK' /\ QueueComplete'
      BY <2>5 DEF RtaInv, RtaTypeOK, QueueComplete, rtaVars, graphVars, siteVars, typeVars, visitVars
    <3>2. PhaseClosed'
      BY <2>5 DEF RtaInv, PhaseClosed, rtaVars, graphVars, siteVars, typeVars, visitVars,
         AllClosed, UpcastsClosed, UpcastPending, Upcast, ConcreteTypesOf, DynClosed,
         DynCalls, FntraitClosed, DynFntraitCalls, DynFntraitFnptrCalls, Instantiated,
         FnptrClosed, FnptrCalls
    <3>3. BodiesRead' /\ PromotedVisited'
      BY <2>5, VisitedStable DEF RtaInv, rtaVars, graphVars
    <3> QED BY <3>1, <3>2, <3>3 DEF RtaInv
  <2> QED BY <2>1, <2>2, <2>3, <2>4, <2>5 DEF RtaNext, Progress, AnalysisDone
<1> QED BY <1>1, InitHasInv, PTL DEF RtaSpec

(* The state of the analysis is typed (rta.rs:18-43).                      *)
THEOREM RtaTypeCorrect == RtaSpec => []RtaTypeOK
<1>1. RtaInv => RtaTypeOK
  BY DEF RtaInv
<1> QED BY <1>1, RtaInvHolds, PTL

(* A round begins with every call site resolved (rta.rs:93-100).           *)
THEOREM RoundResolvedCorrect == RtaSpec => []RoundResolved
<1>1. RtaInv => RoundResolved
  BY DEF RtaInv, PhaseClosed, AllClosed, RoundResolved
<1> QED BY <1>1, RtaInvHolds, PTL

(* What the invariant says of the end of the analysis.                     *)
LEMMA ClosedByInv == RtaInv => ClosedAtEnd
<1> SUFFICES ASSUME RtaInv, phase = "done"
             PROVE  /\ func_nodes \subseteq visited_functions
                    /\ \A f \in (visited_functions \cap Func) \ Skipped :
                         \A b \in {f} \cup PromotedOf[f] : BodyRead(b)
                    /\ AllClosed
  BY DEF ClosedAtEnd, AllClosed, Skipped
<1>1. func_nodes \subseteq visited_functions
  BY DEF RtaInv, QueueComplete
<1>2. AllClosed
  BY DEF RtaInv, PhaseClosed
<1>3. ASSUME NEW f \in (visited_functions \cap Func) \ Skipped,
             NEW b \in {f} \cup PromotedOf[f]
      PROVE  BodyRead(b)
  <2>1. CASE b = f
    BY <2>1 DEF RtaInv, BodiesRead
  <2>2. CASE b \in PromotedOf[f]
    <3>1. b \in visited_functions
      BY <2>2 DEF RtaInv, PromotedVisited
    <3>2. PromotedOf[f] \subseteq Promoted
      BY RtaAssumption DEF Body
    <3>3. b \notin Skipped
      BY <2>2, <3>2, RtaAssumption DEF RtaInv, RtaTypeOK, Skipped
    <3> QED BY <3>1, <3>3 DEF RtaInv, BodiesRead
  <2> QED BY <2>1, <2>2
<1> QED BY <1>1, <1>2, <1>3

(* The analysis ends only with every function visited, every body read and *)
(* every call site resolved with everything that was found (rta.rs:93-131).*)
THEOREM ClosedAtEndCorrect == RtaSpec => []ClosedAtEnd
BY ClosedByInv, RtaInvHolds, PTL

-----------------------------------------------------------------------------
(* The solutions that the result is compared with.                         *)

(* Every set of numbers that is not empty has a least one.                 *)
LEMMA LeastNumber ==
  ASSUME NEW T \in SUBSET Nat, T # {}
  PROVE  \E x \in T : \A y \in T : x <= y
<1> DEFINE Less == {p \in Nat \X Nat : p[1] < p[2]}
<1>1. IsWellFoundedOn(Less, Nat)
  BY NatLessThanWellFounded, Zenon DEF OpToRel
<1> HIDE DEF Less
<1>2. PICK x \in T : \A y \in T : <<y, x>> \notin Less
  BY <1>1, WFMin
<1>3. \A y \in T : ~(y < x)
  BY <1>2 DEF Less
<1> QED BY <1>3

(* Induction over a set of numbers.                                        *)
LEMMA Induct ==
  ASSUME NEW S, 0 \in S, \A n \in Nat : n \in S => n + 1 \in S
  PROVE  Nat \subseteq S
<1> DEFINE T == Nat \ S
<1>1. ASSUME T # {} PROVE FALSE
  <2>1. PICK x \in T : \A y \in T : x <= y
    BY <1>1, LeastNumber
  <2>2. x # 0 /\ x - 1 \in Nat
    OBVIOUS
  <2>3. x - 1 \in S
    BY <2>1, <2>2
  <2> QED BY <2>1, <2>2, <2>3
<1> QED BY <1>1

(* The iteration is well defined: what its equation says holds of it.      *)
LEMMA RulesIterate ==
  ASSUME NEW e, NEW S
  PROVE  \E after : /\ after = [n \in Nat |-> IF n = 0 THEN Start(e) ELSE Rules(after[n - 1], S)]
                    /\ Iterated(e, S) = after[Rounds]
<1> DEFINE s == Start(e)
           R(x) == Rules(x, S)
           Upto(f, n) == f = [i \in 0 .. n |-> IF i = 0 THEN s ELSE R(f[i - 1])]
           Whole(f) == f = [n \in Nat |-> IF n = 0 THEN s ELSE R(f[n - 1])]
<1>1. Iterated(e, S) = (CHOOSE f : Whole(f))[Rounds]
  BY Zenon DEF Iterated
<1> HIDE DEF s, R
<1>2. \A n \in Nat : \E f : Upto(f, n)
  <2> DEFINE N == {n \in Nat : \E f : Upto(f, n)}
  <2>1. 0 \in N
    <3>1. Upto([i \in 0 .. 0 |-> s], 0)
      OBVIOUS
    <3> QED BY <3>1
  <2>2. ASSUME NEW n \in Nat, n \in N PROVE n + 1 \in N
    <3>1. PICK f : Upto(f, n)
      BY <2>2
    <3> DEFINE g == [i \in 0 .. n + 1 |-> IF i = n + 1 THEN R(f[n]) ELSE f[i]]
    <3>2. Upto(g, n + 1)
      <4>1. ASSUME NEW i \in 0 .. n + 1
            PROVE  g[i] = IF i = 0 THEN s ELSE R(g[i - 1])
        <5>1. CASE i = n + 1
          BY <5>1
        <5>2. CASE i # n + 1
          <6>1. i \in 0 .. n /\ (i # 0 => i - 1 \in 0 .. n + 1 /\ i - 1 # n + 1)
            BY <5>2
          <6>2. f[i] = IF i = 0 THEN s ELSE R(f[i - 1])
            BY <3>1, <6>1
          <6> QED BY <5>2, <6>1, <6>2
        <5> QED BY <5>1, <5>2
      <4> QED BY <4>1
    <3> HIDE DEF g, Upto
    <3> QED BY <3>2
  <2> HIDE DEF N
  <2>3. Nat \subseteq N
    BY <2>1, <2>2, Induct
  <2> QED BY <2>3 DEF N
<1>3. ASSUME NEW n \in Nat, NEW f, NEW g, Upto(f, n), Upto(g, n + 1)
      PROVE  f[n] = g[n]
  <2> DEFINE N == {i \in Nat : i <= n => f[i] = g[i]}
  <2>1. 0 \in N
    BY <1>3
  <2>2. ASSUME NEW i \in Nat, i \in N PROVE i + 1 \in N
    <3>1. CASE i + 1 <= n
      <4>1. f[i + 1] = R(f[i]) /\ g[i + 1] = R(g[i])
        <5>1. i + 1 \in 0 .. n /\ i + 1 \in 0 .. n + 1 /\ i + 1 # 0 /\ (i + 1) - 1 = i
          BY <3>1
        <5> QED BY <1>3, <5>1
      <4> QED BY <2>2, <3>1, <4>1
    <3> QED BY <3>1
  <2> HIDE DEF N
  <2>3. n \in N
    BY <2>1, <2>2, Induct
  <2> QED BY <2>3 DEF N
<1> DEFINE a(n) == CHOOSE f : Upto(f, n)
           after == [n \in Nat |-> a(n)[n]]
<1>4. \A n \in Nat : Upto(a(n), n)
  BY <1>2
<1>5. Whole(after)
  <2>1. ASSUME NEW n \in Nat
        PROVE  a(n)[n] = IF n = 0 THEN s ELSE R(after[n - 1])
    <3>1. n \in 0 .. n /\ Upto(a(n), n)
      BY <1>4
    <3>2. CASE n = 0
      BY <3>1, <3>2
    <3>3. CASE n # 0
      <4>1. n - 1 \in Nat /\ (n - 1) + 1 = n
        BY <3>3
      <4>2. Upto(a(n - 1), n - 1)
        BY <1>4, <4>1
      <4>3. a(n - 1)[n - 1] = a(n)[n - 1]
        BY <1>3, <3>1, <4>1, <4>2
      <4>4. a(n)[n] = R(a(n)[n - 1])
        BY <3>1, <3>3
      <4>5. after[n - 1] = a(n - 1)[n - 1]
        BY <4>1
      <4> QED BY <3>3, <4>3, <4>4, <4>5
    <3> QED BY <3>2, <3>3
  <2> HIDE DEF a
  <2> QED BY <2>1
<1>6. Whole(CHOOSE f : Whole(f))
  <2> HIDE DEF after
  <2>1. \E f : Whole(f)
    BY <1>5
  <2> HIDE DEF Whole
  <2> QED BY <2>1
<1> QED BY <1>1, <1>6 DEF s, R

-----------------------------------------------------------------------------
(* The calls that the rules find in the bodies B, unresolved ones too.     *)
RuleCalls(R, B) ==
  StaticCalls(CallsOf(B)) \cup SpecialCalls(CallsOf(B))
  \cup DispatchCalls(CallsOf(B), R.types) \cup FnObjectCalls(CallsOf(B), R.types)
  \cup PointerCalls(R.sites, UNION {FnptrTargets(c) : c \in CastsOf(B)})
RuleTypes(R, B) ==
  (UNION {ConcreteTypes(c) : c \in CastsOf(B)})
  \cup UNION {{<<u[2], p[2]>> : p \in {q \in R.types : q[1] = u[1]}} :
                u \in UNION {Upcastings(c) : c \in CastsOf(B)}}

(* What one application of the rules gives, part by part.                  *)
LEMMA RulesApplied ==
  ASSUME NEW R, NEW S
  PROVE  /\ Rules(R, S).calls = {c \in RuleCalls(R, BodiesOf(R.funcs, S)) : c[2] # None}
         /\ Rules(R, S).funcs = R.funcs \cup UNION {{SiteBody[c[1]], c[2]} : c \in Rules(R, S).calls}
         /\ Rules(R, S).types = RuleTypes(R, BodiesOf(R.funcs, S))
         /\ Rules(R, S).sites = FnptrCallsites(CallsOf(BodiesOf(R.funcs, S)))
                                \cup FnObjectSites(CallsOf(BodiesOf(R.funcs, S)), R.types)
<1> DEFINE B == BodiesOf(R.funcs, S)
           calls == {c \in RuleCalls(R, B) : c[2] # None}
           funcs == R.funcs \cup UNION {{SiteBody[c[1]], c[2]} : c \in calls}
           sites == FnptrCallsites(CallsOf(B)) \cup FnObjectSites(CallsOf(B), R.types)
<1>1. Rules(R, S) = [funcs |-> funcs, calls |-> calls, types |-> RuleTypes(R, B), sites |-> sites]
  BY Zenon DEF Rules, ApplyRules, RuleCalls, RuleTypes
<1> HIDE DEF B, calls, funcs, sites
<1>2. /\ Rules(R, S).funcs = funcs /\ Rules(R, S).calls = calls
      /\ Rules(R, S).types = RuleTypes(R, B) /\ Rules(R, S).sites = sites
  BY <1>1
<1> QED BY <1>2 DEF B, calls, funcs, sites

(* The greatest solution is one, and has the entry point.                  *)
GreatestBodies(e) == BodiesOf(Greatest[e].funcs, {})
LEMMA GreatestSolves ==
  ASSUME NEW e \in Entries
  PROVE  LET G == Greatest[e]
             B == GreatestBodies(e)
         IN /\ G.calls = {c \in RuleCalls(G, B) : c[2] # None}
            /\ G.funcs = G.funcs \cup UNION {{SiteBody[c[1]], c[2]} : c \in G.calls}
            /\ G.types = RuleTypes(G, B)
            /\ G.sites = FnptrCallsites(CallsOf(B)) \cup FnObjectSites(CallsOf(B), G.types)
            /\ e \in G.funcs
<1>1. Rules(Greatest[e], {}) = Greatest[e]
  BY RtaRoundsSuffice
<1>2. e \in Greatest[e].funcs
  <2>1. PICK after : /\ after = [n \in Nat |-> IF n = 0 THEN Start(e) ELSE Rules(after[n - 1], {})]
                     /\ Iterated(e, {}) = after[Rounds]
    BY RulesIterate
  <2> DEFINE N == {n \in Nat : e \in after[n].funcs}
  <2>2. 0 \in N
    <3>1. after[0] = Start(e)
      BY <2>1, Zenon
    <3> QED BY <3>1 DEF Start
  <2>3. ASSUME NEW n \in Nat, n \in N PROVE n + 1 \in N
    <3>1. after[n + 1] = Rules(after[n], {})
      <4>1. n + 1 \in Nat /\ n + 1 # 0 /\ (n + 1) - 1 = n
        OBVIOUS
      <4> QED BY <2>1, <4>1
    <3>2. after[n].funcs \subseteq Rules(after[n], {}).funcs
      BY RulesApplied
    <3> QED BY <2>3, <3>1, <3>2
  <2> HIDE DEF N
  <2>4. Rounds \in N
    BY <2>2, <2>3, Induct, RtaRoundsSuffice
  <2> QED BY <2>1, <2>4 DEF N, Greatest
<1> QED BY <1>1, <1>2, RulesApplied DEF GreatestBodies

-----------------------------------------------------------------------------
(* The functions that contain a call site were visited, and the ends of a  *)
(* call edge are nodes.                                                    *)
Placed ==
  /\ func_nodes \cap Promoted \subseteq visited_functions
  /\ \A s \in dyn_callsites \cup dyn_fntrait_callsites \cup fnptr_callsites :
       SiteBody[s[2]] \in visited_functions
  /\ \A c \in call_graph : SiteBody[c[1]] \in func_nodes /\ c[2] \in func_nodes

(* What was found is in the greatest solution for e.                       *)
Precise(e) ==
  LET G == Greatest[e]
      C == CallsOf(GreatestBodies(e))
      T == CastsOf(GreatestBodies(e))
  IN /\ e \in func_nodes /\ func_nodes \subseteq G.funcs /\ call_graph \subseteq G.calls
     /\ dynamic_to_possible_concrete_types \subseteq G.types
     /\ fnptr_callsites \subseteq G.sites
     /\ specially_handled_functions \subseteq HandledSpecially(e)
     /\ dyn_callsites \subseteq DynCallsites(C)
     /\ dyn_fntrait_callsites \subseteq DynFntraitCallsites(C)
     /\ fnptr_sig_to_possible_targets \subseteq UNION {FnptrTargets(c) : c \in T}
     /\ trait_upcasting_relations \subseteq UNION {Upcastings(c) : c \in T}

(* The calls of bodies are sites of these bodies.                          *)
LEMMA CallsPlaced ==
  ASSUME NEW B, B \subseteq Body
  PROVE  LET C == CallsOf(B)
         IN /\ \A c \in StaticCalls(C) \cup SpecialCalls(C) : SiteBody[c[1]] \in B
            /\ \A s \in DynCallsites(C) \cup DynFntraitCallsites(C) \cup FnptrCallsites(C) :
                 SiteBody[s[2]] \in B
<1> DEFINE C == CallsOf(B)
<1>1. \A c \in C : SiteBody[c[1]] \in B /\ SiteBody[NextLoc[c[1]]] \in B
  <2>1. \A b \in Body : \A c \in CallsIn[b] : SiteBody[c[1]] = b /\ SiteBody[NextLoc[c[1]]] = b
    BY RtaAssumption
  <2>2. \A c \in C : \E b \in B : c \in CallsIn[b]
    BY DEF CallsOf
  <2> QED BY <2>1, <2>2
<1> HIDE DEF C
<1>2. \A c \in FntraitCalls(C) : SiteBody[c[1]] \in B
  BY <1>1 DEF FntraitCalls
<1>3. \A c \in StaticCalls(C) : SiteBody[c[1]] \in B
  BY <1>1, <1>2 DEF StaticCalls
<1>4. \A c \in SpecialCalls(C) : SiteBody[c[1]] \in B
  <2> SUFFICES ASSUME NEW c \in SpecialCalls(C) PROVE SiteBody[c[1]] \in B
    OBVIOUS
  <2>1. PICK x \in C : c = <<x[1], IF Devirt[x[2], x[3]] # None THEN Devirt[x[2], x[3]]
                                  ELSE Direct[x[2], x[3]]>>
    BY Zenon DEF SpecialCalls
  <2> QED BY <1>1, <2>1
<1>5. \A s \in DynCallsites(C) : SiteBody[s[2]] \in B
  BY <1>1 DEF DynCallsites
<1>6. \A s \in DynFntraitCallsites(C) : SiteBody[s[2]] \in B
  BY <1>2 DEF DynFntraitCallsites
<1>7. \A s \in FnptrCallsites(C) : SiteBody[s[2]] \in B
  BY <1>1, <1>2 DEF FnptrCallsites
<1> QED BY <1>3, <1>4, <1>5, <1>6, <1>7 DEF C

(* Call edges from visited bodies to functions leave every node placed.    *)
LEMMA EdgesPlaced ==
  ASSUME NEW E, NEW rest, AddCallEdges(E, rest), E \subseteq CallSite \X Func, Placed,
         visited_functions \subseteq visited_functions',
         \A c \in E : SiteBody[c[1]] \in visited_functions'
  PROVE  /\ func_nodes' \cap Promoted \subseteq visited_functions'
         /\ \A c \in call_graph' : SiteBody[c[1]] \in func_nodes' /\ c[2] \in func_nodes'
<1>1. \A c \in E : c[2] \in Func
  OBVIOUS
<1>2. Func \cap Promoted = {}
  BY RtaAssumption
<1>3. \A y \in func_nodes' : y \in func_nodes \/ \E c \in E : y = SiteBody[c[1]] \/ y = c[2]
  <2>1. func_nodes' = func_nodes \cup UNION {{SiteBody[c[1]], c[2]} : c \in E}
    BY DEF AddCallEdges
  <2>2. \A y \in UNION {{SiteBody[c[1]], c[2]} : c \in E} : \E c \in E : y = SiteBody[c[1]] \/ y = c[2]
    BY Zenon
  <2> QED BY <2>1, <2>2
<1>4. \A c \in E : SiteBody[c[1]] \in func_nodes' /\ c[2] \in func_nodes'
  <2>1. func_nodes' = func_nodes \cup UNION {{SiteBody[c[1]], c[2]} : c \in E}
    BY DEF AddCallEdges
  <2>2. \A c \in E : {SiteBody[c[1]], c[2]} \subseteq UNION {{SiteBody[x[1]], x[2]} : x \in E}
    BY Zenon
  <2> QED BY <2>1, <2>2
<1>5. call_graph' = call_graph \cup E /\ func_nodes \subseteq func_nodes'
  BY DEF AddCallEdges
<1> QED BY <1>1, <1>2, <1>3, <1>4, <1>5 DEF Placed

(* Call edges of the greatest solution keep nodes and edges within it.     *)
LEMMA EdgesPrecise ==
  ASSUME NEW e \in Entries, NEW E, NEW rest, AddCallEdges(E, rest), Precise(e),
         E \subseteq RuleCalls(Greatest[e], GreatestBodies(e)), E \subseteq CallSite \X Func
  PROVE  /\ e \in func_nodes' /\ func_nodes' \subseteq Greatest[e].funcs
         /\ call_graph' \subseteq Greatest[e].calls
<1> DEFINE G == Greatest[e]
<1>1. G.calls = {c \in RuleCalls(G, GreatestBodies(e)) : c[2] # None}
  BY GreatestSolves
<1>2. \A c \in G.calls : SiteBody[c[1]] \in G.funcs /\ c[2] \in G.funcs
  <2>1. G.funcs = G.funcs \cup UNION {{SiteBody[c[1]], c[2]} : c \in G.calls}
    BY GreatestSolves
  <2> HIDE DEF G
  <2>2. \A c \in G.calls : {SiteBody[c[1]], c[2]} \subseteq UNION {{SiteBody[x[1]], x[2]} : x \in G.calls}
    BY Zenon
  <2> QED BY <2>1, <2>2
<1>3. \A c \in E : c[2] # None
  BY RtaAssumption
<1>4. E \subseteq G.calls
  BY <1>1, <1>3
<1>5. e \in func_nodes /\ func_nodes \subseteq G.funcs /\ call_graph \subseteq G.calls
  BY DEF Precise
<1>6. \A y \in func_nodes' : y \in func_nodes \/ \E c \in E : y = SiteBody[c[1]] \/ y = c[2]
  <2>1. func_nodes' = func_nodes \cup UNION {{SiteBody[c[1]], c[2]} : c \in E}
    BY DEF AddCallEdges
  <2>2. \A y \in UNION {{SiteBody[c[1]], c[2]} : c \in E} : \E c \in E : y = SiteBody[c[1]] \/ y = c[2]
    BY Zenon
  <2> QED BY <2>1, <2>2
<1>7. call_graph' = call_graph \cup E /\ func_nodes \subseteq func_nodes'
  BY DEF AddCallEdges
<1> HIDE DEF G
<1>8. call_graph' \subseteq G.calls /\ e \in func_nodes'
  BY <1>4, <1>5, <1>7
<1>9. func_nodes' \subseteq G.funcs
  BY <1>2, <1>4, <1>5, <1>6
<1> QED BY <1>8, <1>9 DEF G

(* Call sites and types that are within those of a solution are paired     *)
(* there too, and the other way round.                                     *)
LEMMA PairsWithin ==
  ASSUME NEW S, NEW S2, NEW types, S \subseteq S2, dynamic_to_possible_concrete_types \subseteq types
  PROVE  Instantiated(S) \subseteq PairsAt(S2, types)
<1> SUFFICES ASSUME NEW st \in Instantiated(S) PROVE st \in PairsAt(S2, types)
  OBVIOUS
<1>1. st \in S \X Ty /\ st[2] \in ConcreteTypesOf(st[1][1])
  BY DEF Instantiated
<1>2. PICK p \in dynamic_to_possible_concrete_types : p[1] = st[1][1] /\ st[2] = p[2]
  BY <1>1 DEF ConcreteTypesOf
<1>3. st = <<st[1], p[2]>> /\ st[1] \in S2
  BY <1>1, <1>2
<1> DEFINE at(s) == {<<s, q[2]>> : q \in {x \in types : x[1] = s[1]}}
<1>4. st \in at(st[1])
  BY <1>2, <1>3
<1>5. PairsAt(S2, types) = UNION {at(s) : s \in S2}
  BY Zenon DEF PairsAt
<1> HIDE DEF at
<1> QED BY <1>3, <1>4, <1>5
LEMMA PairsFound ==
  ASSUME NEW S, NEW S2, NEW types, S2 \subseteq S, types \subseteq dynamic_to_possible_concrete_types,
         RtaTypeOK
  PROVE  PairsAt(S2, types) \subseteq Instantiated(S)
<1> SUFFICES ASSUME NEW st \in PairsAt(S2, types) PROVE st \in Instantiated(S)
  OBVIOUS
<1>1. PICK s \in S2 : \E p \in {q \in types : q[1] = s[1]} : st = <<s, p[2]>>
  BY Zenon DEF PairsAt
<1>2. PICK p \in types : p[1] = s[1] /\ st = <<s, p[2]>>
  BY <1>1
<1>3. p[2] \in ConcreteTypesOf(s[1]) /\ p[2] \in Ty
  BY <1>2 DEF ConcreteTypesOf, RtaTypeOK
<1> QED BY <1>2, <1>3 DEF Instantiated

(* What the step that visits a function records, of the bodies B it reads. *)
Recorded(f, B) ==
  /\ AddCallEdges(StaticCalls(CallsOf(B)) \cup SpecialCalls(CallsOf(B)), reach_funcs \ {f})
  /\ visited_functions' = visited_functions \cup {f} \cup B
  /\ specially_handled_functions' =
       specially_handled_functions \cup {e[2] : e \in SpecialCalls(CallsOf(B))}
  /\ dyn_callsites' = dyn_callsites \cup DynCallsites(CallsOf(B))
  /\ dyn_fntrait_callsites' = dyn_fntrait_callsites \cup DynFntraitCallsites(CallsOf(B))
  /\ fnptr_callsites' = fnptr_callsites \cup FnptrCallsites(CallsOf(B))
  /\ dynamic_to_possible_concrete_types' =
       dynamic_to_possible_concrete_types \cup UNION {ConcreteTypes(c) : c \in CastsOf(B)}
  /\ fnptr_sig_to_possible_targets' =
       fnptr_sig_to_possible_targets \cup UNION {FnptrTargets(c) : c \in CastsOf(B)}
  /\ trait_upcasting_relations' =
       trait_upcasting_relations \cup UNION {Upcastings(c) : c \in CastsOf(B)}

(* A visited function keeps every node placed and the findings precise: it *)
(* is a function of the greatest solution, which has the bodies it reads.  *)
LEMMA ProcessKeepsPrecise ==
  ASSUME RtaInv, Placed, ProcessFunction, NEW e \in Entries, Precise(e)
  PROVE  Placed' /\ Precise(e)'
<1>1. PICK f \in reach_funcs : Recorded(f, Bodies(f))
  BY Zenon DEF ProcessFunction, Recorded, CallsOf, CastsOf
<1> DEFINE B == Bodies(f)
           C == CallsOf(B)
           T == CastsOf(B)
           GB == GreatestBodies(e)
<1>2. f \in Body /\ f \in func_nodes
  BY DEF RtaInv, RtaTypeOK
<1>3. PromotedOf[f] \subseteq Promoted
  BY <1>2, RtaAssumption
<1>4. B \subseteq Body
  BY <1>2, <1>3 DEF Bodies, Body
<1>5. B \subseteq GB
  <2>1. CASE f \in Promoted
    BY <1>2, <2>1 DEF Placed, Bodies
  <2>2. CASE f \in Func /\ B # {}
    <3>1. f \in (Greatest[e].funcs \cap Func) \ ({} \cup Unavailable)
      BY <1>2, <2>2 DEF Precise, Bodies
    <3>2. {f} \cup PromotedOf[f] \subseteq GB
      BY <3>1, Zenon DEF GreatestBodies, BodiesOf
    <3> QED BY <3>2 DEF Bodies
  <2> QED BY <1>2, <2>1, <2>2 DEF Body
<1>6. C \subseteq CallsOf(GB) /\ T \subseteq CastsOf(GB)
  BY <1>5 DEF CallsOf, CastsOf
<1>7. InBodies(C)
  BY <1>4 DEF InBodies, CallsOf
<1>8. StaticCalls(C) \cup SpecialCalls(C) \subseteq CallSite \X Func
  BY <1>7, CallsTyped
<1>9. /\ \A c \in StaticCalls(C) \cup SpecialCalls(C) : SiteBody[c[1]] \in B
      /\ \A s \in DynCallsites(C) \cup DynFntraitCallsites(C) \cup FnptrCallsites(C) :
           SiteBody[s[2]] \in B
  BY <1>4, CallsPlaced
<1>10. /\ StaticCalls(C) \subseteq StaticCalls(CallsOf(GB))
       /\ SpecialCalls(C) \subseteq SpecialCalls(CallsOf(GB))
       /\ DynCallsites(C) \subseteq DynCallsites(CallsOf(GB))
       /\ DynFntraitCallsites(C) \subseteq DynFntraitCallsites(CallsOf(GB))
       /\ FnptrCallsites(C) \subseteq FnptrCallsites(CallsOf(GB))
  BY <1>6, CallsMonotone
<1>11. StaticCalls(C) \cup SpecialCalls(C) \subseteq RuleCalls(Greatest[e], GB)
  BY <1>10 DEF RuleCalls
<1>12. /\ Greatest[e].types = RuleTypes(Greatest[e], GB)
       /\ Greatest[e].sites = FnptrCallsites(CallsOf(GB)) \cup FnObjectSites(CallsOf(GB), Greatest[e].types)
  BY GreatestSolves
<1>13. /\ UNION {ConcreteTypes(c) : c \in T} \subseteq Greatest[e].types
       /\ UNION {FnptrTargets(c) : c \in T} \subseteq UNION {FnptrTargets(c) : c \in CastsOf(GB)}
       /\ UNION {Upcastings(c) : c \in T} \subseteq UNION {Upcastings(c) : c \in CastsOf(GB)}
  <2>1. UNION {ConcreteTypes(c) : c \in CastsOf(GB)} \subseteq Greatest[e].types
    BY <1>12 DEF RuleTypes
  <2> HIDE DEF T, GB
  <2>2. UNION {ConcreteTypes(c) : c \in T} \subseteq UNION {ConcreteTypes(c) : c \in CastsOf(GB)}
    BY <1>6
  <2> QED BY <1>6, <2>1, <2>2
<1>14. {c[2] : c \in SpecialCalls(C)} \subseteq HandledSpecially(e)
  BY <1>10 DEF HandledSpecially, GreatestBodies
<1> HIDE DEF B, C, T, GB
<1>15. Recorded(f, B) /\ C = CallsOf(B) /\ T = CastsOf(B)
  BY <1>1 DEF B, C, T
<1>16. AddCallEdges(StaticCalls(C) \cup SpecialCalls(C), reach_funcs \ {f})
  BY <1>15 DEF Recorded
<1>17. Placed'
  <2>1. visited_functions' = visited_functions \cup {f} \cup B
    BY <1>15 DEF Recorded
  <2>2. /\ func_nodes' \cap Promoted \subseteq visited_functions'
        /\ \A c \in call_graph' : SiteBody[c[1]] \in func_nodes' /\ c[2] \in func_nodes'
    BY <1>8, <1>9, <1>16, <2>1, EdgesPlaced
  <2>3. \A s \in dyn_callsites' \cup dyn_fntrait_callsites' \cup fnptr_callsites' :
          SiteBody[s[2]] \in visited_functions'
    BY <1>9, <1>15, <2>1 DEF Placed, Recorded
  <2> QED BY <2>2, <2>3 DEF Placed
<1>18. Precise(e)'
  <2>1. /\ e \in func_nodes' /\ func_nodes' \subseteq Greatest[e].funcs
        /\ call_graph' \subseteq Greatest[e].calls
    BY <1>8, <1>11, <1>16, EdgesPrecise DEF GB
  <2>2. /\ dynamic_to_possible_concrete_types' \subseteq Greatest[e].types
        /\ fnptr_callsites' \subseteq Greatest[e].sites
        /\ specially_handled_functions' \subseteq HandledSpecially(e)
    BY <1>10, <1>12, <1>13, <1>14, <1>15 DEF Precise, Recorded
  <2>3. /\ dyn_callsites' \subseteq DynCallsites(CallsOf(GB))
        /\ dyn_fntrait_callsites' \subseteq DynFntraitCallsites(CallsOf(GB))
    BY <1>10, <1>15 DEF Precise, Recorded, GB
  <2>4. /\ fnptr_sig_to_possible_targets' \subseteq UNION {FnptrTargets(c) : c \in CastsOf(GB)}
        /\ trait_upcasting_relations' \subseteq UNION {Upcastings(c) : c \in CastsOf(GB)}
    BY <1>13, <1>15 DEF Precise, Recorded, GB
  <2> QED BY <2>1, <2>2, <2>3, <2>4 DEF Precise, GB
<1> QED BY <1>17, <1>18

(* So do the upcasts: the solution has them too.                           *)
LEMMA UpcastKeepsPrecise ==
  ASSUME UpcastStep, Placed, NEW e \in Entries, Precise(e)
  PROVE  Placed' /\ Precise(e)'
<1> DEFINE G == Greatest[e]
           U == UNION {Upcastings(c) : c \in CastsOf(GreatestBodies(e))}
           cast(u) == {<<u[2], p[2]>> : p \in {q \in G.types : q[1] = u[1]}}
<1>1. PICK u \in trait_upcasting_relations :
        dynamic_to_possible_concrete_types' = dynamic_to_possible_concrete_types \cup Upcast(u)
  BY DEF UpcastStep
<1>2. G.types = RuleTypes(G, GreatestBodies(e))
  BY GreatestSolves
<1>3. UNION {cast(v) : v \in U} \subseteq G.types
  <2>1. RuleTypes(G, GreatestBodies(e)) =
          (UNION {ConcreteTypes(c) : c \in CastsOf(GreatestBodies(e))}) \cup UNION {cast(v) : v \in U}
    BY Zenon DEF RuleTypes
  <2> HIDE DEF cast, U
  <2> QED BY <1>2, <2>1
<1>4. u \in U /\ dynamic_to_possible_concrete_types \subseteq G.types
  BY DEF Precise
<1>5. Upcast(u) \subseteq cast(u)
  BY <1>4 DEF Upcast, ConcreteTypesOf
<1> HIDE DEF cast, U
<1>6. cast(u) \subseteq UNION {cast(v) : v \in U}
  BY <1>4
<1>7. dynamic_to_possible_concrete_types' \subseteq G.types
  BY <1>1, <1>3, <1>4, <1>5, <1>6
<1>8. UNCHANGED <<call_graph, func_nodes, siteVars, fnptr_callsites, typeVars, visitVars>>
  BY DEF UpcastStep, graphVars
<1>9. Precise(e)'
  BY <1>7, <1>8 DEF Precise, siteVars, typeVars, visitVars
<1>10. Placed'
  BY <1>8 DEF Placed, siteVars, visitVars
<1> QED BY <1>9, <1>10

(* What the solve steps resolve is resolved in the solution too, and lies  *)
(* in bodies that were visited.                                            *)
LEMMA ResolvedPrecise ==
  ASSUME NEW e \in Entries, Precise(e)
  PROVE  /\ DynCalls \cup DynFntraitCalls \cup FnptrCalls
              \subseteq RuleCalls(Greatest[e], GreatestBodies(e))
         /\ DynFntraitFnptrCalls \subseteq Greatest[e].sites
<1> DEFINE G == Greatest[e]
           C == CallsOf(GreatestBodies(e))
           targets == UNION {FnptrTargets(c) : c \in CastsOf(GreatestBodies(e))}
           called(s) == {<<s[2], FnItem[g[2]]>> : g \in {h \in targets : <<s[1], h[1]>> \in MatchedSig}}
<1>1. /\ dyn_callsites \subseteq DynCallsites(C) /\ dyn_fntrait_callsites \subseteq DynFntraitCallsites(C)
      /\ dynamic_to_possible_concrete_types \subseteq G.types
      /\ fnptr_callsites \subseteq G.sites /\ fnptr_sig_to_possible_targets \subseteq targets
  BY DEF Precise
<1>2. /\ Instantiated(dyn_callsites) \subseteq PairsAt(DynCallsites(C), G.types)
      /\ Instantiated(dyn_fntrait_callsites) \subseteq PairsAt(DynFntraitCallsites(C), G.types)
  BY <1>1, PairsWithin
<1>3. DynCalls \subseteq DispatchCalls(C, G.types)
  BY <1>2 DEF DynCalls, DispatchCalls
<1>4. DynFntraitCalls \subseteq FnObjectCalls(C, G.types)
  BY <1>2 DEF DynFntraitCalls, FnObjectCalls
<1>5. DynFntraitFnptrCalls \subseteq FnObjectSites(C, G.types)
  BY <1>2 DEF DynFntraitFnptrCalls, FnObjectSites
<1>6. FnptrCalls \subseteq PointerCalls(G.sites, targets)
  <2> SUFFICES ASSUME NEW y \in FnptrCalls PROVE y \in PointerCalls(G.sites, targets)
    OBVIOUS
  <2>1. PICK x \in fnptr_callsites \X fnptr_sig_to_possible_targets :
          <<x[1][1], x[2][1]>> \in MatchedSig /\ y = <<x[1][2], FnItem[x[2][2]]>>
    BY Zenon DEF FnptrCalls
  <2>2. x[1] \in G.sites /\ x[2] \in targets
    BY <1>1
  <2>3. y \in called(x[1])
    BY <2>1, <2>2
  <2>4. PointerCalls(G.sites, targets) = UNION {called(s) : s \in G.sites}
    BY Zenon DEF PointerCalls
  <2> HIDE DEF called
  <2> QED BY <2>2, <2>3, <2>4
<1>7. DynFntraitFnptrCalls \subseteq G.sites
  BY <1>5, GreatestSolves
<1> QED BY <1>3, <1>4, <1>6, <1>7 DEF RuleCalls
LEMMA ResolvedPlaced ==
  ASSUME Placed
  PROVE  /\ \A c \in DynCalls \cup DynFntraitCalls \cup FnptrCalls : SiteBody[c[1]] \in visited_functions
         /\ \A s \in DynFntraitFnptrCalls : SiteBody[s[2]] \in visited_functions
<1>1. \A st \in Instantiated(dyn_callsites) \cup Instantiated(dyn_fntrait_callsites) :
        SiteBody[st[1][2]] \in visited_functions
  BY DEF Instantiated, Placed
<1>2. ASSUME NEW c \in DynCalls PROVE SiteBody[c[1]] \in visited_functions
  <2>1. PICK st \in Instantiated(dyn_callsites) : c = <<st[1][2], Devirt[st[1][3], st[2]]>>
    BY Zenon DEF DynCalls
  <2> QED BY <1>1, <2>1
<1>3. ASSUME NEW c \in DynFntraitCalls PROVE SiteBody[c[1]] \in visited_functions
  <2>1. PICK st \in Instantiated(dyn_fntrait_callsites) : c = <<st[1][2], FntraitTarget(st[1][3], st[2])>>
    BY Zenon DEF DynFntraitCalls
  <2> QED BY <1>1, <2>1
<1>4. ASSUME NEW s \in DynFntraitFnptrCalls PROVE SiteBody[s[2]] \in visited_functions
  <2>1. PICK st \in Instantiated(dyn_fntrait_callsites) : s = <<st[2], st[1][2]>>
    BY Zenon DEF DynFntraitFnptrCalls
  <2> QED BY <1>1, <2>1
<1>5. ASSUME NEW c \in FnptrCalls PROVE SiteBody[c[1]] \in visited_functions
  <2>1. PICK x \in fnptr_callsites \X fnptr_sig_to_possible_targets : c = <<x[1][2], FnItem[x[2][2]]>>
    BY Zenon DEF FnptrCalls
  <2>2. x[1] \in fnptr_callsites
    OBVIOUS
  <2> QED BY <2>1, <2>2 DEF Placed
<1> QED BY <1>2, <1>3, <1>4, <1>5

(* So do the three steps that resolve calls.                               *)
LEMMA SolveKeepsPrecise ==
  ASSUME RtaInv, Placed, SolveDynCallsites \/ SolveDynFntraitCallsites \/ SolveFnptrCallsites,
         NEW e \in Entries, Precise(e)
  PROVE  Placed' /\ Precise(e)'
<1>1. PICK E \in {DynCalls, DynFntraitCalls, FnptrCalls} : AddCallEdges(E, reach_funcs)
  BY DEF SolveDynCallsites, SolveDynFntraitCallsites, SolveFnptrCallsites
<1>2. UNCHANGED <<siteVars, typeVars, dynamic_to_possible_concrete_types, visitVars>>
  BY DEF SolveDynCallsites, SolveDynFntraitCallsites, SolveFnptrCallsites
<1>3. fnptr_callsites' \subseteq fnptr_callsites \cup DynFntraitFnptrCalls
  BY DEF SolveDynCallsites, SolveDynFntraitCallsites, SolveFnptrCallsites
<1>4. E \subseteq CallSite \X Func
  BY ResolvedTyped DEF RtaInv
<1>5. /\ E \subseteq RuleCalls(Greatest[e], GreatestBodies(e))
      /\ fnptr_callsites' \subseteq Greatest[e].sites
  BY <1>3, ResolvedPrecise DEF Precise
<1>6. /\ \A c \in E : SiteBody[c[1]] \in visited_functions
      /\ \A s \in fnptr_callsites' : SiteBody[s[2]] \in visited_functions
  BY <1>3, ResolvedPlaced DEF Placed
<1>7. visited_functions' = visited_functions
  BY <1>2 DEF visitVars
<1>8. Placed'
  <2>1. /\ func_nodes' \cap Promoted \subseteq visited_functions'
        /\ \A c \in call_graph' : SiteBody[c[1]] \in func_nodes' /\ c[2] \in func_nodes'
    BY <1>1, <1>4, <1>6, <1>7, EdgesPlaced
  <2>2. \A s \in dyn_callsites' \cup dyn_fntrait_callsites' \cup fnptr_callsites' :
          SiteBody[s[2]] \in visited_functions'
    BY <1>2, <1>6, <1>7 DEF Placed, siteVars
  <2> QED BY <2>1, <2>2 DEF Placed
<1>9. /\ e \in func_nodes' /\ func_nodes' \subseteq Greatest[e].funcs
      /\ call_graph' \subseteq Greatest[e].calls
  BY <1>1, <1>4, <1>5, EdgesPrecise
<1>10. Precise(e)'
  BY <1>2, <1>5, <1>9 DEF Precise, siteVars, typeVars, visitVars
<1> QED BY <1>8, <1>10

(* Everything found is in the greatest solution for the entry point.       *)
FoundInv == Placed /\ \E e \in Entries : Precise(e)
LEMMA FoundInGreatest == RtaSpec => []FoundInv
<1>1. RtaInit => FoundInv
  <2> SUFFICES ASSUME RtaInit PROVE FoundInv
    OBVIOUS
  <2>1. PICK e \in Entries : func_nodes = {e}
    BY Zenon DEF RtaInit
  <2>2. e \in Greatest[e].funcs
    BY GreatestSolves
  <2>3. Precise(e)
    BY <2>1, <2>2 DEF RtaInit, Precise
  <2>4. Placed
    BY <2>1, RtaAssumption DEF RtaInit, Placed
  <2> QED BY <2>3, <2>4 DEF FoundInv
<1>2. RtaInv /\ FoundInv /\ [RtaNext]_rtaVars => FoundInv'
  <2> SUFFICES ASSUME RtaInv, FoundInv, [RtaNext]_rtaVars PROVE FoundInv'
    OBVIOUS
  <2>1. PICK e \in Entries : Precise(e)
    BY DEF FoundInv
  <2>2. Placed
    BY DEF FoundInv
  <2>3. CASE ProcessFunction
    BY <2>1, <2>2, <2>3, ProcessKeepsPrecise DEF FoundInv
  <2>4. CASE UpcastStep
    BY <2>1, <2>2, <2>4, UpcastKeepsPrecise DEF FoundInv
  <2>5. CASE SolveDynCallsites \/ SolveDynFntraitCallsites \/ SolveFnptrCallsites
    BY <2>1, <2>2, <2>5, SolveKeepsPrecise DEF FoundInv
  <2>6. CASE FunctionsProcessed \/ UpcastDone \/ UNCHANGED rtaVars
    <3>1. UNCHANGED <<call_graph, func_nodes, siteVars, fnptr_callsites, typeVars,
                      dynamic_to_possible_concrete_types, visitVars>>
      BY <2>6 DEF FunctionsProcessed, UpcastDone, rtaVars, graphVars
    <3>2. Precise(e)' /\ Placed'
      BY <2>1, <2>2, <3>1 DEF Precise, Placed, siteVars, typeVars, visitVars
    <3> QED BY <3>2 DEF FoundInv
  <2> QED BY <2>3, <2>4, <2>5, <2>6 DEF RtaNext, Progress, AnalysisDone
<1> QED BY <1>1, <1>2, RtaInvHolds, PTL DEF RtaSpec

-----------------------------------------------------------------------------
(* What bodies say is what each of their calls says.                       *)
LEMMA CallsSplit ==
  ASSUME NEW C
  PROVE  /\ \A y \in StaticCalls(C) : \E c \in C : y \in StaticCalls({c})
         /\ \A y \in SpecialCalls(C) : \E c \in C : y \in SpecialCalls({c})
         /\ \A y \in DynCallsites(C) : \E c \in C : y \in DynCallsites({c})
         /\ \A y \in DynFntraitCallsites(C) : \E c \in C : y \in DynFntraitCallsites({c})
         /\ \A y \in FnptrCallsites(C) : \E c \in C : y \in FnptrCallsites({c})
<1>1. \A x \in FntraitCalls(C) : \E c \in C : x \in FntraitCalls({c})
  BY DEF FntraitCalls
<1>2. \A y \in StaticCalls(C) : \E c \in C : y \in StaticCalls({c})
  BY <1>1 DEF StaticCalls
<1>3. \A y \in SpecialCalls(C) : \E c \in C : y \in SpecialCalls({c})
  BY DEF SpecialCalls
<1>4. \A y \in DynCallsites(C) : \E c \in C : y \in DynCallsites({c})
  BY DEF DynCallsites
<1>5. \A y \in DynFntraitCallsites(C) : \E c \in C : y \in DynFntraitCallsites({c})
  BY <1>1 DEF DynFntraitCallsites
<1>6. \A y \in FnptrCallsites(C) : \E c \in C : y \in FnptrCallsites({c})
  BY <1>1 DEF FnptrCallsites
<1> QED BY <1>2, <1>3, <1>4, <1>5, <1>6

(* What was read of every body of B was read of all their calls and casts. *)
LEMMA BodiesReadTogether ==
  ASSUME NEW B, \A b \in B : BodyRead(b)
  PROVE  LET C == CallsOf(B)
         IN /\ StaticCalls(C) \cup SpecialCalls(C) \subseteq call_graph
            /\ DynCallsites(C) \subseteq dyn_callsites
            /\ DynFntraitCallsites(C) \subseteq dyn_fntrait_callsites
            /\ FnptrCallsites(C) \subseteq fnptr_callsites
            /\ \A c \in CastsOf(B) :
                 /\ ConcreteTypes(c) \subseteq dynamic_to_possible_concrete_types
                 /\ FnptrTargets(c) \subseteq fnptr_sig_to_possible_targets
                 /\ Upcastings(c) \subseteq trait_upcasting_relations
<1> DEFINE C == CallsOf(B)
<1>1. ASSUME NEW c \in C
      PROVE  /\ StaticCalls({c}) \cup SpecialCalls({c}) \subseteq call_graph
             /\ DynCallsites({c}) \subseteq dyn_callsites
             /\ DynFntraitCallsites({c}) \subseteq dyn_fntrait_callsites
             /\ FnptrCallsites({c}) \subseteq fnptr_callsites
  <2>1. PICK b \in B : c \in CallsIn[b]
    BY DEF CallsOf
  <2>2. {c} \subseteq CallsIn[b]
    BY <2>1
  <2>3. /\ StaticCalls({c}) \subseteq StaticCalls(CallsIn[b])
        /\ SpecialCalls({c}) \subseteq SpecialCalls(CallsIn[b])
        /\ DynCallsites({c}) \subseteq DynCallsites(CallsIn[b])
        /\ DynFntraitCallsites({c}) \subseteq DynFntraitCallsites(CallsIn[b])
        /\ FnptrCallsites({c}) \subseteq FnptrCallsites(CallsIn[b])
    BY <2>2, CallsMonotone
  <2>4. BodyRead(b)
    OBVIOUS
  <2> QED BY <2>3, <2>4 DEF BodyRead
<1>2. ASSUME NEW c \in CastsOf(B)
      PROVE  /\ ConcreteTypes(c) \subseteq dynamic_to_possible_concrete_types
             /\ FnptrTargets(c) \subseteq fnptr_sig_to_possible_targets
             /\ Upcastings(c) \subseteq trait_upcasting_relations
  BY DEF CastsOf, BodyRead
<1> HIDE DEF C
<1>3. /\ StaticCalls(C) \cup SpecialCalls(C) \subseteq call_graph
      /\ DynCallsites(C) \subseteq dyn_callsites
      /\ DynFntraitCallsites(C) \subseteq dyn_fntrait_callsites
      /\ FnptrCallsites(C) \subseteq fnptr_callsites
  BY <1>1, CallsSplit
<1> QED BY <1>2, <1>3 DEF C

(* The solution R lies within what the analysis has found.                 *)
Within(R) ==
  /\ R.funcs \subseteq func_nodes /\ R.calls \subseteq call_graph
  /\ R.types \subseteq dynamic_to_possible_concrete_types /\ R.sites \subseteq fnptr_callsites

(* At the end, the rules applied to what was found find nothing new.       *)
LEMMA RulesWithin ==
  ASSUME RtaInv, phase = "done", Placed, NEW e \in Entries, Precise(e), NEW R, Within(R)
  PROVE  Within(Rules(R, HandledSpecially(e)))
<1> DEFINE S == HandledSpecially(e)
           B == BodiesOf(R.funcs, S)
           C == CallsOf(B)
           targets == UNION {FnptrTargets(c) : c \in CastsOf(B)}
           X == Rules(R, S)
<1>1. /\ func_nodes \subseteq visited_functions
      /\ \A f \in (visited_functions \cap Func) \ (specially_handled_functions \cup Unavailable) :
           \A b \in {f} \cup PromotedOf[f] : BodyRead(b)
      /\ UpcastsClosed /\ DynClosed /\ FntraitClosed /\ FnptrClosed
  BY ClosedByInv DEF ClosedAtEnd
<1>2. RtaTypeOK
  BY DEF RtaInv
<1>3. \A b \in B : BodyRead(b)
  <2> SUFFICES ASSUME NEW b \in B PROVE BodyRead(b)
    OBVIOUS
  <2>1. PICK f \in (R.funcs \cap Func) \ (S \cup Unavailable) : b \in {f} \cup PromotedOf[f]
    BY Zenon DEF BodiesOf
  <2>2. f \in visited_functions /\ f \notin specially_handled_functions
    BY <1>1, <2>1 DEF Within, Precise
  <2> QED BY <1>1, <2>1, <2>2
<1>4. /\ StaticCalls(C) \cup SpecialCalls(C) \subseteq call_graph
      /\ DynCallsites(C) \subseteq dyn_callsites
      /\ DynFntraitCallsites(C) \subseteq dyn_fntrait_callsites
      /\ FnptrCallsites(C) \subseteq fnptr_callsites
      /\ \A c \in CastsOf(B) :
           /\ ConcreteTypes(c) \subseteq dynamic_to_possible_concrete_types
           /\ FnptrTargets(c) \subseteq fnptr_sig_to_possible_targets
           /\ Upcastings(c) \subseteq trait_upcasting_relations
  BY <1>3, BodiesReadTogether
<1>5. /\ R.funcs \subseteq func_nodes /\ R.calls \subseteq call_graph
      /\ R.types \subseteq dynamic_to_possible_concrete_types /\ R.sites \subseteq fnptr_callsites
  BY DEF Within
<1>6. targets \subseteq fnptr_sig_to_possible_targets
  BY <1>4
<1>7. /\ X.calls = {c \in RuleCalls(R, B) : c[2] # None}
      /\ X.funcs = R.funcs \cup UNION {{SiteBody[c[1]], c[2]} : c \in X.calls}
      /\ X.types = RuleTypes(R, B)
      /\ X.sites = FnptrCallsites(C) \cup FnObjectSites(C, R.types)
  BY RulesApplied
<1>8. /\ PairsAt(DynCallsites(C), R.types) \subseteq Instantiated(dyn_callsites)
      /\ PairsAt(DynFntraitCallsites(C), R.types) \subseteq Instantiated(dyn_fntrait_callsites)
  BY <1>2, <1>4, <1>5, PairsFound
<1> HIDE DEF X, C, targets
<1>9. \A c \in DispatchCalls(C, R.types) : c[2] # None => c \in call_graph
  <2> SUFFICES ASSUME NEW c \in DispatchCalls(C, R.types), c[2] # None PROVE c \in call_graph
    OBVIOUS
  <2>1. PICK st \in PairsAt(DynCallsites(C), R.types) : c = <<st[1][2], Devirt[st[1][3], st[2]]>>
    BY Zenon DEF DispatchCalls
  <2>2. c \in DynCalls
    BY <1>8, <2>1 DEF DynCalls
  <2> QED BY <1>1, <2>2 DEF DynClosed
<1>10. \A c \in FnObjectCalls(C, R.types) : c[2] # None => c \in call_graph
  <2> SUFFICES ASSUME NEW c \in FnObjectCalls(C, R.types), c[2] # None PROVE c \in call_graph
    OBVIOUS
  <2>1. PICK st \in PairsAt(DynFntraitCallsites(C), R.types) :
          st[2] \notin FnPtrTy /\ c = <<st[1][2], FntraitTarget(st[1][3], st[2])>>
    BY Zenon DEF FnObjectCalls
  <2>2. c \in DynFntraitCalls
    BY <1>8, <2>1 DEF DynFntraitCalls
  <2> QED BY <1>1, <2>2 DEF FntraitClosed
<1>11. FnObjectSites(C, R.types) \subseteq fnptr_callsites
  <2>1. FnObjectSites(C, R.types) \subseteq DynFntraitFnptrCalls
    BY <1>8 DEF FnObjectSites, DynFntraitFnptrCalls
  <2> QED BY <1>1, <2>1 DEF FntraitClosed
<1>12. PointerCalls(R.sites, targets) \subseteq call_graph
  <2> SUFFICES ASSUME NEW y \in PointerCalls(R.sites, targets) PROVE y \in call_graph
    OBVIOUS
  <2>1. PICK s \in R.sites :
          y \in {<<s[2], FnItem[g[2]]>> : g \in {h \in targets : <<s[1], h[1]>> \in MatchedSig}}
    BY Zenon DEF PointerCalls
  <2>2. PICK g \in targets : <<s[1], g[1]>> \in MatchedSig /\ y = <<s[2], FnItem[g[2]]>>
    BY <2>1
  <2>3. <<s, g>> \in fnptr_callsites \X fnptr_sig_to_possible_targets
    BY <1>5, <1>6
  <2> DEFINE x == <<s, g>>
  <2>4. <<x[1][1], x[2][1]>> \in MatchedSig /\ y = <<x[1][2], FnItem[x[2][2]]>>
    BY <2>2
  <2> HIDE DEF x
  <2>5. y \in FnptrCalls
    <3>1. x \in fnptr_callsites \X fnptr_sig_to_possible_targets
      BY <2>3 DEF x
    <3> QED BY <2>4, <3>1, Zenon DEF FnptrCalls
  <2> QED BY <1>1, <2>5 DEF FnptrClosed
<1>13. X.calls \subseteq call_graph
  <2>1. \A c \in RuleCalls(R, B) : c[2] # None => c \in call_graph
    BY <1>4, <1>9, <1>10, <1>12 DEF RuleCalls, C, targets
  <2> QED BY <1>7, <2>1
<1>14. X.funcs \subseteq func_nodes
  <2>1. \A c \in X.calls : {SiteBody[c[1]], c[2]} \subseteq func_nodes
    BY <1>13 DEF Placed
  <2>2. UNION {{SiteBody[c[1]], c[2]} : c \in X.calls} \subseteq func_nodes
    BY <2>1
  <2> QED BY <1>5, <1>7, <2>2
<1>15. X.types \subseteq dynamic_to_possible_concrete_types
  <2> DEFINE U == UNION {Upcastings(c) : c \in CastsOf(B)}
             cast(u) == {<<u[2], p[2]>> : p \in {q \in R.types : q[1] = u[1]}}
  <2>1. RuleTypes(R, B) = (UNION {ConcreteTypes(c) : c \in CastsOf(B)}) \cup UNION {cast(u) : u \in U}
    BY Zenon DEF RuleTypes
  <2>2. UNION {ConcreteTypes(c) : c \in CastsOf(B)} \subseteq dynamic_to_possible_concrete_types
    BY <1>4
  <2>3. ASSUME NEW u \in U PROVE cast(u) \subseteq dynamic_to_possible_concrete_types
    <3>1. u \in trait_upcasting_relations
      BY <1>4
    <3>2. Upcast(u) \subseteq dynamic_to_possible_concrete_types
      BY <1>1, <3>1 DEF UpcastsClosed, UpcastPending
    <3>3. cast(u) \subseteq Upcast(u)
      BY <1>5 DEF Upcast, ConcreteTypesOf
    <3> QED BY <3>2, <3>3
  <2> HIDE DEF U, cast
  <2> QED BY <1>7, <2>1, <2>2, <2>3
<1>16. X.sites \subseteq fnptr_callsites
  BY <1>4, <1>7, <1>11 DEF C
<1> QED BY <1>13, <1>14, <1>15, <1>16 DEF Within, X

(* Whatever order functions were visited and calls resolved in, the        *)
(* analysis ends with all of the least solution of its rules and nothing   *)
(* outside the solution with all bodies read (rta.rs:93-131).              *)
THEOREM ResultIsSolutionCorrect == RtaSpec => []ResultIsSolution
<1>1. RtaInv /\ FoundInv => ResultIsSolution
  <2> SUFFICES ASSUME RtaInv, FoundInv, phase = "done" PROVE ResultIsSolution
    BY DEF ResultIsSolution
  <2>1. PICK e \in Entries : Precise(e)
    BY DEF FoundInv
  <2> DEFINE S == HandledSpecially(e)
  <2>2. PICK after : /\ after = [n \in Nat |-> IF n = 0 THEN Start(e) ELSE Rules(after[n - 1], S)]
                     /\ Iterated(e, S) = after[Rounds]
    BY RulesIterate
  <2> HIDE DEF S
  <2> DEFINE N == {n \in Nat : Within(after[n])}
  <2>3. 0 \in N
    <3>1. after[0] = Start(e)
      BY <2>2, Zenon
    <3>2. Start(e).funcs = {e} /\ Start(e).calls = {} /\ Start(e).types = {} /\ Start(e).sites = {}
      BY DEF Start
    <3>3. e \in func_nodes
      BY <2>1 DEF Precise
    <3> QED BY <3>1, <3>2, <3>3 DEF Within
  <2>4. ASSUME NEW n \in Nat, n \in N PROVE n + 1 \in N
    <3>1. after[n + 1] = Rules(after[n], S)
      <4>1. n + 1 \in Nat /\ n + 1 # 0 /\ (n + 1) - 1 = n
        OBVIOUS
      <4> QED BY <2>2, <4>1
    <3>2. Within(Rules(after[n], S))
      BY <2>1, <2>4, RulesWithin DEF FoundInv, S
    <3> QED BY <3>1, <3>2
  <2> HIDE DEF N
  <2>5. Within(Iterated(e, S))
    <3>1. Rounds \in N
      BY <2>3, <2>4, Induct, RtaRoundsSuffice
    <3> QED BY <2>2, <3>1 DEF N
  <2>6. Within(Least[e])
    BY <2>5 DEF Least, S
  <2> QED BY <2>1, <2>6 DEF Within, Precise, ResultIsSolution
<1> QED BY <1>1, RtaInvHolds, FoundInGreatest, PTL
=============================================================================
