------------------------- MODULE RapidTypeFixpoint -------------------------
(***************************************************************************)
(* What the rapid type analysis computes, with no rounds, phases or        *)
(* queues: the least solution of its rules, by iteration from the entry    *)
(* point.  A solution is a set of functions, a set of calls, a set of      *)
(* concrete types and a set of function pointer sites.                     *)
(***************************************************************************)
EXTENDS RapidTypeAnalysis

CONSTANTS
  StaticCasts, (* StaticCasts[b] : casts in the initialisers of the statics *)
               (* that b refers to                                          *)
  StaticOwners,(* StaticOwners[b] : of those initialisers the ones with a   *)
               (* local that something points to                           *)
  Rounds       (* iterations after which the programs of a run are stable   *)

(* The bodies of the functions F, those of S and those without MIR left    *)
(* out.                                                                    *)
BodiesOf(F, S) ==
  UNION {{f} \cup PromotedOf[f] : f \in (F \cap Func) \ (S \cup Unavailable)}
CallsOf(B) == UNION {CallsIn[b] : b \in B}
CastsOf(B) == UNION {Casts[b] : b \in B}
StaticCastsOf(B) == UNION {StaticCasts[b] : b \in B}

PairsAt(S, types) ==
  UNION {{<<s, p[2]>> : p \in {q \in types : q[1] = s[1]}} : s \in S}
DispatchCalls(C, types) ==
  {<<st[1][2], Devirt[st[1][3], st[2]]>> : st \in PairsAt(DynCallsites(C), types)}
FnObjectCalls(C, types) ==
  {<<st[1][2], FntraitTarget(st[1][3], st[2])>> :
     st \in {x \in PairsAt(DynFntraitCallsites(C), types) : x[2] \notin FnPtrTy}}
FnObjectSites(C, types) ==
  {<<st[2], st[1][2]>> :
     st \in {x \in PairsAt(DynFntraitCallsites(C), types) : x[2] \in FnPtrTy}}
PointerCalls(sites, targets) ==
  UNION {{<<s[2], FnItem[g[2]]>> : g \in {h \in targets : <<s[1], h[1]>> \in MatchedSig}} :
           s \in sites}

(* All rules applied once, to the bodies B with the casts T.               *)
ApplyRules(R, B, T) ==
  LET C == CallsOf(B)
      calls == StaticCalls(C) \cup SpecialCalls(C)
               \cup DispatchCalls(C, R.types) \cup FnObjectCalls(C, R.types)
               \cup PointerCalls(R.sites, UNION {FnptrTargets(c) : c \in T})
      resolved == {c \in calls : c[2] # None}
  IN [funcs |-> R.funcs \cup UNION {{SiteBody[c[1]], c[2]} : c \in resolved},
      calls |-> resolved,
      types |-> (UNION {ConcreteTypes(c) : c \in T})
                \cup UNION {{<<u[2], p[2]>> : p \in {q \in R.types : q[1] = u[1]}} :
                              u \in UNION {Upcastings(c) : c \in T}},
      sites |-> FnptrCallsites(C) \cup FnObjectSites(C, R.types)]

Start(e) == [funcs |-> {e}, calls |-> {}, types |-> {}, sites |-> {}]
Rules(R, S) == LET B == BodiesOf(R.funcs, S) IN ApplyRules(R, B, CastsOf(B))
Iterated(e, S) ==
  LET after[n \in Nat] == IF n = 0 THEN Start(e) ELSE Rules(after[n - 1], S)
  IN after[Rounds]

(* A function that is handled specially at one call and called normally at *)
(* another is visited or not, as it happens: the most that can be found    *)
(* has the bodies of all such functions, and the least has none of them.   *)
Greatest == [e \in Entries |-> Iterated(e, {})]
HandledSpecially(e) == {c[2] : c \in SpecialCalls(CallsOf(BodiesOf(Greatest[e].funcs, {})))}
Least == [e \in Entries |-> Iterated(e, HandledSpecially(e))]

ASSUME RtaRoundsSuffice ==
  /\ Rounds \in Nat
  /\ \A e \in Entries : /\ Rules(Greatest[e], {}) = Greatest[e]
                        /\ Rules(Least[e], HandledSpecially(e)) = Least[e]

(* The analysis ends with the least solution of its rules, whatever order  *)
(* functions were visited and calls resolved in; only functions that are   *)
(* handled specially at some calls leave room (rta.rs:93-131).             *)
ResultIsSolution ==
  phase = "done" =>
    \E e \in Entries :
      /\ Least[e].funcs \subseteq func_nodes /\ func_nodes \subseteq Greatest[e].funcs
      /\ Least[e].calls \subseteq call_graph /\ call_graph \subseteq Greatest[e].calls
      /\ Least[e].types \subseteq dynamic_to_possible_concrete_types
      /\ dynamic_to_possible_concrete_types \subseteq Greatest[e].types

-----------------------------------------------------------------------------
(* The calls that the pointer analysis resolves, for programs in which     *)
(* every object that is coerced is called: it also has the edges of the    *)
(* initialisers of the statics (AndersenPTA, add_fpag_edges).              *)
PointerRules(R, S) ==
  LET B == BodiesOf(R.funcs, S) IN ApplyRules(R, B, CastsOf(B) \cup StaticCastsOf(B))
PointerAnalysis ==
  [e \in Entries |->
     LET after[n \in Nat] ==
           IF n = 0 THEN Start(e) ELSE PointerRules(after[n - 1], HandledSpecially(e))
     IN after[Rounds]]

(* Stack filtering asks for the nodes of functions that the pointer        *)
(* analysis reached and of the functions whose locals they may point to,   *)
(* promoted and other constants excepted, and takes for granted that the   *)
(* call graph of the rapid type analysis has them                          *)
(* (stack_filtering.rs:297-312, 314-316, unwrap).                          *)
QueriedFunctionsAreNodes ==
  phase = "done" =>
    \E e \in Entries :
      LET reached == PointerAnalysis[e].funcs
          owners == UNION {StaticOwners[b] : b \in BodiesOf(reached, HandledSpecially(e))}
      IN reached \cup owners \subseteq func_nodes
=============================================================================
