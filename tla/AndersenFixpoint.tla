-------------------------- MODULE AndersenFixpoint --------------------------
(***************************************************************************)
(* What the context-insensitive analysis computes, with no rounds, queues, *)
(* difference sets or deduplication: the least solution of its rules, by   *)
(* iteration from nothing.  A solution is a set of reachable functions, a  *)
(* set of calls and a points-to set per node, given the functions that are *)
(* left out for their summaries.                                           *)
(***************************************************************************)
EXTENDS AndersenPTA

CONSTANT Rounds (* iterations after which the programs of a run are stable *)

(* The functions whose bodies count, and those whose edges count.          *)
Analysed(R) == R.funcs \ (R.left \cup Unavailable)
PagFuncs(R) == Analysed(R) \cup UNION {Deps[g] : g \in Analysed(R)}
EdgesOf(R, k) ==
  UNION {FuncPag[g][k] : g \in PagFuncs(R) \cup UNION {Deps[h] : h \in PagFuncs(R)}}
SitesOf(R, k) == UNION {FuncPag[g][k] : g \in Analysed(R)}

Copies(R) ==
  EdgesOf(R, "direct") \cup EdgesOf(R, "offset")
  \cup (UNION {CallFlow[c] : c \in {x \in R.calls : x[2] \notin Unavailable}})
  \cup (UNION {{<<Field[o, e[2]], e[3]>> : o \in R.pts[e[1]]} : e \in EdgesOf(R, "load")})
  \cup UNION {{<<e[1], Field[o, e[2]]>> : o \in R.pts[e[3]]} : e \in EdgesOf(R, "store")}

(* The calls through function pointers, those in Fn-trait objects included. *)
FnptrSites(R) ==
  SitesOf(R, "fnptr") \cup
  UNION {{<<o, Unpack[s[2]]>> : o \in R.pts[s[1]] \cap FnPtrObj} :
           s \in SitesOf(R, "fntrait")}
FnptrTargets(R) ==
  UNION {{<<s[2], o>> : o \in {x \in R.pts[s[1]] : FnCallee[x] # None}} :
           s \in FnptrSites(R)}

TraitCalls(s, S) == {<<i[1], i[3]>> : i \in Devirtualized(s, S)}
FntraitCalls(s, S) ==
  {<<Unpack[s], FnCallee[o]>> : o \in {x \in S : FnCallee[x] # None}}
  \cup TraitCalls(s, {x \in S : FnCallee[x] = None})
CallsOf(R) ==
  (UNION {StaticCalls[g] : g \in Analysed(R)})
  \cup {<<t[1], FnCallee[t[2]]>> : t \in FnptrTargets(R)}
  \cup (UNION {TraitCalls(s[2], R.pts[s[1]]) : s \in SitesOf(R, "dispatch")})
  \cup UNION {FntraitCalls(s[2], R.pts[s[1]] \ FnPtrObj) : s \in SitesOf(R, "fntrait")}

SpecialCallsOf(R) == UNION {SpecialCalls[g] : g \in Analysed(R)}

(* The address edges, with those of the references to closures.            *)
Addresses(R) ==
  EdgesOf(R, "addr") \cup {<<t[2], ClosureRef[t]>> : t \in FnptrTargets(R)}

(* All rules applied once.                                                 *)
ApplyRules(R) ==
  LET copies == Copies(R)
      gep == EdgesOf(R, "gep")
      addr == Addresses(R)
  IN [funcs |-> R.funcs \cup {c[2] : c \in R.calls \cup SpecialCallsOf(R)},
      left |-> R.left,
      calls |-> CallsOf(R),
      pts |-> [v \in Node |->
        {e[1] : e \in {x \in addr : x[2] = v}}
        \cup (UNION {Flow(e[1], v, R.pts[e[1]]) : e \in {x \in copies : x[2] = v}})
        \cup UNION {{Field[o, e[2]] : o \in R.pts[e[1]]} : e \in {x \in gep : x[3] = v}}]]

(* The functions that some body calls specially.                           *)
Special == {c[2] : c \in UNION {SpecialCalls[g] : g \in Body}}

Start(main, S) == [funcs |-> {main}, left |-> S, calls |-> {}, pts |-> [v \in Node |-> {}]]
Iterated(main, S) ==
  LET after[n \in Nat] == IF n = 0 THEN Start(main, S) ELSE ApplyRules(after[n - 1])
  IN after[Rounds]

(* For the entry point main, without the bodies of S.                      *)
LeastSolution == [main \in Entries |-> [S \in SUBSET Special |-> Iterated(main, S)]]

ASSUME RoundsSuffice ==
  /\ Rounds \in Nat
  /\ \A main \in Entries : \A S \in SUBSET Special :
       ApplyRules(LeastSolution[main][S]) = LeastSolution[main][S]

(* What ResultIsLeast rests on.  Calls from one place to one function pass *)
(* arguments in the same way, and none of them is special: of two, only    *)
(* the first is new to CallGraph::add_edge and gets edges.                 *)
UniformFlow(R) ==
  \A c \in R.calls :
    /\ \A d \in R.calls : Base[c[1]] = Base[d[1]] /\ c[2] = d[2] => CallFlow[c] = CallFlow[d]
    /\ \A d \in SpecialCallsOf(R) : Base[c[1]] # Base[d[1]] \/ c[2] # d[2]
FlowByBase ==
  \A main \in Entries : \A S \in SUBSET Special : UniformFlow(LeastSolution[main][S])

(* A function that some body calls specially has a summary, and its own    *)
(* body is left out, unless it was built before that call was seen: this   *)
(* depends on the order in which functions are reached (pag.rs:458-468).   *)
SkippedFuncs == special_functions \ processed_funcs

(* When the analysis ends, its call graph and its points-to sets are those *)
(* of the least solution for the entry point without the bodies that were  *)
(* left out, whatever order functions, calls and edges were processed in:  *)
(* incremental rounds, difference sets and deduplicated call edges change  *)
(* nothing, and a summary that comes late has no effect but that.          *)
ResultIsLeast ==
  stage = "done" =>
    \E main \in Entries :
      LET R == LeastSolution[main][SkippedFuncs]
      IN /\ func_nodes = R.funcs
         /\ call_graph = {<<Base[c[1]], c[2]>> : c \in R.calls \cup SpecialCallsOf(R)}
         /\ \A v \in Node : Pts(v) = R.pts[v]
=============================================================================
