------------------------ MODULE InclusionConstraints ------------------------
(***************************************************************************)
(* What inclusion-based (Andersen-style) pointer analysis promises, with   *)
(* no worklist, difference sets or order: starting from empty points-to    *)
(* sets, a step adds facts and edges that the rules derive from the facts  *)
(* and edges there are.  Every reachable state is therefore contained in   *)
(* every solution of the constraints, and when a solve ends it is itself   *)
(* one: the least.  Between two solves the set of constraints may grow.    *)
(***************************************************************************)
CONSTANTS
  Node, Proj, Field, Filtered,
  Refs         (* the nodes that stand for references made while solving    *)

VARIABLES
  pts,                        (* points-to set of each node                 *)
  flow,                       (* subset edges, given and derived            *)
  addr, load, store, gep, offset, (* the constraints of the program         *)
  solving                     (* FALSE between two solves                   *)

vars == <<pts, flow, addr, load, store, gep, offset, solving>>

(* The rules of the analysis, over the facts and edges there are.          *)
FactDerivable(E, A, v, o) ==
  \/ <<o, v>> \in A
  \/ \E s \in Node : /\ <<s, v>> \in E \cup offset
                     /\ o \in pts[s] /\ <<s, v, o>> \notin Filtered
  \/ \E e \in gep : e[3] = v /\ \E x \in pts[e[1]] : o = Field[x, e[2]]

EdgeDerivable(s, d) ==
  \/ \E e \in load : e[3] = d /\ \E x \in pts[e[1]] : s = Field[x, e[2]]
  \/ \E e \in store : e[1] = s /\ \E x \in pts[e[3]] : d = Field[x, e[2]]

(* The facts satisfy every constraint: nothing more can be derived.        *)
Flows(s, d) == \A o \in pts[s] : <<s, d, o>> \notin Filtered => o \in pts[d]
Solution ==
  /\ \A e \in addr : e[1] \in pts[e[2]]
  /\ \A e \in flow \cup offset : Flows(e[1], e[2])
  /\ \A e \in load : \A x \in pts[e[1]] : <<Field[x, e[2]], e[3]>> \in flow
  /\ \A e \in store : \A x \in pts[e[3]] : <<e[1], Field[x, e[2]]>> \in flow
  /\ \A e \in gep : \A x \in pts[e[1]] : Field[x, e[2]] \in pts[e[3]]

(* A step of a solve derives facts and edges, or ends it with a solution.  *)
Derive ==
  /\ solving
  /\ UNCHANGED <<load, store, gep, offset>>
  /\ addr \subseteq addr' /\ \A e \in addr' \ addr : e[2] \in Refs
  /\ flow \subseteq flow' /\ \A e \in flow' \ flow : EdgeDerivable(e[1], e[2])
  /\ \A v \in Node :
       /\ pts[v] \subseteq pts'[v]
       /\ \A o \in pts'[v] \ pts[v] : FactDerivable(flow', addr', v, o)
  /\ solving' \/ Solution'

(* The program grows, and a new solve begins.                              *)
Extend ==
  /\ ~solving /\ solving'
  /\ addr \subseteq addr' /\ flow \subseteq flow' /\ offset \subseteq offset'
  /\ load \subseteq load' /\ store \subseteq store' /\ gep \subseteq gep'
  /\ UNCHANGED pts

Init == pts = [v \in Node |-> {}] /\ solving = TRUE
Next == Derive \/ Extend
Spec == Init /\ [][Next]_vars
=============================================================================
