----------------------------- MODULE MCAndersen -----------------------------
(* Instances of AndersenPTA.  The entry point is any subset of the bodies  *)
(* of MCPropagator's program; method and func are what its calls resolve   *)
(* to.  Both read a static variable s, in the first round or a later one.  *)
EXTENDS AndersenFixpoint, MCPropagator

CONSTANTS s, mp, mr,       \* the static, parameter and result of method
          init, ext, spec, \* initialiser of s, function without MIR, special
          c4, c5, c6

DriverNodes == CallNodes \cup {af, bf, s, mp, mr}
DriverKind(v) == IF v \in {s, mp, mr} THEN 1 ELSE Kind(v)
DriverFiltered ==
  {x \in Node \X Node \X Node : DriverKind(x[1]) # DriverKind(x[2])}

(* Entry point n has statement i when bit i - 1 of n is set.               *)
Statements ==
  <<[NoEdges EXCEPT !.addr = {<<item, fp>>}, !.fnptr = {<<fp, c1>>}],
    [NoEdges EXCEPT !.addr = {<<closure, fp>>, <<closure, dyn>>}],
    [NoEdges EXCEPT !.addr = {<<fp, dyn>>}, !.fntrait = {<<dyn, c2>>}],
    [NoEdges EXCEPT !.addr = {<<a, p>>, <<a, dyn>>}, !.direct = {<<s, q>>}]>>
Mains == 0..15
Has(n, i) == (n \div 2^(i - 1)) % 2 = 1

Pags(m, g, i) ==
  [x \in Body |-> IF x \in Mains THEN Join({Statements[j] : j \in {k \in 1..4 : Has(x, k)}})
                  ELSE IF x = method THEN m ELSE IF x = func THEN g
                  ELSE IF x = init THEN i ELSE NoEdges]
MCFuncPag ==
  Pags([NoEdges EXCEPT !.direct = {<<mp, mr>>, <<s, mr>>}, !.load = {<<mp, f, mr>>},
                       !.dispatch = {<<mr, c3>>}],
       [NoEdges EXCEPT !.direct = {<<s, r>>}, !.addr = {<<b, r>>},
                       !.store = {<<r, f, r>>}],
       [NoEdges EXCEPT !.addr = {<<a, s>>}])

(* const C: (&A, fn()) = (&a, item);  s is the node of C.0, fp that of C.1. *)
(* The entry point reads C.0 and calls C.1, and so does what it calls.     *)
ConstFuncPag ==
  [x \in Body |-> IF x \in Mains THEN [NoEdges EXCEPT !.direct = {<<s, q>>}, !.fnptr = {<<fp, c1>>}]
                  ELSE IF x = method THEN [NoEdges EXCEPT !.direct = {<<s, mr>>}, !.fnptr = {<<fp, c6>>}]
                  ELSE IF x = init THEN [NoEdges EXCEPT !.addr = {<<a, s>>, <<item, fp>>}]
                  ELSE NoEdges]

DriverFuncs == {method, func, ext, spec} \cup Mains
MCStaticCalls == [x \in Func |-> IF x = func THEN {<<c4, ext>>} ELSE {}]
(* method has a summary of func, which others call otherwise.               *)
MCSpecialCalls ==
  [x \in Body |-> IF x = method THEN {<<c6, func>>} ELSE IF x = func THEN {<<c5, spec>>} ELSE {}]
MCDeps == [x \in Body |->
             IF x \in {method, func} \/ (x \in Mains /\ Has(x, 4))
             THEN {init} ELSE {}]
MCBase == [x \in CallSite |-> IF x = u3 THEN c2 ELSE x]
MCCallFlow == [x \in CallSite \X Func |->
                 CASE x[2] = method /\ x[1] \in {c1, c2, u3} -> {<<p, mp>>, <<mr, q>>}
                   [] x = <<c3, method>> -> {<<mr, mp>>}
                   [] x = <<c3, func>> -> {<<mr, r>>, <<r, mr>>}
                   [] x[2] = func /\ x[1] \in {c1, c2, u3} -> {<<r, q>>}
                   [] OTHER -> {}]

(* The entry point's nodes and call sites are its own, and so are those of *)
(* method and func; not when a call goes through the constant C.1.         *)
MCOwner == [x \in Mains |-> [v \in Node |->
              IF v \in {mp, mr} THEN method ELSE IF v = r THEN func
              ELSE IF v \in {p, q, fp, dyn, cref} THEN x ELSE None]]
MCCaller == [x \in Mains |-> [y \in CallSite |->
              IF y \in {c3, c6} THEN method ELSE IF y \in {c4, c5} THEN func ELSE x]]
ASSUME Owned == StaticNode = {s} => Ownership
ASSUME Uniform == FlowByBase
=============================================================================
