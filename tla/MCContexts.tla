----------------------------- MODULE MCContexts -----------------------------
(***************************************************************************)
(* Instances of ContextSensitivePTA.  "ids": functions that hand on their     *)
(* argument, called from two sites, and recursion that allocates.  "methods": *)
(* receivers made by one function for two callers, methods that take &self    *)
(* and self, and a dynamic call inside a method.  "globals": a function       *)
(* pointer, a static that two functions use, a field of one that main reads,  *)
(* promoteds of a static, and a call with a summary.  "pointers": a method    *)
(* that takes &self, called through a pointer on a receiver that is made by   *)
(* another function.  "fields": a function that reads a field of a static.    *)
(***************************************************************************)
EXTENDS ContextSensitivePTA

V(n) == <<n, 0>>
Nothing == [addr |-> {}, direct |-> {}, deps |-> {}, static |-> {}, special |-> {}, dispatch |-> {}, fnptr |-> {}]
Call(loc, callee, args, dest) == [loc |-> loc, callee |-> callee, args |-> args, dest |-> dest]
CallOn(loc, on, args, dest) == [loc |-> loc, on |-> on, args |-> args, dest |-> dest]

Ids ==
    [main |-> [Nothing EXCEPT !.addr = {<<V("a"), V("x")>>, <<V("b"), V("y")>>},
                              !.static = {Call(1, "id", <<V("x")>>, V("r")), Call(2, "id", <<V("y")>>, V("q")),
                                          Call(3, "rec", <<V("x")>>, V("z"))}],
     id   |-> [Nothing EXCEPT !.direct = {<<V("idp"), V("idr")>>}],
     rec  |-> [Nothing EXCEPT !.addr = {<<V("heap"), V("n")>>},
                              !.static = {Call(1, "rec", <<V("n")>>, V("m")), Call(2, "id", <<V("recp")>>, V("recr"))}]]

Methods ==
    [main |-> [Nothing EXCEPT !.addr = {<<V("a"), V("x")>>},
                              !.static = {Call(1, "mk", <<>>, V("o1")), Call(2, "wrap", <<>>, V("o2")),
                                          Call(3, "get", <<V("o1"), V("x")>>, V("r")), Call(4, "take", <<V("o2")>>, V("q"))},
                              !.dispatch = {CallOn(5, V("o2"), <<V("o2"), V("x")>>, V("z"))}],
     mk   |-> [Nothing EXCEPT !.addr = {<<V("heap"), V("mkr")>>}],
     wrap |-> [Nothing EXCEPT !.static = {Call(1, "mk", <<>>, V("wrapr"))}],
     get  |-> [Nothing EXCEPT !.direct = {<<V("getp"), V("getr")>>}],
     take |-> [Nothing EXCEPT !.direct = {<<V("takes"), V("taker")>>}],
     dyn  |-> [Nothing EXCEPT !.addr = {<<V("b"), V("dynv")>>},
                              !.static = {Call(1, "get", <<V("dyns"), V("dynv")>>, V("dynr"))}]]

Globals ==
    [main  |-> [Nothing EXCEPT !.addr = {<<V("Fun"), V("f")>>, <<V("a"), V("x")>>},
                               !.direct = {<<V("S"), V("y")>>, <<<<"S", 1>>, V("z")>>}, !.deps = {"initS"},
                               !.special = {Call(2, "summarised", <<V("x")>>, V("q"))},
                               !.fnptr = {CallOn(1, V("f"), <<V("x")>>, V("r"))}],
     fun   |-> [Nothing EXCEPT !.direct = {<<V("funp"), V("S")>>, <<V("S"), V("funr")>>}, !.deps = {"initS"},
                               !.static = {Call(1, "id", <<V("funp")>>, V("funv"))}],
     id    |-> Ids.id,
     initS |-> [Nothing EXCEPT !.addr = {<<V("Q"), <<"S", 1>>>>}, !.direct = {<<V("P"), V("S")>>}, !.deps = {"initP"}],
     initP |-> [Nothing EXCEPT !.addr = {<<V("Q"), V("P")>>}]]

Pointers ==
    [main |-> [Nothing EXCEPT !.addr = {<<V("Get"), V("f")>>, <<V("a"), V("x")>>, <<V("b"), V("o")>>},
                              !.static = {Call(1, "mk", <<>>, V("o"))},
                              !.fnptr = {CallOn(2, V("f"), <<V("o"), V("x")>>, V("r"))}],
     mk   |-> Methods.mk,
     get  |-> Methods.get]

MCPrograms == [ids |-> Ids, methods |-> Methods, globals |-> Globals, pointers |-> Pointers]

Fields ==
    [main  |-> [Nothing EXCEPT !.static = {Call(1, "id", <<>>, V("r"))}],
     id    |-> [Nothing EXCEPT !.direct = {<<<<"S", 1>>, V("idr")>>}, !.deps = {"initS"}],
     initS |-> [Nothing EXCEPT !.addr = {<<V("Q"), <<"S", 1>>>>}]]
FieldPrograms == [fields |-> Fields]

MCStrategies ==
    {[kind |-> "insensitive", k |-> 0]} \cup [kind : {"callsite", "object", "hybrid"}, k : 0 .. 3]

MCGlobal == {"Fun", "Get", "S", "P", "Q"}
MCFuncs == {"main", "id", "rec", "mk", "wrap", "get", "take", "dyn", "fun", "summarised", "initS", "initP"}
MCSelfKind == [f \in MCFuncs |-> CASE f \in {"get", "dyn"} -> "ref" [] f = "take" -> "move" [] OTHER -> "none"]
MCParams ==
    [f \in MCFuncs |->
        CASE f = "id" -> <<V("idp")>> [] f = "rec" -> <<V("recp")>> [] f = "get" -> <<V("gets"), V("getp")>>
          [] f = "take" -> <<V("takes")>> [] f = "dyn" -> <<V("dyns"), V("dynp")>> [] f = "fun" -> <<V("funp")>>
          [] OTHER -> <<>>]
MCRet ==
    [f \in MCFuncs |->
        V(CASE f = "id" -> "idr" [] f = "rec" -> "recr" [] f = "mk" -> "mkr" [] f = "wrap" -> "wrapr"
            [] f = "get" -> "getr" [] f = "take" -> "taker" [] f = "dyn" -> "dynr" [] f = "fun" -> "funr"
            [] OTHER -> "none")]
MCImpl == [o \in {V("heap")} |-> "dyn"]
MCFnItem == [o \in {V("Fun"), V("Get")} |-> IF o = V("Fun") THEN "fun" ELSE "get"]
\* The least solution of the rules.
RECURSIVE Least(_, _)
Least(p, R) == LET S == Rules(p, R.funcs, R.pts) IN IF S = R THEN R ELSE Least(p, S)
Solution(p) == Least(p, [funcs |-> {}, pts |-> {}])
Solutions == [p \in DOMAIN Program |-> Solution(p)]
MCInsensitive == Solutions
=============================================================================
