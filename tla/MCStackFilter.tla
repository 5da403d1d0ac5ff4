--------------------------- MODULE MCStackFilter ---------------------------
(***************************************************************************)
(* A call graph with a call chain, two ways to one function, recursion        *)
(* through two functions, and a function that is called from two sites.       *)
(***************************************************************************)
EXTENDS StackFilter

Site(f, l, g) == [func |-> f, loc |-> l, callee |-> g]
MCFuncs == <<"main", "a", "b", "c", "leaf">>
MCCalls == {Site("main", 1, "a"), Site("main", 2, "c"), Site("a", 1, "b"), Site("b", 1, "a"), Site("b", 2, "leaf"),
            Site("c", 1, "leaf"), Site("c", 2, "leaf")}
MCModes == {-1, 0, 1, 2, 3}
MCInitialiser == [P |-> "promoted", C |-> "const"]
=============================================================================
