---------------------------- MODULE StackFilter ----------------------------
(***************************************************************************)
(* pta/strategies/stack_filtering.rs.  Workers compute, one node of the call  *)
(* graph each, the functions that a function reaches; then a flow in a        *)
(* function is cut off when the object it would carry is a local of a         *)
(* function that is not below it on the stack.  Here the program runs         *)
(* instead: whatever is on the stack must pass the filter.                    *)
(***************************************************************************)
EXTENDS Contexts, FiniteSets, SequencesExt

CONSTANTS
    Workers,     \* the threads of the pool
    Funcs,       \* the nodes of the call graph, in the order of their indices
    Calls,       \* the call sites, [func, loc, callee], of the call graph
    Main,
    Initialiser, \* the bodies of promoteds, constants and statics -> promoted, const, static
    Modes,       \* no contexts, as -1, or the limit of call-site contexts
    MaxDepth     \* bound: frames on the stack

VARIABLES mode,
          todo,            \* the indices that no worker has taken
          worker,          \* worker -> [index, worklist, reachable_funcs], with index 0 for none
          relation_matrix, \* index -> the indices reached, {} until it is written
          done,            \* the rows that are written
          stack            \* of the run, the top frame first: [func, ctx]
filterVars == <<mode, todo, worker, relation_matrix, done, stack>>

Nodes == DOMAIN Funcs
NodeOf(f) == CHOOSE i \in Nodes : Funcs[i] = f
HasNode(f) == \E i \in Nodes : Funcs[i] = f
neighbors(i) == {NodeOf(c.callee) : c \in {x \in Calls : x.func = Funcs[i]}}

NodeFunc == {Funcs[i] : i \in Nodes}
Loc == {c.loc : c \in Calls}
ASSUME CallGraphAssumption ==
    /\ 0 \notin Nodes
    /\ Calls \subseteq [func : NodeFunc, loc : Loc, callee : NodeFunc]
    /\ Main \in NodeFunc
    /\ Modes \subseteq Nat \cup {-1}

-----------------------------------------------------------------------------
(* compute_func_reach_relations_mt                                           *)

\* The worklist is a stack of nodes in the order of the graph's edges, and here
\* a set from which any node is taken.
Idle == [index |-> 0, worklist |-> {}, reachable_funcs |-> {}]

FilterInit ==
    /\ mode \in Modes
    /\ todo = Nodes /\ worker = [w \in Workers |-> Idle]
    /\ relation_matrix = [i \in Nodes |-> {}] /\ done = {}
    /\ stack = <<[func |-> Main, ctx |-> Empty]>>

TakeNode(w) ==
    /\ worker[w] = Idle
    /\ \E i \in todo :
          /\ worker' = [worker EXCEPT ![w] = [Idle EXCEPT !.index = i, !.worklist = neighbors(i)]]
          /\ todo' = todo \ {i}
    /\ UNCHANGED <<mode, relation_matrix, done, stack>>

M_Popped(st, n) == \* a node that was reached before stays in the worklist
    IF n \in st.reachable_funcs THEN st
    ELSE [st EXCEPT !.worklist = (@ \ {n}) \cup neighbors(n), !.reachable_funcs = @ \cup {n}]
\* The state of a worker after n.
Popped(st, n) ==
    IF n \in st.reachable_funcs THEN [st EXCEPT !.worklist = @ \ {n}]
    ELSE [st EXCEPT !.worklist = (@ \ {n}) \cup neighbors(n), !.reachable_funcs = @ \cup {n}]
PopNode(w) ==
    /\ \E n \in worker[w].worklist : worker' = [worker EXCEPT ![w] = Popped(worker[w], n)]
    /\ UNCHANGED <<mode, todo, relation_matrix, done, stack>>

M_RowAt(w) == \* rows are stored in the order in which they are finished
    Cardinality(done) + 1
RowAt(w) == worker[w].index
\* Under the lock of the matrix.
WriteRow(w) ==
    /\ worker[w] # Idle /\ worker[w].worklist = {}
    /\ relation_matrix' = [relation_matrix EXCEPT ![RowAt(w)] = worker[w].reachable_funcs]
    /\ done' = done \cup {RowAt(w)}
    /\ worker' = [worker EXCEPT ![w] = Idle]
    /\ UNCHANGED <<mode, todo, stack>>

-----------------------------------------------------------------------------
(* Queries.  A function is <<function, context>>; answers are yes, no, and    *)
(* panic for one without a node.                                              *)

M_match_suffix_and_prefix(v1, v2) == \* the longest overlap is not tried
    \E i \in 1 .. ((IF Len(v1) < Len(v2) THEN Len(v1) ELSE Len(v2)) - 1) :
        SubSeq(v1, Len(v1) - i + 1, Len(v1)) = SubSeq(v2, 1, i)
M_match_prefix_and_suffix(v1, v2) == \* the chains are taken for each other
    \E i \in 1 .. (IF Len(v1) < Len(v2) THEN Len(v1) ELSE Len(v2)) :
        SubSeq(v2, Len(v2) - i + 1, Len(v2)) = SubSeq(v1, 1, i)
match_suffix_and_prefix(v1, v2) ==
    \E i \in 1 .. (IF Len(v1) < Len(v2) THEN Len(v1) ELSE Len(v2)) :
        SubSeq(v1, Len(v1) - i + 1, Len(v1)) = SubSeq(v2, 1, i)

NodesRelated(from, to) ==
    IF ~(HasNode(from) /\ HasNode(to)) THEN "panic"
    ELSE IF from = to \/ NodeOf(to) \in relation_matrix[NodeOf(from)] THEN "yes" ELSE "no"

naive_reachability_relation(from, to) == NodesRelated(from[1], to[1])

\* A site of a context is <<function, location>>.
CallChain(f) == <<f[1]>> \o [i \in DOMAIN f[2] |-> f[2][i][1]]

is_reachable_from(to, from) ==
    IF mode = -1 THEN naive_reachability_relation(from, to)
    ELSE IF from[2] # Empty /\ match_suffix_and_prefix(CallChain(to), CallChain(from)) THEN "yes"
    ELSE NodesRelated(from[1], Last(CallChain(to)))

\* Of a local of owner; heap objects and statics have no owner and are alive.
is_potentially_alive(current, owner) ==
    IF owner = current \/ (owner[1] \in DOMAIN Initialiser /\ Initialiser[owner[1]] \in {"promoted", "const"}) THEN "yes"
    ELSE is_reachable_from(current, owner)

-----------------------------------------------------------------------------
(* The run, with the contexts that new_static_call_context gives.            *)

Ready == done = Nodes /\ \A w \in Workers : worker[w] = Idle
Strategy == [kind |-> IF mode = -1 THEN "insensitive" ELSE "callsite", k |-> IF mode = -1 THEN 0 ELSE mode]
CSFunc(frame) == <<frame.func, frame.ctx>>
CalleeFrame(frame, c) ==
    [func |-> c.callee, ctx |-> new_static_call_context(Strategy, [func |-> frame.func, loc |-> c.loc, ctx |-> frame.ctx])]

RunCall ==
    /\ Ready /\ Len(stack) < MaxDepth
    /\ \E c \in Calls : c.func = stack[1].func /\ stack' = <<CalleeFrame(stack[1], c)>> \o stack
    /\ UNCHANGED <<mode, todo, worker, relation_matrix, done>>
RunReturn ==
    /\ Ready /\ Len(stack) > 1
    /\ stack' = Tail(stack)
    /\ UNCHANGED <<mode, todo, worker, relation_matrix, done>>

Work(w) == TakeNode(w) \/ PopNode(w) \/ WriteRow(w)
FilterNext == (\E w \in Workers : Work(w)) \/ RunCall \/ RunReturn

\* The pool runs every worker.
FilterSpec == FilterInit /\ [][FilterNext]_filterVars /\ \A w \in Workers : WF_filterVars(Work(w))

-----------------------------------------------------------------------------
\* A node is computed by one worker at a time (stack_filtering.rs:171).
FilterTypeOK ==
    /\ relation_matrix \in [Nodes -> SUBSET Nodes] /\ done \subseteq Nodes
    /\ \A w \in Workers : worker[w].index \in (Nodes \cup {0}) \ todo
    /\ \A v, w \in Workers : v # w /\ worker[v] # Idle => worker[v].index # worker[w].index

\* A row that is written is what is below its node: the least set that has
\* the node's neighbors and those of its members, whatever the order in which
\* the workers finish (stack_filtering.rs:164-196).
ClosedBelow(i, R) == neighbors(i) \subseteq R /\ \A n \in R : neighbors(n) \subseteq R
Below == [i \in Nodes |-> {j \in Nodes : \A R \in SUBSET Nodes : ClosedBelow(i, R) => j \in R}]
RowsExact == \A i \in done : relation_matrix[i] = Below[i]

\* The workers keep out of each other's way, and no row depends on their order
\* (stack_filtering.rs:164-196).
MatrixExact == FilterTypeOK /\ RowsExact

\* The pool finishes, with cycles in the call graph too (stack_filtering.rs:171-188).
FilterReady == <>Ready

\* A local of a function that is on the stack, and of the body of a promoted,
\* constant or static, passes the filter in the function on top: no flow of a
\* pointer that is alive is cut off (stack_filtering.rs:278-312, 360-421).
AliveKept ==
    Ready =>
        /\ \A n \in DOMAIN stack : is_potentially_alive(CSFunc(stack[1]), CSFunc(stack[n])) = "yes"
        /\ \A g \in DOMAIN Initialiser : is_potentially_alive(CSFunc(stack[1]), <<g, Empty>>) = "yes"

\* All functions in contexts: each site is in the function that the next one
\* calls, and a context that is not full begins in main.
CalledAt(site) == {c.callee : c \in {x \in Calls : <<x.func, x.loc>> = site}}
Contextual ==
    LET sites == {<<c.func, c.loc>> : c \in Calls}
    IN  {f \in ToSet(Funcs) \X UNION {[1 .. j -> sites] : j \in 0 .. Strategy.k} :
            /\ \A i \in DOMAIN f[2] : CallChain(f)[i] \in CalledAt(f[2][i])
            /\ Len(f[2]) < Strategy.k => Last(CallChain(f)) = Main}

\* The filter with contexts cuts off whatever the one without them does: the
\* overlap of two call chains is a path of the call graph (stack_filtering.rs:360-421).
ContextsRefine ==
    Ready => \A to, from \in Contextual :
                is_reachable_from(to, from) = "yes" => naive_reachability_relation(from, to) = "yes"
=============================================================================
