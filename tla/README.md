# A verification project for RUPTA

RUPTA (`src/`) is a whole-program pointer analysis for Rust. It runs inside
`rustc` on MIR, builds a *pointer assignment graph* (PAG) of the reachable
functions, solves it by inclusion-based (Andersen-style) constraint propagation
and discovers callees on the fly. This directory holds TLA+ models of it, the
TLC configurations that check them, and TLAPS proofs.

All paths below are relative to `src/src/`.

## 1. The system

| part | state | operations |
|---|---|---|
| **Constraint solver** `pta/propagator/propagator.rs` | the worklist; borrows the PAG, the points-to data, the associated calls, the lists of resolved calls and the two edge iterators from the driver | `solve_worklist`: activate queued edges, then `process_node` (one handler per kind of edge and of call, then flush) until the worklist is empty |
| **Points-to data** `pts_set/pt_data.rs` | `diff_pts_map`, `propa_pts_map` | `add_pts`, `union_*`, `flush` |
| **Points-to sets** `pts_set/points_to.rs`, `util/bit_vec.rs` | small array (up to 32) or bit vector | insert, union, subtract, intersect, iterate |
| **PAG** `graph/pag.rs`, `graph/func_pag.rs` | petgraph graph, in/out edge maps per kind, function PAGs, promoted and static functions, queue of address edges | `add_edge`, `build_func_pag`, `build_static_pag`, `add_inter_procedural_edges` |
| **Andersen driver** `pta/andersen.rs` | call graph, processed functions, iterator over reachable functions, queue of inter-procedural edges, associated calls | `initialize`, `process_reach_funcs`, `add_fpag_edges`, `process_calls_in_fpag`, `add_call_edge`, `propagate` |
| **Context-sensitive driver** `pta/context_sensitive.rs`, `mir/context.rs` | the same per (context, function), the context cache | the same, with contexts from a strategy |
| **Context strategies** `pta/strategies/context_strategy.rs` | none (k) | new static, instance and special contexts: k-callsite, k-object, hybrid |
| **Stack filtering** `pta/strategies/stack_filtering.rs` | reachability rows of the call graph, container function of edges | function reachability (rayon, one search per function), `is_potentially_alive` |
| **Rapid type analysis** `rta/` | call graph, instantiated types, pending dynamic calls | fixpoint over reachable functions and types, pre-analysis for stack filtering |
| **Call graph** `graph/call_graph.rs` | petgraph graph, callsite maps, queue of reachable functions | `add_node`, `add_edge`, `set_callsite_type` |
| **Chunked queue** `util/chunked_queue.rs` | vector of chunks | `push` while iterators are alive |
| **Function PAG builder** `builder/` | edges and call sites of one function | one visitor per MIR statement, `resolve_call`, summaries of special functions, substitution of generics |
| **Paths and types** `mir/path.rs`, `util/type_util.rs`, `mir/analysis_context.rs` | caches of path types, pointer projections, function ids | projection, cast variants, regularisation, type equivalence |
| **Front end and output** `bin/`, `pta/mod.rs`, `util/options.rs`, `util/results_dumper.rs`, statistics, `util/mem_watcher.rs` | options, a memory-polling thread | command line, rustc callbacks, dumps |

How they interact: the driver builds the function PAG of every reachable
function, adds its edges to the PAG and registers its dynamic call sites with
the node they are resolved through. `solve_worklist` borrows all of that
mutably, so solver and driver alternate on one thread. The solver returns the
calls it resolved in two vectors; the driver adds a call edge, the argument and
return edges (queued for the next solve) and the callee's PAG, and solves again
until a solve resolves no call. Only stack filtering (rayon workers) and the
memory watcher use other threads.

### What is hard

* **Mutation under iteration.** The handlers of a node run one after the other
  over a difference set that they themselves, or an edge they add, may grow;
  `flush` then declares the whole set propagated. Completeness depends on no
  handler feeding its own node (`DiffStable`, part of `DiffDisciplined`), on a
  new edge carrying everything its source has (`EdgesHandled`, part of
  `Handled`), and on every node with new objects being in the worklist
  (`DiffIsScheduled`, part of `DiffDisciplined`).
* **Growth between solves.** An edge or a call site that the driver adds is
  visited for later objects only, unless its source is empty or the edge is
  queued. This is the contract `Acceptable` between driver and solver.
* **Resolution while solving.** Function pointers reached through `dyn Fn`
  objects register new call sites in the middle of a handler.
* **Deduplication.** Call edges are keyed by location and callee only; PAG
  edges by ends and kind; functions by id.
* **Termination** of the worklist and of the driver's loop, with recursion,
  cyclic assignments and contexts.
* **Order.** Hash sets and rayon make the order of many loops arbitrary.
* **One memory, several paths.** Casts, unions and transmutes give the same
  bytes several names; each must find what is stored through the others.
* **Limits.** Contexts are cut to k elements, sets change representation at 32,
  queues are split into chunks: the case at the limit has code of its own.

## 2. The modules

### `Propagator` (the solver)

State: the edge sets of the PAG, the two queues as what their iterators have
not returned yet, `diff`/`propa` of `DiffPTData`, the worklist as the sequence
it is (duplicates included), the control state of `process_node` (`phase`,
`cur`, `todo`: what is left of the current loop) and the calls reported. `base`
and `taken_*` are history: the diff set when the node was popped, the calls
that the driver has taken.

| code | action |
|---|---|
| `process_all_addr_edges`, `process_addr` | `ProcessAddr`, `AddrEdgesDone` |
| `process_all_inter_proc_edges` | `ProcessInterProc`, `InterProcEdgesDone` |
| `solve_worklist`'s loop | `PopNode`, `SolveDone` |
| `handle_direct` | `ProcessDirect` |
| `handle_load_and_store` | `HandleLoad`, `ProcessLoad`, `HandleStore`, `ProcessStore` |
| `handle_gep`, `handle_offset` | `HandleGep`, `ProcessGep`, `HandleOffset`, `ProcessOffset` |
| `handle_static_dispatch_instance_call`, `handle_dynamic_dispatch_call` | one action each: their loops only append to `new_call_instances` |
| `handle_fnptr_call`, `handle_dynamic_fntrait_call` | `Handle...`, then `ProcessFnptrCall`, `ProcessDynamicFntraitCall` per site and object |
| `DiffPTData::flush` | `Flush` |
| `propagate(edge, diff)` | `PropagateDiff`, `PropagateAll`, both with `Flow` |

Abstractions. The order of the iterations of one loop (edge ids, node ids, hash
sets) is arbitrary. `Filtered` stands for the three reasons for which
`propagate` drops an object: the ends have types that are not equivalent
pointers, the object's type does not fit, or stack filtering says the object is
dead in the edge's function. Stack filtering knows the function of
inter-procedural edges only (`add_pag_edge_in_func` is called for those and for
edges derived from filtered loads and stores), so the same tests in the load,
store and gep handlers never fire. `Field` is `append_projection`. The calls
that a set of objects resolves to are functions of site and object
(`DynCallee`, `FnCallee`, `ClosureRef`, `Unpack`).

Assumptions, each named in the module. `WellFormed`: MIR goes through
temporaries, so no load or gep targets its own base; a store into its own base
is filtered by type; nobody calls through the fresh reference made for a
closure. `Acceptable`: the contract above. `CastPAGEdge`s are absent.

### `InclusionConstraints` (what it promises)

The abstract machine of inclusion-based analysis: facts and edges are only ever
derived by a rule, and a solve ends in a solution. Together: the least
solution. `Propagator` implements it under the mapping
`pts[v] = diff[v] ∪ propa[v]`, checked as a PROPERTY and proved.

### `AndersenPTA` (the driver)

It EXTENDS `Propagator`: `Solve` is `SolveWorklist`, and what the driver adds to
the PAG between two solves is collected in `added`, which joins the solver's
edge sets at `StartSolve` (the PAG of the code is the union). The other state is
the code's: `call_graph`, `func_nodes`, `reach_funcs` (what `rf_iter` has not
returned), `processed_funcs`, `special_functions`; `stage` is the place in
`initialize` and `propagate`.

| code | action |
|---|---|
| `initialize` | `PTAInit`, and `process_reach_funcs` in stage `initialize` |
| `process_reach_funcs` | `ProcessReachFunc`, `SkipReachFunc`, one function each |
| `build_func_pag`, `promote_constants`, `build_static_pag`, `add_fpag_edges`, `process_calls_in_fpag` | `AddFuncPag` with `FpagFuncs`, `AddEdges`, `SpecialCallees` |
| `CallGraph::add_edge`, `add_node` | `InsertCalls`, `NewCallEdges` |
| `add_call_edge`, `add_inter_procedural_edges` | `AddCallEdge`, `InterProcEdges` |
| `propagate`'s loop | `StartSolve`, `Solve`, `Break`, `TakeCalls` |
| `process_new_calls`, `process_new_call_instances` | `ProcessNewCall`, `ProcessNewCallInstance`, then `process_reach_funcs` again, in stages `calls_reach` and `instances_reach` |

Abstractions. A program is given by constants: `FuncPag` (edges and dynamic
call sites of a body), `StaticCalls`, `SpecialCalls`, `Deps` (its promoted
constants and the statics and constants it uses), `CallFlow` (the argument and
return edges of a call). Functions, calls and edges are processed in any order,
which includes the queues' order. `Base` maps a call site to its function and
location, the key of the call graph. The call site that is made for a closure,
which only adds the reference to it as first argument, is not told apart from
the one it is made from: closures called through a function pointer capture
nothing. Besides direct edges the code queues address edges whose source is a
static; `propagate` drops them, since a pointer and what it points to have
types that are not equivalent (a `dyn` reference passes that test; it adds
objects and loses none).

`Owner` and `Caller` say which body a path is rooted in and a call site is in
(`get_containing_func`, mir/path.rs:626-646). No action reads them; `Ownership`
states with them what the builder of function PAGs gives the driver, and the
proof of `ContractKept` rests on it (section 4). `MCAndersen` assumes it of its
instance, so TLC evaluates it.

### `AndersenFixpoint` (what the analysis computes)

The reference: the least solution of the rules of reachability, calls and
points-to sets, by plain iteration, without rounds, queues, difference sets or
deduplication. `ResultIsLeast` compares the final state with it; `Rounds` is the
number of iterations after which the instances are stable, which
`RoundsSuffice` makes TLC confirm.

`build_func_pag` skips the body of a function that is in `special_functions` by
then (pag.rs:468): a function that has a summary at one call and is called
normally at another contributes its body if that body is built first. So
`LeastSolution[main][S]` is taken for an entry point and the functions `S` whose
bodies are left out, and `ResultIsLeast` says that the final state *is* the
solution for `SkippedFuncs`, the special functions that were not processed. In
`andersen_rounds` a function that has a summary in one body is called by others,
and both outcomes occur.

One hypothesis names the programs for which this is not so. `FlowByBase`: two
calls from one location to one function pass their arguments alike, and none of
them has a summary while another has not. A call edge is known by location and
callee, and `add_edge` is new only for the first of the two, so only that one
gets its edges (andersen.rs:193). `MCAndersen` assumes it, so TLC evaluates it.

### `RapidTypeAnalysis` (the pre-analysis of stack filtering)

| code | action |
|---|---|
| `analyze` | `RtaInit` |
| `process_reachable_functions`, `promote_constants`, `visit_body` | `ProcessFunction`, one function of the queue each, with `Bodies` |
| `visit_assign` and what it records | `Unsized`, `ConcreteTypes`, `Upcastings`, `FnptrTargets` |
| `visit_call`, `resolve_call`, `resolve_fntrait_call`, `inline_indirectly_called_function` | `Callee`, `StaticCalls`, `SpecialCalls`, `DynCallsites`, `DynFntraitCallsites`, `FnptrCallsites` |
| `iteratively_process_reachable_functions` | `phase`, `FunctionsProcessed` |
| `solve_trait_upcasting` | `UpcastStep`, `UpcastDone` |
| `solve_dyn_callsites`, `solve_dyn_fntrait_callsites`, `solve_fnptr_callsites` | one action each |

Maps are relations: `dynamic_to_possible_concrete_types` is a set of pairs. A
body is its casts and its calls, with generics substituted. What rustc answers
is constant: `Pointee`, `UnsizeArgs`, `Direct`, `Devirt` (trait resolution),
`FnItem` (the resolved function of an item or closure type), `MatchedSig`,
`StripAuto`. A spawned closure's type is `Sized`, so it is never a trait object.
The queue is a set: hash maps decide the order of the calls that are resolved.

`RapidTypeFixpoint` is the reference, the least solution of the same rules by
iteration. A function that is handled specially at one call and called normally
at another (as an item in a `dyn Fn` object, say) is visited or not by the
order of the queue, so the reference is a pair, `Least` (none of their bodies
read) and `Greatest` (all of them), and `ResultIsSolution` places the result
between the two; for programs without such a function they are equal.
`PointerAnalysis` is what the pointer analysis resolves, which also reads the
initialisers of statics (`StaticCasts`, and `StaticOwners`: those with a local
that something points to); `QueriedFunctionsAreNodes` compares the two.

### `CastPropagator` (cast edges)

`handle_cast`, `propagate_cast` and `cast_between_flattened_fields`, with
address and direct edges beside them. A pointee crosses a cast edge as a
*variant* of itself; the pointers inside an object and its variant are linked by
edges that are added and propagated while `handle_cast` runs, one frame inside
the other, so the handler is one step of a value `st` that holds the solver's
state. `taken` is the list of cast edges that the handler took out of the map.
What a cast of a path is comes from `PathCasts`: `cast_to`, `get_type_variant`,
`get_regularized_path` and the caches of types and casts.

### `Types`, `PathCasts`, `TypeCaches` (types, paths and their caches)

A type is a name; what the compiler says of it is the variable `tcx`: scalar, pointer, function, struct, tuple,
union, enum, array, slice, closure or trait object. `Types` has the paths of
`mir/path.rs` and the pure functions of `util/type_util.rs` over them: pointer
projections, flattened fields, offsets, equivalence of pointer types. The
order of the fields of a type in memory (`memory_index`) is part of `tcx`, which
is any of `Layouts` from the start. `TypeCaches` asks the caches of
`AnalysisContext` in any order: offsets and pointer projections of types
(`AskOffset`, `AskPointers`), casts and variants of paths (`Cast`,
`AskVariant`, `TakePart`). The first two and the last three share no state, so
each behaviour takes one side (`topic`). These modules use recursion over types
and are only model-checked, with the bodies of the next section, in `MCTypes`: a
behaviour is about one of the three parts (`checked`), over types of its own.

### `FuncPAGBuilder`, `CallBuilder`, `BodySoundness` (bodies)

`FuncPAGBuilder` has a visitor per statement and rvalue of
`builder/fpag_builder.rs`; a visitor takes the builder `b` (edges, call sites,
auxiliary locals, caches, and whether it has panicked) and answers the next.
`CallBuilder` has `visit_call`, the ways a call is resolved, and the summaries
of `special_function_handler.rs`. `BodySoundness` puts them to use: a body is
built statement by statement (`Visit`, `Finish`), its edges are solved
(`SolveBody`), and then the body *runs* on a memory of bytes, its statements in
any order (`Run`, `Return`). Every pointer that a run puts anywhere must be in the solution.

Left out: opaque types; operands of pointer casts and arguments of calls that
are not locals; a union that is written through a pointer and read through
another field, and a transmute of a union or an enum, which the builder follows
only for the first field (its own to-do).

### `Contexts`, `ContextSensitivePTA` (the context-sensitive driver)

`Contexts` is `mir/context.rs` and the strategies: a context is the sequence of
its elements, the newest first, and the cache is the set of contexts that have
a number. (The comment on `get_context_id` says "Returns a non zero index"; the
first context, the empty one, has number 0. Nothing relies on it.)
`ContextSensitivePTA` is `AndersenPTA` again over pairs of function and context,
with the call sites of a body instantiated per context:

| code | action or operator |
|---|---|
| `process_reach_funcs`, one function of the queue | `SkipReachFunc`, `ProcessReachFunc` |
| `add_fpag_edges`, and its recursion into promoteds and statics | the same, `Involved` |
| `process_calls_in_fpag`, `process_new_call`, `add_call_edge` | the same, `NewCalls` and `SelfCalls`, `AddCalls` |
| `propagate`, `process_new_calls`, `process_new_call_instances` | the same |
| `AssocCallGroup::add_*` | `Register` |
| the solver | `solve_worklist`, a round of all edges; `Reports`, what is new to a call site; `ReceiversOf`, what `add_new_call` adds to it |

That the solver ends with the least solution, and compares each object once with
the calls that are registered when it is propagated, is what `Propagator` is shown
to do. What a node has when a call is registered on it has been propagated, so
`Register` puts it among what the solver does not report. Of a `&self` method
behind a pointer `add_new_call` reports the receivers that are propagated when the
function item is found, which depends on the order of the worklist: any subset.
After the analysis the program runs: `StartRun`, `RunStatements`
(a frame and the globals keep every value they were given, in the order of the
calls only), `RunCall`, `RunReturn`. A frame carries its whole, unlimited
context, and every frame, call and pointer must be in the result under the
limited one.

The named assumptions. `CallAssumption`: a call is known by its location, what
has a summary is not called there otherwise, initialisers are not called, and
methods are called with a self, which the code `expect`s
(`context_sensitive.rs:235`, 239). `PathAssumption`: an initialiser's paths are
global, parameters and return values are not, and what a call is resolved on
(a function pointer, a trait object, the receiver of a static call) is global or
written by its own function only. `Insensitive` is for
every program a solution of the `Rules` without contexts, any one; the instance
has the least. `ImplAssumption`: dynamic calls reach methods.
`StrategyAssumption`: k is a natural number, 0 for the insensitive strategy.

### `StackFilter` (stack filtering)

| code | action or operator |
|---|---|
| `compute_func_reach_relations_mt`, a worker of the pool | `TakeNode`, `PopNode`, `WriteRow` |
| `is_reachable_from`, `match_suffix_and_prefix`, `naive_reachability_relation` | the same |
| `is_potentially_alive` | the same; a third answer, panic, stands for the `unwrap` |

When the rows are ready the program runs, frames with their call-site contexts.
A query that cuts off a frame of the stack would lose a flow the program has.
The worklist of a worker is a set here and a stack in the code.

### `PointsToSets`, `DiffPTData`, `BasePTData`, `ChunkedQueue` (data)

`PointsToSets` has `HybridPointsToSet` over `BitVec`, word by word (a word is
the set of its bits); `DiffPTData` and `BasePTData` the two kinds of points-to
data, with maps that have no entry for a variable nobody asked about. All three
implement `PlainSets`: named sets whose operations report whether they changed
anything. `ChunkedQueue` has chunks
linked by pointers, iterators that are copied and kept while the queue grows,
and the release of chunks; it implements `AppendLog`, one log with readers.
`MCParts` has an instance of each, of the rapid type analysis and of the stack
filter; they share no state, so a behaviour is about one of them (`part`), and
every refinement is a PROPERTY of the run.

## 3. What is checked

`MCPropagator` instantiates `Propagator` for a small Rust program: two objects
of `struct S { f: *S }`, their fields, pointers to them, a pointer to a
pointer, a function item, a closure, a function pointer and a `dyn Fn` object.

| run | question |
|---|---|
| `propagator_solves` | every PAG made of three address edges and any subset of two copies (a cycle), two loads, three stores, a gep and an offset edge, so that edges derived from loads and stores close further cycles; and programs that grow: the entry function is any subset of five bodies, and the driver may add any subset after each solve; sites are resolved through function pointers, closures, `dyn Fn`, trait objects and receivers |
| `propagator_receivers` | a disagreement between a comment and the code (below) |
| `andersen_rounds` | the driver with the solver, for sixteen entry functions (any subset of four groups of statements) that call, through function pointers, closures, trait objects and `dyn Fn` objects, two functions with static calls, a static they share, a callee that has a summary at one call and not at others, and one without MIR |
| `andersen_constants` | two disagreements between comments and the code (below) |
| `rta_statics` | two disagreements between assertions and comments and the code (below) |
| `types` | *caches*: offsets, projections, flattened and first fields of nested types, asked in any order under every layout of three of them; a struct, an enum and a constant, their parts and variants, cast in any order under four layouts. *solver*: an object cast to a second type and back, a function pointer through a byte pointer, a heap object and a trait object; address edges come in any order over several solves. *bodies*: up to four statements from six families (pointers, shapes, heap, calls, casts, constants), built, solved and run |
| `casts_in_place`, `flattened_order`, `cast_self_link` | disagreements between comments and the code, on the types of `types` and, for the last, on a list (below) |
| `contexts` | four programs (functions that hand on arguments and recurse; methods and dynamic calls; statics and function pointers; a `&self` method behind a function pointer) under thirteen strategies |
| `contexts_static_field` | a disagreement between a comment and the code (below) |
| `parts` | *data*: every sequence of operations on two hybrid sets, on two variables of each kind of points-to data, and on a queue that grows to three chunks with two copied iterators and a borrowed one. *rta*: the rapid type analysis of sixteen entry functions (any subset of four statements) that lead through trait objects, an upcast, `dyn Fn` objects with a closure, a function pointer, a special function and a custom implementation in them, a promoted constant, a spawned thread and mutually recursive calls, over several rounds. *filter*: two workers on a call graph with recursion, in every interleaving; then runs of up to seven frames, without contexts and with up to three call sites |

`types` and `parts` join components that share no state. A behaviour is about
one of them and the variables of the others do not change, so the states are the
sum of theirs, and each property speaks of its own part.

In the *rta* part types appear in bodies that are reached only by calls resolved
with earlier types, the function pointer's targets in a promoted constant and in
a closure, and the special function in the queue together with its special
call. Both bounds of `ResultIsSolution` are met by some behaviour and missed by
others. In `andersen_rounds` both callees dispatch on their parameters and call each
other, so the loop of `propagate` meets recursion, a call that is resolved
again, a function that is reached by several calls, and the static read in the
first round or in a later one, when its node has propagated objects. One method
has a summary of a function that other bodies call normally: in the orders that
build the function first its body is part of the result, in the others it is
skipped.
`Rounds` is 30 there and 20 for the rapid type analysis; the largest instances
are stable well before.

The bounds of the solver and the drivers are the PAGs themselves: every set of edges is finite, so no counter
is bounded. Two objects and one field suffice for every rule to meet an old and
a new object, an edge that exists and one that does not, and a node whose edges
lead back to itself. Worklists grow to any length the code produces.

The other runs name theirs. Sets hold five elements, with words of two bits and
small sets of two: a set is small, full, large, and of one, two and three words.
Five pushes into chunks of two fill two chunks and start a third. Bodies of
four statements are enough for an address, a write, a copy and a read; objects have a few
bytes, a pointer takes one. Casts stop at paths of three selectors, one more
than a cast of a field of a variant has, and at four paths. Contexts are limited to 0, 1, 2 and 3
elements, and runs to six or seven frames, twice the largest limit, so that
contexts are empty, short, full and cut off. For the stack filter the overlap of
two call chains is of every length from one site to all.

Fairness: every worker of `StackFilter` (the pool runs each until no node is
left), every copied iterator of `ChunkedQueue` (each is read in a loop until it
answers none, in every solve), `WF_vars(Analyse)` for the context-sensitive
driver and `WF_rtaVars(Progress)` for the rapid type analysis, a sequential loop;
in `parts` each of these is fair while the behaviour is about it (`PartsSpec`).
`WF_ptaVars(PTAStep)` for the driver: one thread runs driver and
solver in turn, and neither blocks. `WF_vars(SolveWorklist)` for the solver alone: one thread runs the solver, never blocks
and is not preempted by the driver. Of the driver
that module `Propagator` lets do anything, nothing is assumed.

### Findings

Each is a run that TLC ends with a counterexample.

* `propagator_receivers`. `add_new_call` reports as receivers of a resolved
  `&self` function the *propagated* objects of the receiver only; the comment
  on `new_calls` says all of them. An object that is in the diff set at that
  moment, or that arrives later, is not reported (the site is not registered in
  `static_dispatch_instance_calls`).

* `andersen_constants`, twice, on a program that reads and calls
  `const C: (&A, fn()) = (&A1, item)` in the entry function and in one reached by
  that call. `add_fpag_edges` queues the edges whose source is a whole constant or
  static, so that they carry what the source already has. An assignment from a
  constant of aggregate type becomes edges from its *fields*, which are not queued:
  the function that is reached in a later round gets nothing from `C.0`, and the
  solve ends with an edge that was never activated (`Solved`).
  `process_calls_in_fpag` registers a call through a constant function pointer with
  the constant's node: the object there has been propagated when the later function
  is reached, the new site is never compared with it, and the call has no callee,
  though the comment on `new_calls` says that function items pointed to by the
  pointer are added (`CallsResolved`). Each half of `Complete` is violated on its
  own.

* `rta_statics`, twice. The rapid type analysis never visits the initialisers of
  statics: `encountered_statics` is filled and not read, `visit_static` has no
  caller. With `static H: fn() = item`, the pointer analysis resolves a call of
  `H` to `item`, while the call graph given to the stack filter has no node for
  it, and `naive_reachability_relation` unwraps the nodes of both functions. In
  this run every object that is coerced is called, so that type-based
  resolution, with the initialisers' casts added, is what the pointer analysis
  resolves (`PointerAnalysis`). And a local of an initialiser, such as the value
  that `static S: &A = &new()` points to, has a container function, the body of the
  static, that is not a node either. `is_potentially_alive` lets through only the
  bodies of promoteds and constants before it asks; the comment there counts statics
  among the static objects. `StaticOwners` stands for these bodies; either case
  alone violates `QueriedFunctionsAreNodes`.

* `cast_self_link`. `handle_cast` takes the node's cast edges out of the map,
  and puts the old list back afterwards. In a list whose node `o` points to itself,
  `o.next` is a field of one of its own pointees; casting it adds a cast edge to
  `o.next` meanwhile, which is thrown away with the new list. A node that comes
  next never crosses it.

* `casts_in_place`. `get_regularized_path` removes a field at offset 0, and asks
  the type of the field instead of the struct's for the offset (line 398 of
  `util/type_util.rs`). The answer is 0, whatever the field's place, for a
  scalar or a pointer and for a struct whose own field of that number comes first,
  so a cast of such a field lands at the start of the struct around it: with the
  fields of `S2` swapped `s.1` is at offset 3, and its cast to `Pair` is `s.2`, at
  offset 0 (`CastExact` compares the two places).

* `flattened_order`. Fields are flattened by the values of `memory_index`, which
  are positions in memory, used as indices of fields (line 1022). For a layout
  that is a cycle of three fields the list is out of order, and the merges over
  flattened lists skip fields.

* `contexts_static_field`. A field of a static is a node in the context of the
  reader, while the initialiser writes it in the empty context; the comments say
  that statics are analysed without contexts. A function with a context that reads
  it finds nothing.

Three of them are kept out of `RunsCovered` by hypotheses about the program, not
about the run. `FieldsInEmpty` is the case of `contexts_static_field`. The other
two come with the solver, which the context-sensitive driver shares, and
`ResolvedInTime` names them: calls are resolved on locals (otherwise it is the
second case of `andersen_constants`) and, under the strategies whose contexts are made
of receivers, no function pointer has a `&self` method. Without the second part
`FramesCovered` fails on the fourth program of `contexts` under every object and
hybrid strategy: `process_new_call` gives no context to a call whose receiver is
not known, and a receiver that was propagated when the call was registered, and
not when its function item was found, is never reported.

The instances of the passing runs leave these cases out, each by a named
hypothesis or by the program of the instance, with one exception: `types` has the
paths and layouts of `casts_in_place` and `flattened_order`. Its properties hold
there because they say less. `LayoutExact` speaks of the offsets of flattened
fields, not of their order, and `VariantsShared` of the paths that are regularised
alike, not of places.

### Seen while modelling

* Two paths to one place, `util/type_util.rs:405`. The test of `casts_in_place`
  errs the other way too: a field of struct type that opens its struct is kept when
  its own field of that number does not come first. `get_regularized_path` then
  answers two paths for one place (where `Pair` opens `S2` and `pu` opens `Pair`:
  `s` and its field of type `Pair`), and each has casts of its own. The comment at
  lines 381-382 says that one path represents the variants. To see it, ask in
  `TypeCaches` that paths with one `Place` have one `get_regularized_path`.
* Boxes in `copy_nonoverlapping`, `builder/fpag_builder.rs:246`. The comment at
  line 222 allows them; the branch for them always fails the assertion of
  `Path::new_deref`. The bodies of `types` copy through pointers.
* `intersect`, `util/bit_vec.rs:193`, `pts_set/points_to.rs:295`. Words beyond a
  shorter vector are kept, and of a large and a small set it reports whether the
  small one changed. `PlainIntersect` leaves both open; no analysis calls it.
* Calls in the initialisers of promoteds, constants and statics,
  `pta/andersen.rs:126`. Their bodies give edges only; their call sites are
  built and never processed. `AndersenPTA` has it so, and no comment says
  otherwise.

## 4. What is proved

`PropagatorProofs` proves for every set of nodes, edges, filters, call sites and
driver behaviour (within `NodeAssumption`, `CallAssumption`, `BatchAssumption`
and `Acceptable`):

* `TypeCorrect`: `TypeOK`.
* `DiffDiscipline`: `DiffDisciplined`, that is `DiffPropaDisjoint`,
  `DiffIsScheduled` and `DiffStable`.
* `EverythingHandled`: `Handled`, from `HandledCorrect` (`EdgesHandled`) and
  `CallsHandledCorrect` (`CallsHandled`).
* `SolveComplete`: `Complete`, from `SolvedCorrect` (`Solved`) and
  `CallsResolvedCorrect` (`CallsResolved`).
* `Implementation`: `Spec => ImplementsInclusionConstraints`.

The argument. `Solved` says nothing of the states inside a solve, so it is not
inductive. `EdgesHandled` is its strengthening: `Visited(v, ph, x, o)` says that
object `o` of node `v` has been through the loop of handler `ph` (it is
propagated, or was popped with `v` and that loop is past item `x`), and each
rule holds of everything visited. Preservation needs that a visited object
stays visited until it is propagated, which is what `DiffStable` gives, and
that a new edge starts complete, which is `PropagateAll` for derived edges, the
queue or the contract for the driver's. When the worklist is empty
`DiffIsScheduled` makes every object propagated, hence visited, and the rules
become those of a solution. The inductive invariant `Inv` adds to these
the PAG's shape (`WellFormedPAG`), that loops keep to the objects they began
with (`LoopItems`) and that queues stay empty after their loop (`QueuesDone`).

`AndersenProofs` proves, for every program within `ProgramAssumption` and
`DepsAssumption`, of driver and solver together:

* `DriverTypeCorrect`: `TypeOK` and `PTATypeOK`.
* `RoundClosedCorrect`: `RoundClosed`.
* `ResultIsLeastCorrect`: `ResultIsLeast`, under `Ownership` and `FlowByBase` (its
  argument is below, after the contract).

`RoundClosed` speaks of the ends of rounds. Its inductive strengthening
`RoundInv` holds inside them: every call edge has its flow, every processed body
its edges, call sites and static calls *in the PAG or in* `added`
(`FlowsIn`, `BodiesIn`, `FuncsIn`), a function of the call graph that is not
waiting in `reach_funcs` has been processed unless it has no body to add
(`ReachedIn`), and a solve runs only when nothing waits (`RoundOver`). The
argument is monotonicity: no step removes anything from the PAG or the call
graph (`PagGrows`), which keeps the old facts, and each of the two steps that
add calls or bodies establishes the facts about what it adds (`CallEdgeStep`,
`FuncPagStep`).

The contract that the solver asks of its driver is proved too, so that what
`PropagatorProofs` shows of a driver that may do anything within the contract
holds of the driver there is. Under `Ownership`:

* `ContractCorrect`: `PTASpec => []ContractKept`.
* `DriverSolves`: `Handled`, `DiffDisciplined` and `Complete` of the two together.
* `DriverImplements`: each of their steps is a step of `InclusionConstraints`.

`PropagatorProofs` states its lemmas about `Step`: a step of the solver, a driver
that extends the PAG by an acceptable batch (`Extends`), or one that takes calls
that were reported (`Takes`). The steps of `AndersenPTA` are such steps
(`OwnedStep`), as those of `Propagator`'s own driver are (`NextIsStep`).

Why is an edge that comes with a body in time, though other functions have been
solved by then? Because nothing has reached its source: the edge reads a node of
the body (or a static, then it is queued), and nobody writes to the nodes of a
body that has not been built. That is `OwnInv`, for the program of the entry
point. `Pending` are the bodies that may still be built and a node is `Open` when
it is in none of them. Only open nodes have objects, and objects that are open
(`FactsOpen`), since fields are reached through objects; the edges of the PAG
lead to open nodes (`PagOpen`), those in `added` to open nodes or to a callee
that is in the call graph and is built before the next solve (`AddedOpen`); and
call sites and reported calls are in bodies that have been built and call
functions of the program (`SitesOpen`, `CallsOpen`). `StartSolve` runs when
`reach_funcs` is empty, and by `ReachedIn` that makes the callees open.

`Ownership` is what the builder guarantees: a body's loads, stores, address-of
edges and calls read its own locals and parameters, and its direct edges those or
statics; its edges lead to its own nodes and to statics, the edges of a call to
the caller's and the callee's; the field of a node is rooted where the node is.
It fails in two cases, and there the contract does: a call through a constant
function pointer and the fields of a constant of aggregate type (the two findings
of `andersen_constants`). That static nodes are whole is part of the second.

`ResultIsLeast` says of the final state that it is the least solution without the
bodies in `SkippedFuncs`. Which bodies these are is known at the end only, and the
half that nothing else is found is inductive for all of them at once:
`ResultWithin` says that for some entry point and *every* set of functions with
summaries of which none has been processed so far, the call graph, the PAG and the
edges in `added`, the facts, the reported calls and the items of a running loop
are all within the solution without their bodies (`WithinGraph`, `WithinPag`,
`WithinFacts`, `WithinCalls`, `WithinItems`), and that every call in the call graph
has flow edges of a call of the solution (`FlowsOf`). A step applies one rule, and
the solution is closed under all of them (`LeastClosed`), since it is the iterate
at `Rounds` and `RoundsSuffice` says that the rules give nothing beyond it. A step
that processes a body leaves fewer sets to speak of, and those that are left do
not have its function (`ProcessedKept`).

The half that everything is found speaks of the last state. There every body of
a reachable function has been processed and its edges, call sites and static
calls are in the PAG and the call graph (`BodiesSettled`), every fact is through
every edge (`EdgesSettled`) and every call site (`SitesSettled`), and every call
found is in the call graph with its flow (`CallsSettled`). This follows from
`RoundInv`, from `Solved` and `CallsResolved` of `PropagatorProofs`, and from
three more invariants: no call is left to take at the end (`NoneLeft`), a call through a function
pointer to a closure has its reference edge (`RefsHandled`), and special calls
are in the call graph (`SpecialsIn`). A state that is `Settled` is above
everything the rules make of something it is above (`BelowRules`), hence above
every iterate (`LeastBelow`). That induction is over the set of numbers whose
iterate is below (`Induct`), with the iteration a recursive function that is
unfolded once (`RulesIterate`). `CallsSettled` is where `FlowByBase` is needed:
the call edge may have come from another call of its place (`EdgeFlow`). `ResultInv` is the
invariant with all of these parts.

`RapidTypeProofs` proves, for every program within `RtaAssumption`,
`RtaTypeCorrect`, `RoundResolvedCorrect`, `ClosedAtEndCorrect` and
`ResultIsSolutionCorrect`: the four invariants that `parts` checks of it. The inductive
invariant `RtaInv` says what each phase has established and the later ones keep
(`PhaseClosed`: upcasts, then trait calls, then `dyn Fn` calls, then function
pointer calls; the order matters, since the third adds call sites for the
fourth), that every node was visited or waits (`QueueComplete`), and that the
bodies of visited functions, unless they are handled specially by now, are read
with their promoted constants (`BodiesRead`, `PromotedVisited`). The analysis
ends when a round finds no function, in the state the last solve left.

`ResultIsSolution` adds a second invariant for the upper bound, `FoundInv`: for
some entry point every function that was visited or waits, every call, type and
call site is in `Greatest` (`Precise`), which is closed under the rules
(`GreatestSolves`), and what was recorded comes from bodies that were read
(`Placed`). The lower bound is about the last state: there, every iterate of the
rules without the special functions' bodies is `Within` what was found
(`RulesWithin`), by induction over the iteration. It uses `ClosedAtEnd` and that
a body the least solution reads was read by the analysis as well: its function
is special at no call of `Greatest`, so it was never skipped.

`StackFilterProofs` proves the three invariants that `parts` checks for every call
graph within `CallGraphAssumption`, every pool, limit and depth:

* `MatrixIsExact`: the rows are exact and no two workers compute one.
* `AliveKeptHolds`: no frame on the stack is filtered out, on the condition that
  the bodies without callers are promoteds and constants (for statics it is
  false, see above).
* `ContextsRefineHolds`: contexts only filter more.

`AliveKept` speaks of a finished matrix and of contexts that are cut off, so the
inductive invariant `Inv` has three parts. `MatrixInv`: what a worker has
reached and the worklist that is left are together closed under calls
(`ClosedUpTo`) and within every set that is closed (`OnlyBelow`), so that a row
that is written is `Below` its node, the least such set. `WaitInv`: nothing runs
before the rows are final. `StackInv`: each frame's
function reaches those above it by its row, and its context is the functions of
the `Lesser(k, depth)` frames below it (`ContextAt`). Then the call chain of a
frame reads the stack from it on (`ChainIsStack`). For a frame that the top's
chain still shows, the two chains overlap, from it to the end of the top's
(`ChainsOverlap`); for a deeper one, it reaches the last function of that chain
(`RelatedWhenReached`). `ContextsRefine` is not about the run but about every
context a call chain may be: exact rows are transitive (`ReachedTransitive`), so
by induction along the chain each of its functions reaches the first
(`ChainReaches`). The induction is over a set of numbers (`Induct`, from the
well-foundedness of `<`), which needs no theorem with an operator parameter.

`ContextProofs` proves the three invariants of `contexts`, for every program
within the assumptions of section 2, every strategy, k and depth of the run
(`RunsCovered` has the hypotheses `ResolvedInTime` and `FieldsInEmpty` of
section 3):

* `RunsAreCovered`: `RunsCovered`, that is `FramesCovered` and `PointersFound`.
* `ContextsOnlyRefine`: `NoMoreThanInsensitive`, at every moment of the analysis.
* `ContextsTyped`: `TypeOK`, so that every context was given a number.
* `LimitedStepByStep` and `ContextsAreShort`, of `Contexts` alone: contexts that
  are limited at each call are those limited once, and none is longer than k,
  whence the analysis has finitely many.

`RunsCovered` speaks of runs of a finished analysis, so its proof has two
invariants. `AnalysisInv` is about the analysis, in the middle of a round too: a
function of the call graph with a body is processed or waits (`NodesIn`); a
processed function has its edges, those of its initialisers, its static calls
and its registered calls (`BodiesIn`); a call edge has its flow (`FlowsIn`); a
report is resolved or waits in `new_calls` or `new_call_instances`
(`ReportsIn`); what a function's calls are resolved on has no objects before the
function is processed (`FreshIn`), so that `Register` there takes nothing from
the solver; and when all is done nothing waits and the solution is closed
(`StagesIn`). `FreshIn` is inductive by `ResolvedInTime` and `PathAssumption`:
only the function's own body, its own calls' returns and the calls of it write
these nodes, and each of them comes with or after its entry into the queue. A
`&self` method behind a pointer is registered later, when its receivers are
known to the solver; then its context must not depend on them, which the second
part of `ResolvedInTime` says of the solution without contexts, and
`ContextsOnlyRefine`, proved first, carries over to what the analysis finds
(`CallOpen`). Every step only adds (`Grows`), which keeps the old facts.

`RunInv` is about the stack: each frame is a node under its limited context and
was made by an edge of the call graph, and what it and the globals hold is
found. It is inductive since limiting the caller's limited context is limiting
the callee's (`ContextOfCall`, from `LimitedStepByStep`), whether the element is
a call site or a receiver, and since the run's statements, calls and returns
move values along edges that the analysis has. In the empty context the
initialisers of a function are processed, which is where `FieldsInEmpty` is
needed: `mk_cs_path` must give the reader the node that the initialiser wrote.

`ContextsOnlyRefine` has an invariant of its own, `PreciseInv`: every edge
carries, and every registered or reported call goes, where the solution without
contexts has it. `ContextsTyped` adds to `TypeOK` that call sites, registered,
reported or new, are made in contexts of the cache (`TypeInv`).

`DiffPTDataProofs` and `BasePTDataProofs` prove `DiffDataIsExact` and
`BaseDataIsExact`: for any variables and elements, either kind of points-to data
is plain sets with exact reports (`ImplementsSets`). Each operation decides what
it reports on one map; a lemma per operation says what it makes of the set that
the maps stand for (`Exactly`, `Becomes`), which is a step of `PlainSets`. That
an element is handed out once (`PropagatedOnce`) follows operation by operation
from what enters the difference (`Fresh`); `RevIsInverse` is inductive, and makes
the `unwrap` of `clear_pts` safe (`ClearUnwraps`).

`ChunkedQueueProofs` proves of the queue, for any size of chunk, any number of
iterators and of elements: `QueueIsSound` (`QueueSound`) and
`QueueImplementsLog` (`ImplementsLog`). The chunks are linked in the order of
their allocation and all but the last are full (`ChunksInv`), so the place of
an element, `Before(c) + i`, is the same after every push (`Keeps`,
`PushAppends`); a reader's position is a place of that kind. A copied iterator
that stands at the end of a chunk is the case to decide: `Step` moves it only
when there is a next chunk, and then its place stays what it was
(`StepStays`), so that `NextGives` has the next element or the end. The index
of a copied iterator never passes what its chunk holds; the borrowed one may,
but no push happens while it is there (`CursorFits`). That drop, which follows
`next` from the head, meets every chunk is proved by induction over the set of
places of the path (`PathIsAll`).

Only model-checked: `SolveTerminates`, `AnalysisTerminates`, `RtaEnds`,
`AnalysisEnds`, `FilterEnds`, `CastsEnd` and `EveryElementDelivered` (liveness
is out of TLAPS's reach); everything about types, casts and bodies
(`LayoutExact`, `VariantsShared`, `CastsSolved`, `VariantsAgree`,
`BodiesBuiltWell`, `PointersFound`, `CallsFound`), whose modules declare recursive
operators; the bit vectors and hybrid sets (`SetsReadExactly`, `SetsArePlain`).
That `Rounds` iterations suffice is an assumption about
the program that TLC evaluates on each instance; the iteration is monotone over
finite sets, but a number of rounds for every program would need an induction
over their size.

## 5. Plan

Modelled, in the order of importance: the solver, the Andersen driver, the
rapid type analysis, cast edges, the function PAG builder, the context-sensitive
driver, stack filtering, and the data structures below them. What is left:

1. Proofs: that `PointsToSets` implements `PlainSets`, for all sizes.
2. `CastPropagator` and `Propagator` in one module: cast edges with loads,
   stores and calls.

## 6. Not modelled

The interface to `rustc` (types, MIR, trait resolution) is modelled by how the
code uses it: constant functions. Substitution of generics and the lists of
known names are tables over the compiler's types. The record of which function
an edge belongs to, for stack filtering, is left out of the solver: `Filtered`
stands for its effect. Output, statistics, option parsing and the memory watcher
are I/O or sequential bookkeeping; the watcher's thread shares a number that is
only printed.
