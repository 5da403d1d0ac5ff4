------------------------- MODULE ContextSensitivePTA -------------------------
(***************************************************************************)
(* The driver of the context-sensitive analysis (pta/context_sensitive.rs).   *)
(* A node is <<path, context>>, a path is <<base, field>> with field 0 for    *)
(* the whole of it.  A solve goes round the edges until nothing is new, and   *)
(* reports each object that reaches a registered call, which is what          *)
(* Propagator is shown to do.  The queue of inter-procedural edges, which is  *)
(* what the solver needs for that, is in AndersenPTA.  Calls of dyn Fn        *)
(* objects are registered as dynamic calls are.                               *)
(*                                                                            *)
(* When the analysis has ended, the program runs: frames have the contexts    *)
(* that would be theirs if nothing were limited, and every frame, call and    *)
(* pointer of a run must be in the result under the limited ones.             *)
(***************************************************************************)
EXTENDS Contexts

CONSTANTS
    Program,    \* program -> function -> [addr, direct, deps, static, special, dispatch, fnptr]
    Strategies, \* the strategies, [kind, k]
    Global,     \* the bases of statics, constants, promoteds, functions and of the
                \* locals of initialisers, which the empty context only knows
    SelfKind,   \* function -> ref, move or none
    Params,     \* function -> its parameters
    Ret,        \* function -> its return value
    Impl,       \* object -> the method a dynamic call on it reaches
    FnItem,     \* function item -> the function
    Main,
    Insensitive, \* program -> [funcs, pts], a solution without contexts
    MaxDepth,   \* bound: frames of the stack of a run
    MaxContext  \* bound: elements of an unlimited context

VARIABLES prog, s,   \* the program and the strategy
          cache, func_nodes, reach_funcs, processed_funcs, call_graph,
          addr, direct, assoc_calls,
          pts,       \* the solution: <<node, object>>
          reported,  \* what the solver will not report (again): <<registered call, object>>
          new_calls, new_call_instances,
          stage,
          stack,     \* of the run, the top frame first: [func, ctx, env, site]
          globals    \* of the run: <<path, object>>

graphVars == <<cache, func_nodes, reach_funcs, processed_funcs, call_graph, addr, direct, assoc_calls>>
solverVars == <<pts, reported>>
runVars == <<prog, s, stack, globals>>
driverVars == <<graphVars, solverVars, new_calls, new_call_instances, stage>>
vars == <<driverVars, runVars>>

Body(f) == Program[prog][f]

-----------------------------------------------------------------------------
(* Programs.                                                                 *)

HasSelf(f) == SelfKind[f] \in {"ref", "move"}

\* The functions that calls of program p may reach, and the bodies of its
\* promoteds and statics.
Callees(p) ==
    (UNION {{c.callee : c \in Program[p][f].static \cup Program[p][f].special} : f \in DOMAIN Program[p]})
    \cup {Impl[o] : o \in DOMAIN Impl} \cup {FnItem[o] : o \in DOMAIN FnItem}
Initialisers(p) == UNION {Program[p][f].deps : f \in DOMAIN Program[p]}

\* A call is known by its location, what has a summary is not called there
\* otherwise, initialisers are not called, and methods are called with a self.
CallAssumption(p) ==
    /\ Main \in DOMAIN Program[p]
    /\ Initialisers(p) \subseteq DOMAIN Program[p] \ (Callees(p) \cup {Main})
    /\ \A f \in DOMAIN Program[p] :
          LET calls == Program[p][f].static \cup Program[p][f].dispatch \cup Program[p][f].fnptr
          IN  /\ \A c, d \in calls : c.loc = d.loc => c = d
              /\ \A c \in calls, d \in Program[p][f].special : c.loc # d.loc
              /\ \A c \in Program[p][f].static : HasSelf(c.callee) => 1 \in DOMAIN c.args
              /\ \A c \in Program[p][f].dispatch : 1 \in DOMAIN c.args
              /\ \A c \in Program[p][f].fnptr, o \in DOMAIN FnItem :
                    <<c.on, o>> \in Insensitive[p].pts /\ HasSelf(FnItem[o]) => 1 \in DOMAIN c.args

PathsOf(body) ==
    (UNION {{e[1], e[2]} : e \in body.addr \cup body.direct})
    \cup (UNION {{c.args[i] : i \in DOMAIN c.args} \cup {c.dest} : c \in body.static \cup body.dispatch \cup body.fnptr})
    \cup {c.on : c \in body.dispatch \cup body.fnptr}
\* What the calls of function f are resolved on.
ResolvedOn(p, f) ==
    {c.on : c \in Program[p][f].dispatch \cup Program[p][f].fnptr}
    \cup {c.args[1] : c \in {d \in Program[p][f].static : SelfKind[d.callee] = "ref"}}
Written(body) ==
    {e[2] : e \in body.addr \cup body.direct} \cup {c.dest : c \in body.static \cup body.dispatch \cup body.fnptr}

\* Initialisers have global paths only.  What a call is resolved on is global or
\* belongs to its function.
PathAssumption(p) ==
    /\ \A f \in Initialisers(p) : \A path \in PathsOf(Program[p][f]) : path[1] \in Global
    /\ \A f \in Callees(p) : /\ \A i \in DOMAIN Params[f] : Params[f][i][1] \notin Global
                           /\ Ret[f][1] \notin Global
    /\ \A f \in DOMAIN Program[p] : \A path \in ResolvedOn(p, f) :
          path[1] \notin Global =>
              /\ \A g \in DOMAIN Program[p] \ {f} : path \notin Written(Program[p][g])
              /\ \A g \in Callees(p) \ {f} : \A i \in DOMAIN Params[g] : Params[g][i] # path

\* What rules without contexts derive from functions F and pointers P.
Rules(p, F, P) ==
    LET bodies == {Program[p][f] : f \in F \cap DOMAIN Program[p]}
        at(x) == {e[2] : e \in {y \in P : y[1] = x}}
        calls == UNION {{<<c, c.callee>> : c \in b.static}
                        \cup (UNION {{<<c, Impl[o]>> : o \in at(c.on) \cap DOMAIN Impl} : c \in b.dispatch})
                        \cup UNION {{<<c, FnItem[o]>> : o \in at(c.on) \cap DOMAIN FnItem} : c \in b.fnptr} : b \in bodies}
        flows == (UNION {b.direct : b \in bodies})
                   \cup (UNION {{<<c[1].args[i], Params[c[2]][i]>> : i \in DOMAIN c[1].args \cap DOMAIN Params[c[2]]} :
                                  c \in calls})
                   \cup {<<Ret[c[2]], c[1].dest>> : c \in calls}
    IN  [funcs |-> {Main} \cup F \cup {c[2] : c \in calls} \cup UNION {b.deps \cup {c.callee : c \in b.special} : b \in bodies},
         pts |-> P \cup {<<e[2], e[1]>> : e \in UNION {b.addr : b \in bodies}}
                   \cup UNION {{<<e[2], o>> : o \in at(e[1])} : e \in flows}]

ASSUME ProgramAssumption ==
    \A p \in DOMAIN Program : /\ CallAssumption(p) /\ PathAssumption(p)
                             /\ Rules(p, Insensitive[p].funcs, Insensitive[p].pts) = Insensitive[p]
\* Dynamic calls reach methods.
ASSUME ImplAssumption == \A o \in DOMAIN Impl : HasSelf(Impl[o])
ASSUME StrategyAssumption ==
    \A st \in Strategies : /\ st.kind \in {"insensitive", "callsite", "object", "hybrid"} /\ st.k \in Nat
                           /\ st.kind = "insensitive" => st.k = 0

-----------------------------------------------------------------------------
(* Nodes, and call sites as [func, ctx, loc, args, dest] with nodes.         *)

mk_cs_path(p, ctx) == <<p, IF p[2] = 0 /\ p[1] \in Global THEN Empty ELSE ctx>>

mk_cs_callsite(call, f) ==
    [func |-> f[1], ctx |-> f[2], loc |-> call.loc,
     args |-> [i \in DOMAIN call.args |-> mk_cs_path(call.args[i], f[2])], dest |-> mk_cs_path(call.dest, f[2])]

-----------------------------------------------------------------------------
(* Calls, <<call site, callee>> with the callee in its context.              *)

CallEdge(call) == <<call[1].func, call[1].ctx, call[1].loc, call[2]>>

M_add_inter_procedural_edges(call) == \* arguments and parameters are not paired
    LET params == Params[call[2][1]]
    IN  {<<call[1].args[i], <<params[j], call[2][2]>>>> : i \in DOMAIN call[1].args, j \in DOMAIN params}
        \cup {<<<<Ret[call[2][1]], call[2][2]>>, call[1].dest>>}
add_inter_procedural_edges(call) ==
    LET params == Params[call[2][1]]
    IN  {<<call[1].args[i], <<params[i], call[2][2]>>>> : i \in DOMAIN call[1].args \cap DOMAIN params}
        \cup {<<<<Ret[call[2][1]], call[2][2]>>, call[1].dest>>}

\* The calls enter the graph; those with flow, which have no summary, give
\* edges; others are known edges of the function that is processed.
M_AddCalls(flow, summarised, others, queue) == \* a callee that was reached before gets no edges
    LET calls == flow \cup summarised
        nodes == {c[2] : c \in calls} \ func_nodes
    IN  /\ call_graph' = call_graph \cup {CallEdge(c) : c \in calls}
        /\ func_nodes' = func_nodes \cup nodes
        /\ reach_funcs' = queue \cup nodes
        /\ direct' = direct \cup others \cup UNION {add_inter_procedural_edges(c) : c \in {x \in flow : x[2] \in nodes}}
        /\ cache' = get_context_id(cache, {c[2][2] : c \in calls})
AddCalls(flow, summarised, others, queue) ==
    LET calls == flow \cup summarised
        nodes == {c[2] : c \in calls} \ func_nodes
        fresh == {c \in flow : CallEdge(c) \notin call_graph}
    IN  /\ call_graph' = call_graph \cup {CallEdge(c) : c \in calls}
        /\ func_nodes' = func_nodes \cup nodes
        /\ reach_funcs' = queue \cup nodes
        /\ direct' = direct \cup others \cup UNION {add_inter_procedural_edges(c) : c \in fresh}
        /\ cache' = get_context_id(cache, {c[2][2] : c \in calls})

InstanceCalls(site, receiver, callee) ==
    {<<site, <<callee, ctx>>>> : ctx \in new_instance_call_context(s, site, receiver)}

\* What process_new_call adds: calls, and a call registered with self.
NewCalls(site, callee) ==
    CASE SelfKind[callee] = "ref" -> InstanceCalls(site, NoReceiver, callee)
      [] SelfKind[callee] = "move" -> InstanceCalls(site, site.args[1], callee)
      [] OTHER -> {<<site, <<callee, new_static_call_context(s, site)>>>>}
Registered(kind, node, site, callee) == [kind |-> kind, node |-> node, site |-> site, callee |-> callee]
SelfCalls(site, callee) ==
    IF SelfKind[callee] = "ref" THEN {Registered("instance", site.args[1], site, callee)} ELSE {}

Pointees(P, n) == {e[2] : e \in {x \in P : x[1] = n}}
\* Calls are registered between solves.  What their nodes point to by then has
\* been propagated, so that the solver does not look at it again.
Register(calls) ==
    /\ assoc_calls' = assoc_calls \cup calls
    /\ reported' = reported \cup UNION {{<<c, o>> : o \in Pointees(pts, c.node)} : c \in calls \ assoc_calls}

-----------------------------------------------------------------------------
(* The body of a function.                                                   *)

EdgesIn(edges, f) == {<<mk_cs_path(e[1], f[2]), mk_cs_path(e[2], f[2])>> : e \in edges}

\* The promoteds and statics of f, those of these, and so on.
Involved(f) ==
    {g \in Initialisers(prog) :
        \A D \in SUBSET Initialisers(prog) : (\A h \in {f} \cup D : Body(h).deps \subseteq D) => g \in D}

\* The functions whose edges are added with f's, the involved ones in the empty
\* context.
add_fpag_edges(f) == {f} \cup ({<<g, Empty>> : g \in Involved(f[1])} \ processed_funcs)

\* The calls that the solver is to resolve.
Indirect(kind, calls, f) ==
    {Registered(kind, mk_cs_path(c.on, f[2]), mk_cs_callsite(c, f), "any") : c \in calls}

process_calls_in_fpag(f, others, queue) ==
    LET static == {<<mk_cs_callsite(c, f), c.callee>> : c \in Body(f[1]).static}
        special == {<<mk_cs_callsite(c, f), c.callee>> : c \in Body(f[1]).special}
    IN  /\ AddCalls(UNION {NewCalls(c[1], c[2]) : c \in static},
                    {<<c[1], <<c[2], new_static_call_context(s, c[1])>>>> : c \in special}, others, queue)
        /\ Register((UNION {SelfCalls(c[1], c[2]) : c \in static})
                    \cup Indirect("dispatch", Body(f[1]).dispatch, f) \cup Indirect("fnptr", Body(f[1]).fnptr, f))

-----------------------------------------------------------------------------
(* The solver.                                                               *)

\* P and what the edges bring in a round.
Derived(P) ==
    P \cup {<<e[2], e[1]>> : e \in addr} \cup UNION {{<<e[2], o>> : o \in Pointees(P, e[1])} : e \in direct}

\* The objects of registered calls, and those that are reported: the new ones.
Known(P) == UNION {{<<c, o>> : o \in Pointees(P, c.node)} : c \in assoc_calls}
M_Reports(P) == \* an object is reported whenever its call is looked at
    Known(P)
Reports(P) == Known(P) \ reported

CallsOf(R) == {<<r[1].site, FnItem[r[2][1]]>> : r \in {x \in R : x[1].kind = "fnptr" /\ x[2][1] \in DOMAIN FnItem}}
\* What add_new_call may report of a call of a &self method: its receivers that
\* are propagated when the call is found.  The others are still in the difference.
ReceiversOf(calls) ==
    UNION {{<<c[1], o, c[2]>> : o \in Pointees(pts, c[1].args[1])} : c \in {d \in calls : SelfKind[d[2]] = "ref"}}
InstancesOf(R) ==
    {<<r[1].site, r[2], r[1].callee>> : r \in {x \in R : x[1].kind = "instance"}}
    \cup {<<r[1].site, r[2], Impl[r[2][1]]>> : r \in {x \in R : x[1].kind = "dispatch" /\ x[2][1] \in DOMAIN Impl}}

-----------------------------------------------------------------------------
Init ==
    /\ prog \in DOMAIN Program /\ s \in Strategies
    /\ cache = {Empty} /\ func_nodes = {<<Main, Empty>>} /\ reach_funcs = {<<Main, Empty>>}
    /\ processed_funcs = {} /\ call_graph = {} /\ addr = {} /\ direct = {} /\ assoc_calls = {}
    /\ pts = {} /\ reported = {} /\ new_calls = {} /\ new_call_instances = {}
    /\ stage = "reach" /\ stack = <<>> /\ globals = {}

\* A function of the queue that is processed or has no body is passed over.
SkipReachFunc(f) ==
    /\ f \in processed_funcs \/ f[1] \notin DOMAIN Program[prog]
    /\ reach_funcs' = reach_funcs \ {f}
    /\ UNCHANGED <<cache, func_nodes, processed_funcs, call_graph, addr, direct, assoc_calls, reported>>
ProcessReachFunc(f) ==
    /\ f \notin processed_funcs /\ f[1] \in DOMAIN Program[prog]
    /\ LET F == add_fpag_edges(f)
       IN  /\ processed_funcs' = processed_funcs \cup F
           /\ addr' = addr \cup UNION {EdgesIn(Body(g[1]).addr, g) : g \in F}
           /\ process_calls_in_fpag(f, UNION {EdgesIn(Body(g[1]).direct, g) : g \in F}, reach_funcs \ {f})
process_reach_funcs ==
    /\ stage \in {"reach", "calls_reach", "instances_reach"}
    /\ \E f \in reach_funcs : SkipReachFunc(f) \/ ProcessReachFunc(f)
    /\ UNCHANGED <<pts, new_calls, new_call_instances, stage, runVars>>

Goto(from, to) == stage = from /\ stage' = to
ReachDone ==
    /\ reach_funcs = {}
    /\ \/ Goto("reach", "solve") \/ Goto("calls_reach", "instances") \/ Goto("instances_reach", "solve")
    /\ UNCHANGED <<graphVars, solverVars, new_calls, new_call_instances, runVars>>

solve_worklist ==
    /\ stage = "solve" /\ Derived(pts) # pts
    /\ pts' = Derived(pts)
    /\ UNCHANGED <<graphVars, reported, new_calls, new_call_instances, stage, runVars>>
\* The solver is done; the driver goes on when there are new calls.
propagate ==
    /\ stage = "solve" /\ Derived(pts) = pts
    /\ LET R == Reports(pts)
       IN  /\ reported' = reported \cup R
           /\ new_calls' = CallsOf(R)
           /\ \E receivers \in SUBSET ReceiversOf(CallsOf(R)) : new_call_instances' = InstancesOf(R) \cup receivers
           /\ stage' = IF CallsOf(R) \cup InstancesOf(R) = {} THEN "done" ELSE "calls"
    /\ UNCHANGED <<graphVars, pts, runVars>>

process_new_calls ==
    /\ Goto("calls", "calls_reach")
    /\ AddCalls(UNION {NewCalls(c[1], c[2]) : c \in new_calls}, {}, {}, reach_funcs)
    /\ Register(UNION {SelfCalls(c[1], c[2]) : c \in new_calls})
    /\ UNCHANGED <<processed_funcs, addr, pts, new_calls, new_call_instances, runVars>>

process_new_call_instances ==
    /\ Goto("instances", "instances_reach")
    /\ AddCalls(UNION {InstanceCalls(c[1], c[2], c[3]) : c \in new_call_instances}, {}, {}, reach_funcs)
    /\ UNCHANGED <<processed_funcs, addr, assoc_calls, solverVars, new_calls, new_call_instances, runVars>>

Analyse ==
    process_reach_funcs \/ ReachDone \/ solve_worklist \/ propagate \/ process_new_calls \/ process_new_call_instances

-----------------------------------------------------------------------------
(* The run.  An object is <<path, unlimited context>>.  A frame and the       *)
(* globals keep every value they were given: like the analysis, the run knows *)
(* no order between the statements of a body, only between calls.             *)

Top == stack[1]
ContextFor(p, ctx) == IF p[1] \in Global THEN Empty ELSE ctx
InGlobal(held) == {e \in held : e[1][1] \in Global}
Held == Top.env \cup globals
ValuesAt(p) == Pointees(Held, p)

\* What a frame of f in context ctx holds after each of its statements and of
\* those of the initialisers that it uses.
Executed(f, ctx, held) ==
    held \cup UNION {{<<e[2], <<e[1], ContextFor(e[1], ctx)>>>> : e \in Body(g).addr}
                     \cup UNION {{<<e[2], v>> : v \in Pointees(held, e[1])} : e \in Body(g).direct} : g \in {f} \cup Involved(f)}
After == Executed(Top.func, Top.ctx, Held)

Frame(func, ctx, env, site) == [func |-> func, ctx |-> ctx, env |-> env, site |-> site]
\* The run goes on with frame, which holds held, on top of the frames below.
Continue(frame, held, below) ==
    /\ stack' = <<Frame(frame.func, frame.ctx, held \ InGlobal(held), frame.site)>> \o below
    /\ globals' = InGlobal(held)

Running == stage = "done" /\ UNCHANGED <<prog, s, driverVars>>

StartRun ==
    /\ Running /\ stack = <<>>
    /\ stack' = <<Frame(Main, Empty, {}, 0)>> /\ UNCHANGED globals

RunStatements ==
    /\ Running /\ stack # <<>> /\ After # Held
    /\ Continue(Top, After, Tail(stack))

\* Calls and returns have all that the statements give.
Settled == Running /\ stack # <<>> /\ After = Held

\* The unlimited context of a callee.
CalleeContext(call, callee, receiver) ==
    LET site == <<SiteElem(s, [func |-> Top.func, loc |-> call.loc])>>
    IN  CASE s.kind = "insensitive" -> Empty
          [] NeedsReceiver(s) /\ HasSelf(callee) -> <<ObjectElem(s, receiver[1])>> \o receiver[2]
          [] s.kind = "object" /\ ~HasSelf(callee) -> Top.ctx
          [] OTHER -> site \o Top.ctx

Passed(call, callee) ==
    UNION {{<<Params[callee][i], v>> : v \in ValuesAt(call.args[i])} : i \in DOMAIN call.args \cap DOMAIN Params[callee]}
Push(call, callee, receiver) ==
    LET ctx == CalleeContext(call, callee, receiver)
    IN  /\ callee \in DOMAIN Program[prog] /\ Len(stack) < MaxDepth /\ Len(ctx) <= MaxContext
        /\ stack' = <<Frame(callee, ctx, Passed(call, callee), call.loc)>> \o stack
        /\ UNCHANGED globals

\* What a method is called on: the object behind its first argument, or that argument.
Receivers(call, callee) ==
    CASE SelfKind[callee] = "ref" -> UNION {ValuesAt(call.args[i]) : i \in DOMAIN call.args \cap {1}}
      [] SelfKind[callee] = "move" ->
            {<<call.args[i], ContextFor(call.args[i], Top.ctx)>> : i \in DOMAIN call.args \cap {1}}
      [] OTHER -> {NoReceiver}
RunCall ==
    /\ Settled
    /\ \/ \E c \in Body(Top.func).static : \E v \in Receivers(c, c.callee) : Push(c, c.callee, v)
       \/ \E c \in Body(Top.func).dispatch : \E v \in ValuesAt(c.on) : v[1] \in DOMAIN Impl /\ Push(c, Impl[v[1]], v)
       \/ \E c \in Body(Top.func).fnptr : \E v \in ValuesAt(c.on) :
             v[1] \in DOMAIN FnItem /\ \E w \in Receivers(c, FnItem[v[1]]) : Push(c, FnItem[v[1]], w)

AllCalls(f) == Body(f).static \cup Body(f).dispatch \cup Body(f).fnptr
RunReturn ==
    /\ Settled /\ Len(stack) > 1
    /\ \E c \in AllCalls(stack[2].func) :
          /\ c.loc = Top.site
          /\ Continue(stack[2], stack[2].env \cup globals \cup {<<c.dest, v>> : v \in ValuesAt(Ret[Top.func])},
                      Tail(Tail(stack)))

Next == Analyse \/ StartRun \/ RunStatements \/ RunCall \/ RunReturn

\* One thread analyses.
Spec == Init /\ [][Next]_vars /\ WF_vars(Analyse)

-----------------------------------------------------------------------------
\* Every context of a function or a node is in the cache, and none is longer
\* than k (mir/context.rs:55-76, 107-127).
TypeOK ==
    /\ stage \in {"reach", "solve", "calls", "calls_reach", "instances", "instances_reach", "done"}
    /\ \A ctx \in cache : Len(ctx) <= s.k
    /\ {f[2] : f \in func_nodes} \cup (UNION {{e[1][2], e[2][2]} : e \in addr \cup direct}) \subseteq cache

Cid(ctx) == k_limited_context(ctx, s.k)

\* Every frame of every run is a node of the call graph under its first k call
\* sites or receivers, and the call that made it is an edge, whatever the
\* strategy, k, the depth of recursion and the round in which the call was
\* resolved (pta/context_sensitive.rs:217-288).
FramesCovered ==
    \A n \in DOMAIN stack :
        LET callee == <<stack[n].func, Cid(stack[n].ctx)>>
        IN  /\ callee \in func_nodes
            /\ n < Len(stack) => <<stack[n + 1].func, Cid(stack[n + 1].ctx), stack[n].site, callee>> \in call_graph

\* Every pointer that a run puts into a local, a parameter or a global is in
\* the points-to set of that path in the frame's limited context, with the
\* object in its own (pta/context_sensitive.rs:290-313).
HeldFound(env, ctx) ==
    \A e \in env : <<<<e[1], Cid(ContextFor(e[1], ctx))>>, <<e[2][1], Cid(e[2][2])>>>> \in pts
PointersFound ==
    /\ \A n \in DOMAIN stack : HeldFound(stack[n].env, stack[n].ctx)
    /\ HeldFound(globals, Empty)

\* Two kinds of call are resolved too late (README, Findings): on a global, which
\* may have objects before a function that is reached later registers its call, and
\* a &self method behind a function pointer, when contexts are made of receivers.
ResolvedInTime ==
    \A f \in DOMAIN Program[prog] :
        /\ \A path \in ResolvedOn(prog, f) : path[1] \notin Global
        /\ NeedsReceiver(s) => \A c \in Program[prog][f].fnptr, o \in DOMAIN FnItem :
              <<c.on, o>> \in Insensitive[prog].pts => SelfKind[FnItem[o]] # "ref"

\* A field of a global is used in the empty context only: mk_cs_path takes it for
\* a local of the function (README, Findings).
FieldsInEmpty ==
    \A f \in DOMAIN Program[prog] \ Initialisers(prog) :
        f \in Callees(prog) \/ f # Main =>
            \A path \in PathsOf(Program[prog][f]) : path[1] \in Global => path[2] = 0

\* The result covers every run of the program, its frames, calls and pointers,
\* whatever the strategy and the limit (pta/context_sensitive.rs:217-313).
RunsCovered == ResolvedInTime /\ FieldsInEmpty => FramesCovered /\ PointersFound

\* Contexts only ever add precision: whatever the strategy and k, a function
\* that is reached and a pointer that is found in some context are reached and
\* found without contexts (pta/context_sensitive.rs:217-322).
NoMoreThanInsensitive ==
    /\ \A f \in func_nodes : f[1] \in Insensitive[prog].funcs
    /\ \A e \in pts : <<e[1][1], e[2][1]>> \in Insensitive[prog].pts

\* The analysis ends, since contexts are limited, for recursive programs too
\* (pta/context_sensitive.rs:384-407).
AnalysisEnds == <>(stage = "done")
=============================================================================
