--------------------------- MODULE ContextProofs ---------------------------
(***************************************************************************)
(* Proofs about contexts and the context-sensitive driver, for every program, *)
(* strategy and k: k-limiting; that the result covers every run (RunsCovered, *)
(* by AnalysisInv of the analysis and RunInv of the run); that contexts only  *)
(* add precision; and types.                                                  *)
(***************************************************************************)
EXTENDS ContextSensitivePTA, TLAPS

-----------------------------------------------------------------------------
(* k-limiting.                                                               *)

\* The first j elements of a sequence with one more in front.
LEMMA SubSeqOfCons ==
    ASSUME NEW E, NEW e \in E, NEW c \in Seq(E), NEW j \in 0 .. Len(c)
    PROVE  SubSeq(<<e>> \o c, 1, j + 1) = <<e>> \o SubSeq(c, 1, j)
<1> DEFINE l == SubSeq(<<e>> \o c, 1, j + 1)
           r == <<e>> \o SubSeq(c, 1, j)
<1>1. <<e>> \o c \in Seq(E) /\ Len(<<e>> \o c) = Len(c) + 1
  OBVIOUS
<1>2. l \in Seq(E) /\ Len(l) = j + 1
  BY <1>1
<1>3. SubSeq(c, 1, j) \in Seq(E) /\ Len(SubSeq(c, 1, j)) = j
  OBVIOUS
<1>4. r \in Seq(E) /\ Len(r) = j + 1
  BY <1>3
<1>5. \A i \in 1 .. j + 1 : l[i] = r[i]
  BY <1>1, <1>3
<1> QED
  BY <1>2, <1>4, <1>5

\* Limiting a context at each call (mir/context.rs:58-69) is limiting the context
\* of all calls once (71-78): what was cut off before would be cut off now, so
\* that a function has one context per k newest elements, however deep the calls.
THEOREM LimitedStepByStep ==
    ASSUME NEW E, NEW e \in E, NEW c \in Seq(E), NEW k \in Nat
    PROVE  k_limited_context(<<e>> \o c, k) = new_k_limited_context(k_limited_context(c, k), e, k)
<1>0. Len(<<e>> \o c) = Len(c) + 1 /\ <<e>> \o c \in Seq(E)
  OBVIOUS
<1>1. CASE k = 0
  <2>1. SubSeq(<<e>> \o c, 1, 0) = <<>>
    BY <1>0
  <2> QED
    BY <1>0, <1>1, <2>1 DEF k_limited_context, new_k_limited_context, Empty
<1>2. CASE k > 0 /\ Len(c) < k
  BY <1>0, <1>2 DEF k_limited_context, new_k_limited_context
<1>3. CASE k > 0 /\ Len(c) >= k
  <2>1. k - 1 \in 0 .. Len(c) /\ (k - 1) + 1 = k
    BY <1>3
  <2>2. SubSeq(<<e>> \o c, 1, k) = <<e>> \o SubSeq(c, 1, k - 1)
    BY <2>1, SubSeqOfCons
  <2>3. k_limited_context(<<e>> \o c, k) = <<e>> \o SubSeq(c, 1, k - 1)
    BY <1>0, <1>3, <2>2 DEF k_limited_context
  <2>4. k_limited_context(c, k) \in Seq(E) /\ Len(k_limited_context(c, k)) = k
    BY <1>3 DEF k_limited_context
  <2>5. SubSeq(k_limited_context(c, k), 1, k - 1) = SubSeq(c, 1, k - 1)
    BY <1>3, <2>1 DEF k_limited_context
  <2> QED
    BY <1>3, <2>3, <2>4, <2>5 DEF new_k_limited_context
<1> QED
  BY <1>1, <1>2, <1>3

\* A context that is made from a limited one is limited (mir/context.rs:58-69):
\* the contexts over finitely many elements are finitely many, which is why the
\* analysis ends.
THEOREM ContextsAreShort ==
    ASSUME NEW E, NEW e \in E, NEW c \in Seq(E), NEW k \in Nat
    PROVE  /\ new_k_limited_context(c, e, k) \in Seq(E)
           /\ Len(new_k_limited_context(c, e, k)) <= k
<1>1. CASE k = 0
  BY <1>1 DEF new_k_limited_context, Empty
<1>2. CASE k > 0 /\ Len(c) < k
  BY <1>2 DEF new_k_limited_context
<1>3. CASE k > 0 /\ Len(c) >= k
  <2>1. SubSeq(c, 1, k - 1) \in Seq(E) /\ Len(SubSeq(c, 1, k - 1)) = k - 1
    BY <1>3
  <2> QED
    BY <1>3, <2>1 DEF new_k_limited_context
<1> QED
  BY <1>1, <1>2, <1>3

\* A sequence, whatever its elements are.
IsSeq(c) == c \in Seq({c[i] : i \in DOMAIN c})

LEMMA SeqOfElements == ASSUME NEW E, NEW c \in Seq(E) PROVE IsSeq(c)
<1>1. c \in [1 .. Len(c) -> E] /\ Len(c) \in Nat
  OBVIOUS
<1>2. c \in [1 .. Len(c) -> {c[i] : i \in DOMAIN c}]
  BY <1>1
<1> QED
  BY <1>1, <1>2 DEF IsSeq

LEMMA SeqWithMore ==
    ASSUME NEW c, IsSeq(c), NEW e
    PROVE  \E E : e \in E /\ c \in Seq(E)
<1> DEFINE E == {c[i] : i \in DOMAIN c} \cup {e}
<1>1. c \in [1 .. Len(c) -> {c[i] : i \in DOMAIN c}] /\ Len(c) \in Nat
  BY DEF IsSeq
<1>2. c \in [1 .. Len(c) -> E]
  BY <1>1
<1>3. c \in Seq(E) /\ e \in E
  BY <1>1, <1>2
<1> QED
  BY <1>3

\* One more call: the context of the frame, and its limit from the caller's.
LEMMA ContextOfCall ==
    ASSUME NEW c, IsSeq(c), NEW e, NEW k \in Nat
    PROVE  /\ IsSeq(<<e>> \o c)
           /\ k_limited_context(<<e>> \o c, k) = new_k_limited_context(k_limited_context(c, k), e, k)
<1>1. PICK E : e \in E /\ c \in Seq(E)
  BY SeqWithMore
<1>2. <<e>> \o c \in Seq(E)
  BY <1>1
<1> QED
  BY <1>1, <1>2, SeqOfElements, LimitedStepByStep

LEMMA NewContextShort ==
    ASSUME NEW c, IsSeq(c), NEW e, NEW k \in Nat
    PROVE  IsSeq(new_k_limited_context(c, e, k)) /\ Len(new_k_limited_context(c, e, k)) <= k
<1>1. PICK E : e \in E /\ c \in Seq(E)
  BY SeqWithMore
<1> QED
  BY <1>1, SeqOfElements, ContextsAreShort

LEMMA EmptyContext == ASSUME NEW k \in Nat PROVE IsSeq(Empty) /\ k_limited_context(Empty, k) = Empty /\ Len(Empty) = 0
<1>1. Empty \in Seq({})
  BY DEF Empty
<1>2. IsSeq(Empty)
  BY <1>1, SeqOfElements
<1>3. k_limited_context(Empty, k) = Empty /\ Len(Empty) = 0
  BY DEF k_limited_context, Empty
<1> QED
  BY <1>2, <1>3

-----------------------------------------------------------------------------
(* The invariant of the analysis.                                            *)

\* A call site of a body, in the context of the function.
IsSite(site) ==
    /\ site.func \in DOMAIN Program[prog]
    /\ \E c \in AllCalls(site.func) : site = mk_cs_callsite(c, <<site.func, site.ctx>>)

InGraph(call) == CallEdge(call) \in call_graph
\* process_new_call is done for the call.
Resolved(site, callee) ==
    (\A x \in NewCalls(site, callee) : InGraph(x)) /\ SelfCalls(site, callee) \subseteq assoc_calls
InstanceResolved(site, o, callee) == \A x \in InstanceCalls(site, o, callee) : InGraph(x)

\* The functions of the graph can be called, and those with a body are
\* processed or wait.
NodesIn ==
    /\ <<Main, Empty>> \in func_nodes
    /\ \A f \in func_nodes : f = <<f[1], f[2]>> /\ f[1] \in Callees(prog) \cup {Main}
    /\ reach_funcs \subseteq func_nodes
    /\ \A f \in func_nodes : f[1] \in DOMAIN Program[prog] => f \in processed_funcs \cup reach_funcs
    /\ \A e \in call_graph : e[4] \in func_nodes

\* A processed function has its edges, its initialisers, its static calls and
\* its registered calls.
HasEdges(f) == EdgesIn(Body(f[1]).addr, f) \subseteq addr /\ EdgesIn(Body(f[1]).direct, f) \subseteq direct
HasCalls(f) ==
    /\ \A c \in Body(f[1]).static : Resolved(mk_cs_callsite(c, f), c.callee)
    /\ Indirect("dispatch", Body(f[1]).dispatch, f) \subseteq assoc_calls
    /\ Indirect("fnptr", Body(f[1]).fnptr, f) \subseteq assoc_calls
BodiesIn ==
    /\ \A f \in processed_funcs : (f \in func_nodes \/ f[1] \in Initialisers(prog)) /\ HasEdges(f)
    /\ \A f \in processed_funcs \cap func_nodes :
          HasCalls(f) /\ \A g \in Involved(f[1]) : <<g, Empty>> \in processed_funcs

\* A call edge has its flow, unless it is a call with a summary.
FlowsIn ==
    \A e \in call_graph :
        /\ e[1] \in DOMAIN Program[prog]
        /\ \A c \in AllCalls(e[1]) :
              c.loc = e[3] => add_inter_procedural_edges(<<mk_cs_callsite(c, <<e[1], e[2]>>), e[4]>>) \subseteq direct

\* Calls are those of processed functions.
IsOpen(site) == IsSite(site) /\ <<site.func, site.ctx>> \in processed_funcs
RegisteredOpen(r) ==
    /\ IsOpen(r.site) /\ (r.kind = "instance" => r.callee \in Callees(prog))
    /\ r.kind = "fnptr" => \E c \in Body(r.site.func).fnptr : r.node[1] = c.on
CallOpen(c) ==
    /\ IsOpen(c[1]) /\ c[2] \in Callees(prog)
    /\ NeedsReceiver(s) => SelfKind[c[2]] # "ref"
InstanceOpen(c) == IsOpen(c[1]) /\ c[3] \in Callees(prog)
SitesIn ==
    /\ \A r \in assoc_calls : RegisteredOpen(r)
    /\ \A c \in new_calls : CallOpen(c)
    /\ \A c \in new_call_instances : InstanceOpen(c)

\* What the solver reported is resolved, or waits in the driver.
ReportIn(q) ==
    /\ q[1].kind = "fnptr" /\ q[2][1] \in DOMAIN FnItem =>
          \/ Resolved(q[1].site, FnItem[q[2][1]])
          \/ stage = "calls" /\ <<q[1].site, FnItem[q[2][1]]>> \in new_calls
    /\ q[1].kind = "instance" =>
          \/ InstanceResolved(q[1].site, q[2], q[1].callee)
          \/ /\ stage \in {"calls", "calls_reach", "instances"}
             /\ <<q[1].site, q[2], q[1].callee>> \in new_call_instances
    /\ q[1].kind = "dispatch" /\ q[2][1] \in DOMAIN Impl =>
          \/ InstanceResolved(q[1].site, q[2], Impl[q[2][1]])
          \/ /\ stage \in {"calls", "calls_reach", "instances"}
             /\ <<q[1].site, q[2], Impl[q[2][1]]>> \in new_call_instances
ReportsIn == \A q \in reported : ReportIn(q)

\* What the calls of a function are resolved on has no objects before the function
\* is processed, so that no object is there before they are registered.
FreshIn ==
    \A f \in DOMAIN Program[prog] :
        /\ \A e \in pts : e[1][1] \in ResolvedOn(prog, f) => <<f, e[1][2]>> \in processed_funcs
        /\ \A e \in addr \cup direct :
              e[2][1] \in ResolvedOn(prog, f) => <<f, e[2][2]>> \in processed_funcs \cup reach_funcs

StagesIn ==
    /\ stage \in {"solve", "calls", "instances", "done"} => reach_funcs = {}
    /\ stage = "done" => Derived(pts) = pts /\ Known(pts) \subseteq reported

AnalysisInv ==
    /\ prog \in DOMAIN Program /\ s \in Strategies /\ ResolvedInTime
    /\ NodesIn /\ BodiesIn /\ FlowsIn /\ SitesIn /\ ReportsIn /\ FreshIn /\ StagesIn

-----------------------------------------------------------------------------
(* The invariant of the run.                                                 *)

\* What a frame of context ctx holds is in the result.
EnvIn(env, ctx) == HeldFound(env, ctx) /\ \A e \in env : IsSeq(e[2][2])

FrameIn(frame) ==
    /\ frame.func \in DOMAIN Program[prog] /\ <<frame.func, Cid(frame.ctx)>> \in func_nodes
    /\ IsSeq(frame.ctx) /\ (frame.func \in Callees(prog) \/ frame.ctx = Empty)
    /\ EnvIn(frame.env, frame.ctx)

\* The call that made a frame is an edge.
Made(frame, caller) == <<caller.func, Cid(caller.ctx), frame.site, <<frame.func, Cid(frame.ctx)>>>> \in call_graph

StackIn(frames) ==
    /\ IsSeq(frames)
    /\ \A n \in 1 .. Len(frames) : FrameIn(frames[n])
    /\ \A n \in 1 .. Len(frames) : n < Len(frames) => Made(frames[n], frames[n + 1])
GlobalsIn(held) == EnvIn(held, Empty) /\ \A e \in held : e[1][1] \in Global

RunInv ==
    /\ stack # <<>> \/ globals # {} => stage = "done"
    /\ StackIn(stack) /\ GlobalsIn(globals)

-----------------------------------------------------------------------------
(* What a step of the analysis keeps.                                        *)

LEMMA ProgramKept ==
    ASSUME prog' = prog, s' = s
    PROVE  /\ \A f : Body(f)' = Body(f) /\ AllCalls(f)' = AllCalls(f) /\ Involved(f)' = Involved(f)
           /\ \A site : IsSite(site)' = IsSite(site)
           /\ \A site, callee : NewCalls(site, callee)' = NewCalls(site, callee)
           /\ \A site, o, callee : InstanceCalls(site, o, callee)' = InstanceCalls(site, o, callee)
           /\ Callees(prog)' = Callees(prog) /\ Initialisers(prog)' = Initialisers(prog)
           /\ \A ctx : Cid(ctx)' = Cid(ctx)
           /\ \A f : ResolvedOn(prog, f)' = ResolvedOn(prog, f)
           /\ ResolvedInTime' = ResolvedInTime
<1>1. \A f : Body(f)' = Body(f)
  BY DEF Body
<1>2. \A f : AllCalls(f)' = AllCalls(f)
  BY <1>1 DEF AllCalls
<1>3. Callees(prog)' = Callees(prog) /\ Initialisers(prog)' = Initialisers(prog)
  BY DEF Callees, Initialisers
<1>4. \A f : Involved(f)' = Involved(f)
  BY <1>1, <1>3 DEF Involved
<1>5. \A site : IsSite(site)' = IsSite(site)
  BY <1>2 DEF IsSite
<1>6. \A site, o, callee : InstanceCalls(site, o, callee)' = InstanceCalls(site, o, callee)
  BY DEF InstanceCalls
<1>7. \A site, callee : NewCalls(site, callee)' = NewCalls(site, callee)
  BY <1>6 DEF NewCalls
<1>8. \A ctx : Cid(ctx)' = Cid(ctx)
  BY DEF Cid
<1>9. \A f : ResolvedOn(prog, f)' = ResolvedOn(prog, f)
  BY DEF ResolvedOn
<1>10. ResolvedInTime' = ResolvedInTime
  BY <1>9 DEF ResolvedInTime, NeedsReceiver
<1> QED
  BY <1>1, <1>2, <1>3, <1>4, <1>5, <1>6, <1>7, <1>8, <1>9, <1>10

LEMMA AddCallsAdds ==
    ASSUME NEW flow, NEW summarised, NEW others, NEW queue, AddCalls(flow, summarised, others, queue)
    PROVE  /\ call_graph \subseteq call_graph' /\ direct \cup others \subseteq direct'
           /\ \A x \in flow \cup summarised : CallEdge(x) \in call_graph'
           /\ \A e \in call_graph' : e \in call_graph \/ \E x \in flow \cup summarised : e = CallEdge(x)
           /\ func_nodes' = func_nodes \cup {x[2] : x \in flow \cup summarised}
           /\ reach_funcs' = queue \cup (func_nodes' \ func_nodes)
           /\ \A x \in flow : CallEdge(x) \notin call_graph => add_inter_procedural_edges(x) \subseteq direct'
  BY DEF AddCalls

LEMMA AddCallsOnly ==
    ASSUME NEW flow, NEW summarised, NEW others, NEW queue, AddCalls(flow, summarised, others, queue)
    PROVE  \A e \in direct' : e \in direct \cup others \/ \E x \in flow : e \in add_inter_procedural_edges(x)
  BY DEF AddCalls

\* The location of a call tells what the call is.
LEMMA CallOfLocation ==
    ASSUME prog \in DOMAIN Program, NEW f \in DOMAIN Program[prog]
    PROVE  /\ \A c, d \in AllCalls(f) : c.loc = d.loc => c = d
           /\ \A c \in AllCalls(f), d \in Body(f).special : c.loc # d.loc
  BY ProgramAssumption DEF CallAssumption, AllCalls, Body

LEMMA FlowsStep ==
    ASSUME prog \in DOMAIN Program, FlowsIn, UNCHANGED <<prog, s>>,
           NEW flow, NEW summarised, NEW others, NEW queue, AddCalls(flow, summarised, others, queue),
           \A x \in flow : IsSite(x[1]),
           \A x \in summarised : /\ x[1].func \in DOMAIN Program[prog]
                                 /\ \E d \in Body(x[1].func).special : x[1].loc = d.loc
    PROVE  FlowsIn'
<1>1. call_graph \subseteq call_graph' /\ direct \subseteq direct'
  BY AddCallsAdds
<1>2. ASSUME NEW e \in call_graph'
      PROVE  /\ e[1] \in DOMAIN Program[prog]
             /\ \A c \in AllCalls(e[1]) : c.loc = e[3] =>
                   add_inter_procedural_edges(<<mk_cs_callsite(c, <<e[1], e[2]>>), e[4]>>) \subseteq direct'
  <2>1. CASE e \in call_graph
    BY <1>1, <2>1 DEF FlowsIn
  <2>2. CASE e \notin call_graph
    <3>1. PICK x \in flow \cup summarised : e = CallEdge(x)
      BY <2>2, AddCallsAdds
    <3>2. e[1] = x[1].func /\ e[2] = x[1].ctx /\ e[3] = x[1].loc /\ e[4] = x[2]
      BY <3>1 DEF CallEdge
    <3>3. e[1] \in DOMAIN Program[prog]
      BY <3>2 DEF IsSite
    <3>4. ASSUME NEW c \in AllCalls(e[1]), c.loc = e[3]
          PROVE  add_inter_procedural_edges(<<mk_cs_callsite(c, <<e[1], e[2]>>), e[4]>>) \subseteq direct'
      <4>1. CASE x \in flow
        <5>1. PICK d \in AllCalls(e[1]) : x[1] = mk_cs_callsite(d, <<e[1], e[2]>>)
          BY <3>2, <4>1 DEF IsSite
        <5>2. c = d
          BY <3>2, <3>3, <3>4, <5>1, CallOfLocation DEF mk_cs_callsite
        <5>3. <<mk_cs_callsite(c, <<e[1], e[2]>>), e[4]>> = <<x[1], x[2]>>
          BY <3>2, <5>1, <5>2
        <5>4. add_inter_procedural_edges(<<x[1], x[2]>>) = add_inter_procedural_edges(x)
          BY DEF add_inter_procedural_edges
        <5>5. add_inter_procedural_edges(x) \subseteq direct'
          BY <2>2, <3>1, <4>1, AddCallsAdds
        <5> QED
          BY <5>3, <5>4, <5>5
      <4>2. CASE x \in summarised
        BY <3>2, <3>3, <3>4, <4>2, CallOfLocation
      <4> QED
        BY <4>1, <4>2
    <3> QED
      BY <3>3, <3>4
  <2> QED
    BY <2>1, <2>2
<1> QED
  BY <1>2, ProgramKept DEF FlowsIn

\* Nothing is taken back.
Grows ==
    /\ call_graph \subseteq call_graph' /\ assoc_calls \subseteq assoc_calls'
    /\ addr \subseteq addr' /\ direct \subseteq direct'
    /\ func_nodes \subseteq func_nodes' /\ processed_funcs \subseteq processed_funcs'
    /\ prog' = prog /\ s' = s

LEMMA ResolvedKept ==
    ASSUME Grows
    PROVE  /\ \A site, callee : Resolved(site, callee) => Resolved(site, callee)'
           /\ \A site, o, callee : InstanceResolved(site, o, callee) => InstanceResolved(site, o, callee)'
<1>1. call_graph \subseteq call_graph' /\ assoc_calls \subseteq assoc_calls' /\ prog' = prog /\ s' = s
  BY DEF Grows
<1>2. \A x : InGraph(x) => InGraph(x)'
  BY <1>1 DEF InGraph, CallEdge
<1>3. \A site, callee : SelfCalls(site, callee)' = SelfCalls(site, callee)
  BY DEF SelfCalls, Registered
<1>4. ASSUME NEW site, NEW callee, Resolved(site, callee) PROVE Resolved(site, callee)'
  <2>1. NewCalls(site, callee)' = NewCalls(site, callee)
    BY <1>1, ProgramKept
  <2>2. (\A x \in NewCalls(site, callee) : InGraph(x)) /\ SelfCalls(site, callee) \subseteq assoc_calls
    BY <1>4 DEF Resolved
  <2>3. SelfCalls(site, callee)' \subseteq assoc_calls'
    BY <1>1, <1>3, <2>2
  <2>4. \A x \in NewCalls(site, callee)' : InGraph(x)'
    BY <1>2, <2>1, <2>2
  <2> QED
    BY <2>3, <2>4 DEF Resolved
<1>5. ASSUME NEW site, NEW o, NEW callee, InstanceResolved(site, o, callee)
      PROVE  InstanceResolved(site, o, callee)'
  <2>1. InstanceCalls(site, o, callee)' = InstanceCalls(site, o, callee)
    BY <1>1, ProgramKept
  <2>2. \A x \in InstanceCalls(site, o, callee) : InGraph(x)
    BY <1>5 DEF InstanceResolved
  <2>3. \A x \in InstanceCalls(site, o, callee)' : InGraph(x)'
    BY <1>2, <2>1, <2>2
  <2> QED
    BY <2>3 DEF InstanceResolved
<1> QED
  BY <1>4, <1>5

LEMMA FunctionKept ==
    ASSUME Grows, NEW f
    PROVE  /\ HasEdges(f) => HasEdges(f)'
           /\ HasCalls(f) => HasCalls(f)'
           /\ Involved(f[1])' = Involved(f[1])
<1>1. Body(f[1])' = Body(f[1]) /\ Involved(f[1])' = Involved(f[1])
  BY ProgramKept DEF Grows
<1>2. ASSUME HasEdges(f) PROVE HasEdges(f)'
  <2>1. EdgesIn(Body(f[1]).addr, f)' = EdgesIn(Body(f[1]).addr, f)
        /\ EdgesIn(Body(f[1]).direct, f)' = EdgesIn(Body(f[1]).direct, f)
    BY <1>1 DEF EdgesIn, mk_cs_path
  <2> QED
    BY <1>2, <2>1 DEF HasEdges, Grows
<1>3. ASSUME HasCalls(f) PROVE HasCalls(f)'
  <2>1. \A c : mk_cs_callsite(c, f)' = mk_cs_callsite(c, f)
    BY DEF mk_cs_callsite, mk_cs_path
  <2>2. \A c \in Body(f[1])'.static : Resolved(mk_cs_callsite(c, f), c.callee)'
    BY <1>1, <1>3, <2>1, ResolvedKept DEF HasCalls
  <2>3. Indirect("dispatch", Body(f[1]).dispatch, f)' = Indirect("dispatch", Body(f[1]).dispatch, f)
        /\ Indirect("fnptr", Body(f[1]).fnptr, f)' = Indirect("fnptr", Body(f[1]).fnptr, f)
    BY <1>1 DEF Indirect, Registered, mk_cs_callsite, mk_cs_path
  <2>4. Indirect("dispatch", Body(f[1]).dispatch, f)' \subseteq assoc_calls'
        /\ Indirect("fnptr", Body(f[1]).fnptr, f)' \subseteq assoc_calls'
    BY <1>3, <2>3 DEF HasCalls, Grows
  <2> QED
    BY <2>2, <2>4 DEF HasCalls
<1> QED
  BY <1>1, <1>2, <1>3

LEMMA NotBoth ==
    ASSUME prog \in DOMAIN Program, NEW f \in Initialisers(prog)
    PROVE  f \in DOMAIN Program[prog] /\ f \notin Callees(prog) \cup {Main}
  BY ProgramAssumption DEF CallAssumption

\* The functions that were processed before the step.
LEMMA OldBodies ==
    ASSUME prog \in DOMAIN Program, NodesIn', BodiesIn, Grows, NEW f \in processed_funcs
    PROVE  /\ (f \in func_nodes' \/ f[1] \in Initialisers(prog)') /\ HasEdges(f)'
           /\ f \in func_nodes' => HasCalls(f)' /\ \A g \in Involved(f[1])' : <<g, Empty>> \in processed_funcs'
<1>1. Initialisers(prog)' = Initialisers(prog) /\ Callees(prog)' = Callees(prog)
  BY ProgramKept DEF Grows
<1>2. (f \in func_nodes \/ f[1] \in Initialisers(prog)) /\ HasEdges(f)'
  BY FunctionKept DEF BodiesIn
<1>3. ASSUME f \in func_nodes' PROVE HasCalls(f)' /\ \A g \in Involved(f[1])' : <<g, Empty>> \in processed_funcs'
  <2>1. f[1] \in Callees(prog) \cup {Main}
    BY <1>1, <1>3 DEF NodesIn
  <2>2. f \in func_nodes
    BY <1>2, <2>1, NotBoth
  <2>3. HasCalls(f) /\ \A g \in Involved(f[1]) : <<g, Empty>> \in processed_funcs
    BY <2>2 DEF BodiesIn
  <2> QED
    BY <2>3, FunctionKept DEF Grows
<1> QED
  BY <1>1, <1>2, <1>3 DEF Grows

LEMMA NodesStep ==
    ASSUME prog \in DOMAIN Program, NodesIn, UNCHANGED <<prog, s>>, processed_funcs \subseteq processed_funcs',
           NEW flow, NEW summarised, NEW others, NEW queue, AddCalls(flow, summarised, others, queue),
           \A x \in flow \cup summarised : x[2] = <<x[2][1], x[2][2]>> /\ x[2][1] \in Callees(prog),
           queue \subseteq reach_funcs, \A f \in reach_funcs \ queue : f \in processed_funcs'
    PROVE  NodesIn'
<1>1. /\ func_nodes' = func_nodes \cup {x[2] : x \in flow \cup summarised}
      /\ reach_funcs' = queue \cup (func_nodes' \ func_nodes)
  BY AddCallsAdds
<1>2. Callees(prog)' = Callees(prog)
  BY ProgramKept
<1>3. \A f \in func_nodes' : f = <<f[1], f[2]>> /\ f[1] \in Callees(prog) \cup {Main}
  BY <1>1 DEF NodesIn
<1>4. reach_funcs' \subseteq func_nodes'
  BY <1>1 DEF NodesIn
<1>5. \A f \in func_nodes' : f[1] \in DOMAIN Program[prog] => f \in processed_funcs' \cup reach_funcs'
  BY <1>1 DEF NodesIn
<1>6. ASSUME NEW e \in call_graph' PROVE e[4] \in func_nodes'
  <2>1. CASE e \in call_graph
    BY <1>1, <2>1 DEF NodesIn
  <2>2. CASE \E x \in flow \cup summarised : e = CallEdge(x)
    BY <1>1, <2>2 DEF CallEdge
  <2> QED
    BY <2>1, <2>2, AddCallsAdds
<1>7. <<Main, Empty>> \in func_nodes'
  BY <1>1 DEF NodesIn
<1> QED
  BY <1>2, <1>3, <1>4, <1>5, <1>6, <1>7 DEF NodesIn

LEMMA CallsShape ==
    ASSUME NEW site, NEW callee
    PROVE  /\ \A x \in NewCalls(site, callee) : x[1] = site /\ x[2][1] = callee /\ x[2] = <<x[2][1], x[2][2]>>
           /\ \A o : \A x \in InstanceCalls(site, o, callee) :
                 x[1] = site /\ x[2][1] = callee /\ x[2] = <<x[2][1], x[2][2]>>
           /\ \A r \in SelfCalls(site, callee) : r.kind = "instance" /\ r.site = site /\ r.callee = callee
<1>1. ASSUME NEW o, NEW x \in InstanceCalls(site, o, callee)
      PROVE  x[1] = site /\ x[2][1] = callee /\ x[2] = <<x[2][1], x[2][2]>>
  BY <1>1 DEF InstanceCalls
<1>2. ASSUME NEW x \in NewCalls(site, callee)
      PROVE  x[1] = site /\ x[2][1] = callee /\ x[2] = <<x[2][1], x[2][2]>>
  <2>1. \/ x \in InstanceCalls(site, NoReceiver, callee) \/ x \in InstanceCalls(site, site.args[1], callee)
        \/ x = <<site, <<callee, new_static_call_context(s, site)>>>>
    BY <1>2 DEF NewCalls
  <2> QED
    BY <1>1, <2>1
<1>3. \A r \in SelfCalls(site, callee) : r.kind = "instance" /\ r.site = site /\ r.callee = callee
  BY DEF SelfCalls, Registered
<1> QED
  BY <1>1, <1>2, <1>3

LEMMA CalleeOfCall ==
    ASSUME NEW f \in DOMAIN Program[prog], NEW c \in Body(f).static \cup Body(f).special
    PROVE  c.callee \in Callees(prog)
<1> DEFINE called(g) == {d.callee : d \in Program[prog][g].static \cup Program[prog][g].special}
<1>1. c.callee \in called(f)
  BY DEF Body
<1>2. c.callee \in UNION {called(g) : g \in DOMAIN Program[prog]}
  BY <1>1
<1> QED
  BY <1>2 DEF Callees

LEMMA BodySite ==
    ASSUME NEW f, f[1] \in DOMAIN Program[prog], NEW c \in AllCalls(f[1])
    PROVE  IsSite(mk_cs_callsite(c, f))
  BY DEF IsSite, mk_cs_callsite

LEMMA ReportsKept ==
    ASSUME ReportsIn, Grows,
           \A c \in new_calls : stage = "calls" =>
               \/ stage' = "calls" /\ c \in new_calls'
               \/ Resolved(c[1], c[2])',
           \A c \in new_call_instances : stage \in {"calls", "calls_reach", "instances"} =>
               \/ stage' \in {"calls", "calls_reach", "instances"} /\ c \in new_call_instances'
               \/ InstanceResolved(c[1], c[2], c[3])'
    PROVE  \A q \in reported : ReportIn(q)'
<1>1. ASSUME NEW q \in reported, q[1].kind = "fnptr", q[2][1] \in DOMAIN FnItem
      PROVE  \/ Resolved(q[1].site, FnItem[q[2][1]])'
             \/ stage' = "calls" /\ <<q[1].site, FnItem[q[2][1]]>> \in new_calls'
  <2>1. CASE Resolved(q[1].site, FnItem[q[2][1]])
    BY <2>1, ResolvedKept
  <2>2. CASE stage = "calls" /\ <<q[1].site, FnItem[q[2][1]]>> \in new_calls
    BY <2>2
  <2> QED
    BY <1>1, <2>1, <2>2 DEF ReportsIn, ReportIn
<1>2. ASSUME NEW q \in reported, NEW callee,
             \/ InstanceResolved(q[1].site, q[2], callee)
             \/ /\ stage \in {"calls", "calls_reach", "instances"}
                /\ <<q[1].site, q[2], callee>> \in new_call_instances
      PROVE  \/ InstanceResolved(q[1].site, q[2], callee)'
             \/ /\ stage' \in {"calls", "calls_reach", "instances"}
                /\ <<q[1].site, q[2], callee>> \in new_call_instances'
  <2>1. CASE InstanceResolved(q[1].site, q[2], callee)
    BY <2>1, ResolvedKept
  <2>2. CASE /\ stage \in {"calls", "calls_reach", "instances"}
             /\ <<q[1].site, q[2], callee>> \in new_call_instances
    BY <2>2
  <2> QED
    BY <1>2, <2>1, <2>2
<1>3. \A q \in reported : q[1].kind = "instance" =>
          \/ InstanceResolved(q[1].site, q[2], q[1].callee)'
          \/ /\ stage' \in {"calls", "calls_reach", "instances"}
             /\ <<q[1].site, q[2], q[1].callee>> \in new_call_instances'
  BY <1>2 DEF ReportsIn, ReportIn
<1>4. \A q \in reported : q[1].kind = "dispatch" /\ q[2][1] \in DOMAIN Impl =>
          \/ InstanceResolved(q[1].site, q[2], Impl[q[2][1]])'
          \/ /\ stage' \in {"calls", "calls_reach", "instances"}
             /\ <<q[1].site, q[2], Impl[q[2][1]]>> \in new_call_instances'
  BY <1>2 DEF ReportsIn, ReportIn
<1>5. ASSUME NEW q \in reported PROVE ReportIn(q)'
  <2>1. /\ q[1].kind = "fnptr" /\ q[2][1] \in DOMAIN FnItem =>
              \/ Resolved(q[1].site, FnItem[q[2][1]])'
              \/ stage' = "calls" /\ <<q[1].site, FnItem[q[2][1]]>> \in new_calls'
        /\ q[1].kind = "instance" =>
              \/ InstanceResolved(q[1].site, q[2], q[1].callee)'
              \/ /\ stage' \in {"calls", "calls_reach", "instances"}
                 /\ <<q[1].site, q[2], q[1].callee>> \in new_call_instances'
        /\ q[1].kind = "dispatch" /\ q[2][1] \in DOMAIN Impl =>
              \/ InstanceResolved(q[1].site, q[2], Impl[q[2][1]])'
              \/ /\ stage' \in {"calls", "calls_reach", "instances"}
                 /\ <<q[1].site, q[2], Impl[q[2][1]]>> \in new_call_instances'
    BY <1>1, <1>3, <1>4
  <2> QED
    BY <2>1 DEF ReportIn
<1> QED
  BY <1>5

-----------------------------------------------------------------------------
(* What calls are resolved on is fresh when they are registered.              *)

LEMMA OwnPaths ==
    ASSUME prog \in DOMAIN Program, ResolvedInTime,
           NEW f \in DOMAIN Program[prog], NEW path \in ResolvedOn(prog, f)
    PROVE  /\ path[1] \notin Global
           /\ \A g \in DOMAIN Program[prog] : path \in Written(Body(g)) => g = f
           /\ \A g \in Callees(prog) : \A i \in DOMAIN Params[g] : Params[g][i] = path => g = f
  BY ProgramAssumption DEF PathAssumption, ResolvedInTime, Body

\* The edges of a body write to its own.
LEMMA OwnEdges ==
    ASSUME prog \in DOMAIN Program, ResolvedInTime, NEW g, g[1] \in DOMAIN Program[prog],
           NEW e \in EdgesIn(Body(g[1]).addr, g) \cup EdgesIn(Body(g[1]).direct, g),
           NEW f \in DOMAIN Program[prog], e[2][1] \in ResolvedOn(prog, f)
    PROVE  f = g[1] /\ e[2][2] = g[2]
<1>1. PICK x \in Body(g[1]).addr \cup Body(g[1]).direct : e[2] = mk_cs_path(x[2], g[2])
  BY DEF EdgesIn
<1>2. e[2][1] = x[2] /\ x[2] \in Written(Body(g[1]))
  BY <1>1 DEF mk_cs_path, Written
<1> QED
  BY <1>1, <1>2, OwnPaths DEF mk_cs_path

LEMMA SiteDest ==
    ASSUME NEW site, IsSite(site)
    PROVE  \E c \in AllCalls(site.func) : site.dest = mk_cs_path(c.dest, site.ctx)
<1>1. PICK c \in AllCalls(site.func) : site = mk_cs_callsite(c, <<site.func, site.ctx>>)
  BY DEF IsSite
<1>2. mk_cs_callsite(c, <<site.func, site.ctx>>).dest = mk_cs_path(c.dest, site.ctx)
  BY DEF mk_cs_callsite
<1> QED
  BY <1>1, <1>2

LEMMA FreshStep ==
    ASSUME prog \in DOMAIN Program, ResolvedInTime, FreshIn, NodesIn', UNCHANGED <<prog, s, pts>>,
           processed_funcs \subseteq processed_funcs', reach_funcs \subseteq processed_funcs' \cup reach_funcs',
           NEW flow, NEW summarised, NEW others, NEW queue, AddCalls(flow, summarised, others, queue),
           \A x \in flow : /\ IsSite(x[1]) /\ <<x[1].func, x[1].ctx>> \in processed_funcs'
                           /\ x[2] = <<x[2][1], x[2][2]>> /\ x[2][1] \in Callees(prog),
           \A f \in DOMAIN Program[prog] : \A e \in (addr' \ addr) \cup others :
               e[2][1] \in ResolvedOn(prog, f) => <<f, e[2][2]>> \in processed_funcs'
    PROVE  FreshIn'
<1>1. \A x \in flow : x[2] \in func_nodes'
  <2>1. func_nodes' = func_nodes \cup {x[2] : x \in flow \cup summarised}
    BY AddCallsAdds
  <2> QED
    BY <2>1
<1>2. ASSUME NEW f \in DOMAIN Program[prog], NEW x \in flow, NEW e \in add_inter_procedural_edges(x),
             e[2][1] \in ResolvedOn(prog, f)
      PROVE  <<f, e[2][2]>> \in processed_funcs' \cup reach_funcs'
  <2>1. CASE e = <<<<Ret[x[2][1]], x[2][2]>>, x[1].dest>>
    <3>1. PICK c \in AllCalls(x[1].func) : x[1].dest = mk_cs_path(c.dest, x[1].ctx)
      BY SiteDest
    <3>2. e[2][1] = c.dest /\ c.dest \in Written(Body(x[1].func))
      BY <2>1, <3>1 DEF mk_cs_path, Written, AllCalls
    <3>3. f = x[1].func
      BY <1>2, <3>2, OwnPaths DEF IsSite
    <3>4. e[2][2] = x[1].ctx
      BY <1>2, <2>1, <3>1, <3>2, OwnPaths DEF mk_cs_path
    <3> QED
      BY <3>3, <3>4
  <2>2. CASE \E i \in DOMAIN x[1].args \cap DOMAIN Params[x[2][1]] : e = <<x[1].args[i], <<Params[x[2][1]][i], x[2][2]>>>>
    <3>1. PICK i \in DOMAIN Params[x[2][1]] : e[2] = <<Params[x[2][1]][i], x[2][2]>>
      BY <2>2
    <3>2. f = x[2][1]
      <4>1. x[2][1] \in Callees(prog)
        OBVIOUS
      <4>2. Params[x[2][1]][i] \in ResolvedOn(prog, f)
        BY <1>2, <3>1
      <4> QED
        BY <4>1, <4>2, OwnPaths
    <3>3. <<f, e[2][2]>> \in func_nodes'
      <4>1. e[2][2] = x[2][2]
        BY <3>1
      <4>2. x[2] = <<x[2][1], x[2][2]>> /\ x[2] \in func_nodes'
        BY <1>1
      <4> QED
        BY <3>2, <4>1, <4>2, Zenon
    <3> QED
      BY <3>3 DEF NodesIn
  <2> QED
    BY <2>1, <2>2 DEF add_inter_procedural_edges
<1>3. ASSUME NEW f \in DOMAIN Program[prog], NEW e \in addr' \cup direct', e[2][1] \in ResolvedOn(prog, f)
      PROVE  <<f, e[2][2]>> \in processed_funcs' \cup reach_funcs'
  <2>1. CASE e \in addr \cup direct
    BY <1>3, <2>1 DEF FreshIn
  <2>2. CASE e \in (addr' \ addr) \cup others
    BY <1>3, <2>2
  <2>3. CASE \E x \in flow : e \in add_inter_procedural_edges(x)
    BY <1>2, <1>3, <2>3
  <2> QED
    BY <2>1, <2>2, <2>3, AddCallsOnly
<1>4. \A f \in DOMAIN Program[prog] : \A e \in pts : e[1][1] \in ResolvedOn(prog, f) => <<f, e[1][2]>> \in processed_funcs'
  BY DEF FreshIn
<1> QED
  BY <1>3, <1>4, ProgramKept DEF FreshIn

LEMMA OpenKept ==
    ASSUME Grows
    PROVE  /\ \A site : IsOpen(site) => IsOpen(site)'
           /\ \A r : RegisteredOpen(r) => RegisteredOpen(r)'
           /\ \A c : CallOpen(c) => CallOpen(c)'
           /\ \A c : InstanceOpen(c) => InstanceOpen(c)'
<1>1. \A site : IsOpen(site) => IsOpen(site)'
  BY ProgramKept DEF IsOpen, Grows
<1>2. (\A f : Body(f)' = Body(f)) /\ Callees(prog)' = Callees(prog) /\ NeedsReceiver(s)' = NeedsReceiver(s)
  BY ProgramKept DEF Grows, NeedsReceiver
<1> QED
  BY <1>1, <1>2 DEF RegisteredOpen, CallOpen, InstanceOpen

-----------------------------------------------------------------------------
(* The steps of the analysis.                                                 *)

LEMMA SkipStep ==
    ASSUME AnalysisInv, process_reach_funcs, NEW f \in reach_funcs, SkipReachFunc(f)
    PROVE  AnalysisInv'
<1>1. /\ reach_funcs' = reach_funcs \ {f} /\ (f \in processed_funcs \/ f[1] \notin DOMAIN Program[prog])
      /\ UNCHANGED <<func_nodes, processed_funcs, call_graph, addr, direct, assoc_calls>>
      /\ UNCHANGED <<pts, reported, new_calls, new_call_instances, stage, prog, s>>
      /\ stage \notin {"solve", "calls", "instances", "done"}
  BY DEF process_reach_funcs, SkipReachFunc, runVars
<1>2. prog \in DOMAIN Program /\ s \in Strategies /\ Grows
  BY <1>1 DEF AnalysisInv, Grows
<1>3. Callees(prog)' = Callees(prog) /\ ResolvedInTime'
  BY <1>1, ProgramKept DEF AnalysisInv
<1>4. NodesIn'
  <2>1. \A g \in func_nodes : g[1] \in DOMAIN Program[prog] => g \in processed_funcs \cup reach_funcs'
    BY <1>1 DEF AnalysisInv, NodesIn
  <2> QED
    BY <1>1, <1>3, <2>1 DEF AnalysisInv, NodesIn
<1>5. BodiesIn'
  <2>1. ASSUME NEW g \in processed_funcs
        PROVE  /\ (g \in func_nodes' \/ g[1] \in Initialisers(prog)') /\ HasEdges(g)'
               /\ g \in func_nodes' => HasCalls(g)' /\ \A h \in Involved(g[1])' : <<h, Empty>> \in processed_funcs'
    BY <1>2, <1>4, OldBodies DEF AnalysisInv
  <2> QED
    BY <1>1, <2>1 DEF BodiesIn
<1>6. FlowsIn'
  <2>1. \A g : AllCalls(g)' = AllCalls(g)
    BY <1>1, ProgramKept
  <2> QED
    BY <1>1, <2>1 DEF AnalysisInv, FlowsIn
<1>7. SitesIn'
  BY <1>1, <1>2, OpenKept DEF AnalysisInv, SitesIn
<1>8. ReportsIn'
  <2>1. \A q \in reported : ReportIn(q)'
    BY <1>1, <1>2, ReportsKept DEF AnalysisInv
  <2> QED
    BY <1>1, <2>1 DEF ReportsIn
<1>9. StagesIn'
  BY <1>1 DEF StagesIn
<1>10. FreshIn'
  <2>1. \A g \in DOMAIN Program[prog] : \A ctx :
            <<g, ctx>> \in processed_funcs \cup reach_funcs => <<g, ctx>> \in processed_funcs \cup reach_funcs'
    BY <1>1
  <2> QED
    BY <1>1, <2>1, ProgramKept DEF AnalysisInv, FreshIn
<1> QED
  BY <1>1, <1>2, <1>3, <1>4, <1>5, <1>6, <1>7, <1>8, <1>9, <1>10 DEF AnalysisInv

LEMMA ProcessStep ==
    ASSUME AnalysisInv, process_reach_funcs, NEW f \in reach_funcs, ProcessReachFunc(f)
    PROVE  AnalysisInv'
<1> DEFINE F == add_fpag_edges(f)
           static == {<<mk_cs_callsite(c, f), c.callee>> : c \in Body(f[1]).static}
           special == {<<mk_cs_callsite(c, f), c.callee>> : c \in Body(f[1]).special}
           flow == UNION {NewCalls(c[1], c[2]) : c \in static}
           summarised == {<<c[1], <<c[2], new_static_call_context(s, c[1])>>>> : c \in special}
           others == UNION {EdgesIn(Body(g[1]).direct, g) : g \in F}
           selfs == UNION {SelfCalls(c[1], c[2]) : c \in static}
           calls == selfs \cup Indirect("dispatch", Body(f[1]).dispatch, f) \cup Indirect("fnptr", Body(f[1]).fnptr, f)
<1>1. /\ f \notin processed_funcs /\ f[1] \in DOMAIN Program[prog] /\ processed_funcs' = processed_funcs \cup F
      /\ addr' = addr \cup UNION {EdgesIn(Body(g[1]).addr, g) : g \in F}
      /\ AddCalls(flow, summarised, others, reach_funcs \ {f})
      /\ Register(calls)
  <2>1. f \notin processed_funcs /\ f[1] \in DOMAIN Program[prog] /\ processed_funcs' = processed_funcs \cup F
    BY DEF ProcessReachFunc
  <2>2. addr' = addr \cup UNION {EdgesIn(Body(g[1]).addr, g) : g \in F}
        /\ process_calls_in_fpag(f, others, reach_funcs \ {f})
    BY Zenon DEF ProcessReachFunc
  <2>3. AddCalls(flow, summarised, others, reach_funcs \ {f})
    BY <2>2, Zenon DEF process_calls_in_fpag
  <2>4. Register(calls)
    BY <2>2, Zenon DEF process_calls_in_fpag
  <2> QED
    BY <2>1, <2>2, <2>3, <2>4
<1>2. /\ UNCHANGED <<pts, new_calls, new_call_instances, stage, prog, s>>
      /\ stage \notin {"solve", "calls", "instances", "done"}
      /\ assoc_calls' = assoc_calls \cup calls
  BY <1>1 DEF process_reach_funcs, runVars, Register
<1>3. prog \in DOMAIN Program /\ s \in Strategies /\ ResolvedInTime /\ f \in func_nodes /\ f = <<f[1], f[2]>>
  BY DEF AnalysisInv, NodesIn
<1>4. f \in F /\ (\A g \in F : g = f \/ \E h \in Involved(f[1]) : g = <<h, Empty>>)
      /\ \A h \in Involved(f[1]) : h \in Initialisers(prog) /\ <<h, Empty>> \in processed_funcs'
  BY <1>1 DEF add_fpag_edges, Involved
<1> HIDE DEF F, flow, summarised, others, selfs, calls
<1>5. Grows
  BY <1>1, <1>2, AddCallsAdds DEF Grows
<1>6. ASSUME NEW x \in flow
      PROVE  IsSite(x[1]) /\ x[1].func = f[1] /\ x[1].ctx = f[2] /\ x[2] = <<x[2][1], x[2][2]>> /\ x[2][1] \in Callees(prog)
  <2>1. PICK c \in Body(f[1]).static : x \in NewCalls(mk_cs_callsite(c, f), c.callee)
    BY <1>6 DEF flow
  <2>2. x[1] = mk_cs_callsite(c, f) /\ x[2][1] = c.callee /\ x[2] = <<x[2][1], x[2][2]>>
    BY <2>1, CallsShape
  <2>3. c \in AllCalls(f[1])
    BY DEF AllCalls
  <2>4. c.callee \in Callees(prog)
    BY <1>1, CalleeOfCall
  <2>5. x[1].func = f[1] /\ x[1].ctx = f[2]
    BY <2>2 DEF mk_cs_callsite
  <2> QED
    BY <1>1, <2>2, <2>3, <2>4, <2>5, BodySite
<1>7. ASSUME NEW x \in summarised
      PROVE  /\ x[1].func \in DOMAIN Program[prog] /\ x[2] = <<x[2][1], x[2][2]>> /\ x[2][1] \in Callees(prog)
             /\ \E d \in Body(x[1].func).special : x[1].loc = d.loc
  <2>1. PICK d \in Body(f[1]).special : x[1] = mk_cs_callsite(d, f) /\ x[2][1] = d.callee /\ x[2] = <<x[2][1], x[2][2]>>
    BY DEF summarised
  <2>2. d.callee \in Callees(prog)
    BY <1>1, CalleeOfCall
  <2> QED
    BY <1>1, <2>1, <2>2 DEF mk_cs_callsite
<1>8. NodesIn'
  BY <1>1, <1>2, <1>3, <1>4, <1>6, <1>7, NodesStep DEF AnalysisInv
<1>9. FlowsIn'
  BY <1>1, <1>2, <1>3, <1>6, <1>7, FlowsStep DEF AnalysisInv
<1>10. HasEdges(f)' /\ \A h \in Involved(f[1]) : HasEdges(<<h, Empty>>)'
  <2>1. ASSUME NEW g \in F PROVE HasEdges(g)'
    <3>1. Body(g[1])' = Body(g[1])
      BY <1>2, ProgramKept
    <3>2. EdgesIn(Body(g[1]).addr, g)' = EdgesIn(Body(g[1]).addr, g)
          /\ EdgesIn(Body(g[1]).direct, g)' = EdgesIn(Body(g[1]).direct, g)
      BY <3>1 DEF EdgesIn, mk_cs_path
    <3>3. EdgesIn(Body(g[1]).addr, g) \subseteq addr' /\ EdgesIn(Body(g[1]).direct, g) \subseteq direct'
      BY <1>1, AddCallsAdds DEF others
    <3> QED
      BY <3>2, <3>3 DEF HasEdges
  <2>2. ASSUME NEW h \in Involved(f[1]) PROVE HasEdges(<<h, Empty>>)'
    <3>1. CASE <<h, Empty>> \in F
      BY <2>1, <3>1
    <3>2. CASE <<h, Empty>> \in processed_funcs
      BY <1>5, <3>2, FunctionKept DEF AnalysisInv, BodiesIn
    <3> QED
      BY <1>1, <1>4, <3>1, <3>2
  <2> QED
    BY <1>4, <2>1, <2>2
<1>11. HasCalls(f)'
  <2>1. Body(f[1])' = Body(f[1]) /\ \A c : mk_cs_callsite(c, f)' = mk_cs_callsite(c, f)
    BY <1>2, ProgramKept DEF mk_cs_callsite, mk_cs_path
  <2>2. ASSUME NEW c \in Body(f[1]).static PROVE Resolved(mk_cs_callsite(c, f), c.callee)'
    <3> DEFINE site == mk_cs_callsite(c, f)
    <3>1. NewCalls(site, c.callee) \subseteq flow /\ SelfCalls(site, c.callee) \subseteq assoc_calls'
      <4>1. PICK d : d = <<site, c.callee>>
        OBVIOUS
      <4>2. d \in static /\ d[1] = site /\ d[2] = c.callee
        BY <4>1
      <4> HIDE DEF static, site
      <4>3. NewCalls(d[1], d[2]) \subseteq flow /\ SelfCalls(d[1], d[2]) \subseteq assoc_calls'
        BY <1>2, <4>2 DEF flow, selfs, calls
      <4> QED
        BY <4>2, <4>3
    <3>2. NewCalls(site, c.callee)' = NewCalls(site, c.callee)
      BY <1>2, <2>1, ProgramKept
    <3>3. \A x \in NewCalls(site, c.callee)' : InGraph(x)'
      <4>1. \A x \in flow : CallEdge(x) \in call_graph'
        BY <1>1, AddCallsAdds
      <4>2. \A x : CallEdge(x) \in call_graph' => InGraph(x)'
        BY DEF InGraph, CallEdge
      <4> QED
        BY <3>1, <3>2, <4>1, <4>2
    <3>4. SelfCalls(site, c.callee)' = SelfCalls(site, c.callee)
      BY <2>1 DEF SelfCalls, Registered
    <3> QED
      BY <3>1, <3>3, <3>4 DEF Resolved
  <2>3. Indirect("dispatch", Body(f[1]).dispatch, f)' = Indirect("dispatch", Body(f[1]).dispatch, f)
        /\ Indirect("fnptr", Body(f[1]).fnptr, f)' = Indirect("fnptr", Body(f[1]).fnptr, f)
    BY <2>1 DEF Indirect, Registered, mk_cs_callsite, mk_cs_path
  <2>4. \A c \in Body(f[1])'.static : Resolved(mk_cs_callsite(c, f), c.callee)'
    BY <2>1, <2>2
  <2>5. Indirect("dispatch", Body(f[1]).dispatch, f)' \subseteq assoc_calls'
        /\ Indirect("fnptr", Body(f[1]).fnptr, f)' \subseteq assoc_calls'
    BY <1>2, <2>3 DEF calls
  <2> QED
    BY <2>4, <2>5 DEF HasCalls
<1>12. BodiesIn'
  <2>1. Initialisers(prog)' = Initialisers(prog) /\ Callees(prog)' = Callees(prog)
        /\ Involved(f[1])' = Involved(f[1])
    BY <1>2, ProgramKept
  <2>2. ASSUME NEW g \in processed_funcs'
        PROVE  /\ (g \in func_nodes' \/ g[1] \in Initialisers(prog)') /\ HasEdges(g)'
               /\ g \in func_nodes' => HasCalls(g)' /\ \A h \in Involved(g[1])' : <<h, Empty>> \in processed_funcs'
    <3>1. CASE g \in processed_funcs
      BY <1>3, <1>5, <1>8, <3>1, OldBodies DEF AnalysisInv
    <3>2. CASE g = f
      BY <1>3, <1>4, <1>5, <1>10, <1>11, <2>1, <3>2 DEF Grows
    <3>3. CASE \E h \in Involved(f[1]) : g = <<h, Empty>>
      <4>1. g[1] \in Initialisers(prog) /\ HasEdges(g)'
        BY <1>4, <1>10, <3>3
      <4>2. g \notin func_nodes'
        BY <1>3, <1>8, <2>1, <1>2, <4>1, NotBoth DEF NodesIn
      <4> QED
        BY <2>1, <4>1, <4>2
    <3> QED
      BY <1>1, <1>4, <3>1, <3>2, <3>3
  <2> QED
    BY <2>2 DEF BodiesIn
<1>13. ASSUME NEW r \in calls
       PROVE  /\ RegisteredOpen(r)' /\ r.node[1] \in ResolvedOn(prog, f[1]) /\ r.node[2] = f[2]
  <2>1. PICK c \in AllCalls(f[1]), path \in ResolvedOn(prog, f[1]) :
           /\ r.site = mk_cs_callsite(c, f) /\ r.node = mk_cs_path(path, f[2])
           /\ r.kind = "instance" => r.callee \in Callees(prog)
           /\ r.kind = "fnptr" => \E d \in Body(f[1]).fnptr : path = d.on
    <3>1. CASE r \in selfs
      <4>1. PICK c \in Body(f[1]).static : r \in SelfCalls(mk_cs_callsite(c, f), c.callee)
        BY <3>1 DEF selfs
      <4>2. /\ r = Registered("instance", mk_cs_callsite(c, f).args[1], mk_cs_callsite(c, f), c.callee)
            /\ SelfKind[c.callee] = "ref"
        BY <4>1 DEF SelfCalls
      <4>3. mk_cs_callsite(c, f).args[1] = mk_cs_path(c.args[1], f[2])
        <5>1. 1 \in DOMAIN c.args
          BY <1>1, <1>3, <4>2, ProgramAssumption DEF CallAssumption, Body, HasSelf
        <5> QED
          BY <5>1 DEF mk_cs_callsite
      <4>4. c.args[1] \in ResolvedOn(prog, f[1])
        BY <4>2 DEF ResolvedOn, Body
      <4>5. c \in AllCalls(f[1]) /\ c.callee \in Callees(prog)
        BY <1>1, CalleeOfCall DEF AllCalls
      <4>6. r.site = mk_cs_callsite(c, f) /\ r.node = mk_cs_path(c.args[1], f[2]) /\ r.kind = "instance" /\ r.callee = c.callee
        BY <4>2, <4>3 DEF Registered
      <4> QED
        BY <4>4, <4>5, <4>6
    <3>2. CASE r \in Indirect("dispatch", Body(f[1]).dispatch, f)
      <4>1. PICK c \in Body(f[1]).dispatch : r = Registered("dispatch", mk_cs_path(c.on, f[2]), mk_cs_callsite(c, f), "any")
        BY <3>2 DEF Indirect
      <4>2. r.site = mk_cs_callsite(c, f) /\ r.node = mk_cs_path(c.on, f[2]) /\ r.kind = "dispatch"
        BY <4>1 DEF Registered
      <4>3. c \in AllCalls(f[1]) /\ c.on \in ResolvedOn(prog, f[1])
        BY DEF AllCalls, ResolvedOn, Body
      <4> QED
        BY <4>2, <4>3
    <3>3. CASE r \in Indirect("fnptr", Body(f[1]).fnptr, f)
      <4>1. PICK c \in Body(f[1]).fnptr : r = Registered("fnptr", mk_cs_path(c.on, f[2]), mk_cs_callsite(c, f), "any")
        BY <3>3 DEF Indirect
      <4>2. r.site = mk_cs_callsite(c, f) /\ r.node = mk_cs_path(c.on, f[2]) /\ r.kind = "fnptr"
        BY <4>1 DEF Registered
      <4>3. c \in AllCalls(f[1]) /\ c.on \in ResolvedOn(prog, f[1])
        BY DEF AllCalls, ResolvedOn, Body
      <4> QED
        BY <4>2, <4>3
    <3> QED
      BY <3>1, <3>2, <3>3 DEF calls
  <2>2. r.node[1] = path /\ r.node[2] = f[2]
    BY <1>1, <1>3, <2>1, OwnPaths DEF mk_cs_path
  <2>3. IsSite(r.site) /\ r.site.func = f[1] /\ r.site.ctx = f[2]
    BY <1>1, <2>1, BodySite DEF mk_cs_callsite
  <2>4. IsOpen(r.site)'
    BY <1>1, <1>2, <1>3, <1>4, <2>3, ProgramKept DEF IsOpen
  <2>5. Body(f[1])' = Body(f[1]) /\ Callees(prog)' = Callees(prog)
    BY <1>2, ProgramKept
  <2> QED
    BY <2>1, <2>2, <2>3, <2>4, <2>5 DEF RegisteredOpen
<1>14. SitesIn'
  BY <1>2, <1>5, <1>13, OpenKept DEF AnalysisInv, SitesIn
<1>15. ReportsIn'
  <2>1. ASSUME NEW r \in calls, NEW o \in Pointees(pts, r.node) PROVE FALSE
    <3>1. PICK e \in pts : e[1] = r.node
      BY <2>1 DEF Pointees
    <3>2. <<f[1], f[2]>> \in processed_funcs
      BY <1>1, <1>13, <3>1 DEF AnalysisInv, FreshIn
    <3> QED
      BY <1>1, <1>3, <3>2
  <2>2. reported' = reported
    <3> DEFINE had(c) == {<<c, o>> : o \in Pointees(pts, c.node)}
    <3>1. reported' = reported \cup UNION {had(c) : c \in calls \ assoc_calls}
      BY <1>1, Zenon DEF Register
    <3>2. \A c \in calls : had(c) = {}
      BY <2>1
    <3> QED
      BY <3>1, <3>2
  <2>3. \A q \in reported : ReportIn(q)'
    BY <1>2, <1>5, ReportsKept DEF AnalysisInv
  <2> QED
    BY <2>2, <2>3 DEF ReportsIn
<1>16. FreshIn'
  <2>1. ASSUME NEW g \in DOMAIN Program[prog], NEW e \in (addr' \ addr) \cup others, e[2][1] \in ResolvedOn(prog, g)
        PROVE  <<g, e[2][2]>> \in processed_funcs'
    <3>1. PICK h \in F : e \in EdgesIn(Body(h[1]).addr, h) \cup EdgesIn(Body(h[1]).direct, h)
      <4> DEFINE addrs(x) == EdgesIn(Body(x[1]).addr, x)
                 directs(x) == EdgesIn(Body(x[1]).direct, x)
      <4>1. e \in UNION {addrs(x) : x \in F} \/ e \in UNION {directs(x) : x \in F}
        BY <1>1 DEF others
      <4> HIDE DEF addrs, directs
      <4>2. \E x \in F : e \in addrs(x) \cup directs(x)
        BY <4>1
      <4> QED
        BY <4>2 DEF addrs, directs
    <3>2. h[1] \in DOMAIN Program[prog] /\ h = <<h[1], h[2]>>
      BY <1>1, <1>3, <1>4, NotBoth
    <3>3. g = h[1] /\ e[2][2] = h[2]
      BY <1>3, <2>1, <3>1, <3>2, OwnEdges
    <3> QED
      BY <1>1, <3>2, <3>3
  <2>2. reach_funcs \subseteq processed_funcs' \cup reach_funcs' /\ processed_funcs \subseteq processed_funcs'
    BY <1>1, <1>4, AddCallsAdds
  <2>3. \A x \in flow : <<x[1].func, x[1].ctx>> \in processed_funcs'
    BY <1>1, <1>3, <1>4, <1>6
  <2> QED
    BY <1>1, <1>2, <1>3, <1>6, <1>8, <2>1, <2>2, <2>3, FreshStep DEF AnalysisInv
<1>17. StagesIn'
  BY <1>2 DEF StagesIn
<1>18. ResolvedInTime'
  BY <1>2, <1>3, ProgramKept
<1> QED
  BY <1>2, <1>3, <1>8, <1>9, <1>12, <1>14, <1>15, <1>16, <1>17, <1>18 DEF AnalysisInv

\* Steps that leave the graph alone.
LEMMA GraphUnchanged ==
    ASSUME AnalysisInv, UNCHANGED <<graphVars, prog, s>>
    PROVE  /\ Grows /\ prog' \in DOMAIN Program /\ s' \in Strategies /\ NodesIn' /\ BodiesIn' /\ FlowsIn'
           /\ ResolvedInTime' /\ (pts' = pts => FreshIn')
<1>1. /\ UNCHANGED <<func_nodes, reach_funcs, processed_funcs, call_graph, addr, direct, assoc_calls, prog, s>>
      /\ prog \in DOMAIN Program /\ s \in Strategies
  BY DEF graphVars, AnalysisInv
<1>2. Grows
  BY <1>1 DEF Grows
<1>3. Callees(prog)' = Callees(prog) /\ ResolvedInTime' /\ \A g : AllCalls(g)' = AllCalls(g)
  BY <1>1, ProgramKept DEF AnalysisInv
<1>4. NodesIn'
  BY <1>1, <1>3 DEF AnalysisInv, NodesIn
<1>5. BodiesIn'
  <2>1. ASSUME NEW g \in processed_funcs
        PROVE  /\ (g \in func_nodes' \/ g[1] \in Initialisers(prog)') /\ HasEdges(g)'
               /\ g \in func_nodes' => HasCalls(g)' /\ \A h \in Involved(g[1])' : <<h, Empty>> \in processed_funcs'
    BY <1>1, <1>2, <1>4, OldBodies DEF AnalysisInv
  <2> QED
    BY <1>1, <2>1 DEF BodiesIn
<1>6. FlowsIn'
  BY <1>1, <1>3 DEF AnalysisInv, FlowsIn
<1>7. ASSUME pts' = pts PROVE FreshIn'
  BY <1>1, <1>7, ProgramKept DEF AnalysisInv, FreshIn
<1> QED
  BY <1>1, <1>2, <1>3, <1>4, <1>5, <1>6, <1>7

\* Steps that leave the graph and what is to be done in it alone.
LEMMA SitesUnchanged ==
    ASSUME AnalysisInv, UNCHANGED <<graphVars, prog, s, reported, new_calls, new_call_instances>>
    PROVE  /\ SitesIn'
           /\ (stage' = stage \/ (stage = "calls_reach" /\ stage' = "instances") \/ stage \in {"reach", "instances_reach"})
              => ReportsIn'
<1>1. Grows /\ UNCHANGED assoc_calls
  BY GraphUnchanged DEF graphVars
<1>2. SitesIn'
  BY <1>1, OpenKept DEF AnalysisInv, SitesIn
<1>3. ASSUME stage' = stage \/ (stage = "calls_reach" /\ stage' = "instances") \/ stage \in {"reach", "instances_reach"}
      PROVE  ReportsIn'
  <2>1. \A q \in reported : ReportIn(q)'
    BY <1>1, <1>3, ReportsKept DEF AnalysisInv
  <2> QED
    BY <2>1 DEF ReportsIn
<1> QED
  BY <1>2, <1>3

LEMMA ReachDoneStep == ASSUME AnalysisInv, ReachDone PROVE AnalysisInv'
<1>1. /\ UNCHANGED <<graphVars, prog, s, pts, reported, new_calls, new_call_instances>> /\ reach_funcs' = {}
      /\ \/ stage = "reach" /\ stage' = "solve"
         \/ stage = "calls_reach" /\ stage' = "instances"
         \/ stage = "instances_reach" /\ stage' = "solve"
  BY DEF ReachDone, Goto, solverVars, runVars, graphVars
<1>2. SitesIn' /\ ReportsIn'
  <2>1. UNCHANGED <<graphVars, prog, s, reported, new_calls, new_call_instances>>
    BY <1>1
  <2> QED
    BY <1>1, <2>1, SitesUnchanged
<1>3. StagesIn'
  BY <1>1 DEF StagesIn
<1> QED
  BY <1>1, <1>2, <1>3, GraphUnchanged DEF AnalysisInv

LEMMA RoundStep == ASSUME AnalysisInv, solve_worklist PROVE AnalysisInv'
<1>1. /\ UNCHANGED <<graphVars, prog, s, reported, new_calls, new_call_instances, stage>> /\ stage = "solve"
      /\ pts' = Derived(pts)
  BY DEF solve_worklist, runVars
<1>2. SitesIn' /\ ReportsIn'
  <2>1. UNCHANGED <<graphVars, prog, s, reported, new_calls, new_call_instances>>
    BY <1>1
  <2> QED
    BY <1>1, <2>1, SitesUnchanged
<1>3. StagesIn'
  BY <1>1 DEF AnalysisInv, StagesIn, graphVars
<1>4. FreshIn'
  <2>1. reach_funcs = {} /\ UNCHANGED <<addr, direct, processed_funcs, reach_funcs>>
    BY <1>1 DEF AnalysisInv, StagesIn, graphVars
  <2>2. ASSUME NEW e \in pts' PROVE e \in pts \/ \E x \in addr \cup direct : e[1] = x[2]
    <3> DEFINE to(x) == {<<x[2], o>> : o \in Pointees(pts, x[1])}
    <3>1. e \in pts \/ e \in {<<x[2], x[1]>> : x \in addr} \/ e \in UNION {to(x) : x \in direct}
      BY <1>1, <2>2 DEF Derived
    <3> QED
      BY <3>1
  <2>3. \A f \in DOMAIN Program[prog] : \A e \in pts' :
            e[1][1] \in ResolvedOn(prog, f) => <<f, e[1][2]>> \in processed_funcs
    BY <2>1, <2>2 DEF AnalysisInv, FreshIn
  <2> QED
    BY <1>1, <2>1, <2>3, ProgramKept DEF AnalysisInv, FreshIn
<1> QED
  BY <1>1, <1>2, <1>3, <1>4, GraphUnchanged DEF AnalysisInv

\* Steps of the run and stuttering.
LEMMA DriverUnchanged == ASSUME AnalysisInv, UNCHANGED <<driverVars, prog, s>> PROVE AnalysisInv'
<1>1. UNCHANGED <<graphVars, prog, s, pts, reported, new_calls, new_call_instances, stage>>
  BY DEF driverVars, solverVars
<1>2. SitesIn' /\ ReportsIn'
  <2>1. UNCHANGED <<graphVars, prog, s, reported, new_calls, new_call_instances>>
    BY <1>1
  <2> QED
    BY <1>1, <2>1, SitesUnchanged
<1>3. StagesIn'
  <2>1. Derived(pts)' = Derived(pts) /\ Known(pts)' = Known(pts)
    BY <1>1 DEF Derived, Known, Pointees, graphVars
  <2> QED
    BY <1>1, <2>1 DEF AnalysisInv, StagesIn, graphVars
<1> QED
  BY <1>1, <1>2, <1>3, GraphUnchanged DEF AnalysisInv

LEMMA KnownIs == ASSUME NEW P, NEW q \in Known(P) PROVE q = <<q[1], q[2]>> /\ q[1] \in assoc_calls /\ <<q[1].node, q[2]>> \in {<<x[1], x[2]>> : x \in P}
<1> DEFINE K(c) == {<<c, o>> : o \in Pointees(P, c.node)}
<1>1. PICK c \in assoc_calls : q \in K(c)
  BY DEF Known
<1>2. PICK o \in Pointees(P, c.node) : q = <<c, o>>
  BY <1>1
<1> QED
  BY <1>2 DEF Pointees

LEMMA ReceiverIs ==
    ASSUME NEW calls, NEW c \in ReceiversOf(calls)
    PROVE  \E d \in calls, x \in pts : c[1] = d[1] /\ c[2] = x[2] /\ c[3] = d[2]
<1> DEFINE ofCall(d) == {<<d[1], o, d[2]>> : o \in Pointees(pts, d[1].args[1])}
<1>1. PICK d \in calls : c \in ofCall(d)
  BY DEF ReceiversOf
<1>2. PICK x \in pts : c = <<d[1], x[2], d[2]>>
  BY <1>1 DEF Pointees
<1> QED
  BY <1>2

LEMMA Reaches ==
    /\ \A o \in DOMAIN FnItem : FnItem[o] \in Callees(prog)
    /\ \A o \in DOMAIN Impl : Impl[o] \in Callees(prog)
  BY DEF Callees

LEMMA PropagateStep == ASSUME AnalysisInv, NoMoreThanInsensitive, propagate PROVE AnalysisInv'
<1> DEFINE R == Reports(pts)
<1>1. /\ UNCHANGED <<graphVars, pts, prog, s>> /\ stage = "solve" /\ Derived(pts) = pts
      /\ reported' = reported \cup R /\ new_calls' = CallsOf(R)
      /\ stage' = IF CallsOf(R) \cup InstancesOf(R) = {} THEN "done" ELSE "calls"
  BY DEF propagate, runVars
<1>2. PICK receivers \in SUBSET ReceiversOf(CallsOf(R)) : new_call_instances' = InstancesOf(R) \cup receivers
  BY DEF propagate
<1>3. ASSUME NEW q \in R
      PROVE  RegisteredOpen(q[1]) /\ \E x \in pts : x[1] = q[1].node /\ x[2] = q[2]
  <2>1. q[1] \in assoc_calls /\ <<q[1].node, q[2]>> \in {<<x[1], x[2]>> : x \in pts}
    BY KnownIs DEF Reports
  <2>2. \E x \in pts : x[1] = q[1].node /\ x[2] = q[2]
    BY <2>1
  <2> QED
    BY <2>1, <2>2 DEF AnalysisInv, SitesIn
<1>4. ASSUME NEW c \in CallsOf(R) PROVE CallOpen(c)
  <2>1. PICK q \in R : c = <<q[1].site, FnItem[q[2][1]]>> /\ q[2][1] \in DOMAIN FnItem /\ q[1].kind = "fnptr"
    BY DEF CallsOf
  <2>2. PICK d \in Body(q[1].site.func).fnptr : q[1].node[1] = d.on
    BY <1>3, <2>1 DEF RegisteredOpen
  <2>3. <<d.on, q[2][1]>> \in Insensitive[prog].pts
    BY <1>3, <2>2 DEF NoMoreThanInsensitive
  <2>4. IsOpen(q[1].site) /\ q[1].site.func \in DOMAIN Program[prog]
    BY <1>3 DEF RegisteredOpen, IsOpen, IsSite
  <2>5. NeedsReceiver(s) => SelfKind[FnItem[q[2][1]]] # "ref"
    BY <2>1, <2>2, <2>3, <2>4 DEF AnalysisInv, ResolvedInTime, Body
  <2> QED
    BY <2>1, <2>4, <2>5, Reaches DEF CallOpen
<1>5. ASSUME NEW c \in InstancesOf(R) \cup receivers PROVE InstanceOpen(c)
  <2>1. CASE c \in InstancesOf(R)
    <3>1. PICK q \in R : \/ c = <<q[1].site, q[2], q[1].callee>> /\ q[1].kind = "instance"
                         \/ c = <<q[1].site, q[2], Impl[q[2][1]]>> /\ q[2][1] \in DOMAIN Impl
      BY <2>1 DEF InstancesOf
    <3> QED
      BY <1>3, <3>1, Reaches DEF RegisteredOpen, InstanceOpen
  <2>2. CASE c \in receivers
    <3>1. PICK d \in CallsOf(R) : c[1] = d[1] /\ c[3] = d[2]
      BY <2>2, ReceiverIs
    <3> QED
      BY <1>4, <3>1 DEF CallOpen, InstanceOpen
  <2> QED
    BY <2>1, <2>2
<1>6. ASSUME NEW q \in R
      PROVE  /\ q[1].kind = "fnptr" /\ q[2][1] \in DOMAIN FnItem => <<q[1].site, FnItem[q[2][1]]>> \in CallsOf(R)
             /\ q[1].kind = "instance" => <<q[1].site, q[2], q[1].callee>> \in InstancesOf(R)
             /\ q[1].kind = "dispatch" /\ q[2][1] \in DOMAIN Impl => <<q[1].site, q[2], Impl[q[2][1]]>> \in InstancesOf(R)
  BY DEF CallsOf, InstancesOf
<1>7. Derived(pts)' = Derived(pts) /\ Known(pts)' = Known(pts) /\ reach_funcs' = reach_funcs /\ assoc_calls' = assoc_calls
  BY <1>1 DEF Derived, Known, Pointees, graphVars
<1>8. Known(pts) \subseteq reported \cup R
  BY DEF Reports
<1> HIDE DEF R
<1>9. /\ Grows /\ prog' \in DOMAIN Program /\ s' \in Strategies /\ NodesIn' /\ BodiesIn' /\ FlowsIn'
      /\ ResolvedInTime' /\ FreshIn'
  BY <1>1, GraphUnchanged
<1>10. SitesIn'
  <2>1. \A r \in assoc_calls : RegisteredOpen(r)
    BY DEF AnalysisInv, SitesIn
  <2> QED
    BY <1>1, <1>2, <1>4, <1>5, <1>7, <1>9, <2>1, OpenKept DEF SitesIn
<1>11. ASSUME NEW q \in reported' PROVE ReportIn(q)'
  <2>1. CASE q \in reported
    <3>1. \/ ~(q[1].kind = "fnptr" /\ q[2][1] \in DOMAIN FnItem) \/ Resolved(q[1].site, FnItem[q[2][1]])
      BY <1>1, <2>1 DEF AnalysisInv, ReportsIn, ReportIn
    <3>2. q[1].kind = "instance" => InstanceResolved(q[1].site, q[2], q[1].callee)
      BY <1>1, <2>1 DEF AnalysisInv, ReportsIn, ReportIn
    <3>3. q[1].kind = "dispatch" /\ q[2][1] \in DOMAIN Impl => InstanceResolved(q[1].site, q[2], Impl[q[2][1]])
      BY <1>1, <2>1 DEF AnalysisInv, ReportsIn, ReportIn
    <3> QED
      BY <1>9, <3>1, <3>2, <3>3, ResolvedKept DEF ReportIn
  <2>2. CASE q \in R
    <3>1. /\ q[1].kind = "fnptr" /\ q[2][1] \in DOMAIN FnItem =>
                stage' = "calls" /\ <<q[1].site, FnItem[q[2][1]]>> \in new_calls'
          /\ q[1].kind = "instance" => stage' = "calls" /\ <<q[1].site, q[2], q[1].callee>> \in new_call_instances'
          /\ q[1].kind = "dispatch" /\ q[2][1] \in DOMAIN Impl =>
                stage' = "calls" /\ <<q[1].site, q[2], Impl[q[2][1]]>> \in new_call_instances'
      BY <1>1, <1>2, <1>6, <2>2
    <3> QED
      BY <3>1 DEF ReportIn
  <2> QED
    BY <1>1, <2>1, <2>2
<1>12. ReportsIn'
  BY <1>11 DEF ReportsIn
<1>13. StagesIn'
  <2>1. reach_funcs' = {}
    BY <1>1, <1>7 DEF AnalysisInv, StagesIn
  <2>2. Derived(pts)' = pts' /\ Known(pts)' \subseteq reported'
    BY <1>1, <1>7, <1>8
  <2> QED
    BY <2>1, <2>2 DEF StagesIn
<1> QED
  BY <1>9, <1>10, <1>12, <1>13 DEF AnalysisInv

\* Steps that add calls and registered calls of open call sites.
LEMMA CallsStep ==
    ASSUME AnalysisInv, UNCHANGED <<processed_funcs, addr, pts, prog, s, new_calls, new_call_instances>>,
           reach_funcs = {}, assoc_calls \subseteq assoc_calls',
           NEW flow, AddCalls(flow, {}, {}, reach_funcs),
           \A x \in flow : IsOpen(x[1]) /\ x[2] = <<x[2][1], x[2][2]>> /\ x[2][1] \in Callees(prog),
           \A r \in assoc_calls' \ assoc_calls : IsOpen(r.site) /\ r.kind = "instance" /\ r.callee \in Callees(prog)
    PROVE  /\ Grows /\ prog' \in DOMAIN Program /\ s' \in Strategies /\ ResolvedInTime'
           /\ NodesIn' /\ BodiesIn' /\ FlowsIn' /\ SitesIn' /\ FreshIn'
           /\ \A x \in flow : InGraph(x)'
<1>1. prog \in DOMAIN Program /\ s \in Strategies /\ Grows /\ ResolvedInTime
  BY AddCallsAdds DEF AnalysisInv, Grows
<1>2. ResolvedInTime'
  BY <1>1, ProgramKept
<1>3. NodesIn'
  BY <1>1, NodesStep DEF AnalysisInv
<1>4. FlowsIn'
  <2>1. \A x \in flow : IsSite(x[1])
    BY DEF IsOpen
  <2> QED
    BY <1>1, <2>1, FlowsStep DEF AnalysisInv
<1>5. BodiesIn'
  <2>1. ASSUME NEW g \in processed_funcs
        PROVE  /\ (g \in func_nodes' \/ g[1] \in Initialisers(prog)') /\ HasEdges(g)'
               /\ g \in func_nodes' => HasCalls(g)' /\ \A h \in Involved(g[1])' : <<h, Empty>> \in processed_funcs'
    BY <1>1, <1>3, OldBodies DEF AnalysisInv
  <2> QED
    BY <2>1 DEF BodiesIn
<1>6. SitesIn'
  <2>1. \A r \in assoc_calls' : RegisteredOpen(r)
    BY DEF AnalysisInv, SitesIn, RegisteredOpen
  <2> QED
    BY <1>1, <2>1, OpenKept DEF AnalysisInv, SitesIn
<1>7. FreshIn'
  <2>1. \A x \in flow : /\ IsSite(x[1]) /\ <<x[1].func, x[1].ctx>> \in processed_funcs'
                        /\ x[2] = <<x[2][1], x[2][2]>> /\ x[2][1] \in Callees(prog)
    BY DEF IsOpen
  <2>2. /\ FreshIn /\ reach_funcs \subseteq processed_funcs' \cup reach_funcs'
        /\ \A f \in DOMAIN Program[prog] : \A e \in (addr' \ addr) \cup {} :
              e[2][1] \in ResolvedOn(prog, f) => <<f, e[2][2]>> \in processed_funcs'
    BY DEF AnalysisInv
  <2> QED
    BY <1>1, <1>3, <2>1, <2>2, FreshStep
<1>8. \A x \in flow : InGraph(x)'
  <2>1. \A x \in flow : CallEdge(x) \in call_graph'
    BY AddCallsAdds
  <2>2. \A x : CallEdge(x) \in call_graph' => InGraph(x)'
    BY DEF InGraph, CallEdge
  <2> QED
    BY <2>1, <2>2
<1> QED
  BY <1>1, <1>2, <1>3, <1>4, <1>5, <1>6, <1>7, <1>8

LEMMA NewCallsStep == ASSUME AnalysisInv, process_new_calls PROVE AnalysisInv'
<1> DEFINE flow == UNION {NewCalls(c[1], c[2]) : c \in new_calls}
           selfs == UNION {SelfCalls(c[1], c[2]) : c \in new_calls}
           had(c) == {<<c, o>> : o \in Pointees(pts, c.node)}
<1>1. /\ AddCalls(flow, {}, {}, reach_funcs) /\ assoc_calls' = assoc_calls \cup selfs
      /\ reported' = reported \cup UNION {had(c) : c \in selfs \ assoc_calls}
      /\ stage = "calls" /\ stage' = "calls_reach"
      /\ UNCHANGED <<processed_funcs, addr, pts, new_calls, new_call_instances, prog, s>>
  BY Zenon DEF process_new_calls, Goto, Register, runVars
<1>2. reach_funcs = {} /\ \A c \in new_calls : CallOpen(c)
  BY <1>1 DEF AnalysisInv, StagesIn, SitesIn
<1>3. ASSUME NEW x \in flow PROVE IsOpen(x[1]) /\ x[2] = <<x[2][1], x[2][2]>> /\ x[2][1] \in Callees(prog)
  <2>1. PICK c \in new_calls : x \in NewCalls(c[1], c[2])
    OBVIOUS
  <2> QED
    BY <1>2, <2>1, CallsShape DEF CallOpen
<1>4. ASSUME NEW r \in selfs
      PROVE  \E c \in new_calls : r.kind = "instance" /\ r.site = c[1] /\ r.callee = c[2] /\ SelfKind[c[2]] = "ref"
  <2>1. PICK c \in new_calls : r \in SelfCalls(c[1], c[2])
    OBVIOUS
  <2>2. SelfKind[c[2]] = "ref"
    BY <2>1 DEF SelfCalls
  <2> QED
    BY <2>1, <2>2, CallsShape
<1>5. \A c \in new_calls : NewCalls(c[1], c[2]) \subseteq flow /\ SelfCalls(c[1], c[2]) \subseteq selfs
  OBVIOUS
<1>6. ASSUME NEW q \in reported', q \notin reported PROVE q[1] \in selfs
  BY <1>1, <1>6
<1> HIDE DEF flow, selfs, had
<1>7. /\ Grows /\ prog' \in DOMAIN Program /\ s' \in Strategies /\ ResolvedInTime'
      /\ NodesIn' /\ BodiesIn' /\ FlowsIn' /\ SitesIn' /\ FreshIn' /\ \A x \in flow : InGraph(x)'
  <2>1. \A r \in assoc_calls' \ assoc_calls : IsOpen(r.site) /\ r.kind = "instance" /\ r.callee \in Callees(prog)
    BY <1>1, <1>2, <1>4 DEF CallOpen
  <2> QED
    BY <1>1, <1>2, <1>3, <2>1, CallsStep
<1>8. ASSUME NEW c \in new_calls PROVE Resolved(c[1], c[2])'
  <2>1. NewCalls(c[1], c[2])' = NewCalls(c[1], c[2])
    BY <1>1, ProgramKept
  <2>2. SelfCalls(c[1], c[2])' = SelfCalls(c[1], c[2])
    BY <1>1 DEF SelfCalls, Registered
  <2>3. \A x \in NewCalls(c[1], c[2])' : InGraph(x)'
    BY <1>5, <1>7, <2>1
  <2>4. SelfCalls(c[1], c[2])' \subseteq assoc_calls'
    BY <1>1, <1>5, <2>2
  <2> QED
    BY <2>3, <2>4 DEF Resolved
<1>9. ASSUME NEW q \in reported' PROVE ReportIn(q)'
  <2>1. CASE q \in reported
    BY <1>1, <1>7, <1>8, <2>1, ReportsKept DEF AnalysisInv
  <2>2. CASE q \notin reported
    <3>1. PICK c \in new_calls : q[1].kind = "instance" /\ q[1].site = c[1] /\ q[1].callee = c[2] /\ SelfKind[c[2]] = "ref"
      BY <1>4, <1>6, <2>2
    <3>2. ~NeedsReceiver(s)
      BY <1>2, <3>1 DEF CallOpen
    <3>3. InstanceCalls(c[1], q[2], c[2]) = NewCalls(c[1], c[2])
      BY <3>1, <3>2 DEF NewCalls, InstanceCalls, new_instance_call_context
    <3>4. InstanceCalls(c[1], q[2], c[2])' = InstanceCalls(c[1], q[2], c[2])
      BY <1>1, ProgramKept
    <3>5. \A x \in InstanceCalls(c[1], q[2], c[2])' : InGraph(x)'
      BY <1>5, <1>7, <3>3, <3>4
    <3> QED
      BY <3>1, <3>5 DEF ReportIn, InstanceResolved
  <2> QED
    BY <2>1, <2>2
<1>10. ReportsIn'
  BY <1>9 DEF ReportsIn
<1>11. StagesIn'
  BY <1>1 DEF StagesIn
<1> QED
  BY <1>1, <1>7, <1>10, <1>11 DEF AnalysisInv

LEMMA NewInstancesStep == ASSUME AnalysisInv, process_new_call_instances PROVE AnalysisInv'
<1> DEFINE flow == UNION {InstanceCalls(c[1], c[2], c[3]) : c \in new_call_instances}
<1>1. /\ AddCalls(flow, {}, {}, reach_funcs) /\ stage = "instances" /\ stage' = "instances_reach"
      /\ UNCHANGED <<processed_funcs, addr, assoc_calls, pts, reported, new_calls, new_call_instances, prog, s>>
  BY Zenon DEF process_new_call_instances, Goto, solverVars, runVars
<1>2. reach_funcs = {} /\ \A c \in new_call_instances : InstanceOpen(c)
  BY <1>1 DEF AnalysisInv, StagesIn, SitesIn
<1>3. ASSUME NEW x \in flow PROVE IsOpen(x[1]) /\ x[2] = <<x[2][1], x[2][2]>> /\ x[2][1] \in Callees(prog)
  <2>1. PICK c \in new_call_instances : x \in InstanceCalls(c[1], c[2], c[3])
    OBVIOUS
  <2> QED
    BY <1>2, <2>1, CallsShape DEF InstanceOpen
<1>4. \A c \in new_call_instances : InstanceCalls(c[1], c[2], c[3]) \subseteq flow
  OBVIOUS
<1> HIDE DEF flow
<1>5. /\ Grows /\ prog' \in DOMAIN Program /\ s' \in Strategies /\ ResolvedInTime'
      /\ NodesIn' /\ BodiesIn' /\ FlowsIn' /\ SitesIn' /\ FreshIn' /\ \A x \in flow : InGraph(x)'
  BY <1>1, <1>2, <1>3, CallsStep
<1>6. ASSUME NEW c \in new_call_instances PROVE InstanceResolved(c[1], c[2], c[3])'
  <2>1. InstanceCalls(c[1], c[2], c[3])' = InstanceCalls(c[1], c[2], c[3])
    BY <1>1, ProgramKept
  <2>2. \A x \in InstanceCalls(c[1], c[2], c[3])' : InGraph(x)'
    BY <1>4, <1>5, <2>1
  <2> QED
    BY <2>2 DEF InstanceResolved
<1>7. ReportsIn'
  <2>1. \A q \in reported : ReportIn(q)'
    BY <1>1, <1>5, <1>6, ReportsKept DEF AnalysisInv
  <2> QED
    BY <1>1, <2>1 DEF ReportsIn
<1>8. StagesIn'
  BY <1>1 DEF StagesIn
<1> QED
  BY <1>1, <1>5, <1>7, <1>8 DEF AnalysisInv

LEMMA AnalysisInit == ASSUME Init, ResolvedInTime PROVE AnalysisInv
<1>1. NodesIn /\ BodiesIn /\ FlowsIn /\ SitesIn /\ ReportsIn /\ FreshIn
  BY DEF Init, NodesIn, BodiesIn, FlowsIn, SitesIn, ReportsIn, FreshIn
<1> QED
  BY <1>1 DEF Init, AnalysisInv, StagesIn

\* The driver keeps its invariant, and the run leaves the result alone.
LEMMA AnalysisStep == ASSUME AnalysisInv, NoMoreThanInsensitive, [Next]_vars PROVE AnalysisInv'
<1>1. CASE process_reach_funcs
  <2>1. PICK f \in reach_funcs : SkipReachFunc(f) \/ ProcessReachFunc(f)
    BY <1>1 DEF process_reach_funcs
  <2> QED
    BY <1>1, <2>1, SkipStep, ProcessStep
<1>2. CASE ReachDone \/ solve_worklist \/ propagate \/ process_new_calls \/ process_new_call_instances
  BY <1>2, ReachDoneStep, RoundStep, PropagateStep, NewCallsStep, NewInstancesStep
<1>3. CASE StartRun \/ RunStatements \/ RunCall \/ RunReturn
  BY <1>3, DriverUnchanged DEF StartRun, RunStatements, RunCall, RunReturn, Settled, Running
<1>4. CASE UNCHANGED vars
  BY <1>4, DriverUnchanged DEF vars, runVars
<1> QED
  BY <1>1, <1>2, <1>3, <1>4 DEF Next, Analyse

-----------------------------------------------------------------------------
(* Stacks and limited contexts of the run.                                   *)

LEMMA SeqPush ==
    ASSUME NEW q, IsSeq(q), NEW x
    PROVE  /\ IsSeq(<<x>> \o q) /\ Len(<<x>> \o q) = Len(q) + 1 /\ Len(q) \in Nat
           /\ (<<x>> \o q)[1] = x
           /\ \A n \in 1 .. Len(q) : (<<x>> \o q)[n + 1] = q[n]
<1>1. PICK E : x \in E /\ q \in Seq(E)
  BY SeqWithMore
<1>2. <<x>> \o q \in Seq(E)
  BY <1>1
<1>3. IsSeq(<<x>> \o q)
  BY <1>2, SeqOfElements
<1> QED
  BY <1>1, <1>3

LEMMA SeqTail ==
    ASSUME NEW q, IsSeq(q), q # <<>>
    PROVE  /\ IsSeq(Tail(q)) /\ Len(Tail(q)) = Len(q) - 1 /\ Len(q) \in Nat \ {0}
           /\ \A n \in 1 .. Len(q) - 1 : Tail(q)[n] = q[n + 1]
<1>1. PICK E : q \in Seq(E)
  BY SeqWithMore
<1>2. Tail(q) \in Seq(E) /\ Len(Tail(q)) = Len(q) - 1 /\ Len(q) \in Nat \ {0}
  BY <1>1
<1>3. IsSeq(Tail(q))
  BY <1>2, SeqOfElements
<1> QED
  BY <1>1, <1>2, <1>3

LEMMA SeqEmpty == ASSUME NEW q, IsSeq(q) PROVE Len(q) \in Nat /\ (Len(q) = 0 <=> q = <<>>)
<1>1. PICK E : q \in Seq(E)
  BY SeqWithMore
<1> QED
  BY <1>1

LEMMA StackPush ==
    ASSUME NEW q, StackIn(q), NEW x, FrameIn(x), q # <<>> => Made(x, q[1])
    PROVE  StackIn(<<x>> \o q)
<1> DEFINE p == <<x>> \o q
<1>1. /\ IsSeq(p) /\ Len(p) = Len(q) + 1 /\ Len(q) \in Nat /\ p[1] = x
      /\ \A n \in 1 .. Len(q) : p[n + 1] = q[n]
  BY SeqPush DEF StackIn
<1>2. Len(q) # 0 => q # <<>>
  OBVIOUS
<1> HIDE DEF p
<1>3. ASSUME NEW n \in 1 .. Len(p) PROVE FrameIn(p[n]) /\ (n < Len(p) => Made(p[n], p[n + 1]))
  <2>1. CASE n = 1
    <3>1. FrameIn(p[1])
      BY <1>1
    <3>2. ASSUME 1 < Len(p) PROVE p[2] = q[1] /\ q # <<>>
      <4>1. 1 \in 1 .. Len(q) /\ 1 + 1 = 2
        BY <1>1, <3>2
      <4> QED
        BY <1>1, <1>2, <4>1
    <3>3. 1 < Len(p) => Made(p[1], p[2])
      BY <1>1, <3>2
    <3> QED
      BY <2>1, <3>1, <3>3
  <2>2. CASE n # 1
    <3>1. PICK m \in 1 .. Len(q) : n = m + 1
      <4>1. n - 1 \in 1 .. Len(q) /\ n = (n - 1) + 1
        BY <1>1, <2>2
      <4> QED
        BY <4>1
    <3>2. p[n] = q[m] /\ FrameIn(q[m])
      BY <1>1, <3>1 DEF StackIn
    <3>3. ASSUME n < Len(p) PROVE p[n + 1] = q[m + 1] /\ Made(q[m], q[m + 1])
      <4>1. m + 1 \in 1 .. Len(q) /\ m < Len(q)
        BY <1>1, <3>1, <3>3
      <4> QED
        BY <1>1, <3>1, <4>1 DEF StackIn
    <3> QED
      BY <3>2, <3>3
  <2> QED
    BY <2>1, <2>2
<1>4. StackIn(p)
  BY <1>1, <1>3 DEF StackIn
<1> QED
  BY <1>4 DEF p

LEMMA StackTail ==
    ASSUME NEW q, StackIn(q), q # <<>>
    PROVE  /\ StackIn(Tail(q)) /\ Len(q) \in Nat \ {0} /\ FrameIn(q[1]) /\ Len(Tail(q)) = Len(q) - 1
           /\ Len(q) > 1 => Tail(q) # <<>> /\ Tail(q)[1] = q[2] /\ Made(q[1], q[2]) /\ FrameIn(q[2])
           /\ Tail(q) # <<>> => Len(q) > 1
<1> DEFINE p == Tail(q)
<1>1. /\ IsSeq(p) /\ Len(p) = Len(q) - 1 /\ Len(q) \in Nat \ {0}
      /\ \A n \in 1 .. Len(q) - 1 : p[n] = q[n + 1]
  BY SeqTail DEF StackIn
<1>2. Len(p) # 0 => p # <<>>
  BY <1>1, SeqEmpty
<1>3. p # <<>> => Len(p) # 0
  BY <1>1, SeqEmpty
<1> HIDE DEF p
<1>4. ASSUME NEW n \in 1 .. Len(p) PROVE FrameIn(p[n]) /\ (n < Len(p) => Made(p[n], p[n + 1]))
  <2>1. n + 1 \in 1 .. Len(q) /\ n \in 1 .. Len(q) - 1
    BY <1>1
  <2>2. p[n] = q[n + 1] /\ FrameIn(q[n + 1])
    BY <1>1, <2>1 DEF StackIn
  <2>3. ASSUME n < Len(p) PROVE p[n + 1] = q[(n + 1) + 1] /\ Made(q[n + 1], q[(n + 1) + 1])
    <3>1. n + 1 \in 1 .. Len(q) - 1 /\ n + 1 < Len(q)
      BY <1>1, <2>3
    <3> QED
      BY <1>1, <2>1, <3>1 DEF StackIn
  <2> QED
    BY <2>2, <2>3
<1>5. StackIn(p)
  BY <1>1, <1>4 DEF StackIn
<1>6. FrameIn(q[1])
  BY <1>1 DEF StackIn
<1>7. ASSUME Len(q) > 1 PROVE p # <<>> /\ p[1] = q[2] /\ Made(q[1], q[2]) /\ FrameIn(q[2])
  <2>1. 1 \in 1 .. Len(q) - 1 /\ 1 + 1 = 2 /\ 1 \in 1 .. Len(q) /\ 2 \in 1 .. Len(q)
    BY <1>1, <1>7
  <2>2. p[1] = q[2]
    BY <1>1, <2>1
  <2>3. Made(q[1], q[2])
    BY <1>7, <2>1 DEF StackIn
  <2>4. FrameIn(q[2])
    BY <2>1 DEF StackIn
  <2>5. p # <<>>
    BY <1>1, <1>2, <1>7
  <2> QED
    BY <2>2, <2>3, <2>4, <2>5
<1> QED
  BY <1>1, <1>3, <1>5, <1>6, <1>7 DEF p

-----------------------------------------------------------------------------
(* The result, when the analysis is done.                                    *)

LEMMA ResultSolved ==
    ASSUME AnalysisInv, stage = "done"
    PROVE  /\ \A e \in addr : <<e[2], e[1]>> \in pts
           /\ \A e \in direct : \A o : <<e[1], o>> \in pts => <<e[2], o>> \in pts
           /\ \A r \in assoc_calls : \A o : <<r.node, o>> \in pts => <<r, o>> \in reported
<1>1. Derived(pts) = pts /\ Known(pts) \subseteq reported
  BY DEF AnalysisInv, StagesIn
<1>2. \A e \in addr : <<e[2], e[1]>> \in Derived(pts)
  BY DEF Derived
<1>3. ASSUME NEW e \in direct, NEW o, <<e[1], o>> \in pts PROVE <<e[2], o>> \in Derived(pts)
  <2> DEFINE F(x) == {<<x[2], u>> : u \in Pointees(pts, x[1])}
  <2>1. o \in Pointees(pts, e[1])
    <3>1. PICK x : x = <<e[1], o>>
      OBVIOUS
    <3> QED
      BY <1>3, <3>1 DEF Pointees
  <2>2. <<e[2], o>> \in F(e)
    BY <2>1
  <2>3. <<e[2], o>> \in UNION {F(x) : x \in direct}
    BY <2>2
  <2> QED
    BY <2>3 DEF Derived
<1>4. ASSUME NEW r \in assoc_calls, NEW o, <<r.node, o>> \in pts PROVE <<r, o>> \in Known(pts)
  <2> DEFINE F(c) == {<<c, u>> : u \in Pointees(pts, c.node)}
  <2>1. o \in Pointees(pts, r.node)
    <3>1. PICK x : x = <<r.node, o>>
      OBVIOUS
    <3> QED
      BY <1>4, <3>1 DEF Pointees
  <2>2. <<r, o>> \in F(r)
    BY <2>1
  <2>3. <<r, o>> \in UNION {F(c) : c \in assoc_calls}
    BY <2>2
  <2> QED
    BY <2>3 DEF Known
<1> QED
  BY <1>1, <1>2, <1>3, <1>4

LEMMA NodeProcessed ==
    ASSUME AnalysisInv, stage = "done", NEW f \in func_nodes, f[1] \in DOMAIN Program[prog]
    PROVE  HasEdges(f) /\ HasCalls(f) /\ \A g \in Involved(f[1]) : HasEdges(<<g, Empty>>)
<1>1. f \in processed_funcs
  BY DEF AnalysisInv, StagesIn, NodesIn
<1> QED
  BY <1>1 DEF AnalysisInv, BodiesIn

\* A path of the body of a frame is, in the limited context, the node of the
\* path in its own limited context.
LEMMA PathNode ==
    ASSUME prog \in DOMAIN Program, s \in Strategies, FieldsInEmpty,
           NEW f \in DOMAIN Program[prog], NEW ctx, f \in Callees(prog) \/ ctx = Empty,
           NEW path \in PathsOf(Body(f))
    PROVE  mk_cs_path(path, Cid(ctx)) = <<path, Cid(ContextFor(path, ctx))>>
<1>1. Cid(Empty) = Empty
  BY StrategyAssumption, EmptyContext DEF Cid
<1>2. CASE ctx = Empty
  BY <1>1, <1>2 DEF mk_cs_path, ContextFor
<1>3. CASE f \in Callees(prog)
  <2>1. f \notin Initialisers(prog)
    BY <1>3, NotBoth
  <2>2. path[1] \in Global => path[2] = 0
    BY <1>3, <2>1 DEF FieldsInEmpty, Body
  <2> QED
    BY <1>1, <2>2 DEF mk_cs_path, ContextFor
<1> QED
  BY <1>2, <1>3

\* Initialisers have global paths only.
LEMMA InitialiserNode ==
    ASSUME prog \in DOMAIN Program, s \in Strategies,
           NEW f \in Initialisers(prog), NEW ctx, NEW path \in PathsOf(Body(f))
    PROVE  mk_cs_path(path, Empty) = <<path, Cid(ContextFor(path, ctx))>>
<1>1. Cid(Empty) = Empty
  BY StrategyAssumption, EmptyContext DEF Cid
<1>2. path[1] \in Global
  BY ProgramAssumption DEF PathAssumption, Body
<1> QED
  BY <1>1, <1>2 DEF mk_cs_path, ContextFor

LEMMA BodyPaths ==
    ASSUME NEW f
    PROVE  /\ \A e \in Body(f).addr \cup Body(f).direct : {e[1], e[2]} \subseteq PathsOf(Body(f))
           /\ \A c \in AllCalls(f) : (\A i \in DOMAIN c.args : c.args[i] \in PathsOf(Body(f))) /\ c.dest \in PathsOf(Body(f))
           /\ \A c \in Body(f).dispatch \cup Body(f).fnptr : c.on \in PathsOf(Body(f))
<1> DEFINE E(e) == {e[1], e[2]}
           C(c) == {c.args[i] : i \in DOMAIN c.args} \cup {c.dest}
<1>1. ASSUME NEW e \in Body(f).addr \cup Body(f).direct PROVE E(e) \subseteq PathsOf(Body(f))
  <2>1. E(e) \subseteq UNION {E(x) : x \in Body(f).addr \cup Body(f).direct}
    OBVIOUS
  <2> QED
    BY <2>1 DEF PathsOf
<1>2. ASSUME NEW c \in AllCalls(f) PROVE C(c) \subseteq PathsOf(Body(f))
  <2>1. C(c) \subseteq UNION {C(x) : x \in Body(f).static \cup Body(f).dispatch \cup Body(f).fnptr}
    BY DEF AllCalls
  <2> QED
    BY <2>1 DEF PathsOf
<1>3. \A c \in Body(f).dispatch \cup Body(f).fnptr : c.on \in PathsOf(Body(f))
  BY DEF PathsOf
<1> QED
  BY <1>1, <1>2, <1>3

-----------------------------------------------------------------------------
(* The run.                                                                  *)

LEMMA FoundIs ==
    ASSUME NEW env, NEW ctx, EnvIn(env, ctx), NEW p, NEW v \in Pointees(env, p)
    PROVE  <<<<p, Cid(ContextFor(p, ctx))>>, <<v[1], Cid(v[2])>>>> \in pts /\ IsSeq(v[2])
<1>1. PICK e \in env : e[1] = p /\ e[2] = v
  BY DEF Pointees
<1> QED
  BY <1>1 DEF EnvIn, HeldFound

\* What the statements of a frame give is in the result.
LEMMA ExecutedFound ==
    ASSUME AnalysisInv, FieldsInEmpty, stage = "done",
           NEW f \in DOMAIN Program[prog], NEW ctx, IsSeq(ctx), <<f, Cid(ctx)>> \in func_nodes,
           f \in Callees(prog) \/ ctx = Empty,
           NEW held, EnvIn(held, ctx)
    PROVE  EnvIn(Executed(f, ctx, held), ctx)
<1> DEFINE given(g) == {<<e[2], <<e[1], ContextFor(e[1], ctx)>>>> : e \in Body(g).addr}
           passed(g, e) == {<<e[2], v>> : v \in Pointees(held, e[1])}
           carried(g) == UNION {passed(g, e) : e \in Body(g).direct}
           In(x) == <<<<x[1], Cid(ContextFor(x[1], ctx))>>, <<x[2][1], Cid(x[2][2])>>>> \in pts /\ IsSeq(x[2][2])
<1>1. ASSUME NEW g \in {f} \cup Involved(f)
      PROVE  \E c : /\ HasEdges(<<g, c>>)
                    /\ \A path \in PathsOf(Body(g)) : mk_cs_path(path, c) = <<path, Cid(ContextFor(path, ctx))>>
  <2>1. CASE g = f
    <3>1. HasEdges(<<f, Cid(ctx)>>)
      BY NodeProcessed
    <3>2. \A path \in PathsOf(Body(f)) : mk_cs_path(path, Cid(ctx)) = <<path, Cid(ContextFor(path, ctx))>>
      BY PathNode DEF AnalysisInv
    <3> QED
      BY <2>1, <3>1, <3>2
  <2>2. CASE g \in Involved(f)
    <3>1. HasEdges(<<g, Empty>>)
      BY <2>2, NodeProcessed
    <3>2. g \in Initialisers(prog)
      BY <2>2 DEF Involved
    <3>3. \A path \in PathsOf(Body(g)) : mk_cs_path(path, Empty) = <<path, Cid(ContextFor(path, ctx))>>
      BY <3>2, InitialiserNode DEF AnalysisInv
    <3> QED
      BY <3>1, <3>3
  <2> QED
    BY <2>1, <2>2
<1>2. \A path : IsSeq(ContextFor(path, ctx))
  BY StrategyAssumption, EmptyContext DEF ContextFor, AnalysisInv
<1>3. ASSUME NEW g \in {f} \cup Involved(f), NEW x \in given(g) PROVE In(x)
  <2>1. PICK c : /\ HasEdges(<<g, c>>)
                 /\ \A path \in PathsOf(Body(g)) : mk_cs_path(path, c) = <<path, Cid(ContextFor(path, ctx))>>
    BY <1>1
  <2>2. PICK e \in Body(g).addr : x = <<e[2], <<e[1], ContextFor(e[1], ctx)>>>>
    OBVIOUS
  <2>3. <<mk_cs_path(e[1], c), mk_cs_path(e[2], c)>> \in addr
    BY <2>1 DEF HasEdges, EdgesIn
  <2>4. <<mk_cs_path(e[2], c), mk_cs_path(e[1], c)>> \in pts
    BY <2>3, ResultSolved
  <2>5. e[1] \in PathsOf(Body(g)) /\ e[2] \in PathsOf(Body(g))
    BY BodyPaths
  <2> QED
    BY <1>2, <2>1, <2>2, <2>4, <2>5
<1>4. ASSUME NEW g \in {f} \cup Involved(f), NEW x \in carried(g) PROVE In(x)
  <2>1. PICK c : /\ HasEdges(<<g, c>>)
                 /\ \A path \in PathsOf(Body(g)) : mk_cs_path(path, c) = <<path, Cid(ContextFor(path, ctx))>>
    BY <1>1
  <2>2. PICK e \in Body(g).direct : x \in passed(g, e)
    OBVIOUS
  <2>3. PICK v \in Pointees(held, e[1]) : x = <<e[2], v>>
    BY <2>2
  <2>4. <<mk_cs_path(e[1], c), mk_cs_path(e[2], c)>> \in direct
    BY <2>1 DEF HasEdges, EdgesIn
  <2>5. e[1] \in PathsOf(Body(g)) /\ e[2] \in PathsOf(Body(g))
    BY BodyPaths
  <2>6. <<mk_cs_path(e[1], c), <<v[1], Cid(v[2])>>>> \in pts /\ IsSeq(v[2])
    BY <2>1, <2>5, FoundIs
  <2>7. <<mk_cs_path(e[2], c), <<v[1], Cid(v[2])>>>> \in pts
    BY <2>4, <2>6, ResultSolved
  <2> QED
    BY <2>1, <2>3, <2>5, <2>6, <2>7
<1>5. ASSUME NEW x \in Executed(f, ctx, held)
      PROVE  x \in held \/ \E g \in {f} \cup Involved(f) : x \in given(g) \/ x \in carried(g)
  BY Zenon DEF Executed
<1> HIDE DEF given, carried
<1>6. \A x \in Executed(f, ctx, held) : In(x)
  BY <1>3, <1>4, <1>5 DEF EnvIn, HeldFound
<1> QED
  BY <1>6 DEF EnvIn, HeldFound

LEMMA RunNext ==
    ASSUME Running, NEW frames, NEW held, stack' = frames, globals' = held, StackIn(frames), GlobalsIn(held)
    PROVE  RunInv'
<1>1. UNCHANGED <<prog, s, func_nodes, call_graph, pts, stage>> /\ stage = "done"
  BY DEF Running, driverVars, graphVars, solverVars
<1>2. \A ctx : Cid(ctx)' = Cid(ctx)
  BY <1>1 DEF Cid
<1>3. \A env, ctx : EnvIn(env, ctx)' = EnvIn(env, ctx)
  BY <1>1, <1>2 DEF EnvIn, HeldFound, ContextFor
<1>4. \A frame : FrameIn(frame)' = FrameIn(frame)
  BY <1>1, <1>2, <1>3, ProgramKept DEF FrameIn
<1>5. \A frame, caller : Made(frame, caller)' = Made(frame, caller)
  BY <1>1, <1>2 DEF Made
<1>6. StackIn(frames)'
  BY <1>4, <1>5 DEF StackIn
<1>7. GlobalsIn(held)'
  BY <1>3 DEF GlobalsIn
<1> QED
  BY <1>1, <1>6, <1>7 DEF RunInv

LEMMA NoFrames == StackIn(<<>>) /\ GlobalsIn({})
<1>1. <<>> \in Seq({}) /\ Len(<<>>) = 0
  OBVIOUS
<1>2. IsSeq(<<>>)
  BY <1>1, SeqOfElements
<1> QED
  BY <1>1, <1>2 DEF StackIn, GlobalsIn, EnvIn, HeldFound

\* Main can be called without a context.
LEMMA MainFrame ==
    ASSUME AnalysisInv, stage = "done"
    PROVE  FrameIn(Frame(Main, Empty, {}, 0))
<1>1. Main \in DOMAIN Program[prog] /\ Cid(Empty) = Empty /\ IsSeq(Empty)
  BY ProgramAssumption, StrategyAssumption, EmptyContext DEF AnalysisInv, CallAssumption, Cid
<1> QED
  BY <1>1 DEF FrameIn, Frame, EnvIn, HeldFound, AnalysisInv, NodesIn

LEMMA TopFrame ==
    ASSUME RunInv, stack # <<>>
    PROVE  /\ FrameIn(Top) /\ EnvIn(Held, Top.ctx) /\ Top = stack[1]
<1>1. FrameIn(Top)
  BY StackTail DEF RunInv, Top
<1>2. EnvIn(Held, Top.ctx)
  <2>1. ASSUME NEW e \in globals PROVE ContextFor(e[1], Top.ctx) = ContextFor(e[1], Empty)
    BY DEF RunInv, GlobalsIn, ContextFor
  <2> QED
    BY <1>1, <2>1 DEF RunInv, GlobalsIn, FrameIn, EnvIn, HeldFound, Held
<1> QED
  BY <1>1, <1>2 DEF Top

\* The run goes on in a frame that is there.
LEMMA ContinueStep ==
    ASSUME Running, RunInv,
           NEW frame, FrameIn(frame), NEW held, EnvIn(held, frame.ctx),
           NEW below, StackIn(below), below # <<>> => Made(frame, below[1]),
           Continue(frame, held, below)
    PROVE  RunInv'
<1> DEFINE top == Frame(frame.func, frame.ctx, held \ InGlobal(held), frame.site)
<1>1. stack' = <<top>> \o below /\ globals' = InGlobal(held)
  BY DEF Continue
<1>2. top.func = frame.func /\ top.ctx = frame.ctx /\ top.site = frame.site /\ top.env = held \ InGlobal(held)
  BY DEF Frame
<1> HIDE DEF top
<1>3. FrameIn(top)
  BY <1>2 DEF FrameIn, EnvIn, HeldFound
<1>4. below # <<>> => Made(top, below[1])
  BY <1>2 DEF Made
<1>5. GlobalsIn(InGlobal(held))
  <2>1. ASSUME NEW e \in InGlobal(held) PROVE e \in held /\ e[1][1] \in Global
    BY DEF InGlobal
  <2>2. \A e \in InGlobal(held) : ContextFor(e[1], frame.ctx) = ContextFor(e[1], Empty)
    BY <2>1 DEF ContextFor
  <2> QED
    BY <2>1, <2>2 DEF GlobalsIn, EnvIn, HeldFound
<1>6. StackIn(<<top>> \o below)
  BY <1>3, <1>4, StackPush
<1> QED
  BY <1>1, <1>5, <1>6, RunNext

LEMMA StatementsStep == ASSUME AnalysisInv, RunInv, FieldsInEmpty, RunStatements PROVE RunInv'
<1>1. Running /\ stage = "done" /\ stack # <<>> /\ Continue(Top, After, Tail(stack))
  BY DEF RunStatements, Running
<1>2. FrameIn(Top) /\ EnvIn(Held, Top.ctx) /\ Top = stack[1]
  BY <1>1, TopFrame
<1>3. EnvIn(After, Top.ctx)
  BY <1>1, <1>2, ExecutedFound DEF After, FrameIn
<1>4. StackIn(Tail(stack)) /\ (Tail(stack) # <<>> => Made(Top, Tail(stack)[1]))
  BY <1>1, <1>2, StackTail DEF RunInv
<1> QED
  BY <1>1, <1>2, <1>3, <1>4, ContinueStep

LEMMA StartStep == ASSUME AnalysisInv, RunInv, FieldsInEmpty, StartRun PROVE RunInv'
<1>1. /\ Running /\ stage = "done" /\ stack = <<>>
      /\ stack' = <<Frame(Main, Empty, {}, 0)>> /\ globals' = globals
  BY DEF StartRun, Running
<1>2. StackIn(<<Frame(Main, Empty, {}, 0)>> \o <<>>)
  BY <1>1, MainFrame, NoFrames, StackPush
<1>3. <<Frame(Main, Empty, {}, 0)>> \o <<>> = <<Frame(Main, Empty, {}, 0)>>
  OBVIOUS
<1> QED
  BY <1>1, <1>2, <1>3, RunNext DEF RunInv

-----------------------------------------------------------------------------
(* Calls of the run.                                                         *)

\* The limited context of a callee is what the driver makes from the limited
\* context of its caller, or of its receiver.
LEMMA CalleeContextIs ==
    ASSUME s \in Strategies, NEW c, NEW callee, NEW v, IsSeq(Top.ctx),
           NeedsReceiver(s) /\ HasSelf(callee) => IsSeq(v[2]),
           NEW site, site.func = Top.func, site.ctx = Cid(Top.ctx), site.loc = c.loc
    PROVE  /\ IsSeq(CalleeContext(c, callee, v))
           /\ NeedsReceiver(s) /\ HasSelf(callee) =>
                 Cid(CalleeContext(c, callee, v)) = new_k_limited_context(Cid(v[2]), ObjectElem(s, v[1]), s.k)
           /\ ~(NeedsReceiver(s) /\ HasSelf(callee)) =>
                 Cid(CalleeContext(c, callee, v)) = new_static_call_context(s, site)
<1> DEFINE ctx == CalleeContext(c, callee, v)
           elem == SiteElem(s, [func |-> Top.func, loc |-> c.loc])
<1>1. s.k \in Nat /\ s.kind \in {"insensitive", "callsite", "object", "hybrid"} /\ (s.kind = "insensitive" => s.k = 0)
  BY StrategyAssumption
<1>2. elem = SiteElem(s, site)
  BY DEF SiteElem
<1>3. CASE s.kind = "insensitive"
  <2>1. ctx = Empty /\ ~NeedsReceiver(s)
    BY <1>3 DEF CalleeContext, NeedsReceiver
  <2>2. new_static_call_context(s, site) = Empty
    BY <1>1, <1>3 DEF new_static_call_context, new_k_limited_context
  <2> QED
    BY <1>1, <2>1, <2>2, EmptyContext DEF Cid
<1>4. CASE NeedsReceiver(s) /\ HasSelf(callee)
  <2>1. ctx = <<ObjectElem(s, v[1])>> \o v[2]
    BY <1>4 DEF CalleeContext, NeedsReceiver
  <2> QED
    BY <1>1, <1>4, <2>1, ContextOfCall DEF Cid
<1>5. CASE s.kind = "object" /\ ~HasSelf(callee)
  <2>1. ctx = Top.ctx
    BY <1>5 DEF CalleeContext, NeedsReceiver
  <2>2. new_static_call_context(s, site) = Cid(Top.ctx)
    BY <1>5 DEF new_static_call_context
  <2> QED
    BY <1>5, <2>1, <2>2
<1>6. CASE s.kind \notin {"insensitive", "object"} /\ ~(NeedsReceiver(s) /\ HasSelf(callee))
  <2>1. ctx = <<elem>> \o Top.ctx
    BY <1>6 DEF CalleeContext
  <2>2. new_static_call_context(s, site) = new_k_limited_context(Cid(Top.ctx), elem, s.k)
    BY <1>2, <1>6 DEF new_static_call_context
  <2> HIDE DEF elem
  <2>3. IsSeq(<<elem>> \o Top.ctx) /\ Cid(<<elem>> \o Top.ctx) = new_k_limited_context(Cid(Top.ctx), elem, s.k)
    BY <1>1, ContextOfCall DEF Cid
  <2> QED
    BY <1>6, <2>1, <2>2, <2>3
<1> QED
  BY <1>3, <1>4, <1>5, <1>6 DEF NeedsReceiver

\* What a frame finds behind a path of its body is found by the analysis.
LEMMA ValuesFound ==
    ASSUME AnalysisInv, RunInv, FieldsInEmpty, stack # <<>>,
           NEW p \in PathsOf(Body(Top.func)), NEW v \in ValuesAt(p)
    PROVE  <<mk_cs_path(p, Cid(Top.ctx)), <<v[1], Cid(v[2])>>>> \in pts /\ IsSeq(v[2])
<1>1. FrameIn(Top) /\ EnvIn(Held, Top.ctx)
  BY TopFrame
<1>2. <<<<p, Cid(ContextFor(p, Top.ctx))>>, <<v[1], Cid(v[2])>>>> \in pts /\ IsSeq(v[2])
  BY <1>1, FoundIs DEF ValuesAt
<1> QED
  BY <1>1, <1>2, PathNode DEF FrameIn, AnalysisInv

\* The driver's edge for a call of the run.
CallFound(c, callee, v) ==
    /\ IsSeq(CalleeContext(c, callee, v))
    /\ <<Top.func, Cid(Top.ctx), c.loc, <<callee, Cid(CalleeContext(c, callee, v))>>>> \in call_graph
Site(c) == mk_cs_callsite(c, <<Top.func, Cid(Top.ctx)>>)

LEMMA SiteIs ==
    ASSUME NEW c
    PROVE  /\ Site(c).func = Top.func /\ Site(c).ctx = Cid(Top.ctx) /\ Site(c).loc = c.loc
           /\ \A i \in DOMAIN c.args : Site(c).args[i] = mk_cs_path(c.args[i], Cid(Top.ctx))
           /\ DOMAIN Site(c).args = DOMAIN c.args
           /\ Site(c).dest = mk_cs_path(c.dest, Cid(Top.ctx))
  BY DEF Site, mk_cs_callsite

LEMMA EdgeFound ==
    ASSUME AnalysisInv, RunInv, FieldsInEmpty, stack # <<>>, NEW c, NEW callee, NEW v,
           NeedsReceiver(s) /\ HasSelf(callee) => IsSeq(v[2]),
           NEW ctx, InGraph(<<Site(c), <<callee, ctx>>>>),
           NeedsReceiver(s) /\ HasSelf(callee) => ctx = new_k_limited_context(Cid(v[2]), ObjectElem(s, v[1]), s.k),
           ~(NeedsReceiver(s) /\ HasSelf(callee)) => ctx = new_static_call_context(s, Site(c))
    PROVE  CallFound(c, callee, v)
<1>1. s \in Strategies /\ IsSeq(Top.ctx)
  BY TopFrame DEF AnalysisInv, FrameIn
<1>2. IsSeq(CalleeContext(c, callee, v)) /\ Cid(CalleeContext(c, callee, v)) = ctx
  BY <1>1, SiteIs, CalleeContextIs
<1>3. <<Top.func, Cid(Top.ctx), c.loc, <<callee, ctx>>>> \in call_graph
  BY SiteIs DEF InGraph, CallEdge
<1> QED
  BY <1>2, <1>3 DEF CallFound

LEMMA InstanceFound ==
    ASSUME AnalysisInv, RunInv, FieldsInEmpty, stack # <<>>, NEW c, NEW callee, NEW v, IsSeq(v[2]), HasSelf(callee),
           InstanceResolved(Site(c), <<v[1], Cid(v[2])>>, callee)
    PROVE  CallFound(c, callee, v)
<1> DEFINE receiver == <<v[1], Cid(v[2])>>
           ctx == IF NeedsReceiver(s) THEN new_k_limited_context(Cid(v[2]), ObjectElem(s, v[1]), s.k)
                  ELSE new_static_call_context(s, Site(c))
<1>1. receiver # NoReceiver
  BY DEF NoReceiver
<1>2. ctx \in new_instance_call_context(s, Site(c), receiver)
  BY <1>1 DEF new_instance_call_context
<1>3. <<Site(c), <<callee, ctx>>>> \in InstanceCalls(Site(c), receiver, callee)
  BY <1>2 DEF InstanceCalls
<1>4. InGraph(<<Site(c), <<callee, ctx>>>>)
  BY <1>3 DEF InstanceResolved
<1> HIDE DEF receiver
<1> QED
  BY <1>4, EdgeFound

\* What the driver resolved at a site covers the calls that a run makes there.
LEMMA ResolvedFound ==
    ASSUME AnalysisInv, RunInv, FieldsInEmpty, stage = "done", stack # <<>>, NEW c \in AllCalls(Top.func), NEW callee,
           Resolved(Site(c), callee), NEW v \in Receivers(c, callee)
    PROVE  CallFound(c, callee, v)
<1>1. \A x \in NewCalls(Site(c), callee) : InGraph(x)
  BY DEF Resolved
<1>2. CASE SelfKind[callee] = "ref"
  <2> DEFINE at(i) == ValuesAt(c.args[i])
             r == Registered("instance", Site(c).args[1], Site(c), callee)
  <2>1. v \in UNION {at(i) : i \in DOMAIN c.args \cap {1}}
    BY <1>2 DEF Receivers
  <2>2. 1 \in DOMAIN c.args /\ v \in ValuesAt(c.args[1])
    BY <2>1
  <2>3. c.args[1] \in PathsOf(Body(Top.func))
    BY <2>2, BodyPaths
  <2>4. <<mk_cs_path(c.args[1], Cid(Top.ctx)), <<v[1], Cid(v[2])>>>> \in pts /\ IsSeq(v[2])
    BY <2>2, <2>3, ValuesFound
  <2>5. r \in assoc_calls /\ r.kind = "instance" /\ r.node = mk_cs_path(c.args[1], Cid(Top.ctx))
        /\ r.site = Site(c) /\ r.callee = callee
    BY <1>2, <2>2, SiteIs DEF Resolved, SelfCalls, Registered
  <2>6. <<r, <<v[1], Cid(v[2])>>>> \in reported
    BY <2>4, <2>5, ResultSolved
  <2> HIDE DEF r
  <2>7. InstanceResolved(Site(c), <<v[1], Cid(v[2])>>, callee)
    <3> DEFINE o == <<v[1], Cid(v[2])>>
    <3> HIDE DEF o
    <3>0. PICK q : q = <<r, o>>
      OBVIOUS
    <3>1. q[1] = r /\ q[2] = o
      BY <3>0
    <3>2. q \in reported /\ q[1].kind = "instance" /\ q[1].site = Site(c) /\ q[1].callee = callee
      BY <2>5, <2>6, <3>0, <3>1 DEF o
    <3>3. InstanceResolved(q[1].site, q[2], q[1].callee)
      <4>1. ReportIn(q)
        BY <3>2 DEF AnalysisInv, ReportsIn
      <4> QED
        BY <3>2, <4>1 DEF ReportIn
    <3> QED
      BY <3>1, <3>2, <3>3 DEF o
  <2> QED
    BY <1>2, <2>4, <2>7, InstanceFound DEF HasSelf
<1>3. CASE SelfKind[callee] = "move"
  <2>1. 1 \in DOMAIN c.args /\ v = <<c.args[1], ContextFor(c.args[1], Top.ctx)>>
    BY <1>3 DEF Receivers
  <2>2. FrameIn(Top) /\ c.args[1] \in PathsOf(Body(Top.func))
    BY <2>1, TopFrame, BodyPaths
  <2>3. Site(c).args[1] = <<v[1], Cid(v[2])>>
    BY <2>1, <2>2, SiteIs, PathNode DEF AnalysisInv, FrameIn
  <2>4. IsSeq(v[2])
    BY <2>1, <2>2, StrategyAssumption, EmptyContext DEF ContextFor, FrameIn, AnalysisInv
  <2>5. NewCalls(Site(c), callee) = InstanceCalls(Site(c), <<v[1], Cid(v[2])>>, callee)
    BY <1>3, <2>3 DEF NewCalls
  <2>6. InstanceResolved(Site(c), <<v[1], Cid(v[2])>>, callee)
    BY <1>1, <2>5 DEF InstanceResolved
  <2> QED
    BY <1>3, <2>4, <2>6, InstanceFound DEF HasSelf
<1>4. CASE SelfKind[callee] \notin {"ref", "move"}
  <2>1. <<Site(c), <<callee, new_static_call_context(s, Site(c))>>>> \in NewCalls(Site(c), callee)
    BY <1>4 DEF NewCalls
  <2>2. ~HasSelf(callee)
    BY <1>4 DEF HasSelf
  <2> QED
    BY <1>1, <2>1, <2>2, EdgeFound
<1> QED
  BY <1>2, <1>3, <1>4

\* The arguments and the return value of a call that is found.
LEMMA FlowsFound ==
    ASSUME AnalysisInv, NEW f, NEW ctx, NEW c \in AllCalls(f), NEW callee, NEW cs,
           <<f, ctx, c.loc, <<callee, cs>>>> \in call_graph
    PROVE  /\ f \in DOMAIN Program[prog] /\ <<callee, cs>> \in func_nodes
           /\ \A i \in DOMAIN c.args \cap DOMAIN Params[callee] :
                 <<mk_cs_path(c.args[i], ctx), <<Params[callee][i], cs>>>> \in direct
           /\ <<<<Ret[callee], cs>>, mk_cs_path(c.dest, ctx)>> \in direct
<1> DEFINE site == mk_cs_callsite(c, <<f, ctx>>)
           edges == add_inter_procedural_edges(<<site, <<callee, cs>>>>)
<1>1. PICK e \in call_graph : e = <<f, ctx, c.loc, <<callee, cs>>>>
  OBVIOUS
<1>2. e[1] = f /\ e[2] = ctx /\ e[3] = c.loc /\ e[4] = <<callee, cs>>
  BY <1>1
<1>3. edges \subseteq direct /\ f \in DOMAIN Program[prog] /\ <<callee, cs>> \in func_nodes
  BY <1>2 DEF AnalysisInv, FlowsIn, NodesIn
<1>4. /\ DOMAIN site.args = DOMAIN c.args /\ site.dest = mk_cs_path(c.dest, ctx)
      /\ \A i \in DOMAIN c.args : site.args[i] = mk_cs_path(c.args[i], ctx)
  BY DEF mk_cs_callsite
<1> HIDE DEF site
<1>5. /\ <<<<Ret[callee], cs>>, site.dest>> \in edges
      /\ \A i \in DOMAIN site.args \cap DOMAIN Params[callee] :
            <<site.args[i], <<Params[callee][i], cs>>>> \in edges
  BY DEF add_inter_procedural_edges
<1> QED
  BY <1>3, <1>4, <1>5

LEMMA PushStep ==
    ASSUME AnalysisInv, RunInv, FieldsInEmpty, Settled, NEW c \in AllCalls(Top.func), NEW callee \in Callees(prog), NEW v,
           CallFound(c, callee, v), Push(c, callee, v)
    PROVE  RunInv'
<1> DEFINE ctx == CalleeContext(c, callee, v)
           frame == Frame(callee, ctx, Passed(c, callee), c.loc)
<1>1. /\ Running /\ stage = "done" /\ stack # <<>> /\ callee \in DOMAIN Program[prog]
      /\ stack' = <<frame>> \o stack /\ globals' = globals
  BY DEF Settled, Running, Push
<1>2. IsSeq(ctx) /\ <<Top.func, Cid(Top.ctx), c.loc, <<callee, Cid(ctx)>>>> \in call_graph
  BY DEF CallFound
<1>3. frame.func = callee /\ frame.ctx = ctx /\ frame.env = Passed(c, callee) /\ frame.site = c.loc
  BY DEF Frame
<1> HIDE DEF ctx, frame
<1>4. Top = stack[1]
  BY <1>1, TopFrame
<1>5. EnvIn(Passed(c, callee), ctx)
  <2> DEFINE passed(i) == {<<Params[callee][i], w>> : w \in ValuesAt(c.args[i])}
  <2>1. ASSUME NEW x \in Passed(c, callee)
        PROVE  <<<<x[1], Cid(ContextFor(x[1], ctx))>>, <<x[2][1], Cid(x[2][2])>>>> \in pts /\ IsSeq(x[2][2])
    <3>1. PICK i \in DOMAIN c.args \cap DOMAIN Params[callee] : x \in passed(i)
      BY DEF Passed
    <3>2. PICK w \in ValuesAt(c.args[i]) : x = <<Params[callee][i], w>>
      BY <3>1
    <3>3. <<mk_cs_path(c.args[i], Cid(Top.ctx)), <<w[1], Cid(w[2])>>>> \in pts /\ IsSeq(w[2])
      BY <1>1, BodyPaths, ValuesFound
    <3>4. <<mk_cs_path(c.args[i], Cid(Top.ctx)), <<Params[callee][i], Cid(ctx)>>>> \in direct
      BY <1>2, FlowsFound
    <3>5. <<<<Params[callee][i], Cid(ctx)>>, <<w[1], Cid(w[2])>>>> \in pts
      BY <1>1, <3>3, <3>4, ResultSolved
    <3>6. ContextFor(Params[callee][i], ctx) = ctx
      BY ProgramAssumption DEF PathAssumption, ContextFor, AnalysisInv
    <3> QED
      BY <3>2, <3>3, <3>5, <3>6
  <2> QED
    BY <2>1 DEF EnvIn, HeldFound
<1>6. FrameIn(frame)
  <2>1. <<callee, Cid(ctx)>> \in func_nodes
    BY <1>2, FlowsFound
  <2> QED
    BY <1>1, <1>2, <1>3, <1>5, <2>1 DEF FrameIn
<1>7. Made(frame, stack[1])
  BY <1>2, <1>3, <1>4 DEF Made
<1>8. StackIn(<<frame>> \o stack)
  BY <1>6, <1>7, StackPush DEF RunInv
<1> QED
  BY <1>1, <1>8, RunNext DEF RunInv

\* A call that the solver was to resolve.
ReportedAt(kind, site, o) == \E q \in reported : q[1].kind = kind /\ q[1].site = site /\ q[2] = o

LEMMA IndirectFound ==
    ASSUME AnalysisInv, RunInv, FieldsInEmpty, stage = "done", stack # <<>>,
           NEW f, f = <<Top.func, Cid(Top.ctx)>>,
           NEW kind, NEW calls, Indirect(kind, calls, f) \subseteq assoc_calls,
           \A c \in calls : c.on \in PathsOf(Body(Top.func))
    PROVE  \A c \in calls : \A v \in ValuesAt(c.on) :
              /\ IsSeq(v[2])
              /\ ReportedAt(kind, Site(c), <<v[1], Cid(v[2])>>)
<1> TAKE c \in calls
<1> TAKE v \in ValuesAt(c.on)
<1> DEFINE r == Registered(kind, mk_cs_path(c.on, Cid(Top.ctx)), Site(c), "any")
           o == <<v[1], Cid(v[2])>>
<1>1. r \in assoc_calls
  BY DEF Indirect, Site
<1>2. r.kind = kind /\ r.site = Site(c) /\ r.node = mk_cs_path(c.on, Cid(Top.ctx))
  BY DEF Registered
<1>3. <<mk_cs_path(c.on, Cid(Top.ctx)), o>> \in pts /\ IsSeq(v[2])
  BY ValuesFound
<1> HIDE DEF r, o
<1>4. <<r, o>> \in reported
  BY <1>1, <1>2, <1>3, ResultSolved
<1>5. PICK q : q = <<r, o>>
  OBVIOUS
<1>6. q[1] = r /\ q[2] = o /\ q \in reported
  BY <1>4, <1>5
<1> QED
  BY <1>2, <1>3, <1>6 DEF o, ReportedAt

LEMMA CallStep == ASSUME AnalysisInv, RunInv, FieldsInEmpty, RunCall PROVE RunInv'
<1> DEFINE f == <<Top.func, Cid(Top.ctx)>>
<1>1. f = <<Top.func, Cid(Top.ctx)>>
  OBVIOUS
<1>2. Settled /\ stage = "done" /\ stack # <<>>
  BY DEF RunCall, Settled, Running
<1>3. Top.func \in DOMAIN Program[prog] /\ f \in func_nodes
  BY <1>2, TopFrame DEF FrameIn
<1>4. HasCalls(f)
  BY <1>2, <1>3, NodeProcessed
<1>5. /\ \A c \in Body(Top.func).static : Resolved(Site(c), c.callee)
      /\ Indirect("dispatch", Body(Top.func).dispatch, f) \subseteq assoc_calls
      /\ Indirect("fnptr", Body(Top.func).fnptr, f) \subseteq assoc_calls
  BY <1>4 DEF HasCalls, Site
<1> HIDE DEF f
<1>6. \A c \in Body(Top.func).dispatch : \A v \in ValuesAt(c.on) :
         /\ IsSeq(v[2])
         /\ ReportedAt("dispatch", Site(c), <<v[1], Cid(v[2])>>)
  <2>1. \A c \in Body(Top.func).dispatch : c.on \in PathsOf(Body(Top.func))
    BY BodyPaths
  <2> QED
    BY <1>1, <1>2, <1>5, <2>1, IndirectFound
<1>7. \A c \in Body(Top.func).fnptr : \A v \in ValuesAt(c.on) :
         /\ IsSeq(v[2])
         /\ ReportedAt("fnptr", Site(c), <<v[1], Cid(v[2])>>)
  <2>1. \A c \in Body(Top.func).fnptr : c.on \in PathsOf(Body(Top.func))
    BY BodyPaths
  <2> QED
    BY <1>1, <1>2, <1>5, <2>1, IndirectFound
<1>8. ASSUME NEW c \in Body(Top.func).static, NEW v \in Receivers(c, c.callee), Push(c, c.callee, v) PROVE RunInv'
  <2>1. c \in AllCalls(Top.func) /\ c.callee \in Callees(prog)
    BY <1>3, CalleeOfCall DEF AllCalls
  <2> QED
    BY <1>2, <1>5, <1>8, <2>1, ResolvedFound, PushStep
<1>9. ASSUME NEW c \in Body(Top.func).dispatch, NEW v \in ValuesAt(c.on), v[1] \in DOMAIN Impl, Push(c, Impl[v[1]], v)
      PROVE  RunInv'
  <2>1. c \in AllCalls(Top.func) /\ Impl[v[1]] \in Callees(prog) /\ HasSelf(Impl[v[1]])
    BY <1>9, Reaches, ImplAssumption DEF AllCalls, HasSelf
  <2>2. /\ IsSeq(v[2])
        /\ ReportedAt("dispatch", Site(c), <<v[1], Cid(v[2])>>)
    BY <1>6
  <2>3. PICK q \in reported : q[1].kind = "dispatch" /\ q[1].site = Site(c) /\ q[2] = <<v[1], Cid(v[2])>>
    BY <2>2 DEF ReportedAt
  <2>4. q[2][1] = v[1]
    BY <2>3
  <2>5. InstanceResolved(q[1].site, q[2], Impl[q[2][1]])
    <3>1. ReportIn(q)
      BY <2>3 DEF AnalysisInv, ReportsIn
    <3> QED
      BY <1>2, <1>9, <2>3, <2>4, <3>1 DEF ReportIn
  <2>6. InstanceResolved(Site(c), <<v[1], Cid(v[2])>>, Impl[v[1]])
    BY <2>3, <2>4, <2>5
  <2>7. CallFound(c, Impl[v[1]], v)
    BY <1>2, <2>1, <2>2, <2>6, InstanceFound
  <2> QED
    BY <1>2, <1>9, <2>1, <2>7, PushStep
<1>10. ASSUME NEW c \in Body(Top.func).fnptr, NEW v \in ValuesAt(c.on), v[1] \in DOMAIN FnItem,
             NEW w \in Receivers(c, FnItem[v[1]]), Push(c, FnItem[v[1]], w)
      PROVE  RunInv'
  <2>1. c \in AllCalls(Top.func) /\ FnItem[v[1]] \in Callees(prog)
    BY <1>10, Reaches DEF AllCalls
  <2>2. ReportedAt("fnptr", Site(c), <<v[1], Cid(v[2])>>)
    BY <1>7
  <2>3. PICK q \in reported : q[1].kind = "fnptr" /\ q[1].site = Site(c) /\ q[2] = <<v[1], Cid(v[2])>>
    BY <2>2 DEF ReportedAt
  <2>4. q[2][1] = v[1]
    BY <2>3
  <2>5. Resolved(Site(c), FnItem[v[1]])
    <3>1. ReportIn(q)
      BY <2>3 DEF AnalysisInv, ReportsIn
    <3> QED
      BY <1>2, <1>10, <2>3, <2>4, <3>1 DEF ReportIn
  <2> QED
    BY <1>2, <1>10, <2>1, <2>5, ResolvedFound, PushStep
<1> QED
  BY <1>8, <1>9, <1>10 DEF RunCall

\* A return value is found at the destination of the call that made the frame.
LEMMA ReturnStep == ASSUME AnalysisInv, RunInv, FieldsInEmpty, RunReturn PROVE RunInv'
<1> DEFINE caller == stack[2]
           below == Tail(Tail(stack))
<1>1. PICK c \in AllCalls(caller.func) :
         /\ c.loc = Top.site
         /\ Continue(caller, caller.env \cup globals \cup {<<c.dest, v>> : v \in ValuesAt(Ret[Top.func])}, below)
  BY DEF RunReturn
<1> DEFINE held == caller.env \cup globals \cup {<<c.dest, v>> : v \in ValuesAt(Ret[Top.func])}
<1>2. Running /\ stage = "done" /\ stack # <<>> /\ Len(stack) > 1
  BY DEF RunReturn, Settled, Running
<1>3. /\ FrameIn(Top) /\ EnvIn(Held, Top.ctx) /\ Top = stack[1] /\ StackIn(Tail(stack)) /\ Tail(stack) # <<>>
      /\ Tail(stack)[1] = caller /\ Made(Top, caller) /\ FrameIn(caller)
  BY <1>2, TopFrame, StackTail DEF RunInv
<1>4. StackIn(below) /\ (below # <<>> => Made(caller, below[1]))
  BY <1>3, StackTail
<1>5. <<caller.func, Cid(caller.ctx), c.loc, <<Top.func, Cid(Top.ctx)>>>> \in call_graph
  BY <1>1, <1>3 DEF Made
<1>6. <<<<Ret[Top.func], Cid(Top.ctx)>>, mk_cs_path(c.dest, Cid(caller.ctx))>> \in direct
  BY <1>5, FlowsFound
<1> HIDE DEF caller
<1>7. c.dest \in PathsOf(Body(caller.func))
  BY BodyPaths
<1>8. mk_cs_path(c.dest, Cid(caller.ctx)) = <<c.dest, Cid(ContextFor(c.dest, caller.ctx))>>
  BY <1>3, <1>7, PathNode DEF FrameIn, AnalysisInv
<1>9. ContextFor(Ret[Top.func], Top.ctx) = Top.ctx
  BY <1>3, ProgramAssumption DEF FrameIn, PathAssumption, ContextFor, AnalysisInv
<1>10. EnvIn(held, caller.ctx)
  <2>1. ASSUME NEW e \in globals PROVE ContextFor(e[1], caller.ctx) = ContextFor(e[1], Empty)
    BY DEF RunInv, GlobalsIn, ContextFor
  <2>2. EnvIn(caller.env \cup globals, caller.ctx)
    BY <1>3, <2>1 DEF RunInv, GlobalsIn, FrameIn, EnvIn, HeldFound
  <2>3. ASSUME NEW v \in ValuesAt(Ret[Top.func])
        PROVE  <<<<c.dest, Cid(ContextFor(c.dest, caller.ctx))>>, <<v[1], Cid(v[2])>>>> \in pts /\ IsSeq(v[2])
    <3>1. <<<<Ret[Top.func], Cid(Top.ctx)>>, <<v[1], Cid(v[2])>>>> \in pts /\ IsSeq(v[2])
      BY <1>3, <1>9, FoundIs DEF ValuesAt
    <3> QED
      BY <1>2, <1>6, <1>8, <3>1, ResultSolved
  <2>4. ASSUME NEW x \in held, x \notin caller.env \cup globals
        PROVE  <<<<x[1], Cid(ContextFor(x[1], caller.ctx))>>, <<x[2][1], Cid(x[2][2])>>>> \in pts /\ IsSeq(x[2][2])
    <3>1. PICK v \in ValuesAt(Ret[Top.func]) : x = <<c.dest, v>>
      BY <2>4
    <3> QED
      BY <2>3, <3>1
  <2> HIDE DEF held
  <2> QED
    BY <2>2, <2>4 DEF EnvIn, HeldFound
<1> HIDE DEF held, below
<1>11. Continue(caller, held, below)
  BY <1>1 DEF held
<1> QED
  BY <1>2, <1>3, <1>4, <1>10, <1>11, ContinueStep

LEMMA RunStep == ASSUME AnalysisInv, RunInv, FieldsInEmpty, [Next]_vars PROVE RunInv'
<1>1. CASE Analyse
  <2>1. stage # "done" /\ UNCHANGED <<stack, globals>>
    BY <1>1 DEF Analyse, process_reach_funcs, ReachDone, Goto, solve_worklist, propagate, process_new_calls,
                process_new_call_instances, runVars
  <2>2. stack = <<>> /\ globals = {}
    BY <2>1 DEF RunInv
  <2>3. StackIn(<<>>)' /\ GlobalsIn({})'
    BY NoFrames, PTL
  <2> QED
    BY <2>1, <2>2, <2>3 DEF RunInv
<1>2. CASE StartRun \/ RunStatements \/ RunCall \/ RunReturn
  BY <1>2, StartStep, StatementsStep, CallStep, ReturnStep
<1>3. CASE UNCHANGED vars
  <2>1. UNCHANGED <<prog, s, func_nodes, call_graph, pts, stage, stack, globals>>
    BY <1>3 DEF vars, driverVars, graphVars, solverVars, runVars
  <2>2. \A ctx : Cid(ctx)' = Cid(ctx)
    BY <2>1 DEF Cid
  <2>3. \A env, ctx : EnvIn(env, ctx)' = EnvIn(env, ctx)
    BY <2>1, <2>2 DEF EnvIn, HeldFound, ContextFor
  <2>4. \A frame : FrameIn(frame)' = FrameIn(frame)
    BY <2>1, <2>2, <2>3, ProgramKept DEF FrameIn
  <2>5. \A frame, caller : Made(frame, caller)' = Made(frame, caller)
    BY <2>1, <2>2 DEF Made
  <2>6. StackIn(stack)' /\ GlobalsIn(globals)'
    BY <2>1, <2>3, <2>4, <2>5 DEF RunInv, StackIn, GlobalsIn
  <2> QED
    BY <2>1, <2>6 DEF RunInv
<1> QED
  BY <1>1, <1>2, <1>3 DEF Next

LEMMA RunInvCovers == ASSUME RunInv PROVE FramesCovered /\ PointersFound
<1>1. StackIn(stack) /\ GlobalsIn(globals)
  BY DEF RunInv
<1>2. DOMAIN stack = 1 .. Len(stack)
  <2>1. PICK E : stack \in Seq(E)
    BY <1>1, SeqWithMore DEF StackIn
  <2> QED
    BY <2>1
<1>3. FramesCovered
  BY <1>1, <1>2 DEF FramesCovered, StackIn, FrameIn, Made
<1>4. PointersFound
  BY <1>1, <1>2 DEF PointersFound, StackIn, FrameIn, EnvIn, GlobalsIn
<1> QED
  BY <1>3, <1>4

-----------------------------------------------------------------------------
(* Contexts only add precision.  I is a solution without contexts.            *)

Carries(I, p, q) == \A o : <<p, o>> \in I.pts => <<q, o>> \in I.pts
CallCarries(I, args, dest, callee) ==
    /\ callee \in I.funcs /\ (HasSelf(callee) => 1 \in DOMAIN args)
    /\ \A i \in DOMAIN args \cap DOMAIN Params[callee] : Carries(I, args[i], Params[callee][i])
    /\ Carries(I, Ret[callee], dest)

\* What the rules say of a function of a solution.
LEMMA SolutionClosed ==
    ASSUME NEW p \in DOMAIN Program, NEW I, I = Insensitive[p],
           NEW f \in DOMAIN Program[p], f \in I.funcs, NEW b, b = Program[p][f]
    PROVE  /\ \A e \in b.addr : <<e[2], e[1]>> \in I.pts
           /\ \A e \in b.direct : Carries(I, e[1], e[2])
           /\ b.deps \subseteq I.funcs /\ \A c \in b.special : c.callee \in I.funcs
           /\ \A c \in b.static : CallCarries(I, c.args, c.dest, c.callee)
           /\ \A c \in b.dispatch : \A o \in DOMAIN Impl : <<c.on, o>> \in I.pts => CallCarries(I, c.args, c.dest, Impl[o])
           /\ \A c \in b.fnptr : \A o \in DOMAIN FnItem : <<c.on, o>> \in I.pts => CallCarries(I, c.args, c.dest, FnItem[o])
<1> DEFINE bodies == {Program[p][g] : g \in I.funcs \cap DOMAIN Program[p]}
           at(x) == {e[2] : e \in {y \in I.pts : y[1] = x}}
           dispatched(c) == {<<c, Impl[o]>> : o \in at(c.on) \cap DOMAIN Impl}
           pointed(c) == {<<c, FnItem[o]>> : o \in at(c.on) \cap DOMAIN FnItem}
           called(x) == {<<c, c.callee>> : c \in x.static} \cup (UNION {dispatched(c) : c \in x.dispatch})
                           \cup UNION {pointed(c) : c \in x.fnptr}
           calls == UNION {called(x) : x \in bodies}
           passed(c) == {<<c[1].args[i], Params[c[2]][i]>> : i \in DOMAIN c[1].args \cap DOMAIN Params[c[2]]}
           flows == (UNION {x.direct : x \in bodies}) \cup (UNION {passed(c) : c \in calls})
                       \cup {<<Ret[c[2]], c[1].dest>> : c \in calls}
           others(x) == x.deps \cup {c.callee : c \in x.special}
           addrs == UNION {x.addr : x \in bodies}
           carried(e) == {<<e[2], o>> : o \in at(e[1])}
<1>1. Rules(p, I.funcs, I.pts) = I
  BY ProgramAssumption
<1>2. Rules(p, I.funcs, I.pts) =
         [funcs |-> {Main} \cup I.funcs \cup {c[2] : c \in calls} \cup UNION {others(x) : x \in bodies},
          pts |-> I.pts \cup {<<e[2], e[1]>> : e \in addrs} \cup UNION {carried(e) : e \in flows}]
  BY Zenon DEF Rules
<1>3. b \in bodies
  OBVIOUS
<1>4. \A o, x : <<x, o>> \in I.pts => o \in at(x)
  <2>1. ASSUME NEW o, NEW x, <<x, o>> \in I.pts PROVE o \in at(x)
    <3>1. PICK y : y = <<x, o>>
      OBVIOUS
    <3> QED
      BY <2>1, <3>1
  <2> QED
    BY <2>1
<1> HIDE DEF at, bodies
<1>5. called(b) \subseteq calls
  BY <1>3
<1> HIDE DEF calls
<1>6. b.direct \subseteq flows
  BY <1>3
<1>7. ASSUME NEW c \in calls
      PROVE  passed(c) \subseteq flows /\ <<Ret[c[2]], c[1].dest>> \in flows
  OBVIOUS
<1>8. others(b) \subseteq UNION {others(x) : x \in bodies} /\ b.addr \subseteq addrs
  BY <1>3
<1> HIDE DEF flows, others, addrs
<1>9. /\ {c[2] : c \in calls} \subseteq I.funcs /\ UNION {others(x) : x \in bodies} \subseteq I.funcs
      /\ {<<e[2], e[1]>> : e \in addrs} \subseteq I.pts /\ UNION {carried(e) : e \in flows} \subseteq I.pts
  <2> DEFINE F == {Main} \cup I.funcs \cup {c[2] : c \in calls} \cup UNION {others(x) : x \in bodies}
             P == I.pts \cup {<<e[2], e[1]>> : e \in addrs} \cup UNION {carried(e) : e \in flows}
  <2>1. I = [funcs |-> F, pts |-> P]
    BY <1>1, <1>2, Zenon
  <2> HIDE DEF F, P
  <2>2. I.funcs = F /\ I.pts = P
    BY <2>1
  <2> QED
    BY <2>2 DEF F, P
<1>10. ASSUME NEW e \in flows PROVE Carries(I, e[1], e[2])
  <2>1. ASSUME NEW o, <<e[1], o>> \in I.pts PROVE <<e[2], o>> \in I.pts
    <3>1. o \in at(e[1])
      BY <1>4, <2>1
    <3>2. <<e[2], o>> \in carried(e)
      BY <3>1
    <3>3. <<e[2], o>> \in UNION {carried(x) : x \in flows}
      BY <3>2
    <3> QED
      BY <1>9, <3>3
  <2> QED
    BY <2>1 DEF Carries
<1>11. ASSUME NEW c, NEW g, <<c, g>> \in calls, HasSelf(g) => 1 \in DOMAIN c.args
       PROVE  CallCarries(I, c.args, c.dest, g)
  <2>1. PICK x : x = <<c, g>>
    OBVIOUS
  <2>2. x[1] = c /\ x[2] = g /\ x \in calls
    BY <1>11, <2>1
  <2>3. g \in I.funcs
    BY <1>9, <2>2
  <2>4. Carries(I, Ret[g], c.dest)
    <3>1. PICK e : e = <<Ret[g], c.dest>>
      OBVIOUS
    <3> QED
      BY <1>7, <1>10, <2>2, <3>1
  <2>5. ASSUME NEW i \in DOMAIN c.args \cap DOMAIN Params[g] PROVE Carries(I, c.args[i], Params[g][i])
    <3>1. PICK e : e = <<c.args[i], Params[g][i]>>
      OBVIOUS
    <3>2. e \in passed(x)
      BY <2>2, <3>1
    <3>3. e \in flows
      BY <1>7, <2>2, <3>2
    <3> QED
      BY <1>10, <3>1, <3>3
  <2> QED
    BY <1>11, <2>3, <2>4, <2>5 DEF CallCarries
<1>12. \A c \in b.static : <<c, c.callee>> \in calls /\ (HasSelf(c.callee) => 1 \in DOMAIN c.args)
  BY <1>5, ProgramAssumption DEF CallAssumption
<1>13. ASSUME NEW c \in b.dispatch, NEW o \in DOMAIN Impl, <<c.on, o>> \in I.pts
       PROVE  <<c, Impl[o]>> \in calls /\ 1 \in DOMAIN c.args
  <2>1. <<c, Impl[o]>> \in dispatched(c)
    BY <1>4, <1>13
  <2>2. dispatched(c) \subseteq called(b)
    OBVIOUS
  <2>3. 1 \in DOMAIN c.args
    BY ProgramAssumption DEF CallAssumption
  <2> QED
    BY <1>5, <2>1, <2>2, <2>3
<1>14. ASSUME NEW c \in b.fnptr, NEW o \in DOMAIN FnItem, <<c.on, o>> \in I.pts
       PROVE  <<c, FnItem[o]>> \in calls /\ (HasSelf(FnItem[o]) => 1 \in DOMAIN c.args)
  <2>1. <<c, FnItem[o]>> \in pointed(c)
    BY <1>4, <1>14
  <2>2. pointed(c) \subseteq called(b)
    OBVIOUS
  <2>3. HasSelf(FnItem[o]) => 1 \in DOMAIN c.args
    BY <1>14, ProgramAssumption DEF CallAssumption
  <2> QED
    BY <1>5, <2>1, <2>2, <2>3
<1>15. /\ \A e \in b.addr : <<e[2], e[1]>> \in I.pts
       /\ \A e \in b.direct : Carries(I, e[1], e[2])
       /\ b.deps \subseteq I.funcs /\ \A c \in b.special : c.callee \in I.funcs
  BY <1>6, <1>8, <1>9, <1>10 DEF others
<1> QED
  BY <1>11, <1>12, <1>13, <1>14, <1>15

\* What the state derives, the solution derives.
SiteCarries(I, site, callee) ==
    /\ callee \in I.funcs /\ (HasSelf(callee) => 1 \in DOMAIN site.args)
    /\ \A i \in DOMAIN site.args \cap DOMAIN Params[callee] : Carries(I, site.args[i][1], Params[callee][i])
    /\ Carries(I, Ret[callee], site.dest[1])
RegisteredIn(I, r) ==
    /\ r.kind = "instance" => SiteCarries(I, r.site, r.callee)
    /\ r.kind = "dispatch" =>
          \A o \in DOMAIN Impl : <<r.node[1], o>> \in I.pts => SiteCarries(I, r.site, Impl[o])
    /\ r.kind = "fnptr" =>
          \A o \in DOMAIN FnItem : <<r.node[1], o>> \in I.pts => SiteCarries(I, r.site, FnItem[o])
Precise(I) ==
    /\ \A f \in func_nodes \cup reach_funcs : f[1] \in I.funcs
    /\ \A e \in addr : <<e[2][1], e[1][1]>> \in I.pts
    /\ \A e \in direct : Carries(I, e[1][1], e[2][1])
    /\ \A e \in pts : <<e[1][1], e[2][1]>> \in I.pts
    /\ \A r \in assoc_calls : RegisteredIn(I, r)
    /\ \A c \in new_calls : SiteCarries(I, c[1], c[2])
    /\ \A c \in new_call_instances : SiteCarries(I, c[1], c[3])

LEMMA SiteOfBody ==
    ASSUME NEW I, NEW c, NEW f, NEW callee, CallCarries(I, c.args, c.dest, callee)
    PROVE  SiteCarries(I, mk_cs_callsite(c, f), callee)
<1> DEFINE site == mk_cs_callsite(c, f)
<1>1. /\ DOMAIN site.args = DOMAIN c.args /\ site.dest[1] = c.dest
      /\ \A i \in DOMAIN c.args : site.args[i][1] = c.args[i]
  BY DEF mk_cs_callsite, mk_cs_path
<1> HIDE DEF site
<1>2. ASSUME NEW i \in DOMAIN site.args \cap DOMAIN Params[callee] PROVE Carries(I, site.args[i][1], Params[callee][i])
  BY <1>1 DEF CallCarries
<1>3. callee \in I.funcs /\ Carries(I, Ret[callee], site.dest[1]) /\ (HasSelf(callee) => 1 \in DOMAIN site.args)
  BY <1>1 DEF CallCarries
<1>4. SiteCarries(I, site, callee)
  BY <1>2, <1>3 DEF SiteCarries
<1> QED
  BY <1>4 DEF site

\* The edges of a call that the solution derives carry what it carries.
LEMMA EdgesOfCall ==
    ASSUME NEW I, NEW x, SiteCarries(I, x[1], x[2][1])
    PROVE  \A e \in add_inter_procedural_edges(x) : Carries(I, e[1][1], e[2][1])
<1>1. ASSUME NEW e \in add_inter_procedural_edges(x)
      PROVE  \/ e = <<<<Ret[x[2][1]], x[2][2]>>, x[1].dest>>
             \/ \E i \in DOMAIN x[1].args \cap DOMAIN Params[x[2][1]] : e = <<x[1].args[i], <<Params[x[2][1]][i], x[2][2]>>>>
  BY <1>1 DEF add_inter_procedural_edges
<1> QED
  BY <1>1 DEF SiteCarries

\* Functions and edges when calls are added that the solution derives.
LEMMA PreciseCalls ==
    ASSUME NEW I, Precise(I),
           NEW flow, NEW summarised, NEW others, NEW queue, AddCalls(flow, summarised, others, queue),
           queue \subseteq reach_funcs,
           \A x \in flow : SiteCarries(I, x[1], x[2][1]), \A x \in summarised : x[2][1] \in I.funcs,
           \A e \in others : Carries(I, e[1][1], e[2][1])
    PROVE  /\ \A f \in func_nodes' \cup reach_funcs' : f[1] \in I.funcs
           /\ \A e \in direct' : Carries(I, e[1][1], e[2][1])
<1>1. /\ func_nodes' = func_nodes \cup {x[2] : x \in flow \cup summarised}
      /\ reach_funcs' = queue \cup (func_nodes' \ func_nodes)
  BY AddCallsAdds
<1>2. \A x \in flow \cup summarised : x[2][1] \in I.funcs
  BY DEF SiteCarries
<1>3. \A f \in func_nodes' \cup reach_funcs' : f[1] \in I.funcs
  BY <1>1, <1>2 DEF Precise
<1>4. ASSUME NEW e \in direct' PROVE Carries(I, e[1][1], e[2][1])
  BY AddCallsOnly, EdgesOfCall DEF Precise
<1> QED
  BY <1>3, <1>4

\* Initialisers of a function of the solution are in it.
LEMMA InvolvedIn ==
    ASSUME prog \in DOMAIN Program, NEW I, I = Insensitive[prog], NEW f \in DOMAIN Program[prog], f \in I.funcs
    PROVE  \A g \in Involved(f) : g \in I.funcs /\ g \in DOMAIN Program[prog]
<1> DEFINE D == Initialisers(prog) \cap I.funcs
<1>1. Initialisers(prog) \subseteq DOMAIN Program[prog]
  BY NotBoth
<1>2. ASSUME NEW h \in {f} \cup D PROVE Body(h).deps \subseteq D
  <2> DEFINE deps(g) == Program[prog][g].deps
  <2>1. h \in DOMAIN Program[prog] /\ h \in I.funcs
    BY <1>1
  <2>2. deps(h) \subseteq I.funcs
    BY <2>1, SolutionClosed
  <2>3. deps(h) \subseteq UNION {deps(g) : g \in DOMAIN Program[prog]}
    BY <2>1
  <2> QED
    BY <2>2, <2>3 DEF Initialisers, Body
<1>3. D \in SUBSET Initialisers(prog)
  OBVIOUS
<1> HIDE DEF D
<1>4. Involved(f) \subseteq D
  BY <1>2, <1>3 DEF Involved
<1> QED
  BY <1>1, <1>4 DEF D

LEMMA PreciseProcess ==
    ASSUME prog \in DOMAIN Program, NEW I, I = Insensitive[prog], Precise(I),
           process_reach_funcs, NEW f \in reach_funcs, ProcessReachFunc(f)
    PROVE  Precise(I)'
<1> DEFINE F == add_fpag_edges(f)
           static == {<<mk_cs_callsite(c, f), c.callee>> : c \in Body(f[1]).static}
           special == {<<mk_cs_callsite(c, f), c.callee>> : c \in Body(f[1]).special}
           flow == UNION {NewCalls(c[1], c[2]) : c \in static}
           summarised == {<<c[1], <<c[2], new_static_call_context(s, c[1])>>>> : c \in special}
           directs(g) == EdgesIn(Body(g[1]).direct, g)
           addrs(g) == EdgesIn(Body(g[1]).addr, g)
           others == UNION {directs(g) : g \in F}
           selfs == UNION {SelfCalls(c[1], c[2]) : c \in static}
<1>1. f[1] \in DOMAIN Program[prog] /\ f[1] \in I.funcs
  BY DEF ProcessReachFunc, Precise
<1>2. /\ addr' = addr \cup UNION {addrs(g) : g \in F}
      /\ process_calls_in_fpag(f, others, reach_funcs \ {f})
  BY Zenon DEF ProcessReachFunc
<1>3. AddCalls(flow, summarised, others, reach_funcs \ {f})
  BY <1>2, Zenon DEF process_calls_in_fpag
<1>4. assoc_calls' = assoc_calls \cup (selfs \cup Indirect("dispatch", Body(f[1]).dispatch, f)
                                        \cup Indirect("fnptr", Body(f[1]).fnptr, f))
  BY <1>2, Zenon DEF process_calls_in_fpag, Register
<1>5. UNCHANGED <<pts, new_calls, new_call_instances>>
  BY DEF process_reach_funcs, solverVars
<1>6. ASSUME NEW g \in F PROVE g[1] \in DOMAIN Program[prog] /\ g[1] \in I.funcs
  BY <1>1, InvolvedIn DEF add_fpag_edges
<1>7. ASSUME NEW g \in F PROVE \A e \in addrs(g) : <<e[2][1], e[1][1]>> \in I.pts
  <2> DEFINE b == Body(g[1])
  <2>1. \A e \in b.addr : <<e[2], e[1]>> \in I.pts
    BY <1>6, SolutionClosed DEF Body
  <2> QED
    BY <2>1 DEF EdgesIn, mk_cs_path
<1>8. ASSUME NEW g \in F PROVE \A e \in directs(g) : Carries(I, e[1][1], e[2][1])
  <2> DEFINE b == Body(g[1])
  <2>1. \A e \in b.direct : Carries(I, e[1], e[2])
    BY <1>6, SolutionClosed DEF Body
  <2> QED
    BY <2>1 DEF EdgesIn, mk_cs_path
<1> HIDE DEF F, addrs, directs
<1>9. \A e \in others : Carries(I, e[1][1], e[2][1])
  BY <1>8
<1>10. \A e \in addr' : <<e[2][1], e[1][1]>> \in I.pts
  BY <1>2, <1>7 DEF Precise
<1>11. /\ \A c \in Body(f[1]).special : c.callee \in I.funcs
       /\ \A c \in Body(f[1]).static : SiteCarries(I, mk_cs_callsite(c, f), c.callee)
       /\ \A c \in Body(f[1]).dispatch : \A o \in DOMAIN Impl :
             <<c.on, o>> \in I.pts => SiteCarries(I, mk_cs_callsite(c, f), Impl[o])
       /\ \A c \in Body(f[1]).fnptr : \A o \in DOMAIN FnItem :
             <<c.on, o>> \in I.pts => SiteCarries(I, mk_cs_callsite(c, f), FnItem[o])
  BY <1>1, SolutionClosed, SiteOfBody DEF Body
<1>12. ASSUME NEW x \in flow PROVE SiteCarries(I, x[1], x[2][1])
  <2>1. PICK c \in Body(f[1]).static : x \in NewCalls(mk_cs_callsite(c, f), c.callee)
    OBVIOUS
  <2> QED
    BY <1>11, <2>1, CallsShape
<1>13. ASSUME NEW x \in summarised PROVE x[2][1] \in I.funcs
  BY <1>11
<1>14. ASSUME NEW r \in assoc_calls' PROVE RegisteredIn(I, r)
  <2>1. CASE r \in assoc_calls
    BY <2>1 DEF Precise
  <2>2. CASE r \in selfs
    <3>1. PICK c \in Body(f[1]).static : r \in SelfCalls(mk_cs_callsite(c, f), c.callee)
      BY <2>2
    <3> QED
      BY <1>11, <3>1, CallsShape DEF RegisteredIn
  <2>3. CASE r \in Indirect("dispatch", Body(f[1]).dispatch, f)
    <3>1. PICK c \in Body(f[1]).dispatch : r = Registered("dispatch", mk_cs_path(c.on, f[2]), mk_cs_callsite(c, f), "any")
      BY <2>3 DEF Indirect
    <3>2. r.kind = "dispatch" /\ r.node[1] = c.on /\ r.site = mk_cs_callsite(c, f)
      BY <3>1 DEF Registered, mk_cs_path
    <3> QED
      BY <1>11, <3>2 DEF RegisteredIn
  <2>4. CASE r \in Indirect("fnptr", Body(f[1]).fnptr, f)
    <3>1. PICK c \in Body(f[1]).fnptr : r = Registered("fnptr", mk_cs_path(c.on, f[2]), mk_cs_callsite(c, f), "any")
      BY <2>4 DEF Indirect
    <3>2. r.kind = "fnptr" /\ r.node[1] = c.on /\ r.site = mk_cs_callsite(c, f)
      BY <3>1 DEF Registered, mk_cs_path
    <3> QED
      BY <1>11, <3>2 DEF RegisteredIn
  <2> QED
    BY <1>4, <2>1, <2>2, <2>3, <2>4
<1> HIDE DEF flow, summarised, others, selfs
<1>15. /\ \A g \in func_nodes' \cup reach_funcs' : g[1] \in I.funcs
       /\ \A e \in direct' : Carries(I, e[1][1], e[2][1])
  BY <1>3, <1>9, <1>12, <1>13, PreciseCalls
<1> QED
  BY <1>5, <1>10, <1>14, <1>15 DEF Precise

\* A round of the solver stays in the solution.
LEMMA PreciseRound == ASSUME NEW I, Precise(I), solve_worklist PROVE Precise(I)'
<1> DEFINE carried(e) == {<<e[2], o>> : o \in Pointees(pts, e[1])}
<1>1. /\ UNCHANGED <<func_nodes, reach_funcs, addr, direct, assoc_calls, new_calls, new_call_instances>>
      /\ pts' = Derived(pts)
  BY DEF solve_worklist, graphVars
<1>2. ASSUME NEW x \in Derived(pts), x \notin pts PROVE <<x[1][1], x[2][1]>> \in I.pts
  <2>1. \/ \E e \in addr : x = <<e[2], e[1]>>
        \/ \E e \in direct : x \in carried(e)
    BY <1>2, Zenon DEF Derived
  <2>2. CASE \E e \in addr : x = <<e[2], e[1]>>
    BY <2>2 DEF Precise
  <2>3. CASE \E e \in direct : x \in carried(e)
    <3>1. PICK e \in direct : x \in carried(e)
      BY <2>3
    <3>2. PICK o \in Pointees(pts, e[1]) : x = <<e[2], o>>
      BY <3>1
    <3>3. PICK y \in pts : y[1] = e[1] /\ y[2] = o
      BY DEF Pointees
    <3>4. <<e[1][1], o[1]>> \in I.pts
      BY <3>3 DEF Precise
    <3> QED
      BY <3>2, <3>4 DEF Precise, Carries
  <2> QED
    BY <2>1, <2>2, <2>3
<1>3. \A x \in pts' : <<x[1][1], x[2][1]>> \in I.pts
  BY <1>1, <1>2 DEF Precise
<1> QED
  BY <1>1, <1>3 DEF Precise

\* The calls that the solver reports are in the solution.
LEMMA PreciseReports == ASSUME NEW I, Precise(I), propagate PROVE Precise(I)'
<1> DEFINE R == Reports(pts)
<1>0. PICK receivers \in SUBSET ReceiversOf(CallsOf(R)) : new_call_instances' = InstancesOf(R) \cup receivers
  BY DEF propagate
<1>1. UNCHANGED <<func_nodes, reach_funcs, addr, direct, assoc_calls, pts>> /\ new_calls' = CallsOf(R)
  BY DEF propagate, graphVars
<1>2. ASSUME NEW q \in R PROVE RegisteredIn(I, q[1]) /\ <<q[1].node[1], q[2][1]>> \in I.pts
  <2>1. q[1] \in assoc_calls /\ <<q[1].node, q[2]>> \in {<<x[1], x[2]>> : x \in pts}
    BY KnownIs DEF Reports
  <2>2. PICK x \in pts : <<q[1].node, q[2]>> = <<x[1], x[2]>>
    BY <2>1
  <2>3. q[1].node = x[1] /\ q[2] = x[2]
    BY <2>2
  <2> QED
    BY <2>1, <2>3 DEF Precise
<1> HIDE DEF R
<1>3. ASSUME NEW c \in CallsOf(R) PROVE SiteCarries(I, c[1], c[2])
  <2>1. PICK q \in R : /\ c = <<q[1].site, FnItem[q[2][1]]>> /\ q[1].kind = "fnptr" /\ q[2][1] \in DOMAIN FnItem
    BY DEF CallsOf
  <2> QED
    BY <1>2, <2>1 DEF RegisteredIn
<1>4. ASSUME NEW c \in InstancesOf(R) PROVE SiteCarries(I, c[1], c[3])
  <2>1. PICK q \in R : \/ c = <<q[1].site, q[2], q[1].callee>> /\ q[1].kind = "instance"
                       \/ c = <<q[1].site, q[2], Impl[q[2][1]]>> /\ q[1].kind = "dispatch" /\ q[2][1] \in DOMAIN Impl
    BY DEF InstancesOf
  <2>2. CASE c = <<q[1].site, q[2], q[1].callee>> /\ q[1].kind = "instance"
    <3>1. SiteCarries(I, q[1].site, q[1].callee)
      BY <1>2, <2>2 DEF RegisteredIn
    <3>2. c[1] = q[1].site /\ c[3] = q[1].callee
      BY <2>2
    <3> QED
      BY <3>1, <3>2
  <2>3. CASE c = <<q[1].site, q[2], Impl[q[2][1]]>> /\ q[1].kind = "dispatch" /\ q[2][1] \in DOMAIN Impl
    <3>1. SiteCarries(I, q[1].site, Impl[q[2][1]])
      BY <1>2, <2>3 DEF RegisteredIn
    <3>2. c[1] = q[1].site /\ c[3] = Impl[q[2][1]]
      BY <2>3
    <3> QED
      BY <3>1, <3>2
  <2> QED
    BY <2>1, <2>2, <2>3
<1>5. ASSUME NEW c \in receivers PROVE SiteCarries(I, c[1], c[3])
  <2>1. PICK d \in CallsOf(R) : c[1] = d[1] /\ c[3] = d[2]
    BY ReceiverIs
  <2> QED
    BY <1>3, <2>1
<1> QED
  BY <1>0, <1>1, <1>3, <1>4, <1>5 DEF Precise

LEMMA PreciseNewCalls == ASSUME NEW I, Precise(I), process_new_calls PROVE Precise(I)'
<1> DEFINE flow == UNION {NewCalls(c[1], c[2]) : c \in new_calls}
           selfs == UNION {SelfCalls(c[1], c[2]) : c \in new_calls}
<1>1. /\ AddCalls(flow, {}, {}, reach_funcs) /\ assoc_calls' = assoc_calls \cup selfs
      /\ UNCHANGED <<addr, pts, new_calls, new_call_instances>>
  BY Zenon DEF process_new_calls, Register
<1>2. ASSUME NEW x \in flow PROVE SiteCarries(I, x[1], x[2][1])
  <2>1. PICK c \in new_calls : x \in NewCalls(c[1], c[2])
    OBVIOUS
  <2> QED
    BY <2>1, CallsShape DEF Precise
<1>3. ASSUME NEW r \in selfs PROVE RegisteredIn(I, r)
  <2>1. PICK c \in new_calls : r \in SelfCalls(c[1], c[2])
    OBVIOUS
  <2>2. r.kind = "instance" /\ r.site = c[1] /\ r.callee = c[2]
    BY <2>1, CallsShape
  <2>3. SiteCarries(I, c[1], c[2])
    BY DEF Precise
  <2> QED
    BY <2>2, <2>3 DEF RegisteredIn
<1> HIDE DEF flow, selfs
<1>4. /\ \A g \in func_nodes' \cup reach_funcs' : g[1] \in I.funcs
      /\ \A e \in direct' : Carries(I, e[1][1], e[2][1])
  BY <1>1, <1>2, PreciseCalls
<1> QED
  BY <1>1, <1>3, <1>4 DEF Precise

LEMMA PreciseNewInstances == ASSUME NEW I, Precise(I), process_new_call_instances PROVE Precise(I)'
<1> DEFINE flow == UNION {InstanceCalls(c[1], c[2], c[3]) : c \in new_call_instances}
<1>1. /\ AddCalls(flow, {}, {}, reach_funcs)
      /\ UNCHANGED <<addr, assoc_calls, pts, new_calls, new_call_instances>>
  BY Zenon DEF process_new_call_instances, solverVars
<1>2. ASSUME NEW x \in flow PROVE SiteCarries(I, x[1], x[2][1])
  <2>1. PICK c \in new_call_instances : x \in InstanceCalls(c[1], c[2], c[3])
    OBVIOUS
  <2> QED
    BY <2>1, CallsShape DEF Precise
<1> HIDE DEF flow
<1>3. /\ \A g \in func_nodes' \cup reach_funcs' : g[1] \in I.funcs
      /\ \A e \in direct' : Carries(I, e[1][1], e[2][1])
  BY <1>1, <1>2, PreciseCalls
<1> QED
  BY <1>1, <1>3 DEF Precise

PreciseInv == prog \in DOMAIN Program /\ Precise(Insensitive[prog])

LEMMA PreciseStep == ASSUME PreciseInv, [Next]_vars PROVE PreciseInv'
<1>1. prog' = prog /\ prog \in DOMAIN Program
  BY DEF PreciseInv, Next, Analyse, process_reach_funcs, ReachDone, solve_worklist, propagate, process_new_calls,
         process_new_call_instances, StartRun, RunStatements, RunCall, RunReturn, Settled, Running, runVars, vars
<1>2. ASSUME NEW I, I = Insensitive[prog], Precise(I) PROVE Precise(I)'
  <2>1. ASSUME UNCHANGED <<func_nodes, reach_funcs, addr, direct, assoc_calls, pts, new_calls, new_call_instances>>
        PROVE  Precise(I)'
    BY <1>2, <2>1 DEF Precise
  <2>2. CASE process_reach_funcs
    <3>1. PICK f \in reach_funcs : SkipReachFunc(f) \/ ProcessReachFunc(f)
      BY <2>2 DEF process_reach_funcs
    <3>2. CASE SkipReachFunc(f)
      BY <1>2, <2>2, <3>2 DEF SkipReachFunc, process_reach_funcs, solverVars, Precise
    <3> QED
      BY <1>1, <1>2, <2>2, <3>1, <3>2, PreciseProcess
  <2>3. CASE ReachDone
    BY <2>1, <2>3 DEF ReachDone, graphVars, solverVars
  <2>4. CASE solve_worklist \/ propagate \/ process_new_calls \/ process_new_call_instances
    BY <1>2, <2>4, PreciseRound, PreciseReports, PreciseNewCalls, PreciseNewInstances
  <2>5. CASE StartRun \/ RunStatements \/ RunCall \/ RunReturn
    BY <2>1, <2>5 DEF StartRun, RunStatements, RunCall, RunReturn, Settled, Running, driverVars, graphVars, solverVars
  <2>6. CASE UNCHANGED vars
    BY <2>1, <2>6 DEF vars, driverVars, graphVars, solverVars
  <2> QED
    BY <2>2, <2>3, <2>4, <2>5, <2>6 DEF Next, Analyse
<1> QED
  BY <1>1, <1>2 DEF PreciseInv

LEMMA PreciseInit == Init => PreciseInv
<1> SUFFICES ASSUME Init PROVE PreciseInv
  OBVIOUS
<1>1. prog \in DOMAIN Program
  BY DEF Init
<1>2. Rules(prog, Insensitive[prog].funcs, Insensitive[prog].pts) = Insensitive[prog]
  BY <1>1, ProgramAssumption
<1>3. Main \in Rules(prog, Insensitive[prog].funcs, Insensitive[prog].pts).funcs
  BY DEF Rules
<1>4. Main \in Insensitive[prog].funcs
  BY <1>2, <1>3
<1> QED
  BY <1>1, <1>4 DEF Init, PreciseInv, Precise

\* Contexts only add precision (pta/context_sensitive.rs:217-322): whatever the
\* program, the strategy and k, what is reached or pointed to in some context is
\* in every solution of the rules without contexts.
THEOREM ContextsOnlyRefine == Spec => []NoMoreThanInsensitive
<1>1. Init => PreciseInv
  BY PreciseInit
<1>2. PreciseInv /\ [Next]_vars => PreciseInv'
  BY PreciseStep
<1>3. PreciseInv => NoMoreThanInsensitive
  BY DEF PreciseInv, Precise, NoMoreThanInsensitive
<1> QED
  BY <1>1, <1>2, <1>3, PTL DEF Spec

-----------------------------------------------------------------------------
(* Every run is covered.                                                      *)

LEMMA HypothesesKept ==
    ASSUME [Next]_vars
    PROVE  /\ prog' = prog /\ s' = s
           /\ ResolvedInTime' = ResolvedInTime /\ FieldsInEmpty' = FieldsInEmpty
<1>1. prog' = prog /\ s' = s
  BY DEF Next, Analyse, process_reach_funcs, ReachDone, solve_worklist, propagate, process_new_calls,
         process_new_call_instances, StartRun, RunStatements, RunCall, RunReturn, Settled, Running, vars, runVars
<1>2. FieldsInEmpty' = FieldsInEmpty
  BY <1>1 DEF FieldsInEmpty, Callees, Initialisers
<1> QED
  BY <1>1, <1>2, ProgramKept

\* The result of the context-sensitive analysis covers every run of every program
\* whose calls are resolved in time and whose fields of globals are used in the
\* empty context (pta/context_sensitive.rs:217-313): each frame is a node under
\* the k newest of its call sites or receivers, the call that made it is an edge,
\* and what it and the globals hold is in the points-to sets, for every strategy
\* and k and for runs of any depth.
THEOREM RunsAreCovered == Spec => []RunsCovered
<1> DEFINE Inv == ResolvedInTime /\ FieldsInEmpty => AnalysisInv /\ RunInv
<1>1. Init => Inv
  <2>1. Init => RunInv
    BY NoFrames DEF Init, RunInv
  <2> QED
    BY <2>1, AnalysisInit
<1>2. Inv /\ NoMoreThanInsensitive /\ [Next]_vars => Inv'
  BY HypothesesKept, AnalysisStep, RunStep
<1>3. Inv => RunsCovered
  BY RunInvCovers DEF RunsCovered
<1>4. Spec => []NoMoreThanInsensitive
  BY ContextsOnlyRefine
<1> HIDE DEF Inv
<1> QED
  BY <1>1, <1>2, <1>3, <1>4, PTL DEF Spec

-----------------------------------------------------------------------------
(* Types: every context in use is in the cache, and short.                    *)

Short(ctx) == IsSeq(ctx) /\ Len(ctx) <= s.k
SiteTyped(site) ==
    /\ site.ctx \in cache /\ site.dest[2] \in cache
    /\ \A i \in DOMAIN site.args : site.args[i][2] \in cache
TypeInv ==
    /\ s \in Strategies
    /\ stage \in {"reach", "solve", "calls", "calls_reach", "instances", "instances_reach", "done"}
    /\ Empty \in cache /\ \A ctx \in cache : Short(ctx)
    /\ \A f \in func_nodes \cup reach_funcs : f[2] \in cache
    /\ \A e \in addr \cup direct : e[1][2] \in cache /\ e[2][2] \in cache
    /\ \A e \in pts : e[2][2] \in cache
    /\ \A r \in assoc_calls : SiteTyped(r.site)
    /\ \A c \in new_calls : SiteTyped(c[1])
    /\ \A c \in new_call_instances : SiteTyped(c[1]) /\ c[2][2] \in cache

LEMMA StaticContextShort ==
    ASSUME TypeInv, NEW site, SiteTyped(site)
    PROVE  Short(new_static_call_context(s, site))
<1>1. s.k \in Nat
  BY StrategyAssumption DEF TypeInv
<1>2. Short(site.ctx)
  BY DEF TypeInv, SiteTyped
<1> QED
  BY <1>1, <1>2, NewContextShort DEF new_static_call_context, Short

LEMMA InstanceContextShort ==
    ASSUME TypeInv, NEW site, SiteTyped(site), NEW o, o = NoReceiver \/ o[2] \in cache,
           NEW callee, NEW x \in InstanceCalls(site, o, callee)
    PROVE  Short(x[2][2])
<1>1. s.k \in Nat
  BY StrategyAssumption DEF TypeInv
<1>2. PICK ctx \in new_instance_call_context(s, site, o) : x = <<site, <<callee, ctx>>>>
  BY DEF InstanceCalls
<1>3. CASE ~NeedsReceiver(s)
  BY <1>2, <1>3, StaticContextShort DEF new_instance_call_context
<1>4. CASE NeedsReceiver(s)
  <2>1. o # NoReceiver /\ ctx = new_k_limited_context(o[2], ObjectElem(s, o[1]), s.k)
    BY <1>4 DEF new_instance_call_context
  <2>2. IsSeq(o[2])
    BY <2>1 DEF TypeInv, Short
  <2> QED
    BY <1>1, <1>2, <2>1, <2>2, NewContextShort DEF Short
<1> QED
  BY <1>3, <1>4

LEMMA NewCallsShort ==
    ASSUME TypeInv, NEW site, SiteTyped(site), NEW callee, HasSelf(callee) => 1 \in DOMAIN site.args,
           NEW x \in NewCalls(site, callee)
    PROVE  Short(x[2][2])
<1>1. CASE SelfKind[callee] = "ref"
  BY <1>1, InstanceContextShort DEF NewCalls
<1>2. CASE SelfKind[callee] = "move"
  <2>1. site.args[1][2] \in cache /\ x \in InstanceCalls(site, site.args[1], callee)
    BY <1>2 DEF NewCalls, HasSelf, SiteTyped
  <2> QED
    BY <2>1, InstanceContextShort
<1>3. CASE SelfKind[callee] \notin {"ref", "move"}
  BY <1>3, StaticContextShort DEF NewCalls
<1> QED
  BY <1>1, <1>2, <1>3

\* Contexts when calls are added from sites that are typed.
LEMMA TypeCalls ==
    ASSUME TypeInv, s' = s,
           NEW flow, NEW summarised, NEW others, NEW queue, AddCalls(flow, summarised, others, queue),
           queue \subseteq reach_funcs,
           \A x \in flow : SiteTyped(x[1]), \A x \in flow \cup summarised : Short(x[2][2]),
           \A e \in others : e[1][2] \in cache /\ e[2][2] \in cache
    PROVE  /\ cache \subseteq cache' /\ \A ctx \in cache' : Short(ctx)'
           /\ \A f \in func_nodes' \cup reach_funcs' : f[2] \in cache'
           /\ \A e \in direct' : e[1][2] \in cache' /\ e[2][2] \in cache'
           /\ \A site : SiteTyped(site) => SiteTyped(site)'
<1>1. /\ func_nodes' = func_nodes \cup {x[2] : x \in flow \cup summarised}
      /\ reach_funcs' = queue \cup (func_nodes' \ func_nodes)
  BY AddCallsAdds
<1>2. cache' = cache \cup {x[2][2] : x \in flow \cup summarised}
  BY DEF AddCalls, get_context_id
<1>3. \A ctx \in cache' : Short(ctx)
  BY <1>2 DEF TypeInv
<1>4. \A ctx : Short(ctx)' = Short(ctx)
  BY DEF Short
<1>5. \A f \in func_nodes' \cup reach_funcs' : f[2] \in cache'
  BY <1>1, <1>2 DEF TypeInv
<1>6. ASSUME NEW e \in direct' PROVE e[1][2] \in cache' /\ e[2][2] \in cache'
  <2>1. CASE e \in direct \cup others
    BY <1>2, <2>1 DEF TypeInv
  <2>2. CASE \E x \in flow : e \in add_inter_procedural_edges(x)
    <3>1. PICK x \in flow : e \in add_inter_procedural_edges(x)
      BY <2>2
    <3>2. \/ e = <<<<Ret[x[2][1]], x[2][2]>>, x[1].dest>>
          \/ \E i \in DOMAIN x[1].args \cap DOMAIN Params[x[2][1]] : e = <<x[1].args[i], <<Params[x[2][1]][i], x[2][2]>>>>
      BY <3>1 DEF add_inter_procedural_edges
    <3>3. SiteTyped(x[1]) /\ x[2][2] \in cache'
      BY <1>2
    <3> QED
      BY <1>2, <3>2, <3>3 DEF SiteTyped
  <2> QED
    BY <2>1, <2>2, AddCallsOnly
<1>7. \A site : SiteTyped(site) => SiteTyped(site)'
  BY <1>2 DEF SiteTyped
<1> QED
  BY <1>2, <1>3, <1>4, <1>5, <1>6, <1>7

LEMMA BodyTyped ==
    ASSUME TypeInv, NEW f, f[2] \in cache
    PROVE  /\ \A c : SiteTyped(mk_cs_callsite(c, f)) /\ DOMAIN mk_cs_callsite(c, f).args = DOMAIN c.args
           /\ \A edges : \A e \in EdgesIn(edges, f) : e[1][2] \in cache /\ e[2][2] \in cache
<1>1. \A p : mk_cs_path(p, f[2])[2] \in cache
  BY DEF mk_cs_path, TypeInv
<1>2. ASSUME NEW c PROVE SiteTyped(mk_cs_callsite(c, f)) /\ DOMAIN mk_cs_callsite(c, f).args = DOMAIN c.args
  <2> DEFINE site == mk_cs_callsite(c, f)
  <2>1. /\ DOMAIN site.args = DOMAIN c.args /\ site.dest = mk_cs_path(c.dest, f[2]) /\ site.ctx = f[2]
        /\ \A i \in DOMAIN c.args : site.args[i] = mk_cs_path(c.args[i], f[2])
    BY DEF mk_cs_callsite
  <2> HIDE DEF site
  <2>2. SiteTyped(site) /\ DOMAIN site.args = DOMAIN c.args
    BY <1>1, <2>1 DEF SiteTyped
  <2> QED
    BY <2>2 DEF site
<1>3. \A edges : \A e \in EdgesIn(edges, f) : e[1][2] \in cache /\ e[2][2] \in cache
  BY <1>1 DEF EdgesIn
<1> QED
  BY <1>2, <1>3

LEMMA TypeProcess ==
    ASSUME TypeInv, prog \in DOMAIN Program, process_reach_funcs, NEW f \in reach_funcs, ProcessReachFunc(f)
    PROVE  TypeInv'
<1> DEFINE F == add_fpag_edges(f)
           static == {<<mk_cs_callsite(c, f), c.callee>> : c \in Body(f[1]).static}
           special == {<<mk_cs_callsite(c, f), c.callee>> : c \in Body(f[1]).special}
           flow == UNION {NewCalls(c[1], c[2]) : c \in static}
           summarised == {<<c[1], <<c[2], new_static_call_context(s, c[1])>>>> : c \in special}
           directs(g) == EdgesIn(Body(g[1]).direct, g)
           addrs(g) == EdgesIn(Body(g[1]).addr, g)
           others == UNION {directs(g) : g \in F}
           selfs == UNION {SelfCalls(c[1], c[2]) : c \in static}
<1>1. f[1] \in DOMAIN Program[prog] /\ f[2] \in cache
  BY DEF ProcessReachFunc, TypeInv
<1>2. /\ addr' = addr \cup UNION {addrs(g) : g \in F}
      /\ process_calls_in_fpag(f, others, reach_funcs \ {f})
  BY Zenon DEF ProcessReachFunc
<1>3. AddCalls(flow, summarised, others, reach_funcs \ {f})
  BY <1>2, Zenon DEF process_calls_in_fpag
<1>4. assoc_calls' = assoc_calls \cup (selfs \cup Indirect("dispatch", Body(f[1]).dispatch, f)
                                        \cup Indirect("fnptr", Body(f[1]).fnptr, f))
  BY <1>2, Zenon DEF process_calls_in_fpag, Register
<1>5. UNCHANGED <<pts, new_calls, new_call_instances, stage, s>>
  BY DEF process_reach_funcs, solverVars, runVars
<1>6. \A g \in F : g[2] \in cache
  BY <1>1 DEF add_fpag_edges, TypeInv
<1> HIDE DEF F
<1>7. /\ \A e \in UNION {addrs(g) : g \in F} : e[1][2] \in cache /\ e[2][2] \in cache
      /\ \A e \in others : e[1][2] \in cache /\ e[2][2] \in cache
  <2>1. ASSUME NEW g \in F
        PROVE  \A e \in addrs(g) \cup directs(g) : e[1][2] \in cache /\ e[2][2] \in cache
    BY <1>6, BodyTyped
  <2> HIDE DEF addrs, directs
  <2> QED
    BY <2>1
<1>8. \A c : SiteTyped(mk_cs_callsite(c, f)) /\ DOMAIN mk_cs_callsite(c, f).args = DOMAIN c.args
  BY <1>1, BodyTyped
<1>9. ASSUME NEW x \in flow PROVE SiteTyped(x[1]) /\ Short(x[2][2])
  <2>1. PICK c \in Body(f[1]).static : x \in NewCalls(mk_cs_callsite(c, f), c.callee)
    OBVIOUS
  <2>2. HasSelf(c.callee) => 1 \in DOMAIN mk_cs_callsite(c, f).args
    BY <1>1, <1>8, ProgramAssumption DEF CallAssumption, Body
  <2>3. x[1] = mk_cs_callsite(c, f)
    BY <2>1, CallsShape
  <2> QED
    BY <1>8, <2>1, <2>2, <2>3, NewCallsShort
<1>10. ASSUME NEW x \in summarised PROVE Short(x[2][2])
  <2>1. PICK c \in Body(f[1]).special : x[2][2] = new_static_call_context(s, mk_cs_callsite(c, f))
    OBVIOUS
  <2> QED
    BY <1>8, <2>1, StaticContextShort
<1>11. ASSUME NEW r \in assoc_calls' PROVE SiteTyped(r.site)
  <2>1. CASE r \in assoc_calls
    BY <2>1 DEF TypeInv
  <2>2. CASE r \in selfs
    <3>1. PICK c \in Body(f[1]).static : r \in SelfCalls(mk_cs_callsite(c, f), c.callee)
      BY <2>2
    <3> QED
      BY <1>8, <3>1, CallsShape
  <2>3. CASE r \in Indirect("dispatch", Body(f[1]).dispatch, f) \cup Indirect("fnptr", Body(f[1]).fnptr, f)
    <3>1. \E c : r.site = mk_cs_callsite(c, f)
      BY <2>3 DEF Indirect, Registered
    <3> QED
      BY <1>8, <3>1
  <2> QED
    BY <1>4, <2>1, <2>2, <2>3
<1> HIDE DEF flow, summarised, others, selfs
<1>12. /\ cache \subseteq cache' /\ \A ctx \in cache' : Short(ctx)'
       /\ \A g \in func_nodes' \cup reach_funcs' : g[2] \in cache'
       /\ \A e \in direct' : e[1][2] \in cache' /\ e[2][2] \in cache'
       /\ \A site : SiteTyped(site) => SiteTyped(site)'
  BY <1>3, <1>5, <1>7, <1>9, <1>10, TypeCalls
<1>13. \A e \in addr' : e[1][2] \in cache' /\ e[2][2] \in cache'
  BY <1>2, <1>7, <1>12 DEF TypeInv
<1>14. \A r \in assoc_calls' : SiteTyped(r.site)'
  BY <1>11, <1>12
<1> QED
  BY <1>5, <1>12, <1>13, <1>14 DEF TypeInv

LEMMA TypeRound == ASSUME TypeInv, solve_worklist PROVE TypeInv'
<1> DEFINE carried(e) == {<<e[2], o>> : o \in Pointees(pts, e[1])}
<1>1. /\ UNCHANGED <<cache, func_nodes, reach_funcs, addr, direct, assoc_calls, new_calls, new_call_instances, stage, s>>
      /\ pts' = Derived(pts)
  BY DEF solve_worklist, graphVars, runVars
<1>2. ASSUME NEW x \in Derived(pts), x \notin pts PROVE x[2][2] \in cache
  <2>1. \/ \E e \in addr : x = <<e[2], e[1]>>
        \/ \E e \in direct : x \in carried(e)
    BY <1>2, Zenon DEF Derived
  <2>2. CASE \E e \in addr : x = <<e[2], e[1]>>
    BY <2>2 DEF TypeInv
  <2>3. CASE \E e \in direct : x \in carried(e)
    <3>1. PICK e \in direct : x \in carried(e)
      BY <2>3
    <3>2. PICK o \in Pointees(pts, e[1]) : x = <<e[2], o>>
      BY <3>1
    <3>3. PICK y \in pts : y[2] = o
      BY DEF Pointees
    <3> QED
      BY <3>2, <3>3 DEF TypeInv
  <2> QED
    BY <2>1, <2>2, <2>3
<1>3. \A x \in pts' : x[2][2] \in cache
  BY <1>1, <1>2 DEF TypeInv
<1> QED
  BY <1>1, <1>3 DEF TypeInv, Short, SiteTyped

LEMMA TypeReports == ASSUME TypeInv, propagate PROVE TypeInv'
<1> DEFINE R == Reports(pts)
<1>0. PICK receivers \in SUBSET ReceiversOf(CallsOf(R)) : new_call_instances' = InstancesOf(R) \cup receivers
  BY DEF propagate
<1>1. /\ UNCHANGED <<cache, func_nodes, reach_funcs, addr, direct, assoc_calls, pts, s>> /\ stage' \in {"done", "calls"}
      /\ new_calls' = CallsOf(R)
  BY DEF propagate, graphVars, runVars
<1>2. ASSUME NEW q \in R PROVE SiteTyped(q[1].site) /\ q[2][2] \in cache
  <2>1. q[1] \in assoc_calls /\ <<q[1].node, q[2]>> \in {<<x[1], x[2]>> : x \in pts}
    BY KnownIs DEF Reports
  <2>2. PICK x \in pts : <<q[1].node, q[2]>> = <<x[1], x[2]>>
    BY <2>1
  <2>3. q[2] = x[2]
    BY <2>2
  <2> QED
    BY <2>1, <2>3 DEF TypeInv
<1> HIDE DEF R
<1>3. ASSUME NEW c \in CallsOf(R) PROVE SiteTyped(c[1])
  BY <1>2 DEF CallsOf
<1>4. ASSUME NEW c \in InstancesOf(R) PROVE SiteTyped(c[1]) /\ c[2][2] \in cache
  <2>1. PICK q \in R : c[1] = q[1].site /\ c[2] = q[2]
    BY DEF InstancesOf
  <2> QED
    BY <1>2, <2>1
<1>5. ASSUME NEW c \in receivers PROVE SiteTyped(c[1]) /\ c[2][2] \in cache
  <2>1. PICK d \in CallsOf(R), x \in pts : c[1] = d[1] /\ c[2] = x[2]
    BY ReceiverIs
  <2> QED
    BY <1>3, <2>1 DEF TypeInv
<1> QED
  BY <1>0, <1>1, <1>3, <1>4, <1>5 DEF TypeInv, Short, SiteTyped

LEMMA TypeNewCalls == ASSUME TypeInv, PreciseInv, process_new_calls PROVE TypeInv'
<1> DEFINE flow == UNION {NewCalls(c[1], c[2]) : c \in new_calls}
           selfs == UNION {SelfCalls(c[1], c[2]) : c \in new_calls}
<1>1. /\ AddCalls(flow, {}, {}, reach_funcs) /\ assoc_calls' = assoc_calls \cup selfs
      /\ UNCHANGED <<addr, pts, new_calls, new_call_instances, s>> /\ stage' = "calls_reach"
  BY Zenon DEF process_new_calls, Register, Goto, runVars
<1>2. ASSUME NEW x \in flow PROVE SiteTyped(x[1]) /\ Short(x[2][2])
  <2>1. PICK c \in new_calls : x \in NewCalls(c[1], c[2])
    OBVIOUS
  <2>2. HasSelf(c[2]) => 1 \in DOMAIN c[1].args
    BY DEF PreciseInv, Precise, SiteCarries
  <2>3. x[1] = c[1]
    BY <2>1, CallsShape
  <2>4. SiteTyped(c[1])
    BY DEF TypeInv
  <2> QED
    BY <2>1, <2>2, <2>3, <2>4, NewCallsShort
<1>3. ASSUME NEW r \in selfs PROVE SiteTyped(r.site)
  <2>1. PICK c \in new_calls : r \in SelfCalls(c[1], c[2])
    OBVIOUS
  <2> QED
    BY <2>1, CallsShape DEF TypeInv
<1> HIDE DEF flow, selfs
<1>4. /\ cache \subseteq cache' /\ \A ctx \in cache' : Short(ctx)'
      /\ \A g \in func_nodes' \cup reach_funcs' : g[2] \in cache'
      /\ \A e \in direct' : e[1][2] \in cache' /\ e[2][2] \in cache'
      /\ \A site : SiteTyped(site) => SiteTyped(site)'
  BY <1>1, <1>2, TypeCalls
<1>5. \A r \in assoc_calls' : SiteTyped(r.site)
  BY <1>1, <1>3 DEF TypeInv
<1> QED
  BY <1>1, <1>4, <1>5 DEF TypeInv

LEMMA TypeNewInstances == ASSUME TypeInv, process_new_call_instances PROVE TypeInv'
<1> DEFINE flow == UNION {InstanceCalls(c[1], c[2], c[3]) : c \in new_call_instances}
<1>1. /\ AddCalls(flow, {}, {}, reach_funcs)
      /\ UNCHANGED <<addr, assoc_calls, pts, new_calls, new_call_instances, s>> /\ stage' = "instances_reach"
  BY Zenon DEF process_new_call_instances, solverVars, Goto, runVars
<1>2. ASSUME NEW x \in flow PROVE SiteTyped(x[1]) /\ Short(x[2][2])
  <2>1. PICK c \in new_call_instances : x \in InstanceCalls(c[1], c[2], c[3])
    OBVIOUS
  <2>2. SiteTyped(c[1]) /\ c[2][2] \in cache
    BY DEF TypeInv
  <2>3. x[1] = c[1]
    BY <2>1 DEF InstanceCalls
  <2> QED
    BY <2>1, <2>2, <2>3, InstanceContextShort
<1> HIDE DEF flow
<1>3. /\ cache \subseteq cache' /\ \A ctx \in cache' : Short(ctx)'
      /\ \A g \in func_nodes' \cup reach_funcs' : g[2] \in cache'
      /\ \A e \in direct' : e[1][2] \in cache' /\ e[2][2] \in cache'
      /\ \A site : SiteTyped(site) => SiteTyped(site)'
  BY <1>1, <1>2, TypeCalls
<1> QED
  BY <1>1, <1>3 DEF TypeInv

LEMMA TypeStep == ASSUME TypeInv, PreciseInv, [Next]_vars PROVE TypeInv'
<1>1. ASSUME UNCHANGED <<cache, func_nodes, addr, direct, assoc_calls, pts, new_calls, new_call_instances, s>>,
             reach_funcs' \subseteq reach_funcs,
             stage' \in {"reach", "solve", "calls", "calls_reach", "instances", "instances_reach", "done"}
      PROVE  TypeInv'
  BY <1>1 DEF TypeInv, Short, SiteTyped
<1>2. CASE process_reach_funcs
  <2>1. PICK f \in reach_funcs : SkipReachFunc(f) \/ ProcessReachFunc(f)
    BY <1>2 DEF process_reach_funcs
  <2>2. CASE SkipReachFunc(f)
    BY <1>1, <1>2, <2>2 DEF SkipReachFunc, process_reach_funcs, solverVars, runVars, TypeInv
  <2> QED
    BY <1>2, <2>1, <2>2, TypeProcess DEF PreciseInv
<1>3. CASE ReachDone
  BY <1>1, <1>3 DEF ReachDone, Goto, graphVars, solverVars, runVars
<1>4. CASE solve_worklist \/ propagate \/ process_new_calls \/ process_new_call_instances
  BY <1>4, TypeRound, TypeReports, TypeNewCalls, TypeNewInstances
<1>5. CASE StartRun \/ RunStatements \/ RunCall \/ RunReturn
  BY <1>1, <1>5 DEF StartRun, RunStatements, RunCall, RunReturn, Settled, Running, driverVars, graphVars, solverVars, TypeInv
<1>6. CASE UNCHANGED vars
  BY <1>1, <1>6 DEF vars, driverVars, graphVars, solverVars, runVars, TypeInv
<1> QED
  BY <1>2, <1>3, <1>4, <1>5, <1>6 DEF Next, Analyse

\* No context is longer than k, and every context that a node or an edge has was
\* given a number by the cache (mir/context.rs:55-76, 107-127).
THEOREM ContextsTyped == Spec => []TypeOK
<1>1. Init => TypeInv
  <2> SUFFICES ASSUME Init PROVE TypeInv
    OBVIOUS
  <2>1. s \in Strategies /\ Short(Empty)
    BY StrategyAssumption, EmptyContext DEF Init, Short
  <2> QED
    BY <2>1 DEF Init, TypeInv
<1>2. Init => PreciseInv
  BY PreciseInit
<1>3. TypeInv /\ PreciseInv /\ [Next]_vars => (TypeInv /\ PreciseInv)'
  BY TypeStep, PreciseStep
<1>4. TypeInv => TypeOK
  <2> DEFINE at(e) == {e[1][2], e[2][2]}
  <2> SUFFICES ASSUME TypeInv PROVE TypeOK
    OBVIOUS
  <2>1. \A e \in addr \cup direct : at(e) \subseteq cache
    BY DEF TypeInv
  <2>2. UNION {at(e) : e \in addr \cup direct} \subseteq cache
    BY <2>1
  <2>3. {f[2] : f \in func_nodes} \cup (UNION {at(e) : e \in addr \cup direct}) \subseteq cache
    BY <2>2 DEF TypeInv
  <2> QED
    BY <2>3 DEF TypeInv, TypeOK, Short
<1> QED
  BY <1>1, <1>2, <1>3, <1>4, PTL DEF Spec
=============================================================================
