--------------------------- MODULE CastPropagator ---------------------------
(***************************************************************************)
(* The solver's cast edges (pta/propagator/propagator.rs): a pointee crosses  *)
(* a cast edge as a variant of itself, and the pointers inside an object and  *)
(* its variants are linked by edges that are added and propagated at once,    *)
(* in the middle of handle_cast.  Address, direct and cast edges only; the    *)
(* rest of the solver is Propagator.  Stack filtering is off.                 *)
(***************************************************************************)
EXTENDS PathCasts

CONSTANTS
    CastConstraint,   \* the analysis option cast_constraint
    HeapObjs,         \* bases that are heap objects
    ConcreteType,     \* heap object -> its type where the builder found one
    DirectEdges, CastEdges,   \* <<src, dst>>, what the builder added
    AddrEdges                 \* <<object, pointer>>, added over several solves

VARIABLES
    type_list, path_cast_types,
    diff, propa,        \* pointer -> pointees, for pointers that have any
    worklist,
    direct_edges,       \* the direct edges of the graph
    cast_edges,         \* the cast edges of the graph
    cast_out_edges,     \* those that handle_cast will find
    cur,                \* the node in process_node, NoPath outside of it
    taken,              \* its cast edges as handle_cast took them
    todo,               \* those it has not processed
    addr_left           \* address edges the driver has not added

solver == <<type_list, path_cast_types, diff, propa, worklist, direct_edges, cast_edges, cast_out_edges>>
vars == <<tcx, solver, cur, taken, todo, addr_left>>

\* The solver's state as one value, for handlers that run through several steps.
State == [types |-> type_list, casts |-> path_cast_types, diff |-> diff, propa |-> propa,
          worklist |-> worklist, direct |-> direct_edges, cast |-> cast_edges, out |-> cast_out_edges,
          changed |-> FALSE]   \* the local variable of propagate and propagate_cast

SetState(st) ==
    /\ type_list' = st.types /\ path_cast_types' = st.casts
    /\ diff' = st.diff /\ propa' = st.propa /\ worklist' = st.worklist
    /\ direct_edges' = st.direct /\ cast_edges' = st.cast /\ cast_out_edges' = st.out

OverSet(step(_, _), st, S) == FoldSet(LAMBDA x, acc : Then(acc, LAMBDA a : step(a, x)), st, S)
OverSeq(step(_, _), st, seq) == FoldLeft(LAMBDA acc, x : Then(acc, LAMBDA a : step(a, x)), st, seq)

-----------------------------------------------------------------------------
Get(map, n) == IF n \in DOMAIN map THEN map[n] ELSE {}
Put(map, n, S) == [x \in DOMAIN map \cup {n} |-> IF x = n THEN S ELSE map[x]]
Pts(st, n) == Get(st.diff, n) \cup Get(st.propa, n)
TypeIn(st, n) == try_eval_path_type(st.types, n)

M_InsertPts(st, n, S) == \* a pointee propagated before counts as new
    IF S \subseteq Get(st.diff, n) THEN st
    ELSE [st EXCEPT !.diff = Put(@, n, Get(@, n) \cup S), !.changed = TRUE]

\* add_pts for each of S
InsertPts(st, n, S) ==
    LET new == S \ Pts(st, n)
    IN  IF new = {} THEN st
        ELSE [st EXCEPT !.diff = Put(@, n, Get(@, n) \cup new), !.changed = TRUE]

\* A loop that adds to n: when it is done, n is pushed once if anything was new.
LoopStart(st) == [st EXCEPT !.changed = FALSE]
LoopEnd(st, n, done) ==
    Then(done, LAMBDA d :
        [d EXCEPT !.changed = st.changed,
                  !.worklist = IF d.changed THEN Append(@, n) ELSE @])

AddPts(st, n, S) == LoopEnd(st, n, InsertPts(LoopStart(st), n, S))

get_cloned_pts(st, n, diff_only) == IF diff_only THEN Get(st.diff, n) ELSE Pts(st, n)

type_filter_pred(st, o, src_deref, dst_deref) ==
    Kind(src_deref) = "dyn" /\ Kind(dst_deref) # "dyn" /\ ~equal_types(TypeIn(st, o), dst_deref)

\* What crosses a direct edge.
Passes(st, src, dst, S) ==
    IF equivalent_ptr_types(TypeIn(st, src), TypeIn(st, dst))
      THEN {o \in S : ~type_filter_pred(st, o, get_dereferenced_type(TypeIn(st, src)),
                                               get_dereferenced_type(TypeIn(st, dst)))}
      ELSE {}

propagate(st, src, dst, diff_only) ==
    AddPts(st, dst, Passes(st, src, dst, get_cloned_pts(st, src, diff_only)))

add_direct_edge_and_propagate(st, src, dst) ==
    IF <<src, dst>> \in st.direct THEN st
    ELSE propagate([st EXCEPT !.direct = @ \cup {<<src, dst>>}], src, dst, FALSE)

LinkDirect(st, a, b) ==
    Then(add_direct_edge_and_propagate(st, a, b), LAMBDA s : add_direct_edge_and_propagate(s, b, a))

\* What a cast answers becomes a pointee of dst; it answers no path at times.
AddCastPts(st, dst, res) ==
    InsertPts([st EXCEPT !.types = res.types, !.casts = res.casts], dst, {res.path} \ {NoPath})

-----------------------------------------------------------------------------
(* Which pointees to cast under cast_constraint.                            *)

has_been_cast(st, q) == q \in DOMAIN st.casts

\* The last resort for a heap object of a known type: arrays of that type.
HeapCastAllowed(q, t) ==
    /\ ~IsQualified(q) /\ q.base \in HeapObjs
    /\ q.base \in DOMAIN ConcreteType =>
          Kind(t) \in {"array", "slice"} /\ equal_types(ConcreteType[q.base], Elem(t))

\* The pointee q of a pointer to a basic type, given what casting it anew and
\* the variant known from earlier casts would be.
BasicPointee(st, dst, q, new, known) ==
    LET dst_ty == TypeIn(st, dst)
        casts == \/ ~has_been_cast(st, q)
                 \/ /\ known.path = NoPath
                    /\ is_basic_pointer(dst_ty) \/ HeapCastAllowed(q, get_dereferenced_type(dst_ty))
    IN  IF casts /\ new.path # NoPath THEN AddCastPts(st, dst, new)
        ELSE AddCastPts(st, dst, [types |-> known.types, casts |-> st.casts, path |-> known.path])

BasicCast(st, dst, o) ==
    Then(get_dereferenced_type(TypeIn(st, dst)), LAMBDA t :
        Then(get_regularized_path(st.types, o), LAMBDA q :
            BasicPointee(st, dst, q, cast_to(st.types, st.casts, q, t), get_type_variant(st.types, st.casts, q, t))))

-----------------------------------------------------------------------------
(* Function pointers.                                                       *)

cast_and_add_pts(st, dst, o) ==
    Then(cast_to(st.types, st.casts, o, get_dereferenced_type(TypeIn(st, dst))),
         LAMBDA res : AddCastPts(st, dst, res))

uncast_and_add_fnptr_pts(st, dst, o) ==
    LET p == remove_cast(o)
    IN  InsertPts(st, dst, IF Kind(TypeIn(st, p)) \in {"fndef", "closure"} THEN {p} ELSE {})

-----------------------------------------------------------------------------
(* propagate_cast and cast_between_flattened_fields call each other.        *)

M_add_cast_edge(st, src, dst) == \* the solver is not told of the edge
    [st EXCEPT !.cast = @ \cup {<<src, dst>>}]
add_cast_edge(st, src, dst) ==
    [st EXCEPT !.cast = @ \cup {<<src, dst>>}, !.out = @ \cup {<<src, dst>>}]

M_LinkEnums(st, a, b, t) == \* enums are not linked
    st
LinkEnums(st, a, b, t) ==
    OverSeq(LAMBDA acc, part : LinkDirect(acc, append_projection(a, part[1]), append_projection(b, part[1])),
            st, get_pointer_projections(t))

RECURSIVE propagate_cast(_, _, _, _)
propagate_cast(st, src, dst, diff_only) ==
    LET src_ty == TypeIn(st, src)
        dst_ty == TypeIn(st, dst)
        pts == get_cloned_pts(st, src, diff_only)
        link_cast(acc, a, b) ==
            IF <<a, b>> \in acc.cast THEN acc
            ELSE Then(add_cast_edge(acc, a, b), LAMBDA s : propagate_cast(s, a, b, FALSE))
        link_fields(acc, pair) ==
            LET f == pair[1]
                g == pair[2]
            IN  IF is_any_ptr(f.ty) /\ is_any_ptr(g.ty)
                  THEN IF equivalent_ptr_types(f.ty, g.ty)
                         THEN LinkDirect(acc, f.path, g.path)
                         ELSE Then(link_cast(acc, f.path, g.path), LAMBDA s : link_cast(s, g.path, f.path))
                ELSE IF Kind(f.ty) = "enum" /\ f.ty = g.ty THEN LinkEnums(acc, f.path, g.path, f.ty)
                ELSE acc
        cast_one(acc, o) ==
            Then(cast_to(acc.types, acc.casts, o, get_dereferenced_type(dst_ty)), LAMBDA res :
                Then(AddCastPts(acc, dst, res), LAMBDA made :
                    IF res.path = NoPath THEN made
                    ELSE OverSeq(link_fields, made,
                                 SameOffsets(flatten_fields(o, TypeIn(made, o)),
                                             flatten_fields(res.path, TypeIn(made, res.path))))))
        each(acc, o) ==
            CASE Kind(src_ty) = "fnptr" -> cast_and_add_pts(acc, dst, o)
              [] Kind(src_ty) # "fnptr" /\ Kind(dst_ty) = "fnptr" -> uncast_and_add_fnptr_pts(acc, dst, o)
              [] Kind(src_ty) # "fnptr" /\ Kind(dst_ty) # "fnptr" /\ CastConstraint /\ is_basic_pointer(src_ty) ->
                    BasicCast(acc, dst, o)
              [] OTHER -> cast_one(acc, o)
    IN  LoopEnd(st, dst, OverSet(each, LoopStart(st), pts))

-----------------------------------------------------------------------------
Init ==
    /\ tcx \in Layouts
    /\ type_list = <<>> /\ path_cast_types = [p \in {} |-> {}]
    /\ diff = [p \in {} |-> {}] /\ propa = [p \in {} |-> {}]
    /\ worklist = <<>>
    /\ direct_edges = DirectEdges
    /\ cast_edges = CastEdges /\ cast_out_edges = CastEdges
    /\ cur = NoPath /\ taken = {} /\ todo = {}
    /\ addr_left = AddrEdges

\* The driver adds address edges, solve_worklist activates them.
Solve(E) ==
    /\ worklist = <<>> /\ cur = NoPath
    /\ \E st \in {OverSet(LAMBDA acc, e : AddPts(acc, e[2], {e[1]}), State, E)} : SetState(st)
    /\ addr_left' = addr_left \ E
    /\ UNCHANGED <<tcx, cur, taken, todo>>

\* process_node: direct edges first, then the node's cast edges leave the map.
PopNode ==
    /\ worklist # <<>> /\ cur = NoPath
    /\ LET n == Head(worklist)
           popped == [State EXCEPT !.worklist = Tail(@)]
           out == {e \in cast_out_edges : e[1] = n}
       IN  /\ \E st \in {OverSet(LAMBDA acc, e : propagate(acc, e[1], e[2], TRUE), popped,
                                 {e \in direct_edges : e[1] = n})} :
                  SetState([st EXCEPT !.out = @ \ out])
           /\ cur' = n /\ taken' = out /\ todo' = out
    /\ UNCHANGED <<tcx, addr_left>>

HandleCastEdge(e) ==
    /\ \E st \in {propagate_cast(State, e[1], e[2], TRUE)} : SetState(st)
    /\ todo' = todo \ {e}
    /\ UNCHANGED <<tcx, cur, taken, addr_left>>

\* The old list replaces the one that was filled meanwhile, if there was one;
\* then the node is flushed.
FinishNode ==
    /\ cur # NoPath /\ todo = {}
    /\ cast_out_edges' = (IF taken = {} THEN cast_out_edges
                          ELSE {e \in cast_out_edges : e[1] # cur} \cup taken)
    /\ propa' = IF Get(diff, cur) = {} THEN propa ELSE Put(propa, cur, Pts(State, cur))
    /\ diff' = IF cur \in DOMAIN diff THEN [diff EXCEPT ![cur] = {}] ELSE diff
    /\ cur' = NoPath /\ taken' = {}
    /\ UNCHANGED <<tcx, type_list, path_cast_types, worklist, direct_edges, cast_edges, todo, addr_left>>

Next ==
    \/ \E E \in (SUBSET addr_left) \ {{}} : Solve(E)
    \/ PopNode
    \/ \E e \in todo : HandleCastEdge(e)
    \/ FinishNode

Spec == Init /\ [][Next]_vars

-----------------------------------------------------------------------------
Quiet == worklist = <<>> /\ cur = NoPath
Pointees(n) == Pts(State, n)

\* Every pointer and pointee has a type, and only pointers have pointees.
TypeOK ==
    /\ tcx \in Layouts /\ type_list \in Seq(Ty)
    /\ cast_out_edges \cup taken \subseteq cast_edges /\ todo \subseteq taken
    /\ cur = NoPath => taken = {}
    /\ \A n \in DOMAIN diff \cup DOMAIN propa :
          /\ is_any_ptr(TypeIn(State, n))
          /\ \A o \in Pointees(n) : TypeIn(State, o) \in Ty

\* When the worklist is empty every direct edge has carried what its filter
\* lets through (pta/propagator/propagator.rs:702-763).
DirectEdgesHandled ==
    Quiet => \A e \in direct_edges : Passes(State, e[1], e[2], Pointees(e[1])) \subseteq Pointees(e[2])

\* ... and every cast edge each pointee's variant of the type it casts to: a
\* function only without its cast, and under cast_constraint a pointee of a
\* basic pointer unless it was cast to something else before
\* (pta/propagator/propagator.rs:230, 801-928).
CastEdgesHandled ==
    Quiet => \A e \in cast_edges :
        LET src_ty == TypeIn(State, e[1])
            dst_ty == TypeIn(State, e[2])
        IN  \A o \in Pointees(e[1]) :
                LET p == remove_cast(o)
                    q == get_regularized_path(type_list, o)
                    v == cast_to(type_list, path_cast_types, o, get_dereferenced_type(dst_ty)).path
                IN  IF Kind(dst_ty) = "fnptr" /\ Kind(src_ty) # "fnptr"
                      THEN Kind(TypeIn(State, p)) \in {"fndef", "closure"} => p \in Pointees(e[2])
                    ELSE \/ v = NoPath \/ v \in Pointees(e[2])
                         \/ CastConstraint /\ is_basic_pointer(src_ty) /\ has_been_cast(State, q)

\* When the worklist is empty nothing is left behind on an edge of either kind,
\* also on the edges that handle_cast added while it ran
\* (pta/propagator/propagator.rs:230-245, 702-988).
CastsSolved == TypeOK /\ DirectEdgesHandled /\ CastEdgesHandled

\* An object and its variant share memory: pointers of equivalent types at the
\* same offset point to the same (pta/propagator/propagator.rs:930-988).
VariantsAgree ==
    Quiet => \A e \in cast_edges :
        LET src_ty == TypeIn(State, e[1])
            t == get_dereferenced_type(TypeIn(State, e[2]))
        IN  (\A ty \in {src_ty, TypeIn(State, e[2])} : Kind(ty) # "fnptr" /\ ~is_basic_pointer(ty)) =>
              \A o \in Pointees(e[1]) : \A v \in {cast_to(type_list, path_cast_types, o, t).path} \ {NoPath} :
                  LET o_ty == TypeIn(State, o)
                      v_ty == TypeIn(State, v)
                  IN  \A f \in Range(get_pointer_projections(o_ty)), g \in Range(get_pointer_projections(v_ty)) :
                        (/\ equivalent_ptr_types(f[2], g[2])
                         /\ \/ f[1] = g[1]
                            \/ /\ Followed(o_ty, f[1]) /\ Followed(v_ty, g[1])
                               /\ ConcreteOffset(o_ty, f[1]) = ConcreteOffset(v_ty, g[1]))
                        => Pointees(append_projection(o, f[1])) = Pointees(append_projection(v, g[1]))

\* Casts of casts end: the solver cannot take steps for ever ("To avoid
\* infinite casts", util/type_util.rs:307).
CastsEnd == <>[][FALSE]_vars
=============================================================================
