--------------------------- MODULE FuncPAGBuilder ---------------------------
(***************************************************************************)
(* builder/fpag_builder.rs: the edges and call sites that the statements of   *)
(* one function body become.  A place is a local with projection elements, of *)
(* which only the first may be a dereference (the compiler's deref_separator  *)
(* sees to that); an operand is a place or a constant.  The builder's state   *)
(* is one value b that every visitor takes and answers.  Opaque types and     *)
(* generic arguments are specialized before a type gets its name here.        *)
(***************************************************************************)
EXTENDS PathCasts

CONSTANTS
    Boxed,        \* box type -> the type of its contents
    PtrTo,        \* type -> a pointer to it
    FnPath,       \* type of a function or closure -> its Function path's base
    ByRef,        \* closure types whose body takes the closure by reference
    ArrSummary,   \* array type -> the object that stands for all such arrays of promoteds
    AuxNames,     \* the names of auxiliary locals, in the order of creation
    ConstDef,     \* constant -> [kind, base, ty]
    CalleeDef     \* called function -> [known, class, gen, target]

Deref == Sel("Deref", 0)
First == Sel("Field", 1)
Ok == Sel("Downcast", 1)

FuncPAGBuilderNew(owner, promoted) ==
    [edges |-> {}, aux |-> <<>>, path_cache |-> [p \in {} |-> NoPath], statics |-> {}, calls |-> {},
     special_functions |-> {}, types |-> <<>>, casts |-> [p \in {} |-> {}], concretized |-> {},
     owner |-> owner, promoted |-> promoted, panic |-> FALSE]

Panic(b, cond) == [b EXCEPT !.panic = @ \/ cond]

\* new_qualified and new_deref assert that their base is not qualified.
Unqualified(b, p) == Panic(b, IsQualified(p))

-----------------------------------------------------------------------------
(* Auxiliary locals, types and edges.                                       *)

create_aux_local(b, ty) == [b EXCEPT !.aux = Append(@, ty)]
NextAux(b) == Base(AuxNames[Len(b.aux) + 1])   \* the one it makes

TypeOfBase(b, base) ==
    IF base \in Range(AuxNames) THEN b.aux[CHOOSE n \in DOMAIN AuxNames : AuxNames[n] = base]
    ELSE BaseType[base]
PathType(b, p) == TypeBehind(b.types, TypeOfBase(b, p.base), p.proj)

add_edge(b, kind, src, proj, dst) ==
    [b EXCEPT !.edges = @ \cup {[kind |-> kind, src |-> src, proj |-> proj, dst |-> dst]}]
add_addr_edge(b, src, dst) == add_edge(b, "addr", src, <<>>, dst)
add_direct_edge(b, src, dst) == add_edge(b, "direct", src, <<>>, dst)
add_cast_edge(b, src, dst) == add_edge(b, "cast", src, <<>>, dst)
add_offset_edge(b, src, dst) == add_edge(b, "offset", src, <<>>, dst)
add_store_edge(b, src, dst) == add_edge(b, "store", src, Tail(dst.proj), Base(dst.base))
add_load_edge(b, src, dst) == add_edge(b, "load", Base(src.base), Tail(src.proj), dst)
add_gep_edge(b, src, dst) == add_edge(b, "gep", Base(src.base), Tail(src.proj), dst)

add_edge_between_ptrs(b, src, dst) ==
    CASE ~is_deref_path(src) /\ ~is_deref_path(dst) -> add_direct_edge(b, src, dst)
      [] is_deref_path(src) /\ ~is_deref_path(dst) -> add_load_edge(b, src, dst)
      [] ~is_deref_path(src) /\ is_deref_path(dst) -> add_store_edge(b, src, dst)
      [] OTHER -> Panic(b, TRUE)

add_internal_edges(b, src, src_type, dst, dst_type) ==
    IF ~equal_types(src_type, dst_type) THEN b
    ELSE IF is_any_ptr(src_type) THEN add_edge_between_ptrs(b, src, dst)
    ELSE FoldLeft(LAMBDA acc, part :
             add_edge_between_ptrs(acc, append_projection(src, part[1]), append_projection(dst, part[1])),
             b, get_pointer_projections(src_type))

\* Neither end of the edge it adds is a dereference.
transmute_pointers(b, src, src_type, dst, dst_type) ==
    LET loads == is_deref_path(src)
        b1 == IF loads THEN add_load_edge(create_aux_local(b, src_type), src, NextAux(b)) ELSE b
        from == IF loads THEN NextAux(b) ELSE src
        stores == is_deref_path(dst)
        b2 == IF stores THEN add_store_edge(create_aux_local(b1, dst_type), NextAux(b1), dst) ELSE b1
        to == IF stores THEN NextAux(b1) ELSE dst
    IN  IF equivalent_ptr_types(src_type, dst_type) THEN add_direct_edge(b2, from, to)
        ELSE add_cast_edge(b2, from, to)

copy_flattened_fields(b, src_fields, dst_fields) ==
    FoldLeft(LAMBDA acc, pair :
        IF is_any_ptr(pair[1].ty) /\ is_any_ptr(pair[2].ty)
          THEN transmute_pointers(acc, pair[1].path, pair[1].ty, pair[2].path, pair[2].ty)
          ELSE acc,
        b, SameOffsets(src_fields, dst_fields))

copy_and_transmute(b, src, src_type, dst, dst_type) ==
    copy_flattened_fields(b, flatten_fields(src, src_type), flatten_fields(dst, dst_type))

\* For each union on the way to p, from the field that was written to the others.
M_cast_between_union_fields(b, p) == \* the other fields are left alone
    b
cast_between_union_fields(b, p) ==
    LET others(n) == LET union_type == PathType(b, truncate_projection_elems(p, n - 1))
                     IN  SelectSeq([i \in DOMAIN Fields(union_type) |-> i], LAMBDA i : i # p.proj[n][2])
        copy_to(n, acc, i) ==
            LET union_path == truncate_projection_elems(p, n - 1)
                src == NewUnionField(union_path, p.proj[n][2])
                dst == NewUnionField(union_path, i)
            IN  copy_and_transmute(acc, src, PathType(acc, src), dst, PathType(acc, dst))
    IN  FoldLeft(LAMBDA acc, n : FoldLeft(LAMBDA a, i : copy_to(n, a, i), acc, others(n)),
                 b, SelectSeq([n \in DOMAIN p.proj |-> n], LAMBDA n : p.proj[n][1] = "UnionField"))

-----------------------------------------------------------------------------
(* Places and constants, answered as [b, path].                             *)

At(b, p) == [b |-> b, path |-> p]

\* An element with its index is the summary of all elements.
visit_projection_elem(base_ty, elem) ==
    CASE elem[1] = "Field" /\ Kind(base_ty) = "union" -> Sel("UnionField", elem[2])
      [] elem[1] = "Index" -> Sel("Index", 0)
      [] OTHER -> elem

get_box_pointer_field(p) == append_projection(p, <<First, First, First>>)

\* A box is dereferenced through an auxiliary local that holds its pointer.
visit_projection(b, base, projection) ==
    FoldLeft(LAMBDA acc, elem :
        LET aux == NextAux(acc.b)
            field == get_box_pointer_field(Base(acc.path.base))
            sel == visit_projection_elem(acc.ty, elem)
        IN  IF elem[1] \in {"Subslice", "OpaqueCast", "Subtype"} THEN acc
            ELSE IF elem = Deref /\ acc.ty \in DOMAIN Boxed
              THEN [b |-> add_direct_edge(create_aux_local(acc.b, PathType(acc.b, field)), field, aux),
                    path |-> Path(aux.base, Append(acc.path.proj, Deref)), ty |-> Boxed[acc.ty]]
            ELSE [acc EXCEPT !.path = append_projection(@, <<sel>>), !.ty = TypeOfSelector(acc.b.types, @, sel)],
        [b |-> b, path |-> Base(base), ty |-> TypeOfBase(b, base)], projection)

get_path_for_place(b, place) ==
    IF place \in DOMAIN b.path_cache THEN At(b, b.path_cache[place])
    ELSE Then(visit_projection(b, place.base, place.proj), LAMBDA r :
            At([r.b EXCEPT !.path_cache = [p \in DOMAIN @ \cup {place} |-> IF p = place THEN r.path ELSE @[p]]],
               r.path))

\* What the constant stands for; Constant where the analysis does not follow it.
visit_const_operand(b, c) ==
    LET def == ConstDef[c]
        aux == NextAux(b)
        involved == [b EXCEPT !.statics = @ \cup {Base(def.base)}]
    IN  CASE def.kind \in {"promoted", "fn", "closure"} -> At(b, Base(def.base))
          [] def.kind = "unevaluated" -> At(involved, Base(def.base))
          [] def.kind = "static_ptr" ->
                 At(add_addr_edge(create_aux_local(involved, def.ty), Base(def.base), aux), aux)
          [] def.kind = "memory_ptr" -> At(create_aux_local(b, def.ty), aux)
          [] OTHER -> At(b, Base(Constant))

OperandPath(b, op) ==
    IF op.kind = "place" THEN get_path_for_place(b, op.place) ELSE visit_const_operand(b, op.const)

\* as [b, paths]
visit_args(b, args) ==
    FoldLeft(LAMBDA acc, op :
                 Then(OperandPath(acc.b, op), LAMBDA r : [b |-> r.b, paths |-> Append(acc.paths, r.path)]),
             [b |-> b, paths |-> <<>>], args)

-----------------------------------------------------------------------------
(* Right-hand sides.                                                        *)

NoPointers(ty) == ~is_any_ptr(ty) /\ get_pointer_projections(ty) = <<>>

M_visit_copy_or_move(b, lh, place) == \* one edge, whatever the two sides are
    Then(get_path_for_place(b, place), LAMBDA r :
        add_internal_edges(r.b, r.path, PathType(r.b, r.path), lh, PathType(r.b, lh)))

visit_copy_or_move(b, lh, place) ==
    Then(get_path_for_place(b, place), LAMBDA r :
        LET rh_type == PathType(r.b, r.path)
            lh_type == PathType(r.b, lh)
            aux == NextAux(r.b)
        IN  Then(IF is_deref_path(lh) /\ is_deref_path(r.path)
                   THEN At(add_internal_edges(create_aux_local(r.b, rh_type), r.path, rh_type, aux, rh_type), aux)
                   ELSE r,
                 LAMBDA from : add_internal_edges(from.b, from.path, rh_type, lh, lh_type)))

visit_constant_assign(b, lh, c) ==
    IF NoPointers(PathType(b, lh)) THEN b
    ELSE Then(visit_const_operand(b, c), LAMBDA r :
        IF r.path.base = Constant THEN r.b
        ELSE add_internal_edges(r.b, r.path, PathType(r.b, r.path), lh, PathType(b, lh)))

visit_use(b, lh, op) ==
    IF op.kind = "place" THEN visit_copy_or_move(b, lh, op.place) ELSE visit_constant_assign(b, lh, op.const)

\* A dereference on the left is stored from an auxiliary local.
AddressOf(b, rh, rh_type, lh) ==
    IF b.promoted /\ rh_type \in DOMAIN ArrSummary THEN add_addr_edge(b, Base(ArrSummary[rh_type]), lh)
    ELSE IF ~is_deref_path(rh) THEN add_addr_edge(b, rh, lh)
    ELSE IF Len(rh.proj) = 1 THEN add_direct_edge(b, Base(rh.base), lh)
    ELSE add_gep_edge(b, rh, lh)

visit_ref_or_address_of(b, lh, place) ==
    Then(get_path_for_place(b, place), LAMBDA r :
        Then(IF is_deref_path(lh)
               THEN At(add_store_edge(create_aux_local(r.b, PathType(r.b, lh)), NextAux(r.b), lh), NextAux(r.b))
               ELSE At(r.b, lh),
             LAMBDA to : AddressOf(to.b, r.path, PathType(r.b, r.path), to.path)))

\* visit_cast leaves no dereference on the left.
add_fnptr_cast_edge(b, lh, rh) == add_addr_edge(b, rh, lh)

\* kind: direct (DynStar, MutToConstPointer, UnsafeFnPointer), reify, closure,
\* unsize, ptr (ArrayToPointer, PtrToPtr, FnPtrToPtr), transmute; int for the rest.
CastInto(b, lh, lh_type, kind, op, ty) ==
    Then(OperandPath(b, op), LAMBDA r :
        LET rh_type == PathType(r.b, r.path)
            place == op.kind = "place"
        IN  CASE kind = "direct" -> add_direct_edge(r.b, r.path, lh)
              [] kind = "reify" -> add_fnptr_cast_edge(r.b, lh, Base(FnPath[rh_type]))
              [] kind = "closure" -> add_fnptr_cast_edge(r.b, lh, r.path)
              [] kind = "unsize" \/ (kind = "transmute" /\ place) ->
                     IF place \/ (rh_type # Never /\ is_any_ptr(ty))
                       THEN copy_and_transmute(r.b, r.path, rh_type, lh, lh_type) ELSE r.b
              [] kind = "ptr" /\ place ->
                     IF is_any_ptr(lh_type) /\ is_any_ptr(rh_type)
                       THEN transmute_pointers(r.b, r.path, rh_type, lh, lh_type) ELSE r.b
              [] OTHER -> b)

visit_cast(b, lh, kind, op, ty) ==
    LET lh_type == PathType(b, lh)
        aux == NextAux(b)
    IN  Then(IF is_deref_path(lh)
               THEN At(add_internal_edges(create_aux_local(b, lh_type), aux, lh_type, lh, lh_type), aux)
               ELSE At(b, lh),
             LAMBDA to : CastInto(to.b, to.path, lh_type, kind, op, ty))

\* The parts of lh that a repetition or an aggregate assigns: <<part, operand>>.
visit_repeat(b, lh, op) == IF Kind(PathType(b, lh)) = "array" THEN <<<<NewIndex(lh), op>>>> ELSE <<>>

\* variant: of an enum; for a union the field that is written
visit_aggregate(b, lh, variant, ops) ==
    LET kind == Kind(PathType(b, lh))
        whole == IF kind = "enum" THEN append_projection(lh, <<Sel("Downcast", variant)>>) ELSE lh
        part(i) == CASE kind = "array" -> NewIndex(lh)
                     [] kind = "union" -> NewUnionField(lh, variant)
                     [] OTHER -> NewField(whole, i)
    IN  [i \in DOMAIN ops |-> <<part(i), ops[i]>>]

Uses(b, lh, rv) ==
    CASE rv.op \in {"use", "copy_for_deref"} -> <<<<lh, rv.operand>>>>
      [] rv.op = "repeat" -> visit_repeat(b, lh, rv.operand)
      [] rv.op = "aggregate" -> visit_aggregate(b, lh, rv.variant, rv.operands)

\* Each part is used; the field of a union is then copied to the others.
visit_uses(b, lh, rv) ==
    Then(FoldLeft(LAMBDA acc, use : visit_use(acc, use[1], use[2]), b, Uses(b, lh, rv)), LAMBDA used :
        IF rv.op = "aggregate" /\ Kind(PathType(b, lh)) = "union"
          THEN cast_between_union_fields(used, NewUnionField(lh, rv.variant)) ELSE used)

visit_shallow_init_box(b, lh, op) ==
    Then(get_path_for_place(b, op.place), LAMBDA r :
        LET field == get_box_pointer_field(lh)
        IN  transmute_pointers(r.b, r.path, PathType(r.b, r.path), field, PathType(r.b, field)))

visit_rvalue(b, lh, rv) ==
    CASE rv.op \in {"use", "copy_for_deref", "repeat", "aggregate"} -> visit_uses(b, lh, rv)
      [] rv.op = "ref" -> visit_ref_or_address_of(b, lh, rv.operand.place)
      [] rv.op = "cast" -> visit_cast(b, lh, rv.kind, rv.operand, rv.ty)
      [] rv.op = "offset" -> Then(get_path_for_place(b, rv.operand.place), LAMBDA r : add_offset_edge(r.b, r.path, lh))
      [] rv.op = "shallow_init_box" -> visit_shallow_init_box(b, lh, rv.operand)
      [] OTHER -> b

visit_assign(b, place, rv) ==
    Then(get_path_for_place(b, place), LAMBDA r :
        IF NoPointers(PathType(r.b, r.path)) THEN r.b
        ELSE cast_between_union_fields(visit_rvalue(r.b, r.path, rv), r.path))

\* aux = *src; *dst = aux
CopyPointees(b, src, dst) ==
    LET ty == get_dereferenced_type(PathType(b, src))
        aux == NextAux(b)
    IN  add_internal_edges(
            add_internal_edges(Unqualified(Unqualified(create_aux_local(b, ty), src), dst),
                               append_projection(src, <<Deref>>), ty, aux, ty),
            aux, ty, append_projection(dst, <<Deref>>), ty)

visit_copy_non_overlapping(b, src, dst) ==
    LET pointer(r) == IF PathType(r.b, r.path) \in DOMAIN Boxed THEN get_box_pointer_field(r.path) ELSE r.path
    IN  Then(get_path_for_place(b, src), LAMBDA s :
            Then(get_path_for_place(s.b, dst), LAMBDA d : CopyPointees(d.b, pointer(s), pointer(d))))
=============================================================================
