------------------------------ MODULE PathCasts ------------------------------
(***************************************************************************)
(* The types of paths and their casts (util/type_util.rs): TypeCache numbers  *)
(* types, PathCastCache names the variant of an object under another type.    *)
(* The memo of path types is left out: a path has the type of its selectors.  *)
(* types is the list of TypeCache, casts the map of PathCastCache.            *)
(***************************************************************************)
EXTENDS Types

CONSTANTS Never,      \* the type of a path that cannot be typed
          BaseType,   \* base -> its type
          Constant    \* the base of constants

NoPath == Path("none", <<>>)

-----------------------------------------------------------------------------
\* An index counts from 0.
get_index(types, t) ==
    IF t \in Range(types)
      THEN [types |-> types, index |-> (CHOOSE i \in DOMAIN types : types[i] = t) - 1]
      ELSE [types |-> Append(types, t), index |-> Len(types)]

get_field_type(t, i) == IF Kind(t) = "enum" THEN Never ELSE Fields(t)[i]

\* Nothing but an array or a slice is indexed.
TypeOfSelector(types, t, sel) ==
    LET fielded == Kind(t) \in {"struct", "tuple", "union", "enum", "closure"}
    IN  CASE t = Never \/ sel[1] = "Offset" -> Never
          [] sel[1] = "Deref" -> IF is_any_ptr(t) THEN get_dereferenced_type(t) ELSE Never
          [] sel[1] \in {"Field", "UnionField"} -> IF fielded THEN get_field_type(t, sel[2]) ELSE Never
          [] sel[1] = "Index" /\ Kind(t) \in {"array", "slice"} -> Elem(t)
          [] sel[1] = "Downcast" -> Fields(t)[sel[2]]
          [] sel[1] = "Cast" -> types[sel[2] + 1]

TypeBehind(types, t, proj) == FoldLeft(LAMBDA u, sel : TypeOfSelector(types, u, sel), t, proj)

try_eval_path_type(types, p) == TypeBehind(types, BaseType[p.base], p.proj)

-----------------------------------------------------------------------------
\* The question about a field is put to the field's own type, which answers 0
\* when it has no field of that index.
OwnFieldOffset(t, f) ==
    OffsetIn(compute_fields_byte_offsets([u \in {} |-> {}], t), t, <<Sel("Field", f)>>)

RECURSIVE get_regularized_path(_, _)
get_regularized_path(types, p) ==
    IF /\ IsQualified(p)
       /\ LET sel == Last(p.proj)
          IN  \/ sel[1] \in {"Cast", "Index", "UnionField", "Downcast"}
              \/ sel[1] = "Field" /\ OwnFieldOffset(try_eval_path_type(types, p), sel[2]) = 0
      THEN get_regularized_path(types, truncate_projection_elems(p, Len(p.proj) - 1))
      ELSE p

\* The part at the start of q that has type t already, if any.
StartField(q, qty, t) ==
    Head(SelectSeq(fields_at_start_location(q, qty), LAMBDA f : equal_types(f[2], t)) \o <<<<NoPath, t>>>>)[1]

M_AddCast(casts, q, t) == \* the type replaces those of earlier casts
    [x \in DOMAIN casts \cup {q} |-> IF x = q THEN {t} ELSE casts[x]]

AddCast(casts, q, t) ==
    [x \in DOMAIN casts \cup {q} |->
        (IF x \in DOMAIN casts THEN casts[x] ELSE {}) \cup (IF x = q THEN {t} ELSE {})]

\* What cast_to answers of a regularized path q of type qty, whose part of type
\* t is start.
CastRegularized(types, casts, q, qty, start, t) ==
    LET found == get_index(types, t)
        cast == Sel("Cast", found.index)
        answer(ts, cs, path) == [types |-> ts, casts |-> cs, path |-> path]
    IN  IF q.base = Constant THEN answer(types, casts, q)
        ELSE IF qty = Never THEN answer(types, casts, NoPath)
        ELSE IF equal_types(qty, t) THEN answer(types, casts, q)
        ELSE IF start # NoPath THEN answer(types, casts, start)
        ELSE IF cast \in Range(q.proj) THEN answer(found.types, casts, NoPath)
        ELSE answer(found.types, AddCast(casts, q, t), append_projection(q, <<cast>>))

\* cast_to, as [types, casts, path]; NoPath where it answers None.
cast_to(types, casts, p, t) ==
    Then(get_regularized_path(types, p), LAMBDA q :
        Then(try_eval_path_type(types, q), LAMBDA qty :
            Then(StartField(q, qty, t), LAMBDA start : CastRegularized(types, casts, q, qty, start, t))))

VariantRegularized(types, casts, q, qty, start, t) ==
    LET found == get_index(types, t)
        answer(ts, path) == [types |-> ts, path |-> path]
    IN  IF equal_types(qty, t) THEN answer(types, q)
        ELSE IF start # NoPath THEN answer(types, start)
        ELSE IF q \in DOMAIN casts /\ t \in casts[q]
               THEN answer(found.types, append_projection(q, <<Sel("Cast", found.index)>>))
        ELSE answer(found.types, NoPath)

\* get_type_variant, as [types, path]
get_type_variant(types, casts, p, t) ==
    Then(get_regularized_path(types, p), LAMBDA q :
        Then(try_eval_path_type(types, q), LAMBDA qty :
            Then(StartField(q, qty, t), LAMBDA start : VariantRegularized(types, casts, q, qty, start, t))))

-----------------------------------------------------------------------------
\* The pairs that the merge of two flattened lists stops at.
RECURSIVE SameOffsets(_, _)
SameOffsets(fs, gs) ==
    CASE fs = <<>> \/ gs = <<>> -> <<>>
      [] OTHER ->
            LET f == Head(fs)
                g == Head(gs)
            IN  CASE g.offset < f.offset -> SameOffsets(fs, Tail(gs))
                  [] g.offset > f.offset -> SameOffsets(Tail(fs), gs)
                  [] OTHER -> <<<<f, g>>>> \o SameOffsets(Tail(fs), Tail(gs))
=============================================================================
