-------------------------------- MODULE Types --------------------------------
(***************************************************************************)
(* util/type_util.rs and mir/path.rs: how the analysis sees the types of a    *)
(* program and the memory behind a path.  A type is a name; what the compiler *)
(* says of it, its layout included, is a variable chosen at the start: the    *)
(* fields of a struct or tuple may be in any order.  A path is a base with a  *)
(* sequence of selectors.                                                     *)
(***************************************************************************)
EXTENDS Naturals, Sequences, FiniteSets, SequencesExt

CONSTANTS Ty,        \* the types
          Layouts    \* the compilers there may be

VARIABLE tcx   \* type -> [kind, of, len, size, memory_index]

Kind(t) == tcx[t].kind
Fields(t) == tcx[t].of   \* fields, variants (as tuples), element or pointee
memory_index(t) == tcx[t].memory_index   \* position in memory of each field
Elem(t) == Fields(t)[1]

\* F(x), with x computed once.
Then(x, F(_)) == CHOOSE r \in {F(v) : v \in {x}} : TRUE

Kinds == {"scalar", "str", "never", "dyn", "fndef", "foreign", "alias", "ptr", "fnptr",
          "struct", "tuple", "union", "enum", "closure", "array", "slice"}

ASSUME LayoutsAssumption ==
    \A m \in Layouts : \A t \in Ty :
        /\ m[t].kind \in Kinds /\ m[t].of \in Seq(Ty)
        /\ m[t].kind \in {"struct", "tuple"} =>
              /\ DOMAIN m[t].memory_index = DOMAIN m[t].of
              /\ Range(m[t].memory_index) = DOMAIN m[t].of

-----------------------------------------------------------------------------
(* Paths.  OffsetPath is a last selector "Offset".                          *)

Sel(name, n) == <<name, n>>
Path(base, proj) == [base |-> base, proj |-> proj]
Base(b) == Path(b, <<>>)
append_projection(p, elems) == Path(p.base, p.proj \o elems)
truncate_projection_elems(p, len) == Path(p.base, SubSeq(p.proj, 1, len))
NewField(p, i) == append_projection(p, <<Sel("Field", i)>>)
NewUnionField(p, i) == append_projection(p, <<Sel("UnionField", i)>>)
NewIndex(p) == append_projection(p, <<Sel("Index", 0)>>)
IsQualified(p) == p.proj # <<>>
remove_cast(p) ==
    IF IsQualified(p) /\ Last(p.proj)[1] = "Cast" THEN Path(p.base, Front(p.proj)) ELSE p
is_deref_path(p) == IsQualified(p) /\ p.proj[1][1] = "Deref"

-----------------------------------------------------------------------------
(* Predicates on types.                                                     *)

is_any_ptr(t) == Kind(t) \in {"ptr", "fnptr"}
get_dereferenced_type(t) == IF Kind(t) = "ptr" THEN Elem(t) ELSE t

RECURSIVE is_basic_type(_)
is_basic_type(t) ==
    \/ Kind(t) \in {"scalar", "str"}
    \/ Kind(t) \in {"array", "slice"} /\ is_basic_type(Elem(t))
    \/ Kind(t) = "tuple" /\ Fields(t) = <<>>
is_basic_pointer(t) == is_any_ptr(t) /\ is_basic_type(get_dereferenced_type(t))

\* The lengths of arrays are ignored.
RECURSIVE equal_types(_, _)
equal_types(t, u) ==
    IF Kind(t) = Kind(u) /\ Kind(t) \in {"array", "slice"} THEN equal_types(Elem(t), Elem(u))
    ELSE t = u

RECURSIVE equivalent_ptr_types(_, _)
equivalent_ptr_types(t, u) ==
    LET dt == get_dereferenced_type(t)
        du == get_dereferenced_type(u)
    IN  /\ is_any_ptr(t) /\ is_any_ptr(u)
        /\ IF Kind(t) = "fnptr" /\ Kind(u) = "fnptr" THEN Fields(t) = Fields(u)
           ELSE IF is_any_ptr(dt) /\ is_any_ptr(du)
             THEN equivalent_ptr_types(dt, du)
           ELSE \/ Kind(dt) = "dyn" \/ Kind(du) = "dyn"
                \/ Kind(dt) = "closure" /\ Kind(du) = "closure"
                \/ equal_types(dt, du)

-----------------------------------------------------------------------------
(* Layout, as the compiler answers it.                                      *)

SumOf(F(_), S) == FoldSet(LAMBDA i, n : F(i) + n, 0, S)

RECURSIVE size_of(_)
size_of(t) ==
    CASE Kind(t) \in {"struct", "tuple", "closure"} ->
             SumOf(LAMBDA i : size_of(Fields(t)[i]), DOMAIN Fields(t))
      [] Kind(t) \in {"union", "enum"} ->
             Max({size_of(Fields(t)[i]) : i \in DOMAIN Fields(t)} \cup {0})
      [] Kind(t) = "array" -> tcx[t].len * size_of(Elem(t))
      [] OTHER -> tcx[t].size

\* offsets of FieldsShape::Arbitrary: the fields follow one another in memory
Offset(t, i) ==
    SumOf(LAMBDA j : size_of(Fields(t)[j]),
          {j \in DOMAIN Fields(t) : memory_index(t)[j] < memory_index(t)[i]})

-----------------------------------------------------------------------------
(* The parts of a type.                                                     *)

\* Each direct part as <<selectors, type>>; a variant of an enum has its parts
\* behind two selectors.
FieldsBehind(t, prefix) ==
    [i \in DOMAIN Fields(t) |-> <<Append(prefix, Sel("Field", i)), Fields(t)[i]>>]

Parts(t) ==
    CASE Kind(t) \in {"struct", "tuple", "closure"} -> FieldsBehind(t, <<>>)
      [] Kind(t) = "union" ->
             [i \in DOMAIN Fields(t) |-> <<<<Sel("UnionField", i)>>, Fields(t)[i]>>]
      [] Kind(t) = "enum" ->
             FlattenSeq([v \in DOMAIN Fields(t) |-> FieldsBehind(Fields(t)[v], <<Sel("Downcast", v)>>)])
      [] Kind(t) \in {"array", "slice"} -> <<<<<<Sel("Index", 0)>>, Elem(t)>>>>
      [] OTHER -> <<>>

Behind(part, subs) == [n \in DOMAIN subs |-> <<part[1] \o subs[n][1], subs[n][2]>>]

RECURSIVE projections_and_types(_)
projections_and_types(t) ==
    FlattenSeq([n \in DOMAIN Parts(t) |->
        LET part == Parts(t)[n] IN <<part>> \o Behind(part, projections_and_types(part[2]))])

RECURSIVE get_pointer_projections(_)
get_pointer_projections(t) ==
    FlattenSeq([n \in DOMAIN Parts(t) |->
        LET part == Parts(t)[n]
        IN  IF is_any_ptr(part[2]) THEN <<part>>
            ELSE Behind(part, get_pointer_projections(part[2]))])

\* The first field of a union that takes space, 0 if there is none.
FirstNonZst(t) ==
    Head(SelectSeq([i \in DOMAIN Fields(t) |-> i], LAMBDA i : size_of(Fields(t)[i]) > 0) \o <<0>>)

\* The direct parts as [sel, ty, offset]; enums have none, an array one.
OffsetParts(t) ==
    CASE Kind(t) \in {"struct", "tuple"} ->
             [i \in DOMAIN Fields(t) |-> [sel |-> Sel("Field", i), ty |-> Fields(t)[i], offset |-> Offset(t, i)]]
      [] Kind(t) = "union" ->
             [i \in DOMAIN Fields(t) |-> [sel |-> Sel("UnionField", i), ty |-> Fields(t)[i], offset |-> 0]]
      [] Kind(t) = "closure" ->   \* in source order
             [i \in DOMAIN Fields(t) |->
                 [sel |-> Sel("Field", i), ty |-> Fields(t)[i],
                  offset |-> SumOf(LAMBDA j : size_of(Fields(t)[j]), 1..(i - 1))]]
      [] Kind(t) \in {"array", "slice"} ->
             <<[sel |-> Sel("Index", 0), ty |-> Elem(t), offset |-> 0]>>
      [] OTHER -> <<>>

\* flatten_fields_recursively: the bottom-level parts as [offset, path, ty].
\* The fields are visited in the order of the values of memory_index.
RECURSIVE FlattenFrom(_, _, _)
FlattenFrom(p, t, base) ==
    CASE Kind(t) = "union" ->
             Then(FirstNonZst(t), LAMBDA i :
                IF i = 0 THEN <<>> ELSE FlattenFrom(NewUnionField(p, i), Fields(t)[i], base))
      [] Kind(t) \in {"struct", "tuple"} ->
             FlattenSeq([k \in DOMAIN Fields(t) |->
                 LET i == memory_index(t)[k]
                 IN  FlattenFrom(NewField(p, i), Fields(t)[i], base + Offset(t, i))])
      [] Kind(t) = "array" ->
             FlattenSeq([k \in 1..tcx[t].len |->
                 FlattenFrom(NewIndex(p), Elem(t), base + (k - 1) * size_of(Elem(t)))])
      [] Kind(t) = "slice" -> FlattenFrom(NewIndex(p), Elem(t), base)
      [] OTHER -> <<[offset |-> base, path |-> p, ty |-> t]>>

flatten_fields(p, t) == FlattenFrom(p, t, 0)

\* The parts at the first byte, as <<path, type>>: several when fields are
\* zero-sized.
RECURSIVE fields_at_start_location(_, _)
fields_at_start_location(p, t) ==
    Then(CASE Kind(t) = "union" ->
                  [i \in DOMAIN Fields(t) |-> <<NewUnionField(p, i), Fields(t)[i]>>]
           [] Kind(t) \in {"struct", "tuple"} ->
                  Then(SelectSeq(memory_index(t), LAMBDA i : Offset(t, i) = 0),
                       LAMBDA order : [k \in DOMAIN order |-> <<NewField(p, order[k]), Fields(t)[order[k]]>>])
           [] Kind(t) \in {"array", "slice"} -> <<<<NewIndex(p), Elem(t)>>>>
           [] OTHER -> <<>>,
         LAMBDA starts : FlattenSeq([n \in DOMAIN starts |->
             <<starts[n]>> \o fields_at_start_location(starts[n][1], starts[n][2])]))

-----------------------------------------------------------------------------
(* compute_fields_byte_offsets: the offsets of all fields of t, behind those *)
(* of the types they are made of; a cache maps a type to <<selectors, offset>>. *)

M_OffsetsBehind(part, cache) == \* forgets the offset of the part itself
    {<<<<part.sel>>, part.offset>>}
        \cup {<<<<part.sel>> \o sub[1], sub[2]>> : sub \in cache[part.ty]}

OffsetsBehind(part, cache) ==
    {<<<<part.sel>>, part.offset>>}
        \cup {<<<<part.sel>> \o sub[1], part.offset + sub[2]>> : sub \in cache[part.ty]}

RECURSIVE compute_fields_byte_offsets(_, _)
compute_fields_byte_offsets(cache, t) ==
    Then(FoldLeft(LAMBDA c, part : IF part.ty \in DOMAIN c THEN c ELSE compute_fields_byte_offsets(c, part.ty),
                  cache, OffsetParts(t)),
         LAMBDA filled :
            [u \in DOMAIN filled \cup {t} |->
                IF u = t THEN UNION {OffsetsBehind(part, filled) : part \in Range(OffsetParts(t))} ELSE filled[u]])

\* get_field_byte_offset once the type is cached: 0 when there is no such field
OffsetIn(cache, t, proj) ==
    LET S == {e \in cache[t] : e[1] = proj} IN IF S = {} THEN 0 ELSE (CHOOSE e \in S : TRUE)[2]

-----------------------------------------------------------------------------
(* The reference: where a sequence of selectors leads in memory.            *)

StepType(t, sel) == IF sel[1] = "Index" THEN Elem(t) ELSE Fields(t)[sel[2]]
StepOffset(t, sel) == IF sel[1] = "Field" THEN Offset(t, sel[2]) ELSE 0

RECURSIVE ConcreteOffset(_, _)
ConcreteOffset(t, proj) ==
    IF proj = <<>> THEN 0
    ELSE StepOffset(t, Head(proj)) + ConcreteOffset(StepType(t, Head(proj)), Tail(proj))

\* Selectors the reference follows: no variant, no closure.
RECURSIVE Followed(_, _)
Followed(t, proj) ==
    proj = <<>> \/ (/\ Kind(t) \in {"struct", "tuple", "union", "array", "slice"}
                    /\ Followed(StepType(t, Head(proj)), Tail(proj)))
=============================================================================
