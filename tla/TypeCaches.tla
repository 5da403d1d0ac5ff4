------------------------------ MODULE TypeCaches ------------------------------
(***************************************************************************)
(* The caches of AnalysisContext (util/type_util.rs), asked in any order under *)
(* every layout the compiler may choose: offsets of fields and projections to *)
(* pointers of types; casts and variants of the objects of a program and of   *)
(* the parts and variants of them found so far.  The caches of types and those *)
(* of paths share no state, so a behaviour is about one of the two (topic).   *)
(***************************************************************************)
EXTENDS PathCasts

CONSTANTS Asked,         \* bound: the types whose layout is asked for
          CastLayouts,   \* bound: the layouts tried with casts
          CastTypes,     \* the types pointers are cast to
          MaxProj,       \* bound: selectors of a path that is asked about
          MaxPaths       \* bound: paths before the last question

VARIABLES topic,                     \* "types" or "paths"
          field_byte_offset_cache,   \* type -> set of <<selectors, offset>>
          ptr_projs_cache,           \* type -> its pointers as <<selectors, type>>
          type_list,                 \* TypeCache: index + 1 -> type
          path_cast_types,           \* PathCastCache: path -> types
          paths,                     \* the paths pointers may point to
          made                       \* the casts asked for so far: [path, ty, answer]

typeVars == <<field_byte_offset_cache, ptr_projs_cache>>
pathVars == <<type_list, path_cast_types, paths, made>>
vars == <<tcx, topic, typeVars, pathVars>>

Init ==
    /\ topic \in {"types", "paths"}
    /\ tcx \in IF topic = "types" THEN Layouts ELSE CastLayouts
    /\ field_byte_offset_cache = [t \in {} |-> {}]
    /\ ptr_projs_cache = [t \in {} |-> <<>>]
    /\ type_list = <<>>
    /\ path_cast_types = [p \in {} |-> {}]
    /\ paths = {Base(b) : b \in DOMAIN BaseType}
    /\ made = {}

-----------------------------------------------------------------------------
\* get_field_byte_offset fills the cache on the first question about a type.
AskOffset(t) ==
    /\ t \notin DOMAIN field_byte_offset_cache
    /\ field_byte_offset_cache' = compute_fields_byte_offsets(field_byte_offset_cache, t)
    /\ UNCHANGED ptr_projs_cache

AskPointers(t) ==
    /\ t \notin DOMAIN ptr_projs_cache
    /\ ptr_projs_cache' = [u \in DOMAIN ptr_projs_cache \cup {t} |->
                             IF u = t THEN get_pointer_projections(t) ELSE ptr_projs_cache[u]]
    /\ UNCHANGED field_byte_offset_cache

\* AnalysisContext::cast_to
Cast(p, t) ==
    \E res \in {cast_to(type_list, path_cast_types, p, t)} :
        /\ type_list' = res.types
        /\ path_cast_types' = res.casts
        /\ paths' = paths \cup ({res.path} \ {NoPath})
        /\ made' = made \cup {[path |-> p, ty |-> t, answer |-> res.path]}

\* AnalysisContext::get_type_variant; constants are not asked about
AskVariant(p, t) ==
    /\ p.base # Constant
    /\ type_list' = get_type_variant(type_list, path_cast_types, p, t).types
    /\ UNCHANGED <<path_cast_types, paths, made>>

\* A pointer to a part of an object: append_projection of the builder and of gep edges.
TakePart(p) ==
    /\ p.base # Constant
    /\ LET parts == Parts(try_eval_path_type(type_list, p))
       IN  \E n \in DOMAIN parts : paths' = paths \cup {append_projection(p, parts[n][1])}
    /\ UNCHANGED <<type_list, path_cast_types, made>>

AskTypes == \E t \in Asked : AskOffset(t) \/ AskPointers(t)

AskPaths ==
    /\ Cardinality(paths) <= MaxPaths
    /\ \E p \in {q \in paths : Len(q.proj) < MaxProj} :
          \/ \E t \in CastTypes : Cast(p, t) \/ AskVariant(p, t)
          \/ TakePart(p)

Next ==
    /\ UNCHANGED <<tcx, topic>>
    /\ \/ topic = "types" /\ AskTypes /\ UNCHANGED pathVars
       \/ topic = "paths" /\ AskPaths /\ UNCHANGED typeVars

Spec == Init /\ [][Next]_vars

-----------------------------------------------------------------------------
Projections(t) == Range(projections_and_types(t))

\* With a type, the types it is made of are cached; every path has a type,
\* every recorded cast a number, and no type two.
TypeOK ==
    /\ tcx \in Layouts \cup CastLayouts
    /\ DOMAIN field_byte_offset_cache \subseteq Ty
    /\ \A t \in DOMAIN field_byte_offset_cache :
          \A part \in Range(OffsetParts(t)) : part.ty \in DOMAIN field_byte_offset_cache
    /\ type_list \in Seq(Ty) /\ IsInjective(type_list)
    /\ \A p \in DOMAIN path_cast_types : path_cast_types[p] \subseteq Range(type_list)
    /\ \A p \in paths : p.base # Constant => try_eval_path_type(type_list, p) \in Ty

\* Whatever was asked before, the offset the cache has for a field at any depth
\* is where the compiler puts it, and no field that can be reached without
\* passing an enum is missing (util/type_util.rs:140-266).
OffsetsExact ==
    \A t \in DOMAIN field_byte_offset_cache :
        LET entries == field_byte_offset_cache[t]
        IN  /\ \A e \in entries : Followed(t, e[1]) => e[2] = ConcreteOffset(t, e[1])
            /\ \A e, f \in entries : e[1] = f[1] => e = f
            /\ \A q \in Projections(t) : Followed(t, q[1]) => \E e \in entries : e[1] = q[1]

\* The pointers of a type are exactly its parts of pointer type at any depth:
\* two recursions written apart agree (util/type_util.rs:732-917).
PointerProjectionsExact ==
    \A t \in DOMAIN ptr_projs_cache :
        Range(ptr_projs_cache[t]) = {q \in Projections(t) : is_any_ptr(q[2])}

\* Flattening yields parts that are where the compiler puts them, and misses no
\* pointer outside of unions, enums and closures (util/type_util.rs:959-1110).
FlattenedInPlace ==
    \A t \in DOMAIN ptr_projs_cache :
        LET flat == flatten_fields(Base("x"), t)
            plain(proj) == \A n \in DOMAIN proj : proj[n][1] \notin {"UnionField", "Index"}
        IN  /\ \A n \in DOMAIN flat : plain(flat[n].path.proj) =>
                  flat[n].offset = ConcreteOffset(t, flat[n].path.proj)
            /\ \A q \in Range(get_pointer_projections(t)) :
                  (Followed(t, q[1]) /\ \A n \in DOMAIN q[1] : q[1][n][1] # "UnionField") =>
                      \E n \in DOMAIN flat : flat[n].path.proj = q[1]

\* The list of flattened fields follows the layout in memory, as its comment says
\* and as the merges of two lists expect (util/type_util.rs:1011-1022).  The code
\* breaks it: it visits fields in the order of the values of memory_index.
FlattenedInOrder ==
    \A t \in DOMAIN ptr_projs_cache :
        LET flat == flatten_fields(Base("x"), t)
        IN  \A m, n \in DOMAIN flat : m < n => flat[m].offset <= flat[n].offset

\* The fields at the start of an object are all its parts at offset zero, at
\* every depth (util/type_util.rs:1112-1233).
StartFieldsExact ==
    \A t \in DOMAIN ptr_projs_cache :
        {f[1].proj : f \in Range(fields_at_start_location(Base("x"), t))}
            = {q[1] : q \in {r \in Projections(t) : Followed(t, r[1]) /\ ConcreteOffset(t, r[1]) = 0}}

\* The answers about types, all of them: the caches are filled with each type's
\* parts, and what they say agrees with the compiler's layout in whatever order
\* they are asked (util/type_util.rs:70-266, 732-917, 959-1233).
LayoutExact ==
    TypeOK /\ OffsetsExact /\ PointerProjectionsExact /\ FlattenedInPlace /\ StartFieldsExact

\* Where a path is: its base and offset.  A cast selector changes the type only.
RECURSIVE PlaceFrom(_, _)
PlaceFrom(t, proj) ==
    IF proj = <<>> THEN 0
    ELSE LET sel == Head(proj)
             u == TypeBehind(type_list, t, <<sel>>)
         IN  (IF sel[1] = "Cast" THEN 0 ELSE StepOffset(t, sel)) + PlaceFrom(u, Tail(proj))
Place(p) == <<p.base, PlaceFrom(BaseType[p.base], p.proj)>>

Regular(p) == get_regularized_path(type_list, p)
Variant(p, t) == get_type_variant(type_list, path_cast_types, p, t).path

\* A cast answers a path of the type asked for, at the place of the path it was
\* asked for, whatever casts came before; only a cast that would repeat one on
\* the same path, or one of an object of unknown type, is refused
\* (util/type_util.rs:295-345, 381-382).  The code breaks it: wherever a field lies
\* it is taken for its struct, if it is a scalar or a pointer, or a struct whose
\* own field of that number comes first.
CastExact ==
    \A c \in {d \in made : d.path.base # Constant} :
        LET q == Regular(c.path)
        IN  IF c.answer = NoPath
              THEN \/ try_eval_path_type(type_list, q) = Never
                   \/ \E n \in DOMAIN q.proj :
                         q.proj[n][1] = "Cast" /\ type_list[q.proj[n][2] + 1] = c.ty
              ELSE /\ Place(c.answer) = Place(c.path)
                   /\ equal_types(try_eval_path_type(type_list, c.answer), c.ty)

\* Every path of an object that was ever cast finds the variant that the cast
\* made: get_type_variant agrees with cast_to, whatever types and casts came in
\* between (util/type_util.rs:47-56, 338-376).
VariantsShared ==
    \A c \in {d \in made : d.path.base # Constant /\ d.answer # NoPath} :
        \A p \in paths : (p.base # Constant /\ Regular(p) = Regular(c.path)) =>
            Variant(p, c.ty) = c.answer
=============================================================================
