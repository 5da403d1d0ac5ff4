------------------------------- MODULE MCTypes -------------------------------
(***************************************************************************)
(* Instances of the parts that deal with types: the caches of layouts and     *)
(* casts (T), the solver's cast edges (C), and the bodies of MCBodies.  Each   *)
(* behaviour is about one of them, over a program of its own, and the          *)
(* variables of the others are idle.                                          *)
(***************************************************************************)
EXTENDS MCBodies

CONSTANTS Checked,                                      \* the parts of a run
          SolverBaseType, SolverHeapObjs, SolverConcrete,   \* the program of C
          SolverDirect, SolverCast, SolverAddr

VARIABLES checked,                                      \* the part of this behaviour
          type_list, path_cast_types,                   \* of T and C
          topic, field_byte_offset_cache, ptr_projs_cache, paths, made,   \* of T
          diff, propa, worklist, direct_edges, cast_edges, cast_out_edges,
          cur, taken, todo, addr_left                   \* of C

Sized(kind, of, len, size) == [Def(kind, of, len) EXCEPT !.size = size]

-----------------------------------------------------------------------------
(* A small program's types: pointers inside structs, tuples, a transparent    *)
(* wrapper, a union, an enum, an array, a slice and a closure.  Casts are of   *)
(* a struct of a pointer and a pair, of an enum and of a constant.             *)

CacheTypeDef == [
    never |-> Def("never", <<>>, 0),
    u8 |-> Sized("scalar", <<>>, 0, 1),
    pu |-> Sized("ptr", <<"u8">>, 0, 2),
    unit |-> Def("tuple", <<>>, 0),
    Pair |-> Def("tuple", <<"u8", "pu">>, 0),
    S2 |-> Def("struct", <<"pu", "Pair">>, 0),
    S3 |-> Def("struct", <<"u8", "pu", "Arr">>, 0),
    W |-> Def("struct", <<"unit", "pu">>, 0),
    U |-> Def("union", <<"unit", "pu", "Pair">>, 0),
    V1 |-> Def("tuple", <<"pu">>, 0),
    E |-> Def("enum", <<"V1", "Pair">>, 0),
    Arr |-> Def("array", <<"Pair">>, 2),
    Sl |-> Def("slice", <<"W">>, 0),
    C |-> Def("closure", <<"Pair", "pu">>, 0)]
CacheBaseType == [s |-> "S2", e |-> "E", k |-> "u8"]

Perms(n) == {p \in [1..n -> 1..n] : \A i, j \in 1..n : p[i] = p[j] => i = j}
Layout(pair, w, s2, s3) ==
    [CacheTypeDef EXCEPT !.Pair.memory_index = pair, !.W.memory_index = w, !.S2.memory_index = s2, !.S3.memory_index = s3]
CacheLayouts ==
    {Layout(pair, w, <<1, 2>>, s3) : pair \in Perms(2), w \in Perms(2), s3 \in Perms(3)}
CastLayouts ==
    {Layout(pair, <<1, 2>>, s2, <<1, 2, 3>>) : pair \in Perms(2), s2 \in Perms(2)}

T == INSTANCE TypeCaches WITH
        Ty <- DOMAIN CacheTypeDef, Layouts <- CacheLayouts, CastLayouts <- CastLayouts,
        BaseType <- CacheBaseType, Asked <- {"S3", "U", "E", "Sl", "C"},
        CastTypes <- {"Pair", "S2"}, MaxProj <- 3, MaxPaths <- 4

-----------------------------------------------------------------------------
(* An object of type A is cast to B and back: the two have a pointer to       *)
(* different scalars, a function pointer and an enum in common.  A function   *)
(* pointer passes through a byte pointer, a heap object and a trait object    *)
(* are cast as well.                                                          *)

SolverTypeDef == [
    never |-> Def("never", <<>>, 0),
    u8 |-> Sized("scalar", <<>>, 0, 1),   pu |-> Sized("ptr", <<"u8">>, 0, 2),
    u16 |-> Sized("scalar", <<>>, 0, 1),  pv |-> Sized("ptr", <<"u16">>, 0, 2),
    fd |-> Def("fndef", <<>>, 0),         fp |-> Sized("fnptr", <<"fd">>, 0, 2),
    V |-> Def("tuple", <<"pu">>, 0),      E |-> Def("enum", <<"V">>, 0),
    A |-> Def("struct", <<"pu", "fp", "E">>, 0), pa |-> Sized("ptr", <<"A">>, 0, 2),
    B |-> Def("struct", <<"pv", "fp", "E">>, 0), pb |-> Sized("ptr", <<"B">>, 0, 2),
    Tr |-> Def("dyn", <<>>, 0),           pt |-> Sized("ptr", <<"Tr">>, 0, 2),
    N |-> Def("struct", <<"pn">>, 0),     pn |-> Sized("ptr", <<"N">>, 0, 2),
    M |-> Def("struct", <<"pm">>, 0),     pm |-> Sized("ptr", <<"M">>, 0, 2)]
SolverLayouts ==
    {[SolverTypeDef EXCEPT !.A.memory_index = ab, !.B.memory_index = ab] : ab \in {<<1, 2, 3>>, <<2, 1, 3>>}}

C == INSTANCE CastPropagator WITH
        Ty <- DOMAIN SolverTypeDef, Layouts <- SolverLayouts, BaseType <- SolverBaseType,
        CastConstraint <- TRUE, HeapObjs <- SolverHeapObjs, ConcreteType <- SolverConcrete,
        DirectEdges <- SolverDirect, CastEdges <- SolverCast, AddrEdges <- SolverAddr

Fld(base, i) == NewField(Base(base), i)
EnumPtr(base) == append_projection(Base(base), <<Sel("Field", 3), Sel("Downcast", 1), Sel("Field", 1)>>)

MCSolverBase == [none |-> "never", k |-> "never", o |-> "A", x |-> "u8", y |-> "u8", f |-> "fd", h |-> "u8",
                 a |-> "pa", a2 |-> "pa", b |-> "pb", c |-> "pu", d |-> "fp", t |-> "pt", s |-> "u8"]
MCAddr == {<<Base("o"), Base("a")>>, <<Base("x"), Fld("o", 1)>>, <<Base("y"), EnumPtr("o")>>,
           <<Base("f"), Fld("o", 2)>>, <<Base("h"), Base("c")>>}
MCDirect == {<<Base("a"), Base("t")>>, <<Base("t"), Base("a2")>>}
MCCast == {<<Base("a"), Base("b")>>, <<Base("b"), Base("a2")>>, <<Fld("o", 2), Base("c")>>,
           <<Base("c"), Base("d")>>, <<Base("c"), Base("a")>>}
MCConcrete == [h |-> "B"]

\* A list: the first node's link, which points to the node itself and to a
\* second one, is read as a link to nodes of another type.
ListBase == [none |-> "never", k |-> "never", o |-> "N", o2 |-> "N", a |-> "pn", b |-> "pm"]
ListAddr == {<<Base("o"), Base("a")>>, <<Base("o2"), Base("a")>>}
ListDirect == {<<Base("a"), Fld("o", 1)>>}
ListCast == {<<Fld("o", 1), Base("b")>>}
NoConcrete == [x \in {} |-> "u8"]

-----------------------------------------------------------------------------
castVars == <<type_list, path_cast_types>>
cacheVars == <<topic, field_byte_offset_cache, ptr_projs_cache, paths, made>>
solverVars == <<diff, propa, worklist, direct_edges, cast_edges, cast_out_edges, cur, taken, todo, addr_left>>
bodyVars == <<b, family, body, built, pts, mem>>
typesVars == <<checked, tcx, castVars, cacheVars, solverVars, bodyVars>>

CachesIdle ==
    topic = "idle" /\ field_byte_offset_cache = {} /\ ptr_projs_cache = {} /\ paths = {} /\ made = {}
SolverIdle ==
    /\ diff = {} /\ propa = {} /\ worklist = <<>> /\ addr_left = {}
    /\ direct_edges = {} /\ cast_edges = {} /\ cast_out_edges = {}
    /\ cur = NoPath /\ taken = {} /\ todo = {}
BodiesIdle == b = {} /\ family = "idle" /\ body = {} /\ built = FALSE /\ pts = {} /\ mem = {}

TypesInit ==
    /\ checked \in Checked
    /\ \/ checked = "caches" /\ T!Init /\ SolverIdle /\ BodiesIdle
       \/ checked = "solver" /\ C!Init /\ CachesIdle /\ BodiesIdle
       \/ /\ checked = "bodies" /\ Init /\ CachesIdle /\ SolverIdle
          /\ type_list = <<>> /\ path_cast_types = {}

TypesNext ==
    /\ UNCHANGED checked
    /\ \/ checked = "caches" /\ T!Next /\ UNCHANGED <<solverVars, bodyVars>>
       \/ checked = "solver" /\ C!Next /\ UNCHANGED <<cacheVars, bodyVars>>
       \/ checked = "bodies" /\ Next /\ UNCHANGED <<castVars, cacheVars, solverVars>>

TypesSpec == TypesInit /\ [][TypesNext]_typesVars

-----------------------------------------------------------------------------
(* The properties of the parts.                                             *)

\* Each answer about a type agrees with the compiler's layout, in whatever
\* order the caches are filled: TypeCaches' LayoutExact
\* (util/type_util.rs:70-266, 732-917, 959-1233).
LayoutExact == checked = "caches" => T!LayoutExact

\* Every path of an object that was cast finds the variant that the cast made:
\* TypeCaches' VariantsShared (util/type_util.rs:47-56, 338-376).
VariantsShared == checked = "caches" => T!VariantsShared

\* A cast answers a path at the place it was asked for: TypeCaches' CastExact,
\* which the code breaks (util/type_util.rs:295-345, 381-382).
CastExact == checked = "caches" => T!CastExact

\* Flattened fields follow the layout in memory: TypeCaches' FlattenedInOrder,
\* which the code breaks (util/type_util.rs:1011-1022).
FlattenedInOrder == checked = "caches" => T!FlattenedInOrder

\* When the worklist is empty nothing is left on a direct or cast edge, also on
\* those that handle_cast added while it ran: CastPropagator's CastsSolved
\* (pta/propagator/propagator.rs:230-245, 702-988).
CastsSolved == checked = "solver" => C!CastsSolved

\* Of these the cast edges: CastPropagator's CastEdgesHandled, which the code
\* breaks (pta/propagator/propagator.rs:230-245, 801-928).
CastEdgesHandled == checked = "solver" => C!CastEdgesHandled

\* An object and its variant share memory: CastPropagator's VariantsAgree
\* (pta/propagator/propagator.rs:930-988).
VariantsAgree == checked = "solver" => C!VariantsAgree

\* Casts of casts end: CastPropagator's CastsEnd (util/type_util.rs:307).
CastsEnd == C!CastsEnd

\* The builder gets through every body and leaves edges that the solver can
\* use: BodySoundness' BuiltWell (builder/fpag_builder.rs:201-219, 1318-1357).
BodiesBuiltWell == checked = "bodies" => BuiltWell
=============================================================================
