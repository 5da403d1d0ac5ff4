---------------------------- MODULE BodySoundness ----------------------------
(***************************************************************************)
(* A body is built statement by statement, the edges are solved, and then the *)
(* body runs: its statements, in any order and any number of times, on a      *)
(* memory of bytes.  Whatever pointer a run puts anywhere must be among those *)
(* the solution gives.  The solution is the least one of the edges, with the  *)
(* solver's type filter; the pointers inside the variants of an object are    *)
(* not linked (CastPropagator does that), so only heap objects, which have    *)
(* one variant with pointers, are read through a cast.  A pointer takes one   *)
(* byte.                                                                      *)
(***************************************************************************)
EXTENDS CallBuilder

CONSTANTS
    Pools,      \* family -> statements: a body has its statements from one family
    MaxStmts,   \* bound: statements of a body
    Owners,     \* family -> <<"none", FALSE>> for a function, <<object, is promoted>> otherwise
    Ret,        \* the local of the return value
    ArgMem      \* what memory holds at the start: <<object, offset, value>>

VARIABLES b,      \* the builder
          family, \* where the body has its statements from
          body,   \* the statements visited
          built,  \* build has returned
          pts,    \* the solution: <<pointer, pointee>>
          mem     \* the bytes that hold a pointer: <<object, offset, value>>

vars == <<tcx, b, family, body, built, pts, mem>>

-----------------------------------------------------------------------------
(* The reference: what a body does to memory.  A value is <<object, offset>>. *)

\* The variants of an enum have bytes of their own: a run reads the one it
\* wrote.
Extent(t) == IF Kind(t) = "enum" THEN SumOf(LAMBDA v : size_of(Fields(t)[v]), DOMAIN Fields(t)) ELSE size_of(t)
ElemOffset(t, e) ==
    CASE e[1] = "Field" /\ Kind(t) # "union" -> Offset(t, e[2])
      [] e[1] = "Index" -> e[2] * size_of(Elem(t))
      [] e[1] = "Downcast" -> SumOf(LAMBDA v : size_of(Fields(t)[v]), 1..(e[2] - 1))
      [] OTHER -> 0

RECURSIVE PlaceOffset(_, _)
PlaceOffset(t, proj) ==
    IF proj = <<>> THEN 0
    ELSE LET e == Head(proj)
             sub == CASE e[1] \in {"Subslice", "OpaqueCast", "Subtype"} -> t
                      [] e[1] = "Index" -> Elem(t)
                      [] OTHER -> Fields(t)[e[2]]
         IN  ElemOffset(t, e) + PlaceOffset(sub, Tail(proj))

RECURSIVE TypeAt(_, _)
TypeAt(t, proj) ==
    IF proj = <<>> THEN t
    ELSE LET e == Head(proj)
         IN  TypeAt(CASE e[1] \in {"Subslice", "OpaqueCast", "Subtype"} -> t
                      [] e[1] = "Index" -> Elem(t)
                      [] e[1] = "Deref" -> IF t \in DOMAIN Boxed THEN Boxed[t] ELSE Elem(t)
                      [] OTHER -> Fields(t)[e[2]], Tail(proj))
PlaceType(p) == TypeAt(BaseType[p.base], p.proj)

Values(m, a) == {f[3] : f \in {g \in m : g[1] = a[1] /\ g[2] = a[2]}}
Shift(v, n) == <<v[1], v[2] + n>>

\* The address of a place: a set, empty where a pointer on the way is not set.
Addrs(m, p) ==
    IF is_deref_path(p)
      THEN LET t == TypeAt(BaseType[p.base], <<Deref>>)
           IN  {Shift(v, PlaceOffset(t, Tail(p.proj))) : v \in Values(m, <<p.base, 0>>)}
      ELSE {<<p.base, PlaceOffset(BaseType[p.base], p.proj)>>}

In(f, a, size) == f[1] = a[1] /\ f[2] \in a[2]..(a[2] + size - 1)
Copy(m, from, to, size) ==
    {f \in m : ~In(f, to, size)}
        \cup {<<to[1], to[2] + (f[2] - from[2]), f[3]>> : f \in {g \in m : In(g, from, size)}}
Write(m, to, vals) == {f \in m : ~In(f, to, 1)} \cup {<<to[1], to[2], v>> : v \in vals}

\* An operand's value into the bytes at to; a constant that is not followed
\* leaves no pointer there.
PutOperand(m, op, to, size) ==
    IF op.kind = "place" THEN {Copy(m, from, to, size) : from \in Addrs(m, op.place)}
    ELSE LET def == ConstDef[op.const]
         IN  CASE def.kind \in {"promoted", "unevaluated"} -> {Copy(m, <<def.base, 0>>, to, size)}
               [] def.kind = "static_ptr" -> {Write(m, to, {<<def.base, 0>>})}
               [] OTHER -> {{f \in m : ~In(f, to, size)}}

\* Where the only pointer of a box, a vector, Ok(pointer)... is.
RECURSIVE FirstPointer(_)
FirstPointer(t) ==
    IF is_any_ptr(t) THEN 0
    ELSE LET u == Fields(t)[1] IN FirstPointer(u) + (IF Kind(t) \in {"struct", "tuple"} THEN Offset(t, 1) ELSE 0)

FnValue(op) ==
    IF op.kind = "const" THEN <<ConstDef[op.const].base, 0>> ELSE <<FnPath[PlaceType(op.place)], 0>>

RvalueInto(m, rv, ty, to) ==
    CASE rv.op = "repeat" ->
             UNION {PutOperand(m, rv.operand, Shift(to, k * size_of(Elem(ty))), size_of(Elem(ty))) :
                        k \in 0..(tcx[ty].len - 1)}
      [] rv.op = "ref" -> {Write(m, to, {a}) : a \in Addrs(m, rv.operand.place)}
      [] rv.op = "cast" /\ rv.kind = "reify" -> {Write(m, to, {FnValue(rv.operand)})}
      [] rv.op = "cast" /\ rv.kind = "closure" ->
             {Write(m, to, {a}) : a \in IF rv.operand.kind = "place" THEN Addrs(m, rv.operand.place)
                                         ELSE {FnValue(rv.operand)}}
      [] rv.op = "cast" /\ rv.kind = "int" -> {{f \in m : ~In(f, to, 1)}}
      [] rv.op = "aggregate" ->
             LET at(i) == CASE Kind(ty) = "array" -> (i - 1) * size_of(Elem(ty))
                            [] Kind(ty) = "enum" -> PlaceOffset(ty, <<Sel("Downcast", rv.variant), Sel("Field", i)>>)
                            [] Kind(ty) = "union" -> 0
                            [] OTHER -> Offset(ty, i)
                 part(i) == CASE Kind(ty) = "array" -> Elem(ty)
                              [] Kind(ty) = "enum" -> Fields(Fields(ty)[rv.variant])[i]
                              [] Kind(ty) = "union" -> Fields(ty)[rv.variant]
                              [] OTHER -> Fields(ty)[i]
             IN  FoldLeft(LAMBDA ms, i : UNION {PutOperand(m1, rv.operands[i], Shift(to, at(i)), size_of(part(i))) : m1 \in ms},
                          {m}, [i \in DOMAIN rv.operands |-> i])
      [] OTHER -> PutOperand(m, rv.operand, to, Extent(ty))   \* a copy of the operand

\* What a special function does; other calls may do anything elsewhere, which
\* is not the builder's matter.
Callee(s) == CalleeDef[FnPath[ConstDef[s.func.const].ty]]
CallInto(m, s) ==
    LET def == Callee(s)
        ty == PlaceType(s.dest)
        to == Shift(<<s.dest.base, 0>>, FirstPointer(ty))
        pointer(op) == Shift(<<op.place.base, 0>>, FirstPointer(PlaceType(op.place)))
    IN  CASE def.known \in {"alloc", "allocate", "raw_vec"} -> {Write(m, to, {<<s.heap, 0>>})}
          [] def.known \in {"offset", "cast", "as_ptr", "unique_new", "map_err", "into", "realloc"} ->
                 {Write(m, to, Values(m, pointer(s.args[1])))}
          [] def.known = "grow" -> {Write(m, to, Values(m, pointer(s.args[2])))}
          [] def.known = "transmute" -> PutOperand(m, s.args[1], <<s.dest.base, 0>>, size_of(ty))
          [] OTHER -> {m}

Effects(m, s) ==
    CASE s.kind = "assign" -> UNION {RvalueInto(m, s.rvalue, PlaceType(s.place), to) : to \in Addrs(m, s.place)}
      [] s.kind = "copy_nonoverlapping" ->
             {Copy(m, from, to, size_of(TypeAt(PlaceType(s.src), <<Deref>>))) :
                 from \in Values(m, <<s.src.base, 0>>), to \in Values(m, <<s.dst.base, 0>>)}
      [] s.kind = "call" -> IF s.func.kind = "const" THEN CallInto(m, s) ELSE {m}

-----------------------------------------------------------------------------
(* The least solution of the edges.                                         *)

\* Every type has a number, the builder's first.
AllTypes == FoldSet(LAMBDA t, ts : Append(ts, t), b.types, Ty \ Range(b.types))
TypeNow(p) == TypeBehind(AllTypes, TypeOfBase(b, p.base), p.proj)

Pointees(P, n) == {e[2] : e \in {f \in P : f[1] = n}}

\* The nodes that e joins directly: its ends, or a part of what they point to.
Ends(P, e) ==
    CASE e.kind \in {"direct", "offset"} -> {<<e.src, e.dst>>}
      [] e.kind = "load" -> {<<append_projection(o, e.proj), e.dst>> : o \in Pointees(P, e.src)}
      [] e.kind = "store" -> {<<e.src, append_projection(o, e.proj)>> : o \in Pointees(P, e.dst)}
      [] OTHER -> {}

\* A direct edge between pointers of other types carries nothing.
CrossesTyped(s, d, o) ==
    /\ equivalent_ptr_types(s, d)
    /\ \/ Kind(get_dereferenced_type(s)) # "dyn"
       \/ Kind(get_dereferenced_type(d)) = "dyn"
       \/ equal_types(TypeNow(o), get_dereferenced_type(d))
Crosses(P, src, dst) == {<<dst, o>> : o \in {x \in Pointees(P, src) : CrossesTyped(TypeNow(src), TypeNow(dst), x)}}

\* What the other edges make of a pointee: a variant or a field of it.
Made(e, o) ==
    IF e.kind = "gep" THEN append_projection(o, e.proj)
    ELSE cast_to(AllTypes, [p \in {} |-> {}], o, get_dereferenced_type(TypeNow(e.dst))).path

Along(P, e) ==
    CASE e.kind = "addr" -> {<<e.dst, e.src>>}
      [] e.kind \in {"cast", "gep"} -> {<<e.dst, Made(e, o)>> : o \in Pointees(P, e.src)}
      [] OTHER -> UNION {Crosses(P, n[1], n[2]) : n \in Ends(P, e)}

RECURSIVE Solution(_, _)
Solution(edges, P) ==
    Then(P \cup UNION {Along(P, e) : e \in edges}, LAMBDA Q : IF Q = P THEN P ELSE Solution(edges, Q))

\* The nodes that stand for a byte of an object, and the bytes that a path
\* stands for; an index stands for every element.
RECURSIVE PtrCells(_)
PtrCells(t) ==
    IF is_any_ptr(t) THEN {<<0, <<>>>>}
    ELSE UNION {LET part == Parts(t)[n]
                    offs == CASE Kind(t) = "array" -> {k * size_of(Elem(t)) : k \in 0..(tcx[t].len - 1)}
                              [] OTHER -> {PlaceOffset(t, part[1])}
                IN  {<<off + c[1], part[1] \o c[2]>> : off \in offs, c \in PtrCells(part[2])} : n \in DOMAIN Parts(t)}

Variants(base) ==
    {<<>>} \cup {<<e[2].proj[1]>> : e \in {f \in pts : /\ f[2].base = base /\ IsQualified(f[2])
                                                      /\ f[2].proj[1][1] = "Cast"}}
NodesOf(base, off) ==
    UNION {{Path(base, v \o c[2]) : c \in {d \in PtrCells(TypeNow(Path(base, v))) : d[1] = off}} : v \in Variants(base)}

RECURSIVE Bytes(_, _)
Bytes(t, proj) ==
    IF proj = <<>> THEN {0}
    ELSE LET e == Head(proj)
             sub == TypeOfSelector(AllTypes, t, e)
             offs == CASE e[1] = "Index" -> {k * size_of(sub) : k \in 0..(IF tcx[t].len = 0 THEN 0 ELSE tcx[t].len - 1)}
                       [] OTHER -> {ElemOffset(t, e)}
         IN  {o + n : o \in offs, n \in Bytes(sub, Tail(proj))}

Denotes(o, v) ==
    \/ o.base = v[1] /\ v[2] \in Bytes(TypeOfBase(b, o.base), o.proj)
    \/ /\ v[1] \in DOMAIN BaseType /\ BaseType[v[1]] \in DOMAIN ArrSummary
       /\ o = Base(ArrSummary[BaseType[v[1]]])

Found(n, v) == \E o \in Pointees(pts, n) : Denotes(o, v)

-----------------------------------------------------------------------------
ArgPts == UNION {{<<n, Base(f[3][1])>> : n \in {Path(f[1], c[2]) : c \in {d \in PtrCells(BaseType[f[1]]) : d[1] = f[2]}}} :
                   f \in ArgMem}

Init ==
    /\ tcx \in Layouts
    /\ family \in DOMAIN Pools
    /\ \E o \in Owners[family] : b = FuncPAGBuilderNew(o[1], o[2])
    /\ body = {} /\ built = FALSE /\ pts = {} /\ mem = ArgMem

Visit(s) ==
    /\ ~built /\ Cardinality(body) < MaxStmts
    /\ \E r \in {visit_statement(b, s)} : b' = r
    /\ body' = body \cup {s}
    /\ UNCHANGED <<tcx, family, built, pts, mem>>

Finish ==
    /\ ~built
    /\ \E r \in {finish_body(b, Base(Ret))} : b' = r
    /\ built' = TRUE
    /\ UNCHANGED <<tcx, family, body, pts, mem>>

\* The solver on the edges of this body and the arguments.
SolveBody ==
    /\ built /\ pts = {}
    /\ \E P \in {Solution(b.edges, ArgPts)} : pts' = P
    /\ UNCHANGED <<tcx, family, b, body, built, mem>>

Run(s) ==
    /\ pts # {}
    /\ \E m \in Effects(mem, s) : mem' = m
    /\ UNCHANGED <<tcx, family, b, body, built, pts>>

\* The value returned is the promoted or static from now on.
Return ==
    /\ pts # {} /\ b.owner # "none"
    /\ mem' = Copy(mem, <<Ret, 0>>, <<b.owner, 0>>, size_of(BaseType[Ret]))
    /\ UNCHANGED <<tcx, family, b, body, built, pts>>

Next ==
    \/ \E s \in Pools[family] \ body : Visit(s)
    \/ Finish \/ SolveBody \/ Return
    \/ \E s \in body : Run(s)

Spec == Init /\ [][Next]_vars

-----------------------------------------------------------------------------
\* Edges join what the solver takes them to join: pointers, none of them a
\* dereference.
TypeOK ==
    /\ tcx \in Layouts /\ body \subseteq Pools[family] /\ built \in BOOLEAN
    /\ Range(b.aux) \subseteq Ty
    /\ \A e \in b.edges :
          /\ ~is_deref_path(e.src) /\ ~is_deref_path(e.dst)
          /\ is_any_ptr(PathType(b, e.dst))
          /\ e.kind # "addr" => is_any_ptr(PathType(b, e.src))

\* No assertion of the builder fails: an edge never has to join two
\* dereferences, and a dereference is never of a field (builder/fpag_builder.rs:1350-1357,
\* mir/path.rs:338-340, 391-392).
NeverPanics == ~b.panic

\* An edge between pointers of types that the solver takes for different would
\* be there for nothing: what is read or written through a load or store edge
\* has the type of the other end (builder/fpag_builder.rs:1318-1357, 1536-1573).
EdgesCarry ==
    \A e \in b.edges :
        LET behind(p) == TypeBehind(b.types, get_dereferenced_type(PathType(b, p)), e.proj)
        IN  CASE e.kind \in {"direct", "offset"} -> equivalent_ptr_types(PathType(b, e.src), PathType(b, e.dst))
              [] e.kind = "load" -> equivalent_ptr_types(behind(e.src), PathType(b, e.dst))
              [] e.kind = "store" -> equivalent_ptr_types(behind(e.dst), PathType(b, e.src))
              [] OTHER -> TRUE

\* Whatever statements a body has, in whatever order, the builder gets through
\* them without a failed assertion and leaves edges that the solver can use
\* (builder/fpag_builder.rs:201-219, 1318-1357).
BuiltWell == TypeOK /\ NeverPanics /\ EdgesCarry

\* Every pointer that a run puts anywhere, directly, through pointers, boxes
\* and unions, by constants or by the special functions, is among the pointees
\* of every path to that byte (builder/fpag_builder.rs:203-220, 404-440).
PointersFound == pts # {} => \A f \in mem : \A n \in NodesOf(f[1], f[2]) : Found(n, f[3])

\* What the pointer in a place holds, and what each pointer inside it holds,
\* beside the node below path that stands for it.
ValuesOf(p) == UNION {Values(mem, Shift(a, FirstPointer(PlaceType(p)))) : a \in Addrs(mem, p)}
HeldBy(p, path) ==
    UNION {{<<append_projection(path, c[2]), v>> : v \in Values(mem, Shift(a, c[1]))} :
              a \in Addrs(mem, p), c \in PtrCells(PlaceType(p))}
\* The fields of a tuple and the arguments that each is passed as.
Tuple(p, args) == {<<NewField(p, i), args[i]>> : i \in DOMAIN args}

\* The pointer that decides what is called.
Receiver(s, c) ==
    LET p == IF s.func.kind = "place" THEN s.func.place ELSE s.args[1].place
        ty == PlaceType(p)
    IN  CASE c.kind \in {"static", "special"} -> {}
          [] c.kind = "fnptr" /\ Kind(ty) = "ptr" -> ValuesOf(append_projection(p, <<Deref>>))
          [] c.kind \in {"dynamic", "fntrait"} /\ is_deref_path(p) -> ValuesOf(Base(p.base))
          [] OTHER -> ValuesOf(p)

\* Node and value for each pointer that the callee finds in its parameters.
Passed(s, c) ==
    LET inlined == s.func.kind = "const" /\ Callee(s).target = "inline" /\ c.kind # "fntrait"
        spawn == Callee(s).known = "spawn"
        obj == s.args[IF spawn THEN 2 ELSE 1].place
        ty == PlaceType(obj)
        self == Callee(s).gen[1]
        by_ref == inlined /\ Kind(self) = "closure" /\ ty = self /\ self \in ByRef
        parts == IF ~inlined THEN {<<s.args[i].place, c.site.args[i]>> : i \in {j \in DOMAIN s.args : s.args[j].kind = "place"}}
                 ELSE IF Kind(self) # "closure" THEN Tuple(s.args[2].place, c.site.args)
                 ELSE (IF by_ref THEN {} ELSE {<<obj, c.site.args[1]>>})
                          \cup (IF spawn THEN {} ELSE Tuple(s.args[2].place, Tail(c.site.args)))
    IN  UNION {HeldBy(part[1], part[2]) : part \in parts}
            \cup (IF by_ref THEN {<<c.site.args[1], a>> : a \in Addrs(mem, obj)} ELSE {})

\* Each call is recorded, the pointer on which an indirect call hangs has every
\* function or object that a run finds there, and each argument every pointer
\* that is passed, after the tuple of Fn* calls is unpacked and the closure is
\* put in front (builder/fpag_builder.rs:1017-1312,
\* builder/special_function_handler.rs:276-301).
CallsFound ==
    pts # {} => \A s \in {t \in body : t.kind = "call"} :
        /\ \E c \in b.calls : c.site.loc \in {s.loc, s.loc + 1}
        /\ \A c \in b.calls : c.site.loc \in {s.loc, s.loc + 1} /\ c.kind # "special" =>
              /\ \A v \in Receiver(s, c) : Found(c.on, v)
              /\ \A f \in Passed(s, c) : Found(f[1], f[2])
=============================================================================
