------------------------------ MODULE MCBodies ------------------------------
(***************************************************************************)
(* Small bodies over locals of pointer, struct, union, enum, array, box,      *)
(* vector, closure and function types.  The parameters p, pp1, ps1, pU1, pA1, *)
(* pfp1 and nn8 point to objects of the caller.  Each family of statements is *)
(* about one part of the builder; a body mixes a few statements of one.  A    *)
(* transmute into a union reaches its first field only, and a write through a *)
(* pointer to a union the field it names: no family has either followed by a  *)
(* read of another field.                                                     *)
(***************************************************************************)
EXTENDS BodySoundness

Fn(known, class, gen, target) == [known |-> known, class |-> class, gen |-> gen, target |-> target]
Spec1(known) == Fn(known, "plain", <<>>, "none")

MCCalleeDef == [
    foo |-> Fn("none", "plain", <<>>, "none"),
    method |-> Fn("none", "resolved", <<>>, "foo"),
    dyn_method |-> Fn("none", "dyn", <<>>, "none"),
    call_foo |-> Fn("none", "fntrait", <<"foo">>, "inline"),
    call_closure |-> Fn("none", "fntrait", <<"C">>, "inline"),
    call_fnptr |-> Fn("none", "fntrait", <<"fp">>, "inline"),
    call_dyn |-> Fn("none", "fntrait", <<"Dy">>, "inline"),
    call_impl |-> Fn("none", "fntrait", <<"S">>, "foo"),
    spawn |-> Fn("spawn", "plain", <<"C", "pu">>, "inline"),
    transmute |-> Fn("transmute", "plain", <<"W">>, "none"),
    raw_vec |-> Fn("raw_vec", "plain", <<"S">>, "none"),
    map_err |-> Fn("map_err", "plain", <<"pu">>, "none"),
    offset |-> Spec1("offset"), cast |-> Spec1("cast"), as_ptr |-> Spec1("as_ptr"),
    unique_new |-> Spec1("unique_new"), into |-> Spec1("into"), alloc |-> Spec1("alloc"),
    allocate |-> Spec1("allocate"), realloc |-> Spec1("realloc"), grow |-> Spec1("grow"),
    dealloc |-> Spec1("dealloc")]
Fns == DOMAIN MCCalleeDef

Def(kind, of, len) ==
    [kind |-> kind, of |-> of, len |-> len, size |-> IF kind \in {"scalar", "ptr", "fnptr"} THEN 1 ELSE 0,
     memory_index |-> [i \in DOMAIN of |-> i]]
Of(kind, t) == Def(kind, <<t>>, 0)

MCTypeDef == [
    never |-> Def("never", <<>>, 0), unit |-> Def("tuple", <<>>, 0),
    u8 |-> Def("scalar", <<>>, 0), pu |-> Of("ptr", "u8"), ppu |-> Of("ptr", "pu"),
    S |-> Def("struct", <<"u8", "pu">>, 0), ps |-> Of("ptr", "S"), W |-> Of("struct", "pu"),
    U |-> Def("union", <<"pu", "W", "S">>, 0), pU |-> Of("ptr", "U"),
    V1 |-> Of("tuple", "pu"), V2 |-> Def("tuple", <<"u8", "pu">>, 0), E |-> Def("enum", <<"V1", "V2">>, 0),
    Arr |-> Def("array", <<"pu">>, 2), pArr |-> Of("ptr", "Arr"), Sl |-> Of("slice", "pu"), pSl |-> Of("ptr", "Sl"),
    NN |-> Of("struct", "ps"), Uq |-> Of("struct", "NN"), Bx |-> Of("struct", "Uq"),
    RV |-> Def("struct", <<"Uq", "u8">>, 0),
    Sl8 |-> Of("slice", "u8"), pSl8 |-> Of("ptr", "Sl8"), NN8 |-> Of("struct", "pu"), NNs |-> Of("struct", "pSl8"),
    Rok |-> Of("tuple", "NNs"), R |-> Def("enum", <<"Rok", "unit">>, 0),
    fp |-> Of("fnptr", "foo"), pfp |-> Of("ptr", "fp"), C |-> Of("closure", "pu"), pC |-> Of("ptr", "C"),
    Dy |-> Def("dyn", <<>>, 0), pDy |-> Of("ptr", "Dy"), Tup |-> Of("tuple", "pu"),
    Strs |-> Def("array", <<"pu">>, 1), pStrs |-> Of("ptr", "Strs")]
    @@ [f \in Fns |-> Def("fndef", <<>>, 0)]
MCTy == DOMAIN MCTypeDef

MCLayouts ==
    {[MCTypeDef EXCEPT !["S"].memory_index = order, !["V2"].memory_index = order, !["RV"].memory_index = order] :
        order \in {<<1, 2>>, <<2, 1>>}}

MCBaseType == [
    none |-> "never", k |-> "never",
    x |-> "u8", y |-> "u8", p |-> "pu", q |-> "pu", pp |-> "ppu", pp1 |-> "ppu", p1 |-> "pu",
    s |-> "S", t |-> "S", tv |-> "V2", o |-> "S", ps1 |-> "ps", ps2 |-> "ps", w |-> "W",
    u |-> "U", ou |-> "U", pU1 |-> "pU", e |-> "E", e2 |-> "E", a |-> "Arr", oa |-> "Arr", pA |-> "pArr", pA1 |-> "pArr", sl |-> "pSl",
    nn |-> "NN", uq |-> "Uq", bx |-> "Bx", v |-> "RV", r |-> "pu", nn8 |-> "NN8", rn |-> "R", rn2 |-> "R", uarg |-> "unit",
    h |-> "u8", hv |-> "u8", h8 |-> "u8", hn |-> "u8",
    f |-> "fp", g |-> "fp", ofp |-> "fp", pfp1 |-> "pfp", fr |-> "pfp", c |-> "C", pc |-> "pC", d |-> "pDy", tup |-> "Tup",
    st |-> "u8", kw |-> "W", pr |-> "pu", strs |-> "Strs", ret |-> "pStrs", own |-> "pStrs", strarr |-> "Strs", impl |-> "S"]
    @@ [fn \in Fns |-> fn]

MCConstDef == [plain |-> [kind |-> "plain", base |-> "k", ty |-> "u8"],
               cst |-> [kind |-> "static_ptr", base |-> "st", ty |-> "pu"],
               cmem |-> [kind |-> "memory_ptr", base |-> "k", ty |-> "pu"],
               cpr |-> [kind |-> "promoted", base |-> "pr", ty |-> "pu"],
               ckw |-> [kind |-> "unevaluated", base |-> "kw", ty |-> "W"]]
    @@ [fn \in Fns |-> [kind |-> "fn", base |-> fn, ty |-> fn]]

MCBoxed == [Bx |-> "S"]
MCPtrTo == [S |-> "ps", Sl8 |-> "pSl8", C |-> "pC"]
MCFnPath == [fn \in Fns |-> fn] @@ [C |-> "c"]
MCArrSummary == [Strs |-> "strarr"]
MCAuxNames == <<"aux1", "aux2", "aux3", "aux4", "aux5", "aux6", "aux7", "aux8", "aux9", "aux10", "aux11", "aux12">>

MCArgMem == {<<"p", 0, <<"x", 0>>>>, <<"pp1", 0, <<"p1", 0>>>>, <<"ps1", 0, <<"o", 0>>>>, <<"pU1", 0, <<"ou", 0>>>>,
             <<"pA1", 0, <<"oa", 0>>>>, <<"pfp1", 0, <<"ofp", 0>>>>, <<"nn8", 0, <<"hn", 0>>>>,
             <<"kw", 0, <<"y", 0>>>>, <<"pr", 0, <<"st", 0>>>>}

-----------------------------------------------------------------------------
F(i) == Sel("Field", i)
V(i) == Sel("Downcast", i)
I(i) == Sel("Index", i)
L(local) == Path(local, <<>>)
Op(p) == [kind |-> "place", place |-> p]
K(const) == [kind |-> "const", const |-> const]
Assign(p, rv) == [kind |-> "assign", place |-> p, rvalue |-> rv]
Rv(op, operand) == [op |-> op, operand |-> operand, kind |-> op]
Copied(p, q) == Assign(p, Rv("use", Op(q)))
Ref(p, q) == Assign(p, Rv("ref", Op(q)))
CastTo(p, kind, operand, ty) == Assign(p, [op |-> "cast", kind |-> kind, operand |-> operand, ty |-> ty])
Agg(p, variant, ops) == Assign(p, [op |-> "aggregate", variant |-> variant, operands |-> ops])
Memcpy(p, q) == [kind |-> "copy_nonoverlapping", src |-> p, dst |-> q]
Call(loc, fn, args, dest, heap) ==
    [kind |-> "call", loc |-> loc, func |-> fn, args |-> args, dest |-> dest, heap |-> heap]

Memory == {
    Ref(L("q"), L("y")), Ref(L("pp"), L("q")), Ref(Path("pp1", <<Deref>>), L("y")),
    Copied(L("q"), Path("pp1", <<Deref>>)), Copied(Path("s", <<F(2)>>), L("p")),
    Copied(Path("ps1", <<Deref>>), L("s")), Copied(L("t"), Path("ps2", <<Deref>>)),
    Ref(L("pp"), Path("ps1", <<Deref, F(2)>>)), Ref(L("ps2"), Path("ps1", <<Deref>>)), Ref(L("ps2"), L("s")),
    Copied(Path("ps2", <<Deref, F(2)>>), Path("pp1", <<Deref>>)), Memcpy(L("pp1"), L("pp")),
    Assign(L("pp"), Rv("copy_for_deref", Op(L("pp1"))))}

Shapes == {
    Copied(Path("u", <<F(1)>>), L("p")), Agg(L("u"), 2, <<Op(L("w"))>>), Copied(Path("u", <<F(3), F(2)>>), L("p")),
    Copied(L("q"), Path("u", <<F(2), F(1)>>)), Copied(Path("pU1", <<Deref, F(1)>>), L("p")),
    Copied(L("w"), Path("pU1", <<Deref, F(2)>>)), Copied(Path("pU1", <<Deref>>), L("u")),
    Agg(L("e"), 2, <<K("plain"), Op(L("p"))>>), Agg(L("e"), 1, <<Op(L("q"))>>), Copied(L("q"), Path("e", <<V(2), F(2)>>)),
    Agg(L("w"), 1, <<Op(L("p"))>>), Assign(L("a"), Rv("repeat", Op(L("p")))),
    Copied(L("q"), Path("a", <<Sel("Subslice", 0), I(0)>>)), Agg(L("a"), 1, <<Op(L("q")), Op(L("p"))>>),
    Copied(Path("pA1", <<Deref, I(1)>>), L("p")), Copied(L("a"), Path("pA1", <<Deref>>))}

Heap == {
    Call(1, K("alloc"), <<>>, L("r"), "h"), Assign(L("bx"), Rv("shallow_init_box", Op(L("r")))),
    Copied(Path("bx", <<Deref, F(2)>>), L("p")), Copied(L("q"), Path("bx", <<Deref, F(2)>>)),
    Call(3, K("raw_vec"), <<>>, L("v"), "hv"), Copied(L("uq"), Path("v", <<F(1)>>)),
    Call(5, K("into"), <<Op(L("uq"))>>, L("nn"), "-"), Call(7, K("as_ptr"), <<Op(L("nn"))>>, L("ps2"), "-"),
    Copied(Path("ps2", <<Deref, F(2)>>), L("p")), Call(9, K("unique_new"), <<Op(L("ps1"))>>, L("uq"), "-"),
    Call(11, K("realloc"), <<Op(L("r"))>>, L("q"), "-"), Call(13, K("allocate"), <<>>, L("rn"), "h8"),
    Call(15, K("grow"), <<K("plain"), Op(L("nn8"))>>, L("rn2"), "-"), Call(17, K("dealloc"), <<Op(L("r"))>>, L("uarg"), "-")}

Calls == {
    CastTo(L("f"), "reify", K("foo"), "fp"), CastTo(Path("pfp1", <<Deref>>), "reify", K("foo"), "fp"),
    Copied(L("g"), Path("pfp1", <<Deref>>)), CastTo(L("g"), "closure", Op(L("c")), "fp"), Ref(L("fr"), L("g")),
    Agg(L("c"), 1, <<Op(L("p"))>>), Agg(L("tup"), 1, <<Op(L("p"))>>), Ref(L("pc"), L("c")),
    CastTo(L("d"), "unsize", Op(L("pc")), "pDy"),
    Call(21, Op(L("g")), <<Op(L("p"))>>, L("q"), "-"), Call(23, K("call_fnptr"), <<Op(L("fr")), Op(L("tup"))>>, L("q"), "-"),
    Call(25, K("call_closure"), <<Op(L("c")), Op(L("tup"))>>, L("q"), "-"),
    Call(27, K("call_closure"), <<Op(L("pc")), K("plain")>>, L("q"), "-"),
    Call(29, K("call_dyn"), <<Op(L("d")), Op(L("tup"))>>, L("q"), "-"),
    Call(31, K("call_dyn"), <<Op(Path("d", <<Deref>>)), Op(L("tup"))>>, L("q"), "-"),
    Call(33, K("call_foo"), <<Op(L("f")), Op(L("tup"))>>, L("q"), "-"),
    Call(35, K("call_impl"), <<Op(L("s")), Op(L("tup"))>>, L("q"), "-"),
    Call(37, K("foo"), <<Op(L("tup"))>>, L("q"), "-"), Call(39, K("method"), <<Op(L("pc"))>>, L("q"), "-"),
    Call(41, K("dyn_method"), <<Op(L("d")), Op(L("p"))>>, L("q"), "-"),
    Call(43, K("spawn"), <<K("plain"), Op(L("c"))>>, L("uarg"), "-")}

Casts == {
    CastTo(L("ps2"), "ptr", Op(L("p")), "ps"), CastTo(Path("pp1", <<Deref>>), "ptr", Op(L("ps1")), "pu"),
    CastTo(L("q"), "direct", Op(L("p")), "pu"), CastTo(L("q"), "ptr", Op(Path("pp1", <<Deref>>)), "pu"),
    CastTo(L("sl"), "unsize", Op(L("pA1")), "pSl"), CastTo(L("w"), "transmute", Op(L("p")), "W"),
    CastTo(L("r"), "int", K("plain"), "pu"), CastTo(L("g"), "ptr", Op(L("f")), "fp"),
    CastTo(L("tv"), "transmute", Op(L("s")), "V2"), Copied(Path("s", <<F(2)>>), L("q")), CastTo(L("q"), "unsize", K("cst"), "pu"),
    Assign(L("q"), Rv("offset", Op(L("p")))), Call(51, K("offset"), <<Op(L("q"))>>, L("r"), "-"),
    Call(53, K("cast"), <<Op(L("r"))>>, L("ps2"), "-"), Call(55, K("transmute"), <<Op(L("w"))>>, L("r"), "-"),
    Call(57, K("map_err"), <<Op(L("e")), K("plain")>>, L("e2"), "-"), Agg(L("e"), 1, <<Op(L("q"))>>)}

Consts == {
    Assign(L("q"), Rv("use", K("cst"))), Assign(L("q"), Rv("use", K("cpr"))), Assign(L("w"), Rv("use", K("ckw"))),
    Assign(L("q"), Rv("use", K("plain"))), Assign(L("q"), Rv("use", K("cmem"))),
    Assign(Path("pp1", <<Deref>>), Rv("use", K("cst"))), Agg(L("strs"), 1, <<Op(L("q"))>>), Ref(L("ret"), L("strs")),
    Call(61, K("foo"), <<K("cst"), Op(L("w"))>>, L("q"), "-")}

MCPools == [memory |-> Memory, shapes |-> Shapes, heap |-> Heap, calls |-> Calls, casts |-> Casts, consts |-> Consts]
MCOwners == [fam \in DOMAIN MCPools |->
    IF fam = "consts" THEN {<<"none", FALSE>>, <<"own", TRUE>>, <<"own", FALSE>>} ELSE {<<"none", FALSE>>}]
=============================================================================
