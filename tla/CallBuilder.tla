----------------------------- MODULE CallBuilder -----------------------------
(***************************************************************************)
(* The calls of a body (builder/fpag_builder.rs) and the functions whose      *)
(* effect is built in place of a call (builder/special_function_handler.rs).  *)
(* A call is [func, args, dest, loc, heap]: heap names the object it          *)
(* allocates, if it is an allocation.  Which function a trait method resolves *)
(* to is the compiler's answer, part of CalleeDef.                            *)
(***************************************************************************)
EXTENDS FuncPAGBuilder

CONSTANTS U8Slice,   \* the type [u8]
          Unit       \* the type ()

NewCall(b, kind, on, callee, site) ==
    [b EXCEPT !.calls = @ \cup {[kind |-> kind, on |-> on, callee |-> callee, site |-> site]}]
add_static_dispatch_callsite(b, site, callee) == NewCall(b, "static", NoPath, callee, site)
add_special_callsite(b, site, callee) == NewCall(b, "special", NoPath, callee, site)
add_dynamic_dispatch_callsite(b, receiver, site, callee) == NewCall(b, "dynamic", receiver, callee, site)
add_dynamic_fntrait_callsite(b, obj, site, callee) == NewCall(b, "fntrait", obj, callee, site)
add_fnptr_callsite(b, fn_ptr, site) == NewCall(b, "fnptr", fn_ptr, "any", site)

CallSite(loc, args, dest) == [loc |-> loc, args |-> args, dest |-> dest]

\* as [b, path]: a qualified pointer is first copied to an auxiliary local
create_dereference(b, p) ==
    LET aux == NextAux(b)
    IN  IF IsQualified(p)
          THEN At(add_direct_edge(create_aux_local(b, PathType(b, p)), p, aux), append_projection(aux, <<Deref>>))
          ELSE At(b, append_projection(p, <<Deref>>))

-----------------------------------------------------------------------------
(* Fn*::call* takes the callee and a tuple, which the call unpacks.         *)

M_closure_receiver(b, self, p) == \* the closure itself is passed
    At(b, p)
\* The closure, or a reference to it where its body takes one.
closure_receiver(b, self, p) ==
    LET aux == NextAux(b)
    IN  IF self \in ByRef /\ Kind(PathType(b, p)) # "ptr"
          THEN At(add_addr_edge(create_aux_local(b, PtrTo[self]), p, aux), aux) ELSE At(b, p)

\* The function pointer, loaded first where the argument is a reference to it.
fnptr_receiver(b, p) ==
    LET ty == PathType(b, p)
    IN  IF Kind(ty) = "ptr"
          THEN Then(create_dereference(create_aux_local(b, get_dereferenced_type(ty)), p),
                    LAMBDA d : At(add_load_edge(d.b, d.path, NextAux(b)), NextAux(b)))
          ELSE At(b, p)

inline_indirectly_called_function(b0, callee, self, args, dest, loc) ==
    LET tuple == args[2]
        actual == IF tuple.base = Constant THEN <<>>
                  ELSE [i \in DOMAIN Fields(PathType(b0, tuple)) |-> NewField(tuple, i)]
        b == IF actual = <<>> THEN b0 ELSE Unqualified(b0, tuple)
        closure == closure_receiver(b, self, args[1])
        fn_ptr == fnptr_receiver(b, args[1])
        obj == args[1]
    IN  CASE Kind(self) = "fndef" -> add_static_dispatch_callsite(b, CallSite(loc, actual, dest), FnPath[self])
          [] Kind(self) = "closure" ->
                 add_static_dispatch_callsite(closure.b, CallSite(loc, <<closure.path>> \o actual, dest), FnPath[self])
          [] Kind(self) = "fnptr" -> add_fnptr_callsite(fn_ptr.b, fn_ptr.path, CallSite(loc, actual, dest))
          [] Kind(self) = "dyn" ->
                 IF is_any_ptr(PathType(b, obj))
                   THEN add_dynamic_fntrait_callsite(b, obj, CallSite(loc, args, dest), callee)
                 ELSE IF obj.proj = <<Deref>>
                   THEN add_dynamic_fntrait_callsite(b, Base(obj.base), CallSite(loc, args, dest), callee)
                 ELSE b
          [] OTHER -> b

\* target: "inline" for closures and what std::ops has no body for, a function
\* that implements Fn* otherwise, "none" where it cannot be resolved
resolve_fntrait_call(b, callee, args, dest, loc) ==
    LET def == CalleeDef[callee]
    IN  CASE def.target = "inline" -> inline_indirectly_called_function(b, callee, def.gen[1], args, dest, loc)
          [] def.target = "none" -> b
          [] OTHER -> add_static_dispatch_callsite(b, CallSite(loc, args, dest), def.target)

-----------------------------------------------------------------------------
(* Special functions.                                                       *)

handle_transmute(b, def, args, dest) == copy_and_transmute(b, args[1], def.gen[1], dest, PathType(b, dest))
handle_offset(b, args, dest) == add_offset_edge(b, args[1], dest)
handle_ptr_cast(b, args, dest) == add_cast_edge(b, args[1], dest)

\* aux = &object as ty; dest.proj = aux
AllocateInto(b, heap, ty, dest, proj) ==
    Then(cast_to(b.types, b.casts, Base(heap), ty), LAMBDA cast :
        LET aux == NextAux(b)
            b1 == create_aux_local([Unqualified(b, dest) EXCEPT !.types = cast.types, !.casts = cast.casts], PtrTo[ty])
        IN  add_direct_edge(add_addr_edge(b1, cast.path, aux), aux, append_projection(dest, proj)))

handle_raw_vec_allocate_in(b, def, dest, heap) ==
    AllocateInto([b EXCEPT !.concretized = @ \cup {<<Base(heap), def.gen[1]>>}],
                 heap, def.gen[1], dest, <<First, First, First>>)

\* The thread's closure is called here, at a location of its own; what it
\* returns does not reach the destination.
handle_thread_builder_spawn_unchecked(b, callee, def, args, loc) ==
    LET unit == NextAux(b)
        b1 == create_aux_local(b, Unit)
        ret == NextAux(b1)
    IN  inline_indirectly_called_function(create_aux_local(b1, def.gen[2]), callee, def.gen[1],
                                          <<args[2], unit>>, ret, loc + 1)

handle_non_null_as_ptr(b, args, dest) == add_direct_edge(b, NewField(args[1], 1), dest)
handle_unique_new_unchecked(b, args, dest) ==
    add_direct_edge(Unqualified(b, dest), args[1], append_projection(dest, <<First, First>>))
handle_result_map_err(b, def, args, dest) ==
    add_internal_edges(Unqualified(Unqualified(b, args[1]), dest),
                       append_projection(args[1], <<Ok, First>>), def.gen[1],
                       append_projection(dest, <<Ok, First>>), def.gen[1])
handle_unique_into_nonnull(b, args, dest) ==
    LET src == NewField(args[1], 1)
    IN  add_internal_edges(Unqualified(b, args[1]), src, PathType(b, src), dest, PathType(b, dest))

handle_alloc(b, known, args, dest, heap) ==
    CASE known = "alloc" -> add_addr_edge(b, Base(heap), dest)
      [] known = "allocate" -> AllocateInto(b, heap, U8Slice, dest, <<Ok, First, First>>)
      [] known = "realloc" -> add_direct_edge(b, args[1], dest)
      [] known = "grow" ->
             add_cast_edge(Unqualified(Unqualified(b, args[2]), dest),
                           NewField(args[2], 1), append_projection(dest, <<Ok, First, First>>))
      [] OTHER -> b   \* dealloc

\* One name for each group of known functions; into is Unique into NonNull.
Special == {"transmute", "offset", "cast", "raw_vec", "spawn", "as_ptr", "unique_new", "map_err", "into",
            "alloc", "allocate", "realloc", "grow", "dealloc"}

handled_as_special_function_call(b, callee, args, dest, s) ==
    LET def == CalleeDef[callee]
    IN  CASE def.known = "transmute" -> handle_transmute(b, def, args, dest)
          [] def.known = "offset" -> handle_offset(b, args, dest)
          [] def.known = "cast" -> handle_ptr_cast(b, args, dest)
          [] def.known = "raw_vec" -> handle_raw_vec_allocate_in(b, def, dest, s.heap)
          [] def.known = "spawn" -> handle_thread_builder_spawn_unchecked(b, callee, def, args, s.loc)
          [] def.known = "as_ptr" -> handle_non_null_as_ptr(b, args, dest)
          [] def.known = "unique_new" -> handle_unique_new_unchecked(b, args, dest)
          [] def.known = "map_err" -> handle_result_map_err(b, def, args, dest)
          [] def.known = "into" -> handle_unique_into_nonnull(b, args, dest)
          [] OTHER -> handle_alloc(b, def.known, args, dest, s.heap)

-----------------------------------------------------------------------------
\* class: fntrait, plain, resolved (a trait method with one target), dyn, none
resolve_call(b, callee, site, s) ==
    LET def == CalleeDef[callee]
        special == IF def.class = "resolved" THEN def.target ELSE callee
    IN  IF def.known \in Special
          THEN [add_special_callsite(handled_as_special_function_call(b, callee, site.args, site.dest, s), site, special)
                   EXCEPT !.special_functions = @ \cup {special}]
        ELSE CASE def.class = "fntrait" -> resolve_fntrait_call(b, callee, site.args, site.dest, s.loc)
               [] def.class = "plain" -> add_static_dispatch_callsite(b, site, callee)
               [] def.class = "resolved" -> add_static_dispatch_callsite(b, site, def.target)
               [] def.class = "dyn" -> add_dynamic_dispatch_callsite(b, site.args[1], site, callee)
               [] OTHER -> b

visit_call(b, s) ==
    Then(OperandPath(b, s.func), LAMBDA f :
        LET ty == PathType(f.b, f.path)
        IN  IF Kind(ty) \notin {"fnptr", "fndef", "closure"} THEN f.b
            ELSE Then(visit_args(f.b, s.args), LAMBDA r :
                Then(get_path_for_place(r.b, s.dest), LAMBDA d :
                    LET site == CallSite(s.loc, r.paths, d.path)
                    IN  IF Kind(ty) = "fnptr" THEN add_fnptr_callsite(d.b, f.path, site)
                        ELSE resolve_call(d.b, FnPath[ty], site, s))))

visit_statement(b, s) ==
    CASE s.kind = "assign" -> visit_assign(b, s.place, s.rvalue)
      [] s.kind = "copy_nonoverlapping" -> visit_copy_non_overlapping(b, s.src, s.dst)
      [] s.kind = "call" -> visit_call(b, s)

\* The end of build: a promoted, static or const is what its body returns.
finish_body(b, ret) ==
    IF b.owner = "none" THEN b
    ELSE add_internal_edges(b, ret, PathType(b, ret), Base(b.owner), PathType(b, ret))
=============================================================================
