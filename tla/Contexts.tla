------------------------------ MODULE Contexts ------------------------------
(***************************************************************************)
(* mir/context.rs and pta/strategies/context_strategy.rs: contexts are        *)
(* sequences of call sites or objects, the newest first.  A call site is      *)
(* <<function, location>>, an object <<path, its context>>.  The code knows a *)
(* context by the number the cache gave it; the model writes the context      *)
(* itself, and keeps the cache as the set of those that have a number.        *)
(***************************************************************************)
EXTENDS Integers, Sequences

Empty == <<>>

k_limited_context(ctx, k) == IF Len(ctx) <= k THEN ctx ELSE SubSeq(ctx, 1, k)

M_new_k_limited_context(old, elem, k) == \* the last old element is kept
    IF k > 0 THEN <<elem>> \o (IF Len(old) <= k THEN old ELSE SubSeq(old, 1, k)) ELSE Empty
new_k_limited_context(old, elem, k) ==
    IF k > 0 THEN <<elem>> \o (IF Len(old) < k THEN old ELSE SubSeq(old, 1, k - 1)) ELSE Empty

-----------------------------------------------------------------------------
(* The cache, when the contexts ctxs are asked for.                           *)

get_context_id(cache, ctxs) == cache \cup ctxs

-----------------------------------------------------------------------------
(* The strategies.  st is [kind, k]; a call site has the caller's context.   *)

NoReceiver == <<>>

\* Elements of hybrid contexts are tagged; the insensitive strategy has k = 0.
SiteElem(st, site) == IF st.kind = "hybrid" THEN <<"CallSite", <<site.func, site.loc>>>> ELSE <<site.func, site.loc>>
ObjectElem(st, path) == IF st.kind = "hybrid" THEN <<"Object", path>> ELSE path

new_static_call_context(st, site) ==
    IF st.kind = "object" THEN site.ctx ELSE new_k_limited_context(site.ctx, SiteElem(st, site), st.k)

\* The contexts of a call of a method: none before its receiver is known, for
\* the strategies that need it.
NeedsReceiver(st) == st.kind \in {"object", "hybrid"}
new_instance_call_context(st, site, receiver) ==
    IF ~NeedsReceiver(st) THEN {new_static_call_context(st, site)}
    ELSE IF receiver = NoReceiver THEN {}
    ELSE {new_k_limited_context(receiver[2], ObjectElem(st, receiver[1]), st.k)}
=============================================================================
