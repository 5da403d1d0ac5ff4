----------------------------- MODULE DiffPTData -----------------------------
(***************************************************************************)
(* DiffPTData of pts_set/pt_data.rs: the points-to data of the solver, split *)
(* per variable into what is still to be propagated and what has been.  The  *)
(* maps have no entry for a variable nobody asked for; DataSet is the set    *)
(* that PointsToSets shows HybridPointsToSet to be.                          *)
(***************************************************************************)
EXTENDS FiniteSets

CONSTANTS Key,    \* variables
          Data    \* elements of points-to sets

VARIABLES diff_pts_map, propa_pts_map,
          changed   \* what the last operation returned

vars == <<diff_pts_map, propa_pts_map, changed>>

PtsMaps == UNION {[K -> SUBSET Data] : K \in SUBSET Key}

TypeOK ==
    /\ diff_pts_map \in PtsMaps /\ propa_pts_map \in PtsMaps
    /\ DOMAIN propa_pts_map \subseteq DOMAIN diff_pts_map
    /\ changed \in BOOLEAN

NoEntries == [k \in {} |-> {}]
Init == diff_pts_map = NoEntries /\ propa_pts_map = NoEntries /\ changed = FALSE

\* get: the entry of var, empty when there is none
Get(map, var) == IF var \in DOMAIN map THEN map[var] ELSE {}

\* entry(var).or_insert, then an assignment to it
Put(map, var, ds) == [k \in DOMAIN map \cup {var} |-> IF k = var THEN ds ELSE map[k]]

\* get_mut(var), then an assignment to it
PutIfPresent(map, var, ds) == IF var \in DOMAIN map THEN Put(map, var, ds) ELSE map

-----------------------------------------------------------------------------
AddPts(var, elem) ==
    IF elem \in Get(propa_pts_map, var)
      THEN changed' = FALSE /\ UNCHANGED <<diff_pts_map, propa_pts_map>>
      ELSE /\ diff_pts_map' = Put(diff_pts_map, var, Get(diff_pts_map, var) \cup {elem})
           /\ changed' = (elem \notin Get(diff_pts_map, var))
           /\ UNCHANGED propa_pts_map

M_UnionInto(dst, sets) == \* adds what was propagated from dst again
    /\ diff_pts_map' = IF sets = {} THEN diff_pts_map
                       ELSE Put(diff_pts_map, dst, Get(diff_pts_map, dst) \cup UNION sets)
    /\ propa_pts_map' = IF sets = {} THEN propa_pts_map
                        ELSE Put(propa_pts_map, dst, Get(propa_pts_map, dst))
    /\ changed' = ~(UNION sets \subseteq Get(diff_pts_map, dst))

\* union_pts_to(dst, ds) for each ds of sets; without one, no entry is made.
UnionInto(dst, sets) ==
    LET new == (UNION sets) \ Get(propa_pts_map, dst)
    IN  /\ diff_pts_map' = IF sets = {} THEN diff_pts_map
                           ELSE Put(diff_pts_map, dst, Get(diff_pts_map, dst) \cup new)
        /\ propa_pts_map' = IF sets = {} THEN propa_pts_map
                            ELSE Put(propa_pts_map, dst, Get(propa_pts_map, dst))
        /\ changed' = ~(new \subseteq Get(diff_pts_map, dst))

\* The entries of src in the maps; a union of a variable with itself does
\* nothing.
EntriesOf(src, maps) == {map[src] : map \in {mp \in maps : src \in DOMAIN mp}}

UnionDiffPts(dst, src) ==
    UnionInto(dst, IF dst = src THEN {} ELSE EntriesOf(src, {diff_pts_map}))

UnionPts(dst, src) ==
    UnionInto(dst, IF dst = src THEN {} ELSE EntriesOf(src, {diff_pts_map, propa_pts_map}))

UnionPtsTo(dst, ds) == UnionInto(dst, {ds})

RemovePtsElem(var, elem) ==
    /\ diff_pts_map' = Put(diff_pts_map, var, Get(diff_pts_map, var) \ {elem})
    /\ propa_pts_map' = Put(propa_pts_map, var, Get(propa_pts_map, var) \ {elem})
    /\ changed' = (elem \in Get(diff_pts_map, var) \cup Get(propa_pts_map, var))

Flush(var) ==
    /\ var \in DOMAIN diff_pts_map
    /\ propa_pts_map' = Put(propa_pts_map, var, Get(propa_pts_map, var) \cup diff_pts_map[var])
    /\ diff_pts_map' = Put(diff_pts_map, var, {})
    /\ UNCHANGED changed

ClearPts(var) ==
    /\ diff_pts_map' = PutIfPresent(diff_pts_map, var, {})
    /\ propa_pts_map' = PutIfPresent(propa_pts_map, var, {})
    /\ UNCHANGED changed

ClearDiffPts(var) ==
    diff_pts_map' = PutIfPresent(diff_pts_map, var, {}) /\ UNCHANGED <<propa_pts_map, changed>>

ClearPropaPts(var) ==
    propa_pts_map' = PutIfPresent(propa_pts_map, var, {}) /\ UNCHANGED <<diff_pts_map, changed>>

Clear == diff_pts_map' = NoEntries /\ propa_pts_map' = NoEntries /\ UNCHANGED changed

Next ==
    \/ \E var \in Key :
          \/ \E elem \in Data : AddPts(var, elem) \/ RemovePtsElem(var, elem)
          \/ \E src \in Key : UnionDiffPts(var, src) \/ UnionPts(var, src)
          \/ \E ds \in SUBSET Data : UnionPtsTo(var, ds)
          \/ Flush(var) \/ ClearPts(var) \/ ClearDiffPts(var) \/ ClearPropaPts(var)
    \/ Clear

Spec == Init /\ [][Next]_vars

-----------------------------------------------------------------------------
Pts(var) == Get(diff_pts_map, var) \cup Get(propa_pts_map, var)

\* Together the two maps behave as one set per variable, and every operation
\* reports a change exactly when that set grew or shrank, though it looks at
\* one of the two parts only (pts_set/pt_data.rs:181-302).
Plain == INSTANCE PlainSets WITH Slot <- Key, Member <- Data,
             sets <- [k \in Key |-> Pts(k)], reports <- {changed}
ImplementsSets == Plain!DataSpec

\* An element is handed out for propagation once: what enters the difference
\* was in neither part before, so an element returns to it only after it was
\* removed or cleared (pts_set/pt_data.rs:184, 227).
PropagatedOnce ==
    [][\A k \in Key : (Get(diff_pts_map', k) \ Get(diff_pts_map, k)) \cap Pts(k) = {}]_vars

\* The two maps of the difference points-to data stand for one set per
\* variable, with exact reports, and an element is handed out for propagation
\* once (pts_set/pt_data.rs:181-302).
DiffDataExact == []TypeOK /\ ImplementsSets /\ PropagatedOnce
=============================================================================
