----------------------------- MODULE BasePTData -----------------------------
(***************************************************************************)
(* BasePTData of pts_set/pt_data.rs: points-to sets per variable together    *)
(* with the reverse map, from an element to the variables that hold it.      *)
(***************************************************************************)
EXTENDS FiniteSets

CONSTANTS Key,    \* variables
          Data    \* elements of points-to sets

VARIABLES pts_map, rev_pts_map,
          changed   \* what the last operation returned

vars == <<pts_map, rev_pts_map, changed>>

Maps(D, R) == UNION {[K -> SUBSET R] : K \in SUBSET D}

TypeOK ==
    /\ pts_map \in Maps(Key, Data) /\ rev_pts_map \in Maps(Data, Key)
    /\ changed \in BOOLEAN

NoEntries == [k \in {} |-> {}]
Init == pts_map = NoEntries /\ rev_pts_map = NoEntries /\ changed = FALSE

Get(map, k) == IF k \in DOMAIN map THEN map[k] ELSE {}
Put(map, k, s) == [j \in DOMAIN map \cup {k} |-> IF j = k THEN s ELSE map[j]]

M_AddRevPts(elems, var) == \* only for elements that have an entry
    [e \in DOMAIN rev_pts_map |-> rev_pts_map[e] \cup IF e \in elems THEN {var} ELSE {}]

\* add_rev_pts: var is entered for every element
AddRevPts(elems, var) ==
    [e \in DOMAIN rev_pts_map \cup elems |->
        Get(rev_pts_map, e) \cup IF e \in elems THEN {var} ELSE {}]

\* what takes var out of the entries of elems
DropRevPts(elems, var) ==
    [e \in DOMAIN rev_pts_map |-> rev_pts_map[e] \ IF e \in elems THEN {var} ELSE {}]

-----------------------------------------------------------------------------

Grow(var, elems) ==
    /\ rev_pts_map' = AddRevPts(elems, var)
    /\ pts_map' = Put(pts_map, var, Get(pts_map, var) \cup elems)
    /\ changed' = ~(elems \subseteq Get(pts_map, var))

AddPts(var, elem) == Grow(var, {elem})

UnionPts(dst, src) ==
    IF src \in DOMAIN pts_map THEN Grow(dst, pts_map[src])
    ELSE changed' = FALSE /\ UNCHANGED <<pts_map, rev_pts_map>>

UnionPtsTo(dst, ds) == Grow(dst, ds)

RemovePtsElem(var, elem) ==
    /\ rev_pts_map' = DropRevPts({elem}, var)
    /\ pts_map' = IF var \in DOMAIN pts_map THEN Put(pts_map, var, pts_map[var] \ {elem})
                  ELSE pts_map
    /\ changed' = (elem \in Get(pts_map, var))

\* clear_pts unwraps the reverse entry of every element of var
ClearUnwraps(var) == Get(pts_map, var) \subseteq DOMAIN rev_pts_map

ClearPts(var) ==
    /\ var \in DOMAIN pts_map /\ ClearUnwraps(var)
    /\ rev_pts_map' = DropRevPts(pts_map[var], var)
    /\ pts_map' = Put(pts_map, var, {})
    /\ UNCHANGED changed

Clear == pts_map' = NoEntries /\ rev_pts_map' = NoEntries /\ UNCHANGED changed

Next ==
    \/ \E var \in Key :
          \/ \E elem \in Data : AddPts(var, elem) \/ RemovePtsElem(var, elem)
          \/ \E src \in Key : UnionPts(var, src)
          \/ \E ds \in SUBSET Data : UnionPtsTo(var, ds)
          \/ ClearPts(var)
    \/ Clear

Spec == Init /\ [][Next]_vars

-----------------------------------------------------------------------------
\* The reverse map is the inverse of the points-to map after every sequence of
\* operations, though each operation maintains the two separately; so
\* clear_pts finds the reverse entry of every element it drops
\* (pts_set/pt_data.rs:78-138).
RevIsInverse ==
    /\ \A k \in Key, d \in Data : d \in Get(pts_map, k) <=> k \in Get(rev_pts_map, d)
    /\ \A k \in Key : ClearUnwraps(k)

\* The operations act on one variable's set at a time, but for clear, and
\* report every change and nothing else (pts_set/pt_data.rs:79-114).
Plain == INSTANCE PlainSets WITH Slot <- Key, Member <- Data,
             sets <- [k \in Key |-> Get(pts_map, k)], reports <- {changed}
ImplementsSets == Plain!DataSpec

\* The basic points-to data are plain sets with exact reports, and the reverse
\* map stays the inverse of the points-to map (pts_set/pt_data.rs:78-138).
BaseDataExact == [](TypeOK /\ RevIsInverse) /\ ImplementsSets
=============================================================================
