--------------------------- MODULE BasePTDataProofs ---------------------------
(***************************************************************************)
(* The basic points-to data stand for one plain set per variable, and their   *)
(* reverse map is the inverse of the points-to map, for any variables and     *)
(* elements.  clear_pts unwraps the reverse entry of every element it drops:  *)
(* the entries are there because the two maps are inverse.                    *)
(***************************************************************************)
EXTENDS BasePTData, TLAPS

LEMMA GetPut ==
  ASSUME NEW map, NEW k, NEW s, NEW j
  PROVE  Get(Put(map, k, s), j) = IF j = k THEN s ELSE Get(map, j)
  BY DEF Get, Put

LEMMA GetAdd ==
  ASSUME NEW elems, NEW var, NEW e
  PROVE  Get(AddRevPts(elems, var), e) = Get(rev_pts_map, e) \cup (IF e \in elems THEN {var} ELSE {})
  BY DEF Get, AddRevPts

LEMMA GetDrop ==
  ASSUME NEW elems, NEW var, NEW e
  PROVE  Get(DropRevPts(elems, var), e) = Get(rev_pts_map, e) \ (IF e \in elems THEN {var} ELSE {})
  BY DEF Get, DropRevPts

LEMMA MapsType ==
  ASSUME NEW Keys, NEW Values, NEW map \in Maps(Keys, Values)
  PROVE  /\ DOMAIN map \subseteq Keys
         /\ \A k : Get(map, k) \subseteq Values
  BY DEF Maps, Get

LEMMA MapsOf ==
  ASSUME NEW Keys, NEW Values, NEW K \in SUBSET Keys, NEW map \in [K -> SUBSET Values]
  PROVE  map \in Maps(Keys, Values)
  BY DEF Maps

LEMMA NoEntriesType ==
  ASSUME NEW Keys, NEW Values
  PROVE  /\ NoEntries \in Maps(Keys, Values)
         /\ \A k : Get(NoEntries, k) = {}
  BY DEF NoEntries, Maps, Get

-----------------------------------------------------------------------------
(* The type invariant.                                                      *)

LEMMA PutType ==
  ASSUME TypeOK, NEW var \in Key, NEW s \in SUBSET Data
  PROVE  Put(pts_map, var, s) \in Maps(Key, Data)
<1>1. DOMAIN pts_map \cup {var} \in SUBSET Key
  BY MapsType DEF TypeOK
<1>2. Put(pts_map, var, s) \in [DOMAIN pts_map \cup {var} -> SUBSET Data]
  BY DEF Put, TypeOK, Maps
<1>. QED
  BY <1>1, <1>2, MapsOf

LEMMA RevType ==
  ASSUME TypeOK, NEW var \in Key, NEW elems \in SUBSET Data
  PROVE  /\ AddRevPts(elems, var) \in Maps(Data, Key)
         /\ DropRevPts(elems, var) \in Maps(Data, Key)
<1>1. DOMAIN rev_pts_map \in SUBSET Data /\ DOMAIN rev_pts_map \cup elems \in SUBSET Data
  BY MapsType DEF TypeOK
<1>2. \A e : Get(rev_pts_map, e) \in SUBSET Key
  BY MapsType DEF TypeOK
<1>3. AddRevPts(elems, var) \in [DOMAIN rev_pts_map \cup elems -> SUBSET Key]
  BY <1>2 DEF AddRevPts
<1>4. DropRevPts(elems, var) \in [DOMAIN rev_pts_map -> SUBSET Key]
  BY <1>2 DEF DropRevPts, Get
<1>. QED
  BY <1>1, <1>3, <1>4, MapsOf

LEMMA GrowType ==
  ASSUME TypeOK, NEW var \in Key, NEW elems \in SUBSET Data, Grow(var, elems)
  PROVE  TypeOK'
<1>1. Get(pts_map, var) \cup elems \in SUBSET Data
  BY MapsType DEF TypeOK
<1>2. pts_map' \in Maps(Key, Data)
  BY <1>1, PutType, Zenon DEF Grow
<1>3. rev_pts_map' \in Maps(Data, Key)
  BY RevType, Zenon DEF Grow
<1>4. changed' \in BOOLEAN
  BY DEF Grow
<1>. QED
  BY <1>2, <1>3, <1>4 DEF TypeOK

LEMMA TypeStep == TypeOK /\ [Next]_vars => TypeOK'
<1>. SUFFICES ASSUME TypeOK, [Next]_vars
              PROVE  TypeOK'
  OBVIOUS
<1>0. \A k : Get(pts_map, k) \in SUBSET Data
  BY MapsType DEF TypeOK
<1>1. ASSUME NEW var \in Key, NEW elem \in Data, AddPts(var, elem)
      PROVE  TypeOK'
  BY <1>1, {elem} \in SUBSET Data, GrowType DEF AddPts
<1>2. ASSUME NEW var \in Key, NEW elem \in Data, RemovePtsElem(var, elem)
      PROVE  TypeOK'
  <2>1. pts_map' \in Maps(Key, Data)
    <3>1. CASE var \in DOMAIN pts_map
      <4>1. pts_map[var] \ {elem} \in SUBSET Data
        BY <1>0, <3>1 DEF Get
      <4>. QED
        BY <1>2, <3>1, <4>1, PutType DEF RemovePtsElem
    <3>2. CASE var \notin DOMAIN pts_map
      BY <1>2, <3>2 DEF RemovePtsElem, TypeOK
    <3>. QED
      BY <3>1, <3>2
  <2>2. rev_pts_map' \in Maps(Data, Key)
    BY <1>2, {elem} \in SUBSET Data, RevType DEF RemovePtsElem
  <2>3. changed' \in BOOLEAN
    BY <1>2 DEF RemovePtsElem
  <2>. QED
    BY <2>1, <2>2, <2>3 DEF TypeOK
<1>3. ASSUME NEW dst \in Key, NEW src \in Key, UnionPts(dst, src)
      PROVE  TypeOK'
  <2>1. CASE src \in DOMAIN pts_map
    <3>1. pts_map[src] \in SUBSET Data
      BY <1>0, <2>1 DEF Get
    <3>. QED
      BY <1>3, <2>1, <3>1, GrowType DEF UnionPts
  <2>2. CASE src \notin DOMAIN pts_map
    BY <1>3, <2>2 DEF UnionPts, TypeOK
  <2>. QED
    BY <2>1, <2>2
<1>4. ASSUME NEW dst \in Key, NEW ds \in SUBSET Data, UnionPtsTo(dst, ds)
      PROVE  TypeOK'
  BY <1>4, GrowType DEF UnionPtsTo
<1>5. ASSUME NEW var \in Key, ClearPts(var)
      PROVE  TypeOK'
  <2>1. pts_map[var] \in SUBSET Data
    BY <1>0, <1>5 DEF Get, ClearPts
  <2>2. pts_map' \in Maps(Key, Data)
    BY <1>5, {} \in SUBSET Data, PutType DEF ClearPts
  <2>3. rev_pts_map' \in Maps(Data, Key)
    BY <1>5, <2>1, RevType DEF ClearPts
  <2>. QED
    BY <1>5, <2>2, <2>3 DEF ClearPts, TypeOK
<1>6. CASE Clear
  BY <1>6, NoEntriesType DEF Clear, TypeOK
<1>7. CASE UNCHANGED vars
  BY <1>7 DEF vars, TypeOK
<1>. QED
  BY <1>1, <1>2, <1>3, <1>4, <1>5, <1>6, <1>7 DEF Next

\* The maps have entries for variables and elements of the analysis only
\* (pts_set/pt_data.rs:78-138).
THEOREM BaseTypeCorrect == Spec => []TypeOK
<1>1. Init => TypeOK
  BY NoEntriesType DEF Init, TypeOK
<1>. QED
  BY <1>1, TypeStep, PTL DEF Spec

-----------------------------------------------------------------------------
(* What an operation does to both maps.                                     *)

Inverse == \A k \in Key, d \in Data : d \in Get(pts_map, k) <=> k \in Get(rev_pts_map, d)

\* Variable var becomes S, the others stay.
Becomes(var, S) == \A k \in Key : Get(pts_map, k)' = IF k = var THEN S ELSE Get(pts_map, k)

LEMMA GrowEffect ==
  ASSUME NEW var \in Key, NEW elems, Grow(var, elems)
  PROVE  /\ Becomes(var, Get(pts_map, var) \cup elems)
         /\ changed' <=> Get(pts_map, var) \cup elems # Get(pts_map, var)
         /\ Inverse => Inverse'
<1>1. \A k : Get(pts_map, k)' = IF k = var THEN Get(pts_map, var) \cup elems ELSE Get(pts_map, k)
  BY GetPut DEF Grow
<1>2. \A e : Get(rev_pts_map, e)' = Get(rev_pts_map, e) \cup (IF e \in elems THEN {var} ELSE {})
  BY GetAdd DEF Grow
<1>3. changed' <=> ~(elems \subseteq Get(pts_map, var))
  BY DEF Grow
<1>4. ~(elems \subseteq Get(pts_map, var)) <=> Get(pts_map, var) \cup elems # Get(pts_map, var)
  OBVIOUS
<1>5. changed' <=> Get(pts_map, var) \cup elems # Get(pts_map, var)
  BY <1>3, <1>4, Zenon
<1>6. Inverse => Inverse'
  BY <1>1, <1>2 DEF Inverse
<1>. QED
  BY <1>1, <1>5, <1>6, Zenon DEF Becomes

LEMMA RemoveEffect ==
  ASSUME NEW var \in Key, NEW elem \in Data, RemovePtsElem(var, elem)
  PROVE  /\ Becomes(var, Get(pts_map, var) \ {elem})
         /\ changed' <=> Get(pts_map, var) \ {elem} # Get(pts_map, var)
         /\ Inverse => Inverse'
<1>1. \A k : Get(pts_map, k)' = IF k = var THEN Get(pts_map, var) \ {elem} ELSE Get(pts_map, k)
  <2>1. CASE var \in DOMAIN pts_map
    BY <2>1, GetPut DEF RemovePtsElem, Get
  <2>2. CASE var \notin DOMAIN pts_map
    BY <2>2 DEF RemovePtsElem, Get
  <2>. QED
    BY <2>1, <2>2
<1>2. \A e : Get(rev_pts_map, e)' = Get(rev_pts_map, e) \ (IF e \in {elem} THEN {var} ELSE {})
  BY GetDrop DEF RemovePtsElem
<1>3. changed' <=> elem \in Get(pts_map, var)
  BY DEF RemovePtsElem
<1>4. elem \in Get(pts_map, var) <=> Get(pts_map, var) \ {elem} # Get(pts_map, var)
  OBVIOUS
<1>5. changed' <=> Get(pts_map, var) \ {elem} # Get(pts_map, var)
  BY <1>3, <1>4, Zenon
<1>6. Inverse => Inverse'
  BY <1>1, <1>2 DEF Inverse
<1>. QED
  BY <1>1, <1>5, <1>6, Zenon DEF Becomes

LEMMA ClearPtsEffect ==
  ASSUME NEW var \in Key, ClearPts(var)
  PROVE  Becomes(var, {}) /\ (Inverse => Inverse')
<1>1. \A k : Get(pts_map, k)' = IF k = var THEN {} ELSE Get(pts_map, k)
  BY GetPut DEF ClearPts
<1>2. \A e : Get(rev_pts_map, e)' = Get(rev_pts_map, e) \ (IF e \in pts_map[var] THEN {var} ELSE {})
  BY GetDrop DEF ClearPts
<1>3. pts_map[var] = Get(pts_map, var)
  BY DEF ClearPts, Get
<1>. QED
  BY <1>1, <1>2, <1>3 DEF Becomes, Inverse

-----------------------------------------------------------------------------
(* The refinement, and the inverse, step by step.                           *)

LEMMA BecomesIsPlain ==
  ASSUME NEW var \in Key, NEW S, Becomes(var, S), changed' \in BOOLEAN,
         changed' <=> S # Get(pts_map, var)
  PROVE  Plain!Becomes(var, S)
<1>1. [k \in Key |-> Get(pts_map, k)]' = [[k \in Key |-> Get(pts_map, k)] EXCEPT ![var] = S]
  BY DEF Becomes
<1>2. changed' = (S # Get(pts_map, var))
  BY Zenon
<1>3. [k \in Key |-> Get(pts_map, k)][var] = Get(pts_map, var)
  OBVIOUS
<1>4. {changed}' = {S # [k \in Key |-> Get(pts_map, k)][var]}
  BY <1>2, <1>3, Zenon
<1>. QED
  BY <1>1, <1>4 DEF Plain!Becomes

LEMMA GrowIsPlain ==
  ASSUME TypeOK', NEW var \in Key, NEW elems \in SUBSET Data, Grow(var, elems)
  PROVE  Plain!PlainUnionWith(var) /\ (Inverse => Inverse')
<1>1. Plain!Becomes(var, Get(pts_map, var) \cup elems)
  BY GrowEffect, BecomesIsPlain DEF TypeOK
<1>2. Plain!Becomes(var, [k \in Key |-> Get(pts_map, k)][var] \cup elems)
  BY <1>1
<1>. QED
  BY <1>2, GrowEffect DEF Plain!PlainUnionWith

LEMMA Step ==
  ASSUME TypeOK, TypeOK', Next
  PROVE  (Plain!DataNext \/ UNCHANGED Plain!plainVars) /\ (Inverse => Inverse')
<1>0. \A k : Get(pts_map, k) \in SUBSET Data
  BY MapsType DEF TypeOK
<1>1. ASSUME NEW var \in Key, NEW elem \in Data, AddPts(var, elem)
      PROVE  Plain!PlainUnionWith(var) /\ (Inverse => Inverse')
  BY <1>1, {elem} \in SUBSET Data, GrowIsPlain DEF AddPts
<1>2. ASSUME NEW var \in Key, NEW elem \in Data, RemovePtsElem(var, elem)
      PROVE  Plain!PlainRemove(var) /\ (Inverse => Inverse')
  <2>1. Plain!Becomes(var, Get(pts_map, var) \ {elem})
    BY <1>2, RemoveEffect, BecomesIsPlain DEF TypeOK
  <2>2. Plain!Becomes(var, [k \in Key |-> Get(pts_map, k)][var] \ {elem})
    BY <2>1
  <2>. QED
    BY <1>2, <2>2, RemoveEffect DEF Plain!PlainRemove
<1>3. ASSUME NEW dst \in Key, NEW src \in Key, UnionPts(dst, src)
      PROVE  Plain!PlainUnionWith(dst) /\ (Inverse => Inverse')
  <2>1. CASE src \in DOMAIN pts_map
    <3>1. pts_map[src] \in SUBSET Data
      BY <1>0, <2>1 DEF Get
    <3>. QED
      BY <1>3, <2>1, <3>1, GrowIsPlain DEF UnionPts
  <2>2. CASE src \notin DOMAIN pts_map   \* a union with nothing
    <3>1. Becomes(dst, Get(pts_map, dst))
      BY <1>3, <2>2 DEF UnionPts, Becomes
    <3>2. changed' <=> Get(pts_map, dst) # Get(pts_map, dst)
      BY <1>3, <2>2 DEF UnionPts
    <3>3. Plain!Becomes(dst, Get(pts_map, dst))
      BY <3>1, <3>2, BecomesIsPlain DEF TypeOK
    <3>4. Plain!Becomes(dst, [k \in Key |-> Get(pts_map, k)][dst] \cup {})
      BY <3>3
    <3>5. Inverse => Inverse'
      BY <1>3, <2>2 DEF UnionPts, Inverse
    <3>. QED
      BY <3>4, <3>5, {} \in SUBSET Data DEF Plain!PlainUnionWith
  <2>. QED
    BY <2>1, <2>2
<1>4. ASSUME NEW dst \in Key, NEW ds \in SUBSET Data, UnionPtsTo(dst, ds)
      PROVE  Plain!PlainUnionWith(dst) /\ (Inverse => Inverse')
  BY <1>4, GrowIsPlain DEF UnionPtsTo
<1>5. ASSUME NEW var \in Key, ClearPts(var)
      PROVE  Plain!PlainShrink(var) /\ (Inverse => Inverse')
  <2>1. [k \in Key |-> Get(pts_map, k)]' = [[k \in Key |-> Get(pts_map, k)] EXCEPT ![var] = {}]
    BY <1>5, ClearPtsEffect DEF Becomes
  <2>2. UNCHANGED {changed}
    BY <1>5 DEF ClearPts
  <2>. QED
    BY <1>5, <2>1, <2>2, ClearPtsEffect DEF Plain!PlainShrink
<1>6. CASE Clear
  <2>1. \A k : Get(pts_map, k)' = {} /\ Get(rev_pts_map, k)' = {}
    BY <1>6, NoEntriesType DEF Clear
  <2>. QED
    BY <1>6, <2>1 DEF Clear, Plain!DataNext, Plain!PlainClear, Inverse
<1>. QED
  BY <1>1, <1>2, <1>3, <1>4, <1>5, <1>6 DEF Next, Plain!DataNext

\* The points-to map implements one plain set per variable, whatever the
\* variables and elements are (pts_set/pt_data.rs:78-124).
THEOREM BaseImplementsSets == Spec => ImplementsSets
<1>1. Init => Plain!PlainInit
  BY NoEntriesType DEF Init, Plain!PlainInit
<1>2. TypeOK /\ TypeOK' /\ [Next]_vars => [Plain!DataNext]_(Plain!plainVars)
  <2>1. UNCHANGED vars => UNCHANGED Plain!plainVars
    BY DEF vars, Plain!plainVars
  <2>. QED
    BY <2>1, Step
<1>. QED
  BY <1>1, <1>2, BaseTypeCorrect, PTL DEF Spec, ImplementsSets, Plain!DataSpec

\* The reverse map is the inverse of the points-to map, and clear_pts finds
\* every reverse entry it unwraps (pts_set/pt_data.rs:116-138).
THEOREM BaseRevIsInverse == Spec => []RevIsInverse
<1>1. Init => Inverse
  BY NoEntriesType DEF Init, Inverse
<1>2. TypeOK /\ TypeOK' /\ Inverse /\ [Next]_vars => Inverse'
  <2>1. Inverse /\ UNCHANGED vars => Inverse'
    BY DEF vars, Inverse
  <2>. QED
    BY <2>1, Step
<1>3. TypeOK /\ Inverse => RevIsInverse
  <2>. SUFFICES ASSUME TypeOK, Inverse
                PROVE  \A k \in Key : ClearUnwraps(k)
    BY DEF RevIsInverse, Inverse
  <2>1. \A k : Get(pts_map, k) \subseteq Data
    BY MapsType DEF TypeOK
  <2>2. \A d : Get(rev_pts_map, d) # {} => d \in DOMAIN rev_pts_map
    BY DEF Get
  <2>. QED
    BY <2>1, <2>2 DEF Inverse, ClearUnwraps
<1>. QED
  BY <1>1, <1>2, <1>3, BaseTypeCorrect, PTL DEF Spec

\* All that the run of the data structures checks of this one
\* (pts_set/pt_data.rs:78-138).
THEOREM BaseDataIsExact == Spec => BaseDataExact
BY BaseTypeCorrect, BaseRevIsInverse, BaseImplementsSets, PTL DEF BaseDataExact
=============================================================================
