--------------------------- MODULE DiffPTDataProofs ---------------------------
(***************************************************************************)
(* The difference points-to data stand for one plain set per variable, and    *)
(* hand an element out once, for any variables and elements.  An operation    *)
(* looks at one of the two maps to decide what it reports; that this is what  *)
(* happens to the union of both is the point of the proof.                    *)
(***************************************************************************)
EXTENDS DiffPTData, TLAPS

LEMMA GetPut ==
  ASSUME NEW map, NEW var, NEW ds, NEW k
  PROVE  Get(Put(map, var, ds), k) = IF k = var THEN ds ELSE Get(map, k)
  BY DEF Get, Put

LEMMA GetPutIfPresent ==
  ASSUME NEW map, NEW var, NEW k
  PROVE  Get(PutIfPresent(map, var, {}), k) = IF k = var THEN {} ELSE Get(map, k)
<1>1. CASE var \in DOMAIN map
  BY <1>1, GetPut DEF PutIfPresent
<1>2. CASE var \notin DOMAIN map
  BY <1>2 DEF PutIfPresent, Get
<1>. QED
  BY <1>1, <1>2

LEMMA MapsType ==
  ASSUME NEW map \in PtsMaps
  PROVE  /\ DOMAIN map \subseteq Key
         /\ \A k : Get(map, k) \subseteq Data
  BY DEF PtsMaps, Get

LEMMA NoEntriesType ==
  /\ NoEntries \in PtsMaps
  /\ \A k : Get(NoEntries, k) = {} /\ k \notin DOMAIN NoEntries
  BY DEF NoEntries, PtsMaps, Get

LEMMA PutType ==
  ASSUME NEW map \in PtsMaps, NEW var \in Key, NEW ds \in SUBSET Data
  PROVE  /\ Put(map, var, ds) \in PtsMaps
         /\ DOMAIN Put(map, var, ds) = DOMAIN map \cup {var}
         /\ PutIfPresent(map, var, ds) \in PtsMaps
         /\ DOMAIN PutIfPresent(map, var, ds) = DOMAIN map
<1>1. Put(map, var, ds) \in [DOMAIN map \cup {var} -> SUBSET Data]
  BY DEF Put, PtsMaps
<1>2. DOMAIN map \cup {var} \in SUBSET Key
  BY MapsType
<1>. QED
  BY <1>1, <1>2 DEF PtsMaps, PutIfPresent

-----------------------------------------------------------------------------
(* The type invariant.                                                      *)

LEMMA EntriesType ==
  ASSUME TypeOK, NEW src, NEW maps \in SUBSET {diff_pts_map, propa_pts_map}
  PROVE  UNION EntriesOf(src, maps) \in SUBSET Data
<1>1. \A mp \in maps : \A k \in DOMAIN mp : mp[k] \subseteq Data
  BY DEF TypeOK, PtsMaps
<1>. QED
  BY <1>1 DEF EntriesOf

LEMMA UnionIntoType ==
  ASSUME TypeOK, NEW dst \in Key, NEW sets, UNION sets \in SUBSET Data, UnionInto(dst, sets)
  PROVE  TypeOK'
<1>1. /\ Get(diff_pts_map, dst) \cup ((UNION sets) \ Get(propa_pts_map, dst)) \in SUBSET Data
      /\ Get(propa_pts_map, dst) \in SUBSET Data
  BY MapsType DEF TypeOK
<1>2. CASE sets = {}
  BY <1>2 DEF UnionInto, TypeOK
<1>3. CASE sets # {}
  <2>1. /\ diff_pts_map' = Put(diff_pts_map, dst, Get(diff_pts_map, dst) \cup ((UNION sets) \ Get(propa_pts_map, dst)))
        /\ propa_pts_map' = Put(propa_pts_map, dst, Get(propa_pts_map, dst))
        /\ changed' \in BOOLEAN
    BY <1>3 DEF UnionInto
  <2>2. diff_pts_map' \in PtsMaps /\ DOMAIN diff_pts_map' = DOMAIN diff_pts_map \cup {dst}
    BY <1>1, <2>1, PutType, Zenon DEF TypeOK
  <2>3. propa_pts_map' \in PtsMaps /\ DOMAIN propa_pts_map' = DOMAIN propa_pts_map \cup {dst}
    BY <1>1, <2>1, PutType, Zenon DEF TypeOK
  <2>. QED
    BY <2>1, <2>2, <2>3 DEF TypeOK
<1>. QED
  BY <1>2, <1>3

LEMMA UnionTypes ==
  ASSUME TypeOK, NEW dst \in Key
  PROVE  /\ \A src \in Key : UnionDiffPts(dst, src) \/ UnionPts(dst, src) => TypeOK'
         /\ \A ds \in SUBSET Data : UnionPtsTo(dst, ds) => TypeOK'
<1>1. ASSUME NEW src \in Key, UnionDiffPts(dst, src)
      PROVE  TypeOK'
  <2>1. UNION (IF dst = src THEN {} ELSE EntriesOf(src, {diff_pts_map})) \in SUBSET Data
    BY EntriesType
  <2>. QED
    BY <1>1, <2>1, UnionIntoType DEF UnionDiffPts
<1>2. ASSUME NEW src \in Key, UnionPts(dst, src)
      PROVE  TypeOK'
  <2>1. UNION (IF dst = src THEN {} ELSE EntriesOf(src, {diff_pts_map, propa_pts_map})) \in SUBSET Data
    BY EntriesType
  <2>. QED
    BY <1>2, <2>1, UnionIntoType DEF UnionPts
<1>3. ASSUME NEW ds \in SUBSET Data, UnionPtsTo(dst, ds)
      PROVE  TypeOK'
  <2>1. UNION {ds} \in SUBSET Data
    OBVIOUS
  <2>. QED
    BY <1>3, <2>1, UnionIntoType DEF UnionPtsTo
<1>. QED
  BY <1>1, <1>2, <1>3

LEMMA TypeStep == TypeOK /\ [Next]_vars => TypeOK'
<1>. SUFFICES ASSUME TypeOK, [Next]_vars
              PROVE  TypeOK'
  OBVIOUS
<1>1. ASSUME NEW var \in Key, NEW elem \in Data, AddPts(var, elem)
      PROVE  TypeOK'
  <2>1. Get(diff_pts_map, var) \cup {elem} \in SUBSET Data
    BY MapsType DEF TypeOK
  <2>2. changed' \in BOOLEAN /\ UNCHANGED propa_pts_map
    BY <1>1 DEF AddPts
  <2>3. \/ diff_pts_map' = diff_pts_map
        \/ diff_pts_map' = Put(diff_pts_map, var, Get(diff_pts_map, var) \cup {elem})
    BY <1>1 DEF AddPts
  <2>4. /\ Put(diff_pts_map, var, Get(diff_pts_map, var) \cup {elem}) \in PtsMaps
        /\ DOMAIN Put(diff_pts_map, var, Get(diff_pts_map, var) \cup {elem}) = DOMAIN diff_pts_map \cup {var}
    BY <2>1, PutType, Zenon DEF TypeOK
  <2>. QED
    BY <2>2, <2>3, <2>4 DEF TypeOK
<1>2. ASSUME NEW var \in Key, NEW elem \in Data, RemovePtsElem(var, elem)
      PROVE  TypeOK'
  <2>1. /\ Get(diff_pts_map, var) \ {elem} \in SUBSET Data
        /\ Get(propa_pts_map, var) \ {elem} \in SUBSET Data
    BY MapsType DEF TypeOK
  <2>2. changed' \in BOOLEAN
    BY <1>2 DEF RemovePtsElem
  <2>3. diff_pts_map' \in PtsMaps /\ DOMAIN diff_pts_map' = DOMAIN diff_pts_map \cup {var}
    BY <1>2, <2>1, PutType, Zenon DEF RemovePtsElem, TypeOK
  <2>4. propa_pts_map' \in PtsMaps /\ DOMAIN propa_pts_map' = DOMAIN propa_pts_map \cup {var}
    BY <1>2, <2>1, PutType, Zenon DEF RemovePtsElem, TypeOK
  <2>. QED
    BY <2>2, <2>3, <2>4 DEF TypeOK
<1>3. ASSUME NEW var \in Key, Flush(var)
      PROVE  TypeOK'
  <2>1. /\ Get(propa_pts_map, var) \cup diff_pts_map[var] \in SUBSET Data
        /\ {} \in SUBSET Data
    BY <1>3, MapsType DEF TypeOK, Flush, Get
  <2>2. propa_pts_map' \in PtsMaps /\ DOMAIN propa_pts_map' = DOMAIN propa_pts_map \cup {var}
    BY <1>3, <2>1, PutType, Zenon DEF Flush, TypeOK
  <2>3. diff_pts_map' \in PtsMaps /\ DOMAIN diff_pts_map' = DOMAIN diff_pts_map \cup {var}
    BY <1>3, <2>1, PutType, Zenon DEF Flush, TypeOK
  <2>. QED
    BY <1>3, <2>2, <2>3 DEF Flush, TypeOK
<1>4. ASSUME NEW var \in Key, ClearPts(var) \/ ClearDiffPts(var) \/ ClearPropaPts(var)
      PROVE  TypeOK'
  <2>1. \A map \in PtsMaps : /\ PutIfPresent(map, var, {}) \in PtsMaps
                            /\ DOMAIN PutIfPresent(map, var, {}) = DOMAIN map
    BY PutType, {} \in SUBSET Data, Zenon
  <2>. QED
    BY <1>4, <2>1 DEF ClearPts, ClearDiffPts, ClearPropaPts, TypeOK
<1>5. CASE Clear
  BY <1>5, NoEntriesType DEF Clear, TypeOK
<1>6. CASE UNCHANGED vars
  BY <1>6 DEF vars, TypeOK
<1>. QED
  BY <1>1, <1>2, <1>3, <1>4, <1>5, <1>6, UnionTypes DEF Next

\* The maps have entries for variables and elements of the analysis only, and
\* a variable with propagated elements has a difference (pts_set/pt_data.rs:194-233).
THEOREM DiffTypeCorrect == Spec => []TypeOK
<1>1. Init => TypeOK
  BY NoEntriesType DEF Init, TypeOK
<1>. QED
  BY <1>1, TypeStep, PTL DEF Spec

-----------------------------------------------------------------------------
(* What an operation does to the union of the two parts.                    *)

\* Variable var becomes S, the others stay, and the report is exact.
Exactly(var, S) ==
  /\ \A k \in Key : Pts(k)' = IF k = var THEN S ELSE Pts(k)
  /\ changed' <=> S # Pts(var)

\* New elements of the difference were in neither part.
Fresh == \A k \in Key : (Get(diff_pts_map', k) \ Get(diff_pts_map, k)) \cap Pts(k) = {}

LEMMA AddPtsExact ==
  ASSUME NEW var \in Key, NEW elem \in Data, AddPts(var, elem)
  PROVE  Exactly(var, Pts(var) \cup {elem}) /\ Fresh
<1>1. CASE elem \in Get(propa_pts_map, var)
  BY <1>1 DEF AddPts, Exactly, Pts, Fresh
<1>2. CASE elem \notin Get(propa_pts_map, var)
  <2>1. \A k : Get(diff_pts_map, k)' = IF k = var THEN Get(diff_pts_map, var) \cup {elem} ELSE Get(diff_pts_map, k)
    BY <1>2, GetPut DEF AddPts
  <2>2. \A k : Get(propa_pts_map, k)' = Get(propa_pts_map, k)
    BY <1>2 DEF AddPts
  <2>3. changed' <=> elem \notin Get(diff_pts_map, var)
    BY <1>2 DEF AddPts
  <2>4. elem \notin Get(diff_pts_map, var) <=> Pts(var) \cup {elem} # Pts(var)
    BY <1>2 DEF Pts
  <2>5. \A k \in Key : Pts(k)' = IF k = var THEN Pts(var) \cup {elem} ELSE Pts(k)
    BY <2>1, <2>2 DEF Pts
  <2>6. Exactly(var, Pts(var) \cup {elem})
    BY <2>3, <2>4, <2>5, Zenon DEF Exactly
  <2>. QED
    BY <1>2, <2>1, <2>6 DEF Fresh, Pts
<1>. QED
  BY <1>1, <1>2

LEMMA UnionIntoExact ==
  ASSUME NEW dst \in Key, NEW sets, UnionInto(dst, sets)
  PROVE  /\ Exactly(dst, Pts(dst) \cup UNION sets)
         /\ Fresh
<1>. DEFINE new == (UNION sets) \ Get(propa_pts_map, dst)
<1>1. \A k : Get(diff_pts_map, k)' = IF k = dst THEN Get(diff_pts_map, dst) \cup new ELSE Get(diff_pts_map, k)
  <2>1. CASE sets = {}
    <3>1. diff_pts_map' = diff_pts_map /\ new = {}
      BY <2>1 DEF UnionInto
    <3>. QED
      BY <3>1
  <2>2. CASE sets # {}
    BY <2>2, GetPut DEF UnionInto
  <2>. QED
    BY <2>1, <2>2
<1>2. \A k : Get(propa_pts_map, k)' = Get(propa_pts_map, k)
  BY GetPut DEF UnionInto
<1>3. changed' <=> ~(new \subseteq Get(diff_pts_map, dst))
  BY DEF UnionInto
<1>4. ~(new \subseteq Get(diff_pts_map, dst)) <=> Pts(dst) \cup UNION sets # Pts(dst)
  BY DEF Pts
<1>5. \A k \in Key : Pts(k)' = IF k = dst THEN Pts(dst) \cup UNION sets ELSE Pts(k)
  BY <1>1, <1>2 DEF Pts
<1>6. Exactly(dst, Pts(dst) \cup UNION sets)
  BY <1>3, <1>4, <1>5, Zenon DEF Exactly
<1>. QED
  BY <1>1, <1>6 DEF Fresh, Pts

LEMMA RemovePtsElemExact ==
  ASSUME NEW var \in Key, NEW elem \in Data, RemovePtsElem(var, elem)
  PROVE  Exactly(var, Pts(var) \ {elem}) /\ Fresh
<1>1. \A k : Get(diff_pts_map, k)' = IF k = var THEN Get(diff_pts_map, var) \ {elem} ELSE Get(diff_pts_map, k)
  BY GetPut DEF RemovePtsElem
<1>2. \A k : Get(propa_pts_map, k)' = IF k = var THEN Get(propa_pts_map, var) \ {elem} ELSE Get(propa_pts_map, k)
  BY GetPut DEF RemovePtsElem
<1>3. changed' <=> elem \in Pts(var)
  BY DEF RemovePtsElem, Pts
<1>4. elem \in Pts(var) <=> Pts(var) \ {elem} # Pts(var)
  OBVIOUS
<1>5. \A k \in Key : Pts(k)' = IF k = var THEN Pts(var) \ {elem} ELSE Pts(k)
  BY <1>1, <1>2 DEF Pts
<1>6. Exactly(var, Pts(var) \ {elem})
  BY <1>3, <1>4, <1>5, Zenon DEF Exactly
<1>. QED
  BY <1>1, <1>6 DEF Fresh

\* The operations that report nothing.
LEMMA FlushKeeps ==
  ASSUME NEW var \in Key, Flush(var)
  PROVE  /\ \A k \in Key : Pts(k)' = Pts(k)
         /\ Fresh
<1>1. \A k : Get(diff_pts_map, k)' = IF k = var THEN {} ELSE Get(diff_pts_map, k)
  BY GetPut DEF Flush
<1>2. \A k : Get(propa_pts_map, k)' =
                IF k = var THEN Get(propa_pts_map, var) \cup diff_pts_map[var] ELSE Get(propa_pts_map, k)
  BY GetPut DEF Flush
<1>3. diff_pts_map[var] = Get(diff_pts_map, var)
  BY DEF Flush, Get
<1>. QED
  BY <1>1, <1>2, <1>3 DEF Pts, Fresh

LEMMA ClearsShrink ==
  ASSUME NEW var \in Key, ClearPts(var) \/ ClearDiffPts(var) \/ ClearPropaPts(var)
  PROVE  /\ \A k \in Key : Pts(k)' \subseteq Pts(k) /\ (k # var => Pts(k)' = Pts(k))
         /\ Fresh
<1>1. diff_pts_map' \in {diff_pts_map, PutIfPresent(diff_pts_map, var, {})}
  BY DEF ClearPts, ClearDiffPts, ClearPropaPts
<1>2. propa_pts_map' \in {propa_pts_map, PutIfPresent(propa_pts_map, var, {})}
  BY DEF ClearPts, ClearDiffPts, ClearPropaPts
<1>3. \A k : \/ Get(diff_pts_map, k)' = Get(diff_pts_map, k)
             \/ Get(diff_pts_map, k)' = IF k = var THEN {} ELSE Get(diff_pts_map, k)
  BY <1>1, GetPutIfPresent
<1>4. \A k : \/ Get(propa_pts_map, k)' = Get(propa_pts_map, k)
             \/ Get(propa_pts_map, k)' = IF k = var THEN {} ELSE Get(propa_pts_map, k)
  BY <1>2, GetPutIfPresent
<1>. QED
  BY <1>3, <1>4 DEF Pts, Fresh

-----------------------------------------------------------------------------
(* The refinement.                                                          *)

LEMMA ExactlyIsBecomes ==
  ASSUME NEW var \in Key, NEW S, Exactly(var, S), changed' \in BOOLEAN
  PROVE  Plain!Becomes(var, S)
<1>1. [k \in Key |-> Pts(k)]' = [[k \in Key |-> Pts(k)] EXCEPT ![var] = S]
  BY DEF Exactly
<1>2. changed' = (S # Pts(var))
  BY Zenon DEF Exactly
<1>3. [k \in Key |-> Pts(k)][var] = Pts(var)
  OBVIOUS
<1>4. {changed}' = {S # [k \in Key |-> Pts(k)][var]}
  BY <1>2, <1>3, Zenon
<1>. QED
  BY <1>1, <1>4 DEF Plain!Becomes

\* What an operation that returns nothing may do.
LEMMA ShrinkIsPlain ==
  ASSUME NEW var \in Key, UNCHANGED changed,
         \A k \in Key : Pts(k)' \subseteq Pts(k) /\ (k # var => Pts(k)' = Pts(k))
  PROVE  Plain!PlainShrink(var)
<1>1. [k \in Key |-> Pts(k)]' = [[k \in Key |-> Pts(k)] EXCEPT ![var] = Pts(var)']
  OBVIOUS
<1>2. Pts(var)' \in SUBSET [k \in Key |-> Pts(k)][var]
  OBVIOUS
<1>. QED
  BY <1>1, <1>2 DEF Plain!PlainShrink

LEMMA UnionIsPlain ==
  ASSUME TypeOK, TypeOK', NEW dst \in Key, NEW sets, UNION sets \in SUBSET Data, UnionInto(dst, sets)
  PROVE  Plain!PlainUnionWith(dst)
<1>1. Plain!Becomes(dst, Pts(dst) \cup UNION sets)
  BY UnionIntoExact, ExactlyIsBecomes DEF TypeOK
<1>2. Plain!Becomes(dst, [k \in Key |-> Pts(k)][dst] \cup UNION sets)
  BY <1>1
<1>. QED
  BY <1>2 DEF Plain!PlainUnionWith

LEMMA Step ==
  ASSUME TypeOK, TypeOK', Next
  PROVE  (Plain!DataNext \/ UNCHANGED Plain!plainVars) /\ Fresh
<1>1. ASSUME NEW var \in Key, NEW elem \in Data, AddPts(var, elem)
      PROVE  Plain!PlainUnionWith(var) /\ Fresh
  <2>1. Plain!Becomes(var, Pts(var) \cup {elem}) /\ Fresh
    BY <1>1, AddPtsExact, ExactlyIsBecomes DEF TypeOK
  <2>2. Plain!Becomes(var, [k \in Key |-> Pts(k)][var] \cup {elem})
    BY <2>1
  <2>. QED
    BY <2>1, <2>2 DEF Plain!PlainUnionWith
<1>2. ASSUME NEW var \in Key, NEW elem \in Data, RemovePtsElem(var, elem)
      PROVE  Plain!PlainRemove(var) /\ Fresh
  <2>1. Plain!Becomes(var, Pts(var) \ {elem}) /\ Fresh
    BY <1>2, RemovePtsElemExact, ExactlyIsBecomes DEF TypeOK
  <2>2. Plain!Becomes(var, [k \in Key |-> Pts(k)][var] \ {elem})
    BY <2>1
  <2>. QED
    BY <2>1, <2>2 DEF Plain!PlainRemove
<1>3. ASSUME NEW dst \in Key, NEW src \in Key, UnionDiffPts(dst, src)
      PROVE  Plain!PlainUnionWith(dst) /\ Fresh
  <2>1. UNION (IF dst = src THEN {} ELSE EntriesOf(src, {diff_pts_map})) \in SUBSET Data
    BY EntriesType
  <2>. QED
    BY <1>3, <2>1, UnionIsPlain, UnionIntoExact DEF UnionDiffPts
<1>4. ASSUME NEW dst \in Key, NEW src \in Key, UnionPts(dst, src)
      PROVE  Plain!PlainUnionWith(dst) /\ Fresh
  <2>1. UNION (IF dst = src THEN {} ELSE EntriesOf(src, {diff_pts_map, propa_pts_map})) \in SUBSET Data
    BY EntriesType
  <2>. QED
    BY <1>4, <2>1, UnionIsPlain, UnionIntoExact DEF UnionPts
<1>5. ASSUME NEW dst \in Key, NEW ds \in SUBSET Data, UnionPtsTo(dst, ds)
      PROVE  Plain!PlainUnionWith(dst) /\ Fresh
  <2>1. UNION {ds} \in SUBSET Data
    OBVIOUS
  <2>. QED
    BY <1>5, <2>1, UnionIsPlain, UnionIntoExact DEF UnionPtsTo
<1>6. ASSUME NEW var \in Key, Flush(var)
      PROVE  UNCHANGED Plain!plainVars /\ Fresh
  <2>1. [k \in Key |-> Pts(k)]' = [k \in Key |-> Pts(k)]
    BY <1>6, FlushKeeps
  <2>. QED
    BY <1>6, <2>1, FlushKeeps DEF Flush, Plain!plainVars
<1>7. ASSUME NEW var \in Key, ClearPts(var) \/ ClearDiffPts(var) \/ ClearPropaPts(var)
      PROVE  Plain!PlainShrink(var) /\ Fresh
  <2>1. UNCHANGED changed
    BY <1>7 DEF ClearPts, ClearDiffPts, ClearPropaPts
  <2>. QED
    BY <1>7, <2>1, ClearsShrink, ShrinkIsPlain
<1>8. CASE Clear
  <2>1. \A k \in Key : Pts(k)' = {} /\ Get(diff_pts_map', k) = {}
    BY <1>8, NoEntriesType DEF Clear, Pts
  <2>. QED
    BY <1>8, <2>1 DEF Clear, Plain!DataNext, Plain!PlainClear, Fresh
<1>. QED
  BY <1>1, <1>2, <1>3, <1>4, <1>5, <1>6, <1>7, <1>8 DEF Next, Plain!DataNext

\* The two maps implement one plain set per variable, whatever the variables
\* and elements are (pts_set/pt_data.rs:181-302).
THEOREM DiffImplementsSets == Spec => ImplementsSets
<1>1. Init => Plain!PlainInit
  BY NoEntriesType DEF Init, Plain!PlainInit, Pts
<1>2. TypeOK /\ TypeOK' /\ [Next]_vars => [Plain!DataNext]_(Plain!plainVars)
  <2>1. UNCHANGED vars => UNCHANGED Plain!plainVars
    BY DEF vars, Plain!plainVars, Pts
  <2>. QED
    BY <2>1, Step
<1>. QED
  BY <1>1, <1>2, DiffTypeCorrect, PTL DEF Spec, ImplementsSets, Plain!DataSpec

\* An element enters a difference only when it is in neither part
\* (pts_set/pt_data.rs:184, 227).
THEOREM DiffPropagatedOnce == Spec => PropagatedOnce
<1>1. TypeOK /\ TypeOK' /\ [Next]_vars => [Fresh]_vars
  BY Step
<1>. QED
  BY <1>1, DiffTypeCorrect, PTL DEF Spec, PropagatedOnce, Fresh

\* All that the run of the data structures checks of this one
\* (pts_set/pt_data.rs:181-302).
THEOREM DiffDataIsExact == Spec => DiffDataExact
BY DiffTypeCorrect, DiffImplementsSets, DiffPropagatedOnce, PTL DEF DiffDataExact
=============================================================================
