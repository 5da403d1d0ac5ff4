------------------------------ MODULE PlainSets ------------------------------
(***************************************************************************)
(* What the solver expects of its points-to sets: named sets under the      *)
(* operations of the trait PointsToSet, each telling whether it changed the *)
(* set it was called on.                                                    *)
(***************************************************************************)
CONSTANTS Slot,     \* the sets
          Member    \* what they may contain

VARIABLES sets,     \* the contents
          reports   \* what the last operation may have returned

plainVars == <<sets, reports>>

PlainInit == sets = [x \in Slot |-> {}] /\ reports = {FALSE}

\* An operation that makes S of slot x and reports whether that is a change.
Becomes(x, S) ==
    /\ sets' = [sets EXCEPT ![x] = S]
    /\ reports' = {S # sets[x]}

PlainInsert(x) == \E e \in Member : Becomes(x, sets[x] \cup {e})
PlainRemove(x) == \E e \in Member : Becomes(x, sets[x] \ {e})
PlainUnion(x, y) == Becomes(x, sets[x] \cup sets[y])
PlainSubtract(x, y) == Becomes(x, sets[x] \ sets[y])

\* Operations that return nothing.
PlainAssign(x) ==
    /\ \E S \in {{}} \cup {sets[y] : y \in Slot} : sets' = [sets EXCEPT ![x] = S]
    /\ UNCHANGED reports

\* Intersect keeps at least the common members; what it reports is left
\* open.
PlainIntersect(x, y) ==
    /\ \E S \in SUBSET sets[x] :
          sets[x] \cap sets[y] \subseteq S /\ sets' = [sets EXCEPT ![x] = S]
    /\ reports' = BOOLEAN

\* What the points-to data add: a union with a set from elsewhere, a part of a
\* set that is dropped, all of them cleared.
PlainUnionWith(x) == \E S \in SUBSET Member : Becomes(x, sets[x] \cup S)
PlainShrink(x) ==
    /\ \E S \in SUBSET sets[x] : sets' = [sets EXCEPT ![x] = S]
    /\ UNCHANGED reports
PlainClear == sets' = [x \in Slot |-> {}] /\ UNCHANGED reports

SetsNext ==
    \E x \in Slot :
        \/ PlainInsert(x) \/ PlainRemove(x) \/ PlainAssign(x)
        \/ \E y \in Slot : PlainUnion(x, y) \/ PlainSubtract(x, y) \/ PlainIntersect(x, y)

PlainSpec == PlainInit /\ [][SetsNext]_plainVars

\* The same for points-to data.
DataNext ==
    \/ \E x \in Slot : PlainUnionWith(x) \/ PlainRemove(x) \/ PlainShrink(x)
    \/ PlainClear

DataSpec == PlainInit /\ [][DataNext]_plainVars
=============================================================================
