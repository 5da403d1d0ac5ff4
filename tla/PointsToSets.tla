----------------------------- MODULE PointsToSets -----------------------------
(***************************************************************************)
(* pts_set/points_to.rs and util/bit_vec.rs: a points-to set is a vector of  *)
(* at most SMALL_SET_CAPACITY elements, or a bit vector that grows by words  *)
(* and does not shrink.  A word is the set of its set bits.                  *)
(***************************************************************************)
EXTENDS Naturals, Sequences, FiniteSets, SequencesExt

CONSTANTS Slot,                 \* the sets
          Largest,              \* bound: elements are 0..Largest
          WORD_BITS,            \* bits per word
          SMALL_SET_CAPACITY,   \* elements in a small set
          UsizeRange            \* number of values of a usize

SizesAssumption ==
    /\ WORD_BITS \in Nat \ {0} /\ SMALL_SET_CAPACITY \in Nat /\ Largest \in Nat
    /\ UsizeRange \in Nat /\ UsizeRange > Largest + WORD_BITS

VARIABLES pts,      \* per slot: [large, vec, words], one of vec and words in use
          changed,      \* what the last operation returned
          intersected   \* history: that operation was an intersect

vars == <<pts, changed, intersected>>

Idx == 0..Largest
Bits == 0..(WORD_BITS - 1)
MaxWords == (Largest \div WORD_BITS) + 1

Small(vec) == [large |-> FALSE, vec |-> vec, words |-> <<>>]
Large(words) == [large |-> TRUE, vec |-> <<>>, words |-> words]

TypeOK ==
    /\ \A x \in Slot :
          /\ pts[x].large \in BOOLEAN
          /\ pts[x].vec \in Seq(Idx) /\ Len(pts[x].vec) <= SMALL_SET_CAPACITY
          /\ pts[x].words \in Seq(SUBSET Bits) /\ Len(pts[x].words) <= MaxWords
    /\ changed \in BOOLEAN /\ intersected \in BOOLEAN

Init == pts = [x \in Slot |-> Small(<<>>)] /\ changed = FALSE /\ intersected = FALSE

-----------------------------------------------------------------------------
(* Bit vectors.                                                             *)

Capacity(words) == Len(words) * WORD_BITS
NumWords(capacity) == (capacity + WORD_BITS - 1) \div WORD_BITS
WordIndex(e) == e \div WORD_BITS + 1
Mask(e) == {e % WORD_BITS}

\* resize up with empty words, never down
Ensure(words, capacity) ==
    words \o [n \in 1..(NumWords(capacity) - Len(words)) |-> {}]

BitContains(words, e) ==
    /\ Capacity(words) > e
    /\ words[WordIndex(e)] \cap Mask(e) # {}

\* The operations that report a change give [words, changed].
BitInsert(words, e) ==
    LET grown == Ensure(words, e + 1)
        new == grown[WordIndex(e)] \cup Mask(e)
    IN  [words |-> [grown EXCEPT ![WordIndex(e)] = new], changed |-> new # grown[WordIndex(e)]]

M_BitRemove(words, e) == \* reports a change whenever the word exists
    IF Capacity(words) <= e THEN [words |-> words, changed |-> FALSE]
    ELSE [words |-> [words EXCEPT ![WordIndex(e)] = @ \ Mask(e)], changed |-> TRUE]

BitRemove(words, e) ==
    IF Capacity(words) <= e THEN [words |-> words, changed |-> FALSE]
    ELSE LET new == words[WordIndex(e)] \ Mask(e)
         IN  [words |-> [words EXCEPT ![WordIndex(e)] = new], changed |-> new # words[WordIndex(e)]]

\* new has the results for the words both vectors have; the others stay as
\* they are.
Bitwise(words, new) ==
    [words |-> [n \in DOMAIN words |-> IF n \in DOMAIN new THEN new[n] ELSE words[n]],
     changed |-> \E n \in DOMAIN new : new[n] # words[n]]

Both(words, other) == DOMAIN words \cap DOMAIN other

BitUnion(words, other) ==
    LET out == Ensure(words, Capacity(other))
    IN  Bitwise(out, [n \in Both(out, other) |-> out[n] \cup other[n]])
BitSubtract(words, other) == Bitwise(words, [n \in Both(words, other) |-> words[n] \ other[n]])
BitIntersect(words, other) == Bitwise(words, [n \in Both(words, other) |-> words[n] \cap other[n]])

\* superset: self is resized to the length of other, up or down
BitSuperset(words, other) ==
    \A n \in DOMAIN other :
        (IF n \in DOMAIN words THEN words[n] ELSE {}) \cap other[n] = other[n]

M_BitIter(words) == \* the offset starts at the first word
    LET step(s, word) ==
            LET offset == (s.offset + WORD_BITS) % UsizeRange
                bits == SetToSortSeq(word, <)
            IN  [offset |-> offset, out |-> s.out \o [n \in DOMAIN bits |-> bits[n] + offset]]
    IN  FoldLeft(step, [offset |-> 0, out |-> <<>>], words).out

\* BitIter: the lowest bit of each word first; the offset starts one word
\* below zero and wraps.
BitIter(words) ==
    LET step(s, word) ==
            LET offset == (s.offset + WORD_BITS) % UsizeRange
                bits == SetToSortSeq(word, <)
            IN  [offset |-> offset, out |-> s.out \o [n \in DOMAIN bits |-> bits[n] + offset]]
    IN  FoldLeft(step, [offset |-> UsizeRange - WORD_BITS, out |-> <<>>], words).out

\* Inserting or removing one element after another, or-ing what each reports.
BitInsertAll(words, vec) ==
    FoldLeft(LAMBDA r, e : [words |-> BitInsert(r.words, e).words,
                            changed |-> r.changed \/ BitInsert(r.words, e).changed],
             [words |-> words, changed |-> FALSE], vec)
BitRemoveAll(words, vec) ==
    FoldLeft(LAMBDA r, e : [words |-> BitRemove(r.words, e).words,
                            changed |-> r.changed \/ BitRemove(r.words, e).changed],
             [words |-> words, changed |-> FALSE], vec)

-----------------------------------------------------------------------------
(* Hybrid sets.  An operation gives [set, changed].                          *)

OfBits(r) == [set |-> Large(r.words), changed |-> r.changed]
Same(s) == [set |-> s, changed |-> FALSE]

HasElem(s, e) == IF s.large THEN BitContains(s.words, e) ELSE e \in Range(s.vec)
Iter(s) == IF s.large THEN BitIter(s.words) ELSE s.vec
Count(s) ==
    IF s.large THEN FoldLeft(LAMBDA n, word : n + Cardinality(word), 0, s.words) ELSE Len(s.vec)
IsEmpty(s) == IF s.large THEN \A n \in DOMAIN s.words : s.words[n] = {} ELSE s.vec = <<>>
Superset(s, t) ==
    IF s.large /\ t.large THEN BitSuperset(s.words, t.words)
    ELSE \A n \in DOMAIN Iter(t) : HasElem(s, Iter(t)[n])

\* insert: a small set that is full becomes a large one.
InsertOne(s, e) ==
    IF s.large THEN OfBits(BitInsert(s.words, e))
    ELSE IF e \in Range(s.vec) THEN Same(s)
    ELSE IF Len(s.vec) < SMALL_SET_CAPACITY
           THEN [set |-> Small(Append(s.vec, e)), changed |-> TRUE]
    ELSE OfBits(BitInsert(BitInsertAll(<<>>, s.vec).words, e))

\* remove: position and swap_remove, or the bit; a large set stays large.
RemoveOne(s, e) ==
    IF s.large THEN OfBits(BitRemove(s.words, e))
    ELSE IF e \notin Range(s.vec) THEN Same(s)
    ELSE LET pos == CHOOSE n \in DOMAIN s.vec : s.vec[n] = e
             last == Len(s.vec)
         IN  [set |-> Small([n \in 1..(last - 1) |-> s.vec[IF n = pos THEN last ELSE n]]),
              changed |-> TRUE]

UnionOf(s, t) ==
    IF t.large
      THEN OfBits(BitUnion(IF s.large THEN s.words ELSE BitInsertAll(<<>>, s.vec).words, t.words))
    ELSE IF s.large THEN OfBits(BitInsertAll(s.words, t.vec))
    ELSE FoldLeft(LAMBDA r, e : [set |-> InsertOne(r.set, e).set,
                                 changed |-> r.changed \/ InsertOne(r.set, e).changed],
                  Same(s), t.vec)

\* retain, and whether it took something out
Retain(vec, kept) ==
    [set |-> Small(SelectSeq(vec, LAMBDA e : e \in kept)), changed |-> ~(Range(vec) \subseteq kept)]

SubtractOf(s, t) ==
    IF ~s.large THEN Retain(s.vec, {e \in Range(s.vec) : ~HasElem(t, e)})
    ELSE IF t.large THEN OfBits(BitSubtract(s.words, t.words))
    ELSE OfBits(BitRemoveAll(s.words, t.vec))

\* A large set that meets a small one becomes small: the other one, filtered,
\* with the report of that filtering.
IntersectOf(s, t) ==
    IF ~s.large THEN Retain(s.vec, {e \in Range(s.vec) : HasElem(t, e)})
    ELSE IF t.large THEN OfBits(BitIntersect(s.words, t.words))
    ELSE Retain(t.vec, {e \in Range(t.vec) : HasElem(s, e)})

-----------------------------------------------------------------------------
(* The operations of HybridPointsToSet; &mut self and &other are different. *)

Becomes(x, r) == pts' = [pts EXCEPT ![x] = r.set] /\ changed' = r.changed
Updates(x, r) == Becomes(x, r) /\ intersected' = FALSE

InsertElem(x, e) == Updates(x, InsertOne(pts[x], e))
RemoveElem(x, e) == Updates(x, RemoveOne(pts[x], e))
Union(x, y) == Updates(x, UnionOf(pts[x], pts[y]))
Subtract(x, y) == Updates(x, SubtractOf(pts[x], pts[y]))
Intersect(x, y) == Becomes(x, IntersectOf(pts[x], pts[y])) /\ intersected' = TRUE
Clear(x) == pts' = [pts EXCEPT ![x] = Small(<<>>)] /\ UNCHANGED <<changed, intersected>>
Clone(x, y) == pts' = [pts EXCEPT ![x] = pts[y]] /\ UNCHANGED <<changed, intersected>>

Next ==
    \E x \in Slot :
        \/ \E e \in Idx : InsertElem(x, e) \/ RemoveElem(x, e)
        \/ Clear(x)
        \/ \E y \in Slot \ {x} :
              Union(x, y) \/ Subtract(x, y) \/ Intersect(x, y) \/ Clone(x, y)

Spec == Init /\ [][Next]_vars

-----------------------------------------------------------------------------
\* The members of a set, read off its representation.
Elements(s) ==
    IF s.large THEN {e \in Idx : e \div WORD_BITS < Len(s.words)
                                  /\ e % WORD_BITS \in s.words[e \div WORD_BITS + 1]}
    ELSE Range(s.vec)

\* Whatever the representation of the two sets and whenever it changes, the
\* operations make the sets of the reference definition and report a change
\* exactly when there is one; intersect keeps at least the common members, and
\* its report is left open
\* (pts_set/points_to.rs:176-319, util/bit_vec.rs:142-195).
Plain == INSTANCE PlainSets WITH Member <- Idx, sets <- [x \in Slot |-> Elements(pts[x])],
             reports <- IF intersected THEN BOOLEAN ELSE {changed}
ImplementsSets == Plain!PlainSpec

\* The queries agree with the members, for sets of every pair of
\* representations and lengths (pts_set/points_to.rs:144-174).
QueriesAgree ==
    \A x \in Slot :
        /\ \A e \in Idx : HasElem(pts[x], e) <=> e \in Elements(pts[x])
        /\ Count(pts[x]) = Cardinality(Elements(pts[x]))
        /\ IsEmpty(pts[x]) <=> Elements(pts[x]) = {}
        /\ \A y \in Slot : Superset(pts[x], pts[y]) <=> Elements(pts[y]) \subseteq Elements(pts[x])

\* Iterating yields every member once, in ascending order for a large set: the
\* offset that starts below zero wraps to the first word
\* (util/bit_vec.rs:258-295).
IterationExact ==
    \A x \in Slot :
        LET seq == Iter(pts[x])
        IN  /\ Range(seq) = Elements(pts[x])
            /\ Len(seq) = Cardinality(Elements(pts[x]))
            /\ pts[x].large => \A n \in 1..(Len(seq) - 1) : seq[n] < seq[n + 1]
=============================================================================
