------------------------- MODULE ChunkedQueueProofs -------------------------
(***************************************************************************)
(* The queue is a growing log with readers, for every size of chunk, number   *)
(* of iterators and number of elements.  The chunks are linked in the order   *)
(* of their allocation and all but the last are full, so that an element has  *)
(* a place (Before) that no push changes.                                     *)
(***************************************************************************)
EXTENDS ChunkedQueue, TLAPS, WellFoundedInduction

-----------------------------------------------------------------------------
(* Places.                                                                   *)

LEMMA LeastNumber ==
    ASSUME NEW T, T \subseteq Nat, T # {} PROVE \E x \in T : \A y \in T : x <= y
<1> DEFINE R == {ss \in Nat \X Nat : ss[1] < ss[2]}
<1>1. IsWellFoundedOn(R, Nat)
  BY NatLessThanWellFounded, Zenon DEF OpToRel
<1> HIDE DEF R
<1>2. PICK x \in T : \A y \in T : ~(<<y, x>> \in R)
  BY <1>1, WFMin
<1>3. \A y \in T : ~(y < x)
  BY <1>2 DEF R
<1> QED
  BY <1>3

LEMMA BeforeStep ==
    ASSUME NEW c \in Nat, c >= 1
    PROVE  Before(c) \in Nat /\ Before(c + 1) = Before(c) + CHUNK_CAP /\ c - 1 <= Before(c)
<1>1. CHUNK_CAP \in Nat /\ CHUNK_CAP >= 1
  BY CapAssumption
<1>2. PICK b \in Nat : b = c - 1
  OBVIOUS
<1>3. CHUNK_CAP * b \in Nat /\ b <= CHUNK_CAP * b /\ CHUNK_CAP * (b + 1) = CHUNK_CAP * b + CHUNK_CAP
  BY <1>1
<1>4. (c + 1) - 1 = b + 1
  BY <1>2
<1> QED
  BY <1>2, <1>3, <1>4 DEF Before

LEMMA BeforeFirst == Before(1) = 0
  BY CapAssumption DEF Before

LEMMA BeforeLater ==
    ASSUME NEW c \in Nat, NEW d \in Nat, c >= 1, c < d
    PROVE  Before(c) + CHUNK_CAP <= Before(d)
<1>1. CHUNK_CAP \in Nat /\ CHUNK_CAP >= 1
  BY CapAssumption
<1>2. PICK b \in Nat : b = c - 1
  OBVIOUS
<1>3. PICK j \in Nat : d - 1 = (b + 1) + j
  <2>1. d - c - 1 \in Nat /\ d - 1 = ((c - 1) + 1) + (d - c - 1)
    OBVIOUS
  <2> QED
    BY <1>2, <2>1
<1>4. CHUNK_CAP * ((b + 1) + j) = CHUNK_CAP * b + CHUNK_CAP + CHUNK_CAP * j
  BY <1>1
<1>5. CHUNK_CAP * j \in Nat /\ CHUNK_CAP * b \in Nat
  BY <1>1
<1> QED
  BY <1>1, <1>2, <1>3, <1>4, <1>5 DEF Before

-----------------------------------------------------------------------------
(* The invariant.                                                            *)

Chunk == [next : Nat \cup {Nil}, prev : Nat \cup {Nil}, elems : Seq(Elem)]
Cursor == [chunk : Nat, index : Nat]

\* Chunk c of ch is where its address says.
InPlace(ch, c) ==
    /\ ch[c].next = IF c < Len(ch) THEN c + 1 ELSE Nil
    /\ ch[c].prev = IF c > 1 THEN c - 1 ELSE Nil
    /\ Len(ch[c].elems) <= CHUNK_CAP
    /\ c < Len(ch) => Len(ch[c].elems) = CHUNK_CAP
    /\ c > 1 => Len(ch[c].elems) >= 1

\* A copied iterator, kept while the queue grows, is not beyond its chunk's end.
CursorFits(ch, r, c) ==
    /\ c \in Cursor /\ c.chunk \in 1..Len(ch) /\ c.index <= CHUNK_CAP
    /\ r \in Iters => c.index <= Len(ch[c.chunk].elems)

ChunksInv ==
    /\ chunk \in Seq(Chunk) /\ Len(chunk) >= 1
    /\ \A c \in 1..Len(chunk) : InPlace(chunk, c)
    /\ tail = Len(chunk) /\ head \in 1..Len(chunk)
    /\ len = Before(tail) + Len(chunk[tail].elems) /\ len <= MaxPush

ReadersInv ==
    /\ cursor \in [Readers -> Cursor \cup {Nil}]
    /\ \A r \in Readers : cursor[r] # Nil => CursorFits(chunk, r, cursor[r])
    /\ answer \in [Readers -> Elem \cup {Nil}]

DropInv ==
    \/ freed = <<>> /\ head = 1
    \/ freed = [n \in 1..Len(chunk) |-> n]

QueueInv == ChunksInv /\ ReadersInv /\ DropInv

LEMMA ChunkType ==
    ASSUME ChunksInv, NEW c \in 1..Len(chunk)
    PROVE  /\ chunk[c] \in Chunk /\ chunk[c].elems \in Seq(Elem) /\ Len(chunk[c].elems) \in Nat
           /\ c \in Nat /\ c >= 1 /\ InPlace(chunk, c)
<1>1. chunk[c] \in Chunk
  BY DEF ChunksInv
<1> QED
  BY <1>1 DEF ChunksInv, Chunk

\* Place n is in one chunk only.
LEMMA ChunkOfPlace ==
    ASSUME ChunksInv, NEW c \in 1..Len(chunk), NEW n \in Nat, Before(c) < n, n <= Before(c) + CHUNK_CAP
    PROVE  ChunkAt(n) = c
<1>1. DOMAIN chunk = 1..Len(chunk)
  BY DEF ChunksInv
<1>2. ASSUME NEW d \in 1..Len(chunk), Before(d) < n, n <= Before(d) + CHUNK_CAP PROVE d = c
  <2>1. c \in Nat /\ d \in Nat /\ c >= 1 /\ d >= 1
    BY ChunkType
  <2>2. Before(c) \in Nat /\ Before(d) \in Nat /\ CHUNK_CAP \in Nat
    BY <2>1, BeforeStep, CapAssumption
  <2>3. CASE c < d
    BY <1>2, <2>1, <2>2, <2>3, BeforeLater
  <2>4. CASE d < c
    BY <1>2, <2>1, <2>2, <2>4, BeforeLater
  <2> QED
    BY <2>1, <2>3, <2>4
<1>3. PICK d : d = ChunkAt(n)
  OBVIOUS
<1>4. d \in DOMAIN chunk /\ Before(d) < n /\ n <= Before(d) + CHUNK_CAP
  BY <1>1, <1>3 DEF ChunkAt
<1>5. d = c
  BY <1>1, <1>2, <1>4
<1> QED
  BY <1>3, <1>5

Size == Before(Len(chunk)) + Len(chunk[Len(chunk)].elems)

LEMMA SizeType == ASSUME ChunksInv PROVE Size \in Nat /\ Len(Contents) = Size /\ DOMAIN Contents = 1..Size
<1>1. Len(chunk) \in 1..Len(chunk)
  BY DEF ChunksInv
<1>2. Len(chunk[Len(chunk)].elems) \in Nat /\ Before(Len(chunk)) \in Nat
  BY <1>1, ChunkType, BeforeStep
<1>3. Size \in Nat
  BY <1>2 DEF Size
<1> QED
  BY <1>3 DEF Contents, Size

\* The place of an element, and what is there.
LEMMA PlaceOfElement ==
    ASSUME ChunksInv, NEW c \in 1..Len(chunk), NEW i \in 1..Len(chunk[c].elems)
    PROVE  Before(c) + i \in 1..Size /\ Contents[Before(c) + i] = chunk[c].elems[i]
<1>1. /\ c \in Nat /\ c >= 1 /\ i \in Nat /\ i >= 1 /\ i <= Len(chunk[c].elems)
      /\ Len(chunk[c].elems) <= CHUNK_CAP /\ CHUNK_CAP \in Nat /\ Len(chunk[c].elems) \in Nat
  BY ChunkType, CapAssumption DEF InPlace
<1>2. Before(c) \in Nat
  BY <1>1, BeforeStep
<1>3. Before(c) + i <= Size
  <2>1. CASE c = Len(chunk)
    BY <1>1, <1>2, <2>1 DEF Size
  <2>2. CASE c < Len(chunk)
    <3>1. Len(chunk) \in Nat /\ Len(chunk) >= 1 /\ Len(chunk) \in 1..Len(chunk)
      BY DEF ChunksInv
    <3>2. Before(c) + CHUNK_CAP <= Before(Len(chunk)) /\ Before(Len(chunk)) \in Nat
      BY <1>1, <2>2, <3>1, BeforeLater, BeforeStep
    <3>3. Len(chunk[Len(chunk)].elems) \in Nat
      BY <3>1, ChunkType
    <3> QED
      BY <1>1, <1>2, <3>2, <3>3 DEF Size
  <2> QED
    BY <1>1, <2>1, <2>2 DEF ChunksInv
<1>4. Before(c) + i \in 1..Size
  BY <1>1, <1>2, <1>3, SizeType
<1>5. ChunkAt(Before(c) + i) = c
  BY <1>1, <1>2, ChunkOfPlace
<1>6. (Before(c) + i) - Before(c) = i
  BY <1>1, <1>2
<1> QED
  BY <1>4, <1>5, <1>6 DEF Contents, Size

\* Every place up to the size has an element.
LEMMA ElementOfPlace ==
    ASSUME ChunksInv, NEW n \in 1..Size
    PROVE  \E c \in 1..Len(chunk) : \E i \in 1..Len(chunk[c].elems) : n = Before(c) + i
<1> DEFINE L == Len(chunk)
           T == {c \in 1..L : n <= Before(c) + CHUNK_CAP}
<1>1. L \in Nat /\ L >= 1 /\ L \in 1..L /\ CHUNK_CAP \in Nat /\ Size \in Nat /\ n \in Nat /\ n >= 1
  BY SizeType, CapAssumption DEF ChunksInv
<1>2. L \in T
  <2>1. Len(chunk[L].elems) <= CHUNK_CAP /\ Len(chunk[L].elems) \in Nat /\ Before(L) \in Nat
    BY <1>1, ChunkType, BeforeStep DEF InPlace
  <2> QED
    BY <1>1, <2>1 DEF Size
<1>3. PICK c \in T : \A d \in T : c <= d
  <2>1. T \subseteq Nat /\ T # {}
    BY <1>2
  <2> HIDE DEF T
  <2> QED
    BY <2>1, LeastNumber
<1>4. c \in 1..L /\ c \in Nat /\ c >= 1 /\ n <= Before(c) + CHUNK_CAP
  BY <1>3
<1>5. Before(c) \in Nat /\ Len(chunk[c].elems) \in Nat
  BY <1>4, BeforeStep, ChunkType
<1>6. Before(c) < n
  <2>1. CASE c = 1
    BY <1>1, <2>1, BeforeFirst
  <2>2. CASE c > 1
    <3>1. c - 1 \in 1..L /\ c - 1 \in Nat /\ c - 1 >= 1 /\ (c - 1) + 1 = c /\ ~(c <= c - 1)
      BY <1>1, <1>4, <2>2
    <3>2. c - 1 \notin T
      BY <1>3, <3>1
    <3>3. Before(c) = Before(c - 1) + CHUNK_CAP
      BY <3>1, BeforeStep
    <3>4. ~(n <= Before(c - 1) + CHUNK_CAP)
      BY <3>1, <3>2
    <3> QED
      BY <1>1, <1>5, <3>3, <3>4
  <2> QED
    BY <1>4, <2>1, <2>2
<1>7. n - Before(c) <= Len(chunk[c].elems)
  <2>1. CASE c = L
    BY <1>1, <1>5, <2>1 DEF Size
  <2>2. CASE c < L
    <3>1. Len(chunk[c].elems) = CHUNK_CAP
      BY <1>4, <2>2, ChunkType DEF InPlace
    <3> QED
      BY <1>1, <1>4, <1>5, <3>1
  <2> QED
    BY <1>1, <1>4, <2>1, <2>2
<1>8. n - Before(c) \in 1..Len(chunk[c].elems) /\ n = Before(c) + (n - Before(c))
  BY <1>1, <1>5, <1>6, <1>7
<1> QED
  BY <1>4, <1>8

LEMMA ContentsType == ASSUME ChunksInv PROVE Contents \in Seq(Elem)
<1>1. ASSUME NEW n \in 1..Size PROVE Contents[n] \in Elem
  <2>1. PICK c \in 1..Len(chunk) : \E i \in 1..Len(chunk[c].elems) : n = Before(c) + i
    BY ElementOfPlace
  <2>2. PICK i \in 1..Len(chunk[c].elems) : n = Before(c) + i
    BY <2>1
  <2>3. Contents[n] = chunk[c].elems[i] /\ chunk[c].elems \in Seq(Elem)
    BY <2>2, PlaceOfElement, ChunkType
  <2> QED
    BY <2>3
<1>2. Contents \in [1..Size -> Elem] /\ Size \in Nat
  BY <1>1, SizeType DEF Contents, Size
<1> QED
  BY <1>2

-----------------------------------------------------------------------------
(* A push.                                                                   *)

\* The elements of a chunk stay where they are.
Keeps(c) == /\ c \in 1..Len(chunk') /\ Len(chunk[c].elems) <= Len(chunk'[c].elems)
            /\ \A i \in 1..Len(chunk[c].elems) : chunk'[c].elems[i] = chunk[c].elems[i]

LEMMA SetElement ==
    ASSUME NEW S, NEW s \in Seq(S), NEW n \in 1..Len(s), NEW x \in S, NEW t, t = [s EXCEPT ![n] = x]
    PROVE  /\ t \in Seq(S) /\ Len(t) = Len(s) /\ t[n] = x
           /\ \A m \in 1..Len(s) : m # n => t[m] = s[m]
  OBVIOUS

LEMMA AppendElement ==
    ASSUME NEW S, NEW s \in Seq(S), NEW x \in S, NEW t, t = Append(s, x)
    PROVE  /\ t \in Seq(S) /\ Len(t) = Len(s) + 1 /\ t[Len(s) + 1] = x
           /\ \A m \in 1..Len(s) : t[m] = s[m]
  OBVIOUS

LEMMA PushPlain ==
    ASSUME ChunksInv, NEW e \in Elem, ~IsFull(tail), len < MaxPush, len' = len + 1,
           chunk' = [chunk EXCEPT ![tail].elems = Append(@, e)], UNCHANGED <<head, tail>>
    PROVE  /\ ChunksInv' /\ Size' = Size + 1
           /\ \A c \in 1..Len(chunk) : Keeps(c)
           /\ \E c \in 1..Len(chunk') : \E i \in 1..Len(chunk'[c].elems) :
                 Before(c) + i = Size + 1 /\ chunk'[c].elems[i] = e
<1> DEFINE L == Len(chunk)
           old == chunk[L].elems
           new == Append(old, e)
           n == Len(old)
<1>1. /\ L \in Nat /\ L >= 1 /\ L \in 1..L /\ tail = L /\ chunk \in Seq(Chunk)
      /\ len = Before(L) + n /\ head \in 1..L
  BY DEF ChunksInv
<1>2. /\ chunk[L] \in Chunk /\ old \in Seq(Elem) /\ n \in Nat /\ n <= CHUNK_CAP /\ n # CHUNK_CAP
      /\ Before(L) \in Nat /\ CHUNK_CAP \in Nat
  BY <1>1, ChunkType, BeforeStep, CapAssumption DEF InPlace, IsFull
<1>3. new \in Seq(Elem) /\ Len(new) = n + 1 /\ new[n + 1] = e /\ \A i \in 1..n : new[i] = old[i]
  BY <1>2
<1> HIDE DEF new
<1>4. PICK x \in Chunk : x = [chunk[L] EXCEPT !.elems = new]
  BY <1>2, <1>3 DEF Chunk
<1>5. chunk' = [chunk EXCEPT ![L] = x]
  BY <1>1, <1>4 DEF new
<1>6. chunk' \in Seq(Chunk) /\ Len(chunk') = L /\ chunk'[L] = x
      /\ \A c \in 1..L : c # L => chunk'[c] = chunk[c]
  <2>1. PICK t : t = [chunk EXCEPT ![L] = x]
    OBVIOUS
  <2>2. t \in Seq(Chunk) /\ Len(t) = L /\ t[L] = x /\ \A c \in 1..L : c # L => t[c] = chunk[c]
    BY <1>1, <2>1, SetElement
  <2> QED
    BY <1>5, <2>1, <2>2
<1>7. chunk'[L].next = chunk[L].next /\ chunk'[L].prev = chunk[L].prev /\ chunk'[L].elems = new
  BY <1>2, <1>4, <1>6 DEF Chunk
<1>8. \A c \in 1..L : InPlace(chunk, c)
  BY DEF ChunksInv
<1> HIDE DEF L, n
<1>9. ASSUME NEW c \in 1..L PROVE InPlace(chunk', c)
  <2>1. CASE c = L
    <3>1. InPlace(chunk, L) /\ n + 1 <= CHUNK_CAP /\ n + 1 >= 1
      BY <1>1, <1>2, <1>8
    <3>2. /\ chunk'[c].next = (IF c < Len(chunk') THEN c + 1 ELSE Nil)
          /\ chunk'[c].prev = (IF c > 1 THEN c - 1 ELSE Nil)
      BY <1>6, <1>7, <2>1, <3>1 DEF InPlace, L
    <3> QED
      BY <1>1, <1>3, <1>6, <1>7, <2>1, <3>1, <3>2 DEF InPlace
  <2>2. CASE c # L
    <3>1. chunk'[c] = chunk[c] /\ InPlace(chunk, c)
      BY <1>6, <1>8, <2>2
    <3> QED
      BY <1>6, <3>1 DEF InPlace, L
  <2> QED
    BY <2>1, <2>2
<1>10. len' = Before(L) + (n + 1) /\ len' <= MaxPush
  <2>1. len < MaxPush /\ len \in Nat /\ len' = len + 1 /\ MaxPush \in Nat
    BY <1>1, <1>2, IterAssumption
  <2> QED
    BY <1>1, <1>2, <2>1
<1>11. ChunksInv'
  BY <1>1, <1>3, <1>6, <1>7, <1>9, <1>10 DEF ChunksInv, InPlace, Before
<1>12. Size = Before(L) + n /\ Size' = Before(L) + (n + 1)
  BY <1>3, <1>6, <1>7 DEF Size, L, n, Before
<1>13. ASSUME NEW c \in 1..L PROVE Keeps(c)
  <2>1. CASE c = L
    BY <1>2, <1>3, <1>6, <1>7, <2>1 DEF Keeps, n, L
  <2>2. CASE c # L
    <3>1. Len(chunk[c].elems) \in Nat
      BY <1>8, ChunkType DEF L
    <3> QED
      BY <1>6, <2>2, <3>1 DEF Keeps
  <2> QED
    BY <2>1, <2>2
<1>14. n + 1 \in 1..Len(chunk'[L].elems) /\ chunk'[L].elems[n + 1] = e /\ L \in 1..Len(chunk')
  BY <1>1, <1>2, <1>3, <1>6, <1>7
<1>15. Before(L) + (n + 1) = Size + 1 /\ Size' = Size + 1
  BY <1>2, <1>12
<1> QED
  BY <1>11, <1>13, <1>14, <1>15 DEF L

LEMMA PushLinked ==
    ASSUME ChunksInv, NEW e \in Elem, IsFull(tail), len < MaxPush, len' = len + 1,
           LinkAndPush(e), UNCHANGED head
    PROVE  /\ ChunksInv' /\ Size' = Size + 1
           /\ \A c \in 1..Len(chunk) : Keeps(c)
           /\ \E c \in 1..Len(chunk') : \E i \in 1..Len(chunk'[c].elems) :
                 Before(c) + i = Size + 1 /\ chunk'[c].elems[i] = e
<1> DEFINE L == Len(chunk)
<1>1. /\ L \in Nat /\ L >= 1 /\ L \in 1..L /\ tail = L /\ chunk \in Seq(Chunk) /\ CHUNK_CAP \in Nat /\ CHUNK_CAP >= 1
      /\ head \in 1..L /\ len = Before(L) + CHUNK_CAP /\ Len(chunk[L].elems) = CHUNK_CAP
  BY CapAssumption DEF ChunksInv, IsFull
<1>2. chunk[L] \in Chunk /\ Before(L) \in Nat /\ Before(L + 1) = Before(L) + CHUNK_CAP
  BY <1>1, ChunkType, BeforeStep
<1>3. PICK one : one = <<e>>
  OBVIOUS
<1>4. one \in Seq(Elem) /\ Len(one) = 1 /\ one[1] = e
  BY <1>3
<1>5. PICK new : new = [NewChunk EXCEPT !.prev = L, !.elems = one]
  OBVIOUS
<1>6. new \in Chunk
  <2>1. L \in Nat \cup {Nil} /\ Nil \in Nat \cup {Nil}
    BY <1>1
  <2> QED
    BY <1>4, <1>5, <2>1 DEF NewChunk, Chunk
<1>7. new.next = Nil /\ new.prev = L /\ new.elems = one
  BY <1>5 DEF NewChunk
<1>8. PICK x \in Chunk : x = [chunk[L] EXCEPT !.next = L + 1]
  <2>1. PICK y : y = [chunk[L] EXCEPT !.next = L + 1]
    OBVIOUS
  <2>2. L + 1 \in Nat \cup {Nil}
    BY <1>1
  <2>3. y \in Chunk
    BY <1>2, <2>1, <2>2 DEF Chunk
  <2> QED
    BY <2>1, <2>3
<1>9. x.next = L + 1 /\ x.prev = chunk[L].prev /\ x.elems = chunk[L].elems
  BY <1>2, <1>8 DEF Chunk
<1>10. PICK first : first = [chunk EXCEPT ![L] = x]
  OBVIOUS
<1>11. first \in Seq(Chunk) /\ Len(first) = L /\ first[L] = x
      /\ \A c \in 1..L : c # L => first[c] = chunk[c]
  BY <1>1, <1>10, SetElement
<1>12. chunk' = Append(first, new) /\ tail' = L + 1
  <2>1. tail = L /\ Len(chunk) = L
    BY <1>1
  <2>2. [chunk EXCEPT ![tail].next = Len(chunk) + 1] = first
    BY <1>8, <1>10, <2>1
  <2>3. [NewChunk EXCEPT !.prev = tail, !.elems = <<e>>] = new
    BY <1>3, <1>5, <2>1
  <2> QED
    BY <2>1, <2>2, <2>3 DEF LinkAndPush
<1>13. chunk' \in Seq(Chunk) /\ Len(chunk') = L + 1 /\ chunk'[L + 1] = new
      /\ \A c \in 1..L : chunk'[c] = first[c]
  <2>1. PICK t : t = Append(first, new)
    OBVIOUS
  <2>2. t \in Seq(Chunk) /\ Len(t) = L + 1 /\ t[L + 1] = new /\ \A c \in 1..L : t[c] = first[c]
    BY <1>1, <1>6, <1>11, <2>1, AppendElement
  <2> QED
    BY <1>12, <2>1, <2>2
<1>14. \A c \in 1..L : InPlace(chunk, c)
  BY DEF ChunksInv
<1>15. ASSUME NEW c \in 1..L PROVE chunk'[c].elems = chunk[c].elems
  <2>1. CASE c = L
    BY <1>9, <1>11, <1>13, <2>1
  <2>2. CASE c # L
    BY <1>11, <1>13, <2>2
  <2> QED
    BY <2>1, <2>2
<1>16. Len(chunk'[L + 1].elems) = 1 /\ chunk'[L + 1].elems[1] = e
  BY <1>7, <1>13, <1>4
<1> HIDE DEF L
<1>17. ASSUME NEW c \in 1..(L + 1) PROVE InPlace(chunk', c)
  <2>1. CASE c = L + 1
    <3>1. c > 1 /\ ~(c < L + 1) /\ c - 1 = L /\ chunk'[c] = new
      BY <1>1, <1>13, <2>1
    <3>2. Len(new.elems) = 1 /\ Len(chunk') = L + 1
      BY <1>7, <1>13, <1>4
    <3>3. CHUNK_CAP >= 1 /\ CHUNK_CAP \in Nat /\ new.prev = c - 1 /\ new.next = Nil
      BY <1>1, <1>7, <3>1
    <3> QED
      BY <3>1, <3>2, <3>3 DEF InPlace
  <2>2. CASE c = L
    <3>1. InPlace(chunk, c) /\ c < L + 1 /\ c \in 1..L /\ chunk'[c].next = c + 1
          /\ chunk'[c].prev = chunk[c].prev /\ chunk'[c].elems = chunk[c].elems
      BY <1>1, <1>9, <1>11, <1>13, <1>14, <1>15, <2>2
    <3> QED
      BY <1>1, <1>13, <2>2, <3>1 DEF InPlace
  <2>3. CASE c < L
    <3>1. InPlace(chunk, c) /\ chunk'[c] = chunk[c] /\ c < L + 1 /\ c \in 1..L
      BY <1>1, <1>11, <1>13, <1>14, <2>3
    <3> QED
      BY <1>13, <2>3, <3>1 DEF InPlace, L
  <2> QED
    BY <1>1, <2>1, <2>2, <2>3
<1>18. len' = Before(L + 1) + 1 /\ len' <= MaxPush
  <2>1. len < MaxPush /\ len \in Nat /\ len' = len + 1 /\ MaxPush \in Nat
    BY <1>1, <1>2, IterAssumption
  <2> QED
    BY <1>1, <1>2, <2>1
<1>19. ChunksInv'
  <2>1. L + 1 >= 1 /\ head \in 1..(L + 1)
    BY <1>1
  <2> QED
    BY <1>12, <1>13, <1>16, <1>17, <1>18, <2>1 DEF ChunksInv, InPlace, Before
<1>20. Size = Before(L) + CHUNK_CAP /\ Size' = Before(L + 1) + 1
  BY <1>1, <1>13, <1>16 DEF Size, L, Before
<1>21. ASSUME NEW c \in 1..L PROVE Keeps(c)
  <2>1. Len(chunk[c].elems) \in Nat /\ c \in 1..(L + 1)
    BY <1>1, ChunkType DEF L
  <2> QED
    BY <1>13, <1>15, <2>1 DEF Keeps
<1>22. L + 1 \in 1..Len(chunk') /\ 1 \in 1..Len(chunk'[L + 1].elems)
  BY <1>1, <1>13, <1>16
<1>23. Before(L + 1) + 1 = Size + 1 /\ Size' = Size + 1
  BY <1>2, <1>20
<1> QED
  BY <1>16, <1>19, <1>21, <1>22, <1>23 DEF L

Placed ==
    /\ Size \in Nat /\ Len(Contents) = Size /\ Contents \in Seq(Elem)
    /\ \A c \in 1..Len(chunk) :
          /\ Len(chunk[c].elems) \in Nat
          /\ \A i \in 1..Len(chunk[c].elems) :
                Before(c) + i \in 1..Size /\ Contents[Before(c) + i] = chunk[c].elems[i]

LEMMA PlacesFilled == ChunksInv => Placed
  BY SizeType, ContentsType, ChunkType, PlaceOfElement DEF Placed

\* What a push does to the log.
LEMMA PushAppends ==
    ASSUME ChunksInv, NEW e \in Elem, Push(e)
    PROVE  ChunksInv' /\ Contents' = Append(Contents, e) /\ \A c \in 1..Len(chunk) : Keeps(c)
<1>1. /\ ChunksInv' /\ Size' = Size + 1
      /\ \A c \in 1..Len(chunk) : Keeps(c)
      /\ \E c \in 1..Len(chunk') : \E i \in 1..Len(chunk'[c].elems) :
            Before(c) + i = Size + 1 /\ chunk'[c].elems[i] = e
  BY PushPlain, PushLinked DEF Push
<1>2. Placed
  BY PlacesFilled
<1>3. Placed'
  <2>1. ChunksInv' => Placed'
    BY PlacesFilled, PTL
  <2> QED
    BY <1>1, <2>1
<1>4. PICK t : t = Append(Contents, e)
  OBVIOUS
<1>5. t \in Seq(Elem) /\ Len(t) = Size + 1 /\ t[Size + 1] = e /\ \A n \in 1..Size : t[n] = Contents[n]
  <2>1. /\ t \in Seq(Elem) /\ Len(t) = Len(Contents) + 1 /\ t[Len(Contents) + 1] = e
        /\ \A n \in 1..Len(Contents) : t[n] = Contents[n]
    BY <1>2, <1>4, AppendElement DEF Placed
  <2> QED
    BY <1>2, <2>1 DEF Placed
<1>6. ASSUME NEW n \in 1..(Size + 1) PROVE Contents'[n] = t[n]
  <2>1. CASE n = Size + 1
    <3>1. PICK c \in 1..Len(chunk') : \E i \in 1..Len(chunk'[c].elems) :
             Before(c) + i = Size + 1 /\ chunk'[c].elems[i] = e
      BY <1>1
    <3>2. PICK i \in 1..Len(chunk'[c].elems) : Before(c) + i = Size + 1 /\ chunk'[c].elems[i] = e
      BY <3>1
    <3> QED
      BY <1>1, <1>3, <1>5, <2>1, <3>2 DEF Placed, Before
  <2>2. CASE n \in 1..Size
    <3>1. PICK c \in 1..Len(chunk) : \E i \in 1..Len(chunk[c].elems) : n = Before(c) + i
      BY <2>2, ElementOfPlace
    <3>2. PICK i \in 1..Len(chunk[c].elems) : n = Before(c) + i
      BY <3>1
    <3>3. Keeps(c) /\ Len(chunk[c].elems) \in Nat
      BY <1>1, ChunkType
    <3>4. c \in 1..Len(chunk') /\ i \in 1..Len(chunk'[c].elems) /\ chunk'[c].elems[i] = chunk[c].elems[i]
      <4>1. /\ c \in 1..Len(chunk') /\ Len(chunk[c].elems) <= Len(chunk'[c].elems)
            /\ chunk'[c].elems[i] = chunk[c].elems[i]
        BY <3>2, <3>3 DEF Keeps
      <4>2. Len(chunk'[c].elems) \in Nat
        BY <1>3, <4>1 DEF Placed
      <4> QED
        BY <3>2, <3>3, <4>1, <4>2
    <3> QED
      BY <1>1, <1>2, <1>3, <1>5, <2>2, <3>2, <3>4 DEF Placed, Before
  <2> QED
    BY <1>2, <2>1, <2>2 DEF Placed
<1>7. Contents' = t
  BY <1>1, <1>2, <1>3, <1>5, <1>6 DEF Placed
<1> QED
  BY <1>1, <1>4, <1>7

-----------------------------------------------------------------------------
(* Readers.                                                                  *)

Lesser(a, b) == IF a <= b THEN a ELSE b
\* How many elements are before a cursor.
PlaceOf(c) == Before(c.chunk) + Lesser(c.index, Len(chunk[c.chunk].elems))
Pos == [r \in Readers |-> Position(r)]

LEMMA PositionIsPlace ==
    ASSUME NEW r \in Readers
    PROVE  Position(r) = IF cursor[r] = Nil THEN 0 ELSE PlaceOf(cursor[r])
  BY DEF Position, PlaceOf, Lesser

\* The move to the next chunk goes past nothing.
LEMMA StepStays ==
    ASSUME QueueInv, NEW r \in Readers, cursor[r] # Nil, NEW d, d = Step(r)
    PROVE  /\ CursorFits(chunk, r, d) /\ PlaceOf(d) = PlaceOf(cursor[r])
           /\ d.index = CHUNK_CAP => d.chunk = Len(chunk)
<1> DEFINE c == cursor[r]
<1>1. c \in Cursor /\ c.chunk \in 1..Len(chunk) /\ c.index <= CHUNK_CAP /\ CursorFits(chunk, r, c)
  BY DEF QueueInv, ReadersInv, CursorFits
<1>2. /\ c.chunk \in Nat /\ c.index \in Nat /\ c.chunk >= 1 /\ InPlace(chunk, c.chunk)
      /\ Len(chunk[c.chunk].elems) \in Nat /\ Len(chunk) \in Nat
  BY <1>1, ChunkType DEF Cursor, QueueInv, ChunksInv
<1>3. d = IF c.index = CHUNK_CAP /\ chunk[c.chunk].next # Nil
            THEN [chunk |-> chunk[c.chunk].next, index |-> 0] ELSE c
  BY DEF Step
<1> HIDE DEF c
<1>4. CASE c.index = CHUNK_CAP /\ chunk[c.chunk].next # Nil
  <2>1. c.chunk < Len(chunk) /\ chunk[c.chunk].next = c.chunk + 1 /\ Len(chunk[c.chunk].elems) = CHUNK_CAP
    BY <1>1, <1>2, <1>4 DEF InPlace
  <2>2. d = [chunk |-> c.chunk + 1, index |-> 0]
    BY <1>3, <1>4, <2>1
  <2>3. d \in Cursor /\ d.chunk = c.chunk + 1 /\ d.index = 0 /\ d.chunk \in 1..Len(chunk)
    BY <1>2, <2>1, <2>2 DEF Cursor
  <2>4. Len(chunk[d.chunk].elems) \in Nat /\ CHUNK_CAP \in Nat /\ CHUNK_CAP # 0
    BY <2>3, ChunkType, CapAssumption DEF QueueInv
  <2>5. CursorFits(chunk, r, d)
    BY <2>3, <2>4 DEF CursorFits
  <2>6. PlaceOf(d) = Before(c.chunk + 1) + 0
    BY <2>3, <2>4 DEF PlaceOf, Lesser
  <2>7. PlaceOf(c) = Before(c.chunk) + CHUNK_CAP
    BY <1>4, <2>1, <2>4 DEF PlaceOf, Lesser
  <2>8. Before(c.chunk + 1) = Before(c.chunk) + CHUNK_CAP /\ Before(c.chunk) \in Nat
    BY <1>2, BeforeStep
  <2> QED
    BY <2>3, <2>4, <2>5, <2>6, <2>7, <2>8 DEF c
<1>5. CASE ~(c.index = CHUNK_CAP /\ chunk[c.chunk].next # Nil)
  <2>1. d = c
    BY <1>3, <1>5
  <2>2. d.index = CHUNK_CAP => d.chunk = Len(chunk)
    <3>1. c.chunk + 1 # Nil
      BY <1>2, IterAssumption
    <3> QED
      BY <1>1, <1>2, <1>5, <2>1, <3>1 DEF InPlace
  <2> QED
    BY <1>1, <2>1, <2>2 DEF c
<1> QED
  BY <1>4, <1>5

\* What next answers: the element at the reader's place, or Nil at the end.
LEMMA NextGives ==
    ASSUME QueueInv, NEW r \in Readers, NextOf(r)
    PROVE  \E n : \E a \in Elem \cup {Nil} :
              /\ cursor' = [cursor EXCEPT ![r] = n] /\ CursorFits(chunk, r, n)
              /\ answer' = [answer EXCEPT ![r] = a]
              /\ \/ /\ PlaceOf(cursor[r]) < Size /\ a = Contents[PlaceOf(cursor[r]) + 1]
                    /\ PlaceOf(n) = PlaceOf(cursor[r]) + 1
                 \/ PlaceOf(cursor[r]) = Size /\ a = Nil /\ PlaceOf(n) = PlaceOf(cursor[r])
<1>1. cursor[r] # Nil
  BY DEF NextOf
<1>2. PICK d : d = Step(r)
  OBVIOUS
<1>3. /\ CursorFits(chunk, r, d) /\ PlaceOf(d) = PlaceOf(cursor[r])
      /\ d.index = CHUNK_CAP => d.chunk = Len(chunk)
  BY <1>1, <1>2, StepStays
<1> DEFINE held == Len(chunk[d.chunk].elems)
           e == GetElem(d)
           next == [d EXCEPT !.index = @ + 1]
<1>4. /\ d \in Cursor /\ d.chunk \in 1..Len(chunk) /\ d.chunk \in Nat /\ d.index \in Nat /\ d.index <= CHUNK_CAP
      /\ CHUNK_CAP \in Nat /\ (r \in Iters => d.index <= held)
  BY <1>3, CapAssumption DEF CursorFits, Cursor
<1>5. /\ held \in Nat /\ held <= CHUNK_CAP /\ (d.chunk < Len(chunk) => held = CHUNK_CAP)
      /\ chunk[d.chunk].elems \in Seq(Elem) /\ Before(d.chunk) \in Nat /\ Len(chunk) \in Nat
  <2>1. InPlace(chunk, d.chunk) /\ chunk[d.chunk].elems \in Seq(Elem) /\ held \in Nat /\ d.chunk >= 1
    BY <1>4, ChunkType DEF QueueInv
  <2>2. Before(d.chunk) \in Nat
    BY <1>4, <2>1, BeforeStep
  <2> QED
    BY <2>1, <2>2 DEF InPlace, QueueInv, ChunksInv
<1>6. next \in Cursor /\ next.chunk = d.chunk /\ next.index = d.index + 1
  BY <1>4 DEF Cursor
<1>7. e = IF d.index < held THEN chunk[d.chunk].elems[d.index + 1] ELSE Nil
  BY DEF GetElem
<1>8. \/ /\ r # Borrower /\ answer' = [answer EXCEPT ![r] = e]
         /\ cursor' = [cursor EXCEPT ![r] = IF e = Nil THEN d ELSE next]
      \/ /\ r = Borrower
         /\ cursor' = [cursor EXCEPT ![r] = IF d.index = CHUNK_CAP THEN d ELSE next]
         /\ answer' = [answer EXCEPT ![r] = IF d.index = CHUNK_CAP THEN Nil ELSE e]
  BY <1>2 DEF NextOf, CopiedNext, BorrowedNext
<1>9. r # Borrower => r \in Iters
  BY DEF Readers
<1> HIDE DEF e, next
<1>10. CASE d.index < held
  <2>1. d.index + 1 \in 1..held /\ e = chunk[d.chunk].elems[d.index + 1] /\ d.index # CHUNK_CAP
    BY <1>4, <1>5, <1>7, <1>10
  <2>2. e \in Elem /\ e # Nil
    BY <1>5, <2>1, IterAssumption
  <2>3. cursor' = [cursor EXCEPT ![r] = next] /\ answer' = [answer EXCEPT ![r] = e]
    BY <1>8, <2>1, <2>2
  <2>4. CursorFits(chunk, r, next)
    BY <1>4, <1>5, <1>6, <2>1 DEF CursorFits
  <2>5. PlaceOf(d) = Before(d.chunk) + d.index /\ PlaceOf(next) = Before(d.chunk) + (d.index + 1)
    BY <1>4, <1>5, <1>6, <1>10, <2>1 DEF PlaceOf, Lesser
  <2>6. Before(d.chunk) + (d.index + 1) \in 1..Size /\ Contents[Before(d.chunk) + (d.index + 1)] = e
    BY <1>4, <2>1, PlaceOfElement DEF QueueInv
  <2>7. Size \in Nat
    BY SizeType DEF QueueInv
  <2>8. /\ PlaceOf(d) < Size /\ PlaceOf(d) + 1 = Before(d.chunk) + (d.index + 1)
        /\ PlaceOf(next) = PlaceOf(d) + 1
    BY <1>4, <1>5, <2>5, <2>6, <2>7
  <2> QED
    BY <1>3, <2>2, <2>3, <2>4, <2>6, <2>8
<1>11. CASE ~(d.index < held)
  <2>1. e = Nil /\ d.chunk = Len(chunk)
    BY <1>3, <1>4, <1>5, <1>7, <1>11
  <2>2. PlaceOf(d) = Before(d.chunk) + held
    BY <1>4, <1>5, <1>11 DEF PlaceOf, Lesser
  <2>3. PlaceOf(d) = Size
    BY <2>1, <2>2 DEF Size
  <2>4. PICK n : n = IF r = Borrower /\ d.index # CHUNK_CAP THEN next ELSE d
    OBVIOUS
  <2>5. cursor' = [cursor EXCEPT ![r] = n] /\ answer' = [answer EXCEPT ![r] = Nil]
    BY <1>8, <2>1, <2>4
  <2>6. CursorFits(chunk, r, n) /\ PlaceOf(n) = PlaceOf(d)
    <3>1. CASE r = Borrower /\ d.index # CHUNK_CAP
      <4>1. n = next /\ r \notin Iters
        BY <2>4, <3>1, IterAssumption
      <4>2. next.index <= CHUNK_CAP /\ next.index \in Nat /\ ~(next.index <= held)
        BY <1>4, <1>5, <1>6, <1>11, <3>1
      <4>3. CursorFits(chunk, r, next)
        BY <1>4, <1>6, <4>1, <4>2 DEF CursorFits
      <4>4. PlaceOf(next) = Before(d.chunk) + held
        BY <1>6, <4>2 DEF PlaceOf, Lesser
      <4> QED
        BY <2>2, <4>1, <4>3, <4>4
    <3>2. CASE ~(r = Borrower /\ d.index # CHUNK_CAP)
      BY <1>3, <2>4, <3>2
    <3> QED
      BY <3>1, <3>2
  <2> QED
    BY <1>3, <2>3, <2>5, <2>6
<1> QED
  BY <1>10, <1>11

LEMMA CursorMoves ==
    ASSUME QueueInv, UNCHANGED <<chunk, head, tail, len, freed>>, NEW r \in Readers, NEW n, NEW a \in Elem \cup {Nil},
           cursor' = [cursor EXCEPT ![r] = n], n = Nil \/ CursorFits(chunk, r, n), answer' = [answer EXCEPT ![r] = a]
    PROVE  /\ QueueInv' /\ Contents' = Contents
           /\ Pos' = [Pos EXCEPT ![r] = IF n = Nil THEN 0 ELSE PlaceOf(n)]
<1>1. n \in Cursor \cup {Nil}
  BY DEF CursorFits
<1>2. /\ cursor' \in [Readers -> Cursor \cup {Nil}] /\ cursor'[r] = n
      /\ \A q \in Readers : q # r => cursor'[q] = cursor[q]
  BY <1>1 DEF QueueInv, ReadersInv
<1>3. answer' \in [Readers -> Elem \cup {Nil}]
  BY DEF QueueInv, ReadersInv
<1>4. \A q \in Readers : cursor'[q] # Nil => CursorFits(chunk, q, cursor'[q])
  BY <1>2 DEF QueueInv, ReadersInv
<1>5. ReadersInv'
  BY <1>2, <1>3, <1>4 DEF ReadersInv, CursorFits
<1>6. ChunksInv' /\ DropInv'
  BY DEF QueueInv, ChunksInv, InPlace, DropInv, Before
<1>7. Contents' = Contents
  BY DEF Contents, ChunkAt, Before
<1>8. ASSUME NEW q \in Readers
      PROVE  Position(q)' = IF q = r THEN (IF n = Nil THEN 0 ELSE PlaceOf(n)) ELSE Position(q)
  BY <1>2 DEF Position, PlaceOf, Lesser, Before
<1>9. Pos' = [Pos EXCEPT ![r] = IF n = Nil THEN 0 ELSE PlaceOf(n)]
  BY <1>8 DEF Pos
<1> QED
  BY <1>5, <1>6, <1>7, <1>9 DEF QueueInv

-----------------------------------------------------------------------------
(* Drop.                                                                     *)

\* Induction over a set of numbers.
LEMMA Induct ==
    ASSUME NEW S, 0 \in S, \A n \in Nat : n \in S => n + 1 \in S PROVE Nat \subseteq S
<1> DEFINE T == Nat \ S
<1>1. ASSUME T # {} PROVE FALSE
  <2>1. PICK x \in T : \A y \in T : x <= y
    BY <1>1, LeastNumber
  <2>2. x # 0 /\ x - 1 \in Nat
    OBVIOUS
  <2>3. x - 1 \in S
    BY <2>1, <2>2
  <2> QED
    BY <2>1, <2>2, <2>3
<1> QED
  BY <1>1

IsPath(p) ==
    /\ p[1] = head
    /\ \A n \in 1..(Len(p) - 1) : p[n + 1] = chunk[p[n]].next
    /\ chunk[p[Len(p)]].next = Nil

\* There is one path from the head to a chunk without a next, through all chunks.
LEMMA PathIsAll ==
    ASSUME ChunksInv, head = 1, NEW k \in 1..Len(chunk), NEW p \in [1..k -> 1..Len(chunk)], IsPath(p)
    PROVE  p = [n \in 1..Len(chunk) |-> n]
<1> DEFINE L == Len(chunk)
           S == {n \in Nat : n + 1 \in 1..k => p[n + 1] = n + 1}
<1>1. L \in Nat /\ k \in Nat /\ k >= 1 /\ k <= L
  BY DEF ChunksInv
<1>2. Len(p) = k
  BY <1>1
<1>3. /\ p[1] = 1 /\ chunk[p[k]].next = Nil
      /\ \A n \in 1..(k - 1) : p[n + 1] = chunk[p[n]].next
  BY <1>2 DEF IsPath
<1>4. \A n \in 1..L : n < L => chunk[n].next = n + 1
  BY DEF ChunksInv, InPlace
<1>5. 0 \in S
  BY <1>3
<1>6. ASSUME NEW n \in Nat, n \in S PROVE n + 1 \in S
  <2> SUFFICES ASSUME (n + 1) + 1 \in 1..k PROVE p[(n + 1) + 1] = (n + 1) + 1
    OBVIOUS
  <2>1. n + 1 \in 1..(k - 1) /\ n + 1 \in 1..k /\ n + 1 \in 1..L /\ n + 1 < L
    BY <1>1
  <2>2. p[n + 1] = n + 1
    BY <1>6, <2>1
  <2>3. p[(n + 1) + 1] = chunk[p[n + 1]].next
    BY <1>3, <2>1
  <2> QED
    BY <1>4, <2>1, <2>2, <2>3
<1> HIDE DEF S
<1>7. Nat \subseteq S
  BY <1>5, <1>6, Induct
<1>8. ASSUME NEW n \in 1..k PROVE p[n] = n
  <2>1. n - 1 \in S /\ (n - 1) + 1 = n
    BY <1>1, <1>7
  <2> QED
    BY <2>1 DEF S
<1>9. k = L
  <2>1. chunk[k].next = Nil
    BY <1>1, <1>3, <1>8
  <2>2. k + 1 # Nil
    BY <1>1, IterAssumption
  <2> QED
    BY <1>1, <1>4, <2>1, <2>2
<1> QED
  BY <1>8, <1>9

LEMMA LinksAreAll == ASSUME ChunksInv, head = 1 PROVE Links = [n \in 1..Len(chunk) |-> n]
<1> DEFINE L == Len(chunk)
           q == [n \in 1..L |-> n]
           Paths == UNION {[1..n -> DOMAIN chunk] : n \in DOMAIN chunk}
<1>1. L \in Nat /\ L >= 1 /\ DOMAIN chunk = 1..L /\ L \in 1..L
  BY DEF ChunksInv
<1>2. q \in Paths
  <2>1. q \in [1..L -> 1..L]
    OBVIOUS
  <2> QED
    BY <1>1, <2>1
<1>3. Len(q) = L
  BY <1>1
<1>4. q[1] = 1 /\ \A n \in 1..L : q[n] = n
  BY <1>1
<1>5. /\ \A n \in 1..(L - 1) : chunk[n].next = n + 1 /\ n \in 1..L /\ n + 1 \in 1..L
      /\ chunk[L].next = Nil
  BY <1>1 DEF ChunksInv, InPlace
<1>6. IsPath(q)
  <2> HIDE DEF q
  <2> QED
    BY <1>1, <1>3, <1>4, <1>5 DEF IsPath
<1>7. Links = CHOOSE p \in Paths : IsPath(p)
  BY DEF Links, IsPath
<1> HIDE DEF q
<1>8. Links \in Paths /\ IsPath(Links)
  BY <1>2, <1>6, <1>7
<1>9. PICK k \in 1..L : Links \in [1..k -> 1..L]
  BY <1>1, <1>8
<1> QED
  BY <1>8, <1>9, PathIsAll

LEMMA NotDropped == ASSUME QueueInv, Alive PROVE head = 1
<1>1. CASE freed = [n \in 1..Len(chunk) |-> n]
  <2>1. 1 \in 1..Len(chunk) /\ 1 \in DOMAIN freed
    BY <1>1 DEF QueueInv, ChunksInv
  <2>2. freed # <<>>
    BY <2>1
  <2> QED
    BY <2>2 DEF Alive
<1> QED
  BY <1>1 DEF QueueInv, DropInv

LEMMA DropStep == ASSUME QueueInv, Drop PROVE QueueInv' /\ UNCHANGED <<Contents, Pos, answer>>
<1> DEFINE L == Len(chunk)
           q == [n \in 1..L |-> n]
<1>1. Links = q
  BY NotDropped, LinksAreAll DEF Drop, QueueInv
<1>2. L \in Nat /\ L >= 1 /\ L \in 1..L /\ Len(q) = L /\ q[L] = L
  BY DEF QueueInv, ChunksInv
<1>3. freed' = q /\ head' = L /\ UNCHANGED <<chunk, tail, len, cursor, answer>>
  BY <1>1, <1>2 DEF Drop
<1>4. ChunksInv'
  BY <1>2, <1>3 DEF QueueInv, ChunksInv, InPlace, Before
<1>5. ReadersInv'
  BY <1>3 DEF QueueInv, ReadersInv, CursorFits
<1>6. DropInv'
  BY <1>3 DEF DropInv
<1>7. UNCHANGED <<Contents, Pos>>
  BY <1>3 DEF Contents, ChunkAt, Pos, Position, Before
<1> QED
  BY <1>3, <1>4, <1>5, <1>6, <1>7 DEF QueueInv

-----------------------------------------------------------------------------
(* The invariant and the refinement.                                         *)

LEMMA InitQueue == Init => QueueInv /\ Log!LogInit
<1> SUFFICES ASSUME Init PROVE QueueInv /\ Log!LogInit
  OBVIOUS
<1>1. NewChunk \in Chunk /\ NewChunk.next = Nil /\ NewChunk.prev = Nil /\ NewChunk.elems = <<>>
  BY DEF NewChunk, Chunk
<1>2. chunk = <<NewChunk>>
  BY DEF Init
<1>3. chunk \in Seq(Chunk) /\ Len(chunk) = 1 /\ chunk[1] = NewChunk
  BY <1>1, <1>2
<1>4. CHUNK_CAP \in Nat /\ CHUNK_CAP >= 1 /\ MaxPush \in Nat
  BY CapAssumption, IterAssumption
<1>5. \A c \in 1..Len(chunk) : InPlace(chunk, c)
  BY <1>1, <1>3, <1>4 DEF InPlace
<1>6. ChunksInv
  BY <1>1, <1>3, <1>4, <1>5, BeforeFirst DEF Init, ChunksInv
<1>7. ReadersInv
  BY DEF Init, ReadersInv
<1>8. DropInv
  BY DEF Init, DropInv
<1>9. Contents = <<>>
  <2>1. Size = 0
    BY <1>1, <1>3, BeforeFirst DEF Size
  <2>2. Contents \in Seq(Elem) /\ Len(Contents) = 0
    BY <1>6, <2>1, SizeType, ContentsType
  <2> QED
    BY <2>2
<1>10. Pos = [r \in Readers |-> 0]
  BY DEF Init, Pos, Position
<1>11. Log!LogInit
  BY <1>9, <1>10 DEF Init, Log!LogInit, Pos
<1> QED
  BY <1>6, <1>7, <1>8, <1>11 DEF QueueInv

LEMMA PushStep == ASSUME QueueInv, NEW e \in Elem, Push(e) PROVE QueueInv' /\ Log!LogAppend
<1>1. ChunksInv' /\ Contents' = Append(Contents, e) /\ \A c \in 1..Len(chunk) : Keeps(c)
  BY PushAppends DEF QueueInv
<1>2. UNCHANGED <<head, cursor, answer, freed>> /\ Alive /\ cursor[Borrower] = Nil
  BY DEF Push
<1>3. ASSUME NEW r \in Readers, cursor[r] # Nil
      PROVE  CursorFits(chunk', r, cursor[r]) /\ Position(r)' = Position(r)
  <2>1. r \in Iters
    BY <1>2, <1>3 DEF Readers
  <2> DEFINE c == cursor[r]
  <2>2. /\ c \in Cursor /\ c.chunk \in 1..Len(chunk) /\ c.index <= CHUNK_CAP
        /\ c.index <= Len(chunk[c.chunk].elems)
    BY <1>3, <2>1 DEF QueueInv, ReadersInv, CursorFits
  <2>3. c.chunk \in 1..Len(chunk') /\ Len(chunk[c.chunk].elems) <= Len(chunk'[c.chunk].elems)
    BY <1>1, <2>2 DEF Keeps
  <2>4. c.index \in Nat /\ Len(chunk[c.chunk].elems) \in Nat
    BY <2>2, ChunkType DEF Cursor, QueueInv
  <2>5. Len(chunk'[c.chunk].elems) \in Nat
    <3>1. Placed'
      <4>1. ChunksInv' => Placed'
        BY PlacesFilled, PTL
      <4> QED
        BY <1>1, <4>1
    <3> QED
      BY <2>3, <3>1 DEF Placed
  <2>6. c.index <= Len(chunk'[c.chunk].elems)
    BY <2>2, <2>3, <2>4, <2>5
  <2>7. CursorFits(chunk', r, c)
    BY <2>2, <2>3, <2>6 DEF CursorFits
  <2>8. Position(r) = Before(c.chunk) + c.index
    BY <1>3, <2>2 DEF Position
  <2>9. Position(r)' = Before(c.chunk) + c.index
    BY <1>2, <1>3, <2>6 DEF Position, Before
  <2> QED
    BY <2>7, <2>8, <2>9
<1>4. ASSUME NEW r \in Readers PROVE Position(r)' = Position(r)
  <2>1. CASE cursor[r] = Nil
    BY <1>2, <2>1 DEF Position
  <2> QED
    BY <1>3, <2>1
<1>5. ReadersInv'
  BY <1>2, <1>3 DEF QueueInv, ReadersInv
<1>6. DropInv'
  <2>1. head = 1
    BY <1>2, NotDropped
  <2> QED
    BY <1>2, <2>1 DEF DropInv, Alive
<1>7. UNCHANGED [r \in Readers |-> Position(r)]
  BY <1>4
<1>8. Log!LogAppend
  BY <1>1, <1>2, <1>7 DEF Log!LogAppend
<1> QED
  BY <1>1, <1>5, <1>6, <1>8 DEF QueueInv

LEMMA PosType == ASSUME NEW r \in Readers PROVE Pos[r] = Position(r) /\ Pos = [q \in Readers |-> Position(q)]
  BY DEF Pos

LEMMA StartStep ==
    ASSUME QueueInv, NEW r \in Readers,
           MakeIter(r) \/ (\E s \in Iters : r \in Iters /\ CopyIter(r, s)) \/ (r = Borrower /\ EndBorrow)
    PROVE  QueueInv' /\ Log!LogStart(r)
<1>1. UNCHANGED <<chunk, head, tail, len, freed>> /\ answer' = [answer EXCEPT ![r] = Nil]
  BY DEF MakeIter, CopyIter, EndBorrow
<1>2. \E n : /\ cursor' = [cursor EXCEPT ![r] = n] /\ (n = Nil \/ CursorFits(chunk, r, n))
             /\ (IF n = Nil THEN 0 ELSE PlaceOf(n)) \in {0} \cup {Pos[s] : s \in Readers}
  <2>1. CASE MakeIter(r)
    <3>1. PICK n : n = [chunk |-> 1, index |-> 0]
      OBVIOUS
    <3>2. cursor' = [cursor EXCEPT ![r] = n]
      BY <2>1, <3>1, NotDropped DEF MakeIter
    <3>3. n \in Cursor /\ n.chunk = 1 /\ n.index = 0
      BY <3>1 DEF Cursor
    <3>4. Len(chunk[1].elems) \in Nat /\ 1 \in 1..Len(chunk) /\ CHUNK_CAP \in Nat
      BY ChunkType, CapAssumption DEF QueueInv, ChunksInv
    <3>5. CursorFits(chunk, r, n)
      BY <3>3, <3>4 DEF CursorFits
    <3>6. PlaceOf(n) = 0
      BY <3>3, <3>4, BeforeFirst DEF PlaceOf, Lesser
    <3> QED
      BY <3>2, <3>5, <3>6
  <2>2. CASE \E s \in Iters : r \in Iters /\ CopyIter(r, s)
    <3>1. PICK s \in Iters : r \in Iters /\ CopyIter(r, s)
      BY <2>2
    <3>2. cursor[s] # Nil /\ cursor' = [cursor EXCEPT ![r] = cursor[s]]
      BY <3>1 DEF CopyIter
    <3>3. s \in Readers /\ CursorFits(chunk, s, cursor[s])
      BY <3>1, <3>2 DEF QueueInv, ReadersInv, Readers
    <3>4. CursorFits(chunk, r, cursor[s])
      BY <3>1, <3>3 DEF CursorFits
    <3>5. PlaceOf(cursor[s]) = Pos[s]
      BY <3>2, <3>3, PosType, PositionIsPlace
    <3> QED
      BY <3>2, <3>3, <3>4, <3>5
  <2>3. CASE r = Borrower /\ EndBorrow
    BY <2>3 DEF EndBorrow
  <2> QED
    BY <2>1, <2>2, <2>3
<1>3. PICK n : /\ cursor' = [cursor EXCEPT ![r] = n] /\ (n = Nil \/ CursorFits(chunk, r, n))
               /\ (IF n = Nil THEN 0 ELSE PlaceOf(n)) \in {0} \cup {Pos[s] : s \in Readers}
  BY <1>2
<1>4. PICK p : p = IF n = Nil THEN 0 ELSE PlaceOf(n)
  OBVIOUS
<1>5. QueueInv' /\ Contents' = Contents /\ Pos' = [Pos EXCEPT ![r] = p]
  BY <1>1, <1>3, <1>4, CursorMoves
<1>6. p \in {0} \cup {Pos[s] : s \in Readers}
  BY <1>3, <1>4
<1>7. Log!LogStart(r)
  BY <1>1, <1>5, <1>6 DEF Log!LogStart, Pos
<1> QED
  BY <1>5, <1>7

LEMMA NextStep ==
    ASSUME QueueInv, NEW r \in Readers, NextOf(r) PROVE QueueInv' /\ (Log!LogGet(r) \/ Log!LogNone(r))
<1>1. cursor[r] # Nil /\ UNCHANGED <<chunk, head, tail, len, freed>>
  BY DEF NextOf
<1>2. PICK n : \E a \in Elem \cup {Nil} :
              /\ cursor' = [cursor EXCEPT ![r] = n] /\ CursorFits(chunk, r, n)
              /\ answer' = [answer EXCEPT ![r] = a]
              /\ \/ /\ PlaceOf(cursor[r]) < Size /\ a = Contents[PlaceOf(cursor[r]) + 1]
                    /\ PlaceOf(n) = PlaceOf(cursor[r]) + 1
                 \/ PlaceOf(cursor[r]) = Size /\ a = Nil /\ PlaceOf(n) = PlaceOf(cursor[r])
  BY NextGives
<1>3. PICK a \in Elem \cup {Nil} :
              /\ cursor' = [cursor EXCEPT ![r] = n] /\ CursorFits(chunk, r, n)
              /\ answer' = [answer EXCEPT ![r] = a]
              /\ \/ /\ PlaceOf(cursor[r]) < Size /\ a = Contents[PlaceOf(cursor[r]) + 1]
                    /\ PlaceOf(n) = PlaceOf(cursor[r]) + 1
                 \/ PlaceOf(cursor[r]) = Size /\ a = Nil /\ PlaceOf(n) = PlaceOf(cursor[r])
  BY <1>2
<1>4. n # Nil
  BY <1>3, IterAssumption DEF CursorFits, Cursor
<1>5. QueueInv' /\ Contents' = Contents /\ Pos' = [Pos EXCEPT ![r] = PlaceOf(n)]
  BY <1>1, <1>3, <1>4, CursorMoves
<1>6. Pos[r] = PlaceOf(cursor[r]) /\ Len(Contents) = Size
  BY <1>1, PosType, PositionIsPlace, SizeType DEF QueueInv
<1>7. CASE /\ PlaceOf(cursor[r]) < Size /\ a = Contents[PlaceOf(cursor[r]) + 1]
           /\ PlaceOf(n) = PlaceOf(cursor[r]) + 1
  <2>1. Pos[r] < Len(Contents) /\ answer' = [answer EXCEPT ![r] = Contents[Pos[r] + 1]]
    BY <1>3, <1>6, <1>7
  <2>2. Pos' = [Pos EXCEPT ![r] = @ + 1]
    BY <1>5, <1>6, <1>7
  <2>3. Log!LogGet(r)
    BY <1>5, <2>1, <2>2 DEF Log!LogGet, Pos
  <2> QED
    BY <1>5, <2>3
<1>8. CASE PlaceOf(cursor[r]) = Size /\ a = Nil /\ PlaceOf(n) = PlaceOf(cursor[r])
  <2>1. Pos[r] = Len(Contents) /\ answer' = [answer EXCEPT ![r] = Nil]
    BY <1>3, <1>6, <1>8
  <2>2. Pos' = Pos
    BY <1>5, <1>6, <1>8 DEF Pos
  <2>3. Log!LogNone(r)
    BY <1>5, <2>1, <2>2 DEF Log!LogNone, Pos
  <2> QED
    BY <1>5, <2>3
<1> QED
  BY <1>3, <1>7, <1>8

LEMMA QueueStep == QueueInv /\ [Next]_vars => QueueInv' /\ [Log!LogNext]_(Log!logVars)
<1> SUFFICES ASSUME QueueInv, [Next]_vars PROVE QueueInv' /\ [Log!LogNext]_(Log!logVars)
  OBVIOUS
<1>1. ASSUME NEW e \in Elem, Push(e) PROVE QueueInv' /\ Log!LogNext
  BY <1>1, PushStep DEF Log!LogNext
<1>2. ASSUME NEW r \in Readers, MakeIter(r) PROVE QueueInv' /\ Log!LogNext
  BY <1>2, StartStep DEF Log!LogNext
<1>3. ASSUME NEW r \in Readers, NextOf(r) PROVE QueueInv' /\ Log!LogNext
  BY <1>3, NextStep DEF Log!LogNext
<1>4. ASSUME NEW r \in Iters, NEW s \in Iters, CopyIter(r, s) PROVE QueueInv' /\ Log!LogNext
  <2>1. r \in Readers
    BY DEF Readers
  <2> QED
    BY <1>4, <2>1, StartStep DEF Log!LogNext
<1>5. CASE EndBorrow
  <2>1. Borrower \in Readers
    BY DEF Readers
  <2> QED
    BY <1>5, <2>1, StartStep DEF Log!LogNext
<1>6. CASE Drop
  <2>1. QueueInv' /\ UNCHANGED <<Contents, Pos, answer>>
    BY <1>6, DropStep
  <2> QED
    BY <2>1 DEF Log!logVars, Pos
<1>7. CASE UNCHANGED vars
  <2>1. UNCHANGED <<chunk, head, tail, len, cursor, answer, freed>>
    BY <1>7 DEF vars
  <2>2. ChunksInv' /\ ReadersInv' /\ DropInv'
    BY <2>1 DEF QueueInv, ChunksInv, ReadersInv, DropInv, InPlace, CursorFits, Before
  <2>3. UNCHANGED <<Contents, Pos, answer>>
    BY <2>1 DEF Contents, ChunkAt, Pos, Position, Before
  <2> QED
    BY <2>2, <2>3 DEF QueueInv, Log!logVars, Pos
<1> QED
  BY <1>1, <1>2, <1>3, <1>4, <1>5, <1>6, <1>7 DEF Next

LEMMA InvSound == QueueInv => QueueSound
<1> SUFFICES ASSUME QueueInv PROVE QueueSound
  OBVIOUS
<1> DEFINE L == Len(chunk)
<1>1. /\ chunk \in Seq(Chunk) /\ L \in Nat /\ L >= 1 /\ L \in 1..L /\ DOMAIN chunk = 1..L
      /\ tail = L /\ head \in 1..L
  BY DEF QueueInv, ChunksInv
<1>2. L <= MaxPush + 1 /\ len \in 0..MaxPush /\ MaxPush \in Nat
  <2>1. Len(chunk[L].elems) \in Nat /\ Before(L) \in Nat /\ L - 1 <= Before(L)
    BY <1>1, ChunkType, BeforeStep DEF QueueInv
  <2>2. len = Before(L) + Len(chunk[L].elems) /\ len <= MaxPush /\ MaxPush \in Nat
    BY <1>1, IterAssumption DEF QueueInv, ChunksInv
  <2> QED
    BY <1>1, <2>1, <2>2
<1>3. ASSUME NEW c \in 1..L PROVE chunk[c] \in Chunks
  <2>1. chunk[c] \in Chunk /\ InPlace(chunk, c) /\ chunk[c].elems \in Seq(Elem) /\ Len(chunk[c].elems) \in Nat
    BY ChunkType DEF QueueInv
  <2>2. chunk[c].next \in Address \cup {Nil} /\ chunk[c].prev \in Address \cup {Nil}
    BY <1>1, <1>2, <2>1 DEF InPlace, Address
  <2>3. chunk[c].elems \in UNION {[1..n -> Elem] : n \in 0..CHUNK_CAP}
    <3>1. Len(chunk[c].elems) \in 0..CHUNK_CAP
      BY <2>1, CapAssumption DEF InPlace
    <3>2. chunk[c].elems \in [1..Len(chunk[c].elems) -> Elem]
      BY <2>1
    <3> QED
      BY <3>1, <3>2
  <2>4. chunk[c] = [next |-> chunk[c].next, prev |-> chunk[c].prev, elems |-> chunk[c].elems]
    BY <2>1 DEF Chunk
  <2> QED
    BY <2>2, <2>3, <2>4 DEF Chunks
<1>4. chunk \in Seq(Chunks)
  BY <1>1, <1>3
<1>5. ASSUME NEW r \in Readers
      PROVE  cursor[r] \in [chunk : DOMAIN chunk, index : 0..CHUNK_CAP] \cup {Nil}
  <2>1. CASE cursor[r] # Nil
    <3>1. CursorFits(chunk, r, cursor[r])
      BY <2>1 DEF QueueInv, ReadersInv
    <3>2. cursor[r] = [chunk |-> cursor[r].chunk, index |-> cursor[r].index]
          /\ cursor[r].index \in 0..CHUNK_CAP /\ cursor[r].chunk \in DOMAIN chunk
      BY <1>1, <3>1, CapAssumption DEF CursorFits, Cursor
    <3> QED
      BY <3>2
  <2> QED
    BY <2>1
<1>6. cursor \in [Readers -> [chunk : DOMAIN chunk, index : 0..CHUNK_CAP] \cup {Nil}]
  BY <1>5 DEF QueueInv, ReadersInv
<1>7. freed \in Seq(DOMAIN chunk) /\ DropFreesAll
  <2>1. CASE freed = <<>>
    BY <2>1 DEF DropFreesAll, Alive
  <2>2. CASE freed = [n \in 1..L |-> n]
    <3>1. Len(freed) = L /\ DOMAIN freed = 1..L /\ freed \in [1..L -> 1..L]
      BY <1>1, <2>2
    <3>2. {freed[n] : n \in DOMAIN freed} = DOMAIN chunk
      BY <1>1, <2>2, <3>1
    <3> QED
      BY <1>1, <3>1, <3>2 DEF DropFreesAll
  <2> QED
    BY <2>1, <2>2 DEF QueueInv, DropInv
<1>8. TypeOK
  BY <1>1, <1>2, <1>4, <1>6, <1>7 DEF TypeOK, QueueInv, ReadersInv
<1>9. ChunksPacked
  <2>1. len = Len(Contents)
    BY SizeType DEF QueueInv, ChunksInv, Size
  <2>2. \A c \in 1..L : c # L => Len(chunk[c].elems) = CHUNK_CAP
    BY <1>1 DEF QueueInv, ChunksInv, InPlace
  <2> QED
    BY <1>1, <2>1, <2>2 DEF ChunksPacked
<1> QED
  BY <1>7, <1>8, <1>9 DEF QueueSound

\* An iterator stays inside its chunk, only the last chunk has room, and drop
\* frees each chunk once, for every size of chunk, number of elements and number
\* of iterators (util/chunked_queue.rs:31-46, 126-140, 186-239).
THEOREM QueueIsSound == Spec => []QueueSound
<1>1. Init => QueueInv
  BY InitQueue
<1>2. QueueInv /\ [Next]_vars => QueueInv'
  BY QueueStep
<1> QED
  BY <1>1, <1>2, InvSound, PTL DEF Spec

\* The queue is a log: whatever is pushed while iterators are kept and copied,
\* each is given every element once and in order, and told Nil exactly when it
\* has had them all (util/chunked_queue.rs:125-142, 219-239).
THEOREM QueueImplementsLog == Spec => ImplementsLog
<1>1. Init => QueueInv /\ Log!LogInit
  BY InitQueue
<1>2. QueueInv /\ [Next]_vars => QueueInv' /\ [Log!LogNext]_(Log!logVars)
  BY QueueStep
<1> QED
  BY <1>1, <1>2, PTL DEF Spec, ImplementsLog, Log!LogSpec
=============================================================================
