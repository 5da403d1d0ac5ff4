----------------------------- MODULE ChunkedQueue -----------------------------
(***************************************************************************)
(* util/chunked_queue.rs: the queue under every worklist of the analyses     *)
(* (address edges, inter-procedural edges, reachable functions, internal     *)
(* edges).  Chunks of CHUNK_CAP elements are linked through raw pointers; a  *)
(* copied iterator holds a chunk pointer and an index and is kept while the  *)
(* queue grows, a borrowed one (Borrower) only lives while nothing is pushed.*)
(*                                                                         *)
(* A chunk's address is its index in the sequence of allocations.           *)
(***************************************************************************)
EXTENDS Naturals, Sequences, FiniteSets

CONSTANTS CHUNK_CAP,   \* elements per chunk
          Elem,        \* the (Copy) elements
          Iters,       \* IterCopied values
          Borrower,    \* the Iter value
          Nil,         \* None, and the null pointer
          MaxPush      \* bound: elements pushed

ASSUME CapAssumption == CHUNK_CAP \in Nat \ {0}
ASSUME IterAssumption ==
    /\ Borrower \notin Iters /\ MaxPush \in Nat
    /\ Nil \notin Elem \cup Nat \cup [chunk : Nat, index : Nat]

VARIABLES chunk,    \* allocated chunks: [next, prev, elems]
          head, tail,
          len,
          cursor,   \* per iterator: [chunk, index], or Nil before it is made
          answer,   \* per iterator: what its last next() returned
          freed     \* chunks deallocated by drop, in order

vars == <<chunk, head, tail, len, cursor, answer, freed>>

Readers == Iters \cup {Borrower}
Address == 1..(MaxPush + 1)
Chunks == [next : Address \cup {Nil}, prev : Address \cup {Nil},
           elems : UNION {[1..n -> Elem] : n \in 0..CHUNK_CAP}]

TypeOK ==
    /\ chunk \in Seq(Chunks)
    /\ head \in DOMAIN chunk /\ tail \in DOMAIN chunk
    /\ len \in 0..MaxPush
    /\ cursor \in [Readers -> [chunk : DOMAIN chunk, index : 0..CHUNK_CAP] \cup {Nil}]
    /\ answer \in [Readers -> Elem \cup {Nil}]
    /\ freed \in Seq(DOMAIN chunk)

NewChunk == [next |-> Nil, prev |-> Nil, elems |-> <<>>]

Init ==
    /\ chunk = <<NewChunk>>
    /\ head = 1 /\ tail = 1 /\ len = 0
    /\ cursor = [r \in Readers |-> Nil]
    /\ answer = [r \in Readers |-> Nil]
    /\ freed = <<>>

Alive == freed = <<>>

IsFull(c) == Len(chunk[c].elems) = CHUNK_CAP

\* push into a new chunk behind a full tail
LinkAndPush(e) ==
    /\ chunk' = Append([chunk EXCEPT ![tail].next = Len(chunk) + 1],
                       [NewChunk EXCEPT !.prev = tail, !.elems = <<e>>])
    /\ tail' = Len(chunk) + 1

Push(e) ==
    /\ Alive /\ len < MaxPush
    /\ cursor[Borrower] = Nil            \* &mut self excludes a live Iter
    /\ IF IsFull(tail)
         THEN LinkAndPush(e)
         ELSE /\ chunk' = [chunk EXCEPT ![tail].elems = Append(@, e)]
              /\ UNCHANGED tail
    /\ len' = len + 1
    /\ UNCHANGED <<head, cursor, answer, freed>>

\* iter() and iter_copied()
MakeIter(r) ==
    /\ Alive /\ cursor[r] = Nil
    /\ cursor' = [cursor EXCEPT ![r] = [chunk |-> head, index |-> 0]]
    /\ answer' = [answer EXCEPT ![r] = Nil]
    /\ UNCHANGED <<chunk, head, tail, len, freed>>

\* IterCopied is Copy
CopyIter(r, s) ==
    /\ Alive /\ cursor[s] # Nil /\ cursor[r] = Nil
    /\ cursor' = [cursor EXCEPT ![r] = cursor[s]]
    /\ answer' = [answer EXCEPT ![r] = Nil]
    /\ UNCHANGED <<chunk, head, tail, len, freed>>

EndBorrow ==
    /\ cursor[Borrower] # Nil
    /\ cursor' = [cursor EXCEPT ![Borrower] = Nil]
    /\ answer' = [answer EXCEPT ![Borrower] = Nil]
    /\ UNCHANGED <<chunk, head, tail, len, freed>>

M_StepNeverMoves(r) == \* stays at the end of its chunk
    cursor[r]

\* The first half of both next() functions: at the end of a chunk, move on to
\* the next one if there is one.
Step(r) ==
    LET c == cursor[r]
    IN  IF c.index = CHUNK_CAP /\ chunk[c.chunk].next # Nil
          THEN [chunk |-> chunk[c.chunk].next, index |-> 0]
          ELSE c

\* get_elem, get_elem_ref: Nil beyond the elements the chunk has now
GetElem(c) ==
    LET elems == chunk[c.chunk].elems
    IN  IF c.index < Len(elems) THEN elems[c.index + 1] ELSE Nil

M_CopiedNextAdvances(r) == \* advances past an end that may still grow
    LET c == Step(r)
        e == GetElem(c)
    IN  /\ cursor' = [cursor EXCEPT
              ![r] = IF c.index = CHUNK_CAP THEN c ELSE [c EXCEPT !.index = @ + 1]]
        /\ answer' = [answer EXCEPT ![r] = e]

\* IterCopied::next: the index only advances past an element.
CopiedNext(r) ==
    LET c == Step(r)
        e == GetElem(c)
    IN  /\ cursor' = [cursor EXCEPT ![r] = IF e = Nil THEN c ELSE [c EXCEPT !.index = @ + 1]]
        /\ answer' = [answer EXCEPT ![r] = e]

\* Iter::next: returns early at the end of the last chunk, otherwise the index
\* advances whether or not there was an element.
BorrowedNext ==
    LET c == Step(Borrower)
        end == c.index = CHUNK_CAP
    IN  /\ cursor' = [cursor EXCEPT ![Borrower] = IF end THEN c ELSE [c EXCEPT !.index = @ + 1]]
        /\ answer' = [answer EXCEPT ![Borrower] = IF end THEN Nil ELSE GetElem(c)]

NextOf(r) ==
    /\ Alive /\ cursor[r] # Nil
    /\ IF r = Borrower THEN BorrowedNext ELSE CopiedNext(r)
    /\ UNCHANGED <<chunk, head, tail, len, freed>>

M_Links == \* frees the first chunk only
    <<head>>

\* The chunks drop frees: the path from the head along next.
Links ==
    CHOOSE p \in UNION {[1..n -> DOMAIN chunk] : n \in DOMAIN chunk} :
        /\ p[1] = head
        /\ \A n \in 1..(Len(p) - 1) : p[n + 1] = chunk[p[n]].next
        /\ chunk[p[Len(p)]].next = Nil

Drop ==
    /\ Alive /\ cursor[Borrower] = Nil
    /\ freed' = Links
    /\ head' = Links[Len(Links)]
    /\ UNCHANGED <<chunk, tail, len, cursor, answer>>

Next ==
    \/ \E e \in Elem : Push(e)
    \/ \E r \in Readers : MakeIter(r) \/ NextOf(r)
    \/ \E r, s \in Iters : CopyIter(r, s)
    \/ EndBorrow
    \/ Drop

\* The loops over a queue call next() until it returns Nil, every round.
Fairness == \A r \in Iters : WF_vars(NextOf(r))

Spec == Init /\ [][Next]_vars /\ Fairness

-----------------------------------------------------------------------------
\* The places before chunk c, and the elements of all chunks in the order of
\* their allocation.
Before(c) == CHUNK_CAP * (c - 1)
ChunkAt(n) == CHOOSE c \in DOMAIN chunk : Before(c) < n /\ n <= Before(c) + CHUNK_CAP
Contents ==
    [n \in 1..(Before(Len(chunk)) + Len(chunk[Len(chunk)].elems)) |->
        chunk[ChunkAt(n)].elems[n - Before(ChunkAt(n))]]

\* How many elements an iterator has passed.
Position(r) ==
    LET c == cursor[r]
        here == Len(chunk[c.chunk].elems)
    IN  IF c = Nil THEN 0 ELSE Before(c.chunk) + (IF c.index <= here THEN c.index ELSE here)

\* The queue with its iterators behaves as a growing log with readers: a copied
\* iterator that stood at the end of a chunk, full or not, when the queue grew
\* is given every later element exactly once and in order, and Nil means that
\* it has had everything (util/chunked_queue.rs:125-142, 219-239).
Log == INSTANCE AppendLog WITH Reader <- Readers, log <- Contents,
         pos <- [r \in Readers |-> Position(r)]
ImplementsLog == Log!LogSpec

\* len() counts what the chunks hold, and only the last chunk has room: a push
\* never leaves a hole that an iterator would take for the end of the queue
\* (util/chunked_queue.rs:126-140).
ChunksPacked ==
    /\ len = Len(Contents)
    /\ \A c \in DOMAIN chunk : c # tail => Len(chunk[c].elems) = CHUNK_CAP

\* Dropping the queue frees every chunk ever linked, each once
\* (util/chunked_queue.rs:31-45).
DropFreesAll ==
    ~Alive => /\ Len(freed) = Len(chunk)
              /\ {freed[n] : n \in DOMAIN freed} = DOMAIN chunk

\* An iterator stays inside its chunk, only the last chunk has room, and drop
\* frees each chunk once (util/chunked_queue.rs:31-46, 126-140, 186-239).
QueueSound == TypeOK /\ ChunksPacked /\ DropFreesAll

\* Every element pushed is eventually given to every copied iterator that is
\* kept running (the worklists of the solver end only when next() says Nil:
\* util/chunked_queue.rs:219-239).
EveryElementDelivered ==
    \A r \in Iters, n \in 1..MaxPush :
        (Alive /\ cursor[r] # Nil /\ len >= n) ~> (Position(r) >= n \/ ~Alive)
=============================================================================
